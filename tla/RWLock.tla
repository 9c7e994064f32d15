------------------------------- MODULE RWLock -------------------------------
(***************************************************************************)
(* The read-write lock of WCDB: two counters of holders, one of waiting    *)
(* writers, a mutex around every operation and one condition variable for  *)
(* everybody who waits.  An action is what a thread does in one go while   *)
(* it has the mutex: m_cond.wait gives the mutex back, so a call that has  *)
(* to wait is one action for each time it looks.  The lock does not know   *)
(* who holds it.                                                           *)
(***************************************************************************)
EXTENDS Naturals, FiniteSets

CONSTANT Thread

ASSUME ThreadAssumption == IsFiniteSet(Thread)

VARIABLES
    m_reader,   \* the read locks held
    m_writer,   \* the write locks held
    m_pending,  \* the threads inside the loop of lockWrite
    call,       \* the loop each thread is inside of
    asleep      \* the threads in m_cond.wait, not notified yet

lockVars == <<m_reader, m_writer, m_pending, call, asleep>>

Call == {"none", "lockRead", "lockWrite"}

Init ==
    /\ m_reader = 0
    /\ m_writer = 0
    /\ m_pending = 0
    /\ call = [t \in Thread |-> "none"]
    /\ asleep = {}

ReadersWait == m_writer > 0 \/ m_pending > 0

WritersWait == m_writer > 0 \/ m_reader > 0

\* lockRead finds it has to wait, on entry or after it was woken.
WaitToRead(t) ==
    /\ t \notin asleep
    /\ call[t] \in {"none", "lockRead"}
    /\ ReadersWait
    /\ call' = [call EXCEPT ![t] = "lockRead"]
    /\ asleep' = asleep \cup {t}
    /\ UNCHANGED <<m_reader, m_writer, m_pending>>

\* Mutant: readers do not let a waiting writer go first.
LockRead_ReadersFirst(t) ==
    /\ t \notin asleep
    /\ call[t] \in {"none", "lockRead"}
    /\ m_writer = 0
    /\ m_reader' = m_reader + 1
    /\ call' = [call EXCEPT ![t] = "none"]
    /\ UNCHANGED <<m_writer, m_pending, asleep>>

\* lockRead takes the lock and returns.
LockRead(t) ==
    /\ t \notin asleep
    /\ call[t] \in {"none", "lockRead"}
    /\ ~ ReadersWait
    /\ m_reader' = m_reader + 1
    /\ call' = [call EXCEPT ![t] = "none"]
    /\ UNCHANGED <<m_writer, m_pending, asleep>>

\* Mutant: readers leave without waking anybody.
UnlockRead_NoNotify ==
    /\ m_reader > 0
    /\ m_reader' = m_reader - 1
    /\ UNCHANGED <<m_writer, m_pending, call, asleep>>

\* The last reader wakes everybody.
UnlockRead ==
    /\ m_reader > 0
    /\ m_reader' = m_reader - 1
    /\ asleep' = IF m_reader' = 0 THEN {} ELSE asleep
    /\ UNCHANGED <<m_writer, m_pending, call>>

\* lockWrite finds it has to wait; on entry it is counted as pending.
WaitToWrite(t) ==
    /\ t \notin asleep
    /\ call[t] \in {"none", "lockWrite"}
    /\ WritersWait
    /\ m_pending' = IF call[t] = "none" THEN m_pending + 1 ELSE m_pending
    /\ call' = [call EXCEPT ![t] = "lockWrite"]
    /\ asleep' = asleep \cup {t}
    /\ UNCHANGED <<m_reader, m_writer>>

LockWrite(t) ==
    /\ t \notin asleep
    /\ call[t] \in {"none", "lockWrite"}
    /\ ~ WritersWait
    /\ m_pending' = IF call[t] = "lockWrite" THEN m_pending - 1 ELSE m_pending
    /\ m_writer' = m_writer + 1
    /\ call' = [call EXCEPT ![t] = "none"]
    /\ UNCHANGED <<m_reader, asleep>>

\* Mutant: a writer leaves without waking anybody.
UnlockWrite_NoNotify ==
    /\ m_writer > 0
    /\ m_writer' = m_writer - 1
    /\ UNCHANGED <<m_reader, m_pending, call, asleep>>

UnlockWrite ==
    /\ m_writer > 0
    /\ m_writer' = m_writer - 1
    /\ asleep' = {}
    /\ UNCHANGED <<m_reader, m_pending, call>>

\* tryLockRead and tryLockWrite where they succeed; a failure changes
\* nothing.  tryLockWrite passes by the writers that wait.
TryLockRead ==
    /\ ~ ReadersWait
    /\ m_reader' = m_reader + 1
    /\ UNCHANGED <<m_writer, m_pending, call, asleep>>

TryLockWrite ==
    /\ ~ WritersWait
    /\ m_writer' = m_writer + 1
    /\ UNCHANGED <<m_reader, m_pending, call, asleep>>

IsWriting == m_writer > 0

IsReading == m_reader > 0

\* A condition variable may wake a thread nobody notified.
SpuriousWake(t) ==
    /\ t \in asleep
    /\ asleep' = asleep \ {t}
    /\ UNCHANGED <<m_reader, m_writer, m_pending, call>>

LockNext ==
    \/ \E t \in Thread :
        \/ WaitToRead(t)
        \/ LockRead(t)
        \/ WaitToWrite(t)
        \/ LockWrite(t)
        \/ SpuriousWake(t)
    \/ UnlockRead
    \/ UnlockWrite
    \/ TryLockRead
    \/ TryLockWrite

LockSpec == Init /\ [][LockNext]_lockVars

-----------------------------------------------------------------------------
(* Properties                                                              *)

LockTypeOK ==
    /\ {m_reader, m_writer, m_pending} \subseteq Nat
    /\ call \in [Thread -> Call]
    /\ asleep \subseteq Thread

\* One writer and no reader, or readers only.
Exclusion ==
    /\ m_writer \in {0, 1}
    /\ m_writer = 1 => m_reader = 0

\* Who sleeps is inside a loop of lockRead or lockWrite, the writers among
\* them are counted, and somebody who holds the lock is left to wake them:
\* no wake-up is ever lost.
NoLostWakeup ==
    /\ \A t \in asleep : call[t] # "none"
    /\ m_pending = Cardinality({t \in Thread : call[t] = "lockWrite"})
    /\ asleep # {} => m_writer > 0 \/ m_reader > 0 \/ \E t \in Thread \ asleep : call[t] = "lockWrite"

Abstract == INSTANCE ReadersWriters WITH
    readers <- m_reader, writing <- m_writer > 0, waiting <- m_pending

\* The lock is a read-write lock that prefers its writers.
ImplementsReadersWriters == Abstract!Spec

=============================================================================
