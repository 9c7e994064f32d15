-------------------------- MODULE HandlePoolProofs --------------------------
(***************************************************************************)
(* The lock and the pool that uses it, for every number of threads, of     *)
(* handles and of processors.                                              *)
(*                                                                         *)
(* The lock on its own: it excludes, it loses no wake-up, and it           *)
(* implements the abstract read-write lock.  Nothing is assumed of its     *)
(* callers but that they unlock only what is locked, which the guards of   *)
(* UnlockRead and UnlockWrite say.                                         *)
(*                                                                         *)
(* The pool: each of its steps is a step of the lock or leaves the lock    *)
(* alone, so what holds of the lock holds in it.  On top of that, every    *)
(* read lock belongs to a handle that is out or to a thread inside an      *)
(* operation, the write lock to one thread, and the counter is the number  *)
(* of handles there are, less those about to be counted.  These are sums   *)
(* over the threads: a step changes the portion of one thread.             *)
(***************************************************************************)
EXTENDS HandlePool, FiniteSetTheorems, TLAPS

\* The threads inside the loop of lockWrite.
Writers == {t \in Thread : call[t] = "lockWrite"}

\* The inductive invariant: exclusion needs nothing but the types; that no
\* wake-up is lost needs the count of the writers, by which readers wait.
LockInv == LockTypeOK /\ Exclusion /\ NoLostWakeup

\* Nobody is in a new lock, and nobody waits.
LEMMA LockInitEstablishes == Init => LockInv
<1> SUFFICES ASSUME Init PROVE LockInv
    OBVIOUS
<1>1. LockTypeOK /\ Exclusion
    BY DEF Init, LockTypeOK, Exclusion, Call
<1>2. {t \in Thread : call[t] = "lockWrite"} = {}
    BY DEF Init
<1>3. NoLostWakeup
    BY <1>2, FS_EmptySet DEF Init, NoLostWakeup
<1> QED
    BY <1>1, <1>3 DEF LockInv

\* The writers that wait are finitely many, so that they can be counted.
LEMMA WritersFinite == IsFiniteSet(Writers) /\ Cardinality(Writers) \in Nat
<1>1. Writers \subseteq Thread
    BY DEF Writers
<1>2. IsFiniteSet(Writers)
    BY <1>1, ThreadAssumption, FS_Subset
<1> QED
    BY <1>2, FS_CardinalityType

\* Somebody is pending exactly if some thread is inside the loop of lockWrite.
LEMMA PendingIsSomebody ==
    ASSUME LockInv PROVE m_pending > 0 <=> Writers # {}
<1>1. m_pending = Cardinality(Writers)
    BY DEF LockInv, NoLostWakeup, Writers
<1> QED
    BY <1>1, WritersFinite, FS_EmptySet

\* A thread that comes into the loop of lockWrite, or stays in it.
LEMMA WaitCounts ==
    ASSUME LockInv, NEW t \in Thread, WaitToWrite(t)
    PROVE m_pending' = Cardinality(Writers')
<1>1. m_pending = Cardinality(Writers)
    BY DEF LockInv, NoLostWakeup, Writers
<1>2. Writers' = Writers \cup {t}
    BY DEF LockInv, LockTypeOK, WaitToWrite, Writers
<1>3. CASE call[t] = "none"
    <2>1. t \notin Writers
        BY <1>3 DEF Writers
    <2> QED
        BY <1>1, <1>2, <1>3, <2>1, WritersFinite, FS_AddElement DEF WaitToWrite
<1>4. CASE call[t] = "lockWrite"
    <2>1. Writers' = Writers
        BY <1>2, <1>4 DEF Writers
    <2> QED
        BY <1>1, <1>4, <2>1 DEF WaitToWrite
<1> QED
    BY <1>3, <1>4 DEF WaitToWrite

\* A thread that takes the write lock, from the loop or at once.
LEMMA LockCounts ==
    ASSUME LockInv, NEW t \in Thread, LockWrite(t)
    PROVE /\ m_pending' = Cardinality(Writers')
          /\ m_pending' \in {m_pending, m_pending - 1} \cap Nat
<1>1. m_pending = Cardinality(Writers)
    BY DEF LockInv, NoLostWakeup, Writers
<1>2. Writers' = Writers \ {t}
    BY DEF LockInv, LockTypeOK, LockWrite, Writers
<1>3. CASE call[t] = "none"
    <2>1. t \notin Writers
        BY <1>3 DEF Writers
    <2>2. Writers' = Writers
        BY <1>2, <2>1
    <2>3. m_pending' = m_pending
        BY <1>3 DEF LockWrite
    <2> QED
        BY <1>1, <2>2, <2>3, WritersFinite
<1>4. CASE call[t] = "lockWrite"
    <2>1. t \in Writers
        BY <1>4 DEF Writers
    <2>2. m_pending > 0
        BY <2>1, PendingIsSomebody
    <2>3. m_pending' = m_pending - 1
        BY <1>4 DEF LockWrite
    <2>4. Cardinality(Writers') = Cardinality(Writers) - 1
        BY <1>2, <2>1, WritersFinite, FS_RemoveElement
    <2> QED
        BY <1>1, <2>2, <2>3, <2>4, WritersFinite
<1> QED
    BY <1>3, <1>4 DEF LockWrite

\* Every step of the lock preserves it, one case per action.
LEMMA LockStepPreserves == LockInv /\ [LockNext]_lockVars => LockInv'
<1> SUFFICES ASSUME LockInv, [LockNext]_lockVars PROVE LockInv'
    OBVIOUS
<1>0. m_pending = Cardinality(Writers)
    BY DEF LockInv, NoLostWakeup, Writers
<1>1. ASSUME NEW t \in Thread, WaitToRead(t) PROVE LockInv'
    <2>1. (LockTypeOK /\ Exclusion)'
        BY <1>1 DEF LockInv, LockTypeOK, Exclusion, WaitToRead, Call
    <2>2. Writers' = Writers
        BY <1>1 DEF LockInv, LockTypeOK, WaitToRead, Writers
    <2>3. m_writer > 0 \/ m_reader > 0 \/ \E u \in Thread \ asleep' : call'[u] = "lockWrite"
        <3> SUFFICES ASSUME ~ (m_writer > 0), ~ (m_reader > 0)
                     PROVE \E u \in Thread \ asleep' : call'[u] = "lockWrite"
            OBVIOUS
        <3>1. Writers # {}
            BY <1>1, PendingIsSomebody DEF WaitToRead, ReadersWait
        <3>2. \E u \in Writers : u \notin asleep
            BY <3>1 DEF LockInv, NoLostWakeup, Writers
        <3>3. t \notin Writers
            BY <1>1 DEF WaitToRead, Writers
        <3> QED
            BY <1>1, <3>2, <3>3 DEF LockInv, LockTypeOK, WaitToRead, Writers
    <2>4. \A u \in asleep' : call'[u] # "none"
        BY <1>1 DEF LockInv, LockTypeOK, NoLostWakeup, WaitToRead
    <2>5. NoLostWakeup'
        BY <1>0, <1>1, <2>2, <2>3, <2>4 DEF NoLostWakeup, WaitToRead, Writers
    <2> QED
        BY <2>1, <2>5 DEF LockInv
<1>2. ASSUME NEW t \in Thread, LockRead(t) PROVE LockInv'
    <2>1. (LockTypeOK /\ Exclusion)'
        BY <1>2 DEF LockInv, LockTypeOK, Exclusion, LockRead, ReadersWait, Call
    <2>2. Writers' = Writers
        BY <1>2 DEF LockInv, LockTypeOK, LockRead, Writers
    <2>3. \A u \in asleep' : call'[u] # "none"
        BY <1>2 DEF LockInv, LockTypeOK, NoLostWakeup, LockRead
    <2>4. m_reader' > 0
        BY <1>2 DEF LockInv, LockTypeOK, LockRead
    <2>5. NoLostWakeup'
        BY <1>0, <1>2, <2>2, <2>3, <2>4 DEF NoLostWakeup, LockRead, Writers
    <2> QED
        BY <2>1, <2>5 DEF LockInv
<1>3. ASSUME NEW t \in Thread, WaitToWrite(t) PROVE LockInv'
    <2>1. (LockTypeOK /\ Exclusion)'
        BY <1>3 DEF LockInv, LockTypeOK, Exclusion, WaitToWrite, Call
    <2>2. \A u \in asleep' : call'[u] # "none"
        BY <1>3 DEF LockInv, LockTypeOK, NoLostWakeup, WaitToWrite
    <2>3. m_writer' > 0 \/ m_reader' > 0
        BY <1>3 DEF WaitToWrite, WritersWait
    <2>4. NoLostWakeup'
        BY <1>3, <2>2, <2>3, WaitCounts DEF NoLostWakeup, Writers
    <2> QED
        BY <2>1, <2>4 DEF LockInv
<1>4. ASSUME NEW t \in Thread, LockWrite(t) PROVE LockInv'
    <2>0. m_pending' \in Nat
        BY <1>4, LockCounts
    <2>1. (LockTypeOK /\ Exclusion)'
        BY <1>4, <2>0 DEF LockInv, LockTypeOK, Exclusion, LockWrite, WritersWait, Call
    <2>2. \A u \in asleep' : call'[u] # "none"
        BY <1>4 DEF LockInv, LockTypeOK, NoLostWakeup, LockWrite
    <2>3. m_writer' > 0
        BY <1>4 DEF LockInv, LockTypeOK, LockWrite
    <2>4. NoLostWakeup'
        BY <1>4, <2>2, <2>3, LockCounts DEF NoLostWakeup, Writers
    <2> QED
        BY <2>1, <2>4 DEF LockInv
<1>5. ASSUME NEW t \in Thread, SpuriousWake(t) PROVE LockInv'
    <2>1. (LockTypeOK /\ Exclusion)'
        BY <1>5 DEF LockInv, LockTypeOK, Exclusion, SpuriousWake
    <2>2. NoLostWakeup'
        BY <1>5 DEF LockInv, NoLostWakeup, SpuriousWake
    <2> QED
        BY <2>1, <2>2 DEF LockInv
<1>6. CASE UnlockRead
    <2>1. (LockTypeOK /\ Exclusion)'
        BY <1>6 DEF LockInv, LockTypeOK, Exclusion, UnlockRead
    <2>2. asleep' # {} => m_reader' > 0
        BY <1>6 DEF LockInv, LockTypeOK, UnlockRead
    <2>3. NoLostWakeup'
        BY <1>6, <2>2 DEF LockInv, NoLostWakeup, UnlockRead
    <2> QED
        BY <2>1, <2>3 DEF LockInv
<1>7. CASE UnlockWrite
    <2>1. (LockTypeOK /\ Exclusion)'
        BY <1>7 DEF LockInv, LockTypeOK, Exclusion, UnlockWrite
    <2>2. NoLostWakeup'
        BY <1>7 DEF LockInv, NoLostWakeup, UnlockWrite
    <2> QED
        BY <2>1, <2>2 DEF LockInv
<1>8. CASE TryLockRead
    <2>1. (LockTypeOK /\ Exclusion)'
        BY <1>8 DEF LockInv, LockTypeOK, Exclusion, TryLockRead, ReadersWait
    <2>2. m_reader' > 0
        BY <1>8 DEF LockInv, LockTypeOK, TryLockRead
    <2>3. NoLostWakeup'
        BY <1>8, <2>2 DEF LockInv, NoLostWakeup, TryLockRead
    <2> QED
        BY <2>1, <2>3 DEF LockInv
<1>9. CASE TryLockWrite
    <2>1. (LockTypeOK /\ Exclusion)'
        BY <1>9 DEF LockInv, LockTypeOK, Exclusion, TryLockWrite, WritersWait
    <2>2. m_writer' > 0
        BY <1>9 DEF LockInv, LockTypeOK, TryLockWrite
    <2>3. NoLostWakeup'
        BY <1>9, <2>2 DEF LockInv, NoLostWakeup, TryLockWrite
    <2> QED
        BY <2>1, <2>3 DEF LockInv
<1>10. CASE UNCHANGED lockVars
    BY <1>10 DEF LockInv, LockTypeOK, Exclusion, NoLostWakeup, lockVars
<1> QED
    BY <1>1, <1>2, <1>3, <1>4, <1>5, <1>6, <1>7, <1>8, <1>9, <1>10 DEF LockNext

-----------------------------------------------------------------------------
(* Theorems                                                                *)

\* The invariant holds in every reachable state.
THEOREM LockInvAlways == LockSpec => []LockInv
<1> QED
    BY LockInitEstablishes, LockStepPreserves, PTL DEF LockSpec

\* Whatever calls are made by however many threads, the lock is held by one
\* writer and no reader, or by readers only.
THEOREM ExclusionAlways == LockSpec => []Exclusion
<1>1. LockInv => Exclusion
    BY DEF LockInv
<1> QED
    BY <1>1, LockInvAlways, PTL

\* Nobody sleeps in lockRead or lockWrite unless a thread that holds the
\* lock, or is about to take it for writing, is left to wake them.
THEOREM NoLostWakeupAlways == LockSpec => []NoLostWakeup
<1>1. LockInv => NoLostWakeup
    BY DEF LockInv
<1> QED
    BY <1>1, LockInvAlways, PTL

\* A new lock is a new abstract lock.
LEMMA LockInitImplements == Init => Abstract!Init
    BY DEF Init, Abstract!Init

\* Each step of the lock is one of the abstract lock, or none.
LEMMA LockStepImplements ==
    LockInv /\ [LockNext]_lockVars => [Abstract!Next]_Abstract!vars
<1> SUFFICES ASSUME LockInv, [LockNext]_lockVars PROVE [Abstract!Next]_Abstract!vars
    OBVIOUS
<1>1. ASSUME NEW t \in Thread, WaitToRead(t) PROVE UNCHANGED Abstract!vars
    BY <1>1 DEF WaitToRead, Abstract!vars
<1>2. ASSUME NEW t \in Thread, LockRead(t) PROVE Abstract!StartRead
    BY <1>2 DEF LockInv, LockTypeOK, Exclusion, LockRead, ReadersWait, Abstract!StartRead
<1>3. ASSUME NEW t \in Thread, WaitToWrite(t) PROVE [Abstract!AskToWrite]_Abstract!vars
    BY <1>3 DEF LockInv, LockTypeOK, Exclusion, WaitToWrite, WritersWait, Abstract!AskToWrite, Abstract!vars
<1>4. ASSUME NEW t \in Thread, LockWrite(t) PROVE Abstract!StartWrite
    <2>1. m_pending' \in {m_pending, m_pending - 1} \cap Nat
        BY <1>4, LockCounts
    <2>2. ~ m_writer > 0 /\ m_reader = 0 /\ m_writer' > 0 /\ m_reader' = m_reader
        BY <1>4 DEF LockInv, LockTypeOK, LockWrite, WritersWait
    <2> QED
        BY <2>1, <2>2 DEF Abstract!StartWrite
<1>5. ASSUME NEW t \in Thread, SpuriousWake(t) PROVE UNCHANGED Abstract!vars
    BY <1>5 DEF SpuriousWake, Abstract!vars
<1>6. CASE UnlockRead
    BY <1>6 DEF LockInv, LockTypeOK, Exclusion, UnlockRead, Abstract!EndRead, Abstract!Next
<1>7. CASE UnlockWrite
    BY <1>7 DEF LockInv, LockTypeOK, Exclusion, UnlockWrite, Abstract!EndWrite, Abstract!Next
<1>8. CASE TryLockRead
    BY <1>8 DEF LockInv, LockTypeOK, Exclusion, TryLockRead, ReadersWait, Abstract!StartRead, Abstract!Next
<1>9. CASE TryLockWrite
    BY <1>9 DEF LockInv, LockTypeOK, Exclusion, TryLockWrite, WritersWait, Abstract!StartWrite, Abstract!Next
<1>10. CASE UNCHANGED lockVars
    BY <1>10 DEF lockVars, Abstract!vars
<1> QED
    BY <1>1, <1>2, <1>3, <1>4, <1>5, <1>6, <1>7, <1>8, <1>9, <1>10 DEF LockNext, Abstract!Next

\* The lock, with its condition variable and its counters, is a read-write
\* lock that prefers its writers, for every number of threads.
THEOREM LockImplementsReadersWriters == LockSpec => ImplementsReadersWriters
<1> QED
    BY LockInvAlways, LockInitImplements, LockStepImplements, PTL
       DEF LockSpec, ImplementsReadersWriters, Abstract!Spec
-----------------------------------------------------------------------------
(* Sums over the threads                                                   *)

\* What one thread adds to a sum.
Portion(t, m) == {t} \X (1..m)

\* The set whose elements Tally counts.
Portions(n) == UNION {Portion(t, n[t]) : t \in Thread}

\* What it adds behind the first a.
More(t, a, d) == {t} \X (a + 1 .. a + d)

\* That is as much as it says.
LEMMA MoreCounts ==
    ASSUME NEW t, NEW a \in Nat, NEW d \in Nat
    PROVE  IsFiniteSet(More(t, a, d)) /\ Cardinality(More(t, a, d)) = d
<1>1. IsFiniteSet({t}) /\ Cardinality({t}) = 1
    BY FS_Singleton
<1>2. IsFiniteSet(a + 1 .. a + d) /\ Cardinality(a + 1 .. a + d) = d
    BY FS_Interval
<1> QED
    BY <1>1, <1>2, FS_Product DEF More

\* The portions of all threads are finitely many.
LEMMA PortionsFinite ==
    ASSUME NEW n \in [Thread -> Nat]
    PROVE  /\ IsFiniteSet(Portions(n))
           /\ Tally(n) = Cardinality(Portions(n))
           /\ Tally(n) \in Nat
<1>1. \A t \in Thread : IsFiniteSet(Portion(t, n[t]))
    <2> SUFFICES ASSUME NEW t \in Thread PROVE IsFiniteSet(Portion(t, n[t]))
        OBVIOUS
    <2>1. n[t] \in Int /\ 1 \in Int
        OBVIOUS
    <2>2. IsFiniteSet(1 .. n[t]) /\ IsFiniteSet({t})
        BY <2>1, FS_Interval, FS_Singleton
    <2> QED
        BY <2>2, FS_Product DEF Portion
<1>2. IsFiniteSet({Portion(t, n[t]) : t \in Thread})
    <2> DEFINE P == {Portion(t, n[t]) : t \in Thread}
               f == [t \in Thread |-> Portion(t, n[t])]
    <2>1. f \in Surjection(Thread, P)
        BY DEF Surjection
    <2> QED
        BY <2>1, ThreadAssumption, FS_Surjection
<1>3. IsFiniteSet(Portions(n))
    BY <1>1, <1>2, FS_UNION DEF Portions
<1>4. Tally(n) = Cardinality(Portions(n))
    BY DEF Tally, Portions, Portion
<1> QED
    BY <1>3, <1>4, FS_CardinalityType

\* A thread has more: the sum grows by as much.
LEMMA TallyGrows ==
    ASSUME NEW n \in [Thread -> Nat], NEW t \in Thread, NEW d \in Nat, NEW m,
           m = [n EXCEPT ![t] = @ + d]
    PROVE  /\ m \in [Thread -> Nat]
           /\ Tally(m) = Tally(n) + d
<1> DEFINE more == More(t, n[t], d)
<1>1. m \in [Thread -> Nat] /\ m[t] = n[t] + d /\ \A u \in Thread \ {t} : m[u] = n[u]
    OBVIOUS
<1>2. Portions(m) = Portions(n) \cup more
    <2>1. Portion(t, m[t]) = Portion(t, n[t]) \cup more
        BY <1>1 DEF Portion, More
    <2>2. \A u \in Thread \ {t} : Portion(u, m[u]) = Portion(u, n[u])
        BY <1>1
    <2> QED
        BY <2>1, <2>2 DEF Portions
<1>3. Portions(n) \cap more = {}
    BY DEF Portions, Portion, More
<1>4. IsFiniteSet(more) /\ Cardinality(more) = d
    <2>1. n[t] \in Nat
        OBVIOUS
    <2> QED
        BY <2>1, MoreCounts
<1>5. IsFiniteSet(Portions(n)) /\ Tally(n) = Cardinality(Portions(n)) /\ Tally(n) \in Nat
    BY PortionsFinite
<1>6. Tally(m) = Cardinality(Portions(m))
    BY <1>1, PortionsFinite
<1>7. Cardinality(Portions(m)) = Cardinality(Portions(n)) + Cardinality(more) - Cardinality({})
    <2> HIDE DEF more
    <2>1. Cardinality(Portions(n) \cup more)
              = Cardinality(Portions(n)) + Cardinality(more) - Cardinality(Portions(n) \cap more)
        BY <1>4, <1>5, FS_Union
    <2> QED
        BY <1>2, <1>3, <2>1
<1> QED
    BY <1>1, <1>4, <1>5, <1>6, <1>7, FS_EmptySet

\* A thread has less: the sum shrinks by as much.
LEMMA TallyShrinks ==
    ASSUME NEW n \in [Thread -> Nat], NEW m \in [Thread -> Nat], NEW t \in Thread,
           m[t] =< n[t], m = [n EXCEPT ![t] = m[t]]
    PROVE  Tally(n) = Tally(m) + (n[t] - m[t])
<1>1. n[t] - m[t] \in Nat
    OBVIOUS
<1>2. n = [m EXCEPT ![t] = @ + (n[t] - m[t])]
    OBVIOUS
<1> QED
    BY <1>1, <1>2, TallyGrows

\* The sum is of something.
LEMMA TallySome ==
    ASSUME NEW n \in [Thread -> Nat]
    PROVE  Tally(n) > 0 <=> \E t \in Thread : n[t] > 0
<1>1. IsFiniteSet(Portions(n)) /\ Tally(n) = Cardinality(Portions(n)) /\ Tally(n) \in Nat
    BY PortionsFinite
<1>2. Portions(n) # {} <=> \E t \in Thread : n[t] > 0
    <2>1. ASSUME NEW t \in Thread, n[t] > 0 PROVE <<t, 1>> \in Portions(n)
        BY <2>1 DEF Portions, Portion
    <2>2. ASSUME NEW p \in Portions(n) PROVE \E t \in Thread : n[t] > 0
        BY DEF Portions, Portion
    <2> QED
        BY <2>1, <2>2
<1> QED
    BY <1>1, <1>2, FS_EmptySet

-----------------------------------------------------------------------------
(* The pool                                                                *)

\* The types of the pool's own variables.
PoolTypes ==
    /\ m_handles \in Seq(Handle) /\ Len(m_handles) =< HardwareConcurrency
    /\ m_alive \in Int
    /\ pc \in [Thread -> Pc]
    /\ wrap \in [Thread -> Handle \cup {"none"}]
    /\ size \in [Thread -> 0..HardwareConcurrency]
    /\ held \in [Thread -> Seq(Handle)]
    /\ blockades \subseteq Thread
    /\ lost \in 0..MaxLost

\* A handle is in a thread's variable in these steps.
Wrapped == {"invoke", "push", "evict", "uncount", "destroy", "unlockFilled"}

\* What a thread's place in an operation says of its variables, of the lock
\* it asks for and of what it was allowed to call.
Places ==
    \A t \in Thread :
        /\ wrap[t] # "none" <=> pc[t] \in Wrapped
        /\ size[t] # 0 => pc[t] = "subtract"
        /\ call[t] = "lockRead" => pc[t] \in {"flowOut", "fillOne", "purge"}
        /\ call[t] = "lockWrite" => pc[t] \in {"close", "blockade"}
        /\ pc[t] \in {"flowOut", "pop", "check", "generate"} => "flowOut" \in MayCall[t]
        /\ pc[t] \in {"canOpen", "fillOne", "fill", "countFilled"} => "canOpen" \in MayCall[t]

\* The one read lock of a thread that is inside an operation that needs it.
Inside(step) == IF step \in Reading THEN 1 ELSE 0

\* The read locks of each thread: one for each handle it has, and that one.
Locks == [t \in Thread |-> Len(held[t]) + Inside(pc[t])]

\* The lock counts no reader but these.
ReadersHeld == m_reader = Tally(Locks)

\* The write lock of a thread.
HasWrite(t) == pc[t] = "closed" \/ t \in blockades

\* The lock is taken for writing if somebody has it, and one thread has it once.
WriterKnown ==
    /\ m_writer > 0 <=> \E t \in Thread : HasWrite(t)
    /\ \A t, u \in Thread : HasWrite(t) /\ HasWrite(u) => t = u
    /\ \A t \in Thread : pc[t] = "closed" => t \notin blockades

\* Whoever is about to call the callback of drain has emptied the pool.
ClosedIsEmpty == \A t \in Thread : pc[t] = "closed" => m_handles = <<>>

\* The threads that may count one more handle in without looking again.
Pledged == {t \in Thread : pc[t] \in {"generate", "fillOne", "fill", "countFilled"}}

\* A thread pledges itself only below the limit.  That is why the counter
\* stays as close to it as AliveBounded says.
PledgesBounded ==
    m_alive + Cardinality(Pledged) < MaxConcurrency + Cardinality(Openers)

\* The inductive invariant: the lock's, and who has it and why.
PoolInv ==
    /\ LockInv
    /\ PoolTypes
    /\ Places
    /\ ReadersHeld
    /\ WriterKnown
    /\ ClosedIsEmpty
    /\ AliveIsExact
    /\ PledgesBounded

\* What the pool does to the lock is a step of the lock.
LEMMA PoolStepsLock ==
    ASSUME [Next]_vars
    PROVE  [LockNext]_lockVars
<1>1. ASSUME NEW t \in Thread, CallFlowOut(t) PROVE [LockNext]_lockVars
    BY <1>1 DEF CallFlowOut, Enter, Goto, lockVars, pool, clients
<1>2. ASSUME NEW t \in Thread, CallFlowBack(t) PROVE [LockNext]_lockVars
    BY <1>2 DEF CallFlowBack, Goto, lockVars, pool
<1>3. ASSUME NEW t \in Thread, CallOther(t) PROVE [LockNext]_lockVars
    BY <1>3 DEF CallOther, Enter, Goto, lockVars, pool, clients
<1>4. ASSUME NEW t \in Thread, WaitForLock(t) PROVE [LockNext]_lockVars
    BY <1>4 DEF WaitForLock, ToRead, ToWrite, poolVars, LockNext
<1>5. ASSUME NEW t \in Thread, TakeReadLock(t) PROVE [LockNext]_lockVars
    BY <1>5 DEF TakeReadLock, ToRead, pool, clients, LockNext
<1>6. ASSUME NEW t \in Thread, StartDrain(t) PROVE [LockNext]_lockVars
    BY <1>6 DEF StartDrain, Goto, clients, LockNext
<1>7. ASSUME NEW t \in Thread, EndDrain(t) PROVE [LockNext]_lockVars
    BY <1>7 DEF EndDrain, Goto, pool, clients, LockNext
<1>8. ASSUME NEW t \in Thread, Blockade(t) PROVE [LockNext]_lockVars
    BY <1>8 DEF Blockade, Goto, pool, LockNext
<1>9. ASSUME NEW t \in Thread, PopBack(t) PROVE [LockNext]_lockVars
    BY <1>9 DEF PopBack, Goto, lockVars, clients
<1>10. ASSUME NEW t \in Thread, Check(t) PROVE [LockNext]_lockVars
    BY <1>10 DEF Check, Goto, lockVars, pool, clients
<1>11. ASSUME NEW t \in Thread, Generate(t) PROVE [LockNext]_lockVars
    BY <1>11 DEF Generate, Goto, lockVars, clients
<1>12. ASSUME NEW t \in Thread, Invoke(t) PROVE [LockNext]_lockVars
    BY <1>12 DEF Invoke, Goto, lockVars, pool
<1>13. ASSUME NEW t \in Thread, InvokeFails(t) PROVE [LockNext]_lockVars
    BY <1>13 DEF InvokeFails, Goto, lockVars, pool, clients
<1>14. ASSUME NEW t \in Thread, Unlock(t) PROVE [LockNext]_lockVars
    BY <1>14 DEF Unlock, Goto, pool, clients, LockNext
<1>15. ASSUME NEW t \in Thread, PushBack(t) PROVE [LockNext]_lockVars
    BY <1>15 DEF PushBack, Goto, HasRoom, lockVars, clients
<1>16. ASSUME NEW t \in Thread, UnlockEvicted(t) PROVE [LockNext]_lockVars
    BY <1>16 DEF UnlockEvicted, Goto, pool, clients, LockNext
<1>17. ASSUME NEW t \in Thread, Uncount(t) PROVE [LockNext]_lockVars
    BY <1>17 DEF Uncount, Goto, lockVars, clients
<1>18. ASSUME NEW t \in Thread, Destroy(t) PROVE [LockNext]_lockVars
    BY <1>18 DEF Destroy, Goto, lockVars, pool, clients
<1>19. ASSUME NEW t \in Thread, CanOpen(t) PROVE [LockNext]_lockVars
    BY <1>19 DEF CanOpen, Goto, lockVars, pool, clients
<1>20. ASSUME NEW t \in Thread, Fill(t) PROVE [LockNext]_lockVars
    BY <1>20 DEF Fill, Goto, HasRoom, lockVars, clients
<1>21. ASSUME NEW t \in Thread, CountFilled(t) PROVE [LockNext]_lockVars
    BY <1>21 DEF CountFilled, Goto, lockVars, clients
<1>22. ASSUME NEW t \in Thread, UnlockFilled(t) PROVE [LockNext]_lockVars
    BY <1>22 DEF UnlockFilled, Goto, pool, clients, LockNext
<1>23. ASSUME NEW t \in Thread, Clear(t) PROVE [LockNext]_lockVars
    BY <1>23 DEF Clear, Goto, lockVars, clients
<1>24. ASSUME NEW t \in Thread, Subtract(t) PROVE [LockNext]_lockVars
    BY <1>24 DEF Subtract, Goto, lockVars, clients
<1>25. ASSUME NEW t \in Thread, Unblockade(t) PROVE [LockNext]_lockVars
    BY <1>25 DEF Unblockade, pool, LockNext
<1>26. ASSUME NEW t \in Thread, Wake(t) PROVE [LockNext]_lockVars
    BY <1>26 DEF Wake, poolVars, LockNext
<1>27. ASSUME SetConfig PROVE [LockNext]_lockVars
    BY <1>27 DEF SetConfig
<1>28. ASSUME UNCHANGED vars PROVE [LockNext]_lockVars
    BY <1>28 DEF vars
<1> QED
    BY <1>1, <1>2, <1>3, <1>4, <1>5, <1>6, <1>7, <1>8, <1>9, <1>10, <1>11, <1>12, <1>13, <1>14, <1>15, <1>16, <1>17, <1>18, <1>19, <1>20, <1>21, <1>22, <1>23, <1>24, <1>25, <1>26, <1>27, <1>28
       DEF Next, CallNext, StepNext

\* The types are kept.
LEMMA TypesPreserved ==
    ASSUME PoolTypes, Places, [Next]_vars
    PROVE  PoolTypes'
<1>1. ASSUME NEW t \in Thread, CallFlowOut(t) PROVE PoolTypes'
    BY <1>1, PoolAssumption DEF CallFlowOut, Enter, Goto, lockVars, pool, clients, PoolTypes, Places, Handle, Pc, Reading, Wrapped
<1>2. ASSUME NEW t \in Thread, CallFlowBack(t) PROVE PoolTypes'
    BY <1>2, PoolAssumption DEF CallFlowBack, Goto, lockVars, pool, PoolTypes, Places, Handle, Pc, Reading, Wrapped
<1>3. ASSUME NEW t \in Thread, CallOther(t) PROVE PoolTypes'
    BY <1>3, PoolAssumption DEF CallOther, Enter, Goto, lockVars, pool, clients, PoolTypes, Places, Handle, Pc, Reading, Wrapped
<1>4. ASSUME NEW t \in Thread, WaitForLock(t) PROVE PoolTypes'
    BY <1>4, PoolAssumption DEF WaitForLock, ToRead, ToWrite, poolVars, PoolTypes, Places, Handle, Pc, Reading, Wrapped
<1>5. ASSUME NEW t \in Thread, TakeReadLock(t) PROVE PoolTypes'
    BY <1>5, PoolAssumption DEF TakeReadLock, ToRead, pool, clients, PoolTypes, Places, Handle, Pc, Reading, Wrapped
<1>6. ASSUME NEW t \in Thread, StartDrain(t) PROVE PoolTypes'
    BY <1>6, PoolAssumption DEF StartDrain, Goto, clients, PoolTypes, Places, Handle, Pc, Reading, Wrapped
<1>7. ASSUME NEW t \in Thread, EndDrain(t) PROVE PoolTypes'
    BY <1>7, PoolAssumption DEF EndDrain, Goto, pool, clients, PoolTypes, Places, Handle, Pc, Reading, Wrapped
<1>8. ASSUME NEW t \in Thread, Blockade(t) PROVE PoolTypes'
    BY <1>8, PoolAssumption DEF Blockade, Goto, pool, PoolTypes, Places, Handle, Pc, Reading, Wrapped
<1>9. ASSUME NEW t \in Thread, PopBack(t) PROVE PoolTypes'
    <2>1. CASE m_handles = <<>>
        BY <1>9, <2>1 DEF PopBack, Goto, lockVars, clients, PoolTypes, Pc, Reading
    <2>2. CASE m_handles # <<>>
        <3>1. /\ m_handles[Len(m_handles)] \in Handle
              /\ SubSeq(m_handles, 1, Len(m_handles) - 1) \in Seq(Handle)
              /\ Len(SubSeq(m_handles, 1, Len(m_handles) - 1)) =< HardwareConcurrency
            BY <2>2, PoolAssumption DEF PoolTypes
        <3> QED
            BY <1>9, <2>2, <3>1 DEF PopBack, Goto, lockVars, clients, PoolTypes, Pc, Reading
    <2> QED
        BY <2>1, <2>2
<1>10. ASSUME NEW t \in Thread, Check(t) PROVE PoolTypes'
    BY <1>10, PoolAssumption DEF Check, Goto, lockVars, pool, clients, PoolTypes, Places, Handle, Pc, Reading, Wrapped
<1>11. ASSUME NEW t \in Thread, Generate(t) PROVE PoolTypes'
    <2>1. CASE UNCHANGED <<wrap, m_alive>>
        BY <1>11, <2>1 DEF Generate, Goto, lockVars, clients, PoolTypes, Pc, Reading
    <2>2. CASE Goto(t, "generate", "invoke") /\ wrap' = [wrap EXCEPT ![t] = "current"] /\ m_alive' = m_alive + 1
        BY <1>11, <2>2 DEF Generate, Goto, lockVars, clients, PoolTypes, Handle, Pc, Reading
    <2> QED
        BY <1>11, <2>1, <2>2 DEF Generate
<1>12. ASSUME NEW t \in Thread, Invoke(t) PROVE PoolTypes'
    BY <1>12, PoolAssumption DEF Invoke, Goto, lockVars, pool, PoolTypes, Places, Handle, Pc, Reading, Wrapped
<1>13. ASSUME NEW t \in Thread, InvokeFails(t) PROVE PoolTypes'
    BY <1>13, PoolAssumption DEF InvokeFails, Goto, lockVars, pool, clients, PoolTypes, Places, Handle, Pc, Reading, Wrapped
<1>14. ASSUME NEW t \in Thread, Unlock(t) PROVE PoolTypes'
    BY <1>14, PoolAssumption DEF Unlock, Goto, pool, clients, PoolTypes, Places, Handle, Pc, Reading, Wrapped
<1>15. ASSUME NEW t \in Thread, PushBack(t) PROVE PoolTypes'
    <2>1. CASE HasRoom
        <3>1. wrap[t] \in Handle
            BY <1>15, <2>1 DEF PushBack, Goto, PoolTypes, Places, Wrapped
        <3>2. /\ Append(m_handles, wrap[t]) \in Seq(Handle)
              /\ Len(Append(m_handles, wrap[t])) =< HardwareConcurrency
            BY <2>1, <3>1, PoolAssumption DEF PoolTypes, HasRoom
        <3> QED
            BY <1>15, <2>1, <3>2 DEF PushBack, Goto, lockVars, clients, PoolTypes, Pc, Reading
    <2>2. CASE ~ HasRoom
        BY <1>15, <2>2 DEF PushBack, Goto, lockVars, clients, PoolTypes, Pc, Reading
    <2> QED
        BY <2>1, <2>2
<1>16. ASSUME NEW t \in Thread, UnlockEvicted(t) PROVE PoolTypes'
    BY <1>16, PoolAssumption DEF UnlockEvicted, Goto, pool, clients, PoolTypes, Places, Handle, Pc, Reading, Wrapped
<1>17. ASSUME NEW t \in Thread, Uncount(t) PROVE PoolTypes'
    BY <1>17, PoolAssumption DEF Uncount, Goto, lockVars, clients, PoolTypes, Places, Handle, Pc, Reading, Wrapped
<1>18. ASSUME NEW t \in Thread, Destroy(t) PROVE PoolTypes'
    BY <1>18, PoolAssumption DEF Destroy, Goto, lockVars, pool, clients, PoolTypes, Places, Handle, Pc, Reading, Wrapped
<1>19. ASSUME NEW t \in Thread, CanOpen(t) PROVE PoolTypes'
    BY <1>19, PoolAssumption DEF CanOpen, Goto, lockVars, pool, clients, PoolTypes, Places, Handle, Pc, Reading, Wrapped
<1>20. ASSUME NEW t \in Thread, Fill(t) PROVE PoolTypes'
    <2>1. CASE UNCHANGED <<m_handles, wrap>>
        BY <1>20, <2>1 DEF Fill, Goto, lockVars, clients, PoolTypes, Pc, Reading
    <2>2. CASE UNCHANGED m_handles /\ wrap' = [wrap EXCEPT ![t] = "current"]
        BY <1>20, <2>2 DEF Fill, Goto, lockVars, clients, PoolTypes, Handle, Pc, Reading
    <2>3. CASE HasRoom /\ m_handles' = Append(m_handles, "current") /\ UNCHANGED wrap
        <3>1. /\ Append(m_handles, "current") \in Seq(Handle)
              /\ Len(Append(m_handles, "current")) =< HardwareConcurrency
            BY <2>3, PoolAssumption DEF PoolTypes, HasRoom, Handle
        <3> QED
            BY <1>20, <2>3, <3>1 DEF Fill, Goto, lockVars, clients, PoolTypes, Pc, Reading
    <2> QED
        BY <1>20, <2>1, <2>2, <2>3 DEF Fill
<1>21. ASSUME NEW t \in Thread, CountFilled(t) PROVE PoolTypes'
    BY <1>21, PoolAssumption DEF CountFilled, Goto, lockVars, clients, PoolTypes, Places, Handle, Pc, Reading, Wrapped
<1>22. ASSUME NEW t \in Thread, UnlockFilled(t) PROVE PoolTypes'
    BY <1>22, PoolAssumption DEF UnlockFilled, Goto, pool, clients, PoolTypes, Places, Handle, Pc, Reading, Wrapped
<1>23. ASSUME NEW t \in Thread, Clear(t) PROVE PoolTypes'
    BY <1>23, PoolAssumption DEF Clear, Goto, lockVars, clients, PoolTypes, Places, Handle, Pc, Reading, Wrapped
<1>24. ASSUME NEW t \in Thread, Subtract(t) PROVE PoolTypes'
    BY <1>24, PoolAssumption DEF Subtract, Goto, lockVars, clients, PoolTypes, Places, Handle, Pc, Reading, Wrapped
<1>25. ASSUME NEW t \in Thread, Unblockade(t) PROVE PoolTypes'
    BY <1>25, PoolAssumption DEF Unblockade, pool, PoolTypes, Places, Handle, Pc, Reading, Wrapped
<1>26. ASSUME NEW t \in Thread, Wake(t) PROVE PoolTypes'
    BY <1>26, PoolAssumption DEF Wake, poolVars, PoolTypes, Places, Handle, Pc, Reading, Wrapped
<1>27. ASSUME SetConfig PROVE PoolTypes'
    BY <1>27, PoolAssumption DEF SetConfig, Stale, lockVars, PoolTypes, Places, Handle, Pc, Reading, Wrapped
<1>28. ASSUME UNCHANGED vars PROVE PoolTypes'
    BY <1>28, PoolAssumption DEF vars, lockVars, poolVars, PoolTypes, Places, Handle, Pc, Reading, Wrapped
<1> QED
    BY <1>1, <1>2, <1>3, <1>4, <1>5, <1>6, <1>7, <1>8, <1>9, <1>10, <1>11, <1>12, <1>13, <1>14, <1>15, <1>16, <1>17, <1>18, <1>19, <1>20, <1>21, <1>22, <1>23, <1>24, <1>25, <1>26, <1>27, <1>28
       DEF Next, CallNext, StepNext
\* The places are kept.
LEMMA PlacesPreserved ==
    ASSUME PoolTypes, LockTypeOK, Places, [Next]_vars
    PROVE  Places'
<1>1. ASSUME NEW t \in Thread, CallFlowOut(t) PROVE Places'
    BY <1>1 DEF CallFlowOut, Enter, Goto, lockVars, pool, clients, PoolTypes, LockTypeOK, Places, Handle, Wrapped
<1>2. ASSUME NEW t \in Thread, CallFlowBack(t) PROVE Places'
    <2>1. held[t][Len(held[t])] # "none"
        BY <1>2 DEF CallFlowBack, PoolTypes, Handle
    <2> QED
        BY <1>2, <2>1 DEF CallFlowBack, Goto, lockVars, pool, PoolTypes, LockTypeOK, Places, Wrapped
<1>3. ASSUME NEW t \in Thread, CallOther(t) PROVE Places'
    BY <1>3 DEF CallOther, Enter, Goto, lockVars, pool, clients, PoolTypes, LockTypeOK, Places, Handle, Wrapped
<1>4. ASSUME NEW t \in Thread, WaitForLock(t) PROVE Places'
    BY <1>4 DEF WaitForLock, ToRead, ToWrite, WaitToRead, WaitToWrite, poolVars, PoolTypes, LockTypeOK, Places, Handle, Wrapped
<1>5. ASSUME NEW t \in Thread, TakeReadLock(t) PROVE Places'
    BY <1>5 DEF TakeReadLock, ToRead, LockRead, pool, clients, PoolTypes, LockTypeOK, Places, Handle, Wrapped
<1>6. ASSUME NEW t \in Thread, StartDrain(t) PROVE Places'
    BY <1>6 DEF StartDrain, Goto, LockWrite, clients, PoolTypes, LockTypeOK, Places, Handle, Wrapped
<1>7. ASSUME NEW t \in Thread, EndDrain(t) PROVE Places'
    BY <1>7 DEF EndDrain, Goto, UnlockWrite, pool, clients, PoolTypes, LockTypeOK, Places, Handle, Wrapped
<1>8. ASSUME NEW t \in Thread, Blockade(t) PROVE Places'
    BY <1>8 DEF Blockade, Goto, LockWrite, pool, PoolTypes, LockTypeOK, Places, Handle, Wrapped
<1>9. ASSUME NEW t \in Thread, PopBack(t) PROVE Places'
    <2>1. CASE m_handles = <<>>
        BY <1>9, <2>1 DEF PopBack, Goto, lockVars, clients, PoolTypes, LockTypeOK, Places, Wrapped
    <2>2. CASE m_handles # <<>>
        <3>1. m_handles[Len(m_handles)] # "none"
            BY <2>2 DEF PoolTypes, Handle
        <3> QED
            BY <1>9, <2>2, <3>1 DEF PopBack, Goto, lockVars, clients, PoolTypes, LockTypeOK, Places, Wrapped
    <2> QED
        BY <2>1, <2>2
<1>10. ASSUME NEW t \in Thread, Check(t) PROVE Places'
    BY <1>10 DEF Check, Goto, lockVars, pool, clients, PoolTypes, LockTypeOK, Places, Handle, Wrapped
<1>11. ASSUME NEW t \in Thread, Generate(t) PROVE Places'
    BY <1>11 DEF Generate, Goto, lockVars, clients, PoolTypes, LockTypeOK, Places, Handle, Wrapped
<1>12. ASSUME NEW t \in Thread, Invoke(t) PROVE Places'
    BY <1>12 DEF Invoke, Goto, lockVars, pool, PoolTypes, LockTypeOK, Places, Handle, Wrapped
<1>13. ASSUME NEW t \in Thread, InvokeFails(t) PROVE Places'
    BY <1>13 DEF InvokeFails, Goto, lockVars, pool, clients, PoolTypes, LockTypeOK, Places, Handle, Wrapped
<1>14. ASSUME NEW t \in Thread, Unlock(t) PROVE Places'
    BY <1>14 DEF Unlock, Goto, UnlockRead, pool, clients, PoolTypes, LockTypeOK, Places, Handle, Wrapped
<1>15. ASSUME NEW t \in Thread, PushBack(t) PROVE Places'
    BY <1>15 DEF PushBack, Goto, HasRoom, lockVars, clients, PoolTypes, LockTypeOK, Places, Handle, Wrapped
<1>16. ASSUME NEW t \in Thread, UnlockEvicted(t) PROVE Places'
    BY <1>16 DEF UnlockEvicted, Goto, UnlockRead, pool, clients, PoolTypes, LockTypeOK, Places, Handle, Wrapped
<1>17. ASSUME NEW t \in Thread, Uncount(t) PROVE Places'
    BY <1>17 DEF Uncount, Goto, lockVars, clients, PoolTypes, LockTypeOK, Places, Handle, Wrapped
<1>18. ASSUME NEW t \in Thread, Destroy(t) PROVE Places'
    BY <1>18 DEF Destroy, Goto, lockVars, pool, clients, PoolTypes, LockTypeOK, Places, Handle, Wrapped
<1>19. ASSUME NEW t \in Thread, CanOpen(t) PROVE Places'
    BY <1>19 DEF CanOpen, Goto, lockVars, pool, clients, PoolTypes, LockTypeOK, Places, Handle, Wrapped
<1>20. ASSUME NEW t \in Thread, Fill(t) PROVE Places'
    BY <1>20 DEF Fill, Goto, HasRoom, lockVars, clients, PoolTypes, LockTypeOK, Places, Handle, Wrapped
<1>21. ASSUME NEW t \in Thread, CountFilled(t) PROVE Places'
    BY <1>21 DEF CountFilled, Goto, lockVars, clients, PoolTypes, LockTypeOK, Places, Handle, Wrapped
<1>22. ASSUME NEW t \in Thread, UnlockFilled(t) PROVE Places'
    BY <1>22 DEF UnlockFilled, Goto, UnlockRead, pool, clients, PoolTypes, LockTypeOK, Places, Handle, Wrapped
<1>23. ASSUME NEW t \in Thread, Clear(t) PROVE Places'
    BY <1>23 DEF Clear, Goto, lockVars, clients, PoolTypes, LockTypeOK, Places, Handle, Wrapped
<1>24. ASSUME NEW t \in Thread, Subtract(t) PROVE Places'
    BY <1>24 DEF Subtract, Goto, lockVars, clients, PoolTypes, LockTypeOK, Places, Handle, Wrapped
<1>25. ASSUME NEW t \in Thread, Unblockade(t) PROVE Places'
    BY <1>25 DEF Unblockade, UnlockWrite, pool, PoolTypes, LockTypeOK, Places, Handle, Wrapped
<1>26. ASSUME NEW t \in Thread, Wake(t) PROVE Places'
    BY <1>26 DEF Wake, SpuriousWake, poolVars, PoolTypes, LockTypeOK, Places, Handle, Wrapped
<1>27. ASSUME SetConfig PROVE Places'
    BY <1>27 DEF SetConfig, Stale, lockVars, PoolTypes, LockTypeOK, Places, Handle, Wrapped
<1>28. ASSUME UNCHANGED vars PROVE Places'
    BY <1>28 DEF vars, lockVars, poolVars, PoolTypes, LockTypeOK, Places, Handle, Wrapped
<1> QED
    BY <1>1, <1>2, <1>3, <1>4, <1>5, <1>6, <1>7, <1>8, <1>9, <1>10, <1>11, <1>12, <1>13, <1>14, <1>15, <1>16, <1>17, <1>18, <1>19, <1>20, <1>21, <1>22, <1>23, <1>24, <1>25, <1>26, <1>27, <1>28
       DEF Next, CallNext, StepNext
\* The read locks of a thread are so many.
LEMMA LocksTyped ==
    ASSUME PoolTypes PROVE Locks \in [Thread -> Nat]
    BY DEF PoolTypes, Locks, Inside

\* They change for one thread at a time.
LEMMA LocksMove ==
    ASSUME PoolTypes, PoolTypes', NEW t \in Thread,
           \A u \in Thread \ {t} : held'[u] = held[u] /\ pc'[u] = pc[u]
    PROVE  /\ Locks' \in [Thread -> Nat]
           /\ Locks' = [Locks EXCEPT ![t] = Locks'[t]]
           /\ Locks[t] = Len(held[t]) + Inside(pc[t])
           /\ Locks'[t] = Len(held'[t]) + Inside(pc'[t])
<1>1. Locks' \in [Thread -> Nat]
    BY DEF PoolTypes, Locks, Inside
<1>2. \A u \in Thread \ {t} : Locks'[u] = Locks[u]
    BY DEF Locks
<1>3. Locks \in [Thread -> Nat]
    BY LocksTyped
<1>4. Locks' = [Locks EXCEPT ![t] = Locks'[t]]
    BY <1>1, <1>2, <1>3
<1> QED
    BY <1>1, <1>4 DEF Locks

\* While a thread has a handle or is inside, nobody has the write lock.
LEMMA ReadingExcludes ==
    ASSUME PoolTypes, LockInv, ReadersHeld, WriterKnown, NEW t \in Thread,
           pc[t] \in Reading \/ held[t] # <<>>
    PROVE  m_reader > 0 /\ \A u \in Thread : ~ HasWrite(u)
<1>1. Locks \in [Thread -> Nat]
    BY LocksTyped
<1>2. Locks[t] > 0
    <2>1. Len(held[t]) \in Nat /\ (held[t] # <<>> => Len(held[t]) > 0)
        BY DEF PoolTypes
    <2>2. Locks[t] = Len(held[t]) + Inside(pc[t])
        BY DEF Locks
    <2>3. Inside(pc[t]) \in {0, 1} /\ (pc[t] \in Reading => Inside(pc[t]) = 1)
        BY DEF Inside
    <2> QED
        BY <2>1, <2>2, <2>3
<1>3. m_reader > 0
    BY <1>1, <1>2, TallySome DEF ReadersHeld
<1> QED
    BY <1>3 DEF LockInv, LockTypeOK, Exclusion, WriterKnown

\* Who has the write lock has it alone.
LEMMA WriterPreserved ==
    ASSUME PoolTypes, LockInv, LockInv', Places, ReadersHeld, WriterKnown, ClosedIsEmpty, [Next]_vars
    PROVE  WriterKnown' /\ ClosedIsEmpty'
<1>1. ASSUME NEW t \in Thread, CallFlowOut(t) PROVE WriterKnown' /\ ClosedIsEmpty'
    BY <1>1 DEF CallFlowOut, Enter, Goto, lockVars, pool, clients, PoolTypes, LockInv, LockTypeOK, Exclusion, WriterKnown, HasWrite, ClosedIsEmpty
<1>2. ASSUME NEW t \in Thread, CallFlowBack(t) PROVE WriterKnown' /\ ClosedIsEmpty'
    BY <1>2 DEF CallFlowBack, Goto, lockVars, pool, PoolTypes, LockInv, LockTypeOK, Exclusion, WriterKnown, HasWrite, ClosedIsEmpty
<1>3. ASSUME NEW t \in Thread, CallOther(t) PROVE WriterKnown' /\ ClosedIsEmpty'
    BY <1>3 DEF CallOther, Enter, Goto, lockVars, pool, clients, PoolTypes, LockInv, LockTypeOK, Exclusion, WriterKnown, HasWrite, ClosedIsEmpty
<1>4. ASSUME NEW t \in Thread, WaitForLock(t) PROVE WriterKnown' /\ ClosedIsEmpty'
    BY <1>4 DEF WaitForLock, ToRead, ToWrite, WaitToRead, WaitToWrite, poolVars, PoolTypes, LockInv, LockTypeOK, Exclusion, WriterKnown, HasWrite, ClosedIsEmpty
<1>5. ASSUME NEW t \in Thread, TakeReadLock(t) PROVE WriterKnown' /\ ClosedIsEmpty'
    BY <1>5 DEF TakeReadLock, ToRead, LockRead, pool, clients, PoolTypes, LockInv, LockTypeOK, Exclusion, WriterKnown, HasWrite, ClosedIsEmpty
<1>6. ASSUME NEW t \in Thread, StartDrain(t) PROVE WriterKnown' /\ ClosedIsEmpty'
    BY <1>6 DEF StartDrain, Goto, LockWrite, clients, PoolTypes, LockInv, LockTypeOK, Exclusion, WriterKnown, HasWrite, ClosedIsEmpty
<1>7. ASSUME NEW t \in Thread, EndDrain(t) PROVE WriterKnown' /\ ClosedIsEmpty'
    BY <1>7 DEF EndDrain, Goto, UnlockWrite, pool, clients, PoolTypes, LockInv, LockTypeOK, Exclusion, WriterKnown, HasWrite, ClosedIsEmpty
<1>8. ASSUME NEW t \in Thread, Blockade(t) PROVE WriterKnown' /\ ClosedIsEmpty'
    BY <1>8 DEF Blockade, Goto, LockWrite, pool, PoolTypes, LockInv, LockTypeOK, Exclusion, WriterKnown, HasWrite, ClosedIsEmpty
<1>9. ASSUME NEW t \in Thread, PopBack(t) PROVE WriterKnown' /\ ClosedIsEmpty'
    BY <1>9 DEF PopBack, Goto, lockVars, clients, PoolTypes, LockInv, LockTypeOK, Exclusion, WriterKnown, HasWrite, ClosedIsEmpty
<1>10. ASSUME NEW t \in Thread, Check(t) PROVE WriterKnown' /\ ClosedIsEmpty'
    BY <1>10 DEF Check, Goto, lockVars, pool, clients, PoolTypes, LockInv, LockTypeOK, Exclusion, WriterKnown, HasWrite, ClosedIsEmpty
<1>11. ASSUME NEW t \in Thread, Generate(t) PROVE WriterKnown' /\ ClosedIsEmpty'
    BY <1>11 DEF Generate, Goto, lockVars, clients, PoolTypes, LockInv, LockTypeOK, Exclusion, WriterKnown, HasWrite, ClosedIsEmpty
<1>12. ASSUME NEW t \in Thread, Invoke(t) PROVE WriterKnown' /\ ClosedIsEmpty'
    BY <1>12 DEF Invoke, Goto, lockVars, pool, PoolTypes, LockInv, LockTypeOK, Exclusion, WriterKnown, HasWrite, ClosedIsEmpty
<1>13. ASSUME NEW t \in Thread, InvokeFails(t) PROVE WriterKnown' /\ ClosedIsEmpty'
    BY <1>13 DEF InvokeFails, Goto, lockVars, pool, clients, PoolTypes, LockInv, LockTypeOK, Exclusion, WriterKnown, HasWrite, ClosedIsEmpty
<1>14. ASSUME NEW t \in Thread, Unlock(t) PROVE WriterKnown' /\ ClosedIsEmpty'
    BY <1>14 DEF Unlock, Goto, UnlockRead, pool, clients, PoolTypes, LockInv, LockTypeOK, Exclusion, WriterKnown, HasWrite, ClosedIsEmpty
<1>15. ASSUME NEW t \in Thread, PushBack(t) PROVE WriterKnown' /\ ClosedIsEmpty'
    <2>1. \A u \in Thread : ~ HasWrite(u)
        BY <1>15, ReadingExcludes DEF PushBack, Goto, Reading
    <2>2. UNCHANGED <<m_writer, blockades>> /\ \A u \in Thread : pc'[u] = "closed" => pc[u] = "closed"
        BY <1>15 DEF PushBack, Goto, lockVars, clients, PoolTypes
    <2> QED
        BY <2>1, <2>2 DEF WriterKnown, HasWrite, ClosedIsEmpty
<1>16. ASSUME NEW t \in Thread, UnlockEvicted(t) PROVE WriterKnown' /\ ClosedIsEmpty'
    BY <1>16 DEF UnlockEvicted, Goto, UnlockRead, pool, clients, PoolTypes, LockInv, LockTypeOK, Exclusion, WriterKnown, HasWrite, ClosedIsEmpty
<1>17. ASSUME NEW t \in Thread, Uncount(t) PROVE WriterKnown' /\ ClosedIsEmpty'
    BY <1>17 DEF Uncount, Goto, lockVars, clients, PoolTypes, LockInv, LockTypeOK, Exclusion, WriterKnown, HasWrite, ClosedIsEmpty
<1>18. ASSUME NEW t \in Thread, Destroy(t) PROVE WriterKnown' /\ ClosedIsEmpty'
    BY <1>18 DEF Destroy, Goto, lockVars, pool, clients, PoolTypes, LockInv, LockTypeOK, Exclusion, WriterKnown, HasWrite, ClosedIsEmpty
<1>19. ASSUME NEW t \in Thread, CanOpen(t) PROVE WriterKnown' /\ ClosedIsEmpty'
    BY <1>19 DEF CanOpen, Goto, lockVars, pool, clients, PoolTypes, LockInv, LockTypeOK, Exclusion, WriterKnown, HasWrite, ClosedIsEmpty
<1>20. ASSUME NEW t \in Thread, Fill(t) PROVE WriterKnown' /\ ClosedIsEmpty'
    <2>1. \A u \in Thread : ~ HasWrite(u)
        BY <1>20, ReadingExcludes DEF Fill, Goto, Reading
    <2>2. UNCHANGED <<m_writer, blockades>> /\ \A u \in Thread : pc'[u] = "closed" => pc[u] = "closed"
        BY <1>20 DEF Fill, Goto, lockVars, clients, PoolTypes
    <2> QED
        BY <2>1, <2>2 DEF WriterKnown, HasWrite, ClosedIsEmpty
<1>21. ASSUME NEW t \in Thread, CountFilled(t) PROVE WriterKnown' /\ ClosedIsEmpty'
    BY <1>21 DEF CountFilled, Goto, lockVars, clients, PoolTypes, LockInv, LockTypeOK, Exclusion, WriterKnown, HasWrite, ClosedIsEmpty
<1>22. ASSUME NEW t \in Thread, UnlockFilled(t) PROVE WriterKnown' /\ ClosedIsEmpty'
    BY <1>22 DEF UnlockFilled, Goto, UnlockRead, pool, clients, PoolTypes, LockInv, LockTypeOK, Exclusion, WriterKnown, HasWrite, ClosedIsEmpty
<1>23. ASSUME NEW t \in Thread, Clear(t) PROVE WriterKnown' /\ ClosedIsEmpty'
    BY <1>23 DEF Clear, Goto, lockVars, clients, PoolTypes, LockInv, LockTypeOK, Exclusion, WriterKnown, HasWrite, ClosedIsEmpty
<1>24. ASSUME NEW t \in Thread, Subtract(t) PROVE WriterKnown' /\ ClosedIsEmpty'
    BY <1>24 DEF Subtract, Goto, lockVars, clients, PoolTypes, LockInv, LockTypeOK, Exclusion, WriterKnown, HasWrite, ClosedIsEmpty
<1>25. ASSUME NEW t \in Thread, Unblockade(t) PROVE WriterKnown' /\ ClosedIsEmpty'
    BY <1>25 DEF Unblockade, UnlockWrite, pool, PoolTypes, LockInv, LockTypeOK, Exclusion, WriterKnown, HasWrite, ClosedIsEmpty
<1>26. ASSUME NEW t \in Thread, Wake(t) PROVE WriterKnown' /\ ClosedIsEmpty'
    BY <1>26 DEF Wake, SpuriousWake, poolVars, PoolTypes, LockInv, LockTypeOK, Exclusion, WriterKnown, HasWrite, ClosedIsEmpty
<1>27. ASSUME SetConfig PROVE WriterKnown' /\ ClosedIsEmpty'
    BY <1>27 DEF SetConfig, Stale, lockVars, PoolTypes, LockInv, LockTypeOK, Exclusion, WriterKnown, HasWrite, ClosedIsEmpty
<1>28. ASSUME UNCHANGED vars PROVE WriterKnown' /\ ClosedIsEmpty'
    BY <1>28 DEF vars, lockVars, poolVars, PoolTypes, LockInv, LockTypeOK, Exclusion, WriterKnown, HasWrite, ClosedIsEmpty
<1> QED
    BY <1>1, <1>2, <1>3, <1>4, <1>5, <1>6, <1>7, <1>8, <1>9, <1>10, <1>11, <1>12, <1>13, <1>14, <1>15, <1>16, <1>17, <1>18, <1>19, <1>20, <1>21, <1>22, <1>23, <1>24, <1>25, <1>26, <1>27, <1>28
       DEF Next, CallNext, StepNext
\* The lock counts those who read.
LEMMA ReadersPreserved ==
    ASSUME PoolTypes, PoolTypes', Places, ReadersHeld, [Next]_vars
    PROVE  ReadersHeld'
<1>0. Locks \in [Thread -> Nat] /\ Locks' \in [Thread -> Nat]
    BY LocksTyped DEF PoolTypes, Locks, Inside
<1>1. ASSUME NEW t \in Thread, CallFlowOut(t) PROVE ReadersHeld'
    <2>1. \A u \in Thread \ {t} : held'[u] = held[u] /\ pc'[u] = pc[u]
        BY <1>1 DEF CallFlowOut, Enter, Goto, lockVars, pool, clients, PoolTypes
    <2>2. held'[t] = held[t] /\ Inside(pc[t]) = Inside(pc'[t])
        BY <1>1 DEF CallFlowOut, Enter, Goto, lockVars, pool, clients, PoolTypes, Reading, Inside
    <2>3. m_reader' = m_reader
        BY <1>1 DEF CallFlowOut, Enter, Goto, lockVars, pool, clients
    <2>4. Locks'[t] = Locks[t] /\ Locks' = [Locks EXCEPT ![t] = Locks'[t]]
        BY <2>1, <2>2, LocksMove DEF PoolTypes
    <2>5. Locks' = Locks
        BY <1>0, <2>4
    <2> QED
        BY <2>3, <2>5 DEF ReadersHeld, Tally
<1>2. ASSUME NEW t \in Thread, CallFlowBack(t) PROVE ReadersHeld'
    <2>1. \A u \in Thread \ {t} : held'[u] = held[u] /\ pc'[u] = pc[u]
        BY <1>2 DEF CallFlowBack, Goto, lockVars, pool, PoolTypes
    <2>2. /\ Len(held[t]) = Len(held'[t]) + 1
          /\ Inside(pc[t]) = 0
          /\ Inside(pc'[t]) = 1
        <3>1. held'[t] = SubSeq(held[t], 1, Len(held[t]) - 1) /\ held[t] # <<>> /\ held[t] \in Seq(Handle)
            BY <1>2 DEF CallFlowBack, PoolTypes
        <3>2. Len(held[t]) = Len(held'[t]) + 1
            BY <3>1
        <3>3. pc[t] = "idle" /\ pc'[t] = "push"
            BY <1>2 DEF CallFlowBack, Goto, PoolTypes
        <3> QED
            BY <3>2, <3>3 DEF Reading, Inside
    <2>3. m_reader' = m_reader
        BY <1>2 DEF CallFlowBack, Goto, lockVars, pool
    <2>4. Locks'[t] = Locks[t] /\ Locks' = [Locks EXCEPT ![t] = Locks'[t]]
        BY <2>1, <2>2, LocksMove DEF PoolTypes
    <2>5. Locks' = Locks
        BY <1>0, <2>4
    <2> QED
        BY <2>3, <2>5 DEF ReadersHeld, Tally
<1>3. ASSUME NEW t \in Thread, CallOther(t) PROVE ReadersHeld'
    <2>1. \A u \in Thread \ {t} : held'[u] = held[u] /\ pc'[u] = pc[u]
        BY <1>3 DEF CallOther, Enter, Goto, lockVars, pool, clients, PoolTypes
    <2>2. held'[t] = held[t] /\ Inside(pc[t]) = Inside(pc'[t])
        BY <1>3 DEF CallOther, Enter, Goto, lockVars, pool, clients, PoolTypes, Reading, Inside
    <2>3. m_reader' = m_reader
        BY <1>3 DEF CallOther, Enter, Goto, lockVars, pool, clients
    <2>4. Locks'[t] = Locks[t] /\ Locks' = [Locks EXCEPT ![t] = Locks'[t]]
        BY <2>1, <2>2, LocksMove DEF PoolTypes
    <2>5. Locks' = Locks
        BY <1>0, <2>4
    <2> QED
        BY <2>3, <2>5 DEF ReadersHeld, Tally
<1>4. ASSUME NEW t \in Thread, WaitForLock(t) PROVE ReadersHeld'
    <2>1. Locks' = Locks
        BY <1>4 DEF WaitForLock, ToRead, ToWrite, poolVars, Locks
    <2>2. UNCHANGED m_reader
        BY <1>4 DEF WaitForLock, ToRead, ToWrite, WaitToRead, WaitToWrite, poolVars
    <2> QED
        BY <2>1, <2>2 DEF ReadersHeld, Tally
<1>5. ASSUME NEW t \in Thread, TakeReadLock(t) PROVE ReadersHeld'
    <2>1. \A u \in Thread \ {t} : held'[u] = held[u] /\ pc'[u] = pc[u]
        BY <1>5 DEF TakeReadLock, ToRead, pool, clients, PoolTypes
    <2>2. /\ held'[t] = held[t]
          /\ Inside(pc[t]) = 0
          /\ Inside(pc'[t]) = 1
        BY <1>5 DEF TakeReadLock, ToRead, pool, clients, PoolTypes, Reading, Inside
    <2>3. m_reader' = m_reader + 1
        BY <1>5 DEF TakeReadLock, ToRead, LockRead, pool, clients
    <2>4. /\ Locks' = [Locks EXCEPT ![t] = Locks'[t]]
          /\ Locks' \in [Thread -> Nat]
          /\ Locks[t] = Len(held[t]) + Inside(pc[t])
          /\ Locks'[t] = Len(held'[t]) + Inside(pc'[t])
        BY <2>1, LocksMove
    <2>5. Locks'[t] = Locks[t] + 1
        <3>1. Len(held[t]) \in Nat
            BY DEF PoolTypes
        <3> QED
            BY <2>2, <2>4, <3>1
    <2>6. Locks' = [Locks EXCEPT ![t] = @ + 1]
        BY <1>0, <2>4, <2>5
    <2> QED
        BY <1>0, <2>3, <2>6, TallyGrows DEF ReadersHeld, Tally
<1>6. ASSUME NEW t \in Thread, StartDrain(t) PROVE ReadersHeld'
    <2>1. \A u \in Thread \ {t} : held'[u] = held[u] /\ pc'[u] = pc[u]
        BY <1>6 DEF StartDrain, Goto, clients, PoolTypes
    <2>2. held'[t] = held[t] /\ Inside(pc[t]) = Inside(pc'[t])
        BY <1>6 DEF StartDrain, Goto, clients, PoolTypes, Reading, Inside
    <2>3. m_reader' = m_reader
        BY <1>6 DEF StartDrain, Goto, LockWrite, clients
    <2>4. Locks'[t] = Locks[t] /\ Locks' = [Locks EXCEPT ![t] = Locks'[t]]
        BY <2>1, <2>2, LocksMove DEF PoolTypes
    <2>5. Locks' = Locks
        BY <1>0, <2>4
    <2> QED
        BY <2>3, <2>5 DEF ReadersHeld, Tally
<1>7. ASSUME NEW t \in Thread, EndDrain(t) PROVE ReadersHeld'
    <2>1. \A u \in Thread \ {t} : held'[u] = held[u] /\ pc'[u] = pc[u]
        BY <1>7 DEF EndDrain, Goto, pool, clients, PoolTypes
    <2>2. held'[t] = held[t] /\ Inside(pc[t]) = Inside(pc'[t])
        BY <1>7 DEF EndDrain, Goto, pool, clients, PoolTypes, Reading, Inside
    <2>3. m_reader' = m_reader
        BY <1>7 DEF EndDrain, Goto, UnlockWrite, pool, clients
    <2>4. Locks'[t] = Locks[t] /\ Locks' = [Locks EXCEPT ![t] = Locks'[t]]
        BY <2>1, <2>2, LocksMove DEF PoolTypes
    <2>5. Locks' = Locks
        BY <1>0, <2>4
    <2> QED
        BY <2>3, <2>5 DEF ReadersHeld, Tally
<1>8. ASSUME NEW t \in Thread, Blockade(t) PROVE ReadersHeld'
    <2>1. \A u \in Thread \ {t} : held'[u] = held[u] /\ pc'[u] = pc[u]
        BY <1>8 DEF Blockade, Goto, pool, PoolTypes
    <2>2. held'[t] = held[t] /\ Inside(pc[t]) = Inside(pc'[t])
        BY <1>8 DEF Blockade, Goto, pool, PoolTypes, Reading, Inside
    <2>3. m_reader' = m_reader
        BY <1>8 DEF Blockade, Goto, LockWrite, pool
    <2>4. Locks'[t] = Locks[t] /\ Locks' = [Locks EXCEPT ![t] = Locks'[t]]
        BY <2>1, <2>2, LocksMove DEF PoolTypes
    <2>5. Locks' = Locks
        BY <1>0, <2>4
    <2> QED
        BY <2>3, <2>5 DEF ReadersHeld, Tally
<1>9. ASSUME NEW t \in Thread, PopBack(t) PROVE ReadersHeld'
    <2>1. \A u \in Thread \ {t} : held'[u] = held[u] /\ pc'[u] = pc[u]
        BY <1>9 DEF PopBack, Goto, lockVars, clients, PoolTypes
    <2>2. held'[t] = held[t] /\ Inside(pc[t]) = Inside(pc'[t])
        BY <1>9 DEF PopBack, Goto, lockVars, clients, PoolTypes, Reading, Inside
    <2>3. m_reader' = m_reader
        BY <1>9 DEF PopBack, Goto, lockVars, clients
    <2>4. Locks'[t] = Locks[t] /\ Locks' = [Locks EXCEPT ![t] = Locks'[t]]
        BY <2>1, <2>2, LocksMove DEF PoolTypes
    <2>5. Locks' = Locks
        BY <1>0, <2>4
    <2> QED
        BY <2>3, <2>5 DEF ReadersHeld, Tally
<1>10. ASSUME NEW t \in Thread, Check(t) PROVE ReadersHeld'
    <2>1. \A u \in Thread \ {t} : held'[u] = held[u] /\ pc'[u] = pc[u]
        BY <1>10 DEF Check, Goto, lockVars, pool, clients, PoolTypes
    <2>2. held'[t] = held[t] /\ Inside(pc[t]) = Inside(pc'[t])
        BY <1>10 DEF Check, Goto, lockVars, pool, clients, PoolTypes, Reading, Inside
    <2>3. m_reader' = m_reader
        BY <1>10 DEF Check, Goto, lockVars, pool, clients
    <2>4. Locks'[t] = Locks[t] /\ Locks' = [Locks EXCEPT ![t] = Locks'[t]]
        BY <2>1, <2>2, LocksMove DEF PoolTypes
    <2>5. Locks' = Locks
        BY <1>0, <2>4
    <2> QED
        BY <2>3, <2>5 DEF ReadersHeld, Tally
<1>11. ASSUME NEW t \in Thread, Generate(t) PROVE ReadersHeld'
    <2>1. \A u \in Thread \ {t} : held'[u] = held[u] /\ pc'[u] = pc[u]
        BY <1>11 DEF Generate, Goto, lockVars, clients, PoolTypes
    <2>2. held'[t] = held[t] /\ Inside(pc[t]) = Inside(pc'[t])
        BY <1>11 DEF Generate, Goto, lockVars, clients, PoolTypes, Reading, Inside
    <2>3. m_reader' = m_reader
        BY <1>11 DEF Generate, Goto, lockVars, clients
    <2>4. Locks'[t] = Locks[t] /\ Locks' = [Locks EXCEPT ![t] = Locks'[t]]
        BY <2>1, <2>2, LocksMove DEF PoolTypes
    <2>5. Locks' = Locks
        BY <1>0, <2>4
    <2> QED
        BY <2>3, <2>5 DEF ReadersHeld, Tally
<1>12. ASSUME NEW t \in Thread, Invoke(t) PROVE ReadersHeld'
    <2>1. \A u \in Thread \ {t} : held'[u] = held[u] /\ pc'[u] = pc[u]
        BY <1>12 DEF Invoke, Goto, lockVars, pool, PoolTypes
    <2>2. /\ Len(held'[t]) = Len(held[t]) + 1
          /\ Inside(pc[t]) = 1
          /\ Inside(pc'[t]) = 0
        BY <1>12 DEF Invoke, Goto, lockVars, pool, PoolTypes, Reading, Inside
    <2>3. m_reader' = m_reader
        BY <1>12 DEF Invoke, Goto, lockVars, pool
    <2>4. Locks'[t] = Locks[t] /\ Locks' = [Locks EXCEPT ![t] = Locks'[t]]
        BY <2>1, <2>2, LocksMove DEF PoolTypes
    <2>5. Locks' = Locks
        BY <1>0, <2>4
    <2> QED
        BY <2>3, <2>5 DEF ReadersHeld, Tally
<1>13. ASSUME NEW t \in Thread, InvokeFails(t) PROVE ReadersHeld'
    <2>1. \A u \in Thread \ {t} : held'[u] = held[u] /\ pc'[u] = pc[u]
        BY <1>13 DEF InvokeFails, Goto, lockVars, pool, clients, PoolTypes
    <2>2. held'[t] = held[t] /\ Inside(pc[t]) = Inside(pc'[t])
        BY <1>13 DEF InvokeFails, Goto, lockVars, pool, clients, PoolTypes, Reading, Inside
    <2>3. m_reader' = m_reader
        BY <1>13 DEF InvokeFails, Goto, lockVars, pool, clients
    <2>4. Locks'[t] = Locks[t] /\ Locks' = [Locks EXCEPT ![t] = Locks'[t]]
        BY <2>1, <2>2, LocksMove DEF PoolTypes
    <2>5. Locks' = Locks
        BY <1>0, <2>4
    <2> QED
        BY <2>3, <2>5 DEF ReadersHeld, Tally
<1>14. ASSUME NEW t \in Thread, Unlock(t) PROVE ReadersHeld'
    <2>1. \A u \in Thread \ {t} : held'[u] = held[u] /\ pc'[u] = pc[u]
        BY <1>14 DEF Unlock, Goto, pool, clients, PoolTypes
    <2>2. /\ held'[t] = held[t]
          /\ Inside(pc[t]) = 1
          /\ Inside(pc'[t]) = 0
        BY <1>14 DEF Unlock, Goto, pool, clients, PoolTypes, Reading, Inside
    <2>3. m_reader' = m_reader - 1
        BY <1>14 DEF Unlock, Goto, UnlockRead, pool, clients
    <2>4. /\ Locks' = [Locks EXCEPT ![t] = Locks'[t]]
          /\ Locks' \in [Thread -> Nat]
          /\ Locks[t] = Len(held[t]) + Inside(pc[t])
          /\ Locks'[t] = Len(held'[t]) + Inside(pc'[t])
        BY <2>1, LocksMove
    <2>5. Locks'[t] = Locks[t] - 1
        <3>1. Len(held[t]) \in Nat
            BY DEF PoolTypes
        <3> QED
            BY <2>2, <2>4, <3>1
    <2>6. Locks[t] \in Nat /\ Locks'[t] \in Nat
        BY <1>0, <2>4
    <2>7. Tally(Locks) = Tally(Locks') + 1
        <3>1. Locks'[t] =< Locks[t] /\ Locks[t] - Locks'[t] = 1
            BY <2>5, <2>6
        <3>2. Tally(Locks) = Tally(Locks') + (Locks[t] - Locks'[t])
            BY <1>0, <2>4, <3>1, TallyShrinks
        <3> QED
            BY <3>1, <3>2
    <2>8. Tally(Locks') \in Nat
        BY <2>4, PortionsFinite
    <2> QED
        BY <2>3, <2>7, <2>8 DEF ReadersHeld, Tally
<1>15. ASSUME NEW t \in Thread, PushBack(t) PROVE ReadersHeld'
    <2>1. \A u \in Thread \ {t} : held'[u] = held[u] /\ pc'[u] = pc[u]
        BY <1>15 DEF PushBack, Goto, HasRoom, lockVars, clients, PoolTypes
    <2>2. held'[t] = held[t] /\ Inside(pc[t]) = Inside(pc'[t])
        BY <1>15 DEF PushBack, Goto, HasRoom, lockVars, clients, PoolTypes, Reading, Inside
    <2>3. m_reader' = m_reader
        BY <1>15 DEF PushBack, Goto, HasRoom, lockVars, clients
    <2>4. Locks'[t] = Locks[t] /\ Locks' = [Locks EXCEPT ![t] = Locks'[t]]
        BY <2>1, <2>2, LocksMove DEF PoolTypes
    <2>5. Locks' = Locks
        BY <1>0, <2>4
    <2> QED
        BY <2>3, <2>5 DEF ReadersHeld, Tally
<1>16. ASSUME NEW t \in Thread, UnlockEvicted(t) PROVE ReadersHeld'
    <2>1. \A u \in Thread \ {t} : held'[u] = held[u] /\ pc'[u] = pc[u]
        BY <1>16 DEF UnlockEvicted, Goto, pool, clients, PoolTypes
    <2>2. /\ held'[t] = held[t]
          /\ Inside(pc[t]) = 1
          /\ Inside(pc'[t]) = 0
        BY <1>16 DEF UnlockEvicted, Goto, pool, clients, PoolTypes, Reading, Inside
    <2>3. m_reader' = m_reader - 1
        BY <1>16 DEF UnlockEvicted, Goto, UnlockRead, pool, clients
    <2>4. /\ Locks' = [Locks EXCEPT ![t] = Locks'[t]]
          /\ Locks' \in [Thread -> Nat]
          /\ Locks[t] = Len(held[t]) + Inside(pc[t])
          /\ Locks'[t] = Len(held'[t]) + Inside(pc'[t])
        BY <2>1, LocksMove
    <2>5. Locks'[t] = Locks[t] - 1
        <3>1. Len(held[t]) \in Nat
            BY DEF PoolTypes
        <3> QED
            BY <2>2, <2>4, <3>1
    <2>6. Locks[t] \in Nat /\ Locks'[t] \in Nat
        BY <1>0, <2>4
    <2>7. Tally(Locks) = Tally(Locks') + 1
        <3>1. Locks'[t] =< Locks[t] /\ Locks[t] - Locks'[t] = 1
            BY <2>5, <2>6
        <3>2. Tally(Locks) = Tally(Locks') + (Locks[t] - Locks'[t])
            BY <1>0, <2>4, <3>1, TallyShrinks
        <3> QED
            BY <3>1, <3>2
    <2>8. Tally(Locks') \in Nat
        BY <2>4, PortionsFinite
    <2> QED
        BY <2>3, <2>7, <2>8 DEF ReadersHeld, Tally
<1>17. ASSUME NEW t \in Thread, Uncount(t) PROVE ReadersHeld'
    <2>1. \A u \in Thread \ {t} : held'[u] = held[u] /\ pc'[u] = pc[u]
        BY <1>17 DEF Uncount, Goto, lockVars, clients, PoolTypes
    <2>2. held'[t] = held[t] /\ Inside(pc[t]) = Inside(pc'[t])
        BY <1>17 DEF Uncount, Goto, lockVars, clients, PoolTypes, Reading, Inside
    <2>3. m_reader' = m_reader
        BY <1>17 DEF Uncount, Goto, lockVars, clients
    <2>4. Locks'[t] = Locks[t] /\ Locks' = [Locks EXCEPT ![t] = Locks'[t]]
        BY <2>1, <2>2, LocksMove DEF PoolTypes
    <2>5. Locks' = Locks
        BY <1>0, <2>4
    <2> QED
        BY <2>3, <2>5 DEF ReadersHeld, Tally
<1>18. ASSUME NEW t \in Thread, Destroy(t) PROVE ReadersHeld'
    <2>1. \A u \in Thread \ {t} : held'[u] = held[u] /\ pc'[u] = pc[u]
        BY <1>18 DEF Destroy, Goto, lockVars, pool, clients, PoolTypes
    <2>2. held'[t] = held[t] /\ Inside(pc[t]) = Inside(pc'[t])
        BY <1>18 DEF Destroy, Goto, lockVars, pool, clients, PoolTypes, Reading, Inside
    <2>3. m_reader' = m_reader
        BY <1>18 DEF Destroy, Goto, lockVars, pool, clients
    <2>4. Locks'[t] = Locks[t] /\ Locks' = [Locks EXCEPT ![t] = Locks'[t]]
        BY <2>1, <2>2, LocksMove DEF PoolTypes
    <2>5. Locks' = Locks
        BY <1>0, <2>4
    <2> QED
        BY <2>3, <2>5 DEF ReadersHeld, Tally
<1>19. ASSUME NEW t \in Thread, CanOpen(t) PROVE ReadersHeld'
    <2>1. \A u \in Thread \ {t} : held'[u] = held[u] /\ pc'[u] = pc[u]
        BY <1>19 DEF CanOpen, Goto, lockVars, pool, clients, PoolTypes
    <2>2. held'[t] = held[t] /\ Inside(pc[t]) = Inside(pc'[t])
        BY <1>19 DEF CanOpen, Goto, lockVars, pool, clients, PoolTypes, Reading, Inside
    <2>3. m_reader' = m_reader
        BY <1>19 DEF CanOpen, Goto, lockVars, pool, clients
    <2>4. Locks'[t] = Locks[t] /\ Locks' = [Locks EXCEPT ![t] = Locks'[t]]
        BY <2>1, <2>2, LocksMove DEF PoolTypes
    <2>5. Locks' = Locks
        BY <1>0, <2>4
    <2> QED
        BY <2>3, <2>5 DEF ReadersHeld, Tally
<1>20. ASSUME NEW t \in Thread, Fill(t) PROVE ReadersHeld'
    <2>1. \A u \in Thread \ {t} : held'[u] = held[u] /\ pc'[u] = pc[u]
        BY <1>20 DEF Fill, Goto, HasRoom, lockVars, clients, PoolTypes
    <2>2. held'[t] = held[t] /\ Inside(pc[t]) = Inside(pc'[t])
        BY <1>20 DEF Fill, Goto, HasRoom, lockVars, clients, PoolTypes, Reading, Inside
    <2>3. m_reader' = m_reader
        BY <1>20 DEF Fill, Goto, HasRoom, lockVars, clients
    <2>4. Locks'[t] = Locks[t] /\ Locks' = [Locks EXCEPT ![t] = Locks'[t]]
        BY <2>1, <2>2, LocksMove DEF PoolTypes
    <2>5. Locks' = Locks
        BY <1>0, <2>4
    <2> QED
        BY <2>3, <2>5 DEF ReadersHeld, Tally
<1>21. ASSUME NEW t \in Thread, CountFilled(t) PROVE ReadersHeld'
    <2>1. \A u \in Thread \ {t} : held'[u] = held[u] /\ pc'[u] = pc[u]
        BY <1>21 DEF CountFilled, Goto, lockVars, clients, PoolTypes
    <2>2. held'[t] = held[t] /\ Inside(pc[t]) = Inside(pc'[t])
        BY <1>21 DEF CountFilled, Goto, lockVars, clients, PoolTypes, Reading, Inside
    <2>3. m_reader' = m_reader
        BY <1>21 DEF CountFilled, Goto, lockVars, clients
    <2>4. Locks'[t] = Locks[t] /\ Locks' = [Locks EXCEPT ![t] = Locks'[t]]
        BY <2>1, <2>2, LocksMove DEF PoolTypes
    <2>5. Locks' = Locks
        BY <1>0, <2>4
    <2> QED
        BY <2>3, <2>5 DEF ReadersHeld, Tally
<1>22. ASSUME NEW t \in Thread, UnlockFilled(t) PROVE ReadersHeld'
    <2>1. \A u \in Thread \ {t} : held'[u] = held[u] /\ pc'[u] = pc[u]
        BY <1>22 DEF UnlockFilled, Goto, pool, clients, PoolTypes
    <2>2. /\ held'[t] = held[t]
          /\ Inside(pc[t]) = 1
          /\ Inside(pc'[t]) = 0
        BY <1>22 DEF UnlockFilled, Goto, pool, clients, PoolTypes, Reading, Inside
    <2>3. m_reader' = m_reader - 1
        BY <1>22 DEF UnlockFilled, Goto, UnlockRead, pool, clients
    <2>4. /\ Locks' = [Locks EXCEPT ![t] = Locks'[t]]
          /\ Locks' \in [Thread -> Nat]
          /\ Locks[t] = Len(held[t]) + Inside(pc[t])
          /\ Locks'[t] = Len(held'[t]) + Inside(pc'[t])
        BY <2>1, LocksMove
    <2>5. Locks'[t] = Locks[t] - 1
        <3>1. Len(held[t]) \in Nat
            BY DEF PoolTypes
        <3> QED
            BY <2>2, <2>4, <3>1
    <2>6. Locks[t] \in Nat /\ Locks'[t] \in Nat
        BY <1>0, <2>4
    <2>7. Tally(Locks) = Tally(Locks') + 1
        <3>1. Locks'[t] =< Locks[t] /\ Locks[t] - Locks'[t] = 1
            BY <2>5, <2>6
        <3>2. Tally(Locks) = Tally(Locks') + (Locks[t] - Locks'[t])
            BY <1>0, <2>4, <3>1, TallyShrinks
        <3> QED
            BY <3>1, <3>2
    <2>8. Tally(Locks') \in Nat
        BY <2>4, PortionsFinite
    <2> QED
        BY <2>3, <2>7, <2>8 DEF ReadersHeld, Tally
<1>23. ASSUME NEW t \in Thread, Clear(t) PROVE ReadersHeld'
    <2>1. \A u \in Thread \ {t} : held'[u] = held[u] /\ pc'[u] = pc[u]
        BY <1>23 DEF Clear, Goto, lockVars, clients, PoolTypes
    <2>2. held'[t] = held[t] /\ Inside(pc[t]) = Inside(pc'[t])
        BY <1>23 DEF Clear, Goto, lockVars, clients, PoolTypes, Reading, Inside
    <2>3. m_reader' = m_reader
        BY <1>23 DEF Clear, Goto, lockVars, clients
    <2>4. Locks'[t] = Locks[t] /\ Locks' = [Locks EXCEPT ![t] = Locks'[t]]
        BY <2>1, <2>2, LocksMove DEF PoolTypes
    <2>5. Locks' = Locks
        BY <1>0, <2>4
    <2> QED
        BY <2>3, <2>5 DEF ReadersHeld, Tally
<1>24. ASSUME NEW t \in Thread, Subtract(t) PROVE ReadersHeld'
    <2>1. \A u \in Thread \ {t} : held'[u] = held[u] /\ pc'[u] = pc[u]
        BY <1>24 DEF Subtract, Goto, lockVars, clients, PoolTypes
    <2>2. held'[t] = held[t] /\ Inside(pc[t]) = Inside(pc'[t])
        BY <1>24 DEF Subtract, Goto, lockVars, clients, PoolTypes, Reading, Inside
    <2>3. m_reader' = m_reader
        BY <1>24 DEF Subtract, Goto, lockVars, clients
    <2>4. Locks'[t] = Locks[t] /\ Locks' = [Locks EXCEPT ![t] = Locks'[t]]
        BY <2>1, <2>2, LocksMove DEF PoolTypes
    <2>5. Locks' = Locks
        BY <1>0, <2>4
    <2> QED
        BY <2>3, <2>5 DEF ReadersHeld, Tally
<1>25. ASSUME NEW t \in Thread, Unblockade(t) PROVE ReadersHeld'
    <2>1. Locks' = Locks
        BY <1>25 DEF Unblockade, pool, Locks
    <2>2. UNCHANGED m_reader
        BY <1>25 DEF Unblockade, UnlockWrite, pool
    <2> QED
        BY <2>1, <2>2 DEF ReadersHeld, Tally
<1>26. ASSUME NEW t \in Thread, Wake(t) PROVE ReadersHeld'
    <2>1. Locks' = Locks
        BY <1>26 DEF Wake, poolVars, Locks
    <2>2. UNCHANGED m_reader
        BY <1>26 DEF Wake, SpuriousWake, poolVars
    <2> QED
        BY <2>1, <2>2 DEF ReadersHeld, Tally
<1>27. ASSUME SetConfig PROVE ReadersHeld'
    <2>1. Locks' = Locks
        BY <1>27 DEF SetConfig, Stale, PoolTypes, Locks
    <2>2. UNCHANGED m_reader
        BY <1>27 DEF SetConfig, lockVars
    <2> QED
        BY <2>1, <2>2 DEF ReadersHeld, Tally
<1>28. ASSUME UNCHANGED vars PROVE ReadersHeld'
    <2>1. Locks' = Locks
        BY <1>28 DEF vars, poolVars, Locks
    <2>2. UNCHANGED m_reader
        BY <1>28 DEF vars, lockVars
    <2> QED
        BY <2>1, <2>2 DEF ReadersHeld, Tally
<1> QED
    BY <1>1, <1>2, <1>3, <1>4, <1>5, <1>6, <1>7, <1>8, <1>9, <1>10, <1>11, <1>12, <1>13, <1>14, <1>15, <1>16, <1>17, <1>18, <1>19, <1>20, <1>21, <1>22, <1>23, <1>24, <1>25, <1>26, <1>27, <1>28
       DEF Next, CallNext, StepNext

\* A sum changes by what it changes for one thread.
LEMMA TallyMoves ==
    ASSUME NEW n \in [Thread -> Nat], NEW m \in [Thread -> Nat], NEW t \in Thread,
           m = [n EXCEPT ![t] = m[t]]
    PROVE  /\ Tally(n) \in Nat
           /\ Tally(m) = Tally(n) + (m[t] - n[t])
<1>1. Tally(n) \in Nat /\ Tally(m) \in Nat /\ n[t] \in Nat /\ m[t] \in Nat
    BY PortionsFinite
<1>2. CASE m[t] =< n[t]
    <2>1. Tally(n) = Tally(m) + (n[t] - m[t])
        BY <1>2, TallyShrinks
    <2> QED
        BY <1>1, <2>1
<1>3. CASE n[t] =< m[t]
    <2>1. n = [m EXCEPT ![t] = n[t]]
        OBVIOUS
    <2>2. Tally(m) = Tally(n) + (m[t] - n[t])
        BY <1>3, <2>1, TallyShrinks
    <2> QED
        BY <1>1, <2>2
<1> QED
    BY <1>1, <1>2, <1>3

\* A set of threads changes by one of them.
LEMMA SetMoves ==
    ASSUME NEW S, NEW T, S \subseteq Thread, T \subseteq Thread, NEW t \in Thread, S \ {t} = T \ {t}
    PROVE  /\ Cardinality(S) \in Nat
           /\ Cardinality(T) \in Nat
           /\ (t \in S <=> t \in T) => Cardinality(T) = Cardinality(S)
           /\ t \in T /\ t \notin S => Cardinality(T) = Cardinality(S) + 1
           /\ t \in S /\ t \notin T => Cardinality(T) = Cardinality(S) - 1
<1>1. IsFiniteSet(S) /\ IsFiniteSet(T)
    BY ThreadAssumption, FS_Subset
<1>2. Cardinality(S) \in Nat /\ Cardinality(T) \in Nat
    BY <1>1, FS_CardinalityType
<1>3. (t \in S <=> t \in T) => T = S
    OBVIOUS
<1>4. ASSUME t \in T, t \notin S PROVE Cardinality(T) = Cardinality(S) + 1
    <2>1. T = S \cup {t}
        BY <1>4
    <2> QED
        BY <1>1, <1>4, <2>1, FS_AddElement
<1>5. ASSUME t \in S, t \notin T PROVE Cardinality(T) = Cardinality(S) - 1
    <2>1. T = S \ {t}
        BY <1>5
    <2> QED
        BY <1>1, <1>5, <2>1, FS_RemoveElement
<1> QED
    BY <1>2, <1>3, <1>4, <1>5

\* The one handle that a thread is about to count in.
Filled(step) == IF step = "countFilled" THEN 1 ELSE 0

\* What one thread and the list make of the difference between the counter
\* and the handles.
Balance(t) == m_alive + Filled(pc[t]) - (Len(m_handles) + lost + Share[t])

\* The counter stays exact if one thread moves and keeps the balance.
LEMMA ExactMoves ==
    ASSUME PoolTypes, PoolTypes', AliveIsExact, NEW t \in Thread,
           \A u \in Thread \ {t} : held'[u] = held[u] /\ size'[u] = size[u] /\ pc'[u] = pc[u],
           Balance(t)' = Balance(t)
    PROVE  AliveIsExact'
<1>1. Share \in [Thread -> Nat] /\ Share' \in [Thread -> Nat]
    <2>1. \A u \in Thread : /\ Len(held[u]) \in Nat /\ size[u] \in Nat
                            /\ Len(held'[u]) \in Nat /\ size'[u] \in Nat
        BY PoolAssumption DEF PoolTypes
    <2>2. \A step : Counts(step) \in Nat
        BY DEF Counts
    <2> QED
        BY <2>1, <2>2 DEF Share
<1>2. \A u \in Thread \ {t} : Share'[u] = Share[u]
    BY DEF Share
<1>3. Share' = [Share EXCEPT ![t] = Share'[t]]
    BY <1>1, <1>2
<1>4. Tally(Share) \in Nat /\ Tally(Share') = Tally(Share) + (Share'[t] - Share[t])
    BY <1>1, <1>3, TallyMoves
<1>6. /\ Cardinality(CountingIn) \in Nat
      /\ Cardinality(CountingIn') = Cardinality(CountingIn) + (Filled(pc'[t]) - Filled(pc[t]))
    <2>1. CountingIn \subseteq Thread /\ CountingIn' \subseteq Thread /\ CountingIn \ {t} = CountingIn' \ {t}
        BY DEF CountingIn
    <2>2. /\ t \in CountingIn <=> pc[t] = "countFilled"
          /\ t \in CountingIn' <=> pc'[t] = "countFilled"
        BY DEF CountingIn
    <2>3. /\ Cardinality(CountingIn) \in Nat
          /\ Cardinality(CountingIn') \in Nat
          /\ (t \in CountingIn <=> t \in CountingIn') => Cardinality(CountingIn') = Cardinality(CountingIn)
          /\ t \in CountingIn' /\ t \notin CountingIn => Cardinality(CountingIn') = Cardinality(CountingIn) + 1
          /\ t \in CountingIn /\ t \notin CountingIn' => Cardinality(CountingIn') = Cardinality(CountingIn) - 1
        BY <2>1, SetMoves
    <2> QED
        BY <2>2, <2>3 DEF Filled
<1>7. m_alive \in Int /\ Len(m_handles) \in Nat /\ lost \in Nat /\ Filled(pc[t]) \in Nat /\ Share[t] \in Nat
    BY <1>1, PoolAssumption DEF PoolTypes, Filled
<1>8. m_alive' \in Int /\ Len(m_handles') \in Nat /\ lost' \in Nat /\ Filled(pc'[t]) \in Nat /\ Share'[t] \in Nat
    BY <1>1, PoolAssumption DEF PoolTypes, Filled
<1>9. m_alive' + Filled(pc'[t]) - (Len(m_handles') + lost' + Share'[t])
          = m_alive + Filled(pc[t]) - (Len(m_handles) + lost + Share[t])
    BY DEF Balance
<1>10. m_alive + Cardinality(CountingIn) = Len(m_handles) + lost + Tally(Share)
    BY DEF AliveIsExact
<1>11. m_alive' + Cardinality(CountingIn') = Len(m_handles') + lost' + Tally(Share')
    <2>1. PICK a \in Int : a = m_alive
        BY <1>7
    <2>2. PICK b \in Int : b = m_alive'
        BY <1>8
    <2>3. PICK x \in Int : x = Len(m_handles) + lost
        BY <1>7
    <2>4. PICK y \in Int : y = Len(m_handles') + lost'
        BY <1>8
    <2>5. PICK f \in Int : f = Filled(pc[t])
        BY <1>7
    <2>6. PICK g \in Int : g = Filled(pc'[t])
        BY <1>8
    <2>7. PICK r \in Int : r = Share[t]
        BY <1>7
    <2>8. PICK s \in Int : s = Share'[t]
        BY <1>8
    <2>9. PICK c \in Int : c = Cardinality(CountingIn)
        BY <1>6
    <2>10. PICK u \in Int : u = Tally(Share)
        BY <1>4
    <2>11. b + g - (y + s) = a + f - (x + r)
        BY <1>9, <2>1, <2>2, <2>3, <2>4, <2>5, <2>6, <2>7, <2>8
    <2>12. a + c = x + u
        BY <1>10, <2>1, <2>3, <2>9, <2>10
    <2>13. Cardinality(CountingIn') = c + (g - f) /\ Tally(Share') = u + (s - r)
        BY <1>4, <1>6, <2>5, <2>6, <2>7, <2>8, <2>9, <2>10
    <2>14. \A i, j, k, l, m, n, o, p, q, v \in Int :
              j + n - (l + p) = i + m - (k + o) /\ i + q = k + v
                  => j + (q + (n - m)) = l + (v + (p - o))
        OBVIOUS
    <2>15. b + (c + (g - f)) = y + (u + (s - r))
        BY <2>11, <2>12, <2>14
    <2> QED
        BY <2>2, <2>4, <2>13, <2>15
<1> QED
    BY <1>11 DEF AliveIsExact, Tally

\* What a step of t adds to the counter, to the handles t is about to count
\* in, to the list, to those dropped and to those t answers for.
Adds(t, alive, filled, free, dropped, own) ==
    /\ \A u \in Thread \ {t} : held'[u] = held[u] /\ size'[u] = size[u] /\ pc'[u] = pc[u]
    /\ m_alive' = m_alive + alive
    /\ Filled(pc'[t]) = Filled(pc[t]) + filled
    /\ Len(m_handles') = Len(m_handles) + free
    /\ lost' = lost + dropped
    /\ Len(held'[t]) + size'[t] + Counts(pc'[t]) = Len(held[t]) + size[t] + Counts(pc[t]) + own

\* The counter stays exact if it adds up.
LEMMA AddsUp ==
    ASSUME PoolTypes, PoolTypes', AliveIsExact, NEW t \in Thread,
           NEW alive \in Int, NEW filled \in Int, NEW free \in Int, NEW dropped \in Int, NEW own \in Int,
           Adds(t, alive, filled, free, dropped, own),
           alive + filled = free + dropped + own
    PROVE  AliveIsExact'
<1>1. Share[t] = Len(held[t]) + size[t] + Counts(pc[t])
    BY DEF Share
<1>2. Share'[t] = Len(held'[t]) + size'[t] + Counts(pc'[t])
    BY DEF Share
<1>3. Share'[t] = Share[t] + own
    BY <1>1, <1>2 DEF Adds
<1>4. m_alive \in Int /\ Len(m_handles) \in Int /\ lost \in Int
    BY PoolAssumption DEF PoolTypes
<1>5. Filled(pc[t]) \in Int /\ Share[t] \in Int
    <2>1. Len(held[t]) \in Nat /\ size[t] \in Nat
        BY PoolAssumption DEF PoolTypes
    <2>2. Counts(pc[t]) \in Nat
        BY DEF Counts
    <2>3. Filled(pc[t]) \in Int
        BY DEF Filled
    <2>4. Share[t] \in Int
        BY <1>1, <2>1, <2>2
    <2> QED
        BY <2>3, <2>4
<1>6. PICK a \in Int : a = m_alive
    BY <1>4
<1>7. PICK f \in Int : f = Filled(pc[t])
    BY <1>5
<1>8. PICK n \in Int : n = Len(m_handles) + lost
    BY <1>4
<1>9. PICK s \in Int : s = Share[t]
    BY <1>5
<1>10. (a + alive) + (f + filled) - ((n + free + dropped) + (s + own)) = a + f - (n + s)
    OBVIOUS
<1>11. m_alive' = a + alive /\ Filled(pc'[t]) = f + filled /\ Share'[t] = s + own
    BY <1>3, <1>6, <1>7, <1>9 DEF Adds
<1>12. Len(m_handles') + lost' = n + free + dropped
    <2>1. Len(m_handles') = Len(m_handles) + free /\ lost' = lost + dropped
        BY DEF Adds
    <2> QED
        BY <1>4, <1>8, <2>1
<1>13. m_alive' + Filled(pc'[t]) - (Len(m_handles') + lost' + Share'[t]) = a + f - (n + s)
    BY <1>10, <1>11, <1>12
<1>14. Balance(t)' = Balance(t)
    BY <1>6, <1>7, <1>8, <1>9, <1>13 DEF Balance
<1> QED
    BY <1>14, ExactMoves DEF Adds

\* The counter stays exact.
LEMMA ExactPreserved ==
    ASSUME PoolTypes, PoolTypes', Places, AliveIsExact, [Next]_vars
    PROVE  AliveIsExact'
<1>1. ASSUME NEW t \in Thread, CallFlowOut(t) PROVE AliveIsExact'
    <2>1. Share' = Share /\ CountingIn' = CountingIn
        BY <1>1 DEF CallFlowOut, Enter, Goto, lockVars, pool, clients, PoolTypes, Share, Counts, CountingIn
    <2>2. m_alive' = m_alive /\ Len(m_handles') = Len(m_handles) /\ lost' = lost
        BY <1>1 DEF CallFlowOut, Enter, Goto, lockVars, pool, clients
    <2> QED
        BY <2>1, <2>2 DEF AliveIsExact, Tally
<1>2. ASSUME NEW t \in Thread, CallFlowBack(t) PROVE AliveIsExact'
    <2>1. \A u \in Thread \ {t} : held'[u] = held[u] /\ size'[u] = size[u] /\ pc'[u] = pc[u]
        BY <1>2 DEF CallFlowBack, Goto, lockVars, pool, PoolTypes
    <2>2. m_alive' = m_alive + 0 /\ lost' = lost + 0
        BY <1>2 DEF CallFlowBack, Goto, lockVars, pool, PoolTypes
    <2>3. Len(m_handles') = Len(m_handles) + 0
        BY <1>2 DEF CallFlowBack, Goto, lockVars, pool, PoolTypes
    <2>4. Filled(pc'[t]) = Filled(pc[t]) + 0
        BY <1>2 DEF CallFlowBack, Goto, lockVars, pool, PoolTypes, Filled
    <2>5. Len(held'[t]) + size'[t] + Counts(pc'[t]) = Len(held[t]) + size[t] + Counts(pc[t]) + 0
        BY <1>2 DEF CallFlowBack, Goto, lockVars, pool, PoolTypes, Counts
    <2>6. Adds(t, 0, 0, 0, 0, 0)
        BY <2>1, <2>2, <2>3, <2>4, <2>5 DEF Adds
    <2> QED
        BY <2>6, AddsUp
<1>3. ASSUME NEW t \in Thread, CallOther(t) PROVE AliveIsExact'
    <2>1. Share' = Share /\ CountingIn' = CountingIn
        BY <1>3 DEF CallOther, Enter, Goto, lockVars, pool, clients, PoolTypes, Share, Counts, CountingIn
    <2>2. m_alive' = m_alive /\ Len(m_handles') = Len(m_handles) /\ lost' = lost
        BY <1>3 DEF CallOther, Enter, Goto, lockVars, pool, clients
    <2> QED
        BY <2>1, <2>2 DEF AliveIsExact, Tally
<1>4. ASSUME NEW t \in Thread, WaitForLock(t) PROVE AliveIsExact'
    <2>1. Share' = Share /\ CountingIn' = CountingIn
        BY <1>4 DEF WaitForLock, ToRead, ToWrite, poolVars, PoolTypes, Share, Counts, CountingIn
    <2>2. m_alive' = m_alive /\ Len(m_handles') = Len(m_handles) /\ lost' = lost
        BY <1>4 DEF WaitForLock, ToRead, ToWrite, poolVars
    <2> QED
        BY <2>1, <2>2 DEF AliveIsExact, Tally
<1>5. ASSUME NEW t \in Thread, TakeReadLock(t) PROVE AliveIsExact'
    <2>1. Share' = Share /\ CountingIn' = CountingIn
        BY <1>5 DEF TakeReadLock, ToRead, pool, clients, PoolTypes, Share, Counts, CountingIn
    <2>2. m_alive' = m_alive /\ Len(m_handles') = Len(m_handles) /\ lost' = lost
        BY <1>5 DEF TakeReadLock, ToRead, pool, clients
    <2> QED
        BY <2>1, <2>2 DEF AliveIsExact, Tally
<1>6. ASSUME NEW t \in Thread, StartDrain(t) PROVE AliveIsExact'
    <2>1. \A u \in Thread \ {t} : held'[u] = held[u] /\ size'[u] = size[u] /\ pc'[u] = pc[u]
        BY <1>6 DEF StartDrain, Goto, clients, PoolTypes
    <2>2. m_alive' = m_alive + (-Len(m_handles)) /\ lost' = lost + 0
        BY <1>6 DEF StartDrain, Goto, clients, PoolTypes
    <2>3. Len(m_handles') = Len(m_handles) + (-Len(m_handles))
        BY <1>6 DEF StartDrain, Goto, clients, PoolTypes
    <2>4. Filled(pc'[t]) = Filled(pc[t]) + 0
        BY <1>6 DEF StartDrain, Goto, clients, PoolTypes, Filled
    <2>5. Len(held'[t]) + size'[t] + Counts(pc'[t]) = Len(held[t]) + size[t] + Counts(pc[t]) + 0
        BY <1>6 DEF StartDrain, Goto, clients, PoolTypes, Counts
    <2>6. Adds(t, -Len(m_handles), 0, -Len(m_handles), 0, 0)
        BY <2>1, <2>2, <2>3, <2>4, <2>5 DEF Adds
    <2> QED
        BY <2>6, AddsUp
<1>7. ASSUME NEW t \in Thread, EndDrain(t) PROVE AliveIsExact'
    <2>1. Share' = Share /\ CountingIn' = CountingIn
        BY <1>7 DEF EndDrain, Goto, pool, clients, PoolTypes, Share, Counts, CountingIn
    <2>2. m_alive' = m_alive /\ Len(m_handles') = Len(m_handles) /\ lost' = lost
        BY <1>7 DEF EndDrain, Goto, pool, clients
    <2> QED
        BY <2>1, <2>2 DEF AliveIsExact, Tally
<1>8. ASSUME NEW t \in Thread, Blockade(t) PROVE AliveIsExact'
    <2>1. Share' = Share /\ CountingIn' = CountingIn
        BY <1>8 DEF Blockade, Goto, pool, PoolTypes, Share, Counts, CountingIn
    <2>2. m_alive' = m_alive /\ Len(m_handles') = Len(m_handles) /\ lost' = lost
        BY <1>8 DEF Blockade, Goto, pool
    <2> QED
        BY <2>1, <2>2 DEF AliveIsExact, Tally
<1>9. ASSUME NEW t \in Thread, PopBack(t) PROVE AliveIsExact'
    <2>1. CASE m_handles = <<>>
        <3>1. Share' = Share /\ CountingIn' = CountingIn
            BY <1>9, <2>1 DEF PopBack, Goto, lockVars, clients, PoolTypes, Share, Counts, CountingIn
        <3>2. m_alive' = m_alive /\ Len(m_handles') = Len(m_handles) /\ lost' = lost
            BY <1>9, <2>1 DEF PopBack, Goto, lockVars, clients
        <3> QED
            BY <3>1, <3>2 DEF AliveIsExact, Tally
    <2>2. CASE m_handles # <<>>
        <3>1. \A u \in Thread \ {t} : held'[u] = held[u] /\ size'[u] = size[u] /\ pc'[u] = pc[u]
            BY <1>9, <2>2 DEF PopBack, Goto, lockVars, clients, PoolTypes
        <3>2. m_alive' = m_alive + 0 /\ lost' = lost + 0
            BY <1>9, <2>2 DEF PopBack, Goto, lockVars, clients, PoolTypes
        <3>3. Len(m_handles') = Len(m_handles) + (-1)
            BY <1>9, <2>2 DEF PopBack, Goto, lockVars, clients, PoolTypes
        <3>4. Filled(pc'[t]) = Filled(pc[t]) + 0
            BY <1>9, <2>2 DEF PopBack, Goto, lockVars, clients, PoolTypes, Filled
        <3>5. Len(held'[t]) + size'[t] + Counts(pc'[t]) = Len(held[t]) + size[t] + Counts(pc[t]) + 1
            BY <1>9, <2>2 DEF PopBack, Goto, lockVars, clients, PoolTypes, Counts
        <3>6. Adds(t, 0, 0, -1, 0, 1)
            BY <3>1, <3>2, <3>3, <3>4, <3>5 DEF Adds
        <3> QED
            BY <3>6, AddsUp
    <2> QED
        BY <1>9, <2>1, <2>2 DEF PopBack
<1>10. ASSUME NEW t \in Thread, Check(t) PROVE AliveIsExact'
    <2>1. Share' = Share /\ CountingIn' = CountingIn
        BY <1>10 DEF Check, Goto, lockVars, pool, clients, PoolTypes, Share, Counts, CountingIn
    <2>2. m_alive' = m_alive /\ Len(m_handles') = Len(m_handles) /\ lost' = lost
        BY <1>10 DEF Check, Goto, lockVars, pool, clients
    <2> QED
        BY <2>1, <2>2 DEF AliveIsExact, Tally
<1>11. ASSUME NEW t \in Thread, Generate(t) PROVE AliveIsExact'
    <2>1. CASE Goto(t, "generate", "invoke") /\ m_alive' = m_alive + 1
        <3>1. \A u \in Thread \ {t} : held'[u] = held[u] /\ size'[u] = size[u] /\ pc'[u] = pc[u]
            BY <1>11, <2>1 DEF Generate, Goto, lockVars, clients, PoolTypes
        <3>2. m_alive' = m_alive + 1 /\ lost' = lost + 0
            BY <1>11, <2>1 DEF Generate, Goto, lockVars, clients, PoolTypes
        <3>3. Len(m_handles') = Len(m_handles) + 0
            BY <1>11, <2>1 DEF Generate, Goto, lockVars, clients, PoolTypes
        <3>4. Filled(pc'[t]) = Filled(pc[t]) + 0
            BY <1>11, <2>1 DEF Generate, Goto, lockVars, clients, PoolTypes, Filled
        <3>5. Len(held'[t]) + size'[t] + Counts(pc'[t]) = Len(held[t]) + size[t] + Counts(pc[t]) + 1
            BY <1>11, <2>1 DEF Generate, Goto, lockVars, clients, PoolTypes, Counts
        <3>6. Adds(t, 1, 0, 0, 0, 1)
            BY <3>1, <3>2, <3>3, <3>4, <3>5 DEF Adds
        <3> QED
            BY <3>6, AddsUp
    <2>2. CASE Goto(t, "generate", "unlock") /\ UNCHANGED <<wrap, m_alive>>
        <3>1. Share' = Share /\ CountingIn' = CountingIn
            BY <1>11, <2>2 DEF Generate, Goto, lockVars, clients, PoolTypes, Share, Counts, CountingIn
        <3>2. m_alive' = m_alive /\ Len(m_handles') = Len(m_handles) /\ lost' = lost
            BY <1>11, <2>2 DEF Generate, Goto, lockVars, clients
        <3> QED
            BY <3>1, <3>2 DEF AliveIsExact, Tally
    <2> QED
        BY <1>11, <2>1, <2>2 DEF Generate
<1>12. ASSUME NEW t \in Thread, Invoke(t) PROVE AliveIsExact'
    <2>1. \A u \in Thread \ {t} : held'[u] = held[u] /\ size'[u] = size[u] /\ pc'[u] = pc[u]
        BY <1>12 DEF Invoke, Goto, lockVars, pool, PoolTypes
    <2>2. m_alive' = m_alive + 0 /\ lost' = lost + 0
        BY <1>12 DEF Invoke, Goto, lockVars, pool, PoolTypes
    <2>3. Len(m_handles') = Len(m_handles) + 0
        BY <1>12 DEF Invoke, Goto, lockVars, pool, PoolTypes
    <2>4. Filled(pc'[t]) = Filled(pc[t]) + 0
        BY <1>12 DEF Invoke, Goto, lockVars, pool, PoolTypes, Filled
    <2>5. Len(held'[t]) + size'[t] + Counts(pc'[t]) = Len(held[t]) + size[t] + Counts(pc[t]) + 0
        BY <1>12 DEF Invoke, Goto, lockVars, pool, PoolTypes, Counts
    <2>6. Adds(t, 0, 0, 0, 0, 0)
        BY <2>1, <2>2, <2>3, <2>4, <2>5 DEF Adds
    <2> QED
        BY <2>6, AddsUp
<1>13. ASSUME NEW t \in Thread, InvokeFails(t) PROVE AliveIsExact'
    <2>1. \A u \in Thread \ {t} : held'[u] = held[u] /\ size'[u] = size[u] /\ pc'[u] = pc[u]
        BY <1>13 DEF InvokeFails, Goto, lockVars, pool, clients, PoolTypes
    <2>2. m_alive' = m_alive + 0 /\ lost' = lost + 1
        BY <1>13 DEF InvokeFails, Goto, lockVars, pool, clients, PoolTypes
    <2>3. Len(m_handles') = Len(m_handles) + 0
        BY <1>13 DEF InvokeFails, Goto, lockVars, pool, clients, PoolTypes
    <2>4. Filled(pc'[t]) = Filled(pc[t]) + 0
        BY <1>13 DEF InvokeFails, Goto, lockVars, pool, clients, PoolTypes, Filled
    <2>5. Len(held'[t]) + size'[t] + Counts(pc'[t]) = Len(held[t]) + size[t] + Counts(pc[t]) + (-1)
        BY <1>13 DEF InvokeFails, Goto, lockVars, pool, clients, PoolTypes, Counts
    <2>6. Adds(t, 0, 0, 0, 1, -1)
        BY <2>1, <2>2, <2>3, <2>4, <2>5 DEF Adds
    <2> QED
        BY <2>6, AddsUp
<1>14. ASSUME NEW t \in Thread, Unlock(t) PROVE AliveIsExact'
    <2>1. Share' = Share /\ CountingIn' = CountingIn
        BY <1>14 DEF Unlock, Goto, pool, clients, PoolTypes, Share, Counts, CountingIn
    <2>2. m_alive' = m_alive /\ Len(m_handles') = Len(m_handles) /\ lost' = lost
        BY <1>14 DEF Unlock, Goto, pool, clients
    <2> QED
        BY <2>1, <2>2 DEF AliveIsExact, Tally
<1>15. ASSUME NEW t \in Thread, PushBack(t) PROVE AliveIsExact'
    <2>1. CASE HasRoom
        <3>1. \A u \in Thread \ {t} : held'[u] = held[u] /\ size'[u] = size[u] /\ pc'[u] = pc[u]
            BY <1>15, <2>1 DEF PushBack, Goto, HasRoom, lockVars, clients, PoolTypes
        <3>2. m_alive' = m_alive + 0 /\ lost' = lost + 0
            BY <1>15, <2>1 DEF PushBack, Goto, HasRoom, lockVars, clients, PoolTypes
        <3>3. Len(m_handles') = Len(m_handles) + 1
            BY <1>15, <2>1 DEF PushBack, Goto, HasRoom, lockVars, clients, PoolTypes
        <3>4. Filled(pc'[t]) = Filled(pc[t]) + 0
            BY <1>15, <2>1 DEF PushBack, Goto, HasRoom, lockVars, clients, PoolTypes, Filled
        <3>5. Len(held'[t]) + size'[t] + Counts(pc'[t]) = Len(held[t]) + size[t] + Counts(pc[t]) + (-1)
            BY <1>15, <2>1 DEF PushBack, Goto, HasRoom, lockVars, clients, PoolTypes, Counts
        <3>6. Adds(t, 0, 0, 1, 0, -1)
            BY <3>1, <3>2, <3>3, <3>4, <3>5 DEF Adds
        <3> QED
            BY <3>6, AddsUp
    <2>2. CASE ~ HasRoom
        <3>1. Share' = Share /\ CountingIn' = CountingIn
            BY <1>15, <2>2 DEF PushBack, Goto, HasRoom, lockVars, clients, PoolTypes, Share, Counts, CountingIn
        <3>2. m_alive' = m_alive /\ Len(m_handles') = Len(m_handles) /\ lost' = lost
            BY <1>15, <2>2 DEF PushBack, Goto, HasRoom, lockVars, clients
        <3> QED
            BY <3>1, <3>2 DEF AliveIsExact, Tally
    <2> QED
        BY <1>15, <2>1, <2>2 DEF PushBack
<1>16. ASSUME NEW t \in Thread, UnlockEvicted(t) PROVE AliveIsExact'
    <2>1. Share' = Share /\ CountingIn' = CountingIn
        BY <1>16 DEF UnlockEvicted, Goto, pool, clients, PoolTypes, Share, Counts, CountingIn
    <2>2. m_alive' = m_alive /\ Len(m_handles') = Len(m_handles) /\ lost' = lost
        BY <1>16 DEF UnlockEvicted, Goto, pool, clients
    <2> QED
        BY <2>1, <2>2 DEF AliveIsExact, Tally
<1>17. ASSUME NEW t \in Thread, Uncount(t) PROVE AliveIsExact'
    <2>1. \A u \in Thread \ {t} : held'[u] = held[u] /\ size'[u] = size[u] /\ pc'[u] = pc[u]
        BY <1>17 DEF Uncount, Goto, lockVars, clients, PoolTypes
    <2>2. m_alive' = m_alive + (-1) /\ lost' = lost + 0
        BY <1>17 DEF Uncount, Goto, lockVars, clients, PoolTypes
    <2>3. Len(m_handles') = Len(m_handles) + 0
        BY <1>17 DEF Uncount, Goto, lockVars, clients, PoolTypes
    <2>4. Filled(pc'[t]) = Filled(pc[t]) + 0
        BY <1>17 DEF Uncount, Goto, lockVars, clients, PoolTypes, Filled
    <2>5. Len(held'[t]) + size'[t] + Counts(pc'[t]) = Len(held[t]) + size[t] + Counts(pc[t]) + (-1)
        BY <1>17 DEF Uncount, Goto, lockVars, clients, PoolTypes, Counts
    <2>6. Adds(t, -1, 0, 0, 0, -1)
        BY <2>1, <2>2, <2>3, <2>4, <2>5 DEF Adds
    <2> QED
        BY <2>6, AddsUp
<1>18. ASSUME NEW t \in Thread, Destroy(t) PROVE AliveIsExact'
    <2>1. Share' = Share /\ CountingIn' = CountingIn
        BY <1>18 DEF Destroy, Goto, lockVars, pool, clients, PoolTypes, Share, Counts, CountingIn
    <2>2. m_alive' = m_alive /\ Len(m_handles') = Len(m_handles) /\ lost' = lost
        BY <1>18 DEF Destroy, Goto, lockVars, pool, clients
    <2> QED
        BY <2>1, <2>2 DEF AliveIsExact, Tally
<1>19. ASSUME NEW t \in Thread, CanOpen(t) PROVE AliveIsExact'
    <2>1. Share' = Share /\ CountingIn' = CountingIn
        BY <1>19 DEF CanOpen, Goto, lockVars, pool, clients, PoolTypes, Share, Counts, CountingIn
    <2>2. m_alive' = m_alive /\ Len(m_handles') = Len(m_handles) /\ lost' = lost
        BY <1>19 DEF CanOpen, Goto, lockVars, pool, clients
    <2> QED
        BY <2>1, <2>2 DEF AliveIsExact, Tally
<1>20. ASSUME NEW t \in Thread, Fill(t) PROVE AliveIsExact'
    <2>1. CASE Goto(t, "fill", "countFilled") /\ m_handles' = Append(m_handles, "current")
        <3>1. \A u \in Thread \ {t} : held'[u] = held[u] /\ size'[u] = size[u] /\ pc'[u] = pc[u]
            BY <1>20, <2>1 DEF Fill, Goto, HasRoom, lockVars, clients, PoolTypes
        <3>2. m_alive' = m_alive + 0 /\ lost' = lost + 0
            BY <1>20, <2>1 DEF Fill, Goto, HasRoom, lockVars, clients, PoolTypes
        <3>3. Len(m_handles') = Len(m_handles) + 1
            BY <1>20, <2>1 DEF Fill, Goto, HasRoom, lockVars, clients, PoolTypes
        <3>4. Filled(pc'[t]) = Filled(pc[t]) + 1
            BY <1>20, <2>1 DEF Fill, Goto, HasRoom, lockVars, clients, PoolTypes, Filled
        <3>5. Len(held'[t]) + size'[t] + Counts(pc'[t]) = Len(held[t]) + size[t] + Counts(pc[t]) + 0
            BY <1>20, <2>1 DEF Fill, Goto, HasRoom, lockVars, clients, PoolTypes, Counts
        <3>6. Adds(t, 0, 1, 1, 0, 0)
            BY <3>1, <3>2, <3>3, <3>4, <3>5 DEF Adds
        <3> QED
            BY <3>6, AddsUp
    <2>2. CASE Goto(t, "fill", "unlockFilled") /\ UNCHANGED m_handles
        <3>1. Share' = Share /\ CountingIn' = CountingIn
            BY <1>20, <2>2 DEF Fill, Goto, HasRoom, lockVars, clients, PoolTypes, Share, Counts, CountingIn
        <3>2. m_alive' = m_alive /\ Len(m_handles') = Len(m_handles) /\ lost' = lost
            BY <1>20, <2>2 DEF Fill, Goto, HasRoom, lockVars, clients
        <3> QED
            BY <3>1, <3>2 DEF AliveIsExact, Tally
    <2>3. CASE Goto(t, "fill", "unlock") /\ UNCHANGED <<m_handles, wrap>>
        <3>1. Share' = Share /\ CountingIn' = CountingIn
            BY <1>20, <2>3 DEF Fill, Goto, HasRoom, lockVars, clients, PoolTypes, Share, Counts, CountingIn
        <3>2. m_alive' = m_alive /\ Len(m_handles') = Len(m_handles) /\ lost' = lost
            BY <1>20, <2>3 DEF Fill, Goto, HasRoom, lockVars, clients
        <3> QED
            BY <3>1, <3>2 DEF AliveIsExact, Tally
    <2> QED
        BY <1>20, <2>1, <2>2, <2>3 DEF Fill
<1>21. ASSUME NEW t \in Thread, CountFilled(t) PROVE AliveIsExact'
    <2>1. \A u \in Thread \ {t} : held'[u] = held[u] /\ size'[u] = size[u] /\ pc'[u] = pc[u]
        BY <1>21 DEF CountFilled, Goto, lockVars, clients, PoolTypes
    <2>2. m_alive' = m_alive + 1 /\ lost' = lost + 0
        BY <1>21 DEF CountFilled, Goto, lockVars, clients, PoolTypes
    <2>3. Len(m_handles') = Len(m_handles) + 0
        BY <1>21 DEF CountFilled, Goto, lockVars, clients, PoolTypes
    <2>4. Filled(pc'[t]) = Filled(pc[t]) + (-1)
        BY <1>21 DEF CountFilled, Goto, lockVars, clients, PoolTypes, Filled
    <2>5. Len(held'[t]) + size'[t] + Counts(pc'[t]) = Len(held[t]) + size[t] + Counts(pc[t]) + 0
        BY <1>21 DEF CountFilled, Goto, lockVars, clients, PoolTypes, Counts
    <2>6. Adds(t, 1, -1, 0, 0, 0)
        BY <2>1, <2>2, <2>3, <2>4, <2>5 DEF Adds
    <2> QED
        BY <2>6, AddsUp
<1>22. ASSUME NEW t \in Thread, UnlockFilled(t) PROVE AliveIsExact'
    <2>1. Share' = Share /\ CountingIn' = CountingIn
        BY <1>22 DEF UnlockFilled, Goto, pool, clients, PoolTypes, Share, Counts, CountingIn
    <2>2. m_alive' = m_alive /\ Len(m_handles') = Len(m_handles) /\ lost' = lost
        BY <1>22 DEF UnlockFilled, Goto, pool, clients
    <2> QED
        BY <2>1, <2>2 DEF AliveIsExact, Tally
<1>23. ASSUME NEW t \in Thread, Clear(t) PROVE AliveIsExact'
    <2>1. \A u \in Thread \ {t} : held'[u] = held[u] /\ size'[u] = size[u] /\ pc'[u] = pc[u]
        BY <1>23 DEF Clear, Goto, lockVars, clients, PoolTypes
    <2>2. m_alive' = m_alive + 0 /\ lost' = lost + 0
        BY <1>23 DEF Clear, Goto, lockVars, clients, PoolTypes
    <2>3. Len(m_handles') = Len(m_handles) + (-Len(m_handles))
        BY <1>23 DEF Clear, Goto, lockVars, clients, PoolTypes
    <2>4. Filled(pc'[t]) = Filled(pc[t]) + 0
        BY <1>23 DEF Clear, Goto, lockVars, clients, PoolTypes, Filled
    <2>5. Len(held'[t]) + size'[t] + Counts(pc'[t]) = Len(held[t]) + size[t] + Counts(pc[t]) + Len(m_handles)
        <3>1. size[t] = 0 /\ size'[t] = Len(m_handles) /\ held'[t] = held[t]
            BY <1>23 DEF Clear, Goto, lockVars, clients, PoolTypes, Places
        <3>2. Counts(pc[t]) = 0 /\ Counts(pc'[t]) = 0
            BY <1>23 DEF Clear, Goto, lockVars, clients, PoolTypes, Counts
        <3>3. Len(held[t]) \in Int /\ Len(m_handles) \in Int
            BY DEF PoolTypes
        <3> QED
            BY <3>1, <3>2, <3>3
    <2>6. Adds(t, 0, 0, -Len(m_handles), 0, Len(m_handles))
        BY <2>1, <2>2, <2>3, <2>4, <2>5 DEF Adds
    <2> QED
        BY <2>6, AddsUp
<1>24. ASSUME NEW t \in Thread, Subtract(t) PROVE AliveIsExact'
    <2>1. \A u \in Thread \ {t} : held'[u] = held[u] /\ size'[u] = size[u] /\ pc'[u] = pc[u]
        BY <1>24 DEF Subtract, Goto, lockVars, clients, PoolTypes
    <2>2. m_alive' = m_alive + (-size[t]) /\ lost' = lost + 0
        BY <1>24 DEF Subtract, Goto, lockVars, clients, PoolTypes
    <2>3. Len(m_handles') = Len(m_handles) + 0
        BY <1>24 DEF Subtract, Goto, lockVars, clients, PoolTypes
    <2>4. Filled(pc'[t]) = Filled(pc[t]) + 0
        BY <1>24 DEF Subtract, Goto, lockVars, clients, PoolTypes, Filled
    <2>5. Len(held'[t]) + size'[t] + Counts(pc'[t]) = Len(held[t]) + size[t] + Counts(pc[t]) + (-size[t])
        BY <1>24 DEF Subtract, Goto, lockVars, clients, PoolTypes, Counts
    <2>6. Adds(t, -size[t], 0, 0, 0, -size[t])
        BY <2>1, <2>2, <2>3, <2>4, <2>5 DEF Adds
    <2>7. PICK i \in Int : i = -size[t]
        BY PoolAssumption DEF PoolTypes
    <2>8. Adds(t, i, 0, 0, 0, i)
        BY <2>6, <2>7
    <2>9. i + 0 = 0 + 0 + i
        OBVIOUS
    <2> QED
        BY <2>8, <2>9, AddsUp
<1>25. ASSUME NEW t \in Thread, Unblockade(t) PROVE AliveIsExact'
    <2>1. Share' = Share /\ CountingIn' = CountingIn
        BY <1>25 DEF Unblockade, pool, PoolTypes, Share, Counts, CountingIn
    <2>2. m_alive' = m_alive /\ Len(m_handles') = Len(m_handles) /\ lost' = lost
        BY <1>25 DEF Unblockade, pool
    <2> QED
        BY <2>1, <2>2 DEF AliveIsExact, Tally
<1>26. ASSUME NEW t \in Thread, Wake(t) PROVE AliveIsExact'
    <2>1. Share' = Share /\ CountingIn' = CountingIn
        BY <1>26 DEF Wake, poolVars, PoolTypes, Share, Counts, CountingIn
    <2>2. m_alive' = m_alive /\ Len(m_handles') = Len(m_handles) /\ lost' = lost
        BY <1>26 DEF Wake, poolVars
    <2> QED
        BY <2>1, <2>2 DEF AliveIsExact, Tally
<1>27. ASSUME SetConfig PROVE AliveIsExact'
    <2>1. Share' = Share /\ CountingIn' = CountingIn
        BY <1>27 DEF SetConfig, Stale, PoolTypes, Share, CountingIn
    <2>2. m_alive' = m_alive /\ Len(m_handles') = Len(m_handles) /\ lost' = lost
        BY <1>27 DEF SetConfig, Stale, PoolTypes
    <2> QED
        BY <2>1, <2>2 DEF AliveIsExact, Tally
<1>28. ASSUME UNCHANGED vars PROVE AliveIsExact'
    <2>1. Share' = Share /\ CountingIn' = CountingIn
        BY <1>28 DEF vars, poolVars, Share, CountingIn
    <2>2. m_alive' = m_alive /\ Len(m_handles') = Len(m_handles) /\ lost' = lost
        BY <1>28 DEF vars, poolVars
    <2> QED
        BY <2>1, <2>2 DEF AliveIsExact, Tally
<1> QED
    BY <1>1, <1>2, <1>3, <1>4, <1>5, <1>6, <1>7, <1>8, <1>9, <1>10, <1>11, <1>12, <1>13, <1>14, <1>15, <1>16, <1>17, <1>18, <1>19, <1>20, <1>21, <1>22, <1>23, <1>24, <1>25, <1>26, <1>27, <1>28
       DEF Next, CallNext, StepNext

\* The numbers of those who have pledged and who may are numbers.
LEMMA PledgesCount ==
    /\ Cardinality(Pledged) \in Nat
    /\ Cardinality(Pledged') \in Nat
    /\ Cardinality(Openers) \in Nat
    /\ Pledged' \subseteq Openers => Cardinality(Pledged') =< Cardinality(Openers)
<1>1. Pledged \subseteq Thread /\ Pledged' \subseteq Thread /\ Openers \subseteq Thread
    BY DEF Pledged, Openers
<1>2. IsFiniteSet(Pledged) /\ IsFiniteSet(Pledged') /\ IsFiniteSet(Openers)
    BY <1>1, ThreadAssumption, FS_Subset
<1> QED
    BY <1>2, FS_CardinalityType, FS_Subset

\* Nobody pledges, and nothing is counted in.
LEMMA NoPledge ==
    ASSUME PoolTypes, PoolTypes', PledgesBounded, Pledged' = Pledged, m_alive' =< m_alive
    PROVE  PledgesBounded'
<1>1. PICK p \in Int : p = Cardinality(Pledged)
    BY PledgesCount
<1>2. PICK o \in Int : o = Cardinality(Openers)
    BY PledgesCount
<1>3. PICK a \in Int : a = m_alive
    BY DEF PoolTypes
<1>4. PICK b \in Int : b = m_alive'
    BY DEF PoolTypes
<1>5. PICK m \in Int : m = MaxConcurrency
    BY PoolAssumption
<1>6. a + p < m + o
    BY <1>1, <1>2, <1>3, <1>5 DEF PledgesBounded
<1>7. b =< a
    BY <1>3, <1>4
<1>8. b + p < m + o
    BY <1>6, <1>7
<1> QED
    BY <1>1, <1>2, <1>4, <1>5, <1>8 DEF PledgesBounded, Openers

\* A pledge is given up, or one handle is counted in for it.
LEMMA PledgeKept ==
    ASSUME PoolTypes, PoolTypes', PledgesBounded, NEW t \in Thread, t \in Pledged,
           Pledged' = Pledged \ {t}, m_alive' =< m_alive + 1
    PROVE  PledgesBounded'
<1>1. PICK p \in Int : p = Cardinality(Pledged)
    BY PledgesCount
<1>2. PICK o \in Int : o = Cardinality(Openers)
    BY PledgesCount
<1>3. PICK a \in Int : a = m_alive
    BY DEF PoolTypes
<1>4. PICK b \in Int : b = m_alive'
    BY DEF PoolTypes
<1>5. PICK m \in Int : m = MaxConcurrency
    BY PoolAssumption
<1>6. a + p < m + o
    BY <1>1, <1>2, <1>3, <1>5 DEF PledgesBounded
<1>7. b =< a + 1
    BY <1>3, <1>4
<1>8. b + (p - 1) < m + o
    BY <1>6, <1>7
<1>9. Cardinality(Pledged') = p - 1
    <2>1. IsFiniteSet(Pledged)
        BY ThreadAssumption, FS_Subset DEF Pledged
    <2> QED
        BY <1>1, <2>1, FS_RemoveElement
<1> QED
    BY <1>2, <1>4, <1>5, <1>8, <1>9 DEF PledgesBounded, Openers

\* Whoever may pledge has, at worst, and the counter is below the limit.
LEMMA PledgeGiven ==
    ASSUME PoolTypes, PoolTypes', Places', m_alive < MaxConcurrency, m_alive' = m_alive
    PROVE  PledgesBounded'
<1>1. Pledged' \subseteq Openers
    BY PoolAssumption DEF Places, Pledged, Openers
<1>2. PICK p \in Int : p = Cardinality(Pledged')
    BY PledgesCount
<1>3. PICK o \in Int : o = Cardinality(Openers)
    BY PledgesCount
<1>4. p =< o
    BY <1>1, <1>2, <1>3, PledgesCount
<1>5. MaxConcurrency \in Int /\ m_alive \in Int
    BY PoolAssumption DEF PoolTypes
<1>6. m_alive + p < MaxConcurrency + o
    BY <1>4, <1>5
<1> QED
    BY <1>2, <1>3, <1>6 DEF PledgesBounded, Openers

\* The pledges stay bounded.
LEMMA PledgesPreserved ==
    ASSUME PoolTypes, PoolTypes', Places', PledgesBounded, [Next]_vars
    PROVE  PledgesBounded'
<1>1. ASSUME NEW t \in Thread, CallFlowOut(t) PROVE PledgesBounded'
    <2>1. Pledged' = Pledged
        BY <1>1 DEF CallFlowOut, Enter, Goto, lockVars, pool, clients, PoolTypes, Pledged
    <2>2. m_alive' =< m_alive
        BY <1>1, PoolAssumption DEF CallFlowOut, Enter, Goto, lockVars, pool, clients, PoolTypes
    <2> QED
        BY <2>1, <2>2, NoPledge
<1>2. ASSUME NEW t \in Thread, CallFlowBack(t) PROVE PledgesBounded'
    <2>1. Pledged' = Pledged
        BY <1>2 DEF CallFlowBack, Goto, lockVars, pool, PoolTypes, Pledged
    <2>2. m_alive' =< m_alive
        BY <1>2, PoolAssumption DEF CallFlowBack, Goto, lockVars, pool, PoolTypes
    <2> QED
        BY <2>1, <2>2, NoPledge
<1>3. ASSUME NEW t \in Thread, CallOther(t) PROVE PledgesBounded'
    <2>1. Pledged' = Pledged
        BY <1>3 DEF CallOther, Enter, Goto, lockVars, pool, clients, PoolTypes, Pledged
    <2>2. m_alive' =< m_alive
        BY <1>3, PoolAssumption DEF CallOther, Enter, Goto, lockVars, pool, clients, PoolTypes
    <2> QED
        BY <2>1, <2>2, NoPledge
<1>4. ASSUME NEW t \in Thread, WaitForLock(t) PROVE PledgesBounded'
    <2>1. Pledged' = Pledged
        BY <1>4 DEF WaitForLock, ToRead, ToWrite, poolVars, PoolTypes, Pledged
    <2>2. m_alive' =< m_alive
        BY <1>4, PoolAssumption DEF WaitForLock, ToRead, ToWrite, poolVars, PoolTypes
    <2> QED
        BY <2>1, <2>2, NoPledge
<1>5. ASSUME NEW t \in Thread, TakeReadLock(t) PROVE PledgesBounded'
    <2>1. Pledged' = Pledged
        BY <1>5 DEF TakeReadLock, ToRead, pool, clients, PoolTypes, Pledged
    <2>2. m_alive' =< m_alive
        BY <1>5, PoolAssumption DEF TakeReadLock, ToRead, pool, clients, PoolTypes
    <2> QED
        BY <2>1, <2>2, NoPledge
<1>6. ASSUME NEW t \in Thread, StartDrain(t) PROVE PledgesBounded'
    <2>1. Pledged' = Pledged
        BY <1>6 DEF StartDrain, Goto, clients, PoolTypes, Pledged
    <2>2. m_alive' =< m_alive
        BY <1>6, PoolAssumption DEF StartDrain, Goto, clients, PoolTypes
    <2> QED
        BY <2>1, <2>2, NoPledge
<1>7. ASSUME NEW t \in Thread, EndDrain(t) PROVE PledgesBounded'
    <2>1. Pledged' = Pledged
        BY <1>7 DEF EndDrain, Goto, pool, clients, PoolTypes, Pledged
    <2>2. m_alive' =< m_alive
        BY <1>7, PoolAssumption DEF EndDrain, Goto, pool, clients, PoolTypes
    <2> QED
        BY <2>1, <2>2, NoPledge
<1>8. ASSUME NEW t \in Thread, Blockade(t) PROVE PledgesBounded'
    <2>1. Pledged' = Pledged
        BY <1>8 DEF Blockade, Goto, pool, PoolTypes, Pledged
    <2>2. m_alive' =< m_alive
        BY <1>8, PoolAssumption DEF Blockade, Goto, pool, PoolTypes
    <2> QED
        BY <2>1, <2>2, NoPledge
<1>9. ASSUME NEW t \in Thread, PopBack(t) PROVE PledgesBounded'
    <2>1. Pledged' = Pledged
        BY <1>9 DEF PopBack, Goto, lockVars, clients, PoolTypes, Pledged
    <2>2. m_alive' =< m_alive
        BY <1>9, PoolAssumption DEF PopBack, Goto, lockVars, clients, PoolTypes
    <2> QED
        BY <2>1, <2>2, NoPledge
<1>10. ASSUME NEW t \in Thread, Check(t) PROVE PledgesBounded'
    <2>1. CASE m_alive < MaxConcurrency
        <3>1. m_alive < MaxConcurrency /\ m_alive' = m_alive
            BY <1>10, <2>1, PoolAssumption DEF Check, Goto, lockVars, pool, clients, PoolTypes
        <3> QED
            BY <3>1, PledgeGiven
    <2>2. CASE ~ (m_alive < MaxConcurrency)
        <3>1. Pledged' = Pledged
            BY <1>10, <2>2 DEF Check, Goto, lockVars, pool, clients, PoolTypes, Pledged
        <3>2. m_alive' =< m_alive
            BY <1>10, <2>2 DEF Check, Goto, lockVars, pool, clients, PoolTypes
        <3> QED
            BY <3>1, <3>2, NoPledge
    <2> QED
        BY <1>10, <2>1, <2>2 DEF Check
<1>11. ASSUME NEW t \in Thread, Generate(t) PROVE PledgesBounded'
    <2>1. t \in Pledged /\ Pledged' = Pledged \ {t}
        BY <1>11 DEF Generate, Goto, lockVars, clients, PoolTypes, Pledged
    <2>2. m_alive' =< m_alive + 1
        BY <1>11 DEF Generate, Goto, lockVars, clients, PoolTypes
    <2> QED
        BY <2>1, <2>2, PledgeKept
<1>12. ASSUME NEW t \in Thread, Invoke(t) PROVE PledgesBounded'
    <2>1. Pledged' = Pledged
        BY <1>12 DEF Invoke, Goto, lockVars, pool, PoolTypes, Pledged
    <2>2. m_alive' =< m_alive
        BY <1>12, PoolAssumption DEF Invoke, Goto, lockVars, pool, PoolTypes
    <2> QED
        BY <2>1, <2>2, NoPledge
<1>13. ASSUME NEW t \in Thread, InvokeFails(t) PROVE PledgesBounded'
    <2>1. Pledged' = Pledged
        BY <1>13 DEF InvokeFails, Goto, lockVars, pool, clients, PoolTypes, Pledged
    <2>2. m_alive' =< m_alive
        BY <1>13, PoolAssumption DEF InvokeFails, Goto, lockVars, pool, clients, PoolTypes
    <2> QED
        BY <2>1, <2>2, NoPledge
<1>14. ASSUME NEW t \in Thread, Unlock(t) PROVE PledgesBounded'
    <2>1. Pledged' = Pledged
        BY <1>14 DEF Unlock, Goto, pool, clients, PoolTypes, Pledged
    <2>2. m_alive' =< m_alive
        BY <1>14, PoolAssumption DEF Unlock, Goto, pool, clients, PoolTypes
    <2> QED
        BY <2>1, <2>2, NoPledge
<1>15. ASSUME NEW t \in Thread, PushBack(t) PROVE PledgesBounded'
    <2>1. Pledged' = Pledged
        BY <1>15 DEF PushBack, Goto, HasRoom, lockVars, clients, PoolTypes, Pledged
    <2>2. m_alive' =< m_alive
        BY <1>15, PoolAssumption DEF PushBack, Goto, HasRoom, lockVars, clients, PoolTypes
    <2> QED
        BY <2>1, <2>2, NoPledge
<1>16. ASSUME NEW t \in Thread, UnlockEvicted(t) PROVE PledgesBounded'
    <2>1. Pledged' = Pledged
        BY <1>16 DEF UnlockEvicted, Goto, pool, clients, PoolTypes, Pledged
    <2>2. m_alive' =< m_alive
        BY <1>16, PoolAssumption DEF UnlockEvicted, Goto, pool, clients, PoolTypes
    <2> QED
        BY <2>1, <2>2, NoPledge
<1>17. ASSUME NEW t \in Thread, Uncount(t) PROVE PledgesBounded'
    <2>1. Pledged' = Pledged
        BY <1>17 DEF Uncount, Goto, lockVars, clients, PoolTypes, Pledged
    <2>2. m_alive' =< m_alive
        BY <1>17, PoolAssumption DEF Uncount, Goto, lockVars, clients, PoolTypes
    <2> QED
        BY <2>1, <2>2, NoPledge
<1>18. ASSUME NEW t \in Thread, Destroy(t) PROVE PledgesBounded'
    <2>1. Pledged' = Pledged
        BY <1>18 DEF Destroy, Goto, lockVars, pool, clients, PoolTypes, Pledged
    <2>2. m_alive' =< m_alive
        BY <1>18, PoolAssumption DEF Destroy, Goto, lockVars, pool, clients, PoolTypes
    <2> QED
        BY <2>1, <2>2, NoPledge
<1>19. ASSUME NEW t \in Thread, CanOpen(t) PROVE PledgesBounded'
    <2>1. CASE m_alive = 0
        <3>1. m_alive < MaxConcurrency /\ m_alive' = m_alive
            BY <1>19, <2>1, PoolAssumption DEF CanOpen, Goto, lockVars, pool, clients, PoolTypes
        <3> QED
            BY <3>1, PledgeGiven
    <2>2. CASE m_alive # 0
        <3>1. Pledged' = Pledged
            BY <1>19, <2>2 DEF CanOpen, Goto, lockVars, pool, clients, PoolTypes, Pledged
        <3>2. m_alive' =< m_alive
            BY <1>19, <2>2 DEF CanOpen, Goto, lockVars, pool, clients, PoolTypes
        <3> QED
            BY <3>1, <3>2, NoPledge
    <2> QED
        BY <1>19, <2>1, <2>2 DEF CanOpen
<1>20. ASSUME NEW t \in Thread, Fill(t) PROVE PledgesBounded'
    <2>1. CASE Goto(t, "fill", "countFilled")
        <3>1. Pledged' = Pledged
            BY <1>20, <2>1 DEF Fill, Goto, HasRoom, lockVars, clients, PoolTypes, Pledged
        <3>2. m_alive' =< m_alive
            BY <1>20, <2>1 DEF Fill, Goto, HasRoom, lockVars, clients, PoolTypes
        <3> QED
            BY <3>1, <3>2, NoPledge
    <2>2. CASE Goto(t, "fill", "unlockFilled")
        <3>1. t \in Pledged /\ Pledged' = Pledged \ {t}
            BY <1>20, <2>2 DEF Fill, Goto, HasRoom, lockVars, clients, PoolTypes, Pledged
        <3>2. m_alive' =< m_alive + 1
            BY <1>20, <2>2 DEF Fill, Goto, HasRoom, lockVars, clients, PoolTypes
        <3> QED
            BY <3>1, <3>2, PledgeKept
    <2>3. CASE Goto(t, "fill", "unlock")
        <3>1. t \in Pledged /\ Pledged' = Pledged \ {t}
            BY <1>20, <2>3 DEF Fill, Goto, HasRoom, lockVars, clients, PoolTypes, Pledged
        <3>2. m_alive' =< m_alive + 1
            BY <1>20, <2>3 DEF Fill, Goto, HasRoom, lockVars, clients, PoolTypes
        <3> QED
            BY <3>1, <3>2, PledgeKept
    <2> QED
        BY <1>20, <2>1, <2>2, <2>3 DEF Fill
<1>21. ASSUME NEW t \in Thread, CountFilled(t) PROVE PledgesBounded'
    <2>1. t \in Pledged /\ Pledged' = Pledged \ {t}
        BY <1>21 DEF CountFilled, Goto, lockVars, clients, PoolTypes, Pledged
    <2>2. m_alive' =< m_alive + 1
        BY <1>21 DEF CountFilled, Goto, lockVars, clients, PoolTypes
    <2> QED
        BY <2>1, <2>2, PledgeKept
<1>22. ASSUME NEW t \in Thread, UnlockFilled(t) PROVE PledgesBounded'
    <2>1. Pledged' = Pledged
        BY <1>22 DEF UnlockFilled, Goto, pool, clients, PoolTypes, Pledged
    <2>2. m_alive' =< m_alive
        BY <1>22, PoolAssumption DEF UnlockFilled, Goto, pool, clients, PoolTypes
    <2> QED
        BY <2>1, <2>2, NoPledge
<1>23. ASSUME NEW t \in Thread, Clear(t) PROVE PledgesBounded'
    <2>1. Pledged' = Pledged
        BY <1>23 DEF Clear, Goto, lockVars, clients, PoolTypes, Pledged
    <2>2. m_alive' =< m_alive
        BY <1>23, PoolAssumption DEF Clear, Goto, lockVars, clients, PoolTypes
    <2> QED
        BY <2>1, <2>2, NoPledge
<1>24. ASSUME NEW t \in Thread, Subtract(t) PROVE PledgesBounded'
    <2>1. Pledged' = Pledged
        BY <1>24 DEF Subtract, Goto, lockVars, clients, PoolTypes, Pledged
    <2>2. m_alive' =< m_alive
        BY <1>24, PoolAssumption DEF Subtract, Goto, lockVars, clients, PoolTypes
    <2> QED
        BY <2>1, <2>2, NoPledge
<1>25. ASSUME NEW t \in Thread, Unblockade(t) PROVE PledgesBounded'
    <2>1. Pledged' = Pledged
        BY <1>25 DEF Unblockade, pool, PoolTypes, Pledged
    <2>2. m_alive' =< m_alive
        BY <1>25, PoolAssumption DEF Unblockade, pool, PoolTypes
    <2> QED
        BY <2>1, <2>2, NoPledge
<1>26. ASSUME NEW t \in Thread, Wake(t) PROVE PledgesBounded'
    <2>1. Pledged' = Pledged
        BY <1>26 DEF Wake, poolVars, PoolTypes, Pledged
    <2>2. m_alive' =< m_alive
        BY <1>26, PoolAssumption DEF Wake, poolVars, PoolTypes
    <2> QED
        BY <2>1, <2>2, NoPledge
<1>27. ASSUME SetConfig PROVE PledgesBounded'
    <2>1. Pledged' = Pledged
        BY <1>27 DEF SetConfig, Pledged
    <2>2. m_alive' =< m_alive
        BY <1>27, PoolAssumption DEF SetConfig, PoolTypes
    <2> QED
        BY <2>1, <2>2, NoPledge
<1>28. ASSUME UNCHANGED vars PROVE PledgesBounded'
    <2>1. Pledged' = Pledged
        BY <1>28 DEF vars, poolVars, Pledged
    <2>2. m_alive' =< m_alive
        BY <1>28, PoolAssumption DEF vars, poolVars, PoolTypes
    <2> QED
        BY <2>1, <2>2, NoPledge
<1> QED
    BY <1>1, <1>2, <1>3, <1>4, <1>5, <1>6, <1>7, <1>8, <1>9, <1>10, <1>11, <1>12, <1>13, <1>14, <1>15, <1>16, <1>17, <1>18, <1>19, <1>20, <1>21, <1>22, <1>23, <1>24, <1>25, <1>26, <1>27, <1>28
       DEF Next, CallNext, StepNext

-----------------------------------------------------------------------------
(* Theorems of the pool                                                    *)

\* Initially nobody has a handle.
LEMMA PoolInitEstablishes == PoolInit => PoolInv
<1> SUFFICES ASSUME PoolInit PROVE PoolInv
    OBVIOUS
<1>1. LockInv
    BY LockInitEstablishes DEF PoolInit
<1>2. PoolTypes
    BY PoolAssumption DEF PoolInit, PoolTypes, Pc
<1>3. Places
    BY DEF PoolInit, Init, Places, Wrapped
<1>4. ReadersHeld
    <2>1. Locks = [t \in Thread |-> 0]
        BY DEF PoolInit, Locks, Inside, Reading
    <2>2. Locks \in [Thread -> Nat] /\ ~ \E t \in Thread : Locks[t] > 0
        BY <2>1
    <2>3. Tally(Locks) = 0
        BY <2>2, TallySome, PortionsFinite
    <2> QED
        BY <2>3 DEF PoolInit, Init, ReadersHeld
<1>5. WriterKnown /\ ClosedIsEmpty
    BY DEF PoolInit, Init, WriterKnown, HasWrite, ClosedIsEmpty
<1>6. AliveIsExact
    <2>1. Share = [t \in Thread |-> 0]
        BY DEF PoolInit, Share, Counts
    <2>2. Share \in [Thread -> Nat] /\ ~ \E t \in Thread : Share[t] > 0
        BY <2>1
    <2>3. Tally(Share) = 0
        BY <2>2, TallySome, PortionsFinite
    <2>4. CountingIn = {}
        BY DEF PoolInit, CountingIn
    <2> QED
        BY <2>3, <2>4, FS_EmptySet DEF PoolInit, AliveIsExact
<1>7. PledgesBounded
    <2>1. Pledged = {}
        BY DEF PoolInit, Pledged
    <2>2. Cardinality(Pledged) = 0
        BY <2>1, FS_EmptySet
    <2>3. PICK o \in Nat : o = Cardinality(Openers)
        BY PledgesCount
    <2>4. 0 + 0 < MaxConcurrency + o
        BY PoolAssumption
    <2> QED
        BY <2>2, <2>3, <2>4 DEF PoolInit, PledgesBounded
<1> QED
    BY <1>1, <1>2, <1>3, <1>4, <1>5, <1>6, <1>7 DEF PoolInv

\* Every step keeps every part.
LEMMA PoolStepPreserves == PoolInv /\ [Next]_vars => PoolInv'
<1> SUFFICES ASSUME PoolInv, [Next]_vars PROVE PoolInv'
    OBVIOUS
<1>0. LockInv /\ PoolTypes /\ Places /\ ReadersHeld /\ WriterKnown /\ ClosedIsEmpty /\ AliveIsExact /\ PledgesBounded
    BY DEF PoolInv
<1>1. LockInv'
    BY <1>0, PoolStepsLock, LockStepPreserves
<1>2. PoolTypes'
    BY <1>0, TypesPreserved
<1>3. Places'
    BY <1>0, PlacesPreserved DEF LockInv
<1>4. ReadersHeld'
    BY <1>0, <1>2, ReadersPreserved
<1>5. WriterKnown' /\ ClosedIsEmpty'
    BY <1>0, <1>1, WriterPreserved
<1>6. AliveIsExact'
    BY <1>0, <1>2, ExactPreserved
<1>7. PledgesBounded'
    BY <1>0, <1>2, <1>3, PledgesPreserved
<1> QED
    BY <1>1, <1>2, <1>3, <1>4, <1>5, <1>6, <1>7 DEF PoolInv

\* The invariant holds in every reachable state.
THEOREM PoolInvAlways == Spec => []PoolInv
<1> QED
    BY PoolInitEstablishes, PoolStepPreserves, PTL DEF Spec

\* For every number of threads, whatever each may call, and for every size
\* of the pool: whoever drains the pool or has it blockaded is alone, the
\* counter of the living handles is exact but for those that a failed
\* set-up dropped, and passes its limit by less than one handle a thread.
THEOREM PoolCoherentAlways == Spec => []Coherent
<1>1. PoolInv => Coherent
    <2> SUFFICES ASSUME PoolInv PROVE Coherent
        OBVIOUS
    <2>0. LockInv /\ PoolTypes /\ Places /\ ReadersHeld /\ WriterKnown /\ ClosedIsEmpty /\ AliveIsExact /\ PledgesBounded
        BY DEF PoolInv
    <2>1. TypeOK
        BY <2>0 DEF TypeOK, PoolTypes, LockInv
    <2>2. ClosedIsExclusive
        <3>1. ASSUME NEW t \in Thread, HasWrite(t), NEW u \in Thread
              PROVE  held[u] = <<>> /\ pc[u] \notin Reading
            BY <2>0, <3>1, ReadingExcludes
        <3>2. ASSUME NEW t \in Thread, pc[t] = "closed", NEW u \in Thread, wrap[u] # "none"
              PROVE  pc[u] \in {"uncount", "destroy"}
            BY <2>0, <3>1, <3>2 DEF Places, Wrapped, Reading, HasWrite
        <3> QED
            BY <2>0, <3>1, <3>2 DEF ClosedIsExclusive, HasWrite, ClosedIsEmpty
    <2>3. AliveBounded
        <3>1. PICK p \in Nat : p = Cardinality(Pledged)
            BY PledgesCount
        <3>2. PICK o \in Nat : o = Cardinality(Openers)
            BY PledgesCount
        <3>3. m_alive \in Int /\ MaxConcurrency \in Int
            BY <2>0, PoolAssumption DEF PoolTypes
        <3>4. m_alive + p < MaxConcurrency + o
            BY <2>0, <3>1, <3>2 DEF PledgesBounded
        <3>5. m_alive < MaxConcurrency + o
            BY <3>3, <3>4
        <3> QED
            BY <3>2, <3>5 DEF AliveBounded
    <2> QED
        BY <2>0, <2>1, <2>2, <2>3 DEF Coherent
<1> QED
    BY <1>1, PoolInvAlways, PTL

\* For every number of threads: the pool never stops for good, unless a
\* thread asks for the lock while it has a handle or a blockade itself.
THEOREM OnlyReentryBlocksAlways == Spec => []OnlyReentryBlocks
<1>1. PoolInv => OnlyReentryBlocks
    <2> SUFFICES ASSUME PoolInv, Stuck PROVE Reentrant
        BY DEF OnlyReentryBlocks
    <2>0. LockInv /\ PoolTypes /\ Places /\ ReadersHeld /\ WriterKnown
        BY DEF PoolInv
    <2>1. /\ asleep # {}
          /\ \A t \in Thread \ asleep : pc[t] = "idle" /\ held[t] = <<>> /\ t \notin blockades
        BY DEF Stuck
    <2>2. \A t \in asleep : t \in Thread /\ call[t] \in {"lockRead", "lockWrite"}
        BY <2>0 DEF LockInv, LockTypeOK, NoLostWakeup, Call
    <2>3. \A t \in asleep : pc[t] # "closed" /\ pc[t] \notin Reading
        BY <2>0, <2>2 DEF Places, Reading
    <2>4. m_writer > 0 \/ m_reader > 0
        BY <2>0, <2>1 DEF LockInv, NoLostWakeup, Places
    <2>5. CASE m_writer > 0
        <3>1. PICK t \in Thread : HasWrite(t)
            BY <2>0, <2>5 DEF WriterKnown
        <3>2. t \in asleep /\ t \in blockades
            BY <2>1, <2>3, <3>1 DEF HasWrite
        <3> QED
            BY <2>2, <3>2 DEF Reentrant
    <2>6. CASE m_reader > 0
        <3>1. Locks \in [Thread -> Nat] /\ Tally(Locks) > 0
            BY <2>0, <2>6, LocksTyped DEF ReadersHeld
        <3>2. PICK t \in Thread : Locks[t] > 0
            BY <3>1, TallySome
        <3>3. Len(held[t]) + Inside(pc[t]) > 0
            BY <3>2 DEF Locks
        <3>4. held[t] # <<>> \/ pc[t] \in Reading
            <4>1. CASE pc[t] \notin Reading
                <5>1. Inside(pc[t]) = 0
                    BY <4>1 DEF Inside
                <5>2. held[t] \in Seq(Handle)
                    BY <2>0 DEF PoolTypes
                <5> QED
                    BY <3>3, <5>1, <5>2
            <4> QED
                BY <4>1
        <3>5. t \in asleep /\ held[t] # <<>>
            BY <2>1, <2>3, <3>4 DEF Reading
        <3> QED
            BY <2>2, <3>5 DEF Reentrant
    <2> QED
        BY <2>4, <2>5, <2>6
<1> QED
    BY <1>1, PoolInvAlways, PTL

\* Whatever the threads do with the pool, its lock is a read-write lock that
\* prefers its writers.
THEOREM PoolImplementsReadersWriters == Spec => ImplementsReadersWriters
<1>1. PoolInit => Init
    BY DEF PoolInit
<1>2. [Next]_vars => [LockNext]_lockVars
    BY PoolStepsLock
<1> QED
    BY <1>1, <1>2, LockImplementsReadersWriters, PTL DEF Spec, LockSpec

=============================================================================
