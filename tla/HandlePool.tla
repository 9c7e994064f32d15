----------------------------- MODULE HandlePool -----------------------------
(***************************************************************************)
(* The pool of sqlite handles of one database, used by several threads at  *)
(* once.  A thread that runs a statement lets a handle flow out and gives  *)
(* it back; the pool keeps a read lock for as long as a handle is out.     *)
(* Closing takes the write lock, so it waits for all handles, and drops    *)
(* them.                                                                   *)
(*                                                                         *)
(* One action is one access to something the threads share: the lock, the  *)
(* list of free handles (behind a spin lock of its own), the counter of    *)
(* living handles (atomic) and the configs.  Of a handle the model keeps   *)
(* whether it was set up with the configs the pool has now.                *)
(***************************************************************************)
EXTENDS RWLock, Integers, Sequences

CONSTANTS
    HardwareConcurrency,  \* s_hardwareConcurrency: the most free handles
    MaxConcurrency,       \* s_maxConcurrency: the most living handles
    MayCall,              \* bound of the model: the operations of each thread
    MaxHeld,              \* bound of the model: handles a thread has at once
    MaxLost               \* bound of the model: failed set-ups

ASSUME PoolAssumption ==
    /\ {HardwareConcurrency, MaxConcurrency} \subseteq Nat \ {0}
    /\ MayCall \in [Thread -> SUBSET {"flowOut", "canOpen", "purge", "close", "blockade"}]
    /\ {MaxHeld, MaxLost} \subseteq Nat

VARIABLES
    m_handles,  \* the free handles
    m_alive,    \* m_aliveHandleCount
    pc,         \* what each thread is about to do in the pool
    wrap,       \* the handle in a local variable of that thread
    size,       \* the handles that thread has cleared from the list
    held,       \* the handles each thread has got from flowOut
    blockades,  \* the threads between their blockade and their unblockade
    lost        \* history: how many handles a failed set-up has dropped

poolVars == <<m_handles, m_alive, pc, wrap, size, held, blockades, lost>>
vars == <<lockVars, poolVars>>
pool == <<m_handles, m_alive>>
clients == <<held, blockades>>

Handle == {"current", "stale"}

\* Threads in these steps have the read lock.
Reading == {"pop", "check", "generate", "invoke", "push", "unlock", "evict",
            "fill", "countFilled", "unlockFilled", "clear", "subtract"}

Pc == Reading \cup
      {"idle", "flowOut", "uncount", "destroy", "canOpen", "fillOne", "purge",
       "close", "closed", "blockade"}

PoolInit ==
    /\ Init
    /\ m_handles = <<>>
    /\ m_alive = 0
    /\ pc = [t \in Thread |-> "idle"]
    /\ wrap = [t \in Thread |-> "none"]
    /\ size = [t \in Thread |-> 0]
    /\ held = [t \in Thread |-> <<>>]
    /\ blockades = {}
    /\ lost = 0

\* t goes from one step to another.
Goto(t, from, to) ==
    /\ pc[t] = from
    /\ pc' = [pc EXCEPT ![t] = to]

\* t calls an operation of the pool.
Enter(t, step) ==
    /\ step \in MayCall[t]
    /\ Goto(t, "idle", step)
    /\ UNCHANGED <<lockVars, pool, wrap, size, clients, lost>>

CallFlowOut(t) == Len(held[t]) < MaxHeld /\ Enter(t, "flowOut")

\* The last reference to a handle goes away.
CallFlowBack(t) ==
    /\ held[t] # <<>>
    /\ Goto(t, "idle", "push")
    /\ wrap' = [wrap EXCEPT ![t] = held[t][Len(held[t])]]
    /\ held' = [held EXCEPT ![t] = SubSeq(@, 1, Len(@) - 1)]
    /\ UNCHANGED <<lockVars, pool, size, blockades, lost>>

CallOther(t) ==
    \/ Enter(t, "canOpen")
    \/ Enter(t, "purge")
    \/ Enter(t, "close")
    \/ t \notin blockades /\ Enter(t, "blockade")

\* The steps that ask for the lock, and where they go with it.
ToRead == [flowOut |-> "pop", fillOne |-> "fill", purge |-> "clear"]
ToWrite == [close |-> "closed", blockade |-> "idle"]

WaitForLock(t) ==
    /\ \/ pc[t] \in DOMAIN ToRead /\ WaitToRead(t)
       \/ pc[t] \in DOMAIN ToWrite /\ WaitToWrite(t)
    /\ UNCHANGED poolVars

TakeReadLock(t) ==
    /\ pc[t] \in DOMAIN ToRead
    /\ LockRead(t)
    /\ pc' = [pc EXCEPT ![t] = ToRead[pc[t]]]
    /\ UNCHANGED <<pool, wrap, size, clients, lost>>

\* drain has the lock: it clears the list, takes what it cleared off the
\* counter, and calls onDrained.
StartDrain(t) ==
    /\ Goto(t, "close", "closed")
    /\ LockWrite(t)
    /\ m_handles' = <<>>
    /\ m_alive' = m_alive - Len(m_handles)
    /\ UNCHANGED <<wrap, size, clients, lost>>

EndDrain(t) ==
    /\ Goto(t, "closed", "idle")
    /\ UnlockWrite
    /\ UNCHANGED <<pool, wrap, size, clients, lost>>

Blockade(t) ==
    /\ Goto(t, "blockade", "idle")
    /\ LockWrite(t)
    /\ blockades' = blockades \cup {t}
    /\ UNCHANGED <<pool, wrap, size, held, lost>>

Unblockade(t) ==
    /\ pc[t] = "idle"
    /\ t \in blockades
    /\ UnlockWrite
    /\ blockades' = blockades \ {t}
    /\ UNCHANGED <<pool, pc, wrap, size, held, lost>>

\* flowOut: a free handle, if there is one.
PopBack(t) ==
    /\ IF m_handles = <<>>
       THEN /\ Goto(t, "pop", "check")
            /\ UNCHANGED <<m_handles, wrap>>
       ELSE /\ Goto(t, "pop", "invoke")
            /\ wrap' = [wrap EXCEPT ![t] = m_handles[Len(m_handles)]]
            /\ m_handles' = SubSeq(m_handles, 1, Len(m_handles) - 1)
    /\ UNCHANGED <<lockVars, m_alive, size, clients, lost>>

\* Too many handles are an error of the caller.
Check(t) ==
    /\ Goto(t, "check", IF m_alive < MaxConcurrency THEN "generate" ELSE "unlock")
    /\ UNCHANGED <<lockVars, pool, wrap, size, clients, lost>>

\* A new handle is opened, set up and counted, unless sqlite says no.
Generate(t) ==
    /\ \/ /\ Goto(t, "generate", "invoke")
          /\ wrap' = [wrap EXCEPT ![t] = "current"]
          /\ m_alive' = m_alive + 1
       \/ /\ Goto(t, "generate", "unlock")
          /\ UNCHANGED <<wrap, m_alive>>
    /\ UNCHANGED <<lockVars, m_handles, size, clients, lost>>

\* The handle goes out, after the new configs if it has others.
Invoke(t) ==
    /\ Goto(t, "invoke", "idle")
    /\ wrap' = [wrap EXCEPT ![t] = "none"]
    /\ held' = [held EXCEPT ![t] = Append(@, "current")]
    /\ UNCHANGED <<lockVars, pool, size, blockades, lost>>

\* A config fails: the handle is dropped, and nobody counts it out.
InvokeFails(t) ==
    /\ Goto(t, "invoke", "unlock")
    /\ wrap[t] = "stale"
    /\ lost < MaxLost
    /\ lost' = lost + 1
    /\ wrap' = [wrap EXCEPT ![t] = "none"]
    /\ UNCHANGED <<lockVars, pool, size, clients>>

Unlock(t) ==
    /\ Goto(t, "unlock", "idle")
    /\ UnlockRead
    /\ UNCHANGED <<pool, wrap, size, clients, lost>>

HasRoom == Len(m_handles) < HardwareConcurrency

\* flowBack: the handle is free again if the list has room for it.
PushBack(t) ==
    /\ IF HasRoom
       THEN /\ Goto(t, "push", "unlock")
            /\ m_handles' = Append(m_handles, wrap[t])
            /\ wrap' = [wrap EXCEPT ![t] = "none"]
       ELSE /\ Goto(t, "push", "evict")
            /\ UNCHANGED <<m_handles, wrap>>
    /\ UNCHANGED <<lockVars, m_alive, size, clients, lost>>

\* If not, the lock is given back, the handle counted out, and closed when
\* the reference the caller had goes.
UnlockEvicted(t) ==
    /\ Goto(t, "evict", "uncount")
    /\ UnlockRead
    /\ UNCHANGED <<pool, wrap, size, clients, lost>>

\* Mutant: the evicted handle is not counted out.
Uncount_Not(t) ==
    /\ Goto(t, "uncount", "destroy")
    /\ UNCHANGED <<lockVars, pool, wrap, size, clients, lost>>

Uncount(t) ==
    /\ Goto(t, "uncount", "destroy")
    /\ m_alive' = m_alive - 1
    /\ UNCHANGED <<lockVars, m_handles, wrap, size, clients, lost>>

Destroy(t) ==
    /\ Goto(t, "destroy", "idle")
    /\ wrap' = [wrap EXCEPT ![t] = "none"]
    /\ UNCHANGED <<lockVars, pool, size, clients, lost>>

\* canOpen: !isDrained || fillOne
CanOpen(t) ==
    /\ Goto(t, "canOpen", IF m_alive = 0 THEN "fillOne" ELSE "idle")
    /\ UNCHANGED <<lockVars, pool, wrap, size, clients, lost>>

\* fillOne: a new handle, free at once; what the list has no room for is
\* closed when the function returns.
Fill(t) ==
    /\ \/ /\ HasRoom
          /\ Goto(t, "fill", "countFilled")
          /\ m_handles' = Append(m_handles, "current")
          /\ UNCHANGED wrap
       \/ /\ ~ HasRoom
          /\ Goto(t, "fill", "unlockFilled")
          /\ wrap' = [wrap EXCEPT ![t] = "current"]
          /\ UNCHANGED m_handles
       \/ /\ Goto(t, "fill", "unlock")
          /\ UNCHANGED <<m_handles, wrap>>
    /\ UNCHANGED <<lockVars, m_alive, size, clients, lost>>

CountFilled(t) ==
    /\ Goto(t, "countFilled", "unlock")
    /\ m_alive' = m_alive + 1
    /\ UNCHANGED <<lockVars, m_handles, wrap, size, clients, lost>>

UnlockFilled(t) ==
    /\ Goto(t, "unlockFilled", "destroy")
    /\ UnlockRead
    /\ UNCHANGED <<pool, wrap, size, clients, lost>>

\* purgeFreeHandles
Clear(t) ==
    /\ Goto(t, "clear", "subtract")
    /\ size' = [size EXCEPT ![t] = Len(m_handles)]
    /\ m_handles' = <<>>
    /\ UNCHANGED <<lockVars, m_alive, wrap, clients, lost>>

Subtract(t) ==
    /\ Goto(t, "subtract", "unlock")
    /\ m_alive' = m_alive - size[t]
    /\ size' = [size EXCEPT ![t] = 0]
    /\ UNCHANGED <<lockVars, m_handles, wrap, clients, lost>>

Stale(s) == [i \in DOMAIN s |-> "stale"]

\* Every handle there is was set up with other configs now.
SetConfig ==
    /\ m_handles' = Stale(m_handles)
    /\ wrap' = [t \in Thread |-> IF wrap[t] = "none" THEN "none" ELSE "stale"]
    /\ held' = [t \in Thread |-> Stale(held[t])]
    /\ UNCHANGED <<lockVars, m_alive, pc, size, blockades, lost>>

CallNext(t) ==
    \/ CallFlowOut(t)
    \/ CallFlowBack(t)
    \/ CallOther(t)

StepNext(t) ==
    \/ WaitForLock(t)
    \/ TakeReadLock(t)
    \/ StartDrain(t)
    \/ EndDrain(t)
    \/ Blockade(t)
    \/ PopBack(t)
    \/ Check(t)
    \/ Generate(t)
    \/ Invoke(t)
    \/ InvokeFails(t)
    \/ Unlock(t)
    \/ PushBack(t)
    \/ UnlockEvicted(t)
    \/ Uncount(t)
    \/ Destroy(t)
    \/ CanOpen(t)
    \/ Fill(t)
    \/ CountFilled(t)
    \/ UnlockFilled(t)
    \/ Clear(t)
    \/ Subtract(t)

\* The pool's lock can wake a thread for nothing.
Wake(t) == SpuriousWake(t) /\ UNCHANGED poolVars

Next ==
    \/ \E t \in Thread :
        \/ CallNext(t)
        \/ StepNext(t)
        \/ Unblockade(t)
        \/ Wake(t)
    \/ SetConfig

\* A thread that runs inside the pool goes on, and the program gives back
\* the handles and the blockades it has, as the comment on close: asks.
Fairness ==
    \A t \in Thread :
        /\ WF_vars(StepNext(t))
        /\ SF_vars(CallFlowBack(t))
        /\ SF_vars(Unblockade(t))

Spec == PoolInit /\ [][Next]_vars

FairSpec == Spec /\ Fairness

-----------------------------------------------------------------------------
(* Properties                                                              *)

\* Types of the variables; the list keeps to its capacity.
TypeOK ==
    /\ LockTypeOK
    /\ m_handles \in Seq(Handle) /\ Len(m_handles) =< HardwareConcurrency
    /\ m_alive \in Int
    /\ pc \in [Thread -> Pc]
    /\ wrap \in [Thread -> Handle \cup {"none"}]
    /\ size \in [Thread -> 0..HardwareConcurrency]
    /\ held \in [Thread -> Seq(Handle)]
    /\ blockades \subseteq Thread
    /\ lost \in 0..MaxLost

\* While somebody runs onDrained or has the database blockaded, no other
\* thread has a handle or is inside the part of an operation that makes,
\* takes or frees one.  onDrained finds the list empty; the one kind of
\* handle that can still be open is one that found no room in the list: it
\* is closed only after its thread has given the lock back, although the
\* comment on close: promises a closed database.
ClosedIsExclusive ==
    \A t \in Thread :
        /\ pc[t] = "closed" \/ t \in blockades =>
            \A u \in Thread : held[u] = <<>> /\ pc[u] \notin Reading
        /\ pc[t] = "closed" =>
            /\ m_handles = <<>>
            /\ \A u \in Thread : wrap[u] # "none" => pc[u] \in {"uncount", "destroy"}

\* What the threads have together, if thread t has n[t].
Tally(n) == Cardinality(UNION {{t} \X (1..n[t]) : t \in Thread})

\* In these steps the handle in the thread's variable is counted in.
Counts(step) == IF step \in {"invoke", "push", "evict", "uncount"} THEN 1 ELSE 0

\* What each thread answers for in the counter: the handles it has, counted
\* in and not yet counted out.
Share == [t \in Thread |-> Len(held[t]) + size[t] + Counts(pc[t])]

\* The threads that have filled in a handle and are about to count it in.
CountingIn == {t \in Thread : pc[t] = "countFilled"}

\* The counter is maintained in five places, three of them outside the step
\* that changes the list.  Whatever the interleaving, it is off by the
\* handles that a failed set-up dropped, and by nothing else.
AliveIsExact == m_alive + Cardinality(CountingIn) = Len(m_handles) + lost + Tally(Share)

\* flowOut compares the counter with the limit before it opens a handle and
\* counts it after, and fillOne does not compare at all: the limit can be
\* passed, by less than one handle for each thread that opens any.
Openers == {t \in Thread : MayCall[t] \cap {"flowOut", "canOpen"} # {}}
AliveBounded == m_alive < MaxConcurrency + Cardinality(Openers)

\* A thread asks for the lock while it has a handle or a blockade.
Reentrant == \E t \in Thread : call[t] # "none" /\ (held[t] # <<>> \/ t \in blockades)

\* Threads wait, and nobody is left who could let them in.
Stuck ==
    /\ asleep # {}
    /\ \A t \in Thread \ asleep : pc[t] = "idle" /\ held[t] = <<>> /\ t \notin blockades

\* The pool stops for good only when a thread waits for itself: it closes
\* the database it has blockaded or has a handle of, or asks for a second
\* handle while another thread waits to close.
OnlyReentryBlocks == Stuck => Reentrant

\* Unless a thread waits for itself, one who waits to close or to blockade
\* gets in, however busy the others keep the pool.
WriterGetsIn == m_pending > 0 ~> m_writer > 0 \/ Reentrant

\* The list of handles, the counter and those who are out agree, and whoever
\* closes is alone, at every step of every operation.
Coherent ==
    /\ TypeOK
    /\ ClosedIsExclusive
    /\ AliveIsExact
    /\ AliveBounded

=============================================================================
