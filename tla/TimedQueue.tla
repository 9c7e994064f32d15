----------------------------- MODULE TimedQueue -----------------------------
(***************************************************************************)
(* The queue of the checkpoint thread.  A key expires a delay after it was *)
(* queued; queueing it again starts the delay anew.  The list is guarded   *)
(* by a mutex, and the thread that waits for expired keys sleeps on a      *)
(* condition variable while the list is empty.                             *)
(*                                                                         *)
(* Time is counted in ticks, and every moment is kept as its distance from *)
(* now, so that time may pass forever.                                     *)
(***************************************************************************)
EXTENDS Integers, Sequences

CONSTANTS
    Key,
    Delay,  \* m_delay, in ticks
    MaxLag  \* bound of the model: ticks between two lines of the thread

ASSUME QueueAssumption == Delay \in Nat /\ MaxLag \in Nat

VARIABLES
    m_list,    \* the queue, its front first: keys and the ticks they have left
    consumer,  \* what the thread in waitUntilExpired is about to do
    lag,       \* the ticks since it has read the time
    pause,     \* the ticks it is still to sleep
    got,       \* the key that has expired, for onExpired
    age        \* history: the ticks since each key was last queued

queueVars == <<m_list, consumer, lag, pause, got, age>>

Consumer == {"none", "wait", "asleep", "now", "look", "sleep", "expired"}

NoKey == "no key"

QueueInit ==
    /\ m_list = <<>>
    /\ consumer = "none"
    /\ lag = 0
    /\ pause = 0
    /\ got = NoKey
    /\ age = [k \in Key |-> Delay + 1]

\* The thread is started by the first commit of any database.
Started == IF consumer = "none" THEN "wait" ELSE consumer

StartThread ==
    /\ consumer' = Started
    /\ UNCHANGED <<m_list, lag, pause, got, age>>

\* A list that was empty notifies the thread.
Notified == IF m_list = <<>> /\ consumer = "asleep" THEN "wait" ELSE Started

\* Where m_map finds a key.
Place(k) == CHOOSE i \in DOMAIN m_list : m_list[i].key = k

IsQueued(k) == \E i \in DOMAIN m_list : m_list[i].key = k

Erased(k) ==
    IF IsQueued(k)
    THEN SubSeq(m_list, 1, Place(k) - 1) \o SubSeq(m_list, Place(k) + 1, Len(m_list))
    ELSE m_list

\* Mutant: a key that is queued again keeps its expiry.
ReQueue_KeepExpiry(k) ==
    /\ m_list' = <<IF IsQueued(k) THEN m_list[Place(k)] ELSE [key |-> k, left |-> Delay]>> \o Erased(k)
    /\ age' = [age EXCEPT ![k] = 0]
    /\ consumer' = Notified
    /\ UNCHANGED <<lag, pause, got>>

\* Mutant: nobody is notified.
ReQueue_NoNotify(k) ==
    /\ m_list' = <<[key |-> k, left |-> Delay]>> \o Erased(k)
    /\ age' = [age EXCEPT ![k] = 0]
    /\ consumer' = Started
    /\ UNCHANGED <<lag, pause, got>>

\* A key goes to the front, wherever it was.
ReQueue(k) ==
    /\ m_list' = <<[key |-> k, left |-> Delay]>> \o Erased(k)
    /\ age' = [age EXCEPT ![k] = 0]
    /\ consumer' = Notified
    /\ UNCHANGED <<lag, pause, got>>

\* waitUntilExpired: the loop around m_cond.wait.
Wait ==
    /\ consumer = "wait"
    /\ consumer' = IF m_list = <<>> THEN "asleep" ELSE "now"
    /\ UNCHANGED <<m_list, lag, pause, got, age>>

WakeForNothing ==
    /\ consumer = "asleep"
    /\ consumer' = "wait"
    /\ UNCHANGED <<m_list, lag, pause, got, age>>

\* The time is read before the mutex is taken.
ReadTime ==
    /\ consumer = "now"
    /\ consumer' = "look"
    /\ lag' = 0
    /\ UNCHANGED <<m_list, pause, got, age>>

\* Mutant: the front is popped instead of the back.
Look_PopFront ==
    /\ consumer = "look"
    /\ LET back == m_list[Len(m_list)]
       IN  IF back.left + lag < 0
           THEN /\ m_list' = Tail(m_list)
                /\ got' = back.key
                /\ consumer' = "expired"
                /\ UNCHANGED pause
           ELSE /\ pause' = back.left + lag
                /\ consumer' = "sleep"
                /\ UNCHANGED <<m_list, got>>
    /\ lag' = 0
    /\ UNCHANGED age

\* The oldest key is at the back.  It is taken if the time that was read is
\* past its expiry; else the thread sleeps for what was left at that time.
Look ==
    /\ consumer = "look"
    /\ LET back == m_list[Len(m_list)]
       IN  IF back.left + lag < 0
           THEN /\ m_list' = SubSeq(m_list, 1, Len(m_list) - 1)
                /\ got' = back.key
                /\ consumer' = "expired"
                /\ UNCHANGED pause
           ELSE /\ pause' = back.left + lag
                /\ consumer' = "sleep"
                /\ UNCHANGED <<m_list, got>>
    /\ lag' = 0
    /\ UNCHANGED age

WakeUp ==
    /\ consumer = "sleep"
    /\ pause = 0
    /\ consumer' = "now"
    /\ UNCHANGED <<m_list, lag, pause, got, age>>

\* onExpired returns.
Expired ==
    /\ consumer = "expired"
    /\ consumer' = "wait"
    /\ got' = NoKey
    /\ UNCHANGED <<m_list, lag, pause, age>>

AtLeast(a, b) == IF a >= b THEN a ELSE b

\* Time passes; what is far enough in the past is all the same.
Tick ==
    /\ consumer = "look" => lag < MaxLag
    /\ lag' = IF consumer = "look" THEN lag + 1 ELSE 0
    /\ m_list' = [i \in DOMAIN m_list |-> [m_list[i] EXCEPT !.left = AtLeast(@ - 1, -(MaxLag + 1))]]
    /\ pause' = AtLeast(pause - 1, 0)
    /\ age' = [k \in Key |-> IF age[k] > Delay THEN age[k] ELSE age[k] + 1]
    /\ UNCHANGED <<consumer, got>>

ConsumerNext ==
    \/ Wait
    \/ ReadTime
    \/ Look
    \/ WakeUp

-----------------------------------------------------------------------------
(* Properties                                                              *)

QueueTypeOK ==
    /\ m_list \in Seq([key : Key, left : -(MaxLag + 1)..Delay])
    /\ consumer \in Consumer
    /\ lag \in 0..MaxLag
    /\ pause \in 0..Delay + MaxLag
    /\ got \in Key \cup {NoKey}
    /\ age \in [Key -> 0..Delay + 1]

\* The thread looks at the back only, so no key may be there twice, and none
\* may have less time left than one behind it.  When the thread looks, there
\* is a back.
QueueInOrder ==
    /\ \A i, j \in DOMAIN m_list :
        i < j => m_list[i].key # m_list[j].key /\ m_list[i].left >= m_list[j].left
    /\ consumer \in {"now", "look", "sleep"} => m_list # <<>>

\* A key is handed out only when nobody has queued it for the whole delay,
\* even if it was queued again while the thread slept for it.
Debounced == [][got' # got /\ got' # NoKey => age[got'] > Delay]_queueVars

=============================================================================
