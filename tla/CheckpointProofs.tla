-------------------------- MODULE CheckpointProofs --------------------------
(***************************************************************************)
(* Proofs about Checkpoint and the modules it composes: the queue of the   *)
(* checkpoint thread, the registry of pools, the lists of configs and the  *)
(* handles they set up.  They hold for every set of objects and paths,     *)
(* every delay of the queue and every bound on the pools.                  *)
(*                                                                         *)
(* Each part has an invariant of its own (QueueInv, RegistryInv,           *)
(* ConfigsInv, HandlesInv, ThreadInv, FileInv), kept by the steps that     *)
(* touch it.  On these rests the one about the log (LogInv): the handle    *)
(* that made it grow is the registered pool's, it has the key, and Home is *)
(* in the queue or with the thread until the log is checkpointed.          *)
(***************************************************************************)
EXTENDS Checkpoint, FiniteSetTheorems, SequenceTheorems, WellFoundedInduction, TLAPS

-----------------------------------------------------------------------------
(* Sequences                                                               *)

\* A set of numbers has a least one.
LEMMA LeastNumber ==
  ASSUME NEW T \in SUBSET Nat, T # {}
  PROVE  \E n \in T : \A m \in T : n =< m
  <1> DEFINE R == OpToRel(<, Nat)
  <1>1. IsWellFoundedOn(R, Nat)
    BY NatLessThanWellFounded
  <1>2. \A m, n \in Nat : m < n => <<m, n>> \in R
    BY DEF OpToRel
  <1> HIDE DEF R
  <1>3. PICK n \in T : \A m \in T : ~ (<<m, n>> \in R)
    BY <1>1, WFMin
  <1>4. \A m \in T : ~ (m < n)
    BY <1>2, <1>3
  <1>5. n \in Int /\ T \subseteq Int
    BY <1>3
  <1>6. \A m \in T : n =< m
    BY <1>4, <1>5
  <1> QED
    BY <1>3, <1>6

\* What holds of 0 and of every number after one that it holds of.
LEMMA UpTo ==
  ASSUME NEW N \in Nat, NEW S, 0 \in S, \A n \in 1..N : n - 1 \in S => n \in S
  PROVE  0..N \subseteq S
  <1> DEFINE T == {n \in 0..N : n \notin S}
  <1> SUFFICES ASSUME T # {} PROVE FALSE
    OBVIOUS
  <1>1. T \in SUBSET Nat
    OBVIOUS
  <1>2. PICK n \in T : \A m \in T : n =< m
    <2> HIDE DEF T
    <2> QED
      BY <1>1, LeastNumber
  <1>3. n \in 1..N /\ n - 1 \in 0..N /\ n - 1 \notin T
    BY <1>2
  <1> QED
    BY <1>2, <1>3

\* Each value of f comes from the one before it.
Follows(f, N, base, step) == f[0] = base /\ \A n \in 1..N : f[n] = step[n][f[n - 1]]

\* A function can be defined by its first value and the step to the next.
LEMMA Recursion ==
  ASSUME NEW N \in Nat, NEW D, NEW base \in D, NEW step \in [1..N -> [D -> D]]
  PROVE  \E f \in [0..N -> D] : Follows(f, N, base, step)
  <1> DEFINE IsUpTo(f, m) == /\ f \in [0..m -> D] /\ f[0] = base
                             /\ \A n \in 1..m : f[n] = step[n][f[n - 1]]
             S == {m \in 0..N : \E f : IsUpTo(f, m)}
  <1>1. 0 \in S
    <2> DEFINE f == [n \in 0..0 |-> base]
    <2>1. IsUpTo(f, 0)
      OBVIOUS
    <2> HIDE DEF IsUpTo
    <2> QED
      BY <2>1
  <1>2. ASSUME NEW m \in 1..N, m - 1 \in S PROVE m \in S
    <2>1. PICK f : IsUpTo(f, m - 1)
      BY <1>2
    <2> DEFINE g == [n \in 0..m |-> IF n = m THEN step[m][f[m - 1]] ELSE f[n]]
    <2>2. m \in Int /\ 1 =< m /\ m - 1 \in 0..m - 1
      OBVIOUS
    <2>3. f[m - 1] \in D /\ step[m][f[m - 1]] \in D
      BY <2>1, <2>2
    <2>4. \A n \in 0..m : n # m => n \in 0..m - 1
      BY <2>2
    <2>5. g \in [0..m -> D]
      BY <2>1, <2>3, <2>4
    <2>6. g[0] = base
      BY <2>1, <2>2
    <2>7. ASSUME NEW n \in 1..m PROVE g[n] = step[n][g[n - 1]]
      <3>1. n - 1 \in 0..m /\ n - 1 # m /\ n \in 0..m
        BY <2>2
      <3>2. g[n - 1] = f[n - 1]
        BY <3>1
      <3>3. n # m => n \in 1..m - 1
        BY <2>2
      <3> QED
        BY <2>1, <3>1, <3>2, <3>3
    <2>8. IsUpTo(g, m)
      BY <2>5, <2>6, <2>7
    <2> HIDE DEF IsUpTo
    <2> QED
      BY <2>8
  <1> HIDE DEF S
  <1>3. N \in S
    <2>1. 0..N \subseteq S
      BY <1>1, <1>2, UpTo
    <2> QED
      BY <2>1
  <1> QED
    BY <1>3 DEF S, Follows

\* What a sequence is without its element k.
LEMMA ElementRemoved ==
  ASSUME NEW S, NEW s \in Seq(S), NEW k \in DOMAIN s,
         NEW t, t = SubSeq(s, 1, k - 1) \o SubSeq(s, k + 1, Len(s))
  PROVE  /\ t \in Seq(S) /\ Len(t) = Len(s) - 1
         /\ \A j \in 1..Len(s) - 1 : t[j] = IF j < k THEN s[j] ELSE s[j + 1]
  <1> DEFINE a == SubSeq(s, 1, k - 1)
             b == SubSeq(s, k + 1, Len(s))
  <1>1. k \in Int /\ 1 =< k /\ k =< Len(s) /\ Len(s) \in Nat
    OBVIOUS
  <1>2. a \in Seq(S) /\ Len(a) = k - 1 /\ \A j \in 1..k - 1 : a[j] = s[j]
    BY <1>1
  <1>3. b \in Seq(S) /\ Len(b) = Len(s) - k
    BY <1>1
  <1>4. \A j \in 1..Len(s) - k : b[j] = s[j + k]
    BY <1>1
  <1> HIDE DEF a, b
  <1>5. /\ a \o b \in Seq(S) /\ Len(a \o b) = Len(s) - 1
        /\ \A j \in 1..Len(s) - 1 : (a \o b)[j] = IF j < k THEN a[j] ELSE b[j - (k - 1)]
    <2>1. /\ a \o b \in Seq(S) /\ Len(a \o b) = Len(a) + Len(b)
          /\ \A j \in 1..Len(a) + Len(b) : (a \o b)[j] = IF j =< Len(a) THEN a[j] ELSE b[j - Len(a)]
      BY <1>2, <1>3, ConcatProperties
    <2>2. Len(a) + Len(b) = Len(s) - 1
      BY <1>1, <1>2, <1>3
    <2>3. ASSUME NEW j \in 1..Len(s) - 1
          PROVE  (a \o b)[j] = IF j < k THEN a[j] ELSE b[j - (k - 1)]
      <3>1. j \in 1..Len(a) + Len(b)
        BY <2>2
      <3>2. (j =< Len(a)) = (j < k) /\ j - Len(a) = j - (k - 1)
        BY <1>1, <1>2
      <3> QED
        BY <2>1, <3>1, <3>2
    <2> QED
      BY <2>1, <2>2, <2>3
  <1>6. \A j \in 1..Len(s) - 1 : (a \o b)[j] = IF j < k THEN s[j] ELSE s[j + 1]
    <2> TAKE j \in 1..Len(s) - 1
    <2>1. CASE j < k
      BY <1>1, <1>2, <1>5, <2>1
    <2>2. CASE ~ (j < k)
      <3>1. j - (k - 1) \in 1..Len(s) - k /\ j - (k - 1) + k = j + 1
        BY <1>1, <2>2
      <3>2. b[j - (k - 1)] = s[j + 1]
        BY <1>4, <3>1
      <3> QED
        BY <1>5, <2>2, <3>2
    <2> QED
      BY <2>1, <2>2
  <1>7. t = a \o b
    BY DEF a, b
  <1> QED
    BY <1>5, <1>6, <1>7

-----------------------------------------------------------------------------
(* The queue                                                               *)

\* An element of the list.
Element == [key : Key, left : -(MaxLag + 1)..Delay]

\* What an element has left is what is missing to the delay since its key
\* was queued.
LeftIsAge ==
    \A i \in DOMAIN m_list :
        IF age[m_list[i].key] > Delay THEN m_list[i].left < 0
        ELSE m_list[i].left = Delay - age[m_list[i].key]

\* What every step keeps of the queue.
QueueInv == QueueTypeOK /\ QueueInOrder /\ LeftIsAge

\* The list is a sequence of elements.
LEMMA QueueTypes ==
  QueueTypeOK => /\ Delay \in Nat /\ MaxLag \in Nat
                 /\ m_list \in Seq(Element) /\ Len(m_list) \in Nat /\ DOMAIN m_list = 1..Len(m_list)
                 /\ \A i \in DOMAIN m_list : /\ m_list[i].key \in Key /\ m_list[i].left \in Int
                                             /\ -(MaxLag + 1) =< m_list[i].left /\ m_list[i].left =< Delay
                                             /\ m_list[i] \in Element
                                             /\ age[m_list[i].key] \in 0..Delay + 1
  <1> SUFFICES ASSUME QueueTypeOK
               PROVE  /\ m_list \in Seq(Element) /\ Len(m_list) \in Nat /\ DOMAIN m_list = 1..Len(m_list)
                      /\ \A i \in DOMAIN m_list : /\ m_list[i].key \in Key /\ m_list[i].left \in Int
                                                  /\ -(MaxLag + 1) =< m_list[i].left /\ m_list[i].left =< Delay
                                                  /\ m_list[i] \in Element
                                                  /\ age[m_list[i].key] \in 0..Delay + 1
    BY QueueAssumption
  <1>1. m_list \in Seq(Element) /\ age \in [Key -> 0..Delay + 1]
    BY DEF QueueTypeOK, Element
  <1>2. Len(m_list) \in Nat /\ DOMAIN m_list = 1..Len(m_list)
    BY <1>1
  <1>3. ASSUME NEW i \in DOMAIN m_list
        PROVE  /\ m_list[i].key \in Key /\ m_list[i].left \in Int
               /\ -(MaxLag + 1) =< m_list[i].left /\ m_list[i].left =< Delay
               /\ m_list[i] \in Element
               /\ age[m_list[i].key] \in 0..Delay + 1
    <2>1. m_list[i] \in Element
      BY <1>1, <1>2
    <2>2. m_list[i].key \in Key /\ m_list[i].left \in -(MaxLag + 1)..Delay
      BY <2>1 DEF Element
    <2> QED
      BY <1>1, <2>1, <2>2, QueueAssumption
  <1> QED
    BY <1>1, <1>2, <1>3

\* The element of a key is taken out, and nothing else.
LEMMA ErasedFacts ==
  ASSUME QueueTypeOK, QueueInOrder, NEW k \in Key
  PROVE  /\ Erased(k) \in Seq(Element)
         /\ \A j \in DOMAIN Erased(k) : Erased(k)[j].key # k
         /\ \A j \in DOMAIN Erased(k) : \E i \in DOMAIN m_list : Erased(k)[j] = m_list[i]
         /\ \A i \in DOMAIN m_list : m_list[i].key # k => \E j \in DOMAIN Erased(k) : Erased(k)[j] = m_list[i]
         /\ \A i, j \in DOMAIN Erased(k) : i < j =>
                Erased(k)[i].key # Erased(k)[j].key /\ Erased(k)[i].left >= Erased(k)[j].left
  <1> DEFINE t == Erased(k)
             n == Len(m_list)
             p == Place(k)
  <1>1. /\ m_list \in Seq(Element) /\ n \in Nat /\ DOMAIN m_list = 1..n
        /\ \A i \in 1..n : m_list[i] \in Element /\ m_list[i].left \in Int
    BY QueueTypes
  <1>2. \A i, j \in 1..n : i < j => m_list[i].key # m_list[j].key /\ m_list[i].left >= m_list[j].left
    BY <1>1 DEF QueueInOrder
  <1>3. CASE ~ IsQueued(k)
    <2>1. t = m_list /\ \A i \in 1..n : m_list[i].key # k
      BY <1>1, <1>3 DEF Erased, IsQueued
    <2> QED
      BY <1>1, <1>2, <2>1
  <1>4. CASE IsQueued(k)
    <2>1. p \in 1..n /\ m_list[p].key = k
      BY <1>1, <1>4 DEF IsQueued, Place
    <2>2. t = SubSeq(m_list, 1, p - 1) \o SubSeq(m_list, p + 1, Len(m_list))
      BY <1>4 DEF Erased
    <2> HIDE DEF t, p
    <2>3. /\ t \in Seq(Element) /\ Len(t) = n - 1
          /\ \A j \in 1..n - 1 : t[j] = IF j < p THEN m_list[j] ELSE m_list[j + 1]
      <3>1. p \in DOMAIN m_list
        BY <1>1, <2>1
      <3> QED
        BY <1>1, <2>2, <3>1, ElementRemoved
    <2>4. DOMAIN t = 1..n - 1
      BY <2>3
    <2>5. \A j \in 1..n - 1 : \E i \in 1..n : i # p /\ t[j] = m_list[i] /\ i = IF j < p THEN j ELSE j + 1
      <3> TAKE j \in 1..n - 1
      <3>1. CASE j < p
        BY <1>1, <2>1, <2>3, <3>1
      <3>2. CASE ~ (j < p)
        <4>1. j + 1 \in 1..n /\ j + 1 # p
          BY <1>1, <2>1, <3>2
        <4> QED
          BY <2>3, <3>2, <4>1
      <3> QED
        BY <3>1, <3>2
    <2>6. \A i \in 1..n : i # p => m_list[i].key # k
      <3> TAKE i \in 1..n
      <3>1. i < p \/ p < i \/ i = p
        BY <1>1, <2>1
      <3> QED
        BY <1>2, <2>1, <3>1
    <2>7. ASSUME NEW i \in 1..n, m_list[i].key # k
          PROVE  \E j \in 1..n - 1 : t[j] = m_list[i]
      <3>1. i # p
        BY <2>1, <2>7
      <3>2. CASE i < p
        BY <1>1, <2>1, <2>3, <3>2
      <3>3. CASE i > p
        <4>1. PICK j \in 1..n - 1 : j + 1 = i /\ ~ (j < p)
          <5>1. i - 1 \in 1..n - 1 /\ (i - 1) + 1 = i /\ ~ (i - 1 < p)
            BY <1>1, <2>1, <3>3
          <5> QED
            BY <5>1
        <4> QED
          BY <2>3, <4>1
      <3> QED
        BY <1>1, <2>1, <3>1, <3>2, <3>3
    <2>8. ASSUME NEW i \in 1..n - 1, NEW j \in 1..n - 1, i < j
          PROVE  t[i].key # t[j].key /\ t[i].left >= t[j].left
      <3>1. PICK x \in 1..n : t[i] = m_list[x] /\ x = IF i < p THEN i ELSE i + 1
        BY <2>5
      <3>2. PICK y \in 1..n : t[j] = m_list[y] /\ y = IF j < p THEN j ELSE j + 1
        BY <2>5
      <3>3. x < y
        BY <2>1, <2>8, <3>1, <3>2
      <3> QED
        BY <1>2, <3>1, <3>2, <3>3
    <2>9. \A j \in 1..n - 1 : t[j].key # k
      BY <2>5, <2>6
    <2>10. \A j \in DOMAIN t : \E i \in DOMAIN m_list : t[j] = m_list[i]
      BY <1>1, <2>4, <2>5
    <2>11. \A i \in DOMAIN m_list : m_list[i].key # k => \E j \in DOMAIN t : t[j] = m_list[i]
      BY <1>1, <2>4, <2>7
    <2>12. \A i, j \in DOMAIN t : i < j => t[i].key # t[j].key /\ t[i].left >= t[j].left
      BY <2>4, <2>8
    <2> QED
      BY <2>3, <2>4, <2>9, <2>10, <2>11, <2>12 DEF t
  <1> QED
    BY <1>3, <1>4

\* The consumer's place after a key was queued.
LEMMA NotifiedFacts ==
  ASSUME consumer \in Consumer
  PROVE  /\ Started \in Consumer /\ Notified \in Consumer
         /\ Started \in {"now", "look", "sleep"} => consumer \in {"now", "look", "sleep"}
         /\ (Started = "expired") = (consumer = "expired")
         /\ (Notified = "expired") = (consumer = "expired")
         /\ Notified \in {"now", "look", "sleep"} => consumer \in {"now", "look", "sleep"}
  BY DEF Started, Notified, Consumer

\* A key that is queued is in the queue, as new; no other leaves it.
LEMMA ReQueueKeeps ==
  ASSUME QueueInv, NEW k \in Key, ReQueue(k)
  PROVE  /\ QueueInv'
         /\ IsQueued(k)' /\ \A q : IsQueued(q) => IsQueued(q)'
         /\ got' = got /\ (consumer' = "expired") = (consumer = "expired")
  <1> DEFINE e == [key |-> k, left |-> Delay]
             t == Erased(k)
  <1>1. QueueTypeOK /\ QueueInOrder /\ LeftIsAge
    BY DEF QueueInv
  <1>2. /\ t \in Seq(Element)
        /\ \A j \in DOMAIN t : t[j].key # k
        /\ \A j \in DOMAIN t : \E i \in DOMAIN m_list : t[j] = m_list[i]
        /\ \A i \in DOMAIN m_list : m_list[i].key # k => \E j \in DOMAIN t : t[j] = m_list[i]
        /\ \A i, j \in DOMAIN t : i < j => t[i].key # t[j].key /\ t[i].left >= t[j].left
    BY <1>1, ErasedFacts
  <1>3. m_list' = <<e>> \o t
    BY DEF ReQueue
  <1>4. age' = [age EXCEPT ![k] = 0] /\ UNCHANGED <<lag, pause, got>> /\ consumer' = Notified
    BY DEF ReQueue
  <1>5. /\ Delay \in Nat /\ MaxLag \in Nat
        /\ \A i \in DOMAIN m_list : /\ m_list[i].left \in Int /\ m_list[i].left =< Delay
                                    /\ m_list[i].key \in Key
    BY <1>1, QueueTypes
  <1>6. e \in Element /\ e.key = k /\ e.left = Delay
    BY <1>5 DEF Element
  <1> HIDE DEF e, t
  <1>7. /\ m_list' \in Seq(Element) /\ Len(t) \in Nat /\ DOMAIN t = 1..Len(t)
        /\ DOMAIN m_list' = 1..Len(t) + 1
        /\ m_list'[1] = e
    <2>1. <<e>> \in Seq(Element) /\ Len(<<e>>) = 1 /\ <<e>>[1] = e
      BY <1>6
    <2>2. /\ m_list' \in Seq(Element) /\ Len(m_list') = 1 + Len(t)
          /\ \A i \in 1..1 + Len(t) : m_list'[i] = IF i =< 1 THEN <<e>>[i] ELSE t[i - 1]
      BY <1>2, <1>3, <2>1, ConcatProperties
    <2>3. Len(t) \in Nat /\ DOMAIN t = 1..Len(t)
      BY <1>2
    <2> QED
      BY <2>1, <2>2, <2>3
  <1>8. \A j \in DOMAIN t : j + 1 \in DOMAIN m_list' /\ m_list'[j + 1] = t[j]
    BY <1>2, <1>3, <1>7
  <1>9. \A i \in DOMAIN m_list' : i = 1 \/ (i - 1 \in DOMAIN t /\ m_list'[i] = t[i - 1])
    <2> TAKE i \in DOMAIN m_list'
    <2>1. CASE i # 1
      <3>1. i - 1 \in DOMAIN t /\ (i - 1) + 1 = i
        BY <1>7, <2>1
      <3> QED
        BY <1>8, <3>1
    <2> QED
      BY <2>1
  <1>10. \A j \in DOMAIN t : t[j].left =< Delay /\ t[j].left \in Int
    BY <1>2, <1>5
  <1>11. \A i, j \in DOMAIN m_list' :
            i < j => m_list'[i].key # m_list'[j].key /\ m_list'[i].left >= m_list'[j].left
    <2> TAKE i, j \in DOMAIN m_list'
    <2> HAVE i < j
    <2>1. i \in Int /\ j \in Int /\ 1 =< i /\ j # 1
      BY <1>7
    <2>2. j - 1 \in DOMAIN t /\ m_list'[j] = t[j - 1]
      BY <1>9, <2>1
    <2>3. CASE i = 1
      BY <1>2, <1>5, <1>6, <1>7, <1>10, <2>2, <2>3
    <2>4. CASE i # 1
      <3>1. i - 1 \in DOMAIN t /\ m_list'[i] = t[i - 1]
        BY <1>9, <2>4
      <3>2. i - 1 < j - 1
        BY <2>1
      <3> QED
        BY <1>2, <2>2, <3>1, <3>2
    <2> QED
      BY <2>3, <2>4
  <1>12. age \in [Key -> 0..Delay + 1] /\ age' \in [Key -> 0..Delay + 1] /\ age'[k] = 0
         /\ \A q \in Key : q # k => age'[q] = age[q]
    BY <1>1, <1>4, <1>5 DEF QueueTypeOK
  <1>13. LeftIsAge'
    <2>1. ASSUME NEW i \in DOMAIN m_list'
          PROVE  IF age'[m_list'[i].key] > Delay THEN m_list'[i].left < 0
                 ELSE m_list'[i].left = Delay - age'[m_list'[i].key]
      <3>1. CASE i = 1
        BY <1>5, <1>6, <1>7, <1>12, <3>1
      <3>2. CASE i # 1
        <4>1. i - 1 \in DOMAIN t /\ m_list'[i] = t[i - 1]
          BY <1>9, <3>2
        <4>2. PICK x \in DOMAIN m_list : m_list'[i] = m_list[x]
          BY <1>2, <4>1
        <4>3. m_list[x].key # k /\ m_list[x].key \in Key
          BY <1>2, <1>5, <4>1, <4>2
        <4> QED
          BY <1>1, <1>12, <4>2, <4>3 DEF LeftIsAge
      <3> QED
        BY <3>1, <3>2
    <2> QED
      BY <2>1 DEF LeftIsAge
  <1>14. /\ consumer' \in Consumer
         /\ (consumer' = "expired") = (consumer = "expired")
    BY <1>1, <1>4, NotifiedFacts DEF QueueTypeOK
  <1>15. QueueTypeOK'
    BY <1>1, <1>4, <1>7, <1>12, <1>14 DEF QueueTypeOK, Element
  <1>16. m_list' # <<>>
    BY <1>7
  <1>17. QueueInOrder'
    BY <1>11, <1>16 DEF QueueInOrder
  <1>18. IsQueued(k)'
    BY <1>6, <1>7 DEF IsQueued
  <1>19. ASSUME NEW q, IsQueued(q), q # k PROVE IsQueued(q)'
    <2>1. PICK i \in DOMAIN m_list : m_list[i].key = q
      BY <1>19 DEF IsQueued
    <2>2. PICK j \in DOMAIN t : t[j] = m_list[i]
      BY <1>2, <1>19, <2>1
    <2> QED
      BY <1>8, <2>1, <2>2 DEF IsQueued
  <1> QED
    BY <1>4, <1>13, <1>14, <1>15, <1>17, <1>18, <1>19 DEF QueueInv

\* The steps that move the consumer only.
LEMMA ConsumerKeeps ==
  ASSUME QueueInv, UNCHANGED <<m_list, age>>,
         consumer' \in Consumer, lag' \in 0..MaxLag, pause' \in 0..Delay + MaxLag, got' \in Key \cup {NoKey},
         consumer' \in {"now", "look", "sleep"} => m_list # <<>>
  PROVE  QueueInv' /\ \A q : IsQueued(q)' = IsQueued(q)
  BY DEF QueueInv, QueueTypeOK, QueueInOrder, LeftIsAge, IsQueued

\* The thread takes the last element, when its delay is over, or sleeps.
LEMMA LookKeeps ==
  ASSUME QueueInv, Look
  PROVE  /\ QueueInv'
         /\ \A q : IsQueued(q) => IsQueued(q)' \/ got' = q
         /\ \/ consumer' = "sleep" /\ got' = got
            \/ consumer' = "expired" /\ got' \in Key /\ age[got'] > Delay
  <1> DEFINE n == Len(m_list)
             back == m_list[n]
  <1>1. QueueTypeOK /\ QueueInOrder /\ LeftIsAge /\ consumer = "look"
    BY DEF QueueInv, Look
  <1>2. /\ Delay \in Nat /\ MaxLag \in Nat
        /\ m_list \in Seq(Element) /\ n \in Nat /\ DOMAIN m_list = 1..n
        /\ \A i \in DOMAIN m_list : /\ m_list[i].key \in Key /\ m_list[i].left \in Int
                                    /\ -(MaxLag + 1) =< m_list[i].left /\ m_list[i].left =< Delay
                                    /\ m_list[i] \in Element
                                    /\ age[m_list[i].key] \in 0..Delay + 1
    BY <1>1, QueueTypes
  <1>3. n \in DOMAIN m_list
    <2>1. m_list # <<>>
      BY <1>1 DEF QueueInOrder
    <2> QED
      BY <1>2, <2>1
  <1>4. lag \in Int /\ 0 =< lag /\ lag =< MaxLag
    BY <1>1, <1>2 DEF QueueTypeOK
  <1>5. CASE back.left + lag < 0
    <2> DEFINE t == SubSeq(m_list, 1, n - 1)
    <2>1. m_list' = t /\ got' = back.key /\ consumer' = "expired" /\ lag' = 0 /\ UNCHANGED <<pause, age>>
      BY <1>5 DEF Look
    <2>2. t \in Seq(Element) /\ DOMAIN t = 1..n - 1 /\ \A i \in 1..n - 1 : t[i] = m_list[i]
      BY <1>2, <1>3
    <2> HIDE DEF t
    <2>3. QueueTypeOK'
      <3>1. consumer' \in Consumer /\ lag' \in 0..MaxLag /\ got' \in Key
        BY <1>2, <1>3, <2>1 DEF Consumer
      <3> QED
        BY <1>1, <2>1, <2>2, <3>1 DEF QueueTypeOK, Element
    <2>4. \A i \in DOMAIN m_list' : i \in DOMAIN m_list /\ m_list'[i] = m_list[i]
      BY <1>2, <2>1, <2>2
    <2>5. QueueInOrder'
      BY <1>1, <2>1, <2>4 DEF QueueInOrder
    <2>6. LeftIsAge'
      BY <1>1, <2>1, <2>4 DEF LeftIsAge
    <2>7. back.left < 0
      BY <1>2, <1>3, <1>4, <1>5
    <2>8. age[back.key] > Delay
      <3>1. back.left = Delay - age[back.key] \/ age[back.key] > Delay
        BY <1>1, <1>3 DEF LeftIsAge
      <3> QED
        BY <1>2, <1>3, <2>7, <3>1
    <2>9. ASSUME NEW q, IsQueued(q), q # back.key PROVE IsQueued(q)'
      <3>1. PICK i \in DOMAIN m_list : m_list[i].key = q
        BY <2>9 DEF IsQueued
      <3>2. i \in 1..n - 1
        BY <1>2, <1>3, <2>9, <3>1
      <3> QED
        BY <2>1, <2>2, <3>1, <3>2 DEF IsQueued
    <2> QED
      BY <1>2, <1>3, <2>1, <2>3, <2>5, <2>6, <2>8, <2>9 DEF QueueInv
  <1>6. CASE ~ (back.left + lag < 0)
    <2>1. /\ UNCHANGED <<m_list, got, age>> /\ consumer' = "sleep" /\ lag' = 0
          /\ pause' = back.left + lag
      BY <1>6 DEF Look
    <2>2. pause' \in 0..Delay + MaxLag
      BY <1>2, <1>3, <1>4, <1>6, <2>1
    <2>3. consumer' \in Consumer /\ lag' \in 0..MaxLag /\ got' \in Key \cup {NoKey} /\ m_list # <<>>
      BY <1>1, <1>2, <2>1 DEF Consumer, QueueTypeOK, QueueInOrder
    <2> QED
      BY <2>1, <2>2, <2>3, ConsumerKeeps
  <1> QED
    BY <1>5, <1>6

\* Time passes for every element alike.
LEMMA TickKeeps ==
  ASSUME QueueInv, Tick
  PROVE  /\ QueueInv'
         /\ \A q : IsQueued(q)' = IsQueued(q)
         /\ UNCHANGED <<consumer, got>>
  <1> DEFINE n == Len(m_list)
             Later(x) == AtLeast(x - 1, -(MaxLag + 1))
  <1>1. QueueTypeOK /\ QueueInOrder /\ LeftIsAge
    BY DEF QueueInv
  <1>2. /\ Delay \in Nat /\ MaxLag \in Nat
        /\ m_list \in Seq(Element) /\ n \in Nat /\ DOMAIN m_list = 1..n
        /\ \A i \in DOMAIN m_list : /\ m_list[i].key \in Key /\ m_list[i].left \in Int
                                    /\ -(MaxLag + 1) =< m_list[i].left /\ m_list[i].left =< Delay
                                    /\ m_list[i] \in Element
                                    /\ age[m_list[i].key] \in 0..Delay + 1
    BY <1>1, QueueTypes
  <1>3. \A i \in DOMAIN m_list : /\ m_list'[i] \in Element
                                 /\ m_list'[i].key = m_list[i].key /\ m_list'[i].left = Later(m_list[i].left)
    <2> TAKE i \in DOMAIN m_list
    <2>1. m_list'[i] = [m_list[i] EXCEPT !.left = Later(m_list[i].left)]
      BY DEF Tick
    <2>2. Later(m_list[i].left) \in -(MaxLag + 1)..Delay
      BY <1>2 DEF AtLeast
    <2> HIDE DEF Later
    <2> QED
      BY <1>2, <2>1, <2>2 DEF Element
  <1>4. m_list' \in Seq(Element) /\ DOMAIN m_list' = 1..n
    <2>1. m_list' \in [1..n -> Element]
      <3>1. m_list' = [i \in 1..n |-> m_list'[i]]
        BY <1>2 DEF Tick
      <3> QED
        BY <1>2, <1>3, <3>1
    <2> QED
      BY <1>2, <2>1, SeqDef
  <1>5. lag \in 0..MaxLag /\ lag' \in 0..MaxLag
    BY <1>1, <1>2 DEF Tick, QueueTypeOK
  <1>6. pause' \in 0..Delay + MaxLag
    BY <1>1, <1>2 DEF Tick, QueueTypeOK, AtLeast
  <1>7. /\ age \in [Key -> 0..Delay + 1] /\ age' \in [Key -> 0..Delay + 1]
        /\ \A q \in Key : age'[q] = IF age[q] > Delay THEN age[q] ELSE age[q] + 1
    <2>1. age \in [Key -> 0..Delay + 1]
      BY <1>1 DEF QueueTypeOK
    <2>2. age' = [q \in Key |-> IF age[q] > Delay THEN age[q] ELSE age[q] + 1]
      BY DEF Tick
    <2> QED
      BY <1>2, <2>1, <2>2
  <1>8. UNCHANGED <<consumer, got>>
    BY DEF Tick
  <1>9. QueueTypeOK'
    BY <1>1, <1>4, <1>5, <1>6, <1>7, <1>8 DEF QueueTypeOK, Element
  <1>10. QueueInOrder'
    <2>1. ASSUME NEW i \in DOMAIN m_list', NEW j \in DOMAIN m_list', i < j
          PROVE  m_list'[i].key # m_list'[j].key /\ m_list'[i].left >= m_list'[j].left
      <3>1. i \in DOMAIN m_list /\ j \in DOMAIN m_list
        BY <1>2, <1>4
      <3>2. m_list[i].key # m_list[j].key /\ m_list[i].left >= m_list[j].left
        BY <1>1, <2>1, <3>1 DEF QueueInOrder
      <3>3. \A x, y \in Int : x >= y => Later(x) >= Later(y)
        BY <1>2 DEF AtLeast
      <3> HIDE DEF Later
      <3> QED
        BY <1>2, <1>3, <3>1, <3>2, <3>3
    <2>2. consumer' \in {"now", "look", "sleep"} => m_list' # <<>>
      <3>1. m_list # <<>> => n # 0
        BY <1>2
      <3>2. n # 0 => m_list' # <<>>
        BY <1>2, <1>4
      <3> QED
        BY <1>1, <1>8, <3>1, <3>2 DEF QueueInOrder
    <2> QED
      BY <2>1, <2>2 DEF QueueInOrder
  <1>11. LeftIsAge'
    <2>1. ASSUME NEW i \in DOMAIN m_list'
          PROVE  IF age'[m_list'[i].key] > Delay THEN m_list'[i].left < 0
                 ELSE m_list'[i].left = Delay - age'[m_list'[i].key]
      <3>1. i \in DOMAIN m_list
        BY <1>2, <1>4
      <3> DEFINE a == age[m_list[i].key]
                 l == m_list[i].left
      <3>2. IF a > Delay THEN l < 0 ELSE l = Delay - a
        BY <1>1, <3>1 DEF LeftIsAge
      <3>3. a \in Int /\ 0 =< a /\ l \in Int /\ l =< Delay
        BY <1>2, <3>1
      <3>4. age'[m_list'[i].key] = IF a > Delay THEN a ELSE a + 1
        BY <1>2, <1>3, <1>7, <3>1
      <3>5. m_list'[i].left = Later(l)
        BY <1>3, <3>1
      <3> HIDE DEF a, l
      <3> QED
        BY <1>2, <3>2, <3>3, <3>4, <3>5 DEF AtLeast
    <2> QED
      BY <2>1 DEF LeftIsAge
  <1>12. \A q : IsQueued(q)' = IsQueued(q)
    BY <1>2, <1>3, <1>4 DEF IsQueued
  <1> QED
    BY <1>8, <1>9, <1>10, <1>11, <1>12 DEF QueueInv

\* The steps of the queue that are not part of another.  A key leaves the
\* queue into the hands of the thread, which keeps it until onExpired returns.
LEMMA QueueStep ==
  ASSUME QueueInv, ConsumerNext \/ WakeForNothing \/ Tick
  PROVE  /\ QueueInv'
         /\ \A q : IsQueued(q) => IsQueued(q)' \/ (consumer' = "expired" /\ got' = q)
         /\ consumer = "expired" =>
                consumer' = "expired" /\ got' = got /\ \A q : IsQueued(q) => IsQueued(q)'
         /\ got' # got /\ got' # NoKey => age[got'] > Delay
  <1> USE DEF QueueInv, QueueTypeOK
  <1>1. CASE Wait \/ WakeForNothing \/ ReadTime \/ WakeUp
    <2>1. /\ UNCHANGED <<m_list, age, pause, got>> /\ lag' \in 0..MaxLag /\ consumer' \in Consumer
          /\ consumer' \in {"now", "look", "sleep"} => m_list # <<>>
          /\ consumer # "expired"
      BY <1>1, QueueAssumption DEF Wait, WakeForNothing, ReadTime, WakeUp, Consumer, QueueInOrder
    <2>2. QueueInv' /\ \A q : IsQueued(q)' = IsQueued(q)
      BY <2>1, ConsumerKeeps
    <2> QED
      BY <2>1, <2>2
  <1>2. CASE Look
    <2>1. consumer # "expired"
      BY <1>2 DEF Look
    <2>2. QueueInv' /\ \A q : IsQueued(q) => IsQueued(q)' \/ got' = q
      BY <1>2, LookKeeps
    <2>3. \/ consumer' = "sleep" /\ got' = got
          \/ consumer' = "expired" /\ got' \in Key /\ age[got'] > Delay
      BY <1>2, LookKeeps
    <2>4. consumer' = "sleep" => \A q : IsQueued(q)' = IsQueued(q)
      <3>1. consumer' = "sleep" => UNCHANGED m_list
        BY <1>2 DEF Look
      <3> QED
        BY <3>1 DEF IsQueued
    <2> QED
      BY <2>1, <2>2, <2>3, <2>4
  <1>3. CASE Tick
    BY <1>3, TickKeeps
  <1> QED
    BY <1>1, <1>2, <1>3 DEF ConsumerNext

\* The thread starts; the queue is as it was.
LEMMA StartThreadKeeps ==
  ASSUME QueueInv, StartThread
  PROVE  /\ QueueInv' /\ \A q : IsQueued(q)' = IsQueued(q)
         /\ got' = got /\ (consumer' = "expired") = (consumer = "expired")
  <1>1. /\ consumer' \in Consumer
        /\ consumer' \in {"now", "look", "sleep"} => consumer \in {"now", "look", "sleep"}
        /\ (consumer' = "expired") = (consumer = "expired")
    BY NotifiedFacts DEF QueueInv, QueueTypeOK, StartThread
  <1>2. UNCHANGED <<m_list, lag, pause, got, age>>
    BY DEF StartThread
  <1>3. consumer' \in {"now", "look", "sleep"} => m_list # <<>>
    BY <1>1 DEF QueueInv, QueueInOrder
  <1> QED
    BY <1>1, <1>2, <1>3, ConsumerKeeps DEF QueueInv, QueueTypeOK

-----------------------------------------------------------------------------
(* The registry of pools                                                   *)

\* The objects an entry of the registry counts.
InUse == {o \in Object \ byTag : object[o] # 0}

\* All pools are of one path.  Until an object made by tag is released, the
\* entry counts the objects made by path, and they have its pool.
RegistryInv ==
    /\ RegistryTypeOK
    /\ byTag \subseteq {o \in App : object[o] # 0}
    /\ \A i \in DOMAIN pools : pools[i].path = Home
    /\ DOMAIN s_pools \subseteq {Home}
    /\ ~ released =>
        /\ ~ undefined
        /\ IF Home \in DOMAIN s_pools
           THEN /\ s_pools[Home].count = Cardinality(InUse)
                /\ \A o \in InUse : object[o] = s_pools[Home].pool
           ELSE InUse = {}

\* There are finitely many objects, so that they can be counted.
LEMMA ObjectsFinite == IsFiniteSet(Object) /\ IsFiniteSet(InUse)
  <1>1. IsFiniteSet(Object)
    BY CheckpointAssumption, FS_AddElement
  <1>2. InUse \in SUBSET Object
    BY DEF InUse
  <1> QED
    BY <1>1, <1>2, FS_Subset

\* What the registry and the objects refer to are pools.
LEMMA RegistryTypes ==
  ASSUME RegistryTypeOK
  PROVE  /\ pools \in Seq([path : Path, tag : Tag \cup {InvalidTag}])
         /\ Len(pools) \in Nat /\ DOMAIN pools = 1..Len(pools)
         /\ object \in [Object -> 0..Len(pools)]
         /\ \A o \in Object : object[o] # 0 => object[o] \in DOMAIN pools
         /\ \A p \in DOMAIN s_pools : /\ s_pools[p] \in [pool : 1..Len(pools), count : Nat \ {0}]
                                      /\ s_pools[p].pool \in DOMAIN pools
                                      /\ s_pools[p].count \in Nat \ {0}
         /\ released \in BOOLEAN /\ undefined \in BOOLEAN
  <1>1. pools \in Seq([path : Path, tag : Tag \cup {InvalidTag}])
    BY DEF RegistryTypeOK
  <1>2. Len(pools) \in Nat /\ DOMAIN pools = 1..Len(pools)
    BY <1>1
  <1>3. object \in [Object -> 0..Len(pools)] /\ released \in BOOLEAN /\ undefined \in BOOLEAN
    BY DEF RegistryTypeOK
  <1>4. \A o \in Object : object[o] # 0 => object[o] \in DOMAIN pools
    BY <1>2, <1>3
  <1>5. \A p \in DOMAIN s_pools : s_pools[p] \in [pool : 1..Len(pools), count : Nat \ {0}]
    BY DEF RegistryTypeOK
  <1>6. \A p \in DOMAIN s_pools : s_pools[p].pool \in DOMAIN pools /\ s_pools[p].count \in Nat \ {0}
    BY <1>2, <1>5
  <1> QED
    BY <1>1, <1>2, <1>3, <1>4, <1>5, <1>6

\* An object is made by path: it gets the registered pool.
LEMMA GetPoolKeeps ==
  ASSUME RegistryInv, NEW o \in Object, GetPoolOfPath(o, Home)
  PROVE  /\ RegistryInv'
         /\ object[o] = 0 /\ Home \in DOMAIN s_pools'
         /\ object' = [object EXCEPT ![o] = s_pools'[Home].pool]
         /\ UNCHANGED <<byTag, released, undefined>>
         /\ \/ /\ Home \in DOMAIN s_pools /\ pools' = pools
               /\ s_pools'[Home].pool = s_pools[Home].pool
            \/ /\ Home \notin DOMAIN s_pools /\ Len(pools') = Len(pools) + 1
               /\ s_pools'[Home].pool = Len(pools) + 1
  <1>1. RegistryTypeOK /\ o \notin byTag /\ object[o] = 0
    BY DEF RegistryInv, GetPoolOfPath
  <1>2. /\ pools \in Seq([path : Path, tag : Tag \cup {InvalidTag}])
        /\ Len(pools) \in Nat /\ DOMAIN pools = 1..Len(pools)
        /\ object \in [Object -> 0..Len(pools)]
        /\ \A p \in DOMAIN s_pools : /\ s_pools[p].pool \in 1..Len(pools)
                                     /\ s_pools[p].count \in Nat \ {0}
                                     /\ s_pools[p] \in [pool : 1..Len(pools), count : Nat \ {0}]
    BY <1>1, RegistryTypes
  <1>3. UNCHANGED <<byTag, released, undefined>>
    BY DEF GetPoolOfPath
  <1>4. IsFiniteSet(InUse) /\ o \notin InUse
    BY <1>1, ObjectsFinite DEF InUse
  <1>5. Cardinality(InUse) \in Nat /\ Cardinality(InUse \cup {o}) = Cardinality(InUse) + 1
    BY <1>4, FS_CardinalityType, FS_AddElement
  <1>6. Home \in Path /\ Home \in {Home}
    BY CheckpointAssumption
  <1>7. ASSUME NEW pool \in Nat \ {0}, pool =< Len(pools'), Len(pools) =< Len(pools'), Len(pools') \in Nat,
               object' = [object EXCEPT ![o] = pool]
        PROVE  object' \in [Object -> 0..Len(pools')] /\ InUse' = InUse \cup {o}
    <2>1. object' \in [Object -> 0..Len(pools')]
      <3>1. pool \in 0..Len(pools') /\ \A q \in 0..Len(pools) : q \in 0..Len(pools')
        BY <1>2, <1>7
      <3>2. object \in [Object -> 0..Len(pools')]
        BY <1>2, <3>1
      <3> QED
        BY <1>7, <3>1, <3>2
    <2>2. \A q \in Object : object'[q] = IF q = o THEN pool ELSE object[q]
      BY <1>2, <1>7
    <2>3. InUse' = InUse \cup {o}
      BY <1>1, <1>3, <2>2 DEF InUse
    <2> QED
      BY <2>1, <2>3
  <1>8. CASE Home \in DOMAIN s_pools
    <2> DEFINE entry == s_pools[Home]
               new == [entry EXCEPT !.count = @ + 1]
    <2>1. /\ s_pools' = [s_pools EXCEPT ![Home] = new] /\ pools' = pools
          /\ object' = [object EXCEPT ![o] = entry.pool]
      BY <1>8 DEF GetPoolOfPath
    <2>2. /\ entry \in [pool : 1..Len(pools), count : Nat \ {0}]
          /\ entry.pool \in 1..Len(pools) /\ entry.count \in Nat \ {0}
      BY <1>2, <1>8
    <2>3. /\ new \in [pool : 1..Len(pools), count : Nat \ {0}]
          /\ new.pool = entry.pool /\ new.count = entry.count + 1
      BY <2>2
    <2> HIDE DEF new, entry
    <2>4. /\ DOMAIN s_pools' = DOMAIN s_pools /\ s_pools'[Home] = new
          /\ \A p \in DOMAIN s_pools : p # Home => s_pools'[p] = s_pools[p]
      BY <1>8, <2>1
    <2>5. object' \in [Object -> 0..Len(pools')] /\ InUse' = InUse \cup {o}
      <3>1. /\ entry.pool \in Nat \ {0} /\ entry.pool =< Len(pools')
            /\ Len(pools) =< Len(pools') /\ Len(pools') \in Nat
        BY <1>2, <2>1, <2>2
      <3> QED
        BY <1>7, <2>1, <3>1
    <2>6. RegistryTypeOK'
      <3>1. \A p \in DOMAIN s_pools' : s_pools'[p] \in [pool : 1..Len(pools'), count : Nat \ {0}]
        BY <1>2, <2>1, <2>3, <2>4
      <3> QED
        BY <1>1, <1>3, <2>1, <2>4, <2>5, <3>1 DEF RegistryTypeOK
    <2>7. ~ released => /\ s_pools'[Home].count = Cardinality(InUse')
                        /\ \A q \in InUse' : object'[q] = s_pools'[Home].pool
      <3>1. ~ released => /\ entry.count = Cardinality(InUse)
                          /\ \A q \in InUse : object[q] = entry.pool
        BY <1>8 DEF RegistryInv, entry
      <3>2. \A q \in InUse' : object'[q] = IF q = o THEN entry.pool ELSE object[q]
        BY <1>2, <2>1, <2>5 DEF InUse
      <3> QED
        BY <1>5, <2>3, <2>4, <2>5, <3>1, <3>2
    <2>8. object'[o] = entry.pool /\ \A q \in Object : q # o => object'[q] = object[q]
      BY <1>2, <2>1
    <2>9. RegistryInv'
      <3>1. byTag' \subseteq {q \in App : object'[q] # 0}
        BY <1>1, <1>3, <2>8, CheckpointAssumption DEF RegistryInv
      <3>2. (\A i \in DOMAIN pools' : pools'[i].path = Home) /\ DOMAIN s_pools' \subseteq {Home}
        BY <2>1, <2>4 DEF RegistryInv
      <3>3. ~ released' => ~ undefined'
        BY <1>3 DEF RegistryInv
      <3>4. Home \in DOMAIN s_pools'
        BY <1>8, <2>4
      <3> QED
        BY <1>3, <2>6, <2>7, <3>1, <3>2, <3>3, <3>4 DEF RegistryInv
    <2> QED
      BY <1>1, <1>3, <1>8, <2>1, <2>3, <2>4, <2>9 DEF entry
  <1>9. CASE Home \notin DOMAIN s_pools
    <2> DEFINE n == Len(pools) + 1
               pool == [path |-> Home, tag |-> InvalidTag]
               entry == [pool |-> n, count |-> 1]
    <2>1. pools' = Append(pools, pool)
      BY <1>9 DEF GetPoolOfPath
    <2>2. pool \in [path : Path, tag : Tag \cup {InvalidTag}] /\ pool.path = Home
      BY <1>6
    <2> HIDE DEF pool
    <2>3. /\ pools' \in Seq([path : Path, tag : Tag \cup {InvalidTag}])
          /\ Len(pools') = n /\ DOMAIN pools' = 1..n /\ pools'[n] = pool
          /\ \A i \in 1..Len(pools) : pools'[i] = pools[i]
      BY <1>2, <2>1, <2>2
    <2>4. s_pools' = With(s_pools, Home, entry) /\ object' = [object EXCEPT ![o] = n]
      BY <1>9, <2>3 DEF GetPoolOfPath
    <2>5. n \in Nat \ {0} /\ Len(pools) =< n /\ n = Len(pools) + 1
      BY <1>2
    <2>6. entry \in [pool : 1..n, count : Nat \ {0}] /\ entry.pool = n /\ entry.count = 1
      BY <2>5
    <2> HIDE DEF n, entry
    <2>7. /\ DOMAIN s_pools' = DOMAIN s_pools \cup {Home} /\ s_pools'[Home] = entry
          /\ \A p \in DOMAIN s_pools : s_pools'[p] = s_pools[p]
      BY <1>9, <2>4 DEF With
    <2>8. object' \in [Object -> 0..Len(pools')] /\ InUse' = InUse \cup {o}
      <3>1. n =< Len(pools') /\ Len(pools) =< Len(pools') /\ Len(pools') \in Nat
        BY <1>2, <2>3, <2>5
      <3> QED
        BY <1>7, <2>4, <2>5, <3>1
    <2>9. DOMAIN s_pools = {}
      BY <1>9 DEF RegistryInv
    <2>10. RegistryTypeOK'
      <3>1. \A p \in DOMAIN s_pools' : s_pools'[p] \in [pool : 1..Len(pools'), count : Nat \ {0}]
        BY <2>3, <2>6, <2>7, <2>9
      <3>2. DOMAIN s_pools' \subseteq Path
        BY <1>6, <2>7, <2>9
      <3> QED
        BY <1>1, <1>3, <2>3, <2>8, <3>1, <3>2 DEF RegistryTypeOK
    <2>11. ~ released => InUse = {}
      BY <1>9 DEF RegistryInv
    <2>12. object'[o] = n /\ \A q \in Object : q # o => object'[q] = object[q]
      BY <1>2, <2>4
    <2>13. ~ released => /\ s_pools'[Home].count = Cardinality(InUse')
                         /\ \A q \in InUse' : object'[q] = s_pools'[Home].pool
      <3>1. ~ released => Cardinality(InUse') = 1 /\ InUse' = {o}
        BY <2>8, <2>11, FS_Singleton
      <3> QED
        BY <2>6, <2>7, <2>12, <3>1
    <2>14. \A i \in DOMAIN pools' : pools'[i].path = Home
      <3>1. \A i \in 1..n : i = n \/ i \in 1..Len(pools)
        BY <1>2, <2>5
      <3>2. \A i \in 1..Len(pools) : pools[i].path = Home
        BY <1>2 DEF RegistryInv
      <3> QED
        BY <2>2, <2>3, <3>1, <3>2
    <2>15. RegistryInv'
      <3>1. byTag' \subseteq {q \in App : object'[q] # 0}
        BY <1>1, <1>3, <2>12, CheckpointAssumption DEF RegistryInv
      <3>2. DOMAIN s_pools' = {Home}
        BY <2>7, <2>9
      <3>3. ~ released' => ~ undefined'
        BY <1>3 DEF RegistryInv
      <3> QED
        BY <1>3, <2>10, <2>13, <2>14, <3>1, <3>2, <3>3 DEF RegistryInv
    <2> QED
      BY <1>1, <1>3, <1>9, <2>3, <2>4, <2>5, <2>6, <2>7, <2>15
  <1> QED
    BY <1>8, <1>9

\* An object is made by tag: it gets a registered pool and is not counted.
LEMMA GetPoolByTagKeeps ==
  ASSUME RegistryInv, NEW o \in App, NEW tag \in Tag, GetPoolOfTag(o, tag)
  PROVE  /\ RegistryInv' /\ UNCHANGED <<s_pools, pools, released, undefined>>
         /\ object[o] = 0 /\ byTag' = byTag \cup {o}
         /\ object'[o] \in DOMAIN pools /\ \A q \in Object : q # o => object'[q] = object[q]
  <1>1. RegistryTypeOK /\ o \in Object /\ object[o] = 0
    BY CheckpointAssumption DEF RegistryInv, GetPoolOfTag
  <1>2. /\ object \in [Object -> 0..Len(pools)] /\ Len(pools) \in Nat /\ DOMAIN pools = 1..Len(pools)
        /\ \A p \in DOMAIN s_pools : s_pools[p].pool \in DOMAIN pools
    BY <1>1, RegistryTypes
  <1>3. PICK p \in DOMAIN s_pools : object' = [object EXCEPT ![o] = s_pools[p].pool]
    BY DEF GetPoolOfTag
  <1>4. UNCHANGED <<s_pools, pools, released, undefined>> /\ byTag' = byTag \cup {o}
    BY DEF GetPoolOfTag
  <1>5. s_pools[p].pool \in 1..Len(pools) /\ s_pools[p].pool \in 0..Len(pools) /\ s_pools[p].pool # 0
    BY <1>2
  <1>6. /\ object' \in [Object -> 0..Len(pools)] /\ object'[o] = s_pools[p].pool
        /\ \A q \in Object : q # o => object'[q] = object[q]
    BY <1>1, <1>2, <1>3, <1>5
  <1>7. RegistryTypeOK'
    BY <1>1, <1>4, <1>6 DEF RegistryTypeOK
  <1>8. InUse' = InUse /\ o \notin InUse
    BY <1>1, <1>4, <1>6 DEF InUse
  <1>9. byTag' \subseteq {q \in App : object'[q] # 0}
    BY <1>1, <1>4, <1>5, <1>6, CheckpointAssumption DEF RegistryInv
  <1>10. \A q \in InUse : object'[q] = object[q]
    BY <1>6, <1>8 DEF InUse
  <1>11. ~ released' =>
            /\ ~ undefined'
            /\ IF Home \in DOMAIN s_pools'
               THEN /\ s_pools'[Home].count = Cardinality(InUse')
                    /\ \A q \in InUse' : object'[q] = s_pools'[Home].pool
               ELSE InUse' = {}
    BY <1>4, <1>8, <1>10 DEF RegistryInv
  <1>12. (\A i \in DOMAIN pools' : pools'[i].path = Home) /\ DOMAIN s_pools' \subseteq {Home}
    BY <1>4 DEF RegistryInv
  <1>13. RegistryInv'
    BY <1>7, <1>9, <1>11, <1>12 DEF RegistryInv
  <1> QED
    BY <1>1, <1>2, <1>4, <1>5, <1>6, <1>13

\* A tag is set on a pool; who uses which pool is as before.
LEMMA SetTagKeeps ==
  ASSUME RegistryInv, NEW o \in Object, NEW tag \in Tag, SetTag(o, tag)
  PROVE  /\ RegistryInv' /\ UNCHANGED <<s_pools, object, byTag, released, undefined>>
         /\ Len(pools') = Len(pools)
  <1>1. RegistryTypeOK
    BY DEF RegistryInv
  <1>2. /\ pools \in Seq([path : Path, tag : Tag \cup {InvalidTag}])
        /\ Len(pools) \in Nat /\ DOMAIN pools = 1..Len(pools)
        /\ object[o] # 0 => object[o] \in DOMAIN pools
    BY <1>1, RegistryTypes
  <1> DEFINE i == object[o]
             pool == [pools[i] EXCEPT !.tag = tag]
  <1>3. i \in DOMAIN pools
    BY <1>2 DEF SetTag
  <1>4. pools' = [pools EXCEPT ![i] = pool] /\ UNCHANGED <<s_pools, object, byTag, released, undefined>>
    BY DEF SetTag
  <1>5. pools[i] \in [path : Path, tag : Tag \cup {InvalidTag}] /\ pools[i].path = Home
    <2>1. pools[i].path = Home
      BY <1>3 DEF RegistryInv
    <2> HIDE DEF i
    <2>2. pools[i] \in [path : Path, tag : Tag \cup {InvalidTag}]
      <3>1. i \in 1..Len(pools)
        BY <1>2, <1>3
      <3> QED
        BY <1>2, <3>1, ElementOfSeq
    <2> QED
      BY <2>1, <2>2
  <1>6. pool \in [path : Path, tag : Tag \cup {InvalidTag}] /\ pool.path = Home
    BY <1>5
  <1> HIDE DEF pool, i
  <1>7. /\ pools' \in Seq([path : Path, tag : Tag \cup {InvalidTag}]) /\ Len(pools') = Len(pools)
        /\ DOMAIN pools' = DOMAIN pools
        /\ \A j \in DOMAIN pools : pools'[j] = IF j = i THEN pool ELSE pools[j]
    BY <1>2, <1>3, <1>4, <1>6
  <1>8. RegistryTypeOK'
    BY <1>1, <1>4, <1>7 DEF RegistryTypeOK
  <1>9. \A j \in DOMAIN pools' : pools'[j].path = Home
    BY <1>6, <1>7 DEF RegistryInv
  <1>10. InUse' = InUse
    BY <1>4 DEF InUse
  <1>11. RegistryInv'
    BY <1>4, <1>8, <1>9, <1>10 DEF RegistryInv
  <1> QED
    BY <1>4, <1>7, <1>11

\* An object is released.  As long as no object made by tag has been, it
\* finds the entry that counts it; the entry goes with the last of them.
LEMMA RecycleKeeps ==
  ASSUME RegistryInv, NEW o \in Object, Recycle(o)
  PROVE  /\ RegistryInv'
         /\ object[o] # 0 /\ object' = [object EXCEPT ![o] = 0] /\ pools' = pools
         /\ byTag' = byTag \ {o} /\ released' = (released \/ o \in byTag)
         /\ ~ released' =>
              /\ o \in InUse /\ Home \in DOMAIN s_pools
              /\ \/ Home \notin DOMAIN s_pools' /\ InUse' = {}
                 \/ /\ Home \in DOMAIN s_pools' /\ s_pools'[Home].pool = s_pools[Home].pool
  <1>1. RegistryTypeOK
    BY DEF RegistryInv
  <1>2. /\ Len(pools) \in Nat /\ DOMAIN pools = 1..Len(pools)
        /\ object \in [Object -> 0..Len(pools)]
        /\ object[o] # 0 => object[o] \in DOMAIN pools
        /\ \A p \in DOMAIN s_pools : /\ s_pools[p] \in [pool : 1..Len(pools), count : Nat \ {0}]
                                     /\ s_pools[p].pool \in DOMAIN pools
                                     /\ s_pools[p].count \in Nat \ {0}
        /\ released \in BOOLEAN /\ undefined \in BOOLEAN
    BY <1>1, RegistryTypes
  <1>3. /\ object[o] # 0 /\ object' = [object EXCEPT ![o] = 0] /\ pools' = pools
        /\ byTag' = byTag \ {o} /\ released' = (released \/ o \in byTag)
    BY DEF Recycle
  <1>4. object[o] \in DOMAIN pools /\ pools[object[o]].path = Home
    BY <1>2, <1>3 DEF RegistryInv
  <1>5. /\ object' \in [Object -> 0..Len(pools)] /\ object'[o] = 0
        /\ \A q \in Object : q # o => object'[q] = object[q]
    BY <1>2, <1>3
  <1>6. InUse' = InUse \ {o}
    BY <1>3, <1>5 DEF InUse
  <1>7. byTag' \subseteq {q \in App : object'[q] # 0}
    BY <1>3, <1>5, CheckpointAssumption DEF RegistryInv
  <1>8. /\ \/ s_pools' = s_pools /\ undefined' = TRUE /\ Home \notin DOMAIN s_pools
           \/ /\ Home \in DOMAIN s_pools /\ undefined' = undefined
              /\ s_pools[Home].count = 1 /\ s_pools' = Without(s_pools, Home)
           \/ /\ Home \in DOMAIN s_pools /\ undefined' = undefined
              /\ s_pools[Home].count # 1 /\ s_pools' = [s_pools EXCEPT ![Home].count = @ - 1]
    BY <1>4 DEF Recycle
  <1>9. \/ s_pools' = s_pools
        \/ DOMAIN s_pools' = {}
        \/ /\ Home \in DOMAIN s_pools /\ DOMAIN s_pools' = DOMAIN s_pools
           /\ s_pools'[Home] \in [pool : 1..Len(pools), count : Nat \ {0}]
           /\ s_pools'[Home].pool = s_pools[Home].pool
           /\ s_pools'[Home].count = s_pools[Home].count - 1
    <2>1. CASE s_pools' = Without(s_pools, Home)
      BY <2>1 DEF Without, RegistryInv
    <2>2. CASE /\ Home \in DOMAIN s_pools
               /\ s_pools[Home].count # 1 /\ s_pools' = [s_pools EXCEPT ![Home].count = @ - 1]
      <3> DEFINE entry == s_pools[Home]
                 new == [entry EXCEPT !.count = @ - 1]
      <3>1. /\ entry \in [pool : 1..Len(pools), count : Nat \ {0}] /\ entry.count \in Nat \ {0}
            /\ entry.count # 1
        BY <1>2, <2>2
      <3>2. /\ new \in [pool : 1..Len(pools), count : Nat \ {0}]
            /\ new.pool = entry.pool /\ new.count = entry.count - 1
        BY <3>1
      <3>3. s_pools' = [s_pools EXCEPT ![Home] = new]
        BY <2>2
      <3> HIDE DEF new
      <3>4. DOMAIN s_pools' = DOMAIN s_pools /\ s_pools'[Home] = new
        BY <2>2, <3>3
      <3> QED
        BY <2>2, <3>2, <3>4
    <2> QED
      BY <1>8, <2>1, <2>2
  <1>10. RegistryTypeOK'
    <2>1. DOMAIN s_pools' \subseteq Path
      BY <1>1, <1>9 DEF RegistryTypeOK
    <2>2. \A p \in DOMAIN s_pools' : s_pools'[p] \in [pool : 1..Len(pools'), count : Nat \ {0}]
      BY <1>2, <1>3, <1>9 DEF RegistryInv
    <2>3. byTag' \subseteq Object /\ released' \in BOOLEAN /\ undefined' \in BOOLEAN
      BY <1>1, <1>2, <1>3, <1>8 DEF RegistryTypeOK
    <2>4. pools' \in Seq([path : Path, tag : Tag \cup {InvalidTag}]) /\ object' \in [Object -> 0..Len(pools')]
      BY <1>1, <1>3, <1>5 DEF RegistryTypeOK
    <2> QED
      BY <2>1, <2>2, <2>3, <2>4 DEF RegistryTypeOK
  <1>11. ASSUME ~ released'
         PROVE  /\ o \in InUse /\ Home \in DOMAIN s_pools
                /\ \/ Home \notin DOMAIN s_pools' /\ InUse' = {}
                   \/ /\ Home \in DOMAIN s_pools' /\ s_pools'[Home].pool = s_pools[Home].pool
                      /\ s_pools'[Home].count = Cardinality(InUse')
                /\ undefined' = undefined
    <2>1. ~ released /\ o \notin byTag /\ o \in InUse
      BY <1>3, <1>11 DEF InUse
    <2>2. Home \in DOMAIN s_pools /\ s_pools[Home].count = Cardinality(InUse)
      BY <2>1 DEF RegistryInv
    <2>3. IsFiniteSet(InUse) /\ Cardinality(InUse) \in Nat /\ Cardinality(InUse') = Cardinality(InUse) - 1
      BY <1>6, <2>1, ObjectsFinite, FS_CardinalityType, FS_RemoveElement
    <2>4. CASE s_pools[Home].count = 1 /\ s_pools' = Without(s_pools, Home)
      <3>1. \E q : InUse = {q}
        BY <2>2, <2>3, <2>4, FS_Singleton
      <3> QED
        BY <1>6, <1>8, <2>1, <2>2, <2>4, <3>1 DEF Without
    <2>5. CASE s_pools[Home].count # 1 /\ s_pools' = [s_pools EXCEPT ![Home].count = @ - 1]
      <3>1. Home \in DOMAIN s_pools' /\ s_pools' # s_pools
        <4>1. s_pools'[Home].count = s_pools[Home].count - 1 /\ s_pools[Home].count \in Nat
          BY <1>2, <2>2, <2>5
        <4>2. Home \in DOMAIN s_pools'
          BY <2>2, <2>5
        <4> QED
          BY <4>1, <4>2
      <3>2. s_pools'[Home].pool = s_pools[Home].pool /\ s_pools'[Home].count = s_pools[Home].count - 1
        BY <1>9, <3>1
      <3> QED
        BY <1>8, <2>1, <2>2, <2>3, <3>1, <3>2
    <2> QED
      BY <1>8, <2>2, <2>4, <2>5
  <1>12. ~ released' => ~ undefined'
    BY <1>3, <1>11 DEF RegistryInv
  <1>13. ~ released' => IF Home \in DOMAIN s_pools'
                        THEN /\ s_pools'[Home].count = Cardinality(InUse')
                             /\ \A q \in InUse' : object'[q] = s_pools'[Home].pool
                        ELSE InUse' = {}
    <2>1. ~ released' => \A q \in InUse' : object'[q] = s_pools[Home].pool
      BY <1>3, <1>5, <1>6, <1>11 DEF RegistryInv, InUse
    <2> QED
      BY <1>11, <2>1
  <1>14. DOMAIN s_pools' \subseteq {Home} /\ \A i \in DOMAIN pools' : pools'[i].path = Home
    BY <1>3, <1>9 DEF RegistryInv
  <1>15. RegistryInv'
    BY <1>7, <1>10, <1>12, <1>13, <1>14 DEF RegistryInv
  <1> QED
    BY <1>3, <1>11, <1>15

\* The objects of one path share the registered pool.
LEMMA RegistryIsShared == RegistryInv => PoolIsShared
  <1> SUFFICES ASSUME RegistryInv, ~ released PROVE PoolIsShared
    BY DEF PoolIsShared
  <1>1. \A o \in Object : object[o] # 0 => object[o] \in DOMAIN pools
    BY RegistryTypes DEF RegistryInv
  <1>2. ASSUME NEW o \in Object \ byTag, object[o] # 0
        PROVE  /\ pools[object[o]].path \in DOMAIN s_pools
               /\ s_pools[pools[object[o]].path].pool = object[o]
    <2>1. o \in InUse /\ pools[object[o]].path = Home
      BY <1>1, <1>2 DEF InUse, RegistryInv
    <2> QED
      BY <2>1 DEF RegistryInv
  <1> QED
    BY <1>2 DEF PoolIsShared, RegistryInv

-----------------------------------------------------------------------------
(* The lists of configs                                                    *)

\* The configs that the code and the app set.
Known ==
    {Wrap("trace", "nothing", 0), Wrap("basic", "basic", 2), Wrap("tokenize", "null", 5)}
        \cup [name : {"cipher"}, invoke : {"nothing", "key"}, order : {1, IntMax}]
        \cup [name : {"synchronous"}, invoke : {"null", "full"}, order : {3, IntMax}]
        \cup [name : {"checkpoint"}, invoke : {"hook", "null"}, order : {4, IntMax}]
        \cup [name : {"app"}, invoke : {"nothing"}, order : Order]

\* By their order, one of each name.
InOrder(list) ==
    \A i, j \in DOMAIN list :
        i < j => list[i].order =< list[j].order /\ list[i].name # list[j].name

\* What a config that is set can be.
LEMMA KnownFacts ==
  \A w \in Known :
    /\ w.order \in Int /\ w.order =< IntMax
    /\ w = Wrap(w.name, w.invoke, w.order)
    /\ w.name = "basic" => w.invoke = "basic" /\ w.order = 2
    /\ w.invoke = "basic" => w.name = "basic"
    /\ w.invoke = "full" => w.order >= 3
    /\ w.invoke = "key" => w.name = "cipher"
  <1>1. IntMax \in Int /\ IntMax >= 5
    BY SMT DEF IntMax
  <1>2. \A n \in Order : n \in Int /\ n =< IntMax
    BY <1>1, OrderAssumption
  <1>3. ASSUME NEW w \in Known
        PROVE  /\ w.order \in Int /\ w.order =< IntMax
               /\ w = Wrap(w.name, w.invoke, w.order)
    BY <1>1, <1>2, SMT DEF Known, Wrap
  <1>4. ASSUME NEW w \in Known
        PROVE  /\ w.name = "basic" => w.invoke = "basic" /\ w.order = 2
               /\ w.invoke = "basic" => w.name = "basic"
               /\ w.invoke = "full" => w.order >= 3
               /\ w.invoke = "key" => w.name = "cipher"
    BY <1>1, <1>2, SMT DEF Known, Wrap
  <1> QED
    BY <1>3, <1>4

\* The default list is one of these, with everything in it.
LEMMA DefaultFacts ==
  /\ DefaultConfigs \in Seq(Known) /\ InOrder(DefaultConfigs)
  /\ "basic" \in Names(DefaultConfigs)
  /\ \E i \in DOMAIN DefaultConfigs : DefaultConfigs[i].name = "cipher" /\ DefaultConfigs[i].order = 1
  <1> DEFINE l == DefaultConfigs
  <1>1. /\ l[1] = Wrap("trace", "nothing", 0) /\ l[2] = Wrap("cipher", "nothing", 1)
        /\ l[3] = Wrap("basic", "basic", 2) /\ l[4] = Wrap("synchronous", "null", 3)
        /\ l[5] = Wrap("checkpoint", "hook", 4) /\ l[6] = Wrap("tokenize", "null", 5)
        /\ DOMAIN l = 1..6 /\ Len(l) = 6
    BY DEF DefaultConfigs
  <1>2. l[1] \in Known /\ l[2] \in Known /\ l[3] \in Known /\ l[4] \in Known /\ l[5] \in Known /\ l[6] \in Known
    BY <1>1 DEF Known, Wrap
  <1>3. l \in Seq(Known)
    BY <1>2 DEF DefaultConfigs
  <1>4. /\ l[1].name = "trace" /\ l[2].name = "cipher" /\ l[3].name = "basic"
        /\ l[4].name = "synchronous" /\ l[5].name = "checkpoint" /\ l[6].name = "tokenize"
        /\ l[1].order = 0 /\ l[2].order = 1 /\ l[3].order = 2 /\ l[4].order = 3 /\ l[5].order = 4 /\ l[6].order = 5
    BY <1>1 DEF Wrap
  <1> HIDE DEF l
  <1>5. \A i \in 1..6 : l[i].order = i - 1
    BY <1>4
  <1>6. \A i, j \in 1..6 : i < j => l[i].name # l[j].name
    <2> TAKE i, j \in 1..6
    <2>1. i \in {1, 2, 3, 4, 5, 6} /\ j \in {1, 2, 3, 4, 5, 6}
      OBVIOUS
    <2> QED
      BY <1>4, <2>1
  <1>7. InOrder(l)
    BY <1>1, <1>5, <1>6 DEF InOrder
  <1>8. 2 \in DOMAIN l /\ 3 \in DOMAIN l
    BY <1>1
  <1> QED
    BY <1>3, <1>4, <1>7, <1>8 DEF Names, l

\* One more at the end of a list in order.
LEMMA AppendInOrder ==
  ASSUME NEW l \in Seq(Known), InOrder(l), NEW w \in Known,
         \A i \in DOMAIN l : l[i].order =< w.order /\ l[i].name # w.name
  PROVE  /\ Append(l, w) \in Seq(Known) /\ InOrder(Append(l, w))
         /\ DOMAIN Append(l, w) = 1..Len(l) + 1
         /\ Append(l, w)[Len(l) + 1] = w
         /\ \A i \in DOMAIN l : i \in DOMAIN Append(l, w) /\ Append(l, w)[i] = l[i]
         /\ \A i \in DOMAIN Append(l, w) : i \in DOMAIN l \/ i = Len(l) + 1
  <1> DEFINE t == Append(l, w)
  <1>1. /\ t \in Seq(Known) /\ DOMAIN t = 1..Len(l) + 1 /\ t[Len(l) + 1] = w
        /\ Len(l) \in Nat /\ DOMAIN l = 1..Len(l)
    OBVIOUS
  <1>2. \A i \in DOMAIN l : i \in DOMAIN t /\ t[i] = l[i]
    OBVIOUS
  <1>3. \A i \in DOMAIN t : i \in DOMAIN l \/ i = Len(l) + 1
    BY <1>1
  <1> HIDE DEF t
  <1>4. InOrder(t)
    <2>1. ASSUME NEW i \in DOMAIN t, NEW j \in DOMAIN t, i < j
          PROVE  t[i].order =< t[j].order /\ t[i].name # t[j].name
      <3>1. i \in DOMAIN l
        BY <1>1, <2>1
      <3>2. CASE j \in DOMAIN l
        BY <1>2, <2>1, <3>1, <3>2 DEF InOrder
      <3>3. CASE j = Len(l) + 1
        BY <1>1, <1>2, <3>1, <3>3
      <3> QED
        BY <1>3, <3>2, <3>3
    <2> QED
      BY <2>1 DEF InOrder
  <1> QED
    BY <1>1, <1>2, <1>3, <1>4 DEF t

\* The configs of other names are configs of the list, in its order.
LEMMA OthersFacts ==
  ASSUME NEW l \in Seq(Known), InOrder(l), NEW name
  PROVE  /\ Others(l, name) \in Seq(Known) /\ InOrder(Others(l, name))
         /\ \A j \in DOMAIN Others(l, name) :
              Others(l, name)[j].name # name /\ \E i \in DOMAIN l : Others(l, name)[j] = l[i]
  <1> DEFINE N == Len(l)
             Step(n, d) == IF l[n].name = name THEN d ELSE Append(d, l[n])
             G(f) == [n \in 0..N |-> IF n = 0 THEN <<>>
                                     ELSE IF l[n].name = name THEN f[n - 1] ELSE Append(f[n - 1], l[n])]
             kept == CHOOSE f : f = G(f)
  <1>1. Others(l, name) = kept[N]
    BY DEF Others
  <1>2. N \in Nat /\ DOMAIN l = 1..N /\ \A n \in 1..N : l[n] \in Known
    OBVIOUS
  <1> HIDE DEF N
  <1>3. \E f : f = G(f)
    <2> DEFINE step == [n \in 1..N |-> [d \in Seq(Known) |-> Step(n, d)]]
    <2>1. \A n \in 1..N, d \in Seq(Known) : Step(n, d) \in Seq(Known)
      BY <1>2
    <2> HIDE DEF Step
    <2>2. step \in [1..N -> [Seq(Known) -> Seq(Known)]] /\ <<>> \in Seq(Known)
      BY <2>1
    <2>3. \A n \in 1..N, d \in Seq(Known) : step[n][d] = Step(n, d)
      OBVIOUS
    <2> HIDE DEF step
    <2>4. PICK f \in [0..N -> Seq(Known)] : Follows(f, N, <<>>, step)
      BY <1>2, <2>2, Recursion
    <2>5. f[0] = <<>> /\ \A n \in 1..N : f[n] = step[n][f[n - 1]]
      BY <2>4 DEF Follows
    <2>6. \A n \in 1..N : f[n] = Step(n, f[n - 1])
      <3> TAKE n \in 1..N
      <3>1. f[n - 1] \in Seq(Known)
        BY <1>2, <2>5
      <3> QED
        BY <2>3, <2>5, <3>1
    <2>7. \A n \in 0..N : n = 0 \/ n \in 1..N
      BY <1>2
    <2>8. f = [n \in 0..N |-> f[n]]
      BY <2>5
    <2>9. f = G(f)
      BY <2>5, <2>6, <2>7, <2>8 DEF Step
    <2> QED
      BY <2>9
  <1>4. kept = G(kept)
    <2> HIDE DEF G
    <2> QED
      BY <1>3
  <1> HIDE DEF kept
  <1>5. kept[0] = <<>> /\ \A n \in 1..N : kept[n] = Step(n, kept[n - 1])
    <2>1. \A n \in 0..N : kept[n] = G(kept)[n]
      BY <1>4
    <2> QED
      BY <1>2, <2>1
  <1> HIDE DEF Step, G
  <1> DEFINE IsKept(n) ==
        /\ kept[n] \in Seq(Known) /\ InOrder(kept[n])
        /\ \A j \in DOMAIN kept[n] :
             kept[n][j].name # name /\ \E i \in 1..n : kept[n][j] = l[i]
      S == {n \in 0..N : IsKept(n)}
  <1>6. 0 \in S
    <2>1. kept[0] \in Seq(Known) /\ DOMAIN kept[0] = {}
      BY <1>5
    <2>2. InOrder(kept[0])
      BY <2>1 DEF InOrder
    <2> QED
      BY <1>2, <2>1, <2>2
  <1>7. ASSUME NEW n \in 1..N, n - 1 \in S PROVE n \in S
    <2>1. n \in 0..N /\ \A i \in 1..n - 1 : i \in 1..n /\ i < n
      BY <1>2
    <2>2. CASE l[n].name = name
      <3>1. kept[n] = kept[n - 1]
        BY <1>5, <2>2 DEF Step
      <3> QED
        BY <1>7, <2>1, <3>1
    <2>3. CASE l[n].name # name
      <3> DEFINE before == kept[n - 1]
      <3>1. kept[n] = Append(before, l[n])
        BY <1>5, <2>3 DEF Step
      <3>2. /\ before \in Seq(Known) /\ InOrder(before)
            /\ \A j \in DOMAIN before : before[j].name # name /\ \E i \in 1..n - 1 : before[j] = l[i]
        BY <1>7
      <3> HIDE DEF before
      <3>3. \A i \in 1..n - 1 : l[i].order =< l[n].order /\ l[i].name # l[n].name
        BY <1>2, <2>1 DEF InOrder
      <3>4. \A j \in DOMAIN before : before[j].order =< l[n].order /\ before[j].name # l[n].name
        BY <3>2, <3>3
      <3>5. /\ kept[n] \in Seq(Known) /\ InOrder(kept[n])
            /\ kept[n][Len(before) + 1] = l[n]
            /\ \A i \in DOMAIN before : kept[n][i] = before[i]
            /\ \A i \in DOMAIN kept[n] : i \in DOMAIN before \/ i = Len(before) + 1
        BY <1>2, <3>1, <3>2, <3>4, AppendInOrder
      <3>6. n \in 1..n
        BY <1>2
      <3>7. \A j \in DOMAIN kept[n] : kept[n][j].name # name /\ \E i \in 1..n : kept[n][j] = l[i]
        BY <2>1, <2>3, <3>2, <3>5, <3>6
      <3> QED
        BY <2>1, <3>5, <3>7
    <2> QED
      BY <2>2, <2>3
  <1> HIDE DEF S
  <1>8. N \in S
    <2>1. 0..N \subseteq S
      BY <1>2, <1>6, <1>7, UpTo
    <2> QED
      BY <1>2, <2>1
  <1> QED
    BY <1>1, <1>2, <1>8 DEF S

\* Setting a config of a name: every name stays, where it was.
LEMMA SetConfigFacts ==
  ASSUME NEW l \in Seq(Known), InOrder(l), NEW name, NEW invoke,
         Wrap(name, invoke, IntMax) \in Known,
         \A w \in Known : w.name = name => Wrap(name, invoke, w.order) \in Known
  PROVE  LET new == SetConfig(l, name, invoke)
         IN  /\ new \in Seq(Known) /\ InOrder(new)
             /\ \E j \in DOMAIN new : new[j].invoke = invoke /\ new[j].name = name
             /\ \A i \in DOMAIN l : i \in DOMAIN new /\ new[i].name = l[i].name /\ new[i].order = l[i].order
             /\ \A i \in DOMAIN l : l[i].name # name => new[i] = l[i]
  <1> DEFINE new == SetConfig(l, name, invoke)
             N == Len(l)
  <1>1. N \in Nat /\ DOMAIN l = 1..N /\ \A i \in DOMAIN l : l[i] \in Known
    OBVIOUS
  <1>2. CASE name \in Names(l)
    <2>1. new = [i \in DOMAIN l |-> IF l[i].name = name THEN Wrap(name, invoke, l[i].order) ELSE l[i]]
      BY <1>2 DEF SetConfig
    <2> HIDE DEF new
    <2>2. \A i \in DOMAIN l : new[i] = IF l[i].name = name THEN Wrap(name, invoke, l[i].order) ELSE l[i]
      BY <2>1
    <2>3. \A i \in DOMAIN l : new[i] \in Known
      BY <1>1, <2>2
    <2>4. DOMAIN new = DOMAIN l /\ new \in Seq(Known)
      <3>1. new \in [1..N -> Known]
        BY <1>1, <2>1, <2>3
      <3> QED
        BY <1>1, <3>1, SeqDef
    <2>5. ASSUME NEW i \in DOMAIN l
          PROVE  new[i].name = l[i].name /\ new[i].order = l[i].order
      <3>1. CASE l[i].name = name
        <4>1. new[i] = Wrap(name, invoke, l[i].order)
          BY <2>2, <3>1
        <4>2. new[i].name = name /\ new[i].order = l[i].order
          BY <4>1 DEF Wrap
        <4> QED
          BY <3>1, <4>2
      <3>2. CASE l[i].name # name
        BY <2>2, <3>2
      <3> QED
        BY <3>1, <3>2
    <2>6. InOrder(new)
      BY <2>4, <2>5 DEF InOrder
    <2>7. PICK j \in DOMAIN l : l[j].name = name
      BY <1>2 DEF Names
    <2>8. new[j].invoke = invoke /\ new[j].name = name
      <3>1. new[j] = Wrap(name, invoke, l[j].order)
        BY <2>2, <2>7
      <3> QED
        BY <3>1 DEF Wrap
    <2> QED
      BY <2>2, <2>4, <2>5, <2>6, <2>8 DEF new
  <1>3. CASE name \notin Names(l)
    <2> DEFINE w == Wrap(name, invoke, IntMax)
    <2>1. new = Append(l, w)
      BY <1>3 DEF SetConfig
    <2>2. w \in Known /\ w.name = name /\ w.invoke = invoke /\ w.order = IntMax
      BY DEF Wrap
    <2> HIDE DEF w, new
    <2>3. \A i \in DOMAIN l : l[i].order =< w.order /\ l[i].name # w.name
      BY <1>1, <1>3, <2>2, KnownFacts DEF Names
    <2>4. /\ new \in Seq(Known) /\ InOrder(new) /\ DOMAIN new = 1..N + 1
          /\ new[N + 1] = w /\ \A i \in DOMAIN l : i \in DOMAIN new /\ new[i] = l[i]
      BY <2>1, <2>2, <2>3, AppendInOrder
    <2>5. N + 1 \in DOMAIN new
      BY <1>1, <2>4
    <2> QED
      BY <2>2, <2>4, <2>5 DEF new
  <1> QED
    BY <1>2, <1>3

\* There is a first config after an order, or the end of the list.
LEMMA FirstAfterFacts ==
  ASSUME NEW l \in Seq(Known), NEW order \in Int
  PROVE  /\ FirstAfter(l, order) \in 1..Len(l) + 1
         /\ FirstAfter(l, order) =< Len(l) => order < l[FirstAfter(l, order)].order
         /\ \A j \in 1..FirstAfter(l, order) - 1 : order >= l[j].order
  <1> DEFINE N == Len(l)
             T == {i \in 1..N + 1 : i =< N => order < l[i].order}
             Is(i) == (i =< N => order < l[i].order) /\ \A j \in 1..i - 1 : order >= l[j].order
  <1>1. N \in Nat /\ \A i \in 1..N : l[i].order \in Int
    <2>1. \A i \in 1..N : l[i] \in Known
      OBVIOUS
    <2> QED
      BY <2>1, KnownFacts
  <1>2. N + 1 \in T
    BY <1>1
  <1>3. PICK i \in T : \A m \in T : i =< m
    <2>1. T \in SUBSET Nat
      BY <1>1
    <2> HIDE DEF T
    <2> QED
      BY <1>2, <2>1, LeastNumber
  <1>4. \A j \in 1..i - 1 : order >= l[j].order
    <2> TAKE j \in 1..i - 1
    <2>1. j \in 1..N /\ j \notin T
      BY <1>1, <1>3
    <2>2. ~ (order < l[j].order)
      BY <1>1, <2>1
    <2> QED
      BY <1>1, <2>1, <2>2
  <1>5. i \in 1..N + 1 /\ Is(i)
    BY <1>3, <1>4
  <1>6. FirstAfter(l, order) = CHOOSE x \in 1..N + 1 : Is(x)
    BY DEF FirstAfter
  <1> HIDE DEF Is
  <1>7. FirstAfter(l, order) \in 1..N + 1 /\ Is(FirstAfter(l, order))
    BY <1>5, <1>6
  <1> QED
    BY <1>7 DEF Is

\* Two lists in order, one before the other.
LEMMA ConcatInOrder ==
  ASSUME NEW s \in Seq(Known), NEW t \in Seq(Known), InOrder(s), InOrder(t),
         \A i \in DOMAIN s, j \in DOMAIN t : s[i].order =< t[j].order /\ s[i].name # t[j].name
  PROVE  /\ s \o t \in Seq(Known) /\ InOrder(s \o t)
         /\ \A i \in DOMAIN (s \o t) : \/ \E j \in DOMAIN s : (s \o t)[i] = s[j]
                                       \/ \E j \in DOMAIN t : (s \o t)[i] = t[j]
         /\ \A j \in DOMAIN s : j \in DOMAIN (s \o t) /\ (s \o t)[j] = s[j]
  <1> DEFINE c == s \o t
             n == Len(s)
  <1>1. n \in Nat /\ DOMAIN s = 1..n /\ Len(t) \in Nat /\ DOMAIN t = 1..Len(t)
    OBVIOUS
  <1>2. c \in Seq(Known) /\ Len(c) = n + Len(t)
        /\ \A i \in 1..n + Len(t) : c[i] = IF i =< n THEN s[i] ELSE t[i - n]
    BY ConcatProperties
  <1>3. DOMAIN c = 1..n + Len(t)
    BY <1>2
  <1> HIDE DEF c, n
  <1>4. \A i \in DOMAIN c : \/ i \in DOMAIN s /\ c[i] = s[i]
                            \/ i - n \in DOMAIN t /\ c[i] = t[i - n] /\ i > n
    <2> TAKE i \in DOMAIN c
    <2>1. CASE i =< n
      BY <1>1, <1>2, <1>3, <2>1
    <2>2. CASE ~ (i =< n)
      <3>1. i - n \in DOMAIN t /\ i > n
        BY <1>1, <1>3, <2>2
      <3> QED
        BY <1>2, <1>3, <2>2, <3>1
    <2> QED
      BY <2>1, <2>2
  <1>5. ASSUME NEW i \in DOMAIN c, NEW j \in DOMAIN c, i < j
        PROVE  c[i].order =< c[j].order /\ c[i].name # c[j].name
    <2>1. CASE i \in DOMAIN s /\ c[i] = s[i] /\ j \in DOMAIN s /\ c[j] = s[j]
      BY <1>5, <2>1 DEF InOrder
    <2>2. CASE i \in DOMAIN s /\ c[i] = s[i] /\ j - n \in DOMAIN t /\ c[j] = t[j - n]
      BY <2>2
    <2>3. CASE i > n /\ j \in DOMAIN s
      BY <1>1, <1>5, <2>3
    <2>4. CASE i - n \in DOMAIN t /\ c[i] = t[i - n] /\ j - n \in DOMAIN t /\ c[j] = t[j - n]
      <3>1. i - n < j - n
        BY <1>1, <1>3, <1>5
      <3> QED
        BY <2>4, <3>1 DEF InOrder
    <2> QED
      BY <1>4, <2>1, <2>2, <2>3, <2>4
  <1>6. InOrder(c)
    BY <1>5 DEF InOrder
  <1>7. \A j \in DOMAIN s : j \in DOMAIN c /\ c[j] = s[j]
    BY <1>1, <1>2, <1>3
  <1> QED
    BY <1>2, <1>4, <1>6, <1>7 DEF c

\* Setting a config with an order: nothing is there that was not, but the new one.
LEMMA SetConfigAtFacts ==
  ASSUME NEW l \in Seq(Known), InOrder(l), NEW name, NEW invoke, NEW order \in Int,
         Wrap(name, invoke, order) \in Known
  PROVE  LET new == SetConfigAt(l, name, invoke, order)
         IN  /\ new \in Seq(Known) /\ InOrder(new)
             /\ \A j \in DOMAIN new : new[j] = Wrap(name, invoke, order) \/ \E i \in DOMAIN l : new[j] = l[i]
  <1> DEFINE at == FirstAfter(l, order)
             N == Len(l)
             first == SubSeq(l, 1, at - 1)
             rest == SubSeq(l, at + 1, N)
             w == Wrap(name, invoke, order)
             a == Others(first, name)
             b == Others(rest, name)
             new == SetConfigAt(l, name, invoke, order)
  <1>1. /\ at \in 1..N + 1 /\ (at =< N => order < l[at].order)
        /\ \A j \in 1..at - 1 : order >= l[j].order
    BY FirstAfterFacts
  <1>2. new = a \o <<w>> \o b
    BY DEF SetConfigAt
  <1>3. /\ N \in Nat /\ DOMAIN l = 1..N /\ \A i \in 1..N : l[i] \in Known
    OBVIOUS
  <1>4. \A i \in 1..N : l[i].order \in Int
    BY <1>3, KnownFacts
  <1>5. w \in Known /\ w.name = name /\ w.order = order
    BY DEF Wrap
  <1> HIDE DEF at, w, new, N
  <1>6. /\ first \in Seq(Known) /\ DOMAIN first = 1..at - 1
        /\ \A i \in 1..at - 1 : i \in 1..N /\ first[i] = l[i]
    BY <1>1, <1>3 DEF N
  <1>7. /\ rest \in Seq(Known) /\ DOMAIN rest = 1..N - at
        /\ \A i \in 1..N - at : i + at \in 1..N /\ rest[i] = l[i + at]
    BY <1>1, <1>3 DEF N
  <1> HIDE DEF first, rest
  <1>8. \A i, j \in 1..N : i < j => l[i].order =< l[j].order /\ l[i].name # l[j].name
    BY <1>3 DEF InOrder
  <1>9. InOrder(first)
    BY <1>6, <1>8 DEF InOrder
  <1>10. InOrder(rest)
    <2>1. ASSUME NEW i \in 1..N - at, NEW j \in 1..N - at, i < j
          PROVE  rest[i].order =< rest[j].order /\ rest[i].name # rest[j].name
      <3>1. i + at < j + at
        BY <1>1, <1>3, <2>1
      <3> QED
        BY <1>7, <1>8, <2>1, <3>1
    <2> QED
      BY <1>7, <2>1 DEF InOrder
  <1>11. /\ a \in Seq(Known) /\ InOrder(a)
         /\ \A j \in DOMAIN a : a[j].name # name /\ \E i \in 1..at - 1 : a[j] = l[i]
    <2>1. /\ a \in Seq(Known) /\ InOrder(a)
          /\ \A j \in DOMAIN a : a[j].name # name /\ \E i \in DOMAIN first : a[j] = first[i]
      <3>1. first \in Seq(Known)
        BY <1>6
      <3> QED
        BY <3>1, <1>9, OthersFacts
    <2> HIDE DEF a
    <2>2. ASSUME NEW j \in DOMAIN a PROVE \E i \in 1..at - 1 : a[j] = l[i]
      BY <1>6, <2>1
    <2> QED
      BY <2>1, <2>2
  <1>12. /\ b \in Seq(Known) /\ InOrder(b)
         /\ \A j \in DOMAIN b : b[j].name # name /\ \E i \in 1..N : b[j] = l[i] /\ i > at
    <2>1. /\ b \in Seq(Known) /\ InOrder(b)
          /\ \A j \in DOMAIN b : b[j].name # name /\ \E i \in DOMAIN rest : b[j] = rest[i]
      <3>1. rest \in Seq(Known)
        BY <1>7
      <3> QED
        BY <3>1, <1>10, OthersFacts
    <2>2. \A i \in 1..N - at : i + at > at
      BY <1>1, <1>3
    <2> HIDE DEF b
    <2>3. ASSUME NEW j \in DOMAIN b PROVE \E i \in 1..N : b[j] = l[i] /\ i > at
      BY <1>7, <2>1, <2>2
    <2> QED
      BY <2>1, <2>3
  <1> HIDE DEF a, b
  <1>13. \A j \in DOMAIN a : a[j].order =< order
    BY <1>1, <1>4, <1>6, <1>11
  <1>14. \A j \in DOMAIN b : order =< b[j].order
    <2>1. ASSUME NEW i \in 1..N, i > at PROVE order =< l[i].order
      <3>1. at \in 1..N /\ at < i
        BY <1>1, <1>3, <2>1
      <3>2. order < l[at].order /\ l[at].order =< l[i].order
        BY <1>1, <1>8, <3>1
      <3> QED
        BY <1>4, <3>1, <3>2
    <2> QED
      BY <1>12, <2>1
  <1> DEFINE c == Append(a, w)
  <1>15. /\ c \in Seq(Known) /\ InOrder(c)
         /\ c[Len(a) + 1] = w
         /\ \A i \in DOMAIN a : c[i] = a[i]
         /\ \A i \in DOMAIN c : i \in DOMAIN a \/ i = Len(a) + 1
    BY <1>5, <1>11, <1>13, AppendInOrder
  <1>16. a \o <<w>> = c
    <2>1. Len(a) \in Nat
      BY <1>11
    <2> QED
      BY <1>11, <2>1, AppendIsConcat
  <1> HIDE DEF c
  <1>17. \A i \in DOMAIN c : c[i] = w \/ \E j \in DOMAIN a : c[i] = a[j]
    BY <1>15
  <1>18. \A i \in DOMAIN c, j \in DOMAIN b : c[i].order =< b[j].order /\ c[i].name # b[j].name
    <2> TAKE i \in DOMAIN c, j \in DOMAIN b
    <2>1. CASE c[i] = w
      BY <1>5, <1>12, <1>14, <2>1
    <2>2. ASSUME NEW x \in DOMAIN a, c[i] = a[x]
          PROVE  c[i].order =< b[j].order /\ c[i].name # b[j].name
      <3>1. PICK y \in 1..at - 1 : a[x] = l[y]
        BY <1>11
      <3>2. PICK z \in 1..N : b[j] = l[z] /\ z > at
        BY <1>12
      <3>3. y \in 1..N /\ y < z
        BY <1>1, <1>6, <3>1, <3>2
      <3> QED
        BY <1>8, <2>2, <3>1, <3>2, <3>3
    <2> QED
      BY <1>17, <2>1, <2>2
  <1>19. /\ c \o b \in Seq(Known) /\ InOrder(c \o b)
         /\ \A i \in DOMAIN (c \o b) : \/ \E j \in DOMAIN c : (c \o b)[i] = c[j]
                                       \/ \E j \in DOMAIN b : (c \o b)[i] = b[j]
    BY <1>12, <1>15, <1>18, ConcatInOrder
  <1>20. ASSUME NEW j \in DOMAIN new
         PROVE  new[j] = w \/ \E i \in DOMAIN l : new[j] = l[i]
    <2>1. new = c \o b
      BY <1>2, <1>16
    <2>2. CASE \E i \in DOMAIN b : new[j] = b[i]
      BY <1>3, <1>12, <2>2
    <2>3. CASE \E i \in DOMAIN c : new[j] = c[i]
      <3>1. PICK i \in DOMAIN c : new[j] = c[i]
        BY <2>3
      <3>2. CASE c[i] = w
        BY <3>1, <3>2
      <3>3. ASSUME NEW x \in DOMAIN a, c[i] = a[x]
            PROVE  \E y \in DOMAIN l : new[j] = l[y]
        <4>1. PICK y \in 1..at - 1 : a[x] = l[y]
          BY <1>11
        <4>2. y \in DOMAIN l
          BY <1>3, <1>6, <4>1
        <4> QED
          BY <3>1, <3>3, <4>1, <4>2
      <3> QED
        BY <1>17, <3>2, <3>3
    <2> QED
      BY <1>19, <2>1, <2>2, <2>3
  <1> QED
    BY <1>2, <1>16, <1>19, <1>20 DEF new, w

-----------------------------------------------------------------------------
(* A handle set up with a list                                             *)

\* Some config of the list sets the key.
HasKey(list) == \E i \in DOMAIN list : list[i].invoke = "key"

\* What one config does to a handle.
LEMMA ApplyFacts ==
  ASSUME NEW h \in Handle, NEW invoke, NEW keyed, NEW new, new = Apply(h, invoke, keyed)
  PROVE  /\ new \in Handle
         /\ ~ h.ok => new = h
         /\ h.key => new.key
         /\ h.ok /\ invoke = "key" => new.key
         /\ invoke \notin {"basic", "full"} => (new.ok <=> h.ok) /\ (new.full <=> h.full)
         /\ h.ok /\ invoke \in {"basic", "full"} => (new.key <=> h.key) /\ (new.ok <=> h.key \in keyed)
         /\ h.ok /\ invoke = "basic" => ~ new.full
         /\ h.ok /\ invoke = "full" => new.full
  <1>1. CASE ~ h.ok
    <2>1. new = h
      BY <1>1 DEF Apply
    <2> QED
      BY <1>1, <2>1
  <1>2. CASE h.ok /\ invoke = "key"
    <2>1. new = [h EXCEPT !.key = TRUE]
      BY <1>2 DEF Apply, SetCipherKey
    <2>2. new \in Handle /\ new.key /\ new.ok = h.ok /\ new.full = h.full
      BY <2>1 DEF Handle
    <2> QED
      BY <1>2, <2>2
  <1>3. CASE h.ok /\ invoke = "basic"
    <2> DEFINE reads == h.key \in keyed
    <2>1. new = [h EXCEPT !.full = FALSE, !.ok = reads]
      BY <1>3 DEF Apply
    <2>2. reads \in BOOLEAN
      OBVIOUS
    <2> HIDE DEF reads
    <2>3. new \in Handle /\ new.key = h.key /\ new.ok = reads /\ new.full = FALSE
      BY <2>1, <2>2 DEF Handle
    <2> QED
      BY <1>3, <2>3 DEF reads
  <1>4. CASE h.ok /\ invoke = "full"
    <2> DEFINE reads == h.key \in keyed
    <2>1. new = [h EXCEPT !.full = TRUE, !.ok = reads]
      BY <1>4 DEF Apply
    <2>2. reads \in BOOLEAN
      OBVIOUS
    <2> HIDE DEF reads
    <2>3. new \in Handle /\ new.key = h.key /\ new.ok = reads /\ new.full = TRUE
      BY <2>1, <2>2 DEF Handle
    <2> QED
      BY <1>4, <2>3 DEF reads
  <1>5. CASE h.ok /\ invoke = "hook"
    <2>1. new = [h EXCEPT !.hook = TRUE]
      BY <1>5 DEF Apply
    <2>2. new \in Handle /\ new.key = h.key /\ new.ok = h.ok /\ new.full = h.full
      BY <2>1 DEF Handle
    <2> QED
      BY <1>5, <2>2
  <1>6. CASE h.ok /\ invoke \notin {"key", "basic", "full", "hook"}
    <2>1. new = h
      BY <1>6 DEF Apply
    <2> QED
      BY <1>6, <2>1
  <1> QED
    BY <1>1, <1>2, <1>3, <1>4, <1>5, <1>6

\* The handles between the configs of a list.
LEMMA InvokeSteps ==
  ASSUME NEW l \in Seq(Known), NEW start \in Handle, NEW keyed
  PROVE  \E after \in [0..Len(l) -> Handle] :
           /\ after[0] = start
           /\ \A n \in 1..Len(l) : after[n] = Apply(after[n - 1], l[n].invoke, keyed)
           /\ Invoke(l, start, keyed) = [after[Len(l)] EXCEPT !.current = TRUE]
  <1> DEFINE N == Len(l)
             Step(n, d) == Apply(d, l[n].invoke, keyed)
             G(f) == [n \in 0..N |-> IF n = 0 THEN start ELSE Apply(f[n - 1], l[n].invoke, keyed)]
             after == CHOOSE f : f = G(f)
  <1>1. Invoke(l, start, keyed) = [after[N] EXCEPT !.current = TRUE]
    BY DEF Invoke
  <1>2. N \in Nat
    OBVIOUS
  <1> HIDE DEF N
  <1>3. ASSUME NEW n \in 1..N, NEW d \in Handle PROVE Step(n, d) \in Handle
    <2> DEFINE invoke == l[n].invoke
               new == Apply(d, invoke, keyed)
    <2>1. new = Apply(d, invoke, keyed)
      OBVIOUS
    <2> HIDE DEF new, invoke
    <2>2. new \in Handle
      BY <2>1, ApplyFacts
    <2> QED
      BY <2>2 DEF new, invoke
  <1>4. PICK f \in [0..N -> Handle] : f = G(f)
    <2> DEFINE step == [n \in 1..N |-> [d \in Handle |-> Step(n, d)]]
    <2> HIDE DEF Step
    <2>1. step \in [1..N -> [Handle -> Handle]]
      BY <1>3
    <2>2. \A n \in 1..N, d \in Handle : step[n][d] = Step(n, d)
      OBVIOUS
    <2> HIDE DEF step
    <2>3. PICK f \in [0..N -> Handle] : Follows(f, N, start, step)
      BY <1>2, <2>1, Recursion
    <2>4. f[0] = start /\ \A n \in 1..N : f[n] = step[n][f[n - 1]]
      BY <2>3 DEF Follows
    <2>5. \A n \in 1..N : f[n] = Step(n, f[n - 1])
      <3> TAKE n \in 1..N
      <3>1. f[n - 1] \in Handle
        BY <1>2, <2>4
      <3> QED
        BY <2>2, <2>4, <3>1
    <2>6. \A n \in 0..N : n = 0 \/ n \in 1..N
      BY <1>2
    <2>7. f = [n \in 0..N |-> f[n]]
      BY <2>4
    <2>8. f = G(f)
      BY <2>4, <2>5, <2>6, <2>7 DEF Step
    <2> HIDE DEF G
    <2> QED
      BY <2>4, <2>8
  <1>5. after = G(after)
    <2> HIDE DEF G
    <2> QED
      BY <1>4
  <1> HIDE DEF after
  <1>6. after[0] = start /\ \A n \in 1..N : after[n] = Step(n, after[n - 1])
    <2>1. \A n \in 0..N : after[n] = G(after)[n]
      BY <1>5
    <2> QED
      BY <1>2, <2>1
  <1>7. \A n \in 0..N : after[n] \in Handle
    <2> DEFINE S == {n \in 0..N : after[n] \in Handle}
    <2>1. 0 \in S
      BY <1>2, <1>6
    <2>2. ASSUME NEW n \in 1..N, n - 1 \in S PROVE n \in S
      <3>1. after[n] \in Handle
        <4> HIDE DEF Step
        <4> QED
          BY <1>3, <1>6, <2>2
      <3> QED
        BY <1>2, <3>1
    <2> HIDE DEF S
    <2>3. 0..N \subseteq S
      BY <1>2, <2>1, <2>2, UpTo
    <2> QED
      BY <2>3 DEF S
  <1>8. after \in [0..N -> Handle]
    <2>1. after = [n \in 0..N |-> after[n]]
      BY <1>5
    <2> QED
      BY <1>7, <2>1
  <1> QED
    BY <1>1, <1>6, <1>8 DEF N

\* A handle that is set up has the key, if the list sets one or it had it.
LEMMA InvokeSetsKey ==
  ASSUME NEW l \in Seq(Known), NEW start \in Handle, NEW keyed
  PROVE  /\ Invoke(l, start, keyed) \in Handle /\ Invoke(l, start, keyed).current
         /\ Invoke(l, start, keyed).ok /\ (start.key \/ HasKey(l)) => Invoke(l, start, keyed).key
  <1> DEFINE N == Len(l)
             h == Invoke(l, start, keyed)
  <1>1. PICK after \in [0..N -> Handle] :
           /\ after[0] = start
           /\ \A n \in 1..N : after[n] = Apply(after[n - 1], l[n].invoke, keyed)
           /\ h = [after[N] EXCEPT !.current = TRUE]
    BY InvokeSteps
  <1>2. N \in Nat /\ DOMAIN l = 1..N
    OBVIOUS
  <1> HIDE DEF N, h
  <1>3. /\ h \in Handle /\ h.current /\ h.ok = after[N].ok /\ h.key = after[N].key
    <2>1. after[N] \in Handle
      BY <1>1, <1>2
    <2> QED
      BY <1>1, <2>1 DEF Handle
  <1> DEFINE Has(n) == after[n].ok /\ (start.key \/ \E i \in 1..n : l[i].invoke = "key") => after[n].key
             S == {n \in 0..N : Has(n)}
  <1>4. 0 \in S
    BY <1>1, <1>2
  <1>5. ASSUME NEW n \in 1..N, n - 1 \in S PROVE n \in S
    <2> DEFINE old == after[n - 1]
               new == after[n]
    <2>1. n - 1 \in 0..N /\ n \in 0..N /\ \A i \in 1..n : i = n \/ i \in 1..n - 1
      BY <1>2
    <2> DEFINE invoke == l[n].invoke
    <2>2. old \in Handle /\ new = Apply(old, invoke, keyed)
      BY <1>1, <2>1
    <2>3. /\ ~ old.ok => new = old
          /\ old.key => new.key
          /\ old.ok /\ invoke = "key" => new.key
      <3> HIDE DEF invoke, old, new, Has, S
      <3>1. old \in Handle
        BY <2>2
      <3>2. new = Apply(old, invoke, keyed)
        BY <2>2
      <3> QED
        BY <3>1, <3>2, ApplyFacts
    <2>4. old.ok /\ (start.key \/ \E i \in 1..n - 1 : l[i].invoke = "key") => old.key
      BY <1>5
    <2> HIDE DEF old, new
    <2>5. new.ok /\ (start.key \/ \E i \in 1..n : l[i].invoke = "key") => new.key
      BY <2>1, <2>3, <2>4
    <2> QED
      BY <2>1, <2>5 DEF new
  <1> HIDE DEF S
  <1>6. N \in S
    <2>1. 0..N \subseteq S
      BY <1>2, <1>4, <1>5, UpTo
    <2> QED
      BY <1>2, <2>1
  <1>7. Has(N)
    BY <1>6 DEF S
  <1> QED
    BY <1>2, <1>3, <1>7 DEF HasKey, h

\* It syncs fully if and only if the list says so, if the basic config is there.
LEMMA InvokeSetsMode ==
  ASSUME NEW l \in Seq(Known), InOrder(l), "basic" \in Names(l), NEW start \in Handle, NEW keyed
  PROVE  Invoke(l, start, keyed).ok =>
           (Invoke(l, start, keyed).full <=> \E i \in DOMAIN l : l[i].invoke = "full")
  <1> DEFINE N == Len(l)
             h == Invoke(l, start, keyed)
  <1>1. PICK after \in [0..N -> Handle] :
           /\ after[0] = start
           /\ \A n \in 1..N : after[n] = Apply(after[n - 1], l[n].invoke, keyed)
           /\ h = [after[N] EXCEPT !.current = TRUE]
    BY InvokeSteps
  <1>2. N \in Nat /\ DOMAIN l = 1..N /\ \A i \in 1..N : l[i] \in Known
    OBVIOUS
  <1> HIDE DEF N, h
  <1>3. h.ok = after[N].ok /\ h.full = after[N].full
    <2>1. after[N] \in Handle
      BY <1>1, <1>2
    <2> QED
      BY <1>1, <2>1 DEF Handle
  <1>4. PICK b \in 1..N : l[b].name = "basic"
    BY <1>2 DEF Names
  <1>5. l[b].invoke = "basic" /\ l[b].order = 2
    BY <1>2, <1>4, KnownFacts
  <1>6. \A i \in 1..N : i < b => l[i].invoke # "full"
    <2> TAKE i \in 1..N
    <2> HAVE i < b
    <2>1. l[i].order =< 2 /\ l[i].order \in Int
      BY <1>2, <1>4, <1>5, KnownFacts DEF InOrder
    <2>2. l[i].invoke = "full" => l[i].order >= 3
      BY <1>2, KnownFacts
    <2> QED
      BY <2>1, <2>2
  <1>7. \A i \in 1..N : b < i => l[i].invoke # "basic"
    <2> TAKE i \in 1..N
    <2> HAVE b < i
    <2>1. l[b].name # l[i].name
      BY <1>2 DEF InOrder
    <2> QED
      BY <1>2, <1>4, <2>1, KnownFacts
  <1> DEFINE Told(n) == \E i \in 1..n : l[i].invoke = "full"
             S == {n \in 0..N : n >= b /\ after[n].ok => (after[n].full <=> Told(n))}
  <1>8. 0 \in S
    BY <1>2
  <1>9. ASSUME NEW n \in 1..N, n - 1 \in S PROVE n \in S
    <2> DEFINE old == after[n - 1]
               new == after[n]
               invoke == l[n].invoke
    <2>1. n - 1 \in 0..N /\ n \in 0..N
      BY <1>2
    <2>2. Told(n) <=> invoke = "full" \/ Told(n - 1)
      <3>1. \A i \in 1..n : i = n \/ i \in 1..n - 1
        BY <1>2
      <3>2. \A i \in 1..n - 1 : i \in 1..n
        OBVIOUS
      <3>3. n \in 1..n
        BY <1>2
      <3> QED
        BY <3>1, <3>2, <3>3
    <2>3. old \in Handle /\ new = Apply(old, invoke, keyed)
      BY <1>1, <2>1
    <2>4. /\ ~ old.ok => new = old
          /\ invoke \notin {"basic", "full"} => (new.full <=> old.full)
          /\ old.ok /\ invoke = "basic" => ~ new.full
          /\ old.ok /\ invoke = "full" => new.full
      <3> HIDE DEF invoke, old, new, Told, S
      <3>1. old \in Handle
        BY <2>3
      <3>2. new = Apply(old, invoke, keyed)
        BY <2>3
      <3> QED
        BY <3>1, <3>2, ApplyFacts
    <2>5. n - 1 >= b /\ old.ok => (old.full <=> Told(n - 1))
      BY <1>9
    <2>6. n = b => invoke = "basic" /\ ~ Told(n - 1)
      <3>1. \A i \in 1..n - 1 : i \in 1..N /\ i < n
        BY <1>2
      <3> QED
        BY <1>5, <1>6, <3>1
    <2>7. n > b => invoke # "basic"
      BY <1>2, <1>7
    <2> HIDE DEF old, new, invoke, Told
    <2>8. ASSUME n >= b, new.ok PROVE new.full <=> Told(n)
      <3>1. old.ok
        BY <2>4, <2>8
      <3>2. CASE n = b
        BY <2>2, <2>4, <2>6, <3>1, <3>2
      <3>3. CASE n > b
        <4>1. n - 1 >= b
          BY <1>2, <3>3
        <4> QED
          BY <2>2, <2>4, <2>5, <2>7, <3>1, <3>3, <4>1
      <3> QED
        BY <2>8, <3>2, <3>3
    <2> QED
      BY <2>1, <2>8 DEF new
  <1> HIDE DEF S
  <1>10. N \in S
    <2>1. 0..N \subseteq S
      BY <1>2, <1>8, <1>9, UpTo
    <2> QED
      BY <1>2, <2>1
  <1>11. after[N].ok => (after[N].full <=> Told(N))
    BY <1>2, <1>10 DEF S
  <1> QED
    BY <1>2, <1>3, <1>11 DEF h

\* The cipher config has the place that the default list gives it.
HasCipher(l) == \E i \in DOMAIN l : l[i].name = "cipher" /\ l[i].order = 1

\* An open handle gets through the list, on a file that reads with the key:
\* the key is set before anything reads.
LEMMA InvokeSucceeds ==
  ASSUME NEW l \in Seq(Known), InOrder(l), HasCipher(l), HasKey(l),
         NEW start \in Handle, start.ok, NEW keyed, TRUE \in keyed
  PROVE  Invoke(l, start, keyed).ok /\ Invoke(l, start, keyed).key
  <1> DEFINE N == Len(l)
             h == Invoke(l, start, keyed)
  <1>1. PICK after \in [0..N -> Handle] :
           /\ after[0] = start
           /\ \A n \in 1..N : after[n] = Apply(after[n - 1], l[n].invoke, keyed)
           /\ h = [after[N] EXCEPT !.current = TRUE]
    BY InvokeSteps
  <1>2. N \in Nat /\ DOMAIN l = 1..N /\ \A i \in 1..N : l[i] \in Known
    OBVIOUS
  <1> HIDE DEF N, h
  <1>3. h.ok = after[N].ok /\ h.key = after[N].key
    <2>1. after[N] \in Handle
      BY <1>1, <1>2
    <2> QED
      BY <1>1, <2>1 DEF Handle
  <1>4. PICK c \in 1..N : l[c].name = "cipher" /\ l[c].order = 1
    BY <1>2 DEF HasCipher
  <1>5. l[c].invoke = "key"
    <2>1. PICK i \in 1..N : l[i].invoke = "key"
      BY <1>2 DEF HasKey
    <2>2. l[i].name = "cipher"
      BY <1>2, <2>1, KnownFacts
    <2>3. i = c \/ i < c \/ c < i
      BY <1>2
    <2> QED
      BY <1>2, <1>4, <2>1, <2>2, <2>3 DEF InOrder
  <1>6. \A i \in 1..N : i < c => l[i].invoke \notin {"basic", "full"}
    <2> TAKE i \in 1..N
    <2> HAVE i < c
    <2>1. l[i].order =< 1 /\ l[i].order \in Int
      BY <1>2, <1>4, KnownFacts DEF InOrder
    <2>2. /\ l[i].invoke = "full" => l[i].order >= 3
          /\ l[i].invoke = "basic" => l[i].order = 2
      BY <1>2, KnownFacts
    <2> QED
      BY <2>1, <2>2
  <1> DEFINE S == {n \in 0..N : after[n].ok /\ (n >= c => after[n].key)}
  <1>7. 0 \in S
    BY <1>1, <1>2
  <1>8. ASSUME NEW n \in 1..N, n - 1 \in S PROVE n \in S
    <2> DEFINE old == after[n - 1]
               new == after[n]
               invoke == l[n].invoke
    <2>1. n - 1 \in 0..N /\ n \in 0..N
      BY <1>2
    <2>2. old \in Handle /\ new = Apply(old, invoke, keyed)
      BY <1>1, <2>1
    <2>3. /\ old.key => new.key
          /\ old.ok /\ invoke = "key" => new.key
          /\ invoke \notin {"basic", "full"} => (new.ok <=> old.ok)
          /\ old.ok /\ invoke \in {"basic", "full"} => (new.ok <=> old.key \in keyed)
      <3> HIDE DEF invoke, old, new, S
      <3>1. old \in Handle
        BY <2>2
      <3>2. new = Apply(old, invoke, keyed)
        BY <2>2
      <3> QED
        BY <3>1, <3>2, ApplyFacts
    <2>4. old.ok /\ (n - 1 >= c => old.key) /\ old.key \in BOOLEAN
      BY <1>8, <2>2 DEF Handle
    <2>5. n = c => invoke = "key"
      BY <1>5
    <2>6. n < c => invoke \notin {"basic", "full"}
      BY <1>6
    <2> HIDE DEF old, new, invoke
    <2>7. CASE n < c
      <3>1. ~ (n >= c)
        BY <1>2, <2>7
      <3> QED
        BY <2>1, <2>3, <2>4, <2>6, <2>7, <3>1 DEF new
    <2>8. CASE n = c
      BY <2>1, <2>3, <2>4, <2>5, <2>8 DEF new
    <2>9. CASE n > c
      <3>1. old.key = TRUE
        BY <1>2, <2>4, <2>9
      <3>2. new.ok /\ new.key
        BY <2>3, <2>4, <3>1
      <3> QED
        BY <2>1, <3>2 DEF new
    <2> QED
      BY <1>2, <2>7, <2>8, <2>9
  <1> HIDE DEF S
  <1>9. N \in S
    <2>1. 0..N \subseteq S
      BY <1>2, <1>7, <1>8, UpTo
    <2> QED
      BY <1>2, <2>1
  <1>10. after[N].ok /\ after[N].key
    <2>1. N >= c
      BY <1>2
    <2> QED
      BY <1>9, <2>1 DEF S
  <1> QED
    BY <1>3, <1>10 DEF h

-----------------------------------------------------------------------------
(* The whole: what goes together                                           *)

\* Some config of the list says full.
Told(list) == \E i \in DOMAIN list : list[i].invoke = "full"

\* The lists are in order; each has the basic config and the cipher's, in its
\* place, unless they were lost; an object that is ready has set the key.
ConfigsInv ==
    /\ configs \in Seq(Seq(Known)) /\ Len(configs) = Len(pools)
    /\ \A pool \in DOMAIN configs :
        /\ InOrder(configs[pool])
        /\ "basic" \in dropped \/ "basic" \in Names(configs[pool])
        /\ "cipher" \in dropped \/ HasCipher(configs[pool])
    /\ ready \subseteq {o \in App : object[o] # 0}
    /\ "cipher" \in dropped \/ \A o \in ready : HasKey(configs[object[o]])

\* A handle that is current has the key and the mode of its list.
IsSetUp(h, list, lost) ==
    h.ok /\ h.current =>
        /\ HasKey(list) => h.key
        /\ "basic" \in lost \/ (h.full <=> Told(list))

\* Every handle is set up, if it is current, by its list.
HandlesInv ==
    /\ handle \in Seq(Handle) /\ Len(handle) = Len(pools)
    /\ \A pool \in DOMAIN handle : IsSetUp(handle[pool], configs[pool], dropped)

\* The thread has an object while it uses one, and only for an expired key.
ThreadInv ==
    /\ ck \in {"idle", "exec", "release", "done"}
    /\ consumer # "expired" => ck = "idle"
    /\ object[Ck] = 0 <=> ck \in {"idle", "done"}

\* Only the thread makes the database without the key.
FileInv ==
    /\ file \in {"none", "plain", "encrypted"} /\ by \in {"none", "app", "checkpoint"}
    /\ wal \in {"small", "grown"} /\ missed \in BOOLEAN
    /\ file = "plain" => by = "checkpoint" \/ "cipher" \in dropped

\* No object was opened by a tag, nor was one that has been released.
Untagged == byTag = {} /\ ~ released

\* Only the registered pool has an open handle.
OneInUse ==
    Untagged => \A i \in DOMAIN handle : handle[i].ok => Home \in DOMAIN s_pools /\ i = s_pools[Home].pool

\* The log that has grown, and no checkpoint has missed, belongs to an
\* encrypted database, and the registered pool has a handle that reads it.
GrownHeld ==
    wal = "grown" /\ ~ missed /\ Untagged /\ "cipher" \notin dropped =>
        /\ file = "encrypted" /\ Home \in DOMAIN s_pools
        /\ handle[s_pools[Home].pool].ok /\ handle[s_pools[Home].pool].key
        /\ HasKey(configs[s_pools[Home].pool])

\* It is in the queue, or the thread has it and has not yet checkpointed.
GrownComing ==
    wal = "grown" /\ ~ missed /\ Untagged /\ "cipher" \notin dropped =>
        IsQueued(Home) \/ (consumer = "expired" /\ got = Home /\ ck \in {"idle", "exec"})

\* What goes together about the log.
LogInv == OneInUse /\ GrownHeld /\ GrownComing

\* The inductive invariant.
Inv == QueueInv /\ RegistryInv /\ ConfigsInv /\ HandlesInv /\ ThreadInv /\ FileInv /\ LogInv

\* A pool without a handle has one that is not open.
LEMMA NoHandleFacts == NoHandle \in Handle /\ ~ NoHandle.ok
  BY DEF NoHandle, NewHandle, Handle

\* The lists, the handles and the pools go together.
LEMMA DataTypes ==
  ASSUME RegistryInv, ConfigsInv, HandlesInv
  PROVE  /\ Len(pools) \in Nat /\ DOMAIN pools = 1..Len(pools)
         /\ DOMAIN configs = 1..Len(pools) /\ DOMAIN handle = 1..Len(pools)
         /\ \A pool \in 1..Len(pools) : configs[pool] \in Seq(Known) /\ handle[pool] \in Handle
         /\ \A o \in Object : object[o] # 0 => object[o] \in 1..Len(pools)
         /\ \A p \in DOMAIN s_pools : s_pools[p].pool \in 1..Len(pools)
  <1>1. /\ Len(pools) \in Nat /\ DOMAIN pools = 1..Len(pools)
        /\ \A o \in Object : object[o] # 0 => object[o] \in 1..Len(pools)
        /\ \A p \in DOMAIN s_pools : s_pools[p].pool \in 1..Len(pools)
    BY RegistryTypes DEF RegistryInv
  <1>2. configs \in Seq(Seq(Known)) /\ Len(configs) = Len(pools)
    BY DEF ConfigsInv
  <1>3. handle \in Seq(Handle) /\ Len(handle) = Len(pools)
    BY DEF HandlesInv
  <1>4. DOMAIN configs = 1..Len(pools) /\ \A pool \in 1..Len(pools) : configs[pool] \in Seq(Known)
    BY <1>2
  <1>5. DOMAIN handle = 1..Len(pools) /\ \A pool \in 1..Len(pools) : handle[pool] \in Handle
    BY <1>3
  <1> QED
    BY <1>1, <1>4, <1>5

\* A handle that is taken out is set up, and one can be if the key opens the file.
LEMMA FlowOutFacts ==
  ASSUME RegistryInv, ConfigsInv, HandlesInv, NEW pool \in 1..Len(pools)
  PROVE  /\ FlowOut(pool) \in Handle
         /\ FlowOut(pool).ok => FlowOut(pool).current /\ IsSetUp(FlowOut(pool), configs[pool], dropped)
         /\ "cipher" \notin dropped /\ HasKey(configs[pool]) /\ TRUE \in Keyed =>
                FlowOut(pool).ok /\ FlowOut(pool).key
  <1> DEFINE list == configs[pool]
             old == handle[pool]
             free == IF old.ok THEN old ELSE [NewHandle EXCEPT !.current = FALSE]
             h == FlowOut(pool)
             set == Invoke(list, free, Keyed)
  <1>1. h = IF free.current THEN free ELSE set
    BY DEF FlowOut
  <1>2. /\ list \in Seq(Known) /\ old \in Handle /\ pool \in DOMAIN configs /\ pool \in DOMAIN handle
    BY DataTypes
  <1>3. /\ InOrder(list)
        /\ "basic" \in dropped \/ "basic" \in Names(list)
        /\ "cipher" \in dropped \/ HasCipher(list)
    BY <1>2 DEF ConfigsInv
  <1>4. IsSetUp(old, list, dropped)
    BY <1>2 DEF HandlesInv
  <1> HIDE DEF list, old, h
  <1>5. free \in Handle /\ free.ok /\ (free.current => free = old)
    <2>1. CASE old.ok
      BY <1>2, <2>1
    <2>2. CASE ~ old.ok
      BY <2>2 DEF NewHandle, Handle
    <2> QED
      BY <2>1, <2>2
  <1> HIDE DEF free
  <1>6. CASE free.current
    <2>1. h = old /\ h.ok /\ h.current
      BY <1>1, <1>5, <1>6
    <2> QED
      BY <1>2, <1>4, <2>1 DEF IsSetUp, h, list
  <1>7. CASE ~ free.current
    <2>1. h = set
      BY <1>1, <1>7
    <2>2. set \in Handle /\ set.current /\ (set.ok /\ HasKey(list) => set.key)
      BY <1>2, <1>5, InvokeSetsKey
    <2>3. "basic" \in Names(list) => (set.ok => (set.full <=> Told(list)))
      BY <1>2, <1>3, <1>5, InvokeSetsMode DEF Told
    <2>4. HasCipher(list) /\ HasKey(list) /\ TRUE \in Keyed => set.ok /\ set.key
      BY <1>2, <1>3, <1>5, InvokeSucceeds
    <2> HIDE DEF set
    <2> QED
      BY <1>3, <2>1, <2>2, <2>3, <2>4 DEF IsSetUp, h, list
  <1> QED
    BY <1>6, <1>7

\* The handle goes back to its pool, or is closed.
LEMMA FlowBackKeeps ==
  ASSUME RegistryInv, ConfigsInv, HandlesInv, NEW pool \in 1..Len(pools),
         NEW h, h = FlowOut(pool),
         handle' = [handle EXCEPT ![pool] = IF h.ok THEN h ELSE NoHandle],
         UNCHANGED <<pools, configs, dropped>>
  PROVE  /\ HandlesInv'
         /\ \A i \in DOMAIN handle : i # pool => handle'[i] = handle[i]
         /\ handle'[pool] = IF h.ok THEN h ELSE NoHandle
         /\ DOMAIN handle' = DOMAIN handle
  <1> DEFINE back == IF h.ok THEN h ELSE NoHandle
  <1>1. /\ Len(pools) \in Nat /\ DOMAIN handle = 1..Len(pools)
        /\ handle \in Seq(Handle) /\ Len(handle) = Len(pools)
    BY DataTypes DEF HandlesInv
  <1>2. back \in Handle /\ IsSetUp(back, configs[pool], dropped)
    BY FlowOutFacts, NoHandleFacts DEF IsSetUp
  <1>3. handle' = [handle EXCEPT ![pool] = back]
    OBVIOUS
  <1> HIDE DEF back
  <1>4. /\ handle' \in Seq(Handle) /\ Len(handle') = Len(pools) /\ DOMAIN handle' = DOMAIN handle
        /\ \A i \in DOMAIN handle : handle'[i] = IF i = pool THEN back ELSE handle[i]
    BY <1>1, <1>2, <1>3
  <1>5. \A i \in DOMAIN handle : IsSetUp(handle[i], configs[i], dropped)
    BY DEF HandlesInv
  <1>6. \A i \in DOMAIN handle' : IsSetUp(handle'[i], configs'[i], dropped')
    BY <1>2, <1>4, <1>5
  <1>7. pool \in DOMAIN handle
    BY <1>1
  <1> QED
    BY <1>4, <1>6, <1>7 DEF HandlesInv, back

\* A new pool comes with the default configs and no handle.
LEMMA NewPoolsKeep ==
  ASSUME RegistryInv, ConfigsInv, HandlesInv, NewPools,
         pools' = pools \/ Len(pools') = Len(pools) + 1,
         UNCHANGED <<dropped, ready>>, ready \subseteq {o \in App : object'[o] # 0},
         \A o \in ready : object'[o] = object[o]
  PROVE  /\ ConfigsInv' /\ HandlesInv'
         /\ \A i \in 1..Len(pools) : handle'[i] = handle[i] /\ configs'[i] = configs[i]
         /\ \A i \in DOMAIN handle' : handle'[i].ok => i \in 1..Len(pools)
  <1> DEFINE n == Len(pools)
  <1>1. /\ n \in Nat /\ DOMAIN configs = 1..n /\ DOMAIN handle = 1..n
        /\ \A o \in ready : object[o] \in 1..n
    BY DataTypes, CheckpointAssumption DEF ConfigsInv
  <1>2. /\ configs \in Seq(Seq(Known)) /\ Len(configs) = n
        /\ handle \in Seq(Handle) /\ Len(handle) = n
    BY DEF ConfigsInv, HandlesInv
  <1>3. \A pool \in 1..n :
          /\ InOrder(configs[pool])
          /\ "basic" \in dropped \/ "basic" \in Names(configs[pool])
          /\ "cipher" \in dropped \/ HasCipher(configs[pool])
          /\ IsSetUp(handle[pool], configs[pool], dropped)
    BY <1>1 DEF ConfigsInv, HandlesInv
  <1>4. "cipher" \in dropped \/ \A o \in ready : HasKey(configs[object[o]])
    BY DEF ConfigsInv
  <1> HIDE DEF n
  <1>5. CASE Len(pools') = n
    <2>1. UNCHANGED <<configs, handle>>
      BY <1>5 DEF NewPools, n
    <2>2. ConfigsInv'
      BY <1>1, <1>2, <1>3, <1>4, <1>5, <2>1 DEF ConfigsInv
    <2>3. HandlesInv'
      BY <1>1, <1>2, <1>3, <1>5, <2>1 DEF HandlesInv
    <2> QED
      BY <1>1, <2>1, <2>2, <2>3 DEF n
  <1>6. CASE Len(pools') = n + 1
    <2> DEFINE list == DefaultConfigs
    <2>1. list \in Seq(Known) /\ InOrder(list) /\ "basic" \in Names(list) /\ HasCipher(list)
      BY DefaultFacts DEF HasCipher
    <2>2. configs' = Append(configs, list) /\ handle' = Append(handle, NoHandle)
      <3>1. Len(pools') # Len(pools)
        BY <1>1, <1>6 DEF n
      <3> QED
        BY <3>1 DEF NewPools
    <2> HIDE DEF list
    <2>3. /\ configs' \in Seq(Seq(Known)) /\ Len(configs') = n + 1 /\ DOMAIN configs' = 1..n + 1
          /\ configs'[n + 1] = list /\ \A i \in 1..n : configs'[i] = configs[i]
      BY <1>1, <1>2, <2>1, <2>2
    <2>4. /\ handle' \in Seq(Handle) /\ Len(handle') = n + 1 /\ DOMAIN handle' = 1..n + 1
          /\ handle'[n + 1] = NoHandle /\ \A i \in 1..n : handle'[i] = handle[i]
      BY <1>1, <1>2, <2>2, NoHandleFacts
    <2>5. \A i \in 1..n + 1 : i \in 1..n \/ i = n + 1
      BY <1>1
    <2>6. \A pool \in DOMAIN configs' :
            /\ InOrder(configs'[pool])
            /\ "basic" \in dropped' \/ "basic" \in Names(configs'[pool])
            /\ "cipher" \in dropped' \/ HasCipher(configs'[pool])
      BY <1>3, <2>1, <2>3, <2>5
    <2>7. "cipher" \in dropped' \/ \A o \in ready' : HasKey(configs'[object'[o]])
      BY <1>1, <1>4, <2>3
    <2>8. ConfigsInv'
      BY <1>6, <2>3, <2>6, <2>7 DEF ConfigsInv
    <2>9. \A pool \in DOMAIN handle' : IsSetUp(handle'[pool], configs'[pool], dropped')
      <3>1. IsSetUp(NoHandle, list, dropped)
        BY NoHandleFacts DEF IsSetUp
      <3> QED
        BY <1>3, <2>3, <2>4, <2>5, <3>1
    <2>10. HandlesInv'
      BY <1>6, <2>4, <2>9 DEF HandlesInv
    <2>11. \A i \in DOMAIN handle' : handle'[i].ok => i \in 1..n
      BY <2>4, <2>5, NoHandleFacts
    <2> QED
      BY <2>3, <2>4, <2>8, <2>10, <2>11 DEF n
  <1>7. Len(pools') = n \/ Len(pools') = n + 1
    BY DEF n
  <1> QED
    BY <1>5, <1>6, <1>7

\* An object is made by path.
LEMMA OpenKeeps ==
  ASSUME Inv, NEW o \in Object, GetPoolOfPath(o, Home), NewPools,
         UNCHANGED <<file, by, wal, missed, ready, dropped>>
  PROVE  /\ RegistryInv' /\ ConfigsInv' /\ HandlesInv' /\ FileInv' /\ OneInUse' /\ GrownHeld'
         /\ (Untagged' <=> Untagged)
         /\ object[o] = 0 /\ object'[o] # 0 /\ \A q \in Object : q # o => object'[q] = object[q]
  <1>1. RegistryInv /\ ConfigsInv /\ HandlesInv /\ FileInv /\ OneInUse /\ GrownHeld
    BY DEF Inv, LogInv
  <1>2. /\ RegistryInv'
        /\ object[o] = 0 /\ Home \in DOMAIN s_pools'
        /\ object' = [object EXCEPT ![o] = s_pools'[Home].pool]
        /\ UNCHANGED <<byTag, released, undefined>>
        /\ \/ /\ Home \in DOMAIN s_pools /\ pools' = pools
              /\ s_pools'[Home].pool = s_pools[Home].pool
           \/ /\ Home \notin DOMAIN s_pools /\ Len(pools') = Len(pools) + 1
              /\ s_pools'[Home].pool = Len(pools) + 1
    BY <1>1, GetPoolKeeps
  <1>3. /\ Len(pools) \in Nat /\ DOMAIN handle = 1..Len(pools) /\ object \in [Object -> 0..Len(pools)]
        /\ \A p \in DOMAIN s_pools : s_pools[p].pool \in 1..Len(pools)
    BY <1>1, DataTypes, RegistryTypes DEF RegistryInv
  <1>4. /\ object'[o] = s_pools'[Home].pool /\ object'[o] # 0
        /\ \A q \in Object : q # o => object'[q] = object[q]
    <2>1. s_pools'[Home].pool # 0
      BY <1>2, <1>3
    <2> QED
      BY <1>2, <1>3, <2>1
  <1>5. /\ ready \subseteq {q \in App : object'[q] # 0}
        /\ \A q \in ready : object'[q] = object[q]
    BY <1>1, <1>2, <1>4, CheckpointAssumption DEF ConfigsInv
  <1>6. /\ ConfigsInv' /\ HandlesInv'
        /\ \A i \in 1..Len(pools) : handle'[i] = handle[i] /\ configs'[i] = configs[i]
        /\ \A i \in DOMAIN handle' : handle'[i].ok => i \in 1..Len(pools)
    <2>1. pools' = pools \/ Len(pools') = Len(pools) + 1
      BY <1>2
    <2> QED
      BY <1>1, <1>5, <2>1, NewPoolsKeep
  <1>7. Untagged' <=> Untagged
    BY <1>2 DEF Untagged
  <1>8. FileInv'
    BY <1>1 DEF FileInv
  <1>9. OneInUse'
    BY <1>1, <1>2, <1>3, <1>6, <1>7 DEF OneInUse
  <1>10. GrownHeld'
    BY <1>1, <1>2, <1>3, <1>6, <1>7 DEF GrownHeld
  <1> QED
    BY <1>2, <1>4, <1>6, <1>7, <1>8, <1>9, <1>10

\* An object is released, and with the last one its pool.
LEMMA ReleaseKeeps ==
  ASSUME Inv, NEW o \in Object, Recycle(o), Reclaim, ready' = ready \ {o},
         UNCHANGED <<configs, file, by, dropped>>
  PROVE  /\ RegistryInv' /\ ConfigsInv' /\ HandlesInv' /\ FileInv' /\ OneInUse' /\ GrownHeld'
         /\ Untagged' /\ wal' = "grown" /\ ~ missed' => Untagged /\ wal = "grown" /\ ~ missed
         /\ object[o] # 0 /\ object'[o] = 0 /\ \A q \in Object : q # o => object'[q] = object[q]
  <1>1. RegistryInv /\ ConfigsInv /\ HandlesInv /\ FileInv /\ OneInUse /\ GrownHeld
    BY DEF Inv, LogInv
  <1>2. /\ RegistryInv'
        /\ object[o] # 0 /\ object' = [object EXCEPT ![o] = 0] /\ pools' = pools
        /\ byTag' = byTag \ {o} /\ released' = (released \/ o \in byTag)
        /\ ~ released' =>
             /\ o \in InUse /\ Home \in DOMAIN s_pools
             /\ \/ Home \notin DOMAIN s_pools' /\ InUse' = {}
                \/ /\ Home \in DOMAIN s_pools' /\ s_pools'[Home].pool = s_pools[Home].pool
    BY <1>1, RecycleKeeps
  <1>3. /\ Len(pools) \in Nat /\ DOMAIN handle = 1..Len(pools) /\ object \in [Object -> 0..Len(pools)]
        /\ handle \in Seq(Handle) /\ Len(handle) = Len(pools)
        /\ \A p \in DOMAIN s_pools : s_pools[p].pool \in 1..Len(pools)
    BY <1>1, DataTypes, RegistryTypes DEF RegistryInv, HandlesInv
  <1>4. object'[o] = 0 /\ \A q \in Object : q # o => object'[q] = object[q]
    BY <1>2, <1>3
  <1>5. /\ handle' \in Seq(Handle) /\ Len(handle') = Len(pools) /\ DOMAIN handle' = 1..Len(pools)
        /\ \A i \in 1..Len(pools) : handle'[i] = IF IsDead(i) THEN NoHandle ELSE handle[i]
    <2>1. handle' = [i \in 1..Len(pools) |-> IF IsDead(i) THEN NoHandle ELSE handle[i]]
      BY <1>3 DEF Reclaim
    <2>2. \A i \in 1..Len(pools) : (IF IsDead(i) THEN NoHandle ELSE handle[i]) \in Handle
      BY <1>3, NoHandleFacts
    <2> QED
      BY <1>3, <2>1, <2>2, SeqDef
  <1>6. \A i \in 1..Len(pools) : handle'[i].ok => handle'[i] = handle[i] /\ ~ IsDead(i)
    BY <1>5, NoHandleFacts
  <1>7. ConfigsInv'
    <2>1. ready' \subseteq {q \in App : object'[q] # 0} /\ \A q \in ready' : object'[q] = object[q]
      BY <1>1, <1>4, CheckpointAssumption DEF ConfigsInv
    <2>2. "cipher" \in dropped' \/ \A q \in ready' : HasKey(configs'[object'[q]])
      BY <1>1, <2>1 DEF ConfigsInv
    <2> QED
      BY <1>1, <1>2, <2>1, <2>2 DEF ConfigsInv
  <1>8. HandlesInv'
    <2>1. \A i \in 1..Len(pools) : IsSetUp(handle'[i], configs'[i], dropped')
      BY <1>1, <1>3, <1>6 DEF HandlesInv, IsSetUp
    <2> QED
      BY <1>2, <1>5, <2>1 DEF HandlesInv
  <1>9. \/ wal' = wal /\ missed' = missed
        \/ wal' = "small" /\ missed' = FALSE
        \/ wal' = "grown" /\ missed' = TRUE
    BY <1>1 DEF Reclaim, TryCheckpoint, FileInv
  <1>10. FileInv'
    BY <1>1, <1>9 DEF FileInv
  <1>11. Untagged' => Untagged
    BY <1>2 DEF Untagged
  <1>12. CASE ~ Untagged'
    BY <1>2, <1>4, <1>7, <1>8, <1>10, <1>12 DEF OneInUse, GrownHeld
  <1>13. CASE Untagged' /\ Home \notin DOMAIN s_pools'
    <2>1. \A q \in Object : object'[q] = 0
      BY <1>2, <1>13 DEF Untagged, InUse
    <2>2. DOMAIN s_pools' = {}
      BY <1>2, <1>13 DEF RegistryInv
    <2>3. \A i \in 1..Len(pools) : IsDead(i)
      BY <2>1, <2>2 DEF IsDead
    <2>4. \A i \in DOMAIN handle' : ~ handle'[i].ok
      BY <1>5, <1>6, <2>3
    <2>5. "cipher" \notin dropped => wal' = "small" \/ missed'
      <3>1. ASSUME "cipher" \notin dropped, wal = "grown", ~ missed PROVE wal' = "small" \/ missed'
        <4>1. Home \in DOMAIN s_pools /\ handle[s_pools[Home].pool].ok
          BY <1>1, <1>11, <1>13, <3>1 DEF GrownHeld
        <4>2. handle' # handle
          BY <1>3, <1>5, <2>4, <4>1
        <4> QED
          BY <2>4, <3>1, <4>2 DEF Reclaim, TryCheckpoint
      <3> QED
        BY <1>1, <1>9, <3>1 DEF FileInv
    <2>6. GrownHeld'
      BY <2>5 DEF GrownHeld
    <2>7. OneInUse'
      BY <2>4 DEF OneInUse
    <2>8. Untagged' /\ wal' = "grown" /\ ~ missed' => Untagged /\ wal = "grown" /\ ~ missed
      BY <1>9, <1>11
    <2> QED
      BY <1>2, <1>4, <1>7, <1>8, <1>10, <2>6, <2>7, <2>8
  <1>14. CASE Untagged' /\ Home \in DOMAIN s_pools'
    <2> DEFINE p == s_pools[Home].pool
    <2>1. Home \in DOMAIN s_pools /\ s_pools'[Home].pool = p /\ p \in 1..Len(pools) /\ Untagged
      BY <1>2, <1>3, <1>11, <1>14 DEF Untagged
    <2>2. ~ IsDead(p)
      BY <1>14, <2>1 DEF IsDead
    <2>3. handle'[p] = handle[p]
      BY <1>5, <2>1, <2>2
    <2>4. GrownHeld'
      <3>1. ASSUME wal' = "grown", ~ missed', "cipher" \notin dropped'
            PROVE  file = "encrypted" /\ handle[p].ok /\ handle[p].key /\ HasKey(configs[p])
        BY <1>1, <1>9, <2>1, <3>1 DEF GrownHeld
      <3>2. s_pools'[Home].pool = p
        BY <2>1
      <3> HIDE DEF p
      <3> QED
        BY <1>14, <2>3, <3>1, <3>2 DEF GrownHeld
    <2>5. OneInUse'
      <3>1. \A i \in DOMAIN handle' : handle'[i].ok => i = p
        BY <1>1, <1>3, <1>5, <1>6, <2>1 DEF OneInUse
      <3> QED
        BY <1>14, <2>1, <3>1 DEF OneInUse
    <2>6. Untagged' /\ wal' = "grown" /\ ~ missed' => Untagged /\ wal = "grown" /\ ~ missed
      BY <1>9, <1>11
    <2> QED
      BY <1>2, <1>4, <1>7, <1>8, <1>10, <2>4, <2>5, <2>6
  <1> QED
    BY <1>12, <1>13, <1>14

-----------------------------------------------------------------------------
(* Setting a config                                                        *)

\* A list made from another is in order; if it has the cipher config, that is
\* the other's.
ComesFrom(new, l) ==
    /\ new \in Seq(Known) /\ InOrder(new)
    /\ HasCipher(l) /\ "cipher" \in Names(new) => HasCipher(new) /\ (HasKey(l) => HasKey(new))

\* There is one cipher config, and it is the one that sets the key.
LEMMA OneCipher ==
  ASSUME NEW l \in Seq(Known), InOrder(l), HasCipher(l), NEW i \in DOMAIN l, l[i].name = "cipher"
  PROVE  l[i].order = 1 /\ (HasKey(l) => l[i].invoke = "key")
  <1>1. DOMAIN l = 1..Len(l) /\ \A j \in DOMAIN l : l[j] \in Known
    OBVIOUS
  <1>2. \A j \in DOMAIN l : l[j].name = "cipher" => j = i
    <2> TAKE j \in DOMAIN l
    <2>1. i < j \/ j < i \/ i = j
      BY <1>1
    <2> QED
      BY <2>1 DEF InOrder
  <1>3. l[i].order = 1
    BY <1>2 DEF HasCipher
  <1>4. HasKey(l) => l[i].invoke = "key"
    BY <1>1, <1>2, KnownFacts DEF HasKey
  <1> QED
    BY <1>3, <1>4

\* What the three ways to set a config make of a list: the cipher's key, ...
LEMMA CipherFrom ==
  ASSUME NEW l \in Seq(Known), InOrder(l)
  PROVE  ComesFrom(SetConfig(l, "cipher", "key"), l) /\ HasKey(SetConfig(l, "cipher", "key"))
  <1> DEFINE name == "cipher"
             invoke == "key"
             new == SetConfig(l, name, invoke)
  <1>1. Wrap(name, invoke, IntMax) \in Known
    BY DEF Known, Wrap
  <1>2. \A w \in Known : w.name = name => Wrap(name, invoke, w.order) \in Known
    BY DEF Known, Wrap
  <1> HIDE DEF name, invoke
  <1>3. /\ new \in Seq(Known) /\ InOrder(new)
        /\ \E j \in DOMAIN new : new[j].invoke = invoke /\ new[j].name = name
        /\ \A i \in DOMAIN l : i \in DOMAIN new /\ new[i].name = l[i].name /\ new[i].order = l[i].order
    BY <1>1, <1>2, SetConfigFacts
  <1> HIDE DEF new
  <1>4. HasCipher(l) => HasCipher(new)
    BY <1>3 DEF HasCipher
  <1>5. HasKey(new)
    BY <1>3 DEF HasKey, invoke
  <1> QED
    BY <1>3, <1>4, <1>5 DEF ComesFrom, new, name, invoke

\* ... another config without an order, ...
LEMMA OtherFrom ==
  ASSUME NEW l \in Seq(Known), InOrder(l), NEW name, name # "cipher", NEW invoke,
         Wrap(name, invoke, IntMax) \in Known,
         \A w \in Known : w.name = name => Wrap(name, invoke, w.order) \in Known
  PROVE  /\ ComesFrom(SetConfig(l, name, invoke), l)
         /\ HasCipher(l) => HasCipher(SetConfig(l, name, invoke))
         /\ HasKey(l) => HasKey(SetConfig(l, name, invoke))
  <1> DEFINE new == SetConfig(l, name, invoke)
  <1>1. /\ new \in Seq(Known) /\ InOrder(new)
        /\ \A i \in DOMAIN l : i \in DOMAIN new /\ new[i].name = l[i].name /\ new[i].order = l[i].order
        /\ \A i \in DOMAIN l : l[i].name # name => new[i] = l[i]
    BY SetConfigFacts
  <1> HIDE DEF new
  <1>2. HasCipher(l) => HasCipher(new)
    BY <1>1 DEF HasCipher
  <1>3. HasKey(l) => HasKey(new)
    <2>1. \A i \in DOMAIN l : l[i] \in Known
      OBVIOUS
    <2> QED
      BY <1>1, <2>1, KnownFacts DEF HasKey
  <1> QED
    BY <1>1, <1>2, <1>3 DEF ComesFrom, new

\* ... and one of the app with an order.
LEMMA OwnFrom ==
  ASSUME NEW l \in Seq(Known), InOrder(l), NEW order \in Order
  PROVE  ComesFrom(SetConfigAt(l, "app", "nothing", order), l)
  <1> DEFINE w == Wrap("app", "nothing", order)
             new == SetConfigAt(l, "app", "nothing", order)
  <1>1. w \in Known /\ w.name = "app" /\ order \in Int
    <2>1. w \in [name : {"app"}, invoke : {"nothing"}, order : Order]
      BY DEF Wrap
    <2>2. w \in Known
      BY <2>1 DEF Known
    <2>3. w.name = "app" /\ w.order = order
      BY DEF Wrap
    <2>4. order \in Int
      BY <2>2, <2>3, KnownFacts
    <2> QED
      BY <2>2, <2>3, <2>4
  <1>2. /\ new \in Seq(Known) /\ InOrder(new)
        /\ \A j \in DOMAIN new : new[j] = w \/ \E i \in DOMAIN l : new[j] = l[i]
    BY <1>1, SetConfigAtFacts
  <1> HIDE DEF new, w
  <1>3. ASSUME HasCipher(l), "cipher" \in Names(new)
        PROVE  HasCipher(new) /\ (HasKey(l) => HasKey(new))
    <2>1. PICK j \in DOMAIN new : new[j].name = "cipher"
      BY <1>3 DEF Names
    <2>2. PICK i \in DOMAIN l : new[j] = l[i]
      BY <1>1, <1>2, <2>1
    <2>3. l[i].order = 1 /\ (HasKey(l) => l[i].invoke = "key")
      BY <1>3, <2>1, <2>2, OneCipher
    <2> QED
      BY <2>1, <2>2, <2>3 DEF HasCipher, HasKey
  <1> QED
    BY <1>2, <1>3 DEF ComesFrom, new

\* The two configs of the synchronous mode.
LEMMA ModeFrom ==
  ASSUME NEW l \in Seq(Known), InOrder(l), NEW full \in BOOLEAN
  PROVE  ComesFrom(SetConfig(SetConfig(l, "synchronous", IF full THEN "full" ELSE "null"),
                             "checkpoint", IF full THEN "null" ELSE "hook"), l)
  <1> DEFINE mode == IF full THEN "full" ELSE "null"
             hook == IF full THEN "null" ELSE "hook"
             between == SetConfig(l, "synchronous", mode)
             new == SetConfig(between, "checkpoint", hook)
  <1>1. /\ Wrap("synchronous", mode, IntMax) \in Known
        /\ \A w \in Known : w.name = "synchronous" => Wrap("synchronous", mode, w.order) \in Known
    BY DEF Known, Wrap
  <1>2. /\ Wrap("checkpoint", hook, IntMax) \in Known
        /\ \A w \in Known : w.name = "checkpoint" => Wrap("checkpoint", hook, w.order) \in Known
    BY DEF Known, Wrap
  <1> HIDE DEF mode, hook
  <1>3. /\ ComesFrom(between, l)
        /\ HasCipher(l) => HasCipher(between)
        /\ HasKey(l) => HasKey(between)
    BY <1>1, OtherFrom
  <1> HIDE DEF between
  <1>4. between \in Seq(Known) /\ InOrder(between)
    BY <1>3 DEF ComesFrom
  <1>5. /\ ComesFrom(new, between)
        /\ HasCipher(between) => HasCipher(new)
        /\ HasKey(between) => HasKey(new)
    BY <1>2, <1>4, OtherFrom
  <1> HIDE DEF new
  <1>6. ComesFrom(new, l)
    BY <1>3, <1>5 DEF ComesFrom
  <1> QED
    BY <1>6 DEF new, between, mode, hook

\* What a step that leaves a part alone keeps of it.
LEMMA RegistryStays == RegistryInv /\ UNCHANGED registryVars => RegistryInv'
  BY DEF RegistryInv, registryVars, RegistryTypeOK, InUse

LEMMA QueueStays ==
  QueueInv /\ UNCHANGED queueVars => QueueInv' /\ \A q : IsQueued(q)' <=> IsQueued(q)
  BY DEF QueueInv, queueVars, QueueTypeOK, QueueInOrder, LeftIsAge, IsQueued

\* A list is set: the handle of its pool is stale, and what is lost is known.
LEMMA ConfigureKeeps ==
  ASSUME Inv, NEW o \in App, NEW list, Configure(o, list),
         ComesFrom(list, configs[object[o]]),
         ready' = ready \/ (ready' = ready \cup {o} /\ HasKey(list)),
         UNCHANGED <<queueVars, registryVars, file, by, wal, missed, ck>>
  PROVE  Inv'
  <1> DEFINE p == object[o]
             old == configs[p]
             stale == [handle[p] EXCEPT !.current = FALSE]
             r == s_pools[Home].pool
  <1>1. /\ QueueInv /\ RegistryInv /\ ConfigsInv /\ HandlesInv /\ ThreadInv /\ FileInv
        /\ OneInUse /\ GrownHeld /\ GrownComing
    BY DEF Inv, LogInv
  <1>2. /\ o \in Object /\ Len(pools) \in Nat /\ DOMAIN configs = 1..Len(pools) /\ DOMAIN handle = 1..Len(pools)
        /\ p \in 1..Len(pools) /\ old \in Seq(Known) /\ handle[p] \in Handle
        /\ configs \in Seq(Seq(Known)) /\ Len(configs) = Len(pools)
        /\ handle \in Seq(Handle) /\ Len(handle) = Len(pools)
        /\ \A q \in Object : object[q] # 0 => object[q] \in 1..Len(pools)
        /\ \A q \in DOMAIN s_pools : s_pools[q].pool \in 1..Len(pools)
    BY <1>1, DataTypes, CheckpointAssumption DEF Configure, ConfigsInv, HandlesInv
  <1>3. /\ configs' = [configs EXCEPT ![p] = list] /\ handle' = [handle EXCEPT ![p] = stale]
        /\ dropped' = dropped \cup (Names(old) \ Names(list)) /\ object[o] # 0
    BY DEF Configure
  <1>4. stale \in Handle /\ ~ stale.current /\ (stale.ok <=> handle[p].ok) /\ (stale.key <=> handle[p].key)
    BY <1>2 DEF Handle
  <1>5. UNCHANGED <<s_pools, pools, object, byTag, released, m_list, consumer, got>>
    BY DEF registryVars, queueVars
  <1>6. /\ list \in Seq(Known) /\ InOrder(list)
        /\ HasCipher(old) /\ "cipher" \in Names(list) => HasCipher(list) /\ (HasKey(old) => HasKey(list))
    BY DEF ComesFrom
  <1>7. /\ InOrder(old)
        /\ "basic" \in dropped \/ "basic" \in Names(old)
        /\ "cipher" \in dropped \/ HasCipher(old)
    BY <1>1, <1>2 DEF ConfigsInv
  <1> HIDE DEF p, old, stale
  <1>8. /\ configs' \in Seq(Seq(Known)) /\ Len(configs') = Len(pools) /\ DOMAIN configs' = 1..Len(pools)
        /\ \A i \in 1..Len(pools) : configs'[i] = IF i = p THEN list ELSE configs[i]
    <2> DEFINE Lists == Seq(Known)
    <2>1. list \in Lists
      BY <1>6
    <2>2. configs \in Seq(Lists)
      BY <1>2
    <2> HIDE DEF Lists
    <2>3. /\ configs' \in Seq(Lists) /\ Len(configs') = Len(pools) /\ DOMAIN configs' = 1..Len(pools)
          /\ \A i \in 1..Len(pools) : configs'[i] = IF i = p THEN list ELSE configs[i]
      BY <1>2, <1>3, <2>1, <2>2
    <2> QED
      BY <2>3 DEF Lists
  <1>9. /\ handle' \in Seq(Handle) /\ Len(handle') = Len(pools) /\ DOMAIN handle' = 1..Len(pools)
        /\ \A i \in 1..Len(pools) : handle'[i] = IF i = p THEN stale ELSE handle[i]
    BY <1>2, <1>3, <1>4
  <1>10. /\ "basic" \in dropped' \/ "basic" \in Names(list)
         /\ "cipher" \in dropped' \/ (HasCipher(list) /\ (HasKey(old) => HasKey(list)))
         /\ dropped \subseteq dropped'
    <2>1. HasCipher(old) => "cipher" \in Names(old)
      BY DEF HasCipher, Names
    <2>2. dropped \subseteq dropped' /\ \A n \in Names(old) : n \in Names(list) \/ n \in dropped'
      BY <1>3
    <2>3. "basic" \in dropped' \/ "basic" \in Names(list)
      BY <1>7, <2>2
    <2>4. "cipher" \in dropped' \/ (HasCipher(list) /\ (HasKey(old) => HasKey(list)))
      <3> SUFFICES ASSUME "cipher" \notin dropped' PROVE HasCipher(list) /\ (HasKey(old) => HasKey(list))
        OBVIOUS
      <3>1. HasCipher(old)
        BY <1>7, <2>2
      <3>2. "cipher" \in Names(list)
        BY <2>1, <2>2, <3>1
      <3> QED
        BY <1>6, <3>1, <3>2
    <2> QED
      BY <2>2, <2>3, <2>4
  <1>11. "cipher" \in dropped' \/ \A i \in 1..Len(pools) : HasKey(configs[i]) => HasKey(configs'[i])
    BY <1>8, <1>10 DEF old
  <1>12. ConfigsInv'
    <2>1. \A i \in DOMAIN configs' :
            /\ InOrder(configs'[i])
            /\ "basic" \in dropped' \/ "basic" \in Names(configs'[i])
            /\ "cipher" \in dropped' \/ HasCipher(configs'[i])
      <3> TAKE i \in DOMAIN configs'
      <3>1. CASE i = p
        <4>1. configs'[i] = list
          BY <1>8, <3>1
        <4> QED
          BY <1>6, <1>10, <4>1
      <3>2. CASE i # p
        <4>1. configs'[i] = configs[i] /\ i \in DOMAIN configs
          BY <1>2, <1>8, <3>2
        <4>2. /\ InOrder(configs[i])
              /\ "basic" \in dropped \/ "basic" \in Names(configs[i])
              /\ "cipher" \in dropped \/ HasCipher(configs[i])
          BY <1>1, <4>1 DEF ConfigsInv
        <4> QED
          BY <1>10, <4>1, <4>2
      <3> QED
        BY <3>1, <3>2
    <2>2. ready' \subseteq {q \in App : object'[q] # 0}
      BY <1>1, <1>3, <1>5 DEF ConfigsInv
    <2>3. "cipher" \in dropped' \/ \A q \in ready' : HasKey(configs'[object'[q]])
      <3>1. "cipher" \in dropped' \/ \A q \in ready : HasKey(configs'[object[q]])
        BY <1>1, <1>2, <1>10, <1>11, CheckpointAssumption DEF ConfigsInv
      <3>2. configs'[object[o]] = list
        BY <1>2, <1>8 DEF p
      <3> QED
        BY <1>5, <3>1, <3>2
    <2> QED
      BY <1>5, <1>8, <2>1, <2>2, <2>3 DEF ConfigsInv
  <1>13. HandlesInv'
    <2>1. \A i \in DOMAIN handle' : IsSetUp(handle'[i], configs'[i], dropped')
      <3> TAKE i \in DOMAIN handle'
      <3>1. CASE i = p
        BY <1>4, <1>9, <3>1 DEF IsSetUp
      <3>2. CASE i # p
        BY <1>1, <1>2, <1>8, <1>9, <1>10, <3>2 DEF HandlesInv, IsSetUp
      <3> QED
        BY <3>1, <3>2
    <2> QED
      BY <1>5, <1>9, <2>1 DEF HandlesInv
  <1>14. FileInv'
    BY <1>1, <1>10 DEF FileInv
  <1>15. ThreadInv'
    BY <1>1, <1>5 DEF ThreadInv
  <1>16. \A i \in 1..Len(pools) : (handle'[i].ok <=> handle[i].ok) /\ (handle'[i].key <=> handle[i].key)
    BY <1>4, <1>9
  <1>17. Untagged' <=> Untagged
    BY <1>5 DEF Untagged
  <1>18. OneInUse'
    BY <1>1, <1>2, <1>5, <1>9, <1>16, <1>17 DEF OneInUse
  <1>19. GrownHeld'
    <2>1. ASSUME wal' = "grown", ~ missed', Untagged', "cipher" \notin dropped'
          PROVE  /\ file = "encrypted" /\ Home \in DOMAIN s_pools
                 /\ handle[r].ok /\ handle[r].key /\ HasKey(configs[r])
      BY <1>1, <1>10, <1>17, <2>1 DEF GrownHeld
    <2>2. Home \in DOMAIN s_pools => r \in 1..Len(pools)
      BY <1>2
    <2>3. s_pools'[Home].pool = r
      BY <1>5
    <2> HIDE DEF r
    <2> QED
      BY <1>5, <1>11, <1>16, <2>1, <2>2, <2>3 DEF GrownHeld
  <1>20. GrownComing'
    BY <1>1, <1>5, <1>10, <1>17 DEF GrownComing, IsQueued
  <1> QED
    BY <1>1, <1>12, <1>13, <1>14, <1>15, <1>18, <1>19, <1>20, RegistryStays, QueueStays DEF Inv, LogInv

-----------------------------------------------------------------------------
(* Using a handle                                                          *)

\* The key opens every file but one that was made without it.
LEMMA KeyedFacts == FileInv => (TRUE \in Keyed <=> file # "plain")
  BY DEF FileInv, Keyed

\* As long as no object was made by tag, the objects use the registered pool.
LEMMA InRegisteredPool ==
  ASSUME RegistryInv, Untagged, NEW o \in Object, object[o] # 0
  PROVE  Home \in DOMAIN s_pools /\ object[o] = s_pools[Home].pool
  <1>1. o \in InUse
    BY DEF Untagged, InUse
  <1> QED
    BY <1>1 DEF RegistryInv, Untagged

\* A step on the handle of an object's pool opens none of another pool.
LEMMA OneInUseStays ==
  ASSUME Inv, NEW o \in Object, object[o] # 0, UNCHANGED registryVars,
         DOMAIN handle' = DOMAIN handle, \A i \in DOMAIN handle : i # object[o] => handle'[i] = handle[i]
  PROVE  OneInUse'
  <1>1. Untagged' <=> Untagged
    BY DEF Untagged, registryVars
  <1>2. s_pools' = s_pools
    BY DEF registryVars
  <1>3. Untagged => Home \in DOMAIN s_pools /\ object[o] = s_pools[Home].pool
    BY InRegisteredPool DEF Inv
  <1> QED
    BY <1>1, <1>2, <1>3 DEF OneInUse, Inv, LogInv

\* The app writes.  It can, unless its key is lost or the thread has made the
\* file without it.
LEMMA CommitKeeps ==
  ASSUME Inv, NEW o \in App, Commit(o)
  PROVE  Inv' /\ (refused' => "cipher" \in dropped \/ (file = "plain" /\ by = "checkpoint"))
  <1> DEFINE pool == object[o]
             h == FlowOut(pool)
             works == h.ok /\ h.key \in Keyed
  <1>1. /\ QueueInv /\ RegistryInv /\ ConfigsInv /\ HandlesInv /\ ThreadInv /\ FileInv
        /\ OneInUse /\ GrownHeld /\ GrownComing
    BY DEF Inv, LogInv
  <1>2. /\ o \in Object /\ object[o] # 0 /\ pool \in 1..Len(pools) /\ DOMAIN handle = 1..Len(pools)
        /\ "cipher" \in dropped \/ HasKey(configs[pool])
    BY <1>1, DataTypes, CheckpointAssumption DEF Commit, ConfigsInv
  <1>3. UNCHANGED <<registryVars, configs, ready, dropped, ck>>
    BY DEF Commit, Called
  <1>4. /\ refused' <=> ~ works
        /\ handle' = [handle EXCEPT ![pool] = IF h.ok THEN h ELSE NoHandle]
        /\ IF works THEN Touch(h, "app") ELSE UNCHANGED <<file, by>>
    BY DEF Commit
  <1>5. /\ wal' \in {wal, "small", "grown"}
        /\ IF works THEN missed' = (wal' = "grown" /\ ~ h.hook) ELSE UNCHANGED <<wal, missed>>
        /\ IF works /\ h.hook THEN Hook(Home, wal' = "grown") ELSE UNCHANGED queueVars
    BY DEF Commit
  <1>6. /\ h \in Handle
        /\ h.ok => h.current /\ IsSetUp(h, configs[pool], dropped)
        /\ "cipher" \notin dropped /\ HasKey(configs[pool]) /\ TRUE \in Keyed => h.ok /\ h.key
    BY <1>1, <1>2, FlowOutFacts
  <1>7. /\ HandlesInv'
        /\ \A i \in DOMAIN handle : i # pool => handle'[i] = handle[i]
        /\ handle'[pool] = IF h.ok THEN h ELSE NoHandle
        /\ DOMAIN handle' = DOMAIN handle
    BY <1>1, <1>2, <1>3, <1>4, FlowBackKeeps DEF registryVars
  <1> HIDE DEF h
  <1>8. h.key \in BOOLEAN
    BY <1>6 DEF Handle
  <1>9. "cipher" \notin dropped /\ file # "plain" => works /\ h.key
    BY <1>1, <1>2, <1>6, <1>8, KeyedFacts
  <1>10. "cipher" \notin dropped /\ works => h.key /\ file # "plain"
    <2>1. "cipher" \notin dropped /\ h.ok => h.key
      BY <1>2, <1>6 DEF IsSetUp
    <2> QED
      BY <1>1, <1>8, <2>1, KeyedFacts
  <1>11. works => \/ file = "none" /\ file' = (IF h.key THEN "encrypted" ELSE "plain") /\ by' = "app"
                  \/ file # "none" /\ UNCHANGED <<file, by>>
    BY <1>4 DEF Touch
  <1>12. ~ works => UNCHANGED <<file, by>>
    BY <1>4
  <1>13. /\ QueueInv' /\ (\A q : IsQueued(q) => IsQueued(q)')
         /\ got' = got /\ (consumer' = "expired" <=> consumer = "expired")
         /\ works /\ h.hook /\ wal' = "grown" => IsQueued(Home)'
    <2>1. CASE works /\ h.hook /\ wal' = "grown"
      <3>1. ReQueue(Home)
        BY <1>5, <2>1 DEF Hook
      <3> QED
        BY <1>1, <3>1, ReQueueKeeps, CheckpointAssumption
    <2>2. CASE works /\ h.hook /\ wal' # "grown"
      <3>1. StartThread
        BY <1>5, <2>2 DEF Hook
      <3> QED
        BY <1>1, <2>2, <3>1, StartThreadKeeps
    <2>3. CASE ~ (works /\ h.hook)
      <3>1. UNCHANGED queueVars
        BY <1>5, <2>3
      <3> QED
        BY <1>1, <2>3, <3>1, QueueStays DEF queueVars
    <2> QED
      BY <2>1, <2>2, <2>3
  <1>14. FileInv'
    <2>1. wal' \in {"small", "grown"} /\ missed' \in BOOLEAN
      BY <1>1, <1>5 DEF FileInv
    <2>2. CASE works
      BY <1>1, <1>3, <1>10, <1>11, <2>1, <2>2 DEF FileInv
    <2>3. CASE ~ works
      BY <1>1, <1>3, <1>12, <2>1, <2>3 DEF FileInv
    <2> QED
      BY <2>2, <2>3
  <1>15. ThreadInv'
    BY <1>1, <1>3, <1>13 DEF ThreadInv, registryVars
  <1>16. ConfigsInv'
    BY <1>1, <1>3 DEF ConfigsInv, registryVars
  <1>17. OneInUse'
    BY <1>2, <1>3, <1>7, OneInUseStays
  <1>18. ASSUME wal' = "grown", ~ missed', Untagged', "cipher" \notin dropped'
         PROVE  /\ works /\ h.hook /\ file' = "encrypted"
                /\ Home \in DOMAIN s_pools /\ pool = s_pools[Home].pool /\ HasKey(configs[pool])
    <2>1. Untagged /\ "cipher" \notin dropped
      BY <1>3, <1>18 DEF Untagged, registryVars
    <2>2. Home \in DOMAIN s_pools /\ pool = s_pools[Home].pool /\ HasKey(configs[pool])
      BY <1>1, <1>2, <2>1, InRegisteredPool
    <2>3. works
      <3>1. ~ works => file = "encrypted"
        BY <1>1, <1>5, <1>18, <2>1 DEF GrownHeld
      <3> QED
        BY <1>9, <2>1, <3>1
    <2>4. h.hook
      BY <1>5, <1>18, <2>3
    <2>5. file' = "encrypted"
      BY <1>1, <1>10, <1>11, <2>1, <2>3 DEF FileInv
    <2> HIDE DEF works, pool
    <2> QED
      BY <2>2, <2>3, <2>4, <2>5
  <1>19. GrownHeld'
    <2> SUFFICES ASSUME wal' = "grown", ~ missed', Untagged', "cipher" \notin dropped'
                 PROVE  /\ file' = "encrypted" /\ Home \in DOMAIN s_pools'
                        /\ handle'[s_pools'[Home].pool].ok /\ handle'[s_pools'[Home].pool].key
                        /\ HasKey(configs'[s_pools'[Home].pool])
      BY DEF GrownHeld
    <2>1. /\ works /\ file' = "encrypted"
          /\ Home \in DOMAIN s_pools /\ pool = s_pools[Home].pool /\ HasKey(configs[pool])
      BY <1>18
    <2>2. h.key /\ handle'[pool] = h /\ h.ok
      BY <1>3, <1>7, <1>10, <2>1
    <2>3. s_pools' = s_pools /\ configs' = configs
      BY <1>3 DEF registryVars
    <2> HIDE DEF pool
    <2> QED
      BY <2>1, <2>2, <2>3
  <1>20. GrownComing'
    BY <1>13, <1>18 DEF GrownComing
  <1>21. refused' => "cipher" \in dropped \/ (file = "plain" /\ by = "checkpoint")
    BY <1>1, <1>4, <1>9 DEF FileInv
  <1>22. RegistryInv'
    BY <1>1, <1>3, RegistryStays
  <1> QED
    BY <1>7, <1>13, <1>14, <1>15, <1>16, <1>17, <1>19, <1>20, <1>21, <1>22 DEF Inv, LogInv

\* The thread checkpoints: a log that has grown is small then, or missed, as
\* the handle reads the file.
LEMMA CkExecKeeps ==
  ASSUME Inv, CkExec
  PROVE  Inv'
  <1> DEFINE pool == object[Ck]
             h == FlowOut(pool)
             works == h.ok /\ h.key \in Keyed
  <1>1. /\ QueueInv /\ RegistryInv /\ ConfigsInv /\ HandlesInv /\ ThreadInv /\ FileInv
        /\ OneInUse /\ GrownHeld /\ GrownComing
    BY DEF Inv, LogInv
  <1>2. ck = "exec" /\ ck' = "release"
    BY DEF CkExec
  <1>3. /\ Ck \in Object /\ object[Ck] # 0 /\ pool \in 1..Len(pools) /\ DOMAIN handle = 1..Len(pools)
    BY <1>1, <1>2, DataTypes, CheckpointAssumption DEF ThreadInv
  <1>4. UNCHANGED <<queueVars, registryVars, configs, ready, dropped>>
    BY DEF CkExec
  <1>5. /\ handle' = [handle EXCEPT ![pool] = IF h.ok THEN h ELSE NoHandle]
        /\ IF works THEN Touch(h, "checkpoint") ELSE UNCHANGED <<file, by>>
        /\ IF works THEN TryCheckpoint ELSE UNCHANGED <<wal, missed>>
    BY DEF CkExec
  <1>6. /\ h \in Handle
        /\ "cipher" \notin dropped /\ HasKey(configs[pool]) /\ TRUE \in Keyed => h.ok /\ h.key
    BY <1>1, <1>3, FlowOutFacts
  <1>7. /\ HandlesInv'
        /\ \A i \in DOMAIN handle : i # pool => handle'[i] = handle[i]
        /\ DOMAIN handle' = DOMAIN handle
    BY <1>1, <1>3, <1>4, <1>5, FlowBackKeeps DEF registryVars
  <1> HIDE DEF h
  <1>8. h.key \in BOOLEAN
    BY <1>6 DEF Handle
  <1>9. FileInv'
    <2>1. \/ file' \in {"encrypted", "plain"} /\ by' = "checkpoint"
          \/ UNCHANGED <<file, by>>
      BY <1>5 DEF Touch
    <2>2. wal' \in {"small", "grown"} /\ missed' \in BOOLEAN
      BY <1>1, <1>5 DEF FileInv, TryCheckpoint
    <2> QED
      BY <1>1, <1>4, <2>1, <2>2 DEF FileInv
  <1>10. ThreadInv'
    BY <1>1, <1>2, <1>4 DEF ThreadInv, registryVars, queueVars
  <1>11. ConfigsInv'
    BY <1>1, <1>4 DEF ConfigsInv, registryVars
  <1>12. OneInUse'
    BY <1>3, <1>4, <1>7, OneInUseStays
  <1>13. ~ (wal' = "grown" /\ ~ missed' /\ Untagged' /\ "cipher" \notin dropped')
    <2> SUFFICES ASSUME wal' = "grown", ~ missed', Untagged', "cipher" \notin dropped' PROVE FALSE
      OBVIOUS
    <2>1. ~ works /\ wal = "grown" /\ ~ missed
      BY <1>5 DEF TryCheckpoint
    <2>2. Untagged /\ "cipher" \notin dropped
      BY <1>4 DEF Untagged, registryVars
    <2>3. Home \in DOMAIN s_pools /\ pool = s_pools[Home].pool
      BY <1>1, <1>3, <2>2, InRegisteredPool
    <2>4. file = "encrypted" /\ HasKey(configs[pool])
      BY <1>1, <2>1, <2>2, <2>3 DEF GrownHeld
    <2>5. TRUE \in Keyed
      BY <1>1, <2>4, KeyedFacts
    <2>6. h.ok /\ h.key
      BY <1>6, <2>2, <2>4, <2>5
    <2> QED
      BY <1>8, <2>1, <2>5, <2>6
  <1>14. GrownHeld' /\ GrownComing'
    BY <1>13 DEF GrownHeld, GrownComing
  <1> QED
    BY <1>1, <1>4, <1>7, <1>9, <1>10, <1>11, <1>12, <1>14, RegistryStays, QueueStays DEF Inv, LogInv

\* The app closes the database and removes its files.
LEMMA CloseKeeps ==
  ASSUME Inv, NEW o \in App, CloseAndRemove(o)
  PROVE  Inv'
  <1>1. /\ QueueInv /\ RegistryInv /\ ConfigsInv /\ HandlesInv /\ ThreadInv /\ FileInv
        /\ OneInUse /\ GrownHeld /\ GrownComing
    BY DEF Inv, LogInv
  <1>2. /\ o \in Object /\ object[o] # 0 /\ object[o] \in 1..Len(pools) /\ DOMAIN handle = 1..Len(pools)
        /\ handle \in Seq(Handle) /\ Len(handle) = Len(pools)
    BY <1>1, DataTypes, CheckpointAssumption DEF CloseAndRemove, ConfigsInv, HandlesInv
  <1>3. /\ UNCHANGED <<queueVars, registryVars, configs, ready, dropped, ck>>
        /\ handle' = [handle EXCEPT ![object[o]] = NoHandle]
        /\ file' = "none" /\ by' = "none" /\ wal' = "small" /\ missed' = FALSE
    BY DEF CloseAndRemove, Called
  <1>4. /\ handle' \in Seq(Handle) /\ Len(handle') = Len(pools) /\ DOMAIN handle' = DOMAIN handle
        /\ \A i \in DOMAIN handle : handle'[i] = IF i = object[o] THEN NoHandle ELSE handle[i]
    BY <1>2, <1>3, NoHandleFacts
  <1>5. HandlesInv'
    <2>1. \A i \in DOMAIN handle' : IsSetUp(handle'[i], configs'[i], dropped')
      BY <1>1, <1>3, <1>4, NoHandleFacts DEF HandlesInv, IsSetUp
    <2> QED
      BY <1>3, <1>4, <2>1 DEF HandlesInv, registryVars
  <1>6. ConfigsInv' /\ ThreadInv' /\ FileInv'
    BY <1>1, <1>3 DEF ConfigsInv, ThreadInv, FileInv, registryVars, queueVars
  <1>7. OneInUse'
    BY <1>2, <1>3, <1>4, OneInUseStays
  <1>8. GrownHeld' /\ GrownComing'
    BY <1>3 DEF GrownHeld, GrownComing
  <1> QED
    BY <1>1, <1>3, <1>5, <1>6, <1>7, <1>8, RegistryStays, QueueStays DEF Inv, LogInv

-----------------------------------------------------------------------------
(* The steps                                                               *)

\* At the start.
LEMMA QueueInitInv == QueueInit => QueueInv
  <1> SUFFICES ASSUME QueueInit PROVE QueueInv
    OBVIOUS
  <1>1. QueueTypeOK
    BY QueueAssumption DEF QueueInit, QueueTypeOK, Consumer
  <1>2. QueueInOrder /\ LeftIsAge
    BY DEF QueueInit, QueueInOrder, LeftIsAge
  <1> QED
    BY <1>1, <1>2 DEF QueueInv

\* At the start no object has a pool.
LEMMA RegistryInitInv == RegistryInit => RegistryInv
  <1> SUFFICES ASSUME RegistryInit PROVE RegistryInv
    OBVIOUS
  <1>1. RegistryTypeOK
    <2>1. /\ pools = <<>> /\ Len(pools) = 0 /\ DOMAIN s_pools = {} /\ byTag = {}
          /\ released = FALSE /\ undefined = FALSE
      BY DEF RegistryInit
    <2>2. object \in [Object -> 0..Len(pools)]
      BY <2>1 DEF RegistryInit
    <2>3. pools \in Seq([path : Path, tag : Tag \cup {InvalidTag}])
      BY <2>1
    <2> QED
      BY <2>1, <2>2, <2>3 DEF RegistryTypeOK
  <1>2. InUse = {}
    BY DEF InUse, RegistryInit
  <1> QED
    BY <1>1, <1>2 DEF RegistryInit, RegistryInv

\* At the start all of it holds.
LEMMA InitInv == Init => Inv
  <1> SUFFICES ASSUME Init PROVE Inv
    OBVIOUS
  <1>1. QueueInv /\ RegistryInv
    BY QueueInitInv, RegistryInitInv DEF Init
  <1>2. ConfigsInv /\ HandlesInv
    BY DEF Init, RegistryInit, ConfigsInv, HandlesInv
  <1>3. ThreadInv
    BY CheckpointAssumption DEF Init, QueueInit, RegistryInit, ThreadInv
  <1>4. FileInv
    BY DEF Init, FileInv
  <1>5. LogInv
    BY DEF Init, LogInv, OneInUse, GrownHeld, GrownComing
  <1> QED
    BY <1>1, <1>2, <1>3, <1>4, <1>5 DEF Inv

\* The steps of the app.
LEMMA AppKeeps ==
  ASSUME Inv, NEW o \in App,
         \/ Open(o) \/ OpenByTag(o) \/ Label(o) \/ Release(o) \/ SetCipher(o)
         \/ \E full \in BOOLEAN : SetSynchronousFull(o, full)
         \/ SetConfigOrdered(o) \/ Commit(o) \/ CloseAndRemove(o)
  PROVE  Inv'
  <1>1. /\ QueueInv /\ RegistryInv /\ ConfigsInv /\ HandlesInv /\ ThreadInv /\ FileInv
        /\ OneInUse /\ GrownHeld /\ GrownComing
    BY DEF Inv, LogInv
  <1>2. o \in Object /\ Ck \in Object /\ o # Ck
    BY CheckpointAssumption
  <1>3. CASE Open(o)
    <2>1. /\ GetPoolOfPath(o, Home) /\ NewPools
          /\ UNCHANGED <<queueVars, file, by, wal, missed, ready, dropped, ck>>
      BY <1>3 DEF Open, Called
    <2>2. /\ RegistryInv' /\ ConfigsInv' /\ HandlesInv' /\ FileInv' /\ OneInUse' /\ GrownHeld'
          /\ (Untagged' <=> Untagged)
          /\ \A q \in Object : q # o => object'[q] = object[q]
      BY <1>2, <2>1, OpenKeeps
    <2>3. ThreadInv'
      BY <1>1, <1>2, <2>1, <2>2 DEF ThreadInv, queueVars
    <2>4. GrownComing'
      BY <1>1, <2>1, <2>2 DEF GrownComing, IsQueued, queueVars
    <2> QED
      BY <1>1, <2>1, <2>2, <2>3, <2>4, QueueStays DEF Inv, LogInv
  <1>4. CASE OpenByTag(o)
    <2>1. PICK tag \in Tag : GetPoolOfTag(o, tag)
      BY <1>4 DEF OpenByTag
    <2>2. UNCHANGED <<queueVars, dataVars, ck>>
      BY <1>4 DEF OpenByTag, Called
    <2>3. /\ RegistryInv' /\ UNCHANGED <<s_pools, pools, released, undefined>>
          /\ object[o] = 0 /\ byTag' = byTag \cup {o}
          /\ \A q \in Object : q # o => object'[q] = object[q]
      BY <1>1, <2>1, GetPoolByTagKeeps
    <2>4. /\ ready \subseteq {q \in App : object'[q] # 0}
          /\ \A q \in ready : object'[q] = object[q]
      BY <1>1, <2>3, CheckpointAssumption DEF ConfigsInv
    <2>5. ConfigsInv'
      BY <1>1, <2>2, <2>3, <2>4 DEF ConfigsInv, dataVars
    <2>6. HandlesInv' /\ FileInv' /\ ThreadInv'
      BY <1>1, <1>2, <2>2, <2>3 DEF HandlesInv, FileInv, ThreadInv, dataVars, queueVars
    <2>7. ~ Untagged'
      BY <2>3 DEF Untagged
    <2> QED
      BY <1>1, <2>2, <2>3, <2>5, <2>6, <2>7, QueueStays DEF Inv, LogInv, OneInUse, GrownHeld, GrownComing
  <1>5. CASE Label(o)
    <2>1. PICK tag \in Tag : SetTag(o, tag)
      BY <1>5 DEF Label
    <2>2. UNCHANGED <<queueVars, dataVars, ck>>
      BY <1>5 DEF Label, Called
    <2>3. /\ RegistryInv' /\ UNCHANGED <<s_pools, object, byTag, released, undefined>>
          /\ Len(pools') = Len(pools)
      BY <1>1, <1>2, <2>1, SetTagKeeps
    <2>4. ConfigsInv' /\ HandlesInv' /\ FileInv' /\ ThreadInv'
      BY <1>1, <2>2, <2>3 DEF ConfigsInv, HandlesInv, FileInv, ThreadInv, dataVars, queueVars
    <2>5. OneInUse' /\ GrownHeld' /\ GrownComing'
      BY <1>1, <2>2, <2>3 DEF OneInUse, GrownHeld, GrownComing, Untagged, IsQueued, dataVars, queueVars
    <2> QED
      BY <1>1, <2>2, <2>3, <2>4, <2>5, QueueStays DEF Inv, LogInv
  <1>6. CASE Release(o)
    <2>1. /\ Recycle(o) /\ Reclaim /\ ready' = ready \ {o}
          /\ UNCHANGED <<queueVars, configs, file, by, dropped, ck>>
      BY <1>6 DEF Release, Uncounted
    <2>2. /\ RegistryInv' /\ ConfigsInv' /\ HandlesInv' /\ FileInv' /\ OneInUse' /\ GrownHeld'
          /\ Untagged' /\ wal' = "grown" /\ ~ missed' => Untagged /\ wal = "grown" /\ ~ missed
          /\ \A q \in Object : q # o => object'[q] = object[q]
      BY <1>2, <2>1, ReleaseKeeps
    <2>3. ThreadInv'
      BY <1>1, <1>2, <2>1, <2>2 DEF ThreadInv, queueVars
    <2>4. GrownComing'
      BY <1>1, <2>1, <2>2 DEF GrownComing, IsQueued, queueVars
    <2> QED
      BY <1>1, <2>1, <2>2, <2>3, <2>4, QueueStays DEF Inv, LogInv
  <1>7. object[o] # 0 => configs[object[o]] \in Seq(Known) /\ InOrder(configs[object[o]])
    BY <1>1, <1>2, DataTypes DEF ConfigsInv
  <1>8. CASE SetCipher(o)
    <2> DEFINE l == configs[object[o]]
               list == SetConfig(l, "cipher", "key")
    <2>1. /\ object[o] # 0 /\ Configure(o, list) /\ ready' = ready \cup {o}
          /\ UNCHANGED <<queueVars, registryVars, file, by, wal, missed, ck>>
      BY <1>8 DEF SetCipher, Called, Uncounted
    <2>2. l \in Seq(Known) /\ InOrder(l)
      BY <1>7, <2>1
    <2>3. ComesFrom(list, l) /\ HasKey(list)
      <3> HIDE DEF l
      <3> QED
        BY <2>2, CipherFrom
    <2> HIDE DEF list
    <2> QED
      BY <2>1, <2>3, ConfigureKeeps
  <1>9. ASSUME NEW full \in BOOLEAN, SetSynchronousFull(o, full) PROVE Inv'
    <2> DEFINE l == configs[object[o]]
               list == SetConfig(SetConfig(l, "synchronous", IF full THEN "full" ELSE "null"),
                                 "checkpoint", IF full THEN "null" ELSE "hook")
    <2>1. /\ object[o] # 0 /\ Configure(o, list)
          /\ UNCHANGED <<queueVars, registryVars, file, by, wal, missed, ready, ck>>
      BY <1>9 DEF SetSynchronousFull, Configure, Called
    <2>2. l \in Seq(Known) /\ InOrder(l)
      BY <1>7, <2>1
    <2>3. ComesFrom(list, l)
      <3> HIDE DEF l
      <3> QED
        BY <2>2, ModeFrom
    <2> HIDE DEF list
    <2> QED
      BY <2>1, <2>3, ConfigureKeeps
  <1>10. CASE SetConfigOrdered(o)
    <2> DEFINE l == configs[object[o]]
    <2>1. PICK order \in Order : Configure(o, SetConfigAt(l, "app", "nothing", order))
      BY <1>10 DEF SetConfigOrdered
    <2> DEFINE list == SetConfigAt(l, "app", "nothing", order)
    <2>2. object[o] # 0 /\ UNCHANGED <<queueVars, registryVars, file, by, wal, missed, ready, ck>>
      BY <1>10, <2>1 DEF SetConfigOrdered, Configure, Called
    <2>3. l \in Seq(Known) /\ InOrder(l)
      BY <1>7, <2>2
    <2>4. ComesFrom(list, l)
      <3> HIDE DEF l
      <3> QED
        BY <2>3, OwnFrom
    <2>5. Configure(o, list)
      BY <2>1
    <2> HIDE DEF list
    <2> QED
      BY <2>2, <2>4, <2>5, ConfigureKeeps
  <1>11. CASE Commit(o)
    BY <1>11, CommitKeeps
  <1>12. CASE CloseAndRemove(o)
    BY <1>12, CloseKeeps
  <1> QED
    BY <1>3, <1>4, <1>5, <1>6, <1>8, <1>9, <1>10, <1>11, <1>12

\* The steps of the checkpoint thread.
LEMMA CkKeeps ==
  ASSUME Inv, CkNext
  PROVE  Inv'
  <1>1. /\ QueueInv /\ RegistryInv /\ ConfigsInv /\ HandlesInv /\ ThreadInv /\ FileInv
        /\ OneInUse /\ GrownHeld /\ GrownComing
    BY DEF Inv, LogInv
  <1>2. Ck \in Object /\ ready \ {Ck} = ready
    BY <1>1, CheckpointAssumption DEF ConfigsInv
  <1>3. CASE CkOpen /\ got = Home
    <2>1. /\ consumer = "expired" /\ ck = "idle" /\ ck' = "exec"
          /\ GetPoolOfPath(Ck, Home) /\ NewPools
          /\ UNCHANGED <<queueVars, file, by, wal, missed, ready, dropped>>
      BY <1>3 DEF CkOpen
    <2>2. /\ RegistryInv' /\ ConfigsInv' /\ HandlesInv' /\ FileInv' /\ OneInUse' /\ GrownHeld'
          /\ (Untagged' <=> Untagged) /\ object'[Ck] # 0
      BY <1>2, <2>1, OpenKeeps
    <2>3. ThreadInv'
      BY <2>1, <2>2 DEF ThreadInv, queueVars
    <2>4. GrownComing'
      BY <1>1, <1>3, <2>1, <2>2 DEF GrownComing, IsQueued, queueVars
    <2> QED
      BY <1>1, <2>1, <2>2, <2>3, <2>4, QueueStays DEF Inv, LogInv
  <1>4. CASE CkOpen /\ got # Home
    <2>1. /\ consumer = "expired" /\ ck = "idle" /\ ck' = "done"
          /\ UNCHANGED <<queueVars, registryVars, configs, handle, file, by, wal, missed, ready, dropped>>
      BY <1>4 DEF CkOpen
    <2>2. ConfigsInv' /\ HandlesInv' /\ FileInv' /\ ThreadInv'
      BY <1>1, <2>1 DEF ConfigsInv, HandlesInv, FileInv, ThreadInv, registryVars, queueVars
    <2>3. OneInUse' /\ GrownHeld'
      BY <1>1, <2>1 DEF OneInUse, GrownHeld, Untagged, registryVars
    <2>4. GrownComing'
      BY <1>1, <1>4, <2>1 DEF GrownComing, Untagged, IsQueued, registryVars, queueVars
    <2> QED
      BY <1>1, <2>1, <2>2, <2>3, <2>4, RegistryStays, QueueStays DEF Inv, LogInv
  <1>5. CASE CkExec
    BY <1>5, CkExecKeeps
  <1>6. CASE CkRelease
    <2>1. /\ ck = "release" /\ ck' = "done" /\ Recycle(Ck) /\ Reclaim /\ ready' = ready \ {Ck}
          /\ UNCHANGED <<queueVars, configs, file, by, dropped>>
      BY <1>2, <1>6 DEF CkRelease
    <2>2. /\ RegistryInv' /\ ConfigsInv' /\ HandlesInv' /\ FileInv' /\ OneInUse' /\ GrownHeld'
          /\ Untagged' /\ wal' = "grown" /\ ~ missed' => Untagged /\ wal = "grown" /\ ~ missed
          /\ object'[Ck] = 0
      BY <1>2, <2>1, ReleaseKeeps
    <2>3. ThreadInv'
      BY <1>1, <2>1, <2>2 DEF ThreadInv, queueVars
    <2>4. GrownComing'
      BY <1>1, <2>1, <2>2 DEF GrownComing, IsQueued, queueVars
    <2> QED
      BY <1>1, <2>1, <2>2, <2>3, <2>4, QueueStays DEF Inv, LogInv
  <1>7. CASE CkDone
    <2>1. /\ ck = "done" /\ ck' = "idle" /\ Expired /\ UNCHANGED <<registryVars, dataVars>>
      BY <1>7 DEF CkDone
    <2>2. QueueInv' /\ \A q : IsQueued(q)' = IsQueued(q)
      <3>1. /\ UNCHANGED <<m_list, lag, pause, age>> /\ consumer' = "wait" /\ got' = NoKey
        BY <2>1 DEF Expired
      <3> QED
        BY <1>1, <3>1, ConsumerKeeps DEF QueueInv, QueueTypeOK, Consumer
    <2>3. ConfigsInv' /\ HandlesInv' /\ FileInv' /\ ThreadInv'
      BY <1>1, <2>1 DEF ConfigsInv, HandlesInv, FileInv, ThreadInv, registryVars, dataVars
    <2>4. OneInUse' /\ GrownHeld'
      BY <1>1, <2>1 DEF OneInUse, GrownHeld, Untagged, registryVars, dataVars
    <2>5. GrownComing'
      BY <1>1, <2>1, <2>2 DEF GrownComing, Untagged, registryVars, dataVars
    <2> QED
      BY <1>1, <2>1, <2>2, <2>3, <2>4, <2>5, RegistryStays DEF Inv, LogInv
  <1> QED
    BY <1>3, <1>4, <1>5, <1>6, <1>7 DEF CkNext

\* The steps of the queue, and other databases.
LEMMA OthersKeep ==
  ASSUME Inv, QueueNext \/ ElsewhereNext
  PROVE  Inv'
  <1>1. /\ QueueInv /\ RegistryInv /\ ConfigsInv /\ HandlesInv /\ ThreadInv /\ FileInv
        /\ OneInUse /\ GrownHeld /\ GrownComing
    BY DEF Inv, LogInv
  <1>2. UNCHANGED <<registryVars, dataVars, ck>>
    BY DEF QueueNext, ElsewhereNext, CommitElsewhere, Called
  <1>3. ConfigsInv' /\ HandlesInv' /\ FileInv'
    BY <1>1, <1>2 DEF ConfigsInv, HandlesInv, FileInv, registryVars, dataVars
  <1>4. OneInUse' /\ GrownHeld'
    BY <1>1, <1>2 DEF OneInUse, GrownHeld, Untagged, registryVars, dataVars
  <1>5. QueueInv' /\ ThreadInv' /\ GrownComing'
    <2>1. CASE QueueNext
      <3>1. /\ QueueInv'
            /\ \A q : IsQueued(q) => IsQueued(q)' \/ (consumer' = "expired" /\ got' = q)
            /\ consumer = "expired" =>
                   consumer' = "expired" /\ got' = got /\ \A q : IsQueued(q) => IsQueued(q)'
        BY <1>1, <2>1, QueueStep DEF QueueNext
      <3>2. ThreadInv'
        BY <1>1, <1>2, <3>1 DEF ThreadInv, registryVars
      <3>3. GrownComing'
        BY <1>1, <1>2, <3>1 DEF GrownComing, ThreadInv, Untagged, registryVars, dataVars
      <3> QED
        BY <3>1, <3>2, <3>3
    <2>2. CASE ElsewhereNext
      <3>1. PICK k \in Key : ReQueue(k)
        BY <2>2 DEF ElsewhereNext, CommitElsewhere
      <3>2. /\ QueueInv' /\ \A q : IsQueued(q) => IsQueued(q)'
            /\ got' = got /\ (consumer' = "expired") = (consumer = "expired")
        BY <1>1, <3>1, ReQueueKeeps
      <3>3. ThreadInv'
        BY <1>1, <1>2, <3>2 DEF ThreadInv, registryVars
      <3>4. GrownComing'
        BY <1>1, <1>2, <3>2 DEF GrownComing, Untagged, registryVars, dataVars
      <3> QED
        BY <3>2, <3>3, <3>4
    <2> QED
      BY <2>1, <2>2
  <1> QED
    BY <1>1, <1>2, <1>3, <1>4, <1>5, RegistryStays DEF Inv, LogInv

\* Every step keeps all of it.
LEMMA NextInv == Inv /\ [Next]_vars => Inv'
  <1> SUFFICES ASSUME Inv, [Next]_vars PROVE Inv'
    OBVIOUS
  <1>1. CASE AppNext
    BY <1>1, AppKeeps DEF AppNext
  <1>2. CASE CkNext
    BY <1>2, CkKeeps
  <1>3. CASE QueueNext \/ ElsewhereNext
    BY <1>3, OthersKeep
  <1>4. CASE UNCHANGED vars
    <2>1. UNCHANGED <<queueVars, registryVars, dataVars, ck>>
      BY <1>4 DEF vars
    <2>2. ConfigsInv' /\ HandlesInv' /\ FileInv' /\ ThreadInv'
      BY <2>1 DEF Inv, ConfigsInv, HandlesInv, FileInv, ThreadInv, registryVars, dataVars, queueVars
    <2>3. LogInv'
      BY <2>1 DEF Inv, LogInv, OneInUse, GrownHeld, GrownComing, Untagged, IsQueued, registryVars, dataVars, queueVars
    <2> QED
      BY <2>1, <2>2, <2>3, RegistryStays, QueueStays DEF Inv
  <1> QED
    BY <1>1, <1>2, <1>3, <1>4 DEF Next

\* So it holds throughout.
LEMMA InvAlways == Spec => []Inv
  BY InitInv, NextInv, PTL DEF Spec

\* The queue, the registry and the lists of configs are in order.
THEOREM CoherentAlways == Spec => []Coherent
  <1>1. ASSUME Inv PROVE Coherent
    <2>1. /\ QueueInv /\ RegistryInv /\ ConfigsInv /\ HandlesInv /\ ThreadInv /\ FileInv
      BY <1>1 DEF Inv
    <2>2. TypeOK
      BY <2>1 DEF TypeOK, QueueInv, RegistryInv, ConfigsInv, HandlesInv, ThreadInv, FileInv
    <2>3. ConfigsInOrder
      BY <2>1 DEF ConfigsInOrder, ConfigsInv, InOrder
    <2> QED
      BY <2>1, <2>2, <2>3, RegistryIsShared DEF Coherent, QueueInv
  <1> QED
    BY <1>1, InvAlways, PTL

\* A handle in use syncs fully if and only if its database was last told to.
THEOREM FullAsToldAlways == Spec => []FullAsTold
  <1>1. Inv => FullAsTold
    BY DEF Inv, HandlesInv, IsSetUp, Told, FullAsTold
  <1> QED
    BY <1>1, InvAlways, PTL

\* A log that has grown is on its way to the checkpoint thread.
THEOREM GrownIsQueuedAlways == Spec => []GrownIsQueued
  <1>1. ASSUME Inv PROVE GrownIsQueued
    BY <1>1 DEF Inv, LogInv, GrownComing, GrownIsQueued, Untagged
  <1> QED
    BY <1>1, InvAlways, PTL

\* A key is handed out only when nobody has queued it for the whole delay.
THEOREM DebouncedAlways == Spec => Debounced
  <1>1. ASSUME Inv, [Next]_vars
        PROVE  [got' # got /\ got' # NoKey => age[got'] > Delay]_queueVars
    <2> SUFFICES ASSUME got' # got, got' # NoKey PROVE age[got'] > Delay
      OBVIOUS
    <2>1. QueueInv
      BY <1>1 DEF Inv
    <2>2. CASE QueueNext
      BY <2>1, <2>2, QueueStep DEF QueueNext
    <2>3. ~ UNCHANGED queueVars
      BY DEF queueVars
    <2>4. CASE AppNext
      <3>1. PICK o \in App : Commit(o)
        BY <2>3, <2>4 DEF AppNext, Open, OpenByTag, Label, Release, SetCipher, SetSynchronousFull,
                         SetConfigOrdered, CloseAndRemove
      <3>2. ReQueue(Home) \/ StartThread \/ UNCHANGED queueVars
        BY <3>1 DEF Commit, Hook
      <3> QED
        BY <2>3, <3>2 DEF ReQueue, StartThread
    <2>5. CASE ElsewhereNext
      BY <2>5 DEF ElsewhereNext, CommitElsewhere, ReQueue
    <2>6. CASE CkNext
      BY <2>3, <2>6 DEF CkNext, CkOpen, CkExec, CkRelease, CkDone, Expired
    <2>7. CASE UNCHANGED vars
      BY <2>3, <2>7 DEF vars
    <2> QED
      BY <1>1, <2>2, <2>4, <2>5, <2>6, <2>7 DEF Next
  <1> QED
    BY <1>1, InvAlways, PTL DEF Spec, Debounced

\* An app that sets its key on every object can always write, but for the
\* two cases the property names.
THEOREM NotLockedOutAlways == Spec => NotLockedOut
  <1>1. ASSUME Inv, [Next]_vars
        PROVE  [refused' /\ ~ refused =>
                  "cipher" \in dropped \/ (file = "plain" /\ by = "checkpoint")]_vars
    <2> SUFFICES ASSUME refused', ~ refused
                 PROVE  "cipher" \in dropped \/ (file = "plain" /\ by = "checkpoint")
      OBVIOUS
    <2>1. CASE AppNext
      <3>1. PICK o \in App : Commit(o)
        BY <2>1 DEF AppNext, Open, OpenByTag, Label, Release, SetCipher, SetSynchronousFull,
                    SetConfigOrdered, CloseAndRemove, dataVars
      <3> QED
        BY <1>1, <3>1, CommitKeeps
    <2>2. CASE ElsewhereNext
      BY <2>2 DEF ElsewhereNext, CommitElsewhere, dataVars
    <2>3. CASE CkNext
      BY <2>3 DEF CkNext, CkOpen, CkExec, CkRelease, CkDone, dataVars
    <2>4. CASE QueueNext
      BY <2>4 DEF QueueNext, dataVars
    <2>5. CASE UNCHANGED vars
      BY <2>5 DEF vars, dataVars
    <2> QED
      BY <1>1, <2>1, <2>2, <2>3, <2>4, <2>5 DEF Next
  <1> QED
    BY <1>1, InvAlways, PTL DEF Spec, NotLockedOut

=============================================================================
