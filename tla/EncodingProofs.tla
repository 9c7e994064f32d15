--------------------------- MODULE EncodingProofs ---------------------------
(***************************************************************************)
(* What the app means and what SQLite gets: the cells of columns and the   *)
(* texts of expressions.                                                   *)
(*                                                                         *)
(* Cells, for all types, widths and samples: integers come back as C++     *)
(* casts them, other values as they were but where a double has no room or *)
(* nil has no cell, and a value finds its rows.                            *)
(*                                                                         *)
(* Expressions, of every size: SQLite reads from the text what was built   *)
(* if and only if none of the forms occurs in it that are not plain.       *)
(***************************************************************************)
EXTENDS Expr, Values, SequenceTheorems, WellFoundedInduction, TLAPS

-----------------------------------------------------------------------------
(* Numbers                                                                 *)

\* A set of numbers has a least one.
LEMMA LeastNumber ==
  ASSUME NEW T \in SUBSET Nat, T # {}
  PROVE  \E n \in T : \A m \in T : n =< m
  <1> DEFINE R == OpToRel(<, Nat)
  <1>1. IsWellFoundedOn(R, Nat)
    BY NatLessThanWellFounded
  <1>2. \A m, n \in Nat : m < n => <<m, n>> \in R
    BY DEF OpToRel
  <1> HIDE DEF R
  <1>3. PICK n \in T : \A m \in T : ~ (<<m, n>> \in R)
    BY <1>1, WFMin
  <1>4. \A m \in T : ~ (m < n)
    BY <1>2, <1>3
  <1>5. n \in Int /\ T \subseteq Int
    BY <1>3
  <1>6. \A m \in T : n =< m
    BY <1>4, <1>5
  <1> QED
    BY <1>3, <1>6

\* What holds of 0 and of every number after one that it holds of.
LEMMA UpTo ==
  ASSUME NEW N \in Nat, NEW S, 0 \in S, \A n \in 1..N : n - 1 \in S => n \in S
  PROVE  0..N \subseteq S
  <1> DEFINE T == {n \in 0..N : n \notin S}
  <1> SUFFICES ASSUME T # {} PROVE FALSE
    OBVIOUS
  <1>1. T \in SUBSET Nat
    OBVIOUS
  <1>2. PICK n \in T : \A m \in T : n =< m
    <2> HIDE DEF T
    <2> QED
      BY <1>1, LeastNumber
  <1>3. n \in 1..N /\ n - 1 \in 0..N /\ n - 1 \notin T
    BY <1>2
  <1> QED
    BY <1>2, <1>3

\* What holds of 0 and after every number that it holds of holds of all.
LEMMA NatUpTo ==
  ASSUME NEW S, 0 \in S, \A n \in Nat : n \in S => n + 1 \in S
  PROVE  Nat \subseteq S
  <1> SUFFICES ASSUME NEW N \in Nat PROVE N \in S
    OBVIOUS
  <1>1. \A n \in 1..N : n - 1 \in S => n \in S
    <2> SUFFICES ASSUME NEW n \in 1..N, n - 1 \in S PROVE n \in S
      OBVIOUS
    <2>1. n - 1 \in Nat /\ (n - 1) + 1 = n
      OBVIOUS
    <2>2. (n - 1) + 1 \in S
      BY <2>1
    <2> QED
      BY <2>1, <2>2
  <1>2. 0..N \subseteq S
    BY <1>1, UpTo
  <1> QED
    BY <1>2

-----------------------------------------------------------------------------
(* Cells: functions by recursion                                          *)

\* A function of the numbers can be defined by its first value and the step.
LEMMA NatRecursion ==
  ASSUME NEW D, NEW initial \in D, NEW step \in [D -> D]
  PROVE  \E f \in [Nat -> D] : f[0] = initial /\ \A n \in Nat : f[n + 1] = step[f[n]]
  <1> DEFINE IsUpTo(g, N) == /\ g \in [0..N -> D] /\ g[0] = initial
                             /\ \A n \in 0..N - 1 : g[n + 1] = step[g[n]]
             Reached == {N \in Nat : \E g : IsUpTo(g, N)}
  <1>1. 0 \in Reached
    <2> DEFINE g == [n \in 0..0 |-> initial]
    <2>1. IsUpTo(g, 0)
      OBVIOUS
    <2> HIDE DEF IsUpTo
    <2> QED
      BY <2>1
  <1>2. ASSUME NEW N \in Nat, N \in Reached PROVE N + 1 \in Reached
    <2>1. PICK g : IsUpTo(g, N)
      BY <1>2
    <2> DEFINE h == [n \in 0..N + 1 |-> IF n = N + 1 THEN step[g[N]] ELSE g[n]]
    <2>2. g[N] \in D /\ step[g[N]] \in D
      BY <2>1
    <2>3. \A n \in 0..N + 1 : n # N + 1 => n \in 0..N
      OBVIOUS
    <2>4. h \in [0..N + 1 -> D]
      BY <2>1, <2>2, <2>3
    <2>5. h[0] = initial
      BY <2>1
    <2>6. ASSUME NEW n \in 0..(N + 1) - 1 PROVE h[n + 1] = step[h[n]]
      <3>1. n \in 0..N + 1 /\ n + 1 \in 0..N + 1 /\ n # N + 1
        OBVIOUS
      <3>2. h[n] = g[n]
        BY <3>1
      <3>3. n # N => n \in 0..N - 1 /\ n + 1 # N + 1
        OBVIOUS
      <3> QED
        BY <2>1, <3>1, <3>2, <3>3
    <2>7. IsUpTo(h, N + 1)
      BY <2>4, <2>5, <2>6
    <2> HIDE DEF IsUpTo, h
    <2> QED
      BY <2>7
  <1>3. ASSUME NEW N \in Nat PROVE \E g : IsUpTo(g, N)
    <2> HIDE DEF IsUpTo
    <2>1. Nat \subseteq Reached
      <3> HIDE DEF Reached
      <3> QED
        BY <1>1, <1>2, NatUpTo
    <2> QED
      BY <2>1
  <1>4. ASSUME NEW N \in Nat, NEW g, IsUpTo(g, N), NEW M \in Nat, NEW h, IsUpTo(h, M), N =< M
        PROVE  \A n \in 0..N : g[n] = h[n]
    <2> DEFINE S == {n \in 0..N : g[n] = h[n]}
    <2>1. 0 \in S
      BY <1>4
    <2>2. ASSUME NEW n \in 1..N, n - 1 \in S PROVE n \in S
      <3>1. n - 1 \in 0..N - 1 /\ n - 1 \in 0..M - 1 /\ (n - 1) + 1 = n /\ n \in 0..N
        BY <1>4
      <3>2. g[(n - 1) + 1] = step[g[n - 1]] /\ h[(n - 1) + 1] = step[h[n - 1]]
        BY <1>4, <3>1
      <3> QED
        BY <2>2, <3>1, <3>2
    <2> HIDE DEF S
    <2>3. 0..N \subseteq S
      BY <2>1, <2>2, UpTo
    <2> QED
      BY <2>3 DEF S
  <1> DEFINE Up(N) == CHOOSE g : IsUpTo(g, N)
             f == [n \in Nat |-> Up(n)[n]]
  <1>5. ASSUME NEW N \in Nat PROVE IsUpTo(Up(N), N)
    <2> HIDE DEF IsUpTo
    <2> QED
      BY <1>3
  <1> HIDE DEF Up
  <1>6. f \in [Nat -> D]
    <2> SUFFICES ASSUME NEW n \in Nat PROVE Up(n)[n] \in D
      OBVIOUS
    <2> QED
      BY <1>5
  <1>7. f[0] = initial
    BY <1>5
  <1>8. ASSUME NEW n \in Nat PROVE f[n + 1] = step[f[n]]
    <2>1. n + 1 \in Nat /\ n =< n + 1 /\ n \in 0..n /\ n \in 0..(n + 1) - 1
      OBVIOUS
    <2>2. IsUpTo(Up(n), n) /\ IsUpTo(Up(n + 1), n + 1)
      BY <1>5, <2>1
    <2>3. Up(n)[n] = Up(n + 1)[n]
      <3> HIDE DEF IsUpTo
      <3> QED
        BY <1>4, <2>1, <2>2
    <2>4. Up(n + 1)[n + 1] = step[Up(n + 1)[n]]
      BY <2>1, <2>2
    <2> QED
      BY <2>1, <2>3, <2>4
  <1> HIDE DEF f
  <1> QED
    BY <1>6, <1>7, <1>8

-----------------------------------------------------------------------------
(* Powers of two                                                           *)

LEMMA Powers ==
  /\ TwoTo \in [Nat -> Nat]
  /\ TwoTo[0] = 1
  /\ \A k \in Nat : TwoTo[k + 1] = 2 * TwoTo[k]
  <1> DEFINE G(f) == [k \in Nat |-> IF k = 0 THEN 1 ELSE 2 * f[k - 1]]
             step == [n \in Nat |-> 2 * n]
  <1>1. step \in [Nat -> Nat]
    OBVIOUS
  <1>2. PICK f \in [Nat -> Nat] : f[0] = 1 /\ \A n \in Nat : f[n + 1] = step[f[n]]
    <2> DEFINE one == 1
               S == Nat
    <2>1. one \in S /\ step \in [S -> S]
      BY <1>1
    <2> HIDE DEF step, one, S
    <2>2. \E f \in [Nat -> S] : f[0] = one /\ \A n \in Nat : f[n + 1] = step[f[n]]
      BY <2>1, NatRecursion
    <2> QED
      BY <2>2 DEF one, S
  <1>3. f = G(f)
    <2>1. \A k \in Nat : f[k] = IF k = 0 THEN 1 ELSE 2 * f[k - 1]
      <3> SUFFICES ASSUME NEW k \in Nat, k # 0 PROVE f[k] = 2 * f[k - 1]
        BY <1>2
      <3>1. k - 1 \in Nat /\ (k - 1) + 1 = k
        OBVIOUS
      <3>2. f[(k - 1) + 1] = step[f[k - 1]] /\ f[k - 1] \in Nat
        BY <1>2, <3>1
      <3> QED
        BY <3>1, <3>2
    <2>2. f = [k \in Nat |-> f[k]]
      OBVIOUS
    <2> QED
      BY <2>1, <2>2
  <1>4. TwoTo = CHOOSE g : g = G(g)
    BY DEF TwoTo
  <1> HIDE DEF G
  <1>5. TwoTo = G(TwoTo)
    BY <1>3, <1>4
  <1>6. \A k \in Nat : TwoTo[k] = IF k = 0 THEN 1 ELSE 2 * TwoTo[k - 1]
    BY <1>5 DEF G
  <1>7. \A k \in Nat : TwoTo[k + 1] = 2 * TwoTo[k]
    <2> SUFFICES ASSUME NEW k \in Nat PROVE TwoTo[k + 1] = 2 * TwoTo[k]
      OBVIOUS
    <2>1. k + 1 \in Nat /\ k + 1 # 0 /\ (k + 1) - 1 = k
      OBVIOUS
    <2> QED
      BY <1>6, <2>1
  <1>8. TwoTo[0] = 1
    BY <1>6
  <1>9. \A k \in Nat : TwoTo[k] \in Nat
    <2> DEFINE S == {k \in Nat : TwoTo[k] \in Nat}
    <2>1. 0 \in S /\ \A k \in Nat : k \in S => k + 1 \in S
      BY <1>7, <1>8
    <2> HIDE DEF S
    <2>2. Nat \subseteq S
      BY <2>1, NatUpTo
    <2> QED
      BY <2>2 DEF S
  <1>10. TwoTo = [k \in Nat |-> TwoTo[k]]
    BY <1>5 DEF G
  <1> QED
    BY <1>7, <1>8, <1>9, <1>10

\* A power is a multiple of every smaller one.
LEMMA PowersDivide ==
  ASSUME NEW j \in Nat, NEW d \in Nat
  PROVE  TwoTo[j + d] = TwoTo[j] * TwoTo[d] /\ TwoTo[d] > 0
  <1> DEFINE S == {n \in Nat : TwoTo[j + n] = TwoTo[j] * TwoTo[n] /\ TwoTo[n] > 0}
  <1>1. 0 \in S
    BY Powers
  <1>2. ASSUME NEW n \in Nat, n \in S PROVE n + 1 \in S
    <2>1. j + n \in Nat /\ (j + n) + 1 = j + (n + 1)
      OBVIOUS
    <2>2. TwoTo[(j + n) + 1] = 2 * TwoTo[j + n] /\ TwoTo[n + 1] = 2 * TwoTo[n]
      BY <2>1, Powers
    <2>3. TwoTo[j] \in Nat /\ TwoTo[n] \in Nat
      BY Powers
    <2> QED
      BY <1>2, <2>1, <2>2, <2>3
  <1> HIDE DEF S
  <1>3. Nat \subseteq S
    BY <1>1, <1>2, NatUpTo
  <1> QED
    BY <1>3 DEF S

LEMMA PowersGrow ==
  ASSUME NEW j \in Nat, NEW k \in Nat, j =< k
  PROVE  /\ TwoTo[j] \in Nat /\ TwoTo[j] > 0 /\ TwoTo[j] =< TwoTo[k]
         /\ \E c \in Nat \ {0} : TwoTo[k] = TwoTo[j] * c
         /\ j < k => 2 * TwoTo[j] =< TwoTo[k]
  <1>1. ASSUME NEW n \in Nat, n =< k
        PROVE TwoTo[n] \in Nat /\ TwoTo[k] = TwoTo[n] * TwoTo[k - n] /\ TwoTo[k - n] \in Nat \ {0}
    <2> DEFINE d == k - n
    <2>1. d \in Nat /\ n + d = k
      BY <1>1
    <2> HIDE DEF d
    <2>2. TwoTo[n + d] = TwoTo[n] * TwoTo[d] /\ TwoTo[d] > 0
      BY <1>1, <2>1, PowersDivide
    <2>3. TwoTo[d] \in Nat /\ TwoTo[n] \in Nat
      BY <1>1, <2>1, Powers
    <2>4. TwoTo[n] \in Nat /\ TwoTo[k] = TwoTo[n] * TwoTo[d] /\ TwoTo[d] \in Nat \ {0}
      BY <2>1, <2>2, <2>3
    <2> QED
      BY <2>4 DEF d
  <1>2. TwoTo[j] > 0
    BY PowersDivide
  <1>3. ASSUME NEW n \in Nat, n =< k PROVE TwoTo[n] =< TwoTo[k]
    <2>1. \A a \in Nat, c \in Nat \ {0} : a =< a * c
      OBVIOUS
    <2> QED
      BY <1>1, <1>3, <2>1
  <1>4. j < k => 2 * TwoTo[j] =< TwoTo[k]
    <2> SUFFICES ASSUME j < k PROVE 2 * TwoTo[j] =< TwoTo[k]
      OBVIOUS
    <2>1. j + 1 \in Nat /\ j + 1 =< k
      OBVIOUS
    <2> QED
      BY <1>3, <2>1, Powers
  <1> QED
    BY <1>1, <1>2, <1>3, <1>4

-----------------------------------------------------------------------------
(* Integers of a width                                                     *)

LEMMA DivMod ==
  ASSUME NEW a \in Int, NEW b \in Int, b > 0
  PROVE  a \div b \in Int /\ a % b \in 0..b - 1 /\ a = b * (a \div b) + (a % b)
  OBVIOUS

LEMMA DivModUnique ==
  ASSUME NEW a \in Int, NEW b \in Int, b > 0, NEW q \in Int, NEW r \in 0..b - 1, a = b * q + r
  PROVE  a \div b = q /\ a % b = r
  <1> DEFINE d == q - (a \div b)
  <1>1. a = b * (a \div b) + (a % b) /\ a % b \in 0..b - 1 /\ a \div b \in Int
    BY DivMod
  <1>2. d \in Int /\ b * d = (a % b) - r
    BY <1>1
  <1>3. b * d < b /\ b * d > -b
    BY <1>1, <1>2
  <1>4. d = 0
    <2> HIDE DEF d
    <2> QED
      BY <1>2, <1>3
  <1> QED
    BY <1>1, <1>2, <1>4

\* They have the same low bits.
Congruent(x, y, bits) == \E c \in Int : x = y + TwoTo[bits] * c

LEMMA CongruentFacts ==
  ASSUME NEW x \in Int, NEW y \in Int, NEW bits \in Nat, Congruent(x, y, bits)
  PROVE  /\ Congruent(y, x, bits)
         /\ \A fewer \in 0..bits : Congruent(x, y, fewer)
         /\ (x - y) % TwoTo[bits] = 0
  <1>1. PICK c \in Int : x = y + TwoTo[bits] * c
    BY DEF Congruent
  <1>2. TwoTo[bits] \in Nat /\ TwoTo[bits] > 0
    BY PowersGrow
  <1>3. Congruent(y, x, bits)
    <2>1. -c \in Int /\ y = x + TwoTo[bits] * (-c)
      BY <1>1, <1>2
    <2> QED
      BY <2>1 DEF Congruent
  <1>4. ASSUME NEW fewer \in 0..bits PROVE Congruent(x, y, fewer)
    <2>1. fewer \in Nat /\ fewer =< bits
      OBVIOUS
    <2>2. PICK d \in Nat \ {0} : TwoTo[bits] = TwoTo[fewer] * d
      BY <2>1, PowersGrow
    <2>3. TwoTo[fewer] \in Nat
      BY <2>1, PowersGrow
    <2>4. d * c \in Int /\ x = y + TwoTo[fewer] * (d * c)
      BY <1>1, <2>2, <2>3
    <2> QED
      BY <2>4 DEF Congruent
  <1>5. (x - y) % TwoTo[bits] = 0
    <2> DEFINE d == x - y
               b == TwoTo[bits]
    <2>1. d \in Int /\ b \in Int /\ b > 0 /\ 0 \in 0..b - 1 /\ d = b * c + 0
      BY <1>1, <1>2
    <2> HIDE DEF d, b
    <2>2. d % b = 0
      BY <2>1, DivModUnique
    <2> QED
      BY <2>2 DEF d, b
  <1> QED
    BY <1>3, <1>4, <1>5

LEMMA CongruentAll ==
  ASSUME NEW x \in Int, NEW y \in Int, NEW z \in Int, NEW bits \in Nat,
         Congruent(x, y, bits), Congruent(y, z, bits)
  PROVE  Congruent(x, z, bits)
  <1>1. PICK c \in Int : x = y + TwoTo[bits] * c
    BY DEF Congruent
  <1>2. PICK d \in Int : y = z + TwoTo[bits] * d
    BY DEF Congruent
  <1>3. TwoTo[bits] \in Nat
    BY PowersGrow
  <1>4. c + d \in Int /\ x = z + TwoTo[bits] * (c + d)
    BY <1>1, <1>2, <1>3
  <1> QED
    BY <1>4 DEF Congruent

\* The numbers of an integer type.
Least(bits, signed) == IF signed THEN -TwoTo[bits - 1] ELSE 0

Fits(n, bits, signed) == Least(bits, signed) =< n /\ n < Least(bits, signed) + TwoTo[bits]

LEMMA HalfPower ==
  ASSUME NEW bits \in Nat \ {0}
  PROVE  /\ TwoTo[bits] \in Nat /\ TwoTo[bits - 1] \in Nat
         /\ TwoTo[bits] = 2 * TwoTo[bits - 1] /\ TwoTo[bits - 1] > 0
  <1> DEFINE k == bits - 1
  <1>1. k \in Nat /\ k + 1 = bits /\ k =< k
    OBVIOUS
  <1> HIDE DEF k
  <1>2. TwoTo[k] \in Nat /\ TwoTo[k] > 0 /\ TwoTo[k + 1] = 2 * TwoTo[k]
    <2>1. TwoTo[k] \in Nat /\ TwoTo[k] > 0
      BY <1>1, PowersGrow
    <2>2. TwoTo[k + 1] = 2 * TwoTo[k]
      BY <1>1, Powers
    <2> QED
      BY <2>1, <2>2
  <1>3. TwoTo[k + 1] \in Nat
    BY <1>2
  <1> QED
    BY <1>1, <1>2, <1>3 DEF k

\* Two numbers that fit and have the same low bits are the same.
LEMMA FitsOnce ==
  ASSUME NEW x \in Int, NEW y \in Int, NEW bits \in Nat \ {0}, NEW signed \in BOOLEAN,
         Fits(x, bits, signed), Fits(y, bits, signed), Congruent(x, y, bits)
  PROVE  x = y
  <1> DEFINE b == TwoTo[bits]
  <1>1. PICK c \in Int : x = y + b * c
    BY DEF Congruent
  <1>2. b \in Int /\ b > 0 /\ Least(bits, signed) \in Int
    BY HalfPower DEF Least
  <1> HIDE DEF b
  <1>3. b * c < b /\ b * c > -b
    BY <1>1, <1>2 DEF Fits, b
  <1>4. c = 0
    BY <1>2, <1>3
  <1> QED
    BY <1>1, <1>2, <1>4

\* A cast keeps the low bits, and what fits.
LEMMA CastFacts ==
  ASSUME NEW n \in Int, NEW bits \in Nat \ {0}, NEW signed \in BOOLEAN
  PROVE  /\ Cast(n, bits, signed) \in Int
         /\ Fits(Cast(n, bits, signed), bits, signed)
         /\ Congruent(Cast(n, bits, signed), n, bits)
         /\ InRange(n, bits, signed) <=> Fits(n, bits, signed)
  <1> DEFINE b == TwoTo[bits]
             m == n - Least(bits, signed)
             cast == Cast(n, bits, signed)
  <1>1. b \in Int /\ b > 0 /\ Least(bits, signed) \in Int /\ m \in Int
    BY HalfPower DEF Least
  <1>2. cast = (m % b) + Least(bits, signed)
    <2>1. CASE signed
      <3>1. m = n + TwoTo[bits - 1]
        BY <2>1, HalfPower DEF Least
      <3>2. m % b \in Int
        BY <1>1, DivMod
      <3> QED
        BY <2>1, <3>1, <3>2, HalfPower DEF Cast, AsSigned, Least
    <2>2. CASE ~ signed
      <3>1. m = n
        BY <2>2 DEF Least
      <3>2. m % b \in Int
        BY <1>1, DivMod
      <3> QED
        BY <2>2, <3>1, <3>2 DEF Cast, Least
    <2> QED
      BY <2>1, <2>2
  <1>3. m = b * (m \div b) + (m % b) /\ m % b \in 0..b - 1 /\ m \div b \in Int
    <2> HIDE DEF m, b
    <2> QED
      BY <1>1, DivMod
  <1>4. cast \in Int /\ Fits(cast, bits, signed)
    <2> HIDE DEF m, b, cast
    <2> QED
      BY <1>1, <1>2, <1>3, SMTT(20) DEF Fits, b
  <1>5. Congruent(cast, n, bits)
    <2> DEFINE c == -(m \div b)
    <2>1. c \in Int /\ cast = n + b * c
      <3> HIDE DEF b, cast
      <3>1. b * c = (m % b) - m
        <4> HIDE DEF m
        <4> QED
          BY <1>1, <1>3
      <3>2. cast = n + ((m % b) - m)
        <4>1. n = m + Least(bits, signed)
          BY <1>1
        <4> HIDE DEF m
        <4> QED
          BY <1>1, <1>2, <1>3, <4>1
      <3> HIDE DEF m
      <3> QED
        BY <1>3, <3>1, <3>2
    <2> HIDE DEF c, m, cast
    <2> QED
      BY <2>1 DEF Congruent
  <1>6. Fits(n, bits, signed) => cast = n
    BY <1>4, <1>5, FitsOnce
  <1> QED
    BY <1>4, <1>5, <1>6 DEF InRange

\* What fits a type fits every longer one that has a sign, and those as long
\* or longer with the same.
LEMMA FitsLonger ==
  ASSUME NEW n \in Int, NEW few \in Nat \ {0}, NEW more \in Nat \ {0}, few =< more,
         NEW signed \in BOOLEAN, Fits(n, few, signed), signed \/ few < more
  PROVE  Fits(n, more, TRUE)
  <1>1. TwoTo[few] = 2 * TwoTo[few - 1] /\ TwoTo[more] = 2 * TwoTo[more - 1]
    BY HalfPower
  <1>2. TwoTo[few] \in Nat /\ TwoTo[few - 1] \in Nat /\ TwoTo[more] \in Nat /\ TwoTo[more - 1] \in Nat
    BY HalfPower
  <1>3. TwoTo[few - 1] =< TwoTo[more - 1]
    <2>1. few - 1 \in Nat /\ more - 1 \in Nat /\ few - 1 =< more - 1
      OBVIOUS
    <2> QED
      BY <2>1, PowersGrow
  <1>4. few < more => TwoTo[few] =< TwoTo[more - 1]
    <2>1. few < more => few \in Nat /\ more - 1 \in Nat /\ few =< more - 1
      OBVIOUS
    <2> QED
      BY <2>1, PowersGrow
  <1>5. CASE signed
    BY <1>1, <1>2, <1>3, <1>5 DEF Fits, Least
  <1>6. CASE ~ signed
    BY <1>1, <1>2, <1>4, <1>6 DEF Fits, Least
  <1> QED
    BY <1>5, <1>6

-----------------------------------------------------------------------------
(* Rounding                                                                *)

LEMMA BitsAre ==
  /\ IntBits \in Nat \ {0} /\ LongBits \in Nat \ {0} /\ DoubleBits \in Nat \ {0} /\ IntBits < LongBits
  /\ FractionBits \in Nat /\ NumberBits \in Nat \ {0} /\ NumberBits = LongBits + FractionBits
  BY BitsAssumption DEF NumberBits

\* What the bits of a number may stand for, and the numbers without a sign.
Units == {TwoTo[k] : k \in 0..NumberBits}
Sizes == 0..TwoTo[NumberBits]

LEMMA UnitsAre ==
  /\ NumberBits \in Nat /\ TwoTo[NumberBits] \in Units
  /\ \A u \in Units : u \in Nat /\ u > 0
  /\ \A u, w \in Units : u =< w => \E c \in Nat \ {0} : w = u * c
  /\ \A u, w \in Units : u < w => 2 * u =< w
  /\ \A u \in Units : u =< TwoTo[NumberBits]
  <1>1. NumberBits \in Nat
    BY BitsAre
  <1>2. TwoTo[NumberBits] \in Units
    BY <1>1 DEF Units
  <1>3. ASSUME NEW u \in Units PROVE u \in Nat /\ u > 0 /\ u =< TwoTo[NumberBits]
    <2>1. PICK k \in 0..NumberBits : u = TwoTo[k]
      BY DEF Units
    <2>2. k \in Nat /\ k =< NumberBits
      BY <1>1
    <2> QED
      BY <1>1, <2>1, <2>2, PowersGrow
  <1>4. ASSUME NEW u \in Units, NEW w \in Units
        PROVE  (u =< w => \E c \in Nat \ {0} : w = u * c) /\ (u < w => 2 * u =< w)
    <2>1. PICK j \in 0..NumberBits : u = TwoTo[j]
      BY DEF Units
    <2>2. PICK k \in 0..NumberBits : w = TwoTo[k]
      BY DEF Units
    <2>3. j \in Nat /\ k \in Nat
      BY <1>1
    <2>4. CASE j =< k
      <3>1. /\ \E c \in Nat \ {0} : TwoTo[k] = TwoTo[j] * c
            /\ j < k => 2 * TwoTo[j] =< TwoTo[k]
        BY <2>3, <2>4, PowersGrow
      <3>2. u < w => j # k
        BY <1>3, <2>1, <2>2
      <3> QED
        BY <2>1, <2>2, <2>3, <2>4, <3>1, <3>2
    <2>5. CASE k < j
      <3>1. TwoTo[k] > 0 /\ 2 * TwoTo[k] =< TwoTo[j] /\ TwoTo[k] \in Nat
        BY <2>3, <2>5, PowersGrow
      <3>2. ~ (u =< w)
        BY <1>3, <2>1, <2>2, <3>1
      <3> QED
        BY <1>3, <3>2
    <2> QED
      BY <2>3, <2>4, <2>5
  <1> QED
    BY <1>1, <1>2, <1>3, <1>4

LEMMA UnitFacts ==
  ASSUME NEW abs \in Sizes, NEW bits \in Nat
  PROVE  Unit(abs, bits) \in Units /\ IsUnit(Unit(abs, bits), abs, bits)
  <1> DEFINE Enough == {k \in 0..NumberBits : abs =< TwoTo[bits] * TwoTo[k]}
  <1>1. abs \in Nat /\ abs =< TwoTo[NumberBits] /\ NumberBits \in Nat /\ TwoTo[NumberBits] \in Nat
    BY UnitsAre DEF Sizes
  <1>2. TwoTo[bits] \in Nat /\ TwoTo[bits] > 0
    <2>1. bits =< bits
      OBVIOUS
    <2> QED
      BY <2>1, PowersGrow
  <1>3. NumberBits \in Enough
    <2>1. \A a, b, c \in Nat : a =< c /\ b > 0 => a =< b * c
      OBVIOUS
    <2>2. abs =< TwoTo[bits] * TwoTo[NumberBits]
      BY <1>1, <1>2, <2>1
    <2> QED
      BY <1>1, <2>2
  <1>4. Enough \in SUBSET Nat /\ Enough # {}
    BY <1>1, <1>3
  <1>5. PICK k \in Enough : \A m \in Enough : k =< m
    <2> HIDE DEF Enough
    <2> QED
      BY <1>4, LeastNumber
  <1>6. k \in Nat /\ k =< NumberBits /\ abs =< TwoTo[bits] * TwoTo[k]
    BY <1>1, <1>5
  <1>7. TwoTo[k] > 1 => abs > TwoTo[bits] * (TwoTo[k] \div 2)
    <2> SUFFICES ASSUME TwoTo[k] > 1 PROVE abs > TwoTo[bits] * (TwoTo[k] \div 2)
      OBVIOUS
    <2>1. k # 0
      BY Powers
    <2> DEFINE j == k - 1
    <2>2. j \in Nat /\ k = j + 1 /\ j \in 0..NumberBits /\ ~ (k =< j)
      BY <1>1, <1>6, <2>1
    <2>3. j \notin Enough
      BY <1>5, <2>2
    <2> HIDE DEF j
    <2>4. TwoTo[k] = 2 * TwoTo[j] /\ TwoTo[j] \in Nat
      BY <2>2, Powers
    <2>5. TwoTo[k] \div 2 = TwoTo[j]
      BY <2>4
    <2>6. ~ (abs =< TwoTo[bits] * TwoTo[j])
      BY <2>2, <2>3
    <2> QED
      BY <1>1, <1>2, <2>4, <2>5, <2>6
  <1>8. TwoTo[k] \in Units /\ IsUnit(TwoTo[k], abs, bits)
    BY <1>1, <1>6, <1>7 DEF Units, IsUnit
  <1>9. Unit(abs, bits) = CHOOSE unit \in Units : IsUnit(unit, abs, bits)
    BY DEF Unit, Units
  <1> QED
    BY <1>8, <1>9

\* It is the smallest one, which divides every other.
LEMMA UnitIsLeast ==
  ASSUME NEW abs \in Sizes, NEW bits \in Nat, NEW w \in Units, abs =< TwoTo[bits] * w
  PROVE  Unit(abs, bits) =< w /\ \E c \in Nat \ {0} : w = Unit(abs, bits) * c
  <1> DEFINE u == Unit(abs, bits)
  <1>1. u \in Units /\ IsUnit(u, abs, bits)
    BY UnitFacts
  <1> HIDE DEF u
  <1>2. u \in Nat /\ u > 0 /\ w \in Nat /\ w > 0 /\ TwoTo[bits] \in Nat /\ abs \in Int
    BY <1>1, UnitsAre, Powers DEF Sizes
  <1>3. u =< w
    <2> SUFFICES ASSUME w < u PROVE FALSE
      BY <1>2
    <2>1. 2 * w =< u
      BY <1>1, UnitsAre
    <2>2. w =< u \div 2 /\ u \div 2 \in Nat /\ u > 1
      BY <1>2, <2>1
    <2>3. \A a, b, c \in Nat : b =< c => a * b =< a * c
      OBVIOUS
    <2>4. TwoTo[bits] * w =< TwoTo[bits] * (u \div 2)
      BY <1>2, <2>2, <2>3
    <2>5. abs > TwoTo[bits] * (u \div 2)
      BY <1>1, <2>2 DEF IsUnit
    <2> DEFINE p == TwoTo[bits] * w
               q == TwoTo[bits] * (u \div 2)
    <2>6. p \in Int /\ q \in Int
      BY <1>2, <2>2
    <2>7. abs =< p /\ p =< q /\ abs > q
      BY <2>4, <2>5
    <2> HIDE DEF p, q
    <2> QED
      BY <1>2, <2>6, <2>7
  <1>4. \E c \in Nat \ {0} : w = u * c
    BY <1>1, <1>3, UnitsAre
  <1> QED
    BY <1>3, <1>4 DEF u

LEMMA Multiply ==
  ASSUME NEW u \in Nat, u > 0, NEW x \in Nat, NEW y \in Nat
  PROVE  /\ x =< y => u * x =< u * y
         /\ u * x < u * y => x < y
         /\ u * (x + 1) = u * x + u
         /\ u * x \in Nat
  OBVIOUS

\* The nearest multiple keeps what is a multiple, and passes none.
LEMMA NearestFacts ==
  ASSUME NEW abs \in Nat, NEW unit \in Nat, unit > 0
  PROVE  /\ \E m \in Nat : NearestMultiple(abs, unit) = unit * m
         /\ \A c \in Nat : abs = unit * c => NearestMultiple(abs, unit) = abs
         /\ \A c \in Nat : abs =< unit * c => NearestMultiple(abs, unit) =< unit * c
         /\ \A c \in Nat : unit * c =< abs => unit * c =< NearestMultiple(abs, unit)
  <1> DEFINE q == abs \div unit
             r == abs % unit
             n == NearestMultiple(abs, unit)
  <1>1. q \in Int /\ r \in 0..unit - 1 /\ abs = unit * q + r
    BY DivMod
  <1>2. q \in Nat
    <2> HIDE DEF q, r
    <2>1. \A x \in Int, y \in Nat : \A z \in 0..y - 1 : y > 0 /\ x < 0 => y * x + z < 0
      OBVIOUS
    <2> QED
      BY <1>1, <2>1
  <1>3. n = unit * q \/ n = unit * (q + 1)
    BY DEF NearestMultiple
  <1>4. r = 0 => n = unit * q
    BY <1>1 DEF NearestMultiple
  <1> HIDE DEF q, r, n
  <1>5. unit * (q + 1) = unit * q + unit /\ unit * q \in Nat /\ q + 1 \in Nat
    BY <1>2, Multiply
  <1>6. \E m \in Nat : n = unit * m
    BY <1>2, <1>3, <1>5
  <1>7. ASSUME NEW c \in Nat, abs = unit * c PROVE n = abs
    <2>1. 0 \in 0..unit - 1 /\ abs = unit * c + 0
      BY <1>7, Multiply
    <2>2. r = 0
      BY <2>1, DivModUnique DEF r
    <2> QED
      BY <1>1, <1>4, <1>5, <2>2
  <1>8. ASSUME NEW c \in Nat, abs =< unit * c PROVE n =< unit * c
    <2>1. unit * c \in Nat
      BY Multiply
    <2>2. CASE r = 0
      BY <1>1, <1>4, <1>5, <1>8, <2>1, <2>2
    <2>3. CASE r # 0
      <3>1. unit * q < unit * c
        BY <1>1, <1>5, <1>8, <2>1, <2>3
      <3>2. q < c
        BY <1>2, <3>1, Multiply
      <3>3. q =< c /\ q + 1 =< c
        BY <1>2, <3>2
      <3>4. unit * q =< unit * c /\ unit * (q + 1) =< unit * c
        BY <1>2, <1>5, <3>3, Multiply
      <3> QED
        BY <1>3, <3>4
    <2> QED
      BY <2>2, <2>3
  <1>9. ASSUME NEW c \in Nat, unit * c =< abs PROVE unit * c =< n
    <2>1. unit * c \in Nat
      BY Multiply
    <2>2. unit * c < unit * (q + 1)
      BY <1>1, <1>5, <1>9, <2>1
    <2>3. c < q + 1
      BY <1>5, <2>2, Multiply
    <2>4. c =< q /\ c =< q + 1
      BY <1>2, <2>3
    <2>5. unit * c =< unit * q /\ unit * c =< unit * (q + 1)
      BY <1>2, <1>5, <2>4, Multiply
    <2> QED
      BY <1>3, <2>5
  <1> QED
    BY <1>6, <1>7, <1>8, <1>9 DEF n

\* It keeps the order.
LEMMA NearestGrows ==
  ASSUME NEW a \in Nat, NEW b \in Nat, a =< b, NEW unit \in Nat, unit > 0
  PROVE  NearestMultiple(a, unit) =< NearestMultiple(b, unit)
  <1> DEFINE p == a \div unit
             q == b \div unit
             r == a % unit
             s == b % unit
             m == IF 2 * r > unit \/ (2 * r = unit /\ p % 2 = 1) THEN p + 1 ELSE p
             n == IF 2 * s > unit \/ (2 * s = unit /\ q % 2 = 1) THEN q + 1 ELSE q
  <1>1. NearestMultiple(a, unit) = unit * m /\ NearestMultiple(b, unit) = unit * n
    BY DEF NearestMultiple
  <1>2. p \in Int /\ r \in 0..unit - 1 /\ a = unit * p + r
    BY DivMod
  <1>3. q \in Int /\ s \in 0..unit - 1 /\ b = unit * q + s
    BY DivMod
  <1>4. p \in Nat /\ q \in Nat
    <2> HIDE DEF p, q, r, s
    <2>1. \A x \in Int, y \in Nat : \A z \in 0..y - 1 : y > 0 /\ x < 0 => y * x + z < 0
      OBVIOUS
    <2> QED
      BY <1>2, <1>3, <2>1
  <1>5. m \in Nat /\ n \in Nat /\ m =< p + 1 /\ q =< n
    <2> HIDE DEF p, q, r, s
    <2> QED
      BY <1>4
  <1>6. p =< q
    <2> HIDE DEF p, q, r, s
    <2>1. unit * (q + 1) = unit * q + unit /\ unit * q \in Nat /\ unit * p \in Nat
      BY <1>4, Multiply
    <2>2. unit * p < unit * (q + 1)
      BY <1>2, <1>3, <2>1
    <2>3. q + 1 \in Nat /\ p < q + 1
      BY <1>4, <2>2, Multiply
    <2> QED
      BY <1>4, <2>3
  <1>7. m =< n
    <2>1. CASE p < q
      <3> HIDE DEF p, q, m, n
      <3> QED
        BY <1>4, <1>5, <2>1
    <2>2. CASE p = q
      <3>1. r =< s
        <4> HIDE DEF p, q, r, s
        <4>1. unit * q \in Nat
          BY <1>4, Multiply
        <4> QED
          BY <1>2, <1>3, <2>2, <4>1
      <3> HIDE DEF p, q, r, s
      <3> QED
        BY <1>2, <1>3, <1>4, <2>2, <3>1
    <2> HIDE DEF p, q, m, n
    <2> QED
      BY <1>4, <1>6, <2>1, <2>2
  <1> HIDE DEF m, n
  <1> QED
    BY <1>1, <1>5, <1>7, Multiply

\* A size that so many bits can write is not rounded.
LEMMA RoundedAbsKeeps ==
  ASSUME NEW abs \in Sizes, NEW bits \in Nat, NEW w \in Units, NEW c \in Nat,
         abs = w * c, abs =< TwoTo[bits] * w
  PROVE  RoundedAbs(abs, bits) = abs
  <1> DEFINE u == Unit(abs, bits)
  <1>1. u \in Units
    BY UnitFacts
  <1>2. PICK d \in Nat \ {0} : w = u * d
    BY UnitIsLeast
  <1> HIDE DEF u
  <1>3. u \in Nat /\ u > 0
    BY <1>1, UnitsAre
  <1>4. d * c \in Nat /\ abs = u * (d * c)
    BY <1>2, <1>3
  <1>5. abs \in Nat
    BY UnitsAre DEF Sizes
  <1>6. NearestMultiple(abs, u) = abs
    BY <1>3, <1>4, <1>5, NearestFacts
  <1> QED
    BY <1>6 DEF RoundedAbs, u

\* What it is rounded to can be written so.
LEMMA RoundedAbsFacts ==
  ASSUME NEW abs \in Sizes, NEW bits \in Nat
  PROVE  /\ RoundedAbs(abs, bits) \in Sizes
         /\ RoundedAbs(abs, bits) =< TwoTo[bits] * Unit(abs, bits)
         /\ \E c \in Nat : RoundedAbs(abs, bits) = Unit(abs, bits) * c
  <1> DEFINE u == Unit(abs, bits)
             n == NearestMultiple(abs, u)
  <1>1. u \in Units /\ IsUnit(u, abs, bits)
    BY UnitFacts
  <1> HIDE DEF u
  <1>2. u \in Nat /\ u > 0 /\ u =< TwoTo[NumberBits] /\ TwoTo[NumberBits] \in Units
    BY <1>1, UnitsAre
  <1>3. PICK d \in Nat \ {0} : TwoTo[NumberBits] = u * d
    BY <1>1, <1>2, UnitsAre
  <1>4. abs \in Nat /\ abs =< u * d
    BY <1>3, UnitsAre DEF Sizes
  <1>5. TwoTo[bits] \in Nat /\ abs =< u * TwoTo[bits]
    <2>1. TwoTo[bits] \in Nat
      BY Powers
    <2>2. abs =< TwoTo[bits] * u
      BY <1>1 DEF IsUnit
    <2>3. TwoTo[bits] * u = u * TwoTo[bits]
      BY <1>2, <2>1
    <2> QED
      BY <2>1, <2>2, <2>3
  <1>6. n =< u * d /\ n =< u * TwoTo[bits]
    BY <1>2, <1>4, <1>5, NearestFacts
  <1>7. PICK m \in Nat : n = u * m
    BY <1>2, <1>4, NearestFacts
  <1>8. n \in Nat
    BY <1>2, <1>7, Multiply
  <1>9. u * TwoTo[bits] = TwoTo[bits] * u
    BY <1>2, <1>5
  <1>10. RoundedAbs(abs, bits) = n
    BY DEF RoundedAbs, u
  <1> HIDE DEF n
  <1>11. n \in Sizes
    <2>1. n =< TwoTo[NumberBits] /\ TwoTo[NumberBits] \in Nat
      BY <1>2, <1>3, <1>6, UnitsAre
    <2> QED
      BY <1>8, <2>1 DEF Sizes
  <1>12. n =< TwoTo[bits] * u
    BY <1>6, <1>9
  <1> QED
    BY <1>7, <1>10, <1>11, <1>12 DEF u

\* A number with fewer bits has them.
LEMMA RoundedAbsAgain ==
  ASSUME NEW abs \in Sizes, NEW few \in Nat, NEW more \in Nat, few =< more
  PROVE  RoundedAbs(RoundedAbs(abs, few), more) = RoundedAbs(abs, few)
  <1> DEFINE u == Unit(abs, few)
             n == RoundedAbs(abs, few)
  <1>1. u \in Units /\ n \in Sizes /\ n =< TwoTo[few] * u
    BY UnitFacts, RoundedAbsFacts
  <1>2. PICK c \in Nat : n = u * c
    BY RoundedAbsFacts
  <1> HIDE DEF u, n
  <1>3. u \in Nat /\ TwoTo[few] \in Nat /\ TwoTo[more] \in Nat /\ TwoTo[few] =< TwoTo[more] /\ n \in Int
    <2>1. u \in Nat /\ n \in Int
      BY <1>1, UnitsAre DEF Sizes
    <2>2. TwoTo[few] \in Nat /\ TwoTo[more] \in Nat
      BY Powers
    <2>3. TwoTo[few] =< TwoTo[more]
      BY PowersGrow
    <2> QED
      BY <2>1, <2>2, <2>3
  <1>4. n =< TwoTo[more] * u
    <2>1. TwoTo[few] * u =< TwoTo[more] * u
      <3>1. \A a, b, d \in Nat : a =< b => a * d =< b * d
        OBVIOUS
      <3> QED
        BY <1>3, <3>1
    <2> QED
      BY <1>1, <1>3, <2>1
  <1> QED
    BY <1>1, <1>2, <1>4, RoundedAbsKeeps DEF n

\* Rounding keeps the order.
LEMMA RoundedAbsGrows ==
  ASSUME NEW a \in Sizes, NEW b \in Sizes, a =< b, NEW bits \in Nat \ {0}
  PROVE  RoundedAbs(a, bits) =< RoundedAbs(b, bits)
  <1> DEFINE u == Unit(a, bits)
             w == Unit(b, bits)
             m == RoundedAbs(a, bits)
             n == RoundedAbs(b, bits)
  <1>1. u \in Units /\ w \in Units /\ IsUnit(w, b, bits) /\ m \in Sizes /\ n \in Sizes /\ m =< TwoTo[bits] * u
    BY UnitFacts, RoundedAbsFacts
  <1>2. a \in Nat /\ b \in Nat /\ m \in Nat /\ n \in Nat /\ u \in Nat /\ u > 0 /\ w \in Nat /\ w > 0
    BY <1>1, UnitsAre DEF Sizes
  <1>3. m = NearestMultiple(a, u) /\ n = NearestMultiple(b, w)
    BY DEF RoundedAbs
  <1>4. TwoTo[bits] = 2 * TwoTo[bits - 1] /\ TwoTo[bits - 1] \in Nat
    BY HalfPower
  <1>5. b =< TwoTo[bits] * w
    BY <1>1 DEF IsUnit
  <1>6. u =< w
    <2>1. TwoTo[bits] * w \in Nat
      BY <1>2, <1>4
    <2>2. a =< TwoTo[bits] * w
      <3> HIDE DEF w
      <3> QED
        BY <1>2, <1>5, <2>1
    <2> QED
      BY <1>1, <2>2, UnitIsLeast
  <1> HIDE DEF u, w, m, n
  <1>7. CASE u = w
    BY <1>2, <1>3, <1>7, NearestGrows DEF m, n
  <1>8. CASE u < w
    <2>1. 2 * u =< w /\ w > 1
      BY <1>1, <1>2, <1>8, UnitsAre
    <2>2. PICK c \in Nat \ {0} : w = u * c
      BY <1>1, <1>6, UnitsAre
    <2>3. b > TwoTo[bits] * (w \div 2)
      BY <1>1, <2>1 DEF IsUnit
    <2> DEFINE h == TwoTo[bits - 1]
               v == w \div 2
    <2>4. w = 2 * v /\ v \in Nat
      <3>1. \E x \in Nat : w = 2 * x
        <4>1. \E x \in Nat \ {0} : w = TwoTo[1] * x
          <5>1. TwoTo[1] \in Units /\ TwoTo[1] = 2
            <6>1. PICK k \in 0..NumberBits : w = TwoTo[k]
              BY <1>1 DEF Units
            <6>2. k # 0 /\ 1 \in 0..NumberBits /\ 0 + 1 = 1
              BY <2>1, <6>1, Powers, BitsAre
            <6> QED
              BY <6>2, Powers DEF Units
          <5>2. TwoTo[1] =< w
            BY <1>2, <2>1, <5>1
          <5> QED
            BY <1>1, <5>1, <5>2, UnitsAre
        <4>2. TwoTo[1] = 2
          <5>1. 0 + 1 = 1
            OBVIOUS
          <5> QED
            BY <5>1, Powers
        <4> QED
          BY <4>1, <4>2
      <3> QED
        BY <3>1
    <2> HIDE DEF h, v
    <2>5. TwoTo[bits] * v = w * h /\ w * h \in Nat
      BY <1>2, <1>4, <2>4 DEF h
    <2>6. w * h =< n
      <3>1. w * h =< b /\ h \in Nat
        BY <1>2, <1>4, <2>3, <2>5 DEF h, v
      <3> QED
        BY <1>2, <1>3, <3>1, NearestFacts
    <2>7. TwoTo[bits] * u =< w * h
      <3>1. TwoTo[bits] * u = (2 * u) * h
        BY <1>2, <1>4 DEF h
      <3>2. \A x, y, z \in Nat : x =< y => x * z =< y * z
        OBVIOUS
      <3>3. (2 * u) * h =< w * h
        BY <1>2, <1>4, <2>1, <3>2 DEF h
      <3> QED
        BY <3>1, <3>3
    <2> DEFINE p == TwoTo[bits] * u
               q == w * h
    <2>8. m =< p /\ p =< q /\ q =< n /\ p \in Int /\ q \in Int
      BY <1>1, <1>2, <1>4, <2>5, <2>6, <2>7
    <2> HIDE DEF p, q
    <2> QED
      BY <1>2, <2>8 DEF m, n
  <1> QED
    BY <1>2, <1>6, <1>7, <1>8

\* Numbers that an app writes.
Num == -TwoTo[NumberBits]..TwoTo[NumberBits]

LEMMA Signs ==
  /\ \A n \in Num : n \in Int /\ (n < 0 => -n \in Sizes) /\ (n >= 0 => n \in Sizes)
  /\ \A n \in Sizes : n \in Nat /\ n \in Num /\ -n \in Num
  /\ 0 \in Sizes
  <1>1. TwoTo[NumberBits] \in Nat
    BY UnitsAre
  <1> QED
    BY <1>1 DEF Num, Sizes

LEMMA RoundedFacts ==
  ASSUME NEW n \in Num, NEW bits \in Nat
  PROVE  /\ Rounded(n, bits) \in Num
         /\ \A more \in Nat : bits =< more => Rounded(Rounded(n, bits), more) = Rounded(n, bits)
         /\ Rounded(0, bits) = 0
  <1>1. RoundedAbs(0, bits) = 0
    <2>1. TwoTo[NumberBits] \in Units /\ TwoTo[NumberBits] \in Nat /\ TwoTo[bits] \in Nat
      BY UnitsAre, Powers
    <2>2. 0 \in Sizes /\ 0 \in Nat /\ 0 = TwoTo[NumberBits] * 0 /\ 0 =< TwoTo[bits] * TwoTo[NumberBits]
      BY <2>1, Signs
    <2> QED
      BY <2>1, <2>2, RoundedAbsKeeps
  <1>2. Rounded(0, bits) = 0
    BY <1>1 DEF Rounded
  <1>3. CASE n >= 0
    <2> DEFINE r == RoundedAbs(n, bits)
    <2>1. n \in Sizes /\ Rounded(n, bits) = r /\ r \in Sizes
      <3>1. n \in Sizes /\ n \in Int
        BY <1>3, Signs
      <3>2. RoundedAbs(n, bits) \in Sizes
        BY <3>1, RoundedAbsFacts
      <3> QED
        BY <1>3, <3>1, <3>2 DEF Rounded
    <2>2. \A more \in Nat : bits =< more => RoundedAbs(r, more) = r
      BY <2>1, RoundedAbsAgain
    <2> HIDE DEF r
    <2>3. r \in Nat /\ r \in Num
      BY <2>1, Signs
    <2> QED
      BY <1>2, <2>1, <2>2, <2>3 DEF Rounded
  <1>4. CASE n < 0
    <2> DEFINE r == RoundedAbs(-n, bits)
    <2>1. -n \in Sizes /\ Rounded(n, bits) = -r /\ r \in Sizes
      <3>1. -n \in Sizes /\ n \in Int
        BY <1>4, Signs
      <3>2. RoundedAbs(-n, bits) \in Sizes
        BY <3>1, RoundedAbsFacts
      <3> QED
        BY <1>4, <3>1, <3>2 DEF Rounded
    <2>2. \A more \in Nat : bits =< more => RoundedAbs(r, more) = r
      BY <2>1, RoundedAbsAgain
    <2> HIDE DEF r
    <2>3. r \in Nat /\ -r \in Num
      BY <2>1, Signs
    <2>4. \A more \in Nat : Rounded(-r, more) = -RoundedAbs(r, more) \/ r = 0
      <3> SUFFICES ASSUME NEW more \in Nat, r # 0 PROVE Rounded(-r, more) = -RoundedAbs(r, more)
        OBVIOUS
      <3>1. -r < 0 /\ -(-r) = r
        BY <2>3
      <3> QED
        BY <3>1 DEF Rounded
    <2>5. r = 0 => \A more \in Nat : bits =< more => RoundedAbs(0, more) = 0
      BY <2>2
    <2>6. r = 0 => \A more \in Nat : bits =< more => Rounded(0, more) = 0
      BY <2>5 DEF Rounded
    <2>7. r = 0 => -r = 0
      <3>1. \A x, y \in Int : x + y = 0 /\ x = 0 => y = 0
        OBVIOUS
      <3>2. -r \in Int /\ r \in Int /\ r + (-r) = 0
        BY <2>3
      <3> QED
        BY <3>1, <3>2
    <2> QED
      BY <1>2, <2>1, <2>2, <2>3, <2>4, <2>6, <2>7
  <1>5. n \in Int
    BY Signs
  <1> QED
    BY <1>3, <1>4, <1>5

LEMMA RoundedGrows ==
  ASSUME NEW a \in Num, NEW b \in Num, a =< b, NEW bits \in Nat \ {0}
  PROVE  Rounded(a, bits) =< Rounded(b, bits)
  <1>1. a \in Int /\ b \in Int
    BY Signs
  <1>2. CASE a >= 0
    <2>1. a \in Sizes /\ b \in Sizes /\ b >= 0
      BY <1>1, <1>2, Signs
    <2>2. RoundedAbs(a, bits) =< RoundedAbs(b, bits)
      BY <2>1, RoundedAbsGrows
    <2> QED
      BY <1>1, <1>2, <2>1, <2>2 DEF Rounded
  <1>3. CASE b < 0
    <2>1. -a \in Sizes /\ -b \in Sizes /\ a < 0 /\ -b =< -a
      BY <1>1, <1>3, Signs
    <2>2. RoundedAbs(-b, bits) =< RoundedAbs(-a, bits)
      BY <2>1, RoundedAbsGrows
    <2>3. RoundedAbs(-b, bits) \in Nat /\ RoundedAbs(-a, bits) \in Nat
      BY <2>1, RoundedAbsFacts, Signs
    <2> QED
      BY <1>1, <1>3, <2>1, <2>2, <2>3 DEF Rounded
  <1>4. CASE a < 0 /\ b >= 0
    <2>1. -a \in Sizes /\ b \in Sizes
      BY <1>1, <1>4, Signs
    <2>2. RoundedAbs(-a, bits) \in Nat /\ RoundedAbs(b, bits) \in Nat
      BY <2>1, RoundedAbsFacts, Signs
    <2> QED
      BY <1>1, <1>4, <2>2 DEF Rounded
  <1> QED
    BY <1>1, <1>2, <1>3, <1>4

\* Whole numbers in fractions.
LEMMA FractionIs ==
  /\ Fraction \in Nat /\ Fraction > 0
  /\ TwoTo[NumberBits] = TwoTo[LongBits] * Fraction
  <1>1. LongBits \in Nat /\ FractionBits \in Nat
    BY BitsAre
  <1>2. TwoTo[LongBits + FractionBits] = TwoTo[LongBits] * TwoTo[FractionBits] /\ TwoTo[FractionBits] > 0
    BY <1>1, PowersDivide
  <1>3. TwoTo[FractionBits] \in Nat
    BY <1>1, Powers
  <1> QED
    BY <1>2, <1>3 DEF Fraction, NumberBits

LEMMA FractionFacts ==
  ASSUME NEW n \in Int
  PROVE  /\ n * Fraction \in Int
         /\ Truncated(n * Fraction) = n
         /\ Truncated(n) \in Int
         /\ IsWhole(n) => Truncated(n) * Fraction = n
         /\ \A c \in Int : n = Fraction * c => IsWhole(n)
  <1> DEFINE f == Fraction
  <1>1. f \in Nat /\ f > 0 /\ 0 \in 0..f - 1
    BY FractionIs
  <1>2. \A c \in Int : f * c \in Int /\ (f * c) \div f = c /\ (f * c) % f = 0
    <2> SUFFICES ASSUME NEW c \in Int PROVE f * c \in Int /\ (f * c) \div f = c /\ (f * c) % f = 0
      OBVIOUS
    <2> DEFINE p == f * c
    <2>1. p \in Int /\ p = f * c + 0
      BY <1>1
    <2> HIDE DEF p, f
    <2>2. p \div f = c /\ p % f = 0
      BY <1>1, <2>1, DivModUnique
    <2> QED
      BY <2>1, <2>2 DEF p
  <1> HIDE DEF f
  <1>3. n * f \in Int /\ n * f = f * n /\ -(n * f) = f * (-n) /\ (n < 0 <=> n * f < 0) /\ -n \in Int
    BY <1>1
  <1>4. Truncated(n * f) = n
    <2> DEFINE p == n * f
    <2>1. CASE n < 0
      <3>1. p < 0 /\ (-p) \div f = -n
        BY <1>2, <1>3, <2>1
      <3>2. Truncated(p) = -(-n)
        BY <3>1 DEF Truncated, f
      <3> QED
        BY <3>2
    <2>2. CASE n >= 0
      <3>1. ~ (p < 0) /\ p \div f = n
        BY <1>2, <1>3, <2>2
      <3> QED
        BY <3>1 DEF Truncated, f
    <2> QED
      BY <2>1, <2>2
  <1>5. /\ n \div f \in Int /\ n % f \in 0..f - 1 /\ n = f * (n \div f) + (n % f)
        /\ (-n) \div f \in Int /\ (-n) % f \in 0..f - 1 /\ -n = f * ((-n) \div f) + ((-n) % f)
    BY <1>1, <1>3, DivMod
  <1>6. Truncated(n) \in Int
    BY <1>5 DEF Truncated, f
  <1>7. ASSUME n % f = 0 PROVE Truncated(n) * f = n
    <2> DEFINE q == n \div f
    <2>1. q \in Int /\ n = f * q /\ -n = f * (-q) /\ -q \in Int /\ q * f = f * q
      <3>1. q \in Int /\ n = f * q
        BY <1>1, <1>5, <1>7
      <3> HIDE DEF q
      <3> QED
        BY <1>1, <3>1
    <2>2. (-n) \div f = -q
      BY <1>2, <2>1
    <2>3. Truncated(n) = q
      BY <2>1, <2>2 DEF Truncated, f
    <2> QED
      BY <2>1, <2>3
  <1>8. ASSUME NEW c \in Int, n = f * c PROVE n % f = 0
    BY <1>2, <1>8
  <1> QED
    BY <1>3, <1>4, <1>6, <1>7, <1>8 DEF IsWhole, f

\* What is printed as it is has no more decimals.
LEMMA PrintedIsWhole ==
  ASSUME NEW n \in Int, Printed(n) = n
  PROVE  IsWhole(n)
  <1>1. CASE n >= 0
    <2>1. n \in Nat
      BY <1>1
    <2>2. PICK m \in Nat : NearestMultiple(n, Fraction) = Fraction * m
      BY <2>1, FractionIs, NearestFacts
    <2>3. n = Fraction * m
      BY <1>1, <2>2 DEF Printed
    <2> QED
      BY <2>3, FractionFacts
  <1>2. CASE n < 0
    <2>1. -n \in Nat
      BY <1>2
    <2>2. PICK m \in Nat : NearestMultiple(-n, Fraction) = Fraction * m
      BY <2>1, FractionIs, NearestFacts
    <2>3. n = -(Fraction * m)
      BY <1>2, <2>2 DEF Printed
    <2>4. n = Fraction * (-m) /\ -m \in Int
      BY <2>3, FractionIs
    <2> QED
      BY <2>4, FractionFacts
  <1> QED
    BY <1>1, <1>2

\* long long is a number that apps write.
LEMMA LongIsNumber ==
  ASSUME NEW n \in Int, Fits(n, LongBits, TRUE)
  PROVE  n * Fraction \in Num
  <1> DEFINE f == Fraction
             t == TwoTo[LongBits]
  <1>1. f \in Nat /\ f > 0 /\ TwoTo[NumberBits] = f * t /\ t \in Nat
    <2>1. t \in Nat
      BY BitsAre, Powers
    <2> QED
      BY <2>1, FractionIs
  <1>2. -t =< n /\ n =< t
    <2>1. TwoTo[LongBits] = 2 * TwoTo[LongBits - 1] /\ TwoTo[LongBits - 1] \in Nat
      BY BitsAre, HalfPower
    <2> QED
      BY <2>1 DEF Fits, Least
  <1> HIDE DEF f, t
  <1>3. f * t \in Nat
    BY <1>1
  <1>4. CASE n >= 0
    <2>1. f * n =< f * t /\ f * n \in Nat /\ n * f = f * n
      BY <1>1, <1>2, <1>4, Multiply
    <2> QED
      BY <1>1, <1>3, <2>1 DEF Num, f
  <1>5. CASE n < 0
    <2>1. -n \in Nat /\ -n =< t
      BY <1>1, <1>2, <1>5
    <2>2. f * (-n) =< f * t /\ f * (-n) \in Nat
      BY <1>1, <2>1, Multiply
    <2>3. n * f = -(f * (-n))
      BY <1>1
    <2> QED
      BY <1>1, <1>3, <2>2, <2>3 DEF Num, f
  <1> QED
    BY <1>4, <1>5

-----------------------------------------------------------------------------
(* Values that are written                                                 *)

LEMMA TypeShapes ==
  ASSUME NEW t \in PropertyType
  PROVE  /\ t.kind \in {"integer", "real", "NSNumber", "NSString", "NSData"}
         /\ t.kind = "integer" => t.bits \in 1..LongBits /\ t.signed \in BOOLEAN
         /\ t.kind = "real" => t.bits \in 1..DoubleBits
         /\ t \in Numbers <=> t.kind \in {"integer", "real", "NSNumber"}
  BY TypesAssumption DEF Integer, Real, NSNumber, NSString, NSData, Numbers

\* What an app writes: a number of the sample, or a text.
LEMMA ValueShapes ==
  ASSUME NEW t \in PropertyType \cup {WCTValue}, NEW value \in ValuesOf(t)
  PROVE  /\ t.kind = "integer" => \E n \in Num : value = <<n>> /\ InRange(n, t.bits, t.signed)
         /\ t.kind = "real" => \E n \in Num : value = <<n>> /\ Rounded(n, t.bits) = n
         /\ t.kind \in {"NSNumber", "WCTValue"} => value = Nil \/ \E n \in Num : value = <<n>>
         /\ t.kind \in {"NSString", "NSData"} => value \in {Nil, <<"empty">>, <<"full">>}
  <1>1. Sample \subseteq Num
    <2>1. TwoTo[NumberBits] \in Nat
      BY UnitsAre
    <2> QED
      BY <2>1, SampleAssumption DEF Num
  <1>2. CASE t.kind = "integer"
    <2>1. ValuesOf(t) = {<<n>> : n \in {m \in Sample : InRange(m, t.bits, t.signed)}}
      BY <1>2 DEF ValuesOf
    <2>2. PICK n \in {m \in Sample : InRange(m, t.bits, t.signed)} : value = <<n>>
      BY <2>1
    <2> QED
      BY <1>1, <1>2, <2>2
  <1>3. CASE t.kind = "real"
    <2>1. ValuesOf(t) = {<<n>> : n \in {m \in Sample : Rounded(m, t.bits) = m}}
      BY <1>3 DEF ValuesOf
    <2>2. PICK n \in {m \in Sample : Rounded(m, t.bits) = m} : value = <<n>>
      BY <2>1
    <2> QED
      BY <1>1, <1>3, <2>2
  <1>4. CASE t.kind = "WCTValue"
    <2>1. ValuesOf(t) = {<<n>> : n \in LongSample} \cup {Nil}
      BY <1>4 DEF ValuesOf
    <2>2. value = Nil \/ \E n \in LongSample : value = <<n>>
      BY <2>1
    <2> QED
      BY <1>1, <1>4, <2>2 DEF LongSample
  <1>7. CASE t.kind = "NSNumber"
    <2>1. ValuesOf(t) = {<<n * Fraction>> : n \in LongSample} \cup {<<n>> : n \in DoubleSample} \cup {Nil}
      BY <1>7 DEF ValuesOf
    <2>2. ASSUME NEW n \in LongSample PROVE n * Fraction \in Num
      <3>1. n \in Num /\ InRange(n, LongBits, TRUE)
        BY <1>1 DEF LongSample
      <3>2. n \in Int
        BY <3>1, Signs
      <3>3. Fits(n, LongBits, TRUE)
        BY <3>1, <3>2, BitsAre, CastFacts
      <3> QED
        BY <3>2, <3>3, LongIsNumber
    <2>3. DoubleSample \subseteq Num
      BY <1>1 DEF DoubleSample
    <2>4. value = Nil \/ (\E n \in LongSample : value = <<n * Fraction>>) \/ \E n \in DoubleSample : value = <<n>>
      BY <2>1
    <2> QED
      BY <1>7, <2>2, <2>3, <2>4
  <1>5. CASE t.kind \in {"NSString", "NSData"}
    <2>1. ValuesOf(t) = {Nil, <<"empty">>, <<"full">>}
      BY <1>5 DEF ValuesOf
    <2> QED
      BY <1>5, <2>1
  <1>6. t.kind \in {"integer", "real", "NSNumber", "NSString", "NSData", "WCTValue"}
    BY TypeShapes DEF WCTValue
  <1> QED
    BY <1>2, <1>3, <1>4, <1>5, <1>6, <1>7

\* long long has every number that fits it.
LEMMA ToIntegerKeeps ==
  ASSUME NEW n \in Int, Fits(n, LongBits, TRUE)
  PROVE  ToInteger(n * Fraction) = n
  <1>1. TwoTo[LongBits] = 2 * TwoTo[LongBits - 1] /\ TwoTo[LongBits - 1] \in Nat
    BY BitsAre, HalfPower
  <1>2. Clamped(n) = n
    BY <1>1 DEF Clamped, Fits, Least
  <1> QED
    BY <1>2, FractionFacts DEF ToInteger

\* The C type of a column has room for the property.
LEMMA ColumnBits ==
  ASSUME NEW t \in PropertyType, t.kind = "integer"
  PROVE  LET c == CTypeBits(ColumnType(t))
         IN  /\ c \in {IntBits, LongBits} /\ c \in Nat \ {0} /\ c =< LongBits /\ t.bits =< c
             /\ t.bits \in Nat \ {0}
             /\ t.bits = c => t.bits \in {IntBits, LongBits}
             /\ ColumnType(t) \in {"Integer32", "Integer64"}
  <1>1. t.bits \in 1..LongBits
    BY TypeShapes
  <1>2. ColumnType(t) = IF t.bits =< IntBits THEN "Integer32" ELSE "Integer64"
    BY DEF ColumnType
  <1> QED
    BY <1>1, <1>2, BitsAre DEF CTypeBits

\* The cell of an integer has its low bits; it is the integer unless that is
\* in the upper half of an unsigned type.
LEMMA IntegerBound ==
  ASSUME NEW t \in PropertyType, t.kind = "integer", NEW n \in Int, InRange(n, t.bits, t.signed)
  PROVE  \E m \in Int : /\ Bound(t, <<n>>) = IntegerCell(m)
                        /\ Fits(m, LongBits, TRUE)
                        /\ Congruent(m, n, CTypeBits(ColumnType(t)))
                        /\ Congruent(m, n, t.bits)
                        /\ t.signed \/ ~ UpperHalf(t, <<n>>) => m = n
  <1> DEFINE c == CTypeBits(ColumnType(t))
             m == AsSigned(n, c)
  <1>1. c \in Nat \ {0} /\ c =< LongBits /\ t.bits =< c /\ t.bits \in Nat \ {0} /\ t.signed \in BOOLEAN
        /\ (t.bits = c => t.bits \in {IntBits, LongBits})
    BY ColumnBits, TypeShapes
  <1>2. Bound(t, <<n>>) = IntegerCell(m)
    BY DEF Bound, CValue
  <1> HIDE DEF c
  <1>3. m = Cast(n, c, TRUE)
    BY DEF Cast
  <1> HIDE DEF m
  <1>4. m \in Int /\ Fits(m, c, TRUE) /\ Congruent(m, n, c)
    BY <1>1, <1>3, CastFacts
  <1>5. Fits(m, LongBits, TRUE)
    BY <1>1, <1>4, FitsLonger, BitsAre
  <1>6. Congruent(m, n, t.bits)
    <2>1. t.bits \in 0..c /\ c \in Nat
      BY <1>1
    <2> QED
      BY <1>4, <2>1, CongruentFacts
  <1>7. Fits(n, t.bits, t.signed)
    BY <1>1, CastFacts
  <1>8. ASSUME t.signed \/ ~ UpperHalf(t, <<n>>) PROVE m = n
    <2>1. Fits(n, c, TRUE)
      <3>1. CASE t.signed \/ t.bits < c
        BY <1>1, <1>7, <3>1, FitsLonger
      <3>2. CASE ~ t.signed /\ t.bits = c
        <4>1. InRange(n, t.bits, TRUE)
          BY <1>1, <1>8, <3>2 DEF UpperHalf
        <4> QED
          BY <1>1, <3>2, <4>1, CastFacts
      <3>3. t.bits < c \/ t.bits = c
        BY <1>1
      <3> QED
        BY <3>1, <3>2, <3>3, Zenon
    <2> QED
      BY <1>1, <1>4, <2>1, FitsOnce
  <1> QED
    BY <1>2, <1>4, <1>5, <1>6, <1>8 DEF c

\* What is read of an integer is its cast.
LEMMA IntegerRead ==
  ASSUME NEW t \in PropertyType, t.kind = "integer", NEW m \in Int, Fits(m, LongBits, TRUE)
  PROVE  \E k \in Int : /\ Read(t, IntegerCell(m)) = <<k>>
                        /\ Fits(k, t.bits, t.signed)
                        /\ Congruent(k, m, t.bits)
  <1> DEFINE c == CTypeBits(ColumnType(t))
             g == AsSigned(m, c)
             k == Cast(g, t.bits, t.signed)
  <1>1. c \in Nat \ {0} /\ c =< LongBits /\ t.bits =< c /\ t.bits \in Nat \ {0} /\ t.signed \in BOOLEAN
    BY ColumnBits, TypeShapes
  <1>2. Read(t, IntegerCell(m)) = <<k>>
    <2>1. NumberOf(IntegerCell(m)) = m * Fraction
      BY DEF NumberOf, IsNumber, IntegerCell, Amount
    <2>2. GetInteger(t, IntegerCell(m)) = g
      BY <2>1, ToIntegerKeeps DEF GetInteger
    <2> QED
      BY <2>2 DEF Read, PropertyValue
  <1>3. g = Cast(m, c, TRUE)
    BY DEF Cast
  <1> HIDE DEF c, g
  <1>4. g \in Int /\ Congruent(g, m, c)
    BY <1>1, <1>3, CastFacts
  <1>5. k \in Int /\ Fits(k, t.bits, t.signed) /\ Congruent(k, g, t.bits)
    BY <1>1, <1>4, CastFacts
  <1> HIDE DEF k
  <1>6. Congruent(g, m, t.bits)
    <2>1. t.bits \in 0..c /\ c \in Nat
      BY <1>1
    <2> QED
      BY <1>4, <2>1, CongruentFacts
  <1>7. Congruent(k, m, t.bits)
    BY <1>1, <1>4, <1>5, <1>6, CongruentAll
  <1> QED
    BY <1>2, <1>5, <1>7

\* An integer is read again in its own type.
LEMMA IntegerComesBack ==
  ASSUME NEW t \in PropertyType, t.kind = "integer", NEW n \in Int, InRange(n, t.bits, t.signed)
  PROVE  Read(t, Bound(t, <<n>>)) = <<n>>
  <1>1. PICK m \in Int : /\ Bound(t, <<n>>) = IntegerCell(m)
                         /\ Fits(m, LongBits, TRUE)
                         /\ Congruent(m, n, t.bits)
    BY IntegerBound
  <1>2. PICK k \in Int : /\ Read(t, IntegerCell(m)) = <<k>>
                         /\ Fits(k, t.bits, t.signed)
                         /\ Congruent(k, m, t.bits)
    BY <1>1, IntegerRead
  <1>3. t.bits \in Nat \ {0} /\ t.signed \in BOOLEAN
    BY TypeShapes, BitsAre
  <1>4. Fits(n, t.bits, t.signed)
    BY <1>3, CastFacts
  <1>5. Congruent(k, n, t.bits)
    BY <1>1, <1>2, <1>3, CongruentAll
  <1>6. k = n
    BY <1>2, <1>3, <1>4, <1>5, FitsOnce
  <1> QED
    BY <1>1, <1>2, <1>6

\* A real number has no more bits than a double.
LEMMA RealKept ==
  ASSUME NEW t \in PropertyType, t.kind = "real", NEW n \in Num, Rounded(n, t.bits) = n
  PROVE  Rounded(n, DoubleBits) = n /\ t.bits \in Nat
  <1>1. t.bits \in Nat /\ DoubleBits \in Nat /\ t.bits =< DoubleBits
    BY TypeShapes, BitsAre
  <1> QED
    BY <1>1, RoundedFacts

-----------------------------------------------------------------------------
(* The rows                                                                *)

NumberColumns == {"Integer32", "Integer64", "Float"}

\* A row has what its column makes of a value of a type that it may have.
IsRow(row, col) ==
    /\ row.type \in PropertyType \cup {WCTValue}
    /\ row.type \in Numbers \cup {WCTValue} <=> col \in NumberColumns
    /\ row.value \in ValuesOf(row.type)
    /\ row.cell = Stored(col, Bound(row.type, row.value))

\* Properties of numbers are in columns of numbers, and others in others.
ValuesInv ==
    /\ property \in PropertyType
    /\ column \in NumberColumns \cup {"Text", "BLOB"}
    /\ property \in Numbers <=> column \in NumberColumns
    /\ \A row \in DOMAIN rows : IsRow(rows[row], column)

LEMMA ColumnOf ==
  ASSUME NEW t \in PropertyType
  PROVE  /\ ColumnType(t) \in NumberColumns \cup {"Text", "BLOB"}
         /\ t \in Numbers <=> ColumnType(t) \in NumberColumns
         /\ t.kind = "integer" <=> ColumnType(t) \in {"Integer32", "Integer64"}
         /\ t.kind = "NSString" <=> ColumnType(t) = "Text"
         /\ t.kind = "NSData" <=> ColumnType(t) = "BLOB"
  BY TypeShapes DEF ColumnType, NumberColumns

LEMMA ValuesInvInit ==
  ValuesInit => ValuesInv
  BY ColumnOf DEF ValuesInit, ValuesInv

LEMMA ValuesInvStep ==
  ASSUME ValuesInv, [ValuesNext]_valuesVars
  PROVE  ValuesInv'
  <1>1. CASE UNCHANGED valuesVars
    BY <1>1 DEF valuesVars, ValuesInv
  <1>2. CASE ChangeType
    <2>1. property' \in PropertyType /\ (property' \in Numbers <=> property \in Numbers)
          /\ UNCHANGED <<column, rows>>
      BY <1>2 DEF ChangeType
    <2> QED
      BY <2>1 DEF ValuesInv
  <1>3. ASSUME NEW r \in 1..2, NEW type, type = property \/ type = WCTValue, Write(r, type)
        PROVE  ValuesInv'
    <2> DEFINE new(value) == [cell |-> Stored(column, Bound(type, value)), type |-> type, value |-> value]
    <2>1. PICK value \in ValuesOf(type) :
                   rows' = [k \in DOMAIN rows \cup {r} |-> IF k = r THEN new(value) ELSE rows[k]]
      BY <1>3 DEF Write
    <2>2. UNCHANGED <<property, column>> /\ (type = WCTValue => property \in Numbers)
      BY <1>3 DEF Write
    <2>3. IsRow(new(value), column)
      <3>1. type \in PropertyType \cup {WCTValue}
        BY <1>3 DEF ValuesInv
      <3>2. type \in Numbers \cup {WCTValue} <=> column \in NumberColumns
        BY <1>3, <2>2 DEF ValuesInv
      <3> QED
        BY <3>1, <3>2 DEF IsRow
    <2> HIDE DEF new
    <2>4. \A row \in DOMAIN rows' : rows'[row] = new(value) \/ (row \in DOMAIN rows /\ rows'[row] = rows[row])
      BY <2>1
    <2>5. \A row \in DOMAIN rows' : IsRow(rows'[row], column)
      BY <2>3, <2>4 DEF ValuesInv
    <2>6. column' = column /\ property' = property
      BY <2>2
    <2> QED
      BY <2>5, <2>6 DEF ValuesInv
  <1> QED
    BY <1>1, <1>2, <1>3 DEF ValuesNext

\* A column of integers keeps integers; a column of reals makes reals of all
\* numbers.
LEMMA StoredFacts ==
  ASSUME NEW n \in Int
  PROVE  /\ column # "Float" => Stored(column, IntegerCell(n)) = IntegerCell(n)
         /\ column = "Float" => Stored(column, IntegerCell(n)) = RealCell(n * Fraction)
         /\ Stored(column, Null) = Null
         /\ \A text : Stored(column, [class |-> "text", text |-> text]) = [class |-> "text", text |-> text]
         /\ \A text : Stored(column, [class |-> "blob", text |-> text]) = [class |-> "blob", text |-> text]
  BY DEF Stored, IntegerCell, RealCell, Null, Amount

LEMMA CellFacts ==
  /\ \A n : IsNumber(IntegerCell(n)) /\ IntegerCell(n).n = n /\ IntegerCell(n) # Null
  /\ \A n : Amount(IntegerCell(n)) = n * Fraction
  /\ \A n : IsNumber(RealCell(n)) /\ RealCell(n).n = Rounded(n, DoubleBits) /\ RealCell(n) # Null
  /\ \A n : Amount(RealCell(n)) = Rounded(n, DoubleBits)
  /\ ~ IsNumber(Null)
  /\ \A text, kind : kind \in {"text", "blob"} =>
         /\ ~ IsNumber([class |-> kind, text |-> text])
         /\ [class |-> kind, text |-> text] # Null
         /\ [class |-> kind, text |-> text].text = text
  BY DEF IsNumber, IntegerCell, RealCell, Null, Amount

\* A column of integers makes integers of the reals that are whole and fit.
LEMMA StoredReal ==
  ASSUME NEW n \in Num
  PROVE  LET cell == Stored(column, RealCell(n))
         IN  IsNumber(cell) /\ Amount(cell) = Rounded(n, DoubleBits)
  <1> DEFINE r == Rounded(n, DoubleBits)
             cell == Stored(column, RealCell(n))
  <1>1. r \in Int
    <2>1. r \in Num
      BY BitsAre, RoundedFacts
    <2> HIDE DEF r
    <2> QED
      BY <2>1, Signs
  <1>2. cell = RealCell(n) \/ (IsWhole(r) /\ cell = IntegerCell(Truncated(r)))
    BY CellFacts DEF Stored, RealCell
  <1> HIDE DEF r, cell
  <1>3. IsWhole(r) => Truncated(r) * Fraction = r
    BY <1>1, FractionFacts
  <1>4. IsNumber(cell) /\ Amount(cell) = r
    BY <1>2, <1>3, CellFacts DEF r
  <1> QED
    BY <1>4 DEF r, cell

LEMMA IntegersSurviveIfInv ==
  ASSUME ValuesInv
  PROVE  IntegersSurvive
  <1> SUFFICES ASSUME NEW row \in DOMAIN rows, NEW reader \in Readers,
                      column # "Float", rows[row].type.kind = "integer", reader.kind = "integer"
               PROVE  LET written == rows[row]
                          got == Read(reader, written.cell)
                      IN  /\ (got[1] - written.value[1]) % TwoTo[IF reader.bits < written.type.bits
                                                 THEN reader.bits ELSE written.type.bits] = 0
                          /\ reader = written.type => got = written.value
                          /\ written.type.signed /\ InRange(written.value[1], reader.bits, reader.signed)
                                 => got = written.value
    BY DEF IntegersSurvive
  <1> DEFINE type == rows[row].type
             few == IF reader.bits < type.bits THEN reader.bits ELSE type.bits
  <1>1. type \in PropertyType /\ type.kind = "integer" /\ reader \in PropertyType
        /\ rows[row].value \in ValuesOf(type)
        /\ rows[row].cell = Stored(column, Bound(type, rows[row].value))
    BY DEF ValuesInv, IsRow, Readers, WCTValue
  <1>2. PICK n \in Num : rows[row].value = <<n>> /\ InRange(n, type.bits, type.signed)
    BY <1>1, ValueShapes
  <1>3. n \in Int
    BY Signs
  <1> HIDE DEF type
  <1>4. PICK m \in Int : /\ Bound(type, <<n>>) = IntegerCell(m)
                         /\ Fits(m, LongBits, TRUE)
                         /\ Congruent(m, n, type.bits)
                         /\ type.signed \/ ~ UpperHalf(type, <<n>>) => m = n
    BY <1>1, <1>2, <1>3, IntegerBound
  <1>5. rows[row].cell = IntegerCell(m)
    BY <1>1, <1>2, <1>4, StoredFacts
  <1>6. PICK k \in Int : /\ Read(reader, IntegerCell(m)) = <<k>>
                         /\ Fits(k, reader.bits, reader.signed)
                         /\ Congruent(k, m, reader.bits)
    BY <1>1, <1>4, IntegerRead
  <1>7. Read(reader, rows[row].cell) = <<k>>
    BY <1>5, <1>6
  <1>8. reader.bits \in Nat \ {0} /\ type.bits \in Nat \ {0} /\ reader.signed \in BOOLEAN /\ type.signed \in BOOLEAN
    BY <1>1, TypeShapes, BitsAre
  <1>9. few \in Nat /\ few \in 0..reader.bits /\ few \in 0..type.bits
    BY <1>8
  <1> HIDE DEF few
  <1>10. (k - n) % TwoTo[few] = 0
    <2>1. Congruent(k, m, few) /\ Congruent(m, n, few)
      BY <1>3, <1>4, <1>6, <1>8, <1>9, CongruentFacts
    <2>2. Congruent(k, n, few)
      BY <1>3, <1>9, <2>1, CongruentAll
    <2> QED
      BY <1>3, <1>9, <2>2, CongruentFacts
  <1>11. ASSUME reader = type PROVE <<k>> = <<n>>
    <2>1. Read(type, Bound(type, <<n>>)) = <<n>>
      BY <1>1, <1>2, <1>3, IntegerComesBack
    <2> QED
      BY <1>4, <1>6, <1>11, <2>1
  <1>12. ASSUME type.signed, InRange(n, reader.bits, reader.signed) PROVE <<k>> = <<n>>
    <2>1. m = n
      BY <1>4, <1>12
    <2>2. Fits(n, reader.bits, reader.signed)
      BY <1>3, <1>8, <1>12, CastFacts
    <2>3. k = n
      BY <1>3, <1>6, <1>8, <2>1, <2>2, FitsOnce
    <2> QED
      BY <2>3
  <1> QED
    BY <1>2, <1>7, <1>10, <1>11, <1>12 DEF type, few

LEMMA ObjectsSurviveIfInv ==
  ASSUME ValuesInv
  PROVE  ObjectsSurvive
  <1> SUFFICES ASSUME NEW row \in DOMAIN rows
               PROVE  LET written == rows[row]
                          got == Read(written.type, written.cell)
                      IN  CASE written.type.kind = "real" -> got = written.value
                            [] written.type.kind = "NSString" ->
                                   got = written.value /\ Read(WCTValue, written.cell) = written.value
                            [] written.type.kind = "WCTValue" -> column # "Float" => got = written.value
                            [] written.type.kind = "NSNumber" ->
                                   got = <<IF written.value = Nil THEN 0
                                           ELSE Rounded(written.value[1], DoubleBits)>>
                            [] written.type.kind = "NSData" ->
                                   got = IF written.value = Nil THEN <<"empty">> ELSE written.value
                            [] OTHER -> TRUE
    BY DEF ObjectsSurvive
  <1> DEFINE type == rows[row].type
             value == rows[row].value
             cell == rows[row].cell
  <1>1. type \in PropertyType \cup {WCTValue} /\ value \in ValuesOf(type)
        /\ cell = Stored(column, Bound(type, value))
    BY DEF ValuesInv, IsRow
  <1> HIDE DEF type, value, cell
  <1>2. CASE type.kind = "real"
    <2>1. PICK n \in Num : value = <<n>> /\ Rounded(n, type.bits) = n
      BY <1>1, <1>2, ValueShapes
    <2>2. type \in PropertyType
      BY <1>1, <1>2 DEF WCTValue
    <2>3. Rounded(n, DoubleBits) = n /\ n \in Int
      BY <1>2, <2>1, <2>2, RealKept, Signs
    <2>4. Bound(type, value) = RealCell(n)
      BY <1>2, <2>1 DEF Bound
    <2>6. NumberOf(cell) = n
      BY <1>1, <2>3, <2>4, StoredReal DEF NumberOf
    <2>7. Read(type, cell) = value
      BY <1>2, <2>1, <2>6 DEF Read
    <2> QED
      BY <1>2, <2>7 DEF type, value, cell
  <1>3. CASE type.kind = "NSString"
    <2>1. value \in {Nil, <<"empty">>, <<"full">>}
      BY <1>1, <1>3, ValueShapes
    <2>2. Bound(type, value) = BoundText(value)
      BY <1>3 DEF Bound
    <2>3. cell = IF value = Nil THEN Null ELSE [class |-> "text", text |-> value[1]]
      BY <1>1, <2>2, StoredFacts DEF BoundText
    <2>4. Read(type, cell) = value
      BY <1>3, <2>1, <2>3, CellFacts DEF Read, Nil
    <2>5. Read(WCTValue, cell) = value
      BY <2>1, <2>3, CellFacts DEF Read, Nil, WCTValue
    <2> QED
      BY <1>3, <2>4, <2>5 DEF type, value, cell
  <1>4. CASE type.kind = "WCTValue"
    <2>1. value = Nil \/ \E n \in Num : value = <<n>>
      BY <1>1, <1>4, ValueShapes
    <2>2. ASSUME column # "Float" PROVE Read(type, cell) = value
      <3>1. CASE value = Nil
        <4>1. cell = Null
          BY <1>1, <1>4, <3>1, StoredFacts DEF Bound
        <4> QED
          BY <1>4, <3>1, <4>1 DEF Read
      <3>2. CASE \E n \in Num : value = <<n>>
        <4>1. PICK n \in Num : value = <<n>>
          BY <3>2
        <4>2. Bound(type, value) = IntegerCell(n)
          BY <1>4, <4>1 DEF Bound, Nil
        <4>3. cell = IntegerCell(n)
          BY <1>1, <2>2, <4>2, StoredFacts, Signs
        <4> QED
          BY <1>4, <4>1, <4>3, CellFacts DEF Read
      <3> QED
        BY <2>1, <3>1, <3>2
    <2> QED
      BY <1>4, <2>2 DEF type, value, cell
  <1>5. CASE type.kind = "NSNumber"
    <2> DEFINE n == IF value = Nil THEN 0 ELSE value[1]
    <2>1. n \in Num /\ n \in Int
      <3>1. value = Nil \/ \E k \in Num : value = <<k>>
        BY <1>1, <1>5, ValueShapes
      <3>2. CASE value = Nil
        BY <3>2, Signs
      <3>3. CASE \E k \in Num : value = <<k>>
        BY <3>3, Signs DEF Nil
      <3> QED
        BY <3>1, <3>2, <3>3
    <2>2. Bound(type, value) = RealCell(n)
      BY <1>5 DEF Bound
    <2>3. Rounded(n, DoubleBits) = IF value = Nil THEN 0 ELSE Rounded(value[1], DoubleBits)
      BY <2>1, BitsAre, RoundedFacts
    <2> HIDE DEF n
    <2>5. NumberOf(cell) = Rounded(n, DoubleBits)
      BY <1>1, <2>1, <2>2, StoredReal DEF NumberOf
    <2>6. Rounded(Rounded(n, DoubleBits), DoubleBits) = Rounded(n, DoubleBits)
      BY <2>1, BitsAre, RoundedFacts
    <2>7. Read(type, cell) = <<Rounded(n, DoubleBits)>>
      BY <1>5, <2>5, <2>6 DEF Read
    <2> QED
      BY <1>5, <2>3, <2>7 DEF type, value, cell
  <1>6. CASE type.kind = "NSData"
    <2>1. value \in {Nil, <<"empty">>, <<"full">>}
      BY <1>1, <1>6, ValueShapes
    <2>2. Bound(type, value) = IF value = <<"full">> THEN [class |-> "blob", text |-> value[1]] ELSE Null
      BY <1>6 DEF Bound
    <2>3. cell = IF value = <<"full">> THEN [class |-> "blob", text |-> "full"] ELSE Null
      BY <1>1, <2>2, StoredFacts
    <2>4. Read(type, cell) = <<IF cell = Null THEN "empty" ELSE cell.text>>
      BY <1>6 DEF Read
    <2>5. Read(type, cell) = IF value = Nil THEN <<"empty">> ELSE value
      BY <2>1, <2>3, <2>4, CellFacts DEF Nil
    <2> QED
      BY <1>6, <2>5 DEF type, value, cell
  <1> QED
    BY <1>2, <1>3, <1>4, <1>5, <1>6 DEF type, value, cell

\* A number in the column of its type, and what a condition looks for.
LEMMA LiteralIs ==
  ASSUME NEW type, NEW n \in Int
  PROVE  LET literal == LiteralValue(type, <<n>>)
         IN  /\ type.kind = "integer" /\ Fits(n, LongBits, TRUE) => literal = IntegerCell(n)
             /\ type.kind \in {"real", "NSNumber"} /\ Printed(n) = n /\ Rounded(n, DoubleBits) = n =>
                    IsNumber(literal) /\ Amount(literal) = n
  <1> DEFINE literal == LiteralValue(type, <<n>>)
  <1>1. InRange(n, LongBits, TRUE) <=> Fits(n, LongBits, TRUE)
    BY BitsAre, CastFacts
  <1>2. type.kind \in {"integer", "real", "NSNumber"} => literal = LiteralNumber(type, n)
    BY DEF LiteralValue, Nil
  <1>3. type.kind = "integer" /\ Fits(n, LongBits, TRUE) => literal = IntegerCell(n)
    BY <1>1, <1>2 DEF LiteralNumber
  <1>4. ASSUME type.kind \in {"real", "NSNumber"}, Printed(n) = n, Rounded(n, DoubleBits) = n
        PROVE  IsNumber(literal) /\ Amount(literal) = n
    <2>1. literal \in {RealCell(n), IntegerCell(Truncated(n))}
      BY <1>2, <1>4 DEF LiteralNumber
    <2>2. Truncated(n) * Fraction = n
      BY <1>4, PrintedIsWhole, FractionFacts
    <2> HIDE DEF literal
    <2> QED
      BY <1>4, <2>1, <2>2, CellFacts
  <1> QED
    BY <1>3, <1>4

LEMMA FindsWhatItReadsIfInv ==
  ASSUME ValuesInv
  PROVE  FindsWhatItReads
  <1> SUFFICES ASSUME NEW row \in DOMAIN rows, rows[row].type # WCTValue,
                      column = ColumnType(rows[row].type),
                      NEW value \in ValuesOf(rows[row].type), Findable(rows[row].type, value)
               PROVE  Finds(rows[row].cell, LiteralValue(rows[row].type, value))
                          <=> Read(rows[row].type, rows[row].cell) = value
    BY DEF FindsWhatItReads
  <1> DEFINE type == rows[row].type
             written == rows[row].value
             cell == rows[row].cell
             literal == LiteralValue(type, value)
  <1>1. type \in PropertyType /\ written \in ValuesOf(type) /\ value \in ValuesOf(type)
        /\ cell = Stored(column, Bound(type, written)) /\ column = ColumnType(type)
        /\ Findable(type, value)
    BY DEF ValuesInv, IsRow
  <1> HIDE DEF type, written, cell
  <1>2. value # Nil /\ type.kind # "NSData" /\ ~ UpperHalf(type, value)
        /\ (type.kind = "NSNumber" => Rounded(value[1], DoubleBits) = value[1])
        /\ (type.kind \in {"real", "NSNumber"} => Printed(value[1]) = value[1])
    BY <1>1 DEF Findable
  <1>3. CASE type.kind = "integer"
    <2>1. PICK n \in Num : written = <<n>> /\ InRange(n, type.bits, type.signed)
      BY <1>1, <1>3, ValueShapes
    <2>2. PICK v \in Num : value = <<v>> /\ InRange(v, type.bits, type.signed)
      BY <1>1, <1>3, ValueShapes
    <2>3. n \in Int /\ v \in Int
      BY Signs
    <2>4. PICK m \in Int : /\ Bound(type, <<n>>) = IntegerCell(m)
                           /\ Congruent(m, n, type.bits)
                           /\ type.signed \/ ~ UpperHalf(type, <<n>>) => m = n
      BY <1>1, <1>3, <2>1, <2>3, IntegerBound
    <2>5. PICK w \in Int : /\ Fits(w, LongBits, TRUE)
                           /\ type.signed \/ ~ UpperHalf(type, <<v>>) => w = v
      BY <1>1, <1>3, <2>2, <2>3, IntegerBound
    <2>6. Fits(v, LongBits, TRUE)
      BY <1>2, <2>2, <2>5
    <2>7. column # "Float"
      BY <1>1, <1>3 DEF ColumnType
    <2>8. cell = IntegerCell(m)
      BY <1>1, <2>1, <2>4, <2>7, StoredFacts
    <2>9. literal = IntegerCell(v)
      BY <1>3, <2>2, <2>3, <2>6, LiteralIs
    <2>10. Finds(cell, literal) <=> m = v
      <3>1. Finds(cell, literal) <=> m * Fraction = v * Fraction
        BY <2>8, <2>9, CellFacts DEF Finds
      <3>2. Truncated(m * Fraction) = m /\ Truncated(v * Fraction) = v
        BY <2>3, FractionFacts
      <3> QED
        BY <3>1, <3>2
    <2>11. Read(type, cell) = <<n>>
      <3>1. Read(type, Bound(type, <<n>>)) = <<n>>
        BY <1>1, <1>3, <2>1, <2>3, IntegerComesBack
      <3> QED
        BY <2>4, <2>8, <3>1
    <2>12. m = v => n = v
      <3> SUFFICES ASSUME m = v PROVE n = v
        OBVIOUS
      <3>1. type.bits \in Nat \ {0} /\ type.signed \in BOOLEAN
        BY <1>1, <1>3, TypeShapes, BitsAre
      <3>2. Fits(n, type.bits, type.signed) /\ Fits(v, type.bits, type.signed)
        BY <2>1, <2>2, <2>3, <3>1, CastFacts
      <3>3. Congruent(v, n, type.bits)
        BY <2>4
      <3> QED
        BY <2>3, <3>1, <3>2, <3>3, FitsOnce
    <2>13. n = v => m = v
      BY <1>2, <2>2, <2>4
    <2> QED
      BY <2>2, <2>10, <2>11, <2>12, <2>13 DEF type, cell
  <1>4. CASE type.kind = "real"
    <2>1. PICK n \in Num : written = <<n>> /\ Rounded(n, type.bits) = n
      BY <1>1, <1>4, ValueShapes
    <2>2. PICK v \in Num : value = <<v>> /\ Rounded(v, type.bits) = v
      BY <1>1, <1>4, ValueShapes
    <2>3. n \in Int /\ v \in Int
      BY Signs
    <2>4. Rounded(n, DoubleBits) = n /\ Rounded(v, DoubleBits) = v
      BY <1>1, <1>4, <2>1, <2>2, RealKept
    <2>5. Bound(type, written) = RealCell(n)
      BY <1>4, <2>1 DEF Bound
    <2>6. IsNumber(cell) /\ Amount(cell) = n
      BY <1>1, <2>4, <2>5, StoredReal
    <2>7. IsNumber(literal) /\ Amount(literal) = v
      BY <1>2, <1>4, <2>2, <2>3, <2>4, LiteralIs
    <2>8. Finds(cell, literal) <=> n = v
      BY <2>6, <2>7 DEF Finds
    <2>9. NumberOf(cell) = n
      BY <2>6 DEF NumberOf
    <2>10. Read(type, cell) = <<n>>
      BY <1>4, <2>1, <2>9 DEF Read
    <2> QED
      BY <2>2, <2>8, <2>10 DEF type, cell
  <1>5. CASE type.kind = "NSNumber"
    <2>1. PICK v \in Num : value = <<v>>
      BY <1>1, <1>2, <1>5, ValueShapes
    <2>2. PICK n \in Num : Bound(type, written) = RealCell(n)
      <3>1. written = Nil \/ \E k \in Num : written = <<k>>
        BY <1>1, <1>5, ValueShapes
      <3>2. CASE written = Nil
        BY <1>5, <3>2, Signs DEF Bound
      <3>3. CASE \E k \in Num : written = <<k>>
        BY <1>5, <3>3 DEF Bound, Nil
      <3> QED
        BY <3>1, <3>2, <3>3
    <2> DEFINE r == Rounded(n, DoubleBits)
    <2>3. v \in Int
      BY Signs
    <2>4. IsNumber(cell) /\ Amount(cell) = r
      BY <1>1, <2>2, StoredReal
    <2>5. IsNumber(literal) /\ Amount(literal) = v
      BY <1>2, <1>5, <2>1, <2>3, LiteralIs
    <2>6. Finds(cell, literal) <=> r = v
      BY <2>4, <2>5 DEF Finds
    <2>7. NumberOf(cell) = r
      BY <2>4 DEF NumberOf
    <2>8. Rounded(r, DoubleBits) = r
      BY <2>2, BitsAre, RoundedFacts
    <2>9. Read(type, cell) = <<r>>
      BY <1>5, <2>7, <2>8 DEF Read
    <2> HIDE DEF r
    <2> QED
      BY <2>1, <2>6, <2>9 DEF type, cell
  <1>6. CASE type.kind = "NSString"
    <2>1. written \in {Nil, <<"empty">>, <<"full">>} /\ value \in {<<"empty">>, <<"full">>}
      BY <1>1, <1>2, <1>6, ValueShapes
    <2>2. Bound(type, written) = BoundText(written)
      BY <1>6 DEF Bound
    <2>3. cell = IF written = Nil THEN Null ELSE [class |-> "text", text |-> written[1]]
      BY <1>1, <2>2, StoredFacts DEF BoundText
    <2>4. literal = [class |-> "text", text |-> value[1]]
      BY <1>2, <1>6 DEF LiteralValue
    <2>5. Read(type, cell) = written
      BY <1>6, <2>1, <2>3, CellFacts DEF Read, Nil
    <2>6. ~ IsNumber(literal) /\ literal # Null
      BY <2>4, CellFacts
    <2>7. Finds(cell, literal) <=> cell = literal
      BY <2>6 DEF Finds
    <2>8. written = value => cell = literal
      BY <1>2, <2>3, <2>4
    <2>9. cell = literal => written = value
      <3> SUFFICES ASSUME cell = literal PROVE written = value
        OBVIOUS
      <3>1. written # Nil /\ cell.text = written[1] /\ literal.text = value[1]
        BY <2>3, <2>4, <2>6, CellFacts
      <3>2. written[1] = value[1]
        BY <3>1
      <3> QED
        BY <2>1, <3>1, <3>2
    <2> QED
      BY <2>5, <2>7, <2>8, <2>9 DEF type, cell
  <1>7. type.kind \in {"integer", "real", "NSNumber", "NSString"}
    BY <1>1, <1>2, TypeShapes
  <1> QED
    BY <1>3, <1>4, <1>5, <1>6, <1>7

\* What a value of a type of numbers is, in fractions.
AmountOf(type, n) == IF type.kind = "integer" THEN n * Fraction ELSE n

\* What the cell of a number is: of a real the rounded one, and of an
\* integer that is not in the upper half itself, in a column of reals rounded.
LEMMA NumberCell ==
  ASSUME ValuesInv, NEW row \in DOMAIN rows, rows[row].type \in Numbers, rows[row].value # Nil,
         ~ UpperHalf(rows[row].type, rows[row].value)
  PROVE  LET amount == AmountOf(rows[row].type, rows[row].value[1])
         IN  /\ rows[row].value[1] \in Num /\ amount \in Num
             /\ Amount(rows[row].cell) =
                    IF rows[row].type.kind = "integer" /\ column # "Float" THEN amount
                    ELSE Rounded(amount, DoubleBits)
  <1> DEFINE type == rows[row].type
             value == rows[row].value
             cell == rows[row].cell
  <1>1. type \in PropertyType /\ value \in ValuesOf(type)
        /\ cell = Stored(column, Bound(type, value)) /\ value # Nil /\ ~ UpperHalf(type, value)
        /\ type.kind \in {"integer", "real", "NSNumber"}
    BY TypeShapes DEF ValuesInv, IsRow, Numbers
  <1> HIDE DEF type, value, cell
  <1>2. PICK n \in Num : /\ value = <<n>>
                         /\ type.kind = "integer" => InRange(n, type.bits, type.signed)
    BY <1>1, ValueShapes
  <1>3. n \in Int /\ value[1] = n
    BY <1>2, Signs
  <1>4. CASE type.kind = "integer"
    <2>1. PICK m \in Int : /\ Bound(type, <<n>>) = IntegerCell(m)
                           /\ Fits(m, LongBits, TRUE)
                           /\ type.signed \/ ~ UpperHalf(type, <<n>>) => m = n
      BY <1>1, <1>2, <1>3, <1>4, IntegerBound
    <2>2. Bound(type, value) = IntegerCell(n) /\ n * Fraction \in Num
      BY <1>1, <1>2, <1>3, <2>1, LongIsNumber
    <2>3. Amount(cell) = IF column # "Float" THEN n * Fraction ELSE Rounded(n * Fraction, DoubleBits)
      BY <1>1, <1>3, <2>2, StoredFacts, CellFacts
    <2> QED
      BY <1>2, <1>3, <1>4, <2>2, <2>3 DEF AmountOf, type, value, cell
  <1>5. CASE type.kind \in {"real", "NSNumber"}
    <2>1. Bound(type, value) = RealCell(n) /\ type.kind # "integer"
      BY <1>1, <1>3, <1>5 DEF Bound
    <2>2. Amount(cell) = Rounded(n, DoubleBits)
      BY <1>1, <2>1, StoredReal
    <2> QED
      BY <1>2, <1>3, <2>1, <2>2 DEF AmountOf, type, value, cell
  <1> QED
    BY <1>1, <1>4, <1>5

LEMMA OrderIsKeptIfInv ==
  ASSUME ValuesInv
  PROVE  OrderIsKept
  <1> SUFFICES ASSUME NEW a \in DOMAIN rows, NEW b \in DOMAIN rows,
                      rows[a].type = rows[b].type, rows[a].type \in Numbers,
                      \A row \in {a, b} : rows[row].value # Nil /\ ~ UpperHalf(rows[a].type, rows[row].value),
                      rows[a].value[1] =< rows[b].value[1]
               PROVE  Amount(rows[a].cell) =< Amount(rows[b].cell)
    BY DEF OrderIsKept
  <1> DEFINE type == rows[a].type
             x == rows[a].value[1]
             y == rows[b].value[1]
             p == AmountOf(type, x)
             q == AmountOf(type, y)
             cellOf(n) == IF type.kind = "integer" /\ column # "Float" THEN n ELSE Rounded(n, DoubleBits)
  <1>1. x \in Num /\ p \in Num /\ Amount(rows[a].cell) = cellOf(p)
    BY NumberCell
  <1>2. y \in Num /\ q \in Num /\ Amount(rows[b].cell) = cellOf(q)
    BY NumberCell
  <1>3. p =< q
    <2>1. x \in Int /\ y \in Int /\ x =< y
      BY <1>1, <1>2, Signs
    <2> HIDE DEF x, y, type
    <2>2. x * Fraction =< y * Fraction
      <3>1. \A f \in Nat : x * f =< y * f
        BY <2>1
      <3> QED
        BY <3>1, FractionIs
    <2> QED
      BY <2>1, <2>2 DEF AmountOf
  <1> HIDE DEF p, q
  <1>4. Rounded(p, DoubleBits) =< Rounded(q, DoubleBits)
    BY <1>1, <1>2, <1>3, RoundedGrows, BitsAre
  <1> QED
    BY <1>1, <1>2, <1>3, <1>4

\* Whatever the versions of the app and the widths of the types, a value
\* comes back, is found, and stays in its place (WCTChainCall.mm, bindProperty).
LEMMA ValuesSurviveIfInv ==
  ValuesInv => ValuesSurvive
  BY IntegersSurviveIfInv, ObjectsSurviveIfInv, FindsWhatItReadsIfInv, OrderIsKeptIfInv DEF ValuesSurvive

\* A value comes back, is found, and stays in its place, for all the types
\* that properties of these classes have, and for all versions of the app.
THEOREM ValuesSurviveAlways == ValuesSpec => []ValuesSurvive
  <1>1. ValuesSpec => []ValuesInv
    BY ValuesInvInit, ValuesInvStep, PTL DEF ValuesSpec
  <1> QED
    BY <1>1, ValuesSurviveIfInv, PTL

-----------------------------------------------------------------------------
(* Expressions: their texts                                                *)

Lexeme == Words \cup Marks \cup {"(", ")", "'s'"}

Piece == [token : Lexeme, spaces : 0..2]

Text == Seq(Piece)

\* A text that begins with a piece.
Prefixed(piece, rest) == <<piece>> \o rest

LEMMA TokensAre ==
  /\ {"OR", "AND", "LIKE", "REGEXP", "IN", "ISNULL", "BETWEEN", "ESCAPE", "LENGTH", "NOT"} \subseteq Lexeme
  /\ {"=", "<", "<<", "+", "-", "*", "||", "(", ")", "a", "1", "'s'"} \subseteq Lexeme
  BY DEF Lexeme, Words, Marks

LEMMA PieceFacts ==
  ASSUME NEW token \in Lexeme
  PROVE  /\ Bare(token) \in Piece /\ Bare(token).token = token /\ Bare(token).spaces = 0
         /\ Led(token) \in Piece /\ Led(token).token = token /\ Led(token).spaces = 1
         /\ Spaced(token) \in Piece /\ Spaced(token).token = token /\ Spaced(token).spaces = 2
  BY DEF Bare, Led, Spaced, Piece

LEMMA PrefixedFacts ==
  ASSUME NEW piece \in Piece, NEW rest \in Text
  PROVE  /\ Prefixed(piece, rest) \in Text
         /\ Prefixed(piece, rest) # <<>>
         /\ Head(Prefixed(piece, rest)) = piece
         /\ Tail(Prefixed(piece, rest)) = rest
         /\ NextToken(Prefixed(piece, rest)) = piece.token
  <1>1. <<piece>> \in Seq(Piece) /\ Len(<<piece>>) = 1 /\ <<piece>>[1] = piece /\ rest \in Seq(Piece)
    BY DEF Text
  <1> DEFINE s == <<piece>>
             t == s \o rest
  <1>2. s \in Seq(Piece) /\ Len(s) = 1 /\ s[1] = piece
    BY <1>1
  <1> HIDE DEF s
  <1>3. t \in Seq(Piece) /\ Len(t) = 1 + Len(rest)
        /\ \A k \in 1..1 + Len(rest) : t[k] = IF k =< 1 THEN s[k] ELSE rest[k - 1]
    <2>1. /\ s \o rest \in Seq(Piece) /\ Len(s \o rest) = Len(s) + Len(rest)
          /\ \A k \in 1..Len(s) + Len(rest) : (s \o rest)[k] = IF k =< Len(s) THEN s[k] ELSE rest[k - Len(s)]
      BY <1>1, <1>2, ConcatProperties
    <2> QED
      BY <1>2, <2>1, Zenon
  <1>4. Len(rest) \in Nat
    BY <1>1, LenProperties
  <1> HIDE DEF t
  <1>5. t # <<>>
    BY <1>3, <1>4, EmptySeq
  <1>6. t[1] = piece
    BY <1>2, <1>3, <1>4
  <1>7. Head(t) = piece
    BY <1>3, <1>5, <1>6
  <1>8. Tail(t) \in Seq(Piece) /\ Len(Tail(t)) = Len(rest) /\ \A k \in 1..Len(Tail(t)) : Tail(t)[k] = t[k + 1]
    <2>1. Tail(t) \in Seq(Piece) /\ Len(Tail(t)) = Len(t) - 1 /\ \A k \in 1..Len(Tail(t)) : Tail(t)[k] = t[k + 1]
      BY <1>3, <1>5, HeadTailProperties
    <2> QED
      BY <1>3, <1>4, <2>1
  <1>9. \A k \in 1..Len(rest) : Tail(t)[k] = rest[k]
    <2> SUFFICES ASSUME NEW k \in 1..Len(rest) PROVE Tail(t)[k] = rest[k]
      OBVIOUS
    <2>1. k + 1 \in 1..1 + Len(rest) /\ ~ (k + 1 =< 1) /\ (k + 1) - 1 = k
      BY <1>4
    <2>2. t[k + 1] = rest[k]
      BY <1>3, <2>1
    <2> QED
      BY <1>8, <2>2
  <1>10. Tail(t) = rest
    BY <1>1, <1>8, <1>9, SeqEqual
  <1> QED
    BY <1>3, <1>5, <1>7, <1>10 DEF Prefixed, Text, s, t, NextToken

-----------------------------------------------------------------------------
(* Expressions: the steps of the reader                                    *)

\* The states that the reader comes to are in every set that it does not
\* leave.
Reaches(r, q) == \A S : r \in S /\ (\A x \in S : ReadOn(x) \in S) => q \in S

\* The reader stays where it is, before the end.
Stuck(r) == ReadOn(r) = r /\ r.rest # <<>>

\* What the reader does with a text of the expression e: if that is plain it
\* reads on to q, or else it may be stuck.
Leads(e, r, q) == Reaches(r, q) \/ (~ e.plain /\ \E x : Reaches(r, x) /\ Stuck(x))

LEMMA ReachesSelf == \A r : Reaches(r, r)
  BY DEF Reaches

LEMMA ReachesNext == \A r, q : ReadOn(r) = q => Reaches(r, q)
  BY DEF Reaches

LEMMA ReachesThen == \A r, q, p : Reaches(r, q) /\ Reaches(q, p) => Reaches(r, p)
  BY DEF Reaches

LEMMA LeadsIf == \A e, r, q : Reaches(r, q) => Leads(e, r, q)
  BY DEF Leads

LEMMA LeadsThen ==
  ASSUME NEW e, NEW r, NEW q, NEW p, Leads(e, r, q), Leads(e, q, p)
  PROVE  Leads(e, r, p)
  BY ReachesThen DEF Leads

LEMMA LeadsWeaker ==
  ASSUME NEW e, NEW f, NEW r, NEW q, f.plain => e.plain, Leads(e, r, q)
  PROVE  Leads(f, r, q)
  BY DEF Leads

LEMMA ReadingFacts ==
  \A w, o, s : /\ Reading(w, o, s).waiting = w
               /\ Reading(w, o, s).operand = o
               /\ Reading(w, o, s).rest = s
  BY DEF Reading

LEMMA WaitingFacts ==
  \A node, need, close, behind :
      LET w == Waiting(node, need, close, behind)
      IN  w.node = node /\ w.need = need /\ w.close = close /\ w.behind = behind
  BY DEF Waiting

LEMMA OneIsSome == \A t : <<t>> # <<>> /\ <<t>>[1] = t
  OBVIOUS

LEMMA AppendIs ==
  ASSUME NEW S, NEW s \in Seq(S), NEW t \in S, NEW u \in Seq(S), Len(u) = Len(s) + 1,
         u[Len(u)] = t, \A k \in 1..Len(s) : u[k] = s[k]
  PROVE  Append(s, t) = u
  <1>1. /\ Append(s, t) \in Seq(S) /\ Len(Append(s, t)) = Len(s) + 1
        /\ \A k \in 1..Len(s) : Append(s, t)[k] = s[k]
        /\ Append(s, t)[Len(s) + 1] = t
    BY AppendProperties
  <1>2. Len(s) \in Nat
    BY LenProperties
  <1>3. \A k \in 1..Len(s)+1 : k = Len(s) + 1 \/ k \in 1..Len(s)
    BY <1>2
  <1>4. \A k \in 1..Len(s)+1 : Append(s, t)[k] = u[k]
    BY <1>1, <1>3
  <1> QED
    BY <1>1, <1>4, SeqEqual

LEMMA AppendOne == ASSUME NEW x, NEW t PROVE Append(<<x>>, t) = <<x, t>>
  <1> DEFINE S == {x, t}
             s == <<x>>
             u == <<x, t>>
  <1>1. s \in Seq(S) /\ t \in S /\ u \in Seq(S) /\ Len(s) = 1 /\ Len(u) = 2 /\ u[2] = t /\ u[1] = s[1]
     OBVIOUS
  <1> HIDE DEF S, s, u
  <1>2. Len(u) = Len(s) + 1 /\ u[Len(u)] = t
    BY <1>1
  <1>3. \A k \in 1..Len(s) : u[k] = s[k]
    BY <1>1
  <1>4. Append(s, t) = u
    BY <1>1, <1>2, <1>3, AppendIs
  <1> QED
    BY <1>4 DEF s, u

LEMMA AppendTwo == ASSUME NEW x, NEW y, NEW t PROVE Append(<<x, y>>, t) = <<x, y, t>>
  <1> DEFINE S == {x, y, t}
             s == <<x, y>>
             u == <<x, y, t>>
  <1>1. s \in Seq(S) /\ t \in S /\ u \in Seq(S) /\ Len(s) = 2 /\ Len(u) = 3 /\ u[3] = t /\ u[1] = s[1] /\ u[2] = s[2]
     OBVIOUS
  <1> HIDE DEF S, s, u
  <1>2. Len(u) = Len(s) + 1 /\ u[Len(u)] = t
    BY <1>1
  <1>3. \A k \in 1..Len(s) : u[k] = s[k]
    BY <1>1
  <1>4. Append(s, t) = u
    BY <1>1, <1>2, <1>3, AppendIs
  <1> QED
    BY <1>4 DEF s, u

LEMMA AppendThree == ASSUME NEW x, NEW y, NEW z, NEW t PROVE Append(<<x, y, z>>, t) = <<x, y, z, t>>
  <1> DEFINE S == {x, y, z, t}
             s == <<x, y, z>>
             u == <<x, y, z, t>>
  <1>1. s \in Seq(S) /\ t \in S /\ u \in Seq(S) /\ Len(s) = 3 /\ Len(u) = 4 /\ u[4] = t /\ u[1] = s[1] /\ u[2] = s[2] /\ u[3] = s[3]
     OBVIOUS
  <1> HIDE DEF S, s, u
  <1>2. Len(u) = Len(s) + 1 /\ u[Len(u)] = t
    BY <1>1
  <1>3. \A k \in 1..Len(s) : u[k] = s[k]
    BY <1>1
  <1>4. Append(s, t) = u
    BY <1>1, <1>2, <1>3, AppendIs
  <1> QED
    BY <1>4 DEF s, u


\* The reader without and with an operand.
Wanting(w, s) == Reading(w, <<>>, s)
Holding(w, t, s) == Reading(w, <<t>>, s)

LEMMA ReadsOperand ==
  ASSUME NEW w, NEW x \in Piece, NEW s \in Text
  PROVE  LET r == Wanting(w, Prefixed(x, s))
         IN  /\ x.token \in {"a", "1", "'s'"} => Reaches(r, Holding(w, <<x.token>>, s))
             /\ x.token = "NOT" => Reaches(r, Wanting(Waiting(<<"NOT">>, 3, "", w), s))
             /\ x.token = "-" => Reaches(r, Wanting(Waiting(<<"-">>, 11, "", w), s))
             /\ x.token = "(" => Reaches(r, Wanting(Waiting(<<>>, 1, ")", w), s))
  <1> DEFINE r == Wanting(w, Prefixed(x, s))
  <1>1. /\ r.operand = <<>> /\ r.waiting = w /\ Tail(r.rest) = s /\ NextToken(r.rest) = x.token
    BY PrefixedFacts, ReadingFacts DEF Wanting
  <1> HIDE DEF r
  <1>2. ReadOn(r) = ReadOperand(r)
    BY <1>1 DEF ReadOn
  <1>3. x.token \in {"a", "1", "'s'"} => ReadOn(r) = Holding(w, <<x.token>>, s)
    BY <1>1, <1>2 DEF ReadOperand, Holding
  <1>4. x.token = "NOT" => ReadOn(r) = Wanting(Waiting(<<"NOT">>, 3, "", w), s)
    BY <1>1, <1>2 DEF ReadOperand, Wanting
  <1>5. x.token = "-" => ReadOn(r) = Wanting(Waiting(<<"-">>, 11, "", w), s)
    BY <1>1, <1>2 DEF ReadOperand, Wanting
  <1>6. x.token = "(" => ReadOn(r) = Wanting(Waiting(<<>>, 1, ")", w), s)
    BY <1>1, <1>2 DEF ReadOperand, Wanting
  <1>7. /\ x.token \in {"a", "1", "'s'"} => Reaches(r, Holding(w, <<x.token>>, s))
        /\ x.token = "NOT" => Reaches(r, Wanting(Waiting(<<"NOT">>, 3, "", w), s))
        /\ x.token = "-" => Reaches(r, Wanting(Waiting(<<"-">>, 11, "", w), s))
        /\ x.token = "(" => Reaches(r, Wanting(Waiting(<<>>, 1, ")", w), s))
    BY <1>3, <1>4, <1>5, <1>6, ReachesNext
  <1> QED
    BY <1>7 DEF r

\* length, which has its own bracket.
LEMMA ReadsLength ==
  ASSUME NEW w, NEW s \in Text
  PROVE  Reaches(Wanting(w, Prefixed(Bare("LENGTH"), Prefixed(Bare("("), s))),
                 Wanting(Waiting(<<"LENGTH">>, 1, ")", w), s))
  <1> DEFINE x == Bare("LENGTH")
             y == Bare("(")
             open == Prefixed(y, s)
             r == Wanting(w, Prefixed(x, open))
  <1>0. x \in Piece /\ x.token = "LENGTH" /\ y \in Piece /\ y.token = "("
    BY TokensAre, PieceFacts
  <1> HIDE DEF x, y
  <1>1. open \in Text /\ NextToken(open) = "(" /\ Tail(open) = s
    BY <1>0, PrefixedFacts
  <1> HIDE DEF open
  <1>2. /\ r.operand = <<>> /\ r.waiting = w /\ Tail(r.rest) = open /\ NextToken(r.rest) = "LENGTH"
    BY <1>0, <1>1, PrefixedFacts, ReadingFacts DEF Wanting
  <1> HIDE DEF r
  <1>3. ReadOn(r) = ReadOperand(r)
    BY <1>2 DEF ReadOn
  <1>4. ReadOn(r) = Wanting(Waiting(<<"LENGTH">>, 1, ")", w), s)
    BY <1>1, <1>2, <1>3 DEF ReadOperand, Wanting
  <1>5. Reaches(r, Wanting(Waiting(<<"LENGTH">>, 1, ")", w), s))
    BY <1>4, ReachesNext
  <1> QED
    BY <1>5 DEF r, open, x, y

\* The operand that the reader has is the left one.
LEMMA ReadsLeft ==
  ASSUME NEW w, NEW t, NEW x \in Piece, NEW s \in Text, Strength(x.token) >= w.need
  PROVE  LET r == Holding(w, t, Prefixed(x, s))
         IN  /\ x.token = "ISNULL" => Reaches(r, Holding(w, <<"ISNULL", t>>, s))
             /\ x.token = "BETWEEN" => Reaches(r, Wanting(Waiting(<<"BETWEEN", t>>, 3, "AND", w), s))
             /\ x.token \notin {"ISNULL", "BETWEEN", "IN"}
                    => Reaches(r, Wanting(Waiting(<<x.token, t>>, Strength(x.token) + 1, "", w), s))
             /\ x.token = "IN" /\ NextToken(s) = "("
                    => Reaches(r, Wanting(Waiting(<<"IN", t>>, 1, ")", w), Tail(s)))
  <1> DEFINE r == Holding(w, t, Prefixed(x, s))
  <1>1. /\ r.operand = <<t>> /\ r.waiting = w /\ Tail(r.rest) = s /\ NextToken(r.rest) = x.token
    BY PrefixedFacts, ReadingFacts DEF Holding
  <1> HIDE DEF r
  <1>2. r.operand # <<>> /\ r.operand[1] = t
    BY <1>1, OneIsSome
  <1>3. ReadOn(r) = ReadLeft(r)
    BY <1>1, <1>2 DEF ReadOn
  <1>4. x.token = "ISNULL" => ReadOn(r) = Holding(w, <<"ISNULL", t>>, s)
    BY <1>1, <1>2, <1>3 DEF ReadLeft, Holding
  <1>5. x.token = "BETWEEN" => ReadOn(r) = Wanting(Waiting(<<"BETWEEN", t>>, 3, "AND", w), s)
    BY <1>1, <1>2, <1>3 DEF ReadLeft, Wanting
  <1>6. x.token \notin {"ISNULL", "BETWEEN", "IN"}
            => ReadOn(r) = Wanting(Waiting(<<x.token, t>>, Strength(x.token) + 1, "", w), s)
    BY <1>1, <1>2, <1>3 DEF ReadLeft, Wanting
  <1>7. x.token = "IN" /\ NextToken(s) = "(" => ReadOn(r) = Wanting(Waiting(<<"IN", t>>, 1, ")", w), Tail(s))
    BY <1>1, <1>2, <1>3 DEF ReadLeft, Wanting
  <1>8. /\ x.token = "ISNULL" => Reaches(r, Holding(w, <<"ISNULL", t>>, s))
        /\ x.token = "BETWEEN" => Reaches(r, Wanting(Waiting(<<"BETWEEN", t>>, 3, "AND", w), s))
        /\ x.token \notin {"ISNULL", "BETWEEN", "IN"}
               => Reaches(r, Wanting(Waiting(<<x.token, t>>, Strength(x.token) + 1, "", w), s))
        /\ x.token = "IN" /\ NextToken(s) = "("
               => Reaches(r, Wanting(Waiting(<<"IN", t>>, 1, ")", w), Tail(s)))
    BY <1>4, <1>5, <1>6, <1>7, ReachesNext
  <1> QED
    BY <1>8 DEF r

\* The operand is the right one of a node that waits.
LEMMA ReadsRight ==
  ASSUME NEW node, NEW need, NEW close, NEW w, NEW t, NEW s \in Text,
         ~ (Strength(NextToken(s)) >= need)
  PROVE  LET r == Holding(Waiting(node, need, close, w), t, s)
             token == NextToken(s)
         IN  /\ close = "" /\ (token = "ESCAPE" => ~ TakesEscape(node))
                    => Reaches(r, Holding(w, Append(node, t), s))
             /\ close = ")" /\ token = ")" /\ node # <<>>
                    => Reaches(r, Holding(w, Append(node, t), Tail(s)))
             /\ close = ")" /\ token = ")" /\ node = <<>> => Reaches(r, Holding(w, t, Tail(s)))
             /\ close = "AND" /\ token = "AND"
                    => Reaches(r, Wanting(Waiting(Append(node, t), 5, "", w), Tail(s)))
             /\ close = "" /\ token = "ESCAPE" /\ TakesEscape(node)
                    => Reaches(r, Wanting(Waiting(Append(node, t), 7, "", w), Tail(s)))
             /\ close = ")" /\ token = "ESCAPE" => ReadOn(r) = r
  <1> DEFINE r == Holding(Waiting(node, need, close, w), t, s)
             token == NextToken(s)
             last == r.waiting
  <1>1. /\ r.operand = <<t>> /\ r.waiting = Waiting(node, need, close, w) /\ r.rest = s
    BY ReadingFacts DEF Holding
  <1>2. last.node = node /\ last.need = need /\ last.close = close /\ last.behind = w
    BY <1>1, WaitingFacts
  <1>3. r.operand # <<>> /\ r.operand[1] = t
    BY <1>1, OneIsSome
  <1> HIDE DEF r
  <1>4. ReadOn(r) = ReadRight(r)
    BY <1>1, <1>2, <1>3 DEF ReadOn
  <1>5. close = "" /\ (token = "ESCAPE" => ~ TakesEscape(node)) => ReadOn(r) = Holding(w, Append(node, t), s)
    BY <1>1, <1>2, <1>3, <1>4 DEF ReadRight, Holding
  <1>6. close = ")" /\ token = ")" /\ node # <<>> => ReadOn(r) = Holding(w, Append(node, t), Tail(s))
    BY <1>1, <1>2, <1>3, <1>4 DEF ReadRight, Holding
  <1>7. close = ")" /\ token = ")" /\ node = <<>> => ReadOn(r) = Holding(w, t, Tail(s))
    BY <1>1, <1>2, <1>3, <1>4 DEF ReadRight, Holding
  <1>8. close = "AND" /\ token = "AND" => ReadOn(r) = Wanting(Waiting(Append(node, t), 5, "", w), Tail(s))
    BY <1>1, <1>2, <1>3, <1>4 DEF ReadRight, Wanting
  <1>9. close = "" /\ token = "ESCAPE" /\ TakesEscape(node)
            => ReadOn(r) = Wanting(Waiting(Append(node, t), 7, "", w), Tail(s))
    BY <1>1, <1>2, <1>3, <1>4 DEF ReadRight, Wanting
  <1>10. close = ")" /\ token = "ESCAPE" => ReadOn(r) = r
    BY <1>1, <1>2, <1>3, <1>4 DEF ReadRight
  <1> HIDE DEF last, token
  <1>11. /\ close = "" /\ (token = "ESCAPE" => ~ TakesEscape(node))
               => Reaches(r, Holding(w, Append(node, t), s))
         /\ close = ")" /\ token = ")" /\ node # <<>>
               => Reaches(r, Holding(w, Append(node, t), Tail(s)))
         /\ close = ")" /\ token = ")" /\ node = <<>> => Reaches(r, Holding(w, t, Tail(s)))
         /\ close = "AND" /\ token = "AND"
               => Reaches(r, Wanting(Waiting(Append(node, t), 5, "", w), Tail(s)))
         /\ close = "" /\ token = "ESCAPE" /\ TakesEscape(node)
               => Reaches(r, Wanting(Waiting(Append(node, t), 7, "", w), Tail(s)))
    BY <1>5, <1>6, <1>7, <1>8, <1>9, ReachesNext
  <1> QED
    BY <1>10, <1>11 DEF r, token

-----------------------------------------------------------------------------
(* Expressions: texts one after the other                                  *)

Ending(s) == s[Len(s)]

LEMMA JoinFacts ==
  ASSUME NEW s \in Text, s # <<>>, NEW u \in Text, u # <<>>
  PROVE  /\ s \o u \in Text
         /\ s \o u # <<>>
         /\ Head(s \o u) = Head(s)
         /\ Ending(s \o u) = Ending(u)
         /\ Clean(s \o u) <=> Clean(s) /\ Clean(u) /\ Apart(Ending(s), Head(u))
  <1> DEFINE v == s \o u
             m == Len(s)
             n == Len(u)
  <1>1. /\ v \in Seq(Piece) /\ Len(v) = m + n
        /\ \A k \in 1..m + n : v[k] = IF k =< m THEN s[k] ELSE u[k - m]
    BY ConcatProperties DEF Text
  <1>2. m \in Nat /\ m # 0 /\ n \in Nat /\ n # 0
    BY LenProperties, EmptySeq DEF Text
  <1>3. Head(s) = s[1] /\ Head(u) = u[1] /\ Ending(s) = s[m] /\ Ending(u) = u[n] /\ Ending(v) = v[Len(v)]
    BY DEF Ending, Text
  <1> HIDE DEF v, m, n
  <1>4. \A k \in 1..m : v[k] = s[k]
    BY <1>1, <1>2
  <1>5. \A k \in 1..n : v[m + k] = u[k]
    <2> SUFFICES ASSUME NEW k \in 1..n PROVE v[m + k] = u[k]
      OBVIOUS
    <2>1. m + k \in 1..m + n /\ ~ (m + k =< m) /\ (m + k) - m = k
      BY <1>2
    <2> QED
      BY <1>1, <2>1
  <1>6. v # <<>>
    BY <1>1, <1>2, EmptySeq
  <1>7. Head(v) = Head(s)
    <2>1. Head(v) = v[1]
      BY <1>1, <1>6
    <2> QED
      BY <1>2, <1>3, <1>4, <2>1
  <1>8. Ending(v) = Ending(u)
    BY <1>1, <1>2, <1>3, <1>5
  <1>9. Clean(v) <=> \A k \in 1..m + n - 1 : Apart(v[k], v[k + 1])
    <2>1. 1..Len(v)-1 = 1..m + n - 1
      BY <1>1, <1>2
    <2>2. Clean(v) <=> \A k \in 1..Len(v)-1 : Apart(v[k], v[k + 1])
      BY DEF Clean
    <2> QED
      BY <2>1, <2>2
  <1>10. Clean(s) <=> \A k \in 1..m - 1 : Apart(s[k], s[k + 1])
    BY DEF Clean, m
  <1>11. Clean(u) <=> \A k \in 1..n - 1 : Apart(u[k], u[k + 1])
    BY DEF Clean, n
  <1>12. \A k \in 1..m - 1 : k \in 1..m + n - 1 /\ v[k] = s[k] /\ v[k + 1] = s[k + 1]
    BY <1>2, <1>4
  <1>13. \A k \in 1..n - 1 : m + k \in 1..m + n - 1 /\ v[m + k] = u[k] /\ v[(m + k) + 1] = u[k + 1]
    <2> SUFFICES ASSUME NEW k \in 1..n - 1
                 PROVE  m + k \in 1..m + n - 1 /\ v[m + k] = u[k] /\ v[(m + k) + 1] = u[k + 1]
      OBVIOUS
    <2>1. k \in 1..n /\ k + 1 \in 1..n /\ (m + k) + 1 = m + (k + 1) /\ m + k \in 1..m + n - 1
      BY <1>2
    <2> QED
      BY <1>5, <2>1
  <1>14. m \in 1..m + n - 1 /\ v[m] = Ending(s) /\ v[m + 1] = Head(u)
    BY <1>2, <1>3, <1>4, <1>5
  <1>15. ASSUME NEW k \in 1..m + n - 1 PROVE k \in 1..m - 1 \/ k = m \/ \E j \in 1..n - 1 : k = m + j
    <2>1. CASE k > m
      <3>1. k - m \in 1..n - 1 /\ k = m + (k - m)
        BY <1>2, <2>1
      <3> QED
        BY <3>1
    <2>2. CASE ~ (k > m)
      BY <1>2, <2>2
    <2> QED
      BY <2>1, <2>2
  <1>16. Clean(v) <=> Clean(s) /\ Clean(u) /\ Apart(Ending(s), Head(u))
    <2>1. ASSUME Clean(v) PROVE Clean(s) /\ Clean(u) /\ Apart(Ending(s), Head(u))
      <3>1. \A k \in 1..m - 1 : Apart(s[k], s[k + 1])
        BY <1>9, <1>12, <2>1
      <3>2. \A k \in 1..n - 1 : Apart(u[k], u[k + 1])
        BY <1>9, <1>13, <2>1
      <3>3. Apart(Ending(s), Head(u))
        BY <1>9, <1>14, <2>1
      <3> QED
        BY <1>10, <1>11, <3>1, <3>2, <3>3
    <2>2. ASSUME Clean(s), Clean(u), Apart(Ending(s), Head(u)) PROVE Clean(v)
      <3> SUFFICES ASSUME NEW k \in 1..m + n - 1 PROVE Apart(v[k], v[k + 1])
        BY <1>9
      <3>1. CASE k \in 1..m - 1
        BY <1>10, <1>12, <2>2, <3>1
      <3>2. CASE k = m
        BY <1>14, <2>2, <3>2
      <3>3. CASE \E j \in 1..n - 1 : k = m + j
        BY <1>11, <1>13, <2>2, <3>3
      <3> QED
        BY <1>15, <3>1, <3>2, <3>3
    <2> QED
      BY <2>1, <2>2
  <1> QED
    BY <1>1, <1>6, <1>7, <1>8, <1>16 DEF v, Text

LEMMA SingleFacts ==
  ASSUME NEW x \in Piece
  PROVE  /\ <<x>> \in Text /\ <<x>> # <<>> /\ Head(<<x>>) = x /\ Ending(<<x>>) = x /\ Clean(<<x>>)
  BY DEF Text, Ending, Clean

LEMMA PairIs == ASSUME NEW x \in Piece, NEW y \in Piece PROVE <<x, y>> = <<x>> \o <<y>>
  <1> DEFINE s == <<x>>
             u == <<y>>
             v == <<x, y>>
  <1>1. s \in Seq(Piece) /\ u \in Seq(Piece) /\ v \in Seq(Piece) /\ Len(s) = 1 /\ Len(u) = 1 /\ Len(v) = 2
        /\ s[1] = x /\ u[1] = y /\ v[1] = x /\ v[2] = y
    OBVIOUS
  <1> HIDE DEF s, u, v
  <1>2. s \o u \in Seq(Piece) /\ Len(s \o u) = Len(s) + Len(u)
        /\ \A k \in 1..Len(s) + Len(u) : (s \o u)[k] = IF k =< Len(s) THEN s[k] ELSE u[k - Len(s)]
    BY <1>1, ConcatProperties
  <1>3. Len(s \o u) = Len(v) /\ (s \o u)[1] = s[1] /\ (s \o u)[2] = u[1]
    BY <1>1, <1>2
  <1>4. \A k \in 1..Len(v) : k = 1 \/ k = 2
    BY <1>1
  <1>5. \A k \in 1..Len(v) : (s \o u)[k] = v[k]
    BY <1>1, <1>3, <1>4
  <1>6. s \o u = v
    BY <1>1, <1>2, <1>3, <1>5, SeqEqual
  <1> QED
    BY <1>6 DEF s, u, v

LEMMA PairFacts ==
  ASSUME NEW x \in Piece, NEW y \in Piece
  PROVE  /\ <<x, y>> \in Text /\ <<x, y>> # <<>> /\ Head(<<x, y>>) = x /\ Ending(<<x, y>>) = y
         /\ Clean(<<x, y>>) <=> Apart(x, y)
         /\ \A rest \in Text : <<x, y>> \o rest = Prefixed(x, Prefixed(y, rest))
  <1> DEFINE s == <<x>>
             u == <<y>>
  <1>1. s \in Text /\ s # <<>> /\ Head(s) = x /\ Ending(s) = x /\ Clean(s)
    BY SingleFacts
  <1>2. u \in Text /\ u # <<>> /\ Head(u) = y /\ Ending(u) = y /\ Clean(u)
    BY SingleFacts
  <1>3. <<x, y>> = s \o u
    BY PairIs
  <1>4. ASSUME NEW rest \in Text PROVE <<x, y>> \o rest = Prefixed(x, Prefixed(y, rest))
    <2>1. (s \o u) \o rest = s \o (u \o rest)
      BY <1>1, <1>2, ConcatAssociative DEF Text
    <2> QED
      BY <1>3, <2>1 DEF Prefixed
  <1> HIDE DEF s, u
  <1>5. /\ s \o u \in Text /\ s \o u # <<>> /\ Head(s \o u) = x /\ Ending(s \o u) = y
        /\ Clean(s \o u) <=> Apart(x, y)
    BY <1>1, <1>2, JoinFacts
  <1> QED
    BY <1>3, <1>4, <1>5

LEMMA Joins ==
  ASSUME NEW s \in Text, NEW u \in Text, NEW rest \in Text
  PROVE  /\ u \o rest \in Text
         /\ (s \o u) \o rest = s \o (u \o rest)
  BY ConcatAssociative, ConcatProperties DEF Text

LEMMA Brackets ==
  /\ Bare("(") \in Piece /\ Bare("(").token = "(" /\ Bare("(").spaces = 0
  /\ Bare(")") \in Piece /\ Bare(")").token = ")" /\ Bare(")").spaces = 0
  /\ \A x : Apart(x, Bare(")")) /\ Apart(Bare("("), x)
  <1>1. /\ Bare("(") \in Piece /\ Bare("(").token = "(" /\ Bare("(").spaces = 0
        /\ Bare(")") \in Piece /\ Bare(")").token = ")" /\ Bare(")").spaces = 0
    BY TokensAre, PieceFacts
  <1>2. "(" \notin Words /\ ")" \notin Words
    BY DEF Words
  <1>3. \A x : Apart(x, Bare(")")) /\ Apart(Bare("("), x)
    BY <1>1, <1>2 DEF Apart
  <1> QED
    BY <1>1, <1>3

LEMMA MoreFacts ==
  ASSUME NEW front \in Text, front # <<>>, NEW body \in Text, body # <<>>, NEW x \in Piece
  PROVE  LET whole == front \o body \o <<x>>
         IN  /\ whole \in Text /\ whole # <<>> /\ Head(whole) = Head(front) /\ Ending(whole) = x
             /\ Clean(whole) <=> /\ Clean(front) /\ Clean(body)
                                 /\ Apart(Ending(front), Head(body)) /\ Apart(Ending(body), x)
             /\ \A rest \in Text : whole \o rest = front \o (body \o Prefixed(x, rest))
  <1> DEFINE most == front \o body
             last == <<x>>
             whole == most \o last
  <1>1. /\ most \in Text /\ most # <<>> /\ Head(most) = Head(front) /\ Ending(most) = Ending(body)
        /\ Clean(most) <=> Clean(front) /\ Clean(body) /\ Apart(Ending(front), Head(body))
    BY JoinFacts
  <1>2. /\ last \in Text /\ last # <<>> /\ Head(last) = x /\ Ending(last) = x /\ Clean(last)
    BY SingleFacts
  <1>3. ASSUME NEW rest \in Text PROVE whole \o rest = front \o (body \o Prefixed(x, rest))
    <2> HIDE DEF most, last
    <2>1. last \o rest \in Text /\ (most \o last) \o rest = most \o (last \o rest)
      BY <1>1, <1>2, Joins, ZenonT(30)
    <2>2. (front \o body) \o (last \o rest) = front \o (body \o (last \o rest))
      BY <2>1, Joins
    <2> QED
      BY <2>1, <2>2 DEF Prefixed, most, last
  <1> HIDE DEF most, last
  <1>4. /\ whole \in Text /\ whole # <<>> /\ Head(whole) = Head(most) /\ Ending(whole) = Ending(last)
        /\ Clean(whole) <=> Clean(most) /\ Clean(last) /\ Apart(Ending(most), Head(last))
    BY <1>1, <1>2, JoinFacts
  <1>5. /\ Head(whole) = Head(front) /\ Ending(whole) = x
        /\ Clean(whole) <=> /\ Clean(front) /\ Clean(body)
                            /\ Apart(Ending(front), Head(body)) /\ Apart(Ending(body), x)
    BY <1>1, <1>2, <1>4
  <1>6. \A rest \in Text : whole \o rest = front \o (body \o Prefixed(x, rest))
    BY <1>3
  <1> HIDE DEF whole
  <1>7. /\ whole \in Text /\ whole # <<>> /\ Head(whole) = Head(front) /\ Ending(whole) = x
        /\ Clean(whole) <=> /\ Clean(front) /\ Clean(body)
                            /\ Apart(Ending(front), Head(body)) /\ Apart(Ending(body), x)
        /\ \A rest \in Text : whole \o rest = front \o (body \o Prefixed(x, rest))
    BY <1>4, <1>5, <1>6
  <1> QED
    BY <1>7 DEF whole, most, last

\* What ends with a bracket.
LEMMA EnclosedFacts ==
  ASSUME NEW front \in Text, front # <<>>, NEW body \in Text, body # <<>>
  PROVE  LET whole == front \o body \o <<Bare(")")>>
         IN  /\ whole \in Text /\ whole # <<>> /\ Head(whole) = Head(front) /\ Ending(whole) = Bare(")")
             /\ Clean(whole) <=> Clean(front) /\ Clean(body) /\ Apart(Ending(front), Head(body))
             /\ \A rest \in Text : whole \o rest = front \o (body \o Prefixed(Bare(")"), rest))
  <1> DEFINE c == Bare(")")
             whole == front \o body \o <<c>>
  <1>1. c \in Piece /\ \A x : Apart(x, c)
    BY Brackets
  <1> HIDE DEF c
  <1>2. /\ whole \in Text /\ whole # <<>> /\ Head(whole) = Head(front) /\ Ending(whole) = c
        /\ Clean(whole) <=> /\ Clean(front) /\ Clean(body)
                            /\ Apart(Ending(front), Head(body)) /\ Apart(Ending(body), c)
        /\ \A rest \in Text : whole \o rest = front \o (body \o Prefixed(c, rest))
    BY <1>1, MoreFacts
  <1> HIDE DEF whole
  <1>3. Clean(whole) <=> Clean(front) /\ Clean(body) /\ Apart(Ending(front), Head(body))
    BY <1>1, <1>2
  <1> QED
    BY <1>2, <1>3 DEF whole, c

\* What begins with a bracket.
LEMMA OpenFacts ==
  ASSUME NEW body \in Text, body # <<>>, NEW x \in Piece
  PROVE  LET whole == <<Bare("(")>> \o body \o <<x>>
         IN  /\ whole \in Text /\ whole # <<>> /\ Head(whole) = Bare("(") /\ Ending(whole) = x
             /\ Clean(whole) <=> Clean(body) /\ Apart(Ending(body), x)
             /\ \A rest \in Text : whole \o rest = Prefixed(Bare("("), body \o Prefixed(x, rest))
  <1> DEFINE y == Bare("(")
             front == <<y>>
             whole == front \o body \o <<x>>
  <1>1. y \in Piece /\ \A z : Apart(y, z)
    BY Brackets
  <1>2. front \in Text /\ front # <<>> /\ Head(front) = y /\ Ending(front) = y /\ Clean(front)
    BY <1>1, SingleFacts
  <1>3. \A rest : Prefixed(y, rest) = front \o rest
    BY DEF Prefixed
  <1> HIDE DEF front, y
  <1>4. /\ whole \in Text /\ whole # <<>> /\ Head(whole) = Head(front) /\ Ending(whole) = x
        /\ Clean(whole) <=> /\ Clean(front) /\ Clean(body)
                            /\ Apart(Ending(front), Head(body)) /\ Apart(Ending(body), x)
        /\ \A rest \in Text : whole \o rest = front \o (body \o Prefixed(x, rest))
    BY <1>2, MoreFacts
  <1> HIDE DEF whole
  <1>5. /\ whole \in Text /\ whole # <<>> /\ Head(whole) = y /\ Ending(whole) = x
        /\ Clean(whole) <=> Clean(body) /\ Apart(Ending(body), x)
        /\ \A rest \in Text : whole \o rest = Prefixed(y, body \o Prefixed(x, rest))
    BY <1>1, <1>2, <1>3, <1>4
  <1> QED
    BY <1>5 DEF whole, front, y

-----------------------------------------------------------------------------
(* Expressions: what the reader makes of them                              *)

NotOf(w) == Waiting(<<"NOT">>, 3, "", w)

\* What is read is what the app means, if and only if the expression is plain.
Means(e, t) == (t = e.tree) <=> e.plain

\* The text is an operand wherever it stands.
Solid(e) ==
    /\ ~ IsNot(e) /\ ~ IsIn(e)
    /\ \A w : \A s \in Text : \E t : Means(e, t) /\ Leads(e, Wanting(w, e.text \o s), Holding(w, t, s))

\* Behind a strong operator only its first part is the operand, and the rest
\* takes what becomes of the operator.
Loose(e) ==
    /\ IsIn(e)
    /\ \A w : \A s \in Text : w.need \in 1..4 =>
           /\ \E t : Means(e, t) /\ Leads(e, Wanting(w, e.text \o s), Holding(w, t, s))
           /\ \A node : \A need \in 5..11 : \E y :
                  /\ y[1] = "IN"
                  /\ Leads(e, Wanting(Waiting(node, need, "", w), e.text \o s), Holding(w, y, s))

\* NOT takes what comes behind the text.
Negative(e) ==
    /\ IsNot(e) \/ ~ e.plain
    /\ \A w : \A s \in Text : \E x :
           Means(e, <<"NOT", x>>) /\ Leads(e, Wanting(w, e.text \o s), Holding(NotOf(w), x, s))

\* The text cannot be read.
Lost(e) == ~ e.plain /\ ~ Clean(e.text)

Shaped(e) ==
    /\ e.text \in Text /\ e.text # <<>>
    /\ Head(e.text).spaces = 0
    /\ Ending(e.text).token # "-"
    /\ e.plain \in BOOLEAN
    /\ e.plain => Clean(e.text)
    /\ e.tree # Failure

Legible(e) == Shaped(e) /\ (Lost(e) \/ Solid(e) \/ Loose(e) \/ Negative(e))

LEMMA StrengthIs ==
  /\ \A x : Strength(x) \in 0..10
  /\ Strength(")") = 0 /\ Strength("ESCAPE") = 0 /\ Strength("end") = 0
  /\ Strength("OR") = 1 /\ Strength("AND") = 2
  /\ \A x \in {"=", "LIKE", "REGEXP", "IN", "ISNULL", "BETWEEN"} : Strength(x) = 4
  /\ \A x \in Marks : Strength(x) \in 4..10
  BY DEF Strength, Marks

\* Before what is weaker than NOT, and where nothing stronger than IN is
\* needed, the whole text is the operand.
LEMMA WeakReads ==
  ASSUME NEW e, Legible(e), ~ Lost(e), NEW w, w.need \in 1..4,
         NEW s \in Text, Strength(NextToken(s)) < 3
  PROVE  \E t : Means(e, t) /\ Leads(e, Wanting(w, e.text \o s), Holding(w, t, s))
  <1>1. CASE Solid(e) \/ Loose(e)
    BY <1>1 DEF Solid, Loose
  <1>2. CASE Negative(e)
    <2>1. PICK x : Means(e, <<"NOT", x>>) /\ Leads(e, Wanting(w, e.text \o s), Holding(NotOf(w), x, s))
      BY <1>2 DEF Negative
    <2>2. ~ (Strength(NextToken(s)) >= 3)
      BY StrengthIs
    <2>3. ~ TakesEscape(<<"NOT">>)
      BY DEF TakesEscape
    <2>4. Reaches(Holding(NotOf(w), x, s), Holding(w, Append(<<"NOT">>, x), s))
      BY <2>2, <2>3, ReadsRight DEF NotOf
    <2>5. Leads(e, Holding(NotOf(w), x, s), Holding(w, <<"NOT", x>>, s))
      BY <2>4, AppendOne, LeadsIf
    <2>6. Leads(e, Wanting(w, e.text \o s), Holding(w, <<"NOT", x>>, s))
      BY <2>1, <2>5, LeadsThen
    <2> QED
      BY <2>1, <2>6
  <1> QED
    BY <1>1, <1>2 DEF Legible

LEMMA BracketReads ==
  ASSUME NEW e, Legible(e), ~ Lost(e), NEW node, NEW w, NEW s \in Text
  PROVE  \E t : /\ Means(e, t)
                /\ Leads(e, Wanting(Waiting(node, 1, ")", w), e.text \o Prefixed(Bare(")"), s)),
                         Holding(w, IF node = <<>> THEN t ELSE Append(node, t), s))
  <1> DEFINE v == Waiting(node, 1, ")", w)
             u == Prefixed(Bare(")"), s)
  <1>1. u \in Text /\ NextToken(u) = ")" /\ Tail(u) = s
    BY Brackets, PrefixedFacts
  <1>2. v.need \in 1..4
    BY WaitingFacts
  <1> HIDE DEF u
  <1>3. Strength(NextToken(u)) < 3 /\ ~ (Strength(NextToken(u)) >= 1)
    BY <1>1, StrengthIs
  <1>4. PICK t : Means(e, t) /\ Leads(e, Wanting(v, e.text \o u), Holding(v, t, u))
    <2> HIDE DEF v
    <2> QED
      BY <1>1, <1>2, <1>3, WeakReads
  <1>5. Reaches(Holding(v, t, u), Holding(w, IF node = <<>> THEN t ELSE Append(node, t), s))
    BY <1>1, <1>3, ReadsRight
  <1>6. Leads(e, Holding(v, t, u), Holding(w, IF node = <<>> THEN t ELSE Append(node, t), s))
    BY <1>5, LeadsIf
  <1>7. Leads(e, Wanting(v, e.text \o u), Holding(w, IF node = <<>> THEN t ELSE Append(node, t), s))
    BY <1>4, <1>6, LeadsThen
  <1> QED
    BY <1>4, <1>7 DEF u

-----------------------------------------------------------------------------
(* Expressions of one operand                                              *)

LEMMA EnclosedShape ==
  ASSUME NEW e, Shaped(e), NEW front \in Text, front # <<>>, Clean(front), Head(front).spaces = 0,
         Ending(front) = Bare("("), NEW f, f.text = front \o e.text \o <<Bare(")")>>,
         f.plain \in BOOLEAN, f.plain => e.plain, f.tree # Failure
  PROVE  Shaped(f) /\ (Lost(e) => Lost(f))
  <1>1. e.text \in Text /\ e.text # <<>>
    BY DEF Shaped
  <1> DEFINE whole == front \o e.text \o <<Bare(")")>>
  <1>2. /\ whole \in Text /\ whole # <<>> /\ Head(whole) = Head(front) /\ Ending(whole) = Bare(")")
        /\ Clean(whole) <=> Clean(front) /\ Clean(e.text) /\ Apart(Ending(front), Head(e.text))
    BY <1>1, EnclosedFacts
  <1> HIDE DEF whole
  <1>3. f.text = whole
    BY DEF whole
  <1>4. Ending(whole).token # "-"
    BY <1>2, Brackets
  <1>5. Clean(whole) <=> Clean(e.text)
    BY <1>2, Brackets
  <1> QED
    BY <1>2, <1>3, <1>4, <1>5 DEF Shaped, Lost

LEMMA FunctionIs == ASSUME NEW e, Legible(e) PROVE Legible(Function(e))
  <1> DEFINE f == Function(e)
             x == Bare("LENGTH")
             y == Bare("(")
             front == <<x, y>>
  <1>1. /\ f.form = "LENGTH" /\ f.tree = <<"LENGTH", e.tree>> /\ f.plain = e.plain
        /\ f.text = front \o e.text \o <<Bare(")")>>
    BY DEF Function, Expr
  <1>2. x \in Piece /\ x.token = "LENGTH" /\ x.spaces = 0 /\ y \in Piece
    BY TokensAre, PieceFacts
  <1>3. Apart(x, y)
    <2>1. "(" \notin Words /\ y.token = "("
      BY Brackets DEF Words
    <2> QED
      BY <1>2, <2>1 DEF Apart
  <1>4. /\ front \in Text /\ front # <<>> /\ Head(front) = x /\ Ending(front) = y
        /\ Clean(front) <=> Apart(x, y)
        /\ \A rest \in Text : front \o rest = Prefixed(x, Prefixed(y, rest))
    BY <1>2, PairFacts
  <1>5. Shaped(e) /\ e.text \in Text /\ e.text # <<>> /\ e.plain \in BOOLEAN
    BY DEF Legible, Shaped
  <1>6. f.tree # Failure
    BY <1>1 DEF Failure
  <1>7. f.plain \in BOOLEAN
    BY <1>1, <1>5
  <1> HIDE DEF f, front
  <1>8. Shaped(f) /\ (Lost(e) => Lost(f))
    <2>1. Clean(front) /\ Head(front).spaces = 0 /\ Ending(front) = Bare("(")
      BY <1>2, <1>3, <1>4
    <2> QED
      BY <1>1, <1>4, <1>5, <1>6, <1>7, <2>1, EnclosedShape
  <1>9. ASSUME ~ Lost(e) PROVE Solid(f)
    <2>1. ~ IsNot(f) /\ ~ IsIn(f)
      BY <1>1 DEF IsNot, IsIn
    <2>2. ASSUME NEW w, NEW s \in Text
          PROVE  \E t : Means(f, t) /\ Leads(f, Wanting(w, f.text \o s), Holding(w, t, s))
      <3> DEFINE inner == e.text \o Prefixed(Bare(")"), s)
                 v == Waiting(<<"LENGTH">>, 1, ")", w)
      <3>1. PICK t : Means(e, t) /\ Leads(e, Wanting(v, inner),
                                           Holding(w, IF <<"LENGTH">> = <<>> THEN t ELSE Append(<<"LENGTH">>, t), s))
        BY <1>9, BracketReads
      <3>2. Prefixed(Bare(")"), s) \in Text
        BY Brackets, PrefixedFacts
      <3>3. inner \in Text
        BY <1>5, <3>2, Joins
      <3>4. f.text \o s = Prefixed(x, Prefixed(y, inner))
        <4>1. (front \o e.text \o <<Bare(")")>>) \o s = front \o inner
          BY <1>4, <1>5, EnclosedFacts DEF inner
        <4> QED
          BY <1>1, <1>4, <3>3, <4>1
      <3> HIDE DEF inner
      <3>5. Reaches(Wanting(w, f.text \o s), Wanting(v, inner))
        BY <3>3, <3>4, ReadsLength
      <3>6. (IF <<"LENGTH">> = <<>> THEN t ELSE Append(<<"LENGTH">>, t)) = <<"LENGTH", t>>
        BY OneIsSome, AppendOne
      <3>7. Leads(e, Wanting(w, f.text \o s), Holding(w, <<"LENGTH", t>>, s))
        <4>1. Leads(e, Wanting(v, inner), Holding(w, <<"LENGTH", t>>, s))
          BY <3>1, <3>6, Zenon
        <4>2. Leads(e, Wanting(w, f.text \o s), Wanting(v, inner))
          BY <3>5, LeadsIf
        <4> HIDE DEF v
        <4> QED
          BY <4>1, <4>2, LeadsThen
      <3>8. Leads(f, Wanting(w, f.text \o s), Holding(w, <<"LENGTH", t>>, s))
        BY <1>1, <3>7, LeadsWeaker
      <3>9. Means(f, <<"LENGTH", t>>)
        BY <1>1, <3>1 DEF Means
      <3> QED
        BY <3>8, <3>9
    <2> QED
      BY <2>1, <2>2 DEF Solid
  <1> QED
    BY <1>8, <1>9 DEF Legible, f

LEMMA PlusIs == ASSUME NEW e, Legible(e) PROVE Legible(Plus(e))
  <1> DEFINE f == Plus(e)
             y == Bare("(")
             front == <<y>>
  <1>1. /\ f.form = "+" /\ f.tree = e.tree /\ f.plain = e.plain
        /\ f.text = front \o e.text \o <<Bare(")")>>
    BY DEF Plus, Expr
  <1>2. y \in Piece /\ y.token = "(" /\ y.spaces = 0
    BY Brackets
  <1>4. /\ front \in Text /\ front # <<>> /\ Head(front) = y /\ Ending(front) = y /\ Clean(front)
        /\ \A rest \in Text : front \o rest = Prefixed(y, rest)
    BY <1>2, SingleFacts DEF Prefixed
  <1>5. Shaped(e) /\ e.text \in Text /\ e.text # <<>> /\ e.plain \in BOOLEAN /\ e.tree # Failure
    BY DEF Legible, Shaped
  <1> HIDE DEF f, front
  <1>8. Shaped(f) /\ (Lost(e) => Lost(f))
    <2>1. Clean(front) /\ Head(front).spaces = 0 /\ Ending(front) = Bare("(")
      BY <1>2, <1>4
    <2>2. f.plain \in BOOLEAN /\ f.tree # Failure
      BY <1>1, <1>5
    <2> QED
      BY <1>1, <1>4, <1>5, <2>1, <2>2, EnclosedShape
  <1>9. ASSUME ~ Lost(e) PROVE Solid(f)
    <2>1. ~ IsNot(f) /\ ~ IsIn(f)
      BY <1>1 DEF IsNot, IsIn
    <2>2. ASSUME NEW w, NEW s \in Text
          PROVE  \E t : Means(f, t) /\ Leads(f, Wanting(w, f.text \o s), Holding(w, t, s))
      <3> DEFINE inner == e.text \o Prefixed(Bare(")"), s)
                 v == Waiting(<<>>, 1, ")", w)
      <3>1. PICK t : Means(e, t) /\ Leads(e, Wanting(v, inner),
                                           Holding(w, IF <<>> = <<>> THEN t ELSE Append(<<>>, t), s))
        BY <1>9, BracketReads
      <3>2. Prefixed(Bare(")"), s) \in Text
        BY Brackets, PrefixedFacts
      <3>3. inner \in Text
        BY <1>5, <3>2, Joins
      <3>4. f.text \o s = Prefixed(y, inner)
        <4>1. (front \o e.text \o <<Bare(")")>>) \o s = front \o inner
          BY <1>4, <1>5, EnclosedFacts DEF inner
        <4> QED
          BY <1>1, <1>4, <3>3, <4>1
      <3> HIDE DEF inner
      <3>5. Reaches(Wanting(w, f.text \o s), Wanting(v, inner))
        BY <1>2, <3>3, <3>4, ReadsOperand
      <3>7. Leads(e, Wanting(w, f.text \o s), Holding(w, t, s))
        BY <3>1, <3>5, LeadsIf, LeadsThen
      <3>8. Leads(f, Wanting(w, f.text \o s), Holding(w, t, s))
        BY <1>1, <3>7, LeadsWeaker
      <3>9. Means(f, t)
        BY <1>1, <3>1 DEF Means
      <3> QED
        BY <3>8, <3>9
    <2> QED
      BY <2>1, <2>2 DEF Solid
  <1> QED
    BY <1>8, <1>9 DEF Legible, f

\* What ! and unary - begin.
LEMMA PrefixReads ==
  ASSUME NEW e, Legible(e), ~ Lost(e), NEW op \in {"NOT", "-"}, NEW w, NEW s \in Text
  PROVE  LET v == IF op = "NOT" THEN NotOf(w) ELSE Waiting(<<"-">>, 11, "", w)
         IN  \E t : /\ Means(e, t)
                    /\ Leads(e, Wanting(w, (<<Bare(op), Bare("(")>> \o e.text \o <<Bare(")")>>) \o s), Holding(v, t, s))
  <1> DEFINE v == IF op = "NOT" THEN NotOf(w) ELSE Waiting(<<"-">>, 11, "", w)
             x == Bare(op)
             y == Bare("(")
             front == <<x, y>>
             inner == e.text \o Prefixed(Bare(")"), s)
             b == Waiting(<<>>, 1, ")", v)
             open == Prefixed(y, inner)
             whole == front \o e.text \o <<Bare(")")>>
  <1>1. x \in Piece /\ x.token = op /\ y \in Piece /\ y.token = "("
    BY TokensAre, PieceFacts
  <1>2. e.text \in Text /\ e.text # <<>>
    BY DEF Legible, Shaped
  <1>3. Prefixed(Bare(")"), s) \in Text
    BY Brackets, PrefixedFacts
  <1>4. inner \in Text
    BY <1>2, <1>3, Joins
  <1>5. open \in Text
    BY <1>1, <1>4, PrefixedFacts
  <1>6. whole \o s = Prefixed(x, open)
    <2>1. front \in Text /\ front # <<>> /\ \A rest \in Text : front \o rest = Prefixed(x, Prefixed(y, rest))
      BY <1>1, PairFacts
    <2> HIDE DEF front
    <2>2. whole \o s = front \o inner
      BY <1>2, <2>1, EnclosedFacts
    <2> QED
      BY <1>4, <2>1, <2>2
  <1> HIDE DEF whole
  <1>7. PICK t : Means(e, t) /\ Leads(e, Wanting(b, inner), Holding(v, IF <<>> = <<>> THEN t ELSE Append(<<>>, t), s))
    <2> HIDE DEF v
    <2> QED
      BY BracketReads
  <1>8. Reaches(Wanting(v, open), Wanting(b, inner))
    <2> HIDE DEF v, inner
    <2> QED
      BY <1>1, <1>4, ReadsOperand
  <1>9. Reaches(Wanting(w, whole \o s), Wanting(v, open))
    <2> HIDE DEF open, x
    <2> QED
      BY <1>1, <1>5, <1>6, ReadsOperand DEF NotOf
  <1>10. Leads(e, Wanting(w, whole \o s), Holding(v, t, s))
    <2> HIDE DEF v, inner, open, b
    <2> QED
      BY <1>7, <1>8, <1>9, LeadsIf, LeadsThen
  <1> QED
    BY <1>7, <1>10 DEF whole

LEMMA PrefixShape ==
  ASSUME NEW e, Shaped(e), NEW op \in {"NOT", "-"}, NEW f,
         f.text = <<Bare(op), Bare("(")>> \o e.text \o <<Bare(")")>>,
         f.plain = e.plain, f.tree = <<op, e.tree>>
  PROVE  Shaped(f) /\ (Lost(e) => Lost(f))
  <1> DEFINE x == Bare(op)
             y == Bare("(")
             front == <<x, y>>
  <1>1. x \in Piece /\ x.spaces = 0 /\ y \in Piece /\ y.token = "("
    BY TokensAre, PieceFacts
  <1>2. Apart(x, y)
    <2>1. "(" \notin Words
      BY DEF Words
    <2> QED
      BY <1>1, <2>1 DEF Apart
  <1>3. front \in Text /\ front # <<>> /\ Head(front) = x /\ Ending(front) = y /\ Clean(front)
    BY <1>1, <1>2, PairFacts
  <1>4. f.plain \in BOOLEAN /\ (f.plain => e.plain)
    BY DEF Shaped
  <1>5. f.tree # Failure
    BY DEF Failure
  <1> HIDE DEF front
  <1>6. Head(front).spaces = 0 /\ Ending(front) = Bare("(") /\ f.text = front \o e.text \o <<Bare(")")>>
    BY <1>1, <1>3 DEF front
  <1> QED
    BY <1>3, <1>4, <1>5, <1>6, EnclosedShape

LEMMA NotIs == ASSUME NEW e, Legible(e) PROVE Legible(Not(e))
  <1> DEFINE f == Not(e)
  <1>1. /\ f.form = "NOT" /\ f.tree = <<"NOT", e.tree>> /\ f.plain = e.plain
        /\ f.text = <<Bare("NOT"), Bare("(")>> \o e.text \o <<Bare(")")>>
    BY DEF Not, Expr
  <1> HIDE DEF f
  <1>2. Shaped(f) /\ (Lost(e) => Lost(f))
    BY <1>1, PrefixShape DEF Legible
  <1>3. ASSUME ~ Lost(e) PROVE Negative(f)
    <2>1. ASSUME NEW w, NEW s \in Text
          PROVE  \E x : /\ Means(f, <<"NOT", x>>)
                        /\ Leads(f, Wanting(w, f.text \o s), Holding(NotOf(w), x, s))
      <3>1. PICK t : Means(e, t) /\ Leads(e, Wanting(w, f.text \o s), Holding(NotOf(w), t, s))
        BY <1>1, <1>3, PrefixReads
      <3>2. Leads(f, Wanting(w, f.text \o s), Holding(NotOf(w), t, s))
        BY <1>1, <3>1, LeadsWeaker
      <3>3. Means(f, <<"NOT", t>>)
        BY <1>1, <3>1 DEF Means
      <3> QED
        BY <3>2, <3>3
    <2> QED
      BY <1>1, <2>1 DEF Negative, IsNot
  <1> QED
    BY <1>2, <1>3 DEF Legible, f

LEMMA MinusIs == ASSUME NEW e, Legible(e) PROVE Legible(Minus(e))
  <1> DEFINE f == Minus(e)
  <1>1. /\ f.form = "-" /\ f.tree = <<"-", e.tree>> /\ f.plain = e.plain
        /\ f.text = <<Bare("-"), Bare("(")>> \o e.text \o <<Bare(")")>>
    BY DEF Minus, Expr
  <1> HIDE DEF f
  <1>2. Shaped(f) /\ (Lost(e) => Lost(f))
    BY <1>1, PrefixShape DEF Legible
  <1>3. ASSUME ~ Lost(e) PROVE Solid(f)
    <2>1. ASSUME NEW w, NEW s \in Text
          PROVE  \E t : Means(f, t) /\ Leads(f, Wanting(w, f.text \o s), Holding(w, t, s))
      <3> DEFINE v == Waiting(<<"-">>, 11, "", w)
      <3>1. PICK t : Means(e, t) /\ Leads(e, Wanting(w, f.text \o s), Holding(v, t, s))
        BY <1>1, <1>3, PrefixReads
      <3>2. ~ (Strength(NextToken(s)) >= 11)
        BY StrengthIs
      <3>3. ~ TakesEscape(<<"-">>)
        BY DEF TakesEscape
      <3>4. Reaches(Holding(v, t, s), Holding(w, Append(<<"-">>, t), s))
        BY <3>2, <3>3, ReadsRight
      <3>5. Leads(e, Holding(v, t, s), Holding(w, <<"-", t>>, s))
        BY <3>4, AppendOne, LeadsIf
      <3> HIDE DEF v
      <3>6. Leads(e, Wanting(w, f.text \o s), Holding(w, <<"-", t>>, s))
        BY <3>1, <3>5, LeadsThen
      <3>7. Leads(f, Wanting(w, f.text \o s), Holding(w, <<"-", t>>, s))
        BY <1>1, <3>6, LeadsWeaker
      <3>8. Means(f, <<"-", t>>)
        BY <1>1, <3>1 DEF Means
      <3> QED
        BY <3>7, <3>8
    <2>2. ~ IsNot(f) /\ ~ IsIn(f)
      BY <1>1 DEF IsNot, IsIn
    <2> QED
      BY <2>1, <2>2 DEF Solid
  <1> QED
    BY <1>2, <1>3 DEF Legible, f

-----------------------------------------------------------------------------
(* Expressions of two operands                                             *)

\* The operand before an operator that is at least as strong as IN; behind
\* NOT, the operator goes to what NOT is applied to.
LEMMA LeftReads ==
  ASSUME NEW e, Legible(e), ~ Lost(e), NEW w, w.need \in 1..4, NEW s \in Text
  PROVE  \E h, x : /\ h.need \in 1..4
                   /\ \/ h = w /\ Means(e, x) /\ ~ IsNot(e)
                      \/ h = NotOf(w) /\ (IsNot(e) \/ ~ e.plain)
                   /\ Leads(e, Wanting(w, e.text \o s), Holding(h, x, s))
  <1>1. CASE Solid(e)
    <2>1. PICK x : Means(e, x) /\ Leads(e, Wanting(w, e.text \o s), Holding(w, x, s))
      BY <1>1 DEF Solid
    <2>2. ~ IsNot(e)
      BY <1>1 DEF Solid
    <2> QED
      BY <2>1, <2>2
  <1>2. CASE Loose(e)
    <2>1. PICK x : Means(e, x) /\ Leads(e, Wanting(w, e.text \o s), Holding(w, x, s))
      BY <1>2 DEF Loose
    <2>2. ~ IsNot(e)
      BY <1>2 DEF Loose, IsNot, IsIn
    <2> QED
      BY <2>1, <2>2
  <1>3. CASE Negative(e)
    <2>1. PICK x : Leads(e, Wanting(w, e.text \o s), Holding(NotOf(w), x, s))
      BY <1>3 DEF Negative
    <2>2. IsNot(e) \/ ~ e.plain
      BY <1>3 DEF Negative
    <2>3. NotOf(w).need \in 1..4
      BY DEF NotOf, Waiting
    <2> QED
      BY <2>1, <2>2, <2>3
  <1> QED
    BY <1>1, <1>2, <1>3 DEF Legible

\* The operand behind an operator that is stronger than IN; of x IN (y) only
\* x is that operand, and IN takes what the operator makes of it.
LEMMA RightReads ==
  ASSUME NEW e, Legible(e), ~ Lost(e), NEW node, NEW need \in 5..11, NEW w, w.need \in 1..4,
         NEW s \in Text, Strength(NextToken(s)) < 3
  PROVE  LET v == Waiting(node, need, "", w)
         IN  \/ /\ ~ IsIn(e) \/ ~ e.plain
                /\ \E y : Means(e, y) /\ Leads(e, Wanting(v, e.text \o s), Holding(v, y, s))
             \/ IsIn(e) /\ \E y : y[1] = "IN" /\ Leads(e, Wanting(v, e.text \o s), Holding(w, y, s))
  <1> DEFINE v == Waiting(node, need, "", w)
  <1>1. CASE Solid(e)
    <2> HIDE DEF v
    <2>1. PICK y : Means(e, y) /\ Leads(e, Wanting(v, e.text \o s), Holding(v, y, s))
      BY <1>1 DEF Solid
    <2>2. ~ IsIn(e)
      BY <1>1 DEF Solid
    <2>3. \/ /\ ~ IsIn(e) \/ ~ e.plain
             /\ \E y_1 : Means(e, y_1) /\ Leads(e, Wanting(v, e.text \o s), Holding(v, y_1, s))
          \/ IsIn(e) /\ \E y_1 : y_1[1] = "IN" /\ Leads(e, Wanting(v, e.text \o s), Holding(w, y_1, s))
      BY <2>1, <2>2
    <2> QED
      BY <2>3 DEF v
  <1>2. CASE Loose(e)
    <2>1. \E y : y[1] = "IN" /\ Leads(e, Wanting(v, e.text \o s), Holding(w, y, s))
      BY <1>2 DEF Loose
    <2>2. IsIn(e)
      BY <1>2 DEF Loose
    <2> QED
      BY <2>1, <2>2
  <1>3. CASE Negative(e)
    <2> HIDE DEF v
    <2>1. PICK x : Means(e, <<"NOT", x>>) /\ Leads(e, Wanting(v, e.text \o s), Holding(NotOf(v), x, s))
      BY <1>3 DEF Negative
    <2>2. ~ (Strength(NextToken(s)) >= 3)
      BY StrengthIs
    <2>3. ~ TakesEscape(<<"NOT">>)
      BY DEF TakesEscape
    <2>4. Reaches(Holding(NotOf(v), x, s), Holding(v, Append(<<"NOT">>, x), s))
      BY <2>2, <2>3, ReadsRight DEF NotOf
    <2>5. Leads(e, Holding(NotOf(v), x, s), Holding(v, <<"NOT", x>>, s))
      BY <2>4, AppendOne, LeadsIf
    <2>6. Leads(e, Wanting(v, e.text \o s), Holding(v, <<"NOT", x>>, s))
      BY <2>1, <2>5, LeadsThen
    <2>7. ~ IsIn(e) \/ ~ e.plain
      BY <1>3 DEF Negative, IsNot, IsIn
    <2>8. \/ /\ ~ IsIn(e) \/ ~ e.plain
             /\ \E y : Means(e, y) /\ Leads(e, Wanting(v, e.text \o s), Holding(v, y, s))
          \/ IsIn(e) /\ \E y : y[1] = "IN" /\ Leads(e, Wanting(v, e.text \o s), Holding(w, y, s))
      BY <2>1, <2>6, <2>7
    <2> QED
      BY <2>8 DEF v
  <1> QED
    BY <1>1, <1>2, <1>3 DEF Legible

\* IN behind an operand.
LEMMA InReads ==
  ASSUME NEW e, Legible(e), ~ Lost(e), NEW w, w.need \in 1..4, NEW x, NEW s \in Text
  PROVE  \E t : /\ Means(e, t)
                /\ Leads(e, Holding(w, x, Prefixed(Led("IN"), Prefixed(Bare("("), e.text \o Prefixed(Bare(")"), s)))),
                         Holding(w, <<"IN", x, t>>, s))
  <1> DEFINE inner == e.text \o Prefixed(Bare(")"), s)
             p == Led("IN")
             q == Bare("(")
             open == Prefixed(q, inner)
             v == Waiting(<<"IN", x>>, 1, ")", w)
  <1>1. p \in Piece /\ p.token = "IN" /\ q \in Piece /\ q.token = "("
    BY TokensAre, PieceFacts
  <1>2. inner \in Text
    <2>1. Prefixed(Bare(")"), s) \in Text /\ e.text \in Text
      BY Brackets, PrefixedFacts DEF Legible, Shaped
    <2> QED
      BY <2>1, Joins
  <1>3. PICK t : /\ Means(e, t)
                 /\ Leads(e, Wanting(v, inner), Holding(w, IF <<"IN", x>> = <<>> THEN t ELSE Append(<<"IN", x>>, t), s))
    BY BracketReads
  <1>4. (IF <<"IN", x>> = <<>> THEN t ELSE Append(<<"IN", x>>, t)) = <<"IN", x, t>>
    BY AppendTwo
  <1> HIDE DEF p, q, inner, v
  <1>5. open \in Text /\ NextToken(open) = "(" /\ Tail(open) = inner
    BY <1>1, <1>2, PrefixedFacts
  <1> HIDE DEF open
  <1>6. Strength(p.token) >= w.need
    BY <1>1, StrengthIs
  <1>7. Reaches(Holding(w, x, Prefixed(p, open)), Wanting(v, inner))
    BY <1>1, <1>5, <1>6, ReadsLeft DEF v
  <1>8. Leads(e, Holding(w, x, Prefixed(p, open)), Wanting(v, inner))
    BY <1>7, LeadsIf
  <1>9. Leads(e, Wanting(v, inner), Holding(w, <<"IN", x, t>>, s))
    BY <1>3, <1>4, Zenon
  <1>10. Leads(e, Holding(w, x, Prefixed(p, open)), Holding(w, <<"IN", x, t>>, s))
    BY <1>8, <1>9, LeadsThen
  <1> QED
    BY <1>3, <1>10 DEF p, q, inner, open

LEMMA InText ==
  ASSUME NEW e, Shaped(e), NEW l, Shaped(l)
  PROVE  LET f == In(e, l)
         IN  /\ Shaped(f)
             /\ Lost(e) \/ Lost(l) => Lost(f)
             /\ \A s \in Text : f.text \o s = e.text \o Prefixed(Led("IN"),
                                    Prefixed(Bare("("), l.text \o Prefixed(Bare(")"), s)))
  <1> DEFINE f == In(e, l)
             p == Led("IN")
             q == Bare("(")
             pair == <<p, q>>
             front == e.text \o pair
             whole == front \o l.text \o <<Bare(")")>>
  <1>1. p \in Piece /\ p.spaces = 1 /\ q \in Piece /\ q.token = "("
    BY TokensAre, PieceFacts
  <1>2. (\A x : Apart(x, p)) /\ Apart(p, q)
    <2>1. "(" \notin Words
      BY DEF Words
    <2> QED
      BY <1>1, <2>1 DEF Apart
  <1>3. /\ e.text \in Text /\ e.text # <<>> /\ Head(e.text).spaces = 0 /\ e.plain \in BOOLEAN
        /\ e.plain => Clean(e.text)
        /\ l.text \in Text /\ l.text # <<>> /\ l.plain \in BOOLEAN /\ (l.plain => Clean(l.text))
    BY DEF Shaped
  <1>4. /\ f.form = "IN" /\ f.tree = <<"IN", e.tree, l.tree>> /\ f.text = whole
        /\ f.plain = (e.plain /\ l.plain /\ ~ IsNot(e))
    BY DEF In, Expr
  <1>5. f.tree # Failure
    BY <1>4 DEF Failure
  <1> HIDE DEF f
  <1>6. f.plain \in BOOLEAN /\ (f.plain => e.plain /\ l.plain)
    BY <1>3, <1>4
  <1>7. /\ pair \in Text /\ pair # <<>> /\ Head(pair) = p /\ Ending(pair) = q /\ Clean(pair)
        /\ \A rest \in Text : pair \o rest = Prefixed(p, Prefixed(q, rest))
    BY <1>1, <1>2, PairFacts
  <1> HIDE DEF pair
  <1>8. /\ front \in Text /\ front # <<>> /\ Head(front) = Head(e.text) /\ Ending(front) = q
        /\ Clean(front) <=> Clean(e.text)
    BY <1>2, <1>3, <1>7, JoinFacts
  <1>9. \A z : Apart(q, z)
    BY Brackets
  <1> HIDE DEF front
  <1>10. /\ whole \in Text /\ whole # <<>> /\ Head(whole) = Head(front) /\ Ending(whole) = Bare(")")
         /\ Clean(whole) <=> Clean(front) /\ Clean(l.text) /\ Apart(Ending(front), Head(l.text))
         /\ \A rest \in Text : whole \o rest = front \o (l.text \o Prefixed(Bare(")"), rest))
    <2>1. front \in Text /\ front # <<>> /\ l.text \in Text /\ l.text # <<>>
      BY <1>3, <1>8
    <2> QED
      BY <2>1, EnclosedFacts
  <1>11. ASSUME NEW s \in Text
         PROVE  whole \o s = e.text \o Prefixed(p, Prefixed(q, l.text \o Prefixed(Bare(")"), s)))
    <2> DEFINE inner == l.text \o Prefixed(Bare(")"), s)
    <2> HIDE DEF whole
    <2>1. inner \in Text
      <3>1. Prefixed(Bare(")"), s) \in Text
        BY Brackets, PrefixedFacts
      <3> QED
        BY <1>3, <3>1, Joins
    <2>2. whole \o s = front \o inner
      BY <1>10
    <2> HIDE DEF inner
    <2>3. front \o inner = e.text \o (pair \o inner)
      <3>1. e.text \in Text /\ pair \in Text
        BY <1>3, <1>7
      <3>2. (e.text \o pair) \o inner = e.text \o (pair \o inner)
        BY <2>1, <3>1, Joins
      <3> QED
        BY <3>2 DEF front
    <2>4. front \o inner = e.text \o Prefixed(p, Prefixed(q, inner))
      BY <1>7, <2>1, <2>3
    <2> QED
      BY <2>2, <2>4 DEF inner
  <1>12. Clean(whole) <=> Clean(e.text) /\ Clean(l.text)
    BY <1>8, <1>9, <1>10
  <1>13. Head(whole).spaces = 0 /\ Ending(whole).token # "-"
    BY <1>3, <1>8, <1>10, Brackets
  <1> HIDE DEF whole
  <1>14. Shaped(f)
    BY <1>3, <1>4, <1>5, <1>6, <1>10, <1>12, <1>13 DEF Shaped
  <1>15. Lost(e) \/ Lost(l) => Lost(f)
    BY <1>4, <1>6, <1>12 DEF Lost
  <1>16. \A s \in Text : f.text \o s = e.text \o Prefixed(p, Prefixed(q, l.text \o Prefixed(Bare(")"), s)))
    BY <1>4, <1>11
  <1> QED
    BY <1>14, <1>15, <1>16 DEF f

LEMMA InIs == ASSUME NEW e, Legible(e), NEW l, Legible(l) PROVE Legible(In(e, l))
  <1> DEFINE f == In(e, l)
             tail(s) == Prefixed(Led("IN"), Prefixed(Bare("("), l.text \o Prefixed(Bare(")"), s)))
  <1>1. Shaped(e) /\ Shaped(l)
    BY DEF Legible
  <1>2. /\ f.form = "IN" /\ f.tree = <<"IN", e.tree, l.tree>>
        /\ f.plain <=> (e.plain /\ l.plain /\ ~ IsNot(e))
    BY DEF In, Expr
  <1>3. /\ Shaped(f)
        /\ Lost(e) \/ Lost(l) => Lost(f)
        /\ \A s \in Text : f.text \o s = e.text \o tail(s)
    BY <1>1, InText, ZenonT(30)
  <1> HIDE DEF f
  <1>4. ASSUME NEW s \in Text PROVE tail(s) \in Text /\ NextToken(tail(s)) = "IN"
    <2>1. Prefixed(Bare(")"), s) \in Text /\ l.text \in Text
      BY <1>1, Brackets, PrefixedFacts DEF Shaped
    <2>2. l.text \o Prefixed(Bare(")"), s) \in Text
      BY <2>1, Joins
    <2>3. Prefixed(Bare("("), l.text \o Prefixed(Bare(")"), s)) \in Text
      BY <2>2, Brackets, PrefixedFacts
    <2>4. Led("IN") \in Piece /\ Led("IN").token = "IN"
      BY TokensAre, PieceFacts
    <2> QED
      BY <2>3, <2>4, PrefixedFacts
  <1>5. ASSUME ~ Lost(l), NEW w, w.need \in 1..4, NEW x, NEW s \in Text
        PROVE  \E t : Means(l, t) /\ Leads(f, Holding(w, x, tail(s)), Holding(w, <<"IN", x, t>>, s))
    <2>1. PICK t : Means(l, t) /\ Leads(l, Holding(w, x, tail(s)), Holding(w, <<"IN", x, t>>, s))
      BY <1>5, InReads
    <2>2. Leads(f, Holding(w, x, tail(s)), Holding(w, <<"IN", x, t>>, s))
      BY <1>2, <2>1, LeadsWeaker
    <2> QED
      BY <2>1, <2>2
  <1> HIDE DEF tail
  <1>6. \A r, q : Leads(e, r, q) => Leads(f, r, q)
    BY <1>2, LeadsWeaker
  <1>7. ASSUME ~ Lost(l), ~ IsNot(e), Solid(e) \/ Loose(e), NEW w, w.need \in 1..4, NEW s \in Text
        PROVE  \E t : Means(f, t) /\ Leads(f, Wanting(w, f.text \o s), Holding(w, t, s))
    <2>1. PICK x : Means(e, x) /\ Leads(e, Wanting(w, e.text \o tail(s)), Holding(w, x, tail(s)))
      BY <1>4, <1>7 DEF Solid, Loose
    <2>2. PICK t : Means(l, t) /\ Leads(f, Holding(w, x, tail(s)), Holding(w, <<"IN", x, t>>, s))
      BY <1>5, <1>7
    <2>3. Leads(f, Wanting(w, f.text \o s), Holding(w, x, tail(s)))
      BY <1>3, <1>6, <2>1
    <2>4. Leads(f, Wanting(w, f.text \o s), Holding(w, <<"IN", x, t>>, s))
      BY <2>2, <2>3, LeadsThen
    <2>5. Means(f, <<"IN", x, t>>)
      BY <1>2, <1>7, <2>1, <2>2 DEF Means
    <2> QED
      BY <2>4, <2>5
  <1>8. ASSUME ~ Lost(l), Solid(e) \/ Loose(e), NEW w, w.need \in 1..4, NEW s \in Text, NEW node, NEW need \in 5..11
        PROVE  \E y : y[1] = "IN" /\ Leads(f, Wanting(Waiting(node, need, "", w), f.text \o s), Holding(w, y, s))
    <2> DEFINE v == Waiting(node, need, "", w)
    <2>1. \E y : Leads(e, Wanting(v, e.text \o tail(s)), Holding(w, y, tail(s)))
      <3>1. CASE Solid(e)
        <4>1. PICK x : Leads(e, Wanting(v, e.text \o tail(s)), Holding(v, x, tail(s)))
          BY <1>4, <3>1 DEF Solid
        <4>2. ~ (Strength(NextToken(tail(s))) >= need) /\ NextToken(tail(s)) # "ESCAPE" /\ tail(s) \in Text
          BY <1>4, StrengthIs
        <4>3. Reaches(Holding(v, x, tail(s)), Holding(w, Append(node, x), tail(s)))
          BY <4>2, ReadsRight
        <4>4. Leads(e, Holding(v, x, tail(s)), Holding(w, Append(node, x), tail(s)))
          BY <4>3, LeadsIf
        <4> HIDE DEF v
        <4>5. Leads(e, Wanting(v, e.text \o tail(s)), Holding(w, Append(node, x), tail(s)))
          BY <4>1, <4>4, LeadsThen
        <4> QED
          BY <4>5
      <3>2. CASE Loose(e)
        BY <1>4, <1>8, <3>2 DEF Loose
      <3> QED
        BY <1>8, <3>1, <3>2
    <2> HIDE DEF v
    <2>2. PICK y : Leads(e, Wanting(v, e.text \o tail(s)), Holding(w, y, tail(s)))
      BY <2>1
    <2>3. PICK t : Leads(f, Holding(w, y, tail(s)), Holding(w, <<"IN", y, t>>, s))
      BY <1>5, <1>8
    <2>4. Leads(f, Wanting(v, f.text \o s), Holding(w, y, tail(s)))
      BY <1>3, <1>6, <2>2
    <2>5. Leads(f, Wanting(v, f.text \o s), Holding(w, <<"IN", y, t>>, s))
      BY <2>3, <2>4, LeadsThen
    <2>6. <<"IN", y, t>>[1] = "IN"
      OBVIOUS
    <2> QED
      BY <2>5, <2>6 DEF v
  <1>9. ASSUME ~ Lost(e), ~ Lost(l) PROVE Loose(f) \/ Negative(f)
    <2>1. CASE Solid(e) \/ Loose(e)
      <3>1. ~ IsNot(e)
        BY <2>1 DEF Solid, Loose, IsNot, IsIn
      <3>2. IsIn(f)
        BY <1>2 DEF IsIn
      <3>3. ASSUME NEW w, NEW s \in Text, w.need \in 1..4
            PROVE  /\ \E t : Means(f, t) /\ Leads(f, Wanting(w, f.text \o s), Holding(w, t, s))
                   /\ \A node : \A need \in 5..11 : \E y :
                          /\ y[1] = "IN"
                          /\ Leads(f, Wanting(Waiting(node, need, "", w), f.text \o s), Holding(w, y, s))
        <4>1. \E t : Means(f, t) /\ Leads(f, Wanting(w, f.text \o s), Holding(w, t, s))
          BY <1>7, <1>9, <2>1, <3>1, <3>3
        <4>2. ASSUME NEW node, NEW need \in 5..11
              PROVE  \E y : /\ y[1] = "IN"
                            /\ Leads(f, Wanting(Waiting(node, need, "", w), f.text \o s), Holding(w, y, s))
          BY <1>8, <1>9, <2>1, <3>3
        <4> QED
          BY <4>1, <4>2
      <3>4. Loose(f)
        BY <3>2, <3>3 DEF Loose
      <3> QED
        BY <3>4
    <2>2. CASE Negative(e)
      <3>1. ~ f.plain
        BY <1>2, <2>2 DEF Negative
      <3>2. ASSUME NEW w, NEW s \in Text
            PROVE  \E x : Means(f, <<"NOT", x>>) /\ Leads(f, Wanting(w, f.text \o s), Holding(NotOf(w), x, s))
        <4>1. PICK x : Leads(e, Wanting(w, e.text \o tail(s)), Holding(NotOf(w), x, tail(s)))
          BY <1>4, <2>2 DEF Negative
        <4>2. NotOf(w).need \in 1..4
          BY DEF NotOf, Waiting
        <4>3. PICK t : Leads(f, Holding(NotOf(w), x, tail(s)), Holding(NotOf(w), <<"IN", x, t>>, s))
          BY <1>5, <1>9, <4>2
        <4>4. Leads(f, Wanting(w, f.text \o s), Holding(NotOf(w), x, tail(s)))
          BY <1>3, <1>6, <4>1
        <4>5. Leads(f, Wanting(w, f.text \o s), Holding(NotOf(w), <<"IN", x, t>>, s))
          BY <4>3, <4>4, LeadsThen
        <4>6. Means(f, <<"NOT", <<"IN", x, t>>>>)
          BY <1>2, <3>1 DEF Means
        <4> QED
          BY <4>5, <4>6
      <3> QED
        BY <3>1, <3>2 DEF Negative
    <2> QED
      BY <1>9, <2>1, <2>2 DEF Legible
  <1> QED
    BY <1>3, <1>9 DEF Legible, f

-----------------------------------------------------------------------------
(* Expressions that the code puts into parentheses                         *)

Bracket(w) == Waiting(<<>>, 1, ")", w)

LEMMA PlacesFacts ==
  \A w : /\ Bracket(w).need = 1 /\ Bracket(w).close = ")" /\ NotOf(w).need = 3
         /\ Bracket(w).need \in 1..4 /\ NotOf(w).need \in 1..4
  BY DEF Bracket, NotOf, Waiting

LEMMA BeginReads ==
  ASSUME NEW f, NEW w, NEW s \in Text
  PROVE  Leads(f, Wanting(w, Prefixed(Bare("("), s)), Wanting(Bracket(w), s))
  BY Brackets, ReadsOperand, LeadsIf DEF Bracket

LEMMA LeadsNowhere ==
  ASSUME NEW f, ~ f.plain, NEW r, NEW x, Leads(f, r, x), Stuck(x), NEW q
  PROVE  Leads(f, r, q)
  BY DEF Leads

\* The last bracket, also behind NOT, which takes all that is in front of it.
LEMMA EndReads ==
  ASSUME NEW f, NEW w, NEW s \in Text, NEW r, NEW h, NEW z,
         \/ h = Bracket(w) /\ Means(f, z)
         \/ h = NotOf(Bracket(w)) /\ Means(f, <<"NOT", z>>),
         Leads(f, r, Holding(h, z, Prefixed(Bare(")"), s)))
  PROVE  \E t : Means(f, t) /\ Leads(f, r, Holding(w, t, s))
  <1> DEFINE u == Prefixed(Bare(")"), s)
             b == Bracket(w)
  <1>1. u \in Text /\ NextToken(u) = ")" /\ Tail(u) = s
    BY Brackets, PrefixedFacts
  <1> HIDE DEF u
  <1>2. ~ (Strength(NextToken(u)) >= 1) /\ ~ (Strength(NextToken(u)) >= 3) /\ NextToken(u) # "ESCAPE"
    BY <1>1, StrengthIs
  <1>3. ASSUME NEW t PROVE Leads(f, Holding(b, t, u), Holding(w, t, s))
    BY <1>1, <1>2, ReadsRight, LeadsIf DEF Bracket
  <1>4. CASE h = b /\ Means(f, z)
    <2>1. Leads(f, r, Holding(b, z, u))
      BY <1>4 DEF u
    <2>2. Leads(f, Holding(b, z, u), Holding(w, z, s))
      BY <1>3
    <2> HIDE DEF b
    <2>3. Leads(f, r, Holding(w, z, s))
      BY <2>1, <2>2, LeadsThen
    <2> QED
      BY <1>4, <2>3
  <1>5. CASE h = NotOf(b) /\ Means(f, <<"NOT", z>>)
    <2> HIDE DEF b
    <2>1. Leads(f, r, Holding(NotOf(b), z, u))
      BY <1>5 DEF u
    <2>2. Reaches(Holding(NotOf(b), z, u), Holding(b, Append(<<"NOT">>, z), u))
      BY <1>1, <1>2, ReadsRight DEF NotOf
    <2>3. Leads(f, Holding(NotOf(b), z, u), Holding(b, <<"NOT", z>>, u))
      BY <2>2, AppendOne, LeadsIf
    <2>4. Leads(f, Holding(b, <<"NOT", z>>, u), Holding(w, <<"NOT", z>>, s))
      BY <1>3
    <2>5. Leads(f, r, Holding(b, <<"NOT", z>>, u))
      BY <2>1, <2>3, LeadsThen
    <2>6. Leads(f, r, Holding(w, <<"NOT", z>>, s))
      BY <2>4, <2>5, LeadsThen
    <2> QED
      BY <1>5, <2>6
  <1> QED
    BY <1>4, <1>5 DEF b

LEMMA BracketIsWeak == Strength(")") < 3 /\ \A need \in 5..11 : ~ (Strength(")") >= need)
  BY StrengthIs

\* The last operand, of an operator that is stronger than IN.
LEMMA LastReads ==
  ASSUME NEW f, f.tree[1] \notin {"IN", "NOT"}, NEW e, Legible(e), ~ Lost(e),
         f.plain => e.plain, f.plain => ~ IsIn(e),
         NEW node, NEW need \in 5..11, NEW w, NEW h, h.need \in 1..4, NEW s \in Text, NEW r,
         Leads(f, r, Wanting(Waiting(node, need, "", h), e.text \o Prefixed(Bare(")"), s))),
         h = Bracket(w) \/ h = NotOf(Bracket(w)),
         \A y : Means(e, y) /\ (~ IsIn(e) \/ ~ e.plain) =>
             \/ h = Bracket(w) /\ Means(f, Append(node, y))
             \/ h = NotOf(Bracket(w)) /\ Means(f, <<"NOT", Append(node, y)>>)
  PROVE  \E t : Means(f, t) /\ Leads(f, r, Holding(w, t, s))
  <1> DEFINE u == Prefixed(Bare(")"), s)
             v == Waiting(node, need, "", h)
  <1>1. u \in Text /\ NextToken(u) = ")" /\ Tail(u) = s
    BY Brackets, PrefixedFacts
  <1>2. Leads(f, r, Wanting(v, e.text \o u))
    OBVIOUS
  <1> HIDE DEF u
  <1>3. Strength(NextToken(u)) < 3 /\ ~ (Strength(NextToken(u)) >= need) /\ NextToken(u) # "ESCAPE"
    <2>1. Strength(")") < 3 /\ ~ (Strength(")") >= need)
      BY BracketIsWeak, Zenon
    <2>2. ")" # "ESCAPE"
      OBVIOUS
    <2> QED
      BY <1>1, <2>1, <2>2, Zenon
  <1>4. \/ /\ ~ IsIn(e) \/ ~ e.plain
           /\ \E y : Means(e, y) /\ Leads(e, Wanting(v, e.text \o u), Holding(v, y, u))
        \/ IsIn(e) /\ \E y : y[1] = "IN" /\ Leads(e, Wanting(v, e.text \o u), Holding(h, y, u))
    BY <1>1, <1>3, RightReads
  <1>5. ASSUME NEW z, Leads(f, r, Holding(h, z, u)),
               \/ h = Bracket(w) /\ Means(f, z)
               \/ h = NotOf(Bracket(w)) /\ Means(f, <<"NOT", z>>)
        PROVE  \E t : Means(f, t) /\ Leads(f, r, Holding(w, t, s))
    BY <1>5, EndReads DEF u
  <1>6. CASE /\ ~ IsIn(e) \/ ~ e.plain
             /\ \E y : Means(e, y) /\ Leads(e, Wanting(v, e.text \o u), Holding(v, y, u))
    <2>1. PICK y : Means(e, y) /\ Leads(e, Wanting(v, e.text \o u), Holding(v, y, u))
      BY <1>6
    <2>2. Leads(f, Wanting(v, e.text \o u), Holding(v, y, u))
      BY <2>1, LeadsWeaker
    <2>3. Reaches(Holding(v, y, u), Holding(h, Append(node, y), u))
      BY <1>1, <1>3, ReadsRight
    <2>4. Leads(f, Holding(v, y, u), Holding(h, Append(node, y), u))
      BY <2>3, LeadsIf
    <2> HIDE DEF v
    <2>5. Leads(f, r, Holding(v, y, u))
      BY <1>2, <2>2, LeadsThen
    <2>6. Leads(f, r, Holding(h, Append(node, y), u))
      BY <2>4, <2>5, LeadsThen
    <2> QED
      BY <1>5, <1>6, <2>1, <2>6
  <1>7. CASE IsIn(e) /\ \E y : y[1] = "IN" /\ Leads(e, Wanting(v, e.text \o u), Holding(h, y, u))
    <2>1. PICK y : y[1] = "IN" /\ Leads(e, Wanting(v, e.text \o u), Holding(h, y, u))
      BY <1>7
    <2>2. Leads(f, Wanting(v, e.text \o u), Holding(h, y, u))
      BY <2>1, LeadsWeaker
    <2> HIDE DEF v
    <2>3. Leads(f, r, Holding(h, y, u))
      BY <1>2, <2>2, LeadsThen
    <2>4. ~ f.plain
      BY <1>7
    <2>5. Means(f, y)
      BY <2>1, <2>4 DEF Means
    <2>6. <<"NOT", y>>[1] = "NOT"
      OBVIOUS
    <2>7. Means(f, <<"NOT", y>>)
      BY <2>4, <2>6 DEF Means
    <2> QED
      BY <1>5, <2>3, <2>5, <2>7
  <1> QED
    BY <1>4, <1>6, <1>7

Infix == Spelled \cup Marks \cup {"REGEXP"}

LEMMA SpacesKeepApart ==
  \A token, x : Apart(x, Led(token)) /\ Apart(x, Spaced(token)) /\ Apart(Spaced(token), x)
  BY DEF Apart, Led, Spaced

LEMMA OperatorFacts ==
  ASSUME NEW op \in Infix
  PROVE  /\ Operator(op) \in Piece /\ Operator(op).token = op
         /\ \A x : x.token # "-" => Apart(x, Operator(op))
         /\ \A x : x.spaces = 0 => (Apart(Operator(op), x) <=> /\ op = "-" => x.token # "-"
                                                               /\ op = "REGEXP" => x.token \notin Words)
         /\ op \notin {"ISNULL", "BETWEEN", "IN", "NOT"}
         /\ op \in {"OR", "AND"} \/ Strength(op) \in 4..10
  <1>1. op \in Lexeme
    BY TokensAre DEF Infix, Spelled, Lexeme
  <1>2. CASE op \in Marks
    <2>1. Operator(op) = Bare(op) /\ op \notin Words /\ op # "REGEXP"
      BY <1>2 DEF Operator, Marks, Words
    <2>2. Operator(op) \in Piece /\ Operator(op).token = op /\ Operator(op).spaces = 0
      BY <1>1, <2>1, PieceFacts
    <2>3. \A x : x.token # "-" => Apart(x, Operator(op))
      BY <2>1, <2>2 DEF Apart
    <2>4. \A x : x.spaces = 0 => (Apart(Operator(op), x) <=> /\ op = "-" => x.token # "-"
                                                             /\ op = "REGEXP" => x.token \notin Words)
      BY <2>1, <2>2 DEF Apart
    <2>5. op \notin {"ISNULL", "BETWEEN", "IN", "NOT"} /\ Strength(op) \in 4..10
      BY <1>2, StrengthIs DEF Marks
    <2> QED
      BY <2>2, <2>3, <2>4, <2>5
  <1>3. CASE op \in Spelled
    <2>1. Operator(op) = Spaced(op) /\ op # "REGEXP" /\ op # "-"
      BY <1>3 DEF Operator, Marks, Spelled
    <2>2. op \notin {"ISNULL", "BETWEEN", "IN", "NOT"} /\ (op \in {"OR", "AND"} \/ Strength(op) \in 4..10)
      BY <1>3, StrengthIs DEF Spelled
    <2> QED
      BY <1>1, <2>1, <2>2, PieceFacts, SpacesKeepApart
  <1>4. CASE op = "REGEXP"
    <2>1. Operator(op) = Led(op) /\ op \in Words /\ op # "-"
      BY <1>4 DEF Operator, Marks, Spelled, Words
    <2>2. Operator(op) \in Piece /\ Operator(op).token = op /\ Operator(op).spaces = 1
      BY <1>1, <2>1, PieceFacts
    <2>3. \A x : Apart(x, Operator(op))
      BY <2>1, SpacesKeepApart
    <2>4. \A x : x.spaces = 0 => (Apart(Operator(op), x) <=> x.token \notin Words)
      BY <2>1, <2>2 DEF Apart
    <2>5. op \notin {"ISNULL", "BETWEEN", "IN", "NOT"} /\ Strength(op) \in 4..10
      BY <1>4, StrengthIs
    <2> QED
      BY <1>4, <2>1, <2>2, <2>3, <2>4, <2>5
  <1> QED
    BY <1>2, <1>3, <1>4 DEF Infix

LEMMA ShapedFacts ==
  ASSUME NEW e, Shaped(e)
  PROVE  /\ e.text \in Text /\ e.text # <<>> /\ Head(e.text).spaces = 0 /\ Ending(e.text).token # "-"
         /\ e.plain \in BOOLEAN /\ (e.plain => Clean(e.text)) /\ e.tree # Failure
  BY DEF Shaped

\* An operand and the bracket behind it.
LEMMA ClosedText == ASSUME NEW e, Shaped(e), NEW s \in Text PROVE e.text \o Prefixed(Bare(")"), s) \in Text
  <1>1. Prefixed(Bare(")"), s) \in Text /\ e.text \in Text
    BY Brackets, PrefixedFacts DEF Shaped
  <1> QED
    BY <1>1, Joins

LEMMA BinaryText ==
  ASSUME NEW op \in Infix, NEW l, Shaped(l), NEW r, Shaped(r)
  PROVE  LET f == Binary(op, l, r)
         IN  /\ Shaped(f)
             /\ Lost(l) \/ Lost(r) => Lost(f)
             /\ ~ Lost(f) => /\ op = "-" => BeginsWith(r) # "-"
                             /\ op = "REGEXP" => BeginsWith(r) \notin Words
             /\ \A s \in Text : f.text \o s =
                    Prefixed(Bare("("), l.text \o Prefixed(Operator(op), r.text \o Prefixed(Bare(")"), s)))
  <1> DEFINE f == Binary(op, l, r)
             p == Operator(op)
             front == <<Bare("(")>> \o l.text \o <<p>>
             whole == front \o r.text \o <<Bare(")")>>
             fits == /\ op = "-" => BeginsWith(r) # "-"
                     /\ op = "REGEXP" => BeginsWith(r) \notin Words
  <1>1. /\ p \in Piece /\ (Ending(l.text).token # "-" => Apart(Ending(l.text), p))
        /\ Head(r.text).spaces = 0 => (Apart(p, Head(r.text)) <=> fits)
    BY OperatorFacts DEF BeginsWith
  <1>2. /\ f.tree = <<op, l.tree, r.tree>> /\ f.text = whole /\ f.plain = BinaryIsPlain(op, l, r)
    BY DEF Binary, Expr
  <1>3. f.tree # Failure
    BY <1>2 DEF Failure
  <1>4. BinaryIsPlain(op, l, r) \in BOOLEAN /\ (BinaryIsPlain(op, l, r) => l.plain /\ r.plain /\ fits)
    BY DEF BinaryIsPlain
  <1> HIDE DEF f, p, fits
  <1>5. f.plain \in BOOLEAN /\ (f.plain => l.plain /\ r.plain /\ fits)
    BY <1>2, <1>4
  <1>6. /\ l.text \in Text /\ l.text # <<>> /\ Apart(Ending(l.text), p)
        /\ r.text \in Text /\ r.text # <<>> /\ (Apart(p, Head(r.text)) <=> fits)
        /\ l.plain => Clean(l.text)
        /\ r.plain => Clean(r.text)
    BY <1>1, ShapedFacts
  <1>7. /\ front \in Text /\ front # <<>> /\ Head(front) = Bare("(") /\ Ending(front) = p
        /\ Clean(front) <=> Clean(l.text) /\ Apart(Ending(l.text), p)
        /\ \A rest \in Text : front \o rest = Prefixed(Bare("("), l.text \o Prefixed(p, rest))
    BY <1>1, <1>6, OpenFacts
  <1> HIDE DEF front
  <1>8. /\ whole \in Text /\ whole # <<>> /\ Head(whole) = Head(front) /\ Ending(whole) = Bare(")")
        /\ Clean(whole) <=> Clean(front) /\ Clean(r.text) /\ Apart(Ending(front), Head(r.text))
        /\ \A rest \in Text : whole \o rest = front \o (r.text \o Prefixed(Bare(")"), rest))
    BY <1>6, <1>7, EnclosedFacts
  <1> HIDE DEF whole
  <1>9. Clean(whole) <=> Clean(l.text) /\ Clean(r.text) /\ fits
    BY <1>6, <1>7, <1>8
  <1>10. Head(whole).spaces = 0 /\ Ending(whole).token # "-"
    BY <1>7, <1>8, Brackets
  <1>11. Shaped(f)
    BY <1>2, <1>3, <1>5, <1>6, <1>8, <1>9, <1>10 DEF Shaped
  <1>12. Lost(l) \/ Lost(r) => Lost(f)
    BY <1>2, <1>5, <1>9 DEF Lost
  <1>13. ~ Lost(f) => fits
    BY <1>2, <1>5, <1>9 DEF Lost
  <1>14. ASSUME NEW s \in Text
         PROVE  f.text \o s = Prefixed(Bare("("), l.text \o Prefixed(p, r.text \o Prefixed(Bare(")"), s)))
    <2>1. r.text \o Prefixed(Bare(")"), s) \in Text
      BY ClosedText
    <2> QED
      BY <1>2, <1>7, <1>8, <2>1
  <1> QED
    BY <1>11, <1>12, <1>13, <1>14 DEF f, p, fits

LEMMA BinaryIs == ASSUME NEW op \in Infix, NEW l, Legible(l), NEW r, Legible(r) PROVE Legible(Binary(op, l, r))
  <1> DEFINE f == Binary(op, l, r)
             fits == /\ op = "-" => BeginsWith(r) # "-"
                     /\ op = "REGEXP" => BeginsWith(r) \notin Words
  <1>1. Shaped(l) /\ Shaped(r) /\ l.plain \in BOOLEAN /\ r.plain \in BOOLEAN
    BY DEF Legible, Shaped
  <1>2. /\ Shaped(f)
        /\ Lost(l) \/ Lost(r) => Lost(f)
        /\ ~ Lost(f) => fits
        /\ \A s \in Text : f.text \o s =
               Prefixed(Bare("("), l.text \o Prefixed(Operator(op), r.text \o Prefixed(Bare(")"), s)))
    BY <1>1, BinaryText
  <1>3. /\ f.form = op /\ f.tree = <<op, l.tree, r.tree>>
        /\ f.plain <=> l.plain /\ r.plain /\ (Strength(op) >= 4 => ~ IsNot(l) /\ ~ IsIn(r)) /\ fits
    BY DEF Binary, Expr, BinaryIsPlain
  <1>4. /\ Operator(op) \in Piece /\ Operator(op).token = op /\ op \notin {"ISNULL", "BETWEEN", "IN", "NOT"}
        /\ op \in {"OR", "AND"} \/ Strength(op) \in 4..10
    BY OperatorFacts
  <1> HIDE DEF f, fits
  <1>5. ASSUME ~ Lost(l), ~ Lost(r), fits, NEW w, NEW s \in Text
        PROVE  \E t : Means(f, t) /\ Leads(f, Wanting(w, f.text \o s), Holding(w, t, s))
    <2> DEFINE close == Prefixed(Bare(")"), s)
               last == r.text \o close
               more == Prefixed(Operator(op), last)
               all == l.text \o more
               b == Bracket(w)
               begin == Wanting(w, f.text \o s)
    <2>1. close \in Text /\ NextToken(close) = ")"
      BY Brackets, PrefixedFacts
    <2>2. last \in Text
      BY <1>1, ClosedText
    <2>3. f.text \o s = Prefixed(Bare("("), all)
      BY <1>2
    <2> HIDE DEF last
    <2>4. more \in Text /\ NextToken(more) = op
      BY <1>4, <2>2, PrefixedFacts
    <2>5. all \in Text
      <3> HIDE DEF more
      <3>1. l.text \in Text
        BY <1>1, ShapedFacts
      <3> QED
        BY <2>4, <3>1, Joins
    <2> HIDE DEF all, begin, b
    <2>6. Leads(f, begin, Wanting(b, all))
      BY <2>3, <2>5, BeginReads DEF begin, b
    <2>7. b.need = 1 /\ b.need \in 1..4
      BY PlacesFacts DEF b
    <2>8. CASE op \in {"OR", "AND"}
      <3>1. Strength(op) \in 1..2 /\ Strength(NextToken(more)) < 3 /\ Strength(op) >= b.need
        BY <2>4, <2>7, <2>8, StrengthIs
      <3>2. PICK x : Means(l, x) /\ Leads(l, Wanting(b, all), Holding(b, x, more))
        <4> HIDE DEF more
        <4> QED
          BY <1>5, <2>4, <2>7, <3>1, WeakReads DEF all
      <3> DEFINE v == Waiting(<<op, x>>, Strength(op) + 1, "", b)
      <3>3. Reaches(Holding(b, x, more), Wanting(v, last))
        BY <1>4, <2>2, <3>1, ReadsLeft
      <3>4. v.need \in 1..4
        <4>1. v.need = Strength(op) + 1
          BY DEF Waiting
        <4> HIDE DEF v
        <4> QED
          BY <3>1, <4>1
      <3>5. Strength(")") < 3 /\ ~ (Strength(")") >= Strength(op) + 1)
        BY <3>1, StrengthIs
      <3>6. PICK y : Means(r, y) /\ Leads(r, Wanting(v, last), Holding(v, y, close))
        <4> HIDE DEF v, close
        <4>1. Strength(NextToken(close)) < 3
          BY <2>1, <3>5
        <4> QED
          BY <1>5, <2>1, <3>4, <4>1, WeakReads DEF last
      <3>7. Reaches(Holding(v, y, close), Holding(b, Append(<<op, x>>, y), close))
        <4> HIDE DEF close
        <4>1. ~ (Strength(NextToken(close)) >= Strength(op) + 1) /\ NextToken(close) # "ESCAPE"
          BY <2>1, <3>5
        <4> QED
          BY <2>1, <4>1, ReadsRight
      <3>8. Leads(f, Wanting(b, all), Holding(b, x, more)) /\ Leads(f, Wanting(v, last), Holding(v, y, close))
        BY <1>3, <3>2, <3>6, LeadsWeaker
      <3>9. Leads(f, Holding(b, x, more), Wanting(v, last))
        BY <3>3, LeadsIf
      <3>10. Leads(f, Holding(v, y, close), Holding(b, <<op, x, y>>, close))
        BY <3>7, AppendTwo, LeadsIf
      <3> HIDE DEF v, more, close
      <3>11. Leads(f, begin, Holding(b, x, more))
        BY <2>6, <3>8, LeadsThen
      <3>12. Leads(f, begin, Wanting(v, last))
        BY <3>9, <3>11, LeadsThen
      <3>13. Leads(f, begin, Holding(v, y, close))
        BY <3>8, <3>12, LeadsThen
      <3>14. Leads(f, begin, Holding(b, <<op, x, y>>, close))
        BY <3>10, <3>13, LeadsThen
      <3>15. ~ (Strength(op) >= 4)
        BY <3>1
      <3>16. Means(f, <<op, x, y>>)
        BY <1>3, <1>5, <3>2, <3>6, <3>15 DEF Means
      <3>17. \E t : Means(f, t) /\ Leads(f, begin, Holding(w, t, s))
        BY <3>14, <3>16, EndReads DEF b, close
      <3> QED
        BY <3>17 DEF begin
    <2>9. CASE Strength(op) \in 4..10
      <3>1. PICK h, x : /\ h.need \in 1..4
                        /\ \/ h = b /\ Means(l, x) /\ ~ IsNot(l)
                           \/ h = NotOf(b) /\ (IsNot(l) \/ ~ l.plain)
                        /\ Leads(l, Wanting(b, all), Holding(h, x, more))
        <4> HIDE DEF more
        <4> QED
          BY <1>5, <2>4, <2>7, LeftReads DEF all
      <3> DEFINE v == Waiting(<<op, x>>, Strength(op) + 1, "", h)
      <3>2. Strength(op) >= h.need /\ Strength(op) + 1 \in 5..11 /\ Strength(op) >= 4
        BY <2>9, <3>1
      <3>3. Reaches(Holding(h, x, more), Wanting(v, last))
        BY <1>4, <2>2, <3>2, ReadsLeft
      <3>4. Leads(f, Holding(h, x, more), Wanting(v, last))
        BY <3>3, LeadsIf
      <3>5. Leads(f, Wanting(b, all), Holding(h, x, more))
        BY <1>3, <3>1, LeadsWeaker
      <3> HIDE DEF v, more
      <3>6. Leads(f, begin, Holding(h, x, more))
        BY <2>6, <3>5, LeadsThen
      <3>7. Leads(f, begin, Wanting(v, last))
        BY <3>4, <3>6, LeadsThen
      <3>8. f.tree[1] \notin {"IN", "NOT"}
        BY <1>3, <1>4
      <3>9. (f.plain => r.plain) /\ (f.plain => ~ IsIn(r))
        BY <1>3, <3>2
      <3>10. ASSUME NEW y, Means(r, y), ~ IsIn(r) \/ ~ r.plain
             PROVE  \/ h = b /\ Means(f, Append(<<op, x>>, y))
                    \/ h = NotOf(b) /\ Means(f, <<"NOT", Append(<<op, x>>, y)>>)
        <4>1. Append(<<op, x>>, y) = <<op, x, y>>
          BY AppendTwo
        <4>2. CASE h = b /\ Means(l, x) /\ ~ IsNot(l)
          <5>1. Means(f, <<op, x, y>>)
            BY <1>3, <1>5, <3>10, <4>2 DEF Means
          <5> QED
            BY <4>1, <4>2, <5>1
        <4>3. CASE h = NotOf(b) /\ (IsNot(l) \/ ~ l.plain)
          <5>1. ~ f.plain
            BY <1>3, <3>2, <4>3
          <5>2. <<"NOT", Append(<<op, x>>, y)>>[1] = "NOT"
            OBVIOUS
          <5>3. Means(f, <<"NOT", Append(<<op, x>>, y)>>)
            BY <3>8, <5>1, <5>2 DEF Means
          <5> QED
            BY <4>3, <5>3
        <4> QED
          BY <3>1, <4>2, <4>3
      <3>11. Leads(f, begin, Wanting(Waiting(<<op, x>>, Strength(op) + 1, "", h), r.text \o Prefixed(Bare(")"), s)))
        BY <3>7 DEF v, last
      <3>12. h = Bracket(w) \/ h = NotOf(Bracket(w))
        BY <3>1 DEF b
      <3>13. \A y : Means(r, y) /\ (~ IsIn(r) \/ ~ r.plain) =>
                \/ h = Bracket(w) /\ Means(f, Append(<<op, x>>, y))
                \/ h = NotOf(Bracket(w)) /\ Means(f, <<"NOT", Append(<<op, x>>, y)>>)
        BY <3>10 DEF b
      <3>14. \E t : Means(f, t) /\ Leads(f, begin, Holding(w, t, s))
        BY <1>5, <3>1, <3>2, <3>8, <3>9, <3>11, <3>12, <3>13, LastReads
      <3> QED
        BY <3>14 DEF begin
    <2> QED
      BY <1>4, <2>8, <2>9
  <1>6. ~ IsNot(f) /\ ~ IsIn(f)
    BY <1>3, <1>4 DEF IsNot, IsIn
  <1>7. ~ Lost(f) => Solid(f)
    BY <1>2, <1>5, <1>6 DEF Solid
  <1> QED
    BY <1>2, <1>7 DEF Legible, f

LEMMA IsNullIs == ASSUME NEW e, Legible(e) PROVE Legible(IsNull(e))
  <1> DEFINE f == IsNull(e)
             o == Bare("(")
             p == Led("ISNULL")
             q == Bare(")")
             pair == <<p, q>>
             front == <<o>> \o e.text
             whole == front \o pair
  <1>1. Shaped(e) /\ e.plain \in BOOLEAN
    BY DEF Legible, Shaped
  <1>2. /\ f.form = "ISNULL" /\ f.tree = <<"ISNULL", e.tree>> /\ f.text = whole
        /\ f.plain = (e.plain /\ ~ IsNot(e))
    BY DEF IsNull, Expr
  <1>3. f.tree # Failure
    BY <1>2 DEF Failure
  <1> HIDE DEF f
  <1>4. f.plain \in BOOLEAN /\ (f.plain => e.plain)
    BY <1>1, <1>2
  <1>5. /\ o \in Piece /\ o.token = "(" /\ o.spaces = 0 /\ p \in Piece /\ p.token = "ISNULL"
        /\ q \in Piece /\ q.token = ")" /\ q.spaces = 0
        /\ \A x : Apart(o, x) /\ Apart(x, p) /\ Apart(x, q)
    BY TokensAre, PieceFacts, Brackets, SpacesKeepApart
  <1> HIDE DEF o, p, q
  <1>6. /\ e.text \in Text /\ e.text # <<>> /\ (e.plain => Clean(e.text))
    BY <1>1, ShapedFacts
  <1>7. /\ pair \in Text /\ pair # <<>> /\ Head(pair) = p /\ Ending(pair) = q /\ Clean(pair)
        /\ \A rest \in Text : pair \o rest = Prefixed(p, Prefixed(q, rest))
    BY <1>5, PairFacts
  <1> HIDE DEF pair
  <1>8. /\ front \in Text /\ front # <<>> /\ Head(front) = o /\ (Clean(front) <=> Clean(e.text))
        /\ \A rest \in Text : front \o rest = Prefixed(o, e.text \o rest)
    <2> DEFINE first == <<o>>
    <2>1. first \in Text /\ first # <<>> /\ Head(first) = o /\ Ending(first) = o /\ Clean(first)
      BY <1>5, SingleFacts
    <2>2. \A rest \in Text : (first \o e.text) \o rest = first \o (e.text \o rest)
      BY <1>6, <2>1, Joins
    <2>3. \A rest \in Text : front \o rest = Prefixed(o, e.text \o rest)
      BY <2>2 DEF Prefixed
    <2> HIDE DEF first
    <2>4. /\ first \o e.text \in Text /\ first \o e.text # <<>> /\ Head(first \o e.text) = o
          /\ Clean(first \o e.text) <=> Clean(e.text)
      BY <1>5, <1>6, <2>1, JoinFacts
    <2> QED
      BY <2>3, <2>4 DEF first
  <1> HIDE DEF front
  <1>9. /\ whole \in Text /\ whole # <<>> /\ Head(whole) = o /\ Ending(whole) = q
        /\ Clean(whole) <=> Clean(e.text)
    BY <1>5, <1>7, <1>8, JoinFacts
  <1>10. ASSUME NEW s \in Text PROVE whole \o s = Prefixed(o, e.text \o Prefixed(p, Prefixed(q, s)))
    <2>1. Prefixed(p, Prefixed(q, s)) \in Text
      BY <1>5, PrefixedFacts
    <2>2. whole \o s = front \o (pair \o s)
      BY <1>7, <1>8, Joins
    <2> QED
      BY <1>7, <1>8, <2>1, <2>2
  <1> HIDE DEF whole
  <1>11. Shaped(f)
    BY <1>2, <1>3, <1>4, <1>5, <1>6, <1>9 DEF Shaped
  <1>12. Lost(e) => Lost(f)
    BY <1>2, <1>4, <1>9 DEF Lost
  <1>13. ASSUME ~ Lost(e), NEW w, NEW s \in Text
         PROVE  \E t : Means(f, t) /\ Leads(f, Wanting(w, f.text \o s), Holding(w, t, s))
    <2> DEFINE close == Prefixed(q, s)
               more == Prefixed(p, close)
               all == e.text \o more
               b == Bracket(w)
               begin == Wanting(w, f.text \o s)
    <2>1. close \in Text
      BY <1>5, PrefixedFacts
    <2>2. f.text \o s = Prefixed(o, all)
      BY <1>2, <1>10
    <2> HIDE DEF close
    <2>3. more \in Text /\ NextToken(more) = "ISNULL"
      BY <1>5, <2>1, PrefixedFacts
    <2>4. all \in Text
      <3> HIDE DEF more
      <3> QED
        BY <1>6, <2>3, Joins
    <2> HIDE DEF all, begin, b
    <2>5. Leads(f, begin, Wanting(b, all))
      BY <2>2, <2>4, BeginReads DEF begin, b, o
    <2>6. b.need = 1 /\ b.need \in 1..4
      BY PlacesFacts DEF b
    <2>7. PICK h, x : /\ h.need \in 1..4
                      /\ \/ h = b /\ Means(e, x) /\ ~ IsNot(e)
                         \/ h = NotOf(b) /\ (IsNot(e) \/ ~ e.plain)
                      /\ Leads(e, Wanting(b, all), Holding(h, x, more))
      <3> HIDE DEF more
      <3> QED
        BY <1>13, <2>3, <2>6, LeftReads DEF all
    <2>8. Strength(p.token) >= h.need
      BY <1>5, <2>7, StrengthIs
    <2>9. Reaches(Holding(h, x, more), Holding(h, <<"ISNULL", x>>, close))
      BY <1>5, <2>1, <2>8, ReadsLeft
    <2>10. Leads(f, Holding(h, x, more), Holding(h, <<"ISNULL", x>>, close))
      BY <2>9, LeadsIf
    <2>11. Leads(f, Wanting(b, all), Holding(h, x, more))
      BY <1>4, <2>7, LeadsWeaker
    <2> HIDE DEF more
    <2>12. Leads(f, begin, Holding(h, x, more))
      BY <2>5, <2>11, LeadsThen
    <2>13. Leads(f, begin, Holding(h, <<"ISNULL", x>>, close))
      BY <2>10, <2>12, LeadsThen
    <2>14. \/ h = b /\ Means(f, <<"ISNULL", x>>)
           \/ h = NotOf(b) /\ Means(f, <<"NOT", <<"ISNULL", x>>>>)
      <3>1. CASE h = b /\ Means(e, x) /\ ~ IsNot(e)
        <4>1. Means(f, <<"ISNULL", x>>)
          BY <1>1, <1>2, <3>1 DEF Means
        <4> QED
          BY <3>1, <4>1
      <3>2. CASE h = NotOf(b) /\ (IsNot(e) \/ ~ e.plain)
        <4>1. f.tree[1] = "ISNULL" /\ <<"NOT", <<"ISNULL", x>>>>[1] = "NOT"
          BY <1>2
        <4>2. f.tree # <<"NOT", <<"ISNULL", x>>>> /\ ~ f.plain
          BY <1>2, <3>2, <4>1
        <4>3. Means(f, <<"NOT", <<"ISNULL", x>>>>)
          BY <4>2 DEF Means
        <4> QED
          BY <3>2, <4>3
      <3> QED
        BY <2>7, <3>1, <3>2
    <2>15. \E t : Means(f, t) /\ Leads(f, begin, Holding(w, t, s))
      BY <2>13, <2>14, EndReads DEF b, close, q
    <2> QED
      BY <2>15 DEF begin
  <1>14. ~ IsNot(f) /\ ~ IsIn(f)
    BY <1>2 DEF IsNot, IsIn
  <1>15. ~ Lost(f) => Solid(f)
    BY <1>12, <1>13, <1>14 DEF Solid
  <1> QED
    BY <1>11, <1>15 DEF Legible, f

-----------------------------------------------------------------------------
(* Columns and literals                                                    *)

LEMMA WordIs == ASSUME NEW x \in {"a", "1", "'s'"} PROVE Legible(Expr("atom", <<x>>, <<Bare(x)>>, TRUE))
  <1> DEFINE f == Expr("atom", <<x>>, <<Bare(x)>>, TRUE)
             p == Bare(x)
  <1>1. f.form = "atom" /\ f.tree = <<x>> /\ f.text = <<p>> /\ f.plain = TRUE
    BY DEF Expr
  <1> HIDE DEF f
  <1>2. f.tree # Failure
    <2>1. f.tree[1] = x /\ Failure[1] = "failure"
      BY <1>1 DEF Failure
    <2> QED
      BY <2>1
  <1>3. p \in Piece /\ p.token = x /\ p.spaces = 0
    BY TokensAre, PieceFacts
  <1> HIDE DEF p
  <1>4. f.text \in Text /\ f.text # <<>> /\ Head(f.text) = p /\ Ending(f.text) = p /\ Clean(f.text)
    BY <1>1, <1>3, SingleFacts
  <1>5. Shaped(f)
    BY <1>1, <1>2, <1>3, <1>4 DEF Shaped
  <1>6. ASSUME NEW w, NEW s \in Text
        PROVE  \E t : Means(f, t) /\ Leads(f, Wanting(w, f.text \o s), Holding(w, t, s))
    <2>1. f.text \o s = Prefixed(p, s)
      BY <1>1 DEF Prefixed
    <2>2. Reaches(Wanting(w, Prefixed(p, s)), Holding(w, <<x>>, s))
      BY <1>3, ReadsOperand
    <2>3. Leads(f, Wanting(w, f.text \o s), Holding(w, <<x>>, s))
      BY <2>1, <2>2, LeadsIf
    <2>4. Means(f, <<x>>)
      BY <1>1 DEF Means
    <2> QED
      BY <2>3, <2>4
  <1>7. Solid(f)
    BY <1>1, <1>6 DEF Solid, IsNot, IsIn
  <1> QED
    BY <1>5, <1>7 DEF Legible, f

LEMMA AtomsAre == \A e \in Atoms : Legible(e)
  <1> DEFINE f == Expr("atom", <<"-", <<"1">>>>, <<Bare("-"), Bare("1")>>, TRUE)
             p == Bare("-")
             q == Bare("1")
  <1>1. f.form = "atom" /\ f.tree = <<"-", <<"1">>>> /\ f.text = <<p, q>> /\ f.plain = TRUE
    BY DEF Expr
  <1> HIDE DEF f
  <1>2. f.tree # Failure
    <2>1. f.tree[1] = "-" /\ Failure[1] = "failure"
      BY <1>1 DEF Failure
    <2> QED
      BY <2>1
  <1>3. p \in Piece /\ p.token = "-" /\ p.spaces = 0 /\ q \in Piece /\ q.token = "1"
    BY TokensAre, PieceFacts
  <1> HIDE DEF p, q
  <1>4. Apart(p, q)
    BY <1>3 DEF Apart, Words
  <1>5. /\ f.text \in Text /\ f.text # <<>> /\ Head(f.text) = p /\ Ending(f.text) = q /\ Clean(f.text)
        /\ \A rest \in Text : f.text \o rest = Prefixed(p, Prefixed(q, rest))
    BY <1>1, <1>3, <1>4, PairFacts
  <1>6. Shaped(f)
    BY <1>1, <1>2, <1>3, <1>5 DEF Shaped
  <1>7. ASSUME NEW w, NEW s \in Text
        PROVE  \E t : Means(f, t) /\ Leads(f, Wanting(w, f.text \o s), Holding(w, t, s))
    <2> DEFINE more == Prefixed(q, s)
               v == Waiting(<<"-">>, 11, "", w)
    <2>1. more \in Text
      BY <1>3, PrefixedFacts
    <2>2. Reaches(Wanting(v, more), Holding(v, <<"1">>, s))
      <3> HIDE DEF v
      <3> QED
        BY <1>3, ReadsOperand
    <2> HIDE DEF more
    <2>3. Reaches(Wanting(w, Prefixed(p, more)), Wanting(v, more))
      BY <1>3, <2>1, ReadsOperand
    <2>4. ~ (Strength(NextToken(s)) >= 11)
      BY StrengthIs
    <2>5. ~ TakesEscape(<<"-">>)
      BY DEF TakesEscape
    <2>6. Reaches(Holding(v, <<"1">>, s), Holding(w, Append(<<"-">>, <<"1">>), s))
      BY <2>4, <2>5, ReadsRight
    <2>7. Reaches(Holding(v, <<"1">>, s), Holding(w, <<"-", <<"1">>>>, s))
      BY <2>6, AppendOne
    <2> HIDE DEF v
    <2>8. Reaches(Wanting(w, Prefixed(p, more)), Holding(w, <<"-", <<"1">>>>, s))
      BY <2>2, <2>3, <2>7, ReachesThen
    <2>9. Leads(f, Wanting(w, f.text \o s), Holding(w, <<"-", <<"1">>>>, s))
      BY <1>5, <2>8, LeadsIf DEF more
    <2>10. Means(f, <<"-", <<"1">>>>)
      BY <1>1 DEF Means
    <2> QED
      BY <2>9, <2>10
  <1>8. Solid(f)
    BY <1>1, <1>7 DEF Solid, IsNot, IsIn
  <1>9. Legible(f)
    BY <1>6, <1>8 DEF Legible
  <1> QED
    BY <1>9, WordIs DEF Atoms, f, p, q

LEMMA OperandsAre == \A e \in Operands : Legible(e)
  <1>1. Legible(OneColumn)
    BY WordIs DEF OneColumn
  <1> QED
    BY <1>1, AtomsAre, NotIs, MinusIs, InIs, IsNullIs, FunctionIs DEF Operands

LEMMA PatternIs ==
  Legible(Pattern) /\ Pattern.plain = TRUE /\ Pattern.tree = <<"'s'">> /\ ~ Lost(Pattern) /\ ~ IsIn(Pattern)
  <1>1. Legible(Pattern)
    BY WordIs DEF Pattern
  <1>2. Pattern.plain = TRUE /\ Pattern.tree = <<"'s'">> /\ Pattern.form = "atom"
    BY DEF Pattern, Expr
  <1> QED
    BY <1>1, <1>2 DEF Lost, IsIn

-----------------------------------------------------------------------------
(* Expressions of three operands                                           *)

Triple(l, p, m, q, r) == <<Bare("(")>> \o l \o <<p>> \o m \o <<q>> \o r \o <<Bare(")")>>

LEMMA ThreeText ==
  ASSUME NEW l \in Text, l # <<>>, NEW p \in Piece, NEW m \in Text, m # <<>>, NEW q \in Piece, NEW r \in Text, r # <<>>
  PROVE  LET text == Triple(l, p, m, q, r)
         IN  /\ text \in Text /\ text # <<>> /\ Head(text) = Bare("(") /\ Ending(text) = Bare(")")
             /\ Clean(text) <=> /\ Clean(l) /\ Apart(Ending(l), p)
                                 /\ Apart(p, Head(m)) /\ Clean(m) /\ Apart(Ending(m), q)
                                 /\ Apart(q, Head(r)) /\ Clean(r)
             /\ \A s \in Text :
                    /\ r \o Prefixed(Bare(")"), s) \in Text
                    /\ m \o Prefixed(q, r \o Prefixed(Bare(")"), s)) \in Text
                    /\ l \o Prefixed(p, m \o Prefixed(q, r \o Prefixed(Bare(")"), s))) \in Text
                    /\ text \o s = Prefixed(Bare("("), l \o Prefixed(p, m \o Prefixed(q, r \o Prefixed(Bare(")"), s))))
  <1> DEFINE o == Bare("(")
             c == Bare(")")
             front == <<o>> \o l \o <<p>>
             middle == front \o m \o <<q>>
             whole == middle \o r \o <<c>>
  <1>1. /\ front \in Text /\ front # <<>> /\ Head(front) = o /\ Ending(front) = p
        /\ Clean(front) <=> Clean(l) /\ Apart(Ending(l), p)
        /\ \A rest \in Text : front \o rest = Prefixed(o, l \o Prefixed(p, rest))
    BY OpenFacts
  <1> HIDE DEF front
  <1>2. /\ middle \in Text /\ middle # <<>> /\ Head(middle) = Head(front) /\ Ending(middle) = q
        /\ Clean(middle) <=> /\ Clean(front) /\ Clean(m)
                             /\ Apart(Ending(front), Head(m)) /\ Apart(Ending(m), q)
        /\ \A rest \in Text : middle \o rest = front \o (m \o Prefixed(q, rest))
    BY <1>1, MoreFacts, ZenonT(30)
  <1> HIDE DEF middle
  <1>3. /\ whole \in Text /\ whole # <<>> /\ Head(whole) = Head(middle) /\ Ending(whole) = c
        /\ Clean(whole) <=> Clean(middle) /\ Clean(r) /\ Apart(Ending(middle), Head(r))
        /\ \A rest \in Text : whole \o rest = middle \o (r \o Prefixed(c, rest))
    BY <1>2, EnclosedFacts
  <1> HIDE DEF whole
  <1>4. ASSUME NEW s \in Text
        PROVE  LET last == r \o Prefixed(c, s)
                   more == m \o Prefixed(q, last)
                   all == l \o Prefixed(p, more)
               IN  last \in Text /\ more \in Text /\ all \in Text /\ whole \o s = Prefixed(o, all)
    <2> DEFINE last == r \o Prefixed(c, s)
               more == m \o Prefixed(q, last)
               all == l \o Prefixed(p, more)
    <2>1. Prefixed(c, s) \in Text
      BY Brackets, PrefixedFacts
    <2>2. last \in Text
      BY <2>1, Joins
    <2>3. whole \o s = middle \o last
      BY <1>3
    <2> HIDE DEF last
    <2>4. Prefixed(q, last) \in Text
      BY <2>2, PrefixedFacts
    <2>5. more \in Text
      BY <2>4, Joins
    <2>6. middle \o last = front \o more
      BY <1>2, <2>2
    <2> HIDE DEF more
    <2>7. Prefixed(p, more) \in Text
      BY <2>5, PrefixedFacts
    <2>8. all \in Text
      BY <2>7, Joins
    <2>9. front \o more = Prefixed(o, all)
      BY <1>1, <2>5
    <2>10. last \in Text /\ more \in Text /\ all \in Text /\ whole \o s = Prefixed(o, all)
      BY <2>2, <2>3, <2>5, <2>6, <2>8, <2>9
    <2> QED
      BY <2>10 DEF last, more
  <1>5. Clean(whole) <=> /\ Clean(l) /\ Apart(Ending(l), p)
                         /\ Apart(p, Head(m)) /\ Clean(m) /\ Apart(Ending(m), q)
                         /\ Apart(q, Head(r)) /\ Clean(r)
    BY <1>1, <1>2, <1>3
  <1>6. whole \in Text /\ whole # <<>> /\ Head(whole) = o /\ Ending(whole) = c
    BY <1>1, <1>2, <1>3
  <1>7. \A s \in Text :
            /\ r \o Prefixed(c, s) \in Text
            /\ m \o Prefixed(q, r \o Prefixed(c, s)) \in Text
            /\ l \o Prefixed(p, m \o Prefixed(q, r \o Prefixed(c, s))) \in Text
            /\ whole \o s = Prefixed(o, l \o Prefixed(p, m \o Prefixed(q, r \o Prefixed(c, s))))
    BY <1>4
  <1>8. Triple(l, p, m, q, r) = whole
    BY DEF Triple, whole, middle, front
  <1> QED
    BY <1>5, <1>6, <1>7, <1>8

LEMMA BetweenIs == ASSUME NEW e, Legible(e), NEW l, Legible(l), NEW r, Legible(r) PROVE Legible(Between(e, l, r))
  <1> DEFINE f == Between(e, l, r)
             p == Spaced("BETWEEN")
             q == Spaced("AND")
             whole == <<Bare("(")>> \o e.text \o <<p>> \o l.text \o <<q>> \o r.text \o <<Bare(")")>>
  <1>1. /\ Shaped(e) /\ Shaped(l) /\ Shaped(r)
    BY DEF Legible
  <1>2. /\ f.form = "BETWEEN" /\ f.tree = <<"BETWEEN", e.tree, l.tree, r.tree>> /\ f.text = whole
        /\ f.plain = (e.plain /\ l.plain /\ r.plain /\ ~ IsNot(e) /\ ~ IsIn(r))
    BY DEF Between, Expr
  <1>3. f.tree # Failure
    BY <1>2 DEF Failure
  <1> HIDE DEF f
  <1>4. /\ e.text \in Text /\ e.text # <<>> /\ (e.plain => Clean(e.text)) /\ e.plain \in BOOLEAN
        /\ l.text \in Text /\ l.text # <<>> /\ (l.plain => Clean(l.text)) /\ l.plain \in BOOLEAN
        /\ r.text \in Text /\ r.text # <<>> /\ (r.plain => Clean(r.text)) /\ r.plain \in BOOLEAN
    BY <1>1, ShapedFacts
  <1>5. f.plain \in BOOLEAN /\ (f.plain => e.plain /\ l.plain /\ r.plain)
    BY <1>2, <1>4
  <1>6. /\ p \in Piece /\ p.token = "BETWEEN" /\ q \in Piece /\ q.token = "AND"
        /\ \A x : Apart(x, p) /\ Apart(p, x) /\ Apart(x, q) /\ Apart(q, x)
    BY TokensAre, PieceFacts, SpacesKeepApart
  <1> HIDE DEF p, q
  <1>7. /\ whole \in Text /\ whole # <<>> /\ Head(whole) = Bare("(") /\ Ending(whole) = Bare(")")
        /\ Clean(whole) <=> /\ Clean(e.text) /\ Apart(Ending(e.text), p)
                            /\ Apart(p, Head(l.text)) /\ Clean(l.text) /\ Apart(Ending(l.text), q)
                            /\ Apart(q, Head(r.text)) /\ Clean(r.text)
        /\ \A s \in Text :
               /\ r.text \o Prefixed(Bare(")"), s) \in Text
               /\ l.text \o Prefixed(q, r.text \o Prefixed(Bare(")"), s)) \in Text
               /\ e.text \o Prefixed(p, l.text \o Prefixed(q, r.text \o Prefixed(Bare(")"), s))) \in Text
               /\ whole \o s = Prefixed(Bare("("), e.text \o Prefixed(p, l.text \o Prefixed(q, r.text \o Prefixed(Bare(")"), s))))
    <2> DEFINE a == e.text
               m == l.text
               c == r.text
    <2>1. a \in Text /\ a # <<>> /\ p \in Piece /\ m \in Text /\ m # <<>> /\ q \in Piece /\ c \in Text /\ c # <<>>
      BY <1>4, <1>6
    <2> HIDE DEF a, m, c
    <2> DEFINE text == Triple(a, p, m, q, c)
    <2>2. /\ text \in Text /\ text # <<>> /\ Head(text) = Bare("(") /\ Ending(text) = Bare(")")
          /\ Clean(text) <=> /\ Clean(a) /\ Apart(Ending(a), p)
                             /\ Apart(p, Head(m)) /\ Clean(m) /\ Apart(Ending(m), q)
                             /\ Apart(q, Head(c)) /\ Clean(c)
          /\ \A s \in Text :
                 /\ c \o Prefixed(Bare(")"), s) \in Text
                 /\ m \o Prefixed(q, c \o Prefixed(Bare(")"), s)) \in Text
                 /\ a \o Prefixed(p, m \o Prefixed(q, c \o Prefixed(Bare(")"), s))) \in Text
                 /\ text \o s = Prefixed(Bare("("), a \o Prefixed(p, m \o Prefixed(q, c \o Prefixed(Bare(")"), s))))
      BY <2>1, ThreeText
    <2>3. text = whole
      BY DEF Triple, a, m, c
    <2> QED
      BY <2>2, <2>3 DEF a, m, c
  <1> HIDE DEF whole
  <1>8. Clean(whole) <=> Clean(e.text) /\ Clean(l.text) /\ Clean(r.text)
    BY <1>6, <1>7
  <1>9. Head(whole).spaces = 0 /\ Ending(whole).token # "-"
    BY <1>7, Brackets
  <1>10. Shaped(f)
    BY <1>2, <1>3, <1>4, <1>5, <1>7, <1>8, <1>9 DEF Shaped
  <1>11. Lost(e) \/ Lost(l) \/ Lost(r) => Lost(f)
    BY <1>2, <1>5, <1>8 DEF Lost
  <1>12. ASSUME ~ Lost(e), ~ Lost(l), ~ Lost(r), NEW w, NEW s \in Text
         PROVE  \E t : Means(f, t) /\ Leads(f, Wanting(w, f.text \o s), Holding(w, t, s))
    <2> DEFINE last == r.text \o Prefixed(Bare(")"), s)
               behind == Prefixed(q, last)
               middle == l.text \o behind
               more == Prefixed(p, middle)
               all == e.text \o more
               b == Bracket(w)
               begin == Wanting(w, f.text \o s)
    <2>1. last \in Text /\ middle \in Text /\ all \in Text /\ f.text \o s = Prefixed(Bare("("), all)
      BY <1>2, <1>7
    <2> HIDE DEF last
    <2>2. behind \in Text /\ NextToken(behind) = "AND" /\ Tail(behind) = last
      BY <1>6, <2>1, PrefixedFacts
    <2> HIDE DEF middle
    <2>3. more \in Text /\ NextToken(more) = "BETWEEN"
      BY <1>6, <2>1, PrefixedFacts
    <2> HIDE DEF all, begin, b
    <2>4. Leads(f, begin, Wanting(b, all))
      BY <2>1, BeginReads DEF begin, b
    <2>5. b.need = 1 /\ b.need \in 1..4
      BY PlacesFacts DEF b
    <2>6. PICK h, x : /\ h.need \in 1..4
                      /\ \/ h = b /\ Means(e, x) /\ ~ IsNot(e)
                         \/ h = NotOf(b) /\ (IsNot(e) \/ ~ e.plain)
                      /\ Leads(e, Wanting(b, all), Holding(h, x, more))
      <3> HIDE DEF more
      <3> QED
        BY <1>12, <2>3, <2>5, LeftReads DEF all
    <2> DEFINE v == Waiting(<<"BETWEEN", x>>, 3, "AND", h)
    <2>7. Strength(p.token) >= h.need
      BY <1>6, <2>6, StrengthIs
    <2>8. Reaches(Holding(h, x, more), Wanting(v, middle))
      BY <1>6, <2>1, <2>7, ReadsLeft
    <2>9. v.need \in 1..4
      BY WaitingFacts
    <2> HIDE DEF behind, more
    <2>10. Strength(NextToken(behind)) < 3 /\ ~ (Strength(NextToken(behind)) >= 3)
      BY <2>2, StrengthIs
    <2>11. PICK y : Means(l, y) /\ Leads(l, Wanting(v, middle), Holding(v, y, behind))
      <3> HIDE DEF v
      <3> QED
        BY <1>12, <2>2, <2>9, <2>10, WeakReads DEF middle
    <2> DEFINE u == Waiting(<<"BETWEEN", x, y>>, 5, "", h)
    <2>12. Reaches(Holding(v, y, behind), Wanting(Waiting(Append(<<"BETWEEN", x>>, y), 5, "", h), last))
      BY <2>2, <2>10, ReadsRight
    <2>13. Append(<<"BETWEEN", x>>, y) = <<"BETWEEN", x, y>>
      BY AppendTwo
    <2>14. Leads(f, Holding(v, y, behind), Wanting(u, last))
      BY <2>12, <2>13, LeadsIf
    <2>15. Leads(f, Wanting(b, all), Holding(h, x, more)) /\ Leads(f, Wanting(v, middle), Holding(v, y, behind))
      BY <1>5, <2>6, <2>11, LeadsWeaker
    <2>16. Leads(f, Holding(h, x, more), Wanting(v, middle))
      BY <2>8, LeadsIf
    <2> HIDE DEF u, v
    <2>17. Leads(f, begin, Holding(h, x, more))
      BY <2>4, <2>15, LeadsThen
    <2>18. Leads(f, begin, Wanting(v, middle))
      BY <2>16, <2>17, LeadsThen
    <2>19. Leads(f, begin, Holding(v, y, behind))
      BY <2>15, <2>18, LeadsThen
    <2>20. Leads(f, begin, Wanting(u, last))
      BY <2>14, <2>19, LeadsThen
    <2>21. f.tree[1] \notin {"IN", "NOT"}
      BY <1>2
    <2>22. (f.plain => r.plain) /\ (f.plain => ~ IsIn(r))
      BY <1>2
    <2> DEFINE node == <<"BETWEEN", x, y>>
               need == 5
    <2>23. ASSUME NEW z, Means(r, z), ~ IsIn(r) \/ ~ r.plain
           PROVE  \/ h = b /\ Means(f, Append(node, z))
                  \/ h = NotOf(b) /\ Means(f, <<"NOT", Append(node, z)>>)
      <3>1. Append(node, z) = <<"BETWEEN", x, y, z>>
        BY AppendThree
      <3>2. CASE h = b /\ Means(e, x) /\ ~ IsNot(e)
        <4>1. Means(f, <<"BETWEEN", x, y, z>>)
          BY <1>2, <1>4, <2>11, <2>23, <3>2 DEF Means
        <4> QED
          BY <3>1, <3>2, <4>1
      <3>3. CASE h = NotOf(b) /\ (IsNot(e) \/ ~ e.plain)
        <4>1. ~ f.plain
          BY <1>2, <3>3
        <4>2. <<"NOT", Append(node, z)>>[1] = "NOT"
          OBVIOUS
        <4>3. Means(f, <<"NOT", Append(node, z)>>)
          BY <2>21, <4>1, <4>2 DEF Means
        <4> QED
          BY <3>3, <4>3
      <3> QED
        BY <2>6, <3>2, <3>3
    <2>24. need \in 5..11
      OBVIOUS
    <2>25. Leads(f, begin, Wanting(Waiting(node, need, "", h), r.text \o Prefixed(Bare(")"), s)))
      BY <2>20 DEF u, last
    <2>26. h = Bracket(w) \/ h = NotOf(Bracket(w))
      BY <2>6 DEF b
    <2> HIDE DEF node, need
    <2>27. \A z : Means(r, z) /\ (~ IsIn(r) \/ ~ r.plain) =>
              \/ h = Bracket(w) /\ Means(f, Append(node, z))
              \/ h = NotOf(Bracket(w)) /\ Means(f, <<"NOT", Append(node, z)>>)
      BY <2>23 DEF b
    <2>28. \E t : Means(f, t) /\ Leads(f, begin, Holding(w, t, s))
      BY <1>12, <2>6, <2>21, <2>22, <2>24, <2>25, <2>26, <2>27, LastReads
    <2> QED
      BY <2>28 DEF begin
  <1>13. ~ IsNot(f) /\ ~ IsIn(f)
    BY <1>2 DEF IsNot, IsIn
  <1>14. ~ Lost(f) => Solid(f)
    BY <1>11, <1>12, <1>13 DEF Solid
  <1> QED
    BY <1>10, <1>14 DEF Legible, f

LEMMA LikeText ==
  ASSUME NEW l, Shaped(l), NEW r, Shaped(r)
  PROVE  LET f == LikeEscape(l, r, Pattern)
             last(s) == Pattern.text \o Prefixed(Bare(")"), s)
         IN  /\ Shaped(f)
             /\ Lost(l) \/ Lost(r) => Lost(f)
             /\ ~ Lost(f) => BeginsWith(r) \notin Words
             /\ \A s \in Text :
                    /\ last(s) \in Text
                    /\ r.text \o Prefixed(Spaced("ESCAPE"), last(s)) \in Text
                    /\ l.text \o Prefixed(Led("LIKE"), r.text \o Prefixed(Spaced("ESCAPE"), last(s))) \in Text
                    /\ f.text \o s = Prefixed(Bare("("),
                           l.text \o Prefixed(Led("LIKE"), r.text \o Prefixed(Spaced("ESCAPE"), last(s))))
  <1> DEFINE f == LikeEscape(l, r, Pattern)
             p == Led("LIKE")
             q == Spaced("ESCAPE")
             a == l.text
             m == r.text
             c == Pattern.text
             text == Triple(a, p, m, q, c)
             fits == BeginsWith(r) \notin Words
  <1>1. /\ f.tree = <<"LIKE", l.tree, r.tree, Pattern.tree>> /\ f.text = text
        /\ f.plain = (l.plain /\ r.plain /\ Pattern.plain /\ ~ IsNot(l) /\ ~ IsIn(r) /\ BeginsWith(r) \notin Words)
    BY DEF LikeEscape, Expr, Triple
  <1>2. f.tree # Failure
    BY <1>1 DEF Failure
  <1> HIDE DEF f
  <1>3. /\ a \in Text /\ a # <<>> /\ (l.plain => Clean(a)) /\ l.plain \in BOOLEAN
        /\ m \in Text /\ m # <<>> /\ (r.plain => Clean(m)) /\ r.plain \in BOOLEAN /\ Head(m).spaces = 0
    BY ShapedFacts
  <1>4. c \in Text /\ c # <<>> /\ Clean(c) /\ Pattern.plain = TRUE
    BY PatternIs, ShapedFacts DEF Legible
  <1>5. f.plain \in BOOLEAN /\ (f.plain => l.plain /\ r.plain /\ fits)
    BY <1>1, <1>3, <1>4
  <1>6. /\ p \in Piece /\ p.token = "LIKE" /\ p.spaces = 1 /\ q \in Piece
        /\ \A x : Apart(x, p) /\ Apart(x, q) /\ Apart(q, x)
    BY TokensAre, PieceFacts, SpacesKeepApart
  <1>7. Apart(p, Head(m)) <=> fits
    <2>1. "LIKE" \in Words /\ BeginsWith(r) = Head(m).token
      BY DEF Words, BeginsWith
    <2> QED
      BY <1>3, <1>6, <2>1 DEF Apart
  <1> HIDE DEF p, q, a, m, c, fits
  <1>8. /\ text \in Text /\ text # <<>> /\ Head(text) = Bare("(") /\ Ending(text) = Bare(")")
        /\ Clean(text) <=> /\ Clean(a) /\ Apart(Ending(a), p)
                           /\ Apart(p, Head(m)) /\ Clean(m) /\ Apart(Ending(m), q)
                           /\ Apart(q, Head(c)) /\ Clean(c)
        /\ \A s \in Text :
               /\ c \o Prefixed(Bare(")"), s) \in Text
               /\ m \o Prefixed(q, c \o Prefixed(Bare(")"), s)) \in Text
               /\ a \o Prefixed(p, m \o Prefixed(q, c \o Prefixed(Bare(")"), s))) \in Text
               /\ text \o s = Prefixed(Bare("("), a \o Prefixed(p, m \o Prefixed(q, c \o Prefixed(Bare(")"), s))))
    BY <1>3, <1>4, <1>6, ThreeText
  <1> HIDE DEF text
  <1>9. Clean(text) <=> Clean(a) /\ Clean(m) /\ fits
    BY <1>4, <1>6, <1>7, <1>8
  <1>10. Head(text).spaces = 0 /\ Ending(text).token # "-"
    BY <1>8, Brackets
  <1>11. Shaped(f)
    BY <1>1, <1>2, <1>3, <1>5, <1>8, <1>9, <1>10 DEF Shaped
  <1>12. Lost(l) \/ Lost(r) => Lost(f)
    BY <1>1, <1>5, <1>9 DEF Lost, a, m
  <1>13. ~ Lost(f) => fits
    BY <1>1, <1>5, <1>9 DEF Lost
  <1> QED
    BY <1>1, <1>8, <1>11, <1>12, <1>13 DEF f, p, q, a, m, c, fits

\* The escape goes to LIKE only if that is what the reader has come to.
LEMMA LikeEscapeIs == ASSUME NEW l, Legible(l), NEW r, Legible(r) PROVE Legible(LikeEscape(l, r, Pattern))
  <1> DEFINE f == LikeEscape(l, r, Pattern)
             p == Led("LIKE")
             q == Spaced("ESCAPE")
  <1>1. Shaped(l) /\ Shaped(r) /\ l.plain \in BOOLEAN /\ r.plain \in BOOLEAN
    BY DEF Legible, Shaped
  <1>2. /\ f.form = "LIKE" /\ f.tree = <<"LIKE", l.tree, r.tree, <<"'s'">>>>
        /\ f.plain <=> (l.plain /\ r.plain /\ ~ IsNot(l) /\ ~ IsIn(r) /\ BeginsWith(r) \notin Words)
    BY PatternIs DEF LikeEscape, Expr
  <1>3. /\ Shaped(f)
        /\ Lost(l) \/ Lost(r) => Lost(f)
        /\ ~ Lost(f) => BeginsWith(r) \notin Words
        /\ \A s \in Text :
               /\ Pattern.text \o Prefixed(Bare(")"), s) \in Text
               /\ r.text \o Prefixed(q, Pattern.text \o Prefixed(Bare(")"), s)) \in Text
               /\ l.text \o Prefixed(p, r.text \o Prefixed(q, Pattern.text \o Prefixed(Bare(")"), s))) \in Text
               /\ f.text \o s = Prefixed(Bare("("),
                      l.text \o Prefixed(p, r.text \o Prefixed(q, Pattern.text \o Prefixed(Bare(")"), s))))
    BY <1>1, LikeText
  <1> HIDE DEF f
  <1>4. p \in Piece /\ p.token = "LIKE" /\ q \in Piece /\ q.token = "ESCAPE"
    BY TokensAre, PieceFacts
  <1> HIDE DEF p, q
  <1>5. f.tree[1] \notin {"IN", "NOT"} /\ f.tree # Failure
    <2>1. f.tree[1] = "LIKE"
      BY <1>2
    <2> QED
      BY <1>3, <2>1, ShapedFacts
  <1>6. ASSUME ~ Lost(l), ~ Lost(r), BeginsWith(r) \notin Words, NEW w, NEW s \in Text
        PROVE  \E t : Means(f, t) /\ Leads(f, Wanting(w, f.text \o s), Holding(w, t, s))
    <2> DEFINE last == Pattern.text \o Prefixed(Bare(")"), s)
               behind == Prefixed(q, last)
               middle == r.text \o behind
               more == Prefixed(p, middle)
               all == l.text \o more
               b == Bracket(w)
               begin == Wanting(w, f.text \o s)
    <2>1. last \in Text /\ middle \in Text /\ all \in Text /\ f.text \o s = Prefixed(Bare("("), all)
      BY <1>3
    <2> HIDE DEF last
    <2>2. behind \in Text /\ behind # <<>> /\ NextToken(behind) = "ESCAPE" /\ Tail(behind) = last
      BY <1>4, <2>1, PrefixedFacts
    <2> HIDE DEF middle
    <2>3. more \in Text /\ NextToken(more) = "LIKE"
      BY <1>4, <2>1, PrefixedFacts
    <2> HIDE DEF all, begin, b
    <2>4. Leads(f, begin, Wanting(b, all))
      BY <2>1, BeginReads DEF begin, b
    <2>5. b.need = 1 /\ b.need \in 1..4
      BY PlacesFacts DEF b
    <2>6. PICK h, x : /\ h.need \in 1..4
                      /\ \/ h = b /\ Means(l, x) /\ ~ IsNot(l)
                         \/ h = NotOf(b) /\ (IsNot(l) \/ ~ l.plain)
                      /\ Leads(l, Wanting(b, all), Holding(h, x, more))
      <3> HIDE DEF more
      <3> QED
        BY <1>6, <2>3, <2>5, LeftReads DEF all
    <2> DEFINE v == Waiting(<<"LIKE", x>>, 5, "", h)
    <2>7. Strength(p.token) >= h.need /\ Strength(p.token) + 1 = 5
      BY <1>4, <2>6, StrengthIs
    <2>8. Reaches(Holding(h, x, more), Wanting(v, middle))
      BY <1>4, <2>1, <2>7, ReadsLeft
    <2>9. Leads(f, Holding(h, x, more), Wanting(v, middle))
      BY <2>8, LeadsIf
    <2>10. Leads(f, Wanting(b, all), Holding(h, x, more))
      BY <1>2, <2>6, LeadsWeaker
    <2> HIDE DEF more, behind
    <2>11. Leads(f, begin, Wanting(v, middle))
      <3> HIDE DEF v
      <3>1. Leads(f, begin, Holding(h, x, more))
        BY <2>4, <2>10, LeadsThen
      <3> QED
        BY <2>9, <3>1, LeadsThen
    <2>12. Strength("ESCAPE") = 0 /\ Strength(NextToken(behind)) < 3
      BY <2>2, StrengthIs
    <2>13. \/ /\ ~ IsIn(r) \/ ~ r.plain
              /\ \E y : Means(r, y) /\ Leads(r, Wanting(v, middle), Holding(v, y, behind))
           \/ IsIn(r) /\ \E y : y[1] = "IN" /\ Leads(r, Wanting(v, middle), Holding(h, y, behind))
    <3> DEFINE node == <<"LIKE", x>>
               need == 5
    <3>1. need \in 5..11 /\ v = Waiting(node, need, "", h)
      OBVIOUS
    <3> HIDE DEF node, need, v
    <3>2. LET u == Waiting(node, need, "", h)
          IN  \/ /\ ~ IsIn(r) \/ ~ r.plain
                 /\ \E y : Means(r, y) /\ Leads(r, Wanting(u, r.text \o behind), Holding(u, y, behind))
              \/ IsIn(r) /\ \E y : y[1] = "IN" /\ Leads(r, Wanting(u, r.text \o behind), Holding(h, y, behind))
      BY <1>6, <2>2, <2>6, <2>12, <3>1, RightReads
    <3> QED
      BY <3>1, <3>2 DEF middle
    <2>14. CASE /\ ~ IsIn(r) \/ ~ r.plain
                /\ \E y : Means(r, y) /\ Leads(r, Wanting(v, middle), Holding(v, y, behind))
      <3>1. PICK y : Means(r, y) /\ Leads(r, Wanting(v, middle), Holding(v, y, behind))
        BY <2>14
      <3> DEFINE node == <<"LIKE", x, y>>
                 need == 7
                 u == Waiting(node, need, "", h)
      <3>2. TakesEscape(<<"LIKE", x>>)
        BY DEF TakesEscape
      <3>3. ~ (Strength(NextToken(behind)) >= 5)
        BY <2>2, <2>12
      <3>4. Reaches(Holding(v, y, behind), Wanting(Waiting(Append(<<"LIKE", x>>, y), 7, "", h), last))
        BY <2>2, <3>2, <3>3, ReadsRight
      <3>5. Append(<<"LIKE", x>>, y) = node
        BY AppendTwo
      <3>6. Leads(f, Holding(v, y, behind), Wanting(u, last))
        BY <3>4, <3>5, LeadsIf
      <3>7. Leads(f, Wanting(v, middle), Holding(v, y, behind))
        BY <1>2, <3>1, LeadsWeaker
      <3> HIDE DEF u, v
      <3>8. Leads(f, begin, Holding(v, y, behind))
        BY <2>11, <3>7, LeadsThen
      <3>9. Leads(f, begin, Wanting(u, last))
        BY <3>6, <3>8, LeadsThen
      <3>10. ASSUME NEW z, Means(Pattern, z)
             PROVE  \/ h = b /\ Means(f, Append(node, z))
                    \/ h = NotOf(b) /\ Means(f, <<"NOT", Append(node, z)>>)
        <4>1. z = <<"'s'">>
          BY <3>10, PatternIs DEF Means
        <4>2. Append(node, z) = <<"LIKE", x, y, z>>
          BY AppendThree
        <4>3. CASE h = b /\ Means(l, x) /\ ~ IsNot(l)
          <5>1. f.plain <=> (l.plain /\ r.plain)
            BY <1>2, <1>6, <2>14, <4>3
          <5>2. Means(f, <<"LIKE", x, y, z>>)
            BY <1>1, <1>2, <3>1, <4>1, <4>3, <5>1 DEF Means
          <5> QED
            BY <4>2, <4>3, <5>2
        <4>4. CASE h = NotOf(b) /\ (IsNot(l) \/ ~ l.plain)
          <5>1. ~ f.plain
            BY <1>2, <4>4
          <5>2. <<"NOT", Append(node, z)>>[1] = "NOT"
            OBVIOUS
          <5>3. Means(f, <<"NOT", Append(node, z)>>)
            BY <1>5, <5>1, <5>2 DEF Means
          <5> QED
            BY <4>4, <5>3
        <4> QED
          BY <2>6, <4>3, <4>4
      <3>11. need \in 5..11
        OBVIOUS
      <3>12. Leads(f, begin, Wanting(Waiting(node, need, "", h), Pattern.text \o Prefixed(Bare(")"), s)))
        BY <3>9 DEF u, last
      <3>13. h = Bracket(w) \/ h = NotOf(Bracket(w))
        BY <2>6 DEF b
      <3>14. Legible(Pattern) /\ ~ Lost(Pattern) /\ (f.plain => Pattern.plain) /\ (f.plain => ~ IsIn(Pattern))
        BY PatternIs
      <3> HIDE DEF node, need
      <3>15. \A z : Means(Pattern, z) /\ (~ IsIn(Pattern) \/ ~ Pattern.plain) =>
                \/ h = Bracket(w) /\ Means(f, Append(node, z))
                \/ h = NotOf(Bracket(w)) /\ Means(f, <<"NOT", Append(node, z)>>)
        BY <3>10 DEF b
      <3>16. \E t : Means(f, t) /\ Leads(f, begin, Holding(w, t, s))
        BY <1>5, <2>6, <3>11, <3>12, <3>13, <3>14, <3>15, LastReads
      <3> QED
        BY <3>16 DEF begin
    <2>15. CASE IsIn(r) /\ \E y : y[1] = "IN" /\ Leads(r, Wanting(v, middle), Holding(h, y, behind))
      <3>1. PICK y : Leads(r, Wanting(v, middle), Holding(h, y, behind))
        BY <2>15
      <3>2. Leads(f, Wanting(v, middle), Holding(h, y, behind))
        BY <1>2, <3>1, LeadsWeaker
      <3> HIDE DEF v
      <3>3. Leads(f, begin, Holding(h, y, behind))
        BY <2>11, <3>2, LeadsThen
      <3>4. ASSUME NEW z PROVE Stuck(Holding(b, z, behind))
        <4>1. ~ (Strength(NextToken(behind)) >= 1)
          BY <2>2, <2>12
        <4>2. ReadOn(Holding(b, z, behind)) = Holding(b, z, behind)
          BY <2>2, <4>1, ReadsRight, ZenonT(30) DEF b, Bracket
        <4>3. Holding(b, z, behind).rest = behind
          BY DEF Holding, Reading
        <4> QED
          BY <2>2, <4>2, <4>3 DEF Stuck
      <3>5. \E z : Leads(f, begin, Holding(b, z, behind))
        <4>1. CASE h = b
          BY <3>3, <4>1
        <4>2. CASE h = NotOf(b)
          <5>1. ~ (Strength(NextToken(behind)) >= 3) /\ ~ TakesEscape(<<"NOT">>)
            BY <2>2, <2>12 DEF TakesEscape
          <5>2. Reaches(Holding(NotOf(b), y, behind), Holding(b, Append(<<"NOT">>, y), behind))
            BY <2>2, <5>1, ReadsRight DEF NotOf
          <5>3. Leads(f, Holding(NotOf(b), y, behind), Holding(b, Append(<<"NOT">>, y), behind))
            BY <5>2, LeadsIf
          <5>4. Leads(f, begin, Holding(b, Append(<<"NOT">>, y), behind))
            BY <3>3, <4>2, <5>3, LeadsThen
          <5> QED
            BY <5>4
        <4> QED
          BY <2>6, <4>1, <4>2
      <3>6. ~ f.plain
        BY <1>2, <2>15
      <3>7. Leads(f, begin, Holding(w, Failure, s))
        BY <3>4, <3>5, <3>6, LeadsNowhere
      <3>8. Means(f, Failure)
        BY <1>5, <3>6 DEF Means
      <3> QED
        BY <3>7, <3>8 DEF begin
    <2> QED
      BY <2>13, <2>14, <2>15
  <1>7. ~ IsNot(f) /\ ~ IsIn(f)
    BY <1>2 DEF IsNot, IsIn
  <1>8. ~ Lost(f) => Solid(f)
    BY <1>3, <1>6, <1>7 DEF Solid
  <1> QED
    BY <1>3, <1>8 DEF Legible, f

-----------------------------------------------------------------------------
(* Expressions: the reader stops in time                                   *)

\* The nodes that wait, from the end on.
Waits(g, n) ==
    /\ g[0] = Nobody
    /\ \A k \in 0..n : g[k].depth = k /\ g[k].need \in 1..11 /\ (k # 0 => g[k].behind = g[k - 1])

Stacked(w) == \E n \in Nat : \E g : Waits(g, n) /\ g[n] = w

LEMMA StackedNobody == Stacked(Nobody)
  <1> DEFINE g == [k \in {0} |-> Nobody]
  <1>1. g[0] = Nobody /\ Nobody.depth = 0 /\ Nobody.need = 1
    BY DEF Nobody
  <1>2. \A k \in 0..0 : k = 0
    OBVIOUS
  <1> HIDE DEF g
  <1>3. Waits(g, 0)
    BY <1>1, <1>2 DEF Waits
  <1>4. 0 \in Nat
    OBVIOUS
  <1> QED
    BY <1>1, <1>3, <1>4 DEF Stacked

LEMMA StackedFacts ==
  ASSUME NEW w, Stacked(w)
  PROVE  /\ w.depth \in Nat /\ w.need \in 1..11
         /\ w # Nobody => w.depth # 0 /\ Stacked(w.behind) /\ w.behind.depth = w.depth - 1
  <1>0. PICK n \in Nat : \E g : Waits(g, n) /\ g[n] = w
    BY DEF Stacked
  <1>1. PICK g : Waits(g, n) /\ g[n] = w
    BY <1>0
  <1>2. n \in 0..n
    OBVIOUS
  <1>3. w.depth = n /\ w.need \in 1..11
    BY <1>1, <1>2 DEF Waits
  <1>4. ASSUME w # Nobody PROVE n # 0 /\ Stacked(w.behind) /\ w.behind.depth = n - 1
    <2>1. n # 0
      BY <1>1, <1>4 DEF Waits
    <2>2. n - 1 \in Nat /\ n - 1 \in 0..n /\ \A k \in 0..n - 1 : k \in 0..n
      BY <2>1
    <2>3. w.behind = g[n - 1] /\ g[n - 1].depth = n - 1
      BY <1>1, <1>2, <2>1, <2>2 DEF Waits
    <2>4. Waits(g, n - 1)
      BY <1>1, <2>2 DEF Waits
    <2> QED
      BY <2>1, <2>2, <2>3, <2>4 DEF Stacked
  <1> QED
    BY <1>3, <1>4

LEMMA StackedPush ==
  ASSUME NEW w, Stacked(w), NEW node, NEW need \in 1..11, NEW close
  PROVE  /\ Stacked(Waiting(node, need, close, w))
         /\ Waiting(node, need, close, w).depth = w.depth + 1
  <1> DEFINE v == Waiting(node, need, close, w)
  <1>0. PICK n \in Nat : \E g : Waits(g, n) /\ g[n] = w
    BY DEF Stacked
  <1>1. PICK g : Waits(g, n) /\ g[n] = w
    BY <1>0
  <1>2. n \in 0..n
    OBVIOUS
  <1>3. w.depth = n
    BY <1>1, <1>2 DEF Waits
  <1>4. v.depth = w.depth + 1 /\ v.need = need /\ v.behind = w
    BY DEF Waiting
  <1> HIDE DEF v
  <1> DEFINE h == [k \in 0..n + 1 |-> IF k = n + 1 THEN v ELSE g[k]]
  <1>5. n + 1 \in Nat /\ n + 1 \in 0..n + 1 /\ (n + 1) - 1 = n /\ 0 \in 0..n + 1 /\ 0 # n + 1 /\ n # n + 1
        /\ n \in 0..n + 1
    OBVIOUS
  <1>6. h[n + 1] = v /\ h[0] = g[0] /\ h[n] = w
    BY <1>1, <1>5
  <1>7. ASSUME NEW k \in 0..n + 1
        PROVE  h[k].depth = k /\ h[k].need \in 1..11 /\ (k # 0 => h[k].behind = h[k - 1])
    <2>1. CASE k = n + 1
      BY <1>3, <1>4, <1>5, <1>6, <2>1
    <2>2. CASE k # n + 1
      <3>1. k \in 0..n /\ (k # 0 => k - 1 \in 0..n + 1 /\ k - 1 # n + 1)
        BY <2>2
      <3>2. h[k] = g[k] /\ (k # 0 => h[k - 1] = g[k - 1])
        BY <2>2, <3>1
      <3> QED
        BY <1>1, <3>1, <3>2 DEF Waits
    <2> QED
      BY <2>1, <2>2
  <1> HIDE DEF h
  <1>8. h[0] = Nobody
    BY <1>1, <1>6 DEF Waits
  <1>9. Waits(h, n + 1)
    BY <1>7, <1>8 DEF Waits
  <1> QED
    BY <1>4, <1>5, <1>6, <1>9 DEF Stacked, v

ReaderType(r) == r.rest \in Text /\ Stacked(r.waiting)

Left(r) == 2 * Len(r.rest) + r.waiting.depth

\* What a step makes of a state.
Closer(q, r) == ReaderType(q) /\ Left(q) < Left(r)

LEMMA ShorterText ==
  ASSUME NEW s \in Text
  PROVE  /\ Len(s) \in Nat
         /\ s # <<>> => Tail(s) \in Text /\ Len(Tail(s)) \in Nat /\ Len(Tail(s)) = Len(s) - 1
         /\ NextToken(s) # "end" => s # <<>>
  <1>1. Len(s) \in Nat
    BY LenProperties DEF Text
  <1>2. ASSUME s # <<>> PROVE Tail(s) \in Text /\ Len(Tail(s)) = Len(s) - 1
    BY <1>2, HeadTailProperties DEF Text
  <1>3. ASSUME s # <<>> PROVE Len(Tail(s)) \in Nat
    BY <1>2, <1>3, LenProperties DEF Text
  <1> QED
    BY <1>1, <1>2, <1>3 DEF NextToken

LEMMA Steps ==
  ASSUME NEW r, ReaderType(r)
  PROVE  LET w == r.waiting
             s == r.rest
         IN  /\ s # <<>> => \A o : Closer(Reading(w, o, Tail(s)), r)
             /\ s # <<>> => \A node, close : \A need \in 1..11 :
                                Closer(Reading(Waiting(node, need, close, w), <<>>, Tail(s)), r)
             /\ s # <<>> /\ Tail(s) # <<>> => \A node, close : \A need \in 1..11 :
                                Closer(Reading(Waiting(node, need, close, w), <<>>, Tail(Tail(s))), r)
             /\ w # Nobody => \A o : Closer(Reading(w.behind, o, s), r)
             /\ s # <<>> /\ w # Nobody => \A o : Closer(Reading(w.behind, o, Tail(s)), r)
             /\ s # <<>> /\ w # Nobody => \A node, close : \A need \in 1..11 :
                                Closer(Reading(Waiting(node, need, close, w.behind), <<>>, Tail(s)), r)
  <1> DEFINE w == r.waiting
             s == r.rest
  <1>1. s \in Text /\ Stacked(w) /\ Left(r) = 2 * Len(s) + w.depth
    BY DEF ReaderType, Left
  <1> HIDE DEF w, s
  <1>2. /\ w.depth \in Nat
        /\ w # Nobody => w.depth # 0 /\ Stacked(w.behind) /\ w.behind.depth = w.depth - 1
    BY <1>1, StackedFacts
  <1>3. /\ Len(s) \in Nat
        /\ s # <<>> => Tail(s) \in Text /\ Len(Tail(s)) \in Nat /\ Len(Tail(s)) = Len(s) - 1
    BY <1>1, ShorterText
  <1>4. ASSUME NEW v, Stacked(v), NEW o, NEW u \in Text, 2 * Len(u) + v.depth < 2 * Len(s) + w.depth
        PROVE  Closer(Reading(v, o, u), r)
    <2> DEFINE q == Reading(v, o, u)
    <2>1. q.rest = u /\ q.waiting = v
      BY ReadingFacts
    <2> HIDE DEF q
    <2>2. Left(q) = 2 * Len(u) + v.depth
      BY <2>1 DEF Left
    <2>3. Closer(q, r)
      BY <1>1, <1>4, <2>1, <2>2 DEF Closer, ReaderType
    <2> QED
      BY <2>3 DEF q
  <1>5. ASSUME s # <<>>, NEW o PROVE Closer(Reading(w, o, Tail(s)), r)
    <2>1. 2 * Len(Tail(s)) + w.depth < 2 * Len(s) + w.depth
      BY <1>2, <1>3, <1>5
    <2> QED
      BY <1>1, <1>3, <1>4, <1>5, <2>1
  <1>6. ASSUME NEW node, NEW close, NEW need \in 1..11, NEW v, Stacked(v)
        PROVE  Stacked(Waiting(node, need, close, v)) /\ Waiting(node, need, close, v).depth = v.depth + 1
    BY <1>6, StackedPush
  <1>7. ASSUME s # <<>>, NEW node, NEW close, NEW need \in 1..11
        PROVE  Closer(Reading(Waiting(node, need, close, w), <<>>, Tail(s)), r)
    <2> DEFINE v == Waiting(node, need, close, w)
    <2>1. Stacked(v) /\ v.depth = w.depth + 1
      BY <1>1, <1>6
    <2> HIDE DEF v
    <2>2. 2 * Len(Tail(s)) + v.depth < 2 * Len(s) + w.depth
      BY <1>2, <1>3, <1>7, <2>1
    <2>3. Closer(Reading(v, <<>>, Tail(s)), r)
      BY <1>3, <1>4, <1>7, <2>1, <2>2
    <2> QED
      BY <2>3 DEF v
  <1>8. ASSUME s # <<>>, Tail(s) # <<>>, NEW node, NEW close, NEW need \in 1..11
        PROVE  Closer(Reading(Waiting(node, need, close, w), <<>>, Tail(Tail(s))), r)
    <2> DEFINE v == Waiting(node, need, close, w)
               u == Tail(s)
    <2>1. Stacked(v) /\ v.depth = w.depth + 1
      BY <1>1, <1>6
    <2> HIDE DEF v, u
    <2>2. u \in Text /\ Len(u) \in Nat /\ Len(u) = Len(s) - 1 /\ u # <<>>
      BY <1>3, <1>8 DEF u
    <2>3. Tail(u) \in Text /\ Len(Tail(u)) \in Nat /\ Len(Tail(u)) = Len(u) - 1
      BY <2>2, ShorterText
    <2>4. 2 * Len(Tail(u)) + v.depth < 2 * Len(s) + w.depth
      BY <1>2, <1>3, <2>1, <2>2, <2>3
    <2>5. Closer(Reading(v, <<>>, Tail(u)), r)
      BY <1>4, <2>1, <2>3, <2>4
    <2> QED
      BY <2>5 DEF v, u
  <1>9. ASSUME w # Nobody, NEW o PROVE Closer(Reading(w.behind, o, s), r)
    <2> DEFINE v == w.behind
    <2>1. Stacked(v) /\ v.depth = w.depth - 1
      BY <1>2, <1>9
    <2> HIDE DEF v
    <2>2. 2 * Len(s) + v.depth < 2 * Len(s) + w.depth
      BY <1>2, <1>3, <2>1
    <2>3. Closer(Reading(v, o, s), r)
      BY <1>1, <1>4, <2>1, <2>2
    <2> QED
      BY <2>3 DEF v
  <1>10. ASSUME s # <<>>, w # Nobody, NEW o PROVE Closer(Reading(w.behind, o, Tail(s)), r)
    <2> DEFINE v == w.behind
    <2>1. Stacked(v) /\ v.depth = w.depth - 1
      BY <1>2, <1>10
    <2> HIDE DEF v
    <2>2. 2 * Len(Tail(s)) + v.depth < 2 * Len(s) + w.depth
      BY <1>2, <1>3, <1>10, <2>1
    <2>3. Closer(Reading(v, o, Tail(s)), r)
      BY <1>3, <1>4, <1>10, <2>1, <2>2
    <2> QED
      BY <2>3 DEF v
  <1>11. ASSUME s # <<>>, w # Nobody, NEW node, NEW close, NEW need \in 1..11
         PROVE  Closer(Reading(Waiting(node, need, close, w.behind), <<>>, Tail(s)), r)
    <2> DEFINE inner == w.behind
               v == Waiting(node, need, close, inner)
    <2>0. Stacked(inner) /\ inner.depth = w.depth - 1
      BY <1>2, <1>11
    <2> HIDE DEF inner
    <2>1. Stacked(v) /\ v.depth = inner.depth + 1
      BY <1>6, <1>11, <2>0
    <2> HIDE DEF v
    <2>2. v.depth = w.depth
      BY <1>2, <2>0, <2>1
    <2>3. 2 * Len(Tail(s)) + v.depth < 2 * Len(s) + w.depth
      BY <1>2, <1>3, <1>11, <2>2
    <2>4. Closer(Reading(v, <<>>, Tail(s)), r)
      BY <1>3, <1>4, <1>11, <2>1, <2>3
    <2> QED
      BY <2>4 DEF v, inner
  <1> QED
    BY <1>5, <1>7, <1>8, <1>9, <1>10, <1>11 DEF w, s

\* A step takes a token or a node that waits, or changes nothing.
LEMMA Progress ==
  ASSUME NEW r, ReaderType(r)
  PROVE  ReadOn(r) = r \/ Closer(ReadOn(r), r)
  <1> DEFINE w == r.waiting
             s == r.rest
             token == NextToken(s)
  <1>1. /\ s # <<>> => \A o : Closer(Reading(w, o, Tail(s)), r)
        /\ s # <<>> => \A node, close : \A need \in 1..11 :
                           Closer(Reading(Waiting(node, need, close, w), <<>>, Tail(s)), r)
        /\ s # <<>> /\ Tail(s) # <<>> => \A node, close : \A need \in 1..11 :
                           Closer(Reading(Waiting(node, need, close, w), <<>>, Tail(Tail(s))), r)
        /\ w # Nobody => \A o : Closer(Reading(w.behind, o, s), r)
        /\ s # <<>> /\ w # Nobody => \A o : Closer(Reading(w.behind, o, Tail(s)), r)
        /\ s # <<>> /\ w # Nobody => \A node, close : \A need \in 1..11 :
                           Closer(Reading(Waiting(node, need, close, w.behind), <<>>, Tail(s)), r)
    BY Steps
  <1>2. s \in Text /\ Stacked(w) /\ w.need \in 1..11
    BY StackedFacts DEF ReaderType
  <1>3. \A u : NextToken(u) # "end" => u # <<>>
    BY DEF NextToken
  <1>4. 1 \in 1..11 /\ 3 \in 1..11 /\ 5 \in 1..11 /\ 7 \in 1..11 /\ 11 \in 1..11
    OBVIOUS
  <1>5. \A x : Strength(x) + 1 \in 1..11
    BY StrengthIs
  <1>6. ~ (0 >= w.need)
    BY <1>2
  <1>7. ReadOperand(r) = r \/ Closer(ReadOperand(r), r)
    <2>1. CASE token \in {"a", "1", "'s'"}
      <3>1. s # <<>>
        BY <1>3, <2>1
      <3>2. ReadOperand(r) = Reading(w, << <<token>> >>, Tail(s))
        BY <2>1 DEF ReadOperand
      <3> QED
        BY <1>1, <3>1, <3>2
    <2>2. CASE token \in {"NOT", "-", "("}
      <3>1. s # <<>>
        BY <1>3, <2>2
      <3>2. \/ ReadOperand(r) = Reading(Waiting(<<"NOT">>, 3, "", w), <<>>, Tail(s))
            \/ ReadOperand(r) = Reading(Waiting(<<"-">>, 11, "", w), <<>>, Tail(s))
            \/ ReadOperand(r) = Reading(Waiting(<<>>, 1, ")", w), <<>>, Tail(s))
        BY <2>2 DEF ReadOperand
      <3> QED
        BY <1>1, <1>4, <3>1, <3>2
    <2>3. CASE token = "LENGTH" /\ NextToken(Tail(s)) = "("
      <3>1. s # <<>> /\ Tail(s) # <<>>
        BY <1>3, <2>3
      <3>2. ReadOperand(r) = Reading(Waiting(<<"LENGTH">>, 1, ")", w), <<>>, Tail(Tail(s)))
        BY <2>3 DEF ReadOperand
      <3> QED
        BY <1>1, <1>4, <3>1, <3>2
    <2>4. CASE token \notin {"a", "1", "'s'", "NOT", "-", "("} /\ ~ (token = "LENGTH" /\ NextToken(Tail(s)) = "(")
      <3>1. ReadOperand(r) = r
        BY <2>4 DEF ReadOperand
      <3> QED
        BY <3>1
    <2> QED
      BY <2>1, <2>2, <2>3, <2>4
  <1>8. ASSUME Strength(token) >= w.need PROVE ReadLeft(r) = r \/ Closer(ReadLeft(r), r)
    <2>1. token # "end"
      BY <1>6, <1>8, StrengthIs
    <2>2. s # <<>>
      BY <1>3, <2>1
    <2> DEFINE node == <<token, r.operand[1]>>
    <2>3. CASE token = "ISNULL"
      <3>1. ReadLeft(r) = Reading(w, <<node>>, Tail(s))
        BY <2>3 DEF ReadLeft
      <3> QED
        BY <1>1, <2>2, <3>1
    <2>4. CASE token = "IN"
      <3>1. CASE NextToken(Tail(s)) = "("
        <4>1. ReadLeft(r) = Reading(Waiting(node, 1, ")", w), <<>>, Tail(Tail(s)))
          BY <2>4, <3>1 DEF ReadLeft
        <4>2. Tail(s) # <<>>
          BY <1>3, <3>1
        <4> QED
          BY <1>1, <1>4, <2>2, <4>1, <4>2
      <3>2. CASE NextToken(Tail(s)) # "("
        <4>1. ReadLeft(r) = r
          BY <2>4, <3>2 DEF ReadLeft
        <4> QED
          BY <4>1
      <3> QED
        BY <3>1, <3>2
    <2>5. CASE token = "BETWEEN"
      <3>1. ReadLeft(r) = Reading(Waiting(node, 3, "AND", w), <<>>, Tail(s))
        BY <2>5 DEF ReadLeft
      <3> QED
        BY <1>1, <1>4, <2>2, <3>1
    <2>6. CASE token \notin {"ISNULL", "IN", "BETWEEN"}
      <3>1. ReadLeft(r) = Reading(Waiting(node, Strength(token) + 1, "", w), <<>>, Tail(s))
        BY <2>6 DEF ReadLeft
      <3> DEFINE need == Strength(token) + 1
      <3>2. need \in 1..11
        BY <1>5
      <3> HIDE DEF need
      <3>3. ReadLeft(r) = Reading(Waiting(node, need, "", w), <<>>, Tail(s))
        BY <3>1 DEF need
      <3> QED
        BY <1>1, <2>2, <3>2, <3>3
    <2> QED
      BY <2>3, <2>4, <2>5, <2>6
  <1>9. ReadRight(r) = r \/ Closer(ReadRight(r), r)
    <2> DEFINE node == Append(w.node, r.operand[1])
    <2>1. Nobody.close = "end"
      BY DEF Nobody
    <2>2. CASE token = ")" /\ w.close = ")"
      <3>1. s # <<>> /\ w # Nobody
        BY <1>3, <2>1, <2>2
      <3>2. ReadRight(r) = Reading(w.behind, IF w.node = <<>> THEN r.operand ELSE <<node>>, Tail(s))
        BY <2>2 DEF ReadRight
      <3> QED
        BY <1>1, <3>1, <3>2
    <2>3. CASE token = "AND" /\ w.close = "AND"
      <3>1. s # <<>> /\ w # Nobody
        BY <1>3, <2>1, <2>3
      <3>2. ReadRight(r) = Reading(Waiting(node, 5, "", w.behind), <<>>, Tail(s))
        BY <2>3 DEF ReadRight
      <3> QED
        BY <1>1, <1>4, <3>1, <3>2
    <2>4. CASE w.close = ""
      <3>1. w # Nobody
        BY <2>1, <2>4
      <3>2. CASE token = "ESCAPE" /\ TakesEscape(w.node)
        <4>1. s # <<>>
          BY <1>3, <3>2
        <4>2. ReadRight(r) = Reading(Waiting(node, 7, "", w.behind), <<>>, Tail(s))
          BY <2>4, <3>2 DEF ReadRight
        <4> QED
          BY <1>1, <1>4, <3>1, <4>1, <4>2
      <3>3. CASE ~ (token = "ESCAPE" /\ TakesEscape(w.node))
        <4>1. ReadRight(r) = Reading(w.behind, <<node>>, s)
          BY <2>4, <3>3 DEF ReadRight
        <4> QED
          BY <1>1, <3>1, <4>1
      <3> QED
        BY <3>2, <3>3
    <2>5. CASE ~ (token = ")" /\ w.close = ")") /\ ~ (token = "AND" /\ w.close = "AND") /\ w.close # ""
      <3>1. ReadRight(r) = r
        BY <2>5 DEF ReadRight
      <3> QED
        BY <3>1
    <2> QED
      BY <2>2, <2>3, <2>4, <2>5
  <1>10. ReadOn(r) = ReadOperand(r) \/ (Strength(token) >= w.need /\ ReadOn(r) = ReadLeft(r)) \/ ReadOn(r) = ReadRight(r)
    BY DEF ReadOn
  <1> QED
    BY <1>7, <1>8, <1>9, <1>10

\* The states of the reader, one after the other.
Trail(initial) == CHOOSE f : f = [k \in Nat |-> IF k = 0 THEN initial ELSE ReadOn(f[k - 1])]

LEMMA TrailIs ==
  ASSUME NEW initial
  PROVE  Trail(initial)[0] = initial /\ \A n \in Nat : Trail(initial)[n + 1] = ReadOn(Trail(initial)[n])
  <1> DEFINE IsUpTo(g, N) == g[0] = initial /\ \A n \in 0..N - 1 : g[n + 1] = ReadOn(g[n])
             Reached == {N \in Nat : \E g : IsUpTo(g, N)}
  <1>1. 0 \in Reached
    <2> DEFINE g == [n \in 0..0 |-> initial]
    <2>1. IsUpTo(g, 0)
      OBVIOUS
    <2> HIDE DEF IsUpTo
    <2> QED
      BY <2>1
  <1>2. ASSUME NEW N \in Nat, N \in Reached PROVE N + 1 \in Reached
    <2>1. PICK g : IsUpTo(g, N)
      BY <1>2
    <2> DEFINE h == [n \in 0..N + 1 |-> IF n = N + 1 THEN ReadOn(g[N]) ELSE g[n]]
    <2>2. h[0] = initial
      BY <2>1
    <2>3. ASSUME NEW n \in 0..(N + 1) - 1 PROVE h[n + 1] = ReadOn(h[n])
      <3>1. n \in 0..N + 1 /\ n + 1 \in 0..N + 1 /\ n # N + 1
        OBVIOUS
      <3>2. h[n] = g[n]
        BY <3>1
      <3>3. n # N => n \in 0..N - 1 /\ n + 1 # N + 1
        OBVIOUS
      <3> QED
        BY <2>1, <3>1, <3>2, <3>3
    <2>4. IsUpTo(h, N + 1)
      BY <2>2, <2>3
    <2> HIDE DEF IsUpTo, h
    <2> QED
      BY <2>4
  <1>3. ASSUME NEW N \in Nat PROVE \E g : IsUpTo(g, N)
    <2> HIDE DEF IsUpTo
    <2>1. Nat \subseteq Reached
      <3> HIDE DEF Reached
      <3> QED
        BY <1>1, <1>2, NatUpTo
    <2> QED
      BY <2>1
  <1>4. ASSUME NEW N \in Nat, NEW g, IsUpTo(g, N), NEW M \in Nat, NEW h, IsUpTo(h, M), N =< M
        PROVE  \A n \in 0..N : g[n] = h[n]
    <2> DEFINE S == {n \in 0..N : g[n] = h[n]}
    <2>1. 0 \in S
      BY <1>4
    <2>2. ASSUME NEW n \in 1..N, n - 1 \in S PROVE n \in S
      <3>1. n - 1 \in 0..N - 1 /\ n - 1 \in 0..M - 1 /\ (n - 1) + 1 = n /\ n \in 0..N
        BY <1>4
      <3>2. g[(n - 1) + 1] = ReadOn(g[n - 1]) /\ h[(n - 1) + 1] = ReadOn(h[n - 1])
        BY <1>4, <3>1
      <3> QED
        BY <2>2, <3>1, <3>2
    <2> HIDE DEF S
    <2>3. 0..N \subseteq S
      BY <2>1, <2>2, UpTo
    <2> QED
      BY <2>3 DEF S
  <1> DEFINE Up(N) == CHOOSE g : IsUpTo(g, N)
             f == [n \in Nat |-> Up(n)[n]]
  <1>5. ASSUME NEW N \in Nat PROVE IsUpTo(Up(N), N)
    <2> HIDE DEF IsUpTo
    <2> QED
      BY <1>3
  <1> HIDE DEF Up
  <1>6. f[0] = initial
    BY <1>5
  <1>7. ASSUME NEW n \in Nat PROVE f[n + 1] = ReadOn(f[n])
    <2>1. n + 1 \in Nat /\ n =< n + 1 /\ n \in 0..n /\ n \in 0..(n + 1) - 1
      OBVIOUS
    <2>2. IsUpTo(Up(n), n) /\ IsUpTo(Up(n + 1), n + 1)
      BY <1>5, <2>1
    <2>3. Up(n)[n] = Up(n + 1)[n]
      <3> HIDE DEF IsUpTo
      <3> QED
        BY <1>4, <2>1, <2>2
    <2>4. Up(n + 1)[n + 1] = ReadOn(Up(n + 1)[n])
      BY <2>1, <2>2
    <2> QED
      BY <2>1, <2>3, <2>4
  <1> DEFINE G(g) == [k \in Nat |-> IF k = 0 THEN initial ELSE ReadOn(g[k - 1])]
  <1>8. f = G(f)
    <2>1. f = [k \in Nat |-> f[k]]
      OBVIOUS
    <2> HIDE DEF f
    <2>2. \A k \in Nat : f[k] = IF k = 0 THEN initial ELSE ReadOn(f[k - 1])
      <3> SUFFICES ASSUME NEW k \in Nat, k # 0 PROVE f[k] = ReadOn(f[k - 1])
        BY <1>6
      <3>1. k - 1 \in Nat /\ (k - 1) + 1 = k
        OBVIOUS
      <3> QED
        BY <1>7, <3>1
    <2>3. [k \in Nat |-> f[k]] = G(f)
      BY <2>2
    <2> QED
      BY <2>1, <2>3
  <1>9. Trail(initial) = CHOOSE g : g = G(g)
    BY DEF Trail
  <1> HIDE DEF f, G
  <1>10. Trail(initial) = G(Trail(initial))
    BY <1>8, <1>9
  <1>11. \A k \in Nat : Trail(initial)[k] = IF k = 0 THEN initial ELSE ReadOn(Trail(initial)[k - 1])
    BY <1>10 DEF G
  <1>12. ASSUME NEW n \in Nat PROVE Trail(initial)[n + 1] = ReadOn(Trail(initial)[n])
    <2>1. n + 1 \in Nat /\ n + 1 # 0 /\ (n + 1) - 1 = n
      OBVIOUS
    <2> QED
      BY <1>11, <2>1
  <1>13. Trail(initial)[0] = initial
    BY <1>11
  <1> QED
    BY <1>12, <1>13

\* A state that the reader comes to and does not leave is its last one, and
\* there is such a state after as many steps as can be left in the beginning.
LEMMA TrailStops ==
  ASSUME NEW initial, ReaderType(initial), NEW q, Reaches(initial, q), ReadOn(q) = q
  PROVE  Left(initial) \in Nat /\ Trail(initial)[Left(initial)] = q
  <1> DEFINE T == Trail(initial)
             L == Left(initial)
  <1>1. T[0] = initial /\ \A n \in Nat : T[n + 1] = ReadOn(T[n])
    BY TrailIs
  <1> HIDE DEF T
  <1>2. ASSUME NEW r, ReaderType(r) PROVE Left(r) \in Nat
    <2>1. Len(r.rest) \in Nat /\ r.waiting.depth \in Nat
      BY <1>2, ShorterText, StackedFacts DEF ReaderType
    <2> QED
      BY <2>1 DEF Left
  <1>3. L \in Nat
    BY <1>2
  <1>4. \A k \in Nat : ReaderType(T[k])
    <2> DEFINE S == {k \in Nat : ReaderType(T[k])}
    <2>1. 0 \in S
      BY <1>1
    <2>2. ASSUME NEW k \in Nat, k \in S PROVE k + 1 \in S
      <3>1. ReadOn(T[k]) = T[k] \/ ReaderType(ReadOn(T[k]))
        BY <2>2, Progress DEF Closer
      <3> QED
        BY <1>1, <2>2, <3>1
    <2> HIDE DEF S
    <2>3. Nat \subseteq S
      BY <2>1, <2>2, NatUpTo
    <2> QED
      BY <2>3 DEF S
  <1> HIDE DEF L
  <1>5. \A k \in Nat : ReadOn(T[k]) = T[k] \/ Left(T[k]) + k =< L
    <2> DEFINE S == {k \in Nat : ReadOn(T[k]) = T[k] \/ Left(T[k]) + k =< L}
    <2>1. 0 \in S
      <3>1. Left(T[0]) = L
        BY <1>1 DEF L
      <3> QED
        BY <1>3, <3>1
    <2>2. ASSUME NEW k \in Nat, k \in S PROVE k + 1 \in S
      <3>1. k + 1 \in Nat /\ T[k + 1] = ReadOn(T[k])
        BY <1>1
      <3>2. CASE ReadOn(T[k]) = T[k]
        BY <3>1, <3>2
      <3>3. CASE ReadOn(T[k]) # T[k]
        <4>1. Left(T[k + 1]) < Left(T[k])
          BY <1>4, <3>1, <3>3, Progress DEF Closer
        <4>2. Left(T[k]) + k =< L
          BY <2>2, <3>3
        <4>3. Left(T[k]) \in Nat /\ Left(T[k + 1]) \in Nat
          BY <1>2, <1>4, <3>1
        <4>4. Left(T[k + 1]) + (k + 1) =< L
          BY <1>3, <4>1, <4>2, <4>3
        <4> QED
          BY <3>1, <4>4
      <3> QED
        BY <3>2, <3>3
    <2> HIDE DEF S
    <2>3. Nat \subseteq S
      BY <2>1, <2>2, NatUpTo
    <2> QED
      BY <2>3 DEF S
  <1>6. ReadOn(T[L]) = T[L]
    <2> SUFFICES ASSUME ReadOn(T[L]) # T[L] PROVE FALSE
      OBVIOUS
    <2>1. ReaderType(T[L]) /\ Left(T[L]) + L =< L
      BY <1>3, <1>4, <1>5
    <2>2. Closer(ReadOn(T[L]), T[L])
      BY <2>1, Progress
    <2>3. Left(T[L]) \in Nat /\ Left(ReadOn(T[L])) \in Nat /\ Left(ReadOn(T[L])) < Left(T[L])
      BY <1>2, <2>1, <2>2 DEF Closer
    <2> QED
      BY <1>3, <2>1, <2>3
  <1>7. ASSUME NEW k \in Nat, ReadOn(T[k]) = T[k] PROVE \A j \in Nat : T[k + j] = T[k]
    <2> DEFINE S == {j \in Nat : T[k + j] = T[k]}
    <2>1. 0 \in S
      OBVIOUS
    <2>2. ASSUME NEW j \in Nat, j \in S PROVE j + 1 \in S
      <3>1. k + j \in Nat /\ k + (j + 1) = (k + j) + 1
        OBVIOUS
      <3>2. T[(k + j) + 1] = ReadOn(T[k + j])
        BY <1>1, <3>1
      <3> QED
        BY <1>7, <2>2, <3>1, <3>2
    <2> HIDE DEF S
    <2>3. Nat \subseteq S
      BY <2>1, <2>2, NatUpTo
    <2> QED
      BY <2>3 DEF S
  <1>8. PICK m \in Nat : T[m] = q
    <2> DEFINE S == {T[k] : k \in Nat}
    <2>1. initial \in S
      BY <1>1
    <2>2. \A x \in S : ReadOn(x) \in S
      <3> SUFFICES ASSUME NEW k \in Nat PROVE ReadOn(T[k]) \in S
        OBVIOUS
      <3>1. k + 1 \in Nat /\ ReadOn(T[k]) = T[k + 1]
        BY <1>1
      <3> QED
        BY <3>1
    <2> HIDE DEF S
    <2>3. q \in S
      BY <2>1, <2>2 DEF Reaches
    <2> QED
      BY <2>3 DEF S
  <1>9. T[L] = q
    <2>1. CASE m =< L
      <3>1. L - m \in Nat /\ m + (L - m) = L
        BY <1>3, <2>1
      <3>2. T[m + (L - m)] = T[m]
        BY <1>7, <1>8, <3>1
      <3> QED
        BY <1>8, <3>1, <3>2
    <2>2. CASE ~ (m =< L)
      <3>1. m - L \in Nat /\ L + (m - L) = m
        BY <1>3, <2>2
      <3>2. T[L + (m - L)] = T[L]
        BY <1>3, <1>6, <1>7, <3>1
      <3> QED
        BY <1>8, <3>1, <3>2
    <2> QED
      BY <2>1, <2>2
  <1> QED
    BY <1>3, <1>9 DEF T, L

LEMMA ParseIs ==
  ASSUME NEW text
  PROVE  LET end == Trail(Reading(Nobody, <<>>, text))[2 * Len(text)]
         IN  Parse(text) = IF Clean(text) /\ end.waiting = Nobody /\ end.rest = <<>> /\ end.operand # <<>>
                           THEN end.operand[1] ELSE Failure
  BY DEF Parse, Trail

LEMMA LegibleReadsBack == ASSUME NEW e, Legible(e) PROVE (Parse(e.text) = e.tree) <=> e.plain
  <1> DEFINE initial == Wanting(Nobody, e.text)
             end == Trail(initial)[2 * Len(e.text)]
  <1>1. e.text \in Text /\ e.plain \in BOOLEAN /\ (e.plain => Clean(e.text)) /\ e.tree # Failure
    BY DEF Legible, Shaped
  <1>2. Parse(e.text) = IF Clean(e.text) /\ end.waiting = Nobody /\ end.rest = <<>> /\ end.operand # <<>>
                        THEN end.operand[1] ELSE Failure
    BY ParseIs DEF Wanting
  <1>3. CASE Lost(e)
    BY <1>1, <1>2, <1>3 DEF Lost
  <1>4. CASE ~ Lost(e)
    <2>1. <<>> \in Text /\ e.text \o <<>> = e.text
      BY <1>1, ConcatEmptySeq DEF Text
    <2>2. Nobody.need \in 1..4 /\ Nobody.need = 1 /\ Nobody.close = "end" /\ Nobody.depth = 0
      BY DEF Nobody
    <2>3. NextToken(<<>>) = "end"
      BY DEF NextToken
    <2>4. Strength(NextToken(<<>>)) < 3 /\ ~ (Strength(NextToken(<<>>)) >= 1)
      BY <2>3, StrengthIs
    <2>5. PICK t : Means(e, t) /\ Leads(e, initial, Holding(Nobody, t, <<>>))
      <3>1. \E t : Means(e, t) /\ Leads(e, Wanting(Nobody, e.text \o <<>>), Holding(Nobody, t, <<>>))
        BY <1>4, <2>1, <2>2, <2>4, WeakReads
      <3> QED
        BY <2>1, <3>1
    <2>6. initial.waiting = Nobody /\ initial.rest = e.text
      BY ReadingFacts DEF Wanting
    <2> HIDE DEF initial
    <2>7. ReaderType(initial)
      BY <1>1, <2>6, StackedNobody DEF ReaderType
    <2>8. Left(initial) = 2 * Len(e.text)
      <3>1. Len(e.text) \in Nat
        BY <1>1, ShorterText
      <3> QED
        BY <2>2, <2>6, <3>1 DEF Left
    <2>9. CASE Reaches(initial, Holding(Nobody, t, <<>>))
      <3> DEFINE q == Holding(Nobody, t, <<>>)
      <3>1. q.waiting = Nobody /\ q.rest = <<>> /\ q.operand = <<t>>
        BY ReadingFacts DEF Holding
      <3>2. <<t>> # <<>> /\ <<t>>[1] = t
        BY OneIsSome
      <3> HIDE DEF q
      <3>3. ReadOn(q) = ReadRight(q)
        BY <2>2, <2>4, <3>1, <3>2 DEF ReadOn
      <3>4. ReadRight(q) = q
        BY <2>2, <2>3, <3>1 DEF ReadRight
      <3>5. end = q
        BY <2>7, <2>8, <2>9, <3>3, <3>4, TrailStops DEF q
      <3> HIDE DEF end
      <3>6. Parse(e.text) = IF Clean(e.text) THEN t ELSE Failure
        BY <1>2, <3>1, <3>2, <3>5
      <3> QED
        BY <1>1, <2>5, <3>6 DEF Means
    <2>10. CASE ~ e.plain /\ \E x : Reaches(initial, x) /\ Stuck(x)
      <3>1. PICK x : Reaches(initial, x) /\ Stuck(x)
        BY <2>10
      <3>2. end = x /\ x.rest # <<>>
        BY <2>7, <2>8, <3>1, TrailStops DEF Stuck
      <3> HIDE DEF end
      <3>3. Parse(e.text) = Failure
        BY <1>2, <3>2
      <3> QED
        BY <1>1, <2>10, <3>3
    <2> QED
      BY <2>5, <2>9, <2>10 DEF Leads
  <1> QED
    BY <1>3, <1>4

-----------------------------------------------------------------------------

LEMMA LegibleStep == ASSUME Legible(expr), [ExprNext]_exprVars PROVE Legible(expr)'
  <1>1. CASE UNCHANGED exprVars
    <2>1. expr' = expr
      BY <1>1 DEF exprVars
    <2> QED
      BY <2>1
  <1>2. ASSUME NEW e, Build(e), Legible(e) PROVE Legible(expr)'
    <2>1. expr' = e
      BY <1>2 DEF Build
    <2> QED
      BY <1>2, <2>1
  <1>3. ASSUME NEW e \in {Not(expr), Minus(expr), Plus(expr), IsNull(expr), Function(expr)}, Build(e)
        PROVE  Legible(expr)'
    BY <1>2, <1>3, NotIs, MinusIs, PlusIs, IsNullIs, FunctionIs
  <1>4. ASSUME NEW op \in Spelled \cup Marks \cup {"REGEXP"}, NEW o \in Operands,
               Build(Binary(op, expr, o)) \/ Build(Binary(op, o, expr))
        PROVE  Legible(expr)'
    <2>1. op \in Infix /\ Legible(o)
      BY OperandsAre DEF Infix
    <2>2. Legible(Binary(op, expr, o)) /\ Legible(Binary(op, o, expr))
      BY <2>1, BinaryIs
    <2> QED
      BY <1>2, <1>4, <2>2
  <1>5. ASSUME NEW o \in Operands,
               \/ Build(In(expr, o))
               \/ Build(In(o, expr))
               \/ Build(LikeEscape(expr, o, Pattern))
               \/ Build(LikeEscape(o, expr, Pattern))
               \/ Build(Between(expr, o, o))
               \/ Build(Between(o, expr, o))
               \/ Build(Between(o, o, expr))
        PROVE  Legible(expr)'
    <2>1. Legible(o)
      BY OperandsAre
    <2>2. Legible(In(expr, o)) /\ Legible(In(o, expr))
      BY <2>1, InIs
    <2>3. Legible(LikeEscape(expr, o, Pattern)) /\ Legible(LikeEscape(o, expr, Pattern))
      BY <2>1, LikeEscapeIs
    <2>4. Legible(Between(expr, o, o)) /\ Legible(Between(o, expr, o)) /\ Legible(Between(o, o, expr))
      BY <2>1, BetweenIs
    <2> QED
      BY <1>2, <1>5, <2>2, <2>3, <2>4
  <1> QED
    BY <1>1, <1>3, <1>4, <1>5 DEF ExprNext

\* SQLite reads from the text of an expression what the app has built, if and
\* only if it is plain, however deep the expression is.
THEOREM ReadsBackAlways == ExprSpec => []ReadsBack
  <1>1. ExprInit => Legible(expr)
    BY AtomsAre DEF ExprInit
  <1>2. Legible(expr) /\ [ExprNext]_exprVars => Legible(expr)'
    BY LegibleStep
  <1>3. Legible(expr) => ReadsBack
    BY LegibleReadsBack DEF ReadsBack
  <1> QED
    BY <1>1, <1>2, <1>3, PTL DEF ExprSpec

=============================================================================
