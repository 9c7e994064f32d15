----------------------------- MODULE AppProofs -----------------------------
(***************************************************************************)
(* Proofs about the app around a level: LevelTable, TabBar, and App.       *)
(*                                                                         *)
(* LevelTable, for every plist and any number of launches, games and days: *)
(* the table, the list and the user defaults agree (Coherent), no layout   *)
(* that has a row loses it (NoLevelLost) and records come from wins only   *)
(* (RecordsAreOfWins).  The heart of it is that every layout of the list   *)
(* has a row while the list is in use (RunningInv): a save then either     *)
(* changes no primary key but the one it rewrites with itself, or fails as *)
(* a whole (UpdateFacts).                                                  *)
(*                                                                         *)
(* TabBar, for every number of animations at once: at rest the bar is one  *)
(* thing, and the one wanted last (BarCoherent).  The animations in flight *)
(* carry the proof: the last of them ends where the bar is (FlightsLead).  *)
(***************************************************************************)
EXTENDS App, TLAPS

\* The phases in which the list is complete for this launch.
Running == {"date", "draw", "name", "home", "ready"}

\* No two levels of the list have both their name and their layout in common.
AllDiffer(t) ==
    \A i, j \in DOMAIN t : i # j => t[i].name # t[j].name \/ t[i].layout # t[j].layout

\* The list of the launch that has seeded the table.
FromPlist ==
    /\ Len(stages) = Len(Plist)
    /\ \A i \in DOMAIN stages : stages[i].name = Plist[i].name /\ stages[i].layout = Plist[i].layout

\* What there is outside the phases that use it.
Places ==
    /\ phase = "off" => stages = <<>>
    /\ phase # "ready" => open = 0
    /\ AllDiffer(stages)

\* While the plist is read: the list is its beginning, and the table holds the
\* layouts of the list; two levels with one layout share a row.
SeedingInv ==
    phase = "seeding" =>
        /\ Len(stages) < Len(Plist)
        /\ Len(rows) =< Len(stages)
        /\ \A i \in DOMAIN stages : stages[i] = Fresh(Plist[i])
        /\ \A r \in DOMAIN rows : rows[r].step = 0 /\ rows[r].best = -1
        /\ Layouts(rows) = Layouts(stages)

\* In use, the list holds the layouts of the table.  It is longer than the
\* table only in the launch that has seeded, when levels share a row.
RunningInv ==
    phase \in Running =>
        /\ rows # <<>>
        /\ Len(rows) =< Len(stages)
        /\ Layouts(rows) = Layouts(stages)
        /\ Len(stages) # Len(rows) =>
              FromPlist /\ (phase \in {"date", "draw", "name"} => saved.name = NoName)
        /\ phase = "name" => saved.index < Len(stages)

\* A table, complete or cut short by a kill, is the beginning of the plist.
RowsArePrefix ==
    rows # <<>> => \E n \in DOMAIN Plist : Layouts(rows) = Layouts(SubSeq(Plist, 1, n))

\* An index that is past the end of the table was drawn from a list as long as
\* the plist, and what was written with it is the name of the plist's level.
IndexKnown ==
    /\ rows = <<>> \/ phase = "seeding" => saved.index = 0 /\ saved.name = NoName
    /\ rows # <<>> /\ saved.index >= Len(rows) =>
          Layouts(rows) = Layouts(Plist) /\ saved.name \in {NoName, Plist[saved.index + 1].name}

\* updateDB by that name finds row r alone, and r has that layout.
Finds(level, r) ==
    /\ rows[r].layout = level.layout
    /\ {j \in DOMAIN rows : rows[j].name = level.name} = {r}

\* The record of a level that can be saved is its row's, on screen or not.
BestKept ==
    \A i \in DOMAIN stages, r \in DOMAIN rows :
        Finds(stages[i], r) => stages[i].best = rows[r].best

\* Only the level on screen can differ from its row, of those that can be saved.
OthersSaved ==
    phase \in Running =>
        \A i \in DOMAIN stages : i # open /\ Savable(stages[i]) => InTable(stages[i])

\* The inductive invariant.
LevelInv ==
    /\ TypeOK /\ KeysDiffer(rows)
    /\ Places /\ SeedingInv /\ RunningInv /\ RowsArePrefix /\ IndexKnown /\ BestKept /\ OthersSaved

-----------------------------------------------------------------------------
(* Sequences                                                               *)

\* A sequence without one of its entries, entry by entry.
LEMMA RemoveAtFacts ==
    ASSUME NEW S, NEW s \in Seq(S), NEW i \in 1..Len(s)
    PROVE  /\ Removed(s, i) \in Seq(S)
           /\ Len(Removed(s, i)) = Len(s) - 1
           /\ \A k \in 1..Len(s)-1 : Removed(s, i)[k] = IF k < i THEN s[k] ELSE s[k + 1]
<1> DEFINE a == SubSeq(s, 1, i - 1)
           b == SubSeq(s, i + 1, Len(s))
<1>1. a \in Seq(S) /\ Len(a) = i - 1 /\ \A k \in 1..i-1 : a[k] = s[k]
    OBVIOUS
<1>2. b \in Seq(S) /\ Len(b) = Len(s) - i /\ \A k \in 1..Len(s)-i : b[k] = s[k + i]
    OBVIOUS
<1>3. Removed(s, i) = a \o b
    BY DEF Removed
<1> HIDE DEF a, b
<1>4. a \o b \in Seq(S) /\ Len(a \o b) = Len(s) - 1
    <2>1. a \o b \in Seq(S) /\ Len(a \o b) = Len(a) + Len(b)
        <3>1. a \in Seq(S) /\ b \in Seq(S)
            BY <1>1, <1>2
        <3>2. a \o b \in Seq(S)
            BY <3>1
        <3>3. Len(a \o b) = Len(a) + Len(b)
            BY <3>1
        <3> QED
            BY <3>2, <3>3
    <2>2. i \in Int /\ Len(s) \in Int
        OBVIOUS
    <2>3. (i - 1) + (Len(s) - i) = Len(s) - 1
        BY <2>2
    <2> QED
        BY <1>1, <1>2, <2>1, <2>3
<1>5. ASSUME NEW k \in 1..Len(s)-1
      PROVE  (a \o b)[k] = IF k < i THEN s[k] ELSE s[k + 1]
    <2>1. CASE k < i
        BY <1>1, <1>2, <2>1
    <2>2. CASE k >= i
        <3>1. (a \o b)[k] = b[k - (i - 1)]
            BY <1>1, <1>2, <2>2
        <3>2. k - (i - 1) \in 1..Len(s)-i /\ (k - (i - 1)) + i = k + 1
            BY <2>2
        <3> QED
            BY <1>2, <2>2, <3>1, <3>2
    <2>3. k < i \/ k >= i
        OBVIOUS
    <2> QED
        BY <2>1, <2>2, <2>3
<1> QED
    BY <1>3, <1>4, <1>5

\* The plist has entries, and a new Level made from one is an object.
LEMMA PlistFacts ==
    /\ Len(Plist) \in Nat \ {0} /\ DOMAIN Plist = 1..Len(Plist)
    /\ \A i \in 1..Len(Plist) : Plist[i] \in Levels /\ Fresh(Plist[i]) \in Objects
<1>1. Len(Plist) \in Nat \ {0} /\ DOMAIN Plist = 1..Len(Plist)
    BY PlistAssumption
<1>2. \A i \in 1..Len(Plist) : Plist[i] \in Levels
    BY <1>1 DEF Levels
<1>3. \A l \in Levels : Fresh(l) \in Objects
    BY BoundAssumption DEF Objects, Fresh, Object
<1> QED
    BY <1>1, <1>2, <1>3

\* What the replacing insert does.
LEMMA InsertFacts ==
    ASSUME NEW t \in Seq(Objects), KeysDiffer(t), NEW level \in Objects
    PROVE  LET new == InsertOrReplace(t, level) IN
           /\ new \in Seq(Objects) /\ Len(new) \in 1..Len(t)+1
           /\ new[Len(new)] = level
           /\ \A k \in 1..Len(new)-1 : \E i \in DOMAIN t : new[k] = t[i] /\ t[i].layout # level.layout
           /\ KeysDiffer(new)
           /\ Layouts(new) = Layouts(t) \cup {level.layout}
<1> DEFINE same == {i \in DOMAIN t : t[i].layout = level.layout}
<1>1. CASE same = {}
    <2>1. InsertOrReplace(t, level) = Append(t, level)
        BY <1>1 DEF InsertOrReplace
    <2>2. Append(t, level) \in Seq(Objects) /\ Len(Append(t, level)) = Len(t) + 1
          /\ Append(t, level)[Len(t) + 1] = level /\ \A k \in 1..Len(t) : Append(t, level)[k] = t[k]
        OBVIOUS
    <2>3. \A i \in 1..Len(t) : t[i].layout # level.layout
        BY <1>1
    <2> DEFINE n == Append(t, level)
    <2> HIDE DEF n
    <2>4. n \in Seq(Objects) /\ Len(n) = Len(t) + 1 /\ n[Len(t) + 1] = level
          /\ \A k \in 1..Len(t) : n[k] = t[k]
        BY <2>2 DEF n
    <2>5. KeysDiffer(n)
        BY <2>3, <2>4 DEF KeysDiffer
    <2>6. Layouts(n) = Layouts(t) \cup {level.layout}
        BY <2>4 DEF Layouts
    <2> QED
        BY <2>1, <2>3, <2>4, <2>5, <2>6 DEF n
<1>2. CASE same # {}
    <2>1. PICK o \in DOMAIN t : t[o].layout = level.layout /\ o = CHOOSE i \in same : TRUE
        BY <1>2
    <2> DEFINE q == Removed(t, o)
    <2>2. InsertOrReplace(t, level) = Append(q, level)
        BY <1>2, <2>1 DEF InsertOrReplace
    <2>3. q \in Seq(Objects) /\ Len(q) = Len(t) - 1
          /\ \A k \in 1..Len(t)-1 : q[k] = IF k < o THEN t[k] ELSE t[k + 1]
        <3>1. o \in 1..Len(t)
            OBVIOUS
        <3> QED
            BY <3>1, RemoveAtFacts
    <2> HIDE DEF q
    <2> DEFINE n == Append(q, level)
    <2>4. n \in Seq(Objects) /\ Len(n) = Len(t) /\ n[Len(t)] = level
          /\ \A k \in 1..Len(t)-1 : n[k] = q[k]
        BY <2>3
    <2> HIDE DEF n
    <2>5. \A k \in 1..Len(t)-1 : n[k] = IF k < o THEN t[k] ELSE t[k + 1]
        BY <2>3, <2>4
    <2>6. \A i \in DOMAIN t : i # o => t[i].layout # level.layout
        BY <2>1 DEF KeysDiffer
    <2>7. ASSUME NEW k \in 1..Len(t)-1
          PROVE  \E i \in DOMAIN t : n[k] = t[i] /\ t[i].layout # level.layout
        <3>1. CASE k < o
            BY <2>5, <2>6, <3>1
        <3>2. CASE ~ (k < o)
            <4>1. n[k] = t[k + 1] /\ k + 1 \in DOMAIN t /\ k + 1 # o
                BY <2>5, <3>2
            <4> QED
                BY <2>6, <4>1
        <3> QED
            BY <3>1, <3>2
    <2>8. KeysDiffer(n)
        <3> SUFFICES ASSUME NEW i \in DOMAIN n, NEW j \in DOMAIN n, i < j PROVE n[i].layout # n[j].layout
            BY <2>4 DEF KeysDiffer
        <3>1. i \in 1..Len(t)-1 /\ j \in 1..Len(t)
            BY <2>4
        <3>2. CASE j = Len(t)
            BY <2>4, <2>7, <3>1, <3>2
        <3>3. CASE j < Len(t)
            <4> DEFINE from(k) == IF k < o THEN k ELSE k + 1
            <4>2. n[i] = t[from(i)] /\ n[j] = t[from(j)]
                BY <2>5, <3>1, <3>3
            <4>3. from(i) \in DOMAIN t /\ from(j) \in DOMAIN t /\ from(i) # from(j)
                BY <3>1, <3>3
            <4> HIDE DEF from
            <4>1. \E a, b \in DOMAIN t : a # b /\ n[i] = t[a] /\ n[j] = t[b]
                BY <4>2, <4>3
            <4> QED
                BY <4>1 DEF KeysDiffer
        <3> QED
            BY <3>1, <3>2, <3>3
    <2>9. Layouts(n) = Layouts(t) \cup {level.layout}
        <3>1. \A l \in Layouts(n) : l \in Layouts(t) \cup {level.layout}
            BY <2>4, <2>7 DEF Layouts
        <3>2. ASSUME NEW i \in DOMAIN t PROVE \E k \in DOMAIN n : n[k].layout = t[i].layout
            <4>1. CASE i < o
                BY <2>1, <2>4, <2>5, <4>1
            <4>2. CASE i = o
                BY <2>1, <2>4, <4>2
            <4>3. CASE i > o
                <5>1. i - 1 \in 1..Len(t)-1 /\ ~ (i - 1 < o) /\ (i - 1) + 1 = i
                    BY <2>1, <4>3
                <5>2. PICK k \in 1..Len(t)-1 : k = i - 1
                    BY <5>1
                <5>3. n[k] = t[k + 1] /\ k + 1 = i
                    BY <2>5, <5>1, <5>2
                <5> QED
                    BY <2>4, <5>2, <5>3
            <4> QED
                BY <2>1, <4>1, <4>2, <4>3
        <3>3. level.layout \in Layouts(n)
            BY <2>4 DEF Layouts
        <3>4. Layouts(n) \subseteq Layouts(t) \cup {level.layout}
            BY <3>1
        <3>5. Layouts(t) \subseteq Layouts(n)
            BY <3>2 DEF Layouts
        <3> QED
            BY <3>3, <3>4, <3>5
    <2>10. Len(t) \in 1..Len(t)+1
        BY <2>1
    <2> QED
        BY <2>2, <2>4, <2>7, <2>8, <2>9, <2>10 DEF n
<1> QED
    BY <1>1, <1>2

\* What a save does.
LEMMA UpdateFacts ==
    ASSUME NEW t \in Seq(Objects), KeysDiffer(t), NEW level \in Objects, level.layout \in Layouts(t)
    PROVE  LET new == UpdateDB(t, level) IN
           /\ new \in Seq(Objects) /\ Len(new) = Len(t) /\ KeysDiffer(new)
           /\ \A k \in DOMAIN t : new[k].name = t[k].name /\ new[k].layout = t[k].layout
           /\ \A k \in DOMAIN t :
                new[k] = t[k] \/ (new[k] = level /\ t[k].name = level.name /\ t[k].layout = level.layout)
           /\ \A k \in DOMAIN t :
                new[k] # t[k] => {j \in DOMAIN t : t[j].name = level.name} = {k}
           /\ \A k \in DOMAIN t :
                t[k].layout = level.layout /\ {j \in DOMAIN t : t[j].name = level.name} = {k}
                    => new[k] = level
<1> DEFINE w == Written(t, level)
<1>1. w \in Seq(Objects) /\ Len(w) = Len(t) /\ DOMAIN w = DOMAIN t
      /\ \A k \in DOMAIN t : w[k] = IF t[k].name = level.name THEN level ELSE t[k]
    BY DEF Written
<1> HIDE DEF w
<1>2. UpdateDB(t, level) = IF KeysDiffer(w) THEN w ELSE t
    BY DEF UpdateDB, w
<1>3. PICK o \in DOMAIN t : t[o].layout = level.layout
    BY DEF Layouts
<1>4. CASE KeysDiffer(w)
    <2>1. \A k \in DOMAIN t : t[k].name = level.name => k = o
        <3> SUFFICES ASSUME NEW k \in DOMAIN t, t[k].name = level.name, k # o PROVE FALSE
            OBVIOUS
        <3>1. w[k].layout = level.layout /\ w[o].layout = level.layout
            BY <1>1, <1>3
        <3> QED
            BY <1>1, <1>4, <3>1 DEF KeysDiffer
    <2>2. \A k \in DOMAIN t : w[k] = t[k] \/ (w[k] = level /\ t[k].name = level.name /\ t[k].layout = level.layout)
        BY <1>1, <1>3, <2>1
    <2>3. \A k \in DOMAIN t : {j \in DOMAIN t : t[j].name = level.name} = {k} => w[k] = level
        BY <1>1
    <2>4. UpdateDB(t, level) = w
        BY <1>2, <1>4
    <2>5. \A k \in DOMAIN t : w[k].name = t[k].name /\ w[k].layout = t[k].layout
        BY <2>2
    <2>6. \A k \in DOMAIN t : w[k] # t[k] => {j \in DOMAIN t : t[j].name = level.name} = {k}
        BY <1>1, <2>1
    <2> QED
        BY <1>1, <1>4, <2>2, <2>3, <2>4, <2>5, <2>6
<1>5. CASE ~ KeysDiffer(w)
    <2>1. UpdateDB(t, level) = t
        BY <1>2, <1>5
    <2>2. ASSUME NEW k \in DOMAIN t, t[k].layout = level.layout, {j \in DOMAIN t : t[j].name = level.name} = {k}
          PROVE  FALSE
        <3>1. \A j \in DOMAIN t : w[j].layout = t[j].layout
            BY <1>1, <2>2
        <3> QED
            BY <1>1, <1>5, <3>1 DEF KeysDiffer
    <2> QED
        BY <2>1, <2>2
<1> QED
    BY <1>4, <1>5

-----------------------------------------------------------------------------
(* The invariant                                                           *)

USE DEF Running

\* A new installation has neither rows nor a list.
LEMMA InitInv == Init => LevelInv
<1> SUFFICES ASSUME Init PROVE LevelInv
    OBVIOUS
<1>1. TypeOK
    BY PlistFacts, BoundAssumption DEF Init, TypeOK, Phase
<1>2. KeysDiffer(rows) /\ Places /\ SeedingInv /\ RunningInv /\ RowsArePrefix /\ IndexKnown
    BY DEF Init, KeysDiffer, Places, AllDiffer, SeedingInv, RunningInv, RowsArePrefix, IndexKnown
<1>3. BestKept /\ OthersSaved
    BY DEF Init, BestKept, OthersSaved
<1> QED
    BY <1>1, <1>2, <1>3 DEF LevelInv

\* The list is made from the table.
LEMMA LaunchInv == LevelInv /\ Launch => LevelInv'
<1> SUFFICES ASSUME LevelInv, Launch PROVE LevelInv'
    OBVIOUS
<1>0. TypeOK /\ KeysDiffer(rows) /\ Places /\ RowsArePrefix /\ IndexKnown
    BY DEF LevelInv
<1>1. /\ phase = "off" /\ stages' = rows /\ rows' = rows /\ open' = open /\ saved' = saved
      /\ day' = day /\ touches' = touches
      /\ phase' = IF rows = <<>> THEN "seeding" ELSE "date"
    BY DEF Launch
<1>2. open = 0 /\ rows \in Seq(Objects)
    BY <1>0, <1>1 DEF Places, TypeOK
<1>3. TypeOK'
    BY <1>0, <1>1, <1>2 DEF TypeOK, Phase
<1>4. KeysDiffer(rows)' /\ Places'
    BY <1>0, <1>1, <1>2 DEF KeysDiffer, Places, AllDiffer
<1>5. SeedingInv'
    <2> SUFFICES ASSUME phase' = "seeding" PROVE SeedingInv'
        BY DEF SeedingInv
    <2>1. rows = <<>>
        BY <1>1
    <2> QED
        BY <1>1, <2>1, PlistFacts DEF SeedingInv
<1>6. RunningInv'
    BY <1>1, <1>2 DEF RunningInv
<1>7. RowsArePrefix' /\ IndexKnown'
    BY <1>0, <1>1 DEF RowsArePrefix, IndexKnown
<1>8. BestKept'
    <2> SUFFICES ASSUME NEW i \in DOMAIN rows, NEW r \in DOMAIN rows, rows[i].layout = rows[r].layout
                 PROVE  rows[i].best = rows[r].best
        BY <1>1 DEF BestKept, Finds
    <2>1. i = r
        BY <1>0 DEF KeysDiffer
    <2> QED
        BY <2>1
<1>9. OthersSaved'
    BY <1>1 DEF OthersSaved, InTable
<1> QED
    BY <1>3, <1>4, <1>5, <1>6, <1>7, <1>8, <1>9 DEF LevelInv

\* One level more, in the list and in the table.
LEMMA SeedInv == LevelInv /\ Seed => LevelInv'
<1> SUFFICES ASSUME LevelInv, Seed PROVE LevelInv'
    OBVIOUS
<1>0. TypeOK /\ KeysDiffer(rows) /\ Places /\ SeedingInv /\ RowsArePrefix /\ IndexKnown /\ BestKept
    BY DEF LevelInv
<1> DEFINE n == Len(stages) + 1
           level == Fresh(Plist[n])
<1>1. /\ phase = "seeding" /\ open' = open /\ saved' = saved /\ day' = day /\ touches' = touches
      /\ rows' = InsertOrReplace(rows, level)
      /\ stages' = Append(stages, level)
      /\ phase' = IF Len(stages') = Len(Plist) THEN "date" ELSE "seeding"
    BY DEF Seed
<1>2. /\ rows \in Seq(Objects) /\ stages \in Seq(Objects) /\ open = 0
      /\ Len(stages) \in Nat /\ Len(rows) \in Nat
    BY <1>0, <1>1 DEF Places, TypeOK
<1>3. /\ Len(stages) < Len(Plist) /\ Len(rows) =< Len(stages)
      /\ \A i \in DOMAIN stages : stages[i] = Fresh(Plist[i])
      /\ \A r \in DOMAIN rows : rows[r].step = 0 /\ rows[r].best = -1
      /\ Layouts(rows) = Layouts(stages)
    BY <1>0, <1>1 DEF SeedingInv
<1>4. n \in 1..Len(Plist)
    BY <1>2, <1>3, PlistFacts
<1>5. /\ level \in Objects /\ level.name = Plist[n].name /\ level.layout = Plist[n].layout
      /\ level.step = 0 /\ level.best = -1
    BY <1>4, PlistFacts DEF Fresh, Object
<1> HIDE DEF level
<1>6. /\ rows' \in Seq(Objects) /\ Len(rows') \in 1..Len(rows)+1
      /\ rows'[Len(rows')] = level
      /\ \A k \in 1..Len(rows')-1 : \E i \in DOMAIN rows : rows'[k] = rows[i] /\ rows[i].layout # level.layout
      /\ KeysDiffer(rows')
      /\ Layouts(rows') = Layouts(rows) \cup {level.layout}
    <2> DEFINE new == InsertOrReplace(rows, level)
    <2>1. /\ new \in Seq(Objects) /\ Len(new) \in 1..Len(rows)+1
          /\ new[Len(new)] = level
          /\ \A k \in 1..Len(new)-1 : \E i \in DOMAIN rows : new[k] = rows[i] /\ rows[i].layout # level.layout
          /\ KeysDiffer(new)
          /\ Layouts(new) = Layouts(rows) \cup {level.layout}
        BY <1>0, <1>2, <1>5, InsertFacts
    <2> HIDE DEF new
    <2>2. rows' = new
        BY <1>1 DEF new
    <2> QED
        BY <2>1, <2>2
<1>7. /\ stages' \in Seq(Objects) /\ Len(stages') = n /\ stages'[n] = level
      /\ \A i \in 1..Len(stages) : stages'[i] = stages[i]
    BY <1>1, <1>2, <1>5
<1>8. TypeOK'
    <2>1. Len(rows') =< Len(Plist) /\ Len(stages') =< Len(Plist)
        BY <1>2, <1>3, <1>4, <1>6, <1>7, PlistFacts
    <2>2. phase' \in Phase /\ open' \in 0..Len(stages')
        BY <1>1, <1>2, <1>7 DEF Phase
    <2> QED
        BY <1>0, <1>1, <1>6, <1>7, <2>1, <2>2 DEF TypeOK
<1>9. \A i \in DOMAIN stages' : stages'[i].name = Plist[i].name /\ stages'[i].layout = Plist[i].layout
    BY <1>2, <1>3, <1>5, <1>7 DEF Fresh, Object
<1>10. \A i \in DOMAIN stages' : stages'[i] = Fresh(Plist[i])
    BY <1>2, <1>3, <1>7 DEF level
<1>11. \A r \in DOMAIN rows' : rows'[r].step = 0 /\ rows'[r].best = -1
    <2>1. \A r \in DOMAIN rows' : r = Len(rows') \/ r \in 1..Len(rows')-1
        BY <1>6
    <2> QED
        BY <1>3, <1>5, <1>6, <2>1
<1>12. Layouts(stages') = Layouts(stages) \cup {level.layout}
    BY <1>2, <1>7 DEF Layouts
<1>13. Layouts(rows') = Layouts(stages')
    BY <1>3, <1>6, <1>12
<1>14. Len(rows') =< Len(stages')
    BY <1>2, <1>3, <1>6, <1>7
<1>15. Places'
    <2>1. DOMAIN stages' \subseteq DOMAIN Plist
        BY <1>4, <1>7, PlistFacts
    <2>2. AllDiffer(stages')
        BY <1>9, <2>1, PlistAssumption DEF AllDiffer
    <2> QED
        BY <1>0, <1>1, <1>2, <2>2 DEF Places
<1>16. SeedingInv'
    <2> SUFFICES ASSUME phase' = "seeding" PROVE SeedingInv'
        BY DEF SeedingInv
    <2>1. Len(stages') # Len(Plist)
        BY <1>1
    <2>2. Len(stages') < Len(Plist)
        <3>0. PICK k \in Int : k = Len(stages')
            BY <1>2, <1>7
        <3>4. Len(Plist) \in Int
            BY PlistFacts
        <3>1. PICK m \in Int : m = Len(Plist)
            BY <3>4
        <3>2. k =< m /\ k # m
            BY <1>4, <1>7, <2>1, <3>0, <3>1
        <3>3. k < m
            BY <3>2
        <3> QED
            BY <3>0, <3>1, <3>3
    <2> QED
        BY <1>10, <1>11, <1>13, <1>14, <2>2 DEF SeedingInv
<1>17. rows' # <<>>
    BY <1>6
<1>18. RunningInv'
    <2> SUFFICES ASSUME phase' \in Running PROVE RunningInv'
        BY DEF RunningInv
    <2>1. phase' = "date" /\ Len(stages') = Len(Plist)
        BY <1>1
    <2>2. FromPlist'
        BY <1>9, <2>1 DEF FromPlist
    <2>3. saved'.name = NoName
        BY <1>0, <1>1 DEF IndexKnown
    <2> QED
        BY <1>13, <1>14, <1>17, <2>1, <2>2, <2>3 DEF RunningInv
<1>19. RowsArePrefix'
    <2>1. Layouts(stages') = Layouts(SubSeq(Plist, 1, n))
        <3>1. Len(SubSeq(Plist, 1, n)) = n /\ \A i \in 1..n : SubSeq(Plist, 1, n)[i] = Plist[i]
            BY <1>4, PlistFacts, PlistAssumption
        <3>2. DOMAIN SubSeq(Plist, 1, n) = 1..n
            BY <1>4, PlistFacts, PlistAssumption
        <3>3. DOMAIN stages' = 1..n
            BY <1>7
        <3> QED
            BY <1>9, <3>1, <3>2, <3>3 DEF Layouts
    <2> QED
        BY <1>4, <1>13, <2>1, PlistFacts DEF RowsArePrefix
<1>20. IndexKnown'
    BY <1>0, <1>1, <1>6, <1>17 DEF IndexKnown
<1>21. BestKept'
    <2>1. \A i \in DOMAIN stages' : stages'[i].best = -1
        BY <1>10 DEF Fresh, Object
    <2> QED
        BY <1>11, <2>1 DEF BestKept
<1>22. OthersSaved'
    <2> SUFFICES ASSUME NEW i \in DOMAIN stages' PROVE InTable(stages[i])'
        BY DEF OthersSaved
    <2>1. stages'[i].layout \in Layouts(rows')
        BY <1>13 DEF Layouts
    <2>2. PICK r \in DOMAIN rows' : rows'[r].layout = stages'[i].layout
        BY <2>1 DEF Layouts
    <2>3. stages'[i].step = 0 /\ stages'[i].best = -1
        BY <1>10 DEF Fresh, Object
    <2> QED
        BY <1>11, <2>2, <2>3 DEF InTable
<1> QED
    BY <1>6, <1>8, <1>15, <1>16, <1>18, <1>19, <1>20, <1>21, <1>22 DEF LevelInv

\* todayLevel writes to the user defaults only.
LEMMA TodayInv == LevelInv /\ (CheckDate \/ DrawIndex \/ WriteName \/ ShowHome) => LevelInv'
<1> SUFFICES ASSUME LevelInv, CheckDate \/ DrawIndex \/ WriteName \/ ShowHome PROVE LevelInv'
    OBVIOUS
<1>0. TypeOK /\ KeysDiffer(rows) /\ Places /\ SeedingInv /\ RunningInv /\ RowsArePrefix /\ IndexKnown
      /\ BestKept /\ OthersSaved
    BY DEF LevelInv
<1>1. rows' = rows /\ open' = open /\ day' = day /\ touches' = touches
    BY DEF CheckDate, DrawIndex, WriteName, ShowHome
<1>2. open = 0 /\ phase \in {"date", "draw", "name", "home"}
    BY <1>0 DEF CheckDate, DrawIndex, WriteName, ShowHome, Places
<1>3. /\ rows # <<>> /\ Len(rows) =< Len(stages) /\ Layouts(rows) = Layouts(stages)
      /\ Len(stages) # Len(rows) =>
              FromPlist /\ (phase \in {"date", "draw", "name"} => saved.name = NoName)
      /\ phase = "name" => saved.index < Len(stages)
    BY <1>0, <1>2 DEF RunningInv
<1>4. /\ rows \in Seq(Objects) /\ stages \in Seq(Objects) /\ Len(rows) \in Nat /\ Len(stages) \in Nat
      /\ Len(stages) =< Len(Plist) /\ Len(rows) > 0
      /\ saved \in [day : -1..MaxDay, index : 0..Len(Plist)-1,
                    name : {l.name : l \in Levels} \cup {NoName}]
    BY <1>0, <1>3 DEF TypeOK
<1>5. KeysDiffer(rows)' /\ RowsArePrefix'
    BY <1>0, <1>1 DEF KeysDiffer, RowsArePrefix
<1>6. CASE ShowHome /\ saved.index >= Len(stages)
    <2>1. phase' = "off" /\ stages' = <<>> /\ saved' = saved
        BY <1>4, <1>6 DEF ShowHome
    <2>2. TypeOK'
        BY <1>0, <1>1, <1>2, <2>1 DEF TypeOK, Phase
    <2>3. Places' /\ SeedingInv' /\ RunningInv' /\ IndexKnown'
        BY <1>0, <1>1, <1>2, <1>3, <2>1 DEF Places, AllDiffer, SeedingInv, RunningInv, IndexKnown
    <2>4. BestKept' /\ OthersSaved'
        BY <2>1 DEF BestKept, OthersSaved
    <2> QED
        BY <1>5, <2>2, <2>3, <2>4 DEF LevelInv
<1>7. CASE ~ (ShowHome /\ saved.index >= Len(stages))
    <2>1. stages' = stages /\ phase' \in Running
        BY <1>4, <1>7 DEF CheckDate, DrawIndex, WriteName, ShowHome
    <2>2. /\ saved' \in [day : -1..MaxDay, index : 0..Len(Plist)-1,
                         name : {l.name : l \in Levels} \cup {NoName}]
          /\ phase' = "name" => saved'.index < Len(stages)
          /\ phase' \in {"date", "draw", "name"} => saved'.name = saved.name
          /\ phase' \in {"date", "draw", "name"} => phase \in {"date", "draw", "name"}
        <3>1. CASE CheckDate
            BY <1>0, <1>4, <3>1, BoundAssumption DEF CheckDate, TypeOK
        <3>2. CASE DrawIndex
            <4>1. PICK i \in 0..Len(stages)-1 : saved' = [saved EXCEPT !.index = i]
                BY <3>2 DEF DrawIndex
            <4>2. i \in 0..Len(Plist)-1 /\ i < Len(stages)
                BY <1>4, <4>1, PlistFacts
            <4>3. phase = "draw" /\ phase' = "name"
                BY <3>2 DEF DrawIndex
            <4>4. /\ saved' \in [day : -1..MaxDay, index : 0..Len(Plist)-1,
                                 name : {l.name : l \in Levels} \cup {NoName}]
                  /\ saved'.index = i /\ saved'.name = saved.name
                BY <1>4, <4>1, <4>2
            <4> QED
                BY <4>2, <4>3, <4>4
        <3>3. CASE WriteName
            <4>1. saved.index + 1 \in 1..Len(stages)
                BY <1>3, <1>4, <3>3 DEF WriteName
            <4>2. stages[saved.index + 1] \in Objects
                BY <1>4, <4>1
            <4>3. stages[saved.index + 1].name \in {l.name : l \in Levels}
                BY <4>2 DEF Objects
            <4> QED
                BY <1>4, <3>3, <4>3 DEF WriteName
        <3>4. CASE ShowHome
            BY <1>4, <1>7, <3>4 DEF ShowHome
        <3> QED
            BY <3>1, <3>2, <3>3, <3>4, Zenon
    <2>3. TypeOK'
        BY <1>0, <1>1, <2>1, <2>2 DEF TypeOK, Phase
    <2>4. Places' /\ SeedingInv'
        BY <1>0, <1>1, <1>2, <2>1 DEF Places, AllDiffer, SeedingInv
    <2>5. RunningInv'
        BY <1>1, <1>3, <2>1, <2>2 DEF RunningInv, FromPlist
    <2>6. IndexKnown'
        <3>1. ASSUME saved'.index >= Len(rows)
              PROVE  Layouts(rows) = Layouts(Plist) /\ saved'.name \in {NoName, Plist[saved'.index + 1].name}
            <4>1. CASE CheckDate \/ ShowHome
                <5>1. saved'.index = saved.index /\ saved'.name = saved.name
                    BY <1>4, <1>7, <4>1 DEF CheckDate, ShowHome
                <5> QED
                    BY <1>0, <1>3, <3>1, <5>1 DEF IndexKnown
            <4>2. CASE DrawIndex
                <5>1. saved'.name = saved.name /\ saved'.index \in 0..Len(stages)-1 /\ phase = "draw"
                    BY <1>4, <4>2 DEF DrawIndex
                <5>2. Len(stages) # Len(rows)
                    BY <1>4, <3>1, <5>1
                <5>3. FromPlist /\ saved.name = NoName
                    BY <1>3, <5>1, <5>2
                <5>4. Layouts(stages) = Layouts(Plist)
                    <6>1. DOMAIN stages = DOMAIN Plist
                        BY <1>4, <5>3, PlistFacts DEF FromPlist
                    <6> QED
                        BY <5>3, <6>1 DEF FromPlist, Layouts
                <5> QED
                    BY <1>3, <5>1, <5>3, <5>4
            <4>3. CASE WriteName
                <5>1. saved'.name = stages[saved.index + 1].name /\ saved'.index = saved.index /\ phase = "name"
                    BY <1>4, <4>3 DEF WriteName
                <5>2. Len(stages) # Len(rows)
                    BY <1>3, <1>4, <3>1, <5>1
                <5>3. FromPlist
                    BY <1>3, <5>2
                <5>4. saved.index + 1 \in DOMAIN stages
                    BY <1>3, <1>4, <5>1
                <5> QED
                    BY <1>0, <1>3, <3>1, <5>1, <5>3, <5>4 DEF FromPlist, IndexKnown
            <4> QED
                BY <4>1, <4>2, <4>3
        <3> QED
            BY <1>1, <1>3, <2>1, <3>1 DEF IndexKnown
    <2>7. BestKept'
        BY <1>0, <1>1, <2>1 DEF BestKept, Finds
    <2>8. OthersSaved'
        BY <1>0, <1>1, <1>2, <2>1 DEF OthersSaved, Savable, InTable
    <2> QED
        BY <1>5, <2>3, <2>4, <2>5, <2>6, <2>7, <2>8 DEF LevelInv
<1> QED
    BY <1>6, <1>7

\* The user does something to the list's objects, and the table stays: all
\* keep their name, layout and record, and only the level on screen is one
\* that counts steps.
LEMMA ListInv ==
    ASSUME LevelInv, phase = "ready", TypeOK',
           UNCHANGED <<phase, rows, saved>>,
           DOMAIN stages' = DOMAIN stages, Len(stages') = Len(stages),
           \A i \in DOMAIN stages :
               /\ stages'[i].name = stages[i].name /\ stages'[i].layout = stages[i].layout
               /\ stages'[i].best = stages[i].best
               /\ i # open' => i # open /\ stages'[i].step = stages[i].step
    PROVE  LevelInv'
<1>0. KeysDiffer(rows) /\ Places /\ RunningInv /\ RowsArePrefix /\ IndexKnown /\ BestKept /\ OthersSaved
    BY DEF LevelInv
<1>1. stages \in Seq(Objects) /\ stages' \in Seq(Objects)
    BY DEF LevelInv, TypeOK
<1>2. Len(stages') = Len(stages)
    OBVIOUS
<1>3. KeysDiffer(rows)' /\ RowsArePrefix' /\ IndexKnown' /\ SeedingInv'
    BY <1>0 DEF KeysDiffer, RowsArePrefix, IndexKnown, SeedingInv
<1>4. Places'
    BY <1>0 DEF Places, AllDiffer
<1>5. RunningInv'
    <2>1. Layouts(stages') = Layouts(stages)
        BY DEF Layouts
    <2>2. FromPlist => FromPlist'
        BY <1>2 DEF FromPlist
    <2> QED
        BY <1>0, <1>2, <2>1, <2>2 DEF RunningInv
<1>6. BestKept'
    BY <1>0 DEF BestKept, Finds
<1>7. OthersSaved'
    <2> SUFFICES ASSUME NEW i \in DOMAIN stages', i # open', Savable(stages[i])' PROVE InTable(stages[i])'
        BY DEF OthersSaved
    <2>1. Savable(stages[i])
        BY DEF Savable
    <2>2. InTable(stages[i])
        BY <1>0, <2>1 DEF OthersSaved
    <2> QED
        BY <2>2 DEF InTable
<1> QED
    BY <1>3, <1>4, <1>5, <1>6, <1>7 DEF LevelInv

\* The level on screen is saved, as it is or with a better record.
LEMMA SavedInv ==
    ASSUME LevelInv, phase = "ready", open # 0, TypeOK',
           NEW w \in Objects,
           w.name = stages[open].name, w.layout = stages[open].layout,
           rows' = UpdateDB(rows, w),
           UNCHANGED <<phase, saved>>,
           DOMAIN stages' = DOMAIN stages, Len(stages') = Len(stages),
           \A i \in DOMAIN stages : i # open => stages'[i] = stages[i],
           stages'[open].name = w.name, stages'[open].layout = w.layout, stages'[open].best = w.best,
           open' = open \/ stages'[open].step = w.step
    PROVE  LevelInv'
<1>0. TypeOK /\ KeysDiffer(rows) /\ Places /\ RunningInv /\ RowsArePrefix /\ IndexKnown /\ BestKept /\ OthersSaved
    BY DEF LevelInv
<1>1. stages \in Seq(Objects) /\ stages' \in Seq(Objects) /\ rows \in Seq(Objects) /\ open \in DOMAIN stages
    BY <1>0 DEF TypeOK
<1>2. Len(stages') = Len(stages)
    OBVIOUS
<1>3. /\ rows # <<>> /\ Len(rows) =< Len(stages) /\ Layouts(rows) = Layouts(stages)
      /\ Len(stages) # Len(rows) => FromPlist
    BY <1>0 DEF RunningInv
<1>4. w.layout \in Layouts(rows)
    BY <1>1, <1>3 DEF Layouts
<1>5. /\ rows' \in Seq(Objects) /\ Len(rows') = Len(rows) /\ KeysDiffer(rows')
      /\ \A k \in DOMAIN rows : rows'[k].name = rows[k].name /\ rows'[k].layout = rows[k].layout
      /\ \A k \in DOMAIN rows :
            rows'[k] = rows[k] \/ (rows'[k] = w /\ rows[k].name = w.name /\ rows[k].layout = w.layout)
      /\ \A k \in DOMAIN rows :
            rows[k].layout = w.layout /\ {j \in DOMAIN rows : rows[j].name = w.name} = {k}
                => rows'[k] = w
    <2> DEFINE new == UpdateDB(rows, w)
    <2>1. /\ new \in Seq(Objects) /\ Len(new) = Len(rows) /\ KeysDiffer(new)
          /\ \A k \in DOMAIN rows : new[k].name = rows[k].name /\ new[k].layout = rows[k].layout
          /\ \A k \in DOMAIN rows :
                new[k] = rows[k] \/ (new[k] = w /\ rows[k].name = w.name /\ rows[k].layout = w.layout)
          /\ \A k \in DOMAIN rows :
                rows[k].layout = w.layout /\ {j \in DOMAIN rows : rows[j].name = w.name} = {k}
                    => new[k] = w
        BY <1>0, <1>1, <1>4, UpdateFacts
    <2> HIDE DEF new
    <2>2. rows' = new
        BY DEF new
    <2> QED
        BY <2>1, <2>2
<1>6. DOMAIN rows' = DOMAIN rows
    BY <1>1, <1>5
<1>7. Layouts(rows') = Layouts(rows)
    BY <1>5, <1>6 DEF Layouts
<1>8. \A i \in DOMAIN stages : stages'[i].name = stages[i].name /\ stages'[i].layout = stages[i].layout
    <2> SUFFICES ASSUME NEW i \in DOMAIN stages
                 PROVE  stages'[i].name = stages[i].name /\ stages'[i].layout = stages[i].layout
        OBVIOUS
    <2>1. i = open \/ i # open
        OBVIOUS
    <2> QED
        BY <2>1
<1>9. Layouts(stages') = Layouts(stages)
    BY <1>8 DEF Layouts
<1>10. rows' # <<>>
    BY <1>1, <1>3, <1>5
<1>11. Places'
    <2>1. AllDiffer(stages')
        BY <1>0, <1>8 DEF Places, AllDiffer
    <2> QED
        BY <1>0, <2>1 DEF Places
<1>12. SeedingInv'
    BY DEF SeedingInv
<1>13. RunningInv'
    <2>1. FromPlist => FromPlist'
        BY <1>2, <1>8 DEF FromPlist
    <2> QED
        BY <1>2, <1>3, <1>5, <1>7, <1>9, <1>10, <2>1 DEF RunningInv
<1>14. RowsArePrefix' /\ IndexKnown'
    BY <1>0, <1>3, <1>5, <1>7, <1>10 DEF RowsArePrefix, IndexKnown
<1>15. BestKept'
    <2> SUFFICES ASSUME NEW i \in DOMAIN stages, NEW r \in DOMAIN rows, Finds(stages[i], r)'
                 PROVE  stages'[i].best = rows'[r].best
        BY <1>6 DEF BestKept
    <2>0. {j \in DOMAIN rows' : rows'[j].name = stages'[i].name}
            = {j \in DOMAIN rows : rows[j].name = stages[i].name}
        BY <1>5, <1>6, <1>8
    <2>1. Finds(stages[i], r)
        BY <1>5, <1>8, <2>0 DEF Finds
    <2>2. stages[i].best = rows[r].best
        BY <1>0, <2>1 DEF BestKept
    <2>3. rows[r].layout = stages[i].layout /\ rows[r].name = stages[i].name
        BY <2>1 DEF Finds
    <2>4. CASE i = open
        BY <1>5, <2>1, <2>4 DEF Finds
    <2>5. CASE i # open
        <3>1. stages[i].name # stages[open].name \/ stages[i].layout # stages[open].layout
            BY <1>0, <1>1, <2>5 DEF Places, AllDiffer
        <3>2. rows'[r] = rows[r]
            BY <1>5, <2>3, <3>1
        <3> QED
            BY <2>2, <2>5, <3>2
    <2> QED
        BY <2>4, <2>5
<1>16. OthersSaved'
    <2> SUFFICES ASSUME NEW i \in DOMAIN stages, i # open', Savable(stages[i])' PROVE InTable(stages[i])'
        BY DEF OthersSaved
    <2>1. PICK r \in DOMAIN rows :
              /\ rows[r].layout = stages[i].layout
              /\ {j \in DOMAIN rows : rows[j].name = stages[i].name} = {r}
        <3>1. PICK r \in DOMAIN rows :
                  /\ rows'[r].layout = stages'[i].layout
                  /\ {j \in DOMAIN rows' : rows'[j].name = stages'[i].name} = {r}
            BY <1>6 DEF Savable
        <3>2. {j \in DOMAIN rows' : rows'[j].name = stages'[i].name}
                = {j \in DOMAIN rows : rows[j].name = stages[i].name}
            BY <1>5, <1>6, <1>8
        <3> QED
            BY <1>5, <1>8, <3>1, <3>2
    <2>2. CASE i = open
        <3>1. rows'[r] = w
            BY <1>5, <2>1, <2>2
        <3>2. stages'[i].step = w.step /\ stages'[i].best = w.best /\ stages'[i].layout = w.layout
            BY <2>2
        <3> QED
            BY <1>6, <3>1, <3>2 DEF InTable
    <2>3. CASE i # open
        <3>1. Savable(stages[i])
            BY <2>1 DEF Savable
        <3>2. InTable(stages[i])
            BY <1>0, <2>3, <3>1 DEF OthersSaved
        <3>3. PICK q \in DOMAIN rows : rows[q].layout = stages[i].layout /\ rows[q].step = stages[i].step
                                      /\ rows[q].best = stages[i].best
            BY <3>2 DEF InTable
        <3>4. q = r
            BY <1>0, <2>1, <3>3 DEF KeysDiffer
        <3>5. rows[r].name = stages[i].name
            BY <2>1
        <3>6. stages[i].name # stages[open].name \/ stages[i].layout # stages[open].layout
            BY <1>0, <1>1, <2>3 DEF Places, AllDiffer
        <3>7. rows'[q] = rows[q]
            BY <1>5, <3>3, <3>4, <3>5, <3>6
        <3> QED
            BY <1>6, <2>3, <3>3, <3>7 DEF InTable
    <2> QED
        BY <2>2, <2>3
<1> QED
    BY <1>5, <1>11, <1>12, <1>13, <1>14, <1>15, <1>16 DEF LevelInv

\* An object that differs from another in its counters is an object.
LEMMA ObjectChange ==
    ASSUME NEW o \in Objects
    PROVE  /\ \A s \in 0..MaxStep : [o EXCEPT !.step = s] \in Objects
           /\ \A b \in -1..MaxStep : [o EXCEPT !.best = b] \in Objects
           /\ \A f \in BOOLEAN : [o EXCEPT !.favorite = f] \in Objects
BY DEF Objects

\* The parts of the type invariant that one action of the user changes.
LEMMA TouchTypes ==
    ASSUME TypeOK, Touch, rows' \in Seq(Objects), Len(rows') = Len(rows),
           stages' \in Seq(Objects), Len(stages') = Len(stages), open' \in 0..Len(stages)
    PROVE  TypeOK'
<1>1. touches' \in 0..MaxTouch
    BY BoundAssumption DEF TypeOK, Touch
<1>2. phase' = phase /\ saved' = saved /\ day' = day
    BY DEF Touch
<1>3. open' \in 0..Len(stages')
    OBVIOUS
<1> QED
    BY <1>1, <1>2, <1>3 DEF TypeOK

\* Replacing one object of the list.
LEMMA StagesChange ==
    ASSUME stages \in Seq(Objects), NEW i \in DOMAIN stages, NEW o \in Objects
    PROVE  LET s == [stages EXCEPT ![i] = o] IN
           /\ s \in Seq(Objects) /\ Len(s) = Len(stages) /\ DOMAIN s = DOMAIN stages
           /\ s[i] = o /\ \A j \in DOMAIN stages : j # i => s[j] = stages[j]
OBVIOUS

\* The user opens a level, marks one, moves a person or starts over.
LEMMA PlayInv ==
    LevelInv /\ ((\E i \in DOMAIN stages : OpenLevel(i) \/ ToggleFavorite(i)) \/ Move \/ StartOver)
        => LevelInv'
<1> SUFFICES ASSUME LevelInv,
                    (\E i \in DOMAIN stages : OpenLevel(i) \/ ToggleFavorite(i)) \/ Move \/ StartOver
             PROVE  LevelInv'
    OBVIOUS
<1>0. TypeOK /\ stages \in Seq(Objects) /\ rows \in Seq(Objects) /\ open \in 0..Len(stages)
    BY DEF LevelInv, TypeOK
<1>1. ASSUME NEW i \in DOMAIN stages, OpenLevel(i) PROVE LevelInv'
    <2>1. Touch /\ open = 0 /\ open' = i /\ rows' = rows /\ stages' = stages
        BY <1>1 DEF OpenLevel
    <2>2. phase = "ready" /\ phase' = phase /\ saved' = saved
        BY <2>1 DEF Touch
    <2>3. TypeOK'
        BY <1>0, <2>1, TouchTypes
    <2> QED
        BY <1>0, <2>1, <2>2, <2>3, ListInv
<1>2. ASSUME NEW i \in DOMAIN stages, ToggleFavorite(i) PROVE LevelInv'
    <2>1. Touch /\ open = 0 /\ open' = open /\ rows' = rows
        BY <1>2 DEF ToggleFavorite
    <2> DEFINE o == [stages[i] EXCEPT !.favorite = ~ stages[i].favorite]
    <2>2. stages' = [stages EXCEPT ![i] = o]
        BY <1>2 DEF ToggleFavorite
    <2>3. o \in Objects
        <3>1. (~ stages[i].favorite) \in BOOLEAN /\ stages[i] \in Objects
            BY <1>0
        <3> QED
            BY <3>1, ObjectChange
    <2>4. /\ o.name = stages[i].name /\ o.layout = stages[i].layout
          /\ o.best = stages[i].best /\ o.step = stages[i].step
        BY <1>0 DEF Objects
    <2> HIDE DEF o
    <2>5. /\ stages' \in Seq(Objects) /\ Len(stages') = Len(stages) /\ DOMAIN stages' = DOMAIN stages
          /\ stages'[i] = o /\ \A j \in DOMAIN stages : j # i => stages'[j] = stages[j]
        BY <1>0, <2>2, <2>3, StagesChange
    <2>6. phase = "ready" /\ phase' = phase /\ saved' = saved
        BY <2>1 DEF Touch
    <2>7. TypeOK'
        BY <1>0, <2>1, <2>5, TouchTypes
    <2>8. \A j \in DOMAIN stages :
              /\ stages'[j].name = stages[j].name /\ stages'[j].layout = stages[j].layout
              /\ stages'[j].best = stages[j].best /\ stages'[j].step = stages[j].step
        BY <2>4, <2>5
    <2> QED
        BY <2>1, <2>5, <2>6, <2>7, <2>8, ListInv
<1>3. CASE Move \/ StartOver
    <2>1. Touch /\ open # 0 /\ open' = open /\ rows' = rows
        BY <1>3 DEF Move, StartOver
    <2>2. open \in DOMAIN stages /\ stages[open] \in Objects
        BY <1>0, <2>1
    <2>3. PICK s \in 0..MaxStep : stages' = [stages EXCEPT ![open] = [stages[open] EXCEPT !.step = s]]
        <3>1. CASE Move
            <4>1. stages[open].step < MaxStep /\ stages[open].step \in 0..MaxStep
                BY <2>2, <3>1 DEF Move, Objects
            <4>2. stages[open].step + 1 \in 0..MaxStep
                BY <4>1, BoundAssumption
            <4>3. stages' = [stages EXCEPT ![open] = [stages[open] EXCEPT !.step = stages[open].step + 1]]
                BY <3>1 DEF Move
            <4> QED
                BY <4>2, <4>3
        <3>2. CASE StartOver
            <4>1. stages' = [stages EXCEPT ![open] = [stages[open] EXCEPT !.step = 0]]
                BY <3>2 DEF StartOver
            <4>2. 0 \in 0..MaxStep
                BY BoundAssumption
            <4> QED
                BY <4>1, <4>2
        <3> QED
            BY <1>3, <3>1, <3>2
    <2> DEFINE o == [stages[open] EXCEPT !.step = s]
    <2>4. o \in Objects
        BY <2>2, ObjectChange
    <2>5. o.name = stages[open].name /\ o.layout = stages[open].layout /\ o.best = stages[open].best
        BY <2>2 DEF Objects
    <2> HIDE DEF o
    <2>6. /\ stages' \in Seq(Objects) /\ Len(stages') = Len(stages) /\ DOMAIN stages' = DOMAIN stages
          /\ stages'[open] = o /\ \A j \in DOMAIN stages : j # open => stages'[j] = stages[j]
        BY <1>0, <2>2, <2>3, <2>4, StagesChange DEF o
    <2>7. phase = "ready" /\ phase' = phase /\ saved' = saved
        BY <2>1 DEF Touch
    <2>8. TypeOK'
        BY <1>0, <2>1, <2>6, TouchTypes
    <2>9. \A j \in DOMAIN stages :
              /\ stages'[j].name = stages[j].name /\ stages'[j].layout = stages[j].layout
              /\ stages'[j].best = stages[j].best
              /\ j # open => stages'[j].step = stages[j].step
        BY <2>5, <2>6
    <2> QED
        BY <2>1, <2>6, <2>7, <2>8, <2>9, ListInv
<1> QED
    BY <1>1, <1>2, <1>3

\* The user wins or saves, or the page disappears.
LEMMA StoreInv == LevelInv /\ (Win \/ Save \/ Leave) => LevelInv'
<1> SUFFICES ASSUME LevelInv, Win \/ Save \/ Leave PROVE LevelInv'
    OBVIOUS
<1>0. /\ TypeOK /\ KeysDiffer(rows) /\ stages \in Seq(Objects) /\ rows \in Seq(Objects)
      /\ open \in 0..Len(stages) /\ RunningInv
    BY DEF LevelInv, TypeOK
<1>1. phase = "ready" /\ phase' = phase /\ open # 0 /\ saved' = saved
    BY DEF Win, Save, Leave, Touch
<1>2. open \in DOMAIN stages /\ stages[open] \in Objects /\ stages[open].best \in -1..MaxStep
    BY <1>0, <1>1 DEF Objects
<1>3. ASSUME NEW w \in Objects, w.layout = stages[open].layout
      PROVE  UpdateDB(rows, w) \in Seq(Objects) /\ Len(UpdateDB(rows, w)) = Len(rows)
    <2>1. w.layout \in Layouts(rows)
        BY <1>0, <1>1, <1>2, <1>3 DEF RunningInv, Layouts
    <2> QED
        BY <1>0, <2>1, UpdateFacts
<1>4. CASE Win
    <2> DEFINE level == stages[open]
               won == [level EXCEPT !.best = IF level.best >= level.step THEN level.best ELSE level.step]
               o == [won EXCEPT !.step = 0]
    <2>1. Touch /\ open' = open /\ rows' = UpdateDB(rows, won) /\ stages' = [stages EXCEPT ![open] = o]
        BY <1>4 DEF Win
    <2>2. PICK b \in -1..MaxStep : won = [level EXCEPT !.best = b]
        <3>1. level.step \in 0..MaxStep
            BY <1>2 DEF Objects
        <3>2. CASE level.best >= level.step
            BY <1>2, <3>2
        <3>3. CASE ~ (level.best >= level.step)
            <4>1. level.step >= level.best /\ level.step \in -1..MaxStep
                BY <1>2, <3>1, <3>3
            <4> QED
                BY <3>3, <4>1
        <3> QED
            BY <3>2, <3>3
    <2>3. won \in Objects
        BY <1>2, <2>2, ObjectChange
    <2>4. won.name = level.name /\ won.layout = level.layout
        BY <1>2, <2>2 DEF Objects
    <2> HIDE DEF won
    <2>5. 0 \in 0..MaxStep
        BY BoundAssumption
    <2>6. o \in Objects
        BY <2>3, <2>5, ObjectChange
    <2>7. o.name = won.name /\ o.layout = won.layout /\ o.best = won.best
        BY <2>3 DEF Objects
    <2> HIDE DEF o
    <2>8. /\ stages' \in Seq(Objects) /\ Len(stages') = Len(stages) /\ DOMAIN stages' = DOMAIN stages
          /\ stages'[open] = o /\ \A j \in DOMAIN stages : j # open => stages'[j] = stages[j]
        BY <1>0, <1>2, <2>1, <2>6, StagesChange
    <2>9. rows' \in Seq(Objects) /\ Len(rows') = Len(rows)
        BY <1>3, <2>1, <2>3, <2>4
    <2>10. TypeOK'
        BY <1>0, <2>1, <2>8, <2>9, TouchTypes
    <2> QED
        BY <1>1, <2>1, <2>3, <2>4, <2>7, <2>8, <2>10, SavedInv
<1>5. CASE Save
    <2>1. Touch /\ open' = open /\ stages' = stages /\ rows' = UpdateDB(rows, stages[open])
        BY <1>5 DEF Save
    <2>2. rows' \in Seq(Objects) /\ Len(rows') = Len(rows)
        BY <1>2, <1>3, <2>1
    <2>3. TypeOK'
        BY <1>0, <2>1, <2>2, TouchTypes
    <2> QED
        BY <1>1, <1>2, <2>1, <2>3, SavedInv
<1>6. CASE Leave
    <2>1. open' = 0 /\ stages' = stages /\ rows' = UpdateDB(rows, stages[open])
          /\ day' = day /\ touches' = touches
        BY <1>6 DEF Leave
    <2>2. rows' \in Seq(Objects) /\ Len(rows') = Len(rows)
        BY <1>2, <1>3, <2>1
    <2>3. TypeOK'
        BY <1>0, <1>1, <2>1, <2>2 DEF TypeOK
    <2> QED
        BY <1>1, <1>2, <2>1, <2>3, SavedInv
<1> QED
    BY <1>4, <1>5, <1>6

\* The process ends, a day passes, or nothing happens.
LEMMA OutsideInv == LevelInv /\ (Kill \/ NextDay \/ UNCHANGED vars) => LevelInv'
<1> SUFFICES ASSUME LevelInv, Kill \/ NextDay \/ UNCHANGED vars PROVE LevelInv'
    OBVIOUS
<1>0. TypeOK /\ KeysDiffer(rows) /\ Places /\ SeedingInv /\ RunningInv /\ RowsArePrefix /\ IndexKnown
      /\ BestKept /\ OthersSaved
    BY DEF LevelInv
<1>1. CASE Kill
    <2>1. phase' = "off" /\ stages' = <<>> /\ open' = 0 /\ rows' = rows /\ saved' = saved
          /\ day' = day /\ touches' = touches
        BY <1>1 DEF Kill
    <2>2. TypeOK'
        BY <1>0, <2>1 DEF TypeOK, Phase
    <2>3. KeysDiffer(rows)' /\ Places' /\ SeedingInv' /\ RunningInv' /\ RowsArePrefix'
        BY <1>0, <2>1 DEF KeysDiffer, Places, AllDiffer, SeedingInv, RunningInv, RowsArePrefix
    <2>4. IndexKnown'
        BY <1>0, <2>1 DEF IndexKnown
    <2>5. BestKept' /\ OthersSaved'
        BY <2>1 DEF BestKept, OthersSaved
    <2> QED
        BY <2>2, <2>3, <2>4, <2>5 DEF LevelInv
<1>2. CASE NextDay \/ UNCHANGED vars
    <2>1. phase' = phase /\ stages' = stages /\ open' = open /\ rows' = rows /\ saved' = saved
          /\ touches' = touches
        BY <1>2 DEF NextDay, vars
    <2>2. day' \in 0..MaxDay
        BY <1>0, <1>2, BoundAssumption DEF NextDay, vars, TypeOK
    <2>3. TypeOK'
        BY <1>0, <2>1, <2>2 DEF TypeOK
    <2>4. KeysDiffer(rows)' /\ Places' /\ SeedingInv' /\ RowsArePrefix' /\ IndexKnown'
        BY <1>0, <2>1 DEF KeysDiffer, Places, AllDiffer, SeedingInv, RowsArePrefix, IndexKnown
    <2>5. RunningInv' /\ BestKept' /\ OthersSaved'
        BY <1>0, <2>1 DEF RunningInv, FromPlist, BestKept, Finds, OthersSaved, Savable, InTable
    <2> QED
        BY <2>3, <2>4, <2>5 DEF LevelInv
<1> QED
    BY <1>1, <1>2

\* Every step of a launch, of a game and of the days preserves the invariant.
LEMMA StepInv == LevelInv /\ [Next]_vars => LevelInv'
BY LaunchInv, SeedInv, TodayInv, PlayInv, StoreInv, OutsideInv DEF Next

\* The invariant holds in every state.
LEMMA LevelInvAlways == Spec => []LevelInv
BY InitInv, StepInv, PTL DEF Spec

-----------------------------------------------------------------------------
(* Theorems                                                                *)

\* Table, list and user defaults agree, in every phase of every launch: what
\* init of StageSelectModel, todayLevel and the saves of the level page leave.
THEOREM CoherentAlways == Spec => []Coherent
<1>1. LevelInv => Coherent
    <2> SUFFICES ASSUME LevelInv PROVE Coherent
        OBVIOUS
    <2>0. TypeOK /\ KeysDiffer(rows) /\ Places /\ RunningInv /\ RowsArePrefix /\ IndexKnown /\ OthersSaved
        BY DEF LevelInv
    <2>1. RowsAreLevels
        BY <2>0 DEF RowsAreLevels, TypeOK, Objects
    <2>2. ListIsSaved
        <3> SUFFICES ASSUME phase = "ready", open = 0, NEW i \in DOMAIN stages, Savable(stages[i])
                     PROVE  InTable(stages[i])
            BY DEF ListIsSaved
        <3>1. i # open
            BY <2>0 DEF TypeOK
        <3> QED
            BY <2>0, <3>1 DEF OthersSaved
    <2>3. ListIsPrefix
        BY <2>0 DEF ListIsPrefix, RunningInv, RowsArePrefix
    <2>4. PastEndOnlyAfterSeeding
        <3> SUFFICES ASSUME phase \in {"name", "home"}, saved.index >= Len(stages)
                     PROVE  /\ phase = "home"
                            /\ saved.index < Len(Plist)
                            /\ Layouts(stages) = Layouts(Plist)
                            /\ saved.name \in {NoName, Plist[saved.index + 1].name}
            BY DEF PastEndOnlyAfterSeeding
        <3>1. /\ saved.index \in 0..Len(Plist)-1 /\ Len(stages) \in Nat /\ Len(rows) \in Nat
              /\ Len(Plist) \in Nat
            BY <2>0, PlistFacts DEF TypeOK
        <3>2. /\ rows # <<>> /\ Len(rows) =< Len(stages) /\ Layouts(rows) = Layouts(stages)
              /\ phase = "name" => saved.index < Len(stages)
            BY <2>0 DEF RunningInv
        <3>3. saved.index >= Len(rows)
            BY <3>1, <3>2
        <3>4. Layouts(rows) = Layouts(Plist) /\ saved.name \in {NoName, Plist[saved.index + 1].name}
            BY <2>0, <3>2, <3>3 DEF IndexKnown
        <3>5. phase = "home" /\ saved.index < Len(Plist)
            BY <3>1, <3>2
        <3> QED
            BY <3>2, <3>4, <3>5
    <2> QED
        BY <2>0, <2>1, <2>2, <2>3, <2>4 DEF Coherent
<1> QED
    BY <1>1, LevelInvAlways, PTL

\* A step of the table either leaves it alone, or inserts a level while it is
\* seeded, or saves the level that is on screen.
LEMMA RowsChange ==
    ASSUME [Next]_vars
    PROVE  \/ rows' = rows
           \/ Seed
           \/ Win \/ Save \/ Leave
BY DEF Next, vars, Launch, CheckDate, DrawIndex, WriteName, ShowHome, OpenLevel, ToggleFavorite,
       Move, StartOver, Kill, NextDay

\* What a save writes, and that it finds the level's layout in the table.
LEMMA SavedLevel ==
    ASSUME LevelInv, Win \/ Save \/ Leave
    PROVE  \E w \in Objects :
              /\ rows' = UpdateDB(rows, w)
              /\ w.layout \in Layouts(rows)
              /\ open \in DOMAIN stages /\ w.name = stages[open].name /\ w.layout = stages[open].layout
              /\ w.best = stages[open].best \/ WonIn(stages[open].layout, w.best)
<1>0. /\ stages \in Seq(Objects) /\ open \in 0..Len(stages) /\ RunningInv
    BY DEF LevelInv, TypeOK
<1>1. phase = "ready" /\ open # 0
    BY DEF Win, Save, Leave, Touch
<1>2. open \in DOMAIN stages /\ stages[open] \in Objects
    BY <1>0, <1>1
<1>3. stages[open].layout \in Layouts(rows)
    BY <1>0, <1>1, <1>2 DEF RunningInv, Layouts
<1>4. stages[open].best \in -1..MaxStep /\ stages[open].step \in 0..MaxStep
    BY <1>2 DEF Objects
<1>5. CASE Save \/ Leave
    <2>1. rows' = UpdateDB(rows, stages[open])
        BY <1>5 DEF Save, Leave
    <2> QED
        BY <1>2, <1>3, <2>1
<1>6. CASE Win
    <2> DEFINE level == stages[open]
               b == IF level.best >= level.step THEN level.best ELSE level.step
               won == [level EXCEPT !.best = b]
    <2>1. rows' = UpdateDB(rows, won)
        BY <1>6 DEF Win
    <2>2. b \in -1..MaxStep /\ b \in {level.best, level.step}
        BY <1>4
    <2>0. level.step > 0 /\ stages' = [stages EXCEPT ![open] = [won EXCEPT !.step = 0]]
        BY <1>6 DEF Win
    <2> HIDE DEF b
    <2>3. won \in Objects
        BY <1>2, <2>2, ObjectChange
    <2>4. won.name = level.name /\ won.layout = level.layout /\ won.best = b
        BY <1>2 DEF Objects
    <2>5. level.step > 0 /\ stages'[open].step = 0
        <3>2. [won EXCEPT !.step = 0].step = 0
            BY <2>3 DEF Objects
        <3> HIDE DEF won
        <3> QED
            BY <1>0, <1>2, <2>0, <3>2
    <2> HIDE DEF won
    <2>6. won.best = level.best \/ WonIn(level.layout, won.best)
        BY <1>1, <2>2, <2>4, <2>5 DEF WonIn
    <2> QED
        BY <1>2, <1>3, <2>1, <2>3, <2>4, <2>6
<1> QED
    BY <1>5, <1>6

\* The level of the plist that is inserted is an object.
LEMMA SeededObject ==
    ASSUME LevelInv, Seed PROVE Fresh(Plist[Len(stages) + 1]) \in Objects
<1>1. Len(stages) \in Nat /\ Len(stages) < Len(Plist)
    BY DEF LevelInv, TypeOK, SeedingInv, Seed
<1>2. Len(stages) + 1 \in 1..Len(Plist)
    BY <1>1, PlistFacts
<1> QED
    BY <1>2, PlistFacts

\* A layout that has a row keeps one: neither insertOrReplaceObject nor a save
\* of updateDB deletes a level for good.
THEOREM NoLevelLostAlways == Spec => NoLevelLost
<1>1. ASSUME LevelInv, [Next]_vars PROVE Layouts(rows) \subseteq Layouts(rows')
    <2>0. KeysDiffer(rows) /\ rows \in Seq(Objects)
        BY <1>1 DEF LevelInv, TypeOK
    <2>1. CASE rows' = rows
        BY <2>1
    <2>2. CASE Seed
        <3>1. PICK level \in Objects : rows' = InsertOrReplace(rows, level)
            BY <1>1, <2>2, SeededObject DEF Seed
        <3>2. Layouts(InsertOrReplace(rows, level)) = Layouts(rows) \cup {level.layout}
            BY <2>0, InsertFacts
        <3> QED
            BY <3>1, <3>2
    <2>3. CASE Win \/ Save \/ Leave
        <3>1. PICK w \in Objects : rows' = UpdateDB(rows, w) /\ w.layout \in Layouts(rows)
            BY <1>1, <2>3, SavedLevel
        <3>2. /\ Len(UpdateDB(rows, w)) = Len(rows) /\ UpdateDB(rows, w) \in Seq(Objects)
              /\ \A k \in DOMAIN rows : UpdateDB(rows, w)[k].layout = rows[k].layout
            BY <2>0, <3>1, UpdateFacts
        <3>3. DOMAIN rows' = DOMAIN rows /\ \A k \in DOMAIN rows : rows'[k].layout = rows[k].layout
            BY <2>0, <3>1, <3>2
        <3> QED
            BY <3>3 DEF Layouts
    <2> QED
        BY <1>1, <2>1, <2>2, <2>3, RowsChange
<1>2. LevelInv /\ [Next]_vars => [Layouts(rows) \subseteq Layouts(rows')]_rows
    BY <1>1
<1> QED
    BY <1>2, LevelInvAlways, PTL DEF Spec, NoLevelLost

\* The record of a layout changes only when its level is won, and to the steps
\* of that game: a save writes the object of the very row it finds.
THEOREM RecordsAreOfWinsAlways == Spec => RecordsAreOfWins
<1>1. ASSUME LevelInv, [Next]_vars, NEW i \in DOMAIN rows, NEW j \in DOMAIN rows',
             rows[i].layout = rows'[j].layout, rows'[j].best # rows[i].best
      PROVE  WonIn(rows[i].layout, rows'[j].best)
    <2>0. KeysDiffer(rows) /\ rows \in Seq(Objects) /\ BestKept
        BY <1>1 DEF LevelInv, TypeOK
    <2>1. rows' # rows
        BY <1>1, <2>0 DEF KeysDiffer
    <2>2. CASE Seed
        <3>1. PICK level \in Objects : level.best = -1 /\ rows' = InsertOrReplace(rows, level)
            BY <1>1, <2>2, SeededObject DEF Seed, Fresh, Object
        <3> DEFINE new == InsertOrReplace(rows, level)
        <3>2. /\ new \in Seq(Objects) /\ Len(new) \in 1..Len(rows)+1
              /\ new[Len(new)] = level
              /\ \A k \in 1..Len(new)-1 : \E r \in DOMAIN rows : new[k] = rows[r]
            BY <2>0, <3>1, InsertFacts
        <3>3. rows' = new
            BY <3>1
        <3> HIDE DEF new
        <3>4. \A r \in DOMAIN rows : rows[r].best = -1
            BY <1>1, <2>2 DEF Seed, LevelInv, SeedingInv
        <3>5. rows'[j].best = -1
            <4>1. j \in 1..Len(new)
                BY <1>1, <3>2, <3>3
            <4>2. CASE j = Len(new)
                BY <3>1, <3>2, <3>3, <4>2
            <4>3. CASE j # Len(new)
                <5>1. Len(rows) \in Nat
                    BY <2>0
                <5>2. PICK n \in Nat : n = Len(new)
                    BY <3>2, <5>1
                <5>3. j \in 1..n-1
                    BY <4>1, <4>3, <5>2
                <5> QED
                    BY <3>2, <3>3, <3>4, <5>2, <5>3
            <4> QED
                BY <4>2, <4>3
        <3> QED
            BY <1>1, <3>4, <3>5
    <2>3. CASE Win \/ Save \/ Leave
        <3>1. PICK w \in Objects :
              /\ rows' = UpdateDB(rows, w)
              /\ w.layout \in Layouts(rows)
              /\ open \in DOMAIN stages /\ w.name = stages[open].name /\ w.layout = stages[open].layout
              /\ w.best = stages[open].best \/ WonIn(stages[open].layout, w.best)
            BY <1>1, <2>3, SavedLevel
        <3> DEFINE new == UpdateDB(rows, w)
        <3>2. /\ Len(new) = Len(rows) /\ new \in Seq(Objects)
              /\ \A k \in DOMAIN rows : new[k].layout = rows[k].layout
              /\ \A k \in DOMAIN rows :
                    new[k] = rows[k] \/ (new[k] = w /\ rows[k].name = w.name /\ rows[k].layout = w.layout)
              /\ \A k \in DOMAIN rows :
                    new[k] # rows[k] => {r \in DOMAIN rows : rows[r].name = w.name} = {k}
            BY <2>0, <3>1, UpdateFacts
        <3>3. rows' = new
            BY <3>1
        <3> HIDE DEF new
        <3>4. j \in DOMAIN rows
            BY <1>1, <2>0, <3>2, <3>3
        <3>5. i = j
            BY <1>1, <2>0, <3>2, <3>3, <3>4 DEF KeysDiffer
        <3>6. rows'[j] = w /\ rows[j].layout = w.layout
              /\ {r \in DOMAIN rows : rows[r].name = w.name} = {j}
            BY <1>1, <3>2, <3>3, <3>4, <3>5
        <3>7. stages[open].best = rows[j].best
            BY <2>0, <3>1, <3>4, <3>6 DEF BestKept, Finds
        <3> QED
            BY <1>1, <3>1, <3>5, <3>6, <3>7
    <2> QED
        BY <1>1, <2>1, <2>2, <2>3, RowsChange
<1>2. LevelInv /\ [Next]_vars =>
        [\A i \in DOMAIN rows, j \in DOMAIN rows' :
            rows[i].layout = rows'[j].layout /\ rows'[j].best # rows[i].best
                => WonIn(rows[i].layout, rows'[j].best)]_rows
    BY <1>1
<1> QED
    BY <1>2, LevelInvAlways, PTL DEF Spec, RecordsAreOfWins

-----------------------------------------------------------------------------
(* The tab bar                                                             *)

\* An animation in flight.
Flight == [visible : BOOLEAN, still : BOOLEAN]

\* What is in flight last is where the bar is; one with nothing to move goes
\* where the one before it goes.
FlightsLead ==
    /\ flight # <<>> => inside = flight[Len(flight)].visible
    /\ \A k \in DOMAIN flight : k > 1 /\ flight[k].still => flight[k].visible = flight[k - 1].visible

\* The bar is where the last request wanted it, or one was dropped.
BarGoesAsWanted == dropped \/ inside = wanted

\* The inductive invariant.
BarInv ==
    /\ BarTypeOK
    /\ FlightsLead
    /\ BarIsWhole
    /\ BarGoesAsWanted

\* What the two ways to change the flight do to it.
LEMMA AppendFlight ==
  ASSUME NEW f \in Flight, flight \in Seq(Flight)
  PROVE  /\ Append(flight, f) \in Seq(Flight)
         /\ Len(Append(flight, f)) = Len(flight) + 1
         /\ DOMAIN Append(flight, f) = 1..Len(flight) + 1
         /\ Append(flight, f)[Len(flight) + 1] = f
         /\ \A k \in DOMAIN flight : Append(flight, f)[k] = flight[k]
  OBVIOUS

\* Taking one animation out moves up those after it.
LEMMA WithoutFlight ==
  ASSUME flight \in Seq(Flight), NEW k \in DOMAIN flight
  PROVE  /\ Without(k) \in Seq(Flight)
         /\ Len(Without(k)) = Len(flight) - 1
         /\ \A j \in 1..Len(flight) - 1 : Without(k)[j] = IF j < k THEN flight[j] ELSE flight[j + 1]
  <1> DEFINE a == SubSeq(flight, 1, k - 1)
             b == SubSeq(flight, k + 1, Len(flight))
  <1>1. k \in Int /\ 1 =< k /\ k =< Len(flight) /\ Len(flight) \in Nat
    OBVIOUS
  <1>2. a \in Seq(Flight) /\ Len(a) = k - 1 /\ \A j \in 1..k - 1 : a[j] = flight[j]
    BY <1>1
  <1>3. b \in Seq(Flight) /\ Len(b) = Len(flight) - k
    BY <1>1
  <1>4. \A j \in 1..Len(flight) - k : b[j] = flight[j + k]
    BY <1>1
  <1> HIDE DEF a, b
  <1>5. /\ a \o b \in Seq(Flight) /\ Len(a \o b) = Len(flight) - 1
        /\ \A j \in 1..Len(flight) - 1 : (a \o b)[j] = IF j < k THEN a[j] ELSE b[j - (k - 1)]
    BY <1>1, <1>2, <1>3
  <1>6. \A j \in 1..Len(flight) - 1 : (a \o b)[j] = IF j < k THEN flight[j] ELSE flight[j + 1]
    <2> TAKE j \in 1..Len(flight) - 1
    <2>1. CASE j < k
      BY <1>1, <1>2, <1>5, <2>1
    <2>2. CASE ~ (j < k)
      <3>1. j - (k - 1) \in 1..Len(flight) - k /\ j - (k - 1) + k = j + 1
        BY <1>1, <2>2
      <3>2. b[j - (k - 1)] = flight[j + 1]
        BY <1>4, <3>1
      <3> QED
        BY <1>5, <2>2, <3>2
    <2> QED
      BY <2>1, <2>2
  <1>7. Without(k) = a \o b
    BY DEF Without, a, b
  <1> QED
    BY <1>5, <1>6, <1>7

\* The invariant holds when the app has started, and every step keeps it.
LEMMA InitBar == BarInit => BarInv
  <1> SUFFICES ASSUME BarInit PROVE BarInv
    OBVIOUS
  <1>1. flight = <<>> /\ flight \in Seq([visible : BOOLEAN, still : BOOLEAN])
        /\ Len(flight) = 0 /\ DOMAIN flight = {}
    BY DEF BarInit
  <1>2. BarTypeOK
    <2>1. Len(flight) =< MaxFlight
      BY <1>1, FlightAssumption
    <2>2. {moving, hidden, inside, pulled, wanted, dropped, cut} \subseteq BOOLEAN
      BY DEF BarInit
    <2>3. page \in {root, "level"} /\ root \in {"home", "list"}
      BY DEF BarInit
    <2> QED
      BY <1>1, <2>1, <2>2, <2>3 DEF BarTypeOK
  <1>3. FlightsLead /\ BarIsWhole /\ BarGoesAsWanted
    BY <1>1 DEF BarInit, FlightsLead, BarIsWhole, BarGoesAsWanted
  <1> QED
    BY <1>2, <1>3 DEF BarInv

\* A request keeps the invariant, but for what it says of pages.
LEMMA RequestKeeps ==
  ASSUME BarInv, NEW visible \in BOOLEAN, Request(visible)
  PROVE  /\ flight' \in Seq(Flight) /\ Len(flight') =< MaxFlight
         /\ {hidden', inside', wanted', dropped', cut'} \subseteq BOOLEAN
         /\ FlightsLead' /\ BarIsWhole' /\ BarGoesAsWanted'
  <1>1. /\ flight \in Seq(Flight) /\ Len(flight) \in Nat
        /\ {hidden, inside, wanted, dropped, cut} \subseteq BOOLEAN
    BY DEF BarInv, BarTypeOK, Flight
  <1>2. CASE hidden # visible
    <2>1. BarGoesAsWanted'
      BY <1>1, <1>2 DEF Request, BarGoesAsWanted
    <2>2. FlightsLead' /\ BarIsWhole'
      BY <1>2 DEF Request, BarInv, FlightsLead, BarIsWhole, AtRest
    <2>3. {hidden', inside', wanted', dropped', cut'} \subseteq BOOLEAN
      BY <1>1, <1>2 DEF Request
    <2> QED
      BY <1>1, <1>2, <2>1, <2>2, <2>3 DEF Request, BarInv, BarTypeOK
  <1>3. CASE hidden = visible
    <2> DEFINE f == [visible |-> visible, still |-> inside = visible]
               new == Append(flight, f)
    <2>1. f \in Flight /\ f.visible = visible /\ f.still = (inside = visible)
      BY DEF Flight
    <2>2. flight' = new /\ inside' = visible /\ wanted' = visible
      BY <1>3 DEF Request
    <2>3. UNCHANGED <<hidden, cut, dropped>> /\ Len(flight) < MaxFlight
      BY <1>3 DEF Request
    <2> HIDE DEF f
    <2>4. /\ new \in Seq(Flight) /\ Len(new) = Len(flight) + 1 /\ DOMAIN new = 1..Len(flight) + 1
          /\ new[Len(flight) + 1] = f /\ \A k \in DOMAIN flight : new[k] = flight[k]
      BY <1>1, <2>1, AppendFlight
    <2> HIDE DEF new
    <2>5. inside' = flight'[Len(flight')].visible
      BY <2>1, <2>2, <2>4
    <2>6. ASSUME NEW k \in DOMAIN flight', k > 1, flight'[k].still
          PROVE  flight'[k].visible = flight'[k - 1].visible
      <3>1. CASE k = Len(flight) + 1
        <4>1. inside = visible /\ flight # <<>> /\ Len(flight) \in DOMAIN flight /\ k - 1 = Len(flight)
          BY <1>1, <2>1, <2>2, <2>4, <2>6, <3>1
        <4>2. flight'[k - 1] = flight[Len(flight)]
          BY <2>2, <2>4, <4>1
        <4>3. inside = flight[Len(flight)].visible
          BY <4>1 DEF BarInv, FlightsLead
        <4> QED
          BY <2>1, <2>2, <2>4, <3>1, <4>1, <4>2, <4>3
      <3>2. CASE k # Len(flight) + 1
        <4>1. k \in DOMAIN flight /\ k - 1 \in DOMAIN flight
          BY <1>1, <2>2, <2>4, <2>6, <3>2
        <4>2. flight'[k] = flight[k] /\ flight'[k - 1] = flight[k - 1]
          BY <2>2, <2>4, <4>1
        <4> QED
          BY <2>6, <4>1, <4>2 DEF BarInv, FlightsLead
      <3> QED
        BY <3>1, <3>2
    <2>7. FlightsLead'
      BY <2>5, <2>6 DEF FlightsLead
    <2>8. flight' # <<>> /\ flight' \in Seq(Flight) /\ Len(flight') =< MaxFlight
      <3>1. Len(flight') = Len(flight) + 1 /\ flight' \in Seq(Flight)
        BY <2>2, <2>4
      <3> QED
        BY <1>1, <2>3, <3>1, FlightAssumption
    <2>9. BarIsWhole'
      BY <2>8 DEF BarIsWhole, AtRest
    <2>10. {hidden', inside', wanted', dropped', cut'} \subseteq BOOLEAN
      BY <1>1, <2>2, <2>3
    <2> QED
      BY <2>2, <2>7, <2>8, <2>9, <2>10 DEF BarGoesAsWanted
  <1> QED
    BY <1>2, <1>3

\* An animation that ends leaves the bar where the ones still in flight take
\* it; when none is left, `hidden` says where the bar is.
LEMMA CompleteKeeps ==
  ASSUME BarInv, NEW k \in DOMAIN flight, Complete(k)
  PROVE  BarInv'
  <1>1. /\ flight \in Seq(Flight) /\ Len(flight) \in Nat /\ Len(flight) =< MaxFlight
        /\ {moving, hidden, inside, pulled, wanted, dropped, cut} \subseteq BOOLEAN
        /\ DOMAIN flight = 1..Len(flight)
    BY DEF BarInv, BarTypeOK, Flight
  <1> DEFINE n == Len(flight)
             new == Without(k)
  <1>2. /\ new \in Seq(Flight) /\ Len(new) = n - 1
        /\ \A j \in 1..n - 1 : new[j] = IF j < k THEN flight[j] ELSE flight[j + 1]
    BY <1>1, WithoutFlight
  <1>3. flight' = new /\ UNCHANGED <<pages, inside, pulled, wanted>>
    BY DEF Complete
  <1>4. k = 1 \/ flight[k].still
    BY DEF Complete
  <1>5. hidden' = ~ flight[k].visible
    BY DEF Complete
  <1>6. k \in Int /\ 1 =< k /\ k =< n
    BY <1>1
  <1> HIDE DEF new
  <1>7. \A j \in 1..n : j > 1 /\ flight[j].still => flight[j].visible = flight[j - 1].visible
    BY <1>1 DEF BarInv, FlightsLead
  <1>8. inside = flight[n].visible
    BY <1>1, <1>6 DEF BarInv, FlightsLead
  <1>9. ASSUME NEW j \in DOMAIN flight', j > 1, flight'[j].still
        PROVE  flight'[j].visible = flight'[j - 1].visible
    <2>1. j \in Int /\ j - 1 \in 1..n - 1 /\ j \in 1..n - 1
      BY <1>1, <1>2, <1>3, <1>9
    <2>2. CASE j < k
      <3>1. flight'[j] = flight[j] /\ flight'[j - 1] = flight[j - 1]
        BY <1>2, <1>3, <1>6, <2>1, <2>2
      <3> QED
        BY <1>6, <1>7, <1>9, <2>1, <2>2, <3>1
    <2>3. CASE j > k
      <3>1. flight'[j] = flight[j + 1] /\ flight'[j - 1] = flight[j]
        BY <1>2, <1>3, <1>6, <2>1, <2>3
      <3>2. PICK m \in 1..n : m = j + 1
        BY <2>1, <1>1
      <3>3. m > 1 /\ m - 1 = j
        BY <2>1, <3>2
      <3>4. flight[m].still
        BY <1>9, <3>1, <3>2
      <3>5. flight[m].visible = flight[m - 1].visible
        BY <1>7, <3>3, <3>4
      <3> QED
        BY <3>1, <3>2, <3>3, <3>5
    <2>4. CASE j = k
      <3>1. flight'[j] = flight[k + 1] /\ flight'[j - 1] = flight[k - 1]
        BY <1>2, <1>3, <1>6, <2>1, <2>4
      <3>2. k + 1 \in 1..n /\ k + 1 > 1 /\ k + 1 - 1 = k /\ k > 1 /\ k \in 1..n
        BY <2>1, <2>4, <1>1, <1>6, <1>9
      <3>3. flight[k + 1].visible = flight[k].visible
        BY <1>7, <1>9, <3>1, <3>2
      <3>4. flight[k].visible = flight[k - 1].visible
        BY <1>4, <1>7, <3>2
      <3> QED
        BY <3>1, <3>3, <3>4
    <2> QED
      BY <1>6, <2>1, <2>2, <2>3, <2>4
  <1>10. ASSUME flight' # <<>>
         PROVE  inside' = flight'[Len(flight')].visible
    <2>1. n - 1 \in 1..n - 1 /\ Len(flight') = n - 1 /\ n \in Int
      <3>1. Len(flight') = n - 1 /\ flight' \in Seq(Flight)
        BY <1>2, <1>3
      <3>2. Len(flight') \in Nat /\ Len(flight') # 0
        BY <1>10, <3>1
      <3> QED
        BY <1>1, <3>1, <3>2
    <2>2. CASE k < n
      BY <1>2, <1>3, <1>6, <1>8, <2>1, <2>2
    <2>3. CASE k = n
      <3>1. flight'[Len(flight')] = flight[n - 1]
        BY <1>2, <1>3, <1>6, <2>1, <2>3
      <3>2. n > 1 /\ n \in 1..n
        BY <2>1
      <3>3. flight[n].visible = flight[n - 1].visible
        BY <1>4, <1>7, <2>3, <3>2
      <3> QED
        BY <1>3, <1>8, <3>1, <3>3
    <2> QED
      BY <1>6, <2>1, <2>2, <2>3
  <1>11. FlightsLead'
    BY <1>9, <1>10 DEF FlightsLead
  <1>12. ASSUME flight' = <<>>
         PROVE  hidden' = ~ inside
    <2>1. n - 1 = 0
      BY <1>2, <1>3, <1>12
    <2>2. n = 1 /\ k = 1
      <3>1. n \in Int
        BY <1>1
      <3> HIDE DEF n
      <3> QED
        BY <1>6, <2>1, <3>1
    <2> QED
      BY <1>5, <1>8, <2>2
  <1>13. BarIsWhole'
    BY <1>1, <1>3, <1>12 DEF BarIsWhole, AtRest
  <1>14. BarGoesAsWanted'
    <2>1. CASE flight' = <<>> /\ hidden' # wanted
      BY <1>1, <1>3, <1>12, <2>1 DEF BarGoesAsWanted
    <2>2. CASE ~ (flight' = <<>> /\ hidden' # wanted)
      BY <1>3, <2>2 DEF Complete, BarInv, BarGoesAsWanted
    <2> QED
      BY <2>1, <2>2
  <1>15. BarTypeOK'
    <2>1. hidden' \in BOOLEAN
      BY <1>5
    <2>2. cut' \in BOOLEAN /\ dropped' \in BOOLEAN
      BY <1>1 DEF Complete
    <2>3. flight' \in Seq(Flight) /\ Len(flight') =< MaxFlight
      BY <1>1, <1>2, <1>3, FlightAssumption
    <2>4. page \in {root, "level"} /\ root \in {"home", "list"}
      BY DEF BarInv, BarTypeOK
    <2> QED
      BY <1>1, <1>3, <2>1, <2>2, <2>3, <2>4 DEF BarTypeOK, Flight, pages
  <1> QED
    BY <1>11, <1>13, <1>14, <1>15 DEF BarInv

\* Every step of the bar keeps the invariant.
LEMMA NextBar == BarInv /\ [BarNext]_barVars => BarInv'
  <1> SUFFICES ASSUME BarInv, [BarNext]_barVars PROVE BarInv'
    OBVIOUS
  <1>1. /\ page \in {root, "level"} /\ root \in {"home", "list"} /\ moving \in BOOLEAN /\ pulled \in BOOLEAN
    BY DEF BarInv, BarTypeOK
  <1>2. ASSUME NEW visible \in BOOLEAN, Request(visible),
               page' \in {root', "level"}, root' \in {"home", "list"}, moving' \in BOOLEAN, pulled' \in BOOLEAN
        PROVE  BarInv'
    <2>1. /\ flight' \in Seq(Flight) /\ Len(flight') =< MaxFlight
          /\ {hidden', inside', wanted', dropped', cut'} \subseteq BOOLEAN
          /\ FlightsLead' /\ BarIsWhole' /\ BarGoesAsWanted'
      BY <1>2, RequestKeeps
    <2>2. BarTypeOK'
      BY <1>2, <2>1 DEF BarTypeOK, Flight
    <2> QED
      BY <2>1, <2>2 DEF BarInv
  <1>3. ASSUME UNCHANGED <<hidden, inside, flight, wanted, dropped, cut>>,
               page' \in {root', "level"}, root' \in {"home", "list"}, moving' \in BOOLEAN, pulled' \in BOOLEAN
        PROVE  BarInv'
    BY <1>3 DEF BarInv, BarTypeOK, FlightsLead, BarIsWhole, BarGoesAsWanted, AtRest
  <1>4. ASSUME NEW k \in DOMAIN flight, Complete(k) PROVE BarInv'
    BY <1>4, CompleteKeeps
  <1>5. CASE Cut
    BY <1>5, FlightAssumption DEF Cut, BarInv, BarTypeOK, FlightsLead, BarIsWhole, BarGoesAsWanted, AtRest, pages
  <1>6. CASE SelectTab
    BY <1>1, <1>2, <1>6 DEF SelectTab
  <1>7. CASE PushLevel
    BY <1>1, <1>2, <1>7 DEF PushLevel
  <1>8. CASE Popped
    BY <1>1, <1>2, <1>8 DEF Popped
  <1>9. CASE Scroll
    BY <1>1, <1>2, <1>9 DEF Scroll, pages
  <1>10. CASE HidePulled
    BY <1>1, <1>2, <1>10 DEF HidePulled, pages
  <1>11. CASE Opened \/ Pop
    BY <1>1, <1>3, <1>11 DEF Opened, Pop
  <1>12. CASE PullDown
    BY <1>1, <1>3, <1>12 DEF PullDown, pages
  <1>13. CASE UNCHANGED barVars
    BY <1>1, <1>3, <1>13 DEF barVars
  <1> QED
    BY <1>4, <1>5, <1>6, <1>7, <1>8, <1>9, <1>10, <1>11, <1>12, <1>13 DEF BarNext

\* At rest the bar is one thing, and the thing that was asked for last, for
\* every bound on the animations at once.
LEMMA BarIsSafe == BarInit /\ [][BarNext]_barVars => []BarCoherent
  <1>1. BarInv => BarCoherent
    BY DEF BarInv, BarCoherent, BarAsWanted, BarIsWhole, BarGoesAsWanted, BarTypeOK
  <1> QED
    BY <1>1, InitBar, NextBar, PTL

\* At rest the tab bar is one thing, and the one wanted last.
THEOREM BarCoherentAlways == BarSpec => []BarCoherent
  BY BarIsSafe, PTL DEF BarSpec

-----------------------------------------------------------------------------
(* The three parts together                                                *)

\* No step of one part changes another, so what holds of each by itself holds
\* of the behaviours that the run checks.
THEOREM AppPartsAlways ==
    AppSpec => /\ BoardSpec
               /\ Spec
               /\ []BarCoherent
<1>1. AppInit => BoardInit /\ Init /\ BarInit
    BY DEF AppInit
<1>2. [AppNext]_appVars => [BoardNext]_boardVars
    BY DEF AppNext, appVars, BoardStep, LevelsStep, BarStep, boardVars
<1>3. [AppNext]_appVars => [Next]_vars
    BY DEF AppNext, appVars, BoardStep, LevelsStep, BarStep, vars
<1>4. [AppNext]_appVars => [BarNext]_barVars
    BY DEF AppNext, appVars, BoardStep, LevelsStep, BarStep, barVars
<1> QED
    BY <1>1, <1>2, <1>3, <1>4, BarIsSafe, PTL DEF AppSpec, BoardSpec, Spec

=============================================================================
