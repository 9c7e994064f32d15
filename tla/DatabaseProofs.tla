--------------------------- MODULE DatabaseProofs ---------------------------
(***************************************************************************)
(* Five parts of WCDB that share no state: moving the files of a           *)
(* database, what is told to the app, the tables of classes, the objects   *)
(* of chain calls and the cursors of full-text search; and all parts       *)
(* between the app and SQLite together.                                    *)
(*                                                                         *)
(* Moving files, for every list of files, every directory and any number   *)
(* of tries, failures and deaths: no file is lost, and what the move       *)
(* returns is what became of the files.                                    *)
(*                                                                         *)
(* What is told to the app, for every number of threads, statements and    *)
(* settings: transactions are reported whole and once, only isTableExists  *)
(* keeps a failure for itself, and only nil makes a null function.         *)
(*                                                                         *)
(* Tables, for all versions of a class: after YES a table has the          *)
(* columns and indexes of the class, and nothing is ever taken from it.    *)
(*                                                                         *)
(* Chain calls, for all objects, handles, tables and chained conditions: a *)
(* select gives the beginning of what was asked, a write that answers YES  *)
(* has written what was asked, and a handle is with one object.            *)
(*                                                                         *)
(* Full-text search, for all rows and queries: a cursor that is done has   *)
(* returned what is wanted of its text, each once and in order, and a      *)
(* part of a row that splits no word finds the row.                        *)
(***************************************************************************)
EXTENDS FileMove, Sql, EncodingProofs, FiniteSetTheorems

-----------------------------------------------------------------------------
(* The inductive invariant, for a proper list                              *)

\* A listed path has its own file, or none; what is not there in the
\* beginning never comes.
SourcesOnlyGo ==
    \A j \in DOMAIN paths :
        fs[paths[j]] = NoFile \/ (fs[paths[j]] = paths[j] /\ paths[j] \in owed)

\* The file that is about to be linked is there: between the test and the
\* link nothing is removed but what is in its place.
LinkedIsThere ==
    pc \in {"clear", "link"} => fs[paths[i]] # NoFile

\* A link that may be undone is a second one.
RecoversAreSpare ==
    pc \in {"test", "clear", "link", "undo"} =>
        \A k \in DOMAIN recovers :
            \E j \in DOMAIN paths : recovers[k] = New(paths[j]) /\ fs[paths[j]] # NoFile

\* What the loop has passed is in the destination, and after the loop all.
PassedIsLinked ==
    \A j \in DOMAIN paths :
        /\ paths[j] \in owed \ blind
        /\ (pc \in {"test", "clear", "link"} /\ j < i) \/ pc = "remove" \/ result
        => fs[New(paths[j])] = paths[j]

\* What the loop of removals has passed is gone.
PassedIsRemoved ==
    \A j \in DOMAIN paths :
        (pc = "remove" /\ j < i) \/ (result /\ ~ left) => fs[paths[j]] = NoFile

\* Nothing is removed before all is linked, unless a move was cut short.
SourceStays == pc # "remove" /\ ~ result /\ ~ died => InSource

\* Every link is remembered until it is undone.
LinksAreRemembered ==
    pc # "remove" /\ ~ result /\ ~ died /\ ~ left =>
        \A f \in owed :
            fs[New(f)] = f => pc # "idle" /\ \E k \in DOMAIN recovers : recovers[k] = New(f)

\* The loop works inside the list.  A move that was cut short is not on its
\* way unless it is tried again, and one that has returned true is over.
Control ==
    /\ pc \in {"clear", "link"} => i =< Len(paths)
    /\ redone => died
    /\ died /\ pc # "idle" => redone
    /\ result => pc = "idle"

OwedIsListed == owed \subseteq Range(paths)

ProperInv ==
    /\ NothingLost
    /\ WholeSomewhere
    /\ SourcesOnlyGo
    /\ LinkedIsThere
    /\ RecoversAreSpare
    /\ PassedIsLinked
    /\ PassedIsRemoved
    /\ SourceStays
    /\ LinksAreRemembered

MoveInv ==
    /\ TypeOK
    /\ Control
    /\ OwedIsListed
    /\ IsProper => ProperInv

-----------------------------------------------------------------------------
(* Lists                                                                   *)

LEMMA ListedPaths ==
  ASSUME TypeOK
  PROVE  /\ paths \in Seq(Path) /\ Len(paths) \in Nat /\ DOMAIN paths = 1..Len(paths)
         /\ \A j \in DOMAIN paths : paths[j] \in Path /\ paths[j] # NoFile /\ New(paths[j]) \in Path
         /\ \A p \in Path : p # NoFile
  <1>1. paths \in Seq(Path)
    BY FileMoveAssumption DEF TypeOK
  <1>2. \A p \in Path : p # NoFile
    BY DEF Path, NoFile
  <1>3. Len(paths) \in Nat /\ DOMAIN paths = 1..Len(paths) /\ \A j \in DOMAIN paths : paths[j] \in Path
    BY <1>1
  <1>4. \A p \in Path : New(p) \in Path
    BY DEF TypeOK, New, Path
  <1> QED
    BY <1>1, <1>2, <1>3, <1>4

\* The destinations of a proper list differ from each other, and from
\* everything in the list.
LEMMA Destinations ==
  ASSUME TypeOK, IsProper, NEW j \in DOMAIN paths, NEW k \in DOMAIN paths
  PROVE  /\ New(paths[j]) # paths[k]
         /\ New(paths[j]) = New(paths[k]) => j = k
         /\ paths[j] = paths[k] => j = k
  <1>1. paths[j] \in Path /\ paths[k] \in Path
    BY ListedPaths
  <1>2. paths[k][1] # directory /\ (j # k => paths[j][2] # paths[k][2])
    BY DEF IsProper
  <1>3. New(paths[j])[1] = directory /\ New(paths[j])[2] = paths[j][2] /\ New(paths[k])[2] = paths[k][2]
    BY DEF New
  <1> QED
    BY <1>1, <1>2, <1>3

LEMMA SameList ==
  ASSUME UNCHANGED args
  PROVE  /\ paths' = paths /\ directory' = directory /\ owed' = owed
         /\ IsProper' = IsProper /\ \A p : New(p)' = New(p)
         /\ OwedIsListed' = OwedIsListed
  BY DEF args, IsProper, New, OwedIsListed, Range

-----------------------------------------------------------------------------
(* Types                                                                   *)

LEMMA TypeInit == Init => TypeOK /\ Control /\ OwedIsListed
  <1> SUFFICES ASSUME Init PROVE TypeOK /\ Control /\ OwedIsListed
    OBVIOUS
  <1>1. paths \in Seq(Path) /\ paths \in Lists
    BY FileMoveAssumption DEF Init
  <1>2. i \in 1..Len(paths)+1
    BY <1>1 DEF Init
  <1>3. owed \subseteq Range(paths) /\ Range(paths) \subseteq Path
    BY <1>1 DEF Init, Range
  <1>4. fs \in [Path -> Path \cup {NoFile}]
    BY DEF Init
  <1>5. recovers \in Seq(Path) /\ calls \in 0..MaxCalls
    BY FileMoveAssumption DEF Init
  <1>6. /\ {result, died, redone, left} \subseteq BOOLEAN /\ made \in BOOLEAN /\ directory \in Dir
        /\ blind = {} /\ pc = "idle" /\ ~ result /\ ~ died /\ ~ redone
    BY DEF Init
  <1> QED
    BY <1>1, <1>2, <1>3, <1>4, <1>5, <1>6 DEF TypeOK, Control, OwedIsListed

LEMMA TypeStep ==
  ASSUME TypeOK, Control, [Next]_vars
  PROVE  TypeOK' /\ Control'
  <1>0. /\ Len(paths) \in Nat /\ DOMAIN paths = 1..Len(paths) /\ i \in 1..Len(paths)+1
        /\ \A j \in DOMAIN paths : paths[j] \in Path /\ New(paths[j]) \in Path
        /\ recovers \in Seq(Path) /\ fs \in [Path -> Path \cup {NoFile}]
        /\ calls \in Nat /\ calls =< MaxCalls /\ MaxCalls \in Nat
    BY ListedPaths, FileMoveAssumption DEF TypeOK
  <1>1. CASE Call
    <2>1. recovers' \in Seq(Path) /\ calls' \in 0..MaxCalls /\ i' \in 1..Len(paths)+1
      BY <1>0, <1>1 DEF Call
    <2>2. made' \in BOOLEAN /\ {result', died', redone', left'} \subseteq BOOLEAN
      BY <1>1 DEF Call, TypeOK
    <2>3. pc' \in {"idle", "test"} /\ Control'
      BY <1>1 DEF Call, Control
    <2> QED
      BY <1>0, <1>1, <2>1, <2>2, <2>3 DEF Call, TypeOK, args
  <1>2. CASE Test
    <2>1. fs[paths[i]] \in Path \cup {NoFile}
      BY <1>0, <1>2 DEF Test
    <2> QED
      BY <1>0, <1>2, <2>1 DEF Test, TypeOK, Control, args
  <1>3. CASE Clear
    BY <1>0, <1>3 DEF Clear, TypeOK, Control, args
  <1>4. CASE Link
    <2>1. i \in DOMAIN paths
      BY <1>0, <1>4 DEF Link, Control
    <2>2. fs' \in [Path -> Path \cup {NoFile}]
      BY <1>0, <1>4, <2>1 DEF Link
    <2>3. recovers' \in Seq(Path)
      BY <1>0, <1>4, <2>1 DEF Link
    <2>4. i' \in 1..Len(paths)+1 /\ pc' \in {"test", "undo"} /\ Control'
      BY <1>0, <1>4, <2>1 DEF Link, Control, args
    <2> QED
      BY <1>4, <2>2, <2>3, <2>4 DEF Link, TypeOK, args
  <1>5. CASE Moved
    BY <1>0, <1>5 DEF Moved, TypeOK, Control, args
  <1>6. CASE RemoveSource
    <2>1. fs' \in [Path -> Path \cup {NoFile}]
      <3>1. fs' = fs \/ fs' = [fs EXCEPT ![paths[i]] = NoFile]
        BY <1>6 DEF RemoveSource
      <3> QED
        BY <1>0, <3>1
    <2>4. i' \in 1..Len(paths)+1
      <3>1. i' = i \/ (i =< Len(paths) /\ i' = i + 1)
        BY <1>6 DEF RemoveSource
      <3> QED
        BY <1>0, <3>1
    <2>2. {result', died', redone', left'} \subseteq BOOLEAN
      BY <1>6 DEF RemoveSource, TypeOK
    <2>3. pc' \in {"remove", "idle"} /\ Control'
      BY <1>6 DEF RemoveSource, Control
    <2> QED
      BY <1>6, <2>1, <2>2, <2>3, <2>4 DEF RemoveSource, TypeOK, args
  <1>7. CASE Undo
    <2>1. recovers' \in Seq(Path)
      BY <1>0, <1>7 DEF Undo
    <2>4. fs' \in [Path -> Path \cup {NoFile}]
      <3>1. fs' = fs \/ fs' = [fs EXCEPT ![Head(recovers)] = NoFile]
        BY <1>7 DEF Undo
      <3> QED
        BY <1>0, <3>1
    <2>2. {result', died', redone', left'} \subseteq BOOLEAN
      BY <1>7 DEF Undo, TypeOK
    <2>3. pc' \in {"undo", "idle"} /\ Control'
      BY <1>7 DEF Undo, Control
    <2> QED
      BY <1>7, <2>1, <2>2, <2>3, <2>4 DEF Undo, TypeOK, args
  <1>8. CASE Die
    BY <1>0, <1>8 DEF Die, TypeOK, Control, args
  <1>9. CASE UNCHANGED vars
    BY <1>9 DEF vars, TypeOK, Control, args
  <1> QED
    BY <1>1, <1>2, <1>3, <1>4, <1>5, <1>6, <1>7, <1>8, <1>9 DEF Next

-----------------------------------------------------------------------------
(* One step of a proper move                                               *)

\* What every step may use of the list.
LEMMA ProperList ==
  ASSUME TypeOK, OwedIsListed, IsProper
  PROVE  /\ DOMAIN paths = 1..Len(paths) /\ Len(paths) \in Nat
         /\ \A j \in DOMAIN paths :
                paths[j] \in Path /\ paths[j] # NoFile /\ New(paths[j]) \in Path
         /\ \A j, k \in DOMAIN paths :
                /\ New(paths[j]) # paths[k]
                /\ New(paths[j]) = New(paths[k]) => j = k
                /\ paths[j] = paths[k] => j = k
         /\ \A f \in owed : \E j \in DOMAIN paths : f = paths[j]
         /\ fs \in [Path -> Path \cup {NoFile}]
         /\ i \in 1..Len(paths)+1
         /\ recovers \in Seq(Path)
  BY ListedPaths, Destinations DEF OwedIsListed, Range, TypeOK

\* A move begins: with no link of its own, and not before one that returned true.
LEMMA CallKeeps ==
  ASSUME TypeOK, Control, OwedIsListed, IsProper, ProperInv, Call
  PROVE  ProperInv'
  <1>a. UNCHANGED <<paths, directory, owed>> /\ IsProper'
    BY SameList DEF Call, args
  <1>1. NothingLost'
    BY <1>a, ProperList DEF Call, ProperInv, NothingLost, New
  <1>2. WholeSomewhere'
    BY <1>a, ProperList DEF Call, ProperInv, WholeSomewhere, InSource, InDestination, SourceStays, Control, New
  <1>3. SourcesOnlyGo'
    BY <1>a, ProperList DEF Call, ProperInv, SourcesOnlyGo, New
  <1>4. LinkedIsThere'
    BY <1>a, ProperList DEF Call, ProperInv, LinkedIsThere, New
  <1>5. RecoversAreSpare'
    BY <1>a, ProperList DEF Call, ProperInv, RecoversAreSpare, New
  <1>6. PassedIsLinked'
    BY <1>a, ProperList DEF Call, ProperInv, PassedIsLinked, New
  <1>7. PassedIsRemoved'
    BY <1>a, ProperList DEF Call, ProperInv, PassedIsRemoved, New
  <1>8. SourceStays'
    BY <1>a, ProperList DEF Call, ProperInv, SourceStays, InSource, New
  <1>9. LinksAreRemembered'
    BY <1>a, ProperList DEF Call, ProperInv, LinksAreRemembered, New
  <1> QED
    BY <1>1, <1>2, <1>3, <1>4, <1>5, <1>6, <1>7, <1>8, <1>9 DEF ProperInv

\* What the test passes by is in the destination already, or was never there,
\* or is blind now.
LEMMA TestKeeps ==
  ASSUME TypeOK, Control, OwedIsListed, IsProper, ProperInv, Test
  PROVE  ProperInv'
  <1>a. UNCHANGED <<paths, directory, owed>> /\ IsProper'
    BY SameList DEF Test, args
  <1>1. NothingLost'
    BY <1>a, ProperList DEF Test, ProperInv, NothingLost, New
  <1>2. WholeSomewhere'
    BY <1>a, ProperList DEF Test, ProperInv, WholeSomewhere, InSource, InDestination, SourceStays, Control, New
  <1>3. SourcesOnlyGo'
    BY <1>a, ProperList DEF Test, ProperInv, SourcesOnlyGo, New
  <1>4. LinkedIsThere'
    BY <1>a, ProperList DEF Test, ProperInv, LinkedIsThere, New
  <1>5. RecoversAreSpare'
    BY <1>a, ProperList DEF Test, ProperInv, RecoversAreSpare, New
  <1>6. PassedIsLinked'
    <2> SUFFICES ASSUME NEW j \in DOMAIN paths, paths[j] \in owed \ blind', pc' = "test", j < i'
                 PROVE  fs[New(paths[j])] = paths[j]
      BY <1>a DEF Test, Control, ProperInv, PassedIsLinked, New
    <2>1. CASE j < i
      BY <2>1 DEF Test, ProperInv, PassedIsLinked
    <2>2. CASE j = i
      <3>1. fs[paths[i]] = NoFile
        BY <2>2, ProperList DEF Test, ProperInv, SourcesOnlyGo
      <3> QED
        BY <2>2, <3>1, ProperList DEF Test, ProperInv, NothingLost
    <2> QED
      BY <2>1, <2>2, ProperList DEF Test
  <1>7. PassedIsRemoved'
    BY <1>a, ProperList DEF Test, ProperInv, PassedIsRemoved, New
  <1>8. SourceStays'
    BY <1>a, ProperList DEF Test, ProperInv, SourceStays, InSource, Control, New
  <1>9. LinksAreRemembered'
    BY <1>a, ProperList DEF Test, ProperInv, LinksAreRemembered, New
  <1> QED
    BY <1>1, <1>2, <1>3, <1>4, <1>5, <1>6, <1>7, <1>8, <1>9 DEF ProperInv

\* What is removed is in no list, and what it may have been is still at its source.
LEMMA ClearKeeps ==
  ASSUME TypeOK, Control, OwedIsListed, IsProper, ProperInv, Clear
  PROVE  ProperInv'
  <1>a. UNCHANGED <<paths, directory, owed>> /\ IsProper'
    BY SameList DEF Clear, args
  <1>b. i \in DOMAIN paths /\ fs[paths[i]] = paths[i] /\ paths[i] \in owed
    BY ProperList DEF Clear, Control, ProperInv, LinkedIsThere, SourcesOnlyGo
  <1>c. \A j \in DOMAIN paths :
           /\ fs'[paths[j]] = fs[paths[j]]
           /\ j # i => fs'[New(paths[j])] = fs[New(paths[j])]
    BY <1>b, ProperList DEF Clear
  <1>d. \A f \in owed : fs'[f] = fs[f]
    BY <1>c, ProperList
  <1>f. ~ result /\ pc # "remove" /\ pc' # "remove" /\ result' = result /\ (died => redone)
    BY DEF Clear, Control
  <1>e. fs' = fs \/ fs'[New(paths[i])] = NoFile
    BY <1>b, ProperList DEF Clear
  <1>1. NothingLost'
    BY <1>a, <1>b, <1>c, <1>d, <1>e, <1>f, ProperList DEF Clear, ProperInv, NothingLost, LinkedIsThere, New
  <1>2. WholeSomewhere'
    BY <1>a, <1>b, <1>c, <1>d, <1>e, <1>f, ProperList DEF Clear, ProperInv, WholeSomewhere, InSource, InDestination, SourceStays, New
  <1>3. SourcesOnlyGo'
    BY <1>a, <1>b, <1>c, <1>d, <1>e, <1>f, ProperList DEF Clear, ProperInv, SourcesOnlyGo, New
  <1>4. LinkedIsThere'
    BY <1>a, <1>b, <1>c, <1>d, <1>e, <1>f, ProperList DEF Clear, ProperInv, LinkedIsThere, New
  <1>5. RecoversAreSpare'
    BY <1>a, <1>b, <1>c, <1>d, <1>e, <1>f, ProperList DEF Clear, ProperInv, RecoversAreSpare, New
  <1>6. PassedIsLinked'
    BY <1>a, <1>b, <1>c, <1>d, <1>e, <1>f, ProperList DEF Clear, ProperInv, PassedIsLinked, New
  <1>7. PassedIsRemoved'
    BY <1>a, <1>b, <1>c, <1>d, <1>e, <1>f, ProperList DEF Clear, ProperInv, PassedIsRemoved, New
  <1>8. SourceStays'
    BY <1>a, <1>b, <1>c, <1>d, <1>e, <1>f, ProperList DEF Clear, ProperInv, SourceStays, InSource, New
  <1>9. LinksAreRemembered'
    <2>1. \A j \in DOMAIN paths : fs'[New(paths[j])] = paths[j] => fs[New(paths[j])] = paths[j]
      BY <1>b, <1>c, <1>e, ProperList
    <2>2. \A f \in owed : fs'[New(f)] = f => fs[New(f)] = f
      BY <2>1, ProperList
    <2> QED
      BY <1>a, <1>f, <2>2 DEF Clear, ProperInv, LinksAreRemembered, New
  <1> QED
    BY <1>1, <1>2, <1>3, <1>4, <1>5, <1>6, <1>7, <1>8, <1>9 DEF ProperInv

\* The next file is in both places.
LEMMA LinkKeeps ==
  ASSUME TypeOK, Control, OwedIsListed, IsProper, ProperInv, Link
  PROVE  ProperInv'
  <1>a. UNCHANGED <<paths, directory, owed>> /\ IsProper'
    BY SameList DEF Link, args
  <1>b. i \in DOMAIN paths /\ fs[paths[i]] = paths[i] /\ paths[i] \in owed
    BY ProperList DEF Link, Control, ProperInv, LinkedIsThere, SourcesOnlyGo
  <1>c. \A j \in DOMAIN paths :
           /\ fs'[paths[j]] = fs[paths[j]]
           /\ j # i => fs'[New(paths[j])] = fs[New(paths[j])]
    BY <1>b, ProperList DEF Link
  <1>d. \A f \in owed : fs'[f] = fs[f]
    BY <1>c, ProperList
  <1>f. ~ result /\ pc # "remove" /\ pc' # "remove" /\ result' = result /\ (died => redone)
    BY DEF Link, Control
  <1>e. \/ pc' = "undo" /\ UNCHANGED <<fs, recovers, i>>
        \/ /\ pc' = "test" /\ i' = i + 1
           /\ fs'[New(paths[i])] = paths[i]
           /\ recovers' = Append(recovers, New(paths[i]))
           /\ \A k \in DOMAIN recovers : k \in DOMAIN recovers' /\ recovers'[k] = recovers[k]
           /\ \A k \in DOMAIN recovers' : k \in DOMAIN recovers \/ recovers'[k] = New(paths[i])
           /\ Len(recovers) + 1 \in DOMAIN recovers' /\ recovers'[Len(recovers) + 1] = New(paths[i])
    <2> DEFINE n == New(paths[i])
    <2>1. n \in Path
      BY <1>b, ProperList
    <2>2. \/ pc' = "undo" /\ UNCHANGED <<fs, recovers, i>>
          \/ /\ pc' = "test" /\ i' = i + 1
             /\ fs' = [fs EXCEPT ![n] = fs[paths[i]]]
             /\ recovers' = Append(recovers, n)
      BY DEF Link
    <2> HIDE DEF n
    <2>3. ASSUME recovers' = Append(recovers, n)
          PROVE  /\ \A k \in DOMAIN recovers : k \in DOMAIN recovers' /\ recovers'[k] = recovers[k]
                 /\ \A k \in DOMAIN recovers' : k \in DOMAIN recovers \/ recovers'[k] = n
                 /\ Len(recovers) + 1 \in DOMAIN recovers' /\ recovers'[Len(recovers) + 1] = n
      BY <2>1, <2>3, ProperList
    <2> QED
      BY <1>b, <2>1, <2>2, <2>3, ProperList DEF n
  <1>1. NothingLost'
    BY <1>a, <1>b, <1>c, <1>d, <1>e, <1>f, ProperList DEF Link, ProperInv, NothingLost, New
  <1>2. WholeSomewhere'
    BY <1>a, <1>b, <1>c, <1>d, <1>e, <1>f, ProperList DEF Link, ProperInv, WholeSomewhere, InSource, InDestination, SourceStays, New
  <1>3. SourcesOnlyGo'
    BY <1>a, <1>b, <1>c, <1>d, <1>e, <1>f, ProperList DEF Link, ProperInv, SourcesOnlyGo, New
  <1>4. LinkedIsThere'
    BY <1>a, <1>b, <1>c, <1>d, <1>e, <1>f, ProperList DEF Link, ProperInv, LinkedIsThere, New
  <1>5. RecoversAreSpare'
    <2>1. \A k \in DOMAIN recovers' : \E j \in DOMAIN paths : recovers'[k] = New(paths[j]) /\ fs'[paths[j]] # NoFile
      <3>1. \A k \in DOMAIN recovers : \E j \in DOMAIN paths : recovers[k] = New(paths[j]) /\ fs[paths[j]] # NoFile
        BY DEF Link, ProperInv, RecoversAreSpare
      <3> QED
        BY <1>b, <1>c, <1>e, <3>1, ProperList
    <2> QED
      BY <1>a, <2>1 DEF RecoversAreSpare, New
  <1>6. PassedIsLinked'
    <2> SUFFICES ASSUME NEW j \in DOMAIN paths, paths[j] \in owed \ blind, pc' = "test", j < i'
                 PROVE  fs'[New(paths[j])] = paths[j]
      BY <1>a, <1>e, <1>f DEF Link, PassedIsLinked, New
    <2>1. CASE j = i
      BY <1>e, <2>1
    <2>2. CASE j < i
      BY <1>c, <2>2, ProperList DEF Link, ProperInv, PassedIsLinked
    <2> QED
      BY <1>e, <2>1, <2>2, ProperList
  <1>7. PassedIsRemoved'
    BY <1>a, <1>b, <1>c, <1>d, <1>e, <1>f, ProperList DEF Link, ProperInv, PassedIsRemoved, New
  <1>8. SourceStays'
    BY <1>a, <1>b, <1>c, <1>d, <1>e, <1>f, ProperList DEF Link, ProperInv, SourceStays, InSource, New
  <1>9. LinksAreRemembered'
    <2> SUFFICES ASSUME NEW j \in DOMAIN paths, paths[j] \in owed, ~ died, ~ left, fs'[New(paths[j])] = paths[j]
                 PROVE  pc' # "idle" /\ \E k \in DOMAIN recovers' : recovers'[k] = New(paths[j])
      BY <1>a, <1>f, ProperList DEF Link, LinksAreRemembered, New
    <2>1. CASE pc' = "test" /\ j = i
      BY <1>e, <2>1
    <2>2. CASE fs[New(paths[j])] = paths[j]
      <3>1. \E k \in DOMAIN recovers : recovers[k] = New(paths[j])
        BY <1>f, <2>2 DEF ProperInv, LinksAreRemembered
      <3> QED
        BY <1>e, <3>1
    <2> QED
      BY <1>c, <1>e, <2>1, <2>2
  <1> QED
    BY <1>1, <1>2, <1>3, <1>4, <1>5, <1>6, <1>7, <1>8, <1>9 DEF ProperInv

\* All files that are owed have been passed.
LEMMA MovedKeeps ==
  ASSUME TypeOK, Control, OwedIsListed, IsProper, ProperInv, Moved
  PROVE  ProperInv'
  <1>a. UNCHANGED <<paths, directory, owed>> /\ IsProper'
    BY SameList DEF Moved, args
  <1>1. NothingLost'
    BY <1>a, ProperList DEF Moved, ProperInv, NothingLost, New
  <1>2. WholeSomewhere'
    BY <1>a, ProperList DEF Moved, ProperInv, WholeSomewhere, InSource, InDestination, SourceStays, Control, New
  <1>3. SourcesOnlyGo'
    BY <1>a, ProperList DEF Moved, ProperInv, SourcesOnlyGo, New
  <1>4. LinkedIsThere'
    BY <1>a, ProperList DEF Moved, ProperInv, LinkedIsThere, New
  <1>5. RecoversAreSpare'
    BY <1>a, ProperList DEF Moved, ProperInv, RecoversAreSpare, New
  <1>6. PassedIsLinked'
    BY <1>a, ProperList DEF Moved, ProperInv, PassedIsLinked, New
  <1>7. PassedIsRemoved'
    BY <1>a, ProperList DEF Moved, ProperInv, PassedIsRemoved, New
  <1>8. SourceStays'
    BY <1>a, ProperList DEF Moved, ProperInv, SourceStays, InSource, New
  <1>9. LinksAreRemembered'
    BY <1>a, ProperList DEF Moved, ProperInv, LinksAreRemembered, New
  <1> QED
    BY <1>1, <1>2, <1>3, <1>4, <1>5, <1>6, <1>7, <1>8, <1>9 DEF ProperInv

\* Each file that is removed has its link.
LEMMA RemoveKeeps ==
  ASSUME TypeOK, Control, OwedIsListed, IsProper, ProperInv, RemoveSource
  PROVE  ProperInv'
  <1>a. UNCHANGED <<paths, directory, owed>> /\ IsProper'
    BY SameList DEF RemoveSource, args
  <1>1. NothingLost'
    BY <1>a, ProperList DEF RemoveSource, ProperInv, NothingLost, PassedIsLinked, New
  <1>2. WholeSomewhere'
    BY <1>a, ProperList DEF RemoveSource, ProperInv, WholeSomewhere, InSource, InDestination, SourceStays, PassedIsLinked, Control, New
  <1>3. SourcesOnlyGo'
    BY <1>a, ProperList DEF RemoveSource, ProperInv, SourcesOnlyGo, New
  <1>4. LinkedIsThere'
    BY <1>a, ProperList DEF RemoveSource, ProperInv, LinkedIsThere, New
  <1>5. RecoversAreSpare'
    BY <1>a, ProperList DEF RemoveSource, ProperInv, RecoversAreSpare, New
  <1>6. PassedIsLinked'
    BY <1>a, ProperList DEF RemoveSource, ProperInv, PassedIsLinked, New
  <1>7. PassedIsRemoved'
    <2> SUFFICES ASSUME NEW j \in DOMAIN paths, (pc' = "remove" /\ j < i') \/ (result' /\ ~ left')
                 PROVE  fs'[paths[j]] = NoFile
      BY <1>a DEF PassedIsRemoved
    <2>1. ~ result /\ pc = "remove"
      BY DEF RemoveSource, Control
    <2>2. j < i => fs[paths[j]] = NoFile
      BY <2>1 DEF ProperInv, PassedIsRemoved
    <2>3. CASE i =< Len(paths) /\ fs' = [fs EXCEPT ![paths[i]] = NoFile] /\ i' = i + 1 /\ result' = result
      <3>1. j = i \/ j < i
        BY <2>1, <2>3, ProperList
      <3>2. i \in DOMAIN paths
        BY <2>3, ProperList
      <3>3. fs'[paths[i]] = NoFile
        BY <2>3, <3>2, ProperList
      <3>4. CASE j < i
        <4>1. paths[j] # paths[i]
          BY <3>2, <3>4, ProperList
        <4> QED
          BY <2>2, <2>3, <3>4, <4>1, ProperList
      <3> QED
        BY <3>1, <3>3, <3>4
    <2>4. CASE pc' = "idle" /\ left' = (left \/ i =< Len(paths)) /\ fs' = fs
      <3>1. ~ left'
        BY <2>4
      <3>2. ~ (i =< Len(paths))
        BY <2>4, <3>1, Zenon
      <3>3. j < i
        BY <3>2, ProperList
      <3> QED
        BY <2>2, <2>4, <3>3
    <2> QED
      BY <2>1, <2>3, <2>4 DEF RemoveSource
  <1>8. SourceStays'
    BY <1>a, ProperList DEF RemoveSource, ProperInv, SourceStays, InSource, New
  <1>9. LinksAreRemembered'
    BY <1>a, ProperList DEF RemoveSource, ProperInv, LinksAreRemembered, New
  <1> QED
    BY <1>1, <1>2, <1>3, <1>4, <1>5, <1>6, <1>7, <1>8, <1>9 DEF ProperInv

\* The link that is removed is a second one.
LEMMA UndoKeeps ==
  ASSUME TypeOK, Control, OwedIsListed, IsProper, ProperInv, Undo
  PROVE  ProperInv'
  <1>a. UNCHANGED <<paths, directory, owed>> /\ IsProper'
    BY SameList DEF Undo, args
  <1>b. \A k \in DOMAIN recovers :
           \E j \in DOMAIN paths : recovers[k] = New(paths[j]) /\ fs[paths[j]] # NoFile
    BY DEF Undo, ProperInv, RecoversAreSpare
  <1>c. CASE recovers = <<>>
    <2>1. UNCHANGED <<fs, result, left, blind, died, redone, i>> /\ pc' = "idle" /\ pc = "undo"
      BY <1>c DEF Undo
    <2> QED
      BY <1>a, <1>c, <2>1, ProperList
         DEF ProperInv, NothingLost, WholeSomewhere, InSource, InDestination, SourcesOnlyGo, LinkedIsThere,
             RecoversAreSpare, PassedIsLinked, PassedIsRemoved, SourceStays, LinksAreRemembered, New
  <1>d. CASE recovers # <<>>
    <2> DEFINE h == Head(recovers)
    <2>1. PICK j \in DOMAIN paths : h = New(paths[j]) /\ fs[paths[j]] # NoFile
      BY <1>b, <1>d, ProperList
    <2>2. /\ UNCHANGED <<pc, result, blind, died, redone, i>> /\ pc = "undo"
          /\ recovers' = Tail(recovers)
          /\ (fs' = [fs EXCEPT ![h] = NoFile] /\ left' = left) \/ (fs' = fs /\ left')
      BY <1>d DEF Undo
    <2>3. \A k \in DOMAIN recovers' : k + 1 \in DOMAIN recovers /\ recovers'[k] = recovers[k + 1]
      BY <1>d, <2>2, ProperList
    <2>4. \A k \in DOMAIN recovers : k = 1 \/ (k - 1 \in DOMAIN recovers' /\ recovers'[k - 1] = recovers[k])
      BY <1>d, <2>2, ProperList
    <2>5. recovers[1] = h
      BY <1>d, ProperList
    <2> HIDE DEF h
    <2>6. \A k \in DOMAIN paths :
             /\ fs'[paths[k]] = fs[paths[k]]
             /\ k # j => fs'[New(paths[k])] = fs[New(paths[k])]
      BY <2>1, <2>2, ProperList
    <2>18. \A f \in owed : fs'[f] = fs[f]
      BY <2>6, ProperList
    <2>7. fs[paths[j]] = paths[j]
      BY <2>1 DEF ProperInv, SourcesOnlyGo
    <2>8. fs' = fs \/ (fs'[h] = NoFile /\ left' = left)
      BY <2>1, <2>2, ProperList
    <2>9. NothingLost'
      BY <1>a, <2>2, <2>6, <2>7, ProperList DEF ProperInv, NothingLost, New
    <2>10. WholeSomewhere'
      BY <1>a, <2>2, <2>18, ProperList DEF ProperInv, WholeSomewhere, InSource, InDestination, SourceStays, Control, New
    <2>11. SourcesOnlyGo'
      BY <1>a, <2>6, <2>2, ProperList DEF ProperInv, SourcesOnlyGo, New
    <2>12. LinkedIsThere'
      BY <1>a, <2>2, ProperList DEF ProperInv, LinkedIsThere, New
    <2>13. RecoversAreSpare'
      <3>1. \A k \in DOMAIN recovers' : \E m \in DOMAIN paths : recovers'[k] = New(paths[m]) /\ fs'[paths[m]] # NoFile
        BY <1>b, <2>3, <2>6
      <3> QED
        BY <1>a, <3>1 DEF RecoversAreSpare, New
    <2>14. PassedIsLinked'
      BY <1>a, <2>2, ProperList DEF ProperInv, PassedIsLinked, Control, New
    <2>15. PassedIsRemoved'
      BY <1>a, <2>2, ProperList DEF ProperInv, PassedIsRemoved, Control, New
    <2>16. SourceStays'
      BY <1>a, <2>2, <2>18, ProperList DEF ProperInv, SourceStays, InSource, New
    <2>17. LinksAreRemembered'
      <3> SUFFICES ASSUME NEW m \in DOMAIN paths, paths[m] \in owed, ~ died', ~ left', fs'[New(paths[m])] = paths[m]
                   PROVE  pc' # "idle" /\ \E k \in DOMAIN recovers' : recovers'[k] = New(paths[m])
        <4>1. \A f \in owed : \E m \in DOMAIN paths : f = paths[m]
          BY ProperList
        <4> QED
          BY <1>a, <4>1 DEF LinksAreRemembered, New
      <3>1. m # j /\ fs[New(paths[m])] = paths[m] /\ ~ left /\ ~ result
        BY <2>1, <2>2, <2>6, <2>8, ProperList DEF Control
      <3>2. PICK k \in DOMAIN recovers : recovers[k] = New(paths[m])
        BY <2>2, <3>1 DEF ProperInv, LinksAreRemembered
      <3>3. k # 1
        BY <2>1, <2>5, <3>1, <3>2, ProperList
      <3> QED
        BY <2>2, <2>4, <3>2, <3>3
    <2> QED
      BY <2>9, <2>10, <2>11, <2>12, <2>13, <2>14, <2>15, <2>16, <2>17 DEF ProperInv
  <1> QED
    BY <1>c, <1>d

\* Nothing moves, and this is remembered.
LEMMA DieKeeps ==
  ASSUME TypeOK, Control, OwedIsListed, IsProper, ProperInv, Die
  PROVE  ProperInv'
  <1>a. UNCHANGED <<paths, directory, owed>> /\ IsProper'
    BY SameList DEF Die, args
  <1>1. NothingLost'
    BY <1>a, ProperList DEF Die, ProperInv, NothingLost, New
  <1>2. WholeSomewhere'
    BY <1>a, ProperList DEF Die, ProperInv, WholeSomewhere, InSource, InDestination, SourceStays, PassedIsLinked, Control, New
  <1>3. SourcesOnlyGo'
    BY <1>a, ProperList DEF Die, ProperInv, SourcesOnlyGo, New
  <1>4. LinkedIsThere'
    BY <1>a, ProperList DEF Die, ProperInv, LinkedIsThere, New
  <1>5. RecoversAreSpare'
    BY <1>a, ProperList DEF Die, ProperInv, RecoversAreSpare, New
  <1>6. PassedIsLinked'
    BY <1>a, ProperList DEF Die, ProperInv, PassedIsLinked, New
  <1>7. PassedIsRemoved'
    BY <1>a, ProperList DEF Die, ProperInv, PassedIsRemoved, New
  <1>8. SourceStays'
    BY <1>a, ProperList DEF Die, ProperInv, SourceStays, InSource, New
  <1>9. LinksAreRemembered'
    BY <1>a, ProperList DEF Die, ProperInv, LinksAreRemembered, New
  <1> QED
    BY <1>1, <1>2, <1>3, <1>4, <1>5, <1>6, <1>7, <1>8, <1>9 DEF ProperInv

\* Nothing has been linked or removed in the beginning.
LEMMA ProperInit ==
  ASSUME Init, IsProper
  PROVE  ProperInv
  <1>1. TypeOK /\ OwedIsListed
    BY TypeInit
  <1>2. /\ pc = "idle" /\ ~ result /\ blind = {} /\ recovers = <<>>
        /\ owed = {p \in Range(paths) : fs[p] # NoFile}
    BY DEF Init
  <1>3. PICK there \in SUBSET (Range(paths) \cup {New(p) : p \in Range(paths)}) :
           fs = [p \in Path |-> IF p \in there THEN p ELSE NoFile]
    BY DEF Init
  <1>4. \A p \in Path : fs[p] = p \/ fs[p] = NoFile
    BY <1>3
  <1>5. \A f \in owed : f \in Path /\ fs[f] = f /\ New(f) \in Path /\ New(f) # f
    BY <1>1, <1>2, <1>4, ProperList
  <1>6. NothingLost /\ WholeSomewhere /\ SourceStays
    BY <1>5 DEF NothingLost, WholeSomewhere, SourceStays, InSource
  <1>7. SourcesOnlyGo
    BY <1>1, <1>2, <1>4, ProperList DEF SourcesOnlyGo, Range
  <1>8. LinkedIsThere /\ RecoversAreSpare /\ PassedIsLinked /\ PassedIsRemoved
    BY <1>2 DEF LinkedIsThere, RecoversAreSpare, PassedIsLinked, PassedIsRemoved
  <1>9. LinksAreRemembered
    BY <1>1, <1>2, <1>4, <1>5, ProperList DEF LinksAreRemembered
  <1> QED
    BY <1>6, <1>7, <1>8, <1>9 DEF ProperInv

LEMMA MoveStep ==
  ASSUME MoveInv, [Next]_vars
  PROVE  MoveInv'
  <1>1. TypeOK' /\ Control'
    BY TypeStep DEF MoveInv
  <1>2. UNCHANGED args
    BY DEF Next, vars, Call, Test, Clear, Link, Moved, RemoveSource, Undo, Die
  <1>3. IsProper' = IsProper /\ OwedIsListed'
    BY <1>2, SameList DEF MoveInv
  <1>4. ASSUME IsProper PROVE ProperInv'
    <2>0. TypeOK /\ Control /\ OwedIsListed /\ ProperInv
      BY <1>4 DEF MoveInv
    <2>1. CASE Call
      BY <1>4, <2>0, <2>1, CallKeeps
    <2>2. CASE Test
      BY <1>4, <2>0, <2>2, TestKeeps
    <2>3. CASE Clear
      BY <1>4, <2>0, <2>3, ClearKeeps
    <2>4. CASE Link
      BY <1>4, <2>0, <2>4, LinkKeeps
    <2>5. CASE Moved
      BY <1>4, <2>0, <2>5, MovedKeeps
    <2>6. CASE RemoveSource
      BY <1>4, <2>0, <2>6, RemoveKeeps
    <2>7. CASE Undo
      BY <1>4, <2>0, <2>7, UndoKeeps
    <2>8. CASE Die
      BY <1>4, <2>0, <2>8, DieKeeps
    <2>9. CASE UNCHANGED vars
      BY <2>0, <2>9, <1>2, SameList
         DEF vars, args, ProperInv, NothingLost, WholeSomewhere, InSource, InDestination, SourcesOnlyGo,
             LinkedIsThere, RecoversAreSpare, PassedIsLinked, PassedIsRemoved, SourceStays,
             LinksAreRemembered, IsProper, New
    <2> QED
      BY <2>1, <2>2, <2>3, <2>4, <2>5, <2>6, <2>7, <2>8, <2>9 DEF Next
  <1> QED
    BY <1>1, <1>3, <1>4 DEF MoveInv

LEMMA MoveInvAlways == Spec => []MoveInv
  <1>1. Init => MoveInv
    BY TypeInit, ProperInit DEF MoveInv
  <1>2. MoveInv /\ [Next]_vars => MoveInv'
    BY MoveStep
  <1> QED
    BY <1>1, <1>2, PTL DEF Spec

-----------------------------------------------------------------------------
(* Theorems                                                                *)

\* moveFiles loses no file, and until a move that the app died in is tried
\* again one of the two directories has them all.
THEOREM CoherentAlways == Spec => []Coherent
  <1>1. MoveInv => Coherent
    BY DEF MoveInv, ProperInv, Coherent, NothingLost, WholeSomewhere
  <1> QED
    BY <1>1, MoveInvAlways, PTL

\* After true the files are in the new directory and after false in the old
\* one, but for links and files that could not be removed.
THEOREM AnswerIsTrueAlways == Spec => []AnswerIsTrue
  <1>1. MoveInv => TrueIsMoved
    <2> SUFFICES ASSUME MoveInv, IsProper, result, NEW f \in owed \ blind
                 PROVE  fs[New(f)] = f /\ (fs[f] = f => left)
      BY DEF TrueIsMoved
    <2>1. PICK j \in DOMAIN paths : f = paths[j] /\ paths[j] # NoFile
      BY ProperList DEF MoveInv
    <2>2. fs[New(f)] = f
      BY <2>1 DEF MoveInv, ProperInv, PassedIsLinked
    <2>3. ~ left => fs[f] = NoFile
      BY <2>1 DEF MoveInv, ProperInv, PassedIsRemoved
    <2> QED
      BY <2>1, <2>2, <2>3
  <1>2. MoveInv => FalseIsUnmoved
    BY DEF MoveInv, ProperInv, FalseIsUnmoved, SourceStays, LinksAreRemembered
  <1> QED
    BY <1>1, <1>2, MoveInvAlways, PTL DEF AnswerIsTrue

-----------------------------------------------------------------------------
(* What is told to the app                                                 *)

Entry == [sql : Transaction \cup {"SQL"}, ok : BOOLEAN]

BeginEntry == [sql |-> "BEGIN", ok |-> TRUE]

HandleType ==
    [at : {"out", "idle", "silence", "prepared", "refused"}, version : Nat,
     performanceTrace : BOOLEAN, aggregation : BOOLEAN, inTransaction : BOOLEAN,
     footprint : Seq(Entry), done : Nat, told : Nat]

\* A handle that gathers the traces of a transaction has its BEGIN, and no
\* end of it.
Gathers(r) == r.aggregation /\ r.performanceTrace

\* What ReportIsWhole says of a handle is not inductive: nothing may be added
\* to a transaction that is complete, so one that is still gathered must not
\* have an end anywhere, the last place included.
HandleIsWhole(r) ==
    /\ Gathers(r) =>
           /\ r.footprint # <<>>
           /\ \A k \in 1..Len(r.footprint) : ~ Ends(r.footprint[k])
    /\ Gathers(r) \/ Len(r.footprint) > 1 => r.footprint[1] = BeginEntry
    /\ Len(r.footprint) > 1 /\ ~ Gathers(r) =>
           /\ \A k \in 1..Len(r.footprint)-1 : ~ Ends(r.footprint[k])
           /\ Ends(r.footprint[Len(r.footprint)])
    /\ r.done = r.told + Len(r.footprint)

Silent == {"silence", "prepared", "refused"}

NilWasSet == \E k \in DOMAIN settings : settings[k] = "null"

ReportsTypes ==
    /\ handle \in [Thread -> HandleType]
    /\ s_slient \in [Thread -> BOOLEAN]
    /\ s_reportMethod \in {"unset", "default", "set", "null"}
    /\ s_globalPerformanceTrace \in {"unset", "set", "null"}
    /\ traceConfig \in {"global", "set", "null"}
    /\ version \in Nat
    /\ settings \in Seq({"set", "null"})

\* A thread is silent only inside isTableExists.
SilentInside == \A t \in Thread : s_slient[t] => handle[t].at \in Silent

\* Whatever can call a null function goes back to a nil.
NullIsNil ==
    /\ s_reportMethod = "null" => NilWasSet
    /\ s_globalPerformanceTrace = "null" => NilWasSet
    /\ traceConfig = "null" => NilWasSet
    /\ \A t \in Thread : Kills(handle[t]) => NilWasSet
    /\ KilledByNil

ReportsInv ==
    /\ ReportsTypes
    /\ \A t \in Thread : HandleIsWhole(handle[t])
    /\ SilentInside
    /\ FailuresAreHeard
    /\ NullIsNil

-----------------------------------------------------------------------------
(* One handle                                                              *)

LEMMA NewHandleIsWhole == NewHandle \in HandleType /\ HandleIsWhole(NewHandle) /\ ~ Kills(NewHandle)
  BY DEF NewHandle, HandleType, HandleIsWhole, Gathers, Kills

\* What a handle has told and has left still adds up after a report.
LEMMA ReportedIsEmpty ==
  ASSUME NEW r \in HandleType, HandleIsWhole(r)
  PROVE  /\ Reported(r) \in HandleType
         /\ Reported(r).footprint = <<>>
         /\ Reported(r).done = r.done /\ Reported(r).told = r.done
         /\ Reported(r).at = r.at
         /\ Reported(r).performanceTrace = r.performanceTrace
  <1>1. r.footprint \in Seq(Entry) /\ r.done \in Nat /\ r.told \in Nat /\ r.done = r.told + Len(r.footprint)
    BY DEF HandleType, HandleIsWhole
  <1>2. CASE r.footprint = <<>>
    <2>1. Reported(r) = r /\ r.told = r.done
      BY <1>1, <1>2 DEF Reported
    <2> QED
      BY <1>2, <2>1
  <1>3. CASE r.footprint # <<>>
    <2> DEFINE e == <<>>
    <2>1. Reported(r) = [r EXCEPT !.told = r.done, !.footprint = e]
      BY <1>1, <1>3 DEF Reported
    <2>2. Reported(r) \in HandleType
      <3>1. e \in Seq(Entry)
        OBVIOUS
      <3> HIDE DEF e
      <3> QED
        BY <1>1, <2>1, <3>1 DEF HandleType
    <2> QED
      BY <2>1, <2>2 DEF HandleType
  <1> QED
    BY <1>2, <1>3

\* A statement ends that does not change whether traces are gathered as
\* Aggregation tells: the handle stays whole.
LEMMA ProfileKeepsWhole ==
  ASSUME NEW r \in HandleType, HandleIsWhole(r), NEW statement \in Entry, NEW inTransaction \in BOOLEAN,
         NEW s, s = [Profile(r, statement) EXCEPT
                        !.aggregation = Aggregation(r, statement.sql, statement.ok),
                        !.inTransaction = inTransaction]
  PROVE  /\ s \in HandleType
         /\ HandleIsWhole(s)
         /\ Kills(s) => Kills(r)
         /\ s.at = r.at
  <1> DEFINE a == Aggregation(r, statement.sql, statement.ok)
             f == r.footprint
  <1>1. a \in BOOLEAN /\ f \in Seq(Entry) /\ r.done \in Nat /\ r.told \in Nat
    BY DEF HandleType, Aggregation
  <1>2. /\ statement.sql = "BEGIN" /\ statement.ok => a
        /\ Ends(statement) => ~ a
        /\ ~ Ends(statement) /\ r.aggregation => a
        /\ a /\ ~ r.aggregation => statement = BeginEntry
    BY DEF Aggregation, Ends, HandleType, Entry, BeginEntry
  <1>3. CASE ~ r.performanceTrace
    <2>1. s = [r EXCEPT !.aggregation = a, !.inTransaction = inTransaction]
      BY <1>3 DEF Profile
    <2>2. s \in HandleType /\ s.footprint = f /\ s.done = r.done /\ s.told = r.told
          /\ s.performanceTrace = r.performanceTrace /\ s.at = r.at
      BY <1>1, <2>1 DEF HandleType
    <2> QED
      BY <1>3, <2>2 DEF HandleIsWhole, Gathers, Kills
  <1>4. CASE r.performanceTrace /\ r.aggregation
    <2>1. s = [r EXCEPT !.footprint = Append(f, statement), !.done = r.done + 1,
                        !.aggregation = a, !.inTransaction = inTransaction]
      BY <1>4 DEF Profile
    <2>2. /\ s \in HandleType /\ s.footprint = Append(f, statement)
          /\ s.done = r.done + 1 /\ s.told = r.told
          /\ s.performanceTrace /\ s.aggregation = a /\ s.at = r.at
      <3> HIDE DEF a, f
      <3>1. Append(f, statement) \in Seq(Entry) /\ r.done + 1 \in Nat
        BY <1>1
      <3>2. s \in HandleType
        BY <1>1, <2>1, <3>1 DEF HandleType
      <3> QED
        BY <1>4, <2>1, <3>2 DEF HandleType
    <2>3. f # <<>> /\ f[1] = BeginEntry /\ \A k \in 1..Len(f) : ~ Ends(f[k])
      BY <1>4 DEF HandleIsWhole, Gathers
    <2>4. /\ Len(Append(f, statement)) = Len(f) + 1 /\ Len(f) \in Nat /\ Len(f) > 0
          /\ \A k \in 1..Len(f) : Append(f, statement)[k] = f[k]
          /\ Append(f, statement)[Len(f) + 1] = statement
      BY <1>1, <2>3
    <2>5. a <=> ~ Ends(statement)
      BY <1>2, <1>4
    <2>6. s.done = s.told + Len(s.footprint)
      BY <1>1, <2>2, <2>4 DEF HandleIsWhole
    <2> QED
      BY <2>2, <2>3, <2>4, <2>5, <2>6 DEF HandleIsWhole, Gathers, Kills
  <1>5. CASE r.performanceTrace /\ ~ r.aggregation
    <2> DEFINE q == Reported(r)
    <2>1. s = [[q EXCEPT !.footprint = Append(@, statement), !.done = @ + 1]
                   EXCEPT !.aggregation = a, !.inTransaction = inTransaction]
      <3>1. q.performanceTrace
        BY <1>5, ReportedIsEmpty
      <3> QED
        BY <1>5, <3>1 DEF Profile
    <2>2. /\ s \in HandleType /\ s.footprint = <<statement>>
          /\ s.done = r.done + 1 /\ s.told = r.done
          /\ s.performanceTrace /\ s.aggregation = a /\ s.at = r.at
      <3> HIDE DEF q, a, f
      <3>1. /\ q \in HandleType /\ q.footprint = <<>> /\ q.done = r.done /\ q.told = r.done
            /\ q.at = r.at /\ q.performanceTrace
        BY <1>5, ReportedIsEmpty DEF q
      <3>2. Append(q.footprint, statement) = <<statement>> /\ <<statement>> \in Seq(Entry)
        BY <3>1
      <3>3. s = [q EXCEPT !.footprint = <<statement>>, !.done = r.done + 1,
                          !.aggregation = a, !.inTransaction = inTransaction]
        BY <2>1, <3>1, <3>2 DEF HandleType
      <3>4. s \in HandleType
        <4> DEFINE one == <<statement>>
        <4>1. one \in Seq(Entry) /\ r.done + 1 \in Nat
          BY <1>1
        <4>2. s = [q EXCEPT !.footprint = one, !.done = r.done + 1,
                            !.aggregation = a, !.inTransaction = inTransaction]
          BY <3>3
        <4> HIDE DEF one
        <4> QED
          BY <1>1, <3>1, <4>1, <4>2 DEF HandleType
      <3> QED
        BY <3>1, <3>3, <3>4 DEF HandleType
    <2>3. Gathers(s) => statement = BeginEntry /\ ~ Ends(statement)
      BY <1>2, <1>5, <2>2 DEF Gathers
    <2>4. Len(s.footprint) = 1 /\ s.footprint[1] = statement /\ s.footprint # <<>>
      <3>1. Len(<<statement>>) = 1 /\ <<statement>>[1] = statement /\ <<statement>> # <<>>
        OBVIOUS
      <3>2. s.footprint = <<statement>>
        BY <2>2
      <3> QED
        BY <3>1, <3>2, Zenon
    <2>5. HandleIsWhole(s)
      <3> HIDE DEF a, f
      <3>1. s.done = s.told + Len(s.footprint)
        BY <1>1, <2>2, <2>4
      <3>2. ~ (Len(s.footprint) > 1)
        <4>1. \A n : n = 1 => ~ (n > 1)
          OBVIOUS
        <4> QED
          BY <2>4, <4>1, Zenon
      <3>3. Gathers(s) => /\ s.footprint[1] = BeginEntry
                          /\ \A k \in 1..Len(s.footprint) : ~ Ends(s.footprint[k])
        BY <2>3, <2>4
      <3> QED
        BY <2>4, <3>1, <3>2, <3>3 DEF HandleIsWhole
    <2> QED
      BY <2>2, <2>5 DEF Kills
  <1> QED
    BY <1>3, <1>4, <1>5 DEF HandleType

-----------------------------------------------------------------------------
(* Steps                                                                   *)

LEMMA InitReports == ReportsInit => ReportsInv
  <1> SUFFICES ASSUME ReportsInit PROVE ReportsInv
    OBVIOUS
  <1>1. ReportsTypes
    BY NewHandleIsWhole DEF ReportsInit, ReportsTypes
  <1>2. \A t \in Thread : HandleIsWhole(handle[t]) /\ ~ Kills(handle[t])
    BY NewHandleIsWhole DEF ReportsInit
  <1> QED
    BY <1>1, <1>2
       DEF ReportsInit, ReportsInv, SilentInside, FailuresAreHeard, NullIsNil, KilledByNil

\* A new setting does not make an earlier nil unsaid.
LEMMA SettingKeepsNil ==
  ASSUME ReportsTypes, NEW value \in {"set", "null"}, Setting(value)
  PROVE  /\ settings' \in Seq({"set", "null"})
         /\ NilWasSet => NilWasSet'
         /\ value = "null" => NilWasSet'
  <1>1. settings \in Seq({"set", "null"}) /\ settings' = Append(settings, value)
    BY DEF ReportsTypes, Setting
  <1>2. settings' \in Seq({"set", "null"}) /\ DOMAIN settings' = 1..Len(settings)+1
    BY <1>1
  <1>3. Len(settings) \in Nat /\ settings'[Len(settings)+1] = value
    BY <1>1
  <1>4. \A k \in DOMAIN settings : k \in DOMAIN settings' /\ settings'[k] = settings[k]
    BY <1>1
  <1>5. NilWasSet => NilWasSet'
    BY <1>4 DEF NilWasSet
  <1>6. value = "null" => NilWasSet'
    BY <1>2, <1>3 DEF NilWasSet
  <1> QED
    BY <1>2, <1>5, <1>6

\* Settings touch no handle.
LEMMA SettingsStep ==
  ASSUME ReportsInv, NEW value \in {"set", "null"},
         SetReportMethod(value) \/ SetGlobalPerformanceTrace(value) \/ SetPerformanceTrace(value)
  PROVE  ReportsInv'
  <1>1. /\ Setting(value)
        /\ UNCHANGED <<s_slient, handle, killed, unheard>>
        /\ s_reportMethod' \in {s_reportMethod, value}
        /\ s_globalPerformanceTrace' \in {s_globalPerformanceTrace, value}
        /\ traceConfig' \in {traceConfig, value}
        /\ version' \in {version, version + 1}
    BY DEF SetReportMethod, SetGlobalPerformanceTrace, SetPerformanceTrace
  <1>2. /\ settings' \in Seq({"set", "null"})
        /\ NilWasSet => NilWasSet'
        /\ value = "null" => NilWasSet'
    BY <1>1, SettingKeepsNil DEF ReportsInv
  <1>3. ReportsTypes'
    BY <1>1, <1>2 DEF ReportsInv, ReportsTypes
  <1>4. \A t \in Thread : HandleIsWhole(handle'[t])
    BY <1>1 DEF ReportsInv
  <1>5. SilentInside' /\ FailuresAreHeard'
    BY <1>1 DEF ReportsInv, SilentInside, FailuresAreHeard
  <1>6. \A t \in Thread : Kills(handle'[t]) => NilWasSet'
    BY <1>1, <1>2 DEF ReportsInv, NullIsNil
  <1>7. KilledByNil'
    BY <1>1, <1>2 DEF ReportsInv, NullIsNil, KilledByNil, NilWasSet
  <1>8. NullIsNil'
    BY <1>1, <1>2, <1>6, <1>7 DEF ReportsInv, NullIsNil
  <1> QED
    BY <1>3, <1>4, <1>5, <1>8 DEF ReportsInv

\* Every other step is one of a thread's handle.  It keeps the invariant if
\* the new handle is whole and can call a null function only after a nil, the
\* failure is heard, and the thread is silent only inside isTableExists.
LEMMA HandleStep ==
  ASSUME ReportsInv, NEW t \in Thread, NEW r \in HandleType,
         HandleIsWhole(r), Kills(r) => NilWasSet,
         handle' = [handle EXCEPT ![t] = r],
         NEW slient \in BOOLEAN, s_slient' = [s_slient EXCEPT ![t] = slient],
         slient => r.at \in Silent,
         s_reportMethod' \in {s_reportMethod, "default"},
         killed' => NilWasSet,
         unheard' \subseteq unheard \cup {"exists"},
         UNCHANGED <<s_globalPerformanceTrace, traceConfig, version, settings>>
  PROVE  ReportsInv'
  <1>1. \A u \in Thread : handle'[u] = IF u = t THEN r ELSE handle[u]
    BY DEF ReportsInv, ReportsTypes
  <1>2. \A u \in Thread : s_slient'[u] = IF u = t THEN slient ELSE s_slient[u]
    BY DEF ReportsInv, ReportsTypes
  <1>3. ReportsTypes'
    <2>1. handle' \in [Thread -> HandleType] /\ s_slient' \in [Thread -> BOOLEAN]
      BY DEF ReportsInv, ReportsTypes
    <2> QED
      BY <2>1 DEF ReportsInv, ReportsTypes
  <1>4. \A u \in Thread : HandleIsWhole(handle'[u])
    BY <1>1 DEF ReportsInv
  <1>5. SilentInside'
    BY <1>1, <1>2 DEF ReportsInv, SilentInside
  <1>6. FailuresAreHeard'
    BY DEF ReportsInv, FailuresAreHeard
  <1>7. NilWasSet' <=> NilWasSet
    BY DEF NilWasSet
  <1>8. \A u \in Thread : Kills(handle'[u]) => NilWasSet'
    BY <1>1, <1>7 DEF ReportsInv, NullIsNil
  <1>9. KilledByNil'
    BY <1>7 DEF KilledByNil, NilWasSet
  <1>10. NullIsNil'
    BY <1>7, <1>8, <1>9 DEF ReportsInv, NullIsNil
  <1> QED
    BY <1>3, <1>4, <1>5, <1>6, <1>10 DEF ReportsInv

\* A report that is not silenced is heard, and calls a null function only if
\* that was set.
LEMMA LoudReport ==
  ASSUME ReportsInv, NEW t \in Thread, NEW operation, NEW ok \in BOOLEAN,
         Report(t, operation, ok), handle[t].at \notin Silent \/ operation = "exists"
  PROVE  /\ s_reportMethod' \in {s_reportMethod, "default"}
         /\ killed' => NilWasSet
         /\ unheard' \subseteq unheard \cup {"exists"}
  <1>1. s_slient[t] => operation = "exists"
    BY DEF ReportsInv, SilentInside
  <1>2. CASE s_slient[t]
    BY <1>1, <1>2 DEF Report, IsSlient
  <1>3. CASE ~ s_slient[t]
    BY <1>3 DEF Report, IsSlient, Tell, ReportsInv, NullIsNil
  <1> QED
    BY <1>2, <1>3

LEMMA FlowOutStep ==
  ASSUME ReportsInv, NEW t \in Thread, FlowOut(t)
  PROVE  ReportsInv'
  <1> DEFINE r == handle[t]
             new == [r EXCEPT !.at = "idle", !.version = version, !.performanceTrace = Traces(r)]
  <1>1. r \in HandleType /\ HandleIsWhole(r) /\ ~ r.aggregation /\ r.at \in {"out", "idle"}
    BY DEF FlowOut, ReportsInv, ReportsTypes
  <1>2. PICK ok \in BOOLEAN :
            /\ Report(t, "open", ok)
            /\ IF ok THEN handle' = [handle EXCEPT ![t] = new] ELSE UNCHANGED handle
    BY DEF FlowOut
  <1>3. /\ s_reportMethod' \in {s_reportMethod, "default"}
        /\ killed' => NilWasSet
        /\ unheard' \subseteq unheard \cup {"exists"}
    BY <1>1, <1>2, LoudReport DEF Silent
  <1>4. ~ s_slient[t] /\ s_slient \in [Thread -> BOOLEAN]
    BY <1>1 DEF ReportsInv, ReportsTypes, SilentInside, Silent
  <1>5. s_slient' = [s_slient EXCEPT ![t] = FALSE]
    BY <1>4 DEF FlowOut
  <1>6. UNCHANGED <<s_globalPerformanceTrace, traceConfig, version, settings>>
    BY DEF FlowOut
  <1>7. CASE ok
    <2>1. Traces(r) \in BOOLEAN /\ version \in Nat
      BY <1>1 DEF Traces, HandleType, ReportsInv, ReportsTypes
    <2>2. /\ new \in HandleType /\ new.footprint = r.footprint
          /\ new.done = r.done /\ new.told = r.told
          /\ new.aggregation = r.aggregation /\ new.performanceTrace = Traces(r)
      BY <1>1, <2>1 DEF HandleType
    <2>3. HandleIsWhole(new)
      <3> HIDE DEF new, r
      <3> QED
        BY <1>1, <2>2 DEF HandleIsWhole, Gathers
    <2>4. Kills(new) => NilWasSet
      <3> SUFFICES ASSUME Kills(new) PROVE NilWasSet
        OBVIOUS
      <3>1. r.footprint # <<>> /\ ~ Traces(r)
        BY <2>2 DEF Kills
      <3>2. traceConfig = "null" \/ s_globalPerformanceTrace = "null" \/ ~ r.performanceTrace
        BY <3>1 DEF Traces, ReportsInv, ReportsTypes
      <3> QED
        BY <3>1, <3>2 DEF ReportsInv, NullIsNil, Kills
    <2>5. handle' = [handle EXCEPT ![t] = new]
      BY <1>2, <1>7
    <2> HIDE DEF new
    <2> QED
      BY <1>3, <1>5, <1>6, <2>2, <2>3, <2>4, <2>5, HandleStep
  <1>8. CASE ~ ok
    <2>1. handle' = [handle EXCEPT ![t] = r]
      BY <1>2, <1>8 DEF ReportsInv, ReportsTypes
    <2>2. Kills(r) => NilWasSet
      BY DEF ReportsInv, NullIsNil
    <2> HIDE DEF r
    <2> QED
      BY <1>1, <1>3, <1>5, <1>6, <2>1, <2>2, HandleStep
  <1> QED
    BY <1>7, <1>8

\* A handle after a statement that is given by its parts, as Exec gives it.
AfterStatement(r, sql, ok, k) ==
    [Profile(r, [sql |-> sql, ok |-> ok]) EXCEPT
        !.aggregation = Aggregation(r, sql, ok), !.inTransaction = k]

LEMMA ProfileOfParts ==
  ASSUME NEW r \in HandleType, HandleIsWhole(r), NEW sql \in Transaction \cup {"SQL"},
         NEW ok \in BOOLEAN, NEW k \in BOOLEAN, NEW n,
         n = AfterStatement(r, sql, ok, k)
  PROVE  n \in HandleType /\ HandleIsWhole(n) /\ (Kills(n) => Kills(r))
  <1> DEFINE e == [sql |-> sql, ok |-> ok]
  <1>1. e \in Entry /\ e.sql = sql /\ e.ok = ok
    BY DEF Entry
  <1>2. n = [Profile(r, e) EXCEPT !.aggregation = Aggregation(r, e.sql, e.ok), !.inTransaction = k]
    BY <1>1 DEF AfterStatement
  <1> HIDE DEF e
  <1> QED
    BY <1>1, <1>2, ProfileKeepsWhole

LEMMA ExecStep ==
  ASSUME ReportsInv, NEW t \in Thread, NEW sql \in Transaction \cup {"SQL"},
         NEW ran \in BOOLEAN, NEW ok \in BOOLEAN, Exec(t, sql, ran, ok)
  PROVE  ReportsInv'
  <1> DEFINE r == handle[t]
             statement == [sql |-> sql, ok |-> ok]
             q == IF ran THEN Profile(r, statement) ELSE r
             new(k) == [q EXCEPT !.aggregation = Aggregation(r, sql, ok), !.inTransaction = k]
  <1>1. r \in HandleType /\ HandleIsWhole(r) /\ r.at = "idle" /\ (Kills(r) => NilWasSet)
    BY DEF Exec, ReportsInv, ReportsTypes, NullIsNil
  <1>2. PICK k \in BOOLEAN : handle' = [handle EXCEPT ![t] = new(k)]
    BY <1>1 DEF Exec, HandleType
  <1>3. /\ s_reportMethod' \in {s_reportMethod, "default"}
        /\ killed' => NilWasSet
        /\ unheard' \subseteq unheard \cup {"exists"}
    BY <1>1, LoudReport DEF Silent, Exec
  <1>4. ~ s_slient[t] /\ s_slient \in [Thread -> BOOLEAN]
    BY <1>1 DEF ReportsInv, ReportsTypes, SilentInside, Silent
  <1>5. s_slient' = [s_slient EXCEPT ![t] = FALSE]
    BY <1>4 DEF Exec
  <1>6. UNCHANGED <<s_globalPerformanceTrace, traceConfig, version, settings>>
    BY DEF Exec
  <1>7. new(k) \in HandleType /\ HandleIsWhole(new(k)) /\ (Kills(new(k)) => Kills(r))
    <2>1. CASE ran
      <3> DEFINE n == new(k)
      <3>1. n = AfterStatement(r, sql, ok, k)
        BY <2>1 DEF AfterStatement
      <3> HIDE DEF n, r
      <3>2. n \in HandleType /\ HandleIsWhole(n) /\ (Kills(n) => Kills(r))
        BY <1>1, <3>1, ProfileOfParts, Zenon
      <3> QED
        BY <3>2 DEF n
    <2>2. CASE ~ ran
      <3> DEFINE n == new(k)
      <3>1. ~ ok /\ sql = "SQL"
        BY <2>2 DEF Exec
      <3>2. Aggregation(r, sql, ok) = r.aggregation
        BY <3>1 DEF Aggregation
      <3>3. n = [r EXCEPT !.inTransaction = k]
        BY <1>1, <2>2, <3>2 DEF HandleType
      <3>4. /\ n \in HandleType /\ n.footprint = r.footprint /\ n.done = r.done /\ n.told = r.told
            /\ n.aggregation = r.aggregation /\ n.performanceTrace = r.performanceTrace
        BY <1>1, <3>3 DEF HandleType
      <3> HIDE DEF n, r
      <3>5. HandleIsWhole(n) /\ (Kills(n) => Kills(r))
        BY <1>1, <3>4 DEF HandleIsWhole, Gathers, Kills
      <3> QED
        BY <3>4, <3>5 DEF n
    <2> QED
      BY <2>1, <2>2
  <1> HIDE DEF new, r
  <1> QED
    BY <1>1, <1>2, <1>3, <1>5, <1>6, <1>7, HandleStep

\* A report without a change of the handle.
LEMMA MisuseStep ==
  ASSUME ReportsInv, NEW t \in Thread, Misuse(t)
  PROVE  ReportsInv'
  <1> DEFINE r == handle[t]
  <1>1. r \in HandleType /\ HandleIsWhole(r) /\ r.at \in {"out", "idle"} /\ (Kills(r) => NilWasSet)
    BY DEF Misuse, ReportsInv, ReportsTypes, NullIsNil
  <1>2. /\ s_reportMethod' \in {s_reportMethod, "default"}
        /\ killed' => NilWasSet
        /\ unheard' \subseteq unheard \cup {"exists"}
    BY <1>1, LoudReport DEF Silent, Misuse
  <1>3. ~ s_slient[t] /\ s_slient \in [Thread -> BOOLEAN] /\ handle \in [Thread -> HandleType]
    BY <1>1 DEF ReportsInv, ReportsTypes, SilentInside, Silent
  <1>4. s_slient' = [s_slient EXCEPT ![t] = FALSE] /\ handle' = [handle EXCEPT ![t] = r]
    BY <1>3 DEF Misuse
  <1>5. UNCHANGED <<s_globalPerformanceTrace, traceConfig, version, settings>>
    BY DEF Misuse
  <1> HIDE DEF r
  <1> QED
    BY <1>1, <1>2, <1>4, <1>5, HandleStep

\* A handle that goes on to another step of isTableExists.
LEMMA MovedHandle ==
  ASSUME NEW r \in HandleType, HandleIsWhole(r), NEW to \in Silent
  PROVE  LET new == [r EXCEPT !.at = to]
         IN  new \in HandleType /\ HandleIsWhole(new) /\ new.at = to /\ (Kills(new) => Kills(r))
  <1> DEFINE new == [r EXCEPT !.at = to]
  <1>1. /\ new \in HandleType /\ new.footprint = r.footprint /\ new.done = r.done /\ new.told = r.told
        /\ new.aggregation = r.aggregation /\ new.performanceTrace = r.performanceTrace /\ new.at = to
    BY DEF HandleType, Silent
  <1> HIDE DEF new
  <1>2. HandleIsWhole(new) /\ (Kills(new) => Kills(r))
    BY <1>1 DEF HandleIsWhole, Gathers, Kills
  <1> QED
    BY <1>1, <1>2 DEF new

LEMMA ExistsStep ==
  ASSUME ReportsInv, NEW t \in Thread, BeginExists(t) \/ PrepareExists(t)
  PROVE  ReportsInv'
  <1> DEFINE r == handle[t]
             new(to) == [r EXCEPT !.at = to]
  <1>1. /\ r \in HandleType /\ HandleIsWhole(r) /\ (Kills(r) => NilWasSet)
        /\ s_slient \in [Thread -> BOOLEAN]
    BY DEF ReportsInv, ReportsTypes, NullIsNil
  <1>2. PICK to \in Silent, slient \in BOOLEAN :
            /\ handle' = [handle EXCEPT ![t] = new(to)]
            /\ s_slient' = [s_slient EXCEPT ![t] = slient]
    <2>1. CASE BeginExists(t)
      BY <2>1 DEF BeginExists, Moves, Silent
    <2>2. CASE PrepareExists(t)
      <3>1. PICK to \in Silent : handle' = [handle EXCEPT ![t].at = to]
        BY <2>2 DEF PrepareExists, Moves, Silent
      <3>2. s_slient' = [s_slient EXCEPT ![t] = s_slient[t]] /\ s_slient[t] \in BOOLEAN
        BY <1>1, <2>2 DEF PrepareExists
      <3> QED
        BY <3>1, <3>2
    <2> QED
      BY <2>1, <2>2
  <1>3. /\ s_reportMethod' \in {s_reportMethod, "default"}
        /\ killed' => NilWasSet
        /\ unheard' \subseteq unheard \cup {"exists"}
    <2>1. CASE BeginExists(t)
      BY <2>1 DEF BeginExists, ReportsInv, NullIsNil, KilledByNil, NilWasSet
    <2>2. CASE PrepareExists(t)
      BY <2>2, LoudReport DEF PrepareExists
    <2> QED
      BY <2>1, <2>2
  <1>4. UNCHANGED <<s_globalPerformanceTrace, traceConfig, version, settings>>
    BY DEF BeginExists, PrepareExists
  <1>5. new(to) \in HandleType /\ HandleIsWhole(new(to)) /\ new(to).at = to /\ (Kills(new(to)) => Kills(r))
    BY <1>1, MovedHandle
  <1> HIDE DEF new, r
  <1> QED
    BY <1>1, <1>2, <1>3, <1>4, <1>5, HandleStep

LEMMA EndExistsStep ==
  ASSUME ReportsInv, NEW t \in Thread, EndExists(t)
  PROVE  ReportsInv'
  <1> DEFINE r == handle[t]
  <1>1. /\ r \in HandleType /\ HandleIsWhole(r) /\ (Kills(r) => NilWasSet)
        /\ s_slient \in [Thread -> BOOLEAN]
    BY DEF ReportsInv, ReportsTypes, NullIsNil
  <1>2. PICK ok \in BOOLEAN :
            /\ handle' = [handle EXCEPT ![t] =
                   [(IF r.at = "prepared" THEN Profile(r, [sql |-> "SQL", ok |-> ok]) ELSE r)
                       EXCEPT !.at = "idle"]]
            /\ Tell(ok)
    BY DEF EndExists
  <1>3. /\ s_reportMethod' \in {s_reportMethod, "default"}
        /\ killed' => NilWasSet
        /\ unheard' = unheard
    BY <1>2 DEF Tell, EndExists, ReportsInv, NullIsNil
  <1>4. /\ s_slient' = [s_slient EXCEPT ![t] = FALSE]
        /\ UNCHANGED <<s_globalPerformanceTrace, traceConfig, version, settings>>
    BY DEF EndExists, EndSlience
  <1> DEFINE statement == [sql |-> "SQL", ok |-> ok]
             q == IF r.at = "prepared" THEN Profile(r, statement) ELSE r
             new == [q EXCEPT !.at = "idle"]
  <1>5. q \in HandleType /\ HandleIsWhole(q) /\ (Kills(q) => Kills(r))
    <2>1. CASE r.at = "prepared"
      <3>1. statement \in Entry /\ statement.sql = "SQL" /\ statement.ok = ok
        BY DEF Entry
      <3>2. Aggregation(r, statement.sql, statement.ok) = r.aggregation
        BY <3>1 DEF Aggregation
      <3>3. q.aggregation = r.aggregation /\ q = [q EXCEPT !.aggregation = @, !.inTransaction = @]
            /\ q.inTransaction \in BOOLEAN
        BY <1>1, <2>1, ZenonT(30) DEF Profile, Reported, HandleType
      <3>4. q = [Profile(r, statement) EXCEPT
                    !.aggregation = Aggregation(r, statement.sql, statement.ok),
                    !.inTransaction = q.inTransaction]
        BY <2>1, <3>2, <3>3
      <3> HIDE DEF q, statement, r
      <3> QED
        BY <1>1, <3>1, <3>3, <3>4, ProfileKeepsWhole
    <2>2. CASE r.at # "prepared"
      BY <1>1, <2>2
    <2> QED
      BY <2>1, <2>2
  <1>6. handle' = [handle EXCEPT ![t] = new]
    BY <1>2
  <1> HIDE DEF q
  <1>7. /\ new \in HandleType /\ new.footprint = q.footprint /\ new.done = q.done /\ new.told = q.told
        /\ new.aggregation = q.aggregation /\ new.performanceTrace = q.performanceTrace
    BY <1>5 DEF HandleType
  <1> HIDE DEF new, r
  <1>8. HandleIsWhole(new) /\ (Kills(new) => Kills(q))
    BY <1>5, <1>7 DEF HandleIsWhole, Gathers, Kills
  <1> QED
    BY <1>1, <1>3, <1>4, <1>5, <1>6, <1>7, <1>8, HandleStep

LEMMA CloseStep ==
  ASSUME ReportsInv, NEW t \in Thread, Close(t)
  PROVE  ReportsInv'
  <1>1. ~ s_slient[t] /\ s_slient \in [Thread -> BOOLEAN]
    BY DEF Close, ReportsInv, ReportsTypes, SilentInside, Silent
  <1>2. s_slient' = [s_slient EXCEPT ![t] = FALSE]
    BY <1>1 DEF Close
  <1>3. /\ handle' = [handle EXCEPT ![t] = NewHandle]
        /\ s_reportMethod' = s_reportMethod /\ unheard' = unheard
        /\ killed' => NilWasSet
        /\ UNCHANGED <<s_globalPerformanceTrace, traceConfig, version, settings>>
    BY DEF Close, ReportsInv, NullIsNil
  <1> QED
    BY <1>2, <1>3, NewHandleIsWhole, HandleStep

-----------------------------------------------------------------------------
(* Theorems                                                                *)

LEMMA ReportsInvAlways == ReportsSpec => []ReportsInv
  <1>1. ReportsInv /\ [ReportsNext]_reportsVars => ReportsInv'
    <2> SUFFICES ASSUME ReportsInv, [ReportsNext]_reportsVars PROVE ReportsInv'
      OBVIOUS
    <2>1. CASE UNCHANGED reportsVars
      BY <2>1 DEF reportsVars, ReportsInv, ReportsTypes, SilentInside, FailuresAreHeard,
                  NullIsNil, KilledByNil, NilWasSet
    <2>2. CASE ReportsNext
      BY <2>2, SettingsStep, FlowOutStep, ExecStep, MisuseStep, ExistsStep, EndExistsStep, CloseStep
         DEF ReportsNext
    <2> QED
      BY <2>1, <2>2
  <1> QED
    BY <1>1, InitReports, PTL DEF ReportsSpec

\* Whatever is reported together is one statement or a transaction from its
\* BEGIN to its end, and nothing is reported twice or left out.
THEOREM ReportIsWholeAlways == ReportsSpec => []ReportIsWhole
  <1>1. ReportsInv => ReportIsWhole
    <2> SUFFICES ASSUME ReportsInv, NEW t \in Thread
                 PROVE  LET r == handle[t]
                            footprint == r.footprint
                            begins == footprint[1] = [sql |-> "BEGIN", ok |-> TRUE]
                        IN  /\ r.aggregation /\ r.performanceTrace => footprint # <<>> /\ begins
                            /\ Len(footprint) > 1 => begins
                            /\ \A k \in 1..Len(footprint)-1 : ~ Ends(footprint[k])
                            /\ Len(footprint) > 1 /\ ~ r.aggregation => Ends(footprint[Len(footprint)])
                            /\ r.done = r.told + Len(footprint)
      BY DEF ReportIsWhole
    <2> DEFINE r == handle[t]
    <2>1. HandleIsWhole(r) /\ r.footprint \in Seq(Entry)
      BY DEF ReportsInv, ReportsTypes, HandleType
    <2>2. Len(r.footprint) \in Nat
      BY <2>1
    <2>3. \A k \in 1..Len(r.footprint)-1 : ~ Ends(r.footprint[k])
      BY <2>1, <2>2 DEF HandleIsWhole
    <2> HIDE DEF r
    <2>4. /\ r.aggregation /\ r.performanceTrace => r.footprint # <<>> /\ r.footprint[1] = BeginEntry
          /\ Len(r.footprint) > 1 => r.footprint[1] = BeginEntry
          /\ Len(r.footprint) > 1 /\ ~ r.aggregation => Ends(r.footprint[Len(r.footprint)])
          /\ r.done = r.told + Len(r.footprint)
      BY <2>1 DEF HandleIsWhole, Gathers
    <2> QED
      BY <2>3, <2>4 DEF r, BeginEntry
  <1> QED
    BY <1>1, ReportsInvAlways, PTL

\* Only isTableExists keeps a failure for itself, on whatever thread it runs.
THEOREM FailuresAreHeardAlways == ReportsSpec => []FailuresAreHeard
  <1>1. ReportsInv => FailuresAreHeard
    BY DEF ReportsInv
  <1> QED
    BY <1>1, ReportsInvAlways, PTL

\* Only an app that has set a method or a trace to nil is killed by a call of
\* a null function.
THEOREM KilledByNilAlways == ReportsSpec => []KilledByNil
  <1>1. ReportsInv => KilledByNil
    BY DEF ReportsInv, NullIsNil
  <1> QED
    BY <1>1, ReportsInvAlways, PTL

-----------------------------------------------------------------------------
(* The tables of classes                                                   *)

\* The steps inside a transaction.
Working == {"exists", "list", "alter", "create", "index"}

\* A table is of three lists.
IsTable(t) ==
    t = [columns |-> t.columns, constraints |-> t.constraints, indexes |-> t.indexes]

\* What the table is while a transaction runs: the old one and more.
Grown ==
    /\ Keeps(database.columns, before.columns)
    /\ Keeps(database.indexes, before.indexes)
    /\ DOMAIN before.columns # {} => database.constraints = before.constraints

\* What it is when SQLite has ended the transaction: the old one and indexes.
Over ==
    ended =>
        /\ database.columns = before.columns
        /\ database.constraints = before.constraints

\* What each step has still to do.  The columns that are to be added are those
\* the table lacks; who creates a table that is there was misled.
ToDo ==
    /\ at \in Working \cup {"idle"}
    /\ at \in Working => answer = "none"
    /\ at = "exists" => database = before /\ ~ ended
    /\ at = "list" => database = before /\ ~ ended
    /\ at = "create" => database = before /\ (misjudged <=> IsThere) /\ (ended => misjudged)
    /\ at = "alter" => /\ DOMAIN class.columns \subseteq DOMAIN database.columns \cup todo
                       /\ todo \cap DOMAIN database.columns = {}
                       /\ ~ ended
    /\ at = "index" =>
           /\ DOMAIN class.columns \subseteq DOMAIN database.columns \/ misjudged \/ ended
           /\ DOMAIN class.indexes \subseteq DOMAIN database.indexes \cup todo \/ indexFailed

\* The inductive invariant: TableFitsClass speaks of the end only, ToDo of how
\* it is reached, and Grown and Over of what a failure goes back to.
SchemaInv ==
    /\ IsTable(database) /\ IsTable(before)
    /\ Grown
    /\ Over
    /\ ToDo
    /\ TableFitsClass

\* There is no table yet, whatever the first class.
LEMMA SchemaInitInv == SchemaInit => SchemaInv
BY DEF SchemaInit, SchemaInv, IsTable, Nothing, Working, Grown, Keeps, Over, ToDo, TableFitsClass

\* Nothing happens.
LEMMA SchemaStutter == ASSUME SchemaInv, UNCHANGED schemaVars PROVE SchemaInv'
<1>1. /\ class' = class /\ database' = database /\ before' = before /\ todo' = todo
      /\ at' = at /\ answer' = answer /\ misjudged' = misjudged /\ indexFailed' = indexFailed
      /\ inside' = inside /\ ended' = ended
    BY DEF schemaVars
<1>2. (IsTable(database) /\ IsTable(before) /\ Grown /\ Over)'
    BY <1>1 DEF SchemaInv, IsTable, Grown, Keeps, Over
<1>3. ToDo' /\ TableFitsClass'
    BY <1>1 DEF SchemaInv, ToDo, TableFitsClass, Working, IsThere
<1> QED
    BY <1>2, <1>3 DEF SchemaInv

\* An index is created: one of the name stays.
LEMMA IndexedFacts ==
  ASSUME IsTable(database), NEW name
  PROVE  /\ IsTable(Indexed(name))
         /\ Indexed(name).columns = database.columns
         /\ Indexed(name).constraints = database.constraints
         /\ DOMAIN Indexed(name).indexes = DOMAIN database.indexes \cup {name}
         /\ Keeps(Indexed(name).indexes, database.indexes)
<1>1. CASE name \in DOMAIN database.indexes
    BY <1>1 DEF Indexed, Keeps
<1>2. CASE name \notin DOMAIN database.indexes
    <2>1. Indexed(name) = [columns |-> database.columns, constraints |-> database.constraints,
                           indexes |-> With(database.indexes, name, class.indexes[name])]
        BY <1>2 DEF Indexed, IsTable
    <2> QED
        BY <1>2, <2>1 DEF IsTable, Keeps, With
<1> QED
    BY <1>1, <1>2

\* Every step of a creation, every update and every death preserves it.
LEMMA SchemaStep == SchemaInv /\ [SchemaNext]_schemaVars => SchemaInv'
<1> SUFFICES ASSUME SchemaInv, [SchemaNext]_schemaVars PROVE SchemaInv'
    OBVIOUS
<1> USE DEF SchemaInv, IsTable, Working, Grown, Over, ToDo, TableFitsClass
<1>1. CASE Update
    BY <1>1 DEF Update
<1>2. CASE BeginCreate
    BY <1>2 DEF BeginCreate, Keeps
<1>3. CASE Exists
    <2>1. /\ at = "exists" /\ at' \in {"list", "create"}
          /\ UNCHANGED <<class, database, before, todo, inside, answer, indexFailed>>
        BY <1>3 DEF Exists
    <2>2. at' = "list" => ~ ended'
        BY <1>3, <2>1 DEF Exists
    <2>3. at' = "create" => (misjudged' <=> IsThere)
        BY <1>3 DEF Exists
    <2>4. at' = "create" => (ended' => IsThere)
        BY <1>3 DEF Exists
    <2>5. IsThere' <=> IsThere
        BY <2>1 DEF IsThere
    <2>6. ToDo'
        BY <2>1, <2>2, <2>3, <2>4, <2>5
    <2>7. Grown' /\ TableFitsClass' /\ Over'
        BY <2>1 DEF Keeps
    <2> QED
        BY <2>1, <2>6, <2>7
<1>4. CASE List
    BY <1>4 DEF List
<1>5. CASE Alter
    <2>1. PICK c \in todo :
              /\ database' = [database EXCEPT !.columns = With(@, c, class.columns[c])]
              /\ todo' = todo \ {c}
        BY <1>5 DEF Alter, AlterColumns
    <2>2. /\ at = "alter" /\ ~ ended
          /\ UNCHANGED <<class, before, columnNameList, at, inside, ended, answer, misjudged, indexFailed>>
        BY <1>5 DEF Alter
    <2>3. /\ IsTable(database')
          /\ database'.constraints = database.constraints
          /\ database'.indexes = database.indexes
          /\ database'.columns = With(database.columns, c, class.columns[c])
        BY <2>1
    <2>4. c \notin DOMAIN database.columns
        BY <2>2
    <2>5. /\ DOMAIN database'.columns = DOMAIN database.columns \cup {c}
          /\ \A d \in DOMAIN database.columns : database'.columns[d] = database.columns[d]
        BY <2>3, <2>4 DEF With
    <2>6. Grown'
        BY <2>2, <2>3, <2>5 DEF Keeps
    <2>7. ToDo' /\ TableFitsClass' /\ Over'
        BY <2>1, <2>2, <2>3, <2>5
    <2> QED
        BY <2>2, <2>3, <2>6, <2>7
<1>6. CASE Altered
    BY <1>6 DEF Altered, AlterColumns
<1>7. CASE CreateTable
    <2>1. /\ at = "create" /\ at' = "index" /\ todo' = DOMAIN class.indexes /\ database' = Created
          /\ UNCHANGED <<class, before, columnNameList, inside, ended, answer, misjudged, indexFailed>>
        BY <1>7 DEF CreateTable
    <2>2. CASE IsThere
        BY <2>1, <2>2 DEF Created
    <2>3. CASE ~ IsThere
        <3>1. /\ IsTable(database') /\ ~ ended /\ DOMAIN before.columns = {}
              /\ database'.columns = class.columns /\ database'.indexes = before.indexes
            BY <2>1, <2>3 DEF Created, IsThere
        <3>2. Grown'
            BY <2>1, <3>1 DEF Keeps
        <3> QED
            BY <2>1, <3>1, <3>2
    <2> QED
        BY <2>2, <2>3
<1>8. CASE CreateIndex
    <2>1. /\ at = "index"
          /\ UNCHANGED <<class, before, columnNameList, at, inside, answer, misjudged>>
        BY <1>8 DEF CreateIndex
    <2>2. PICK name \in todo :
              /\ todo' = todo \ {name}
              /\ \/ database' = Indexed(name) /\ UNCHANGED <<indexFailed, ended>>
                 \/ indexFailed' = TRUE /\ UNCHANGED <<database, ended>>
                 \/ indexFailed' = TRUE /\ ended' = TRUE /\ database' = before
        BY <1>8 DEF CreateIndex
    <2>3. CASE database' = Indexed(name) /\ UNCHANGED <<indexFailed, ended>>
        <3>1. /\ IsTable(database')
              /\ database'.columns = database.columns
              /\ database'.constraints = database.constraints
              /\ DOMAIN database'.indexes = DOMAIN database.indexes \cup {name}
              /\ Keeps(database'.indexes, database.indexes)
            BY <2>3, IndexedFacts
        <3>2. Grown'
            BY <2>1, <3>1 DEF Keeps
        <3>3. ToDo' /\ TableFitsClass' /\ Over'
            BY <2>1, <2>2, <2>3, <3>1
        <3> QED
            BY <2>1, <3>1, <3>2, <3>3
    <2>4. CASE indexFailed' = TRUE /\ UNCHANGED <<database, ended>>
        BY <2>1, <2>2, <2>4
    <2>5. CASE indexFailed' = TRUE /\ ended' = TRUE /\ database' = before
        BY <2>1, <2>2, <2>5 DEF Keeps
    <2> QED
        BY <2>2, <2>3, <2>4, <2>5
<1>9. CASE Commit
    BY <1>9 DEF Commit
<1>10. CASE Fail
    <2>1. /\ at' = "idle" /\ answer' = "NO" /\ database' \in {database, before}
          /\ UNCHANGED <<class, before, inside, ended, misjudged, indexFailed>>
        BY <1>10 DEF Fail, Undone
    <2> QED
        BY <2>1 DEF Keeps
<1>11. CASE AppDies
    <2>1. /\ at' = "idle" /\ answer' = "none" /\ database' \in {database, before}
          /\ UNCHANGED <<class, before, inside, ended, misjudged, indexFailed>>
        BY <1>11 DEF AppDies
    <2> QED
        BY <2>1 DEF Keeps
<1>12. CASE UNCHANGED schemaVars
    BY <1>12, SchemaStutter
<1> QED
    BY <1>1, <1>2, <1>3, <1>4, <1>5, <1>6, <1>7, <1>8, <1>9, <1>10, <1>11, <1>12 DEF SchemaNext

\* It holds in every behaviour.
LEMMA SchemaInvAlways == SchemaSpec => []SchemaInv
    BY SchemaInitInv, SchemaStep, PTL DEF SchemaSpec

\* After YES the table has every column of the class, unless isTableExists
\* had failed or the app's transaction is over, and every index by its name,
\* unless one has failed.
THEOREM TableFitsClassAlways == SchemaSpec => []TableFitsClass
<1>1. SchemaInv => TableFitsClass
    BY DEF SchemaInv
<1> QED
    BY <1>1, SchemaInvAlways, PTL

\* A creation only adds, and NO or a death leaves the table as it was, unless
\* the failure was inside the transaction of the app; when SQLite had ended the
\* transaction it leaves indexes at most.
THEOREM OnlyAddsAlways == SchemaSpec => OnlyAdds
<1>1. ASSUME SchemaInv, SchemaInv', [SchemaNext]_schemaVars, schemaVars' # schemaVars, at' = "idle"
      PROVE  /\ Keeps(database'.columns, before'.columns)
             /\ Keeps(database'.indexes, before'.indexes)
             /\ DOMAIN before'.columns # {} => database'.constraints = before'.constraints
             /\ at # "idle" /\ answer' # "YES" =>
                    \/ database' = before
                    \/ inside /\ answer' = "NO"
                    \/ ended /\ [database' EXCEPT !.indexes = before.indexes] = before
    <2>1. Grown'
        BY <1>1 DEF SchemaInv
    <2>2. ASSUME at # "idle", answer' # "YES", ~ (inside /\ answer' = "NO"), database' # before
          PROVE  ended /\ [database' EXCEPT !.indexes = before.indexes] = before
        <3>1. Fail \/ AppDies
            BY <1>1, <2>2 DEF SchemaNext, Update, BeginCreate, Exists, List, Alter, Altered, CreateTable,
                  CreateIndex, Commit
        <3>2. ended /\ database' = database
            BY <2>2, <3>1 DEF Fail, Undone, AppDies
        <3>3. /\ IsTable(database) /\ IsTable(before)
              /\ database.columns = before.columns /\ database.constraints = before.constraints
            BY <1>1, <3>2 DEF SchemaInv, Over
        <3> QED
            BY <3>2, <3>3 DEF IsTable
    <2> QED
        BY <2>1, <2>2 DEF Grown
<1>2. SchemaInv /\ SchemaInv' /\ [SchemaNext]_schemaVars
      => [at' = "idle" =>
           /\ Keeps(database'.columns, before'.columns)
           /\ Keeps(database'.indexes, before'.indexes)
           /\ DOMAIN before'.columns # {} => database'.constraints = before'.constraints
           /\ at # "idle" /\ answer' # "YES" =>
                  \/ database' = before
                  \/ inside /\ answer' = "NO"
                  \/ ended /\ [database' EXCEPT !.indexes = before.indexes] = before]_schemaVars
    BY <1>1
<1> QED
    BY <1>2, SchemaInvAlways, PTL DEF SchemaSpec, OnlyAdds

-----------------------------------------------------------------------------
(* Functions by recursion                                                  *)

\* Each value of f comes from the one before it.
Follows(f, N, initial, step) == f[0] = initial /\ \A n \in 1..N : f[n] = step[n][f[n - 1]]

\* A function can be defined by its first value and the step to the next.
LEMMA Recursion ==
  ASSUME NEW N \in Nat, NEW D, NEW initial \in D, NEW step \in [1..N -> [D -> D]]
  PROVE  \E f \in [0..N -> D] : Follows(f, N, initial, step)
  <1> DEFINE IsUpTo(f, m) == /\ f \in [0..m -> D] /\ f[0] = initial
                             /\ \A n \in 1..m : f[n] = step[n][f[n - 1]]
             S == {m \in 0..N : \E f : IsUpTo(f, m)}
  <1>1. 0 \in S
    <2> DEFINE f == [n \in 0..0 |-> initial]
    <2>1. IsUpTo(f, 0)
      OBVIOUS
    <2> HIDE DEF IsUpTo
    <2> QED
      BY <2>1
  <1>2. ASSUME NEW m \in 1..N, m - 1 \in S PROVE m \in S
    <2>1. PICK f : IsUpTo(f, m - 1)
      BY <1>2
    <2> DEFINE g == [n \in 0..m |-> IF n = m THEN step[m][f[m - 1]] ELSE f[n]]
    <2>2. m \in Int /\ 1 =< m /\ m - 1 \in 0..m - 1
      OBVIOUS
    <2>3. f[m - 1] \in D /\ step[m][f[m - 1]] \in D
      BY <2>1, <2>2
    <2>4. \A n \in 0..m : n # m => n \in 0..m - 1
      BY <2>2
    <2>5. g \in [0..m -> D]
      BY <2>1, <2>3, <2>4
    <2>6. g[0] = initial
      BY <2>1, <2>2
    <2>7. ASSUME NEW n \in 1..m PROVE g[n] = step[n][g[n - 1]]
      <3>1. n - 1 \in 0..m /\ n - 1 # m /\ n \in 0..m
        BY <2>2
      <3>2. g[n - 1] = f[n - 1]
        BY <3>1
      <3>3. n # m => n \in 1..m - 1
        BY <2>2
      <3> QED
        BY <2>1, <3>1, <3>2, <3>3
    <2>8. IsUpTo(g, m)
      BY <2>5, <2>6, <2>7
    <2> HIDE DEF IsUpTo
    <2> QED
      BY <2>8
  <1> HIDE DEF S
  <1>3. N \in S
    <2>1. 0..N \subseteq S
      BY <1>1, <1>2, UpTo
    <2> QED
      BY <2>1
  <1> QED
    BY <1>3 DEF S, Follows

-----------------------------------------------------------------------------
(* What a text finds is what was asked                                     *)

\* A condition of a call.
Condition == [clause : {"where", "orderBy", "limit", "offset"}, empty : BOOLEAN, n : Nat]

\* Limits and offsets have a number, so they are not empty.
IsAsked(asked) ==
    /\ asked \in Seq(Condition)
    /\ \A m \in DOMAIN asked : asked[m].clause \in {"limit", "offset"} => ~ asked[m].empty

\* What the methods can hold.
LEMMA MethodsAreTyped == Methods \subseteq MethodType
  <1> DEFINE Clause == {"where", "orderBy", "limit", "offset"}
  <1>1. ASSUME NEW kind, NEW use, NEW shape, NEW given, NEW added,
               kind \in {"select", "insert", "update", "delete"}, use \in {"one", "all", "execute"},
               shape \in {"rows", "values", "distinct", "object", "row"}
        PROVE  Family(kind, use, shape, given, added) \subseteq MethodType
    <2> SUFFICES ASSUME NEW held
                 PROVE  LET part(clause) == IF clause \in held THEN <<clause>> ELSE <<>>
                        IN  Method(kind, use, shape,
                              part("where") \o part("orderBy") \o part("limit") \o part("offset")) \in MethodType
      BY DEF Family
    <2> DEFINE part(clause) == IF clause \in held THEN <<clause>> ELSE <<>>
    <2>1. \A clause \in Clause : part(clause) \in Seq(Clause)
      <3> HIDE DEF Clause
      <3>1. \A clause \in Clause : <<clause>> \in Seq(Clause)
        OBVIOUS
      <3> QED
        BY <3>1
    <2> HIDE DEF part
    <2>2. part("where") \o part("orderBy") \o part("limit") \o part("offset") \in Seq(Clause)
      BY <2>1
    <2> QED
      BY <1>1, <2>2 DEF Method, MethodType, part
  <1>2. {Method("insert", "execute", shape, <<>>) : shape \in {"insert", "replace"}} \subseteq MethodType
    <2>1. <<>> \in Seq(Clause)
      OBVIOUS
    <2>2. \A shape \in {"insert", "replace"} : Method("insert", "execute", shape, <<>>) \in MethodType
      BY <2>1 DEF Method, MethodType
    <2> QED
      BY <2>2
  <1> HIDE DEF Clause
  <1>3. InterfaceMethods \subseteq MethodType
    BY <1>1, <1>2 DEF InterfaceMethods, GetOne, GetOneColumn, GetOneDistinctColumn, GetOneValue, GetObjects,
          GetRows, Insert, UpdateWithObject, UpdatePropertyWithObject, UpdateWithRow, UpdateWithValue, Delete
  <1>4. TableMethods \subseteq MethodType
    BY <1>1, <1>2 DEF TableMethods, TableGetOne, TableGetColumns, TableGetValues, TableGetObjects,
          TableGetRows, TableInsert, TableUpdateWithObject, TableUpdatePropertyWithObject, TableUpdateWithRow,
          TableUpdateWithValue, TableDelete
  <1> QED
    BY <1>3, <1>4, CallAssumption DEF Methods

\* What an app can give a method.
LEMMA ConditionsAreAsked ==
  ASSUME NEW method \in MethodType, NEW asked \in Conditions(method)
  PROVE  IsAsked(asked)
  <1>1. \A c \in {"where", "orderBy", "limit", "offset"} : \A a \in Arguments(method, c) :
            /\ a \in Condition
            /\ a.clause = c
            /\ c \in {"limit", "offset"} => ~ a.empty
    <2> TAKE c \in {"where", "orderBy", "limit", "offset"}
    <2> TAKE a \in Arguments(method, c)
    <2>1. CASE c \in {"where", "orderBy"}
      <3>1. PICK e \in BOOLEAN : a = [clause |-> c, empty |-> e, n |-> 0]
        BY <2>1 DEF Arguments
      <3> QED
        BY <2>1, <3>1 DEF Condition
    <2>2. CASE c \notin {"where", "orderBy"}
      <3>1. \E n \in Nat : a = [clause |-> c, empty |-> FALSE, n |-> n]
        <4>1. CASE c = "limit" /\ method.use = "one"
          BY <4>1 DEF Arguments
        <4>2. CASE ~ (c = "limit" /\ method.use = "one")
          BY <2>2, <4>2, CallAssumption DEF Arguments
        <4> QED
          BY <4>1, <4>2
      <3>2. PICK n \in Nat : a = [clause |-> c, empty |-> FALSE, n |-> n]
        BY <3>1
      <3> QED
        BY <3>2 DEF Condition
    <2> QED
      BY <2>1, <2>2
  <1>2. /\ method.clauses \in Seq({"where", "orderBy", "limit", "offset"})
    BY DEF MethodType
  <1>3. \A c \in ToSet(method.clauses) : c \in {"where", "orderBy", "limit", "offset"}
    BY <1>2 DEF ToSet
  <1>4. asked \in [DOMAIN method.clauses -> UNION {Arguments(method, c) : c \in ToSet(method.clauses)}]
    BY DEF Conditions
  <1>5. \A m \in DOMAIN asked : asked[m] \in Condition
                               /\ (asked[m].clause \in {"limit", "offset"} => ~ asked[m].empty)
    BY <1>1, <1>3, <1>4
  <1>6. Len(method.clauses) \in Nat /\ DOMAIN asked = 1..Len(method.clauses)
    BY <1>2, <1>4
  <1>7. asked \in Seq(Condition)
    <2>1. asked \in [1..Len(method.clauses) -> Condition]
      BY <1>4, <1>5, <1>6
    <2> QED
      BY <1>6, <2>1
  <1> QED
    BY <1>5, <1>7 DEF IsAsked

\* The text holds the conditions that are not empty, and nothing else.
LEMMA TextFacts ==
  ASSUME NEW asked \in Seq(Condition)
  PROVE  /\ StatementText(asked) \in Seq(Condition)
         /\ \A j \in DOMAIN StatementText(asked) :
              ~ StatementText(asked)[j].empty /\ \E m \in DOMAIN asked : StatementText(asked)[j] = asked[m]
         /\ \A m \in DOMAIN asked : ~ asked[m].empty => 
              \E j \in DOMAIN StatementText(asked) : StatementText(asked)[j] = asked[m]
  <1> DEFINE N == Len(asked)
             Appended(n, d) == AppendClause(d, asked[n])
             G(f) == [n \in 0..N |-> IF n = 0 THEN <<>> ELSE AppendClause(f[n - 1], asked[n])]
             text == CHOOSE f : f = G(f)
  <1>1. StatementText(asked) = text[N]
    BY DEF StatementText
  <1>2. N \in Nat /\ DOMAIN asked = 1..N /\ \A n \in 1..N : asked[n] \in Condition
    OBVIOUS
  <1> HIDE DEF N
  <1>3. \E f : f = G(f)
    <2> DEFINE step == [n \in 1..N |-> [d \in Seq(Condition) |-> Appended(n, d)]]
    <2>1. \A n \in 1..N, d \in Seq(Condition) : Appended(n, d) \in Seq(Condition)
      BY <1>2 DEF AppendClause
    <2> HIDE DEF Appended
    <2>2. step \in [1..N -> [Seq(Condition) -> Seq(Condition)]] /\ <<>> \in Seq(Condition)
      BY <2>1
    <2>3. \A n \in 1..N, d \in Seq(Condition) : step[n][d] = Appended(n, d)
      OBVIOUS
    <2> HIDE DEF step
    <2>4. PICK f \in [0..N -> Seq(Condition)] : Follows(f, N, <<>>, step)
      BY <1>2, <2>2, Recursion
    <2>5. f[0] = <<>> /\ \A n \in 1..N : f[n] = step[n][f[n - 1]]
      BY <2>4 DEF Follows
    <2>6. \A n \in 1..N : f[n] = Appended(n, f[n - 1])
      <3> TAKE n \in 1..N
      <3>1. f[n - 1] \in Seq(Condition)
        BY <1>2, <2>5
      <3> QED
        BY <2>3, <2>5, <3>1
    <2>7. \A n \in 0..N : n = 0 \/ n \in 1..N
      BY <1>2
    <2>8. f = [n \in 0..N |-> f[n]]
      BY <2>5
    <2>9. f = G(f)
      BY <2>5, <2>6, <2>7, <2>8 DEF Appended
    <2> QED
      BY <2>9
  <1>4. text = G(text)
    <2> HIDE DEF G
    <2> QED
      BY <1>3
  <1> HIDE DEF text
  <1>5. text[0] = <<>> /\ \A n \in 1..N : text[n] = AppendClause(text[n - 1], asked[n])
    <2>1. \A n \in 0..N : text[n] = G(text)[n]
      BY <1>4
    <2>2. N \in Nat /\ 0 \in 0..N /\ \A n \in 1..N : n \in 0..N /\ n # 0
      BY <1>2
    <2>3. text[0] = <<>>
      BY <2>1, <2>2
    <2>4. \A n \in 1..N : text[n] = AppendClause(text[n - 1], asked[n])
      BY <2>1, <2>2
    <2> QED
      BY <2>3, <2>4
  <1> HIDE DEF Appended, G
  <1> DEFINE Holds(n) ==
        /\ text[n] \in Seq(Condition)
        /\ \A j \in DOMAIN text[n] : ~ text[n][j].empty /\ \E m \in 1..n : text[n][j] = asked[m]
        /\ \A m \in 1..n : ~ asked[m].empty => \E j \in DOMAIN text[n] : text[n][j] = asked[m]
      S == {n \in 0..N : Holds(n)}
  <1>6. 0 \in S
    <2>1. text[0] \in Seq(Condition) /\ DOMAIN text[0] = {}
      BY <1>5
    <2> QED
      BY <1>2, <2>1
  <1>7. ASSUME NEW n \in 1..N, n - 1 \in S PROVE n \in S
    <2>1. n \in 0..N /\ n \in 1..n /\ \A m \in 1..n : m \in 1..n - 1 \/ m = n
      BY <1>2
    <2>2. \A m \in 1..n - 1 : m \in 1..n
      BY <1>2
    <2>3. Holds(n - 1)
      BY <1>7
    <2>4. CASE asked[n].empty
      <3>1. text[n] = text[n - 1]
        BY <1>5, <2>4 DEF AppendClause
      <3>2. Holds(n)
        BY <2>1, <2>2, <2>3, <2>4, <3>1
      <3> QED
        BY <2>1, <3>2
    <2>5. CASE ~ asked[n].empty
      <3> DEFINE shorter == text[n - 1]
                 longer == Append(shorter, asked[n])
      <3>1. text[n] = longer
        BY <1>5, <2>5 DEF AppendClause
      <3>2. shorter \in Seq(Condition)
        BY <2>3
      <3>3. /\ longer \in Seq(Condition) /\ longer[Len(shorter) + 1] = asked[n]
            /\ Len(shorter) + 1 \in DOMAIN longer
            /\ \A j \in DOMAIN shorter : j \in DOMAIN longer /\ longer[j] = shorter[j]
            /\ \A j \in DOMAIN longer : j \in DOMAIN shorter \/ j = Len(shorter) + 1
        <4> HIDE DEF shorter
        <4> QED
          BY <1>2, <3>2
      <3> HIDE DEF longer
      <3>4. \A j \in DOMAIN longer : ~ longer[j].empty /\ \E m \in 1..n : longer[j] = asked[m]
        <4> TAKE j \in DOMAIN longer
        <4>1. CASE j \in DOMAIN shorter
          <5>1. ~ shorter[j].empty /\ \E m \in 1..n - 1 : shorter[j] = asked[m]
            BY <2>3, <4>1
          <5>2. longer[j] = shorter[j]
            BY <3>3, <4>1
          <5> HIDE DEF shorter
          <5> QED
            BY <2>2, <5>1, <5>2, Zenon
        <4>2. CASE j = Len(shorter) + 1
          BY <2>1, <2>5, <3>3, <4>2
        <4> QED
          BY <3>3, <4>1, <4>2
      <3>5. \A m \in 1..n : ~ asked[m].empty => \E j \in DOMAIN longer : longer[j] = asked[m]
        <4> TAKE m \in 1..n
        <4>1. CASE m \in 1..n - 1
          BY <2>3, <3>3, <4>1
        <4>2. CASE m = n
          BY <3>3, <4>2
        <4> QED
          BY <2>1, <4>1, <4>2
      <3>6. Holds(n)
        BY <3>1, <3>3, <3>4, <3>5
      <3> QED
        BY <2>1, <3>6
    <2> QED
      BY <2>4, <2>5
  <1> HIDE DEF S
  <1>8. N \in S
    <2>1. 0..N \subseteq S
      BY <1>2, <1>6, <1>7, UpTo
    <2> QED
      BY <1>2, <2>1
  <1> QED
    BY <1>1, <1>2, <1>8, SMTT(20) DEF S

\* A text whose clauses are in place has every clause once, so it says of each what
\* the app said.
LEMMA TextSaysSame ==
  ASSUME NEW asked, IsAsked(asked), InPlace(StatementText(asked)), NEW clause
  PROVE  /\ Has(StatementText(asked), clause) <=> Has(asked, clause)
         /\ clause \in {"limit", "offset"} /\ Has(asked, clause) =>
                /\ Number(StatementText(asked), clause) = Number(asked, clause)
                /\ Number(asked, clause) \in Nat
  <1> DEFINE text == StatementText(asked)
  <1>1. /\ text \in Seq(Condition)
        /\ \A j \in DOMAIN text : ~ text[j].empty /\ \E m \in DOMAIN asked : text[j] = asked[m]
        /\ \A m \in DOMAIN asked : ~ asked[m].empty => \E j \in DOMAIN text : text[j] = asked[m]
    BY TextFacts DEF IsAsked
  <1>2. \A m, j \in DOMAIN text : m < j => text[m].clause # text[j].clause
    <2>1. SUFFICES ASSUME NEW m \in DOMAIN text, NEW j \in DOMAIN text, m < j, text[m].clause = text[j].clause
                   PROVE FALSE
      OBVIOUS
    <2>2. text[m].clause \in {"where", "orderBy", "limit", "offset"}
      <3>1. text[m] \in Condition
        <4> HIDE DEF text
        <4> QED
          BY <1>1, <2>1
      <3> QED
        BY <3>1 DEF Condition
    <2>3. LET place == [where |-> 1, orderBy |-> 2, limit |-> 3, offset |-> 4]
          IN  place[text[m].clause] < place[text[j].clause]
      BY <2>1 DEF InPlace
    <2> QED
      BY <2>1, <2>2, <2>3
  <1> HIDE DEF text
  <1>3. Has(text, clause) <=> Has(asked, clause)
    BY <1>1 DEF Has
  <1>4. ASSUME clause \in {"limit", "offset"}, Has(asked, clause)
        PROVE  Number(text, clause) = Number(asked, clause) /\ Number(asked, clause) \in Nat
    <2> DEFINE m == CHOOSE m \in DOMAIN asked : asked[m].clause = clause
               j == CHOOSE j \in DOMAIN text : text[j].clause = clause
    <2>1. m \in DOMAIN asked /\ asked[m].clause = clause
      <3>1. \E k \in DOMAIN asked : asked[k].clause = clause
        BY <1>4 DEF Has
      <3> QED
        BY <3>1
    <2>2. j \in DOMAIN text /\ text[j].clause = clause
      <3>1. \E k \in DOMAIN text : text[k].clause = clause
        BY <1>3, <1>4 DEF Has
      <3> QED
        BY <3>1
    <2>3. Number(asked, clause) = asked[m].n /\ Number(text, clause) = text[j].n
      BY DEF Number
    <2> HIDE DEF m, j
    <2>4. ~ asked[m].empty /\ asked[m].n \in Nat
      <3>1. asked[m] \in Condition
        BY <2>1 DEF IsAsked
      <3> QED
        BY <1>4, <2>1, <3>1 DEF IsAsked, Condition
    <2>5. PICK k \in DOMAIN text : text[k] = asked[m]
      BY <1>1, <2>1, <2>4
    <2>6. k = j
      <3>1. k \in Int /\ j \in Int
        BY <1>1, <2>2, <2>5
      <3>2. ~ (k < j) /\ ~ (j < k)
        BY <1>2, <2>1, <2>2, <2>5
      <3> QED
        BY <3>1, <3>2
    <2> QED
      BY <2>3, <2>4, <2>5, <2>6
  <1> QED
    BY <1>3, <1>4 DEF text

\* What a list is a sequence of.
Elements(s) == {s[m] : m \in DOMAIN s}

\* The items of a table that is finite are a sequence.
LEMMA ItemsAreList ==
  ASSUME IsFiniteSet(DOMAIN table), NEW where, NEW down, NEW shape
  PROVE  Items(where, down, shape) \in Seq(Elements(Items(where, down, shape)))
  <1> DEFINE selected == { r \in DOMAIN table : where => table[r] = "x" }
             kept == { r \in selected : shape = "distinct" =>
                           \A q \in selected : Before(q, r, down) => table[q] # table[r] }
             ordered == Ordered(kept, down)
             items == [m \in 1..Cardinality(kept) |->
                          IF shape \in {"values", "distinct"} THEN table[ordered[m]] ELSE ordered[m]]
  <1>1. Items(where, down, shape) = items
    BY DEF Items
  <1>2. kept \subseteq DOMAIN table
    OBVIOUS
  <1> HIDE DEF kept
  <1>3. Cardinality(kept) \in Nat
    BY <1>2, FS_Subset, FS_CardinalityType
  <1> HIDE DEF ordered
  <1>4. items \in [1..Cardinality(kept) -> Elements(items)]
    <2>1. DOMAIN items = 1..Cardinality(kept) /\ items = [m \in 1..Cardinality(kept) |-> items[m]]
      OBVIOUS
    <2> HIDE DEF items
    <2>2. \A m \in 1..Cardinality(kept) : items[m] \in Elements(items)
      BY <2>1 DEF Elements
    <2> QED
      BY <2>1, <2>2
  <1> HIDE DEF items
  <1>5. items \in Seq(Elements(items))
    BY <1>3, <1>4
  <1> QED
    BY <1>1, <1>5

\* What is read through a text is what the app asked, if the clauses of
\* the text are in place.
LEMMA ResultsAreAsked ==
  ASSUME NEW asked, IsAsked(asked), InPlace(StatementText(asked)), NEW shape,
         IsFiniteSet(DOMAIN table)
  PROVE  /\ Results(StatementText(asked), shape) = Results(asked, shape)
         /\ \E T : Results(asked, shape) \in Seq(T)
  <1> DEFINE text == StatementText(asked)
             items == Items(Has(asked, "where"), Has(asked, "orderBy"), shape)
             skipped == IF Has(asked, "offset") THEN Number(asked, "offset") ELSE 0
             end == IF Has(asked, "limit") THEN skipped + Number(asked, "limit") ELSE Len(items)
  <1>1. \A clause : Has(text, clause) <=> Has(asked, clause)
    BY TextSaysSame
  <1>2. \A clause \in {"limit", "offset"} : Has(asked, clause) =>
            Number(text, clause) = Number(asked, clause) /\ Number(asked, clause) \in Nat
    BY TextSaysSame
  <1> HIDE DEF text
  <1>3. \A clause : Has(text, clause) = Has(asked, clause)
    BY <1>1 DEF Has
  <1>4. items = Items(Has(text, "where"), Has(text, "orderBy"), shape)
    <2>1. Has(text, "where") = Has(asked, "where") /\ Has(text, "orderBy") = Has(asked, "orderBy")
      BY <1>3
    <2> QED
      BY <2>1, Zenon
  <1>5. Results(asked, shape) = SubSeq(items, skipped + 1, IF end < Len(items) THEN end ELSE Len(items))
    BY DEF Results
  <1>6. Results(text, shape) = Results(asked, shape)
    <2>1. skipped = IF Has(text, "offset") THEN Number(text, "offset") ELSE 0
      BY <1>2, <1>3
    <2> HIDE DEF items, skipped
    <2>2. end = IF Has(text, "limit") THEN skipped + Number(text, "limit") ELSE Len(items)
      BY <1>2, <1>3
    <2> QED
      BY <1>4, <1>5, <2>1, <2>2 DEF Results
  <1>7. items \in Seq(Elements(items))
    BY ItemsAreList
  <1> HIDE DEF items
  <1>8. skipped \in Nat
    BY <1>2
  <1> HIDE DEF skipped
  <1>9. end \in Nat
    BY <1>2, <1>7, <1>8
  <1> HIDE DEF end
  <1>10. SubSeq(items, skipped + 1, IF end < Len(items) THEN end ELSE Len(items)) \in Seq(Elements(items))
    <2> DEFINE last == IF end < Len(items) THEN end ELSE Len(items)
    <2>1. last \in Nat /\ last =< Len(items) /\ Len(items) \in Nat
      BY <1>7, <1>9
    <2> HIDE DEF last
    <2>2. SubSeq(items, skipped + 1, last) \in Seq(Elements(items))
      <3>1. CASE skipped + 1 =< last
        BY <1>7, <1>8, <2>1, <3>1
      <3>2. CASE last < skipped + 1
        BY <1>7, <1>8, <2>1, <3>2
      <3> QED
        BY <1>8, <2>1, <3>1, <3>2
    <2> QED
      BY <2>2 DEF last
  <1> QED
    BY <1>5, <1>6, <1>10 DEF text

-----------------------------------------------------------------------------
(* The objects                                                             *)

\* An object whose rows are of T.
CallRecord(T) ==
    [ method : MethodType, asked : Seq(Condition), text : Seq(Condition),
      pc : {"idle", "prepare", "step", "finalize", "return", "done", "undefined"},
      answer : {"none", "nil", "row", "list", "YES", "NO"},
      drop : BOOLEAN, misused : BOOLEAN, error : BOOLEAN, prepared : BOOLEAN,
      handle : Handle \cup {"none"}, open : BOOLEAN, loop : BOOLEAN, begun : BOOLEAN,
      rest : Seq(T), got : Seq(T), meant : Seq(T), failed : BOOLEAN, inside : BOOLEAN ]

\* The rows are over, or a step has failed.
IsOver(r) == r.begun /\ (r.rest = <<>> \/ r.failed)

\* A select that is open can be stepped; one that was, and is no more, is
\* over.
SelectIsProper(r) ==
    /\ r.open => InPlace(r.text)
    /\ r.pc = "step" => r.prepared /\ ~ r.error
    /\ ~ r.drop /\ r.pc \in {"finalize", "return", "done"} => IsOver(r)
    /\ ~ r.drop /\ r.prepared /\ ~ r.error /\ ~ r.open => IsOver(r)

\* What is got and what is left is what was meant.
CallIsProper(r) ==
    /\ IsAsked(r.asked) /\ r.text = StatementText(r.asked)
    /\ IF r.begun THEN r.prepared /\ r.meant = r.got \o r.rest ELSE r.got = <<>> /\ r.meant = <<>>
    /\ r.method.kind = "select" => SelectIsProper(r)
    /\ r.pc \in {"prepare", "step", "undefined"} => r.method.kind = "select"
    /\ r.pc = "undefined" => IsOver(r)
    /\ r.pc \in {"return", "done"} => ~ r.open
    /\ r.drop => r.pc \in {"finalize", "return", "done"}
    /\ r.answer = "list" => ~ r.open /\ IsOver(r)

\* A handle is with one object, or in the pool.
HandleIsApart(c) ==
    call[c].handle # "none" =>
        /\ call[c].handle \notin free
        /\ \A d \in DOMAIN call : call[d].handle = call[c].handle => d = c

\* The inductive invariant.
CallInv ==
    /\ DOMAIN call \subseteq CallObject /\ free \subseteq Handle /\ IsFiniteSet(DOMAIN table)
    /\ \E T : call \in [DOMAIN call -> CallRecord(T)]
    /\ \A c \in DOMAIN call : CallIsProper(call[c]) /\ HandleIsApart(c)

\* A larger set of rows has the objects too.
LEMMA RecordsGrow ==
  ASSUME NEW T, NEW U, T \subseteq U
  PROVE  CallRecord(T) \subseteq CallRecord(U)
  <1>1. Seq(T) \subseteq Seq(U)
    OBVIOUS
  <1> QED
    BY <1>1 DEF CallRecord

\* An object changes, and at most takes a handle or gives its own back.
LEMMA ChangeKeeps ==
  ASSUME CallInv, NEW c \in DOMAIN call, NEW new, Change(c, new), NEW T, NEW U, T \subseteq U,
         call \in [DOMAIN call -> CallRecord(T)], new \in CallRecord(U), CallIsProper(new),
         free' \subseteq Handle, free' \subseteq free \cup {call[c].handle},
         new.handle # "none" => new.handle \notin free' /\ new.handle \in free \cup {call[c].handle},
         IsFiniteSet(DOMAIN table')
  PROVE  CallInv'
  <1>1. /\ DOMAIN call' = DOMAIN call /\ call'[c] = new
        /\ \A d \in DOMAIN call : d # c => call'[d] = call[d]
        /\ call' = [d \in DOMAIN call |-> call'[d]]
    BY DEF Change
  <1>2. call' \in [DOMAIN call' -> CallRecord(U)]
    <2>1. \A d \in DOMAIN call : call'[d] \in CallRecord(U)
      BY <1>1, RecordsGrow
    <2> QED
      BY <1>1, <2>1
  <1>3. \A d \in DOMAIN call' : CallIsProper(call'[d])
    BY <1>1 DEF CallInv
  <1>4. /\ \A d \in DOMAIN call : call[d].handle # "none" => call[d].handle \notin free
        /\ \A d, e \in DOMAIN call : call[d].handle # "none" /\ call[d].handle = call[e].handle => d = e
    BY DEF CallInv, HandleIsApart
  <1>5. "none" \notin Handle
    BY CallAssumption
  <1>6. ASSUME NEW d \in DOMAIN call' PROVE HandleIsApart(d)'
    <2> SUFFICES ASSUME call'[d].handle # "none"
                 PROVE  /\ call'[d].handle \notin free'
                        /\ \A e \in DOMAIN call' : call'[e].handle = call'[d].handle => e = d
      BY DEF HandleIsApart
    <2>1. CASE d = c
      BY <1>1, <1>4, <1>5, <2>1 DEF CallInv
    <2>2. CASE d # c
      BY <1>1, <1>4, <1>5, <2>2 DEF CallInv
    <2> QED
      BY <2>1, <2>2
  <1> QED
    BY <1>1, <1>2, <1>3, <1>6 DEF CallInv

\* A row goes from what is left to what is got.
LEMMA HeadMoves ==
  ASSUME NEW T, NEW got \in Seq(T), NEW rest \in Seq(T), rest # <<>>
  PROVE  Append(got, Head(rest)) \o Tail(rest) = got \o rest
  <1>1. Head(rest) \in T /\ Tail(rest) \in Seq(T)
    BY HeadTailProperties
  <1>2. <<Head(rest)>> \in Seq(T)
    BY <1>1
  <1>3. rest = <<Head(rest)>> \o Tail(rest)
    BY <1>1
  <1>4. Append(got, Head(rest)) = got \o <<Head(rest)>>
    BY <1>1, AppendIsConcat
  <1>5. (got \o <<Head(rest)>>) \o Tail(rest) = got \o (<<Head(rest)>> \o Tail(rest))
    BY <1>1, <1>2, ConcatAssociative
  <1> QED
    BY <1>3, <1>4, <1>5

\* Only an object that is a select reads.
LEMMA ReadsKeep ==
  ASSUME CallInv, NEW c \in CallObject, NEW loop \in BOOLEAN,
         Ask(c, loop) \/ LazyPrepare(c) \/ Begin(c) \/ Step(c)
  PROVE  CallInv'
  <1> DEFINE r == call[c]
  <1>1. c \in DOMAIN call
    BY DEF Ask, AppMayAsk, LazyPrepare, Begin, Step, At
  <1>2. PICK T : call \in [DOMAIN call -> CallRecord(T)]
    BY DEF CallInv
  <1>3. r \in CallRecord(T) /\ CallIsProper(r) /\ HandleIsApart(c)
    BY <1>1, <1>2 DEF CallInv
  <1>4. UNCHANGED table /\ IsFiniteSet(DOMAIN table) /\ free \subseteq Handle /\ "none" \notin Handle
    BY CallAssumption DEF CallInv, Ask, LazyPrepare, Begin, Step
  <1> DEFINE Becomes(new, U) ==
               /\ Change(c, new) /\ T \subseteq U /\ new \in CallRecord(U) /\ CallIsProper(new)
               /\ free' \subseteq free
               /\ new.handle # "none" => new.handle \notin free' /\ new.handle \in free \cup {r.handle}
  <1>5. ASSUME NEW new, NEW U, Becomes(new, U) PROVE CallInv'
    <2>1. free' \subseteq Handle /\ free' \subseteq free \cup {r.handle} /\ IsFiniteSet(DOMAIN table')
      BY <1>4, <1>5
    <2> QED
      BY <1>1, <1>2, <1>5, <2>1, ChangeKeeps
  <1>6. CASE Ask(c, loop)
    <2> DEFINE new == [r EXCEPT !.pc = "prepare", !.loop = loop]
    <2>1. /\ Change(c, new) /\ r.pc = "idle" /\ r.method.kind = "select" /\ UNCHANGED free
      BY <1>6 DEF Ask, AppMayAsk, At
    <2>2. new \in CallRecord(T)
      BY <1>3 DEF CallRecord
    <2>3. CallIsProper(new)
      BY <1>3, <2>1 DEF CallRecord, CallIsProper, SelectIsProper, IsOver
    <2>4. new.handle = r.handle
      BY <1>3 DEF CallRecord
    <2>5. Becomes(new, T)
      BY <1>3, <2>1, <2>2, <2>3, <2>4 DEF HandleIsApart
    <2> HIDE DEF new, Becomes
    <2> QED
      BY <1>5, <2>5
  <1>7. CASE LazyPrepare(c)
    <2>1. r.pc = "prepare" /\ r.method.kind = "select" /\ ~ r.drop
      BY <1>3, <1>7 DEF LazyPrepare, At, CallIsProper
    <2>2. CASE r.error /\ Change(c, [r EXCEPT !.pc = "idle", !.answer = "nil"]) /\ UNCHANGED free
      <3> DEFINE new == [r EXCEPT !.pc = "idle", !.answer = "nil"]
      <3>1. new \in CallRecord(T)
        BY <1>3 DEF CallRecord
      <3>2. CallIsProper(new)
        BY <1>3, <2>1 DEF CallRecord, CallIsProper, SelectIsProper, IsOver
      <3>3. new.handle = r.handle
        BY <1>3 DEF CallRecord
      <3>4. Becomes(new, T)
        BY <1>3, <2>2, <3>1, <3>2, <3>3 DEF HandleIsApart
      <3> HIDE DEF new, Becomes
      <3> QED
        BY <1>5, <3>4
    <2>3. CASE ~ r.error /\ r.prepared /\ Change(c, [r EXCEPT !.pc = "step"]) /\ UNCHANGED free
      <3> DEFINE new == [r EXCEPT !.pc = "step"]
      <3>1. new \in CallRecord(T)
        BY <1>3 DEF CallRecord
      <3>2. CallIsProper(new)
        BY <1>3, <2>1, <2>3 DEF CallRecord, CallIsProper, SelectIsProper, IsOver
      <3>3. new.handle = r.handle
        BY <1>3 DEF CallRecord
      <3>4. Becomes(new, T)
        BY <1>3, <2>3, <3>1, <3>2, <3>3 DEF HandleIsApart
      <3> HIDE DEF new, Becomes
      <3> QED
        BY <1>5, <3>4
    <2>4. CASE /\ ~ r.prepared /\ UNCHANGED free
               /\ Change(c, [r EXCEPT !.prepared = TRUE, !.error = TRUE, !.pc = "idle", !.answer = "nil"])
      <3> DEFINE new == [r EXCEPT !.prepared = TRUE, !.error = TRUE, !.pc = "idle", !.answer = "nil"]
      <3>1. new \in CallRecord(T)
        BY <1>3 DEF CallRecord
      <3>2. CallIsProper(new)
        BY <1>3, <2>1, <2>4 DEF CallRecord, CallIsProper, SelectIsProper, IsOver
      <3>3. new.handle = r.handle
        BY <1>3 DEF CallRecord
      <3>4. Becomes(new, T)
        BY <1>3, <2>4, <3>1, <3>2, <3>3 DEF HandleIsApart
      <3> HIDE DEF new, Becomes
      <3> QED
        BY <1>5, <3>4
    <2>5. ASSUME NEW h \in free, ~ r.error, ~ r.prepared, Prepare(c, h), free' = free \ {h}
          PROVE  CallInv'
      <3>1. CASE CanPrepare(c)
        <4> DEFINE new == [r EXCEPT !.prepared = TRUE, !.handle = h, !.open = TRUE, !.pc = "step"]
        <4>1. Change(c, new)
          BY <2>5, <3>1 DEF Prepare
        <4>2. InPlace(r.text)
          BY <3>1 DEF CanPrepare, Accepted
        <4>3. new \in CallRecord(T)
          BY <1>3, <1>4 DEF CallRecord
        <4>4. CallIsProper(new)
          BY <1>3, <2>1, <2>5, <4>2 DEF CallRecord, CallIsProper, SelectIsProper, IsOver
        <4>5. new.handle = h
          BY <1>3 DEF CallRecord
        <4>6. Becomes(new, T)
          BY <2>5, <4>1, <4>3, <4>4, <4>5
        <4> HIDE DEF new, Becomes
        <4> QED
          BY <1>5, <4>6
      <3>2. CASE ~ CanPrepare(c)
        <4> DEFINE new == [r EXCEPT !.prepared = TRUE, !.handle = h, !.error = TRUE, !.pc = "idle", !.answer = "nil"]
        <4>1. Change(c, new)
          BY <2>5, <3>2 DEF Prepare
        <4>2. new \in CallRecord(T)
          BY <1>3, <1>4 DEF CallRecord
        <4>3. CallIsProper(new)
          BY <1>3, <2>1, <2>5 DEF CallRecord, CallIsProper, SelectIsProper, IsOver
        <4>4. new.handle = h
          BY <1>3 DEF CallRecord
        <4>5. Becomes(new, T)
          BY <2>5, <4>1, <4>2, <4>3, <4>4
        <4> HIDE DEF new, Becomes
        <4> QED
          BY <1>5, <4>5
      <3> QED
        BY <3>1, <3>2
    <2> HIDE DEF Becomes
    <2> QED
      BY <1>7, <2>2, <2>3, <2>4, <2>5 DEF LazyPrepare
  <1>8. CASE Begin(c)
    <2> DEFINE given == Results(r.text, r.method.shape)
               wanted == Results(r.asked, r.method.shape)
               new == [r EXCEPT !.begun = TRUE, !.rest = given, !.meant = wanted]
    <2>1. /\ Change(c, new) /\ r.pc = "step" /\ r.open /\ ~ r.begun /\ UNCHANGED free
      BY <1>8 DEF Begin, At
    <2>2. r.method.kind = "select" /\ InPlace(r.text)
      BY <1>3, <2>1 DEF CallIsProper, SelectIsProper
    <2>3. IsAsked(r.asked) /\ r.text = StatementText(r.asked)
      BY <1>3 DEF CallIsProper
    <2>4. given = wanted /\ \E R : wanted \in Seq(R)
      BY <1>4, <2>2, <2>3, ResultsAreAsked
    <2>5. PICK R : wanted \in Seq(R)
      BY <2>4
    <2> HIDE DEF given, wanted
    <2>6. T \subseteq T \cup R /\ wanted \in Seq(T \cup R)
      BY <2>5
    <2>7. r \in CallRecord(T \cup R)
      BY <1>3, <2>6, RecordsGrow
    <2>8. new \in CallRecord(T \cup R)
      BY <2>4, <2>6, <2>7 DEF CallRecord
    <2>9. /\ new.begun /\ new.rest = wanted /\ new.meant = wanted /\ new.got = r.got /\ new.open
          /\ new.answer = r.answer /\ new.pc = "step" /\ ~ new.drop /\ new.prepared = r.prepared
          /\ new.method = r.method /\ new.asked = r.asked /\ new.text = r.text /\ new.handle = r.handle
          /\ new.error = r.error /\ new.open = r.open
      BY <1>3, <2>1, <2>4 DEF CallRecord, CallIsProper
    <2>10. wanted = r.got \o wanted
      <3>1. r.got = <<>>
        BY <1>3, <2>1 DEF CallIsProper
      <3> QED
        BY <2>5, <3>1
    <2> HIDE DEF new
    <2>11. CallIsProper(new)
      BY <1>3, <2>1, <2>2, <2>9, <2>10 DEF CallIsProper, SelectIsProper
    <2>12. Becomes(new, T \cup R)
      BY <1>3, <2>1, <2>6, <2>8, <2>9, <2>11 DEF HandleIsApart
    <2> HIDE DEF Becomes
    <2> QED
      BY <1>5, <2>12
  <1>9. CASE Step(c)
    <2>1. r.pc = "step" /\ r.method.kind = "select" /\ ~ r.drop /\ r.prepared /\ ~ r.error /\ UNCHANGED free
      BY <1>3, <1>9 DEF Step, At, CallIsProper, SelectIsProper
    <2>2. CASE ~ r.open /\ Change(c, [r EXCEPT !.pc = "undefined"])
      <3> DEFINE new == [r EXCEPT !.pc = "undefined"]
      <3>1. new \in CallRecord(T)
        BY <1>3 DEF CallRecord
      <3>2. CallIsProper(new)
        BY <1>3, <2>1, <2>2 DEF CallRecord, CallIsProper, SelectIsProper, IsOver
      <3>3. new.handle = r.handle
        BY <1>3 DEF CallRecord
      <3>4. Becomes(new, T)
        BY <1>3, <2>1, <2>2, <3>1, <3>2, <3>3 DEF HandleIsApart
      <3> HIDE DEF new, Becomes
      <3> QED
        BY <1>5, <3>4
    <2>3. CASE r.begun /\ r.open /\ r.rest # <<>> /\ StepRow(c)
      <3> DEFINE reads == IF r.loop THEN r.answer ELSE IF r.method.shape # "rows" /\ Head(r.rest) = "null"
                               THEN "nil" ELSE "row"
                 new == [r EXCEPT !.rest = Tail(r.rest), !.got = Append(r.got, Head(r.rest)),
                                  !.pc = IF r.loop THEN "step" ELSE "idle", !.answer = reads]
      <3>1. Change(c, new)
        BY <2>3 DEF StepRow
      <3>2. reads \in {r.answer, "nil", "row"}
        OBVIOUS
      <3> HIDE DEF reads
      <3>3. r.rest \in Seq(T) /\ r.got \in Seq(T) /\ r.answer \in {"none", "nil", "row", "list", "YES", "NO"}
        BY <1>3 DEF CallRecord
      <3>4. Tail(r.rest) \in Seq(T) /\ Append(r.got, Head(r.rest)) \in Seq(T)
        BY <2>3, <3>3
      <3>5. Append(r.got, Head(r.rest)) \o Tail(r.rest) = r.got \o r.rest
        BY <2>3, <3>3, HeadMoves
      <3>6. new \in CallRecord(T)
        BY <1>3, <3>2, <3>3, <3>4 DEF CallRecord
      <3>7. /\ new.begun /\ new.rest = Tail(r.rest) /\ new.got = Append(r.got, Head(r.rest))
            /\ new.pc \in {"step", "idle"} /\ new.answer = reads /\ new.meant = r.meant
            /\ new.open /\ ~ new.drop /\ new.prepared /\ ~ new.error
            /\ new.method = r.method /\ new.asked = r.asked /\ new.text = r.text /\ new.handle = r.handle
        BY <1>3, <2>1, <2>3 DEF CallRecord
      <3>8. r.answer # "list"
        BY <1>3, <2>3 DEF CallIsProper
      <3> HIDE DEF new
      <3>9. CallIsProper(new)
        BY <1>3, <2>1, <2>3, <3>2, <3>5, <3>7, <3>8 DEF CallIsProper, SelectIsProper
      <3>10. Becomes(new, T)
        BY <1>3, <2>1, <3>1, <3>6, <3>7, <3>9 DEF HandleIsApart
      <3> HIDE DEF Becomes
      <3> QED
        BY <1>5, <3>10
    <2>4. CASE r.begun /\ r.open /\ r.rest = <<>> /\ Change(c, [r EXCEPT !.pc = "finalize"])
      <3> DEFINE new == [r EXCEPT !.pc = "finalize"]
      <3>1. new \in CallRecord(T)
        BY <1>3 DEF CallRecord
      <3>2. CallIsProper(new)
        BY <1>3, <2>1, <2>4 DEF CallRecord, CallIsProper, SelectIsProper, IsOver
      <3>3. new.handle = r.handle
        BY <1>3 DEF CallRecord
      <3>4. Becomes(new, T)
        BY <1>3, <2>1, <2>4, <3>1, <3>2, <3>3 DEF HandleIsApart
      <3> HIDE DEF new, Becomes
      <3> QED
        BY <1>5, <3>4
    <2>5. CASE r.begun /\ r.open /\ Change(c, [r EXCEPT !.pc = "finalize", !.failed = TRUE])
      <3> DEFINE new == [r EXCEPT !.pc = "finalize", !.failed = TRUE]
      <3>1. new \in CallRecord(T)
        BY <1>3 DEF CallRecord
      <3>2. CallIsProper(new)
        BY <1>3, <2>1, <2>5 DEF CallRecord, CallIsProper, SelectIsProper, IsOver
      <3>3. new.handle = r.handle
        BY <1>3 DEF CallRecord
      <3>4. Becomes(new, T)
        BY <1>3, <2>1, <2>5, <3>1, <3>2, <3>3 DEF HandleIsApart
      <3> HIDE DEF new, Becomes
      <3> QED
        BY <1>5, <3>4
    <2> HIDE DEF Becomes
    <2> QED
      BY <1>9, <2>2, <2>3, <2>4, <2>5 DEF Step
  <1> HIDE DEF Becomes
  <1> QED
    BY <1>6, <1>7, <1>8, <1>9


\* The end of a call, and an object that the app lets go of.
LEMMA EndsKeep ==
  ASSUME CallInv, NEW c \in CallObject,
         Finalize(c) \/ ReturnHandle(c) \/ Answer(c) \/ Drop(c)
  PROVE  CallInv'
  <1> DEFINE r == call[c]
  <1>1. c \in DOMAIN call
    BY DEF Finalize, ReturnHandle, Answer, Drop, At
  <1>2. PICK T : call \in [DOMAIN call -> CallRecord(T)]
    BY DEF CallInv
  <1>3. r \in CallRecord(T) /\ CallIsProper(r) /\ HandleIsApart(c)
    BY <1>1, <1>2 DEF CallInv
  <1>4. UNCHANGED table /\ IsFiniteSet(DOMAIN table) /\ free \subseteq Handle /\ "none" \notin Handle
    BY CallAssumption DEF CallInv, Finalize, ReturnHandle, Answer, Drop
  <1> DEFINE Becomes(new) ==
               /\ Change(c, new) /\ new \in CallRecord(T) /\ CallIsProper(new)
               /\ free' \subseteq Handle /\ free' \subseteq free \cup {r.handle}
               /\ new.handle # "none" => new.handle \notin free' /\ new.handle = r.handle
  <1>5. ASSUME NEW new, Becomes(new) PROVE CallInv'
    <2>1. T \subseteq T /\ IsFiniteSet(DOMAIN table')
      BY <1>4
    <2>2. new.handle # "none" => new.handle \notin free' /\ new.handle \in free \cup {r.handle}
      BY <1>5
    <2> QED
      BY <1>1, <1>2, <1>5, <2>1, <2>2, ChangeKeeps
  <1>6. CASE Finalize(c)
    <2> DEFINE new == [r EXCEPT !.pc = "return", !.open = FALSE]
    <2>1. Change(c, new) /\ r.pc = "finalize" /\ UNCHANGED free
      BY <1>6 DEF Finalize, GiveUp, At
    <2>2. new \in CallRecord(T)
      BY <1>3 DEF CallRecord
    <2>3. CallIsProper(new)
      BY <1>3, <2>1 DEF CallRecord, CallIsProper, SelectIsProper, IsOver
    <2>4. new.handle = r.handle
      BY <1>3 DEF CallRecord
    <2>5. Becomes(new)
      BY <1>3, <1>4, <2>1, <2>2, <2>3, <2>4 DEF HandleIsApart
    <2> HIDE DEF new, Becomes
    <2> QED
      BY <1>5, <2>5
  <1>7. CASE ReturnHandle(c)
    <2> DEFINE new == [r EXCEPT !.pc = "done", !.handle = "none"]
    <2>1. Change(c, new) /\ r.pc = "return" /\ free' = free \cup ({r.handle} \ {"none"})
      BY <1>7 DEF ReturnHandle, GiveUp, At
    <2>2. new \in CallRecord(T)
      BY <1>3 DEF CallRecord
    <2>3. CallIsProper(new)
      BY <1>3, <2>1 DEF CallRecord, CallIsProper, SelectIsProper, IsOver
    <2>4. new.handle = "none" /\ r.handle \in Handle \cup {"none"}
      BY <1>3 DEF CallRecord
    <2>5. Becomes(new)
      BY <1>4, <2>1, <2>2, <2>3, <2>4
    <2> HIDE DEF new, Becomes
    <2> QED
      BY <1>5, <2>5
  <1>8. CASE Answer(c)
    <2> DEFINE says == IF r.method.kind # "select" THEN r.answer ELSE IF r.loop THEN "list" ELSE "nil"
               new == [r EXCEPT !.pc = "idle", !.answer = says]
    <2>1. Change(c, new) /\ r.pc = "done" /\ ~ r.drop /\ UNCHANGED free
      BY <1>8 DEF Answer, At
    <2>2. says \in {"none", "nil", "row", "list", "YES", "NO"}
      BY <1>3 DEF CallRecord
    <2>3. says = "list" => ~ r.open /\ IsOver(r)
      BY <1>3, <2>1 DEF CallIsProper, SelectIsProper
    <2> HIDE DEF says
    <2>4. new \in CallRecord(T)
      BY <1>3, <2>2 DEF CallRecord
    <2>5. CallIsProper(new)
      BY <1>3, <2>1, <2>3 DEF CallRecord, CallIsProper, SelectIsProper, IsOver
    <2>6. new.handle = r.handle
      BY <1>3 DEF CallRecord
    <2>7. Becomes(new)
      BY <1>3, <1>4, <2>1, <2>4, <2>5, <2>6 DEF HandleIsApart
    <2> HIDE DEF new, Becomes
    <2> QED
      BY <1>5, <2>7
  <1>9. CASE Drop(c)
    <2> DEFINE new == [r EXCEPT !.pc = "finalize", !.drop = TRUE]
    <2>1. Change(c, new) /\ r.pc = "idle" /\ UNCHANGED free
      BY <1>9 DEF Drop, At
    <2>2. new \in CallRecord(T)
      BY <1>3 DEF CallRecord
    <2>3. CallIsProper(new)
      BY <1>3, <2>1 DEF CallRecord, CallIsProper, SelectIsProper, IsOver
    <2>4. new.handle = r.handle
      BY <1>3 DEF CallRecord
    <2>5. Becomes(new)
      BY <1>3, <1>4, <2>1, <2>2, <2>3, <2>4 DEF HandleIsApart
    <2> HIDE DEF new, Becomes
    <2> QED
      BY <1>5, <2>5
  <1> QED
    BY <1>6, <1>7, <1>8, <1>9

\* An object that is gone.
LEMMA GoneKeeps ==
  ASSUME CallInv, NEW c \in CallObject, Gone(c)
  PROVE  CallInv'
  <1>1. call' = [d \in DOMAIN call \ {c} |-> call[d]] /\ UNCHANGED <<free, table>>
    BY DEF Gone
  <1>2. DOMAIN call' \subseteq DOMAIN call /\ \A d \in DOMAIN call' : call'[d] = call[d]
    BY <1>1
  <1>3. PICK T : call \in [DOMAIN call -> CallRecord(T)]
    BY DEF CallInv
  <1>4. call' \in [DOMAIN call' -> CallRecord(T)]
    BY <1>1, <1>3
  <1>5. \A d \in DOMAIN call' : CallIsProper(call'[d])
    BY <1>2 DEF CallInv
  <1>6. \A d \in DOMAIN call' : HandleIsApart(d)'
    BY <1>1, <1>2 DEF CallInv, HandleIsApart
  <1> QED
    BY <1>1, <1>2, <1>4, <1>5, <1>6 DEF CallInv


-----------------------------------------------------------------------------
(* Objects that are made, and those that write                             *)

\* A table that is written is finite.
LEMMA WrittenIsFinite ==
  ASSUME IsFiniteSet(DOMAIN table), NEW kind, NEW conditions, NEW value
  PROVE  IsFiniteSet(DOMAIN Written(kind, conditions, value))
  <1>1. DOMAIN Written(kind, conditions, value) \subseteq DOMAIN table
    BY DEF Written
  <1> QED
    BY <1>1, FS_Subset

\* A table with some more rows is finite.
LEMMA PutIsFinite ==
  ASSUME IsFiniteSet(DOMAIN table), NEW n \in Nat, NEW ids, DOMAIN ids = 1..n
  PROVE  IsFiniteSet(DOMAIN Put(ids))
  <1> DEFINE put == {ids[m] : m \in 1..n}
  <1>1. DOMAIN Put(ids) = DOMAIN table \cup put
    BY DEF Put
  <1>2. IsFiniteSet(1..n)
    BY FS_Interval
  <1>3. IsFiniteSet(put)
    <2>1. [m \in 1..n |-> ids[m]] \in Surjection(1..n, put)
      BY DEF Surjection
    <2> QED
      BY <1>2, <2>1, FS_Surjection
  <1> QED
    BY <1>1, <1>3, FS_Union

\* An object is made.
LEMMA NewKeeps ==
  ASSUME CallInv, NEW c \in CallObject, InitWithCore(c)
  PROVE  CallInv'
  <1> DEFINE fresh(method, misused, asked) ==
               [method |-> method, asked |-> asked, text |-> StatementText(asked),
                pc |-> "idle", answer |-> "none", drop |-> FALSE, misused |-> misused, error |-> misused,
                prepared |-> FALSE, handle |-> "none", open |-> FALSE, loop |-> FALSE, begun |-> FALSE,
                rest |-> <<>>, got |-> <<>>, meant |-> <<>>, failed |-> FALSE, inside |-> FALSE]
  <1>1. PICK method \in Methods, misused \in BOOLEAN : \E asked \in Conditions(method) :
          call' = [d \in DOMAIN call \cup {c} |-> IF d # c THEN call[d] ELSE fresh(method, misused, asked)]
    BY DEF InitWithCore, Methods
  <1>2. PICK asked \in Conditions(method) :
          call' = [d \in DOMAIN call \cup {c} |-> IF d # c THEN call[d] ELSE fresh(method, misused, asked)]
    BY <1>1
  <1>3. UNCHANGED <<free, table>> /\ c \notin DOMAIN call
    BY DEF InitWithCore
  <1> DEFINE new == call'[c]
  <1>4. /\ DOMAIN call' = DOMAIN call \cup {c}
        /\ \A d \in DOMAIN call : d # c /\ call'[d] = call[d]
        /\ call' = [d \in DOMAIN call \cup {c} |-> call'[d]]
    BY <1>2, <1>3
  <1>5. method \in MethodType
    BY <1>1, MethodsAreTyped
  <1>6. IsAsked(asked)
    BY <1>5, <1>2, ConditionsAreAsked
  <1>7. asked \in Seq(Condition) /\ StatementText(asked) \in Seq(Condition)
    BY <1>6, TextFacts DEF IsAsked
  <1>8. new = fresh(method, misused, asked)
    BY <1>2
  <1> HIDE DEF new
  <1>9. PICK T : call \in [DOMAIN call -> CallRecord(T)]
    BY DEF CallInv
  <1>10. new \in CallRecord(T)
    <2>1. <<>> \in Seq(T)
      OBVIOUS
    <2> QED
      BY <1>1, <1>5, <1>7, <1>8, <2>1 DEF CallRecord
  <1>11. CallIsProper(new)
    BY <1>6, <1>8 DEF CallIsProper, SelectIsProper
  <1>12. new.handle = "none"
    BY <1>8
  <1>13. call' \in [DOMAIN call' -> CallRecord(T)]
    <2>1. \A d \in DOMAIN call' : call'[d] \in CallRecord(T)
      BY <1>4, <1>9, <1>10 DEF new
    <2> QED
      BY <1>4, <2>1
  <1>14. \A d \in DOMAIN call' : CallIsProper(call'[d])
    BY <1>4, <1>11 DEF CallInv, new
  <1>15. \A d \in DOMAIN call' : HandleIsApart(d)'
    BY <1>3, <1>4, <1>12 DEF CallInv, HandleIsApart, new
  <1> QED
    BY <1>3, <1>4, <1>13, <1>14, <1>15 DEF CallInv

\* A delete or an update.
LEMMA ExecuteKeeps ==
  ASSUME CallInv, NEW c \in CallObject, Execute(c)
  PROVE  CallInv'
  <1> DEFINE r == call[c]
  <1>1. c \in DOMAIN call /\ r.pc = "idle" /\ r.method.kind \in {"delete", "update"}
    BY DEF Execute, AppMayAsk, At
  <1>2. PICK T : call \in [DOMAIN call -> CallRecord(T)]
    BY DEF CallInv
  <1>3. r \in CallRecord(T) /\ CallIsProper(r) /\ HandleIsApart(c)
    BY <1>1, <1>2 DEF CallInv
  <1>4. IsFiniteSet(DOMAIN table) /\ free \subseteq Handle /\ "none" \notin Handle
    BY CallAssumption DEF CallInv
  <1> DEFINE Becomes(new) ==
               /\ Change(c, new) /\ new \in CallRecord(T) /\ CallIsProper(new)
               /\ free' \subseteq free
               /\ new.handle # "none" => new.handle \notin free' /\ new.handle \in free \cup {r.handle}
  <1>5. ASSUME NEW new, Becomes(new), IsFiniteSet(DOMAIN table') PROVE CallInv'
    <2>1. T \subseteq T /\ free' \subseteq Handle /\ free' \subseteq free \cup {r.handle}
      BY <1>4, <1>5
    <2> QED
      BY <1>1, <1>2, <1>5, <2>1, ChangeKeeps
  <1>6. ASSUME NEW error \in BOOLEAN, Change(c, [r EXCEPT !.answer = "NO", !.error = error]),
               UNCHANGED <<free, table>>
        PROVE  CallInv'
    <2> DEFINE new == [r EXCEPT !.answer = "NO", !.error = error]
    <2>1. new \in CallRecord(T)
      BY <1>3 DEF CallRecord
    <2>2. CallIsProper(new)
      BY <1>1, <1>3 DEF CallRecord, CallIsProper, IsOver
    <2>3. new.handle = r.handle
      BY <1>3 DEF CallRecord
    <2>4. Becomes(new)
      BY <1>3, <1>6, <2>1, <2>2, <2>3 DEF HandleIsApart
    <2>5. IsFiniteSet(DOMAIN table')
      BY <1>4, <1>6
    <2> HIDE DEF new, Becomes
    <2> QED
      BY <1>5, <2>4, <2>5
  <1>7. ASSUME NEW says \in {"YES", "NO"}, NEW error \in BOOLEAN, NEW open \in BOOLEAN, NEW h \in free,
               Change(c, [r EXCEPT !.answer = says, !.error = error, !.handle = h, !.open = open,
                                   !.pc = "finalize"]),
               free' = free \ {h}, IsFiniteSet(DOMAIN table')
        PROVE  CallInv'
    <2> DEFINE new == [r EXCEPT !.answer = says, !.error = error, !.handle = h, !.open = open,
                                !.pc = "finalize"]
    <2>1. new \in CallRecord(T)
      BY <1>3, <1>4 DEF CallRecord
    <2>2. CallIsProper(new)
      BY <1>1, <1>3 DEF CallRecord, CallIsProper, IsOver
    <2>3. new.handle = h
      BY <1>3 DEF CallRecord
    <2>4. Becomes(new)
      BY <1>7, <2>1, <2>2, <2>3
    <2> HIDE DEF new, Becomes
    <2> QED
      BY <1>5, <1>7, <2>4
  <1> HIDE DEF Becomes
  <1>8. CASE Change(c, [r EXCEPT !.answer = "NO"]) /\ UNCHANGED <<free, table>>
    <2>1. [r EXCEPT !.answer = "NO"] = [r EXCEPT !.answer = "NO", !.error = r.error] /\ r.error \in BOOLEAN
      BY <1>3 DEF CallRecord
    <2> QED
      BY <1>6, <1>8, <2>1
  <1>9. CASE Change(c, [r EXCEPT !.answer = "NO", !.error = TRUE]) /\ UNCHANGED <<free, table>>
    BY <1>6, <1>9
  <1>10. ASSUME NEW h \in free, free' = free \ {h}, NEW value, table' = Written(r.method.kind, r.text, value),
               Change(c, [r EXCEPT !.answer = "YES", !.error = FALSE, !.handle = h, !.open = TRUE,
                                   !.pc = "finalize"])
        PROVE  CallInv'
    <2>1. IsFiniteSet(DOMAIN table')
      BY <1>4, <1>10, WrittenIsFinite
    <2> QED
      BY <1>7, <1>10, <2>1
  <1>11. ASSUME NEW h \in free, free' = free \ {h}, UNCHANGED table,
               Change(c, [r EXCEPT !.answer = "NO", !.error = TRUE, !.handle = h, !.open = CanPrepare(c),
                                   !.pc = "finalize"])
        PROVE  CallInv'
    <2>1. IsFiniteSet(DOMAIN table')
      BY <1>4, <1>11
    <2>2. CanPrepare(c) \in BOOLEAN
      BY DEF CanPrepare
    <2> QED
      BY <1>7, <1>11, <2>1, <2>2
  <1> QED
    BY <1>8, <1>9, <1>10, <1>11 DEF Execute


\* An insertion.
LEMMA InsertionKeeps ==
  ASSUME CallInv, NEW c \in CallObject, NEW within \in BOOLEAN, NEW n \in 1..2, NEW ids \in [1..n -> Row],
         Insertion(c, ids, within)
  PROVE  CallInv'
  <1> DEFINE r == call[c]
  <1>1. c \in DOMAIN call /\ r.pc = "idle" /\ r.method.kind = "insert"
    BY DEF Insertion, AppMayAsk, At
  <1>2. PICK T : call \in [DOMAIN call -> CallRecord(T)]
    BY DEF CallInv
  <1>3. r \in CallRecord(T) /\ CallIsProper(r) /\ HandleIsApart(c)
    BY <1>1, <1>2 DEF CallInv
  <1>4. IsFiniteSet(DOMAIN table) /\ free \subseteq Handle /\ "none" \notin Handle
    BY CallAssumption DEF CallInv
  <1> DEFINE Becomes(new) ==
               /\ Change(c, new) /\ new \in CallRecord(T) /\ CallIsProper(new)
               /\ free' \subseteq free
               /\ new.handle # "none" => new.handle \notin free' /\ new.handle \in free \cup {r.handle}
  <1>5. ASSUME NEW new, Becomes(new), IsFiniteSet(DOMAIN table') PROVE CallInv'
    <2>1. T \subseteq T /\ free' \subseteq Handle /\ free' \subseteq free \cup {r.handle}
      BY <1>4, <1>5
    <2> QED
      BY <1>1, <1>2, <1>5, <2>1, ChangeKeeps
  <1>6. ASSUME NEW error \in BOOLEAN, Change(c, [r EXCEPT !.answer = "NO", !.error = error, !.inside = within]),
               UNCHANGED <<free, table>>
        PROVE  CallInv'
    <2> DEFINE new == [r EXCEPT !.answer = "NO", !.error = error, !.inside = within]
    <2>1. new \in CallRecord(T)
      BY <1>3 DEF CallRecord
    <2>2. CallIsProper(new)
      BY <1>1, <1>3 DEF CallRecord, CallIsProper, IsOver
    <2>3. new.handle = r.handle
      BY <1>3 DEF CallRecord
    <2>4. Becomes(new)
      BY <1>3, <1>6, <2>1, <2>2, <2>3 DEF HandleIsApart
    <2>5. IsFiniteSet(DOMAIN table')
      BY <1>4, <1>6
    <2> HIDE DEF new, Becomes
    <2> QED
      BY <1>5, <2>4, <2>5
  <1>7. ASSUME NEW says \in {"YES", "NO"}, NEW error \in BOOLEAN, NEW h \in free \cup {"none"},
               Change(c, [r EXCEPT !.answer = says, !.error = error, !.handle = h, !.inside = within,
                                   !.open = TRUE, !.pc = "finalize"]),
               free' = free \ {h}, IsFiniteSet(DOMAIN table')
        PROVE  CallInv'
    <2> DEFINE new == [r EXCEPT !.answer = says, !.error = error, !.handle = h, !.inside = within,
                                !.open = TRUE, !.pc = "finalize"]
    <2>1. new \in CallRecord(T)
      BY <1>3, <1>4 DEF CallRecord
    <2>2. CallIsProper(new)
      BY <1>1, <1>3 DEF CallRecord, CallIsProper, IsOver
    <2>3. new.handle = h
      BY <1>3 DEF CallRecord
    <2>4. Becomes(new)
      BY <1>7, <2>1, <2>2, <2>3
    <2> HIDE DEF new, Becomes
    <2> QED
      BY <1>5, <1>7, <2>4
  <1> HIDE DEF Becomes
  <1>8. CASE Change(c, [r EXCEPT !.answer = "NO", !.inside = within]) /\ UNCHANGED <<free, table>>
    <2>1. /\ [r EXCEPT !.answer = "NO", !.inside = within]
                 = [r EXCEPT !.answer = "NO", !.error = r.error, !.inside = within]
          /\ r.error \in BOOLEAN
      BY <1>3 DEF CallRecord
    <2> QED
      BY <1>6, <1>8, <2>1
  <1>9. CASE /\ Change(c, [r EXCEPT !.answer = "NO", !.error = TRUE, !.inside = within])
             /\ UNCHANGED <<free, table>>
    BY <1>6, <1>9
  <1>10. Len(ids) = n /\ ids \in Seq(Row) /\ DOMAIN ids = 1..n /\ n \in Nat
    OBVIOUS
  <1>11. ASSUME NEW h \in free \cup {"none"}, free' = free \ {h}, table' = Put(ids),
                Change(c, [r EXCEPT !.answer = "YES", !.handle = h, !.inside = within, !.open = TRUE,
                                    !.pc = "finalize"])
         PROVE  CallInv'
    <2>1. IsFiniteSet(DOMAIN table')
      BY <1>4, <1>10, <1>11, PutIsFinite
    <2>2. /\ [r EXCEPT !.answer = "YES", !.handle = h, !.inside = within, !.open = TRUE, !.pc = "finalize"]
                 = [r EXCEPT !.answer = "YES", !.error = r.error, !.handle = h, !.inside = within,
                             !.open = TRUE, !.pc = "finalize"]
          /\ r.error \in BOOLEAN
      BY <1>3 DEF CallRecord
    <2> QED
      BY <1>7, <1>11, <2>1, <2>2
  <1>12. ASSUME NEW h \in free \cup {"none"}, free' = free \ {h}, NEW k \in 0..Len(ids) - 1,
                table' = TableAfterFailure(ids, k, within),
                Change(c, [r EXCEPT !.answer = "NO", !.error = TRUE, !.handle = h, !.inside = within,
                                    !.open = TRUE, !.pc = "finalize"])
         PROVE  CallInv'
    <2>1. k \in Nat /\ DOMAIN SubSeq(ids, 1, k) = 1..k
      BY <1>10, <1>12
    <2>2. IsFiniteSet(DOMAIN Put(SubSeq(ids, 1, k)))
      BY <1>4, <2>1, PutIsFinite
    <2>3. IsFiniteSet(DOMAIN table')
      BY <1>4, <1>12, <2>2 DEF TableAfterFailure
    <2> QED
      BY <1>7, <1>12, <2>3
  <1> QED
    BY <1>8, <1>9, <1>11, <1>12 DEF Insertion

-----------------------------------------------------------------------------
(* The theorems                                                            *)

\* The invariant holds at the start.
LEMMA CallInitProper ==
  ASSUME CallInit PROVE CallInv
  <1>1. IsFiniteSet(DOMAIN table)
    BY CallAssumption DEF CallInit
  <1>2. call = <<>> /\ DOMAIN call = {}
    BY DEF CallInit
  <1>3. call \in [DOMAIN call -> CallRecord({})]
    BY <1>2
  <1> QED
    BY <1>1, <1>2, <1>3 DEF CallInit, CallInv

\* Every step keeps it.
LEMMA CallNextProper ==
  ASSUME CallInv, [CallNext]_callVars PROVE CallInv'
  <1>1. CASE UNCHANGED callVars
    <2>1. call' = call /\ free' = free /\ table' = table
      BY <1>1 DEF callVars
    <2> QED
      BY <2>1 DEF CallInv, HandleIsApart
  <1>2. ASSUME NEW c \in CallObject, NEW loop \in BOOLEAN,
               Ask(c, loop) \/ LazyPrepare(c) \/ Begin(c) \/ Step(c)
        PROVE  CallInv'
    BY <1>2, ReadsKeep
  <1>3. ASSUME NEW c \in CallObject, Finalize(c) \/ ReturnHandle(c) \/ Answer(c) \/ Drop(c)
        PROVE  CallInv'
    BY <1>3, EndsKeep
  <1>4. ASSUME NEW c \in CallObject, InitWithCore(c) PROVE CallInv'
    BY <1>4, NewKeeps
  <1>5. ASSUME NEW c \in CallObject, Gone(c) PROVE CallInv'
    BY <1>5, GoneKeeps
  <1>6. ASSUME NEW c \in CallObject, Execute(c) PROVE CallInv'
    BY <1>6, ExecuteKeeps
  <1>7. ASSUME NEW c \in CallObject, NEW within \in BOOLEAN, NEW n \in 1..2, NEW ids \in [1..n -> Row],
               Insertion(c, ids, within)
        PROVE  CallInv'
    BY <1>7, InsertionKeeps
  <1>8. TRUE \in BOOLEAN
    OBVIOUS
  <1> QED
    BY <1>1, <1>2, <1>3, <1>4, <1>5, <1>6, <1>7, <1>8 DEF CallNext

\* The inductive invariant of chain calls holds in every state.
THEOREM CallInvAlways == CallSpec => []CallInv
  <1>1. CallInit => CallInv
    BY CallInitProper
  <1>2. CallInv /\ [CallNext]_callVars => CallInv'
    BY CallNextProper
  <1> QED
    BY <1>1, <1>2, PTL DEF CallSpec

\* A sequence is a prefix of what it begins.
LEMMA BeginningIsPrefix ==
  ASSUME NEW T, NEW s \in Seq(T), NEW t \in Seq(T)
  PROVE  IsPrefix(s, s \o t)
  <1>1. Len(s) \in Nat /\ Len(t) \in Nat /\ Len(s \o t) = Len(s) + Len(t)
    BY ConcatProperties
  <1>2. SubSeq(s \o t, 1, Len(s)) = SubSeq(s, 1, Len(s))
    <2>1. CASE Len(s) = 0
      BY <1>1, <2>1
    <2>2. CASE Len(s) # 0
      <3>1. 1 \in 1..Len(s) /\ Len(s) \in 1..Len(s)
        BY <1>1, <2>2
      <3> QED
        BY <3>1, SubSeqOfConcat1
    <2> QED
      BY <2>1, <2>2
  <1> QED
    BY <1>1, <1>2 DEF IsPrefix

\* What is got is the beginning of what was meant.
LEMMA CallInvGives == ASSUME CallInv PROVE GivesWhatIsAsked
  <1> SUFFICES ASSUME NEW c \in DOMAIN call
               PROVE  /\ IsPrefix(call[c].got, call[c].meant)
                      /\ call[c].answer = "list" => call[c].got = call[c].meant \/ call[c].failed
    BY DEF GivesWhatIsAsked
  <1>1. PICK T : call \in [DOMAIN call -> CallRecord(T)]
    BY DEF CallInv
  <1> DEFINE r == call[c]
  <1>2. r.got \in Seq(T) /\ r.rest \in Seq(T) /\ r.meant \in Seq(T)
    <2>1. r \in CallRecord(T)
      BY <1>1
    <2> QED
      BY <2>1 DEF CallRecord
  <1>3. CallIsProper(r)
    BY DEF CallInv
  <1> HIDE DEF r
  <1>4. r.meant = r.got \o r.rest \/ (r.meant = <<>> /\ r.got = <<>>)
    BY <1>3 DEF CallIsProper
  <1>5. IsPrefix(r.got, r.meant)
    <2>1. CASE r.meant = r.got \o r.rest
      BY <1>2, <2>1, BeginningIsPrefix
    <2>2. CASE r.meant = <<>> /\ r.got = <<>>
      <3>1. r.meant = r.got \o r.meant
        BY <1>2, <2>2
      <3> QED
        BY <1>2, <3>1, BeginningIsPrefix
    <2> QED
      BY <1>4, <2>1, <2>2
  <1>6. r.answer = "list" => r.got = r.meant \/ r.failed
    <2>1. r.rest = <<>> => r.got \o r.rest = r.got
      BY <1>2
    <2> QED
      BY <1>3, <2>1 DEF CallIsProper, IsOver
  <1> QED
    BY <1>5, <1>6 DEF r

\* Whatever the app chains, a select gives it the beginning of what it asked
\* for, and a list that is all of it unless a step has failed.
THEOREM GivesWhatIsAskedAlways == CallSpec => []GivesWhatIsAsked
  <1>1. CallInv => GivesWhatIsAsked
    BY CallInvGives
  <1> QED
    BY <1>1, CallInvAlways, PTL


\* A handle that the pool may give to somebody else has no statement of a chain
\* call that is still open.
THEOREM PooledHandleIsIdleAlways == CallSpec => []PooledHandleIsIdle
  <1>1. CallInv => PooledHandleIsIdle
    BY CallAssumption DEF CallInv, HandleIsApart, PooledHandleIsIdle
  <1> QED
    BY <1>1, CallInvAlways, PTL

\* A null statement is stepped only for an app that asks once more after the
\* end, or after a step that failed.
THEOREM UndefinedOnlyPastEndAlways == CallSpec => []UndefinedOnlyPastEnd
  <1>1. CallInv => UndefinedOnlyPastEnd
    BY DEF CallInv, CallIsProper, IsOver, UndefinedOnlyPastEnd
  <1> QED
    BY <1>1, CallInvAlways, PTL

\* An object that was idle comes to its end when it is dropped or has written.
LEMMA EndsByWriting ==
  ASSUME CallInv, CallNext, NEW c \in DOMAIN call \cap DOMAIN call',
         call[c].pc = "idle", call'[c].pc = "finalize"
  PROVE  \/ Drop(c)
         \/ Execute(c)
         \/ \E within \in BOOLEAN, n \in 1..2 : \E ids \in [1..n -> Row] : Insertion(c, ids, within)
  <1>1. PICK T : call \in [DOMAIN call -> CallRecord(T)]
    BY DEF CallInv
  <1>2. call[c] \in CallRecord(T)
    BY <1>1
  <1>3. \A d, new : d # c /\ Change(d, new) => call'[c] = call[c]
    BY <1>1 DEF Change
  <1>4. ASSUME NEW loop, Ask(c, loop) PROVE FALSE
    <2>1. call'[c] = [call[c] EXCEPT !.pc = "prepare", !.loop = loop]
      BY <1>4 DEF Ask, Change
    <2>2. call'[c].pc = "prepare"
      BY <1>2, <2>1 DEF CallRecord
    <2> QED
      BY <2>2
  <1>5. ~ LazyPrepare(c) /\ ~ Begin(c) /\ ~ Step(c) /\ ~ Finalize(c) /\ ~ ReturnHandle(c) /\ ~ Answer(c)
    BY DEF LazyPrepare, Begin, Step, Finalize, ReturnHandle, Answer, At
  <1>6. \A d : InitWithCore(d) => call'[c] = call[c]
    BY DEF InitWithCore
  <1>7. \A d : Gone(d) => call'[c] = call[c]
    BY DEF Gone
  <1>8. PICK d \in CallObject :
          \/ \E loop \in BOOLEAN : Ask(d, loop)
          \/ LazyPrepare(d) \/ Begin(d) \/ Step(d) \/ Finalize(d) \/ ReturnHandle(d) \/ Answer(d)
          \/ Drop(d) \/ Execute(d)
          \/ \E within \in BOOLEAN, n \in 1..2 : \E ids \in [1..n -> Row] : Insertion(d, ids, within)
    BY <1>6, <1>7 DEF CallNext
  <1>9. d = c
    <2>1. \A new : Change(d, new) => d = c
      BY <1>3
    <2>2. \A loop : ~ (Ask(d, loop) /\ d # c)
      BY <2>1 DEF Ask
    <2>3. LazyPrepare(d) \/ Begin(d) => d = c
      BY <2>1 DEF LazyPrepare, Prepare, Begin
    <2>4. Step(d) => d = c
      BY <2>1 DEF Step, StepRow
    <2>5. Finalize(d) \/ ReturnHandle(d) \/ Answer(d) \/ Drop(d) => d = c
      BY <2>1 DEF Finalize, ReturnHandle, GiveUp, Answer, Drop
    <2>6. Execute(d) => d = c
      BY <2>1 DEF Execute
    <2>7. \A ids, within : Insertion(d, ids, within) => d = c
      BY <2>1 DEF Insertion
    <2> QED
      BY <1>8, <2>2, <2>3, <2>4, <2>5, <2>6, <2>7
  <1> QED
    BY <1>4, <1>5, <1>8, <1>9


\* What one object writes is what it answers.
LEMMA AnswersTrue ==
  ASSUME CallInv, CallNext, NEW c \in DOMAIN call \cap DOMAIN call',
         call[c].pc = "idle", call'[c].pc = "finalize"
  PROVE  /\ call[c].method.kind \in {"delete", "update"} /\ call'[c].answer = "YES" /\ ~ call'[c].drop
               => \E value \in {"y", "null"} : table' = Written(call[c].method.kind, call[c].asked, value)
         /\ call[c].method.kind = "insert" /\ call'[c].answer = "NO" /\ ~ call'[c].inside
               => table' = table
  <1> DEFINE r == call[c]
             kind == r.method.kind
  <1>1. PICK T : call \in [DOMAIN call -> CallRecord(T)]
    BY DEF CallInv
  <1>2. r \in CallRecord(T) /\ CallIsProper(r) /\ IsFiniteSet(DOMAIN table)
    BY <1>1 DEF CallInv
  <1>3. \A new : Change(c, new) => call'[c] = new
    BY <1>1 DEF Change
  <1>4. CASE Drop(c)
    <2>1. call'[c] = [r EXCEPT !.pc = "finalize", !.drop = TRUE] /\ table' = table
      BY <1>3, <1>4 DEF Drop
    <2>2. call'[c].drop
      BY <1>2, <2>1 DEF CallRecord
    <2> QED
      BY <2>1, <2>2
  <1>5. CASE Execute(c)
    <2>1. kind \in {"delete", "update"}
      BY <1>5 DEF Execute, AppMayAsk
    <2> SUFFICES ASSUME call'[c].answer = "YES"
                 PROVE  \E value \in {"y", "null"} : table' = Written(kind, r.asked, value)
      BY <2>1
    <2>2. \A error : ~ Change(c, [r EXCEPT !.answer = "NO", !.error = error])
      <3> SUFFICES ASSUME NEW error, Change(c, [r EXCEPT !.answer = "NO", !.error = error]) PROVE FALSE
        OBVIOUS
      <3>1. call'[c].answer = "NO"
        BY <1>2, <1>3 DEF CallRecord
      <3> QED
        BY <3>1
    <2>3. ~ Change(c, [r EXCEPT !.answer = "NO"])
      <3> SUFFICES ASSUME Change(c, [r EXCEPT !.answer = "NO"]) PROVE FALSE
        OBVIOUS
      <3>1. call'[c].answer = "NO"
        BY <1>2, <1>3 DEF CallRecord
      <3> QED
        BY <3>1
    <2>4. \A h, open : ~ Change(c, [r EXCEPT !.answer = "NO", !.error = TRUE, !.handle = h, !.open = open,
                                            !.pc = "finalize"])
      <3> SUFFICES ASSUME NEW h, NEW open,
                          Change(c, [r EXCEPT !.answer = "NO", !.error = TRUE, !.handle = h, !.open = open,
                                              !.pc = "finalize"])
                   PROVE  FALSE
        OBVIOUS
      <3>1. call'[c].answer = "NO"
        BY <1>2, <1>3 DEF CallRecord
      <3> QED
        BY <3>1
    <2>5. /\ CanPrepare(c)
          /\ \E value \in IF r.method.shape = "row" THEN {"y", "null"} ELSE {"y"} :
                 table' = Written(kind, r.text, value)
      BY <1>5, <2>2, <2>3, <2>4 DEF Execute
    <2>6. InPlace(r.text)
      BY <2>5 DEF CanPrepare, Accepted
    <2>7. Results(r.text, "rows") = Results(r.asked, "rows")
      <3>1. IsAsked(r.asked) /\ r.text = StatementText(r.asked)
        BY <1>2 DEF CallIsProper
      <3> HIDE DEF r
      <3> QED
        BY <1>2, <2>6, <3>1, ResultsAreAsked
    <2>8. \A value : Written(kind, r.text, value) = Written(kind, r.asked, value)
      BY <2>7 DEF Written
    <2> QED
      BY <2>5, <2>8
  <1>6. ASSUME NEW within \in BOOLEAN, NEW n \in 1..2, NEW ids \in [1..n -> Row], Insertion(c, ids, within)
        PROVE  /\ kind = "insert"
               /\ call'[c].answer = "NO" /\ ~ call'[c].inside => table' = table
    <2>1. kind = "insert"
      BY <1>6 DEF Insertion, AppMayAsk
    <2> SUFFICES ASSUME call'[c].answer = "NO", ~ call'[c].inside PROVE table' = table
      BY <2>1
    <2>2. \A h : ~ Change(c, [r EXCEPT !.answer = "YES", !.handle = h, !.inside = within, !.open = TRUE,
                                       !.pc = "finalize"])
      <3> SUFFICES ASSUME NEW h,
                          Change(c, [r EXCEPT !.answer = "YES", !.handle = h, !.inside = within, !.open = TRUE,
                                              !.pc = "finalize"])
                   PROVE  FALSE
        OBVIOUS
      <3>1. call'[c].answer = "YES"
        BY <1>2, <1>3 DEF CallRecord
      <3> QED
        BY <3>1
    <2>3. \A h : Change(c, [r EXCEPT !.answer = "NO", !.error = TRUE, !.handle = h, !.inside = within,
                                     !.open = TRUE, !.pc = "finalize"])
                 => ~ within
      <3> SUFFICES ASSUME NEW h,
                          Change(c, [r EXCEPT !.answer = "NO", !.error = TRUE, !.handle = h, !.inside = within,
                                              !.open = TRUE, !.pc = "finalize"])
                   PROVE  ~ within
        OBVIOUS
      <3>1. call'[c].inside = within
        BY <1>2, <1>3 DEF CallRecord
      <3> QED
        BY <3>1
    <2> QED
      BY <1>6, <2>2, <2>3 DEF Insertion, TableAfterFailure
  <1>7. \/ Drop(c) \/ Execute(c)
        \/ \E within \in BOOLEAN, n \in 1..2 : \E ids \in [1..n -> Row] : Insertion(c, ids, within)
    BY EndsByWriting
  <1>8. kind = "insert" => kind \notin {"delete", "update"}
    OBVIOUS
  <1>9. CASE \E within \in BOOLEAN, n \in 1..2 : \E ids \in [1..n -> Row] : Insertion(c, ids, within)
    BY <1>6, <1>8, <1>9
  <1> QED
    BY <1>4, <1>5, <1>7, <1>9

\* A delete or an update that returns YES has written what the app asked, and an
\* insertion that returns NO has inserted nothing, if it is not inside a
\* transaction of the app.
THEOREM WritesAsAnsweredAlways == CallSpec => WritesAsAnswered
  <1> DEFINE Answered ==
        \A c \in DOMAIN call \cap DOMAIN call' :
           LET kind == call[c].method.kind
           IN  call[c].pc = "idle" /\ call'[c].pc = "finalize" =>
                   /\ kind \in {"delete", "update"} /\ call'[c].answer = "YES" /\ ~ call'[c].drop
                          => \E value \in {"y", "null"} : table' = Written(kind, call[c].asked, value)
                   /\ kind = "insert" /\ call'[c].answer = "NO" /\ ~ call'[c].inside
                          => table' = table
  <1>1. CallInv /\ [CallNext]_callVars => [Answered]_callVars
    <2> SUFFICES ASSUME CallInv, CallNext PROVE Answered
      OBVIOUS
    <2> QED
      BY AnswersTrue
  <1> QED
    BY <1>1, CallInvAlways, PTL DEF CallSpec, WritesAsAnswered

-----------------------------------------------------------------------------
(* Texts and the places of their characters                                *)

\* What a cursor is opened on.
IsText(s, isCut) == s \in Seq(Char) /\ isCut \in BOOLEAN /\ (isCut => s # <<>> /\ s[Len(s)].size > 1)

\* Offset and TypeAt, in any text.
OffsetIn(s) ==
    CHOOSE o : o = [k \in 1..Len(s)+1 |-> IF k = 1 THEN 0 ELSE o[k - 1] + s[k - 1].size]

KindIn(s, isCut, k) ==
    IF k > Len(s) \/ (isCut /\ k = Len(s) /\ s[k].type # "auxiliary") THEN "none" ELSE s[k].type

LEMMA OffsetIsIn == Offset = OffsetIn(m_input)
  BY DEF Offset, OffsetIn

LEMMA TypeIsIn == \A k : TypeAt(k) = KindIn(m_input, cut, k)
  BY DEF TypeAt, KindIn

\* Characters have bytes, so there is such a function.
LEMMA OffsetsAdd ==
  ASSUME NEW s \in Seq(Char)
  PROVE  /\ OffsetIn(s) \in [1..Len(s)+1 -> Nat]
         /\ OffsetIn(s)[1] = 0
         /\ \A k \in 1..Len(s) : OffsetIn(s)[k + 1] = OffsetIn(s)[k] + s[k].size
  <1> DEFINE N == Len(s)
             step == [k \in 1..N |-> [n \in Nat |-> n + s[k].size]]
             F(o) == [k \in 1..N+1 |-> IF k = 1 THEN 0 ELSE o[k - 1] + s[k - 1].size]
  <1>1. N \in Nat /\ \A k \in 1..N : s[k] \in Char /\ s[k].size \in Nat \ {0}
    BY CharAssumption
  <1>2. step \in [1..N -> [Nat -> Nat]]
    BY <1>1
  <1>3. PICK f \in [0..N -> Nat] : Follows(f, N, 0, step)
    <2> HIDE DEF step, N
    <2> QED
      BY <1>1, <1>2, Recursion
  <1>4. f[0] = 0 /\ \A k \in 1..N : f[k] = f[k - 1] + s[k].size
    <2>1. \A k \in 1..N : k - 1 \in 0..N
      BY <1>1
    <2> QED
      BY <1>3, <2>1 DEF Follows
  <1> DEFINE o == [k \in 1..N+1 |-> f[k - 1]]
  <1>5. o = F(o)
    <2>1. ASSUME NEW k \in 1..N+1 PROVE o[k] = F(o)[k]
      <3>1. CASE k = 1
        BY <3>1, <1>4
      <3>2. CASE k # 1
        <4>1. k - 1 \in 1..N /\ k - 1 \in 1..N+1
          BY <3>2, <1>1
        <4>2. f[k - 1] = f[k - 1 - 1] + s[k - 1].size
          BY <1>4, <4>1
        <4> QED
          BY <3>2, <4>1, <4>2
      <3> QED
        BY <3>1, <3>2
    <2> QED
      BY <2>1
  <1>6. OffsetIn(s) = F(OffsetIn(s))
    <2> HIDE DEF o
    <2> QED
      BY <1>5 DEF OffsetIn
  <1> DEFINE q == OffsetIn(s)
  <1>7. q = F(q)
    BY <1>6
  <1> HIDE DEF q
  <1>8. q[1] = 0 /\ \A k \in 1..N : q[k + 1] = q[k] + s[k].size
    <2>1. \A k \in 1..N+1 : q[k] = IF k = 1 THEN 0 ELSE q[k - 1] + s[k - 1].size
      BY <1>7
    <2>2. 1 \in 1..N+1 /\ \A k \in 1..N : k + 1 \in 1..N+1 /\ k + 1 # 1 /\ k + 1 - 1 = k
      BY <1>1
    <2> QED
      BY <2>1, <2>2
  <1>9. \A k \in 1..N+1 : q[k] \in Nat
    <2> DEFINE S == {k \in Nat : q[k + 1] \in Nat}
    <2>1. 0 \in S
      BY <1>8
    <2>2. ASSUME NEW k \in 1..N, k - 1 \in S PROVE k \in S
      <3>1. q[k - 1 + 1] \in Nat /\ k - 1 + 1 = k
        BY <2>2
      <3> QED
        BY <1>1, <1>8, <3>1
    <2>3. 0..N \subseteq S
      <3> HIDE DEF S, N
      <3> QED
        BY <1>1, <2>1, <2>2, UpTo
    <2>4. \A k \in 1..N+1 : k - 1 \in 0..N /\ k - 1 + 1 = k
      BY <1>1
    <2> QED
      BY <2>3, <2>4
  <1>10. q \in [1..N+1 -> Nat]
    BY <1>7, <1>9
  <1> QED
    BY <1>8, <1>10 DEF q

\* A place further on has a greater offset.
LEMMA OffsetsGrow ==
  ASSUME NEW s \in Seq(Char), NEW x \in 1..Len(s)+1, NEW y \in 1..Len(s)+1, x < y
  PROVE  OffsetIn(s)[x] < OffsetIn(s)[y]
  <1> DEFINE S == {n \in Nat : x + 1 + n =< y => OffsetIn(s)[x] < OffsetIn(s)[x + 1 + n]}
  <1>1. Len(s) \in Nat /\ \A k \in 1..Len(s) : s[k].size \in Nat \ {0}
    BY CharAssumption
  <1>2. \A k \in 1..Len(s) : OffsetIn(s)[k] \in Nat /\ OffsetIn(s)[k + 1] \in Nat
                             /\ OffsetIn(s)[k + 1] > OffsetIn(s)[k]
    <2> SUFFICES ASSUME NEW k \in 1..Len(s)
                 PROVE  OffsetIn(s)[k] \in Nat /\ OffsetIn(s)[k + 1] \in Nat
                        /\ OffsetIn(s)[k + 1] > OffsetIn(s)[k]
      OBVIOUS
    <2>1. k \in 1..Len(s)+1 /\ k + 1 \in 1..Len(s)+1
      BY <1>1
    <2>2. OffsetIn(s)[k] \in Nat /\ OffsetIn(s)[k + 1] \in Nat
      BY <2>1, OffsetsAdd
    <2>3. OffsetIn(s)[k + 1] = OffsetIn(s)[k] + s[k].size /\ s[k].size \in Nat \ {0}
      BY <1>1, OffsetsAdd
    <2> QED
      BY <2>2, <2>3
  <1>3. 0 \in S
    <2>1. x \in 1..Len(s) /\ x + 1 + 0 = x + 1
      BY <1>1
    <2> QED
      BY <1>2, <2>1
  <1>4. ASSUME NEW n \in 1..y-x-1, n - 1 \in S PROVE n \in S
    <2>1. x + 1 + (n - 1) = x + n /\ x + 1 + n = x + n + 1 /\ x + n \in 1..Len(s) /\ n \in Nat /\ x + n =< y
          /\ x \in 1..Len(s)
      <3> DEFINE N == Len(s)
      <3>1. N \in Nat /\ x \in 1..N+1 /\ y \in 1..N+1 /\ n \in 1..y-x-1
        BY <1>1
      <3> HIDE DEF N
      <3>2. x + n \in 1..N /\ n \in Nat /\ x + n =< y /\ x \in 1..N
        BY <3>1
      <3>3. x + 1 + (n - 1) = x + n /\ x + 1 + n = x + n + 1
        BY <3>1
      <3> QED
        BY <3>2, <3>3 DEF N
    <2>2. OffsetIn(s)[x] < OffsetIn(s)[x + n]
      BY <1>4, <2>1
    <2>3. OffsetIn(s)[x + n + 1] > OffsetIn(s)[x + n] /\ OffsetIn(s)[x + n] \in Nat
          /\ OffsetIn(s)[x + n + 1] \in Nat /\ OffsetIn(s)[x] \in Nat
      BY <1>2, <2>1
    <2>4. OffsetIn(s)[x] < OffsetIn(s)[x + 1 + n]
      BY <2>1, <2>2, <2>3
    <2> QED
      BY <2>1, <2>4
  <1>5. y - x - 1 \in Nat /\ y - x - 1 \in 0..y-x-1 /\ x + 1 + (y - x - 1) = y
    BY <1>1
  <1>6. 0..y-x-1 \subseteq S
    <2> HIDE DEF S
    <2> QED
      BY <1>3, <1>4, <1>5, UpTo
  <1>7. y - x - 1 \in S /\ y \in Nat
    <2>1. y - x - 1 \in S
      <3> HIDE DEF S
      <3> QED
        BY <1>5, <1>6
    <2>2. y \in Nat
      BY <1>1
    <2> QED
      BY <2>1, <2>2
  <1>8. x + 1 + (y - x - 1) =< y
    BY <1>5, <1>7
  <1>9. OffsetIn(s)[x] < OffsetIn(s)[x + 1 + (y - x - 1)]
    BY <1>7, <1>8
  <1> QED
    BY <1>5, <1>9

\* There is a first place from k on whose kind is not the given one.
LEMMA BeyondIs ==
  ASSUME IsText(m_input, cut), NEW k \in 1..Len(m_input)+1, NEW type, type # "none"
  PROVE  /\ Beyond(k, type) \in k..Len(m_input)+1
         /\ KindIn(m_input, cut, Beyond(k, type)) # type
         /\ \A x \in k..Beyond(k, type)-1 : KindIn(m_input, cut, x) = type
  <1> DEFINE N == Len(m_input) + 1
             T == {y \in k..N : TypeAt(y) # type}
  <1>1. N \in Nat /\ N \in k..N /\ N > Len(m_input) /\ k \in Nat
    BY DEF IsText
  <1>2. TypeAt(N) = "none"
    BY <1>1 DEF TypeAt
  <1>3. T \in SUBSET Nat /\ T # {}
    BY <1>1, <1>2
  <1>4. PICK y \in T : \A m \in T : y =< m
    <2> HIDE DEF T
    <2> QED
      BY <1>3, LeastNumber
  <1>5. \A x \in k..y-1 : TypeAt(x) = type
    <2>1. \A x \in k..y-1 : x \in k..N /\ ~ (y =< x)
      BY <1>1
    <2> QED
      BY <1>4, <2>1
  <1>6. y \in k..N /\ TypeAt(y) # type
    BY <1>4
  <1> DEFINE b == Beyond(k, type)
  <1>7. b \in k..N /\ TypeAt(b) # type /\ \A x \in k..b-1 : TypeAt(x) = type
    <2> HIDE DEF T
    <2> QED
      BY <1>5, <1>6 DEF Beyond
  <1> HIDE DEF b
  <1>8. KindIn(m_input, cut, b) # type /\ \A x \in k..b-1 : KindIn(m_input, cut, x) = type
    BY <1>7, TypeIsIn
  <1> QED
    BY <1>7, <1>8 DEF b

-----------------------------------------------------------------------------
(* What is sought in a text                                                *)

\* Wanted, as a relation of the places of a text: x..y is a word, a number,
\* or one character or two of what has no spaces between its words.
Sought(s, isCut, x, y) ==
    /\ x \in 1..Len(s) /\ y \in 1..Len(s) /\ x =< y
    /\ \/ /\ KindIn(s, isCut, x) \in {"letter", "digit"}
          /\ \A k \in x..y : KindIn(s, isCut, k) = KindIn(s, isCut, x)
          /\ x = 1 \/ KindIn(s, isCut, x - 1) # KindIn(s, isCut, x)
          /\ KindIn(s, isCut, y + 1) # KindIn(s, isCut, x)
       \/ /\ KindIn(s, isCut, x) \in {"other", "auxiliary"}
          /\ KindIn(s, isCut, y) = KindIn(s, isCut, x)
          /\ y - x =< 1

SpanIn(s, x, y) == <<OffsetIn(s)[x], OffsetIn(s)[y + 1]>>

WantedIn(s, isCut) ==
    {SpanIn(s, p[1], p[2]) : p \in {q \in (1..Len(s)) \X (1..Len(s)) : Sought(s, isCut, q[1], q[2])}}

LEMMA WantedIsIn == Wanted = WantedIn(m_input, cut)
  <1> DEFINE Places == (1..Len(m_input)) \X (1..Len(m_input))
             P == {p \in Places : p[1] =< p[2]}
             Q == {q \in P :
                    \/ TypeAt(q[1]) \in {"letter", "digit"} /\ IsRun(q[1], q[2])
                    \/ /\ TypeAt(q[1]) \in {"other", "auxiliary"}
                       /\ TypeAt(q[2]) = TypeAt(q[1])
                       /\ q[2] - q[1] =< 1}
             R == {q \in Places : Sought(m_input, cut, q[1], q[2])}
  <1>1. \A q \in Places : q \in Q <=> q \in R
    BY TypeIsIn DEF Sought, IsRun
  <1>2. Q = R
    BY <1>1
  <1>3. Wanted = {Span(p[1], p[2]) : p \in Q}
    BY DEF Wanted
  <1>4. WantedIn(m_input, cut) = {SpanIn(m_input, p[1], p[2]) : p \in R}
    BY DEF WantedIn
  <1>5. \A p : Span(p[1], p[2]) = SpanIn(m_input, p[1], p[2])
    BY OffsetIsIn DEF Span, SpanIn
  <1> HIDE DEF Q, R
  <1> QED
    BY <1>2, <1>3, <1>4, <1>5

\* What the cursor has dealt with, when p is the next place of its run: all
\* that begins before p, and the pairs that begin before e.
Passed(p, e, x, y) == x < p \/ (x < e /\ x < y)

\* The tokens are what is sought and passed.
IsSpan(s, t, x, y) == t.start = OffsetIn(s)[x] /\ t.end = OffsetIn(s)[y + 1]

Returned(s, isCut, p, e, ts) ==
    /\ \A k \in DOMAIN ts : \E x, y \in 1..Len(s) :
        Sought(s, isCut, x, y) /\ Passed(p, e, x, y) /\ IsSpan(s, ts[k], x, y)
    /\ \A x, y \in 1..Len(s) :
        Sought(s, isCut, x, y) /\ Passed(p, e, x, y) => \E k \in DOMAIN ts : IsSpan(s, ts[k], x, y)

Token == [start : Nat, end : Nat, lemma : BOOLEAN]

\* Front to back, and the longer one first of two that begin together.
InOrder(ts) ==
    \A k \in 1..Len(ts)-1 :
        \/ ts[k].start < ts[k + 1].start
        \/ ts[k].start = ts[k + 1].start /\ ts[k].end > ts[k + 1].end
        \/ ts[k + 1].lemma /\ ~ ts[k].lemma

\* The run that ends at c, of which the places from p on are left.
IsRest(s, isCut, p, c, lengths) ==
    /\ p \in 1..Len(s)+1 /\ c \in 1..Len(s)+1
    /\ lengths \in Seq(Nat)
    /\ c = p + Len(lengths)
    /\ \A x \in 1..Len(lengths) : lengths[x] = s[p + x - 1].size
    /\ \A x \in p..c-1 : KindIn(s, isCut, x) = KindIn(s, isCut, p)
    /\ lengths # <<>> => KindIn(s, isCut, p) \in {"other", "auxiliary"}
    /\ c = 1 \/ KindIn(s, isCut, c - 1) # KindIn(s, isCut, c)

\* One token more: if it is the only one that is newly passed, the tokens
\* are what is passed.
LEMMA OneMore ==
  ASSUME NEW s \in Seq(Char), NEW isCut \in BOOLEAN, NEW ts \in Seq(Token),
         NEW p \in Nat, NEW e \in Nat, NEW p2 \in Nat, NEW e2 \in Nat,
         Returned(s, isCut, p, e, ts),
         NEW x \in 1..Len(s), NEW y \in 1..Len(s), Sought(s, isCut, x, y),
         Passed(p2, e2, x, y), ~ Passed(p, e, x, y),
         \A a, b \in 1..Len(s) : Passed(p, e, a, b) => Passed(p2, e2, a, b),
         \A a, b \in 1..Len(s) : Sought(s, isCut, a, b) /\ Passed(p2, e2, a, b)
                                 => Passed(p, e, a, b) \/ (a = x /\ b = y),
         NEW t \in Token, IsSpan(s, t, x, y), ~ t.lemma
  PROVE  Append(ts, t) \in Seq(Token) /\ Returned(s, isCut, p2, e2, Append(ts, t))
  <1> DEFINE u == Append(ts, t)
  <1>1. /\ u \in Seq(Token) /\ Len(u) = Len(ts) + 1 /\ Len(ts) \in Nat
        /\ \A k \in 1..Len(ts) : u[k] = ts[k]
        /\ u[Len(ts) + 1] = t
    BY AppendProperties
  <1> HIDE DEF u
  <1>2. DOMAIN u = 1..Len(ts)+1 /\ DOMAIN ts = 1..Len(ts)
    BY <1>1
  <1>3. ASSUME NEW k \in DOMAIN u
        PROVE  \E a, b \in 1..Len(s) :
                  Sought(s, isCut, a, b) /\ Passed(p2, e2, a, b) /\ IsSpan(s, u[k], a, b)
    <2>1. CASE k \in DOMAIN ts
      <3>1. PICK a \in 1..Len(s) : \E b \in 1..Len(s) :
              Sought(s, isCut, a, b) /\ Passed(p, e, a, b) /\ IsSpan(s, ts[k], a, b)
        BY <2>1 DEF Returned
      <3>2. PICK b \in 1..Len(s) :
              Sought(s, isCut, a, b) /\ Passed(p, e, a, b) /\ IsSpan(s, ts[k], a, b)
        BY <3>1
      <3>3. u[k] = ts[k]
        BY <1>1, <1>2, <2>1
      <3> QED
        BY <3>2, <3>3
    <2>2. CASE k = Len(ts) + 1
      BY <2>2, <1>1
    <2> QED
      BY <1>1, <1>2, <2>1, <2>2
  <1>4. ASSUME NEW a \in 1..Len(s), NEW b \in 1..Len(s),
               Sought(s, isCut, a, b), Passed(p2, e2, a, b)
        PROVE  \E k \in DOMAIN u : IsSpan(s, u[k], a, b)
    <2>1. CASE Passed(p, e, a, b)
      <3>1. PICK k \in DOMAIN ts : IsSpan(s, ts[k], a, b)
        BY <1>4, <2>1 DEF Returned
      <3>2. k \in DOMAIN u /\ u[k] = ts[k]
        BY <1>1, <1>2
      <3> QED
        BY <3>1, <3>2
    <2>2. CASE a = x /\ b = y
      <3>1. Len(ts) + 1 \in DOMAIN u
        BY <1>1, <1>2
      <3> QED
        BY <1>1, <2>2, <3>1
    <2> QED
      BY <1>4, <2>1, <2>2
  <1>5. Returned(s, isCut, p2, e2, u)
    BY <1>3, <1>4 DEF Returned
  <1> QED
    BY <1>1, <1>5 DEF u

\* ... and if it begins behind what has been passed, or is the shorter one of
\* the same place, they stay in order.
LEMMA StaysInOrder ==
  ASSUME NEW s \in Seq(Char), NEW isCut \in BOOLEAN, NEW ts \in Seq(Token), InOrder(ts),
         NEW p \in 1..Len(s)+1, NEW e \in p..p+1, Returned(s, isCut, p, e, ts),
         NEW x \in 1..Len(s), NEW y \in 1..Len(s), x =< y, p =< x, e # p => x = p /\ y = p,
         NEW t \in Token, IsSpan(s, t, x, y)
  PROVE  InOrder(Append(ts, t))
  <1> DEFINE u == Append(ts, t)
  <1>1. /\ u \in Seq(Token) /\ Len(u) = Len(ts) + 1 /\ Len(ts) \in Nat
        /\ \A k \in 1..Len(ts) : u[k] = ts[k]
        /\ u[Len(ts) + 1] = t
    BY AppendProperties
  <1> HIDE DEF u
  <1>2. ASSUME NEW k \in 1..Len(u)-1
        PROVE  \/ u[k].start < u[k + 1].start
               \/ u[k].start = u[k + 1].start /\ u[k].end > u[k + 1].end
               \/ u[k + 1].lemma /\ ~ u[k].lemma
    <2>1. CASE k \in 1..Len(ts)-1
      <3>1. k \in 1..Len(ts) /\ k + 1 \in 1..Len(ts)
        BY <1>1, <2>1
      <3>2. u[k] = ts[k] /\ u[k + 1] = ts[k + 1]
        BY <1>1, <3>1
      <3> QED
        BY <2>1, <3>2 DEF InOrder
    <2>2. CASE k = Len(ts)
      <3>1. k \in DOMAIN ts /\ u[k] = ts[k] /\ u[k + 1] = t
        BY <1>1, <1>2, <2>2
      <3>2. PICK a \in 1..Len(s) : \E b \in 1..Len(s) :
              Sought(s, isCut, a, b) /\ Passed(p, e, a, b) /\ IsSpan(s, ts[k], a, b)
        BY <3>1 DEF Returned
      <3>3. PICK b \in 1..Len(s) :
              Sought(s, isCut, a, b) /\ Passed(p, e, a, b) /\ IsSpan(s, ts[k], a, b)
        BY <3>2
      <3>4. x \in 1..Len(s)+1 /\ a \in 1..Len(s)+1 /\ b + 1 \in 1..Len(s)+1 /\ y + 1 \in 1..Len(s)+1
        OBVIOUS
      <3>5. CASE a < x
        <4>1. OffsetIn(s)[a] < OffsetIn(s)[x]
          BY <3>4, <3>5, OffsetsGrow
        <4> QED
          BY <3>1, <3>3, <4>1 DEF IsSpan
      <3>6. CASE a = x /\ x < b /\ y = x
        <4>1. y + 1 < b + 1
          BY <3>6
        <4>2. OffsetIn(s)[y + 1] < OffsetIn(s)[b + 1]
          BY <3>4, <4>1, OffsetsGrow
        <4>3. OffsetIn(s)[y + 1] \in Nat /\ OffsetIn(s)[b + 1] \in Nat
          BY <3>4, OffsetsAdd
        <4> QED
          BY <3>1, <3>3, <3>6, <4>2, <4>3 DEF IsSpan
      <3>7. a < x \/ (a = x /\ x < b /\ y = x)
        BY <3>3 DEF Passed
      <3> QED
        BY <3>5, <3>6, <3>7
    <2> QED
      BY <1>1, <1>2, <2>1, <2>2
  <1>3. InOrder(u)
    BY <1>2 DEF InOrder
  <1> QED
    BY <1>3 DEF u

-----------------------------------------------------------------------------
(* The steps of a cursor                                                   *)

\* Where the next pair may begin: after its pair a character is returned alone.
PairsFrom(p, double) == IF double THEN p ELSE p + 1

\* The inductive invariant of a cursor: it is in the run that ends at
\* m_cursor, at a place p of it, and has returned what it has passed.
TokenInv ==
    /\ IsText(m_input, cut)
    /\ m_lemma \in BOOLEAN /\ m_subTokensDoubleChar \in BOOLEAN /\ done \in BOOLEAN
    /\ tokens \in Seq(Token) /\ InOrder(tokens)
    /\ \E p \in 1..Len(m_input)+1 :
        /\ IsRest(m_input, cut, p, m_cursor, m_subTokensLengthArray)
        /\ Returned(m_input, cut, p, PairsFrom(p, m_subTokensDoubleChar), tokens)
        /\ m_subTokensLengthArray # <<>> => m_subTokensCursor = OffsetIn(m_input)[p]
    /\ m_subTokensDoubleChar \/ Len(m_subTokensLengthArray) > 1
    /\ m_lemma => tokens # <<>> /\ ~ tokens[Len(tokens)].lemma /\ m_subTokensLengthArray = <<>>
    /\ done => /\ ~ m_lemma /\ m_subTokensLengthArray = <<>>
               /\ KindIn(m_input, cut, m_cursor) = "none"

\* The offset behind a character.
LEMMA OffsetBehind ==
  ASSUME NEW s \in Seq(Char), NEW k \in 1..Len(s)
  PROVE  /\ OffsetIn(s)[k] \in Nat /\ OffsetIn(s)[k + 1] \in Nat
         /\ s[k].size \in Nat
         /\ OffsetIn(s)[k + 1] = OffsetIn(s)[k] + s[k].size
  <1>1. k \in 1..Len(s)+1 /\ k + 1 \in 1..Len(s)+1 /\ s[k] \in Char
    OBVIOUS
  <1> QED
    BY <1>1, OffsetsAdd, CharAssumption

\* The kinds of characters.
LEMMA Kinds ==
  ASSUME NEW s \in Seq(Char), NEW isCut \in BOOLEAN, NEW k \in 1..Len(s)+1
  PROVE  /\ KindIn(s, isCut, k) \in {"letter", "digit", "symbol", "other", "auxiliary", "none"}
         /\ KindIn(s, isCut, k) # "none" => k \in 1..Len(s)
  <1>1. k \in 1..Len(s) => s[k] \in Char
    OBVIOUS
  <1> QED
    BY <1>1, CharAssumption DEF KindIn

\* subTokensStep returns one token, and what it leaves is the rest.
LEMMA SubTokensGive ==
  ASSUME NEW s \in Seq(Char), NEW isCut \in BOOLEAN, NEW p, NEW c, NEW lengths, NEW d \in BOOLEAN,
         IsRest(s, isCut, p, c, lengths), lengths # <<>>, d \/ Len(lengths) > 1,
         tokens \in Seq(Token), InOrder(tokens), Returned(s, isCut, p, PairsFrom(p, d), tokens),
         SubTokensStep(lengths, OffsetIn(s)[p], d)
  PROVE  /\ tokens' \in Seq(Token) /\ InOrder(tokens')
         /\ m_subTokensDoubleChar' \in BOOLEAN
         /\ m_subTokensDoubleChar' \/ Len(m_subTokensLengthArray') > 1
         /\ \E q \in 1..Len(s)+1 :
              /\ IsRest(s, isCut, q, c, m_subTokensLengthArray')
              /\ Returned(s, isCut, q, PairsFrom(q, m_subTokensDoubleChar'), tokens')
              /\ m_subTokensLengthArray' # <<>> => m_subTokensCursor' = OffsetIn(s)[q]
  <1> DEFINE start == OffsetIn(s)[p]
             n == Len(lengths)
             N == Len(s)
             e == PairsFrom(p, d)
  <1>1. /\ p \in 1..N+1 /\ c \in 1..N+1 /\ c = p + n /\ lengths \in Seq(Nat) /\ n \in Nat /\ N \in Nat
        /\ \A x \in 1..n : lengths[x] = s[p + x - 1].size
        /\ \A x \in p..c-1 : KindIn(s, isCut, x) = KindIn(s, isCut, p)
        /\ KindIn(s, isCut, p) \in {"other", "auxiliary"}
        /\ c = 1 \/ KindIn(s, isCut, c - 1) # KindIn(s, isCut, c)
    BY DEF IsRest
  <1>2. n >= 1
    BY <1>1
  <1>3. p \in 1..N /\ lengths[1] = s[p].size
    <2>1. 1 \in 1..n /\ p + 1 - 1 = p /\ p \in 1..N
      BY <1>1, <1>2
    <2> QED
      BY <1>1, <2>1
  <1>4. /\ start \in Nat /\ OffsetIn(s)[p + 1] \in Nat /\ lengths[1] \in Nat
        /\ start + lengths[1] = OffsetIn(s)[p + 1]
    BY <1>3, OffsetBehind
  <1>5. KindIn(s, isCut, c) # KindIn(s, isCut, p)
    <2>1. c # 1 /\ c - 1 \in p..c-1
      BY <1>1, <1>2
    <2>2. KindIn(s, isCut, c - 1) = KindIn(s, isCut, p)
      BY <1>1, <2>1
    <2> QED
      BY <1>1, <2>1, <2>2
  <1>6. Sought(s, isCut, p, p)
    BY <1>1, <1>3 DEF Sought
  <1>7. CASE d /\ n > 1
    <2> DEFINE t == [start |-> start, end |-> start + (lengths[1] + lengths[2]), lemma |-> FALSE]
    <2>1. /\ tokens' = Append(tokens, t)
          /\ m_subTokensLengthArray' = lengths
          /\ m_subTokensCursor' = start
          /\ m_subTokensDoubleChar' = FALSE
      BY <1>7 DEF SubTokensStep, Return
    <2>2. p + 1 \in 1..N /\ p + 1 \in p..c-1 /\ lengths[2] = s[p + 1].size
      <3>1. 2 \in 1..n /\ p + 2 - 1 = p + 1 /\ p + 1 \in 1..N /\ p + 1 \in p..c-1
        BY <1>1, <1>7
      <3> QED
        BY <1>1, <3>1
    <2>3. OffsetIn(s)[p + 1 + 1] \in Nat /\ lengths[2] \in Nat
          /\ OffsetIn(s)[p + 1 + 1] = OffsetIn(s)[p + 1] + lengths[2]
      BY <2>2, OffsetBehind
    <2>4. t \in Token /\ IsSpan(s, t, p, p + 1) /\ ~ t.lemma
      <3>1. start + (lengths[1] + lengths[2]) = OffsetIn(s)[p + 1 + 1]
        BY <1>4, <2>3
      <3>2. start + (lengths[1] + lengths[2]) \in Nat
        BY <1>4, <2>3
      <3> QED
        BY <1>4, <3>1, <3>2 DEF Token, IsSpan
    <2>5. Sought(s, isCut, p, p + 1)
      <3>1. KindIn(s, isCut, p + 1) = KindIn(s, isCut, p)
        BY <1>1, <2>2
      <3> QED
        BY <1>1, <1>3, <2>2, <3>1 DEF Sought
    <2> HIDE DEF t, start, n
    <2>6. e = p
      BY <1>7 DEF PairsFrom
    <2>7. InOrder(Append(tokens, t))
      <3>1. p =< p + 1 /\ p =< p /\ p \in p..p+1 /\ Returned(s, isCut, p, p, tokens)
        BY <1>1, <2>6
      <3> QED
        BY <1>3, <2>2, <2>4, <3>1, StaysInOrder
    <2>8. Append(tokens, t) \in Seq(Token) /\ Returned(s, isCut, p, p + 1, Append(tokens, t))
      <3>1. Passed(p, p + 1, p, p + 1) /\ ~ Passed(p, p, p, p + 1)
        BY <1>1 DEF Passed
      <3>2. \A a, b \in 1..N : Passed(p, p, a, b) => Passed(p, p + 1, a, b)
        BY <1>1 DEF Passed
      <3>3. ASSUME NEW a \in 1..N, NEW b \in 1..N, Sought(s, isCut, a, b), Passed(p, p + 1, a, b),
                   ~ Passed(p, p, a, b)
            PROVE  a = p /\ b = p + 1
        <4>1. a = p /\ a < b
          BY <1>1, <3>3 DEF Passed
        <4>2. b - a =< 1
          BY <1>1, <3>3, <4>1 DEF Sought
        <4> QED
          BY <1>1, <4>1, <4>2
      <3>4. p \in Nat /\ p + 1 \in Nat /\ Returned(s, isCut, p, p, tokens)
        BY <1>1, <2>6
      <3>5. \A a, b \in 1..N : Sought(s, isCut, a, b) /\ Passed(p, p + 1, a, b)
                               => Passed(p, p, a, b) \/ (a = p /\ b = p + 1)
        BY <3>3
      <3> QED
        BY <1>3, <2>2, <2>4, <2>5, <3>1, <3>2, <3>4, <3>5, OneMore
    <2>9. PairsFrom(p, m_subTokensDoubleChar') = p + 1
      BY <2>1 DEF PairsFrom
    <2> QED
      BY <1>1, <1>7, <2>1, <2>7, <2>8, <2>9 DEF n, start
  <1> DEFINE t == [start |-> start, end |-> start + lengths[1], lemma |-> FALSE]
  <1>8. CASE ~ (d /\ n > 1)
    <2>1. /\ tokens' = Append(tokens, t)
          /\ m_subTokensLengthArray' = IF d THEN <<>> ELSE Tail(lengths)
          /\ m_subTokensCursor' = IF d THEN start ELSE start + lengths[1]
          /\ m_subTokensDoubleChar' = TRUE
      BY <1>8 DEF SubTokensStep, Return
    <2>2. t \in Token /\ IsSpan(s, t, p, p) /\ ~ t.lemma
      BY <1>4 DEF Token, IsSpan
    <2>3. p + 1 \in 1..N+1
      BY <1>3
    <2> HIDE DEF t
    <2> HIDE DEF e
    <2>3a. e \in p..p+1 /\ (~ d => e = p + 1) /\ (d => e = p) /\ Returned(s, isCut, p, e, tokens)
      BY <1>1 DEF PairsFrom, e
    <2>4. InOrder(Append(tokens, t))
      <3>1. p =< p /\ (e # p => p = p /\ p = p) /\ p \in 1..N+1
        BY <1>1
      <3> QED
        BY <1>3, <2>2, <2>3a, <3>1, StaysInOrder
    <2>5. Append(tokens, t) \in Seq(Token) /\ Returned(s, isCut, p + 1, p + 1, Append(tokens, t))
      <3>1. Passed(p + 1, p + 1, p, p) /\ ~ Passed(p, e, p, p)
        BY <1>1 DEF Passed
      <3>2. \A a, b \in 1..N : Passed(p, e, a, b) => Passed(p + 1, p + 1, a, b)
        BY <1>1, <2>3a DEF Passed
      <3>3. ASSUME NEW a \in 1..N, NEW b \in 1..N, Sought(s, isCut, a, b), Passed(p + 1, p + 1, a, b),
                   ~ Passed(p, e, a, b)
            PROVE  a = p /\ b = p
        <4>1. a = p
          BY <1>1, <3>3 DEF Passed
        <4>2. b = p \/ b = p + 1
          BY <1>1, <3>3, <4>1 DEF Sought
        <4>3. CASE b = p + 1
          <5>1. d
            BY <1>1, <2>3a, <3>3, <4>1, <4>3 DEF Passed
          <5>2. n = 1
            <6>1. ~ (n > 1)
              BY <1>8, <5>1
            <6> HIDE DEF n
            <6> QED
              BY <1>1, <1>2, <6>1
          <5>3. b = c
            BY <1>1, <4>3, <5>2
          <5>4. KindIn(s, isCut, b) = KindIn(s, isCut, p)
            BY <1>1, <3>3, <4>1, <4>3 DEF Sought
          <5> QED
            BY <1>5, <5>3, <5>4
        <4> QED
          BY <4>1, <4>2, <4>3
      <3>4. p \in Nat /\ p + 1 \in Nat /\ e \in Nat
        BY <1>1, <2>3a
      <3>5. \A a, b \in 1..N : Sought(s, isCut, a, b) /\ Passed(p + 1, p + 1, a, b)
                               => Passed(p, e, a, b) \/ (a = p /\ b = p)
        BY <3>3
      <3> QED
        BY <1>3, <1>6, <2>2, <2>3, <2>3a, <3>1, <3>2, <3>4, <3>5, OneMore
    <2>5a. PairsFrom(p + 1, m_subTokensDoubleChar') = p + 1
      BY <2>1 DEF PairsFrom
    <2>6. CASE d
      <3>0. ~ (n > 1) /\ m_subTokensLengthArray' = <<>>
        BY <1>8, <2>1, <2>6
      <3>1. n = 1 /\ c = p + 1 /\ m_subTokensLengthArray' = <<>>
        <4> HIDE DEF n
        <4> QED
          BY <1>1, <1>2, <3>0
      <3>2. IsRest(s, isCut, p + 1, c, <<>>)
        BY <1>1, <2>3, <3>1 DEF IsRest
      <3> QED
        BY <2>1, <2>3, <2>4, <2>5, <2>5a, <3>1, <3>2
    <2>7. CASE ~ d
      <3> DEFINE rest == Tail(lengths)
      <3>1. rest \in Seq(Nat) /\ Len(rest) = n - 1 /\ \A x \in 1..Len(rest) : rest[x] = lengths[x + 1]
        BY <1>1, HeadTailProperties
      <3> HIDE DEF rest
      <3>2. n > 1
        BY <2>7
      <3>3. p + 1 \in p..c-1
        BY <1>1, <3>2
      <3>4. KindIn(s, isCut, p + 1) = KindIn(s, isCut, p)
        BY <1>1, <3>3
      <3>5. \A x \in p+1..c-1 : KindIn(s, isCut, x) = KindIn(s, isCut, p + 1)
        <4>1. \A x \in p+1..c-1 : x \in p..c-1
          BY <1>1
        <4> QED
          BY <1>1, <3>4, <4>1
      <3>6. \A x \in 1..Len(rest) : rest[x] = s[p + 1 + x - 1].size
        <4> SUFFICES ASSUME NEW x \in 1..Len(rest) PROVE rest[x] = s[p + 1 + x - 1].size
          OBVIOUS
        <4>1. x + 1 \in 1..n /\ p + (x + 1) - 1 = p + 1 + x - 1
          BY <1>1, <3>1
        <4> QED
          BY <1>1, <3>1, <4>1
      <3>7. IsRest(s, isCut, p + 1, c, rest)
        <4>1. c = p + 1 + Len(rest)
          BY <1>1, <3>1
        <4> QED
          BY <1>1, <2>3, <3>1, <3>4, <3>5, <3>6, <4>1 DEF IsRest
      <3>8. m_subTokensLengthArray' = rest /\ m_subTokensCursor' = OffsetIn(s)[p + 1]
        BY <1>4, <2>1, <2>7 DEF rest
      <3> QED
        BY <2>1, <2>3, <2>4, <2>5, <2>5a, <3>7, <3>8
    <2> QED
      BY <2>6, <2>7
  <1> QED
    BY <1>7, <1>8

\* The cursor passes what is nothing that is sought.
LEMMA PassesSymbols ==
  ASSUME NEW s \in Seq(Char), NEW isCut \in BOOLEAN, NEW ts,
         NEW p \in 1..Len(s)+1, NEW q \in 1..Len(s)+1, p =< q, Returned(s, isCut, p, p, ts),
         \A k \in p..q-1 : KindIn(s, isCut, k) \in {"symbol", "none"}
  PROVE  Returned(s, isCut, q, q, ts)
  <1>1. \A x, y \in 1..Len(s) : Passed(p, p, x, y) => Passed(q, q, x, y)
    BY DEF Passed
  <1>2. ASSUME NEW x \in 1..Len(s), NEW y \in 1..Len(s), Sought(s, isCut, x, y),
               Passed(q, q, x, y)
        PROVE  Passed(p, p, x, y)
    <2>1. x < q
      BY <1>2 DEF Passed
    <2>2. KindIn(s, isCut, x) \notin {"symbol", "none"}
      BY <1>2 DEF Sought
    <2>3. ~ (x \in p..q-1)
      BY <2>2
    <2>4. x < p
      BY <2>1, <2>3
    <2> QED
      BY <2>4 DEF Passed
  <1> QED
    BY <1>1, <1>2 DEF Returned

\* A cursor that is opened.
LEMMA Opened ==
  ASSUME NEW s, NEW isCut, IsText(s, isCut), Open(s, isCut)
  PROVE  TokenInv'
  <1>1. /\ m_input' = s /\ cut' = isCut /\ m_cursor' = 1 /\ m_lemma' = FALSE
        /\ m_subTokensLengthArray' = <<>> /\ m_subTokensDoubleChar' = TRUE
        /\ tokens' = <<>> /\ done' = FALSE
    BY DEF Open
  <1>2. Len(s) \in Nat /\ 1 \in 1..Len(s)+1
    BY DEF IsText
  <1>3. IsRest(s, isCut, 1, 1, <<>>)
    BY <1>2 DEF IsRest
  <1>4. Returned(s, isCut, 1, 1, <<>>)
    <2>1. \A x, y \in 1..Len(s) : ~ Passed(1, 1, x, y)
      BY DEF Passed
    <2>2. DOMAIN (<<>>) = {}
      OBVIOUS
    <2> QED
      BY <2>1, <2>2 DEF Returned
  <1>5. <<>> \in Seq(Token) /\ InOrder(<<>>)
    BY DEF InOrder
  <1> QED
    BY <1>1, <1>2, <1>3, <1>4, <1>5 DEF TokenInv, PairsFrom

LEMMA TokenInvInit == TokenizerInit => TokenInv
  <1> SUFFICES ASSUME TokenizerInit PROVE TokenInv
    OBVIOUS
  <1>1. PICK n \in 0..MaxInput : m_input \in [1..n -> Char]
    BY DEF TokenizerInit
  <1>2. n \in Nat
    BY <1>1, CharAssumption
  <1>3. m_input \in Seq(Char)
    BY <1>1, <1>2
  <1>4. IsText(m_input, cut)
    BY <1>3 DEF TokenizerInit, IsText
  <1>5. Len(m_input) \in Nat /\ 1 \in 1..Len(m_input)+1
    BY <1>3
  <1>6. IsRest(m_input, cut, 1, 1, <<>>)
    BY <1>5 DEF IsRest
  <1>7. Returned(m_input, cut, 1, 1, <<>>)
    <2>1. \A x, y \in 1..Len(m_input) : ~ Passed(1, 1, x, y)
      BY DEF Passed
    <2>2. DOMAIN (<<>>) = {}
      OBVIOUS
    <2> QED
      BY <2>1, <2>2 DEF Returned
  <1>8. <<>> \in Seq(Token) /\ InOrder(<<>>)
    BY DEF InOrder
  <1> QED
    BY <1>4, <1>5, <1>6, <1>7, <1>8 DEF TokenInv, TokenizerInit, PairsFrom

\* The lemma has the place of its word.
LEMMA StepLemmaKeeps == ASSUME TokenInv, StepLemma PROVE TokenInv'
  <1> DEFINE last == tokens[Len(tokens)]
             t == [last EXCEPT !.lemma = TRUE]
             u == Append(tokens, t)
  <1>1. /\ tokens' = u /\ m_lemma' = FALSE
        /\ UNCHANGED <<m_input, cut, m_cursor, m_subTokensLengthArray,
                       m_subTokensCursor, m_subTokensDoubleChar, done>>
    BY DEF StepLemma
  <1>2. /\ m_lemma /\ tokens \in Seq(Token) /\ tokens # <<>> /\ ~ last.lemma /\ InOrder(tokens)
        /\ ~ done
    BY DEF TokenInv, StepLemma
  <1>3. last \in Token /\ Len(tokens) \in DOMAIN tokens /\ Len(tokens) \in Nat
        /\ DOMAIN tokens = 1..Len(tokens)
    BY <1>2
  <1>4. t \in Token /\ t.start = last.start /\ t.end = last.end /\ t.lemma
    BY <1>3 DEF Token
  <1> HIDE DEF t
  <1>5. /\ u \in Seq(Token) /\ Len(u) = Len(tokens) + 1
        /\ \A k \in 1..Len(tokens) : u[k] = tokens[k]
        /\ u[Len(tokens) + 1] = t
    BY <1>2, <1>4, AppendProperties
  <1> HIDE DEF u
  <1>6. DOMAIN u = 1..Len(tokens)+1
    BY <1>5
  <1>6a. Len(u) - 1 = Len(tokens) /\ Len(tokens) \in Int
    BY <1>3, <1>5
  <1>7. InOrder(u)
    <2> SUFFICES ASSUME NEW k \in 1..Len(u)-1
                 PROVE  \/ u[k].start < u[k + 1].start
                        \/ u[k].start = u[k + 1].start /\ u[k].end > u[k + 1].end
                        \/ u[k + 1].lemma /\ ~ u[k].lemma
      BY DEF InOrder
    <2>1. CASE k \in 1..Len(tokens)-1
      <3>1. k \in 1..Len(tokens) /\ k + 1 \in 1..Len(tokens)
        BY <1>3, <2>1
      <3>2. u[k] = tokens[k] /\ u[k + 1] = tokens[k + 1]
        BY <1>5, <3>1
      <3> QED
        BY <1>2, <2>1, <3>2 DEF InOrder
    <2>2. CASE k = Len(tokens)
      <3>1. u[k] = last /\ u[k + 1] = t
        BY <1>3, <1>5, <2>2
      <3>2. u[k + 1].lemma
        BY <1>4, <3>1, Zenon
      <3>3. ~ u[k].lemma
        BY <1>2, <3>1, Zenon
      <3> QED
        BY <3>2, <3>3, Zenon
    <2>3. k \in 1..Len(tokens)-1 \/ k = Len(tokens)
      BY <1>6a
    <2> QED
      BY <2>1, <2>2, <2>3
  <1>8. ASSUME NEW p \in 1..Len(m_input)+1, Returned(m_input, cut, p, PairsFrom(p, m_subTokensDoubleChar), tokens)
        PROVE  Returned(m_input, cut, p, PairsFrom(p, m_subTokensDoubleChar), u)
    <2> DEFINE Is(x, y) == Sought(m_input, cut, x, y) /\ Passed(p, PairsFrom(p, m_subTokensDoubleChar), x, y)
    <2>1. ASSUME NEW k \in DOMAIN u
          PROVE  \E x, y \in 1..Len(m_input) : Is(x, y) /\ IsSpan(m_input, u[k], x, y)
      <3> DEFINE m == IF k = Len(tokens) + 1 THEN Len(tokens) ELSE k
      <3>1. m \in DOMAIN tokens /\ u[k].start = tokens[m].start /\ u[k].end = tokens[m].end
        BY <1>3, <1>4, <1>5, <1>6
      <3> HIDE DEF m
      <3>2. \E x, y \in 1..Len(m_input) : Is(x, y) /\ IsSpan(m_input, tokens[m], x, y)
        BY <1>8, <3>1 DEF Returned
      <3> QED
        BY <3>1, <3>2 DEF IsSpan
    <2>2. ASSUME NEW x \in 1..Len(m_input), NEW y \in 1..Len(m_input), Is(x, y)
          PROVE  \E k \in DOMAIN u : IsSpan(m_input, u[k], x, y)
      <3>1. PICK k \in DOMAIN tokens : IsSpan(m_input, tokens[k], x, y)
        BY <1>8, <2>2 DEF Returned
      <3>2. k \in DOMAIN u /\ u[k] = tokens[k]
        BY <1>3, <1>5, <1>6
      <3> QED
        BY <3>1, <3>2
    <2> QED
      BY <2>1, <2>2 DEF Returned
  <1> QED
    BY <1>1, <1>2, <1>5, <1>7, <1>8 DEF TokenInv

LEMMA StepSubTokensKeeps == ASSUME TokenInv, StepSubTokens PROVE TokenInv'
  <1>1. /\ ~ m_lemma /\ m_subTokensLengthArray # <<>>
        /\ SubTokensStep(m_subTokensLengthArray, m_subTokensCursor, m_subTokensDoubleChar)
        /\ UNCHANGED <<m_input, cut, m_cursor, m_lemma, done>>
    BY DEF StepSubTokens
  <1>2. /\ IsText(m_input, cut) /\ m_input \in Seq(Char) /\ cut \in BOOLEAN
        /\ m_subTokensDoubleChar \in BOOLEAN
        /\ m_subTokensDoubleChar \/ Len(m_subTokensLengthArray) > 1
        /\ tokens \in Seq(Token) /\ InOrder(tokens) /\ done \in BOOLEAN /\ ~ done
    BY <1>1 DEF TokenInv, IsText
  <1>3. PICK p \in 1..Len(m_input)+1 :
        /\ IsRest(m_input, cut, p, m_cursor, m_subTokensLengthArray)
        /\ Returned(m_input, cut, p, PairsFrom(p, m_subTokensDoubleChar), tokens)
        /\ m_subTokensLengthArray # <<>> => m_subTokensCursor = OffsetIn(m_input)[p]
    BY DEF TokenInv
  <1>4. SubTokensStep(m_subTokensLengthArray, OffsetIn(m_input)[p], m_subTokensDoubleChar)
    BY <1>1, <1>3
  <1>5. /\ tokens' \in Seq(Token) /\ InOrder(tokens')
        /\ m_subTokensDoubleChar' \in BOOLEAN
        /\ m_subTokensDoubleChar' \/ Len(m_subTokensLengthArray') > 1
        /\ \E q \in 1..Len(m_input)+1 :
             /\ IsRest(m_input, cut, q, m_cursor, m_subTokensLengthArray')
             /\ Returned(m_input, cut, q, PairsFrom(q, m_subTokensDoubleChar'), tokens')
             /\ m_subTokensLengthArray' # <<>> => m_subTokensCursor' = OffsetIn(m_input)[q]
    BY <1>1, <1>2, <1>3, <1>4, SubTokensGive
  <1> QED
    BY <1>1, <1>2, <1>5 DEF TokenInv

\* Where the next run begins: behind symbols.
LEMMA FirstIs ==
  ASSUME TokenInv, m_subTokensLengthArray = <<>>
  PROVE  /\ First \in m_cursor..Len(m_input)+1 /\ First \in 1..Len(m_input)+1
         /\ m_cursor \in 1..Len(m_input)+1
         /\ KindIn(m_input, cut, First) # "symbol"
         /\ \A x \in m_cursor..First-1 : KindIn(m_input, cut, x) = "symbol"
         /\ First = 1 \/ KindIn(m_input, cut, First - 1) # KindIn(m_input, cut, First)
         /\ Returned(m_input, cut, First, First, tokens)
         /\ m_subTokensDoubleChar = TRUE
  <1>1. /\ IsText(m_input, cut) /\ m_input \in Seq(Char) /\ cut \in BOOLEAN /\ Len(m_input) \in Nat
        /\ m_subTokensDoubleChar = TRUE
    BY DEF TokenInv, IsText
  <1>2. PICK p \in 1..Len(m_input)+1 :
        /\ IsRest(m_input, cut, p, m_cursor, m_subTokensLengthArray)
        /\ Returned(m_input, cut, p, PairsFrom(p, m_subTokensDoubleChar), tokens)
    BY DEF TokenInv
  <1>3. p = m_cursor /\ m_cursor \in 1..Len(m_input)+1
        /\ (m_cursor = 1 \/ KindIn(m_input, cut, m_cursor - 1) # KindIn(m_input, cut, m_cursor))
    BY <1>2 DEF IsRest
  <1> DEFINE F == First
  <1>4. /\ F \in m_cursor..Len(m_input)+1
        /\ KindIn(m_input, cut, F) # "symbol"
        /\ \A x \in m_cursor..F-1 : KindIn(m_input, cut, x) = "symbol"
    BY <1>1, <1>3, BeyondIs DEF First
  <1> HIDE DEF F
  <1>5. F \in 1..Len(m_input)+1
    BY <1>3, <1>4
  <1>6. F = 1 \/ KindIn(m_input, cut, F - 1) # KindIn(m_input, cut, F)
    <2>1. CASE F = m_cursor
      BY <1>3, <2>1
    <2>2. CASE F # m_cursor
      <3>1. F - 1 \in m_cursor..F-1
        BY <1>1, <1>3, <1>4, <2>2
      <3> QED
        BY <1>4, <3>1
    <2> QED
      BY <2>1, <2>2
  <1>7. Returned(m_input, cut, F, F, tokens)
    <2>1. Returned(m_input, cut, m_cursor, m_cursor, tokens)
      BY <1>1, <1>2, <1>3 DEF PairsFrom
    <2>2. m_cursor =< F /\ \A x \in m_cursor..F-1 : KindIn(m_input, cut, x) \in {"symbol", "none"}
      BY <1>3, <1>4
    <2> QED
      BY <1>1, <1>3, <1>5, <2>1, <2>2, PassesSymbols
  <1> QED
    BY <1>1, <1>3, <1>4, <1>5, <1>6, <1>7 DEF F

LEMMA StepDoneKeeps == ASSUME TokenInv, StepDone PROVE TokenInv'
  <1>1. /\ ~ m_lemma /\ m_subTokensLengthArray = <<>> /\ TypeAt(First) = "none"
        /\ m_cursor' = First /\ done' = TRUE
        /\ UNCHANGED <<m_input, cut, m_lemma, m_subTokensLengthArray,
                       m_subTokensCursor, m_subTokensDoubleChar, tokens>>
    BY DEF StepDone
  <1> DEFINE F == First
  <1>2. /\ F \in 1..Len(m_input)+1
        /\ F = 1 \/ KindIn(m_input, cut, F - 1) # KindIn(m_input, cut, F)
        /\ Returned(m_input, cut, F, PairsFrom(F, m_subTokensDoubleChar), tokens)
        /\ KindIn(m_input, cut, F) = "none"
    BY <1>1, FirstIs, TypeIsIn DEF PairsFrom
  <1>3. m_cursor' = F
    BY <1>1
  <1> HIDE DEF F
  <1>4. IsRest(m_input, cut, F, F, <<>>)
    BY <1>2 DEF IsRest
  <1> QED
    BY <1>1, <1>2, <1>3, <1>4 DEF TokenInv

LEMMA StepRunKeeps == ASSUME TokenInv, StepRun PROVE TokenInv'
  <1> DEFINE F == First
             type == TypeAt(F)
             next == Beyond(F, type)
             N == Len(m_input)
  <1>1. /\ ~ m_lemma /\ m_subTokensLengthArray = <<>> /\ type # "none"
        /\ m_cursor' = next
        /\ UNCHANGED <<m_input, cut, done>>
    BY DEF StepRun
  <1>2. IF type \in {"letter", "digit"}
        THEN /\ Return(Offset[F], Offset[next] - Offset[F])
             /\ m_lemma' \in {FALSE, type = "letter"}
             /\ UNCHANGED <<m_subTokensLengthArray, m_subTokensCursor, m_subTokensDoubleChar>>
        ELSE /\ SubTokensStep([x \in 1..next-F |-> m_input[F + x - 1].size], Offset[F], TRUE)
             /\ UNCHANGED m_lemma
    BY DEF StepRun
  <1>3. /\ F \in m_cursor..N+1 /\ F \in 1..N+1
        /\ m_cursor \in 1..N+1
        /\ KindIn(m_input, cut, F) # "symbol"
        /\ \A x \in m_cursor..F-1 : KindIn(m_input, cut, x) = "symbol"
        /\ F = 1 \/ KindIn(m_input, cut, F - 1) # KindIn(m_input, cut, F)
        /\ Returned(m_input, cut, F, F, tokens)
        /\ m_subTokensDoubleChar = TRUE
    BY <1>1, FirstIs
  <1>4. /\ IsText(m_input, cut) /\ m_input \in Seq(Char) /\ cut \in BOOLEAN /\ N \in Nat
        /\ tokens \in Seq(Token) /\ InOrder(tokens) /\ done \in BOOLEAN /\ m_lemma \in BOOLEAN
    BY DEF TokenInv, IsText
  <1>5. type = KindIn(m_input, cut, F)
    BY TypeIsIn
  <1> HIDE DEF type, F
  <1>6. /\ next \in F..N+1
        /\ KindIn(m_input, cut, next) # type
        /\ \A x \in F..next-1 : KindIn(m_input, cut, x) = type
    BY <1>1, <1>3, <1>4, BeyondIs
  <1> HIDE DEF next
  <1>7. F \in 1..N /\ type \in {"letter", "digit", "other", "auxiliary"}
    BY <1>1, <1>3, <1>4, <1>5, Kinds
  <1>8. F < next /\ next - 1 \in 1..N /\ next - 1 \in F..next-1 /\ next \in 1..N+1
    <2>1. F # next
      BY <1>5, <1>6
    <2> QED
      BY <1>4, <1>6, <1>7, <2>1
  <1>9. KindIn(m_input, cut, next - 1) # KindIn(m_input, cut, next)
    BY <1>6, <1>8
  <1>10. ~ done
    <2> SUFFICES ASSUME done PROVE FALSE
      OBVIOUS
    <2>1. KindIn(m_input, cut, m_cursor) = "none"
      BY DEF TokenInv
    <2>2. ~ (m_cursor \in m_cursor..F-1)
      BY <1>3, <2>1
    <2>3. F = m_cursor
      BY <1>3, <2>2
    <2> QED
      BY <1>1, <1>5, <2>1, <2>3
  <1>11. CASE type \in {"letter", "digit"}
    <2>1. Offset[F] = OffsetIn(m_input)[F] /\ Offset[next] = OffsetIn(m_input)[next]
      BY OffsetIsIn
    <2>2. /\ OffsetIn(m_input)[F] \in Nat /\ OffsetIn(m_input)[next] \in Nat
      BY <1>3, <1>4, <1>8, OffsetsAdd
    <2> DEFINE t == [start |-> Offset[F], end |-> Offset[F] + (Offset[next] - Offset[F]), lemma |-> FALSE]
               y == next - 1
    <2>3. /\ tokens' = Append(tokens, t) /\ m_lemma' \in BOOLEAN
          /\ UNCHANGED <<m_subTokensLengthArray, m_subTokensCursor, m_subTokensDoubleChar>>
      BY <1>2, <1>11 DEF Return
    <2>4. t \in Token /\ ~ t.lemma /\ t.start = OffsetIn(m_input)[F] /\ t.end = OffsetIn(m_input)[next]
      BY <2>1, <2>2 DEF Token
    <2> HIDE DEF t
    <2>5. y + 1 = next /\ y \in 1..N /\ y \in F..next-1
      BY <1>8
    <2>6. IsSpan(m_input, t, F, y)
      BY <2>4, <2>5 DEF IsSpan
    <2>7. Sought(m_input, cut, F, y)
      <3>1. \A k \in F..y : KindIn(m_input, cut, k) = KindIn(m_input, cut, F)
        BY <1>5, <1>6
      <3>2. KindIn(m_input, cut, y + 1) # KindIn(m_input, cut, F)
        BY <1>5, <1>6, <2>5
      <3>3. F =< y
        BY <1>7, <2>5
      <3> HIDE DEF y
      <3> QED
        BY <1>3, <1>5, <1>7, <1>11, <2>5, <3>1, <3>2, <3>3 DEF Sought
    <2> HIDE DEF y
    <2>8. InOrder(Append(tokens, t))
      <3>1. F =< y /\ F =< F /\ F \in F..F+1 /\ (F # F => F = F /\ y = F)
        BY <1>7, <2>5
      <3> QED
        BY <1>3, <1>4, <1>7, <2>4, <2>5, <2>6, <3>1, StaysInOrder
    <2>9. Append(tokens, t) \in Seq(Token) /\ Returned(m_input, cut, next, next, Append(tokens, t))
      <3>1. Passed(next, next, F, y) /\ ~ Passed(F, F, F, y)
        BY <1>7, <1>8 DEF Passed
      <3>2. \A a, b \in 1..N : Passed(F, F, a, b) => Passed(next, next, a, b)
        BY <1>7, <1>8 DEF Passed
      <3>3. ASSUME NEW a \in 1..N, NEW b \in 1..N, Sought(m_input, cut, a, b), Passed(next, next, a, b),
                   ~ Passed(F, F, a, b)
            PROVE  a = F /\ b = y
        <4>1. a \in F..next-1 /\ a =< b
          BY <1>4, <1>7, <1>8, <3>3 DEF Passed, Sought
        <4>2. KindIn(m_input, cut, a) = type
          BY <1>6, <4>1
        <4>3. /\ \A k \in a..b : KindIn(m_input, cut, k) = type
              /\ a = 1 \/ KindIn(m_input, cut, a - 1) # type
              /\ KindIn(m_input, cut, b + 1) # type
          BY <1>11, <3>3, <4>2 DEF Sought
        <4>4. a = F
          <5>1. CASE a # F
            <6>1. a # 1 /\ a - 1 \in F..next-1
              BY <1>7, <1>8, <4>1, <5>1
            <6> QED
              BY <1>6, <4>3, <6>1
          <5> QED
            BY <5>1
        <4>5. ~ (next \in a..b)
          BY <1>6, <4>3
        <4>6. ~ (b + 1 \in F..next-1)
          BY <1>6, <4>3
        <4>7. b = y
          BY <1>7, <1>8, <2>5, <4>1, <4>4, <4>5, <4>6
        <4> QED
          BY <4>4, <4>7
      <3>4. F \in Nat /\ next \in Nat
        BY <1>7, <1>8
      <3>5. \A a, b \in 1..N : Sought(m_input, cut, a, b) /\ Passed(next, next, a, b)
                               => Passed(F, F, a, b) \/ (a = F /\ b = y)
        BY <3>3
      <3>6. /\ m_input \in Seq(Char) /\ cut \in BOOLEAN /\ tokens \in Seq(Token)
            /\ Returned(m_input, cut, F, F, tokens) /\ F \in 1..N /\ y \in 1..N
            /\ t \in Token /\ ~ t.lemma
        BY <1>3, <1>4, <1>7, <2>4, <2>5
      <3> QED
        BY <2>6, <2>7, <3>1, <3>2, <3>4, <3>5, <3>6, OneMore
    <2>10. IsRest(m_input, cut, next, next, <<>>)
      BY <1>8, <1>9 DEF IsRest
    <2>11. m_lemma' => tokens' # <<>> /\ ~ tokens'[Len(tokens')].lemma
      <3>1. /\ Append(tokens, t) # <<>>
            /\ Len(Append(tokens, t)) = Len(tokens) + 1
            /\ Append(tokens, t)[Len(tokens) + 1] = t
        BY <1>4, <2>4, AppendProperties
      <3>2. tokens'[Len(tokens')] = t
        BY <2>3, <3>1
      <3>3. ~ tokens'[Len(tokens')].lemma
        BY <2>4, <3>2, Zenon
      <3> QED
        BY <2>3, <3>1, <3>3
    <2>12. m_subTokensDoubleChar' = TRUE /\ m_subTokensLengthArray' = <<>>
      BY <1>1, <1>3, <2>3
    <2>13. PairsFrom(next, TRUE) = next
      BY DEF PairsFrom
    <2> QED
      BY <1>1, <1>4, <1>8, <1>10, <2>3, <2>8, <2>9, <2>10, <2>11, <2>12, <2>13 DEF TokenInv
  <1>12. CASE type \notin {"letter", "digit"}
    <2> DEFINE lengths == [x \in 1..next-F |-> m_input[F + x - 1].size]
    <2>1. SubTokensStep(lengths, OffsetIn(m_input)[F], TRUE) /\ m_lemma' = m_lemma
      BY <1>2, <1>12, OffsetIsIn
    <2>2. next - F \in Nat /\ next - F >= 1
      BY <1>7, <1>8
    <2>3. \A x \in 1..next-F : m_input[F + x - 1].size \in Nat
      <3> SUFFICES ASSUME NEW x \in 1..next-F PROVE m_input[F + x - 1].size \in Nat
        OBVIOUS
      <3>1. F + x - 1 \in 1..N
        BY <1>4, <1>7, <1>8
      <3> QED
        BY <1>4, <3>1, CharAssumption
    <2>4. lengths \in Seq(Nat) /\ Len(lengths) = next - F /\ lengths # <<>>
          /\ \A x \in 1..Len(lengths) : lengths[x] = m_input[F + x - 1].size
      BY <2>2, <2>3
    <2> HIDE DEF lengths
    <2>5. IsRest(m_input, cut, F, next, lengths)
      <3>1. next = F + Len(lengths)
        BY <1>7, <1>8, <2>4
      <3>2. \A x \in F..next-1 : KindIn(m_input, cut, x) = KindIn(m_input, cut, F)
        BY <1>5, <1>6
      <3>3. KindIn(m_input, cut, F) \in {"other", "auxiliary"}
        BY <1>5, <1>7, <1>12
      <3> QED
        BY <1>3, <1>8, <1>9, <2>4, <3>1, <3>2, <3>3 DEF IsRest
    <2>6. Returned(m_input, cut, F, PairsFrom(F, TRUE), tokens)
      BY <1>3 DEF PairsFrom
    <2> DEFINE d == TRUE
    <2>7. d \in BOOLEAN /\ (d \/ Len(lengths) > 1) /\ SubTokensStep(lengths, OffsetIn(m_input)[F], d)
          /\ Returned(m_input, cut, F, PairsFrom(F, d), tokens)
      BY <2>1, <2>6
    <2> HIDE DEF d
    <2>8. /\ tokens' \in Seq(Token) /\ InOrder(tokens')
          /\ m_subTokensDoubleChar' \in BOOLEAN
          /\ m_subTokensDoubleChar' \/ Len(m_subTokensLengthArray') > 1
          /\ \E q \in 1..N+1 :
               /\ IsRest(m_input, cut, q, next, m_subTokensLengthArray')
               /\ Returned(m_input, cut, q, PairsFrom(q, m_subTokensDoubleChar'), tokens')
               /\ m_subTokensLengthArray' # <<>> => m_subTokensCursor' = OffsetIn(m_input)[q]
      BY <1>4, <2>4, <2>5, <2>7, SubTokensGive
    <2> QED
      BY <1>1, <1>4, <1>10, <2>1, <2>8 DEF TokenInv
  <1> QED
    BY <1>11, <1>12

\* Every step keeps the invariant of a cursor.
LEMMA TokenStep == ASSUME TokenInv, TokenizerNext PROVE TokenInv'
  BY StepLemmaKeeps, StepSubTokensKeeps, StepRunKeeps, StepDoneKeeps DEF TokenizerNext

\* A cursor that is done has passed all.
LEMMA TokenInvFinds == ASSUME TokenInv PROVE FindsWanted
  <1>1. /\ IsText(m_input, cut) /\ m_input \in Seq(Char) /\ Len(m_input) \in Nat
        /\ tokens \in Seq(Token) /\ InOrder(tokens)
    BY DEF TokenInv, IsText
  <1>2. ASSUME done PROVE Found = Wanted
    <2>1. /\ m_subTokensLengthArray = <<>> /\ KindIn(m_input, cut, m_cursor) = "none"
          /\ m_subTokensDoubleChar = TRUE
      BY <1>2 DEF TokenInv
    <2>2. PICK p \in 1..Len(m_input)+1 :
            /\ IsRest(m_input, cut, p, m_cursor, m_subTokensLengthArray)
            /\ Returned(m_input, cut, p, PairsFrom(p, m_subTokensDoubleChar), tokens)
      BY DEF TokenInv
    <2>3. p = m_cursor /\ Returned(m_input, cut, p, p, tokens)
      BY <2>1, <2>2 DEF IsRest, PairsFrom
    <2>4. ASSUME NEW x \in 1..Len(m_input), NEW y \in 1..Len(m_input), Sought(m_input, cut, x, y)
          PROVE  Passed(p, p, x, y)
      <3>1. p >= Len(m_input)
        <4>1. p \in 1..Len(m_input) => m_input[p].type # "none"
          BY <1>1, CharAssumption
        <4> QED
          BY <1>1, <2>1, <2>2, <2>3, <4>1 DEF KindIn
      <3>2. x # p
        BY <2>1, <2>3, <2>4 DEF Sought
      <3> QED
        BY <1>1, <2>2, <3>1, <3>2 DEF Passed
    <2>5. ASSUME NEW span \in Found PROVE span \in WantedIn(m_input, cut)
      <3>1. PICK k \in DOMAIN tokens : span = <<tokens[k].start, tokens[k].end>>
        BY DEF Found
      <3>2. PICK x \in 1..Len(m_input) : \E y \in 1..Len(m_input) :
              Sought(m_input, cut, x, y) /\ IsSpan(m_input, tokens[k], x, y)
        BY <2>3 DEF Returned
      <3>3. PICK y \in 1..Len(m_input) :
              Sought(m_input, cut, x, y) /\ IsSpan(m_input, tokens[k], x, y)
        BY <3>2
      <3>4. span = SpanIn(m_input, x, y)
        BY <3>1, <3>3 DEF IsSpan, SpanIn
      <3> DEFINE q == <<x, y>>
      <3>5. q \in (1..Len(m_input)) \X (1..Len(m_input)) /\ Sought(m_input, cut, q[1], q[2])
            /\ span = SpanIn(m_input, q[1], q[2])
        BY <3>3, <3>4
      <3> HIDE DEF q
      <3> QED
        BY <3>5 DEF WantedIn
    <2>6. ASSUME NEW span \in WantedIn(m_input, cut) PROVE span \in Found
      <3>1. PICK q \in (1..Len(m_input)) \X (1..Len(m_input)) :
              Sought(m_input, cut, q[1], q[2]) /\ span = SpanIn(m_input, q[1], q[2])
        BY DEF WantedIn
      <3>2. q[1] \in 1..Len(m_input) /\ q[2] \in 1..Len(m_input)
        BY <3>1
      <3>3. PICK k \in DOMAIN tokens : IsSpan(m_input, tokens[k], q[1], q[2])
        BY <2>3, <2>4, <3>1, <3>2 DEF Returned
      <3>4. span = <<tokens[k].start, tokens[k].end>>
        BY <3>1, <3>3 DEF IsSpan, SpanIn
      <3> QED
        BY <3>4 DEF Found
    <2>7. Found = WantedIn(m_input, cut)
      BY <2>5, <2>6
    <2> QED
      BY <2>7, WantedIsIn
  <1>3. \A x \in 1..Len(tokens)-1 :
          LET s == tokens[x]  t == tokens[x + 1]
          IN  s.start < t.start \/ (s.start = t.start /\ s.end > t.end) \/ (t.lemma /\ ~ s.lemma)
    BY <1>1 DEF InOrder
  <1> QED
    BY <1>2, <1>3 DEF FindsWanted

\* A token ends behind a character that is there.
LEMMA TokenInvInInput == ASSUME TokenInv PROVE InInput
  <1>1. /\ m_input \in Seq(Char) /\ Len(m_input) \in Nat /\ cut \in BOOLEAN
        /\ tokens \in Seq(Token)
        /\ cut => m_input # <<>>
    BY DEF TokenInv, IsText
  <1> SUFFICES ASSUME NEW k \in DOMAIN tokens
               PROVE  \/ tokens[k].end =< InputLength
                      \/ cut /\ TypeAt(Len(m_input)) = "auxiliary" /\ tokens[k].end = InputLength + 1
    BY DEF InInput
  <1>2. PICK p \in 1..Len(m_input)+1 :
          Returned(m_input, cut, p, PairsFrom(p, m_subTokensDoubleChar), tokens)
    BY DEF TokenInv
  <1>3. PICK x \in 1..Len(m_input) : \E y \in 1..Len(m_input) :
          Sought(m_input, cut, x, y) /\ IsSpan(m_input, tokens[k], x, y)
    BY <1>2 DEF Returned
  <1>4. PICK y \in 1..Len(m_input) : Sought(m_input, cut, x, y) /\ IsSpan(m_input, tokens[k], x, y)
    BY <1>3
  <1> DEFINE N == Len(m_input)
             o == OffsetIn(m_input)
  <1>5. InputLength = o[N + 1] - (IF cut THEN 1 ELSE 0) /\ tokens[k].end = o[y + 1]
    BY <1>4, OffsetIsIn DEF InputLength, IsSpan
  <1>6. o[N + 1] \in Nat /\ o[y + 1] \in Nat
    <2>1. N + 1 \in 1..N+1 /\ y + 1 \in 1..N+1
      BY <1>1
    <2>2. o \in [1..N+1 -> Nat]
      BY <1>1, OffsetsAdd
    <2> QED
      BY <2>1, <2>2
  <1>7. CASE y = N
    <2>1. KindIn(m_input, cut, N) # "none"
      <3>1. y \in x..y /\ KindIn(m_input, cut, y) = KindIn(m_input, cut, x)
        BY <1>4 DEF Sought
      <3> QED
        BY <1>4, <1>7, <3>1 DEF Sought
    <2>2. cut => TypeAt(N) = "auxiliary"
      BY <1>1, <2>1 DEF KindIn, TypeAt
    <2> QED
      BY <1>5, <1>6, <1>7, <2>2
  <1>8. CASE y # N
    <2>1. y + 1 < N + 1 /\ y + 1 \in 1..N+1 /\ N + 1 \in 1..N+1
      BY <1>1, <1>8
    <2>2. o[y + 1] < o[N + 1]
      BY <1>1, <2>1, OffsetsGrow
    <2> QED
      BY <1>5, <1>6, <2>2
  <1> QED
    BY <1>7, <1>8

-----------------------------------------------------------------------------
(* What a query finds                                                      *)

\* The text t is of s, from the place a on to the end of the query q.
IsPart(s, q, a, t) ==
    /\ q[1] \in 1..Len(s) /\ q[2] \in q[1]..Len(s)
    /\ a \in q[1]..q[2]+1
    /\ t \in Seq(Char) /\ Len(t) = q[2] - a + 1
    /\ \A k \in 1..Len(t) : t[k] = s[a + k - 1]

\* The rest of the query does not begin within a word, but the query may.
Begins(s, isCut, q, a) ==
    a \in q[1]+1..q[2] => \/ KindIn(s, isCut, a - 1) \notin {"letter", "digit"}
                          \/ KindIn(s, isCut, a - 1) # KindIn(s, isCut, a)

\* Splits, of a query.
Unsplit(q) == ~ Splits(q[1] - 1) /\ ~ Splits(q[2])

\* The inductive invariant of a row and its query, with the place a that the
\* query's rest begins at, and whether the contents were cut off.
TextInv ==
    /\ TokenInv
    /\ contents \in Seq(Char)
    /\ query = <<>> => m_input = contents /\ terms = {}
    /\ query # <<>> =>
        \E whole \in BOOLEAN, a \in 1..Len(contents)+1 :
            /\ IsPart(contents, query, a, m_input)
            /\ cut <=> ~ whole /\ query[2] = Len(contents) /\ a =< query[2]
            /\ base = OffsetIn(contents)[a]
            /\ index = WantedIn(contents, ~ whole)
            /\ Unsplit(query) => terms \subseteq index /\ Begins(contents, ~ whole, query, a)

\* The offsets in a part.
LEMMA PartOffsets ==
  ASSUME NEW s \in Seq(Char), NEW t \in Seq(Char), NEW a \in 1..Len(s)+1, a + Len(t) =< Len(s) + 1,
         \A k \in 1..Len(t) : t[k] = s[a + k - 1]
  PROVE  \A k \in 1..Len(t)+1 : OffsetIn(s)[a] + OffsetIn(t)[k] = OffsetIn(s)[a + k - 1]
  <1> DEFINE N == Len(t)
             S == {n \in Nat : OffsetIn(s)[a] + OffsetIn(t)[n + 1] = OffsetIn(s)[a + n]}
  <1>1. N \in Nat /\ Len(s) \in Nat
    OBVIOUS
  <1>2. OffsetIn(s)[a] \in Nat /\ OffsetIn(t)[1] = 0 /\ a + 0 = a
    <2>1. OffsetIn(s) \in [1..Len(s)+1 -> Nat]
      BY OffsetsAdd
    <2>2. OffsetIn(t)[1] = 0
      BY OffsetsAdd
    <2> QED
      BY <1>1, <2>1, <2>2
  <1>3. 0 \in S
    BY <1>2
  <1>4. ASSUME NEW n \in 1..N, n - 1 \in S PROVE n \in S
    <2>1. a + n - 1 \in 1..Len(s) /\ a + (n - 1) = a + n - 1 /\ n - 1 + 1 = n /\ a + n - 1 + 1 = a + n
      BY <1>1
    <2>2. OffsetIn(s)[a] + OffsetIn(t)[n] = OffsetIn(s)[a + n - 1]
      BY <1>4, <2>1
    <2>3. /\ OffsetIn(t)[n] \in Nat /\ t[n].size \in Nat
          /\ OffsetIn(t)[n + 1] = OffsetIn(t)[n] + t[n].size
      BY <1>1, OffsetBehind
    <2>4. /\ OffsetIn(s)[a + n - 1] \in Nat
          /\ OffsetIn(s)[a + n - 1 + 1] = OffsetIn(s)[a + n - 1] + s[a + n - 1].size
      BY <2>1, OffsetBehind
    <2>5. t[n] = s[a + n - 1]
      BY <1>1
    <2>6. OffsetIn(s)[a] + OffsetIn(t)[n + 1] = OffsetIn(s)[a + n]
      BY <1>2, <2>1, <2>2, <2>3, <2>4, <2>5
    <2> QED
      BY <1>1, <2>6
  <1>5. 0..N \subseteq S
    <2> HIDE DEF S, N
    <2> QED
      BY <1>1, <1>3, <1>4, UpTo
  <1> SUFFICES ASSUME NEW k \in 1..N+1
               PROVE  OffsetIn(s)[a] + OffsetIn(t)[k] = OffsetIn(s)[a + k - 1]
    OBVIOUS
  <1>6. k - 1 \in 0..N /\ k - 1 + 1 = k /\ a + (k - 1) = a + k - 1
    BY <1>1
  <1>7. k - 1 \in S
    BY <1>5, <1>6
  <1> QED
    BY <1>6, <1>7

\* The kinds in a part.
LEMMA PartKinds ==
  ASSUME NEW whole \in BOOLEAN, NEW a \in 1..Len(contents)+1, contents \in Seq(Char),
         IsPart(contents, query, a, m_input),
         cut <=> ~ whole /\ query[2] = Len(contents) /\ a =< query[2],
         NEW k \in 1..Len(m_input)
  PROVE  /\ a + k - 1 \in 1..Len(contents)
         /\ KindIn(m_input, cut, k) = KindIn(contents, ~ whole, a + k - 1)
  <1>1. /\ query[1] \in 1..Len(contents) /\ query[2] \in query[1]..Len(contents)
        /\ a \in query[1]..query[2]+1
        /\ Len(m_input) = query[2] - a + 1 /\ m_input[k] = contents[a + k - 1]
        /\ Len(contents) \in Nat /\ query[2] \in Nat
    BY DEF IsPart
  <1>2. a + k - 1 \in 1..Len(contents) /\ a =< query[2] /\ a + k - 1 =< query[2]
    BY <1>1
  <1>3. cut /\ k = Len(m_input) <=> ~ whole /\ a + k - 1 = Len(contents)
    BY <1>1, <1>2, SMTT(20)
  <1>4. ~ (k > Len(m_input)) /\ ~ (a + k - 1 > Len(contents))
    BY <1>1, <1>2
  <1> QED
    BY <1>1, <1>2, <1>3, <1>4 DEF KindIn

\* What is sought in the query is sought in the contents.
LEMMA PartSought ==
  ASSUME NEW whole \in BOOLEAN, NEW a \in 1..Len(contents)+1, contents \in Seq(Char),
         IsPart(contents, query, a, m_input),
         cut <=> ~ whole /\ query[2] = Len(contents) /\ a =< query[2],
         Unsplit(query), Begins(contents, ~ whole, query, a),
         NEW x \in 1..Len(m_input), NEW y \in 1..Len(m_input), Sought(m_input, cut, x, y)
  PROVE  Sought(contents, ~ whole, a + x - 1, a + y - 1)
  <1> DEFINE N == Len(contents)
             M == Len(m_input)
             A == a + x - 1
             B == a + y - 1
             K(k) == KindIn(contents, ~ whole, k)
  <1>1. /\ query[1] \in 1..N /\ query[2] \in query[1]..N
        /\ a \in query[1]..query[2]+1
        /\ M = query[2] - a + 1
        /\ N \in Nat /\ M \in Nat /\ query[1] \in Nat /\ query[2] \in Nat
        /\ \A k \in 1..N : contents[k] \in Char
    BY SMTT(20) DEF IsPart
  <1>2. \A k \in 1..M : a + k - 1 \in 1..N /\ KindIn(m_input, cut, k) = K(a + k - 1)
    BY PartKinds
  <1>3. A \in 1..N /\ B \in 1..N /\ K(A) = KindIn(m_input, cut, x) /\ K(B) = KindIn(m_input, cut, y)
    BY <1>2
  <1>4. x =< y /\ A =< B /\ a =< query[2] /\ B =< query[2]
    BY <1>1 DEF Sought
  <1>5. \A k \in 1..N : K(k) # "none" => K(k) = contents[k].type
    BY DEF KindIn
  <1>6. \A k \in 1..N-1 : K(k) = contents[k].type
    BY <1>1 DEF KindIn
  <1> HIDE DEF K
  <1>7. CASE KindIn(m_input, cut, x) \in {"letter", "digit"}
    <2>1. /\ \A k \in x..y : KindIn(m_input, cut, k) = KindIn(m_input, cut, x)
          /\ x = 1 \/ KindIn(m_input, cut, x - 1) # KindIn(m_input, cut, x)
          /\ KindIn(m_input, cut, y + 1) # KindIn(m_input, cut, x)
      BY <1>7 DEF Sought
    <2>2. \A k \in A..B : K(k) = K(A)
      <3> SUFFICES ASSUME NEW k \in A..B PROVE K(k) = K(A)
        OBVIOUS
      <3>1. k - a + 1 \in x..y /\ k - a + 1 \in 1..M /\ a + (k - a + 1) - 1 = k
        BY <1>1, <1>3
      <3> QED
        BY <1>2, <1>3, <2>1, <3>1
    <2>3. A = 1 \/ K(A - 1) # K(A)
      <3>1. CASE x # 1
        <4>1. x - 1 \in 1..M /\ a + (x - 1) - 1 = A - 1
          BY <1>1, <3>1
        <4> QED
          BY <1>2, <1>3, <2>1, <3>1, <4>1
      <3>2. CASE x = 1 /\ a = query[1]
        <4> SUFFICES ASSUME A # 1, K(A - 1) = K(A) PROVE FALSE
          OBVIOUS
        <4>1. A = query[1] /\ A - 1 \in 1..N-1 /\ A - 1 + 1 = A
          BY <1>1, <1>3, <3>2, SMTT(20)
        <4>2. K(A - 1) = contents[A - 1].type /\ K(A) = contents[A].type
          <5>1. K(A) # "none"
            BY <1>3, <1>7
          <5> QED
            BY <1>3, <1>5, <1>6, <4>1, <5>1
        <4>3. Splits(A - 1)
          BY <1>3, <1>7, <4>1, <4>2 DEF Splits
        <4> QED
          BY <4>1, <4>3 DEF Unsplit
      <3>3. CASE x = 1 /\ a # query[1]
        <4>1. a \in query[1]+1..query[2] /\ A = a
          BY <1>1, <1>4, <3>3
        <4>2. K(a - 1) \notin {"letter", "digit"} \/ K(a - 1) # K(a)
          BY <4>1 DEF Begins, K
        <4> QED
          BY <1>3, <1>7, <4>1, <4>2
      <3> QED
        BY <3>1, <3>2, <3>3
    <2>4. K(B + 1) # K(A)
      <3>1. CASE y # M
        <4>1. y + 1 \in 1..M /\ a + (y + 1) - 1 = B + 1
          BY <1>1, <3>1
        <4> QED
          BY <1>2, <1>3, <2>1, <4>1
      <3>2. CASE y = M
        <4> SUFFICES ASSUME K(B + 1) = K(A) PROVE FALSE
          OBVIOUS
        <4>1. B = query[2] /\ K(A) # "none" /\ K(B) = K(A)
          <5>1. B = query[2]
            BY <1>1, <3>2
          <5>2. B \in A..B
            BY <1>3, <1>4
          <5> QED
            BY <1>3, <1>7, <2>2, <5>1, <5>2
        <4>2. B # N
          BY <1>1, <4>1 DEF K, KindIn
        <4>3. B \in 1..N-1 /\ B + 1 \in 1..N
          <5> HIDE DEF B, N
          <5> QED
            BY <1>1, <1>3, <4>2
        <4>4. K(B) = contents[B].type /\ K(B + 1) = contents[B + 1].type
          BY <1>5, <1>6, <4>1, <4>3
        <4>5. Splits(B)
          BY <1>3, <1>7, <4>1, <4>3, <4>4 DEF Splits
        <4> QED
          BY <4>1, <4>5 DEF Unsplit
      <3> QED
        BY <3>1, <3>2
    <2>5. K(A) \in {"letter", "digit"}
      BY <1>3, <1>7
    <2> HIDE DEF A, B
    <2>6. Sought(contents, ~ whole, A, B)
      BY <1>3, <1>4, <2>2, <2>3, <2>4, <2>5 DEF Sought, K
    <2> QED
      BY <2>6 DEF A, B
  <1>8. CASE KindIn(m_input, cut, x) \notin {"letter", "digit"}
    <2>1. /\ KindIn(m_input, cut, x) \in {"other", "auxiliary"}
          /\ KindIn(m_input, cut, y) = KindIn(m_input, cut, x)
          /\ y - x =< 1
      BY <1>8 DEF Sought
    <2>2. B - A =< 1
      BY <1>1, <2>1
    <2>3. K(A) \in {"other", "auxiliary"} /\ K(B) = K(A)
      BY <1>3, <2>1
    <2> HIDE DEF A, B
    <2>4. Sought(contents, ~ whole, A, B)
      BY <1>3, <1>4, <2>2, <2>3 DEF Sought, K
    <2> QED
      BY <2>4 DEF A, B
  <1> QED
    BY <1>7, <1>8

\* A row is read, and a part of it is searched for.
LEMMA MatchKeeps ==
  ASSUME TextInv, NEW x \in DOMAIN m_input, NEW y \in DOMAIN m_input, x =< y, Match(x, y)
  PROVE  TextInv'
  <1>1. /\ TokenInv /\ done /\ query = <<>> /\ m_input = contents /\ contents \in Seq(Char)
        /\ terms = {}
    BY DEF TextInv, Match
  <1>2. /\ query' = <<x, y>>
        /\ index' = Found
        /\ base' = Offset[x]
        /\ Open(SubSeq(m_input, x, y), cut /\ y = Len(m_input))
        /\ contents' = contents /\ terms' = terms
    BY DEF Match, Found
  <1> DEFINE s == SubSeq(contents, x, y)
             N == Len(contents)
  <1>3. x \in 1..N /\ y \in 1..N /\ N \in Nat /\ \A k \in x..y : contents[k] \in Char
    BY <1>1
  <1>4. s \in Seq(Char) /\ Len(s) = y - x + 1 /\ \A k \in 1..Len(s) : s[k] = contents[x + k - 1]
    BY <1>3, SubSeqProperties
  <1> HIDE DEF s
  <1>5. cut \in BOOLEAN /\ (cut => contents[N].size > 1)
    BY <1>1 DEF TokenInv, IsText
  <1>6. TokenInv'
    <2> DEFINE isCut == cut /\ y = N
    <2>1. IsText(s, isCut)
      <3>1. s # <<>> /\ Len(s) \in 1..Len(s)
        BY <1>3, <1>4
      <3>2. x + Len(s) - 1 = y
        BY <1>3, <1>4
      <3>3. s[Len(s)] = contents[y]
        BY <1>4, <3>1, <3>2
      <3> QED
        BY <1>4, <1>5, <3>1, <3>3 DEF IsText
    <2>2. Open(s, isCut)
      BY <1>1, <1>2 DEF s
    <2> HIDE DEF isCut
    <2> QED
      BY <2>1, <2>2, Opened
  <1>7. m_input' = s /\ (cut' <=> cut /\ y = N)
    BY <1>1, <1>2 DEF Open, s
  <1>8. query'[1] = x /\ query'[2] = y /\ query' # <<>>
    BY <1>2
  <1>9. IsPart(contents, query', x, m_input')
    <2>1. m_input' \in Seq(Char) /\ Len(m_input') = query'[2] - x + 1
      BY <1>4, <1>7, <1>8
    <2>2. \A k \in 1..Len(m_input') : m_input'[k] = contents[x + k - 1]
      <3>1. \A k \in 1..Len(s) : x + k - 1 = (x + k) - 1
        BY <1>3, <1>4
      <3> QED
        BY <1>4, <1>7, <3>1
    <2>3. query'[1] \in 1..Len(contents) /\ query'[2] \in query'[1]..Len(contents)
      BY <1>3, <1>8
    <2>4. x \in query'[1]..query'[2] + 1
      BY <1>3, <1>8
    <2> QED
      BY <2>1, <2>2, <2>3, <2>4 DEF IsPart
  <1>10. base' = OffsetIn(contents)[x]
    BY <1>1, <1>2, OffsetIsIn
  <1>11. index' = WantedIn(contents, cut)
    <2>1. Found = Wanted
      BY <1>1, TokenInvFinds DEF FindsWanted
    <2> QED
      BY <1>1, <1>2, <2>1, WantedIsIn
  <1>12. Begins(contents, cut, query', x)
    BY <1>3, <1>8 DEF Begins
  <1> DEFINE whole == ~ cut
  <1>13. whole \in BOOLEAN /\ (~ whole <=> cut) /\ x \in 1..N+1
    BY <1>3, <1>5
  <1>14. cut = ~ whole
    BY <1>5
  <1>15. index' = WantedIn(contents, ~ whole) /\ Begins(contents, ~ whole, query', x)
    BY <1>11, <1>12, <1>14
  <1>16. cut' <=> ~ whole /\ query'[2] = N /\ x =< query'[2]
    BY <1>7, <1>8, <1>13
  <1> HIDE DEF whole
  <1>17. \E w \in BOOLEAN, a \in 1..N+1 :
            /\ IsPart(contents, query', a, m_input')
            /\ cut' <=> ~ w /\ query'[2] = N /\ a =< query'[2]
            /\ base' = OffsetIn(contents)[a]
            /\ index' = WantedIn(contents, ~ w)
            /\ Unsplit(query)' => terms' \subseteq index' /\ Begins(contents, ~ w, query', a)
    BY <1>1, <1>2, <1>9, <1>10, <1>13, <1>15, <1>16
  <1> QED
    BY <1>1, <1>2, <1>6, <1>8, <1>17 DEF TextInv

\* The cursor moves on.
LEMMA NextKeeps == ASSUME TextInv, Next_ PROVE TextInv'
  <1>1. TokenInv'
    BY TokenStep DEF TextInv, Next_
  <1>2. UNCHANGED <<m_input, cut>>
    BY DEF Next_, TokenizerNext, StepLemma, StepSubTokens, StepRun, StepDone
  <1>3. UNCHANGED <<contents, index, query, base, terms>>
    BY DEF Next_
  <1>4. Unsplit(query)' <=> Unsplit(query)
    BY <1>3 DEF Unsplit, Splits
  <1> QED
    BY <1>1, <1>2, <1>3, <1>4 DEF TextInv

\* A term is found, and the rest of the query is opened.
LEMMA TermKeeps == ASSUME TextInv, Term PROVE TextInv'
  <1> DEFINE end == tokens[1].end
             next == CHOOSE k \in 1..Len(m_input)+1 : Offset[k] = end
             o == OffsetIn(m_input)
             M == Len(m_input)
             N == Len(contents)
  <1>1. /\ query # <<>> /\ tokens # <<>>
        /\ terms' = terms \cup {<<base + tokens[1].start, base + end>>}
        /\ base' = base + end
        /\ Open(SubSeq(m_input, next, M), cut /\ next =< M)
        /\ UNCHANGED <<contents, index, query>>
    BY DEF Term
  <1>2. /\ TokenInv /\ contents \in Seq(Char) /\ m_input \in Seq(Char) /\ cut \in BOOLEAN
        /\ tokens \in Seq(Token) /\ M \in Nat /\ N \in Nat
        /\ cut => m_input[M].size > 1
    BY DEF TextInv, TokenInv, IsText
  <1>3. PICK whole \in BOOLEAN, a \in 1..N+1 :
            /\ IsPart(contents, query, a, m_input)
            /\ cut <=> ~ whole /\ query[2] = N /\ a =< query[2]
            /\ base = OffsetIn(contents)[a]
            /\ index = WantedIn(contents, ~ whole)
            /\ Unsplit(query) => terms \subseteq index /\ Begins(contents, ~ whole, query, a)
    BY <1>1 DEF TextInv
  <1>4. /\ query[1] \in 1..N /\ query[2] \in query[1]..N /\ a \in query[1]..query[2]+1
        /\ M = query[2] - a + 1 /\ query[1] \in Nat /\ query[2] \in Nat /\ a \in Nat
        /\ \A k \in 1..M : m_input[k] = contents[a + k - 1]
    BY <1>2, <1>3 DEF IsPart
  <1>5. PICK p \in 1..M+1 : Returned(m_input, cut, p, PairsFrom(p, m_subTokensDoubleChar), tokens)
    BY <1>2 DEF TokenInv
  <1>6. 1 \in DOMAIN tokens
    BY <1>1, <1>2
  <1>7. PICK x \in 1..M : \E y \in 1..M : Sought(m_input, cut, x, y) /\ IsSpan(m_input, tokens[1], x, y)
    BY <1>5, <1>6 DEF Returned
  <1>8. PICK y \in 1..M : Sought(m_input, cut, x, y) /\ IsSpan(m_input, tokens[1], x, y)
    BY <1>7
  <1>9. tokens[1].start = o[x] /\ end = o[y + 1]
    BY <1>8 DEF IsSpan
  <1> HIDE DEF end
  <1>10. next = y + 1
    <2>1. y + 1 \in 1..M+1 /\ Offset[y + 1] = end
      BY <1>2, <1>9, OffsetIsIn
    <2>2. ASSUME NEW k \in 1..M+1, Offset[k] = end PROVE k = y + 1
      <3>1. o[k] = o[y + 1]
        BY <1>9, <2>2, OffsetIsIn
      <3>2. o[k] \in Nat
        BY <1>2, OffsetsAdd
      <3>3. CASE k < y + 1
        <4>1. o[k] < o[y + 1]
          BY <1>2, <2>1, <3>3, OffsetsGrow
        <4> QED
          BY <3>1, <3>2, <4>1
      <3>4. CASE y + 1 < k
        <4>1. o[y + 1] < o[k]
          BY <1>2, <2>1, <3>4, OffsetsGrow
        <4> QED
          BY <3>1, <3>2, <4>1
      <3> QED
        BY <1>2, <2>1, <3>3, <3>4
    <2> QED
      BY <2>1, <2>2
  <1> HIDE DEF next
  <1> DEFINE s == SubSeq(m_input, y + 1, M)
             isCut == cut /\ y + 1 =< M
  <1>11. Open(s, isCut)
    BY <1>1, <1>10
  <1>12. s \in Seq(Char) /\ Len(s) = M - y /\ \A k \in 1..Len(s) : s[k] = m_input[y + k]
    <2>1. \A k \in y+1..M : m_input[k] \in Char
      BY <1>2
    <2>2. y + 1 \in Int /\ M \in Int
      BY <1>2
    <2>3. /\ s \in Seq(Char) /\ Len(s) = IF y + 1 =< M THEN M - (y + 1) + 1 ELSE 0
          /\ \A k \in 1..M-(y+1)+1 : s[k] = m_input[y + 1 + k - 1]
      BY <2>1, <2>2, SubSeqProperties
    <2> HIDE DEF s
    <2>4. Len(s) = M - y /\ M - (y + 1) + 1 = M - y
      BY <1>2, <2>3
    <2>5. \A k \in 1..M-y : y + 1 + k - 1 = y + k
      BY <1>2
    <2> QED
      BY <2>3, <2>4, <2>5
  <1> HIDE DEF s
  <1>13. TokenInv'
    <2>1. ASSUME isCut PROVE s # <<>> /\ s[Len(s)].size > 1
      <3>1. Len(s) \in 1..Len(s) /\ y + Len(s) = M
        BY <1>2, <1>12, <2>1
      <3>2. s[Len(s)] = m_input[M]
        BY <1>12, <3>1
      <3>3. s # <<>>
        BY <3>1
      <3> QED
        BY <1>2, <2>1, <3>2, <3>3
    <2>2. IsText(s, isCut)
      BY <1>2, <1>12, <2>1 DEF IsText
    <2> HIDE DEF isCut
    <2> QED
      BY <1>11, <2>2, Opened
  <1>14. m_input' = s /\ (cut' <=> cut /\ y + 1 =< M)
    BY <1>11 DEF Open
  <1> DEFINE b == a + y
  <1>15. b \in query[1]..query[2]+1 /\ b \in 1..N+1 /\ Len(s) = query[2] - b + 1 /\ (y + 1 =< M <=> b =< query[2])
    <2> DEFINE first == query[1]
               last == query[2]
    <2>1. /\ first \in 1..N /\ last \in first..N /\ a \in first..last+1 /\ M = last - a + 1
          /\ N \in Nat /\ y \in 1..M /\ Len(s) = M - y
      BY <1>2, <1>4, <1>12
    <2> HIDE DEF first, last, N, M
    <2>2. b \in first..last+1 /\ b \in 1..N+1
      BY <2>1
    <2>3. Len(s) = last - b + 1
      BY <2>1
    <2>4. y + 1 =< M <=> b =< last
      BY <2>1
    <2> QED
      BY <2>2, <2>3, <2>4 DEF first, last, N, M
  <1>16. IsPart(contents, query, b, s)
    <2>1. \A k \in 1..Len(s) : s[k] = contents[b + k - 1]
      <3> SUFFICES ASSUME NEW k \in 1..Len(s) PROVE s[k] = contents[b + k - 1]
        OBVIOUS
      <3>1. y + k \in 1..M /\ a + (y + k) - 1 = b + k - 1
        <4>1. M \in Nat /\ N \in Nat /\ a \in 1..N+1 /\ y \in 1..M /\ Len(s) = M - y
          BY <1>2, <1>4, <1>12
        <4> HIDE DEF M, N
        <4> QED
          BY <4>1
      <3> QED
        BY <1>4, <1>12, <3>1
    <2> HIDE DEF b
    <2> QED
      BY <1>4, <1>12, <1>15, <2>1 DEF IsPart
  <1>17. cut' <=> ~ whole /\ query[2] = N /\ b =< query[2]
    <2>1. b =< query[2] => a =< query[2]
      BY <1>4
    <2> HIDE DEF b
    <2> QED
      BY <1>3, <1>14, <1>15, <2>1
  <1>18. /\ base + tokens[1].start = OffsetIn(contents)[a + x - 1]
         /\ base + end = OffsetIn(contents)[b]
         /\ a + y - 1 + 1 = b
    <2>1. a + M =< N + 1 /\ \A k \in 1..M : m_input[k] = contents[a + k - 1]
      <3> DEFINE last == query[2]
      <3>1. last \in Nat /\ last =< N /\ M = last - a + 1 /\ N \in Nat /\ a \in Nat
        BY <1>2, <1>4
      <3> HIDE DEF last, M, N
      <3>2. a + M =< N + 1
        BY <3>1
      <3> QED
        BY <1>4, <3>2
    <2>2. \A k \in 1..M+1 : OffsetIn(contents)[a] + o[k] = OffsetIn(contents)[a + k - 1]
      BY <1>2, <2>1, PartOffsets
    <2>3. x \in 1..M+1 /\ y + 1 \in 1..M+1 /\ a + (y + 1) - 1 = b /\ a + y - 1 + 1 = b
      BY <1>2
    <2> QED
      BY <1>3, <1>9, <2>2, <2>3
  <1>19. ASSUME Unsplit(query)
         PROVE  terms' \subseteq index /\ Begins(contents, ~ whole, query, b)
    <2>1. terms \subseteq index /\ Begins(contents, ~ whole, query, a)
      BY <1>3, <1>19
    <2> DEFINE A == a + x - 1
               B == a + y - 1
    <2>2. Sought(contents, ~ whole, A, B)
      BY <1>2, <1>3, <1>8, <1>19, <2>1, PartSought
    <2>3. A \in 1..N /\ B \in 1..N
      BY <2>2 DEF Sought
    <2>4. <<base + tokens[1].start, base + end>> = SpanIn(contents, A, B)
      BY <1>18 DEF SpanIn
    <2> HIDE DEF A, B
    <2>5. SpanIn(contents, A, B) \in WantedIn(contents, ~ whole)
      <3> DEFINE q == <<A, B>>
      <3>1. q \in (1..N) \X (1..N) /\ q[1] = A /\ q[2] = B
        BY <2>3
      <3> HIDE DEF q
      <3>2. Sought(contents, ~ whole, q[1], q[2]) /\ SpanIn(contents, A, B) = SpanIn(contents, q[1], q[2])
        BY <2>2, <3>1
      <3> QED
        BY <3>1, <3>2 DEF WantedIn
    <2>6. terms' \subseteq index
      BY <1>1, <1>3, <2>1, <2>4, <2>5
    <2>7. ASSUME b \in query[1]+1..query[2]
          PROVE  \/ KindIn(contents, ~ whole, b - 1) \notin {"letter", "digit"}
                 \/ KindIn(contents, ~ whole, b - 1) # KindIn(contents, ~ whole, b)
      <3>1. y + 1 \in 1..M /\ a + (y + 1) - 1 = b /\ a + y - 1 = b - 1
        <4> DEFINE last == query[2]
        <4>1. M \in Nat /\ N \in Nat /\ a \in 1..N+1 /\ y \in 1..M
          BY <1>2, <1>4
        <4>2. b =< last
          BY <1>15, <2>7
        <4>3. y + 1 =< M
          BY <1>15, <4>2
        <4> HIDE DEF last, M, N
        <4> QED
          BY <4>1, <4>3
      <3>2. \A k \in 1..M : KindIn(m_input, cut, k) = KindIn(contents, ~ whole, a + k - 1)
        BY <1>2, <1>3, PartKinds
      <3>3. /\ KindIn(m_input, cut, y) = KindIn(contents, ~ whole, b - 1)
            /\ KindIn(m_input, cut, y + 1) = KindIn(contents, ~ whole, b)
        BY <3>1, <3>2
      <3>4. \/ KindIn(m_input, cut, y) \notin {"letter", "digit"}
            \/ KindIn(m_input, cut, y) # KindIn(m_input, cut, y + 1)
        <4>1. CASE KindIn(m_input, cut, x) \in {"letter", "digit"}
          <5>1. y \in x..y
            BY <1>8 DEF Sought
          <5>2. KindIn(m_input, cut, y) = KindIn(m_input, cut, x)
            BY <1>8, <4>1, <5>1 DEF Sought
          <5>3. KindIn(m_input, cut, y + 1) # KindIn(m_input, cut, x)
            BY <1>8, <4>1 DEF Sought
          <5> QED
            BY <5>2, <5>3
        <4>2. CASE KindIn(m_input, cut, x) \notin {"letter", "digit"}
          BY <1>8, <4>2 DEF Sought
        <4> QED
          BY <4>1, <4>2
      <3> QED
        BY <3>3, <3>4
    <2>8. Begins(contents, ~ whole, query, b)
      <3> HIDE DEF b
      <3> QED
        BY <2>7 DEF Begins
    <2> QED
      BY <2>6, <2>8
  <1> HIDE DEF b
  <1>20. Unsplit(query)' <=> Unsplit(query)
    BY <1>1 DEF Unsplit, Splits
  <1>21. \E w \in BOOLEAN, c \in 1..N+1 :
            /\ IsPart(contents, query, c, s)
            /\ cut' <=> ~ w /\ query[2] = N /\ c =< query[2]
            /\ base' = OffsetIn(contents)[c]
            /\ index = WantedIn(contents, ~ w)
            /\ Unsplit(query) => terms' \subseteq index /\ Begins(contents, ~ w, query, c)
    <2>1. base' = OffsetIn(contents)[b]
      BY <1>1, <1>18
    <2> QED
      BY <1>3, <1>15, <1>16, <1>17, <1>19, <2>1
  <1> QED
    BY <1>1, <1>2, <1>13, <1>14, <1>20, <1>21 DEF TextInv

LEMMA TextInit == FullTextInit => TextInv
  <1> SUFFICES ASSUME FullTextInit PROVE TextInv
    OBVIOUS
  <1>1. TokenInv
    BY TokenInvInit DEF FullTextInit
  <1>2. contents = m_input /\ query = <<>> /\ terms = {}
    BY DEF FullTextInit
  <1> QED
    BY <1>1, <1>2 DEF TextInv, TokenInv, IsText

LEMMA TextStutter == ASSUME TextInv, UNCHANGED fullTextVars PROVE TextInv'
  <1>1. UNCHANGED <<m_input, cut, m_cursor, m_lemma, m_subTokensLengthArray, m_subTokensCursor,
                    m_subTokensDoubleChar, tokens, done, contents, index, query, base, terms>>
    BY DEF fullTextVars, tokenizerVars
  <1>2. TokenInv'
    BY <1>1 DEF TextInv, TokenInv
  <1>3. Unsplit(query)' <=> Unsplit(query)
    BY <1>1 DEF Unsplit, Splits
  <1> QED
    BY <1>1, <1>2, <1>3 DEF TextInv

\* The inductive invariant of rows and queries holds in every state.
LEMMA TextInvAlways == FullTextSpec => []TextInv
  <1>1. FullTextInit => TextInv
    BY TextInit
  <1>2. TextInv /\ [FullTextNext]_fullTextVars => TextInv'
    <2> SUFFICES ASSUME TextInv, [FullTextNext]_fullTextVars PROVE TextInv'
      OBVIOUS
    <2>1. CASE Next_
      BY <2>1, NextKeeps
    <2>2. CASE Term
      BY <2>2, TermKeeps
    <2>3. ASSUME NEW x \in DOMAIN m_input, NEW y \in DOMAIN m_input, x =< y, Match(x, y)
          PROVE  TextInv'
      BY <2>3, MatchKeeps
    <2>4. CASE UNCHANGED fullTextVars
      BY <2>4, TextStutter
    <2> QED
      BY <2>1, <2>2, <2>3, <2>4 DEF FullTextNext
  <1> QED
    BY <1>1, <1>2, PTL DEF FullTextSpec

\* A cursor that is done has returned every word and number, and of all else
\* every character and every pair of neighbours, and nothing besides, each
\* once and front to back: for every text, cut off or not, and every cursor
\* of a query.
THEOREM FindsWantedAlways == FullTextSpec => []FindsWanted
  <1>1. TextInv => FindsWanted
    BY TokenInvFinds DEF TextInv
  <1> QED
    BY <1>1, TextInvAlways, PTL

\* No token reaches past the text, but for the last character that is cut
\* off, of four bytes and more: cursorSetup reads only its first.
THEOREM InInputAlways == FullTextSpec => []InInput
  <1>1. TextInv => InInput
    BY TokenInvInInput DEF TextInv
  <1> QED
    BY <1>1, TextInvAlways, PTL

\* Every part of a row that splits no word finds the row: each term that the
\* cursors of the query return is among the tokens of the row, for rows and
\* queries of any length.
THEOREM SearchableAlways == FullTextSpec => []Searchable
  <1>1. TextInv => Searchable
    BY DEF TextInv, Searchable, Unsplit
  <1> QED
    BY <1>1, TextInvAlways, PTL

-----------------------------------------------------------------------------
(* All parts together                                                      *)

\* No step of one part changes another one, so that what each of them does
\* by itself it does in a behaviour of all.
LEMMA PartsOfSpec ==
  SqlSpec => /\ ExprSpec /\ FullTextSpec /\ CallSpec
             /\ SchemaSpec /\ ValuesSpec /\ ReportsSpec
  <1>1. SqlInit => ExprInit /\ FullTextInit /\ CallInit /\ SchemaInit /\ ValuesInit /\ ReportsInit
    BY DEF SqlInit
  <1>2. [SqlNext]_sqlVars => [ExprNext]_exprVars
    BY DEF SqlNext, sqlVars
  <1>3. [SqlNext]_sqlVars => [FullTextNext]_fullTextVars
    BY DEF SqlNext, sqlVars
  <1>4. [SqlNext]_sqlVars => [CallNext]_callVars
    BY DEF SqlNext, sqlVars
  <1>5. [SqlNext]_sqlVars => [SchemaNext]_schemaVars
    BY DEF SqlNext, sqlVars
  <1>6. [SqlNext]_sqlVars => [ValuesNext]_valuesVars
    BY DEF SqlNext, sqlVars
  <1>7. [SqlNext]_sqlVars => [ReportsNext]_reportsVars
    BY DEF SqlNext, sqlVars
  <1> QED
    BY <1>1, <1>2, <1>3, <1>4, <1>5, <1>6, <1>7, PTL
       DEF SqlSpec, ExprSpec, FullTextSpec, CallSpec, SchemaSpec, ValuesSpec, ReportsSpec

\* An expression has no more nodes than the bound.
LEMMA NodesAlways == ExprSpec => [](nodes \in 0..MaxNodes)
  <1>1. ExprInit => nodes \in 0..MaxNodes
    BY NodesAssumption DEF ExprInit
  <1>2. nodes \in 0..MaxNodes /\ [ExprNext]_exprVars => (nodes \in 0..MaxNodes)'
    <2> SUFFICES ASSUME nodes \in 0..MaxNodes, [ExprNext]_exprVars PROVE nodes' \in 0..MaxNodes
      OBVIOUS
    <2>1. nodes' = nodes \/ (nodes < MaxNodes /\ nodes' = nodes + 1)
      BY DEF ExprNext, Build, exprVars
    <2> QED
      BY <2>1, NodesAssumption
  <1> QED
    BY <1>1, <1>2, PTL DEF ExprSpec

\* A cursor is at a place of its text, also when it is between two runs.
CursorInv ==
    /\ TextInv
    /\ Len(contents) =< MaxInput
    /\ m_subTokensCursor \in 0..Offset[Len(m_input)+1]

LEMMA OffsetsUpTo ==
  ASSUME NEW s \in Seq(Char), NEW x \in 1..Len(s)+1
  PROVE  OffsetIn(s)[x] \in 0..OffsetIn(s)[Len(s)+1]
  <1>1. OffsetIn(s)[x] \in Nat /\ OffsetIn(s)[Len(s)+1] \in Nat
    <2>1. Len(s) + 1 \in 1..Len(s)+1
      OBVIOUS
    <2> QED
      BY <2>1, OffsetsAdd
  <1>2. x = Len(s) + 1 \/ OffsetIn(s)[x] < OffsetIn(s)[Len(s)+1]
    <2>1. x = Len(s) + 1 \/ (x < Len(s) + 1 /\ Len(s) + 1 \in 1..Len(s)+1)
      OBVIOUS
    <2> QED
      BY <2>1, OffsetsGrow
  <1> QED
    BY <1>1, <1>2

LEMMA CursorInit == FullTextInit => CursorInv
  <1> SUFFICES ASSUME FullTextInit PROVE CursorInv
    OBVIOUS
  <1>1. TextInv
    BY TextInit
  <1>2. contents = m_input /\ m_subTokensCursor = 0
    BY DEF FullTextInit, TokenizerInit
  <1>3. PICK n \in 0..MaxInput : m_input \in [1..n -> Char]
    BY DEF FullTextInit, TokenizerInit
  <1>4. n \in Nat /\ Len(m_input) = n /\ n =< MaxInput /\ m_input \in Seq(Char)
    BY <1>3, CharAssumption
  <1>5. 0 \in 0..OffsetIn(m_input)[Len(m_input)+1]
    <2>1. 1 \in 1..Len(m_input)+1
      BY <1>4
    <2> QED
      BY <1>4, <2>1, OffsetsUpTo, OffsetsAdd
  <1> QED
    BY <1>1, <1>2, <1>4, <1>5, OffsetIsIn DEF CursorInv

\* The place of the next token is kept when the run is used up.
LEMMA CursorStep ==
  ASSUME CursorInv, TextInv', Next_
  PROVE  m_subTokensCursor' \in 0..Offset'[Len(m_input')+1]
  <1>1. m_input' = m_input /\ TokenizerNext
    BY DEF Next_, TokenizerNext, StepLemma, StepSubTokens, StepRun, StepDone
  <1>2. m_input \in Seq(Char) /\ Len(m_input) \in Nat
    BY DEF CursorInv, TextInv, TokenInv, IsText
  <1>3. Offset'[Len(m_input')+1] = OffsetIn(m_input)[Len(m_input)+1]
    BY <1>1 DEF Offset, OffsetIn
  <1>4. m_subTokensCursor \in 0..OffsetIn(m_input)[Len(m_input)+1]
    BY OffsetIsIn DEF CursorInv
  <1>5. CASE m_subTokensLengthArray' # <<>>
    <2>1. PICK p \in 1..Len(m_input')+1 : m_subTokensCursor' = OffsetIn(m_input')[p]
      BY <1>5 DEF TextInv, TokenInv
    <2> QED
      BY <1>1, <1>2, <1>3, <2>1, OffsetsUpTo
  <1>6. CASE m_subTokensLengthArray' = <<>> /\ m_subTokensCursor' = m_subTokensCursor
    BY <1>3, <1>4, <1>6
  <1>7. CASE m_subTokensLengthArray' = <<>> /\ m_subTokensCursor' # m_subTokensCursor
    <2>1. StepSubTokens \/ StepRun
      BY <1>1, <1>7 DEF TokenizerNext, StepLemma, StepDone
    <2>2. ASSUME NEW lengths, NEW start, SubTokensStep(lengths, start, TRUE)
          PROVE  m_subTokensCursor' = start
      BY <2>2 DEF SubTokensStep
    <2>3. CASE StepRun
      <3>1. m_subTokensLengthArray = <<>>
        BY <2>3 DEF StepRun
      <3>2. First \in 1..Len(m_input)+1
        BY <3>1, FirstIs DEF CursorInv, TextInv
      <3>3. m_subTokensCursor' = Offset[First]
        BY <1>7, <2>2, <2>3 DEF StepRun
      <3>4. m_subTokensCursor' = OffsetIn(m_input)[First]
        <4>1. Offset = OffsetIn(m_input)
          BY OffsetIsIn
        <4> QED
          BY <3>3, <4>1, Zenon
      <3>5. OffsetIn(m_input)[First] \in 0..OffsetIn(m_input)[Len(m_input)+1]
        <4> DEFINE x == First
        <4>1. x \in 1..Len(m_input)+1
          BY <3>2
        <4> HIDE DEF x
        <4>2. OffsetIn(m_input)[x] \in 0..OffsetIn(m_input)[Len(m_input)+1]
          BY <1>2, <4>1, OffsetsUpTo
        <4> QED
          BY <4>2 DEF x
      <3> QED
        BY <1>3, <3>4, <3>5
    <2>4. CASE StepSubTokens
      <3> DEFINE lengths == m_subTokensLengthArray
                 double == m_subTokensDoubleChar
      <3>1. SubTokensStep(lengths, m_subTokensCursor, double)
        BY <2>4 DEF StepSubTokens
      <3>2. double = FALSE
        <4>1. double \in BOOLEAN
          BY DEF CursorInv, TextInv, TokenInv
        <4>2. double # TRUE
          BY <1>7, <2>2, <3>1
        <4> QED
          BY <4>1, <4>2
      <3>3. Len(lengths) > 1 /\ lengths \in Seq(Nat)
        BY <3>2 DEF CursorInv, TextInv, TokenInv, IsRest
      <3>4. m_subTokensLengthArray' = Tail(lengths)
        BY <3>1, <3>2 DEF SubTokensStep
      <3>5. Tail(lengths) # <<>>
        <4> DEFINE s == lengths
        <4>1. s \in Seq(Nat) /\ Len(s) > 1 /\ s # <<>>
          BY <3>3, EmptySeq
        <4> HIDE DEF s
        <4>2. Tail(s) \in Seq(Nat) /\ Len(Tail(s)) = Len(s) - 1
          BY <4>1, HeadTailProperties
        <4>3. Len(Tail(s)) # 0
          <5>1. Len(s) \in Nat
            BY <4>1, LenProperties
          <5>2. \A n \in Nat : n > 1 => n - 1 # 0
            OBVIOUS
          <5> QED
            BY <4>1, <4>2, <5>1, <5>2
        <4>4. Tail(s) # <<>>
          BY <4>2, <4>3, EmptySeq
        <4> QED
          BY <4>4 DEF s
      <3>6. FALSE
        BY <1>7, <3>4, <3>5
      <3> QED
        BY <3>6
    <2> QED
      BY <2>1, <2>3, <2>4
  <1> QED
    BY <1>5, <1>6, <1>7

LEMMA CursorAlways == FullTextSpec => []CursorInv
  <1>1. CursorInv /\ TextInv' /\ [FullTextNext]_fullTextVars => CursorInv'
    <2> SUFFICES ASSUME CursorInv, TextInv', [FullTextNext]_fullTextVars PROVE CursorInv'
      OBVIOUS
    <2>1. contents' = contents
      BY DEF FullTextNext, Next_, Term, Match, fullTextVars, tokenizerVars
    <2>2. CASE UNCHANGED fullTextVars
      <3>1. m_input' = m_input /\ m_subTokensCursor' = m_subTokensCursor
        BY <2>2 DEF fullTextVars, tokenizerVars
      <3>2. Offset' = Offset
        BY <3>1 DEF Offset
      <3> QED
        BY <2>1, <3>1, <3>2 DEF CursorInv
    <2>3. CASE Next_
      <3>1. m_subTokensCursor' \in 0..Offset'[Len(m_input')+1]
        BY <2>3, CursorStep
      <3> QED
        BY <2>1, <3>1 DEF CursorInv
    <2>4. CASE Term \/ \E x, y \in DOMAIN m_input : x =< y /\ Match(x, y)
      <3>1. m_subTokensCursor' = 0
        BY <2>4 DEF Term, Match, Open
      <3>2. m_input' \in Seq(Char)
        BY DEF TextInv, TokenInv, IsText
      <3>3. 0 \in 0..OffsetIn(m_input')[Len(m_input')+1]
        <4>1. 1 \in 1..Len(m_input')+1
          BY <3>2
        <4> QED
          BY <3>2, <4>1, OffsetsUpTo, OffsetsAdd
      <3>4. Offset' = OffsetIn(m_input')
        BY DEF Offset, OffsetIn
      <3> QED
        BY <2>1, <3>1, <3>3, <3>4 DEF CursorInv
    <2> QED
      BY <2>2, <2>3, <2>4 DEF FullTextNext
  <1> QED
    BY <1>1, CursorInit, TextInvAlways, PTL DEF FullTextSpec

\* The table has no rows but those of the app.
CallRowsInv == CallInv /\ DOMAIN table \subseteq Row

LEMMA CallRowsAlways == CallSpec => []CallRowsInv
  <1>1. CallInit => DOMAIN table \subseteq Row
    BY CallAssumption DEF CallInit
  <1>2. DOMAIN table \subseteq Row /\ [CallNext]_callVars => (DOMAIN table \subseteq Row)'
    <2> SUFFICES ASSUME DOMAIN table \subseteq Row, [CallNext]_callVars PROVE DOMAIN table' \subseteq Row
      OBVIOUS
    <2>1. CASE table' = table
      BY <2>1
    <2>2. ASSUME NEW c \in CallObject, Execute(c) PROVE DOMAIN table' \subseteq Row
      <3>1. \A kind, conditions, value : DOMAIN Written(kind, conditions, value) \subseteq DOMAIN table
        BY DEF Written
      <3>2. table' = table \/ \E kind, conditions, value : table' = Written(kind, conditions, value)
        BY <2>2 DEF Execute
      <3> QED
        BY <3>1, <3>2
    <2>3. ASSUME NEW c \in CallObject, NEW within \in BOOLEAN, NEW n \in 1..2, NEW ids \in [1..n -> Row],
                 Insertion(c, ids, within)
          PROVE  DOMAIN table' \subseteq Row
      <3>1. DOMAIN Put(ids) \subseteq Row
        BY DEF Put
      <3>2. ASSUME NEW k \in 0..Len(ids)-1 PROVE DOMAIN Put(SubSeq(ids, 1, k)) \subseteq Row
        <4>1. ids \in Seq(Row) /\ k =< Len(ids)
          BY <3>2
        <4>2. SubSeq(ids, 1, k) \in Seq(Row)
          BY <3>2, <4>1, SubSeqProperties
        <4>3. \A x \in DOMAIN SubSeq(ids, 1, k) : SubSeq(ids, 1, k)[x] \in Row
          BY <4>2
        <4> QED
          BY <4>3 DEF Put
      <3>3. table' = table \/ table' = Put(ids) \/ \E k \in 0..Len(ids)-1 : table' = Put(SubSeq(ids, 1, k))
        BY <2>3 DEF Insertion, TableAfterFailure
      <3> QED
        BY <3>1, <3>2, <3>3
    <2> QED
      BY <2>1, <2>2, <2>3
         DEF CallNext, callVars, InitWithCore, Ask, LazyPrepare, Begin, Step, Finalize, ReturnHandle, Answer, Drop, Gone
  <1>3. CallSpec => [](DOMAIN table \subseteq Row)
    BY <1>1, <1>2, PTL DEF CallSpec
  <1>4. CallInv /\ DOMAIN table \subseteq Row => CallRowsInv
    BY DEF CallRowsInv
  <1> QED
    BY <1>3, <1>4, CallInvAlways, PTL

\* What is to be done is of the class, which changes only when nothing is.
SchemaTypes ==
    /\ starts \in 0..MaxStarts
    /\ todo \subseteq DOMAIN class.columns \cup DOMAIN class.indexes
    /\ at \notin {"alter", "index"} => todo = {}

LEMMA SchemaTypesAlways == SchemaSpec => []SchemaTypes
  <1>1. SchemaInit => SchemaTypes
    BY StartsAssumption DEF SchemaInit, SchemaTypes
  <1>2. SchemaTypes /\ [SchemaNext]_schemaVars => SchemaTypes'
    <2> SUFFICES ASSUME SchemaTypes, [SchemaNext]_schemaVars PROVE SchemaTypes'
      OBVIOUS
    <2>1. starts' = starts \/ (starts < MaxStarts /\ starts' = starts + 1)
      BY DEF SchemaNext, schemaVars, Update, BeginCreate, Exists, List, Alter, Altered, CreateTable,
             CreateIndex, Commit, Fail, AppDies
    <2>2. (todo \subseteq DOMAIN class.columns \cup DOMAIN class.indexes)'
      BY DEF SchemaTypes, SchemaNext, schemaVars, Update, BeginCreate, Exists, List, Alter, Altered, CreateTable,
             CreateIndex, Commit, Fail, AppDies
    <2>3. (at \notin {"alter", "index"} => todo = {})'
      BY DEF SchemaTypes, SchemaNext, schemaVars, Update, BeginCreate, Exists, List, Alter, Altered, CreateTable,
             CreateIndex, Commit, Fail, AppDies
    <2> QED
      BY <2>1, <2>2, <2>3, StartsAssumption DEF SchemaTypes
  <1> QED
    BY <1>1, <1>2, PTL DEF SchemaSpec

\* A thread runs no more statements than it may.
StatementsTyped ==
    statements \in [Thread -> Nat] /\ \A t \in Thread : statements[t] =< MaxStatements[t]

LEMMA StatementsAlways == ReportsSpec => []StatementsTyped
  <1>1. ReportsInit => StatementsTyped
    BY ReportsAssumption DEF ReportsInit, StatementsTyped
  <1>2. StatementsTyped /\ [ReportsNext]_reportsVars => StatementsTyped'
    <2> SUFFICES ASSUME StatementsTyped, [ReportsNext]_reportsVars PROVE StatementsTyped'
      OBVIOUS
    <2>1. statements' = statements \/ \E t \in Thread : Statement(t)
      <3>1. ASSUME NEW value, SetReportMethod(value) \/ SetGlobalPerformanceTrace(value) \/ SetPerformanceTrace(value)
            PROVE  statements' = statements
        BY <3>1 DEF SetReportMethod, SetGlobalPerformanceTrace, SetPerformanceTrace
      <3>2. ASSUME NEW t, FlowOut(t) \/ PrepareExists(t) \/ EndExists(t) \/ Close(t)
            PROVE  statements' = statements
        BY <3>2 DEF FlowOut, PrepareExists, EndExists, Close
      <3>3. ASSUME NEW t, NEW sql, NEW ran, NEW ok, Exec(t, sql, ran, ok)
            PROVE  Statement(t)
        BY <3>3 DEF Exec
      <3>4. ASSUME NEW t, Misuse(t) \/ BeginExists(t)
            PROVE  Statement(t)
        BY <3>4 DEF Misuse, BeginExists
      <3>5. CASE UNCHANGED reportsVars
        BY <3>5 DEF reportsVars
      <3> QED
        BY <3>1, <3>2, <3>3, <3>4, <3>5, Zenon DEF ReportsNext
    <2>2. ASSUME NEW t \in Thread, Statement(t) PROVE StatementsTyped'
      <3>1. statements[t] \in Nat /\ MaxStatements[t] \in Nat /\ statements[t] < MaxStatements[t]
        BY <2>2, ReportsAssumption DEF Statement, StatementsTyped
      <3>2. statements[t] + 1 \in Nat /\ statements[t] + 1 =< MaxStatements[t]
        BY <3>1
      <3> QED
        BY <2>2, <3>2 DEF Statement, StatementsTyped
    <2>3. CASE statements' = statements
      BY <2>3 DEF StatementsTyped
    <2> QED
      BY <2>1, <2>2, <2>3
  <1> QED
    BY <1>1, <1>2, PTL DEF ReportsSpec

LEMMA CellClasses ==
  ASSUME ValuesInv, NEW row \in DOMAIN rows
  PROVE  rows[row].cell.class \in {"null", "integer", "real", "text", "blob"}
  <1> DEFINE r == rows[row]
             Classes == {"null", "integer", "real", "text", "blob"}
  <1>1. r.type \in PropertyType \cup {WCTValue} /\ r.cell = Stored(column, Bound(r.type, r.value))
    BY DEF ValuesInv, IsRow
  <1>2. \A cell : cell.class \in Classes => Stored(column, cell).class \in Classes
    BY DEF Stored, RealCell, IntegerCell
  <1>3. r.type.kind \in {"integer", "WCTValue", "real", "NSNumber", "NSString", "NSData"}
    BY <1>1, TypesAssumption DEF Integer, Real, NSNumber, NSString, NSData, WCTValue
  <1>4. Bound(r.type, r.value).class \in Classes
    BY <1>3 DEF Bound, IntegerCell, RealCell, BoundText, Null
  <1> QED
    BY <1>1, <1>2, <1>4

\* The parts are where their code can have brought them, for all the bounds
\* of the model, classes, chains of calls, types, texts and threads.
THEOREM SqlCoherentAlways == SqlSpec => []SqlCoherent
  <1> DEFINE Inv == /\ nodes \in 0..MaxNodes
                    /\ CursorInv /\ InInput
                    /\ CallRowsInv /\ PooledHandleIsIdle /\ UndefinedOnlyPastEnd
                    /\ SchemaTypes
                    /\ ValuesInv
                    /\ ReportsInv /\ StatementsTyped /\ KilledByNil
  <1>1. ValuesSpec => []ValuesInv
    BY ValuesInvInit, ValuesInvStep, PTL DEF ValuesSpec
  <1>2. SqlSpec => []Inv
    BY <1>1, PartsOfSpec, NodesAlways, CursorAlways, InInputAlways, CallRowsAlways, PooledHandleIsIdleAlways,
       UndefinedOnlyPastEndAlways, SchemaTypesAlways, ReportsInvAlways, StatementsAlways, KilledByNilAlways, PTL
  <1>3. Inv => SqlCoherent
    <2> SUFFICES ASSUME Inv PROVE SqlTypeOK
      BY DEF SqlCoherent
    <2>1. m_cursor \in 1..Len(m_input)+1 /\ m_subTokensLengthArray \in Seq(Nat \ {0})
          /\ Len(m_subTokensLengthArray) =< MaxInput
      <3>1. /\ m_input \in Seq(Char) /\ contents \in Seq(Char)
            /\ Len(m_input) =< Len(contents) /\ Len(contents) =< MaxInput
        BY DEF CursorInv, TextInv, TokenInv, IsText, IsPart
      <3>2. PICK p \in 1..Len(m_input)+1 : IsRest(m_input, cut, p, m_cursor, m_subTokensLengthArray)
        BY DEF CursorInv, TextInv, TokenInv
      <3> DEFINE lengths == m_subTokensLengthArray
      <3>3. /\ m_cursor \in 1..Len(m_input)+1 /\ lengths \in Seq(Nat) /\ m_cursor = p + Len(lengths)
            /\ \A x \in 1..Len(lengths) : lengths[x] = m_input[p + x - 1].size
        BY <3>2 DEF IsRest
      <3>4. MaxInput \in Nat /\ Len(m_input) \in Nat /\ Len(contents) \in Nat /\ Len(lengths) \in Nat
        BY <3>1, <3>3, CharAssumption
      <3>5. Len(lengths) =< MaxInput
        BY <3>1, <3>2, <3>3, <3>4
      <3>6. ASSUME NEW x \in 1..Len(lengths) PROVE lengths[x] \in Nat \ {0}
        <4>1. p + x - 1 \in 1..Len(m_input)
          BY <3>2, <3>3, <3>4
        <4>2. m_input[p + x - 1] \in Char
          BY <3>1, <4>1
        <4> QED
          BY <3>3, <4>2, CharAssumption
      <3>7. lengths \in Seq(Nat \ {0})
        BY <3>3, <3>6
      <3> QED
        BY <3>3, <3>5, <3>7
    <2>2. m_subTokensCursor \in 0..Offset[Len(m_input)+1]
      BY DEF CursorInv
    <2>3. {cut, m_lemma, m_subTokensDoubleChar, done} \subseteq BOOLEAN
      BY DEF CursorInv, TextInv, TokenInv, IsText
    <2>4. m_lemma => tokens # <<>> /\ m_subTokensLengthArray = <<>>
      BY DEF CursorInv, TextInv, TokenInv
    <2>5. DOMAIN call \subseteq CallObject /\ free \subseteq Handle /\ DOMAIN table \subseteq Row
      BY DEF CallRowsInv, CallInv
    <2>6. ASSUME NEW c \in DOMAIN call PROVE call[c].handle \in Handle \cup {"none"} /\ call[c].pc # "gone"
      BY DEF CallRowsInv, CallInv, CallRecord
    <2>7. property \in PropertyType
      BY DEF ValuesInv
    <2>8. \A row \in DOMAIN rows : rows[row].cell.class \in {"null", "integer", "real", "text", "blob"}
      BY CellClasses
    <2>9. \A t \in Thread : handle[t].at \in {"out", "idle", "silence", "prepared", "refused"}
      BY DEF ReportsInv, ReportsTypes, HandleType
    <2>10. s_slient \in [Thread -> BOOLEAN]
      BY DEF ReportsInv, ReportsTypes
    <2>11. \A t \in Thread : statements[t] \in 0..MaxStatements[t]
      BY ReportsAssumption DEF StatementsTyped
    <2>12. todo \subseteq DOMAIN class.columns \cup DOMAIN class.indexes /\ starts \in 0..MaxStarts
      BY DEF SchemaTypes
    <2> QED
      BY <2>1, <2>2, <2>3, <2>4, <2>5, <2>6, <2>7, <2>8, <2>9, <2>10, <2>11, <2>12 DEF SqlTypeOK
  <1> QED
    BY <1>2, <1>3, PTL

\* What is proved of a part holds in every behaviour of all parts together:
\* expressions and cells are read back, full-text search finds, chained calls
\* give and write what was asked, tables fit and only grow, reports are whole
\* and failures are heard.
THEOREM SqlPartsAlways ==
  SqlSpec => /\ []ReadsBack /\ []FindsWanted /\ []Searchable
             /\ []GivesWhatIsAsked /\ WritesAsAnswered
             /\ []TableFitsClass /\ OnlyAdds /\ []ValuesSurvive
             /\ []ReportIsWhole /\ []FailuresAreHeard
  <1> QED
    BY PartsOfSpec, ReadsBackAlways, FindsWantedAlways, SearchableAlways,
       GivesWhatIsAskedAlways, WritesAsAnsweredAlways, TableFitsClassAlways, OnlyAddsAlways,
       ValuesSurviveAlways, ReportIsWholeAlways, FailuresAreHeardAlways, PTL

=============================================================================
