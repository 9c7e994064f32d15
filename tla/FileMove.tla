------------------------------ MODULE FileMove ------------------------------
(***************************************************************************)
(* Moving the files of a closed database to another directory: moveFiles,  *)
(* call by call of the file system, with any of them failing and the app   *)
(* dying between any two.  The app repeats the move until it has returned  *)
(* true.  A file is known by the path it was at in the beginning, so that  *)
(* a second link to it is the same file.                                   *)
(***************************************************************************)
EXTENDS Integers, Sequences, Functions

CONSTANTS
    Dir,      \* directories
    Name,     \* file names
    Lists,    \* the lists of paths the app may move
    MaxCalls  \* bound of the model: how often the app tries

Path == Dir \X Name

NoFile == <<>>

ASSUME FileMoveAssumption == Lists \subseteq Seq(Path) /\ MaxCalls \in Nat

VARIABLES
    fs,        \* the file at each path
    made,      \* whether the destination is there
    paths,     \* the arguments of moveFiles, the same each time
    directory,
    pc,        \* what moveFiles is about to do
    i,         \* the place in paths
    recovers,  \* the links it has made
    result,
    calls,
    owed,      \* history: the listed files of the beginning
    blind,     \* history: the files whose existence a call could not test
    died,      \* history: the app has died during a move
    redone,    \* history: and it was tried again
    left       \* history: a file or a link could not be removed

args == <<paths, directory, owed>>

vars == <<fs, made, args, pc, i, recovers, result, calls, blind, died, redone, left>>

New(path) == <<directory, path[2]>>

Init ==
    /\ paths \in Lists
    /\ directory \in Dir
    /\ made \in BOOLEAN
    /\ \E there \in SUBSET (Range(paths) \cup {New(p) : p \in Range(paths)}) :
           fs = [p \in Path |-> IF p \in there THEN p ELSE NoFile]
    /\ ~ made => \A p \in Path : p[1] = directory => fs[p] = NoFile
    /\ pc = "idle"
    /\ i = 1
    /\ recovers = <<>>
    /\ result = FALSE
    /\ calls = 0
    /\ owed = {p \in Range(paths) : fs[p] # NoFile}
    /\ blind = {}
    /\ died = FALSE
    /\ redone = FALSE
    /\ left = FALSE

\* moveFiles is called, and makes the directory if it is not there.
Call ==
    /\ pc = "idle"
    /\ ~ result
    /\ calls < MaxCalls
    /\ calls' = calls + 1
    /\ redone' = died
    /\ \/ made' = TRUE /\ pc' = "test"
       \/ UNCHANGED <<made, pc>>
    /\ i' = 1
    /\ recovers' = <<>>
    /\ UNCHANGED <<fs, args, result, blind, died, left>>

\* isExists: a path that could not be tested passes for one without a file.
Test ==
    /\ pc = "test"
    /\ i =< Len(paths)
    /\ \/ /\ fs[paths[i]] # NoFile
          /\ pc' = "clear"
          /\ UNCHANGED <<i, blind>>
       \/ /\ fs[paths[i]] = NoFile
          /\ i' = i + 1
          /\ UNCHANGED <<pc, blind>>
       \/ /\ i' = i + 1
          /\ blind' = blind \cup ({fs[paths[i]]} \ {NoFile})
          /\ UNCHANGED pc
    /\ UNCHANGED <<fs, made, args, recovers, result, calls, died, redone, left>>

\* removeFile(newPath)
Clear ==
    /\ pc = "clear"
    /\ \/ fs' = [fs EXCEPT ![New(paths[i])] = NoFile] /\ pc' = "link"
       \/ UNCHANGED fs /\ pc' = "undo"
    /\ UNCHANGED <<made, args, i, recovers, result, calls, blind, died, redone, left>>

\* createHardLink(path, newPath); there may be nothing to link by now.
Link ==
    /\ pc = "link"
    /\ \/ /\ fs[paths[i]] # NoFile
          /\ fs' = [fs EXCEPT ![New(paths[i])] = fs[paths[i]]]
          /\ recovers' = Append(recovers, New(paths[i]))
          /\ i' = i + 1
          /\ pc' = "test"
       \/ pc' = "undo" /\ UNCHANGED <<fs, recovers, i>>
    /\ UNCHANGED <<made, args, result, calls, blind, died, redone, left>>

\* Mutant: the files are removed one link early.
Moved_Early ==
    /\ pc = "test"
    /\ i >= Len(paths)
    /\ pc' = "remove"
    /\ i' = 1
    /\ UNCHANGED <<fs, made, args, recovers, result, calls, blind, died, redone, left>>

\* All links are made.
Moved ==
    /\ pc = "test"
    /\ i = Len(paths) + 1
    /\ pc' = "remove"
    /\ i' = 1
    /\ UNCHANGED <<fs, made, args, recovers, result, calls, blind, died, redone, left>>

\* removeFiles(paths): from the first, until one fails.
RemoveSource ==
    /\ pc = "remove"
    /\ \/ /\ i =< Len(paths)
          /\ fs' = [fs EXCEPT ![paths[i]] = NoFile]
          /\ i' = i + 1
          /\ UNCHANGED <<pc, result, left>>
       \/ /\ result' = TRUE
          /\ pc' = "idle"
          /\ left' = (left \/ i =< Len(paths))
          /\ UNCHANGED <<fs, i>>
    /\ UNCHANGED <<made, args, recovers, calls, blind, died, redone>>

\* Mutant: one link is forgotten.
Undo_NotLast ==
    /\ pc = "undo"
    /\ IF Len(recovers) =< 1
       THEN /\ pc' = "idle"
            /\ UNCHANGED <<fs, recovers, left>>
       ELSE /\ \/ fs' = [fs EXCEPT ![Head(recovers)] = NoFile] /\ UNCHANGED left
               \/ UNCHANGED fs /\ left' = TRUE
            /\ recovers' = Tail(recovers)
            /\ UNCHANGED pc
    /\ UNCHANGED <<made, args, i, result, calls, blind, died, redone>>

\* One link after the other is removed again; a failure is ignored.
Undo ==
    /\ pc = "undo"
    /\ IF recovers = <<>>
       THEN /\ pc' = "idle"
            /\ UNCHANGED <<fs, recovers, left>>
       ELSE /\ \/ fs' = [fs EXCEPT ![Head(recovers)] = NoFile] /\ UNCHANGED left
               \/ UNCHANGED fs /\ left' = TRUE
            /\ recovers' = Tail(recovers)
            /\ UNCHANGED pc
    /\ UNCHANGED <<made, args, i, result, calls, blind, died, redone>>

\* The app dies; the file system stays.
Die ==
    /\ pc # "idle"
    /\ pc' = "idle"
    /\ died' = TRUE
    /\ UNCHANGED <<fs, made, args, i, recovers, result, calls, blind, redone, left>>

Next == Call \/ Test \/ Clear \/ Link \/ Moved \/ RemoveSource \/ Undo \/ Die

Spec == Init /\ [][Next]_vars

-----------------------------------------------------------------------------
(* Properties                                                              *)

\* The variables keep their types.
TypeOK ==
    /\ fs \in [Path -> Path \cup {NoFile}]
    /\ made \in BOOLEAN /\ paths \in Lists /\ directory \in Dir
    /\ pc \in {"idle", "test", "clear", "link", "remove", "undo"}
    /\ i \in 1..Len(paths) + 1
    /\ recovers \in Seq(Path)
    /\ {result, died, redone, left} \subseteq BOOLEAN
    /\ calls \in 0..MaxCalls
    /\ owed \subseteq Path /\ blind \subseteq Path

\* A move of files of different names to a directory they are not in.
IsProper ==
    /\ \A j, k \in DOMAIN paths : j # k => paths[j][2] # paths[k][2]
    /\ \A j \in DOMAIN paths : paths[j][1] # directory

InSource == \A f \in owed : fs[f] = f

InDestination == \A f \in owed : fs[New(f)] = f

\* No file is ever lost, however often the move fails or the app dies, but
\* for one whose existence could not be tested.
NothingLost == IsProper => \A f \in owed \ blind : fs[f] = f \/ fs[New(f)] = f

\* Even if the app dies between two files, one of the directories has them
\* all: every link is made before the first file is removed.  A move that is
\* tried again after that may split them.
WholeSomewhere == IsProper /\ blind = {} => redone \/ InSource \/ InDestination

\* "This interface can make sure all of your data is in source or
\* destination", says the documentation of moveFilesToDirectory.
AllDataSomewhere == blind = {} => InSource \/ InDestination

\* After true every file is in the destination, and none in the source if
\* all could be removed there.
TrueIsMoved ==
    IsProper /\ result =>
        \A f \in owed \ blind : fs[New(f)] = f /\ (fs[f] = f => left)

\* If no call was cut short, false means that nothing has moved.
FalseIsUnmoved ==
    IsProper /\ pc = "idle" /\ ~ result /\ ~ died =>
        InSource /\ (left \/ \A f \in owed : fs[New(f)] # f)

\* Wherever the move is, the files are where it can find them again.
Coherent ==
    /\ TypeOK
    /\ NothingLost
    /\ WholeSomewhere

\* What the move returns is what became of the files.
AnswerIsTrue == TrueIsMoved /\ FalseIsUnmoved

=============================================================================
