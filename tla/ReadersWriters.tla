--------------------------- MODULE ReadersWriters ---------------------------
(***************************************************************************)
(* What a read-write lock that prefers its writers promises: any number of *)
(* readers or one writer, and no new reader while a writer waits.          *)
(***************************************************************************)
EXTENDS Naturals

VARIABLES
    readers,  \* how many read
    writing,  \* whether somebody writes
    waiting   \* how many wait to write

vars == <<readers, writing, waiting>>

Init ==
    /\ readers = 0
    /\ writing = FALSE
    /\ waiting = 0

StartRead ==
    /\ ~ writing
    /\ waiting = 0
    /\ readers' = readers + 1
    /\ UNCHANGED <<writing, waiting>>

EndRead ==
    /\ readers > 0
    /\ readers' = readers - 1
    /\ UNCHANGED <<writing, waiting>>

\* A writer that finds the lock taken waits.
AskToWrite ==
    /\ writing \/ readers > 0
    /\ waiting' = waiting + 1
    /\ UNCHANGED <<readers, writing>>

\* It need not have waited: a free lock goes to whoever asks.
StartWrite ==
    /\ ~ writing
    /\ readers = 0
    /\ writing' = TRUE
    /\ waiting' \in {waiting, waiting - 1} \cap Nat
    /\ UNCHANGED readers

EndWrite ==
    /\ writing
    /\ writing' = FALSE
    /\ UNCHANGED <<readers, waiting>>

Next ==
    \/ StartRead
    \/ EndRead
    \/ AskToWrite
    \/ StartWrite
    \/ EndWrite

Spec == Init /\ [][Next]_vars

=============================================================================
