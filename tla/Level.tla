------------------------------- MODULE Level -------------------------------
(***************************************************************************)
(* The board of one Level object (Level.mm): the places of its persons and *)
(* the array `_onlyCode` that its moves keep up to date a few cells at a   *)
(* time, and that resetLayout and the setters rebuild from the persons.    *)
(***************************************************************************)
EXTENDS KlotskiBoard

VARIABLES
    personAry,    \* Person -> Place, the x and y of each person
    onlyCode      \* _onlyCode

boardVars == <<personAry, onlyCode>>

\* replacePersons: on a fresh level, or setOriginLayoutStr: on one read from
\* the table: the persons of the layout, and the board written from them.
BoardInit ==
    /\ personAry = Origin
    /\ onlyCode = CodeOf(Origin)

\* currentPersonAtIndex:moveTo:, which its caller guards with
\* currentPersonAtIndex:canMoveToDirection:.
MoveTo(p, d) ==
    /\ CanMove(p, personAry[p], d, onlyCode)
    /\ personAry' = [personAry EXCEPT ![p] = Shift(@, d)]
    /\ onlyCode' = Slide(p, personAry[p], d, onlyCode)

\* Mutant: the persons go home and the board is not rebuilt.
ResetLayout_StaleBoard ==
    /\ personAry' = Origin
    /\ UNCHANGED onlyCode

\* resetLayout, also the last step of setCurrentLayoutStr: (whose own loop
\* skips every token that _saveCurrentLayout writes, and so moves nobody).
ResetLayout ==
    /\ personAry' = Origin
    /\ onlyCode' = CodeOf(Origin)

BoardNext ==
    \/ \E p \in Person, d \in Direction : MoveTo(p, d)
    \/ ResetLayout

BoardSpec == BoardInit /\ [][BoardNext]_boardVars

-----------------------------------------------------------------------------
(* Properties                                                              *)

\* The persons stay in the 4 x 5 places and the board holds PersonTypes.
BoardTypeOK ==
    /\ personAry \in [Person -> Place]
    /\ onlyCode \in [Cell -> PersonType]

\* No person leaves the board and no two share a cell, although a move looks
\* at cell codes only and never at the other persons.
PersonsApart == InBounds(personAry) /\ Apart(personAry)

\* The array that the moves patch equals the one a rebuild would give: the
\* cells cleared and set by moveTo: are exactly those the person left and
\* entered.  Otherwise later moves are refused, or pass through a person.
BoardAgrees == onlyCode = CodeOf(personAry)

\* The inductive invariant.
Consistent == BoardTypeOK /\ PersonsApart /\ BoardAgrees

\* The puzzle, with the persons' places read as squares of the grid.
Puzzle == INSTANCE SlidingBlocks WITH
    Block <- Person,
    Width <- [p \in Person |-> Shape[p].width],
    Height <- [p \in Person |-> Shape[p].height],
    Start <- [p \in Person |-> <<Origin[p].x, Origin[p].y>>],
    Grid <- (0..Columns-1) \X (0..Rows-1),
    at <- [p \in Person |-> <<personAry[p].x, personAry[p].y>>]

\* Every step of the level is a step of the puzzle.
ImplementsPuzzle == Puzzle!Spec

\* canMoveToDirection: refuses no slide the puzzle allows and allows no
\* other: its edge tests and its scan of cell codes together decide exactly
\* whether the person would stay on the grid and clear of the others.
GuardExact ==
    \A p \in Person, d \in Direction :
        LET s == Shift(personAry[p], d)
        IN  CanMove(p, personAry[p], d, onlyCode) <=> Puzzle!Free(p, <<s.x, s.y>>)

Opposite(d) ==
    CASE d = "Right" -> "Left" [] d = "Left" -> "Right"
      [] d = "UP" -> "Down"    [] d = "Down" -> "UP"

\* A move can always be taken back, and taking it back restores the board
\* cell by cell: the writes of the four directions invert each other.
MovesUndo ==
    \A p \in Person, d \in Direction :
        CanMove(p, personAry[p], d, onlyCode) =>
            LET there == Shift(personAry[p], d)
                board == Slide(p, personAry[p], d, onlyCode)
            IN  /\ CanMove(p, there, Opposite(d), board)
                /\ Shift(there, Opposite(d)) = personAry[p]
                /\ Slide(p, there, Opposite(d), board) = onlyCode

\* isGameOver, which reads two cells, is true exactly when a big square
\* stands in the lower right corner.
GameOverIsCorner ==
    GameOver(onlyCode) <=>
        \E p \in Person : Type(p) = BigSquare /\ personAry[p] = [x |-> 2, y |-> 3]

=============================================================================
