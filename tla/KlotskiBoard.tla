---------------------------- MODULE KlotskiBoard ----------------------------
(***************************************************************************)
(* The geometry and the rules of the klotski board: what Level.mm computes *)
(* with a PersonStruct and the array<int, 20> `_onlyCode`.  A frame of a   *)
(* person is its place [x, y] (the fields that change) and its Shape       *)
(* [width, height] (the fields that never do).  The board is the flat      *)
(* array of the code, indexed y * 4 + x, holding a PersonType per cell.    *)
(***************************************************************************)
EXTENDS Integers

CONSTANTS
    Person,   \* the indices of personAry
    Shape,    \* Person -> [width, height]
    Origin    \* Person -> [x, y], the places that originLayoutStr spells

Columns == 4
Rows == 5

\* _onlyCode has 20 cells.
Cell == 0..19
Place == [x : 0..Columns-1, y : 0..Rows-1]

\* The enum PersonDirection, in the order the code tries the directions.
Direction == {"Right", "Left", "UP", "Down"}

\* The enum PersonType; 0 is PersonFoo, an empty cell.
PersonType == 0..4
BigSquare == 4

\* Person.type
Type(p) ==
    CASE Shape[p] = [width |-> 1, height |-> 1] -> 1
      [] Shape[p] = [width |-> 1, height |-> 2] -> 2
      [] Shape[p] = [width |-> 2, height |-> 1] -> 3
      [] Shape[p] = [width |-> 2, height |-> 2] -> BigSquare
      [] OTHER -> 0

\* The columns and the rows a person occupies when it is at place a.
Xs(p, a) == a.x .. (a.x + Shape[p].width - 1)
Ys(p, a) == a.y .. (a.y + Shape[p].height - 1)

\* The cells of columns cs and rows rs, by the code's index j * 4 + i.
CellsAt(cs, rs) == {j * 4 + i : i \in cs, j \in rs}

\* The cells _setCodeWithPerson: writes.
Cells(p, a) == CellsAt(Xs(p, a), Ys(p, a))

\* The board the code rebuilds from the persons: zeros, then one
\* _setCodeWithPerson: each in index order, so the last writer of a cell wins.
CodeOf(places) ==
    [c \in Cell |->
        LET on == {p \in Person : c \in Cells(p, places[p])}
        IN  IF on = {} THEN 0
            ELSE Type(CHOOSE p \in on : \A q \in on : q <= p)]

\* Mutant: the lower edge is a row too high.
AtEdge_DownEarly(p, a, d) ==
    CASE d = "Right" -> a.x + Shape[p].width = 4
      [] d = "Left"  -> a.x = 0
      [] d = "UP"    -> a.y = 0
      [] d = "Down"  -> a.y + Shape[p].height >= 4

\* A person at the border it would have to cross.
AtEdge(p, a, d) ==
    CASE d = "Right" -> a.x + Shape[p].width = 4
      [] d = "Left"  -> a.x = 0
      [] d = "UP"    -> a.y = 0
      [] d = "Down"  -> a.y + Shape[p].height = 5

\* The cells a move enters: those canMoveToDirection: reads and moveTo: sets.
Front(p, a, d) ==
    CASE d = "Right" -> CellsAt({a.x + Shape[p].width}, Ys(p, a))
      [] d = "Left"  -> CellsAt({a.x - 1}, Ys(p, a))
      [] d = "UP"    -> CellsAt(Xs(p, a), {a.y - 1})
      [] d = "Down"  -> CellsAt(Xs(p, a), {a.y + Shape[p].height})

\* Mutant: UP clears the row the person keeps when it is two rows high.
Rear_UpTopRow(p, a, d) ==
    CASE d = "Right" -> CellsAt({a.x}, Ys(p, a))
      [] d = "Left"  -> CellsAt({a.x + Shape[p].width - 1}, Ys(p, a))
      [] d = "UP"    -> CellsAt(Xs(p, a), {a.y})
      [] d = "Down"  -> CellsAt(Xs(p, a), {a.y})

\* The cells a move leaves: those moveTo: clears.
Rear(p, a, d) ==
    CASE d = "Right" -> CellsAt({a.x}, Ys(p, a))
      [] d = "Left"  -> CellsAt({a.x + Shape[p].width - 1}, Ys(p, a))
      [] d = "UP"    -> CellsAt(Xs(p, a), {a.y + Shape[p].height - 1})
      [] d = "Down"  -> CellsAt(Xs(p, a), {a.y})

\* personStruct:canMoveToDirection:checkBoard:
CanMove(p, a, d, board) ==
    /\ Type(p) # 0
    /\ ~ AtEdge(p, a, d)
    /\ \A c \in Front(p, a, d) : board[c] = 0

\* personStruct:moveTo:checkBoard:, the person's new place ...
Shift(a, d) ==
    CASE d = "Right" -> [a EXCEPT !.x = @ + 1]
      [] d = "Left"  -> [a EXCEPT !.x = @ - 1]
      [] d = "UP"    -> [a EXCEPT !.y = @ - 1]
      [] d = "Down"  -> [a EXCEPT !.y = @ + 1]

\* ... and the board after its writes; no cell is both entered and left.
Slide(p, a, d, board) ==
    [c \in Cell |-> IF c \in Front(p, a, d) THEN Type(p)
                    ELSE IF c \in Rear(p, a, d) THEN 0
                    ELSE board[c]]

\* isGameOverWithCheckBoard:
GameOver(board) == board[18] = BigSquare /\ board[19] = BigSquare

-----------------------------------------------------------------------------
(* The layouts of level.plist: persons of the four shapes, on the board,   *)
(* no two on one cell.                                                     *)

InBounds(places) ==
    \A p \in Person : /\ places[p].x + Shape[p].width =< Columns
                      /\ places[p].y + Shape[p].height =< Rows

Apart(places) ==
    \A p, q \in Person :
        p # q => Cells(p, places[p]) \cap Cells(q, places[q]) = {}

ASSUME PersonAssumption == Person \subseteq Nat

ASSUME ShapeAssumption == Shape \in [Person -> [width : 1..2, height : 1..2]]

ASSUME OriginAssumption ==
    /\ Origin \in [Person -> Place]
    /\ InBounds(Origin)
    /\ Apart(Origin)

=============================================================================
