---------------------------- MODULE BoardProofs ----------------------------
(***************************************************************************)
(* Lemmas about the geometry of the board and about one move, for every    *)
(* set of persons with shapes 1x1, 1x2, 2x1 and 2x2.  They are about the   *)
(* operators of KlotskiBoard alone: the level, the session and the solver  *)
(* use them for boards that they keep in different variables.              *)
(***************************************************************************)
EXTENDS KlotskiBoard, TLAPS

USE DEF Columns, Rows, BigSquare

\* A person of one of the four shapes has a type other than PersonFoo.
LEMMA TypeRange == \A p \in Person : Type(p) \in 1..4
  <1> SUFFICES ASSUME NEW p \in Person PROVE Type(p) \in 1..4
    OBVIOUS
  <1> DEFINE S(w, h) == Shape[p] = [width |-> w, height |-> h]
  <1>1. PICK w \in 1..2, h \in 1..2 : S(w, h)
    BY ShapeAssumption
  <1>2. S(1, 1) \/ S(1, 2) \/ S(2, 1) \/ S(2, 2)
    BY <1>1
  <1>3. S(1, 1) => Type(p) = 1
    BY DEF Type
  <1>4. S(1, 2) => Type(p) = 2
    BY DEF Type
  <1>5. S(2, 1) => Type(p) = 3
    BY DEF Type
  <1>6. S(2, 2) => Type(p) = 4
    BY DEF Type
  <1> QED
    BY <1>2, <1>3, <1>4, <1>5, <1>6

\* A person's sides, as numbers.
LEMMA Sides == \A p \in Person : Shape[p].width \in 1..2 /\ Shape[p].height \in 1..2
  BY ShapeAssumption

\* On the board, a person covers cells of the array.
LEMMA CellsOnBoard ==
  ASSUME NEW p \in Person, NEW a \in Place,
         a.x + Shape[p].width =< 4, a.y + Shape[p].height =< 5
  PROVE  Cells(p, a) \subseteq Cell
  BY Sides DEF Cells, CellsAt, Xs, Ys, Cell, Place

\* What a rebuild writes, cell by cell, when the persons are apart.
LEMMA CodeOfPersons ==
  ASSUME NEW places, Apart(places), NEW c \in Cell
  PROVE  /\ \A p \in Person : c \in Cells(p, places[p]) => CodeOf(places)[c] = Type(p)
         /\ (\A p \in Person : c \notin Cells(p, places[p])) => CodeOf(places)[c] = 0
  <1> DEFINE on == {p \in Person : c \in Cells(p, places[p])}
             last == CHOOSE p \in on : \A q \in on : q =< p
  <1>1. CodeOf(places)[c] = IF on = {} THEN 0 ELSE Type(last)
    BY DEF CodeOf
  <1>2. ASSUME NEW p \in Person, c \in Cells(p, places[p])
        PROVE  CodeOf(places)[c] = Type(p)
    <2>1. on = {p}
      BY <1>2 DEF Apart
    <2>2. p =< p
      BY PersonAssumption
    <2>3. last = p
      BY <2>1, <2>2
    <2> QED
      BY <1>1, <2>1, <2>3
  <1>3. ASSUME \A p \in Person : c \notin Cells(p, places[p])
        PROVE  CodeOf(places)[c] = 0
    <2>1. on = {}
      BY <1>3
    <2> QED
      BY <1>1, <2>1
  <1> QED
    BY <1>2, <1>3

\* A rebuild fills every cell with a PersonType.
LEMMA CodeOfType ==
  ASSUME NEW places, Apart(places)
  PROVE  CodeOf(places) \in [Cell -> PersonType]
  <1>1. CodeOf(places) = [c \in Cell |-> CodeOf(places)[c]]
    BY DEF CodeOf
  <1>2. ASSUME NEW c \in Cell PROVE CodeOf(places)[c] \in PersonType
    <2>1. CASE \E p \in Person : c \in Cells(p, places[p])
      BY <2>1, CodeOfPersons, TypeRange DEF PersonType
    <2>2. CASE \A p \in Person : c \notin Cells(p, places[p])
      BY <2>2, CodeOfPersons DEF PersonType
    <2> QED
      BY <2>1, <2>2
  <1> QED
    BY <1>1, <1>2

\* The index j * 4 + i tells squares of the board apart.
LEMMA CellsApart ==
  ASSUME NEW cs1 \in SUBSET (0..3), NEW cs2 \in SUBSET (0..3),
         NEW rs1 \in SUBSET (0..4), NEW rs2 \in SUBSET (0..4),
         cs1 \cap cs2 = {} \/ rs1 \cap rs2 = {}
  PROVE  CellsAt(cs1, rs1) \cap CellsAt(cs2, rs2) = {}
  <1>1. ASSUME NEW i1 \in 0..3, NEW i2 \in 0..3, NEW j1 \in 0..4, NEW j2 \in 0..4,
               j1 * 4 + i1 = j2 * 4 + i2
        PROVE  i1 = i2 /\ j1 = j2
    BY <1>1
  <1> QED
    BY <1>1 DEF CellsAt

\* A block of cells that loses the column "out" and gains the column "in".
LEMMA ColumnsChange ==
  ASSUME NEW cs \in SUBSET (0..3), NEW rs \in SUBSET (0..4),
         NEW out \in cs, NEW in \in 0..3, in \notin cs
  PROVE  /\ CellsAt({in}, rs) \subseteq Cell
         /\ CellsAt({in}, rs) \cap CellsAt(cs, rs) = {}
         /\ CellsAt({out}, rs) \subseteq CellsAt(cs, rs)
         /\ CellsAt((cs \ {out}) \cup {in}, rs)
              = (CellsAt(cs, rs) \ CellsAt({out}, rs)) \cup CellsAt({in}, rs)
  <1>1. CellsAt({in}, rs) \cap CellsAt(cs, rs) = {}
    BY CellsApart
  <1>2. CellsAt({out}, rs) \cap CellsAt(cs \ {out}, rs) = {}
    BY CellsApart
  <1>3. CellsAt(cs, rs) = CellsAt({out}, rs) \cup CellsAt(cs \ {out}, rs)
    BY DEF CellsAt
  <1>4. CellsAt((cs \ {out}) \cup {in}, rs) = CellsAt(cs \ {out}, rs) \cup CellsAt({in}, rs)
    BY DEF CellsAt
  <1>5. CellsAt({in}, rs) \subseteq Cell
    BY DEF CellsAt, Cell
  <1> QED
    BY <1>1, <1>2, <1>3, <1>4, <1>5

\* The same for a row.
LEMMA RowsChange ==
  ASSUME NEW cs \in SUBSET (0..3), NEW rs \in SUBSET (0..4),
         NEW out \in rs, NEW in \in 0..4, in \notin rs
  PROVE  /\ CellsAt(cs, {in}) \subseteq Cell
         /\ CellsAt(cs, {in}) \cap CellsAt(cs, rs) = {}
         /\ CellsAt(cs, {out}) \subseteq CellsAt(cs, rs)
         /\ CellsAt(cs, (rs \ {out}) \cup {in})
              = (CellsAt(cs, rs) \ CellsAt(cs, {out})) \cup CellsAt(cs, {in})
  <1>1. CellsAt(cs, {in}) \cap CellsAt(cs, rs) = {}
    BY CellsApart
  <1>2. CellsAt(cs, {out}) \cap CellsAt(cs, rs \ {out}) = {}
    BY CellsApart
  <1>3. CellsAt(cs, rs) = CellsAt(cs, {out}) \cup CellsAt(cs, rs \ {out})
    BY DEF CellsAt
  <1>4. CellsAt(cs, (rs \ {out}) \cup {in}) = CellsAt(cs, rs \ {out}) \cup CellsAt(cs, {in})
    BY DEF CellsAt
  <1>5. CellsAt(cs, {in}) \subseteq Cell
    BY DEF CellsAt, Cell
  <1> QED
    BY <1>1, <1>2, <1>3, <1>4, <1>5

\* The geometry of one move: away from the edge, the person stays on the
\* board, and exchanges the cells of Rear for those of Front.
LEMMA OneMove ==
  ASSUME NEW p \in Person, NEW a \in Place, NEW d \in Direction,
         a.x + Shape[p].width =< 4, a.y + Shape[p].height =< 5,
         ~ AtEdge(p, a, d)
  PROVE  /\ Shift(a, d) \in Place
         /\ Shift(a, d).x + Shape[p].width =< 4
         /\ Shift(a, d).y + Shape[p].height =< 5
         /\ Front(p, a, d) \subseteq Cell
         /\ Front(p, a, d) \cap Cells(p, a) = {}
         /\ Rear(p, a, d) \subseteq Cells(p, a)
         /\ Cells(p, Shift(a, d)) = (Cells(p, a) \ Rear(p, a, d)) \cup Front(p, a, d)
  <1> DEFINE b == Shift(a, d)
             cs == Xs(p, a)
             rs == Ys(p, a)
  <1>1. PICK x \in 0..3, y \in 0..4 : a = [x |-> x, y |-> y]
    BY DEF Place
  <1>2. PICK w \in 1..2, h \in 1..2 : Shape[p].width = w /\ Shape[p].height = h
    BY Sides
  <1>3. x + w =< 4 /\ y + h =< 5
    BY <1>1, <1>2
  <1>4. cs = x .. (x + w - 1) /\ rs = y .. (y + h - 1)
    BY <1>1, <1>2 DEF Xs, Ys
  <1>5. cs \in SUBSET (0..3) /\ rs \in SUBSET (0..4)
    BY <1>3, <1>4
  <1>6. CASE d = "Right"
    <2> DEFINE out == x
               in == x + w
    <2>1. b = [x |-> x + 1, y |-> y] /\ x + w # 4
      BY <1>6, <1>1, <1>2 DEF Shift, AtEdge
    <2>2. in \in 0..3
      BY <1>3, <2>1
    <2>3. b \in Place /\ b.x + w =< 4 /\ b.y + h =< 5
      BY <1>3, <2>1, <2>2 DEF Place
    <2>4. Front(p, a, d) = CellsAt({in}, rs) /\ Rear(p, a, d) = CellsAt({out}, rs)
      BY <1>6, <1>1, <1>2 DEF Front, Rear
    <2>5. out \in cs
      BY <1>4
    <2>6. in \notin cs
      BY <1>4
    <2>7. Xs(p, b) = (x + 1) .. (x + 1 + w - 1) /\ Ys(p, b) = rs
      BY <1>1, <1>2, <2>1 DEF Xs, Ys
    <2>8. (x + 1) .. (x + 1 + w - 1) = (cs \ {out}) \cup {in}
      <3>1. CASE w = 1
        BY <1>4, <3>1, SMTT(30)
      <3>2. CASE w = 2
        BY <1>4, <3>2, SMTT(30)
      <3> QED
        BY <3>1, <3>2
    <2> HIDE DEF cs, rs, in, out
    <2>9. /\ CellsAt({in}, rs) \subseteq Cell
          /\ CellsAt({in}, rs) \cap CellsAt(cs, rs) = {}
          /\ CellsAt({out}, rs) \subseteq CellsAt(cs, rs)
          /\ CellsAt((cs \ {out}) \cup {in}, rs)
               = (CellsAt(cs, rs) \ CellsAt({out}, rs)) \cup CellsAt({in}, rs)
      BY <1>5, <2>2, <2>5, <2>6, ColumnsChange
    <2> QED
      BY <1>2, <2>3, <2>4, <2>7, <2>8, <2>9 DEF Cells, cs, rs
  <1>7. CASE d = "Left"
    <2> DEFINE out == x + w - 1
               in == x - 1
    <2>1. b = [x |-> x - 1, y |-> y] /\ x # 0
      BY <1>7, <1>1, <1>2 DEF Shift, AtEdge
    <2>2. in \in 0..3
      BY <1>3, <2>1
    <2>3. b \in Place /\ b.x + w =< 4 /\ b.y + h =< 5
      BY <1>3, <2>1, <2>2 DEF Place
    <2>4. Front(p, a, d) = CellsAt({in}, rs) /\ Rear(p, a, d) = CellsAt({out}, rs)
      BY <1>7, <1>1, <1>2 DEF Front, Rear
    <2>5. out \in cs
      BY <1>4
    <2>6. in \notin cs
      BY <1>4
    <2>7. Xs(p, b) = (x - 1) .. (x - 1 + w - 1) /\ Ys(p, b) = rs
      BY <1>1, <1>2, <2>1 DEF Xs, Ys
    <2>8. (x - 1) .. (x - 1 + w - 1) = (cs \ {out}) \cup {in}
      <3>1. CASE w = 1
        BY <1>4, <3>1, SMTT(30)
      <3>2. CASE w = 2
        BY <1>4, <3>2, SMTT(30)
      <3> QED
        BY <3>1, <3>2
    <2> HIDE DEF cs, rs, in, out
    <2>9. /\ CellsAt({in}, rs) \subseteq Cell
          /\ CellsAt({in}, rs) \cap CellsAt(cs, rs) = {}
          /\ CellsAt({out}, rs) \subseteq CellsAt(cs, rs)
          /\ CellsAt((cs \ {out}) \cup {in}, rs)
               = (CellsAt(cs, rs) \ CellsAt({out}, rs)) \cup CellsAt({in}, rs)
      BY <1>5, <2>2, <2>5, <2>6, ColumnsChange
    <2> QED
      BY <1>2, <2>3, <2>4, <2>7, <2>8, <2>9 DEF Cells, cs, rs
  <1>8. CASE d = "UP"
    <2> DEFINE out == y + h - 1
               in == y - 1
    <2>1. b = [x |-> x, y |-> y - 1] /\ y # 0
      BY <1>8, <1>1, <1>2 DEF Shift, AtEdge
    <2>2. in \in 0..4
      BY <1>3, <2>1
    <2>3. b \in Place /\ b.x + w =< 4 /\ b.y + h =< 5
      BY <1>3, <2>1, <2>2 DEF Place
    <2>4. Front(p, a, d) = CellsAt(cs, {in}) /\ Rear(p, a, d) = CellsAt(cs, {out})
      BY <1>8, <1>1, <1>2 DEF Front, Rear
    <2>5. out \in rs
      BY <1>4
    <2>6. in \notin rs
      BY <1>4
    <2>7. Ys(p, b) = (y - 1) .. (y - 1 + h - 1) /\ Xs(p, b) = cs
      BY <1>1, <1>2, <2>1 DEF Xs, Ys
    <2>8. (y - 1) .. (y - 1 + h - 1) = (rs \ {out}) \cup {in}
      <3>1. CASE h = 1
        BY <1>4, <3>1, SMTT(30)
      <3>2. CASE h = 2
        BY <1>4, <3>2, SMTT(30)
      <3> QED
        BY <3>1, <3>2
    <2> HIDE DEF cs, rs, in, out
    <2>9. /\ CellsAt(cs, {in}) \subseteq Cell
          /\ CellsAt(cs, {in}) \cap CellsAt(cs, rs) = {}
          /\ CellsAt(cs, {out}) \subseteq CellsAt(cs, rs)
          /\ CellsAt(cs, (rs \ {out}) \cup {in})
               = (CellsAt(cs, rs) \ CellsAt(cs, {out})) \cup CellsAt(cs, {in})
      BY <1>5, <2>2, <2>5, <2>6, RowsChange
    <2> QED
      BY <1>2, <2>3, <2>4, <2>7, <2>8, <2>9 DEF Cells, cs, rs
  <1>9. CASE d = "Down"
    <2> DEFINE out == y
               in == y + h
    <2>1. b = [x |-> x, y |-> y + 1] /\ y + h # 5
      BY <1>9, <1>1, <1>2 DEF Shift, AtEdge
    <2>2. in \in 0..4
      BY <1>3, <2>1
    <2>3. b \in Place /\ b.x + w =< 4 /\ b.y + h =< 5
      BY <1>3, <2>1, <2>2 DEF Place
    <2>4. Front(p, a, d) = CellsAt(cs, {in}) /\ Rear(p, a, d) = CellsAt(cs, {out})
      BY <1>9, <1>1, <1>2 DEF Front, Rear
    <2>5. out \in rs
      BY <1>4
    <2>6. in \notin rs
      BY <1>4
    <2>7. Ys(p, b) = (y + 1) .. (y + 1 + h - 1) /\ Xs(p, b) = cs
      BY <1>1, <1>2, <2>1 DEF Xs, Ys
    <2>8. (y + 1) .. (y + 1 + h - 1) = (rs \ {out}) \cup {in}
      <3>1. CASE h = 1
        BY <1>4, <3>1, SMTT(30)
      <3>2. CASE h = 2
        BY <1>4, <3>2, SMTT(30)
      <3> QED
        BY <3>1, <3>2
    <2> HIDE DEF cs, rs, in, out
    <2>9. /\ CellsAt(cs, {in}) \subseteq Cell
          /\ CellsAt(cs, {in}) \cap CellsAt(cs, rs) = {}
          /\ CellsAt(cs, {out}) \subseteq CellsAt(cs, rs)
          /\ CellsAt(cs, (rs \ {out}) \cup {in})
               = (CellsAt(cs, rs) \ CellsAt(cs, {out})) \cup CellsAt(cs, {in})
      BY <1>5, <2>2, <2>5, <2>6, RowsChange
    <2> QED
      BY <1>2, <2>3, <2>4, <2>7, <2>8, <2>9 DEF Cells, cs, rs
  <1> QED
    BY <1>6, <1>7, <1>8, <1>9 DEF Direction

\* A person on the board has its columns and rows there.
LEMMA SidesOnBoard ==
  ASSUME NEW p \in Person, NEW a \in Place,
         a.x + Shape[p].width =< 4, a.y + Shape[p].height =< 5
  PROVE  Xs(p, a) \in SUBSET (0..3) /\ Ys(p, a) \in SUBSET (0..4)
  BY Sides DEF Xs, Ys, Place

-----------------------------------------------------------------------------
(* One move                                                                *)

\* Persons on the board and apart, and the array a rebuild would give.
BoardOf(places, board) ==
  /\ places \in [Person -> Place]
  /\ InBounds(places)
  /\ Apart(places)
  /\ board = CodeOf(places)

\* A cell that canMoveToDirection: reads as empty is covered by no person.
LEMMA EmptyIsFree ==
  ASSUME NEW places, NEW board, BoardOf(places, board),
         NEW c \in Cell, board[c] = 0, NEW q \in Person
  PROVE  c \notin Cells(q, places[q])
  <1> SUFFICES ASSUME c \in Cells(q, places[q]) PROVE FALSE
    OBVIOUS
  <1>1. board[c] = Type(q)
    BY CodeOfPersons DEF BoardOf
  <1>2. Type(q) # 0
    BY TypeRange
  <1> QED
    BY <1>1, <1>2

\* One guarded move: the persons stay on the board and apart, and the patched
\* array is the one a rebuild would give.
LEMMA SlideKeepsBoard ==
  ASSUME NEW places, NEW board, BoardOf(places, board),
         NEW p \in Person, NEW d \in Direction, CanMove(p, places[p], d, board),
         NEW moved, moved = [places EXCEPT ![p] = Shift(@, d)]
  PROVE  BoardOf(moved, Slide(p, places[p], d, board))
  <1> DEFINE a == places[p]
             b == Shift(a, d)
             F == Front(p, a, d)
             T == Rear(p, a, d)
             new == Slide(p, a, d, board)
  <1>1. a \in Place /\ a.x + Shape[p].width =< 4 /\ a.y + Shape[p].height =< 5
    BY DEF BoardOf, InBounds
  <1>2. ~ AtEdge(p, a, d) /\ \A c \in F : board[c] = 0
    BY DEF CanMove
  <1>3. /\ b \in Place /\ b.x + Shape[p].width =< 4 /\ b.y + Shape[p].height =< 5
        /\ F \subseteq Cell
        /\ F \cap Cells(p, a) = {}
        /\ T \subseteq Cells(p, a)
        /\ Cells(p, b) = (Cells(p, a) \ T) \cup F
    BY <1>1, <1>2, OneMove
  <1>4. \A c \in F, q \in Person : c \notin Cells(q, places[q])
    BY <1>2, <1>3, EmptyIsFree
  <1>5. moved = [places EXCEPT ![p] = b]
    OBVIOUS
  <1> HIDE DEF a, b, F, T
  <1>6. /\ moved \in [Person -> Place]
        /\ moved[p] = b
        /\ \A q \in Person \ {p} : moved[q] = places[q]
    BY <1>3, <1>5 DEF BoardOf
  <1>7. new = [c \in Cell |-> IF c \in F THEN Type(p)
                               ELSE IF c \in T THEN 0 ELSE board[c]]
    BY DEF Slide, F, T
  <1> HIDE DEF new
  <1>8. InBounds(moved)
    BY <1>3, <1>6 DEF BoardOf, InBounds
  <1>9. Apart(moved)
    <2>1. ASSUME NEW q \in Person \ {p}
          PROVE  Cells(p, b) \cap Cells(q, places[q]) = {}
      <3>1. Cells(p, a) \cap Cells(q, places[q]) = {}
        BY DEF BoardOf, Apart, a
      <3> QED
        BY <1>3, <1>4, <3>1
    <2>2. ASSUME NEW q \in Person \ {p}, NEW r \in Person \ {p}, q # r
          PROVE  Cells(q, places[q]) \cap Cells(r, places[r]) = {}
      BY <2>2 DEF BoardOf, Apart
    <2> QED
      BY <1>6, <2>1, <2>2 DEF Apart
  <1>10. new = CodeOf(moved)
    <2>1. \A c \in Cell : board[c] = CodeOf(places)[c]
      BY DEF BoardOf
    <2>2. ASSUME NEW c \in Cell PROVE new[c] = CodeOf(moved)[c]
      <3>1. CASE c \in F
        <4>1. c \in Cells(p, moved[p])
          BY <1>3, <1>6, <3>1
        <4> QED
          BY <1>7, <1>9, <3>1, <4>1, CodeOfPersons
      <3>2. CASE c \in T \ F
        <4>1. \A q \in Person : c \notin Cells(q, moved[q])
          <5>1. c \notin Cells(p, b)
            BY <1>3, <3>2
          <5>2. \A q \in Person \ {p} : c \notin Cells(q, places[q])
            BY <1>3, <3>2 DEF BoardOf, Apart, a
          <5> QED
            BY <1>6, <5>1, <5>2
        <4> QED
          BY <1>7, <1>9, <3>2, <4>1, CodeOfPersons
      <3>3. CASE c \notin F \cup T
        <4>1. new[c] = CodeOf(places)[c]
          BY <1>7, <2>1, <3>3
        <4>2. \A q \in Person : c \in Cells(q, moved[q]) <=> c \in Cells(q, places[q])
          BY <1>3, <1>6, <3>3 DEF a
        <4>3. CASE \E q \in Person : c \in Cells(q, places[q])
          <5>1. PICK q \in Person : c \in Cells(q, places[q])
            BY <4>3
          <5>2. CodeOf(places)[c] = Type(q)
            BY <5>1, CodeOfPersons DEF BoardOf
          <5>3. c \in Cells(q, moved[q])
            BY <4>2, <5>1
          <5>4. CodeOf(moved)[c] = Type(q)
            BY <1>9, <5>3, CodeOfPersons
          <5> QED
            BY <4>1, <5>2, <5>4
        <4>4. CASE \A q \in Person : c \notin Cells(q, places[q])
          <5>1. CodeOf(places)[c] = 0
            BY <4>4, CodeOfPersons DEF BoardOf
          <5>2. CodeOf(moved)[c] = 0
            BY <1>9, <4>2, <4>4, CodeOfPersons
          <5> QED
            BY <4>1, <5>1, <5>2
        <4> QED
          BY <4>3, <4>4
      <3> QED
        BY <3>1, <3>2, <3>3
    <2>3. new = [c \in Cell |-> new[c]]
      BY <1>7
    <2>4. CodeOf(moved) = [c \in Cell |-> CodeOf(moved)[c]]
      BY DEF CodeOf
    <2> QED
      BY <2>2, <2>3, <2>4
  <1> QED
    BY <1>6, <1>8, <1>9, <1>10 DEF BoardOf, new, a

-----------------------------------------------------------------------------
(* The parity of a board                                                   *)

\* Cells by colour, one colouring for each type: a person that moves by one
\* cell leaves and enters, together, an odd number of black cells of its type.
Black(t) ==
  CASE t = 1 -> {1, 3, 4, 6, 9, 11, 12, 14, 17, 19}
    [] t = 2 -> {5, 7, 8, 9, 10, 11, 12, 14}
    [] t = 3 -> {2, 3, 5, 6, 10, 11, 13, 14, 18, 19}
    [] t = 4 -> {6, 7, 9, 11, 13, 14}
    [] OTHER -> {}

Mark(c, t) == IF c \in Black(t) THEN 1 ELSE 0

\* The cells of a row that are black for what is on them; r is the row's first cell.
RowMarks(board, r) ==
  Mark(r, board[r]) + Mark(r + 1, board[r + 1]) + Mark(r + 2, board[r + 2]) + Mark(r + 3, board[r + 3])

Marks(board) ==
  RowMarks(board, 0) + RowMarks(board, 4) + RowMarks(board, 8) + RowMarks(board, 12) + RowMarks(board, 16)

Parity(board) == Marks(board) % 2

LEMMA MarkType == \A c, t : Mark(c, t) \in Int
  BY DEF Mark

LEMMA RowType == \A board, r : RowMarks(board, r) \in Int
  BY MarkType DEF RowMarks

LEMMA RowWrite ==
  ASSUME NEW f, NEW g, NEW r \in {0, 4, 8, 12, 16}, NEW a \in Cell,
         \A c \in Cell \ {a} : g[c] = f[c]
  PROVE  RowMarks(g, r) = IF a \in r .. r + 3
                          THEN RowMarks(f, r) - Mark(a, f[a]) + Mark(a, g[a])
                          ELSE RowMarks(f, r)
  <1>1. {r, r + 1, r + 2, r + 3} \subseteq Cell
    BY DEF Cell
  <1>2. CASE a \notin r .. r + 3
    <2>1. g[r] = f[r] /\ g[r + 1] = f[r + 1] /\ g[r + 2] = f[r + 2] /\ g[r + 3] = f[r + 3]
      BY <1>1, <1>2
    <2> QED
      BY <1>2, <2>1 DEF RowMarks
  <1>3. ASSUME NEW m0 \in Int, NEW m1 \in Int, NEW m2 \in Int, NEW m3 \in Int, NEW m \in Int
        PROVE  /\ m + m1 + m2 + m3 = m0 + m1 + m2 + m3 - m0 + m
               /\ m0 + m + m2 + m3 = m0 + m1 + m2 + m3 - m1 + m
               /\ m0 + m1 + m + m3 = m0 + m1 + m2 + m3 - m2 + m
               /\ m0 + m1 + m2 + m = m0 + m1 + m2 + m3 - m3 + m
    OBVIOUS
  <1>4. CASE a = r
    <2>1. g[r + 1] = f[r + 1] /\ g[r + 2] = f[r + 2] /\ g[r + 3] = f[r + 3]
      BY <1>1, <1>4
    <2> QED
      BY <1>3, <1>4, <2>1, MarkType DEF RowMarks
  <1>5. CASE a = r + 1
    <2>1. g[r] = f[r] /\ g[r + 2] = f[r + 2] /\ g[r + 3] = f[r + 3]
      BY <1>1, <1>5
    <2> QED
      BY <1>3, <1>5, <2>1, MarkType DEF RowMarks
  <1>6. CASE a = r + 2
    <2>1. g[r] = f[r] /\ g[r + 1] = f[r + 1] /\ g[r + 3] = f[r + 3]
      BY <1>1, <1>6
    <2> QED
      BY <1>3, <1>6, <2>1, MarkType DEF RowMarks
  <1>7. CASE a = r + 3
    <2>1. g[r] = f[r] /\ g[r + 1] = f[r + 1] /\ g[r + 2] = f[r + 2]
      BY <1>1, <1>7
    <2> QED
      BY <1>3, <1>7, <2>1, MarkType DEF RowMarks
  <1> QED
    BY <1>2, <1>4, <1>5, <1>6, <1>7 DEF Cell

\* Numbers that differ by an odd number differ modulo 2.
LEMMA OddStep ==
  ASSUME NEW m \in Int, NEW n \in Int, NEW k \in Int, n = m + 2 * k + 1
  PROVE  n % 2 # m % 2 /\ n % 2 \in 0..1 /\ m % 2 \in 0..1
  OBVIOUS

\* Numbers that differ by m - n + k - l, where m + n + k + l is odd.
LEMMA OddDifference ==
  ASSUME NEW s \in Int, NEW r \in Int, NEW m \in Int, NEW n \in Int, NEW k \in Int, NEW l \in Int,
         NEW i \in Int, m + n + k + l = 2 * i + 1, r = s + m - n + k - l
  PROVE  r % 2 # s % 2
  <1>1. r = s + 2 * (i - n - l) + 1 /\ i - n - l \in Int
    OBVIOUS
  <1> QED
    BY <1>1, OddStep

\* The count after one write.
LEMMA OneWrite ==
  ASSUME NEW f, NEW g, NEW a \in Cell, \A c \in Cell \ {a} : g[c] = f[c]
  PROVE  Marks(g) = Marks(f) - Mark(a, f[a]) + Mark(a, g[a])
  <1> DEFINE m == Mark(a, f[a])
             n == Mark(a, g[a])
  <1>1. m \in Int /\ n \in Int
    BY MarkType
  <1>2. ASSUME NEW r \in {0, 4, 8, 12, 16}
        PROVE  RowMarks(g, r) = IF a \in r .. r + 3 THEN RowMarks(f, r) - m + n ELSE RowMarks(f, r)
    BY RowWrite
  <1> HIDE DEF m, n
  <1>3. PICK s0 \in Int, s1 \in Int, s2 \in Int, s3 \in Int, s4 \in Int :
          /\ RowMarks(f, 0) = s0 /\ RowMarks(f, 4) = s1 /\ RowMarks(f, 8) = s2
          /\ RowMarks(f, 12) = s3 /\ RowMarks(f, 16) = s4
    BY RowType
  <1>4. \/ a \in 0..3 \/ a \in 4..7 \/ a \in 8..11 \/ a \in 12..15 \/ a \in 16..19
    BY DEF Cell
  <1>5. Marks(f) = s0 + s1 + s2 + s3 + s4
    BY <1>3 DEF Marks
  <1>6. Marks(g) = s0 + s1 + s2 + s3 + s4 - m + n
    BY <1>1, <1>2, <1>3, <1>4 DEF Marks
  <1>7. Marks(g) = Marks(f) - m + n
    BY <1>1, <1>5, <1>6
  <1> QED
    BY <1>7 DEF m, n

LEMMA OddMarks ==
  /\ \A x \in 0..2, y \in 0..4 : Mark(y * 4 + x, 1) + Mark(y * 4 + (x + 1), 1) = 1
  /\ \A x \in 0..3, y \in 0..3 : Mark(y * 4 + x, 1) + Mark((y + 1) * 4 + x, 1) = 1
  BY DEF Mark, Black

LEMMA OddMarks2 ==
  /\ \A x \in 0..3, y \in 0..2 : Mark(y * 4 + x, 2) + Mark((y + 2) * 4 + x, 2) = 1
  /\ \A x \in 0..2, y \in 0..3 : \E k \in 0..1 :
       Mark(y * 4 + x, 2) + Mark(y * 4 + (x + 1), 2) + Mark((y + 1) * 4 + x, 2) + Mark((y + 1) * 4 + (x + 1), 2) = 2 * k + 1
  BY DEF Mark, Black

LEMMA OddMarks3 ==
  /\ \A x \in 0..1, y \in 0..4 : Mark(y * 4 + x, 3) + Mark(y * 4 + (x + 2), 3) = 1
  /\ \A x \in 0..2, y \in 0..3 : \E k \in 0..1 :
       Mark(y * 4 + x, 3) + Mark(y * 4 + (x + 1), 3) + Mark((y + 1) * 4 + x, 3) + Mark((y + 1) * 4 + (x + 1), 3) = 2 * k + 1
  BY DEF Mark, Black

LEMMA OddMarks4 ==
  /\ \A x \in 0..1, y \in 0..3 : \E k \in 0..1 :
      Mark(y * 4 + x, 4) + Mark(y * 4 + (x + 2), 4) + Mark((y + 1) * 4 + x, 4) + Mark((y + 1) * 4 + (x + 2), 4) = 2 * k + 1
  /\ \A x \in 0..2, y \in 0..2 : \E k \in 0..1 :
      Mark(y * 4 + x, 4) + Mark(y * 4 + (x + 1), 4) + Mark((y + 2) * 4 + x, 4) + Mark((y + 2) * 4 + (x + 1), 4) = 2 * k + 1
  BY DEF Mark, Black

\* Board g is board f after a person of type t left the cells T for F.
Moves(f, g, t, F, T) ==
  /\ \A c \in F : f[c] = 0 /\ g[c] = t
  /\ \A c \in T : f[c] = t /\ g[c] = 0
  /\ \A c \in Cell : c \notin F /\ c \notin T => g[c] = f[c]

\* One cell gets a type and another one loses it.
LEMMA OneCellMoves ==
  ASSUME NEW f, NEW g, NEW t, NEW a \in Cell, NEW b \in Cell, a # b,
         Moves(f, g, t, {a}, {b})
  PROVE  Marks(g) = Marks(f) + Mark(a, t) - Mark(b, t)
  <1>0. /\ f[a] = 0 /\ g[a] = t /\ f[b] = t /\ g[b] = 0
        /\ \A c \in Cell \ {a, b} : g[c] = f[c]
    BY DEF Moves
  <1> DEFINE h == [c \in Cell |-> IF c = a THEN t ELSE f[c]]
  <1>1. h[a] = t /\ \A c \in Cell \ {a} : h[c] = f[c]
    OBVIOUS
  <1> HIDE DEF h
  <1>2. Marks(h) = Marks(f) - Mark(a, 0) + Mark(a, t)
    BY <1>0, <1>1, OneWrite
  <1>3. \A c \in Cell \ {b} : g[c] = h[c]
    BY <1>0, <1>1
  <1>4. Marks(g) = Marks(h) - Mark(b, t) + Mark(b, 0)
    BY <1>0, <1>1, <1>3, OneWrite
  <1>5. Mark(a, 0) = 0 /\ Mark(b, 0) = 0
    BY DEF Mark, Black
  <1>6. PICK m \in Int, n \in Int, s \in Int : Mark(a, t) = m /\ Mark(b, t) = n /\ Marks(f) = s
    BY MarkType, RowType DEF Marks
  <1> QED
    BY <1>2, <1>4, <1>5, <1>6

\* The same for two cells at once.
LEMMA TwoCellsMove ==
  ASSUME NEW f, NEW g, NEW t, NEW a1 \in Cell, NEW a2 \in Cell, NEW b1 \in Cell, NEW b2 \in Cell,
         a1 # a2, a1 # b1, a1 # b2, a2 # b1, a2 # b2, b1 # b2,
         Moves(f, g, t, {a1, a2}, {b1, b2})
  PROVE  Marks(g) = Marks(f) + Mark(a1, t) - Mark(b1, t) + Mark(a2, t) - Mark(b2, t)
  <1> DEFINE h == [c \in Cell |-> IF c = a1 THEN t ELSE IF c = b1 THEN 0 ELSE f[c]]
  <1>1. /\ h[a1] = t /\ h[b1] = 0
        /\ \A c \in Cell \ {a1, b1} : h[c] = f[c]
    OBVIOUS
  <1> HIDE DEF h
  <1>2. Moves(f, h, t, {a1}, {b1}) /\ Moves(h, g, t, {a2}, {b2})
    BY <1>1 DEF Moves
  <1>3. Marks(h) = Marks(f) + Mark(a1, t) - Mark(b1, t)
    BY <1>2, OneCellMoves
  <1>4. Marks(g) = Marks(h) + Mark(a2, t) - Mark(b2, t)
    BY <1>2, OneCellMoves
  <1> QED
    BY <1>3, <1>4

\* A move by one cell changes the parity when one of the two cells is black ...
LEMMA OneCellOdd ==
  ASSUME NEW f, NEW g, NEW t, NEW a \in Cell, NEW b \in Cell, a # b,
         Moves(f, g, t, {a}, {b}),
         Mark(a, t) + Mark(b, t) = 1
  PROVE  Parity(g) # Parity(f)
  <1>1. Marks(g) = Marks(f) + Mark(a, t) - Mark(b, t)
    BY OneCellMoves
  <1>2. PICK m \in Int, n \in Int, s \in Int, r \in Int :
           m = Mark(a, t) /\ n = Mark(b, t) /\ s = Marks(f) /\ r = Marks(g)
    BY MarkType, RowType DEF Marks
  <1>3. m + n + 0 + 0 = 2 * 0 + 1 /\ r = s + m - n + 0 - 0
    BY <1>1, <1>2
  <1> QED
    BY <1>2, <1>3, OddDifference DEF Parity

\* ... and a move by two cells when one or three of the four are.
LEMMA TwoCellsOdd ==
  ASSUME NEW f, NEW g, NEW t, NEW a1 \in Cell, NEW a2 \in Cell, NEW b1 \in Cell, NEW b2 \in Cell,
         a1 # a2, a1 # b1, a1 # b2, a2 # b1, a2 # b2, b1 # b2,
         Moves(f, g, t, {a1, a2}, {b1, b2}),
         NEW i \in Int, Mark(a1, t) + Mark(b1, t) + Mark(a2, t) + Mark(b2, t) = 2 * i + 1
  PROVE  Parity(g) # Parity(f)
  <1>1. Marks(g) = Marks(f) + Mark(a1, t) - Mark(b1, t) + Mark(a2, t) - Mark(b2, t)
    BY TwoCellsMove
  <1>2. PICK m \in Int, n \in Int, k \in Int, l \in Int :
           m = Mark(a1, t) /\ n = Mark(b1, t) /\ k = Mark(a2, t) /\ l = Mark(b2, t)
    BY MarkType
  <1>3. PICK s \in Int, r \in Int : s = Marks(f) /\ r = Marks(g)
    BY RowType DEF Marks
  <1>4. m + n + k + l = 2 * i + 1 /\ r = s + m - n + k - l
    BY <1>1, <1>2, <1>3
  <1> QED
    BY <1>3, <1>4, OddDifference DEF Parity

\* The type of a person by its sides.
LEMMA TypeOfSides ==
  ASSUME NEW p \in Person
  PROVE  LET w == Shape[p].width
             h == Shape[p].height
         IN  /\ w = 1 /\ h = 1 => Type(p) = 1
             /\ w = 1 /\ h = 2 => Type(p) = 2
             /\ w = 2 /\ h = 1 => Type(p) = 3
             /\ w = 2 /\ h = 2 => Type(p) = 4
  <1>1. PICK w \in 1..2, h \in 1..2 : Shape[p] = [width |-> w, height |-> h]
    BY ShapeAssumption
  <1>2. w = 1 /\ h = 1 => Type(p) = 1
    BY <1>1 DEF Type
  <1>3. w = 1 /\ h = 2 => Type(p) = 2
    BY <1>1 DEF Type
  <1>4. w = 2 /\ h = 1 => Type(p) = 3
    BY <1>1 DEF Type
  <1>5. w = 2 /\ h = 2 => Type(p) = 4
    BY <1>1 DEF Type
  <1> QED
    BY <1>1, <1>2, <1>3, <1>4, <1>5

\* A move over columns lo and lo + w has an odd number of black cells ...
LEMMA ColumnsOdd ==
  ASSUME NEW p \in Person, NEW w \in 1..2, NEW h \in 1..2,
         Shape[p].width = w, Shape[p].height = h,
         NEW lo \in 0..3, lo + w =< 3, NEW y \in 0..4, y + h =< 5
  PROVE  /\ h = 1 => Mark(y * 4 + lo, Type(p)) + Mark(y * 4 + (lo + w), Type(p)) = 1
         /\ h = 2 => \E k \in 0..1 :
              Mark(y * 4 + lo, Type(p)) + Mark(y * 4 + (lo + w), Type(p))
                + Mark((y + 1) * 4 + lo, Type(p)) + Mark((y + 1) * 4 + (lo + w), Type(p)) = 2 * k + 1
  <1>1. CASE w = 1 /\ h = 1
    <2>1. Type(p) = 1 /\ lo \in 0..2
      BY <1>1, TypeOfSides
    <2> QED
      BY <1>1, <2>1, OddMarks
  <1>2. CASE w = 1 /\ h = 2
    <2>1. Type(p) = 2 /\ lo \in 0..2 /\ y \in 0..3
      BY <1>2, TypeOfSides
    <2> QED
      BY <1>2, <2>1, OddMarks2
  <1>3. CASE w = 2 /\ h = 1
    <2>1. Type(p) = 3 /\ lo \in 0..1
      BY <1>3, TypeOfSides
    <2> QED
      BY <1>3, <2>1, OddMarks3
  <1>4. CASE w = 2 /\ h = 2
    <2>1. Type(p) = 4 /\ lo \in 0..1 /\ y \in 0..3
      BY <1>4, TypeOfSides
    <2> QED
      BY <1>4, <2>1, OddMarks4
  <1> QED
    BY <1>1, <1>2, <1>3, <1>4

\* ... and so has one over rows lo and lo + h.
LEMMA RowsOdd ==
  ASSUME NEW p \in Person, NEW w \in 1..2, NEW h \in 1..2,
         Shape[p].width = w, Shape[p].height = h,
         NEW lo \in 0..4, lo + h =< 4, NEW x \in 0..3, x + w =< 4
  PROVE  /\ w = 1 => Mark(lo * 4 + x, Type(p)) + Mark((lo + h) * 4 + x, Type(p)) = 1
         /\ w = 2 => \E k \in 0..1 :
              Mark(lo * 4 + x, Type(p)) + Mark((lo + h) * 4 + x, Type(p))
                + Mark(lo * 4 + (x + 1), Type(p)) + Mark((lo + h) * 4 + (x + 1), Type(p)) = 2 * k + 1
  <1>1. CASE w = 1 /\ h = 1
    <2>1. Type(p) = 1 /\ lo \in 0..3
      BY <1>1, TypeOfSides
    <2> QED
      BY <1>1, <2>1, OddMarks
  <1>2. CASE w = 1 /\ h = 2
    <2>1. Type(p) = 2 /\ lo \in 0..2
      BY <1>2, TypeOfSides
    <2> QED
      BY <1>2, <2>1, OddMarks2
  <1>3. CASE w = 2 /\ h = 1
    <2>1. Type(p) = 3 /\ lo \in 0..3 /\ x \in 0..2
      BY <1>3, TypeOfSides
    <2>2. \A i, j, k, l \in Int : i + k + j + l = i + j + k + l
      OBVIOUS
    <2> QED
      BY <1>3, <2>1, <2>2, OddMarks3, MarkType
  <1>4. CASE w = 2 /\ h = 2
    <2>1. Type(p) = 4 /\ lo \in 0..2 /\ x \in 0..2
      BY <1>4, TypeOfSides
    <2>2. \A i, j, k, l \in Int : i + k + j + l = i + j + k + l
      OBVIOUS
    <2> QED
      BY <1>4, <2>1, <2>2, OddMarks4, MarkType
  <1> QED
    BY <1>1, <1>2, <1>3, <1>4

\* The parity is 0 or 1.
LEMMA ParityType == \A board : Parity(board) \in 0..1
  <1> SUFFICES ASSUME NEW board PROVE Parity(board) \in 0..1
    OBVIOUS
  <1>1. PICK m \in Int : Marks(board) = m
    BY RowType DEF Marks
  <1>2. m + 2 * 0 + 1 \in Int
    BY <1>1
  <1> QED
    BY <1>1, <1>2, OddStep DEF Parity

\* Every move changes the parity of the board.
LEMMA MoveChangesParity ==
  ASSUME NEW places, NEW board, BoardOf(places, board),
         NEW p \in Person, NEW d \in Direction, CanMove(p, places[p], d, board)
  PROVE  Parity(Slide(p, places[p], d, board)) # Parity(board)
  <1> DEFINE a == places[p]
             t == Type(p)
             F == Front(p, a, d)
             T == Rear(p, a, d)
             new == Slide(p, a, d, board)
  <1>1. a \in Place /\ a.x + Shape[p].width =< 4 /\ a.y + Shape[p].height =< 5
    BY DEF BoardOf, InBounds
  <1>2. ~ AtEdge(p, a, d) /\ \A c \in F : board[c] = 0
    BY DEF CanMove
  <1>3. F \subseteq Cell /\ F \cap Cells(p, a) = {} /\ T \subseteq Cells(p, a)
    BY <1>1, <1>2, OneMove
  <1>4. T \subseteq Cell
    BY <1>1, <1>3, CellsOnBoard
  <1>5. \A c \in T : board[c] = t
    BY <1>3, <1>4, CodeOfPersons DEF BoardOf
  <1>6. new = [c \in Cell |-> IF c \in F THEN t ELSE IF c \in T THEN 0 ELSE board[c]]
    BY DEF Slide
  <1>7. PICK x \in 0..3, y \in 0..4 : a = [x |-> x, y |-> y]
    BY <1>1 DEF Place
  <1>8. PICK w \in 1..2, h \in 1..2 : Shape[p].width = w /\ Shape[p].height = h
    BY Sides
  <1>9. x + w =< 4 /\ y + h =< 5
    BY <1>1, <1>7, <1>8
  <1> HIDE DEF F, T, new
  <1>10. Moves(board, new, t, F, T)
    BY <1>2, <1>3, <1>4, <1>5, <1>6 DEF Moves
  <1>11. Marks(new) \in Int /\ Marks(board) \in Int
    BY RowType DEF Marks
  <1>12. ASSUME NEW lo \in 0..3, lo + w =< 3, NEW in \in 0..3, NEW out \in 0..3,
                \/ in = lo /\ out = lo + w
                \/ in = lo + w /\ out = lo,
                F = CellsAt({in}, y .. y + h - 1), T = CellsAt({out}, y .. y + h - 1)
         PROVE  Parity(new) # Parity(board)
    <2> DEFINE a1 == y * 4 + in
               b1 == y * 4 + out
               a2 == (y + 1) * 4 + in
               b2 == (y + 1) * 4 + out
    <2>1. a1 \in Cell /\ b1 \in Cell /\ a1 # b1
      BY <1>12 DEF Cell
    <2>2. h = 2 => /\ a2 \in Cell /\ b2 \in Cell
                   /\ a1 # a2 /\ a1 # b2 /\ a2 # b1 /\ a2 # b2 /\ b1 # b2
      BY <1>9, <1>12 DEF Cell
    <2>3. CASE h = 1
      <3>1. F = {a1} /\ T = {b1}
        <4>1. y .. y + h - 1 = {y}
          BY <2>3
        <4>2. CellsAt({in}, {y}) = {a1} /\ CellsAt({out}, {y}) = {b1}
          BY DEF CellsAt
        <4> QED
          BY <1>12, <4>1, <4>2
      <3>2. Mark(y * 4 + lo, t) + Mark(y * 4 + (lo + w), t) = 1
        BY <1>8, <1>9, <1>12, <2>3, ColumnsOdd
      <3>3. Mark(a1, t) + Mark(b1, t) = 1
        BY <1>12, <3>2, MarkType
      <3> HIDE DEF a1, b1, t
      <3> QED
        BY <1>10, <2>1, <3>1, <3>3, OneCellOdd
    <2>4. CASE h = 2
      <3>1. F = {a1, a2} /\ T = {b1, b2}
        <4>1. y .. y + h - 1 = {y, y + 1}
          BY <2>4
        <4>2. CellsAt({in}, {y, y + 1}) = {a1, a2}
          BY DEF CellsAt
        <4>3. CellsAt({out}, {y, y + 1}) = {b1, b2}
          BY DEF CellsAt
        <4> QED
          BY <1>12, <4>1, <4>2, <4>3
      <3>2. PICK i \in 0..1 :
              Mark(y * 4 + lo, t) + Mark(y * 4 + (lo + w), t)
                + Mark((y + 1) * 4 + lo, t) + Mark((y + 1) * 4 + (lo + w), t) = 2 * i + 1
        BY <1>8, <1>9, <1>12, <2>4, ColumnsOdd
      <3>3. Mark(a1, t) + Mark(b1, t) + Mark(a2, t) + Mark(b2, t) = 2 * i + 1
        <4>1. CASE in = lo
          BY <1>12, <3>2, <4>1
        <4>2. CASE in # lo
          <5>1. Mark(b1, t) + Mark(a1, t) + Mark(b2, t) + Mark(a2, t) = 2 * i + 1
            BY <1>12, <3>2, <4>2
          <5> HIDE DEF a1, a2, b1, b2, t
          <5> QED
            BY <5>1, MarkType
        <4> QED
          BY <4>1, <4>2
      <3> HIDE DEF a1, a2, b1, b2, t
      <3> QED
        BY <1>10, <2>1, <2>2, <2>4, <3>1, <3>3, TwoCellsOdd
    <2> QED
      BY <2>3, <2>4
  <1>13. ASSUME NEW lo \in 0..4, lo + h =< 4, NEW in \in 0..4, NEW out \in 0..4,
                \/ in = lo /\ out = lo + h
                \/ in = lo + h /\ out = lo,
                F = CellsAt(x .. x + w - 1, {in}), T = CellsAt(x .. x + w - 1, {out})
         PROVE  Parity(new) # Parity(board)
    <2> DEFINE a1 == in * 4 + x
               b1 == out * 4 + x
               a2 == in * 4 + (x + 1)
               b2 == out * 4 + (x + 1)
    <2>1. a1 \in Cell /\ b1 \in Cell /\ a1 # b1
      BY <1>13 DEF Cell
    <2>2. w = 2 => /\ a2 \in Cell /\ b2 \in Cell
                   /\ a1 # a2 /\ a1 # b2 /\ a2 # b1 /\ a2 # b2 /\ b1 # b2
      BY <1>9, <1>13 DEF Cell
    <2>3. CASE w = 1
      <3>1. F = {a1} /\ T = {b1}
        <4>1. x .. x + w - 1 = {x}
          BY <2>3
        <4>2. CellsAt({x}, {in}) = {a1} /\ CellsAt({x}, {out}) = {b1}
          BY DEF CellsAt
        <4> QED
          BY <1>13, <4>1, <4>2
      <3>2. Mark(lo * 4 + x, t) + Mark((lo + h) * 4 + x, t) = 1
        BY <1>8, <1>9, <1>13, <2>3, RowsOdd
      <3>3. Mark(a1, t) + Mark(b1, t) = 1
        BY <1>13, <3>2, MarkType
      <3> HIDE DEF a1, b1, t
      <3> QED
        BY <1>10, <2>1, <3>1, <3>3, OneCellOdd
    <2>4. CASE w = 2
      <3>1. F = {a1, a2} /\ T = {b1, b2}
        <4>1. x .. x + w - 1 = {x, x + 1}
          BY <2>4
        <4>2. CellsAt({x, x + 1}, {in}) = {a1, a2}
          BY DEF CellsAt
        <4>3. CellsAt({x, x + 1}, {out}) = {b1, b2}
          BY DEF CellsAt
        <4> QED
          BY <1>13, <4>1, <4>2, <4>3
      <3>2. PICK i \in 0..1 :
              Mark(lo * 4 + x, t) + Mark((lo + h) * 4 + x, t)
                + Mark(lo * 4 + (x + 1), t) + Mark((lo + h) * 4 + (x + 1), t) = 2 * i + 1
        BY <1>8, <1>9, <1>13, <2>4, RowsOdd
      <3>3. Mark(a1, t) + Mark(b1, t) + Mark(a2, t) + Mark(b2, t) = 2 * i + 1
        <4>1. CASE in = lo
          BY <1>13, <3>2, <4>1
        <4>2. CASE in # lo
          <5>1. Mark(b1, t) + Mark(a1, t) + Mark(b2, t) + Mark(a2, t) = 2 * i + 1
            BY <1>13, <3>2, <4>2
          <5> HIDE DEF a1, a2, b1, b2, t
          <5> QED
            BY <5>1, MarkType
        <4> QED
          BY <4>1, <4>2
      <3> HIDE DEF a1, a2, b1, b2, t
      <3> QED
        BY <1>10, <2>1, <2>2, <2>4, <3>1, <3>3, TwoCellsOdd
    <2> QED
      BY <2>3, <2>4
  <1>14. CASE d = "Right"
    <2>1. x + w # 4 /\ F = CellsAt({x + w}, y .. y + h - 1) /\ T = CellsAt({x}, y .. y + h - 1)
      BY <1>2, <1>7, <1>8, <1>14 DEF F, T, Front, Rear, AtEdge, Ys
    <2>2. x \in 0..3 /\ x + w \in 0..3 /\ x + w =< 3
      BY <1>9, <2>1
    <2> QED
      BY <1>12, <2>1, <2>2 DEF new
  <1>15. CASE d = "Left"
    <2>1. x # 0 /\ F = CellsAt({x - 1}, y .. y + h - 1) /\ T = CellsAt({x + w - 1}, y .. y + h - 1)
      BY <1>2, <1>7, <1>8, <1>15 DEF F, T, Front, Rear, AtEdge, Ys
    <2>2. x - 1 \in 0..3 /\ x + w - 1 \in 0..3 /\ x - 1 + w =< 3 /\ x + w - 1 = (x - 1) + w
      BY <1>9, <2>1
    <2> QED
      BY <1>12, <2>1, <2>2 DEF new
  <1>16. CASE d = "UP"
    <2>1. y # 0 /\ F = CellsAt(x .. x + w - 1, {y - 1}) /\ T = CellsAt(x .. x + w - 1, {y + h - 1})
      BY <1>2, <1>7, <1>8, <1>16 DEF F, T, Front, Rear, AtEdge, Xs
    <2>2. y - 1 \in 0..4 /\ y + h - 1 \in 0..4 /\ y - 1 + h =< 4 /\ y + h - 1 = (y - 1) + h
      BY <1>9, <2>1
    <2> QED
      BY <1>13, <2>1, <2>2 DEF new
  <1>17. CASE d = "Down"
    <2>1. y + h # 5 /\ F = CellsAt(x .. x + w - 1, {y + h}) /\ T = CellsAt(x .. x + w - 1, {y})
      BY <1>2, <1>7, <1>8, <1>17 DEF F, T, Front, Rear, AtEdge, Xs
    <2>2. y \in 0..4 /\ y + h \in 0..4 /\ y + h =< 4
      BY <1>9, <2>1
    <2> QED
      BY <1>13, <2>1, <2>2 DEF new
  <1> QED
    BY <1>14, <1>15, <1>16, <1>17 DEF Direction, new

-----------------------------------------------------------------------------
(* The moves as boards, and the won boards                                 *)

\* A shift that keeps the persons on the board and apart is one that
\* canMoveToDirection: allows.
LEMMA FreeShiftIsAllowed ==
  ASSUME NEW places, NEW board, BoardOf(places, board),
         NEW p \in Person, NEW d \in Direction,
         NEW moved, moved = [places EXCEPT ![p] = Shift(@, d)],
         moved[p] \in Place, InBounds(moved), Apart(moved)
  PROVE  CanMove(p, places[p], d, board)
  <1> DEFINE a == places[p]
             b == Shift(a, d)
             F == Front(p, a, d)
  <1>1. /\ a \in Place /\ a.x + Shape[p].width =< 4 /\ a.y + Shape[p].height =< 5
        /\ places \in [Person -> Place]
    BY DEF BoardOf, InBounds
  <1>2. moved[p] = b /\ \A q \in Person \ {p} : moved[q] = places[q]
    BY <1>1
  <1>3. b \in Place /\ b.x + Shape[p].width =< 4 /\ b.y + Shape[p].height =< 5
    BY <1>2 DEF InBounds
  <1>4. ~ AtEdge(p, a, d)
    <2>1. PICK x \in 0..3, y \in 0..4 : a = [x |-> x, y |-> y]
      BY <1>1 DEF Place
    <2>2. PICK w \in 1..2, h \in 1..2 : Shape[p].width = w /\ Shape[p].height = h
      BY Sides
    <2>3. CASE d = "Right"
      <3>1. b = [x |-> x + 1, y |-> y]
        BY <2>1, <2>3 DEF Shift
      <3> QED
        BY <1>3, <2>1, <2>2, <2>3, <3>1 DEF AtEdge, Place
    <2>4. CASE d = "Left"
      <3>1. b = [x |-> x - 1, y |-> y]
        BY <2>1, <2>4 DEF Shift
      <3> QED
        BY <1>3, <2>1, <2>2, <2>4, <3>1 DEF AtEdge, Place
    <2>5. CASE d = "UP"
      <3>1. b = [x |-> x, y |-> y - 1]
        BY <2>1, <2>5 DEF Shift
      <3> QED
        BY <1>3, <2>1, <2>2, <2>5, <3>1 DEF AtEdge, Place
    <2>6. CASE d = "Down"
      <3>1. b = [x |-> x, y |-> y + 1]
        BY <2>1, <2>6 DEF Shift
      <3> QED
        BY <1>3, <2>1, <2>2, <2>6, <3>1 DEF AtEdge, Place
    <2> QED
      BY <2>3, <2>4, <2>5, <2>6 DEF Direction
  <1>5. /\ F \subseteq Cell /\ F \cap Cells(p, a) = {} /\ F \subseteq Cells(p, b)
    BY <1>1, <1>4, OneMove
  <1>6. ASSUME NEW c \in F PROVE board[c] = 0
    <2>1. ASSUME NEW q \in Person PROVE c \notin Cells(q, places[q])
      <3>1. CASE q = p
        BY <1>5, <3>1
      <3>2. CASE q # p
        <4>1. Cells(p, moved[p]) \cap Cells(q, moved[q]) = {}
          BY <3>2 DEF Apart
        <4> QED
          BY <1>2, <1>5, <3>2, <4>1
      <3> QED
        BY <3>1, <3>2
    <2> QED
      BY <1>5, <2>1, CodeOfPersons DEF BoardOf
  <1>7. Type(p) # 0
    BY TypeRange
  <1> QED
    BY <1>4, <1>6, <1>7 DEF CanMove

\* A person in the last cell of the board that is two cells wide and high
\* stands at [2, 3], and from there it covers the cells 18 and 19.
LEMMA CornerPlace ==
  ASSUME NEW p \in Person, NEW a \in Place, Type(p) = BigSquare,
         a.x + Shape[p].width =< 4, a.y + Shape[p].height =< 5
  PROVE  /\ 19 \in Cells(p, a) => a = [x |-> 2, y |-> 3]
         /\ a = [x |-> 2, y |-> 3] => {18, 19} \subseteq Cells(p, a)
  <1>1. PICK x \in 0..3, y \in 0..4 : a = [x |-> x, y |-> y]
    BY DEF Place
  <1>2. Shape[p].width = 2 /\ Shape[p].height = 2
    <2> DEFINE S(w, h) == Shape[p] = [width |-> w, height |-> h]
    <2>1. PICK w \in 1..2, h \in 1..2 : S(w, h)
      BY ShapeAssumption
    <2>2. S(1, 1) \/ S(1, 2) \/ S(2, 1) \/ S(2, 2)
      BY <2>1
    <2>3. S(1, 1) => Type(p) = 1
      BY DEF Type
    <2>4. S(1, 2) => Type(p) = 2
      BY DEF Type
    <2>5. S(2, 1) => Type(p) = 3
      BY DEF Type
    <2> QED
      BY <2>2, <2>3, <2>4, <2>5
  <1>3. Cells(p, a) = {j * 4 + i : i \in x .. x + 1, j \in y .. y + 1}
    BY <1>1, <1>2 DEF Cells, CellsAt, Xs, Ys
  <1>4. x =< 2 /\ y =< 3
    BY <1>1, <1>2
  <1>5. ASSUME 19 \in Cells(p, a) PROVE a = [x |-> 2, y |-> 3]
    BY <1>1, <1>3, <1>4, <1>5
  <1>6. ASSUME a = [x |-> 2, y |-> 3] PROVE {18, 19} \subseteq Cells(p, a)
    <2>1. x = 2 /\ y = 3
      BY <1>1, <1>6
    <2>2. 18 = 4 * 4 + 2 /\ 19 = 4 * 4 + 3
      OBVIOUS
    <2> QED
      BY <1>3, <2>1, <2>2
  <1> QED
    BY <1>5, <1>6

\* A board is won exactly when a big square stands in the corner.
LEMMA GameOverIsCornerOf ==
  ASSUME NEW places \in [Person -> Place], InBounds(places), Apart(places)
  PROVE  GameOver(CodeOf(places))
           <=> \E p \in Person : Type(p) = BigSquare /\ places[p] = [x |-> 2, y |-> 3]
  <1>1. \A p \in Person : /\ places[p] \in Place
                          /\ places[p].x + Shape[p].width =< 4
                          /\ places[p].y + Shape[p].height =< 5
    BY DEF InBounds
  <1>2. 18 \in Cell /\ 19 \in Cell
    BY DEF Cell
  <1>3. ASSUME CodeOf(places)[19] = BigSquare
        PROVE  \E p \in Person : Type(p) = BigSquare /\ places[p] = [x |-> 2, y |-> 3]
    <2>1. PICK p \in Person : 19 \in Cells(p, places[p])
      BY <1>2, <1>3, CodeOfPersons
    <2>2. Type(p) = BigSquare
      BY <1>2, <1>3, <2>1, CodeOfPersons
    <2> QED
      BY <1>1, <2>1, <2>2, CornerPlace
  <1>4. ASSUME NEW p \in Person, Type(p) = BigSquare, places[p] = [x |-> 2, y |-> 3]
        PROVE  CodeOf(places)[18] = BigSquare /\ CodeOf(places)[19] = BigSquare
    <2>1. {18, 19} \subseteq Cells(p, places[p])
      BY <1>1, <1>4, CornerPlace
    <2> QED
      BY <1>2, <1>4, <2>1, CodeOfPersons
  <1> QED
    BY <1>3, <1>4 DEF GameOver

=============================================================================
