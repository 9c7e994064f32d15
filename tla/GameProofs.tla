----------------------------- MODULE GameProofs -----------------------------
(***************************************************************************)
(* Proofs about the search for a solution, and about a level and the       *)
(* session that plays on it, for every set of persons with shapes 1x1,     *)
(* 1x2, 2x1 and 2x2 and every layout that puts them apart on the board,    *)
(* every start and depth of a search and every bound on the steps.         *)
(***************************************************************************)
EXTENDS LevelGame, Solver, BoardProofs, WellFoundedInduction

-----------------------------------------------------------------------------
(* The solver                                                              *)

\* A node of the right type whose two boards agree.
Good(node) == node \in Node /\ IsBoard(node)

\* A search that has ended was won, and a won search has a final node: the
\* chain starts from a node.
WonByNode ==
  /\ phase # "search" => victory
  /\ victory => finalTree \in Node

\* The inductive invariant.
SearchInv == SolverTypeOK /\ NodesAreBoards /\ WonByNode

\* The three loops run over persons and directions.
LEMMA TurnTypes ==
  ASSUME NEW t \in [k : Nat \ {0}, i : Person, direction : 0..3]
  PROVE  NextTurn(t) \in [k : Nat \ {0}, i : Person, direction : 0..3]
  <1>1. PICK k \in Nat \ {0}, i \in Person, n \in 0..3 : t = [k |-> k, i |-> i, direction |-> n]
    OBVIOUS
  <1>2. LastPerson \in Nat /\ Person = 0..LastPerson
    BY PersonsAreIndices
  <1>3. CASE n < 3
    <2>1. NextTurn(t) = [k |-> k, i |-> i, direction |-> n + 1]
      BY <1>1, <1>3 DEF NextTurn
    <2> QED
      BY <1>3, <2>1
  <1>4. CASE n = 3 /\ i < LastPerson
    <2>1. NextTurn(t) = [t EXCEPT !.i = @ + 1, !.direction = 0]
      BY <1>1, <1>4 DEF NextTurn
    <2>2. NextTurn(t) = [k |-> k, i |-> i + 1, direction |-> 0]
      BY <1>1, <2>1
    <2>3. i + 1 \in Person
      BY <1>2, <1>4
    <2> QED
      BY <2>2, <2>3
  <1>5. CASE n = 3 /\ ~ i < LastPerson
    <2>1. NextTurn(t) = [k |-> k + 1, i |-> 0, direction |-> 0]
      BY <1>1, <1>5 DEF NextTurn
    <2>2. 0 \in Person
      BY <1>2
    <2> QED
      BY <2>1, <2>2
  <1> QED
    BY <1>3, <1>4, <1>5

\* The son of a good father is good: its copy of the code is patched as its
\* copy of the persons is moved.
LEMMA SonIsGood ==
  ASSUME SearchInv, turn.k =< Len(breadthTree), Movable(turn)
  PROVE  Good(Son(turn))
  <1> DEFINE t == turn
             f == Father(t)
             d == Dir(t)
             p == t.i
             s == Son(t)
  <1>1. /\ t.k \in Nat \ {0} /\ p \in Person /\ t.direction \in 0..3
        /\ breadthTree \in Seq(Node) /\ buffer \in Nat \ {0}
    BY DEF SearchInv, SolverTypeOK
  <1>2. t.k \in DOMAIN breadthTree
    BY <1>1
  <1>3. f \in Node /\ IsBoard(f)
    BY <1>1, <1>2 DEF SearchInv, NodesAreBoards, Father
  <1>4. d \in Direction
    BY <1>1 DEF Dir, DirectionOf, Direction
  <1>5. CanMove(p, f.array[p], d, f.code)
    BY DEF Movable
  <1>6. BoardOf(f.array, f.code)
    BY <1>3 DEF IsBoard, BoardOf, Node
  <1>7. s = [code |-> Slide(p, f.array[p], d, f.code),
             array |-> [f.array EXCEPT ![p] = Shift(@, d)],
             index |-> f.index, moveTo |-> f.moveTo, before |-> <<buffer, t.k>>]
    BY DEF Son
  <1> HIDE DEF t, f, d, p, s
  <1>8. /\ s.array = [f.array EXCEPT ![p] = Shift(@, d)]
        /\ s.code = Slide(p, f.array[p], d, f.code)
        /\ s = [code |-> s.code, array |-> s.array, index |-> 0, moveTo |-> 0,
                before |-> <<buffer, t.k>>]
    <2>1. f.index = 0 /\ f.moveTo = 0
      BY <1>3 DEF Node
    <2> QED
      BY <1>7, <2>1
  <1>9. BoardOf(s.array, s.code)
    BY <1>1, <1>4, <1>5, <1>6, <1>8, SlideKeepsBoard
  <1>10. s.code \in [Cell -> PersonType]
    BY <1>9, CodeOfType DEF BoardOf
  <1>11. s \in Node
    <2>1. s.array \in [Person -> Place]
      BY <1>9 DEF BoardOf
    <2>2. <<buffer, t.k>> \in (Nat \ {0}) \X (Nat \ {0})
      BY <1>1
    <2> QED
      BY <1>8, <1>10, <2>1, <2>2 DEF Node
  <1> QED
    BY <1>9, <1>11 DEF Good, IsBoard, BoardOf, s, t

\* The root is the board of the level.
LEMMA InitSearch == SolverInit => SearchInv
  <1> SUFFICES ASSUME SolverInit PROVE SearchInv
    OBVIOUS
  <1> DEFINE root == TreeNode(CodeOf(start), start, NULL)
  <1>1. /\ start \in Boards /\ start \in [Person -> Place]
        /\ InBounds(start) /\ Apart(start)
    BY BoardsAssumption DEF SolverInit
  <1>2. root.code = CodeOf(start) /\ root.array = start
    BY DEF TreeNode
  <1>3. root \in Node
    BY <1>1, CodeOfType DEF TreeNode, Node
  <1>4. IsBoard(root)
    BY <1>1, <1>2 DEF IsBoard
  <1>5. breadthTree = <<root>> /\ all = <<>>
    BY DEF SolverInit
  <1> HIDE DEF root
  <1>6. breadthTree \in Seq(Node) /\ all \in Seq(Node)
    BY <1>3, <1>5
  <1>7. turn \in [k : Nat \ {0}, i : Person, direction : 0..3]
    BY PersonsAreIndices DEF SolverInit, FirstTurn
  <1>8. SolverTypeOK
    <2>1. /\ buffer = 1 /\ capacity = 1 /\ depth = 0
          /\ victory = FALSE /\ finalTree = NULL /\ phase = "search"
      BY DEF SolverInit
    <2>2. victory \in BOOLEAN /\ finalTree \in Node \cup {NULL}
      BY <2>1
    <2>3. /\ buffer \in Nat \ {0} /\ capacity \in Nat \ {0} /\ depth \in Nat
          /\ phase \in {"search", "chain", "done", "undefined"}
      BY <2>1
    <2> QED
      BY <1>1, <1>6, <1>7, <2>2, <2>3 DEF SolverTypeOK
  <1>9. NodesAreBoards
    BY <1>4, <1>5 DEF NodesAreBoards
  <1>10. WonByNode
    BY DEF SolverInit, WonByNode
  <1> QED
    BY <1>8, <1>9, <1>10 DEF SearchInv

LEMMA TryMoveSearch == SearchInv /\ TryMove => SearchInv'
  <1> SUFFICES ASSUME SearchInv, TryMove PROVE SearchInv'
    OBVIOUS
  <1>1. turn.k =< Len(breadthTree)
    BY DEF TryMove
  <1>2. UNCHANGED <<start, breadthTree, buffer, capacity, depth, phase>>
    BY DEF TryMove
  <1>3. turn' \in [k : Nat \ {0}, i : Person, direction : 0..3]
    BY TurnTypes DEF TryMove, SearchInv, SolverTypeOK
  <1>4. /\ victory' \in BOOLEAN
        /\ finalTree' \in Node \cup {NULL}
        /\ all' \in Seq(Node)
        /\ \A n \in DOMAIN all' : IsBoard(all'[n])
        /\ victory' => finalTree' \in Node
    <2>1. CASE ~ Movable(turn)
      BY <2>1 DEF TryMove, SearchInv, SolverTypeOK, NodesAreBoards, WonByNode
    <2>2. CASE Movable(turn)
      <3> DEFINE son == Son(turn)
      <3>1. son \in Node /\ IsBoard(son)
        BY <1>1, <2>2, SonIsGood DEF Good
      <3>2. /\ victory' = (victory \/ GameOver(son.code))
            /\ finalTree' = IF GameOver(son.code) THEN son ELSE finalTree
            /\ all' = IF IsSame(son) THEN all ELSE Append(all, son)
        BY <2>2 DEF TryMove
      <3> HIDE DEF son
      <3>3. all \in Seq(Node) /\ \A n \in DOMAIN all : IsBoard(all[n])
        BY DEF SearchInv, SolverTypeOK, NodesAreBoards
      <3>4. Append(all, son) \in Seq(Node) /\ \A n \in DOMAIN Append(all, son) : IsBoard(Append(all, son)[n])
        BY <3>1, <3>3
      <3>5. victory \in BOOLEAN /\ finalTree \in Node \cup {NULL}
        BY DEF SearchInv, SolverTypeOK
      <3>6. victory' \in BOOLEAN
        BY <3>2, <3>5
      <3>7. victory' => finalTree' \in Node
        BY <3>1, <3>2 DEF SearchInv, WonByNode
      <3> QED
        BY <3>1, <3>2, <3>3, <3>4, <3>5, <3>6, <3>7
    <2> QED
      BY <2>1, <2>2
  <1>5. phase = "search"
    BY DEF TryMove
  <1> QED
    BY <1>2, <1>3, <1>4, <1>5 DEF SearchInv, SolverTypeOK, NodesAreBoards, WonByNode

LEMMA NextLayerSearch == SearchInv /\ NextLayer => SearchInv'
  <1> SUFFICES ASSUME SearchInv, NextLayer PROVE SearchInv'
    OBVIOUS
  <1>1. /\ breadthTree' = all /\ all' = <<>>
        /\ depth' = depth + 1
        /\ UNCHANGED <<start, victory, finalTree>>
    BY DEF NextLayer
  <1>2. buffer' \in Nat \ {0} /\ capacity' \in Nat \ {0}
    BY DEF NextLayer, SearchInv, SolverTypeOK
  <1>3. turn' \in [k : Nat \ {0}, i : Person, direction : 0..3]
    BY PersonsAreIndices DEF NextLayer, FirstTurn
  <1>4. phase' \in {"search", "chain", "done", "undefined"}
    BY DEF NextLayer
  <1>5. SolverTypeOK'
    BY <1>1, <1>2, <1>3, <1>4 DEF SearchInv, SolverTypeOK
  <1>6. NodesAreBoards'
    BY <1>1 DEF SearchInv, NodesAreBoards
  <1>7. WonByNode'
    BY <1>1 DEF NextLayer, SearchInv, WonByNode
  <1> QED
    BY <1>5, <1>6, <1>7 DEF SearchInv

LEMMA FollowBeforeSearch == SearchInv /\ FollowBefore => SearchInv'
  <1> SUFFICES ASSUME SearchInv, FollowBefore PROVE SearchInv'
    OBVIOUS
  <1>1. UNCHANGED <<start, breadthTree, buffer, capacity, all, turn, depth, victory>>
    BY DEF FollowBefore
  <1>2. phase' \in {"search", "chain", "done", "undefined"}
    BY DEF FollowBefore
  <1>3. finalTree \in Node /\ victory /\ phase = "chain"
    BY DEF FollowBefore, SearchInv, WonByNode
  <1>4. finalTree' \in Node
    <2>1. CASE UNCHANGED finalTree
      BY <1>3, <2>1
    <2>2. CASE /\ finalTree.before # NULL /\ Alive(finalTree.before)
               /\ finalTree' = breadthTree[finalTree.before[2]]
      <3> DEFINE n == finalTree.before[2]
      <3>1. finalTree.before \in (Nat \ {0}) \X (Nat \ {0})
        BY <1>3, <2>2 DEF Node
      <3>2. n \in Nat \ {0}
        BY <3>1
      <3>3. n =< Len(breadthTree)
        BY <2>2 DEF Alive
      <3>4. breadthTree \in Seq(Node)
        BY DEF SearchInv, SolverTypeOK
      <3> HIDE DEF n
      <3>5. breadthTree[n] \in Node
        BY <3>2, <3>3, <3>4
      <3> QED
        BY <2>2, <3>5 DEF n
    <2> QED
      BY <2>1, <2>2 DEF FollowBefore
  <1> QED
    BY <1>1, <1>2, <1>3, <1>4 DEF SearchInv, SolverTypeOK, NodesAreBoards, WonByNode

LEMMA SearchInvAlways == SolverSpec => []SearchInv
  <1>1. SolverInit => SearchInv
    BY InitSearch
  <1>2. SearchInv /\ [SolverNext]_solverVars => SearchInv'
    <2>1. SearchInv /\ UNCHANGED solverVars => SearchInv'
      BY DEF solverVars, SearchInv, SolverTypeOK, NodesAreBoards, WonByNode
    <2> QED
      BY <2>1, TryMoveSearch, NextLayerSearch, FollowBeforeSearch DEF SolverNext
  <1> QED
    BY <1>1, <1>2, PTL DEF SolverSpec

\* Types of the search, at every depth.
THEOREM SolverTypeAlways == SolverSpec => []SolverTypeOK
  <1>1. SearchInv => SolverTypeOK
    BY DEF SearchInv
  <1> QED
    BY <1>1, SearchInvAlways, PTL

\* The persons and the code of every node agree, however long the search.
THEOREM NodesAreBoardsAlways == SolverSpec => []NodesAreBoards
  <1>1. SearchInv => NodesAreBoards
    BY DEF SearchInv
  <1> QED
    BY <1>1, SearchInvAlways, PTL

\* Types and boards of the search together, for every start and depth.
THEOREM SolverCoherentAlways == SolverSpec => []SolverCoherent
  BY SolverTypeAlways, NodesAreBoardsAlways, PTL DEF SolverCoherent

-----------------------------------------------------------------------------
(* The reference Within                                                    *)

\* A set that has 0 and the successors of its numbers has every number.
LEMMA EveryNumber ==
  ASSUME NEW S, 0 \in S, \A n \in Nat : n \in S => n + 1 \in S
  PROVE  Nat \subseteq S
  <1> DEFINE R == OpToRel(<, Nat)
             T == Nat \ S
  <1> SUFFICES ASSUME T # {} PROVE FALSE
    OBVIOUS
  <1>1. IsWellFoundedOn(R, Nat)
    BY NatLessThanWellFounded
  <1>2. \A m, n \in Nat : m < n => <<m, n>> \in R
    BY DEF OpToRel
  <1> HIDE DEF R
  <1>3. PICK n \in T : \A m \in T : ~ (<<m, n>> \in R)
    BY <1>1, WFMin
  <1>4. n # 0 /\ n - 1 \in Nat /\ n - 1 < n
    BY <1>3
  <1>5. n - 1 \in S
    BY <1>2, <1>3, <1>4
  <1> QED
    BY <1>3, <1>4, <1>5

\* The recursive definition of Within defines a function.
LEMMA WithinStep ==
    \A n \in 0 .. MaxDepth + 1 :
      Within[n] = [b \in Boards |-> IF n = 0 THEN {b} ELSE LET nearer == Within[n-1][b] IN nearer \cup UNION {Around(c) : c \in nearer}]
  <1> DEFINE Layer(f, n) == [b \in Boards |-> IF n = 0 THEN {b} ELSE LET nearer == f[n-1][b] IN nearer \cup UNION {Around(c) : c \in nearer}]
             To(m) == [n \in 0..m |-> 0]
             S == {m \in Nat : \E f : f = [n \in 0..m |-> Layer(f, n)]}
  <1>1. 0 \in S
    <2> DEFINE f == [n \in 0..0 |-> [b \in Boards |-> {b}]]
    <2>1. f = [n \in 0..0 |-> Layer(f, n)]
      <3>1. \A n \in 0..0 : Layer(f,n) = [b \in Boards |-> {b}]
         OBVIOUS
      <3> HIDE DEF Layer
      <3> QED BY <3>1
    <2> QED BY <2>1
  <1>2. ASSUME NEW m \in Nat, m \in S PROVE m + 1 \in S
    <2>1. PICK f : f = [n \in 0..m |-> Layer(f, n)]
      BY <1>2
    <2> DEFINE g == [n \in 0..m+1 |-> IF n =< m THEN f[n] ELSE Layer(f, n)]
    <2>2. \A n \in 0..m+1 : Layer(g, n) = Layer(f, n)
      <3>1. ASSUME NEW n \in 0..m+1 PROVE Layer(g, n) = Layer(f, n)
        <4>1. CASE n = 0
           BY <4>1
        <4>2. CASE n # 0
          <5>1. n - 1 \in 0..m+1 /\ n - 1 =< m
            BY <4>2
          <5>2. g[n-1] = f[n-1]
            BY <5>1
          <5> HIDE DEF g
          <5> QED BY <5>2
        <4> QED BY <4>1, <4>2
      <3> QED BY <3>1
    <2>3. \A n \in 0..m : f[n] = Layer(f, n)
      <3> HIDE DEF Layer
      <3> QED BY <2>1
    <2>4. g = [n \in 0..m+1 |-> Layer(g, n)]
      <3> HIDE DEF Layer
      <3> QED BY <2>2, <2>3
    <2> HIDE DEF g, Layer
    <2> QED BY <2>4
  <1> HIDE DEF S
  <1>3. Nat \subseteq S
    BY <1>1, <1>2, EveryNumber
  <1>4. MaxDepth + 1 \in S
    BY <1>3, MaxDepthAssumption
  <1>5. \E f : f = [n \in 0..MaxDepth + 1 |-> Layer(f, n)]
    <2> HIDE DEF Layer
    <2> QED BY <1>4 DEF S
  <1>6. Within = [n \in 0..MaxDepth + 1 |-> Layer(Within, n)]
    BY <1>5 DEF Within
  <1> HIDE DEF Layer
  <1>7. \A n \in 0..MaxDepth + 1 : Within[n] = Layer(Within, n)
    BY <1>6
  <1> QED BY <1>7 DEF Layer

\* The boards at no distance, and at most one move further than n.
LEMMA WithinGrows ==
  ASSUME NEW b \in Boards
  PROVE  /\ Within[0][b] = {b}
         /\ \A n \in 0 .. MaxDepth :
              Within[n + 1][b] = Within[n][b] \cup UNION {Around(c) : c \in Within[n][b]}
  <1>1. Within[0][b] = {b}
    <2>1. 0 \in 0 .. MaxDepth + 1
      BY MaxDepthAssumption
    <2> QED
      BY <2>1, WithinStep
  <1>2. ASSUME NEW n \in 0 .. MaxDepth
        PROVE  Within[n + 1][b] = Within[n][b] \cup UNION {Around(c) : c \in Within[n][b]}
    <2>1. n + 1 \in 0 .. MaxDepth + 1 /\ n + 1 # 0 /\ (n + 1) - 1 = n
      BY MaxDepthAssumption
    <2>2. Within[n + 1] = [x \in Boards |-> IF n + 1 = 0 THEN {x}
                             ELSE LET nearer == Within[(n + 1) - 1][x]
                                  IN  nearer \cup UNION {Around(c) : c \in nearer}]
      BY <2>1, WithinStep
    <2> QED
      BY <2>1, <2>2
  <1> QED
    BY <1>1, <1>2

-----------------------------------------------------------------------------
(* Breadth first                                                           *)

\* In the order of the loops, person i and direction n of element k have
\* their turn before turn t.
Earlier(k, i, n, t) ==
  \/ k < t.k
  \/ k = t.k /\ i < t.i
  \/ k = t.k /\ i = t.i /\ n < t.direction

\* Node f after a move of person i in direction n, when it can make one.
CanStep(f, i, n) == CanMove(i, f.array[i], DirectionOf[n], f.code)
Stepped(f, i, n) == [f.array EXCEPT ![i] = Shift(@, DirectionOf[n])]

\* The layer of the fathers: boards within depth moves, and all of those that
\* are not nearer.
FathersLayer ==
  /\ Arrays(breadthTree) \subseteq Within[depth][start]
  /\ depth = 0 => start \in Arrays(breadthTree)
  /\ depth > 0 => Within[depth][start] \ Within[depth - 1][start] \subseteq Arrays(breadthTree)

\* The layer of the sons: boards one move further, and all of those that the
\* turns until now have reached.
SonsLayer ==
  /\ Arrays(all) \subseteq Within[depth + 1][start]
  /\ \A k \in DOMAIN breadthTree, i \in Person, n \in 0..3 :
        Earlier(k, i, n, turn) /\ CanStep(breadthTree[k], i, n)
          => Stepped(breadthTree[k], i, n) \in Arrays(all)

\* Fathers have one parity, sons the other.
OneParity ==
  /\ \A m, n \in DOMAIN breadthTree : Parity(breadthTree[m].code) = Parity(breadthTree[n].code)
  /\ \A m, n \in DOMAIN all : Parity(all[m].code) = Parity(all[n].code)
  /\ \A m \in DOMAIN breadthTree, n \in DOMAIN all :
        Parity(breadthTree[m].code) # Parity(all[n].code)

\* No board within depth moves is won, and the final node is a won son.
FirstWin ==
  /\ \A b \in Within[depth][start] : ~ Wins(b)
  /\ victory => Wins(finalTree.array) /\ finalTree.array \in Within[depth + 1][start]
  /\ ~ victory => \A n \in DOMAIN all : ~ Wins(all[n].array)

Layers == phase = "search" =>
  /\ depth =< MaxDepth
  /\ FathersLayer
  /\ SonsLayer
  /\ OneParity
  /\ FirstWin

WayBack ==
  /\ \A n \in DOMAIN all : all[n].before # NULL
  /\ depth > 0 => \A n \in DOMAIN breadthTree : breadthTree[n].before # NULL
  /\ victory => finalTree.before # NULL
  /\ phase # "search" => depth > 0 /\ victory
  /\ phase # "done"

\* The numbers of the directions.
LEMMA DirectionNumbers ==
  /\ \A n \in 0..3 : DirectionOf[n] \in Direction
  /\ \A d \in Direction : \E n \in 0..3 : DirectionOf[n] = d
  <1>1. /\ DirectionOf[0] = "Right" /\ DirectionOf[1] = "Left"
        /\ DirectionOf[2] = "UP" /\ DirectionOf[3] = "Down"
    BY DEF DirectionOf
  <1>2. \A n \in 0..3 : n = 0 \/ n = 1 \/ n = 2 \/ n = 3
    OBVIOUS
  <1> QED
    BY <1>1, <1>2 DEF Direction

\* The moves that a node can make lead to the boards around its board.
LEMMA StepsAreAround ==
  ASSUME NEW f \in Node, IsBoard(f)
  PROVE  /\ \A i \in Person, n \in 0..3 :
              CanStep(f, i, n) => Stepped(f, i, n) \in Around(f.array)
         /\ \A c \in Around(f.array) : \E i \in Person, n \in 0..3 :
              CanStep(f, i, n) /\ c = Stepped(f, i, n)
  <1>1. BoardOf(f.array, f.code)
    BY DEF IsBoard, BoardOf, Node
  <1>2. ASSUME NEW i \in Person, NEW n \in 0..3, CanStep(f, i, n)
        PROVE  Stepped(f, i, n) \in Around(f.array)
    <2> DEFINE d == DirectionOf[n]
               c == [f.array EXCEPT ![i] = Shift(@, d)]
    <2>1. d \in Direction
      BY DirectionNumbers
    <2>2. CanMove(i, f.array[i], d, f.code)
      BY <1>2 DEF CanStep
    <2>3. BoardOf(c, Slide(i, f.array[i], d, f.code))
      BY <1>1, <2>1, <2>2, SlideKeepsBoard
    <2>4. c \in {[f.array EXCEPT ![p] = Shift(@, e)] : p \in Person, e \in Direction}
      BY <2>1
    <2>5. (\A p \in Person : c[p] \in Place) /\ InBounds(c) /\ Apart(c)
      <3> HIDE DEF c
      <3> QED
        BY <2>3 DEF BoardOf
    <2>6. Stepped(f, i, n) = c
      BY DEF Stepped
    <2> HIDE DEF c
    <2> QED
      BY <2>4, <2>5, <2>6 DEF Around
  <1>3. ASSUME NEW c \in Around(f.array)
        PROVE  \E i \in Person, n \in 0..3 : CanStep(f, i, n) /\ c = Stepped(f, i, n)
    <2>1. PICK p \in Person, d \in Direction : c = [f.array EXCEPT ![p] = Shift(@, d)]
      BY <1>3 DEF Around
    <2>2. c[p] \in Place /\ InBounds(c) /\ Apart(c)
      BY <1>3 DEF Around
    <2>3. CanMove(p, f.array[p], d, f.code)
      BY <1>1, <2>1, <2>2, FreeShiftIsAllowed
    <2>4. PICK n \in 0..3 : DirectionOf[n] = d
      BY DirectionNumbers
    <2>5. CanStep(f, p, n) /\ c = Stepped(f, p, n)
      BY <2>1, <2>3, <2>4 DEF CanStep, Stepped
    <2> QED
      BY <2>5
  <1> QED
    BY <1>2, <1>3

\* A node is won when its board is.
LEMMA WonNode ==
  ASSUME NEW f \in Node, IsBoard(f)
  PROVE  GameOver(f.code) <=> Wins(f.array)
  BY GameOverIsCornerOf DEF IsBoard, Node, Wins

\* No turn comes between a turn and the next.
LEMMA NextTurnIsNext ==
  ASSUME NEW t \in [k : Nat \ {0}, i : Person, direction : 0..3],
         NEW k \in Nat \ {0}, NEW i \in Person, NEW n \in 0..3,
         Earlier(k, i, n, NextTurn(t))
  PROVE  Earlier(k, i, n, t) \/ (k = t.k /\ i = t.i /\ n = t.direction)
  <1>1. PICK k0 \in Nat \ {0}, i0 \in Person, n0 \in 0..3 :
          t = [k |-> k0, i |-> i0, direction |-> n0]
    OBVIOUS
  <1>2. LastPerson \in Nat /\ Person = 0..LastPerson
    BY PersonsAreIndices
  <1>3. CASE n0 < 3
    <2>1. NextTurn(t) = [k |-> k0, i |-> i0, direction |-> n0 + 1]
      BY <1>1, <1>3 DEF NextTurn
    <2> QED
      BY <1>1, <1>2, <1>3, <2>1 DEF Earlier
  <1>4. CASE n0 = 3 /\ i0 < LastPerson
    <2>1. NextTurn(t) = [t EXCEPT !.i = @ + 1, !.direction = 0]
      BY <1>1, <1>4 DEF NextTurn
    <2>2. NextTurn(t) = [k |-> k0, i |-> i0 + 1, direction |-> 0]
      BY <1>1, <2>1
    <2> QED
      BY <1>1, <1>2, <1>4, <2>2 DEF Earlier
  <1>5. CASE n0 = 3 /\ ~ i0 < LastPerson
    <2>1. NextTurn(t) = [k |-> k0 + 1, i |-> 0, direction |-> 0]
      BY <1>1, <1>5 DEF NextTurn
    <2> QED
      BY <1>1, <1>2, <1>5, <2>1 DEF Earlier
  <1> QED
    BY <1>3, <1>4, <1>5

\* What turn t makes: the moved son of a father, of the other parity.
LEMMA SonOfTurn ==
  ASSUME SearchInv, turn.k =< Len(breadthTree), Movable(turn)
  PROVE  /\ turn.k \in DOMAIN breadthTree
         /\ Good(Father(turn)) /\ Good(Son(turn))
         /\ CanStep(Father(turn), turn.i, turn.direction)
         /\ Son(turn).array = Stepped(Father(turn), turn.i, turn.direction)
         /\ Son(turn).array \in Around(Father(turn).array)
         /\ Parity(Son(turn).code) # Parity(Father(turn).code)
         /\ Son(turn).before # NULL
  <1> DEFINE t == turn
             f == Father(t)
  <1>1. /\ t.k \in Nat \ {0} /\ t.i \in Person /\ t.direction \in 0..3
        /\ breadthTree \in Seq(Node)
    BY DEF SearchInv, SolverTypeOK
  <1>2. t.k \in DOMAIN breadthTree
    BY <1>1
  <1>3. f \in Node /\ IsBoard(f)
    BY <1>1, <1>2 DEF SearchInv, NodesAreBoards, Father
  <1>4. CanStep(f, t.i, t.direction)
    BY DEF Movable, CanStep, Dir
  <1>5. /\ Son(t).array = Stepped(f, t.i, t.direction)
        /\ Son(t).code = Slide(t.i, f.array[t.i], Dir(t), f.code)
        /\ Son(t).before = <<buffer, t.k>>
    BY DEF Son, Stepped, Dir
  <1>6. Parity(Son(t).code) # Parity(f.code)
    <2>1. BoardOf(f.array, f.code)
      BY <1>3 DEF IsBoard, BoardOf, Node
    <2>2. Dir(t) \in Direction
      BY <1>1, DirectionNumbers DEF Dir
    <2>3. CanMove(t.i, f.array[t.i], Dir(t), f.code)
      BY DEF Movable
    <2> HIDE DEF t, f
    <2> QED
      BY <1>1, <1>5, <2>1, <2>2, <2>3, MoveChangesParity
  <1>7. <<buffer, t.k>> # NULL
    BY DEF NULL
  <1>8. Good(Son(t))
    BY SonIsGood
  <1>9. Son(t).array \in Around(f.array)
    BY <1>1, <1>3, <1>4, <1>5, StepsAreAround
  <1> QED
    BY <1>2, <1>3, <1>4, <1>5, <1>6, <1>7, <1>8, <1>9 DEF Good

\* The search before its first turn.
LEMMA InitLayers == SolverInit => Layers /\ WayBack
  <1> SUFFICES ASSUME SolverInit PROVE Layers /\ WayBack
    OBVIOUS
  <1> DEFINE root == TreeNode(CodeOf(start), start, NULL)
  <1>1. /\ start \in Boards /\ start \in [Person -> Place]
        /\ InBounds(start) /\ Apart(start) /\ ~ GameOver(CodeOf(start))
    BY BoardsAssumption DEF SolverInit
  <1>2. /\ breadthTree = <<root>> /\ all = <<>> /\ depth = 0 /\ victory = FALSE
        /\ turn = FirstTurn /\ phase = "search"
    BY DEF SolverInit
  <1>3. root.array = start
    BY DEF TreeNode
  <1> HIDE DEF root
  <1>4. DOMAIN breadthTree = {1} /\ breadthTree[1] = root /\ DOMAIN all = {}
    BY <1>2
  <1>5. Arrays(breadthTree) = {start} /\ Arrays(all) = {}
    BY <1>3, <1>4 DEF Arrays
  <1>6. Within[0][start] = {start}
    BY <1>1, WithinGrows
  <1>7. depth =< MaxDepth
    BY <1>2, MaxDepthAssumption
  <1>8. FathersLayer
    BY <1>2, <1>5, <1>6 DEF FathersLayer
  <1>9. SonsLayer
    <2>1. ASSUME NEW k \in DOMAIN breadthTree, NEW i \in Person, NEW n \in 0..3
          PROVE  ~ Earlier(k, i, n, turn)
      <3>1. k = 1 /\ turn = [k |-> 1, i |-> 0, direction |-> 0] /\ i \in Nat
        BY <1>2, <1>4, PersonsAreIndices DEF FirstTurn
      <3> QED
        BY <3>1 DEF Earlier
    <2> QED
      BY <1>5, <2>1 DEF SonsLayer
  <1>10. OneParity
    BY <1>4 DEF OneParity
  <1>11. ~ Wins(start)
    BY <1>1, GameOverIsCornerOf DEF Wins
  <1>12. FirstWin
    BY <1>2, <1>4, <1>6, <1>11 DEF FirstWin
  <1>13. WayBack
    BY <1>2, <1>4 DEF WayBack
  <1> QED
    BY <1>7, <1>8, <1>9, <1>10, <1>12, <1>13 DEF Layers

\* One turn of the loops.  The son is new, so it goes to the sons' layer.
LEMMA TryMoveLayers == SearchInv /\ Layers /\ TryMove => Layers'
  <1> SUFFICES ASSUME SearchInv, Layers, TryMove PROVE Layers'
    OBVIOUS
  <1> DEFINE f == Father(turn)
             son == Son(turn)
             W(n) == Within[n][start]
  <1>1. /\ phase = "search" /\ turn.k =< Len(breadthTree)
        /\ turn' = NextTurn(turn)
        /\ UNCHANGED <<start, breadthTree, buffer, capacity, depth, phase>>
    BY DEF TryMove
  <1>2. /\ start \in Boards /\ breadthTree \in Seq(Node) /\ all \in Seq(Node)
        /\ turn \in [k : Nat \ {0}, i : Person, direction : 0..3] /\ depth \in Nat
        /\ victory \in BOOLEAN
    BY DEF SearchInv, SolverTypeOK
  <1>3. depth =< MaxDepth /\ FathersLayer /\ SonsLayer /\ OneParity /\ FirstWin
    BY <1>1 DEF Layers
  <1>4. FathersLayer'
    BY <1>1, <1>3 DEF FathersLayer, Arrays
  <1>5. ASSUME NEW k \in DOMAIN breadthTree, NEW i \in Person, NEW n \in 0..3,
               Earlier(k, i, n, turn')
        PROVE  Earlier(k, i, n, turn) \/ (k = turn.k /\ i = turn.i /\ n = turn.direction)
    <2>1. k \in Nat \ {0}
      BY <1>2
    <2> QED
      BY <1>1, <1>2, <1>5, <2>1, NextTurnIsNext
  <1>6. CASE ~ Movable(turn)
    <2>1. UNCHANGED <<victory, finalTree, all>>
      BY <1>6 DEF TryMove
    <2>2. ~ CanStep(breadthTree[turn.k], turn.i, turn.direction)
      BY <1>6 DEF Movable, CanStep, Father, Dir
    <2>3. SonsLayer'
      BY <1>1, <1>3, <1>5, <2>1, <2>2 DEF SonsLayer, Arrays
    <2>4. OneParity' /\ FirstWin'
      BY <1>1, <1>3, <2>1 DEF OneParity, FirstWin
    <2> QED
      BY <1>1, <1>3, <1>4, <2>3, <2>4 DEF Layers
  <1>7. CASE Movable(turn)
    <2>1. /\ turn.k \in DOMAIN breadthTree
          /\ Good(f) /\ Good(son)
          /\ son.array = Stepped(f, turn.i, turn.direction)
          /\ son.array \in Around(f.array)
          /\ Parity(son.code) # Parity(f.code)
      BY <1>1, <1>7, SonOfTurn
    <2>2. f = breadthTree[turn.k]
      BY DEF Father
    <2> HIDE DEF f, son
    <2>3. \A m \in DOMAIN breadthTree : Parity(breadthTree[m].code) # Parity(son.code)
      BY <1>3, <2>1, <2>2 DEF OneParity
    <2>4. ~ IsSame(son)
      BY <2>3 DEF IsSame
    <2>5. /\ victory' = (victory \/ GameOver(son.code))
          /\ finalTree' = IF GameOver(son.code) THEN son ELSE finalTree
          /\ all' = Append(all, son)
      BY <1>7, <2>4 DEF TryMove, son
    <2>6. /\ DOMAIN all' = DOMAIN all \cup {Len(all) + 1}
          /\ all'[Len(all) + 1] = son
          /\ \A n \in DOMAIN all : all'[n] = all[n]
      BY <1>2, <2>5
    <2>7. Arrays(all') = Arrays(all) \cup {son.array}
      BY <2>6 DEF Arrays
    <2>8. son.array \in W(depth + 1)
      <3>1. f.array \in W(depth)
        BY <1>3, <2>1, <2>2 DEF FathersLayer, Arrays
      <3>2. depth \in 0 .. MaxDepth
        BY <1>2, <1>3, MaxDepthAssumption
      <3> QED
        BY <1>2, <2>1, <3>1, <3>2, WithinGrows
    <2>9. SonsLayer'
      <3>1. Arrays(all') \subseteq W(depth + 1)
        BY <1>3, <2>7, <2>8 DEF SonsLayer
      <3>2. ASSUME NEW k \in DOMAIN breadthTree, NEW i \in Person, NEW n \in 0..3,
                   Earlier(k, i, n, turn'), CanStep(breadthTree[k], i, n)
            PROVE  Stepped(breadthTree[k], i, n) \in Arrays(all')
        <4>1. CASE Earlier(k, i, n, turn)
          BY <1>3, <2>7, <3>2, <4>1 DEF SonsLayer
        <4>2. CASE k = turn.k /\ i = turn.i /\ n = turn.direction
          BY <2>1, <2>2, <2>7, <4>2
        <4> QED
          BY <1>5, <3>2, <4>1, <4>2
      <3> QED
        BY <1>1, <3>1, <3>2 DEF SonsLayer, Arrays
    <2>10. OneParity'
      <3>1. \A m \in DOMAIN all : Parity(all[m].code) # Parity(f.code)
        BY <1>3, <2>1, <2>2 DEF OneParity
      <3>2. \A m \in DOMAIN all : Parity(all[m].code) = Parity(son.code)
        BY <2>1, <3>1, ParityType
      <3>3. \A m \in DOMAIN all' : Parity(all'[m].code) = Parity(son.code)
        BY <2>6, <3>2
      <3> QED
        BY <1>1, <1>3, <2>3, <3>3 DEF OneParity
    <2>11. FirstWin'
      <3>1. GameOver(son.code) <=> Wins(son.array)
        BY <2>1, WonNode DEF Good
      <3>2. \A b \in W(depth) : ~ Wins(b)
        BY <1>3 DEF FirstWin
      <3>3. victory' => Wins(finalTree'.array) /\ finalTree'.array \in W(depth + 1)
        BY <1>3, <2>5, <2>8, <3>1 DEF FirstWin
      <3>4. ~ victory' => \A n \in DOMAIN all' : ~ Wins(all'[n].array)
        BY <1>3, <2>5, <2>6, <3>1 DEF FirstWin
      <3> QED
        BY <1>1, <3>2, <3>3, <3>4 DEF FirstWin
    <2> QED
      BY <1>1, <1>3, <1>4, <2>9, <2>10, <2>11 DEF Layers
  <1> QED
    BY <1>6, <1>7

\* The end of a layer: every father had every turn.
LEMMA LayerIsComplete ==
  ASSUME SearchInv, SonsLayer, turn.k > Len(breadthTree),
         NEW k \in DOMAIN breadthTree
  PROVE  Around(breadthTree[k].array) \subseteq Arrays(all)
  <1>1. /\ breadthTree \in Seq(Node) /\ turn.k \in Nat
    BY DEF SearchInv, SolverTypeOK
  <1>2. breadthTree[k] \in Node /\ IsBoard(breadthTree[k])
    BY <1>1 DEF SearchInv, NodesAreBoards
  <1>3. k < turn.k
    BY <1>1
  <1>4. ASSUME NEW c \in Around(breadthTree[k].array) PROVE c \in Arrays(all)
    <2>1. PICK i \in Person, n \in 0..3 :
             CanStep(breadthTree[k], i, n) /\ c = Stepped(breadthTree[k], i, n)
      BY <1>2, StepsAreAround
    <2>2. Earlier(k, i, n, turn)
      BY <1>3 DEF Earlier
    <2> QED
      BY <2>1, <2>2 DEF SonsLayer
  <1> QED
    BY <1>4

\* A board one move further than depth, and not nearer, is a son.
LEMMA NewBoardsAreSons ==
  ASSUME SearchInv, Layers, phase = "search", turn.k > Len(breadthTree)
  PROVE  Within[depth + 1][start] \ Within[depth][start] \subseteq Arrays(all)
  <1> DEFINE W(n) == Within[n][start]
  <1>1. start \in Boards /\ depth \in Nat
    BY DEF SearchInv, SolverTypeOK
  <1>2. depth =< MaxDepth /\ FathersLayer /\ SonsLayer
    BY DEF Layers
  <1>3. W(depth + 1) = W(depth) \cup UNION {Around(c) : c \in W(depth)}
    BY <1>1, <1>2, MaxDepthAssumption, WithinGrows
  <1>4. ASSUME NEW c \in W(depth + 1) \ W(depth) PROVE c \in Arrays(all)
    <2>1. PICK b \in W(depth) : c \in Around(b)
      BY <1>3, <1>4
    <2>2. b \in Arrays(breadthTree)
      <3>1. CASE depth = 0
        <4>1. b = start
          BY <1>1, <3>1, WithinGrows
        <4> QED
          BY <1>2, <3>1, <4>1 DEF FathersLayer
      <3>2. CASE depth > 0
        <4>1. depth - 1 \in 0 .. MaxDepth /\ (depth - 1) + 1 = depth
          BY <1>1, <1>2, <3>2, MaxDepthAssumption
        <4>2. W(depth) = W(depth - 1) \cup UNION {Around(a) : a \in W(depth - 1)}
          BY <1>1, <4>1, WithinGrows
        <4>3. b \notin W(depth - 1)
          BY <1>4, <2>1, <4>2
        <4> QED
          BY <1>2, <3>2, <4>3 DEF FathersLayer
      <3> QED
        BY <1>1, <3>1, <3>2
    <2>3. PICK k \in DOMAIN breadthTree : b = breadthTree[k].array
      BY <2>2 DEF Arrays
    <2> QED
      BY <1>2, <2>1, <2>3, LayerIsComplete
  <1> QED
    BY <1>4

LEMMA NextLayerLayers == SearchInv /\ Layers /\ NextLayer => Layers'
  <1> SUFFICES ASSUME SearchInv, Layers, NextLayer, phase' = "search" PROVE Layers'
    BY DEF Layers
  <1> DEFINE W(n) == Within[n][start]
  <1>1. /\ phase = "search" /\ turn.k > Len(breadthTree) /\ depth < MaxDepth
        /\ breadthTree' = all /\ all' = <<>> /\ turn' = FirstTurn /\ depth' = depth + 1
        /\ ~ victory
        /\ UNCHANGED <<start, victory, finalTree>>
    BY DEF NextLayer
  <1>2. /\ start \in Boards /\ all \in Seq(Node) /\ depth \in Nat
    BY DEF SearchInv, SolverTypeOK
  <1>3. FathersLayer /\ SonsLayer /\ OneParity /\ FirstWin
    BY <1>1 DEF Layers
  <1>4. depth' =< MaxDepth
    BY <1>1, <1>2, MaxDepthAssumption
  <1>5. W(depth + 1) \ W(depth) \subseteq Arrays(all)
    BY <1>1, NewBoardsAreSons
  <1>6. FathersLayer'
    <2>1. Arrays(all) \subseteq W(depth + 1)
      BY <1>3 DEF SonsLayer
    <2>2. depth' # 0 /\ depth' - 1 = depth
      BY <1>1, <1>2
    <2> QED
      BY <1>1, <1>5, <2>1, <2>2 DEF FathersLayer, Arrays
  <1>7. DOMAIN all' = {} /\ Arrays(all') = {}
    BY <1>1 DEF Arrays
  <1>8. SonsLayer'
    <2>1. ASSUME NEW k \in DOMAIN breadthTree', NEW i \in Person, NEW n \in 0..3
          PROVE  ~ Earlier(k, i, n, turn')
      <3>1. k \in Nat \ {0}
        BY <1>1, <1>2
      <3>2. turn' = [k |-> 1, i |-> 0, direction |-> 0] /\ i \in Nat
        BY <1>1, PersonsAreIndices DEF FirstTurn
      <3> QED
        BY <3>1, <3>2 DEF Earlier
    <2> QED
      BY <1>7, <2>1 DEF SonsLayer, Arrays
  <1>9. OneParity'
    BY <1>1, <1>3, <1>7 DEF OneParity
  <1>10. FirstWin'
    <2>1. ASSUME NEW b \in W(depth + 1) PROVE ~ Wins(b)
      <3>1. CASE b \in W(depth)
        BY <1>3, <3>1 DEF FirstWin
      <3>2. CASE b \in Arrays(all)
        BY <1>1, <1>3, <3>2 DEF FirstWin, Arrays
      <3> QED
        BY <1>5, <3>1, <3>2
    <2> QED
      BY <1>1, <1>7, <2>1 DEF FirstWin
  <1> QED
    BY <1>4, <1>6, <1>8, <1>9, <1>10 DEF Layers

LEMMA LayersAlways == SolverSpec => []Layers
  <1>1. SolverInit => Layers
    BY InitLayers
  <1>2. SearchInv /\ Layers /\ [SolverNext]_solverVars => Layers'
    <2>1. Layers /\ UNCHANGED solverVars => Layers'
      BY DEF solverVars, Layers, FathersLayer, SonsLayer, OneParity, FirstWin, Arrays
    <2>2. FollowBefore => Layers'
      BY DEF FollowBefore, Layers
    <2> QED
      BY <2>1, <2>2, TryMoveLayers, NextLayerLayers DEF SolverNext
  <1> QED
    BY <1>1, <1>2, SearchInvAlways, PTL DEF SolverSpec

\* The search is breadth first and ends a layer with a shortest way, for every
\* layout, start and depth; and it never meets a board of the fathers' layer.
THEOREM BreadthFirstAlways == SolverSpec => []BreadthFirst
  <1>1. SearchInv /\ Layers => BreadthFirst
    <2> SUFFICES ASSUME SearchInv, Layers, phase = "search" PROVE BreadthFirst
      BY DEF BreadthFirst, LayersByDistance, FirstWinIsShortest, SameNeverFound
    <2>1. LayersByDistance
      BY DEF Layers, FathersLayer, LayersByDistance
    <2>2. FirstWinIsShortest
      BY DEF Layers, FirstWin, FirstWinIsShortest
    <2>3. ASSUME turn.k =< Len(breadthTree), Movable(turn) PROVE ~ IsSame(Son(turn))
      <3>1. turn.k \in DOMAIN breadthTree /\ Parity(Son(turn).code) # Parity(Father(turn).code)
        BY <2>3, SonOfTurn
      <3>2. OneParity
        BY DEF Layers
      <3> QED
        BY <3>1, <3>2 DEF IsSame, OneParity, Father
    <2> QED
      BY <2>1, <2>2, <2>3 DEF BreadthFirst, SameNeverFound
  <1> QED
    BY <1>1, SearchInvAlways, LayersAlways, PTL

-----------------------------------------------------------------------------
(* The way back                                                            *)

LEMMA NextWayBack == SearchInv /\ WayBack /\ [SolverNext]_solverVars => WayBack'
  <1> SUFFICES ASSUME SearchInv, WayBack, [SolverNext]_solverVars PROVE WayBack'
    OBVIOUS
  <1>1. breadthTree \in Seq(Node) /\ all \in Seq(Node) /\ depth \in Nat
    BY DEF SearchInv, SolverTypeOK
  <1>2. CASE TryMove
    <2>1. /\ phase = "search" /\ turn.k =< Len(breadthTree)
          /\ UNCHANGED <<breadthTree, depth, phase>>
      BY <1>2 DEF TryMove
    <2>2. CASE ~ Movable(turn)
      BY <1>2, <2>1, <2>2 DEF TryMove, WayBack
    <2>3. CASE Movable(turn)
      <3> DEFINE son == Son(turn)
      <3>1. son.before # NULL
        BY <2>1, <2>3, SonOfTurn
      <3>2. /\ victory' = (victory \/ GameOver(son.code))
            /\ finalTree' = IF GameOver(son.code) THEN son ELSE finalTree
            /\ all' = all \/ all' = Append(all, son)
        BY <1>2, <2>3 DEF TryMove
      <3> HIDE DEF son
      <3>3. \A n \in DOMAIN all' : all'[n].before # NULL
        BY <1>1, <3>1, <3>2 DEF WayBack
      <3>4. victory' => finalTree'.before # NULL
        BY <3>1, <3>2 DEF WayBack
      <3> QED
        BY <2>1, <3>3, <3>4 DEF WayBack
    <2> QED
      BY <2>2, <2>3
  <1>3. CASE NextLayer
    BY <1>1, <1>3 DEF NextLayer, WayBack
  <1>4. CASE FollowBefore
    <2>1. /\ phase = "chain" /\ depth > 0 /\ victory /\ finalTree.before # NULL
          /\ UNCHANGED <<breadthTree, all, depth, victory>>
      BY <1>4 DEF FollowBefore, WayBack
    <2>2. CASE Alive(finalTree.before) /\ finalTree' = breadthTree[finalTree.before[2]] /\ phase' = phase
      <3> DEFINE n == finalTree.before[2]
      <3>1. finalTree \in Node
        BY <2>1 DEF SearchInv, WonByNode
      <3>2. finalTree.before \in (Nat \ {0}) \X (Nat \ {0})
        BY <2>1, <3>1 DEF Node
      <3>3. n \in DOMAIN breadthTree
        BY <1>1, <2>2, <3>2 DEF Alive
      <3> HIDE DEF n
      <3>4. finalTree'.before # NULL
        BY <2>1, <2>2, <3>3 DEF WayBack, n
      <3> QED
        BY <2>1, <2>2, <3>4 DEF WayBack
    <2>3. CASE phase' = "undefined" /\ finalTree' = finalTree
      BY <2>1, <2>3 DEF WayBack
    <2> QED
      BY <1>4, <2>1, <2>2, <2>3 DEF FollowBefore
  <1>5. CASE UNCHANGED solverVars
    BY <1>5 DEF solverVars, WayBack
  <1> QED
    BY <1>2, <1>3, <1>4, <1>5 DEF SolverNext

\* The way to the root is never read to its end: after the first layer no node
\* that the chain can reach is the root, so it goes on to an address that is
\* no longer an element.
THEOREM WayIsLostAlways == SolverSpec => []WayIsLost
  <1>1. SolverInit => WayBack
    BY InitLayers
  <1>2. WayBack => WayIsLost
    BY DEF WayBack, WayIsLost
  <1> QED
    BY <1>1, <1>2, NextWayBack, SearchInvAlways, PTL DEF SolverSpec

-----------------------------------------------------------------------------
(* The level                                                               *)

USE DEF Columns, Rows, BigSquare

-----------------------------------------------------------------------------
(* The inductive invariant                                                 *)

\* The lemmas about boards apply to a consistent level.
LEMMA ConsistentBoard == Consistent => BoardOf(personAry, onlyCode)
  BY DEF Consistent, BoardTypeOK, PersonsApart, BoardAgrees, BoardOf

\* The layout the level starts from, and is reset to, is consistent.
LEMMA OriginConsistent == BoardInit => Consistent
  BY OriginAssumption, CodeOfType
     DEF BoardInit, Consistent, BoardTypeOK, PersonsApart, BoardAgrees

\* A reset makes the level consistent.
LEMMA ResetConsistent == ResetLayout => Consistent'
  BY OriginAssumption, CodeOfType
     DEF ResetLayout, Consistent, BoardTypeOK, PersonsApart, BoardAgrees

\* One guarded move keeps the level consistent.
LEMMA MoveConsistent ==
  ASSUME Consistent, NEW p \in Person, NEW d \in Direction, MoveTo(p, d)
  PROVE  Consistent'
  <1>1. BoardOf(personAry, onlyCode)
    BY ConsistentBoard
  <1>2. BoardOf(personAry', onlyCode')
    BY <1>1, SlideKeepsBoard DEF MoveTo
  <1>3. onlyCode' \in [Cell -> PersonType]
    BY <1>2, CodeOfType DEF BoardOf
  <1> QED
    BY <1>2, <1>3 DEF BoardOf, Consistent, BoardTypeOK, PersonsApart, BoardAgrees

\* Consistent holds throughout: the persons keep to the board and apart, and
\* the patched array is the one a rebuild would give.
THEOREM ConsistentAlways == BoardSpec => []Consistent
  <1>1. BoardInit => Consistent
    BY OriginConsistent
  <1>2. Consistent /\ [BoardNext]_boardVars => Consistent'
    <2> SUFFICES ASSUME Consistent, [BoardNext]_boardVars PROVE Consistent'
      OBVIOUS
    <2>1. CASE UNCHANGED boardVars
      BY <2>1 DEF boardVars, Consistent, BoardTypeOK, PersonsApart, BoardAgrees
    <2>2. ASSUME NEW p \in Person, NEW d \in Direction, MoveTo(p, d)
          PROVE  Consistent'
      BY <2>2, MoveConsistent
    <2>3. CASE ResetLayout
      BY <2>3, ResetConsistent
    <2> QED
      BY <2>1, <2>2, <2>3 DEF BoardNext
  <1> QED
    BY <1>1, <1>2, PTL DEF BoardSpec

\* No person leaves the board or shares a cell with another, ever.
THEOREM PersonsApartAlways == BoardSpec => []PersonsApart
  <1>1. Consistent => PersonsApart
    BY DEF Consistent
  <1> QED
    BY <1>1, ConsistentAlways, PTL

\* The array the moves patch never drifts from the persons.
THEOREM BoardAgreesAlways == BoardSpec => []BoardAgrees
  <1>1. Consistent => BoardAgrees
    BY DEF Consistent
  <1> QED
    BY <1>1, ConsistentAlways, PTL

-----------------------------------------------------------------------------
(* Moves taken back, and the end of the game                               *)

\* The opposite move enters the cells that the move left, and leaves those
\* that it entered.
LEMMA OppositeMove ==
  ASSUME NEW p \in Person, NEW a \in Place, NEW d \in Direction,
         a.x + Shape[p].width =< 4, a.y + Shape[p].height =< 5,
         ~ AtEdge(p, a, d)
  PROVE  /\ Opposite(d) \in Direction
         /\ Shift(Shift(a, d), Opposite(d)) = a
         /\ ~ AtEdge(p, Shift(a, d), Opposite(d))
         /\ Front(p, Shift(a, d), Opposite(d)) = Rear(p, a, d)
  <1> DEFINE b == Shift(a, d)
  <1>1. PICK x \in 0..3, y \in 0..4 : a = [x |-> x, y |-> y]
    BY DEF Place
  <1>2. PICK w \in 1..2, h \in 1..2 : Shape[p].width = w /\ Shape[p].height = h
    BY Sides
  <1>3. x + w =< 4 /\ y + h =< 5
    BY <1>1, <1>2
  <1>4. CASE d = "Right"
    <2>1. Opposite(d) = "Left" /\ b = [x |-> x + 1, y |-> y]
      BY <1>1, <1>4 DEF Opposite, Shift
    <2>2. Shift(b, "Left") = a
      <3>1. Shift([x |-> x + 1, y |-> y], "Left") = [x |-> x, y |-> y]
        BY DEF Shift
      <3> QED
        BY <1>1, <2>1, <3>1
    <2>3. ~ AtEdge(p, b, "Left")
      BY <2>1 DEF AtEdge
    <2>4. Ys(p, b) = Ys(p, a) /\ b.x - 1 = a.x
      BY <1>1, <2>1 DEF Ys
    <2>5. Front(p, b, "Left") = Rear(p, a, "Right")
      BY <2>4 DEF Front, Rear
    <2> QED
      BY <1>4, <2>1, <2>2, <2>3, <2>5 DEF Direction
  <1>5. CASE d = "Left"
    <2>1. Opposite(d) = "Right" /\ b = [x |-> x - 1, y |-> y]
      BY <1>1, <1>5 DEF Opposite, Shift
    <2>2. Shift(b, "Right") = a
      <3>1. Shift([x |-> x - 1, y |-> y], "Right") = [x |-> x, y |-> y]
        BY DEF Shift
      <3> QED
        BY <1>1, <2>1, <3>1
    <2>3. ~ AtEdge(p, b, "Right")
      BY <1>2, <1>3, <2>1 DEF AtEdge
    <2>4. Ys(p, b) = Ys(p, a) /\ b.x + Shape[p].width = a.x + Shape[p].width - 1
      BY <1>1, <1>2, <2>1 DEF Ys
    <2>5. Front(p, b, "Right") = Rear(p, a, "Left")
      BY <2>4 DEF Front, Rear
    <2> QED
      BY <1>5, <2>1, <2>2, <2>3, <2>5 DEF Direction
  <1>6. CASE d = "UP"
    <2>1. Opposite(d) = "Down" /\ b = [x |-> x, y |-> y - 1]
      BY <1>1, <1>6 DEF Opposite, Shift
    <2>2. Shift(b, "Down") = a
      <3>1. Shift([x |-> x, y |-> y - 1], "Down") = [x |-> x, y |-> y]
        BY DEF Shift
      <3> QED
        BY <1>1, <2>1, <3>1
    <2>3. ~ AtEdge(p, b, "Down")
      BY <1>2, <1>3, <2>1 DEF AtEdge
    <2>4. Xs(p, b) = Xs(p, a) /\ b.y + Shape[p].height = a.y + Shape[p].height - 1
      BY <1>1, <1>2, <2>1 DEF Xs
    <2>5. Front(p, b, "Down") = Rear(p, a, "UP")
      BY <2>4 DEF Front, Rear
    <2> QED
      BY <1>6, <2>1, <2>2, <2>3, <2>5 DEF Direction
  <1>7. CASE d = "Down"
    <2>1. Opposite(d) = "UP" /\ b = [x |-> x, y |-> y + 1]
      BY <1>1, <1>7 DEF Opposite, Shift
    <2>2. Shift(b, "UP") = a
      <3>1. Shift([x |-> x, y |-> y + 1], "UP") = [x |-> x, y |-> y]
        BY DEF Shift
      <3> QED
        BY <1>1, <2>1, <3>1
    <2>3. ~ AtEdge(p, b, "UP")
      BY <2>1 DEF AtEdge
    <2>4. Xs(p, b) = Xs(p, a) /\ b.y - 1 = a.y
      BY <1>1, <2>1 DEF Xs
    <2>5. Front(p, b, "UP") = Rear(p, a, "Down")
      BY <2>4 DEF Front, Rear
    <2> QED
      BY <1>7, <2>1, <2>2, <2>3, <2>5 DEF Direction
  <1> QED
    BY <1>4, <1>5, <1>6, <1>7 DEF Direction

\* In a consistent level, an allowed move can be taken back, and both arrays
\* are then as before.
LEMMA MoveBack ==
  ASSUME Consistent, NEW p \in Person, NEW d \in Direction,
         CanMove(p, personAry[p], d, onlyCode)
  PROVE  LET there == Shift(personAry[p], d)
             board == Slide(p, personAry[p], d, onlyCode)
         IN  /\ CanMove(p, there, Opposite(d), board)
             /\ Shift(there, Opposite(d)) = personAry[p]
             /\ Slide(p, there, Opposite(d), board) = onlyCode
  <1> DEFINE a == personAry[p]
             b == Shift(a, d)
             board == Slide(p, a, d, onlyCode)
             moved == [personAry EXCEPT ![p] = b]
             back == [moved EXCEPT ![p] = Shift(@, Opposite(d))]
  <1>1. a \in Place /\ a.x + Shape[p].width =< 4 /\ a.y + Shape[p].height =< 5
    BY DEF Consistent, BoardTypeOK, PersonsApart, InBounds
  <1>2. ~ AtEdge(p, a, d)
    BY DEF CanMove
  <1>3. /\ Opposite(d) \in Direction
        /\ Shift(b, Opposite(d)) = a
        /\ ~ AtEdge(p, b, Opposite(d))
        /\ Front(p, b, Opposite(d)) = Rear(p, a, d)
    BY <1>1, <1>2, OppositeMove
  <1>4. /\ Front(p, a, d) \cap Rear(p, a, d) = {}
        /\ Rear(p, a, d) \subseteq Cell
    BY <1>1, <1>2, OneMove, CellsOnBoard
  <1>5. BoardOf(personAry, onlyCode)
    BY ConsistentBoard
  <1>6. BoardOf(moved, board)
    BY <1>5, SlideKeepsBoard
  <1> HIDE DEF a, b
  <1>7. \A c \in Rear(p, a, d) : board[c] = 0
    BY <1>4 DEF Slide
  <1>8. CanMove(p, b, Opposite(d), board)
    BY <1>3, <1>7, TypeRange DEF CanMove
  <1>9. moved[p] = b
    BY <1>5 DEF BoardOf
  <1>10. BoardOf(back, Slide(p, b, Opposite(d), board))
    <2> HIDE DEF moved, board
    <2>1. CanMove(p, moved[p], Opposite(d), board)
      BY <1>8, <1>9
    <2>2. BoardOf(back, Slide(p, moved[p], Opposite(d), board))
      BY <1>3, <1>6, <2>1, SlideKeepsBoard
    <2> QED
      BY <1>9, <2>2
  <1>11. back = personAry
    <2>1. back = [personAry EXCEPT ![p] = a]
      BY <1>3, <1>5 DEF BoardOf
    <2> QED
      BY <1>5, <2>1 DEF BoardOf, a
  <1>12. Slide(p, b, Opposite(d), board) = onlyCode
    <2> HIDE DEF back, board
    <2>1. Slide(p, b, Opposite(d), board) = CodeOf(back)
      BY <1>10 DEF BoardOf
    <2> QED
      BY <1>5, <1>11, <2>1 DEF BoardOf
  <1> QED
    BY <1>3, <1>8, <1>12 DEF a, b

\* Every move can be taken back, cell by cell.
THEOREM MovesUndoAlways == BoardSpec => []MovesUndo
  <1>1. Consistent => MovesUndo
    BY MoveBack DEF MovesUndo
  <1> QED
    BY <1>1, ConsistentAlways, PTL

\* isGameOver holds exactly when a big square stands in the corner.
THEOREM GameOverIsCornerAlways == BoardSpec => []GameOverIsCorner
  <1>1. ASSUME Consistent PROVE GameOverIsCorner
    <2>1. /\ personAry \in [Person -> Place] /\ InBounds(personAry) /\ Apart(personAry)
          /\ onlyCode = CodeOf(personAry)
      BY <1>1 DEF Consistent, BoardTypeOK, PersonsApart, BoardAgrees
    <2> QED
      BY <2>1, GameOverIsCornerOf DEF GameOverIsCorner
  <1> QED
    BY <1>1, ConsistentAlways, PTL

-----------------------------------------------------------------------------
(* The puzzle                                                              *)

\* The squares the puzzle gives a person are its columns and its rows.
LEMMA CoversSides ==
  ASSUME NEW p \in Person, NEW x \in Int, NEW y \in Int
  PROVE  Puzzle!Covers(p, <<x, y>>)
           = Xs(p, [x |-> x, y |-> y]) \X Ys(p, [x |-> x, y |-> y])
  BY DEF Puzzle!Covers, Xs, Ys

\* On the board, persons share a square exactly when they share a cell.
LEMMA SquaresAreCells ==
  ASSUME NEW cs1 \in SUBSET (0..3), NEW cs2 \in SUBSET (0..3),
         NEW rs1 \in SUBSET (0..4), NEW rs2 \in SUBSET (0..4)
  PROVE  (cs1 \X rs1) \cap (cs2 \X rs2) = {}
           <=> CellsAt(cs1, rs1) \cap CellsAt(cs2, rs2) = {}
  <1>1. ASSUME NEW i \in cs1 \cap cs2, NEW j \in rs1 \cap rs2
        PROVE  /\ (cs1 \X rs1) \cap (cs2 \X rs2) # {}
               /\ CellsAt(cs1, rs1) \cap CellsAt(cs2, rs2) # {}
    <2>1. <<i, j>> \in (cs1 \X rs1) \cap (cs2 \X rs2)
      OBVIOUS
    <2>2. j * 4 + i \in CellsAt(cs1, rs1) /\ j * 4 + i \in CellsAt(cs2, rs2)
      BY DEF CellsAt
    <2> QED
      BY <2>1, <2>2
  <1>2. ASSUME cs1 \cap cs2 = {} \/ rs1 \cap rs2 = {}
        PROVE  /\ (cs1 \X rs1) \cap (cs2 \X rs2) = {}
               /\ CellsAt(cs1, rs1) \cap CellsAt(cs2, rs2) = {}
    <2>1. (cs1 \X rs1) \cap (cs2 \X rs2) = {}
      BY <1>2
    <2> QED
      BY <1>2, <2>1, CellsApart
  <1> QED
    BY <1>1, <1>2

\* The code's edge test is the puzzle's grid.
LEMMA EdgeIsGrid ==
  ASSUME NEW p \in Person, NEW a \in Place, NEW d \in Direction,
         a.x + Shape[p].width =< 4, a.y + Shape[p].height =< 5
  PROVE  /\ Shift(a, d) = [x |-> Shift(a, d).x, y |-> Shift(a, d).y]
         /\ Shift(a, d).x \in Int /\ Shift(a, d).y \in Int
         /\ ~ AtEdge(p, a, d)
              <=> Xs(p, Shift(a, d)) \X Ys(p, Shift(a, d)) \subseteq (0..3) \X (0..4)
  <1>1. PICK x \in 0..3, y \in 0..4 : a = [x |-> x, y |-> y]
    BY DEF Place
  <1>2. PICK w \in 1..2, h \in 1..2 : Shape[p].width = w /\ Shape[p].height = h
    BY Sides
  <1>3. x + w =< 4 /\ y + h =< 5
    BY <1>1, <1>2
  <1>4. PICK u \in Int, v \in Int :
          /\ Shift(a, d) = [x |-> u, y |-> v]
          /\ ~ AtEdge(p, a, d) <=> (0 =< u /\ u + w =< 4 /\ 0 =< v /\ v + h =< 5)
    <2>1. CASE d = "Right"
      <3>1. Shift(a, d) = [x |-> x + 1, y |-> y] /\ (AtEdge(p, a, d) <=> x + w = 4)
        BY <1>1, <1>2, <2>1 DEF Shift, AtEdge
      <3> QED
        BY <1>3, <3>1
    <2>2. CASE d = "Left"
      <3>1. Shift(a, d) = [x |-> x - 1, y |-> y] /\ (AtEdge(p, a, d) <=> x = 0)
        BY <1>1, <1>2, <2>2 DEF Shift, AtEdge
      <3> QED
        BY <1>3, <3>1
    <2>3. CASE d = "UP"
      <3>1. Shift(a, d) = [x |-> x, y |-> y - 1] /\ (AtEdge(p, a, d) <=> y = 0)
        BY <1>1, <1>2, <2>3 DEF Shift, AtEdge
      <3> QED
        BY <1>3, <3>1
    <2>4. CASE d = "Down"
      <3>1. Shift(a, d) = [x |-> x, y |-> y + 1] /\ (AtEdge(p, a, d) <=> y + h = 5)
        BY <1>1, <1>2, <2>4 DEF Shift, AtEdge
      <3> QED
        BY <1>3, <3>1
    <2> QED
      BY <2>1, <2>2, <2>3, <2>4 DEF Direction
  <1>5. /\ Xs(p, Shift(a, d)) = u .. (u + w - 1)
        /\ Ys(p, Shift(a, d)) = v .. (v + h - 1)
    BY <1>2, <1>4 DEF Xs, Ys
  <1>6. /\ u \in u .. (u + w - 1) /\ u + w - 1 \in u .. (u + w - 1)
        /\ v \in v .. (v + h - 1) /\ v + h - 1 \in v .. (v + h - 1)
    OBVIOUS
  <1>7. (u .. (u + w - 1)) \X (v .. (v + h - 1)) \subseteq (0..3) \X (0..4)
          <=> (0 =< u /\ u + w =< 4 /\ 0 =< v /\ v + h =< 5)
    <2>1. ASSUME (u .. (u + w - 1)) \X (v .. (v + h - 1)) \subseteq (0..3) \X (0..4)
          PROVE  0 =< u /\ u + w =< 4 /\ 0 =< v /\ v + h =< 5
      <3>1. <<u, v>> \in (0..3) \X (0..4) /\ <<u + w - 1, v + h - 1>> \in (0..3) \X (0..4)
        BY <1>6, <2>1
      <3> QED
        BY <3>1
    <2>2. ASSUME 0 =< u, u + w =< 4, 0 =< v, v + h =< 5
          PROVE  (u .. (u + w - 1)) \X (v .. (v + h - 1)) \subseteq (0..3) \X (0..4)
      <3>1. u .. (u + w - 1) \subseteq 0..3 /\ v .. (v + h - 1) \subseteq 0..4
        BY <2>2
      <3> QED
        BY <3>1
    <2> QED
      BY <2>1, <2>2
  <1> QED
    BY <1>4, <1>5, <1>7

\* A move of the code is open exactly when the puzzle leaves the person free
\* to stand at the new place.
LEMMA GuardIsFree ==
  ASSUME Consistent, NEW p \in Person, NEW d \in Direction
  PROVE  LET b == Shift(personAry[p], d)
         IN  CanMove(p, personAry[p], d, onlyCode) <=> Puzzle!Free(p, <<b.x, b.y>>)
  <1> DEFINE a == personAry[p]
             b == Shift(a, d)
             F == Front(p, a, d)
             covers == Xs(p, b) \X Ys(p, b)
  <1>1. a \in Place /\ a.x + Shape[p].width =< 4 /\ a.y + Shape[p].height =< 5
    BY DEF Consistent, BoardTypeOK, PersonsApart, InBounds
  <1>2. b = [x |-> b.x, y |-> b.y] /\ b.x \in Int /\ b.y \in Int
    BY <1>1, EdgeIsGrid
  <1>3. ~ AtEdge(p, a, d) <=> covers \subseteq (0..3) \X (0..4)
    BY <1>1, EdgeIsGrid
  <1>4. Puzzle!Covers(p, <<b.x, b.y>>) = covers
    BY <1>2, CoversSides
  <1>5. ASSUME NEW q \in Person
        PROVE  Puzzle!Covers(q, <<personAry[q].x, personAry[q].y>>)
                 = Xs(q, personAry[q]) \X Ys(q, personAry[q])
    <2>1. personAry[q] = [x |-> personAry[q].x, y |-> personAry[q].y]
      BY DEF Consistent, BoardTypeOK, Place
    <2>2. personAry[q].x \in Int /\ personAry[q].y \in Int
      BY DEF Consistent, BoardTypeOK, Place
    <2> QED
      BY <2>1, <2>2, CoversSides
  <1>6. Puzzle!Free(p, <<b.x, b.y>>)
          <=> /\ covers \subseteq (0..3) \X (0..4)
              /\ \A q \in Person \ {p} :
                    covers \cap (Xs(q, personAry[q]) \X Ys(q, personAry[q])) = {}
    <2> DEFINE sq(q) == <<personAry[q].x, personAry[q].y>>
    <2> HIDE DEF covers, b, a
    <2>1. 0..(4 - 1) = 0..3 /\ 0..(5 - 1) = 0..4
      OBVIOUS
    <2>2. Puzzle!Free(p, <<b.x, b.y>>)
            <=> /\ covers \subseteq (0..3) \X (0..4)
                /\ \A o \in Person \ {p} : covers \cap Puzzle!Covers(o, sq(o)) = {}
      BY <1>4, <2>1, Zenon DEF Puzzle!Free
    <2> QED
      BY <1>5, <2>2
  <1>7. ASSUME ~ AtEdge(p, a, d)
        PROVE  /\ F \subseteq Cell /\ F \cap Cells(p, a) = {}
               /\ F \subseteq Cells(p, b) /\ Cells(p, b) \subseteq Cells(p, a) \cup F
               /\ \A q \in Person :
                    covers \cap (Xs(q, personAry[q]) \X Ys(q, personAry[q])) = {}
                      <=> Cells(p, b) \cap Cells(q, personAry[q]) = {}
    <2>1. /\ b \in Place /\ b.x + Shape[p].width =< 4 /\ b.y + Shape[p].height =< 5
          /\ F \subseteq Cell
          /\ F \cap Cells(p, a) = {}
          /\ Cells(p, b) = (Cells(p, a) \ Rear(p, a, d)) \cup F
          /\ Rear(p, a, d) \subseteq Cells(p, a)
      BY <1>1, <1>7, OneMove
    <2>2. Xs(p, b) \in SUBSET (0..3) /\ Ys(p, b) \in SUBSET (0..4)
      BY <2>1, SidesOnBoard
    <2>3. ASSUME NEW q \in Person
          PROVE  covers \cap (Xs(q, personAry[q]) \X Ys(q, personAry[q])) = {}
                   <=> Cells(p, b) \cap Cells(q, personAry[q]) = {}
      <3>1. /\ personAry[q] \in Place
            /\ personAry[q].x + Shape[q].width =< 4
            /\ personAry[q].y + Shape[q].height =< 5
        BY DEF Consistent, BoardTypeOK, PersonsApart, InBounds
      <3>2. /\ Xs(q, personAry[q]) \in SUBSET (0..3)
            /\ Ys(q, personAry[q]) \in SUBSET (0..4)
        BY <3>1, SidesOnBoard
      <3> QED
        BY <2>2, <3>2, SquaresAreCells DEF Cells
    <2> QED
      BY <2>1, <2>3
  <1>8. CanMove(p, a, d, onlyCode) <=> ~ AtEdge(p, a, d) /\ \A c \in F : onlyCode[c] = 0
    BY TypeRange DEF CanMove
  <1> HIDE DEF a, b, F, covers
  <1>9. ASSUME ~ AtEdge(p, a, d), \A c \in F : onlyCode[c] = 0, NEW q \in Person \ {p}
        PROVE  Cells(p, b) \cap Cells(q, personAry[q]) = {}
    <2>1. \A c \in F : c \notin Cells(q, personAry[q])
      BY <1>7, <1>9, EmptyIsFree, ConsistentBoard
    <2>2. Cells(p, a) \cap Cells(q, personAry[q]) = {}
      BY DEF Consistent, PersonsApart, Apart, a
    <2> QED
      BY <1>7, <1>9, <2>1, <2>2
  <1>10. ASSUME ~ AtEdge(p, a, d), NEW c \in F,
                \A q \in Person \ {p} : Cells(p, b) \cap Cells(q, personAry[q]) = {}
         PROVE  onlyCode[c] = 0
    <2>1. \A q \in Person : c \notin Cells(q, personAry[q])
      BY <1>7, <1>10 DEF a
    <2>2. CodeOf(personAry)[c] = 0
      BY <1>7, <1>10, <2>1, CodeOfPersons DEF Consistent, PersonsApart
    <2>3. onlyCode = CodeOf(personAry)
      BY DEF Consistent, BoardAgrees
    <2> QED
      BY <2>2, <2>3
  <1>11. CanMove(p, a, d, onlyCode) <=> Puzzle!Free(p, <<b.x, b.y>>)
    BY <1>3, <1>6, <1>7, <1>8, <1>9, <1>10
  <1> QED
    BY <1>11 DEF a, b

\* canMoveToDirection: decides the puzzle's rule, no more and no less.
THEOREM GuardExactAlways == BoardSpec => []GuardExact
  <1>1. Consistent => GuardExact
    BY GuardIsFree DEF GuardExact
  <1> QED
    BY <1>1, ConsistentAlways, PTL

\* The level implements the puzzle: it starts where the puzzle starts, and
\* each of its steps slides one block to a free neighbouring square, starts
\* over, or changes nothing.
THEOREM LevelImplementsPuzzle == BoardSpec => ImplementsPuzzle
  <1>1. BoardInit => Puzzle!Init
    BY DEF BoardInit, Puzzle!Init
  <1>2. Consistent /\ [BoardNext]_boardVars => [Puzzle!Next]_([p \in Person |-> <<personAry[p].x, personAry[p].y>>])
    <2> SUFFICES ASSUME Consistent, [BoardNext]_boardVars
                 PROVE  [Puzzle!Next]_([p \in Person |-> <<personAry[p].x, personAry[p].y>>])
      OBVIOUS
    <2> DEFINE at == [q \in Person |-> <<personAry[q].x, personAry[q].y>>]
    <2>1. CASE UNCHANGED boardVars
      BY <2>1 DEF boardVars
    <2>2. CASE ResetLayout
      BY <2>2 DEF ResetLayout, Puzzle!Next, Puzzle!StartOver
    <2>3. ASSUME NEW p \in Person, NEW d \in Direction, MoveTo(p, d)
          PROVE  Puzzle!Next
      <3> DEFINE a == personAry[p]
                 b == Shift(a, d)
                 s == <<b.x, b.y>>
      <3>1. a \in Place
        BY DEF Consistent, BoardTypeOK
      <3>2. Puzzle!Free(p, s)
        BY <2>3, GuardIsFree DEF MoveTo
      <3>3. s \in Puzzle!Neighbours(at[p])
        <4>1. PICK x \in 0..3, y \in 0..4 : a = [x |-> x, y |-> y]
          BY <3>1 DEF Place
        <4>2. at[p] = <<x, y>>
          BY <4>1
        <4>3. \/ s = <<x + 1, y>> \/ s = <<x - 1, y>>
              \/ s = <<x, y + 1>> \/ s = <<x, y - 1>>
          BY <4>1 DEF Shift, Direction
        <4> QED
          BY <4>2, <4>3 DEF Puzzle!Neighbours
      <3>4. at' = [at EXCEPT ![p] = s]
        BY <2>3 DEF MoveTo, Consistent, BoardTypeOK
      <3> QED
        BY <3>2, <3>3, <3>4 DEF Puzzle!Next, Puzzle!SlideTo
    <2> QED
      BY <2>1, <2>2, <2>3 DEF BoardNext
  <1> QED
    BY <1>1, <1>2, ConsistentAlways, PTL DEF BoardSpec, ImplementsPuzzle, Puzzle!Spec

-----------------------------------------------------------------------------
(* A session of a level                                                    *)

\* Every step of a session is a step of the level or leaves its board alone.
LEMMA StepsOfBoard == [Next]_vars => [BoardNext]_boardVars
  <1> SUFFICES ASSUME [Next]_vars PROVE [BoardNext]_boardVars
    OBVIOUS
  <1>1. ASSUME NEW p \in Person, NEW d \in Direction, Swipe(p, d)
        PROVE  [BoardNext]_boardVars
    <2>1. CASE CanMove(p, personAry[p], d, onlyCode)
      BY <1>1, <2>1 DEF Swipe, BoardNext
    <2>2. CASE ~ CanMove(p, personAry[p], d, onlyCode)
      BY <1>1, <2>2 DEF Swipe, boardVars
    <2> QED
      BY <2>1, <2>2
  <1>2. CASE AlertPresented \/ TapReset \/ Relaunch
    BY <1>2 DEF AlertPresented, TapReset, Relaunch, BoardNext
  <1>3. CASE OpenLevel \/ TapRestart \/ TapQuit \/ TapBack \/ PageGone
             \/ TapSave \/ TapAutoSolve \/ UNCHANGED vars
    BY <1>3 DEF OpenLevel, TapRestart, TapQuit, TapBack, PageGone, TapSave,
                TapAutoSolve, vars, boardVars
  <1> QED
    BY <1>1, <1>2, <1>3 DEF Next

\* The board of a session is consistent, as that of any level.
LEMMA BoardConsistent == Spec => []Consistent
  <1>1. Init => BoardInit
    BY DEF Init
  <1>2. [Next]_vars => [BoardNext]_boardVars
    BY StepsOfBoard
  <1>3. Spec => BoardSpec
    BY <1>1, <1>2, PTL DEF Spec, BoardSpec
  <1> QED
    BY <1>3, ConsistentAlways, PTL

-----------------------------------------------------------------------------
(* The counters, the screen and the row                                    *)

\* Types of the variables that are not the board's.
SessionTypeOK ==
    /\ currentStep \in Steps
    /\ bestStep \in Records
    /\ page \in Page
    /\ frames \in [Person -> Place] \cup {NoView}
    /\ panel \in Steps \X Records
    /\ alertSteps \in Steps
    /\ row \in [layout : [Person -> Place], step : Steps, best : Records]

\* What the properties need besides each other: a page that is not on screen
\* has no view, and the object's record is the row's.
SessionInv ==
    /\ SessionTypeOK
    /\ ScreenAgrees
    /\ SolvedOnlyWhileWon
    /\ ListIsSaved
    /\ WinRecorded
    /\ page = "list" => frames = NoView
    /\ bestStep = row.best

\* The counters stay within their bounds.
LEMMA StepTypes ==
  /\ 0 \in Steps /\ 0 \in Records /\ -1 \in Records
  /\ Steps \subseteq Int /\ Records \subseteq Int
  /\ \A n \in Steps : n < MaxStep => n + 1 \in Steps
  /\ \A b \in Records, n \in Steps : /\ MaxOf(b, n) \in Records
                                     /\ MaxOf(b, n) >= b /\ MaxOf(b, n) >= n
  BY MaxStepAssumption DEF Steps, Records, MaxOf

\* A layout is not solved to begin with, and a reset leaves it so.
LEMMA ResetBoard ==
  ASSUME ResetLayout
  PROVE  personAry' = Origin /\ ~ GameOver(onlyCode')
  BY OriginNotOver DEF ResetLayout, GameOver

\* A new level.
LEMMA InitSession == Init => SessionInv
  <1> SUFFICES ASSUME Init PROVE SessionInv
    OBVIOUS
  <1>1. ~ GameOver(onlyCode)
    BY OriginNotOver DEF Init, BoardInit, GameOver
  <1>2. row \in [layout : [Person -> Place], step : Steps, best : Records]
    BY OriginAssumption, StepTypes DEF Init, RowOf
  <1>3. SessionTypeOK
    BY <1>2, StepTypes DEF Init, SessionTypeOK, Page
  <1>4. ScreenAgrees /\ ListIsSaved /\ WinRecorded /\ SolvedOnlyWhileWon
    BY <1>1 DEF Init, RowOf, ScreenAgrees, ListIsSaved, WinRecorded, SolvedOnlyWhileWon
  <1> QED
    BY <1>3, <1>4 DEF Init, RowOf, SessionInv

\* A swipe moves the model and the screen alike, and notices a solved board.
LEMMA SwipeSession ==
  ASSUME SessionInv, BoardTypeOK, BoardTypeOK',
         NEW p \in Person, NEW d \in Direction, Swipe(p, d)
  PROVE  SessionInv'
  <1> USE DEF SessionInv, SessionTypeOK
  <1>1. page = "playing" /\ frames = personAry /\ panel = <<currentStep, bestStep>>
    BY DEF Swipe, ScreenAgrees
  <1>2. /\ frames' = personAry' /\ panel' = <<currentStep', bestStep'>>
        /\ currentStep' \in Steps
    <2>1. CASE CanMove(p, personAry[p], d, onlyCode)
      <3>1. frames' = personAry'
        BY <1>1, <2>1 DEF Swipe, MoveTo
      <3>2. panel' = <<currentStep', bestStep'>> /\ currentStep' \in Steps
        BY <2>1, StepTypes DEF Swipe
      <3> QED
        BY <3>1, <3>2
    <2>2. CASE ~ CanMove(p, personAry[p], d, onlyCode)
      BY <1>1, <2>2 DEF Swipe
    <2> QED
      BY <2>1, <2>2
  <1>3. \/ page' = "playing" /\ alertSteps' = alertSteps /\ ~ GameOver(onlyCode')
        \/ page' = "won" /\ alertSteps' = currentStep'
    <2>1. CASE GameOver(onlyCode')
      BY <2>1 DEF Swipe
    <2>2. CASE ~ GameOver(onlyCode')
      BY <1>1, <2>2 DEF Swipe
    <2> QED
      BY <2>1, <2>2
  <1>4. bestStep' = bestStep /\ row' = row
    BY DEF Swipe
  <1>5. personAry' \in [Person -> Place]
    BY DEF BoardTypeOK
  <1>6. SessionTypeOK'
    BY <1>2, <1>3, <1>4, <1>5 DEF Page
  <1>7. ScreenAgrees' /\ SolvedOnlyWhileWon' /\ ListIsSaved' /\ WinRecorded'
    BY <1>2, <1>3 DEF ScreenAgrees, SolvedOnlyWhileWon, ListIsSaved, WinRecorded
  <1> QED
    BY <1>3, <1>4, <1>6, <1>7

\* The completion of the alert records what the alert tells.
LEMMA AlertSession ==
  ASSUME SessionInv, BoardTypeOK', AlertPresented
  PROVE  SessionInv'
  <1> USE DEF SessionInv, SessionTypeOK
  <1>1. personAry' = Origin /\ ~ GameOver(onlyCode')
    BY ResetBoard DEF AlertPresented
  <1>2. bestStep' \in Records /\ bestStep' # -1
    <2>1. bestStep' \in Records /\ bestStep' >= currentStep
      BY StepTypes DEF AlertPresented
    <2> QED
      BY <2>1, StepTypes DEF Steps, Records
  <1>3. row' = [layout |-> Origin, step |-> currentStep, best |-> bestStep']
    BY <1>1 DEF AlertPresented, RowOf
  <1>4. currentStep' = 0 /\ page' = "alert"
    BY DEF AlertPresented
  <1>5. SessionTypeOK'
    BY <1>2, <1>3, <1>4, OriginAssumption, StepTypes DEF AlertPresented, Page
  <1>6. ScreenAgrees' /\ SolvedOnlyWhileWon' /\ ListIsSaved'
    BY <1>1, <1>4 DEF ScreenAgrees, SolvedOnlyWhileWon, ListIsSaved
  <1>7. WinRecorded'
    BY <1>1, <1>2, <1>3, <1>4 DEF WinRecorded
  <1>8. bestStep' = row'.best
    BY <1>3
  <1> QED
    BY <1>4, <1>5, <1>6, <1>7, <1>8

\* The steps that read the model into the screen.
LEMMA ShowSession ==
  ASSUME SessionInv, BoardTypeOK, OpenLevel \/ TapRestart
  PROVE  SessionInv'
  <1> USE DEF SessionInv, SessionTypeOK
  <1>1. personAry \in [Person -> Place]
    BY DEF BoardTypeOK
  <1>2. ~ GameOver(onlyCode)
    BY DEF SolvedOnlyWhileWon, OpenLevel, TapRestart
  <1>3. SessionTypeOK'
    BY <1>1 DEF OpenLevel, TapRestart, Page
  <1>4. ScreenAgrees' /\ SolvedOnlyWhileWon' /\ ListIsSaved' /\ WinRecorded'
    BY <1>2 DEF ScreenAgrees, SolvedOnlyWhileWon, ListIsSaved, WinRecorded,
                OpenLevel, TapRestart, GameOver
  <1> QED
    BY <1>3, <1>4 DEF OpenLevel, TapRestart

\* The steps that only leave the page or freeze it.
LEMMA LeaveSession ==
  ASSUME SessionInv, TapQuit \/ TapBack \/ TapAutoSolve
  PROVE  SessionInv'
  <1> USE DEF SessionInv, SessionTypeOK, TapQuit, TapBack, TapAutoSolve
  <1>1. SessionTypeOK'
    BY DEF Page
  <1>2. ScreenAgrees' /\ SolvedOnlyWhileWon' /\ ListIsSaved' /\ WinRecorded'
    BY DEF ScreenAgrees, SolvedOnlyWhileWon, ListIsSaved, WinRecorded, GameOver
  <1> QED
    BY <1>1, <1>2

\* The steps that write the row from the object.
LEMMA SaveSession ==
  ASSUME SessionInv, BoardTypeOK, PageGone \/ TapSave
  PROVE  SessionInv'
  <1> USE DEF SessionInv, SessionTypeOK
  <1>1. personAry \in [Person -> Place]
    BY DEF BoardTypeOK
  <1>2. row' = [layout |-> personAry, step |-> currentStep, best |-> bestStep]
    BY DEF PageGone, TapSave, RowOf
  <1>3. SessionTypeOK'
    BY <1>1, <1>2 DEF PageGone, TapSave, Page
  <1>4. ScreenAgrees' /\ SolvedOnlyWhileWon' /\ WinRecorded'
    BY DEF ScreenAgrees, SolvedOnlyWhileWon, WinRecorded, PageGone, TapSave, GameOver
  <1>5. ListIsSaved' /\ bestStep' = row'.best
    BY <1>2 DEF ListIsSaved, PageGone, TapSave
  <1> QED
    BY <1>3, <1>4, <1>5 DEF PageGone, TapSave

\* Starting over, and starting the process again.
LEMMA ResetSession ==
  ASSUME SessionInv, TapReset \/ Relaunch
  PROVE  SessionInv'
  <1> USE DEF SessionInv, SessionTypeOK
  <1>1. personAry' = Origin /\ ~ GameOver(onlyCode')
    BY ResetBoard DEF TapReset, Relaunch
  <1>2. SessionTypeOK'
    BY <1>1, OriginAssumption, StepTypes DEF TapReset, Relaunch, Page
  <1>3. ScreenAgrees' /\ SolvedOnlyWhileWon' /\ ListIsSaved' /\ WinRecorded'
    BY <1>1 DEF ScreenAgrees, SolvedOnlyWhileWon, ListIsSaved, WinRecorded, TapReset, Relaunch
  <1>4. bestStep' = row'.best
    BY DEF TapReset, Relaunch
  <1> QED
    BY <1>2, <1>3, <1>4 DEF TapReset, Relaunch

\* The invariant of a session.
LEMMA SessionInvAlways == Spec => []SessionInv
  <1>1. SessionInv /\ BoardTypeOK /\ BoardTypeOK' /\ [Next]_vars => SessionInv'
    <2> SUFFICES ASSUME SessionInv, BoardTypeOK, BoardTypeOK', [Next]_vars
                 PROVE  SessionInv'
      OBVIOUS
    <2>1. CASE UNCHANGED vars
      BY <2>1 DEF vars, SessionInv, SessionTypeOK, ScreenAgrees, SolvedOnlyWhileWon,
                  ListIsSaved, WinRecorded, GameOver
    <2>2. ASSUME NEW p \in Person, NEW d \in Direction, Swipe(p, d)
          PROVE  SessionInv'
      BY <2>2, SwipeSession
    <2>3. CASE AlertPresented
      BY <2>3, AlertSession
    <2>4. CASE OpenLevel \/ TapRestart
      BY <2>4, ShowSession
    <2>5. CASE TapQuit \/ TapBack \/ TapAutoSolve
      BY <2>5, LeaveSession
    <2>6. CASE PageGone \/ TapSave
      BY <2>6, SaveSession
    <2>7. CASE TapReset \/ Relaunch
      BY <2>7, ResetSession
    <2> QED
      BY <2>1, <2>2, <2>3, <2>4, <2>5, <2>6, <2>7 DEF Next
  <1>2. Consistent => BoardTypeOK
    BY DEF Consistent
  <1> QED
    BY <1>1, <1>2, InitSession, BoardConsistent, PTL DEF Spec

\* Types, for every layout and step bound.
THEOREM TypeAlways == Spec => []TypeOK
  <1>1. SessionInv /\ Consistent => TypeOK
    BY DEF SessionInv, SessionTypeOK, TypeOK, Consistent
  <1> QED
    BY <1>1, SessionInvAlways, BoardConsistent, PTL

\* Whenever the page takes touches, the screen shows the model.
THEOREM ScreenAgreesAlways == Spec => []ScreenAgrees
  <1>1. SessionInv => ScreenAgrees
    BY DEF SessionInv
  <1> QED
    BY <1>1, SessionInvAlways, PTL

\* A solved board never outlives the alert it brings up.
THEOREM SolvedOnlyWhileWonAlways == Spec => []SolvedOnlyWhileWon
  <1>1. SessionInv => SolvedOnlyWhileWon
    BY DEF SessionInv
  <1> QED
    BY <1>1, SessionInvAlways, PTL

\* The list never shows a level whose counters are not in the table.
THEOREM ListIsSavedAlways == Spec => []ListIsSaved
  <1>1. SessionInv => ListIsSaved
    BY DEF SessionInv
  <1> QED
    BY <1>1, SessionInvAlways, PTL

\* A win that the user has been told of has left a record in the table.
THEOREM WinRecordedAlways == Spec => []WinRecorded
  <1>1. SessionInv => WinRecorded
    BY DEF SessionInv
  <1> QED
    BY <1>1, SessionInvAlways, PTL

\* The record in the table changes in a win only, and to the steps of that
\* game, across any number of saves and launches.
THEOREM RecordIsOfAWinAlways == Spec => RecordIsOfAWin
  <1>1. SessionInv /\ [Next]_vars
          => [row'.best # row.best => page = "won" /\ row'.best = currentStep]_row
    <2> SUFFICES ASSUME SessionInv, [Next]_vars, row'.best # row.best
                 PROVE  page = "won" /\ row'.best = currentStep
      OBVIOUS
    <2>1. bestStep = row.best
      BY DEF SessionInv
    <2>2. AlertPresented \/ PageGone \/ TapSave
      BY DEF Next, vars, OpenLevel, Swipe, TapRestart, TapQuit, TapBack, TapReset,
             TapAutoSolve, Relaunch
    <2>3. ~ (PageGone \/ TapSave)
      BY <2>1 DEF PageGone, TapSave, RowOf
    <2>4. AlertPresented
      BY <2>2, <2>3
    <2>5. page = "won" /\ row'.best = MaxOf(bestStep, currentStep)
      BY <2>4 DEF AlertPresented, RowOf
    <2> QED
      BY <2>1, <2>5 DEF MaxOf
  <1> QED
    BY <1>1, SessionInvAlways, PTL DEF Spec, RecordIsOfAWin

\* What is seen from opening a page to leaving it is moves by the rules and
\* returns to the layout: the screen is the model whenever a swipe changes it,
\* and the model's moves keep the persons on the board and apart.
THEOREM SeenMovesAreLegalAlways == Spec => SeenMovesAreLegal
  <1>1. SessionInv /\ SessionInv' /\ Consistent /\ Consistent' /\ [Next]_vars =>
          [frames # NoView /\ frames' # NoView /\ frames' # frames =>
              \/ frames' = Origin
              \/ /\ \E p \in Person, d \in Direction :
                       frames' = [frames EXCEPT ![p] = Shift(@, d)]
                 /\ InBounds(frames') /\ Apart(frames')]_frames
    <2> SUFFICES ASSUME SessionInv, SessionInv', Consistent', [Next]_vars,
                        frames # NoView, frames' # NoView, frames' # frames
                 PROVE  \/ frames' = Origin
                        \/ /\ \E p \in Person, d \in Direction :
                                 frames' = [frames EXCEPT ![p] = Shift(@, d)]
                           /\ InBounds(frames') /\ Apart(frames')
      OBVIOUS
    <2>1. ~ (OpenLevel \/ PageGone \/ Relaunch)
      BY DEF OpenLevel, PageGone, Relaunch, SessionInv
    <2>2. \/ \E p \in Person, d \in Direction : Swipe(p, d)
          \/ TapRestart
          \/ TapReset
      BY <2>1 DEF Next, vars, AlertPresented, TapQuit, TapBack, TapSave, TapAutoSolve
    <2>3. CASE TapRestart
      BY <2>3 DEF TapRestart, SessionInv, WinRecorded
    <2>4. CASE TapReset
      BY <2>4 DEF TapReset, ResetLayout
    <2>5. ASSUME NEW p \in Person, NEW d \in Direction, Swipe(p, d)
          PROVE  /\ frames' = [frames EXCEPT ![p] = Shift(@, d)]
                 /\ InBounds(frames') /\ Apart(frames')
      <3>1. page = "playing" /\ frames = personAry
        BY <2>5 DEF Swipe, SessionInv, ScreenAgrees
      <3>2. /\ CanMove(p, personAry[p], d, onlyCode)
            /\ frames' = [frames EXCEPT ![p] = Shift(@, d)]
        BY <2>5 DEF Swipe
      <3>3. frames' = personAry'
        BY <2>5, <3>1, <3>2 DEF Swipe, MoveTo
      <3>4. InBounds(personAry') /\ Apart(personAry')
        BY DEF Consistent, PersonsApart
      <3> QED
        BY <3>2, <3>3, <3>4
    <2> QED
      BY <2>2, <2>3, <2>4, <2>5
  <1> QED
    BY <1>1, SessionInvAlways, BoardConsistent, PTL DEF Spec, SeenMovesAreLegal

\* All that holds between two handlers of a session, for every layout.
THEOREM CoherentAlways == Spec => []Coherent
  BY TypeAlways, ScreenAgreesAlways, SolvedOnlyWhileWonAlways, ListIsSavedAlways,
     WinRecordedAlways, PTL DEF Coherent

=============================================================================
