------------------------------- MODULE Solver -------------------------------
(***************************************************************************)
(* stepForCurrent of Level.mm: the breadth first search that the button    *)
(* 自动求解 (solve) starts from the board on screen.  One step is one turn *)
(* of the innermost loop.  The layer being expanded is a std::vector, and  *)
(* a node remembers its father by the address of the father's element, so  *)
(* the model knows which allocation of the vector is alive.                *)
(***************************************************************************)
EXTENDS KlotskiBoard, Sequences

CONSTANTS
    LastPerson, \* personAry.count - 1
    Boards,     \* the boards on which the button is tapped
    MaxDepth    \* bound of the model: the layers that are expanded

ASSUME PersonsAreIndices == LastPerson \in Nat /\ Person = 0..LastPerson
ASSUME MaxDepthAssumption == MaxDepth \in Nat
ASSUME BoardsAssumption ==
    /\ Boards \subseteq [Person -> Place]
    /\ \A b \in Boards : InBounds(b) /\ Apart(b) /\ ~ GameOver(CodeOf(b))

VARIABLES
    start,         \* personAry of the Level object, which the search only reads
    breadthTree,   \* the layer being expanded, a sequence of TreeNodes
    buffer,        \* which allocation holds the elements of breadthTree
    capacity,      \* how many elements that allocation holds
    all,           \* the sons made so far, the next layer
    turn,          \* the loop counters k, i and direction
    depth,         \* the number of layers expanded before this one
    victory, finalTree,
    phase          \* "search", "chain", "done" or "undefined"

solverVars == <<start, breadthTree, buffer, capacity, all, turn, depth,
          victory, finalTree, phase>>

NULL == <<>>

\* TreeNode; `before` is NULL or the allocation and the element of an address.
TreeNode(code, array, before) ==
    [code |-> code, array |-> array, index |-> 0, moveTo |-> 0, before |-> before]

\* PersonDirection by its number.
DirectionOf == [n \in 0..3 |->
    CASE n = 0 -> "Right" [] n = 1 -> "Left" [] n = 2 -> "UP" [] n = 3 -> "Down"]

FirstTurn == [k |-> 1, i |-> 0, direction |-> 0]

\* The three nested loops.
NextTurn(t) ==
    IF t.direction < 3 THEN [t EXCEPT !.direction = @ + 1]
    ELSE IF t.i < LastPerson THEN [t EXCEPT !.i = @ + 1, !.direction = 0]
    ELSE [k |-> t.k + 1, i |-> 0, direction |-> 0]

\* The father, the person and the direction of turn t.
Father(t) == breadthTree[t.k]
Dir(t) == DirectionOf[t.direction]
Movable(t) == CanMove(t.i, Father(t).array[t.i], Dir(t), Father(t).code)

\* Mutant: the person is moved in a copy of the son's array.
Son_FathersArray(t) ==
    LET f == Father(t)
    IN  [code |-> Slide(t.i, f.array[t.i], Dir(t), f.code),
         array |-> f.array,
         index |-> f.index, moveTo |-> f.moveTo, before |-> <<buffer, t.k>>]

\* Steps 2 to 4: a copy of the father, moved, with the father's address.
Son(t) ==
    LET f == Father(t)
    IN  [code |-> Slide(t.i, f.array[t.i], Dir(t), f.code),
         array |-> [f.array EXCEPT ![t.i] = Shift(@, Dir(t))],
         index |-> f.index, moveTo |-> f.moveTo, before |-> <<buffer, t.k>>]

\* Step 6: a board of the layer of the fathers has the same code.
IsSame(son) == \E b \in DOMAIN breadthTree : breadthTree[b].code = son.code

\* The root, copied once from the vector that holds it alone.
SolverInit ==
    /\ start \in Boards
    /\ breadthTree = <<TreeNode(CodeOf(start), start, NULL)>>
    /\ buffer = 1
    /\ capacity = 1
    /\ all = <<>>
    /\ turn = FirstTurn
    /\ depth = 0
    /\ victory = FALSE
    /\ finalTree = NULL
    /\ phase = "search"

\* Mutant: a later son that does not win takes the victory back.
TryMove_LastCounts ==
    /\ phase = "search"
    /\ turn.k =< Len(breadthTree)
    /\ IF Movable(turn)
       THEN LET son == Son(turn)
            IN  /\ victory' = GameOver(son.code)
                /\ finalTree' = IF GameOver(son.code) THEN son ELSE finalTree
                /\ all' = IF IsSame(son) THEN all ELSE Append(all, son)
       ELSE UNCHANGED <<victory, finalTree, all>>
    /\ turn' = NextTurn(turn)
    /\ UNCHANGED <<start, breadthTree, buffer, capacity, depth, phase>>

\* Mutant: the father is asked whether the game is over.
TryMove_FatherWins ==
    /\ phase = "search"
    /\ turn.k =< Len(breadthTree)
    /\ IF Movable(turn)
       THEN LET son == Son(turn)
            IN  /\ victory' = (victory \/ GameOver(Father(turn).code))
                /\ finalTree' = IF GameOver(Father(turn).code) THEN son ELSE finalTree
                /\ all' = IF IsSame(son) THEN all ELSE Append(all, son)
       ELSE UNCHANGED <<victory, finalTree, all>>
    /\ turn' = NextTurn(turn)
    /\ UNCHANGED <<start, breadthTree, buffer, capacity, depth, phase>>

\* One turn of the innermost loop.  A victory does not leave the loops.
TryMove ==
    /\ phase = "search"
    /\ turn.k =< Len(breadthTree)
    /\ IF Movable(turn)
       THEN LET son == Son(turn)
            IN  /\ victory' = (victory \/ GameOver(son.code))
                /\ finalTree' = IF GameOver(son.code) THEN son ELSE finalTree
                /\ all' = IF IsSame(son) THEN all ELSE Append(all, son)
       ELSE UNCHANGED <<victory, finalTree, all>>
    /\ turn' = NextTurn(turn)
    /\ UNCHANGED <<start, breadthTree, buffer, capacity, depth, phase>>

\* The end of the while's body: breadthTree = all.  The vector keeps its
\* allocation if all fits in it, and gets a new one otherwise.
NextLayer ==
    /\ phase = "search"
    /\ turn.k > Len(breadthTree)
    /\ depth < MaxDepth
    /\ breadthTree' = all
    /\ IF Len(all) > capacity
       THEN buffer' = buffer + 1 /\ capacity' = Len(all)
       ELSE UNCHANGED <<buffer, capacity>>
    /\ all' = <<>>
    /\ turn' = FirstTurn
    /\ depth' = depth + 1
    /\ phase' = IF victory THEN "chain" ELSE "search"
    /\ UNCHANGED <<start, victory, finalTree>>

\* `before` still points at an element of the vector.
Alive(before) == before[1] = buffer /\ before[2] =< Len(breadthTree)

\* The last loop: from the winning node to its father, to the root.  What
\* follows a read through an address that is no longer an element is
\* undefined.
FollowBefore ==
    /\ phase = "chain"
    /\ IF finalTree.before = NULL
       THEN phase' = "done" /\ UNCHANGED finalTree
       ELSE IF Alive(finalTree.before)
       THEN finalTree' = breadthTree[finalTree.before[2]] /\ UNCHANGED phase
       ELSE phase' = "undefined" /\ UNCHANGED finalTree
    /\ UNCHANGED <<start, breadthTree, buffer, capacity, all, turn, depth, victory>>

SolverNext == TryMove \/ NextLayer \/ FollowBefore

\* A synchronous call on the main thread: it goes on as long as it can.
SolverSpec == SolverInit /\ [][SolverNext]_solverVars /\ WF_solverVars(SolverNext)

-----------------------------------------------------------------------------
(* The moves of the puzzle, without codes, for reference.                  *)

\* The boards one move away from board b.
Around(b) ==
    {c \in {[b EXCEPT ![p] = Shift(@, d)] : p \in Person, d \in Direction} :
        /\ \A p \in Person : c[p] \in Place
        /\ InBounds(c)
        /\ Apart(c)}

\* The boards at most n moves away from board b, as Within[n][b].
Within[n \in 0 .. MaxDepth + 1] ==
    [b \in Boards |->
        IF n = 0 THEN {b}
        ELSE LET nearer == Within[n - 1][b]
             IN  nearer \cup UNION {Around(c) : c \in nearer}]

Wins(b) == \E p \in Person : Type(p) = BigSquare /\ b[p] = [x |-> 2, y |-> 3]

-----------------------------------------------------------------------------
(* Properties                                                              *)

Node ==
    [code : [Cell -> PersonType], array : [Person -> Place],
     index : {0}, moveTo : {0},
     before : {NULL} \cup ((Nat \ {0}) \X (Nat \ {0}))]

\* Types of the variables.
SolverTypeOK ==
    /\ start \in Boards
    /\ breadthTree \in Seq(Node)
    /\ buffer \in Nat \ {0}
    /\ capacity \in Nat \ {0}
    /\ all \in Seq(Node)
    /\ turn \in [k : Nat \ {0}, i : Person, direction : 0..3]
    /\ depth \in Nat
    /\ victory \in BOOLEAN
    /\ finalTree \in Node \cup {NULL}
    /\ phase \in {"search", "chain", "done", "undefined"}

\* A node holds a board twice, as persons and as code, and the moves patch
\* both.  They agree in every node of the search, and the persons are apart.
IsBoard(node) ==
    /\ InBounds(node.array)
    /\ Apart(node.array)
    /\ node.code = CodeOf(node.array)

NodesAreBoards ==
    /\ \A n \in DOMAIN breadthTree : IsBoard(breadthTree[n])
    /\ \A n \in DOMAIN all : IsBoard(all[n])

Arrays(layer) == {layer[n].array : n \in DOMAIN layer}

\* The layer at depth n holds every board whose shortest way from the start
\* has n moves, and none that is further away: the search misses no board,
\* although it drops those equal to a board of the fathers' layer.
LayersByDistance ==
    phase = "search" /\ turn = FirstTurn =>
        /\ Arrays(breadthTree) \subseteq Within[depth][start]
        /\ depth > 0 =>
            Within[depth][start] \ Within[depth - 1][start]
                \subseteq Arrays(breadthTree)

\* When a layer ends in victory, the final node is a won board one move beyond
\* it, and no board within its distance is won: the way is a shortest one.
FirstWinIsShortest ==
    phase = "search" /\ turn.k > Len(breadthTree) /\ victory =>
        /\ Wins(finalTree.array) /\ finalTree.array \in Within[depth + 1][start]
        /\ \A b \in Within[depth][start] : ~ Wins(b)

\* Types, and the two forms of every board of the search.
SolverCoherent == SolverTypeOK /\ NodesAreBoards

\* The comparison with the fathers never finds an equal board: every move
\* changes the parity of the sum of all coordinates, and a layer has one.
SameNeverFound ==
    phase = "search" /\ turn.k =< Len(breadthTree) /\ Movable(turn) => ~ IsSame(Son(turn))

\* The search is breadth first, and ends with a shortest way: nothing that is
\* dropped, met again, or found after the victory changes that.
BreadthFirst ==
    /\ LayersByDistance
    /\ FirstWinIsShortest
    /\ SameNeverFound

\* The way back is never read to its end: when it is read, the layer that
\* the first father was in has been overwritten or freed.
WayIsLost == phase # "done"

\* From a board that can be won the search comes to an end: no board is met
\* for ever, and the layer with the first win is the last.
SearchEnds == <>(phase # "search")

\* Level.h:113: "solve from the current puzzle, return the steps", so the
\* way back is read to the root.  Level.mm:487 overwrites the nodes first.
ReturnsSteps == <>(phase = "done")

=============================================================================
