------------------------------ MODULE MCSolver ------------------------------
(* The board of MCLevelGame, with the soldier out of the big square's way  *)
(* (two moves win) and with it in the way (three moves win).               *)
EXTENDS Solver

MCPerson == 0..6

MCShape ==
    [p \in MCPerson |->
        CASE p = 0 -> [width |-> 2, height |-> 2]
          [] p \in 1..4 -> [width |-> 1, height |-> 2]
          [] p = 5 -> [width |-> 2, height |-> 1]
          [] p = 6 -> [width |-> 1, height |-> 1]]

MCOrigin ==
    [p \in MCPerson |->
        CASE p = 0 -> [x |-> 0, y |-> 3]
          [] p \in 1..4 -> [x |-> p - 1, y |-> 0]
          [] p = 5 -> [x |-> 0, y |-> 2]
          [] p = 6 -> [x |-> 2, y |-> 2]]

SoldierAt(x, y) == [MCOrigin EXCEPT ![6] = [x |-> x, y |-> y]]

MCBoards == {MCOrigin, SoldierAt(2, 3), SoldierAt(3, 3)}

=============================================================================
