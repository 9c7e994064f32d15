---------------------------- MODULE MCLevelGame ----------------------------
(* The lower right part of a board: the big square two cells from the      *)
(* corner, a soldier in the open space beside it, the rest filled so that  *)
(* little else can move.  A game can be won in two swipes or dragged out.  *)
EXTENDS LevelGame

MCPerson == 0..6

MCShape ==
    [p \in MCPerson |->
        CASE p = 0 -> [width |-> 2, height |-> 2]
          [] p \in 1..4 -> [width |-> 1, height |-> 2]
          [] p = 5 -> [width |-> 2, height |-> 1]
          [] p = 6 -> [width |-> 1, height |-> 1]]

MCOrigin ==
    [p \in MCPerson |->
        CASE p = 0 -> [x |-> 0, y |-> 3]
          [] p \in 1..4 -> [x |-> p - 1, y |-> 0]
          [] p = 5 -> [x |-> 0, y |-> 2]
          [] p = 6 -> [x |-> 2, y |-> 2]]

=============================================================================
