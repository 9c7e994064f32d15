-------------------------------- MODULE MCApp --------------------------------
(* One person of each shape on the real 4 x 5 board; the two oddities of   *)
(* level.plist in a list of four: a name that two levels have, and a       *)
(* layout that two levels have.                                            *)
EXTENDS App

MCPerson == 0..3

MCShape ==
    [p \in MCPerson |->
        CASE p = 0 -> [width |-> 2, height |-> 2]
          [] p = 1 -> [width |-> 1, height |-> 2]
          [] p = 2 -> [width |-> 2, height |-> 1]
          [] p = 3 -> [width |-> 1, height |-> 1]]

MCOrigin ==
    [p \in MCPerson |->
        CASE p = 0 -> [x |-> 1, y |-> 0]
          [] p = 1 -> [x |-> 0, y |-> 0]
          [] p = 2 -> [x |-> 1, y |-> 2]
          [] p = 3 -> [x |-> 3, y |-> 4]]

MCPlist ==
    << [name |-> "besieged", layout |-> 1],
       [name |-> "guarded",  layout |-> 2],
       [name |-> "guarded",  layout |-> 3],
       [name |-> "fledged",  layout |-> 1] >>

=============================================================================
