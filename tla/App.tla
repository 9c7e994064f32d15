--------------------------------- MODULE App ---------------------------------
(***************************************************************************)
(* The parts of the app beside the page of a level: the board of one Level *)
(* object, the table and list of the levels, the tab bar.  LevelGame plays *)
(* on the first, and what it asks of the others (a save, a request to show *)
(* or hide the bar) is an action of theirs.  They share no state; a        *)
(* behaviour is of one of them.                                            *)
(***************************************************************************)
EXTENDS Level, LevelTable, TabBar

VARIABLE part

appVars == <<boardVars, vars, barVars, part>>

AppInit ==
    /\ BoardInit
    /\ Init
    /\ BarInit
    /\ part \in {"board", "levels", "bar"}

BoardStep == part = "board" /\ BoardNext /\ UNCHANGED <<vars, barVars, part>>
LevelsStep == part = "levels" /\ Next /\ UNCHANGED <<boardVars, barVars, part>>
BarStep(A) == part = "bar" /\ A /\ UNCHANGED <<boardVars, vars, part>>

AppNext == BoardStep \/ LevelsStep \/ BarStep(BarNext)

\* The fairness of BarSpec, where the part is the tab bar.
AppSpec ==
    /\ AppInit
    /\ [][AppNext]_appVars
    /\ WF_appVars(BarStep(Cut \/ \E k \in DOMAIN flight : Complete(k)))
    /\ WF_appVars(BarStep(HidePulled))
    /\ WF_appVars(BarStep(Opened \/ Popped))

=============================================================================
