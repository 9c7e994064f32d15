----------------------------- MODULE LevelGame -----------------------------
(***************************************************************************)
(* One level being played: the Level object, the LevelController page with *)
(* its LevelAdapter, LevelCollectionLayout and LevelDataView, the alert of *)
(* a won game, and the level's row in the table.  Everything runs on the   *)
(* main thread; what interleaves are the user's touches, the completions   *)
(* UIKit calls later (an alert presented, a page gone) and the end of the  *)
(* process, after which only the row is left.                              *)
(***************************************************************************)
EXTENDS Level

CONSTANT
    MaxStep    \* bound of the model: no swipe once currentStep is MaxStep

ASSUME MaxStepAssumption == MaxStep \in Nat \ {0}
ASSUME OriginNotOver == ~ GameOver(CodeOf(Origin))

VARIABLES
    currentStep, bestStep,   \* the counters of the Level object
    page,        \* what is on screen, see Page
    frames,      \* the frames in the layout's attributes, in cells
    panel,       \* the two numbers in the labels of LevelDataView
    alertSteps,  \* the number in the alert's text
    row          \* the row of the table: the saved columns

vars == <<personAry, onlyCode, currentStep, bestStep, page, frames, panel, alertSteps, row>>

(* "list": LevelController is not on screen.  "playing": it is.  "won": the *)
(* alert is being presented and its completion is still to come.  "alert":  *)
(* it waits for a button.  "leaving": the page is being popped.  "solving": *)
(* the main thread is in stepForCurrent, or dies of its result.             *)
Page == {"list", "playing", "won", "alert", "leaving", "solving"}

NoView == <<>>

MaxOf(a, b) == IF a >= b THEN a ELSE b

\* What updateDB writes: the counters, and the layout of _saveCurrentLayout.
RowOf(places, step, best) == [layout |-> places, step |-> step, best |-> best]

\* replacePersons: has inserted the level; nobody has played it.
Init ==
    /\ BoardInit
    /\ currentStep = 0
    /\ bestStep = -1
    /\ page = "list"
    /\ frames = NoView
    /\ panel = <<0, -1>>
    /\ alertSteps = 0
    /\ row = RowOf(Origin, 0, -1)

\* viewDidLoad: a new collection view, whose layout asks the model for the
\* frames, and a new data view.
OpenLevel ==
    /\ page = "list"
    /\ page' = "playing"
    /\ frames' = personAry
    /\ panel' = <<currentStep, bestStep>>
    /\ UNCHANGED <<personAry, onlyCode, currentStep, bestStep, alertSteps, row>>

\* _panItem: the item under the finger, one of the four recognizers.  The
\* alert's text is made when it is presented.
Swipe(p, d) ==
    /\ page = "playing"
    /\ currentStep < MaxStep
    /\ IF CanMove(p, personAry[p], d, onlyCode)
       THEN /\ MoveTo(p, d)
            /\ frames' = [frames EXCEPT ![p] = Shift(@, d)]
            /\ currentStep' = currentStep + 1
            /\ panel' = <<currentStep + 1, bestStep>>
       ELSE UNCHANGED <<personAry, onlyCode, frames, currentStep, panel>>
    /\ IF GameOver(onlyCode')
       THEN page' = "won" /\ alertSteps' = currentStep'
       ELSE UNCHANGED <<page, alertSteps>>
    /\ UNCHANGED <<bestStep, row>>

\* Mutant: the level is saved before the record is updated.
AlertPresented_SaveFirst ==
    /\ page = "won"
    /\ page' = "alert"
    /\ row' = RowOf(personAry, currentStep, bestStep)
    /\ bestStep' = MaxOf(bestStep, currentStep)
    /\ ResetLayout
    /\ currentStep' = 0
    /\ UNCHANGED <<frames, panel, alertSteps>>

\* The completion of presentViewController:, after the alert is up.
AlertPresented ==
    /\ page = "won"
    /\ page' = "alert"
    /\ bestStep' = MaxOf(bestStep, currentStep)
    /\ ResetLayout
    /\ row' = RowOf(personAry', currentStep, bestStep')
    /\ currentStep' = 0
    /\ UNCHANGED <<frames, panel, alertSteps>>

\* Mutant: only the labels follow the board that was reset.
TapRestart_KeepFrames ==
    /\ page = "alert"
    /\ page' = "playing"
    /\ panel' = <<currentStep, bestStep>>
    /\ UNCHANGED <<personAry, onlyCode, currentStep, bestStep, frames, alertSteps, row>>

\* 重新开始 (play again)
TapRestart ==
    /\ page = "alert"
    /\ page' = "playing"
    /\ panel' = <<currentStep, bestStep>>
    /\ frames' = personAry
    /\ UNCHANGED <<personAry, onlyCode, currentStep, bestStep, alertSteps, row>>

\* 退出游戏 (quit) on the alert, or the back button of the page.
TapQuit ==
    /\ page = "alert"
    /\ page' = "leaving"
    /\ UNCHANGED <<personAry, onlyCode, currentStep, bestStep, frames, panel, alertSteps, row>>

TapBack ==
    /\ page = "playing"
    /\ page' = "leaving"
    /\ UNCHANGED <<personAry, onlyCode, currentStep, bestStep, frames, panel, alertSteps, row>>

\* viewDidDisappear: saves the level; the controller and its views go away.
PageGone ==
    /\ page = "leaving"
    /\ page' = "list"
    /\ row' = RowOf(personAry, currentStep, bestStep)
    /\ frames' = NoView
    /\ UNCHANGED <<personAry, onlyCode, currentStep, bestStep, panel, alertSteps>>

\* The three buttons of LevelFuncView.  保存棋局 (save)
TapSave ==
    /\ page = "playing"
    /\ row' = RowOf(personAry, currentStep, bestStep)
    /\ UNCHANGED <<personAry, onlyCode, currentStep, bestStep, page, frames, panel, alertSteps>>

\* 重新开始 (start over)
TapReset ==
    /\ page = "playing"
    /\ ResetLayout
    /\ currentStep' = 0
    /\ panel' = <<0, bestStep>>
    /\ frames' = personAry'
    /\ UNCHANGED <<bestStep, page, alertSteps, row>>

\* 自动求解 (solve).  stepForCurrent runs on the main thread, and if it ends
\* _solveDic: casts a pointer to an item index, which raises.  No further
\* event is handled either way.
TapAutoSolve ==
    /\ page = "playing"
    /\ page' = "solving"
    /\ UNCHANGED <<personAry, onlyCode, currentStep, bestStep, frames, panel, alertSteps, row>>

\* The process ends, at any point between two handlers, and is launched
\* again: the level is read from its row.  setOriginLayoutStr: rebuilds the
\* persons from the layout, setCurrentLayoutStr: skips the tokens of the
\* saved places, which are two characters long, and calls resetLayout.
Relaunch ==
    /\ page' = "list"
    /\ ResetLayout
    /\ currentStep' = row.step
    /\ bestStep' = row.best
    /\ frames' = NoView
    /\ panel' = <<0, -1>>
    /\ alertSteps' = 0
    /\ UNCHANGED row

Next ==
    \/ OpenLevel
    \/ \E p \in Person, d \in Direction : Swipe(p, d)
    \/ AlertPresented
    \/ TapRestart
    \/ TapQuit
    \/ TapBack
    \/ PageGone
    \/ TapSave
    \/ TapReset
    \/ TapAutoSolve
    \/ Relaunch

Spec == Init /\ [][Next]_vars

-----------------------------------------------------------------------------
(* Properties                                                              *)

Steps == 0..MaxStep
Records == -1..MaxStep

\* Types of the variables.
TypeOK ==
    /\ BoardTypeOK
    /\ currentStep \in Steps
    /\ bestStep \in Records
    /\ page \in Page
    /\ frames \in [Person -> Place] \cup {NoView}
    /\ panel \in Steps \X Records
    /\ alertSteps \in Steps
    /\ row \in [layout : [Person -> Place], step : Steps, best : Records]

\* Whenever the page takes touches, what the user sees is the model: every
\* item lies where its person stands, and the labels show the counters.
\* The alert's completion resets the model behind the screen; only the
\* button tapped next makes the screen follow.
ScreenAgrees ==
    page = "playing" => frames = personAry /\ panel = <<currentStep, bestStep>>

\* A solved board is noticed in the swipe that solved it, and is gone before
\* the page takes another touch or is left.
SolvedOnlyWhileWon == GameOver(onlyCode) => page = "won"

\* When a level is not on screen, its counters are in the table: every way
\* out of the page saves them, so a process that ends on the list loses none.
ListIsSaved == page = "list" => row.step = currentStep /\ row.best = bestStep

\* By the time the user can dismiss the alert, the table has a record, the
\* object's, and the board is back at the layout with the counter at zero.
WinRecorded ==
    page = "alert" => /\ row.best # -1 /\ row.best = bestStep
                      /\ personAry = Origin /\ currentStep = 0

\* The record in the table changes in the completion of a won game's alert
\* only, and to the steps of that game: no save, however late and from
\* whatever page, and no launch brings in another number.
RecordIsOfAWin == [][row'.best # row.best => page = "won" /\ row'.best = currentStep]_row

\* What is seen between opening a page and leaving it is a game of klotski,
\* although items are moved one at a time, tests read the cell codes, and
\* the board is reset behind the alert: all lie where the layout says, or one
\* has slid a cell and still lies on the board and on no other.
SeenMovesAreLegal ==
    [][frames # NoView /\ frames' # NoView /\ frames' # frames =>
          \/ frames' = Origin
          \/ /\ \E p \in Person, d \in Direction :
                   frames' = [frames EXCEPT ![p] = Shift(@, d)]
             /\ InBounds(frames') /\ Apart(frames')]_frames

\* klotski.md:4 and Level.h:34: the record is the fewest steps, so it is not
\* above the number that the alert of a won game tells.  LevelAdapter.m:106
\* keeps the larger number.
BestIsFewest == page = "alert" => row.best =< alertSteps

\* Between any two handlers the parts of a session agree: the screen, the
\* solved board and its alert, the counters in memory and those in the table.
Coherent ==
    /\ TypeOK
    /\ ScreenAgrees
    /\ SolvedOnlyWhileWon
    /\ ListIsSaved
    /\ WinRecorded

=============================================================================
