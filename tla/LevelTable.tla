----------------------------- MODULE LevelTable -----------------------------
(***************************************************************************)
(* The list of levels: the table `Level` in the database, the array        *)
(* `stages` of Level objects that StageSelectModel makes from it or, the   *)
(* first time, from level.plist, the level of the day that                 *)
(* KlotskiTabController keeps in the user defaults, and the saves of the   *)
(* level that is being played.  All of it runs on the main thread of one   *)
(* process, which can end after any write, and is then launched again.     *)
(*                                                                         *)
(* Playing is reduced here to the counters that are saved; LevelGame has   *)
(* the board, the page and the alert.                                      *)
(***************************************************************************)
EXTENDS Integers, Sequences

CONSTANTS
    Plist,      \* level.plist: a sequence of [name, layout]
    NoName,     \* no string in the user defaults
    MaxStep,    \* bound of the model: the steps counted for one game
    MaxTouch,   \* bound of the model: the touches of the user
    MaxDay      \* bound of the model: the last day

\* No two entries of level.plist have both their name and their layout in common.
ASSUME PlistAssumption ==
    /\ Plist \in Seq({Plist[i] : i \in DOMAIN Plist})
    /\ Len(Plist) > 0
    /\ \A i, j \in DOMAIN Plist :
        i # j => Plist[i].name # Plist[j].name \/ Plist[i].layout # Plist[j].layout
ASSUME BoundAssumption == {MaxStep, MaxTouch, MaxDay} \subseteq Nat

VARIABLES
    phase,    \* where the process is, see Phase
    rows,     \* the table, in the order of its row ids
    stages,   \* StageSelectModel.stages; empty while there is no process
    open,     \* index in stages of the level on screen, 0 for none
    saved,    \* the user defaults Klotski_today, _indexAtLevel, _todayLevelName
    day,      \* the date
    touches   \* the touches so far

vars == <<phase, rows, stages, open, saved, day, touches>>

\* "off": no process.  "seeding": init of StageSelectModel is in its loop.
\* "date", "draw", "name", "home": todayLevel is about to compare the date,
\* to draw and write the index, to write the name, to use the index.
\* "ready": the tabs are on screen.
Phase == {"off", "seeding", "date", "draw", "name", "home", "ready"}

Object(level, step, best, favorite) ==
    [name |-> level.name, layout |-> level.layout,
     step |-> step, best |-> best, favorite |-> favorite]

\* init: no steps, never won, not a favourite.
Fresh(level) == Object(level, 0, -1, FALSE)

KeysDiffer(t) ==
    \A i, j \in DOMAIN t : i # j => t[i].layout # t[j].layout

\* A sequence without its i-th entry.
Removed(t, i) == SubSeq(t, 1, i - 1) \o SubSeq(t, i + 1, Len(t))

\* insertOrReplaceObject: the layout is the primary key; the row that had it
\* goes, and the new one comes last.
InsertOrReplace(t, level) ==
    LET same == {i \in DOMAIN t : t[i].layout = level.layout}
    IN  Append(IF same = {} THEN t ELSE Removed(t, CHOOSE i \in same : TRUE), level)

Written(t, level) == [i \in DOMAIN t |-> IF t[i].name = level.name THEN level ELSE t[i]]

\* Mutant: a row in conflict with the update is replaced by it.
UpdateDB_OrReplace(t, level) ==
    IF \E r \in DOMAIN t : t[r].name = level.name
    THEN Append(SelectSeq(t, LAMBDA r : level.name # r.name /\ level.layout # r.layout), level)
    ELSE t

\* updateDB writes every column, the primary key too, of every row of that
\* name.  A duplicate key fails the statement as a whole; nobody is told.
UpdateDB(t, level) ==
    LET new == Written(t, level)
    IN  IF KeysDiffer(new) THEN new ELSE t

\* A new installation.
Init ==
    /\ phase = "off"
    /\ rows = <<>>
    /\ stages = <<>>
    /\ open = 0
    /\ saved = [day |-> -1, index |-> 0, name |-> NoName]
    /\ day = 0
    /\ touches = 0

\* Mutant: the records are not among the columns read.
Launch_NoRecords ==
    /\ phase = "off"
    /\ stages' = [i \in DOMAIN rows |-> [rows[i] EXCEPT !.best = -1]]
    /\ phase' = IF rows = <<>> THEN "seeding" ELSE "date"
    /\ UNCHANGED <<rows, open, saved, day, touches>>

\* viewDidLoad of the tab controller: the levels of the table, if any.
Launch ==
    /\ phase = "off"
    /\ stages' = rows
    /\ phase' = IF rows = <<>> THEN "seeding" ELSE "date"
    /\ UNCHANGED <<rows, open, saved, day, touches>>

\* One turn of the loop over level.plist: the new Level inserts its row.
Seed ==
    /\ phase = "seeding"
    /\ LET level == Fresh(Plist[Len(stages) + 1])
       IN  /\ rows' = InsertOrReplace(rows, level)
           /\ stages' = Append(stages, level)
    /\ phase' = IF Len(stages') = Len(Plist) THEN "date" ELSE "seeding"
    /\ UNCHANGED <<open, saved, day, touches>>

\* todayLevel, one step for each write it makes.
CheckDate ==
    /\ phase = "date"
    /\ phase' = IF saved.day # day THEN "draw" ELSE "home"
    /\ saved' = [saved EXCEPT !.day = day]
    /\ UNCHANGED <<rows, stages, open, day, touches>>

\* arc4random() % count
DrawIndex ==
    /\ phase = "draw"
    /\ \E i \in 0..Len(stages)-1 : saved' = [saved EXCEPT !.index = i]
    /\ phase' = "name"
    /\ UNCHANGED <<rows, stages, open, day, touches>>

WriteName ==
    /\ phase = "name"
    /\ saved' = [saved EXCEPT !.name = stages[saved.index + 1].name]
    /\ phase' = "home"
    /\ UNCHANGED <<rows, stages, open, day, touches>>

\* The home page gets stages[index]; past the end the process dies.
ShowHome ==
    /\ phase = "home"
    /\ IF saved.index < Len(stages)
       THEN phase' = "ready" /\ UNCHANGED stages
       ELSE phase' = "off" /\ stages' = <<>>
    /\ UNCHANGED <<rows, open, saved, day, touches>>

\* What the user does, as far as the bound goes.
Touch ==
    /\ phase = "ready"
    /\ touches < MaxTouch
    /\ touches' = touches + 1
    /\ UNCHANGED <<phase, saved, day>>

\* didSelectRow of the list, or the recommendation of the home page, which
\* shares its Level object with the list.
OpenLevel(i) ==
    /\ Touch
    /\ open = 0
    /\ open' = i
    /\ UNCHANGED <<rows, stages>>

\* The star in the list: it changes the object only.
ToggleFavorite(i) ==
    /\ Touch
    /\ open = 0
    /\ stages' = [stages EXCEPT ![i].favorite = ~ @]
    /\ UNCHANGED <<rows, open>>

\* A swipe that moves a person.
Move ==
    /\ Touch
    /\ open # 0
    /\ stages[open].step < MaxStep
    /\ stages' = [stages EXCEPT ![open].step = @ + 1]
    /\ UNCHANGED <<rows, open>>

\* The alert of a won game is up: record, save, then the counter is reset.
Win ==
    /\ Touch
    /\ open # 0
    /\ stages[open].step > 0
    /\ LET level == stages[open]
           won == [level EXCEPT !.best = IF @ >= level.step THEN @ ELSE level.step]
       IN  /\ rows' = UpdateDB(rows, won)
           /\ stages' = [stages EXCEPT ![open] = [won EXCEPT !.step = 0]]
    /\ UNCHANGED open

StartOver ==
    /\ Touch
    /\ open # 0
    /\ stages' = [stages EXCEPT ![open].step = 0]
    /\ UNCHANGED <<rows, open>>

Save ==
    /\ Touch
    /\ open # 0
    /\ rows' = UpdateDB(rows, stages[open])
    /\ UNCHANGED <<stages, open>>

\* Mutant: leaving does not save.
Leave_NoSave ==
    /\ phase = "ready"
    /\ open # 0
    /\ open' = 0
    /\ UNCHANGED <<rows, phase, stages, saved, day, touches>>

\* The page disappears.
Leave ==
    /\ phase = "ready"
    /\ open # 0
    /\ rows' = UpdateDB(rows, stages[open])
    /\ open' = 0
    /\ UNCHANGED <<phase, stages, saved, day, touches>>

\* The process ends.
Kill ==
    /\ phase # "off"
    /\ phase' = "off"
    /\ stages' = <<>>
    /\ open' = 0
    /\ UNCHANGED <<rows, saved, day, touches>>

NextDay ==
    /\ day < MaxDay
    /\ day' = day + 1
    /\ UNCHANGED <<phase, rows, stages, open, saved, touches>>

Next ==
    \/ Launch
    \/ Seed
    \/ CheckDate
    \/ DrawIndex
    \/ WriteName
    \/ ShowHome
    \/ \E i \in DOMAIN stages : OpenLevel(i)
    \/ \E i \in DOMAIN stages : ToggleFavorite(i)
    \/ Move
    \/ Win
    \/ StartOver
    \/ Save
    \/ Leave
    \/ Kill
    \/ NextDay

Spec == Init /\ [][Next]_vars

-----------------------------------------------------------------------------
(* Properties                                                              *)

Levels == {Plist[i] : i \in DOMAIN Plist}

Objects ==
    {o \in [name : {l.name : l \in Levels}, layout : {l.layout : l \in Levels},
            step : 0..MaxStep, best : -1..MaxStep, favorite : BOOLEAN] :
        \E l \in Levels : o.name = l.name /\ o.layout = l.layout}

\* Types of the variables.
TypeOK ==
    /\ phase \in Phase
    /\ rows \in Seq(Objects) /\ Len(rows) =< Len(Plist)
    /\ stages \in Seq(Objects) /\ Len(stages) =< Len(Plist)
    /\ open \in 0..Len(stages)
    /\ saved \in [day : -1..MaxDay, index : 0..Len(Plist)-1,
                  name : {l.name : l \in Levels} \cup {NoName}]
    /\ day \in 0..MaxDay
    /\ touches \in 0..MaxTouch

\* Although every save rewrites the primary key of whatever rows carry the
\* level's name, no row ever gets the name of one level with the layout of
\* another, and no layout has two rows.
RowsAreLevels ==
    /\ KeysDiffer(rows)
    /\ \A i \in DOMAIN rows :
        \E l \in Levels : rows[i].name = l.name /\ rows[i].layout = l.layout

Layouts(t) == {t[i].layout : i \in DOMAIN t}

\* A layout that has a row keeps one: neither the replacing insert nor a
\* save of a level with somebody else's name or layout deletes it for good.
NoLevelLost == [][Layouts(rows) \subseteq Layouts(rows')]_rows

\* The level on screen is being won in n steps: they are counted no longer.
WonIn(layout, n) ==
    /\ open # 0
    /\ stages[open].layout = layout
    /\ stages[open].step = n /\ n > 0 /\ stages'[open].step = 0

\* The record of a layout changes when the level with it is won, and to the
\* steps of that game.  No launch, no insert, and no save through another
\* level's name brings in another number, although a save writes all that
\* the object in memory has.
RecordsAreOfWins ==
    [][\A i \in DOMAIN rows, j \in DOMAIN rows' :
          rows[i].layout = rows'[j].layout /\ rows'[j].best # rows[i].best
              => WonIn(rows[i].layout, rows'[j].best)]_rows

\* updateDB finds exactly one row for the level, its own.
Savable(level) ==
    \E i \in DOMAIN rows :
        /\ rows[i].layout = level.layout
        /\ {j \in DOMAIN rows : rows[j].name = level.name} = {i}

\* The table has the level's counters.
InTable(level) ==
    \E r \in DOMAIN rows :
        /\ rows[r].layout = level.layout
        /\ rows[r].step = level.step
        /\ rows[r].best = level.best

\* While the list is on screen, the table holds the counters of every level
\* that can be saved, so a process that ends there loses no step and no
\* record of theirs.
ListIsSaved ==
    phase = "ready" /\ open = 0 =>
        \A i \in DOMAIN stages :
            Savable(stages[i]) => InTable(stages[i])

\* A process that ends while it seeds leaves a list that is never completed,
\* but it is the beginning of the plist, with no gap, on every later launch.
ListIsPrefix ==
    phase = "ready" =>
        \E n \in DOMAIN Plist : Layouts(stages) = Layouts(SubSeq(Plist, 1, n))

\* The index that one launch saves and another uses is past the end of the
\* list only if it was drawn by the launch that seeded the whole table, when
\* the list was still as long as the plist; the name, if it was written, is
\* that of the plist's level, which is not shown.
PastEndOnlyAfterSeeding ==
    phase \in {"name", "home"} /\ saved.index >= Len(stages) =>
        /\ phase = "home"
        /\ saved.index < Len(Plist)
        /\ Layouts(stages) = Layouts(Plist)
        /\ saved.name \in {NoName, Plist[saved.index + 1].name}

\* Table, list and user defaults agree, in every phase of every launch.
Coherent ==
    /\ TypeOK
    /\ RowsAreLevels
    /\ ListIsSaved
    /\ ListIsPrefix
    /\ PastEndOnlyAfterSeeding

=============================================================================
