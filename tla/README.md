# Klotski: a TLA+ model of the app and of the storage library it is built on

This directory keeps the formal model of the iOS app in
`src/ByteDanceCampus_Klotski` and of `src/WCDB`, the library under it: TLA+
modules for their components, TLC configurations that check them on small
instances, and TLAPS proofs of what holds for every layout, any number of
threads and any list of files. Paths below are relative to
`src/ByteDanceCampus_Klotski/ByteDanceCampus_Klotski/` in the parts about the
app, to `src/WCDB/objc/WCDB/` in those about WCDB, unless they start with
`src/`.

    tlc -config MCApp.cfg MCApp                check a run (see "Runs")
    tlapm GameProofs.tla                       check the proofs of a module

`PROJECT.json` is the index: for every definition the lines of the source it
stands for, for every property a mutant of a definition that breaks it, the
hazards of the code and the properties aimed at them.


## 1. The system

Klotski (华容道) is a sliding block puzzle: rectangular persons on a grid of 4 by
5 cells; the player brings the big square (Cao Cao) to the exit. The app is a
tab controller with two pages, the home page (level of the day, team) and the
stage list; both push the level page on which a level is played. Everything
that belongs to the app runs on the main thread. What makes it hard is what
happens *between* handlers on that thread (touches, the completions UIKit calls
after an animation or a presentation), what is read from disk after the process
ended, and data that is updated in place for a long time.

WCDB keeps the levels. It wraps SQLite: Objective-C classes describe tables, C++
classes build SQL, and a pool of connections serves any thread of the app. What
makes it hard is concurrency (a lock, a pool and a queue shared by threads),
failure (any statement, any system call) and translation (what is meant becomes
a text that SQLite reads again).

| component | state it keeps | operations | talks to |
|---|---|---|---|
| Board and rules: `Model/Model/Level.mm`, `Person`, `PersonFrame` | `personAry` (frames of the persons), `_onlyCode` (a 20 cell array of person types, patched by every move) | `canMoveToDirection:`, `moveTo:`, `resetLayout`, `isGameOver` | called by the level page and the solver |
| Solver: `Level.mm stepForCurrent` | layers of a breadth first search, parent pointers | one synchronous call | called by the level page |
| Level page: `LevelController`, `LevelAdapter`, `LevelCollectionLayout`, `LevelDataView`, `LevelFuncView` | frames of the items, labels, the alert, `isAutoSolve`, and through its `Level` object `currentStep` and `bestStep` | swipes, the alert of a won game and the completion of its presentation, save / start over / solve buttons, back, `viewDidDisappear:` | changes the `Level` object, saves it with `updateDB`, asks the tab bar to hide |
| Level table and list: `Level (CRUD)`, `StageSelectModel`, `StageSelectAdapter` | table `Level` (primary key: the layout), array `stages` | seeding from `level.plist`, read back at launch, insert-or-replace, update by name, favourite | WCDB; `stages` shared with both pages |
| Level of the day: `KlotskiTabController todayLevel` | three user defaults: date, index, name | once per launch | reads `stages`, feeds the home page; the widget reads the name |
| Tab bar: `KlotskiTabController tabBarVisible:animated:` | position and `hidden` of the bar, animations in flight | show and hide requests | requested by home page, stage list, list scrolling, level page |
| WCDB lock and pool: `util/rwlock.cpp`, `core/handle_pool.cpp` | counters and waiters of the lock; free handles, number of living ones | flow out and back, fill, purge, blockade, drain | every statement of every thread; closing a database |
| WCDB transactions: `core/core_base.cpp`, `database_transaction.cpp`, `transaction.cpp` | the thread's handle, a `Transaction`'s handle and mutex | begin, commit, rollback, `runTransaction`, `runEmbeddedTransaction` | pool, SQLite |
| WCDB configs, registry, checkpoints: `core/config.cpp`, `handle_pool.cpp`, `database_config.cpp`, `util/timed_queue.hpp` | list of configs, pools by path and tag, delayed queue | set a config, make and release a `Database`, commit hook, checkpoint thread | pool, SQLite |
| WCDB files: `util/file.cpp`, `core/database_file.cpp` | none but the file system | move the files of a database | closed database |
| WCDB expressions: `abstract/expr.cpp` | a text | operators and functions | SQLite's parser |
| WCDB tokenizer: `core/tokenizer.cpp`, `fts_module.hpp` | a cursor on a text | open, step, close | SQLite's full-text search |
| WCDB chain calls and convenient methods: `interface/chaincall`, `interface/convenient` | statement and handle of a call, what was chained | conditions, `nextObject`, `allObjects`, `execute` | pool, SQLite |
| WCDB tables of classes: `interface/orm`, `interface/table` | the binding of a class | `createTableAndIndexesOfName:withClass:` | SQLite |
| WCDB properties and values: `interface/orm/coding`, `core/handle_statement.cpp` | none | accessors, bind, read, literals | SQLite |
| WCDB failures and traces: `util/error.cpp`, `abstract/handle.cpp` | report method, silence of a thread, footprint of a handle | report, trace, aggregate | the app |
| Router, stage page scrolling, home and team page, widget, views | see "Not modelled" | | |

### What makes each component correct

* **Board**: no person off the board or on another, the patched array always
  equal to one rebuilt from the persons, the move test exact, moves reversible,
  the end of the game noticed exactly when it happens.
* **Level page**: whenever the page takes touches the screen shows the model; a
  solved board is neither missed nor playable; every way out of the page saves;
  a win is in the table before its alert can be dismissed; the record in the
  table is always that of a game that was won; what is seen are legal moves.
* **Table**: a row never mixes two levels, no level's row disappears, records come
  from wins only, the list is the plist's beginning.
* **Solver**: it searches breadth first, misses nothing and ends.
* **Tab bar**: at rest it is where the last request wanted it.
* **Lock and pool**: who closes is alone, nobody waits for ever but a thread
  that waits for itself, the counter of handles is exact.
* **Transactions**: what a run returns is what became of its rows; a handle goes
  back to the pool clean; runs return.
* **Configs, registry, checkpoints**: handles work with the configs last set,
  objects of one path share a pool, a grown log is checkpointed once it is quiet,
  the app is not locked out of its database.
* **Files**: none is lost; the answer is true.
* **Translation** (expressions, tokens, chain calls, tables, values): SQLite reads
  what was meant, gives what was asked, keeps what was there.
* **Reports**: failures are heard, traces are whole.

The full list of hazards, each at its line, is under `hazards` in
`PROJECT.json`.


## 2. Modules

    KlotskiBoard     geometry and rules, no state
      BoardProofs      lemmas about moves and boards
      Solver         the search for a solution          (MCSolver)
      Level          one Level object's board
        LevelGame      one level being played              (MCLevelGame)
    GameProofs       theorems about Level, LevelGame and Solver
    SlidingBlocks    the abstract puzzle, implemented by Level
    LevelTable       table, list, level of the day
    TabBar           the tab bar and its animations
    App              composes Level, LevelTable, TabBar  (MCApp)
    AppProofs        theorems about LevelTable, TabBar and App

    RWLock           the read-write lock
      HandlePool     the pool on top of the lock         (MCHandlePool)
        HandlePoolProofs theorems about RWLock and HandlePool
    ReadersWriters   the abstract lock, implemented by RWLock and by HandlePool
    Transactions     runs of transactions                (MCTransactions)
      TransactionsProofs theorems about Transactions
    Configs          lists of configs, no state
    PoolRegistry     pools by path and tag
    TimedQueue       the delayed queue
      Checkpoint     composes the three                  (MCCheckpoint)
        CheckpointProofs theorems about the four
    FileMove         moving the files of a database      (MCFileMove)
    Expr             expressions
    Tokenizer        the cursor
      FullText       the cursor as full-text search uses it
    Convenient       the convenient methods, no state
      ChainCall      the chain calls
    Schema           tables of classes
    Values           properties and cells
    Reports          failures and traces
    Sql              composes Expr ... Reports           (MCSql)
    EncodingProofs   theorems about Expr and Values
    DatabaseProofs   theorems about FileMove, FullText, ChainCall, Schema, Reports and Sql

A module that is indented extends the one above it. Where a module is extended together
with another that has a behaviour of its own, the names of its specification begin with its
part: `BoardSpec` in `Level`, `SolverSpec` in `Solver`, `BarSpec` in `TabBar`, `AppSpec` in `App`,
`SqlSpec` in `Sql`.

An invariant of a module that is called `Coherent` (`Consistent` in `Level`,
`SolverCoherent` in `Solver`, `BarCoherent` in `TabBar`, `SqlCoherent` in `Sql`) is the conjunction of its type invariant and of the
named parts that say that pieces of its state agree; each part has its own comment.

### The app

**`KlotskiBoard`** translates the arithmetic of `Level.mm:305-428`: the cells of
a frame, the edge tests, the cells a move reads and enters (`Front`) and those it
clears (`Rear`), the new place (`Shift`), the board after the writes (`Slide`) and
the two cell test of the end (`GameOver`). The four `switch` branches of the code
are the four arms of each operator. Its constants are the persons, their shapes
and the layout; its assumptions (below) say what a layout of `level.plist` is.

**`Level`** has the two variables of a `Level` object that the rules need.
`MoveTo` is `currentPersonAtIndex:moveTo:` behind the guard its caller tests,
`ResetLayout` is `resetLayout`. The array is a variable of its own, *not* defined
from the persons: that it agrees with them is a property.

**`SlidingBlocks`** is the puzzle as `Supporting Files/Source/klotski.md` tells
it: blocks cover sets of squares and slide to a neighbouring square if they
stay on the grid and clear of the others. It has no array and no codes.

**`LevelGame`** adds the page. Its variable `page` says which handler can run
next:

    list --OpenLevel--> playing --Swipe that solves--> won --AlertPresented--> alert
    playing --TapBack--> leaving --PageGone--> list
    alert --TapRestart--> playing         alert --TapQuit--> leaving
    playing --TapAutoSolve--> solving     any --Relaunch--> list

Each action is a whole handler: `Swipe` is `_panItem:` (move, frames, counter,
labels, test for the end, alert text), `AlertPresented` the completion block at
`LevelAdapter.m:105-112` (record, reset, save, clear the counter, in that order),
`PageGone` is `viewDidDisappear:`. `frames`, `panel` and `alertSteps` are the
screen, kept apart from the model because the code updates them apart. `row` is
the level's row in the table. `Relaunch` is the end of the process at any point
between two handlers followed by reading the row.

**`Solver`** is one call of `stepForCurrent`; `start` is the `personAry` that it searches from. `TryMove` is one turn of the innermost
of its three loops (`turn` is the counters `k`, `i`, `direction`), `NextLayer` the
end of the `while` body, `FollowBefore` one turn of the loop that reads the way back.
A victory does not leave the loops, so later sons may replace `finalTree`. A
node keeps its father by address; the model therefore says which allocation the
vector `breadthTree` has (`buffer`, `capacity`: an assignment keeps the allocation
if the new elements fit and gets another one otherwise), and an address is an allocation
and an element. A read through an address that is no element any more ends the
model in `phase = "undefined"`. The reference is `Within`, the boards at most n moves
away (`Within[n][b]`), defined by `Around` from places alone, without cell codes.

**`LevelTable`** is the list as a whole. `phase` follows a launch through
`viewDidLoad` of the tab controller: read the table or seed it, one insert per
step (`Seed`); then `todayLevel`, one step per write (`CheckDate`, `DrawIndex`,
`WriteName`); then the home page (`ShowHome`). After that the user opens levels,
moves, wins, starts over, saves, leaves, or marks favourites. `Kill` ends the
process in any phase. `rows` is a sequence in row id order, because the order in
which the table is read back is what `stages` is indexed by. `UpdateDB` is the
statement `UPDATE ... SET every column WHERE name = ?`, which fails as a whole when
two rows would get one primary key. Playing is reduced to its counters here.

**`TabBar`** keeps the bar's `hidden`, whether it is on the screen (`inside`), and
the animations in flight. `Request` is `tabBarVisible:animated:`: it is dropped
when `hidden` already agrees (a bar that is on its way out is not hidden yet),
otherwise the bar is moved at once and `hidden` set by the completion. The pages' handlers are
`SelectTab`, `PushLevel`, `Pop`, `Scroll` and `PullDown` with its timer (`HidePulled`); a push or
pop takes time (`moving`) until `Opened` or `Popped`. Completions come in order, or an
animation is cut and reports `finished = NO`, which leaves `hidden` alone.
`wanted`, `dropped` and `cut` are history that the properties need: the code's
comments promise nothing about a request that crosses an animation.

**`App`** is a behaviour of the board, of the table or of the tab bar (`part`), which
share no state, so that one configuration gives them their instances.

### WCDB: lock, pool, transactions

**`RWLock`** is `util/rwlock.cpp`. Every operation holds the lock's mutex, and
`m_cond.wait` gives it back, so an action is what a thread does between two
waits: `WaitToRead` and `WaitToWrite` are one look at the condition that fails,
`LockRead` and `LockWrite` the one that succeeds (from the loop or at once),
`UnlockRead` and `UnlockWrite` notify everybody in `asleep`. `SpuriousWake` is what the C++
standard allows `wait` to do. **`ReadersWriters`** is what such a lock promises.

**`HandlePool`** extends it with one pool: `m_handles`, `m_alive`, and a program
counter per thread. One action is one access to what threads share, so
that a thread can be stopped between comparing the counter and opening a
handle (`Check`, `Generate`), between giving back the lock and counting out a
handle that found no room (`UnlockEvicted`, `Uncount`, `Destroy`), or between clearing
the list and subtracting its length (`Clear`, `Subtract`). A read lock is kept
for as long as a handle is out, whichever thread has it.

**`Transactions`** models what a `Database` and a `Transaction` object do on several
threads. `Begin`, `Commit`, `Rollback` and `Write` are one statement with what the
caller does of its result; `ExecBegin` ... `ExecWrite` are SQLite, which may refuse any
of them and may end a transaction by itself. `stack` holds the blocks a thread is in: `RunBegin`,
`BlockWrite`, `BlockEnds`, `RunCommit`, `RunRollback` are the branches of
`CoreBase::runTransaction`, `CallEmbedded` is `runEmbeddedTransaction`, which joins
a transaction that is open and, for a `Transaction`, keeps the mutex. Programs
that call begin and commit themselves (`Single`), destroy the object, or end a
thread in the middle are there too.

### WCDB: configs, registry, checkpoint thread

**`Configs`** has no state: the list of default configs, the two `setConfig`, and
what `invoke` does to a handle. **`PoolRegistry`** is `s_pools` with
`GetPool(path)`, `GetPool(tag)` and the recycling of pools. `GetPool(tag)` counts up
in a copy of the entry, as the code does (`handle_pool.cpp:62-64`); the history
`byTag`, `released` says whether that has happened. **`TimedQueue`** is
`util/timed_queue.hpp`: `ReQueue` and the loop of `waitUntilExpired`, line by
line, since the list may change between any two; time passes in `Tick`, and moments
are kept as distances from now, so that behaviours may be endless.

**`Checkpoint`** composes the three: the app opens an encrypted database by path or
tag, sets its key, synchronous mode or a config of its own, writes, removes the
files, and releases its objects; a commit calls the hook of the handle that
made it; the thread (`CkOpen`, `CkExec`, `CkRelease`, `CkDone`) opens the path that
expired with a `Database` of its own, which may share the app's pool or make one
that has no key. `TryCheckpoint` is the pragma, and SQLite's own checkpoint with the last
connection: it may be busy, be partial or fail, nobody hears of it, and the log stays grown;
the history `missed` says so until the next commit that runs the hook.

### WCDB: files

**`FileMove`** is `File::moveFiles` call by call: is the file there (`Test`), remove what is
in its place (`Clear`), link (`Link`), and when all links are made remove
(`RemoveSource`), or undo (`Undo`). Each call may fail, the app may die between any two
(`Die`), and tries again until it was told true. A file is known by the path it
had in the beginning, so a second link is the same file.

### WCDB: from objects to SQLite and back

**`Expr`** keeps, for each expression the app builds, the tree it means and the text
that `expr.cpp` makes, a sequence of what is appended: words, numbers and marks, with or
without spaces around them (`Bare`, `Led`, `Spaced`). There is one operator for each way
of printing and each precedence. `Parse` is how SQLite reads the text, step by step
(`ReadOn`): it keeps the nodes that wait for an operand, one behind the other, and decides by the
next token what becomes of the operand it has. Two words that touch are one word, two
minus signs that touch begin a comment (`Apart`).
**`Tokenizer`** is the cursor of the tokenizer `WCDB`, whose steps return words,
numbers, single and double characters; a character is a type and a number of
bytes, and an input may be cut off inside its last character. **`FullText`** is how SQLite uses it:
one cursor for the contents, one for each term of a query.

**`Convenient`** lists the convenient methods of `WCTInterface` and `WCTTable` as
families: which conditions a name may hold, and which it adds. **`ChainCall`** models
the objects they chain: `InitWithCore` makes one with what is chained to it, `AppendClause` writes a condition to the text,
`LazyPrepare` takes a handle and prepares, `Step` steps, `Finalize` and `ReturnHandle`
are the two halves of giving up the statement; `Execute` and `Insertion` write. Steps
may fail, several calls are open at a time, and an object may be dropped before
its end. **`Schema`** turns the macros of a class into a binding and follows
`createTableAndIndexesOfName:withClass:` statement by statement, for classes that change with the
versions of the app, with failures and deaths. A statement whose failure the block passes over (the
question whether the table exists, the creation of an index) may have ended the transaction
(`ended`): the statements behind it are then committed one by one, and COMMIT fails. **`Values`** follows a value from a property to its
cell, to a property of perhaps another type, and to the literal of a condition,
with integers of a width and reals of a mantissa. A real is counted in fractions that
`std::to_string` does not print (`Printed`), and an integer column makes integers of the reals that are whole. **`Reports`** has the report method, the silence of a thread inside
`isTableExists`, and the footprint of a handle in which the statements of a
transaction gather.

These parts share no state. **`Sql`** is a behaviour of one of them (`subsystem`), so
that one configuration gives them their instances.

### Assumptions about what is outside the source

The app:

* Handlers run one at a time on the main thread; no touch reaches the page while
  an alert is being presented, or while a page is being pushed or popped. The
  buttons of an alert can be tapped only after its presentation completed, so
  the completion runs first.
* After 退出游戏 (quit) UIKit has the alert dismissed, calls the completion, and
  the page is popped; an interactive pop that is cancelled changes nothing.
* User defaults reach the disk in the order they are written; the process may end
  between any two of them. A database statement is atomic.
* A swipe has one direction; the loop over four bits in `_panItem:` takes one turn.
* No layout of `level.plist` starts solved (`OriginNotOver`).
* Animations of one length end in the order they began.

SQLite, the system and C++:

* `INSERT OR REPLACE` deletes the row of an equal key and appends; a failed `UNIQUE`
  constraint aborts the whole `UPDATE`; a `SELECT` without an order returns rows in row
  id order, and reads the table as it was at its first step.
* One connection writes at a time; a failed write or commit may or may not end
  the transaction; a rollback fails if and only if there is nothing to roll back.
* A call of the file system happens or fails as a whole; a hard link is the file.
* A condition variable wakes for nothing now and then, and everyone it notifies.
* The grammar of expressions, of column definitions and of clauses, and type
  affinities, are those of SQLite's documentation.


## 3. Runs

Every property of a passing run has a mutant in `PROJECT.json`: a plausible slip
in a mapped definition (an operator named `<Definition>_<Slip>` beside it) with
which TLC finds the property violated.

| run | module, config | states | question |
|---|---|---|---|
| `level_game` | `MCLevelGame` | 37 010 | do screen, counters and row follow the model through wins, exits and process ends? |
| `level_record` | `MCLevelGame_best` | violation | is the record the fewest steps? |
| `app` | `MCApp` | 213 394 | do persons, array and rules agree on every board that moves and resets reach; do rows keep identity and records through seeding, saves and launches; is the tab bar where the last request wanted it? |
| `solver` | `MCSolver` | 2 730 | are the layers of the search the boards by distance, is the first win a shortest one, does the search end? |
| `solver_steps` | `MCSolver_steps` | violation | does the search return the steps? |
| `handle_pool` | `MCHandlePool` | 39 462 | is a pool that many threads use exact, is closing exclusive, and who waits for ever? |
| `transactions` | `MCTransactions` | 149 696 | is what a run returns what became of its rows, and does every run return? |
| `embedded_returns` | `MCTransactions_embedded` | violation | does inserting several objects through a transaction return? |
| `checkpoint` | `MCCheckpoint` | 296 076 | do pools, configs, queue and checkpoint thread work together? |
| `files` | `MCFileMove` | 158 116 | is a move of files safe and its answer true? |
| `moved_data` | `MCFileMove_whole` | violation | is all data in the source or in the destination? |
| `sql` | `MCSql` | 1 239 454 | does SQLite get what the app means, and the app what SQLite has? |

### What the passing runs show

* `level_game`: `Coherent` (`ScreenAgrees`, `SolvedOnlyWhileWon`, `ListIsSaved`,
  `WinRecorded`), `RecordIsOfAWin` (the record in the table changes in the completion of a
  won game's alert only, and to the steps of that game, whatever is saved and
  relaunched besides; whether up or down is left to `level_record`), and
  `SeenMovesAreLegal` (between opening and leaving the page the items on the screen, which
  the code moves apart from the model, slide by one cell clear of all others, or return to the layout).
* `app`, the board: `Consistent` (types, `PersonsApart`, and `BoardAgrees`: the
  patched array is the rebuilt one), `GuardExact` (the edge tests and the scan
  of cell codes allow exactly the slides that the puzzle allows),
  `ImplementsPuzzle` (refinement of `SlidingBlocks`).
* `app`, the table: `Coherent` (although every save rewrites the primary key of all rows of a
  name, no row gets the name of one level and the layout of another; the list
  has what the table has, for levels that a save can reach; a list cut short by
  the end of the process is a beginning of the plist; the saved index is past
  its end only after the launch that seeded all), `NoLevelLost`, `RecordsAreOfWins`
  (the record of a layout changes only when its level is won, not by a save under
  another level's name nor by a launch).
* `app`, the tab bar: `BarCoherent` (at rest the bar is shown or hidden as a whole, as last wanted,
  unless a request crossed an animation or one was cut), `BarComesBack`
  (after a level page it does).
* `solver`: `SolverCoherent` (no read outside the vectors, and persons and code of
  every node agree, patched copy after patched copy), `BreadthFirst` (a layer
  holds the boards of its distance, the first victory is a shortest one, and the
  comparison at `Level.mm:471-478` never finds an equal board: every move changes
  the parity of the sum of all coordinates, so layers hold a board once per *way*
  to it), and `SearchEnds`: from a board that can be won the search ends.
* `handle_pool`: `Coherent` (`ClosedIsExclusive`; `AliveIsExact`: the counter is off
  by handles dropped in a failed set-up and by nothing else; `AliveBounded`: the
  limit can be passed, by less than one handle per thread that opens any),
  `OnlyReentryBlocks` (threads stop for good only when one of them asks for the
  lock while it has a handle or a blockade), `WriterGetsIn`,
  `ImplementsReadersWriters`.
* `transactions`: `Coherent` (types; what is free is idle, unless a thread has ended; a run
  embedded in a `Transaction` writes nothing), `AllOrNothing`, `RunsReturn`
  (every run returns unless somebody is in such an embedded one).
* `checkpoint`: `Coherent` (queue in order and without doubles, pools shared, configs
  in order), `FullAsTold` (a handle syncs fully if and only if last told to),
  `GrownIsQueued` (a log that has grown is queued or with the thread until a checkpoint
  has been tried), `Debounced` (only what was left alone for the delay is handed
  out), `HandedOut` (and it is), `NotLockedOut`. The exceptions in these formulas
  are the disagreements 4 to 6 and 11 below, each kept as narrow as it is.
* `files`: `Coherent` (no file is lost; one directory has them all until a death
  is followed by a second try), `AnswerIsTrue` (true: all moved; false: nothing
  moved, if no call was cut short).
* `sql`: `SqlCoherent`; `ReadsBack` (SQLite reads from the text what was built if and
  only if none of the forms occurs that `Expr` names where it builds them), `FindsWanted` and `Searchable`
  (tokens; a query finds the contents it repeats), `GivesWhatIsAsked` and
  `WritesAsAnswered` (chain calls), `TableFitsClass` and `OnlyAdds` (versions of
  a class; their exceptions are disagreement 12), `ValuesSurvive` (with disagreement 10),
  `ReportIsWhole`, `FailuresAreHeard`.

### What the violations show

1. `embedded_returns`: `runEmbeddedTransaction` of a `Transaction` locks a mutex that
   is not recursive, and its block locks it again with its first statement
   (`core/transaction.cpp:104`); `WCTInsert.h:33` says the insert "will run a
   transaction if it's not in other transaction".
2. `moved_data`: moving files to the directory they are in removes each file before
   it links it to itself, and moving two of one name leaves one
   (`util/file.cpp:132`); `WCTDatabase+File.h:37` promises that all data is in source
   or destination.
3. `level_record`: a level is won in three steps, then in two, and the table keeps three:
   `LevelAdapter.m:106` takes the larger number. `klotski.md:4` asks for the fewest
   steps, and `Level.h:34` calls the number the best steps.
4. `solver_steps`: from a board that two moves win, the search finds the win, but the
   fathers that line 495 of `Level.mm` follows were in the vector that line 487 overwrites
   or frees; `Level.h:113` says that the steps are returned.

### Disagreements that are modelled but have no run of their own

The models do what the code does here, and the properties above are stated so
that they hold of it.

1. `isGameOver` wants the big square in the lower **right** corner (cells 18 and 19);
   `klotski.md:4` puts the exit at the bottom **middle**.
2. `_saveCurrentLayout` writes two characters per person and `setCurrentLayoutStr:`
   skips what has less than four (`Level.mm:182`): a saved board is not read.
   Nodes of the solver name no move: `index` and `moveTo` stay those of the root.
3. Only an empty table is seeded (`StageSelectModel.m:16`); the index of today's level
   points into the plist's order on the first launch and into the table's later
   (`KlotskiTabController.m:51`); two levels share a name and one level's row was
   replaced, so their saves write nothing (`Level.mm:282`).
4. A config with an order replaces the first one that comes after it
   (`core/config.cpp:44-46`: the turn that inserts does not copy `wrap`). The
   example of `WCTDatabase+Core.h:86`, order 1, loses the basic config; order 0 loses the key.
5. `GetPool(tag)` counts in a copy (`core/handle_pool.cpp:62-64`); what is made by
   tag is not counted, but released.
6. The checkpoint thread opens the path by itself (`core/database_config.cpp:217`): without the key once
   the app's objects are gone, and makes the file anew if it was removed. A hook
   stays on a handle that is open when `setSynchronousFull` takes the hook's
   config away.
7. The example of `WCTRowSelect.h` ends its loop at the first value that is nil,
   which is also what a NULL is; a step that fails ends a list like its last row.
8. `AUTOINCREMENT` is written before `ON CONFLICT` (`abstract/column_def.cpp:41-46`),
   which SQLite's grammar refuses; SQLite also refuses to add a column that is a
   key, unique, or not null without a default.
9. A trace config of a database takes the place of the global trace; a
   performance trace is told of a statement when the *next* one ends, not "when
   a transaction or a normal sql ends" (`WCTStatistics.h:30`).
10. Conditions on data, and on unsigned numbers of the upper half, find nothing, as the
    literals are not the cells. The literal of a real has six decimals
    (`std::to_string`, `abstract/literal_value.hpp:36`): `where(real == 1e-7)` does not find the row that
    has it, and finds one that has 0.
11. The answer of the checkpoint goes into a local variable (`core/database_config.cpp:216-220`). A
    checkpoint that was busy, partial or failed leaves the log grown, and it is not
    queued again before the next commit that runs the hook.
12. `WCTDatabase+Table.h:34` says of `createTableAndIndexesOfName:withClass:`: "@return YES while
    creating table or adding newly defined columns succeeds. It will not fail if error occurs
    during creating indexes." It returns YES without having added the columns if
    `isTableExists` fails (`WCTInterface+Table.mm:44`), as `CREATE TABLE IF NOT EXISTS` then finds the table. An
    index whose creation fails (`WCTInterface+Table.mm:91`) may end the transaction: inside that of
    the app the answer is YES although table and columns are gone with it; outside, the
    indexes behind it are created one by one and stay, COMMIT fails, and the answer is NO.

### Bounds

* `MCApp`, the board: the real 4 by 5 board with one person of each of the four shapes, so
  that every arm of every operator runs and every pair of shapes meets. The run
  reaches all boards of these four persons. More persons only make boards
  denser; the proofs cover any number.
* `MCApp`, the table: four levels with the two oddities of `level.plist`: two levels
  of one name (层层设防, indices 16 and 17) and two of one layout (瓮中之鳖, index
  20, and 小燕出巢, index 33; the table gets 38 rows from 39 levels). The level
  of the replaced layout comes before the pair of one name, so that the order
  of the table and that of the plist differ at every index. `MaxStep` = 2 (two wins of
  different lengths), `MaxTouch` = 6 touches over the life of the installation
  (enough for a game played to a win, a launch, and another level opened and saved), `MaxDay` = 1 (one
  change of date).
* `MCApp`, the tab bar: `MaxFlight` = 3 animations at once: one to overtake, one overtaken,
  and one without a way to go, which ends first.
* `MCLevelGame`: a fuller board (seven persons) on which two swipes win and
  few others are possible, so that sessions with several wins, long and short,
  stay small. `MaxStep` = 3 bounds the counted steps of one game: a win in two
  and a win in three steps are the two records that `level_record` compares.
* `MCSolver`: the persons of `MCLevelGame` on three boards: one that is won in two
  moves and two that need three, so that both the first layer and deeper ones
  are expanded without a victory, boards are met again (two moves lead back
  to the start), and the vector both grows and is assigned. `MaxDepth` = 3 bounds
  the layers that are expanded; each start is won within it, so the bound cuts
  nothing off in this run. Later layers hold a node per way and repeat the same boards.
* `MCHandlePool`: three threads of different habits (one takes handles and purges,
  one takes, tests and closes, one blockades and closes), which is what a waiting
  writer, a holder and a third party need; one free and one living handle, so
  that both limits are met at once; two handles per thread for reentry; one
  failed set-up.
* `MCTransactions`: two threads and two connections (a third would add another
  loser of the same race), one `Transaction` object, two writes per block (so that a
  block can fail half-way), blocks within blocks to depth 2, two runs.
* `MCCheckpoint`: two objects of the app and the thread's, one path that is
  modelled and one more key that competes in the queue, one tag, orders 0 and 1
  (before the key, and the documentation's), a delay of one tick, one tick of lag,
  and five calls beside releases: open, label, configure, commit, and one to disturb.
* `MCFileMove`: three directories, three names; a database with its log, alone, with a
  third file of another directory, and with one that has the log's name; three tries.
* `MCSql`: expressions of up to two operations on operands of every kind (which is
  every pair of a parent and a child, on each side); inputs of up to four
  characters of five types (a run, its end, a pair and a change of type fit in
  four), cut or not; two chain calls at a time on one handle and three rows, one
  of them NULL; five versions of a class, three updates; integers of 3 bits for `int`,
  5 for `long`, 2 for what is smaller, reals of 2 and 3 bits: a type narrower
  than, as wide as and wider than each column; one bit of a real that is not printed
  (`FractionBits`), and numbers with and without it; two threads with three and one
  statements, two settings.

### Fairness and deadlock

* `Solver`: `WF_solverVars(SolverNext)`. The search is a synchronous call, which nothing
  interrupts. `SearchEnds` says nothing of a board that cannot be won: from there the
  loop has no other exit than running out of memory.
* `App`, where it is the tab bar: animations end or are cut, transitions complete, timers
  fire. What the user does is up to the user.
* `HandlePool`: threads inside the pool run on (weak), and the program gives back the
  handles and blockades it has (strong: a thread may do other things in between),
  as the comment on `close:` asks. Nothing is assumed of who gets the lock when several want it.
* `Transactions`: a thread inside a run goes on with it; starting one, and giving
  up inside a block, is the program's choice.
* `Checkpoint`: the checkpoint thread is scheduled, in the queue and in
  `onExpired`, and time passes. The app need not do anything.

Other specifications have none. Deadlock is checked in the runs of `LevelGame` and
`App`. It is not in the others, where all calls within the bounds may be over; there, who
waits for ever is a property (`OnlyReentryBlocks`, `RunsReturn`, `HandedOut`).


## 4. Proofs

Proved for every set of persons, every layout, every number of threads, files,
tries and statements, from these assumptions, each declared in the module that
uses it and evaluated by TLC in its run:

| assumption | meaning |
|---|---|
| `PersonAssumption` | persons are indices of an array |
| `ShapeAssumption` | a person is 1 or 2 cells wide and high |
| `OriginAssumption` | a layout has its persons on the board and apart |
| `MaxStepAssumption` | the step bound is positive |
| `OriginNotOver` | no layout starts solved |
| `PersonsAreIndices` | the persons of a search are 0 to `LastPerson`, as its loop counts them |
| `MaxDepthAssumption` | the bound on layers is a natural number |
| `BoardsAssumption` | the search starts on a legal board that is not won |
| `PlistAssumption` | `level.plist` has levels, and no two with both their name and their layout in common |
| `BoundAssumption` | the bounds on steps, touches and days are natural numbers |
| `ThreadAssumption` | there are finitely many threads |
| `PoolAssumption` | the two limits of a pool are positive; what a thread may call is a set of operations |
| `CoreAssumption` | a `Transaction` is not the database itself, and no thread or connection is `None` |
| `FileMoveAssumption` | what is moved is a list of paths; the bound on tries is a natural number |
| `CallAssumption` | tables are finite and their rows, limits and offsets natural numbers; what an app chains itself has the type of a method |
| `ReportsAssumption` | the bounds on statements and settings are natural numbers |
| `FlightAssumption` | the bound on animations is a natural number |
| `QueueAssumption` | the delay of the queue and the bound on its lag are natural numbers |
| `CheckpointAssumption` | the path that is modelled is a key of the queue; the app's objects are finitely many, and the thread's is none of them |
| `OrderAssumption` | the order of a config is an int |

**`BoardProofs`** holds what the two parts of `GameProofs` share, the board that is played and the search: the cells of the moved
person are the old ones plus `Front` minus `Rear` (`OneMove`, by the four directions,
from `ColumnsChange` and `RowsChange`); empty cells are nobody's (`EmptyIsFree`); and
together `SlideKeepsBoard`: if persons are on the board and apart and the array is
theirs, an allowed move leaves all of that so. `FreeShiftIsAllowed` is the converse: a shift
that ends with persons on the board and apart is one that `canMoveToDirection:` allows.
`MoveChangesParity` is about the array alone, because the solver compares arrays: `Black` colours
the cells, once for each type of person, so that what a person of that type leaves and enters has an odd number of
black cells, whatever its move; so the number of black cells changes its parity with
every move. `GameOverIsCornerOf` rests on `CornerPlace`: cells 18 and 19 can both hold
the big square's code only if one big square covers both.

**`GameProofs`**, of three modules. `Level`, the board on its own: the inductive invariant is `Consistent`: types, `PersonsApart`
and `BoardAgrees` together. None of the parts is inductive alone: that persons
stay apart depends on the array telling the truth, because a move looks at
nothing else, and that the array stays true depends on persons being apart, since
a cell cleared behind a person must not be another's. The step of `MoveTo` is
`SlideKeepsBoard`. `GuardExact` needs, beside `Consistent`, that the edge
test is exactly "the target is on the grid" (`EdgeIsGrid`) and that cells of the
array correspond to squares of the puzzle (`SquaresAreCells`). The refinement
`LevelImplementsPuzzle` follows: initial states map to `Start`, a move to
`SlideTo` by `GuardIsFree`, a reset to `StartOver`. `MovesUndoAlways` goes over the same
ground backwards (`MoveBack`): the array after the move and the move back is
the one of the persons, hence the first one.

`LevelGame`, the session: its steps are those of the board or leave it alone (`StepsOfBoard`), so
all of the above applies to it. The inductive invariant of the rest is
`SessionInv`: the types, `ScreenAgrees`, `SolvedOnlyWhileWon`, `ListIsSaved`,
`WinRecorded` and what they and the two action properties need besides: a page that is not on screen has no view, and
the object's record is always the row's (`bestStep = row.best`), because only the completion
of the alert changes either and it saves at once. So no save and no relaunch brings a record that
is not there already (`RecordIsOfAWinAlways`). `SeenMovesAreLegalAlways` needs `ScreenAgrees` where a swipe
moves an item that it has tested in the model, `Consistent` for what the move leads to, and
`WinRecorded` where the button of the alert puts the items back. One lemma per group of actions.

`Solver`: `SearchInv` is `SolverTypeOK`, `NodesAreBoards` and one strengthening,
`WonByNode` (a victory comes with a node): without it the last loop could start from `NULL` and
nothing would say that what it reads is a node. The step of a turn is `SonIsGood`,
again `SlideKeepsBoard`, now for a copy of any node of the layer.

`Layers` is what makes the search breadth first. `FathersLayer`: the layer has boards within
`depth` moves, and all that are not nearer. `SonsLayer`: the sons are within one move more, and every
move whose turn has passed (`Earlier`, the order of the three loops) has its son. That needs that no son is
dropped, hence `OneParity`: fathers have one parity and sons the other, by
`MoveChangesParity`, so that the comparison of codes finds nothing. At the end of a layer all turns
have passed, and a board at distance `depth + 1` is a move away from one that is not nearer than
`depth`, so from a father (`NewBoardsAreSons`). `FirstWin` adds that no board within `depth`
moves is won and that a victory has a won son: the first victory is a shortest one.
`Within` is a recursive function; that its definition defines one (`WithinStep`) is
proved from the well-foundedness of the numbers. `WayBack` is a third invariant, of addresses: once a
layer has been replaced every node that the last loop can reach has a father, so the
loop cannot end at the root; it ends where an address is stale. `WayIsLostAlways` is the reason why
`solver_steps` fails, and fails on every board; it is no property of the runs.

**`AppProofs`**, of two modules. `LevelTable`: saves go by name and rewrite the primary key, and the plist
has two levels of one name and two of one layout; the argument is why nothing gets
mixed up. `LevelInv` has one part for each way the table, the list and the user
defaults depend on each other. In use, every layout of the list has a row
(`RunningInv`); so a save either meets only its own row, which it rewrites with
the key it had, or another row of that name too, and then it would give two rows
one key and fails as a whole. That is `UpdateFacts`: an update changes no name, no
layout, and a row only into the level that is saved. `NoLevelLost` follows from it and
`InsertFacts`. `RecordsAreOfWins` needs that an object that can be saved has the row's record
(`BestKept`), while seeding too, where a level that shares its layout replaces the row of
another: then all records are still those of a new level (`SeedingInv`).
`ListIsSaved` needs that of the levels that can be saved only the open one differs from its
row (`OthersSaved`). That the list is a beginning of the plist on every launch
comes from the table being one (`RowsArePrefix`), and the index past the end
from `IndexKnown`: it was drawn from a list as long as the plist.

`TabBar`: at rest there is nothing to reason from, so `BarInv` is about the animations in flight.
The last of them ends where the bar already is, and one with nothing to move goes where
the one before it goes (`FlightsLead`); so it does not matter that such a one
ends out of turn, and whichever ends last sets `hidden` to what the bar is
(`BarIsWhole`). A request moves the bar or is dropped (`BarGoesAsWanted`), and
the two together are `BarAsWanted`.

`App`: no step of one part changes another, so what is proved of each part holds of
`AppSpec` (`AppPartsAlways`).

**`HandlePoolProofs`**, in two parts. The lock on its own: `LockInv` is `LockTypeOK`, `Exclusion` and `NoLostWakeup`.
Exclusion needs nothing but the types. That no wake-up is lost does: a reader goes
to sleep because of `m_pending`, so `m_pending` must be the number of threads that
are inside the loop of `lockWrite` (`WaitCounts`, `LockCounts`: a thread counts itself once, however often
it wakes, and takes itself off when it leaves), and somebody who leaves must have notified
if anybody could go in. `LockImplementsReadersWriters` maps each step of the lock
to a step of the abstract lock or to none; `LockInv` is what makes the tests of
the counters the abstract ones.

The pool: each of its steps is a step of its lock or leaves it alone
(`PoolStepsLock`), so `LockInv` and the refinement hold in the pool too. `PoolInv` says who
has the lock and why: `m_reader` is the sum over the threads of the handles
each holds, and one more for a thread inside an operation that reads
(`ReadersHeld`); `m_writer` is the blockade or the drain of one thread
(`WriterKnown`). With `Exclusion` this gives `ClosedIsExclusive`. `AliveIsExact`
is a sum too: a step changes one thread's portion, and `ExactMoves`, `TallyMoves`
say what becomes of a sum then. `AliveBounded` is not inductive: a thread decides below
the limit and counts later, so its strengthening counts those that have decided
(`PledgesBounded`). `OnlyReentryBlocks` goes backwards from a state where nobody can move: all
are in the lock's loops or done; by `NoLostWakeup` none of those in the loops could go in, hence the lock
is taken, and `ReadersHeld` or `WriterKnown` names a thread that has it.

**`TransactionsProofs`.** The invariant has three layers. `HandleInv` knows nothing of blocks: a
connection is with one thread or object at most (`HandlesApart`), and one that is
back in the pool is idle unless its thread has ended in the middle
(`ClosedIsIdle`); `FreeIsIdle` alone is not inductive, because a handle comes free that was not free before.
`BlockInv` knows nothing of handles: which block of a thread is where, that an
embedded block on a `Transaction` has its mutex and gets nowhere, that every
block is a run of its own. `RowsInv` joins the two: rows that are not committed
are of a run that joined or returned YES, or of a block that has begun the transaction they are in
(`RowsPending`); on one core one block has (`BegunApart`); and a block that goes on has all it wrote still in
its transaction, unless a block inside it has failed (`LiveHasRows`: until that
has returned, SQLite may have rolled back everything). So a COMMIT adds
complete runs only, and `AllOrNothing` is inductive with the rest.

**`EncodingProofs`**, of two modules. `Values`: `TwoTo` is a recursive function; that it doubles, and all else about powers, comes from an
induction upwards from 0 (`NatUpTo`). All numbers are compared as `Amount`s, in fractions; an integer is so many
whole ones (`FractionFacts`), and what is printed as it is has no more decimals and is whole (`PrintedIsWhole`), so that
the literal of such a real has its amount whether it is read as an integer or as a real (`LiteralIs`). A cast is the one number of its width that is
congruent to what is cast (`CastFacts`), so two casts one after the other are told by the narrower.
A rounding is the nearest multiple of a unit (`IsUnit`: there is one, and only one,
for each size), keeps what has few enough bits, and never swaps two numbers,
also where the unit grows between them. `ValuesInv` says of every row only that its cell is what its type and value give in this
column; all four parts of `ValuesSurvive` are then about one cell, or two.

`Expr`: the inductive invariant `Legible` of an expression speaks of a reader that
is anywhere: asked for an operand by any node that waits, with any text behind,
it gets to what `Shaped` and one of four kinds allow. A `Solid` expression is taken as
one operand, whatever is asked for; a `Loose` one (its text is a bare `x IN(...)`) only
where the asking operator is weaker, and else the reader takes `x` first; a `Negative`
one (`NOT (x)`) swallows what follows if that is stronger than NOT; and a `Lost` one has tokens
that touch. `Means` says which tree is then read: the one that the app has built if and only if the
expression is plain. Each operator keeps this for any operands (`BinaryIs`, `BetweenIs`, `LikeEscapeIs`,
`InIs`, `NotIs`...), as its text begins a node that waits, then each operand is read in its place
(`LeftReads`, `RightReads`, `LastReads`), then the bracket closes it (`EndReads`). That `Parse` gives the reader
enough steps is a measure: what is left to read, twice, and how many wait, falls with every step
that is one (`Progress`, `Steps`), so `Parse` ends where the reader is stuck (`ParseIs`).
The other direction is the harder one: an expression that is not plain is read as
another tree or not at all, so the invariant must say what becomes of it inside
everything that is later built around it.

**`DatabaseProofs`**, of five modules and of the composition. `FileMove`: `MoveInv` has, beside the types and the control, nine parts
for a list that is proper (files of different names, of other directories). What
nothing can take back must have been prepared: a link that may be undone is a
second one (`RecoversAreSpare`), between test and link the source stays
(`LinkedIsThere`), what the loop has passed has its link (`PassedIsLinked`), and this at the
end of the loop is why a source may go. `TrueIsMoved` follows from `PassedIsLinked` and
`PassedIsRemoved`, `FalseIsUnmoved` from `SourceStays` and `LinksAreRemembered`: as
long as nothing was cut short, every link that is there is in `recovers`. One lemma per action,
one step per part.

`Schema`: `SchemaInv` relates the table to what it was before the call
(`Grown`: the old columns and indexes, as they were, and more; `Over`: only indexes more, once SQLite has ended the
transaction) and to what the call has still
to do (`ToDo`: the columns the table lacks are those in `todo`, while the transaction lasts). The first is what a rollback, a
death or a NO goes back to, which is `OnlyAdds`; the second is
`TableFitsClass` once nothing is left to do.

`Reports`: the invariant says of every handle (`HandleIsWhole`) that what
it gathers begins with a BEGIN if it is a transaction and has its end nowhere, so
that the statement that ends it completes one report; of every thread that it is
silent only inside `isTableExists` (`SilentInside`), from which `FailuresAreHeard` follows; and of the
methods that a null one was set by a nil (`NullIsNil`).

`ChainCall`: the text leaves empty conditions out and may have them in any
order or twice, so what it finds need not be what was asked. It is if SQLite takes it: a text whose
clauses are in place has each once (`TextSaysSame`, `ResultsAreAsked`), and limits and offsets are never
empty. `TextFacts` is an induction over the positions of what is chained (`Recursion`, `UpTo`).
`CallInv` says of every object that what it has got and what is left are what was
meant, that a select that is open has such a text, and that one that is no longer open is over
(`SelectIsProper`), which makes a list whole and explains the null statement; and that a
handle is with one object or in the pool (`HandleIsApart`). `WritesAsAnswered` is a step property: only
`Execute` and `Insertion` take an idle object to its end by writing (`EndsByWriting`).

`FullText`, with the cursor of `Tokenizer`: `TokenInv` knows a place `p` of the run that the cursor
is in, from which the lengths that are left are (`IsRest`), and says that what has been returned is what is
wanted and passed (`Returned`): all that begins before `p`, and after its pair the
pair at `p`. A step makes at most one thing newly passed, and returns it
(`OneMore`, `StaysInOrder`). Runs are as long as they can be because the cursor only ever stops where the
type changes; this is why nothing that is wanted reaches over its place. `Searchable` compares
two cursors. `TextInv` says that the text of the second is a part of that of the
first and that it does not begin inside a word but for the query's own beginning (`Begins`);
then what is sought in the part is sought in the whole (`PartSought`), at the offsets of the whole
(`PartOffsets`), and what is sought in the whole is in the index.

`Sql`: no step of one part changes another (`PartsOfSpec`), so each part's theorems hold of
`SqlSpec` (`SqlPartsAlways`); for `SqlCoherent` some types come in that the parts' own
invariants did not need (`CursorInv`, `CallRowsInv`, `SchemaTypes`, `StatementsTyped`).

**`CheckpointProofs`**, of four modules, each with an invariant that only the steps
touching it can disturb. The queue: `QueueInv` has the types, the order by age
(`QueueInOrder`) and `LeftIsAge`, which says that what an element has left is what its key's age
lacks to the delay. From it follows the action property `Debounced`: the
thread hands out an element whose time it has compared with a moment that may be
long past (`lag`), which can only make it wait longer.

The registry: `RegistryInv` counts. The entry's counter is the number of the app's
and the thread's objects made by path, all of which have the registered pool, up
to the moment an object made by tag is released, which is the disagreement 5.

The lists: `ConfigsInv` says that orders ascend, that a name occurs once, and that
the basic config and the cipher's are in their places unless one of them was lost to the slip
of disagreement 4. `HandlesInv` relates a handle to the list that it was set up
with: current, it has the key and the mode of the list (`InvokeSetsKey`, `InvokeSetsMode`, `InvokeSucceeds`), which is
`FullAsTold`. `Invoke` and `Others` walk a list by a recursive function; what
they give is proved by `Recursion` and `UpTo`, induction over the positions of a list
from the well-foundedness of the numbers.

The log rests on all of these: a log that has grown, and that no checkpoint has missed, is that of the
registered pool, whose handle has the
key (`OneInUse`, `GrownHeld`), and its path is in the queue or with the thread until the
checkpoint (`GrownComing`), hence `GrownIsQueued`. `GrownComing` is not inductive without the others: the thread
may come with a handle that cannot read the database, which is no try at all and would leave a log that
is neither queued nor missed. That does not happen because the
thread shares the app's pool, whose handle has the key, as long as that pool is in use; when it no
longer is, SQLite has tried with the last handle. `NotLockedOut` follows
from `ConfigsInv` and `FileInv`: an object that is ready has the cipher's config in its
list, so its handle has the key, and only the thread makes a database without one.

| module | theorem | property |
|---|---|---|
| `GameProofs` | `ConsistentAlways`, `GuardExactAlways`, `LevelImplementsPuzzle` | `Consistent`, `GuardExact`, `ImplementsPuzzle` of `app` |
| `GameProofs` | `MovesUndoAlways`, `GameOverIsCornerAlways` | a move and its opposite; the end is the corner |
| `GameProofs` | `CoherentAlways`, `RecordIsOfAWinAlways`, `SeenMovesAreLegalAlways` | `Coherent`, `RecordIsOfAWin`, `SeenMovesAreLegal` of `level_game` |
| `GameProofs` | `SolverCoherentAlways`, `BreadthFirstAlways` | `SolverCoherent`, `BreadthFirst` of `solver` |
| `GameProofs` | `WayIsLostAlways` | the way back is never read to its end: why `ReturnsSteps` fails on every board |
| `AppProofs` | `CoherentAlways`, `NoLevelLostAlways`, `RecordsAreOfWinsAlways` | `Coherent`, `NoLevelLost`, `RecordsAreOfWins` of `app` |
| `AppProofs` | `BarCoherentAlways` | `BarCoherent` of `app` |
| `AppProofs` | `AppPartsAlways` | all of these of `app`, of the behaviours that the run checks |
| `HandlePoolProofs` | `PoolImplementsReadersWriters`, `PoolCoherentAlways`, `OnlyReentryBlocksAlways` | `ImplementsReadersWriters`, `Coherent`, `OnlyReentryBlocks` of `handle_pool` |
| `HandlePoolProofs` | `LockImplementsReadersWriters`, `ExclusionAlways`, `NoLostWakeupAlways` | the same refinement and the invariant, for the lock on its own |
| `TransactionsProofs` | `CoherentAlways`, `AllOrNothingAlways` | `Coherent`, `AllOrNothing` of `transactions` |
| `CheckpointProofs` | `CoherentAlways`, `FullAsToldAlways`, `GrownIsQueuedAlways` | `Coherent`, `FullAsTold`, `GrownIsQueued` of `checkpoint` |
| `CheckpointProofs` | `DebouncedAlways`, `NotLockedOutAlways` | `Debounced`, `NotLockedOut` of `checkpoint` |
| `EncodingProofs` | `ReadsBackAlways` | `ReadsBack` of `sql` |
| `EncodingProofs` | `ValuesSurviveAlways` | `ValuesSurvive` of `sql` |
| `DatabaseProofs` | `CoherentAlways`, `AnswerIsTrueAlways` | `Coherent`, `AnswerIsTrue` of `files` |
| `DatabaseProofs` | `TableFitsClassAlways`, `OnlyAddsAlways` | `TableFitsClass`, `OnlyAdds` of `sql` |
| `DatabaseProofs` | `ReportIsWholeAlways`, `FailuresAreHeardAlways` | `ReportIsWhole`, `FailuresAreHeard` of `sql` |
| `DatabaseProofs` | `GivesWhatIsAskedAlways`, `WritesAsAnsweredAlways` | `GivesWhatIsAsked`, `WritesAsAnswered` of `sql` |
| `DatabaseProofs` | `SqlCoherentAlways` | `SqlCoherent` of `sql` |
| `DatabaseProofs` | `SqlPartsAlways` | all others of `sql`, of the behaviours that the run checks |
| `DatabaseProofs` | `PooledHandleIsIdleAlways`, `UndefinedOnlyPastEndAlways` | parts of `SqlCoherent` of `sql` |
| `DatabaseProofs` | `FindsWantedAlways`, `SearchableAlways` | `FindsWanted`, `Searchable` of `sql` |
| `DatabaseProofs` | `InInputAlways` | a part of `SqlCoherent` of `sql`: no token reaches past the text |
| `DatabaseProofs` | `KilledByNilAlways` | only a nil makes a null function be called |

**Only model-checked**: liveness (`SearchEnds`, `BarComesBack`, `WriterGetsIn`,
`RunsReturn`, `HandedOut`), which needs fairness and `ENABLED`, beyond the provers used. Every
safety invariant and every action property that a passing run checks is stated by a theorem. No
operator is declared recursive: recursion is by functions, whose equations are
proved where they are used, and induction is over numbers, by sets of them
(`NatUpTo`, `UpTo`), as the library's schemes need an operator as a parameter. The four runs that find a
violation need no proof: a behaviour is enough.


## 5. Not modelled

The app:

* **What the solver's result does**: `LevelGame` has only that no handler runs
  after `TapAutoSolve`: the search runs on the main thread and its result is used
  through a cast that raises. What a read of a freed address gives is not modelled
  beyond "undefined".
* The **list's cells**, which are not reloaded after a level page goes away, and
  when a **favourite** is saved (`StageSelectAdapter.m:134`): nothing in the
  repository says what should be seen there. The **saved board** (`Level.mm:182`)
  is never written back to a page.
* **Router**: dispatch is one synchronous call, and its one piece of state is read in
  the call that sets it.
* **Stage page scrolling** beyond its requests to the tab bar (pixel geometry), the
  **home page** beyond the level of the day, the **team page** (reorders an array
  that nobody saves), the **widget** (a stateless view of one default), drawing, sizes, colours,
  string formats.

WCDB:

* **Statements, pragmas, clauses** that the app does not chain: each appends fixed words and
  its arguments, and keeps no state.
* **Repair kit** (a call of sqlcipher's backup library, which is not in the
  repository), **ticker**, **spin lock**, compatibility layer.
* The **Apple tokenizer** (calls `CFStringTokenizer`), the **SQL trace**, texts of
  errors, **`WCTMultiSelect`** and **`WCTStatement`**, tables from column
  definitions, virtual tables and DROP, the **sizes of files**.
* **Data races** on what is set without a lock (the report method, the traces):
  `Reports` has each setting as one step, so it says nothing of a read that
  overlaps a write of the same function object.


## 6. Plan

Done: all components of the app that keep state, and of WCDB the lock, the pool,
transactions, configs, checkpoints, files and the translation to and from SQL; proofs of
every safety property that the runs check.
What would add most after that, in this order:

1. `Transactions` on top of `HandlePool`, which now appears in it only as "a free
   handle or a new one", so that a close can meet a run.
2. The list's cells with `LevelTable`, once it is said what a cell should show.
