-------------------------------- MODULE Schema --------------------------------
(***************************************************************************)
(* createTableAndIndexesOfName:withClass:.  The macros of a class declare  *)
(* its binding: columns, constraints and indexes.  The table is created    *)
(* from it, or, if there is one, gets the columns that it lacks.           *)
(*                                                                         *)
(* The app is updated: it starts again with another class.  It may also    *)
(* die at any step; SQLite then keeps nothing of the open transaction.     *)
(* A statement that fails may end the whole transaction, and those that    *)
(* follow are then each committed at once.  The model looks at one call of *)
(* the app's transaction, and at none that it makes besides.               *)
(***************************************************************************)
EXTENDS Naturals, Sequences, SequencesExt

CONSTANTS
    Versions,    \* the classes of the app's versions: sequences of macros
    MaxStarts    \* bound of the model: updates of the app

ASSUME StartsAssumption == MaxStarts \in Nat

VARIABLES
    class,       \* the binding of the version that runs
    database,    \* the table: columns, constraints, indexes; no columns: no table
    before,      \* the table at the begin of the transaction
    columnNameList,
    todo,        \* columns to add, then indexes to create
    at,
    inside,      \* the app has a transaction open
    ended,       \* SQLite has ended the transaction under the block
    answer,
    misjudged,   \* the table was there, but isTableExists failed
    indexFailed, \* the creation of an index failed, which nobody is told
    starts

schemaVars == <<class, database, before, columnNameList, todo, at, inside, ended,
                answer, misjudged, indexFailed, starts>>

-----------------------------------------------------------------------------
(* Bindings                                                                *)

Nothing == [columns |-> <<>>, constraints |-> <<>>, indexes |-> <<>>]

\* The map with an entry for the name, in the place of the one it has.
With(map, name, entry) ==
    [n \in DOMAIN map \cup {name} |-> IF n = name THEN entry ELSE map[n]]

\* Adds to the list of a name, which is made if need be.
AddTo(map, name, item) ==
    With(map, name, (IF name \in DOMAIN map THEN map[name] ELSE <<>>) \o item)

\* WCDB_SYNTHESIZE and WCDB_SYNTHESIZE_DEFAULT: a column and what is
\* written of it, which the other macros continue.
Synthesize(binding, m) ==
    [binding EXCEPT !.columns = AddTo(@, m.column, IF m.default THEN <<"DEFAULT">> ELSE <<>>)]

\* makePrimary: the conflict is written behind AUTOINCREMENT.
MakePrimary(m) ==
    <<"PRIMARY KEY">> \o (IF m.autoIncrement THEN <<"AUTOINCREMENT">> ELSE <<>>)
        \o (IF m.conflict THEN <<"ON CONFLICT">> ELSE <<>>)

\* The macros for one column.
ColumnConstraint(binding, m) ==
    [binding EXCEPT !.columns[m.column] = @ \o
        (CASE m.macro = "primary" -> MakePrimary(m)
           [] m.macro = "not null" -> <<"NOT NULL">>
           [] m.macro = "unique" -> <<"UNIQUE">>)]

\* WCDB_MULTI_PRIMARY, WCDB_MULTI_UNIQUE and WCDB_INDEX: those of one name
\* are one.
TableConstraint(binding, m) ==
    [binding EXCEPT !.constraints = AddTo(@, m.name, <<m.column>>)]

IndexBinding(binding, m) ==
    [binding EXCEPT !.indexes = AddTo(@, m.name, <<m.column>>)]

Bind(binding, m) ==
    CASE m.macro = "synthesize" -> Synthesize(binding, m)
      [] m.macro \in {"primary", "not null", "unique"} -> ColumnConstraint(binding, m)
      [] m.macro = "constraint" -> TableConstraint(binding, m)
      [] m.macro = "index" -> IndexBinding(binding, m)

Binding(macros) == FoldLeft(Bind, Nothing, macros)

-----------------------------------------------------------------------------
(* What SQLite takes                                                       *)

Writes(def, words) == \E i \in DOMAIN def : def[i] = words

\* The conflict of a primary key comes before AUTOINCREMENT, and there is
\* one primary key.
CanCreate(binding) ==
    /\ \A c \in DOMAIN binding.columns :
           LET def == binding.columns[c]
           IN  \A i \in 1..Len(def)-1 : ~ (def[i] = "AUTOINCREMENT" /\ def[i + 1] = "ON CONFLICT")
    /\ \A c, d \in DOMAIN binding.columns :
           Writes(binding.columns[c], "PRIMARY KEY") /\ Writes(binding.columns[d], "PRIMARY KEY") => c = d

\* No column is added that is a key or unique, or that would be NULL in the
\* rows that there are and may not.
CanAdd(def) ==
    /\ ~ Writes(def, "PRIMARY KEY")
    /\ ~ Writes(def, "UNIQUE")
    /\ Writes(def, "NOT NULL") => Writes(def, "DEFAULT")

-----------------------------------------------------------------------------
(* createTableAndIndexesOfName:withClass:                                  *)

IsThere == DOMAIN database.columns # {}

SchemaInit ==
    /\ \E v \in Versions : class = Binding(v)
    /\ database = Nothing
    /\ before = Nothing
    /\ columnNameList = {}
    /\ todo = {}
    /\ at = "idle"
    /\ inside = FALSE
    /\ ended = FALSE
    /\ answer = "none"
    /\ misjudged = FALSE
    /\ indexFailed = FALSE
    /\ starts = 0

\* The app is updated.
Update ==
    /\ at = "idle"
    /\ starts < MaxStarts
    /\ starts' = starts + 1
    /\ \E v \in Versions : class' = Binding(v)
    /\ answer' = "none"
    /\ UNCHANGED <<database, before, columnNameList, todo, at, inside, ended, misjudged, indexFailed>>

\* runEmbeddedTransaction begins.
BeginCreate ==
    /\ at = "idle"
    /\ at' = "exists"
    /\ answer' = "none"
    /\ inside' \in BOOLEAN
    /\ ended' = FALSE
    /\ before' = database
    /\ misjudged' = FALSE
    /\ indexFailed' = FALSE
    /\ UNCHANGED <<class, database, columnNameList, todo, starts>>

\* isTableExists: any failure means that there is none.  It fails while the
\* statement is prepared, or, if the table is there, at its step.
Exists ==
    /\ at = "exists"
    /\ \/ /\ IsThere
          /\ at' = "list"
          /\ UNCHANGED <<misjudged, ended>>
       \/ /\ at' = "create"
          /\ misjudged' = IsThere
          /\ ended' \in {FALSE, IsThere}
    /\ UNCHANGED <<class, database, before, columnNameList, todo, inside, answer, indexFailed, starts>>

\* The pragma for the columns; those the class has and the table lacks are
\* to be added, those it no longer has are left alone.
List ==
    /\ at = "list"
    /\ columnNameList' = DOMAIN database.columns
    /\ todo' = DOMAIN class.columns \ columnNameList'
    /\ at' = "alter"
    /\ UNCHANGED <<class, database, before, inside, ended, answer, misjudged, indexFailed, starts>>

\* Mutant: the columns are those of the list, not those that it lacks.
AlterColumns_OfList == columnNameList \cap DOMAIN class.columns \cap todo

AlterColumns == todo

\* ALTER TABLE ADD COLUMN for each of them.
Alter ==
    /\ at = "alter"
    /\ \E c \in AlterColumns :
           /\ CanAdd(class.columns[c])
           /\ database' = [database EXCEPT !.columns = With(@, c, class.columns[c])]
           /\ todo' = todo \ {c}
    /\ UNCHANGED <<class, before, columnNameList, at, inside, ended, answer, misjudged, indexFailed, starts>>

Altered ==
    /\ at = "alter"
    /\ AlterColumns = {}
    /\ at' = "index"
    /\ todo' = DOMAIN class.indexes
    /\ UNCHANGED <<class, database, before, columnNameList, inside, ended, answer, misjudged, indexFailed, starts>>

\* CREATE TABLE IF NOT EXISTS
Created ==
    IF IsThere THEN database
    ELSE [database EXCEPT !.columns = class.columns, !.constraints = class.constraints]

CreateTable ==
    /\ at = "create"
    /\ CanCreate(class)
    /\ database' = Created
    /\ at' = "index"
    /\ todo' = DOMAIN class.indexes
    /\ UNCHANGED <<class, before, columnNameList, inside, ended, answer, misjudged, indexFailed, starts>>

\* CREATE INDEX IF NOT EXISTS: one of the name is left as it is; otherwise
\* the table has to be there with its columns.
CanIndex(i) ==
    \/ i \in DOMAIN database.indexes
    \/ IsThere /\ Range(class.indexes[i]) \subseteq DOMAIN database.columns

Indexed(i) ==
    IF i \in DOMAIN database.indexes THEN database
    ELSE [database EXCEPT !.indexes = With(@, i, class.indexes[i])]

\* The error goes to innerError, which is never read, and the next index is
\* tried.
CreateIndex ==
    /\ at = "index"
    /\ \E i \in todo :
           /\ todo' = todo \ {i}
           /\ \/ /\ CanIndex(i)
                 /\ database' = Indexed(i)
                 /\ UNCHANGED <<indexFailed, ended>>
              \/ /\ indexFailed' = TRUE
                 /\ UNCHANGED <<database, ended>>
              \/ /\ ~ ended
                 /\ indexFailed' = TRUE
                 /\ ended' = TRUE
                 /\ database' = before
    /\ UNCHANGED <<class, before, columnNameList, at, inside, answer, misjudged, starts>>

\* Mutant: the error is returned and the transaction committed.
Undone_Not == database

\* rollback, unless the transaction is the app's, or over.
Undone == IF inside \/ ended THEN database ELSE before

\* The commit, which needs a transaction; or the end of the block inside that
\* of the app, which does not ask for it.
Commit ==
    /\ at = "index"
    /\ todo = {}
    /\ inside \/ ~ ended
    /\ at' = "idle"
    /\ answer' = "YES"
    /\ UNCHANGED <<class, database, before, columnNameList, todo, inside, ended, misjudged, indexFailed, starts>>

\* BEGIN, a statement or the commit fails.  A statement may take the app's
\* transaction with it.
Fail ==
    /\ at \in {"exists", "list", "alter", "create"} \/ (at = "index" /\ todo = {} /\ ~ inside)
    /\ at = "exists" => ~ inside
    /\ at' = "idle"
    /\ answer' = "NO"
    /\ database' \in {Undone} \cup (IF inside THEN {before} ELSE {})
    /\ todo' = {}
    /\ UNCHANGED <<class, before, columnNameList, inside, ended, misjudged, indexFailed, starts>>

\* The app dies, and starts again.
AppDies ==
    /\ at # "idle"
    /\ at' = "idle"
    /\ answer' = "none"
    /\ database' = IF ended THEN database ELSE before
    /\ todo' = {}
    /\ UNCHANGED <<class, before, columnNameList, inside, ended, misjudged, indexFailed, starts>>

SchemaNext ==
    \/ Update \/ BeginCreate \/ Exists \/ List \/ Alter \/ Altered \/ CreateTable \/ CreateIndex
    \/ Commit \/ Fail \/ AppDies

SchemaSpec == SchemaInit /\ [][SchemaNext]_schemaVars

-----------------------------------------------------------------------------
(* Properties                                                              *)

\* After YES the table has every column of the class, and every index by its
\* name unless one has failed.  It need not have the columns when the question
\* whether the table exists had failed, nor inside the transaction of the app
\* when that is over.  Nothing is said of constraints, nor of what the columns
\* and the indexes of those names are: they stay as first created.
TableFitsClass ==
    answer = "YES" =>
        /\ DOMAIN class.columns \subseteq DOMAIN database.columns \/ misjudged \/ (inside /\ ended)
        /\ DOMAIN class.indexes \subseteq DOMAIN database.indexes \/ indexFailed

Keeps(new, old) == \A n \in DOMAIN old : n \in DOMAIN new /\ new[n] = old[n]

\* A creation only adds: a column that is there is there for ever, as it was
\* first defined, and so are the constraints and the indexes.  NO, or a death,
\* adds nothing, unless the failure was inside the transaction of the app, who
\* has to roll back itself; and it adds nothing but indexes when SQLite had
\* ended the transaction before.
OnlyAdds ==
    [][at' = "idle" =>
           /\ Keeps(database'.columns, before'.columns)
           /\ Keeps(database'.indexes, before'.indexes)
           /\ DOMAIN before'.columns # {} => database'.constraints = before'.constraints
           /\ at # "idle" /\ answer' # "YES" =>
                  \/ database' = before
                  \/ inside /\ answer' = "NO"
                  \/ ended /\ [database' EXCEPT !.indexes = before.indexes] = before]_schemaVars

=============================================================================
