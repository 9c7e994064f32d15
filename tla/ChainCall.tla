------------------------------ MODULE ChainCall ------------------------------
(***************************************************************************)
(* The objects of chain calls, WCTSelect, WCTRowSelect, WCTDelete,         *)
(* WCTUpdate and WCTInsert: from the conditions that the app chains to the *)
(* statement, its steps and the handle it takes from the pool.             *)
(*                                                                         *)
(* The table has one column beside its row ids.  SQLite is what Accepted,  *)
(* Results and the steps say of it: it refuses clauses out of order, a     *)
(* select reads the table as it was at its first step, any step may fail.  *)
(***************************************************************************)
EXTENDS Convenient, Integers, FiniteSets, SequencesExt

CONSTANTS
    CallObject,  \* objects of chain calls
    Handle,      \* handles the pool may give
    Row,         \* row ids
    Chain,       \* methods of use "chain": what apps chain by themselves
    Tables,      \* contents of the table at the start
    Limit,       \* limits and offsets that apps give
    MaxObjects   \* bounds of the model: objects made, all but the first of Chain;
                 \* those that there are at a time are of Chain

ASSUME CallAssumption ==
    /\ Row \cup Limit \cup {MaxObjects} \subseteq Nat
    /\ \A t \in Tables : DOMAIN t \subseteq Row /\ IsFiniteSet(DOMAIN t)
    /\ Chain \subseteq MethodType
    /\ "none" \notin CallObject \cup Handle

VARIABLES
    call,       \* the objects that there are
    free,       \* handles in the pool
    table,      \* row ids to values
    limited,    \* SQLite is built with limits for update and delete
    objects     \* how many have been made

callVars == <<call, free, table, limited, objects>>

CallInit ==
    /\ call = <<>>
    /\ free = Handle
    /\ table \in Tables
    /\ limited \in BOOLEAN
    /\ objects = 0

-----------------------------------------------------------------------------
(* Statements                                                              *)

\* A condition as the app chains it: an empty one is an expression without
\* text, or an order without terms; n is the limit or the offset.  Methods
\* that take the first result give the limit 1.
Arguments(method, clause) ==
    CASE clause \in {"where", "orderBy"} -> { [clause |-> clause, empty |-> e, n |-> 0] : e \in BOOLEAN }
      [] clause = "limit" /\ method.use = "one" -> { [clause |-> clause, empty |-> FALSE, n |-> 1] }
      [] OTHER -> { [clause |-> clause, empty |-> FALSE, n |-> n] : n \in Limit }

Conditions(method) ==
    { asked \in [DOMAIN method.clauses -> UNION {Arguments(method, c) : c \in ToSet(method.clauses)}] :
      \A i \in DOMAIN asked : asked[i].clause = method.clauses[i] }

\* Mutant: a condition is lost.
AppendClause_NoWhere(text, c) == IF c.clause = "where" THEN text ELSE Append(text, c)

\* where, orderBy, limit, offset: what is empty is left out.
AppendClause(text, c) == IF c.empty THEN text ELSE Append(text, c)

StatementText(asked) ==
    LET text[n \in 0..Len(asked)] ==
            IF n = 0 THEN <<>> ELSE AppendClause(text[n - 1], asked[n])
    IN  text[Len(asked)]

Has(text, clause) == \E i \in DOMAIN text : text[i].clause = clause /\ ~ text[i].empty

Number(text, clause) == text[CHOOSE i \in DOMAIN text : text[i].clause = clause].n

\* SQLite takes clauses in their order, no offset without a limit, and the
\* limit and order of an update or a delete if it is built for them.
InPlace(text) ==
    LET place == [where |-> 1, orderBy |-> 2, limit |-> 3, offset |-> 4]
    IN  \A i, j \in DOMAIN text : i < j => place[text[i].clause] < place[text[j].clause]

Accepted(kind, text) ==
    /\ InPlace(text)
    /\ Has(text, "offset") => Has(text, "limit")
    /\ kind # "select" /\ Has(text, "orderBy") => Has(text, "limit")
    /\ kind # "select" /\ Has(text, "limit") => limited

\* Rows by their ids, up or down.
Before(q, r, down) == IF down THEN q > r ELSE q < r

Ordered(rows, down) == SetToSortSeq(rows, LAMBDA q, r : Before(q, r, down))

\* What the shape says of all rows, or of those with the value x: the rows
\* themselves, their values, or the first row's of each value.
Items(where, down, shape) ==
    LET rows == { r \in DOMAIN table : where => table[r] = "x" }
        kept == { r \in rows : shape = "distinct" =>
                      \A q \in rows : Before(q, r, down) => table[q] # table[r] }
        ordered == Ordered(kept, down)
    IN  [i \in 1..Cardinality(kept) |-> IF shape \in {"values", "distinct"} THEN table[ordered[i]]
                                        ELSE ordered[i]]

\* What conditions find, in order.  The condition is that the value is x,
\* the order is descending.
Results(conditions, shape) ==
    LET items == Items(Has(conditions, "where"), Has(conditions, "orderBy"), shape)
        skipped == IF Has(conditions, "offset") THEN Number(conditions, "offset") ELSE 0
        end == IF Has(conditions, "limit") THEN skipped + Number(conditions, "limit") ELSE Len(items)
    IN  SubSeq(items, skipped + 1, IF end < Len(items) THEN end ELSE Len(items))

-----------------------------------------------------------------------------
(* The objects                                                             *)

Methods == InterfaceMethods \cup TableMethods \cup Chain

\* pc "idle" is the app's turn; "undefined" is after a step of nothing.  An
\* object made without a table, or for no columns, is misused from the start.
InitWithCore(c) ==
    /\ c \notin DOMAIN call
    /\ objects < MaxObjects
    /\ objects' = objects + 1
    /\ \A d \in DOMAIN call : call[d].method \in Chain
    /\ \E method \in IF objects = 0 THEN Methods ELSE Chain, misused \in BOOLEAN :
       \E asked \in Conditions(method) :
           call' = [d \in DOMAIN call \cup {c} |->
               IF d # c THEN call[d]
               ELSE [method |-> method, asked |-> asked, text |-> StatementText(asked),
                     pc |-> "idle", answer |-> "none", drop |-> FALSE,
                     misused |-> misused, error |-> misused,
                     prepared |-> FALSE, handle |-> "none", open |-> FALSE,
                     loop |-> FALSE, begun |-> FALSE, rest |-> <<>>, got |-> <<>>,
                     meant |-> <<>>, failed |-> FALSE, inside |-> FALSE]]
    /\ UNCHANGED <<free, table, limited>>

\* What a misused object prepares is empty: SQLite takes it for nothing, and
\* fails to step it.
CanPrepare(c) == ~ call[c].misused /\ Accepted(call[c].method.kind, call[c].text)

\* An object is now as new says.
Change(c, new) == call' = [call EXCEPT ![c] = new]

At(c, pc) == c \in DOMAIN call /\ call[c].pc = pc

\* The methods that take one result or all are over with the answer.
AppMayAsk(c, kinds) ==
    /\ At(c, "idle")
    /\ call[c].method.kind \in kinds
    /\ call[c].answer # "none" => call[c].method.use = "chain"

\* nextObject, nextRow and nextValue, or allObjects, allRows and allValues.
Ask(c, loop) ==
    /\ AppMayAsk(c, {"select"})
    /\ call[c].method.use # "chain" => loop = (call[c].method.use = "all")
    /\ Change(c, [call[c] EXCEPT !.pc = "prepare", !.loop = loop])
    /\ UNCHANGED <<free, table, limited, objects>>

\* Prepares the statement with a handle.  Also an object whose statement is
\* refused keeps the handle.
Prepare(c, h) ==
    IF CanPrepare(c)
    THEN Change(c, [call[c] EXCEPT !.prepared = TRUE, !.handle = h, !.open = TRUE, !.pc = "step"])
    ELSE Change(c, [call[c] EXCEPT !.prepared = TRUE, !.handle = h, !.error = TRUE, !.pc = "idle", !.answer = "nil"])

LazyPrepare(c) ==
    /\ At(c, "prepare")
    /\ \/ /\ call[c].error
          /\ Change(c, [call[c] EXCEPT !.pc = "idle", !.answer = "nil"])
          /\ UNCHANGED free
       \/ /\ ~ call[c].error
          /\ call[c].prepared
          /\ Change(c, [call[c] EXCEPT !.pc = "step"])
          /\ UNCHANGED free
       \/ /\ ~ call[c].error
          /\ ~ call[c].prepared
          /\ free = {}
          /\ Change(c, [call[c] EXCEPT !.prepared = TRUE, !.error = TRUE, !.pc = "idle", !.answer = "nil"])
          /\ UNCHANGED free
       \/ \E h \in free :
              /\ ~ call[c].error
              /\ ~ call[c].prepared
              /\ Prepare(c, h)
              /\ free' = free \ {h}
    /\ UNCHANGED <<table, limited, objects>>

\* SQLite begins to read.  What the app means is kept beside it.
Begin(c) ==
    /\ At(c, "step")
    /\ call[c].open
    /\ ~ call[c].begun
    /\ Change(c, [call[c] EXCEPT !.begun = TRUE,
                  !.rest = Results(call[c].text, call[c].method.shape),
                  !.meant = Results(call[c].asked, call[c].method.shape)])
    /\ UNCHANGED <<free, table, limited, objects>>

\* A row: one that is NULL is nil for nextValue.
StepRow(c) ==
    LET r == call[c]
    IN  Change(c, [call[c] EXCEPT !.rest = Tail(r.rest),
                   !.got = Append(r.got, Head(r.rest)),
                   !.pc = IF r.loop THEN "step" ELSE "idle",
                   !.answer = IF r.loop THEN r.answer ELSE IF r.method.shape # "rows" /\ Head(r.rest) = "null"
                               THEN "nil" ELSE "row"])

\* next: a row, or the end, or an error, which nobody looks at.
Step(c) ==
    /\ At(c, "step")
    /\ \/ /\ ~ call[c].open
          /\ Change(c, [call[c] EXCEPT !.pc = "undefined"])
       \/ /\ call[c].begun /\ call[c].open
          /\ call[c].rest # <<>>
          /\ StepRow(c)
       \/ /\ call[c].begun /\ call[c].open
          /\ call[c].rest = <<>>
          /\ Change(c, [call[c] EXCEPT !.pc = "finalize"])
       \/ /\ call[c].begun /\ call[c].open
          /\ Change(c, [call[c] EXCEPT !.pc = "finalize", !.failed = TRUE])
    /\ UNCHANGED <<free, table, limited, objects>>

\* Mutant: the handle goes back before the statement is finalized.
GiveUp_HandleFirst(c, first) ==
    IF first
    THEN /\ free' = free \cup ({call[c].handle} \ {"none"})
         /\ Change(c, [call[c] EXCEPT !.pc = "return"])
    ELSE /\ UNCHANGED free
         /\ Change(c, [call[c] EXCEPT !.pc = "done", !.open = FALSE, !.handle = "none"])

\* RecyclableStatement = nullptr, or its destructor, in two steps.
GiveUp(c, first) ==
    IF first
    THEN /\ UNCHANGED free
         /\ Change(c, [call[c] EXCEPT !.pc = "return", !.open = FALSE])
    ELSE /\ free' = free \cup ({call[c].handle} \ {"none"})
         /\ Change(c, [call[c] EXCEPT !.pc = "done", !.handle = "none"])

Finalize(c) ==
    /\ At(c, "finalize")
    /\ GiveUp(c, TRUE)
    /\ UNCHANGED <<table, limited, objects>>

ReturnHandle(c) ==
    /\ At(c, "return")
    /\ GiveUp(c, FALSE)
    /\ UNCHANGED <<table, limited, objects>>

\* What the method returns: a list even if a step has failed.
Answer(c) ==
    /\ At(c, "done")
    /\ ~ call[c].drop
    /\ Change(c, [call[c] EXCEPT !.pc = "idle",
                  !.answer = IF call[c].method.kind # "select" THEN call[c].answer
                             ELSE IF call[c].loop THEN "list" ELSE "nil"])
    /\ UNCHANGED <<free, table, limited, objects>>

\* The app lets go of the object.
Drop(c) ==
    /\ At(c, "idle")
    /\ call[c].method.use # "chain" => call[c].answer # "none"
    /\ Change(c, [call[c] EXCEPT !.pc = "finalize", !.drop = TRUE])
    /\ UNCHANGED <<free, table, limited, objects>>

Gone(c) ==
    /\ At(c, "done")
    /\ call[c].drop
    /\ call' = [d \in DOMAIN call \ {c} |-> call[d]]
    /\ UNCHANGED <<free, table, limited, objects>>

-----------------------------------------------------------------------------
(* Statements that write                                                   *)

\* The table after the delete or the update to a value.
Written(kind, conditions, value) ==
    LET rows == ToSet(Results(conditions, "rows"))
    IN  IF kind = "delete"
        THEN [r \in DOMAIN table \ rows |-> table[r]]
        ELSE [r \in DOMAIN table |-> IF r \in rows THEN value ELSE table[r]]

\* execute, executeWithObject, executeWithRow: a row may have fewer values
\* than there are columns, and those are then NULL.  An update that has
\* failed once does not try again.
Execute(c) ==
    /\ AppMayAsk(c, {"delete", "update"})
    /\ LET r == call[c]
           kind == r.method.kind
       IN  \/ /\ kind = "update"
              /\ r.error
              /\ Change(c, [call[c] EXCEPT !.answer = "NO"])
              /\ UNCHANGED <<free, table>>
           \/ /\ kind = "update" => ~ r.error
              /\ free = {}
              /\ Change(c, [call[c] EXCEPT !.answer = "NO", !.error = TRUE])
              /\ UNCHANGED <<free, table>>
           \/ /\ kind = "update" => ~ r.error
              /\ \E h \in free :
                    /\ free' = free \ {h}
                    /\ \/ /\ CanPrepare(c)
                          /\ \E value \in IF r.method.shape = "row" THEN {"y", "null"} ELSE {"y"} :
                                 table' = Written(kind, r.text, value)
                          /\ Change(c, [call[c] EXCEPT !.answer = "YES", !.error = FALSE, !.handle = h,
                                        !.open = TRUE, !.pc = "finalize"])
                       \/ /\ Change(c, [call[c] EXCEPT !.answer = "NO", !.error = TRUE, !.handle = h,
                                        !.open = CanPrepare(c), !.pc = "finalize"])
                          /\ UNCHANGED table
    /\ UNCHANGED <<limited, objects>>

\* The table with objects of these ids inserted, all with the value y.
Put(ids) ==
    LET put == {ids[i] : i \in DOMAIN ids}
    IN  [r \in DOMAIN table \cup put |-> IF r \in put THEN "y" ELSE table[r]]

\* Mutant: several objects are inserted without a transaction.
TableAfterFailure_NoTransaction(ids, k, inside) == Put(SubSeq(ids, 1, k))

\* One object is one statement; several are in a transaction of their own,
\* unless the app is inside one.
TableAfterFailure(ids, k, inside) == IF inside THEN Put(SubSeq(ids, 1, k)) ELSE table

\* executeWithObjects, with objects of these ids: the step of the first that
\* is there already fails, if it is not to be replaced, and any may fail.
Insertion(c, ids, inside) ==
    LET replace == call[c].method.shape = "replace"
        puts(k) == replace \/ \A i \in 1..k : ids[i] \notin DOMAIN table /\ ids[i] \notin {ids[j] : j \in 1..i-1}
    IN  /\ AppMayAsk(c, {"insert"})
        /\ \/ /\ call[c].error
              /\ Change(c, [call[c] EXCEPT !.answer = "NO", !.inside = inside])
              /\ UNCHANGED <<free, table>>
           \/ /\ ~ call[c].error
              /\ free = {} /\ ~ inside
              /\ Change(c, [call[c] EXCEPT !.answer = "NO", !.error = TRUE, !.inside = inside])
              /\ UNCHANGED <<free, table>>
           \/ \E h \in IF inside THEN {"none"} ELSE free :
                  /\ ~ call[c].error
                  /\ free' = free \ {h}
                  /\ \/ /\ puts(Len(ids))
                        /\ table' = Put(ids)
                        /\ Change(c, [call[c] EXCEPT !.answer = "YES", !.handle = h, !.inside = inside, !.open = TRUE,
                                      !.pc = "finalize"])
                     \/ \E k \in 0..Len(ids)-1 :
                            /\ puts(k)
                            /\ table' = TableAfterFailure(ids, k, inside)
                            /\ Change(c, [call[c] EXCEPT !.answer = "NO", !.error = TRUE, !.handle = h,
                                          !.inside = inside, !.open = TRUE, !.pc = "finalize"])
        /\ UNCHANGED <<limited, objects>>

CallNext ==
    \E c \in CallObject :
        \/ InitWithCore(c)
        \/ \E loop \in BOOLEAN : Ask(c, loop)
        \/ LazyPrepare(c)
        \/ Begin(c)
        \/ Step(c)
        \/ Finalize(c)
        \/ ReturnHandle(c)
        \/ Answer(c)
        \/ Drop(c)
        \/ Gone(c)
        \/ Execute(c)
        \/ \E inside \in BOOLEAN, n \in 1..2 : \E ids \in [1..n -> Row] : Insertion(c, ids, inside)

CallSpec == CallInit /\ [][CallNext]_callVars

-----------------------------------------------------------------------------
(* Properties                                                              *)

\* What a select has given the app so far is the beginning of what the app
\* asked for, in whatever order it chained the conditions: a text that
\* means something else is refused.  allObjects, allRows and allValues return
\* everything, unless a step has failed: then they return what there was,
\* as if it were everything.
GivesWhatIsAsked ==
    \A c \in DOMAIN call :
        /\ IsPrefix(call[c].got, call[c].meant)
        /\ call[c].answer = "list" => call[c].got = call[c].meant \/ call[c].failed

\* A handle in the pool has no statement that is still open.
PooledHandleIsIdle == \A c \in DOMAIN call : call[c].open => call[c].handle \notin free

\* Only an app that asks once more after the end, of which it was told by
\* nil, steps through a null statement.
UndefinedOnlyPastEnd ==
    \A c \in DOMAIN call :
        call[c].pc = "undefined" => call[c].begun /\ (call[c].rest = <<>> \/ call[c].failed)

\* A delete or an update that returns YES has written what the app asked.
\* An insertion of several objects that returns NO has inserted none, if
\* the app is not inside a transaction of its own.
WritesAsAnswered ==
    [][\A c \in DOMAIN call \cap DOMAIN call' :
           LET kind == call[c].method.kind
           IN  call[c].pc = "idle" /\ call'[c].pc = "finalize" =>
                   /\ kind \in {"delete", "update"} /\ call'[c].answer = "YES" /\ ~ call'[c].drop
                          => \E value \in {"y", "null"} : table' = Written(kind, call[c].asked, value)
                   /\ kind = "insert" /\ call'[c].answer = "NO" /\ ~ call'[c].inside
                          => table' = table]_callVars

=============================================================================
