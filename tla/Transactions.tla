---------------------------- MODULE Transactions ----------------------------
(***************************************************************************)
(* Transactions of WCDB.  A Database keeps, for each thread, the handle    *)
(* that has the thread's transaction open; a Transaction object has a      *)
(* handle of its own and a mutex, and may be used by any thread.  Both run *)
(* blocks through CoreBase::runTransaction, and the inserts of several     *)
(* objects through runEmbeddedTransaction, which joins the transaction     *)
(* that is already open.                                                   *)
(*                                                                         *)
(* An action is one statement that sqlite executes, with what the caller   *)
(* does of its result.  sqlite can say no to any of them, and a failed     *)
(* write or commit may end the transaction as well.  Blocks stop at their  *)
(* first failure.  The pool is reduced to the handles nobody holds.        *)
(***************************************************************************)
EXTENDS Naturals, Sequences

CONSTANTS
    Thread,
    Conn,       \* the handles, each with its sqlite connection
    Trans,      \* the Transaction objects
    None,       \* no handle, no thread
    BlockRows,  \* bound of the model: the writes of a block
    MaxDepth,   \* bound of the model: blocks within blocks
    MaxRuns     \* bound of the model: the blocks run

ASSUME CoreAssumption ==
    /\ "database" \notin Trans
    /\ None \notin Thread \cup Conn
    /\ {BlockRows, MaxDepth, MaxRuns} \subseteq Nat

VARIABLES
    db,        \* the committed rows
    conn,      \* what sqlite and the Handle keep for each connection
    threaded,  \* s_threadedHandle: the handle of each thread's transaction
    trans,     \* the Transaction objects
    m_mutex,   \* the thread that has each object's mutex between statements
    stack,     \* the blocks each thread is in, the innermost last
    done       \* what each run returned, in the order of their calls

vars == <<db, conn, threaded, trans, m_mutex, stack, done>>

Core == {"database"} \cup Trans

Run == 1..MaxRuns

Row == Run \X (1..BlockRows)

\* tx: inside BEGIN ... COMMIT.  rows: written, not committed.
\* m_aggregation: the performance trace gathers until the transaction ends.
\* left: history, a thread has ended in the middle of the transaction.
Idle == [tx |-> FALSE, rows |-> {}, m_aggregation |-> FALSE, left |-> FALSE]

\* own: the block has a transaction of its own, it did not join one.
\* embedded: it came through runEmbeddedTransaction.
Frame == [run : Run, core : Core, own : BOOLEAN, embedded : BOOLEAN,
          at : {"begin", "block", "failed", "commit", "rollback"},
          written : 0..BlockRows]

Closed == [m_handle |-> None, m_isInTransaction |-> FALSE]

Init ==
    /\ db = {}
    /\ conn = [c \in Conn |-> Idle]
    /\ threaded = [t \in Thread |-> None]
    /\ trans = [x \in Trans |-> Closed]
    /\ m_mutex = [x \in Trans |-> None]
    /\ stack = [t \in Thread |-> <<>>]
    /\ done = <<>>

-----------------------------------------------------------------------------
(* sqlite and Handle::exec                                                 *)

\* One connection at a time writes.
OtherWriter(c) == \E d \in Conn \ {c} : conn[d].tx

\* sqlite ends the transaction by itself.
AutoRollback(c) ==
    /\ conn[c].tx
    /\ conn' = [conn EXCEPT ![c].tx = FALSE, ![c].rows = {}]
    /\ UNCHANGED db

ExecBegin(c, ok) ==
    \/ /\ ok
       /\ ~ conn[c].tx
       /\ ~ OtherWriter(c)
       /\ conn' = [conn EXCEPT ![c].tx = TRUE, ![c].m_aggregation = TRUE]
       /\ UNCHANGED db
    \/ /\ ~ ok
       /\ UNCHANGED <<conn, db>>

ExecCommit(c, ok) ==
    \/ /\ ok
       /\ conn[c].tx
       /\ db' = db \cup conn[c].rows
       /\ conn' = [conn EXCEPT ![c] = Idle]
    \/ /\ ~ ok
       /\ UNCHANGED <<conn, db>>
    \/ ~ ok /\ AutoRollback(c)

ExecRollback(c, ok) ==
    /\ ok = conn[c].tx
    /\ conn' = [conn EXCEPT ![c] = Idle]
    /\ UNCHANGED db

ExecWrite(c, row, ok) ==
    \/ /\ ok
       /\ conn[c].tx
       /\ conn' = [conn EXCEPT ![c].rows = @ \cup {row}]
       /\ UNCHANGED db
    \/ /\ ok
       /\ ~ conn[c].tx
       /\ ~ OtherWriter(c)
       /\ db' = db \cup {row}
       /\ UNCHANGED conn
    \/ /\ ~ ok
       /\ UNCHANGED <<conn, db>>
    \/ ~ ok /\ AutoRollback(c)

-----------------------------------------------------------------------------
(* Database and Transaction                                                *)

Held == {threaded[t] : t \in Thread} \cup {trans[x].m_handle : x \in Trans}

\* The handle a statement of this core gets: that of the thread's
\* transaction or one from the pool, or that of the object.
HandleOf(core, t) ==
    IF core # "database" THEN {trans[core].m_handle}
    ELSE IF threaded[t] # None THEN {threaded[t]} ELSE Conn \ Held

\* Every operation of a Transaction takes its mutex, which is not recursive.
CanLock(core, t) == core \in Trans => m_mutex[core] = None

\* The pool has no handle to give: the operation fails before sqlite.
NoHandle(core, t, ok) ==
    /\ HandleOf(core, t) = {}
    /\ ~ ok
    /\ UNCHANGED <<db, conn, threaded, trans>>

Begin(core, t, ok) ==
    /\ CanLock(core, t)
    /\ \/ NoHandle(core, t, ok)
       \/ \E c \in HandleOf(core, t) :
           /\ ExecBegin(c, ok)
           /\ IF core = "database"
              THEN /\ threaded' = IF ok THEN [threaded EXCEPT ![t] = c] ELSE threaded
                   /\ UNCHANGED trans
              ELSE /\ trans' = [trans EXCEPT ![core].m_isInTransaction = @ \/ ok]
                   /\ UNCHANGED threaded

\* Mutant: the thread's handle goes back although its commit failed.
Commit_Always(core, t, ok) ==
    /\ CanLock(core, t)
    /\ \/ NoHandle(core, t, ok)
       \/ \E c \in HandleOf(core, t) :
           /\ ExecCommit(c, ok)
           /\ IF core = "database"
              THEN /\ threaded' = [threaded EXCEPT ![t] = None]
                   /\ UNCHANGED trans
              ELSE /\ trans' = [trans EXCEPT ![core].m_isInTransaction = @ /\ ~ ok]
                   /\ UNCHANGED threaded

Commit(core, t, ok) ==
    /\ CanLock(core, t)
    /\ \/ NoHandle(core, t, ok)
       \/ \E c \in HandleOf(core, t) :
           /\ ExecCommit(c, ok)
           /\ IF core = "database"
              THEN /\ threaded' = IF ok THEN [threaded EXCEPT ![t] = None] ELSE threaded
                   /\ UNCHANGED trans
              ELSE /\ trans' = [trans EXCEPT ![core].m_isInTransaction = @ /\ ~ ok]
                   /\ UNCHANGED threaded

\* A rollback forgets the transaction whether it worked or not.
Rollback(core, t, ok) ==
    /\ CanLock(core, t)
    /\ \/ NoHandle(core, t, ok)
       \/ \E c \in HandleOf(core, t) :
           /\ ExecRollback(c, ok)
           /\ IF core = "database"
              THEN /\ threaded' = [threaded EXCEPT ![t] = None]
                   /\ UNCHANGED trans
              ELSE /\ trans' = [trans EXCEPT ![core].m_isInTransaction = FALSE]
                   /\ UNCHANGED threaded

Write(core, t, row, ok) ==
    /\ CanLock(core, t)
    /\ \/ NoHandle(core, t, ok)
       \/ /\ \E c \in HandleOf(core, t) : ExecWrite(c, row, ok)
          /\ UNCHANGED <<threaded, trans>>

Exists(core) == core \in Trans => trans[core].m_handle # None

\* getTransaction: a handle from the pool for the object alone.
GetTransaction(x) ==
    /\ ~ Exists(x)
    /\ \E c \in Conn \ Held : trans' = [trans EXCEPT ![x].m_handle = c]
    /\ UNCHANGED <<db, conn, threaded, m_mutex, stack, done>>

InUse(x) == \E t \in Thread : \E i \in DOMAIN stack[t] : stack[t][i].core = x

\* The destructor rolls back what is open.
Destroy(x) ==
    /\ Exists(x)
    /\ ~ InUse(x)
    /\ trans' = [trans EXCEPT ![x] = Closed]
    /\ IF trans[x].m_isInTransaction
       THEN \E ok \in BOOLEAN : ExecRollback(trans[x].m_handle, ok)
       ELSE UNCHANGED <<db, conn>>
    /\ UNCHANGED <<threaded, m_mutex, stack, done>>

\* WCTTransaction takes @synchronized(self) for begin, commit, rollback and
\* a whole runTransaction; inserting through it does not.
Synchronized(core, t) ==
    \A u \in Thread \ {t} : \A i \in DOMAIN stack[u] :
        stack[u][i].core = core => core = "database" \/ stack[u][i].embedded

\* The calls of a program that begins and ends its transaction itself.
Single(t, core) ==
    /\ stack[t] = <<>>
    /\ Exists(core)
    /\ Synchronized(core, t)
    /\ \E ok \in BOOLEAN :
        \/ Begin(core, t, ok)
        \/ Commit(core, t, ok)
        \/ Rollback(core, t, ok)
    /\ UNCHANGED <<m_mutex, stack, done>>

\* A thread ends, and with it its map of handles; another one starts.
ThreadExit(t) ==
    /\ stack[t] = <<>>
    /\ threaded[t] # None
    /\ threaded' = [threaded EXCEPT ![t] = None]
    /\ conn' = [conn EXCEPT ![threaded[t]].left = TRUE]
    /\ UNCHANGED <<db, trans, m_mutex, stack, done>>

-----------------------------------------------------------------------------
(* Blocks                                                                  *)

Top(t) == stack[t][Len(stack[t])]

At(t, place) == stack[t] # <<>> /\ Top(t).at = place

Goto(t, place) == stack' = [stack EXCEPT ![t][Len(stack[t])].at = place]

\* A thread may run a block from its top level or from another block.
CanCall(t, core) ==
    /\ \/ stack[t] = <<>>
       \/ At(t, "block") /\ Len(stack[t]) < MaxDepth
    /\ Len(done) < MaxRuns
    /\ Exists(core)

\* The block's number is its place in done; until it returns that is "open".
\* What becomes of a block that joined is up to the transaction it joined.
Push(t, core, own, embedded) ==
    /\ stack' = [stack EXCEPT ![t] = Append(@,
           [run |-> Len(done) + 1, core |-> core, own |-> own, embedded |-> embedded,
            at |-> IF own THEN "begin" ELSE "block", written |-> 0])]
    /\ done' = Append(done, IF own THEN "open" ELSE "joined")

CallRun(t, core) ==
    /\ CanCall(t, core)
    /\ Synchronized(core, t)
    /\ Push(t, core, TRUE, FALSE)
    /\ UNCHANGED <<db, conn, threaded, trans, m_mutex>>

\* runEmbeddedTransaction: a Transaction keeps its mutex until it returns.
CallEmbedded(t, core) ==
    /\ CanCall(t, core)
    /\ CanLock(core, t)
    /\ IF core = "database"
       THEN /\ Push(t, core, threaded[t] = None, TRUE)
            /\ UNCHANGED m_mutex
       ELSE /\ Push(t, core, ~ trans[core].m_isInTransaction, TRUE)
            /\ m_mutex' = [m_mutex EXCEPT ![core] = t]
    /\ UNCHANGED <<db, conn, threaded, trans>>

\* The block of the frame that called stops when it hears of a failure.
Return(t, result) ==
    LET f == Top(t)
        rest == SubSeq(stack[t], 1, Len(stack[t]) - 1)
    IN  /\ done' = IF f.own THEN [done EXCEPT ![f.run] = result] ELSE done
        /\ stack' = [stack EXCEPT ![t] =
               IF result = "no" /\ rest # <<>> THEN [rest EXCEPT ![Len(rest)].at = "failed"]
                                               ELSE rest]
        /\ m_mutex' = IF f.embedded /\ f.core \in Trans
                      THEN [m_mutex EXCEPT ![f.core] = None] ELSE m_mutex

RunBegin(t) ==
    /\ At(t, "begin")
    /\ \E ok \in BOOLEAN :
        /\ Begin(Top(t).core, t, ok)
        /\ IF ok THEN Goto(t, "block") /\ UNCHANGED <<m_mutex, done>>
                 ELSE Return(t, "no")

\* The block executes a write on its core.
BlockWrite(t) ==
    /\ At(t, "block")
    /\ LET f == Top(t)
       IN  /\ f.written < BlockRows
           /\ \E ok \in BOOLEAN :
               /\ Write(f.core, t, <<f.run, f.written + 1>>, ok)
               /\ IF ok THEN stack' = [stack EXCEPT ![t][Len(stack[t])].written = @ + 1]
                        ELSE Goto(t, "failed")
    /\ UNCHANGED <<m_mutex, done>>

\* Mutant: the result of the block is not looked at.
BlockEnds_Commit(t) ==
    /\ \/ At(t, "failed")
       \/ At(t, "block") /\ Top(t).written = BlockRows
    /\ IF Top(t).own
       THEN Goto(t, "commit") /\ UNCHANGED <<m_mutex, done>>
       ELSE Return(t, IF At(t, "failed") THEN "no" ELSE "yes")
    /\ UNCHANGED <<db, conn, threaded, trans>>

\* It returns YES after its writes, or NO.
BlockEnds(t) ==
    /\ \/ At(t, "failed")
       \/ At(t, "block") /\ Top(t).written = BlockRows
    /\ LET ok == ~ At(t, "failed")
       IN  IF Top(t).own
           THEN Goto(t, IF ok THEN "commit" ELSE "rollback") /\ UNCHANGED <<m_mutex, done>>
           ELSE Return(t, IF ok THEN "yes" ELSE "no")
    /\ UNCHANGED <<db, conn, threaded, trans>>

\* Some blocks change their mind.
BlockGivesUp(t) ==
    /\ At(t, "block")
    /\ Goto(t, "failed")
    /\ UNCHANGED <<db, conn, threaded, trans, m_mutex, done>>

RunCommit(t) ==
    /\ At(t, "commit")
    /\ \E ok \in BOOLEAN :
        /\ Commit(Top(t).core, t, ok)
        /\ IF ok THEN Return(t, "yes")
                 ELSE Goto(t, "rollback") /\ UNCHANGED <<m_mutex, done>>

\* Mutant: it insists on a rollback that works.
RunRollback_Retry(t) ==
    /\ At(t, "rollback")
    /\ \E ok \in BOOLEAN :
        /\ Rollback(Top(t).core, t, ok)
        /\ IF ok THEN Return(t, "no") ELSE UNCHANGED <<m_mutex, stack, done>>

RunRollback(t) ==
    /\ At(t, "rollback")
    /\ \E ok \in BOOLEAN : Rollback(Top(t).core, t, ok)
    /\ Return(t, "no")

StepNext(t) ==
    \/ RunBegin(t)
    \/ BlockWrite(t)
    \/ BlockEnds(t)
    \/ RunCommit(t)
    \/ RunRollback(t)

Next ==
    \/ \E x \in Trans : GetTransaction(x) \/ Destroy(x)
    \/ \E t \in Thread :
        \/ \E core \in Core : Single(t, core) \/ CallRun(t, core) \/ CallEmbedded(t, core)
        \/ StepNext(t)
        \/ BlockGivesUp(t)
        \/ ThreadExit(t)

Spec == Init /\ [][Next]_vars

\* A thread inside a run goes on with it.
FairSpec == Spec /\ \A t \in Thread : WF_vars(StepNext(t))

-----------------------------------------------------------------------------
(* Properties                                                              *)

\* Types of the variables.
TypeOK ==
    /\ db \subseteq Row
    /\ conn \in [Conn -> [tx : BOOLEAN, rows : SUBSET Row, m_aggregation : BOOLEAN, left : BOOLEAN]]
    /\ threaded \in [Thread -> Conn \cup {None}]
    /\ trans \in [Trans -> [m_handle : Conn \cup {None}, m_isInTransaction : BOOLEAN]]
    /\ m_mutex \in [Trans -> Thread \cup {None}]
    /\ stack \in [Thread -> Seq(Frame)]
    /\ done \in Seq({"open", "joined", "yes", "no"})

RowsOf(i) == {r \in Row : r[1] = i}

\* What runTransaction returns is what became of the rows: all of them are
\* in the database after YES; none is before it returns, nor ever after NO,
\* whatever statement failed, sqlite ended the transaction or not, and
\* whatever joined blocks and other threads did meanwhile.
AllOrNothing ==
    \A i \in DOMAIN done :
        /\ done[i] \in {"open", "no"} => RowsOf(i) \cap db = {}
        /\ done[i] = "yes" => RowsOf(i) \subseteq db

\* No thread gets a handle that is in the middle of a transaction it knows
\* nothing of, or that gathers traces for one: what the pool has back is
\* idle, unless a thread has ended between its begin and its commit.
FreeIsIdle == \A c \in Conn \ Held : conn[c] = Idle \/ conn[c].left

Embedded(t) ==
    {i \in DOMAIN stack[t] : stack[t][i].embedded /\ stack[t][i].core \in Trans}

\* runEmbeddedTransaction of a Transaction keeps the mutex that every
\* statement of the block needs: an insert of several objects through a
\* WCTTransaction never gets as far as its first row.
EmbeddedWritesNothing ==
    \A t \in Thread : \A i \in Embedded(t) : stack[t][i].written = 0

\* Every run returns, unless some thread is in such a block.
RunsReturn ==
    \A t \in Thread :
        stack[t] # <<>> ~> stack[t] = <<>> \/ \E u \in Thread : Embedded(u) # {}

\* WCTInsert.h, of inserting several objects: "it will run a transaction if
\* it's not in other transaction, otherwise it will be executed within the
\* existing transaction"; either way it returns.
EveryRunReturns == \A t \in Thread : stack[t] # <<>> ~> stack[t] = <<>>

\* Handles, transactions and mutexes agree with the runs on the threads.
Coherent ==
    /\ TypeOK
    /\ FreeIsIdle
    /\ EmbeddedWritesNothing

=============================================================================
