------------------------- MODULE TransactionsProofs -------------------------
(***************************************************************************)
(* The transactions, for every number of threads, connections, objects,    *)
(* rows and blocks: what goes back to the pool is idle, and a block is in  *)
(* the database with all its rows or with none.                            *)
(*                                                                         *)
(* The inductive invariant has three parts.  HandleInv is about the        *)
(* handles and their connections alone, and inductive by itself.  BlockInv *)
(* is about the blocks alone.  RowsInv says where the rows of each block   *)
(* are, by the handles and the blocks.  The lemmas follow these parts: a   *)
(* lemma for each way in which a statement changes the connections, one    *)
(* for each way in which the stack of blocks changes, and one for each     *)
(* combination of the two.  The actions are then put together from them.   *)
(***************************************************************************)
EXTENDS Transactions, TLAPS

\* The handle of a core, as a thread sees it.
MyHandle(core, t) == IF core = "database" THEN threaded[t] ELSE trans[core].m_handle

\* No two threads, no two objects, and no thread and object have one handle.
HandlesApart ==
    /\ \A t, u \in Thread : threaded[t] = threaded[u] /\ threaded[t] # None => t = u
    /\ \A x, y \in Trans : trans[x].m_handle = trans[y].m_handle /\ trans[x].m_handle # None => x = y
    /\ \A t \in Thread, x \in Trans : threaded[t] = trans[x].m_handle => threaded[t] = None

\* The handle of an object that is not in a transaction is idle, or was left.
ClosedIsIdle ==
    \A x \in Trans :
        trans[x].m_handle # None /\ ~ trans[x].m_isInTransaction =>
            conn[trans[x].m_handle] = Idle \/ conn[trans[x].m_handle].left

\* The types of the database, its connections and who holds them.
HandleTypes ==
    /\ db \subseteq Row
    /\ conn \in [Conn -> [tx : BOOLEAN, rows : SUBSET Row, m_aggregation : BOOLEAN, left : BOOLEAN]]
    /\ threaded \in [Thread -> Conn \cup {None}]
    /\ trans \in [Trans -> [m_handle : Conn \cup {None}, m_isInTransaction : BOOLEAN]]

\* The first part of the invariant, which knows nothing of blocks: what the
\* pool gets back can only be idle if nobody else holds it, and if an object
\* that can be destroyed has nothing open.
HandleInv ==
    /\ HandleTypes
    /\ FreeIsIdle
    /\ HandlesApart
    /\ ClosedIsIdle

\* Nobody's handle and nobody's mutex.
LEMMA NoneIsNone == None \notin Conn /\ None \notin Thread
    BY CoreAssumption

\* What handle a statement gets.
LEMMA HandleOfFacts ==
    ASSUME HandleTypes, NEW t \in Thread, NEW core \in Core, Exists(core),
           NEW c \in HandleOf(core, t)
    PROVE  /\ c \in Conn
           /\ core \in Trans => c = trans[core].m_handle
           /\ core = "database" /\ threaded[t] # None => c = threaded[t]
           /\ core = "database" /\ threaded[t] = None => c \notin Held
<1>1. CASE core = "database"
    <2>1. core \notin Trans
        BY <1>1, CoreAssumption
    <2> QED
        BY <1>1, <2>1 DEF HandleOf, HandleTypes
<1>2. CASE core \in Trans
    <2>1. core # "database"
        BY <1>2, CoreAssumption
    <2>2. c = trans[core].m_handle
        BY <2>1 DEF HandleOf
    <2> QED
        BY <1>2, <2>1, <2>2 DEF HandleTypes, Exists
<1> QED
    BY <1>1, <1>2 DEF Core

\* An idle connection is a connection, and is not left.
LEMMA IdleTyped ==
    Idle \in [tx : BOOLEAN, rows : SUBSET Row, m_aggregation : BOOLEAN, left : BOOLEAN]
    BY DEF Idle

\* What sqlite may do to a connection.
Ran(c) ==
    /\ \A d \in Conn : d # c => conn'[d] = conn[d]
    /\ db \subseteq db'
    /\ db' \subseteq Row
    /\ conn' \in [Conn -> [tx : BOOLEAN, rows : SUBSET Row, m_aggregation : BOOLEAN, left : BOOLEAN]]

\* An idle connection stays idle, and one that was left stays that or becomes idle.
Stays(c) == conn[c] = Idle \/ conn[c].left => conn'[c] = Idle \/ conn'[c].left

\* After BEGIN: nothing but the connection changes, and it has no rows yet.
LEMMA BeginRan ==
    ASSUME HandleTypes, NEW c \in Conn, NEW ok \in BOOLEAN, ExecBegin(c, ok)
    PROVE  /\ Ran(c)
           /\ db' = db
           /\ conn'[c].rows = conn[c].rows
           /\ ok => ~ conn[c].tx /\ conn'[c].tx
           /\ ~ ok => conn' = conn
    BY DEF HandleTypes, ExecBegin, Ran, Idle

\* conn changes at c only, to a connection with these fields.
LEMMA AtConnection ==
    ASSUME HandleTypes, NEW c \in Conn,
           NEW k \in [tx : BOOLEAN, rows : SUBSET Row, m_aggregation : BOOLEAN, left : BOOLEAN],
           conn' = [conn EXCEPT ![c] = k]
    PROVE  /\ \A d \in Conn : d # c => conn'[d] = conn[d]
           /\ conn'[c] = k
           /\ conn' \in [Conn -> [tx : BOOLEAN, rows : SUBSET Row, m_aggregation : BOOLEAN, left : BOOLEAN]]
    BY DEF HandleTypes

\* After sqlite's own rollback: the rows are gone.
LEMMA AutoRollbackRan ==
    ASSUME HandleTypes, NEW c \in Conn, AutoRollback(c)
    PROVE  Ran(c) /\ Stays(c) /\ db' = db /\ conn'[c].rows = {}
<1> DEFINE k == [conn[c] EXCEPT !.tx = FALSE, !.rows = {}]
<1>1. conn[c] \in [tx : BOOLEAN, rows : SUBSET Row, m_aggregation : BOOLEAN, left : BOOLEAN]
    BY DEF HandleTypes
<1>2. k \in [tx : BOOLEAN, rows : SUBSET Row, m_aggregation : BOOLEAN, left : BOOLEAN]
    BY <1>1
<1>3. conn' = [conn EXCEPT ![c] = k]
    BY DEF AutoRollback, HandleTypes
<1>4. k.rows = {} /\ k.left = conn[c].left
    BY <1>1
<1>5. db' = db /\ conn[c].tx /\ conn[c] # Idle
    BY DEF AutoRollback, Idle
<1> HIDE DEF k
<1> QED
    BY <1>2, <1>3, <1>4, <1>5, AtConnection DEF HandleTypes, Ran, Stays

\* After COMMIT: the rows are in the database, and the connection is idle.
LEMMA CommitRan ==
    ASSUME HandleTypes, NEW c \in Conn, NEW ok \in BOOLEAN, ExecCommit(c, ok)
    PROVE  /\ Ran(c)
           /\ Stays(c)
           /\ ok => conn'[c] = Idle /\ db' = db \cup conn[c].rows
           /\ ~ ok => db' = db
           /\ conn'[c].rows \subseteq conn[c].rows
<1>1. CASE ok
    <2>1. conn' = [conn EXCEPT ![c] = Idle] /\ db' = db \cup conn[c].rows
        BY <1>1 DEF ExecCommit
    <2>2. conn[c].rows \subseteq Row
        BY DEF HandleTypes
    <2>3. Idle.rows = {}
        BY DEF Idle
    <2> QED
        BY <1>1, <2>1, <2>2, <2>3, AtConnection, IdleTyped DEF HandleTypes, Ran, Stays
<1>2. CASE ~ ok /\ UNCHANGED <<conn, db>>
    BY <1>2 DEF HandleTypes, Ran, Stays
<1>3. CASE ~ ok /\ AutoRollback(c)
    BY <1>3, AutoRollbackRan
<1> QED
    BY <1>1, <1>2, <1>3 DEF ExecCommit

\* After ROLLBACK: the connection is idle, whether or not one was open.
LEMMA RollbackRan ==
    ASSUME HandleTypes, NEW c \in Conn, NEW ok \in BOOLEAN, ExecRollback(c, ok)
    PROVE  Ran(c) /\ Stays(c) /\ conn'[c] = Idle /\ db' = db
<1>1. conn' = [conn EXCEPT ![c] = Idle] /\ db' = db
    BY DEF ExecRollback
<1> QED
    BY <1>1, AtConnection, IdleTyped DEF HandleTypes, Ran, Stays

\* After a write: the row is in the transaction, or in the database.
LEMMA WriteRan ==
    ASSUME HandleTypes, NEW c \in Conn, NEW ok \in BOOLEAN, NEW row \in Row, ExecWrite(c, row, ok)
    PROVE  /\ Ran(c)
           /\ Stays(c)
           /\ ok => \/ conn[c].tx /\ conn'[c].tx /\ db' = db /\ conn'[c].rows = conn[c].rows \cup {row}
                    \/ ~ conn[c].tx /\ conn' = conn /\ db' = db \cup {row}
           /\ ~ ok => db' = db /\ conn'[c].rows \subseteq conn[c].rows
<1>1. CASE ok /\ conn[c].tx
    <2> DEFINE k == [conn[c] EXCEPT !.rows = @ \cup {row}]
    <2>1. conn[c] \in [tx : BOOLEAN, rows : SUBSET Row, m_aggregation : BOOLEAN, left : BOOLEAN]
        BY DEF HandleTypes
    <2>2. k \in [tx : BOOLEAN, rows : SUBSET Row, m_aggregation : BOOLEAN, left : BOOLEAN]
        BY <2>1
    <2>3. conn' = [conn EXCEPT ![c] = k] /\ db' = db
        BY <1>1 DEF ExecWrite, AutoRollback, HandleTypes
    <2>4. k.rows = conn[c].rows \cup {row} /\ k.left = conn[c].left /\ k.tx = conn[c].tx
        BY <2>1
    <2>5. conn[c] # Idle
        BY <1>1 DEF Idle
    <2> HIDE DEF k
    <2> QED
        BY <1>1, <2>2, <2>3, <2>4, <2>5, AtConnection DEF HandleTypes, Ran, Stays
<1>2. CASE ok /\ ~ conn[c].tx
    BY <1>2 DEF HandleTypes, ExecWrite, AutoRollback, Ran, Stays
<1>3. CASE ~ ok /\ UNCHANGED <<conn, db>>
    BY <1>3 DEF HandleTypes, Ran, Stays
<1>4. CASE ~ ok /\ AutoRollback(c)
    BY <1>4, AutoRollbackRan
<1> QED
    BY <1>1, <1>2, <1>3, <1>4 DEF ExecWrite

\* Only the caller's own entry of the threads' handles may change.
Others(core, t) ==
    /\ \A u \in Thread : u # t \/ core # "database" => threaded'[u] = threaded[u]
    /\ \A x \in Trans : trans'[x].m_handle = trans[x].m_handle
    /\ \A x \in Trans : x # core => trans'[x].m_isInTransaction = trans[x].m_isInTransaction
    /\ threaded' \in [Thread -> Conn \cup {None}]
    /\ trans' \in [Trans -> [m_handle : Conn \cup {None}, m_isInTransaction : BOOLEAN]]

\* Nobody's handle changes.
LEMMA UnchangedOthers ==
    ASSUME HandleTypes, NEW t \in Thread, NEW core \in Core, UNCHANGED <<threaded, trans>>
    PROVE  Others(core, t)
    BY DEF HandleTypes, Others

\* A thread sets or resets its own handle.
LEMMA ThreadedOthers ==
    ASSUME HandleTypes, NEW t \in Thread, NEW c \in Conn \cup {None},
           threaded' = [threaded EXCEPT ![t] = c], UNCHANGED trans
    PROVE  Others("database", t) /\ threaded'[t] = c
    BY DEF HandleTypes, Others

\* An object changes its own handle.
LEMMA TransOthers ==
    ASSUME HandleTypes, NEW t \in Thread, NEW x \in Trans, NEW b \in BOOLEAN,
           trans' = [trans EXCEPT ![x].m_isInTransaction = b], UNCHANGED threaded
    PROVE  Others(x, t) /\ trans'[x].m_isInTransaction = b
    BY CoreAssumption DEF HandleTypes, Others

\* Held, after a change of the caller's entry only.
LEMMA HeldOthers ==
    ASSUME HandleTypes, NEW t \in Thread, NEW core \in Core, Others(core, t)
    PROVE  \A c \in Conn : c \notin Held' /\ c \in Held =>
               core = "database" /\ c = threaded[t] /\ threaded'[t] # threaded[t]
    BY DEF HandleTypes, Others, Held

\* What happens to a handle that the core has or that is free keeps the
\* handles in order, if the core keeps what is not idle.
LEMMA HandlesStep ==
    ASSUME HandleInv, NEW t \in Thread, NEW core \in Core, Exists(core),
           NEW c \in HandleOf(core, t), Ran(c), Others(core, t),
           core = "database" => threaded'[t] \in {threaded[t], c, None},
           \/ Stays(c)
           \/ core = "database" /\ threaded'[t] = c
           \/ core \in Trans /\ trans'[core].m_isInTransaction,
           core = "database" /\ threaded'[t] # threaded[t] /\ threaded[t] # None => conn'[c] = Idle,
           core \in Trans /\ ~ trans'[core].m_isInTransaction =>
               ~ trans[core].m_isInTransaction \/ conn'[c] = Idle
    PROVE  HandleInv'
<1>0. HandleTypes /\ FreeIsIdle /\ HandlesApart /\ ClosedIsIdle
    BY DEF HandleInv
<1>1. HandleTypes'
    BY DEF Ran, Others, HandleTypes
<1>2. /\ c \in Conn
      /\ core \in Trans => c = trans[core].m_handle
      /\ core = "database" /\ threaded[t] # None => c = threaded[t]
      /\ core = "database" /\ threaded[t] = None => c \notin Held
    BY <1>0, HandleOfFacts
<1>3. core = "database" \/ core \in Trans
    BY DEF Core
<1>4. HandlesApart'
    <2>1. CASE core \in Trans
        <3>1. threaded' = threaded
            BY <1>0, <1>1, <2>1, CoreAssumption DEF Others, HandleTypes
        <3> QED
            BY <1>0, <2>1, <3>1 DEF HandlesApart, Others
    <2>2. CASE core = "database" /\ threaded'[t] = threaded[t]
        <3>1. threaded' = threaded
            BY <1>0, <1>1, <2>2 DEF Others, HandleTypes
        <3> QED
            BY <1>0, <3>1 DEF HandlesApart, Others
    <2>3. CASE core = "database" /\ threaded'[t] = None
        BY <1>0, <2>3 DEF HandlesApart, Others
    <2>4. CASE core = "database" /\ threaded'[t] = c /\ threaded[t] = None
        <3>1. c \notin Held /\ c # None
            BY <1>2, <2>4, NoneIsNone
        <3> QED
            BY <1>0, <2>4, <3>1 DEF HandlesApart, Others, Held
    <2>5. CASE core = "database" /\ threaded'[t] = c /\ threaded[t] # None
        BY <1>2, <2>2, <2>5
    <2> QED
        BY <1>3, <2>1, <2>2, <2>3, <2>4, <2>5
<1>5. FreeIsIdle'
    <2> SUFFICES ASSUME NEW d \in Conn, d \notin Held'
                 PROVE  conn'[d] = Idle \/ conn'[d].left
        BY DEF FreeIsIdle
    <2>1. CASE d \notin Held /\ d # c
        BY <1>0, <2>1 DEF FreeIsIdle, Ran
    <2>2. CASE d \notin Held /\ d = c
        <3>1. conn[c] = Idle \/ conn[c].left
            BY <1>0, <2>2 DEF FreeIsIdle
        <3>2. core \notin Trans
            BY <1>2, <2>2 DEF Held
        <3>3. core = "database" => threaded'[t] # c
            BY <2>2 DEF Held
        <3> QED
            BY <2>2, <3>1, <3>2, <3>3 DEF Stays
    <2>3. CASE d \in Held
        BY <1>0, <1>2, <2>3, HeldOthers, NoneIsNone
    <2> QED
        BY <2>1, <2>2, <2>3
<1>6. ClosedIsIdle'
    <2> SUFFICES ASSUME NEW x \in Trans, trans'[x].m_handle # None, ~ trans'[x].m_isInTransaction
                 PROVE  conn'[trans'[x].m_handle] = Idle \/ conn'[trans'[x].m_handle].left
        BY DEF ClosedIsIdle
    <2>1. trans'[x].m_handle = trans[x].m_handle /\ trans[x].m_handle \in Conn
        BY <1>0 DEF Others, HandleTypes
    <2>2. CASE x = core
        <3>1. ~ trans[core].m_isInTransaction => conn[c] = Idle \/ conn[c].left
            BY <1>0, <1>2, <2>1, <2>2 DEF ClosedIsIdle
        <3>2. core # "database"
            BY <2>2, CoreAssumption
        <3> QED
            BY <1>2, <2>1, <2>2, <3>1, <3>2 DEF Stays
    <2>3. CASE x # core
        <3>1. conn[trans[x].m_handle] = Idle \/ conn[trans[x].m_handle].left
            BY <1>0, <2>1, <2>3 DEF ClosedIsIdle, Others
        <3>2. trans[x].m_handle # c
            BY <1>0, <1>2, <1>3, <2>1, <2>3 DEF HandlesApart, Held
        <3> QED
            BY <2>1, <3>1, <3>2 DEF Ran
    <2> QED
        BY <2>2, <2>3
<1> QED
    BY <1>1, <1>4, <1>5, <1>6 DEF HandleInv

\* A begin for which there is no handle changes nothing.
LEMMA NoHandleKeeps ==
    ASSUME HandleInv, NEW t \in Thread, NEW core \in Core, NEW ok \in BOOLEAN,
           NoHandle(core, t, ok)
    PROVE  HandleInv' /\ ~ ok /\ UNCHANGED <<db, conn, threaded, trans>>
           /\ core = "database" /\ threaded[t] = None
<1>1. HandleInv' /\ ~ ok /\ UNCHANGED <<db, conn, threaded, trans>>
    BY DEF NoHandle, HandleInv, HandleTypes, FreeIsIdle, HandlesApart, ClosedIsIdle, Held
<1> QED
    BY <1>1 DEF NoHandle, HandleOf

\* Core::begin keeps the handles in order.
LEMMA BeginHandles ==
    ASSUME HandleInv, NEW t \in Thread, NEW core \in Core, NEW ok \in BOOLEAN,
           Exists(core), Begin(core, t, ok)
    PROVE  /\ HandleInv'
           /\ Others(core, t)
           /\ db' = db
           /\ ~ ok => conn' = conn /\ threaded' = threaded
           /\ ok => \E c \in HandleOf(core, t) :
                        /\ Ran(c)
                        /\ ~ conn[c].tx
                        /\ conn'[c].tx
                        /\ conn'[c].rows = conn[c].rows
                        /\ core = "database" => threaded'[t] = c
<1>0. HandleTypes
    BY DEF HandleInv
<1>1. CASE NoHandle(core, t, ok)
    BY <1>0, <1>1, NoHandleKeeps, UnchangedOthers
<1>2. ASSUME NEW c \in HandleOf(core, t), ExecBegin(c, ok),
             core = "database",
             threaded' = IF ok THEN [threaded EXCEPT ![t] = c] ELSE threaded,
             UNCHANGED trans
      PROVE  HandleInv' /\ Others(core, t) /\ (~ ok => threaded' = threaded) /\ (ok => threaded'[t] = c)
    <2>1. c \in Conn
        BY <1>0, <1>2, HandleOfFacts
    <2>2. Ran(c) /\ (ok \/ Stays(c))
        BY <1>0, <1>2, <2>1, BeginRan DEF Stays
    <2>3. Others(core, t) /\ (~ ok => threaded' = threaded) /\ (ok => threaded'[t] = c)
        BY <1>0, <1>2, <2>1, ThreadedOthers, UnchangedOthers
    <2>4. core \notin Trans
        BY <1>2, CoreAssumption
    <2>5. threaded[t] # None => c = threaded[t]
        BY <1>0, <1>2, HandleOfFacts
    <2> QED
        BY <1>2, <2>2, <2>3, <2>4, <2>5, HandlesStep
<1>3. ASSUME NEW c \in HandleOf(core, t), ExecBegin(c, ok),
             core # "database",
             trans' = [trans EXCEPT ![core].m_isInTransaction = @ \/ ok],
             UNCHANGED threaded
      PROVE  HandleInv' /\ Others(core, t)
    <2>1. c \in Conn
        BY <1>0, <1>3, HandleOfFacts
    <2>2. Ran(c) /\ (ok \/ Stays(c))
        BY <1>0, <1>3, <2>1, BeginRan DEF Stays
    <2>3. core \in Trans
        BY <1>3 DEF Core
    <2>4. trans' = [trans EXCEPT ![core].m_isInTransaction = trans[core].m_isInTransaction \/ ok]
        BY <1>3
    <2>5. Others(core, t) /\ trans'[core].m_isInTransaction = (trans[core].m_isInTransaction \/ ok)
        BY <1>0, <1>3, <2>3, <2>4, TransOthers DEF HandleTypes
    <2> QED
        BY <1>3, <2>2, <2>3, <2>5, HandlesStep
<1>4. ASSUME NEW c \in HandleOf(core, t), ExecBegin(c, ok)
      PROVE  /\ db' = db
             /\ ~ ok => conn' = conn
             /\ ok => Ran(c) /\ ~ conn[c].tx /\ conn'[c].tx /\ conn'[c].rows = conn[c].rows
    <2>1. c \in Conn
        BY <1>0, <1>4, HandleOfFacts
    <2> QED
        BY <1>0, <1>4, <2>1, BeginRan
<1> QED
    BY <1>1, <1>2, <1>3, <1>4, NoHandleKeeps DEF Begin

\* Core::commit keeps the handles in order.
LEMMA CommitHandles ==
    ASSUME HandleInv, NEW t \in Thread, NEW core \in Core, NEW ok \in BOOLEAN,
           Exists(core), Commit(core, t, ok)
    PROVE  /\ HandleInv'
           /\ Others(core, t)
           /\ core = "database" => threaded'[t] \in {threaded[t], None}
           /\ \/ ~ ok /\ UNCHANGED <<db, conn, threaded>>
              \/ \E c \in HandleOf(core, t) :
                    /\ Ran(c)
                    /\ ok => conn'[c] = Idle /\ db' = db \cup conn[c].rows
                    /\ ~ ok => db' = db /\ threaded' = threaded
                    /\ conn'[c].rows \subseteq conn[c].rows
<1>0. HandleTypes
    BY DEF HandleInv
<1>1. CASE NoHandle(core, t, ok)
    BY <1>0, <1>1, NoHandleKeeps, UnchangedOthers
<1>2. ASSUME NEW c \in HandleOf(core, t), ExecCommit(c, ok),
             core = "database",
             threaded' = IF ok THEN [threaded EXCEPT ![t] = None] ELSE threaded,
             UNCHANGED trans
      PROVE  /\ HandleInv'
             /\ Others(core, t)
             /\ threaded'[t] \in {threaded[t], None}
             /\ ~ ok => threaded' = threaded
    <2>1. c \in Conn
        BY <1>0, <1>2, HandleOfFacts
    <2>2. Ran(c) /\ Stays(c) /\ (ok => conn'[c] = Idle)
        BY <1>0, <1>2, <2>1, CommitRan
    <2>3. Others(core, t) /\ (~ ok => threaded' = threaded) /\ (ok => threaded'[t] = None)
        BY <1>0, <1>2, <2>1, ThreadedOthers, UnchangedOthers
    <2>4. core \notin Trans
        BY <1>2, CoreAssumption
    <2> QED
        BY <1>2, <2>2, <2>3, <2>4, HandlesStep
<1>3. ASSUME NEW c \in HandleOf(core, t), ExecCommit(c, ok),
             core # "database",
             trans' = [trans EXCEPT ![core].m_isInTransaction = @ /\ ~ ok],
             UNCHANGED threaded
      PROVE  HandleInv' /\ Others(core, t)
    <2>1. c \in Conn
        BY <1>0, <1>3, HandleOfFacts
    <2>2. Ran(c) /\ Stays(c) /\ (ok => conn'[c] = Idle)
        BY <1>0, <1>3, <2>1, CommitRan
    <2>3. core \in Trans
        BY <1>3 DEF Core
    <2>4. trans' = [trans EXCEPT ![core].m_isInTransaction = trans[core].m_isInTransaction /\ ~ ok]
        BY <1>3
    <2>5. Others(core, t) /\ trans'[core].m_isInTransaction = (trans[core].m_isInTransaction /\ ~ ok)
        BY <1>0, <1>3, <2>3, <2>4, TransOthers DEF HandleTypes
    <2> QED
        BY <1>3, <2>2, <2>3, <2>5, HandlesStep
<1>4. ASSUME NEW c \in HandleOf(core, t), ExecCommit(c, ok)
      PROVE  /\ Ran(c)
             /\ ok => conn'[c] = Idle /\ db' = db \cup conn[c].rows
             /\ ~ ok => db' = db
             /\ conn'[c].rows \subseteq conn[c].rows
    <2>1. c \in Conn
        BY <1>0, <1>4, HandleOfFacts
    <2> QED
        BY <1>0, <1>4, <2>1, CommitRan
<1> QED
    BY <1>1, <1>2, <1>3, <1>4, NoHandleKeeps DEF Commit

\* Core::rollback keeps the handles in order.
LEMMA RollbackHandles ==
    ASSUME HandleInv, NEW t \in Thread, NEW core \in Core, NEW ok \in BOOLEAN,
           Exists(core), Rollback(core, t, ok)
    PROVE  /\ HandleInv'
           /\ Others(core, t)
           /\ db' = db
           /\ core = "database" => threaded'[t] \in {threaded[t], None}
           /\ \/ /\ UNCHANGED <<conn, threaded>>
                 /\ core = "database" /\ threaded[t] = None
              \/ \E c \in HandleOf(core, t) : Ran(c) /\ conn'[c] = Idle
<1>0. HandleTypes
    BY DEF HandleInv
<1>1. CASE NoHandle(core, t, ok)
    BY <1>0, <1>1, NoHandleKeeps, UnchangedOthers
<1>2. ASSUME NEW c \in HandleOf(core, t), ExecRollback(c, ok),
             core = "database",
             threaded' = [threaded EXCEPT ![t] = None],
             UNCHANGED trans
      PROVE  HandleInv' /\ Others(core, t) /\ threaded'[t] = None
    <2>1. c \in Conn
        BY <1>0, <1>2, HandleOfFacts
    <2>2. Ran(c) /\ Stays(c) /\ conn'[c] = Idle
        BY <1>0, <1>2, <2>1, RollbackRan
    <2>3. Others(core, t) /\ threaded'[t] = None
        BY <1>0, <1>2, <2>1, ThreadedOthers
    <2>4. core \notin Trans
        BY <1>2, CoreAssumption
    <2> QED
        BY <1>2, <2>2, <2>3, <2>4, HandlesStep
<1>3. ASSUME NEW c \in HandleOf(core, t), ExecRollback(c, ok),
             core # "database",
             trans' = [trans EXCEPT ![core].m_isInTransaction = FALSE],
             UNCHANGED threaded
      PROVE  HandleInv' /\ Others(core, t)
    <2>1. c \in Conn
        BY <1>0, <1>3, HandleOfFacts
    <2>2. Ran(c) /\ Stays(c) /\ conn'[c] = Idle
        BY <1>0, <1>3, <2>1, RollbackRan
    <2>3. core \in Trans
        BY <1>3 DEF Core
    <2>5. Others(core, t) /\ trans'[core].m_isInTransaction = FALSE
        BY <1>0, <1>3, <2>3, TransOthers
    <2> QED
        BY <1>3, <2>2, <2>3, <2>5, HandlesStep
<1>4. ASSUME NEW c \in HandleOf(core, t), ExecRollback(c, ok)
      PROVE  Ran(c) /\ conn'[c] = Idle /\ db' = db
    <2>1. c \in Conn
        BY <1>0, <1>4, HandleOfFacts
    <2> QED
        BY <1>0, <1>4, <2>1, RollbackRan
<1> QED
    BY <1>1, <1>2, <1>3, <1>4, NoHandleKeeps DEF Rollback

\* A write keeps the handles in order.
LEMMA WriteHandles ==
    ASSUME HandleInv, NEW t \in Thread, NEW core \in Core, NEW ok \in BOOLEAN, NEW row \in Row,
           Exists(core), Write(core, t, row, ok)
    PROVE  /\ HandleInv'
           /\ Others(core, t)
           /\ threaded' = threaded
           /\ \/ ~ ok /\ UNCHANGED <<db, conn>>
              \/ \E c \in HandleOf(core, t) :
                    /\ Ran(c)
                    /\ ok => \/ conn[c].tx /\ conn'[c].tx /\ db' = db /\ conn'[c].rows = conn[c].rows \cup {row}
                             \/ ~ conn[c].tx /\ conn' = conn /\ db' = db \cup {row}
                    /\ ~ ok => db' = db /\ conn'[c].rows \subseteq conn[c].rows
<1>0. HandleTypes
    BY DEF HandleInv
<1>1. CASE NoHandle(core, t, ok)
    BY <1>0, <1>1, NoHandleKeeps, UnchangedOthers
<1>2. ASSUME NEW c \in HandleOf(core, t), ExecWrite(c, row, ok), UNCHANGED <<threaded, trans>>
      PROVE  /\ HandleInv'
             /\ Others(core, t)
             /\ Ran(c)
             /\ ok => \/ conn[c].tx /\ conn'[c].tx /\ db' = db /\ conn'[c].rows = conn[c].rows \cup {row}
                      \/ ~ conn[c].tx /\ conn' = conn /\ db' = db \cup {row}
             /\ ~ ok => db' = db /\ conn'[c].rows \subseteq conn[c].rows
    <2>1. c \in Conn
        BY <1>0, <1>2, HandleOfFacts
    <2>2. /\ Ran(c)
          /\ Stays(c)
          /\ ok => \/ conn[c].tx /\ conn'[c].tx /\ db' = db /\ conn'[c].rows = conn[c].rows \cup {row}
                   \/ ~ conn[c].tx /\ conn' = conn /\ db' = db \cup {row}
          /\ ~ ok => db' = db /\ conn'[c].rows \subseteq conn[c].rows
        BY <1>0, <1>2, <2>1, WriteRan
    <2>3. Others(core, t)
        BY <1>0, <1>2, UnchangedOthers
    <2>4. HandleInv'
        BY <1>2, <2>2, <2>3, HandlesStep
    <2> QED
        BY <2>2, <2>3, <2>4
<1> QED
    BY <1>1, <1>2, NoHandleKeeps DEF Write

-----------------------------------------------------------------------------
(* The blocks                                                              *)

\* The blocks that a thread is in.
Frames(t) == 1..Len(stack[t])

\* A block that has begun a transaction of its own.
Begun(f) == f.own /\ f.at # "begin"

\* A block that is open has not returned yet.
RunsKnown ==
    \A t \in Thread : \A k \in Frames(t) :
        /\ stack[t][k].run \in 1..Len(done)
        /\ done[stack[t][k].run] = IF stack[t][k].own THEN "open" ELSE "joined"

\* Only the innermost block moves; those around it wait in their blocks.
\* A block that joined has nothing to begin, commit or roll back.
Placed ==
    \A t \in Thread : \A k \in Frames(t) :
        /\ k < Len(stack[t]) => stack[t][k].at = "block"
        /\ ~ stack[t][k].own => stack[t][k].at \in {"block", "failed"}
        /\ stack[t][k].at = "begin" => stack[t][k].written = 0
        /\ stack[t][k].at = "commit" => stack[t][k].written = BlockRows

\* An embedded block on a Transaction has its mutex.  It never gets anywhere:
\* its first statement wants the mutex again.
Locked ==
    \A t \in Thread : \A k \in Frames(t) :
        stack[t][k].embedded /\ stack[t][k].core \in Trans =>
            /\ m_mutex[stack[t][k].core] = t
            /\ stack[t][k].written = 0
            /\ ~ Begun(stack[t][k])

\* Every block is a run of its own.
RunsApart ==
    \A t, u \in Thread : \A k \in Frames(t), l \in Frames(u) :
        stack[t][k].run = stack[u][l].run => t = u /\ k = l

\* An object's mutex lets one embedded block in, and the blocks of one
\* object that are not embedded are of one thread.
EmbeddedApart ==
    \A t, u \in Thread : \A k \in Frames(t), l \in Frames(u) :
        /\ stack[t][k].core = stack[u][l].core
        /\ stack[t][k].core \in Trans
        => /\ stack[t][k].embedded /\ stack[u][l].embedded => t = u /\ k = l
           /\ ~ stack[t][k].embedded /\ ~ stack[u][l].embedded => t = u

\* The types of the mutexes, the blocks and what they returned.
BlockTypes ==
    /\ m_mutex \in [Trans -> Thread \cup {None}]
    /\ stack \in [Thread -> Seq(Frame)]
    /\ done \in Seq({"open", "joined", "yes", "no"})

\* The second part of the invariant, which knows nothing of handles.
BlockInv ==
    /\ BlockTypes
    /\ RunsKnown
    /\ Placed
    /\ Locked
    /\ RunsApart
    /\ EmbeddedApart

\* The frames of t but the last stay, and the last one that is left is of
\* the same block.
Shrunk(t) ==
    /\ stack' \in [Thread -> Seq(Frame)]
    /\ \A u \in Thread \ {t} : stack'[u] = stack[u]
    /\ Len(stack'[t]) =< Len(stack[t])
    /\ \A k \in 1..Len(stack'[t]) :
        /\ stack'[t][k].run = stack[t][k].run
        /\ stack'[t][k].core = stack[t][k].core
        /\ stack'[t][k].own = stack[t][k].own
        /\ stack'[t][k].embedded = stack[t][k].embedded
        /\ k < Len(stack'[t]) => stack'[t][k] = stack[t][k]

\* The innermost block of t goes to a place.
Moved(t, place, written) ==
    /\ Shrunk(t)
    /\ Len(stack'[t]) = Len(stack[t])
    /\ stack'[t][Len(stack[t])].at = place
    /\ stack'[t][Len(stack[t])].written = written

\* The innermost block of t is over.
Ended(t, result) ==
    /\ Shrunk(t)
    /\ Len(stack'[t]) = Len(stack[t]) - 1
    /\ Len(stack'[t]) > 0 =>
        /\ stack'[t][Len(stack'[t])].at = IF result = "no" THEN "failed" ELSE stack[t][Len(stack'[t])].at
        /\ stack'[t][Len(stack'[t])].written = stack[t][Len(stack'[t])].written
    /\ done' \in Seq({"open", "joined", "yes", "no"})
    /\ Len(done') = Len(done)
    /\ \A i \in 1..Len(done) :
        done'[i] = IF Top(t).own /\ i = Top(t).run THEN result ELSE done[i]
    /\ m_mutex' \in [Trans -> Thread \cup {None}]
    /\ \A x \in Trans :
        m_mutex'[x] = IF Top(t).embedded /\ x = Top(t).core THEN None ELSE m_mutex[x]

\* A sequence with another last element.
LEMMA ReplaceLast ==
    ASSUME NEW S, NEW s \in Seq(S), s # <<>>, NEW e \in S, NEW r, r = [s EXCEPT ![Len(s)] = e]
    PROVE  /\ r \in Seq(S)
           /\ Len(r) = Len(s)
           /\ Len(s) \in 1..Len(s)
           /\ r[Len(s)] = e
           /\ \A k \in 1..Len(s) : k < Len(s) => r[k] = s[k]
    OBVIOUS

\* The innermost block is a block.
LEMMA TopIsFrame ==
    ASSUME BlockTypes, NEW t \in Thread, stack[t] # <<>>
    PROVE  /\ Len(stack[t]) \in Nat \ {0}
           /\ Len(stack[t]) \in Frames(t)
           /\ Top(t) = stack[t][Len(stack[t])]
           /\ Top(t) \in Frame
    BY DEF BlockTypes, Top, Frames

\* The fields of a block.
LEMMA FrameTyped ==
    ASSUME BlockTypes, NEW t \in Thread, NEW k \in Frames(t)
    PROVE  /\ stack[t][k] \in Frame
           /\ stack[t][k].core \in Core
           /\ stack[t][k].written \in 0..BlockRows
<1>1. stack[t][k] \in Frame
    BY DEF BlockTypes, Frames
<1> QED
    BY <1>1 DEF Frame

\* A block goes on to another place.
LEMMA GotoMoves ==
    ASSUME BlockTypes, NEW t \in Thread, stack[t] # <<>>,
           NEW place \in {"begin", "block", "failed", "commit", "rollback"}, Goto(t, place)
    PROVE  Moved(t, place, Top(t).written)
<1> DEFINE n == Len(stack[t])
           g == [Top(t) EXCEPT !.at = place]
           s == [stack[t] EXCEPT ![n] = g]
<1>1. n \in Frames(t) /\ Top(t) = stack[t][n] /\ Top(t) \in Frame /\ stack[t] \in Seq(Frame)
    BY TopIsFrame DEF BlockTypes
<1>2. /\ g \in Frame
      /\ g.run = Top(t).run /\ g.core = Top(t).core /\ g.own = Top(t).own
      /\ g.embedded = Top(t).embedded /\ g.written = Top(t).written /\ g.at = place
    BY <1>1 DEF Frame
<1>3. stack' = [stack EXCEPT ![t] = s]
    BY <1>1 DEF Goto, BlockTypes
<1>4. /\ s \in Seq(Frame) /\ Len(s) = n /\ s[n] = g
      /\ \A k \in 1..n : k < n => s[k] = stack[t][k]
    <2> HIDE DEF g
    <2> QED
        BY <1>1, <1>2, ReplaceLast
<1>5. stack'[t] = s /\ stack' \in [Thread -> Seq(Frame)] /\ \A u \in Thread \ {t} : stack'[u] = stack[u]
    <2> HIDE DEF s, g
    <2> QED
        BY <1>3, <1>4 DEF BlockTypes
<1> HIDE DEF s, g
<1> QED
    BY <1>1, <1>2, <1>4, <1>5 DEF Moved, Shrunk, Frames

\* A block has written a row.
LEMMA WrittenMoves ==
    ASSUME BlockTypes, NEW t \in Thread, stack[t] # <<>>, Top(t).written < BlockRows,
           stack' = [stack EXCEPT ![t][Len(stack[t])].written = @ + 1]
    PROVE  Moved(t, Top(t).at, Top(t).written + 1)
<1> DEFINE n == Len(stack[t])
           g == [Top(t) EXCEPT !.written = @ + 1]
           s == [stack[t] EXCEPT ![n] = g]
<1>1. n \in Frames(t) /\ Top(t) = stack[t][n] /\ Top(t) \in Frame /\ stack[t] \in Seq(Frame)
    BY TopIsFrame DEF BlockTypes
<1>2. /\ g \in Frame
      /\ g.run = Top(t).run /\ g.core = Top(t).core /\ g.own = Top(t).own
      /\ g.embedded = Top(t).embedded /\ g.written = Top(t).written + 1 /\ g.at = Top(t).at
    <2>1. BlockRows \in Nat
        BY CoreAssumption
    <2>2. Top(t).written + 1 \in 0..BlockRows
        BY <1>1, <2>1 DEF Frame
    <2> QED
        BY <1>1, <2>2 DEF Frame
<1>3. stack' = [stack EXCEPT ![t] = s]
    BY <1>1 DEF BlockTypes
<1>4. /\ s \in Seq(Frame) /\ Len(s) = n /\ s[n] = g
      /\ \A k \in 1..n : k < n => s[k] = stack[t][k]
    <2> HIDE DEF g
    <2> QED
        BY <1>1, <1>2, ReplaceLast
<1>5. stack'[t] = s /\ stack' \in [Thread -> Seq(Frame)] /\ \A u \in Thread \ {t} : stack'[u] = stack[u]
    <2> HIDE DEF s, g
    <2> QED
        BY <1>3, <1>4 DEF BlockTypes
<1> HIDE DEF s, g
<1> QED
    BY <1>1, <1>2, <1>4, <1>5 DEF Moved, Shrunk, Frames

\* A block returns.
LEMMA ReturnEnds ==
    ASSUME BlockInv, NEW t \in Thread, stack[t] # <<>>, NEW result \in {"yes", "no"}, Return(t, result)
    PROVE  Ended(t, result)
<1> DEFINE n == Len(stack[t])
           rest == SubSeq(stack[t], 1, n - 1)
           g == [rest[Len(rest)] EXCEPT !.at = "failed"]
           s == IF result = "no" /\ rest # <<>> THEN [rest EXCEPT ![Len(rest)] = g] ELSE rest
<1>0. BlockTypes /\ RunsKnown
    BY DEF BlockInv
<1>1. n \in Frames(t) /\ n \in Nat \ {0} /\ Top(t) = stack[t][n] /\ Top(t) \in Frame /\ stack[t] \in Seq(Frame)
    BY <1>0, TopIsFrame DEF BlockTypes
<1>2. /\ rest \in Seq(Frame) /\ Len(rest) = n - 1
      /\ \A k \in 1..(n - 1) : rest[k] = stack[t][k]
    BY <1>1
<1>3. ASSUME rest # <<>>
      PROVE  /\ Len(rest) > 0 /\ rest[Len(rest)] \in Frame /\ g \in Frame
             /\ g.run = rest[Len(rest)].run /\ g.core = rest[Len(rest)].core /\ g.own = rest[Len(rest)].own
             /\ g.embedded = rest[Len(rest)].embedded /\ g.written = rest[Len(rest)].written /\ g.at = "failed"
    <2> HIDE DEF rest
    <2>1. Len(rest) > 0 /\ rest[Len(rest)] \in Frame
        BY <1>2, <1>3
    <2> QED
        BY <2>1 DEF Frame
<1>4. stack' = [stack EXCEPT ![t] = s]
    BY <1>1 DEF Return, BlockTypes
<1>6. /\ done' \in Seq({"open", "joined", "yes", "no"})
      /\ Len(done') = Len(done)
      /\ \A i \in 1..Len(done) :
            done'[i] = IF Top(t).own /\ i = Top(t).run THEN result ELSE done[i]
    <2>1. Top(t).run \in 1..Len(done)
        BY <1>0, <1>1 DEF RunsKnown
    <2>2. CASE Top(t).own
        <3>1. done' = [done EXCEPT ![Top(t).run] = result]
            BY <2>2 DEF Return
        <3>2. done \in Seq({"open", "joined", "yes", "no"})
            BY <1>0 DEF BlockTypes
        <3> QED
            BY <2>1, <2>2, <3>1, <3>2
    <2>3. CASE ~ Top(t).own
        BY <1>0, <2>3 DEF Return, BlockTypes
    <2> QED
        BY <2>2, <2>3
<1>7. /\ m_mutex' \in [Trans -> Thread \cup {None}]
      /\ \A x \in Trans :
            m_mutex'[x] = IF Top(t).embedded /\ x = Top(t).core THEN None ELSE m_mutex[x]
    BY <1>0 DEF Return, BlockTypes
<1>5. CASE result = "no" /\ rest # <<>>
    <2>1. /\ s \in Seq(Frame) /\ Len(s) = n - 1 /\ s[n - 1] = g
          /\ \A k \in 1..(n - 1) : k < n - 1 => s[k] = rest[k]
        <3> HIDE DEF g, rest
        <3> QED
            BY <1>2, <1>3, <1>5, ReplaceLast
    <2>2. stack'[t] = s /\ stack' \in [Thread -> Seq(Frame)] /\ \A u \in Thread \ {t} : stack'[u] = stack[u]
        <3> HIDE DEF s, g
        <3> QED
            BY <1>0, <1>4, <2>1 DEF BlockTypes
    <2>3. \A k \in 1..(n - 1) : k < n - 1 => stack'[t][k] = stack[t][k]
        <3> HIDE DEF s, g, rest
        <3> QED
            BY <1>2, <2>1, <2>2
    <2>4. /\ stack'[t][n - 1] = g /\ n - 1 > 0 /\ Len(stack'[t]) = n - 1
          /\ g.run = stack[t][n - 1].run /\ g.core = stack[t][n - 1].core /\ g.own = stack[t][n - 1].own
          /\ g.embedded = stack[t][n - 1].embedded /\ g.written = stack[t][n - 1].written /\ g.at = "failed"
        <3> HIDE DEF s, g, rest
        <3> QED
            BY <1>1, <1>2, <1>3, <1>5, <2>1, <2>2
    <2> HIDE DEF s, g, rest
    <2>5. Shrunk(t)
        BY <1>1, <2>2, <2>3, <2>4 DEF Shrunk
    <2> QED
        BY <1>1, <1>5, <1>6, <1>7, <2>4, <2>5 DEF Ended
<1>8. CASE ~ (result = "no" /\ rest # <<>>)
    <2>1. s = rest
        BY <1>8
    <2>2. stack'[t] = rest /\ stack' \in [Thread -> Seq(Frame)] /\ \A u \in Thread \ {t} : stack'[u] = stack[u]
        <3> HIDE DEF s, rest
        <3> QED
            BY <1>0, <1>2, <1>4, <2>1 DEF BlockTypes
    <2> HIDE DEF rest
    <2>3. Len(rest) > 0 => result # "no"
        BY <1>2, <1>8
    <2>5. Len(stack'[t]) = n - 1 /\ \A k \in 1..(n - 1) : stack'[t][k] = stack[t][k]
        BY <1>2, <2>2
    <2>4. Shrunk(t)
        BY <1>1, <2>2, <2>5 DEF Shrunk
    <2>6. Len(stack'[t]) > 0 =>
            /\ stack'[t][Len(stack'[t])].at = IF result = "no" THEN "failed" ELSE stack[t][Len(stack'[t])].at
            /\ stack'[t][Len(stack'[t])].written = stack[t][Len(stack'[t])].written
        BY <1>1, <1>2, <2>3, <2>5
    <2> QED
        BY <1>1, <1>6, <1>7, <2>4, <2>5, <2>6 DEF Ended
<1> QED
    BY <1>5, <1>8

\* What Shrunk leaves of a frame.
LEMMA ShrunkKeeps ==
    ASSUME BlockTypes, NEW t \in Thread, Shrunk(t), NEW u \in Thread, NEW k \in Frames(u)'
    PROVE  /\ k \in Frames(u)
           /\ stack[u][k] \in Frame /\ stack'[u][k] \in Frame
           /\ Len(stack'[u]) \in Nat /\ Len(stack[u]) \in Nat
           /\ stack'[u][k].run = stack[u][k].run
           /\ stack'[u][k].core = stack[u][k].core
           /\ stack'[u][k].own = stack[u][k].own
           /\ stack'[u][k].embedded = stack[u][k].embedded
           /\ u # t \/ k < Len(stack'[u]) => stack'[u][k] = stack[u][k]
           /\ u # t => Len(stack'[u]) = Len(stack[u])
    BY DEF BlockTypes, Shrunk, Frames

\* Blocks that were apart are so with one of them moved or gone.
LEMMA ShrunkApart ==
    ASSUME BlockInv, NEW t \in Thread, Shrunk(t)
    PROVE  RunsApart' /\ EmbeddedApart'
<1>0. BlockTypes /\ RunsApart /\ EmbeddedApart
    BY DEF BlockInv
<1>1. ASSUME NEW u \in Thread, NEW v \in Thread, NEW k \in Frames(u)', NEW l \in Frames(v)',
             stack'[u][k].run = stack'[v][l].run
      PROVE  u = v /\ k = l
    BY <1>0, <1>1, ShrunkKeeps DEF RunsApart
<1>2. ASSUME NEW u \in Thread, NEW v \in Thread, NEW k \in Frames(u)', NEW l \in Frames(v)',
             stack'[u][k].core = stack'[v][l].core, stack'[u][k].core \in Trans
      PROVE  /\ stack'[u][k].embedded /\ stack'[v][l].embedded => u = v /\ k = l
             /\ ~ stack'[u][k].embedded /\ ~ stack'[v][l].embedded => u = v
    BY <1>0, <1>2, ShrunkKeeps DEF EmbeddedApart
<1> QED
    BY <1>1, <1>2 DEF RunsApart, EmbeddedApart

\* The blocks stay in order when one goes on.
LEMMA MovedBlock ==
    ASSUME BlockInv, NEW t \in Thread, stack[t] # <<>>,
           NEW place \in {"block", "failed", "commit", "rollback"}, NEW written \in 0..BlockRows,
           Moved(t, place, written), UNCHANGED <<m_mutex, done>>,
           ~ Top(t).own => place \in {"block", "failed"},
           place = "commit" => written = BlockRows,
           Top(t).embedded /\ Top(t).core \in Trans => written = 0 /\ ~ Top(t).own
    PROVE  BlockInv'
<1>0. BlockTypes /\ RunsKnown /\ Placed /\ Locked
    BY DEF BlockInv
<1>1. Shrunk(t) /\ Len(stack'[t]) = Len(stack[t])
    BY DEF Moved
<1>2. BlockTypes'
    BY <1>0, <1>1 DEF BlockTypes, Shrunk
<1>3. RunsKnown'
    BY <1>0, <1>1, ShrunkKeeps DEF RunsKnown
<1>4. Placed'
    <2> SUFFICES ASSUME NEW u \in Thread, NEW k \in Frames(u)'
                 PROVE  /\ k < Len(stack'[u]) => stack'[u][k].at = "block"
                        /\ ~ stack'[u][k].own => stack'[u][k].at \in {"block", "failed"}
                        /\ stack'[u][k].at = "begin" => stack'[u][k].written = 0
                        /\ stack'[u][k].at = "commit" => stack'[u][k].written = BlockRows
        BY DEF Placed
    <2>1. CASE u # t \/ k < Len(stack'[u])
        BY <1>0, <1>1, <2>1, ShrunkKeeps DEF Placed
    <2>2. CASE u = t /\ k = Len(stack'[u])
        BY <1>0, <1>1, <2>2, ShrunkKeeps, TopIsFrame DEF Moved
    <2>3. k =< Len(stack'[u])
        BY DEF Frames
    <2> QED
        BY <1>0, <1>1, <2>1, <2>2, <2>3, ShrunkKeeps DEF Frames
<1>5. Locked'
    <2> SUFFICES ASSUME NEW u \in Thread, NEW k \in Frames(u)',
                        stack'[u][k].embedded, stack'[u][k].core \in Trans
                 PROVE  /\ m_mutex'[stack'[u][k].core] = u
                        /\ stack'[u][k].written = 0
                        /\ ~ Begun(stack'[u][k])
        BY DEF Locked
    <2>1. CASE u # t \/ k < Len(stack'[u])
        BY <1>0, <1>1, <2>1, ShrunkKeeps DEF Locked
    <2>2. CASE u = t /\ k = Len(stack'[u])
        BY <1>0, <1>1, <2>2, ShrunkKeeps, TopIsFrame DEF Moved, Locked, Begun
    <2>3. k =< Len(stack'[u])
        BY DEF Frames
    <2> QED
        BY <1>0, <1>1, <2>1, <2>2, <2>3, ShrunkKeeps DEF Frames
<1> QED
    BY <1>1, <1>2, <1>3, <1>4, <1>5, ShrunkApart DEF BlockInv

\* The blocks stay in order when one returns.
LEMMA EndedBlock ==
    ASSUME BlockInv, NEW t \in Thread, stack[t] # <<>>,
           NEW result \in {"yes", "no"}, Ended(t, result)
    PROVE  BlockInv'
<1>0. BlockTypes /\ RunsKnown /\ Placed /\ Locked /\ RunsApart /\ EmbeddedApart
    BY DEF BlockInv
<1>1. Shrunk(t) /\ Len(stack'[t]) = Len(stack[t]) - 1 /\ Len(done') = Len(done)
    BY DEF Ended
<1>2. BlockTypes'
    BY <1>0, <1>1 DEF BlockTypes, Shrunk, Ended
<1>3. /\ Len(stack[t]) \in Frames(t) /\ Len(stack[t]) \in Nat \ {0}
      /\ Top(t) = stack[t][Len(stack[t])] /\ Top(t) \in Frame
    BY <1>0, TopIsFrame
<1>4. ASSUME NEW u \in Thread, NEW k \in Frames(u)'
      PROVE  /\ k \in Frames(u) /\ (u # t \/ k # Len(stack[t]))
             /\ u = t => k < Len(stack[t])
    BY <1>0, <1>1, <1>3, ShrunkKeeps DEF Frames
<1>5. RunsKnown'
    <2> SUFFICES ASSUME NEW u \in Thread, NEW k \in Frames(u)'
                 PROVE  /\ stack'[u][k].run \in 1..Len(done')
                        /\ done'[stack'[u][k].run] = IF stack'[u][k].own THEN "open" ELSE "joined"
        BY DEF RunsKnown
    <2>1. stack[u][k].run # Top(t).run
        BY <1>0, <1>3, <1>4 DEF RunsApart
    <2>2. /\ stack[u][k].run \in 1..Len(done)
          /\ done[stack[u][k].run] = IF stack[u][k].own THEN "open" ELSE "joined"
        BY <1>0, <1>4 DEF RunsKnown
    <2>3. done'[stack[u][k].run] = done[stack[u][k].run]
        BY <2>1, <2>2 DEF Ended
    <2> QED
        BY <1>0, <1>1, <2>2, <2>3, ShrunkKeeps
<1>6. Placed'
    <2> SUFFICES ASSUME NEW u \in Thread, NEW k \in Frames(u)'
                 PROVE  /\ k < Len(stack'[u]) => stack'[u][k].at = "block"
                        /\ ~ stack'[u][k].own => stack'[u][k].at \in {"block", "failed"}
                        /\ stack'[u][k].at = "begin" => stack'[u][k].written = 0
                        /\ stack'[u][k].at = "commit" => stack'[u][k].written = BlockRows
        BY DEF Placed
    <2>1. CASE u # t
        BY <1>0, <1>1, <2>1, ShrunkKeeps DEF Placed
    <2>2. CASE u = t
        <3>1. stack[u][k].at = "block"
            BY <1>0, <1>4, <2>2 DEF Placed
        <3>2. CASE k < Len(stack'[u])
            BY <1>0, <1>1, <3>1, <3>2, ShrunkKeeps
        <3>3. CASE k = Len(stack'[u])
            <4>1. Len(stack'[t]) > 0
                BY <1>1, <1>3, <2>2, <3>3 DEF Frames
            <4>2. stack'[u][k].at \in {"block", "failed"}
                BY <2>2, <3>1, <3>3, <4>1 DEF Ended
            <4> QED
                BY <3>3, <4>2, <1>1, <1>3, <2>2
        <3>4. k \in Nat /\ k =< Len(stack'[u])
            BY DEF Frames
        <3> QED
            BY <1>1, <1>3, <2>2, <3>2, <3>3, <3>4
    <2> QED
        BY <2>1, <2>2
<1>7. Locked'
    <2> SUFFICES ASSUME NEW u \in Thread, NEW k \in Frames(u)',
                        stack'[u][k].embedded, stack'[u][k].core \in Trans
                 PROVE  /\ m_mutex'[stack'[u][k].core] = u
                        /\ stack'[u][k].written = 0
                        /\ ~ Begun(stack'[u][k])
        BY DEF Locked
    <2>1. stack[u][k].embedded /\ stack[u][k].core \in Trans /\ stack[u][k].core = stack'[u][k].core
        BY <1>0, <1>1, ShrunkKeeps
    <2>2. /\ m_mutex[stack[u][k].core] = u
          /\ stack[u][k].written = 0
          /\ ~ Begun(stack[u][k])
        BY <1>0, <1>4, <2>1 DEF Locked
    <2>3. ~ (Top(t).embedded /\ stack[u][k].core = Top(t).core)
        BY <1>0, <1>3, <1>4, <2>1 DEF EmbeddedApart
    <2>4. m_mutex'[stack[u][k].core] = m_mutex[stack[u][k].core]
        BY <2>1, <2>3 DEF Ended
    <2>5. CASE u # t \/ k < Len(stack'[u])
        BY <1>0, <1>1, <2>1, <2>2, <2>4, <2>5, ShrunkKeeps
    <2>6. CASE u = t /\ k = Len(stack'[u])
        <3>1. Len(stack'[t]) > 0
            BY <1>1, <1>3, <2>6 DEF Frames
        <3>2. stack'[u][k].written = stack[u][k].written
            BY <2>6, <3>1 DEF Ended
        <3>3. stack[u][k].at = "block"
            BY <1>0, <1>4, <2>6 DEF Placed
        <3>4. stack'[u][k].own = stack[u][k].own
            BY <1>0, <1>1, ShrunkKeeps
        <3> QED
            BY <2>1, <2>2, <2>4, <3>2, <3>3, <3>4 DEF Begun
    <2>7. k \in Nat /\ k =< Len(stack'[u]) /\ Len(stack'[u]) \in Nat
        BY <1>0, <1>1, ShrunkKeeps DEF Frames
    <2> QED
        BY <2>5, <2>6, <2>7
<1> QED
    BY <1>1, <1>2, <1>5, <1>6, <1>7, ShrunkApart DEF BlockInv

\* A new innermost block.
Pushed(t, core, own, embedded) ==
    /\ stack' \in [Thread -> Seq(Frame)]
    /\ \A u \in Thread \ {t} : stack'[u] = stack[u]
    /\ Len(stack'[t]) = Len(stack[t]) + 1
    /\ \A k \in Frames(t) : stack'[t][k] = stack[t][k]
    /\ stack'[t][Len(stack'[t])] =
          [run |-> Len(done) + 1, core |-> core, own |-> own, embedded |-> embedded,
           at |-> IF own THEN "begin" ELSE "block", written |-> 0]
    /\ done' \in Seq({"open", "joined", "yes", "no"})
    /\ Len(done') = Len(done) + 1
    /\ \A i \in 1..Len(done) : done'[i] = done[i]
    /\ done'[Len(done) + 1] = IF own THEN "open" ELSE "joined"

\* A thread enters a block.
LEMMA PushPushes ==
    ASSUME BlockTypes, NEW t \in Thread, NEW core \in Core, NEW own \in BOOLEAN,
           NEW embedded \in BOOLEAN, Len(done) < MaxRuns, Push(t, core, own, embedded)
    PROVE  Pushed(t, core, own, embedded)
<1> DEFINE f == [run |-> Len(done) + 1, core |-> core, own |-> own, embedded |-> embedded,
                 at |-> IF own THEN "begin" ELSE "block", written |-> 0]
<1>0. stack[t] \in Seq(Frame) /\ done \in Seq({"open", "joined", "yes", "no"})
    BY DEF BlockTypes
<1>1. MaxRuns \in Nat /\ BlockRows \in Nat
    BY CoreAssumption
<1>2. f \in Frame
    <2>1. Len(done) + 1 \in Run
        BY <1>0, <1>1 DEF Run
    <2> QED
        BY <1>1, <2>1 DEF Frame
<1>3. stack' = [stack EXCEPT ![t] = Append(stack[t], f)]
    BY DEF Push
<1>4. /\ Append(stack[t], f) \in Seq(Frame)
      /\ Len(Append(stack[t], f)) = Len(stack[t]) + 1
      /\ \A k \in 1..Len(stack[t]) : Append(stack[t], f)[k] = stack[t][k]
      /\ Append(stack[t], f)[Len(stack[t]) + 1] = f
    <2> HIDE DEF f
    <2> QED
        BY <1>0, <1>2
<1>5. stack'[t] = Append(stack[t], f) /\ stack' \in [Thread -> Seq(Frame)] /\ \A u \in Thread \ {t} : stack'[u] = stack[u]
    <2> HIDE DEF f
    <2> QED
        BY <1>3, <1>4 DEF BlockTypes
<1>6. /\ done' \in Seq({"open", "joined", "yes", "no"})
      /\ Len(done') = Len(done) + 1
      /\ \A i \in 1..Len(done) : done'[i] = done[i]
      /\ done'[Len(done) + 1] = IF own THEN "open" ELSE "joined"
    BY <1>0 DEF Push
<1>7. stack'[t][Len(stack'[t])] = f
    <2> HIDE DEF f
    <2> QED
        BY <1>4, <1>5
<1> QED
    BY <1>4, <1>5, <1>6, <1>7 DEF Pushed, Frames

\* The blocks of a thread that has entered one: those it had, and the new one.
LEMMA PushedKeeps ==
    ASSUME BlockTypes, NEW t \in Thread, NEW core \in Core, NEW own \in BOOLEAN,
           NEW embedded \in BOOLEAN, Pushed(t, core, own, embedded),
           NEW u \in Thread, NEW k \in Frames(u)'
    PROVE  \/ k \in Frames(u) /\ stack'[u][k] = stack[u][k]
           \/ /\ u = t /\ k = Len(stack[t]) + 1 /\ k = Len(stack'[t])
              /\ stack'[u][k].run = Len(done) + 1
              /\ stack'[u][k].core = core
              /\ stack'[u][k].own = own
              /\ stack'[u][k].embedded = embedded
              /\ stack'[u][k].at = IF own THEN "begin" ELSE "block"
              /\ stack'[u][k].written = 0
<1>1. stack[t] \in Seq(Frame) /\ Len(stack[t]) \in Nat
    BY DEF BlockTypes
<1>2. CASE u # t
    BY <1>2 DEF Pushed, Frames
<1>3. CASE u = t /\ k \in Frames(u)
    BY <1>3 DEF Pushed
<1>4. CASE u = t /\ k \notin Frames(u)
    <2>1. k = Len(stack[t]) + 1 /\ k = Len(stack'[t])
        BY <1>1, <1>4 DEF Pushed, Frames
    <2> QED
        BY <1>4, <2>1 DEF Pushed
<1> QED
    BY <1>2, <1>3, <1>4

\* The blocks stay in order when one is entered.
LEMMA PushedBlock ==
    ASSUME BlockInv, NEW t \in Thread, NEW core \in Core, NEW own \in BOOLEAN,
           NEW embedded \in BOOLEAN, Pushed(t, core, own, embedded),
           stack[t] = <<>> \/ At(t, "block"),
           own \/ embedded,
           embedded => CanLock(core, t),
           ~ embedded => Synchronized(core, t),
           m_mutex' \in [Trans -> Thread \cup {None}],
           \A x \in Trans : m_mutex'[x] = IF embedded /\ x = core THEN t ELSE m_mutex[x]
    PROVE  BlockInv'
<1>0. BlockTypes /\ RunsKnown /\ Placed /\ Locked /\ RunsApart /\ EmbeddedApart
    BY DEF BlockInv
<1>1. BlockTypes'
    BY <1>0 DEF BlockTypes, Pushed
<1>2. Len(done) \in Nat /\ done \in Seq({"open", "joined", "yes", "no"}) /\ Len(stack[t]) \in Nat
    BY <1>0 DEF BlockTypes
<1>3. RunsKnown'
    <2> SUFFICES ASSUME NEW u \in Thread, NEW k \in Frames(u)'
                 PROVE  /\ stack'[u][k].run \in 1..Len(done')
                        /\ done'[stack'[u][k].run] = IF stack'[u][k].own THEN "open" ELSE "joined"
        BY DEF RunsKnown
    <2>1. CASE k \in Frames(u) /\ stack'[u][k] = stack[u][k]
        BY <1>0, <1>2, <2>1 DEF RunsKnown, Pushed
    <2>2. CASE stack'[u][k].run = Len(done) + 1 /\ stack'[u][k].own = own
        BY <1>2, <2>2 DEF Pushed
    <2> QED
        BY <1>0, <2>1, <2>2, PushedKeeps
<1>4. Placed'
    <2> SUFFICES ASSUME NEW u \in Thread, NEW k \in Frames(u)'
                 PROVE  /\ k < Len(stack'[u]) => stack'[u][k].at = "block"
                        /\ ~ stack'[u][k].own => stack'[u][k].at \in {"block", "failed"}
                        /\ stack'[u][k].at = "begin" => stack'[u][k].written = 0
                        /\ stack'[u][k].at = "commit" => stack'[u][k].written = BlockRows
        BY DEF Placed
    <2>1. CASE k \in Frames(u) /\ stack'[u][k] = stack[u][k]
        <3>1. k < Len(stack'[u]) => stack[u][k].at = "block"
            <4>1. CASE u # t
                BY <1>0, <2>1, <4>1 DEF Placed, Pushed
            <4>2. CASE u = t /\ k < Len(stack[t])
                BY <1>0, <2>1, <4>2 DEF Placed
            <4>3. CASE u = t /\ k = Len(stack[t])
                <5>1. stack[t] # <<>>
                    BY <2>1, <4>3 DEF Frames
                <5> QED
                    BY <4>3, <5>1 DEF At, Top
            <4> QED
                BY <1>2, <2>1, <4>1, <4>2, <4>3 DEF Frames
        <3> QED
            BY <1>0, <2>1, <3>1 DEF Placed
    <2>2. CASE k = Len(stack'[u]) /\ stack'[u][k].at = (IF own THEN "begin" ELSE "block")
               /\ stack'[u][k].written = 0 /\ stack'[u][k].own = own
        <3>1. Len(stack'[u]) \in Nat
            BY <1>1 DEF BlockTypes
        <3> QED
            BY <2>2, <3>1
    <2> QED
        BY <1>0, <2>1, <2>2, PushedKeeps
<1>8. ASSUME NEW u \in Thread, NEW k \in Frames(u)',
             ~ (k \in Frames(u) /\ stack'[u][k] = stack[u][k])
      PROVE  /\ u = t
             /\ stack'[u][k].core = core
             /\ stack'[u][k].own = own
             /\ stack'[u][k].embedded = embedded
             /\ stack'[u][k].at = IF own THEN "begin" ELSE "block"
             /\ stack'[u][k].written = 0
    BY <1>0, <1>8, PushedKeeps
<1>5. Locked'
    <2> SUFFICES ASSUME NEW u \in Thread, NEW k \in Frames(u)',
                        stack'[u][k].embedded, stack'[u][k].core \in Trans
                 PROVE  /\ m_mutex'[stack'[u][k].core] = u
                        /\ stack'[u][k].written = 0
                        /\ ~ Begun(stack'[u][k])
        BY DEF Locked
    <2>1. CASE k \in Frames(u) /\ stack'[u][k] = stack[u][k]
        <3>1. m_mutex[stack[u][k].core] = u /\ stack[u][k].written = 0 /\ ~ Begun(stack[u][k])
            BY <1>0, <2>1 DEF Locked
        <3>2. ~ (embedded /\ stack[u][k].core = core)
            BY <2>1, <3>1, NoneIsNone DEF CanLock
        <3> QED
            BY <2>1, <3>1, <3>2
    <2>2. CASE ~ (k \in Frames(u) /\ stack'[u][k] = stack[u][k])
        <3>1. /\ u = t
              /\ stack'[u][k].core = core
              /\ stack'[u][k].own = own
              /\ stack'[u][k].embedded = embedded
              /\ stack'[u][k].at = IF own THEN "begin" ELSE "block"
              /\ stack'[u][k].written = 0
            BY <1>8, <2>2
        <3>2. embedded /\ core \in Trans
            BY <3>1
        <3>3. m_mutex'[core] = t
            BY <3>2
        <3>4. stack'[u][k].at = "begin" \/ ~ stack'[u][k].own
            BY <3>1
        <3>5. ~ Begun(stack'[u][k])
            BY <3>4 DEF Begun
        <3> QED
            BY <3>1, <3>3, <3>5
    <2> QED
        BY <2>1, <2>2
<1>6. RunsApart'
    <2> SUFFICES ASSUME NEW u \in Thread, NEW v \in Thread, NEW k \in Frames(u)', NEW l \in Frames(v)',
                        stack'[u][k].run = stack'[v][l].run
                 PROVE  u = v /\ k = l
        BY DEF RunsApart
    <2>1. ASSUME NEW w \in Thread, NEW i \in Frames(w)
          PROVE  stack[w][i].run # Len(done) + 1
        BY <1>0, <1>2 DEF RunsKnown
    <2> QED
        BY <1>0, <2>1, PushedKeeps DEF RunsApart
<1>7. EmbeddedApart'
    <2>0. ASSUME NEW w \in Thread, NEW i \in Frames(w), stack[w][i].core = core, core \in Trans
          PROVE  /\ ~ (stack[w][i].embedded /\ embedded)
                 /\ ~ stack[w][i].embedded /\ ~ embedded => w = t
        <3>1. CASE embedded
            BY <1>0, <2>0, <3>1, NoneIsNone DEF Locked, CanLock
        <3>2. CASE ~ embedded /\ w # t
            <4>1. i \in DOMAIN stack[w]
                BY <1>0 DEF BlockTypes, Frames
            <4> QED
                BY <2>0, <3>2, <4>1, CoreAssumption DEF Synchronized
        <3> QED
            BY <3>1, <3>2
    <2> SUFFICES ASSUME NEW u \in Thread, NEW v \in Thread, NEW k \in Frames(u)', NEW l \in Frames(v)',
                        stack'[u][k].core = stack'[v][l].core, stack'[u][k].core \in Trans
                 PROVE  /\ stack'[u][k].embedded /\ stack'[v][l].embedded => u = v /\ k = l
                        /\ ~ stack'[u][k].embedded /\ ~ stack'[v][l].embedded => u = v
        BY DEF EmbeddedApart
    <2>1. CASE /\ k \in Frames(u) /\ stack'[u][k] = stack[u][k]
               /\ l \in Frames(v) /\ stack'[v][l] = stack[v][l]
        BY <1>0, <2>1 DEF EmbeddedApart
    <2>2. CASE /\ k \in Frames(u) /\ stack'[u][k] = stack[u][k]
               /\ v = t /\ stack'[v][l].core = core /\ stack'[v][l].embedded = embedded
        BY <2>0, <2>2
    <2>3. CASE /\ l \in Frames(v) /\ stack'[v][l] = stack[v][l]
               /\ u = t /\ stack'[u][k].core = core /\ stack'[u][k].embedded = embedded
        BY <2>0, <2>3
    <2>4. CASE u = t /\ v = t /\ k = Len(stack[t]) + 1 /\ l = Len(stack[t]) + 1
        BY <2>4
    <2> QED
        BY <1>0, <2>1, <2>2, <2>3, <2>4, PushedKeeps
<1> QED
    BY <1>1, <1>3, <1>4, <1>5, <1>6, <1>7 DEF BlockInv

-----------------------------------------------------------------------------
(* The rows                                                                *)

\* The thread's innermost block has failed.  Until it has returned, sqlite may
\* have rolled back what the blocks around it have written.
Doomed(t) == Top(t).at \in {"failed", "rollback"}

\* A block that has begun has a handle, and so has every Transaction in use.
HasHandle ==
    \A t \in Thread : \A k \in Frames(t) :
        /\ stack[t][k].core \in Trans => trans[stack[t][k].core].m_handle # None
        /\ Begun(stack[t][k]) => MyHandle(stack[t][k].core, t) # None

\* Of a thread's blocks on one core, one has begun the transaction.
BegunApart ==
    \A t \in Thread : \A k, l \in Frames(t) :
        /\ stack[t][k].core = stack[t][l].core
        /\ Begun(stack[t][k])
        /\ Begun(stack[t][l])
        => k = l

\* Rows that are not committed are of a run that has joined or returned YES,
\* or of a block that has begun the transaction they are in.
RowsPending ==
    \A c \in Conn : \A r \in conn[c].rows :
        /\ r[1] \in 1..Len(done)
        /\ done[r[1]] # "no"
        /\ done[r[1]] = "open" =>
              \E t \in Thread : \E k \in Frames(t) :
                  /\ stack[t][k].run = r[1]
                  /\ Begun(stack[t][k])
                  /\ MyHandle(stack[t][k].core, t) = c

\* A block that has begun, and the blocks in it have not failed, has its
\* transaction still open and all it wrote in it.
LiveHasRows ==
    \A t \in Thread : \A k \in Frames(t) :
        stack[t][k].own /\ stack[t][k].at \in {"block", "commit"} =>
            \/ Doomed(t)
            \/ /\ conn[MyHandle(stack[t][k].core, t)].tx
               /\ \A n \in 1..stack[t][k].written :
                    <<stack[t][k].run, n>> \in conn[MyHandle(stack[t][k].core, t)].rows

\* Rows are of runs.
RowsKnown == \A r \in db : r[1] \in 1..Len(done)

\* The third part of the invariant: where the rows of each block are.  It is
\* what makes AllOrNothing inductive: COMMIT adds the rows of a connection,
\* and they are all of a block that has written everything, and of no other
\* block that is open.
RowsInv ==
    /\ HasHandle
    /\ BegunApart
    /\ RowsPending
    /\ LiveHasRows
    /\ RowsKnown
    /\ AllOrNothing

\* The inductive invariant.
IInv == HandleInv /\ BlockInv /\ RowsInv

\* The handle of a core after the step.
NextHandle(core, t) == IF core = "database" THEN threaded'[t] ELSE trans'[core].m_handle

\* The other callers keep their handles.
LEMMA OthersKeep ==
    ASSUME HandleTypes, NEW t \in Thread, NEW core \in Core, Others(core, t),
           NEW u \in Thread, NEW d \in Core,
           u # t \/ d # core \/ core \in Trans \/ threaded'[t] = threaded[t]
    PROVE  /\ NextHandle(d, u) = MyHandle(d, u)
           /\ d \in Trans => trans'[d].m_handle = trans[d].m_handle
<1>1. CASE d = "database"
    BY <1>1, CoreAssumption DEF Others, NextHandle, MyHandle
<1>2. CASE d \in Trans
    BY <1>2, CoreAssumption DEF Others, NextHandle, MyHandle
<1> QED
    BY <1>1, <1>2 DEF Core

\* The handle that a caller's statement gets is that of no other begun block.
LEMMA Mine ==
    ASSUME IInv, NEW t \in Thread, NEW core \in Core, Exists(core), NEW c \in HandleOf(core, t),
           core \in Trans =>
               \A w \in Thread \ {t} : \A i \in Frames(w) :
                   stack[w][i].core = core => stack[w][i].embedded,
           NEW u \in Thread, NEW k \in Frames(u),
           Begun(stack[u][k]), MyHandle(stack[u][k].core, u) = c
    PROVE  u = t /\ stack[u][k].core = core
<1>0. HandleTypes /\ HandlesApart /\ HasHandle /\ Locked /\ BlockTypes
    BY DEF IInv, HandleInv, RowsInv, BlockInv
<1>1. /\ c \in Conn
      /\ core \in Trans => c = trans[core].m_handle
      /\ core = "database" /\ threaded[t] # None => c = threaded[t]
      /\ core = "database" /\ threaded[t] = None => c \notin Held
    BY <1>0, HandleOfFacts
<1>2. c # None
    BY <1>1, NoneIsNone
<1>3. stack[u][k].core \in Core
    BY <1>0, FrameTyped
<1>4. core # "database" => core \in Trans
    BY DEF Core
<1>5. CASE stack[u][k].core = "database"
    <2>1. c = threaded[u]
        BY <1>5 DEF MyHandle
    <2> QED
        BY <1>0, <1>1, <1>2, <1>4, <1>5, <2>1 DEF HandlesApart, Held
<1>6. CASE stack[u][k].core \in Trans
    <2>1. c = trans[stack[u][k].core].m_handle
        BY <1>6, CoreAssumption DEF MyHandle
    <2>2. core \in Trans /\ stack[u][k].core = core
        BY <1>0, <1>1, <1>2, <1>4, <1>6, <2>1 DEF HandlesApart, Held
    <2>3. ~ stack[u][k].embedded
        BY <1>0, <1>6 DEF Locked
    <2> QED
        BY <2>2, <2>3
<1> QED
    BY <1>3, <1>5, <1>6 DEF Core

\* The handle that a block's statement gets is that of no other begun block.
LEMMA MineTop ==
    ASSUME IInv, NEW t \in Thread, stack[t] # <<>>, CanLock(Top(t).core, t),
           NEW c \in HandleOf(Top(t).core, t),
           NEW u \in Thread, NEW k \in Frames(u),
           Begun(stack[u][k]), MyHandle(stack[u][k].core, u) = c
    PROVE  /\ u = t
           /\ stack[u][k].core = Top(t).core
           /\ Begun(Top(t)) => k = Len(stack[t])
<1>0. BlockTypes /\ Locked /\ EmbeddedApart /\ HasHandle /\ BegunApart
    BY DEF IInv, BlockInv, RowsInv
<1>1. /\ Len(stack[t]) \in Frames(t)
      /\ Top(t) = stack[t][Len(stack[t])]
      /\ Top(t).core \in Core
    BY <1>0, TopIsFrame, FrameTyped
<1>2. Exists(Top(t).core)
    BY <1>0, <1>1 DEF HasHandle, Exists
<1>3. ASSUME Top(t).core \in Trans, NEW w \in Thread \ {t}, NEW i \in Frames(w),
             stack[w][i].core = Top(t).core
      PROVE  stack[w][i].embedded
    <2>1. ~ Top(t).embedded
        BY <1>0, <1>1, <1>3, NoneIsNone DEF Locked, CanLock
    <2> QED
        BY <1>0, <1>1, <1>3, <2>1 DEF EmbeddedApart
<1>4. u = t /\ stack[u][k].core = Top(t).core
    BY <1>1, <1>2, <1>3, Mine
<1> QED
    BY <1>0, <1>1, <1>4 DEF BegunApart

\* A block that has begun gets its own handle.
LEMMA TopHandle ==
    ASSUME IInv, NEW t \in Thread, stack[t] # <<>>
    PROVE  /\ Top(t).core \in Core
           /\ Exists(Top(t).core)
           /\ \A c \in HandleOf(Top(t).core, t) :
                 /\ c \in Conn
                 /\ Begun(Top(t)) \/ Top(t).core \in Trans => c = MyHandle(Top(t).core, t)
           /\ Begun(Top(t)) => MyHandle(Top(t).core, t) # None
<1>0. BlockTypes /\ HandleTypes /\ HasHandle
    BY DEF IInv, BlockInv, RowsInv, HandleInv
<1>1. /\ Len(stack[t]) \in Frames(t)
      /\ Top(t) = stack[t][Len(stack[t])]
      /\ Top(t).core \in Core
    BY <1>0, TopIsFrame, FrameTyped
<1>2. Exists(Top(t).core)
    BY <1>0, <1>1 DEF HasHandle, Exists
<1>3. Begun(Top(t)) => MyHandle(Top(t).core, t) # None
    BY <1>0, <1>1 DEF HasHandle
<1> QED
    BY <1>0, <1>1, <1>2, <1>3, HandleOfFacts, CoreAssumption DEF MyHandle, Core

\* A step in which no block begins, and which only takes away rows.
LEMMA SteadyRows ==
    ASSUME IInv, NEW t \in Thread, Shrunk(t), Len(done') = Len(done),
           \A x \in Trans : trans'[x].m_handle = trans[x].m_handle,
           \A u \in Thread : \A k \in Frames(u)' :
               Begun(stack'[u][k]) =>
                   /\ Begun(stack[u][k])
                   /\ NextHandle(stack[u][k].core, u) = MyHandle(stack[u][k].core, u),
           \A c \in Conn : \A r \in conn'[c].rows :
               r \in conn[c].rows /\ done'[r[1]] = done[r[1]],
           \A u \in Thread : \A k \in Frames(u) :
               Begun(stack[u][k]) =>
                   \/ k \in Frames(u)' /\ Begun(stack'[u][k])
                   \/ done'[stack[u][k].run] # "open"
    PROVE  HasHandle' /\ BegunApart' /\ RowsPending'
<1>0. BlockTypes /\ HasHandle /\ BegunApart /\ RowsPending
    BY DEF IInv, BlockInv, RowsInv
<1>1. ASSUME NEW u \in Thread, NEW k \in Frames(u)'
      PROVE  /\ stack'[u][k].core \in Trans => trans'[stack'[u][k].core].m_handle # None
             /\ Begun(stack'[u][k]) => NextHandle(stack'[u][k].core, u) # None
    BY <1>0, ShrunkKeeps DEF HasHandle
<1>2. HasHandle'
    BY <1>1 DEF HasHandle, NextHandle, MyHandle
<1>3. ASSUME NEW u \in Thread, NEW k \in Frames(u)', NEW l \in Frames(u)',
             stack'[u][k].core = stack'[u][l].core, Begun(stack'[u][k]), Begun(stack'[u][l])
      PROVE  k = l
    BY <1>0, <1>3, ShrunkKeeps DEF BegunApart
<1>4. BegunApart'
    BY <1>3 DEF BegunApart
<1>5. ASSUME NEW c \in Conn, NEW r \in conn'[c].rows, done'[r[1]] = "open"
      PROVE  \E u \in Thread : \E k \in Frames(u)' :
                  /\ stack'[u][k].run = r[1]
                  /\ Begun(stack'[u][k])
                  /\ NextHandle(stack'[u][k].core, u) = c
    <2>0. PICK u \in Thread :
              \E k \in Frames(u) :
                  stack[u][k].run = r[1] /\ Begun(stack[u][k]) /\ MyHandle(stack[u][k].core, u) = c
        BY <1>0, <1>5 DEF RowsPending
    <2>1. PICK k \in Frames(u) :
              stack[u][k].run = r[1] /\ Begun(stack[u][k]) /\ MyHandle(stack[u][k].core, u) = c
        BY <2>0
    <2>2. k \in Frames(u)' /\ Begun(stack'[u][k])
        BY <1>5, <2>1
    <2> QED
        BY <1>0, <2>1, <2>2, ShrunkKeeps
<1>6. RowsPending'
    <2> SUFFICES ASSUME NEW c \in Conn, NEW r \in conn'[c].rows
                 PROVE  /\ r[1] \in 1..Len(done')
                        /\ done'[r[1]] # "no"
                        /\ done'[r[1]] = "open" =>
                              \E u \in Thread : \E k \in Frames(u)' :
                                  /\ stack'[u][k].run = r[1]
                                  /\ Begun(stack'[u][k])
                                  /\ NextHandle(stack'[u][k].core, u) = c
        BY DEF RowsPending, NextHandle, MyHandle
    <2>1. r[1] \in 1..Len(done) /\ done[r[1]] # "no"
        BY <1>0 DEF RowsPending
    <2> QED
        BY <1>5, <2>1
<1> QED
    BY <1>2, <1>4, <1>6

\* db and done keep what they say.
LEMMA SameAllOrNothing ==
    ASSUME IInv, db' = db, Len(done') = Len(done), BlockTypes', HandleTypes',
           \A i \in 1..Len(done) : done'[i] = done[i] \/ (done[i] = "open" /\ done'[i] = "no")
    PROVE  RowsKnown' /\ AllOrNothing'
<1>0. RowsKnown /\ AllOrNothing /\ BlockTypes
    BY DEF IInv, RowsInv, BlockInv
<1>1. DOMAIN done = 1..Len(done) /\ DOMAIN done' = 1..Len(done)
    BY <1>0 DEF BlockTypes
<1>2. RowsKnown'
    BY <1>0 DEF RowsKnown
<1>3. AllOrNothing'
    BY <1>0, <1>1 DEF AllOrNothing, RowsOf
<1> QED
    BY <1>2, <1>3

\* A block fails: it goes on to its end or its rollback, and at most the
\* transaction it wrote into is over.
LEMMA FailRows ==
    ASSUME IInv, NEW t \in Thread, stack[t] # <<>>, Begun(Top(t)) \/ ~ Top(t).own,
           NEW place \in {"failed", "rollback"}, Moved(t, place, Top(t).written),
           BlockInv', HandleInv', UNCHANGED <<done, db, threaded>>,
           Others(Top(t).core, t),
           \/ conn' = conn
           \/ /\ CanLock(Top(t).core, t)
              /\ \E c \in HandleOf(Top(t).core, t) :
                    Ran(c) /\ conn'[c].rows \subseteq conn[c].rows
    PROVE  RowsInv'
<1>0. /\ BlockTypes /\ BlockTypes' /\ HandleTypes /\ HandleTypes' /\ HasHandle
      /\ BegunApart /\ RowsPending /\ LiveHasRows
    BY DEF IInv, BlockInv, RowsInv, HandleInv
<1>1. /\ Shrunk(t) /\ Len(stack'[t]) = Len(stack[t]) /\ Top(t) = stack[t][Len(stack[t])]
      /\ Len(stack[t]) \in Frames(t) /\ Len(stack[t]) \in Nat
    BY <1>0, TopIsFrame DEF Moved
<1>2. Top(t).core \in Core
    BY TopHandle
<1>3. ASSUME NEW u \in Thread, NEW d \in Core
      PROVE  NextHandle(d, u) = MyHandle(d, u)
    BY <1>0, <1>2, OthersKeep
<1>4. ASSUME NEW u \in Thread, NEW k \in Frames(u)
      PROVE  /\ k \in Frames(u)'
             /\ Begun(stack'[u][k]) <=> Begun(stack[u][k])
    <2>1. k \in Frames(u)'
        BY <1>0, <1>1 DEF Frames, Shrunk
    <2>2. CASE u # t \/ k # Len(stack[t])
        BY <1>0, <1>1, <2>1, <2>2, ShrunkKeeps DEF Frames
    <2>3. CASE u = t /\ k = Len(stack[t])
        BY <1>0, <1>1, <2>1, <2>3, ShrunkKeeps DEF Moved, Begun
    <2> QED
        BY <2>1, <2>2, <2>3
<1>5. ASSUME NEW c \in Conn
      PROVE  conn'[c].rows \subseteq conn[c].rows
    BY <1>2, TopHandle DEF Ran
<1>6. HasHandle' /\ BegunApart' /\ RowsPending'
    <2>1. ASSUME NEW u \in Thread, NEW k \in Frames(u)', Begun(stack'[u][k])
          PROVE  /\ Begun(stack[u][k])
                 /\ NextHandle(stack[u][k].core, u) = MyHandle(stack[u][k].core, u)
        BY <1>0, <1>1, <1>3, <1>4, <2>1, ShrunkKeeps, FrameTyped
    <2>2. \A x \in Trans : trans'[x].m_handle = trans[x].m_handle
        BY DEF Others
    <2> QED
        BY <1>1, <1>4, <1>5, <2>1, <2>2, SteadyRows
<1>7. LiveHasRows'
    <2> SUFFICES ASSUME NEW u \in Thread, NEW k \in Frames(u)',
                        stack'[u][k].own, stack'[u][k].at \in {"block", "commit"},
                        u # t
                 PROVE  \/ Doomed(u)
                        \/ /\ conn'[NextHandle(stack'[u][k].core, u)].tx
                           /\ \A n \in 1..stack'[u][k].written :
                                <<stack'[u][k].run, n>> \in conn'[NextHandle(stack'[u][k].core, u)].rows
        <3>1. stack'[t][Len(stack'[t])].at \in {"failed", "rollback"}
            BY <1>1 DEF Moved
        <3>2. Doomed(t)'
            BY <3>1 DEF Doomed, Top
        <3>3. ASSUME NEW u \in Thread \ {t} PROVE Doomed(u)' <=> Doomed(u)
            BY <1>1 DEF Doomed, Top, Shrunk
        <3> QED
            BY <3>2, <3>3 DEF LiveHasRows, NextHandle, MyHandle
    <2>1. k \in Frames(u) /\ stack'[u][k] = stack[u][k] /\ stack[u][k].core \in Core
        BY <1>0, <1>1, ShrunkKeeps, FrameTyped
    <2>2. \/ Doomed(u)
          \/ /\ conn[MyHandle(stack[u][k].core, u)].tx
             /\ \A n \in 1..stack[u][k].written :
                  <<stack[u][k].run, n>> \in conn[MyHandle(stack[u][k].core, u)].rows
        BY <1>0, <2>1 DEF LiveHasRows
    <2>3. MyHandle(stack[u][k].core, u) \in Conn
        <3>1. Begun(stack[u][k])
            BY <2>1 DEF Begun
        <3>2. MyHandle(stack[u][k].core, u) # None
            BY <1>0, <2>1, <3>1 DEF HasHandle
        <3> QED
            BY <1>0, <2>1, <3>2, CoreAssumption DEF MyHandle, HandleTypes, Core
    <2>4. conn'[MyHandle(stack[u][k].core, u)] = conn[MyHandle(stack[u][k].core, u)]
        <3>1. Begun(stack[u][k])
            BY <2>1 DEF Begun
        <3> QED
            BY <2>1, <2>3, <3>1, MineTop DEF Ran
    <2> QED
        BY <1>3, <2>1, <2>2, <2>4
<1>8. RowsKnown' /\ AllOrNothing'
    BY <1>0, SameAllOrNothing
<1> QED
    BY <1>6, <1>7, <1>8 DEF RowsInv

\* A block that has begun has a connection.
LEMMA BegunHandle ==
    ASSUME IInv, NEW u \in Thread, NEW k \in Frames(u), Begun(stack[u][k])
    PROVE  MyHandle(stack[u][k].core, u) \in Conn
<1>0. BlockTypes /\ HandleTypes /\ HasHandle
    BY DEF IInv, BlockInv, RowsInv, HandleInv
<1>1. MyHandle(stack[u][k].core, u) # None
    BY <1>0 DEF HasHandle
<1> QED
    BY <1>0, <1>1, FrameTyped, CoreAssumption DEF MyHandle, HandleTypes, Core

\* The blocks of other threads keep their rows if their handle is as it was.
LEMMA OthersLive ==
    ASSUME IInv, NEW t \in Thread, Shrunk(t), NEW u \in Thread \ {t}, NEW k \in Frames(u)',
           stack'[u][k].own, stack'[u][k].at \in {"block", "commit"},
           NextHandle(stack[u][k].core, u) = MyHandle(stack[u][k].core, u),
           conn'[MyHandle(stack[u][k].core, u)] = conn[MyHandle(stack[u][k].core, u)]
    PROVE  \/ Doomed(u)'
           \/ /\ conn'[NextHandle(stack'[u][k].core, u)].tx
              /\ \A n \in 1..stack'[u][k].written :
                   <<stack'[u][k].run, n>> \in conn'[NextHandle(stack'[u][k].core, u)].rows
<1>0. BlockTypes /\ LiveHasRows
    BY DEF IInv, BlockInv, RowsInv
<1>1. stack'[u] = stack[u] /\ k \in Frames(u)
    BY <1>0, ShrunkKeeps DEF Shrunk
<1>2. Doomed(u)' <=> Doomed(u)
    BY <1>1 DEF Doomed, Top
<1> QED
    BY <1>0, <1>1, <1>2 DEF LiveHasRows

\* A block begins: its transaction is open, and empty of its rows.
LEMMA BeginRows ==
    ASSUME IInv, NEW t \in Thread, At(t, "begin"), Begin(Top(t).core, t, TRUE),
           Moved(t, "block", Top(t).written), BlockInv', UNCHANGED done
    PROVE  RowsInv'
<1>0. /\ BlockTypes /\ BlockTypes' /\ HandleTypes /\ HasHandle /\ Placed
      /\ BegunApart /\ RowsPending /\ LiveHasRows /\ HandleInv
    BY DEF IInv, BlockInv, RowsInv, HandleInv
<1>1. /\ stack[t] # <<>> /\ Top(t).at = "begin"
      /\ Shrunk(t) /\ Len(stack'[t]) = Len(stack[t]) /\ Top(t) = stack[t][Len(stack[t])]
      /\ Len(stack[t]) \in Frames(t) /\ Len(stack[t]) \in Nat
    BY <1>0, TopIsFrame DEF Moved, At
<1>2. Top(t).core \in Core /\ Exists(Top(t).core)
    BY <1>1, TopHandle
<1>3. /\ HandleInv' /\ Others(Top(t).core, t) /\ db' = db
      /\ \E c \in HandleOf(Top(t).core, t) :
            /\ Ran(c)
            /\ ~ conn[c].tx
            /\ conn'[c].tx
            /\ conn'[c].rows = conn[c].rows
            /\ Top(t).core = "database" => threaded'[t] = c
    BY <1>0, <1>2, BeginHandles
<1>4. PICK c \in HandleOf(Top(t).core, t) :
            /\ Ran(c)
            /\ ~ conn[c].tx
            /\ conn'[c].tx
            /\ conn'[c].rows = conn[c].rows
            /\ Top(t).core = "database" => threaded'[t] = c
    BY <1>3
<1>5. /\ c \in Conn
      /\ Top(t).core \in Trans => c = trans[Top(t).core].m_handle
      /\ Top(t).core = "database" /\ threaded[t] # None => c = threaded[t]
    BY <1>0, <1>2, HandleOfFacts
<1>6. NextHandle(Top(t).core, t) = c
    BY <1>2, <1>3, <1>4, <1>5, CoreAssumption DEF NextHandle, Others, Core
<1>7. ASSUME NEW k \in Frames(t), Begun(stack[t][k])
      PROVE  stack[t][k].core # Top(t).core
    <2>1. k # Len(stack[t])
        BY <1>1, <1>7 DEF Begun
    <2>2. stack[t][k].at = "block" /\ stack[t][k].own
        BY <1>0, <1>1, <1>7, <2>1 DEF Placed, Frames, Begun
    <2>3. conn[MyHandle(stack[t][k].core, t)].tx
        BY <1>0, <1>1, <2>2 DEF LiveHasRows, Doomed
    <2>4. MyHandle(stack[t][k].core, t) # None
        BY <1>0, <1>7 DEF HasHandle
    <2> QED
        BY <1>2, <1>4, <1>5, <2>3, <2>4, CoreAssumption DEF MyHandle, Core
<1>8. ASSUME NEW u \in Thread, NEW k \in Frames(u), Begun(stack[u][k])
      PROVE  NextHandle(stack[u][k].core, u) = MyHandle(stack[u][k].core, u)
    BY <1>0, <1>2, <1>3, <1>7, <1>8, OthersKeep, FrameTyped
<1>9. ASSUME NEW u \in Thread, NEW k \in Frames(u)'
      PROVE  \/ u = t /\ k = Len(stack[t])
             \/ k \in Frames(u) /\ stack'[u][k] = stack[u][k]
    BY <1>0, <1>1, ShrunkKeeps DEF Frames
<1>10. /\ stack'[t][Len(stack[t])].core = Top(t).core
       /\ stack'[t][Len(stack[t])].written = Top(t).written
       /\ stack'[t][Len(stack[t])].at = "block"
       /\ Len(stack[t]) \in Frames(t)'
    BY <1>0, <1>1, ShrunkKeeps DEF Moved, Frames
<1>11. HasHandle'
    <2>1. ASSUME NEW u \in Thread, NEW k \in Frames(u)'
          PROVE  /\ stack'[u][k].core \in Trans => trans'[stack'[u][k].core].m_handle # None
                 /\ Begun(stack'[u][k]) => NextHandle(stack'[u][k].core, u) # None
        <3>1. stack'[u][k].core \in Trans => trans'[stack'[u][k].core].m_handle # None
            BY <1>0, <1>1, <1>3, ShrunkKeeps DEF HasHandle, Others
        <3>2. CASE u = t /\ k = Len(stack[t])
            BY <1>5, <1>6, <1>10, <3>1, <3>2, NoneIsNone
        <3>3. CASE k \in Frames(u) /\ stack'[u][k] = stack[u][k]
            BY <1>0, <1>8, <3>1, <3>3 DEF HasHandle
        <3> QED
            BY <1>9, <3>2, <3>3
    <2> QED
        BY <2>1 DEF HasHandle, NextHandle, MyHandle
<1>12. BegunApart'
    <2> SUFFICES ASSUME NEW u \in Thread, NEW k \in Frames(u)', NEW l \in Frames(u)',
                        stack'[u][k].core = stack'[u][l].core,
                        Begun(stack'[u][k]), Begun(stack'[u][l])
                 PROVE  k = l
        BY DEF BegunApart
    <2> QED
        BY <1>0, <1>7, <1>9, <1>10 DEF BegunApart
<1>13. ASSUME NEW d \in Conn PROVE conn'[d].rows = conn[d].rows
    BY <1>4, <1>5 DEF Ran
<1>14. RowsPending'
    <2>1. ASSUME NEW d \in Conn, NEW r \in conn[d].rows, done[r[1]] = "open"
          PROVE  \E u \in Thread : \E k \in Frames(u)' :
                      /\ stack'[u][k].run = r[1]
                      /\ Begun(stack'[u][k])
                      /\ NextHandle(stack'[u][k].core, u) = d
        <3>1. PICK u \in Thread :
                  \E k \in Frames(u) :
                      stack[u][k].run = r[1] /\ Begun(stack[u][k]) /\ MyHandle(stack[u][k].core, u) = d
            BY <1>0, <2>1 DEF RowsPending
        <3>2. PICK k \in Frames(u) :
                  stack[u][k].run = r[1] /\ Begun(stack[u][k]) /\ MyHandle(stack[u][k].core, u) = d
            BY <3>1
        <3>3. k \in Frames(u)' /\ ~ (u = t /\ k = Len(stack[t]))
            BY <1>1, <3>2 DEF Frames, Shrunk, Begun
        <3> QED
            BY <1>8, <1>9, <3>2, <3>3
    <2> SUFFICES ASSUME NEW d \in Conn, NEW r \in conn'[d].rows
                 PROVE  /\ r[1] \in 1..Len(done')
                        /\ done'[r[1]] # "no"
                        /\ done'[r[1]] = "open" =>
                              \E u \in Thread : \E k \in Frames(u)' :
                                  /\ stack'[u][k].run = r[1]
                                  /\ Begun(stack'[u][k])
                                  /\ NextHandle(stack'[u][k].core, u) = d
        BY DEF RowsPending, NextHandle, MyHandle
    <2>2. r \in conn[d].rows
        BY <1>13
    <2> QED
        BY <1>0, <2>1, <2>2 DEF RowsPending
<1>15. LiveHasRows'
    <2> SUFFICES ASSUME NEW u \in Thread, NEW k \in Frames(u)',
                        stack'[u][k].own, stack'[u][k].at \in {"block", "commit"},
                        ~ Doomed(u)'
                 PROVE  /\ conn'[NextHandle(stack'[u][k].core, u)].tx
                        /\ \A n \in 1..stack'[u][k].written :
                             <<stack'[u][k].run, n>> \in conn'[NextHandle(stack'[u][k].core, u)].rows
        BY DEF LiveHasRows, NextHandle, MyHandle
    <2>1. CASE u = t /\ k = Len(stack[t])
        <3>1. Top(t).written = 0
            BY <1>0, <1>1 DEF Placed
        <3> QED
            BY <1>4, <1>6, <1>10, <2>1, <3>1
    <2>2. CASE k \in Frames(u) /\ stack'[u][k] = stack[u][k]
        <3>1. ~ Doomed(u)
            BY <1>1 DEF Doomed, Top, Shrunk
        <3>2. Begun(stack[u][k])
            BY <2>2 DEF Begun
        <3>3. /\ conn[MyHandle(stack[u][k].core, u)].tx
              /\ \A n \in 1..stack[u][k].written :
                   <<stack[u][k].run, n>> \in conn[MyHandle(stack[u][k].core, u)].rows
            BY <1>0, <2>2, <3>1 DEF LiveHasRows
        <3>4. MyHandle(stack[u][k].core, u) \in Conn
            BY <2>2, <3>2, BegunHandle
        <3>5. conn'[MyHandle(stack[u][k].core, u)].tx
            BY <1>4, <3>3, <3>4 DEF Ran
        <3> QED
            BY <1>8, <1>13, <2>2, <3>2, <3>3, <3>4, <3>5
    <2> QED
        BY <1>9, <2>1, <2>2
<1>16. HandleTypes'
    BY <1>3 DEF HandleInv
<1>17. RowsKnown' /\ AllOrNothing'
    BY <1>0, <1>3, <1>16, SameAllOrNothing
<1> QED
    BY <1>11, <1>12, <1>14, <1>15, <1>17 DEF RowsInv

\* A block is over, and so is its transaction if it has begun one.
LEMMA EndRows ==
    ASSUME IInv, NEW t \in Thread, stack[t] # <<>>, NEW result \in {"yes", "no"},
           Ended(t, result), BlockInv', HandleInv', Others(Top(t).core, t),
           result = "no" \/ ~ Doomed(t),
           ~ Begun(Top(t)) => conn' = conn /\ threaded' = threaded,
           Begun(Top(t)) =>
               /\ CanLock(Top(t).core, t)
               /\ \E c \in HandleOf(Top(t).core, t) : Ran(c) /\ conn'[c] = Idle
    PROVE  HasHandle' /\ BegunApart' /\ RowsPending' /\ LiveHasRows'
<1>0. /\ BlockTypes /\ BlockTypes' /\ HandleTypes /\ HandleTypes' /\ HasHandle /\ Placed
      /\ BegunApart /\ RowsPending /\ LiveHasRows /\ RunsApart /\ RunsKnown
    BY DEF IInv, BlockInv, RowsInv, HandleInv
<1>1. /\ Shrunk(t) /\ Len(stack'[t]) = Len(stack[t]) - 1 /\ Top(t) = stack[t][Len(stack[t])]
      /\ Len(stack[t]) \in Frames(t) /\ Len(stack[t]) \in Nat \ {0} /\ Len(done') = Len(done)
    BY <1>0, TopIsFrame DEF Ended
<1>2. Top(t).core \in Core
    BY TopHandle
<1>3. ASSUME NEW u \in Thread, NEW k \in Frames(u), Begun(stack[u][k]),
             ~ (u = t /\ k = Len(stack[t]))
      PROVE  /\ NextHandle(stack[u][k].core, u) = MyHandle(stack[u][k].core, u)
             /\ conn'[MyHandle(stack[u][k].core, u)] = conn[MyHandle(stack[u][k].core, u)]
    <2>1. stack[u][k].core \in Core
        BY <1>0, FrameTyped
    <2>2. CASE ~ Begun(Top(t))
        BY <1>0, <1>2, <2>1, <2>2, OthersKeep
    <2>3. CASE Begun(Top(t))
        <3>1. u # t \/ stack[u][k].core # Top(t).core
            BY <1>0, <1>1, <1>3, <2>3 DEF BegunApart
        <3>2. NextHandle(stack[u][k].core, u) = MyHandle(stack[u][k].core, u)
            BY <1>0, <1>2, <2>1, <3>1, OthersKeep
        <3>3. PICK c \in HandleOf(Top(t).core, t) : Ran(c)
            BY <2>3
        <3>4. MyHandle(stack[u][k].core, u) # c
            BY <1>3, <2>3, <3>1, MineTop
        <3>5. MyHandle(stack[u][k].core, u) \in Conn
            BY <1>3, BegunHandle
        <3> QED
            BY <3>2, <3>3, <3>4, <3>5 DEF Ran
    <2> QED
        BY <2>2, <2>3
<1>4. ASSUME NEW u \in Thread, NEW k \in Frames(u)'
      PROVE  /\ k \in Frames(u) /\ ~ (u = t /\ k = Len(stack[t]))
             /\ stack'[u][k].written = stack[u][k].written
             /\ u # t => stack'[u][k] = stack[u][k]
             /\ u = t => /\ k \in Nat /\ k =< Len(stack'[t]) /\ Len(stack'[t]) > 0
                         /\ stack[u][k].at = "block" /\ stack'[u][k].at \in {"block", "failed"}
    <2>1. k \in Frames(u) /\ k \in Nat /\ k =< Len(stack'[u]) /\ k > 0 /\ Len(stack'[u]) \in Nat
        BY <1>0, <1>1, ShrunkKeeps DEF Frames
    <2>2. CASE u # t
        BY <1>0, <1>1, <2>1, <2>2, ShrunkKeeps
    <2>3. CASE u = t
        <3>1. k < Len(stack[t]) /\ stack[t][k].at = "block"
            BY <1>0, <1>1, <2>1, <2>3 DEF Placed
        <3>2. CASE k < Len(stack'[t])
            BY <1>0, <1>1, <2>1, <2>3, <3>1, <3>2, ShrunkKeeps
        <3>3. CASE k = Len(stack'[t])
            BY <1>1, <2>1, <2>3, <3>1, <3>3 DEF Ended
        <3> QED
            BY <2>1, <2>3, <3>2, <3>3
    <2> QED
        BY <2>2, <2>3
<1>5. ASSUME NEW u \in Thread, NEW k \in Frames(u)', Begun(stack'[u][k])
      PROVE  /\ Begun(stack[u][k])
             /\ NextHandle(stack[u][k].core, u) = MyHandle(stack[u][k].core, u)
    <2>1. stack'[u][k].own = stack[u][k].own
        BY <1>0, <1>1, ShrunkKeeps
    <2>2. Begun(stack[u][k])
        BY <1>4, <1>5, <2>1 DEF Begun
    <2> QED
        BY <1>3, <1>4, <2>2
<1>6. ASSUME NEW u \in Thread, NEW k \in Frames(u), Begun(stack[u][k])
      PROVE  \/ k \in Frames(u)' /\ Begun(stack'[u][k])
             \/ done'[stack[u][k].run] # "open"
    <2>1. CASE u = t /\ k = Len(stack[t])
        <3>1. Top(t).own /\ Top(t).run \in 1..Len(done)
            BY <1>0, <1>1, <1>6, <2>1 DEF Begun, RunsKnown
        <3>2. done'[Top(t).run] = result
            BY <3>1 DEF Ended
        <3> QED
            BY <1>1, <2>1, <3>2
    <2>2. CASE ~ (u = t /\ k = Len(stack[t]))
        <3>1. k \in Frames(u)'
            BY <1>1, <2>2 DEF Frames, Shrunk
        <3>2. stack'[u][k].own = stack[u][k].own
            BY <1>0, <1>1, <3>1, ShrunkKeeps
        <3>3. stack'[u][k].at # "begin"
            BY <1>4, <1>6, <3>1 DEF Begun
        <3> QED
            BY <1>6, <3>1, <3>2, <3>3 DEF Begun
    <2> QED
        BY <2>1, <2>2
<1>7. ASSUME NEW d \in Conn, NEW r \in conn'[d].rows
      PROVE  r \in conn[d].rows /\ done'[r[1]] = done[r[1]]
    <2>1. r \in conn[d].rows
        BY DEF Ran, Idle
    <2>2. r[1] \in 1..Len(done)
        BY <1>0, <2>1 DEF RowsPending
    <2>3. CASE ~ (Top(t).own /\ r[1] = Top(t).run)
        BY <2>1, <2>2, <2>3 DEF Ended
    <2>4. CASE Top(t).own /\ r[1] = Top(t).run
        <3>1. done[r[1]] = "open"
            BY <1>0, <1>1, <2>4 DEF RunsKnown
        <3>2. PICK u \in Thread :
                  \E k \in Frames(u) :
                      stack[u][k].run = r[1] /\ Begun(stack[u][k]) /\ MyHandle(stack[u][k].core, u) = d
            BY <1>0, <2>1, <3>1 DEF RowsPending
        <3>3. PICK k \in Frames(u) :
                  stack[u][k].run = r[1] /\ Begun(stack[u][k]) /\ MyHandle(stack[u][k].core, u) = d
            BY <3>2
        <3>4. u = t /\ k = Len(stack[t])
            BY <1>0, <1>1, <2>4, <3>3 DEF RunsApart
        <3>5. Begun(Top(t)) /\ MyHandle(Top(t).core, t) = d
            BY <1>1, <3>3, <3>4
        <3>6. PICK c \in HandleOf(Top(t).core, t) : conn'[c] = Idle
            BY <3>5
        <3>7. c = d
            BY <3>5, TopHandle
        <3> QED
            BY <3>6, <3>7 DEF Idle
    <2> QED
        BY <2>3, <2>4
<1>8. HasHandle' /\ BegunApart' /\ RowsPending'
    <2>1. \A x \in Trans : trans'[x].m_handle = trans[x].m_handle
        BY DEF Others
    <2> QED
        BY <1>1, <1>5, <1>6, <1>7, <2>1, SteadyRows
<1>9. LiveHasRows'
    <2> SUFFICES ASSUME NEW u \in Thread, NEW k \in Frames(u)',
                        stack'[u][k].own, stack'[u][k].at \in {"block", "commit"}
                 PROVE  \/ Doomed(u)'
                        \/ /\ conn'[NextHandle(stack'[u][k].core, u)].tx
                           /\ \A n \in 1..stack'[u][k].written :
                                <<stack'[u][k].run, n>> \in conn'[NextHandle(stack'[u][k].core, u)].rows
        BY DEF LiveHasRows, NextHandle, MyHandle
    <2>1. /\ stack'[u][k].own = stack[u][k].own
          /\ stack'[u][k].core = stack[u][k].core
          /\ stack'[u][k].run = stack[u][k].run
        BY <1>0, <1>1, ShrunkKeeps
    <2>2. Begun(stack[u][k])
        BY <1>4, <2>1 DEF Begun
    <2>3. /\ NextHandle(stack[u][k].core, u) = MyHandle(stack[u][k].core, u)
          /\ conn'[MyHandle(stack[u][k].core, u)] = conn[MyHandle(stack[u][k].core, u)]
        BY <1>3, <1>4, <2>2
    <2>4. CASE u # t
        BY <1>1, <2>3, <2>4, OthersLive
    <2>5. CASE u = t /\ result = "no"
        <3>1. stack'[t][Len(stack'[t])].at = "failed"
            BY <1>4, <2>5 DEF Ended
        <3> QED
            BY <2>5, <3>1 DEF Doomed, Top
    <2>6. CASE u = t /\ result = "yes"
        <3>1. ~ Doomed(t) /\ stack[u][k].at = "block" /\ k \in Frames(t)
            BY <1>4, <2>6
        <3>2. /\ conn[MyHandle(stack[u][k].core, u)].tx
              /\ \A n \in 1..stack[u][k].written :
                   <<stack[u][k].run, n>> \in conn[MyHandle(stack[u][k].core, u)].rows
            BY <1>0, <2>1, <2>6, <3>1 DEF LiveHasRows
        <3> QED
            BY <1>4, <2>1, <2>3, <3>2
    <2> QED
        BY <2>4, <2>5, <2>6
<1> QED
    BY <1>8, <1>9

\* sqlite says no to the begin of a block.
LEMMA BeginFailsRows ==
    ASSUME IInv, NEW t \in Thread, At(t, "begin"), Begin(Top(t).core, t, FALSE), Ended(t, "no"), BlockInv'
    PROVE  HandleInv' /\ RowsInv'
<1>0. HandleInv /\ BlockTypes /\ RunsKnown
    BY DEF IInv, BlockInv
<1>1. /\ stack[t] # <<>> /\ Top(t).at = "begin" /\ Top(t) = stack[t][Len(stack[t])]
      /\ Len(stack[t]) \in Frames(t)
    BY <1>0, TopIsFrame DEF At
<1>2. Top(t).core \in Core /\ Exists(Top(t).core)
    BY <1>1, TopHandle
<1>3. HandleInv' /\ Others(Top(t).core, t) /\ UNCHANGED <<db, conn, threaded>>
    BY <1>0, <1>2, BeginHandles
<1>4. HasHandle' /\ BegunApart' /\ RowsPending' /\ LiveHasRows'
    BY <1>1, <1>3, EndRows DEF Begun
<1>5. \A i \in 1..Len(done) : done'[i] = done[i] \/ (done[i] = "open" /\ done'[i] = "no")
    BY <1>0, <1>1 DEF Ended, RunsKnown
<1>6. RowsKnown' /\ AllOrNothing'
    BY <1>3, <1>5, SameAllOrNothing DEF Ended, BlockInv, HandleInv
<1> QED
    BY <1>3, <1>4, <1>6 DEF RowsInv

\* A block is over that has joined a transaction.
LEMMA JoinedRows ==
    ASSUME IInv, NEW t \in Thread, stack[t] # <<>>, NEW result \in {"yes", "no"},
           Ended(t, result), ~ Top(t).own, result = "no" \/ ~ Doomed(t),
           UNCHANGED <<db, conn, threaded, trans>>, BlockInv'
    PROVE  HandleInv' /\ RowsInv'
<1>0. HandleInv /\ BlockTypes /\ HandleTypes
    BY DEF IInv, BlockInv, HandleInv
<1>1. HandleInv'
    BY <1>0 DEF HandleInv, HandleTypes, FreeIsIdle, HandlesApart, ClosedIsIdle, Held
<1>2. Top(t).core \in Core
    BY TopHandle
<1>3. Others(Top(t).core, t)
    BY <1>0, <1>2, UnchangedOthers
<1>4. HasHandle' /\ BegunApart' /\ RowsPending' /\ LiveHasRows'
    BY <1>1, <1>3, EndRows DEF Begun
<1>5. \A i \in 1..Len(done) : done'[i] = done[i]
    BY DEF Ended
<1>6. RowsKnown' /\ AllOrNothing'
    BY <1>1, <1>5, SameAllOrNothing DEF Ended, BlockInv, HandleInv
<1> QED
    BY <1>1, <1>4, <1>6 DEF RowsInv

\* A block is rolled back.
LEMMA RollbackRows ==
    ASSUME IInv, NEW t \in Thread, At(t, "rollback"), NEW ok \in BOOLEAN,
           Rollback(Top(t).core, t, ok), Ended(t, "no"), BlockInv'
    PROVE  HandleInv' /\ RowsInv'
<1>0. HandleInv /\ BlockTypes /\ RunsKnown /\ Placed
    BY DEF IInv, BlockInv
<1>1. /\ stack[t] # <<>> /\ Top(t).at = "rollback" /\ Top(t) = stack[t][Len(stack[t])]
      /\ Len(stack[t]) \in Frames(t)
    BY <1>0, TopIsFrame DEF At
<1>2. /\ Top(t).core \in Core /\ Exists(Top(t).core) /\ Begun(Top(t))
      /\ MyHandle(Top(t).core, t) # None
    <2>1. Begun(Top(t))
        BY <1>0, <1>1 DEF Placed, Begun
    <2> QED
        BY <1>1, <2>1, TopHandle
<1>3. /\ HandleInv' /\ Others(Top(t).core, t) /\ db' = db
      /\ \E c \in HandleOf(Top(t).core, t) : Ran(c) /\ conn'[c] = Idle
    BY <1>0, <1>2, RollbackHandles DEF MyHandle
<1>4. HasHandle' /\ BegunApart' /\ RowsPending' /\ LiveHasRows'
    BY <1>1, <1>2, <1>3, EndRows DEF Rollback
<1>5. \A i \in 1..Len(done) : done'[i] = done[i] \/ (done[i] = "open" /\ done'[i] = "no")
    BY <1>0, <1>1 DEF Ended, RunsKnown
<1>6. RowsKnown' /\ AllOrNothing'
    BY <1>3, <1>5, SameAllOrNothing DEF Ended, BlockInv, HandleInv
<1> QED
    BY <1>3, <1>4, <1>6 DEF RowsInv

\* A row is a run and a number.
LEMMA RowOf ==
    ASSUME NEW i, NEW r \in RowsOf(i)
    PROVE  r \in Row /\ r[1] = i /\ r[2] \in 1..BlockRows /\ r = <<i, r[2]>>
    BY DEF RowsOf, Row

\* A block is committed: all of its rows are in the database, and only rows
\* of blocks that may have them there.
LEMMA CommitRows ==
    ASSUME IInv, NEW t \in Thread, At(t, "commit"), Commit(Top(t).core, t, TRUE),
           Ended(t, "yes"), BlockInv'
    PROVE  HandleInv' /\ RowsInv'
<1>0. /\ HandleInv /\ BlockTypes /\ RunsKnown /\ Placed /\ RowsPending /\ LiveHasRows
      /\ RowsKnown /\ AllOrNothing /\ RunsApart
    BY DEF IInv, BlockInv, RowsInv
<1>1. /\ stack[t] # <<>> /\ Top(t).at = "commit" /\ Top(t) = stack[t][Len(stack[t])]
      /\ Len(stack[t]) \in Frames(t) /\ CanLock(Top(t).core, t) /\ Len(done') = Len(done)
    BY <1>0, TopIsFrame DEF At, Commit, Ended
<1>2. /\ Top(t).core \in Core /\ Exists(Top(t).core) /\ Top(t).own /\ Begun(Top(t))
      /\ Top(t).written = BlockRows
    <2>1. Top(t).own /\ Top(t).written = BlockRows
        BY <1>0, <1>1 DEF Placed
    <2> QED
        BY <1>1, <2>1, TopHandle DEF Begun
<1>3. /\ HandleInv' /\ Others(Top(t).core, t)
      /\ \E c \in HandleOf(Top(t).core, t) :
            Ran(c) /\ conn'[c] = Idle /\ db' = db \cup conn[c].rows
    BY <1>0, <1>2, CommitHandles
<1>4. HasHandle' /\ BegunApart' /\ RowsPending' /\ LiveHasRows'
    BY <1>1, <1>2, <1>3, EndRows DEF Doomed
<1>5. PICK c \in HandleOf(Top(t).core, t) : db' = db \cup conn[c].rows
    BY <1>3
<1>6. c \in Conn /\ c = MyHandle(Top(t).core, t)
    BY <1>1, <1>2, TopHandle
<1>7. RowsKnown'
    BY <1>0, <1>1, <1>5, <1>6 DEF RowsKnown, RowsPending
<1>8. ASSUME NEW r \in conn[c].rows, done[r[1]] \in {"open", "no"}
      PROVE  r[1] = Top(t).run
    <2>1. done[r[1]] = "open"
        BY <1>0, <1>6, <1>8 DEF RowsPending
    <2>2. PICK u \in Thread :
              \E k \in Frames(u) :
                  stack[u][k].run = r[1] /\ Begun(stack[u][k]) /\ MyHandle(stack[u][k].core, u) = c
        BY <1>0, <1>6, <2>1 DEF RowsPending
    <2>3. PICK k \in Frames(u) :
              stack[u][k].run = r[1] /\ Begun(stack[u][k]) /\ MyHandle(stack[u][k].core, u) = c
        BY <2>2
    <2>4. u = t /\ k = Len(stack[t])
        BY <1>1, <1>2, <2>3, MineTop
    <2> QED
        BY <1>1, <2>3, <2>4
<1>9. RowsOf(Top(t).run) \subseteq conn[c].rows
    <2>1. \A n \in 1..BlockRows : <<Top(t).run, n>> \in conn[c].rows
        BY <1>0, <1>1, <1>2, <1>6 DEF LiveHasRows, Doomed
    <2> QED
        BY <2>1, RowOf
<1>10. AllOrNothing'
    <2>1. DOMAIN done = 1..Len(done) /\ DOMAIN done' = 1..Len(done)
        BY <1>0 DEF BlockTypes, Ended
    <2> SUFFICES ASSUME NEW i \in 1..Len(done)
                 PROVE  /\ done'[i] \in {"open", "no"} => RowsOf(i) \cap db' = {}
                        /\ done'[i] = "yes" => RowsOf(i) \subseteq db'
        BY <2>1 DEF AllOrNothing, RowsOf
    <2>2. CASE i = Top(t).run
        <3>1. done'[i] = "yes"
            BY <1>2, <2>2 DEF Ended
        <3> QED
            BY <1>5, <1>9, <2>2, <3>1
    <2>3. CASE i # Top(t).run
        <3>1. done'[i] = done[i]
            BY <2>3 DEF Ended
        <3>2. /\ done[i] \in {"open", "no"} => RowsOf(i) \cap db = {}
              /\ done[i] = "yes" => RowsOf(i) \subseteq db
            BY <1>0, <2>1 DEF AllOrNothing
        <3>3. done[i] \in {"open", "no"} => RowsOf(i) \cap conn[c].rows = {}
            BY <1>8, <2>3, RowOf
        <3> QED
            BY <1>5, <3>1, <3>2, <3>3
    <2> QED
        BY <2>2, <2>3
<1> QED
    BY <1>3, <1>4, <1>7, <1>10 DEF RowsInv

\* A block gets on in an open transaction, and its rows with it.
LEMMA GoesOnRows ==
    ASSUME IInv, NEW t \in Thread, At(t, "block"),
           NEW place \in {"block", "commit"}, NEW written \in Nat,
           Moved(t, place, written), BlockInv', HandleInv', UNCHANGED <<done, threaded>>,
           Others(Top(t).core, t),
           \A c \in Conn : conn[c].tx => conn'[c].tx,
           \A c \in Conn : conn[c].rows \subseteq conn'[c].rows,
           \A c \in Conn : \A r \in conn'[c].rows \ conn[c].rows :
               /\ r[1] = Top(t).run
               /\ Top(t).own => c = MyHandle(Top(t).core, t),
           Top(t).own => \A n \in 1..written :
               \/ n \in 1..Top(t).written
               \/ <<Top(t).run, n>> \in conn'[MyHandle(Top(t).core, t)].rows,
           RowsKnown', AllOrNothing'
    PROVE  RowsInv'
<1>0. /\ BlockTypes /\ BlockTypes' /\ HandleTypes /\ HandleTypes' /\ HasHandle
      /\ BegunApart /\ RowsPending /\ LiveHasRows /\ RunsKnown
    BY DEF IInv, BlockInv, RowsInv, HandleInv
<1>1. /\ stack[t] # <<>> /\ Top(t).at = "block"
      /\ Shrunk(t) /\ Len(stack'[t]) = Len(stack[t]) /\ Top(t) = stack[t][Len(stack[t])]
      /\ Len(stack[t]) \in Frames(t) /\ Len(stack[t]) \in Nat
    BY <1>0, TopIsFrame DEF Moved, At
<1>2. Top(t).core \in Core
    BY <1>1, TopHandle
<1>3. ASSUME NEW u \in Thread, NEW d \in Core
      PROVE  NextHandle(d, u) = MyHandle(d, u)
    BY <1>0, <1>2, OthersKeep
<1>4. ASSUME NEW u \in Thread
      PROVE  Frames(u)' = Frames(u)
    BY <1>1 DEF Frames, Shrunk
<1>5. ASSUME NEW u \in Thread, NEW k \in Frames(u)
      PROVE  /\ stack'[u][k].core = stack[u][k].core
             /\ stack[u][k].core \in Core
             /\ stack'[u][k].run = stack[u][k].run
             /\ Begun(stack'[u][k]) <=> Begun(stack[u][k])
    <2>1. k \in Frames(u)'
        BY <1>4
    <2>2. CASE u # t \/ k # Len(stack[t])
        BY <1>0, <1>1, <2>1, <2>2, ShrunkKeeps, FrameTyped DEF Frames
    <2>3. CASE u = t /\ k = Len(stack[t])
        BY <1>0, <1>1, <2>1, <2>3, ShrunkKeeps, FrameTyped DEF Moved, Begun
    <2> QED
        BY <2>2, <2>3
<1>6. HasHandle'
    <2>1. ASSUME NEW u \in Thread, NEW k \in Frames(u)
          PROVE  /\ stack'[u][k].core \in Trans => trans'[stack'[u][k].core].m_handle # None
                 /\ Begun(stack'[u][k]) => NextHandle(stack'[u][k].core, u) # None
        BY <1>0, <1>3, <1>5 DEF HasHandle, Others
    <2> QED
        BY <1>4, <2>1 DEF HasHandle, NextHandle, MyHandle
<1>7. BegunApart'
    <2>1. ASSUME NEW u \in Thread, NEW k \in Frames(u), NEW l \in Frames(u),
                 stack'[u][k].core = stack'[u][l].core, Begun(stack'[u][k]), Begun(stack'[u][l])
          PROVE  k = l
        BY <1>0, <1>5, <2>1 DEF BegunApart
    <2> QED
        BY <1>4, <2>1 DEF BegunApart
<1>8. RowsPending'
    <2> SUFFICES ASSUME NEW d \in Conn, NEW r \in conn'[d].rows
                 PROVE  /\ r[1] \in 1..Len(done)
                        /\ done[r[1]] # "no"
                        /\ done[r[1]] = "open" =>
                              \E u \in Thread : \E k \in Frames(u) :
                                  /\ stack'[u][k].run = r[1]
                                  /\ Begun(stack'[u][k])
                                  /\ NextHandle(stack'[u][k].core, u) = d
        BY <1>4 DEF RowsPending, NextHandle, MyHandle
    <2>1. CASE r \in conn[d].rows
        <3>1. /\ r[1] \in 1..Len(done)
              /\ done[r[1]] # "no"
              /\ done[r[1]] = "open" =>
                    \E u \in Thread : \E k \in Frames(u) :
                        /\ stack[u][k].run = r[1]
                        /\ Begun(stack[u][k])
                        /\ MyHandle(stack[u][k].core, u) = d
            BY <1>0, <2>1 DEF RowsPending
        <3> QED
            BY <1>3, <1>5, <3>1
    <2>2. CASE r \notin conn[d].rows
        <3>1. r[1] = Top(t).run /\ (Top(t).own => d = MyHandle(Top(t).core, t))
            BY <2>2
        <3>2. /\ Top(t).run \in 1..Len(done)
              /\ done[Top(t).run] = IF Top(t).own THEN "open" ELSE "joined"
            BY <1>0, <1>1 DEF RunsKnown
        <3>3. CASE Top(t).own
            <4>1. Begun(Top(t))
                BY <1>1, <3>3 DEF Begun
            <4> QED
                BY <1>1, <1>3, <1>5, <3>1, <3>2, <3>3, <4>1
        <3>4. CASE ~ Top(t).own
            BY <3>1, <3>2, <3>4
        <3> QED
            BY <3>3, <3>4
    <2> QED
        BY <2>1, <2>2
<1>9. LiveHasRows'
    <2> SUFFICES ASSUME NEW u \in Thread, NEW k \in Frames(u),
                        stack'[u][k].own, stack'[u][k].at \in {"block", "commit"},
                        ~ Doomed(u)'
                 PROVE  /\ conn'[NextHandle(stack'[u][k].core, u)].tx
                        /\ \A n \in 1..stack'[u][k].written :
                             <<stack'[u][k].run, n>> \in conn'[NextHandle(stack'[u][k].core, u)].rows
        BY <1>4 DEF LiveHasRows, NextHandle, MyHandle
    <2>1. k \in Frames(u)'
        BY <1>4
    <2>2. /\ stack[u][k].own /\ stack[u][k].at \in {"block", "commit"} /\ ~ Doomed(u)
          /\ Begun(stack[u][k])
        <3>1. CASE u # t
            BY <1>1, <3>1 DEF Shrunk, Doomed, Top, Begun
        <3>2. CASE u = t
            <4>1. stack[u][k].own
                BY <1>0, <1>1, <2>1, ShrunkKeeps
            <4>2. stack[u][k].at \in {"block", "commit"}
                BY <1>0, <1>1, <2>1, <3>2, ShrunkKeeps DEF Frames
            <4>3. ~ Doomed(u)
                BY <1>1, <3>2 DEF Doomed
            <4> QED
                BY <4>1, <4>2, <4>3 DEF Begun
        <3> QED
            BY <3>1, <3>2
    <2>3. /\ conn[MyHandle(stack[u][k].core, u)].tx
          /\ \A n \in 1..stack[u][k].written :
               <<stack[u][k].run, n>> \in conn[MyHandle(stack[u][k].core, u)].rows
        BY <1>0, <2>2 DEF LiveHasRows
    <2>4. MyHandle(stack[u][k].core, u) \in Conn
        BY <2>2, BegunHandle
    <2>5. /\ conn'[MyHandle(stack[u][k].core, u)].tx
          /\ \A n \in 1..stack[u][k].written :
               <<stack[u][k].run, n>> \in conn'[MyHandle(stack[u][k].core, u)].rows
        BY <2>3, <2>4
    <2>6. CASE u = t /\ k = Len(stack[t])
        <3>1. stack'[u][k].written = written
            BY <2>6 DEF Moved
        <3>2. Top(t).own
            BY <1>1, <2>2, <2>6
        <3> QED
            BY <1>1, <1>3, <1>5, <2>5, <2>6, <3>1, <3>2
    <2>7. CASE u # t \/ k # Len(stack[t])
        <3>1. stack'[u][k] = stack[u][k]
            BY <1>0, <1>1, <2>1, <2>7, ShrunkKeeps DEF Frames
        <3> QED
            BY <1>3, <1>5, <2>5, <3>1
    <2> QED
        BY <2>6, <2>7
<1> QED
    BY <1>6, <1>7, <1>8, <1>9 DEF RowsInv

\* A row is written, into a transaction or by itself.
LEMMA WriteRows ==
    ASSUME IInv, NEW t \in Thread, At(t, "block"), Top(t).written < BlockRows,
           Write(Top(t).core, t, <<Top(t).run, Top(t).written + 1>>, TRUE),
           Moved(t, "block", Top(t).written + 1), BlockInv', UNCHANGED done
    PROVE  HandleInv' /\ RowsInv'
<1> DEFINE row == <<Top(t).run, Top(t).written + 1>>
<1>0. /\ HandleInv /\ BlockTypes /\ RunsKnown /\ Placed /\ LiveHasRows
      /\ RowsKnown /\ AllOrNothing /\ HandleTypes
    BY DEF IInv, BlockInv, RowsInv, HandleInv
<1>1. /\ stack[t] # <<>> /\ Top(t).at = "block" /\ Top(t) = stack[t][Len(stack[t])]
      /\ Len(stack[t]) \in Frames(t) /\ Top(t) \in Frame
    BY <1>0, TopIsFrame DEF At
<1>2. /\ Top(t).core \in Core /\ Exists(Top(t).core)
      /\ \A c \in HandleOf(Top(t).core, t) :
            c \in Conn /\ (Top(t).own => c = MyHandle(Top(t).core, t))
      /\ Top(t).written \in Nat
    <2>1. Top(t).own => Begun(Top(t))
        BY <1>1 DEF Begun
    <2>2. Top(t).written \in 0..BlockRows
        BY <1>1 DEF Frame
    <2> QED
        BY <1>1, <2>1, <2>2, TopHandle
<1>3. row \in Row
    <2>1. Top(t).run \in Run /\ Top(t).written \in 0..BlockRows /\ BlockRows \in Nat
        BY <1>1, CoreAssumption DEF Frame
    <2> QED
        BY <2>1 DEF Row
<1>4. /\ Top(t).run \in 1..Len(done)
      /\ done[Top(t).run] = IF Top(t).own THEN "open" ELSE "joined"
    BY <1>0, <1>1 DEF RunsKnown
<1>5. row[1] = Top(t).run
    OBVIOUS
<1> HIDE DEF row
<1>6. Write(Top(t).core, t, row, TRUE)
    BY DEF row
<1>7. /\ HandleInv' /\ Others(Top(t).core, t) /\ threaded' = threaded
      /\ \E c \in HandleOf(Top(t).core, t) :
            /\ Ran(c)
            /\ \/ conn[c].tx /\ conn'[c].tx /\ db' = db /\ conn'[c].rows = conn[c].rows \cup {row}
               \/ ~ conn[c].tx /\ conn' = conn /\ db' = db \cup {row}
    BY <1>0, <1>2, <1>3, <1>6, WriteHandles
<1>8. PICK c \in HandleOf(Top(t).core, t) :
            /\ Ran(c)
            /\ \/ conn[c].tx /\ conn'[c].tx /\ db' = db /\ conn'[c].rows = conn[c].rows \cup {row}
               \/ ~ conn[c].tx /\ conn' = conn /\ db' = db \cup {row}
    BY <1>7
<1>9. HandleTypes'
    BY <1>7 DEF HandleInv
<1>10. CASE conn[c].tx /\ conn'[c].tx /\ db' = db /\ conn'[c].rows = conn[c].rows \cup {row}
    <2>1. ASSUME NEW d \in Conn
          PROVE  /\ conn[d].tx => conn'[d].tx
                 /\ conn[d].rows \subseteq conn'[d].rows
                 /\ \A r \in conn'[d].rows \ conn[d].rows : r = row /\ d = c
        BY <1>8, <1>10 DEF Ran
    <2>2. RowsKnown' /\ AllOrNothing'
        BY <1>9, <1>10, SameAllOrNothing DEF BlockInv
    <2>3. Top(t).own => row \in conn'[MyHandle(Top(t).core, t)].rows
        BY <1>2, <1>10
    <2>4. ASSUME Top(t).own, NEW n \in 1..(Top(t).written + 1)
          PROVE  \/ n \in 1..Top(t).written
                 \/ <<Top(t).run, n>> \in conn'[MyHandle(Top(t).core, t)].rows
        BY <1>2, <2>3, <2>4 DEF row
    <2> QED
        BY <1>2, <1>5, <1>7, <2>1, <2>2, <2>4, GoesOnRows
<1>11. CASE ~ conn[c].tx /\ conn' = conn /\ db' = db \cup {row}
    <2>1. ~ Top(t).own
        BY <1>0, <1>1, <1>2, <1>11 DEF LiveHasRows, Doomed
    <2>2. RowsKnown'
        BY <1>0, <1>4, <1>5, <1>11 DEF RowsKnown
    <2>3. AllOrNothing'
        <3> SUFFICES ASSUME NEW i \in DOMAIN done
                     PROVE  /\ done[i] \in {"open", "no"} => RowsOf(i) \cap db' = {}
                            /\ done[i] = "yes" => RowsOf(i) \subseteq db'
            BY DEF AllOrNothing, RowsOf
        <3>1. done[i] \in {"open", "no"} => row \notin RowsOf(i)
            BY <1>4, <1>5, <2>1 DEF RowsOf
        <3> QED
            BY <1>0, <1>11, <3>1 DEF AllOrNothing
    <2> QED
        BY <1>2, <1>7, <1>11, <2>1, <2>2, <2>3, GoesOnRows
<1> QED
    BY <1>8, <1>10, <1>11

\* Nothing of the database or its handles changes.
LEMMA QuietHandles ==
    ASSUME HandleInv, UNCHANGED <<db, conn, threaded, trans>>
    PROVE  HandleInv'
    BY DEF HandleInv, HandleTypes, FreeIsIdle, HandlesApart, ClosedIsIdle, Held

\* A block has written its rows, and goes to its commit.
LEMMA ToCommitRows ==
    ASSUME IInv, NEW t \in Thread, At(t, "block"), Top(t).written = BlockRows,
           Moved(t, "commit", Top(t).written), BlockInv',
           UNCHANGED <<done, db, conn, threaded, trans>>
    PROVE  HandleInv' /\ RowsInv'
<1>0. HandleInv /\ HandleTypes /\ BlockTypes
    BY DEF IInv, HandleInv, BlockInv
<1>1. HandleInv' /\ HandleTypes' /\ BlockTypes'
    BY <1>0, QuietHandles DEF HandleInv, BlockInv
<1>2. Top(t).core \in Core
    BY TopHandle DEF At
<1>3. Others(Top(t).core, t)
    BY <1>0, <1>2, UnchangedOthers
<1>4. RowsKnown' /\ AllOrNothing'
    BY <1>1, SameAllOrNothing
<1>5. Top(t).written \in Nat
    BY CoreAssumption
<1> QED
    BY <1>1, <1>3, <1>4, <1>5, GoesOnRows

\* A new block has no rows and no transaction of its own yet.
LEMMA PushRows ==
    ASSUME IInv, NEW t \in Thread, NEW core \in Core, NEW own \in BOOLEAN,
           NEW embedded \in BOOLEAN, Exists(core), Pushed(t, core, own, embedded),
           stack[t] = <<>> \/ At(t, "block"),
           BlockInv', UNCHANGED <<db, conn, threaded, trans>>
    PROVE  HandleInv' /\ RowsInv'
<1>0. /\ HandleInv /\ BlockTypes /\ BlockTypes' /\ HasHandle /\ BegunApart /\ RowsPending
      /\ LiveHasRows /\ RowsKnown /\ AllOrNothing
    BY DEF IInv, BlockInv, RowsInv
<1>1. HandleInv'
    BY <1>0, QuietHandles
<1>2. ASSUME NEW u \in Thread, NEW k \in Frames(u)'
      PROVE  \/ k \in Frames(u) /\ stack'[u][k] = stack[u][k]
             \/ /\ stack'[u][k].core = core
                /\ ~ Begun(stack'[u][k]) /\ (~ stack'[u][k].own \/ stack'[u][k].at = "begin")
    <2>1. CASE ~ (k \in Frames(u) /\ stack'[u][k] = stack[u][k])
        <3>1. /\ stack'[u][k].core = core
              /\ stack'[u][k].own = own
              /\ stack'[u][k].at = IF own THEN "begin" ELSE "block"
            BY <1>0, <2>1, PushedKeeps
        <3>2. ~ stack'[u][k].own \/ stack'[u][k].at = "begin"
            BY <3>1
        <3> QED
            BY <3>1, <3>2 DEF Begun
    <2> QED
        BY <2>1
<1>3. ASSUME NEW u \in Thread, NEW k \in Frames(u)
      PROVE  k \in Frames(u)' /\ stack'[u][k] = stack[u][k]
    <2>1. CASE u # t
        BY <2>1 DEF Pushed, Frames
    <2>2. CASE u = t
        <3>1. Len(stack[t]) \in Nat
            BY <1>0 DEF BlockTypes
        <3> QED
            BY <2>2, <3>1 DEF Pushed, Frames
    <2> QED
        BY <2>1, <2>2
<1>4. HasHandle'
    <2>1. ASSUME NEW u \in Thread, NEW k \in Frames(u)'
          PROVE  /\ stack'[u][k].core \in Trans => trans[stack'[u][k].core].m_handle # None
                 /\ Begun(stack'[u][k]) => MyHandle(stack'[u][k].core, u) # None
        BY <1>0, <1>2 DEF HasHandle, Exists
    <2> QED
        BY <2>1 DEF HasHandle, MyHandle
<1>5. BegunApart'
    <2>1. ASSUME NEW u \in Thread, NEW k \in Frames(u)', NEW l \in Frames(u)',
                 stack'[u][k].core = stack'[u][l].core, Begun(stack'[u][k]), Begun(stack'[u][l])
          PROVE  k = l
        BY <1>0, <1>2, <2>1 DEF BegunApart
    <2> QED
        BY <2>1 DEF BegunApart
<1>6. /\ Len(done) \in Nat /\ Len(done') = Len(done) + 1
      /\ \A i \in 1..Len(done) : done'[i] = done[i]
      /\ done'[Len(done) + 1] \in {"open", "joined"}
    BY <1>0 DEF Pushed, BlockTypes
<1>7. RowsPending'
    <2> SUFFICES ASSUME NEW d \in Conn, NEW r \in conn[d].rows
                 PROVE  /\ r[1] \in 1..Len(done')
                        /\ done'[r[1]] # "no"
                        /\ done'[r[1]] = "open" =>
                              \E u \in Thread : \E k \in Frames(u)' :
                                  /\ stack'[u][k].run = r[1]
                                  /\ Begun(stack'[u][k])
                                  /\ MyHandle(stack'[u][k].core, u) = d
        BY DEF RowsPending, MyHandle
    <2>1. /\ r[1] \in 1..Len(done)
          /\ done[r[1]] # "no"
          /\ done[r[1]] = "open" =>
                \E u \in Thread : \E k \in Frames(u) :
                    /\ stack[u][k].run = r[1]
                    /\ Begun(stack[u][k])
                    /\ MyHandle(stack[u][k].core, u) = d
        BY <1>0 DEF RowsPending
    <2> QED
        BY <1>3, <1>6, <2>1
<1>8. LiveHasRows'
    <2>1. ASSUME NEW u \in Thread, NEW k \in Frames(u)',
                 stack'[u][k].own, stack'[u][k].at \in {"block", "commit"}, ~ Doomed(u)'
          PROVE  /\ conn[MyHandle(stack'[u][k].core, u)].tx
                 /\ \A n \in 1..stack'[u][k].written :
                      <<stack'[u][k].run, n>> \in conn[MyHandle(stack'[u][k].core, u)].rows
        <3>1. k \in Frames(u) /\ stack'[u][k] = stack[u][k]
            BY <1>2, <2>1
        <3>2. ~ Doomed(u)
            <4>1. CASE u = t
                <5>1. stack[t] # <<>>
                    BY <1>0, <3>1, <4>1 DEF Frames, BlockTypes
                <5> QED
                    BY <4>1, <5>1 DEF At, Doomed
            <4>2. CASE u # t
                BY <2>1, <4>2 DEF Pushed, Doomed, Top
            <4> QED
                BY <4>1, <4>2
        <3> QED
            BY <1>0, <2>1, <3>1, <3>2 DEF LiveHasRows
    <2> QED
        BY <2>1 DEF LiveHasRows, MyHandle
<1>9. RowsKnown'
    BY <1>0, <1>6 DEF RowsKnown
<1>10. AllOrNothing'
    <2>1. DOMAIN done = 1..Len(done) /\ DOMAIN done' = 1..(Len(done) + 1)
        BY <1>0, <1>6 DEF BlockTypes
    <2> SUFFICES ASSUME NEW i \in 1..(Len(done) + 1)
                 PROVE  /\ done'[i] \in {"open", "no"} => RowsOf(i) \cap db = {}
                        /\ done'[i] = "yes" => RowsOf(i) \subseteq db
        BY <2>1 DEF AllOrNothing, RowsOf
    <2>2. CASE i \in 1..Len(done)
        BY <1>0, <1>6, <2>1, <2>2 DEF AllOrNothing
    <2>3. CASE i = Len(done) + 1
        <3>1. RowsOf(i) \cap db = {}
            BY <1>0, <1>6, <2>3, RowOf DEF RowsKnown
        <3> QED
            BY <1>6, <2>3, <3>1
    <2> QED
        BY <1>6, <2>2, <2>3
<1> QED
    BY <1>1, <1>4, <1>5, <1>7, <1>8, <1>9, <1>10 DEF RowsInv

\* A step outside of the blocks: nobody's block loses its handle, and the
\* rows that reach the database are of no block that is open or has failed.
LEMMA OutsideRows ==
    ASSUME IInv, UNCHANGED <<stack, done>>, BlockInv',
           \A u \in Thread : \A k \in Frames(u) :
               /\ stack[u][k].core \in Trans => trans'[stack[u][k].core].m_handle # None
               /\ Begun(stack[u][k]) =>
                     /\ NextHandle(stack[u][k].core, u) = MyHandle(stack[u][k].core, u)
                     /\ conn'[MyHandle(stack[u][k].core, u)].tx = conn[MyHandle(stack[u][k].core, u)].tx
                     /\ conn'[MyHandle(stack[u][k].core, u)].rows = conn[MyHandle(stack[u][k].core, u)].rows,
           \A c \in Conn : conn'[c].rows \subseteq conn[c].rows,
           \/ db' = db
           \/ \E c \in Conn :
                /\ db' = db \cup conn[c].rows
                /\ \A u \in Thread : \A k \in Frames(u) :
                       Begun(stack[u][k]) => MyHandle(stack[u][k].core, u) # c
    PROVE  RowsInv'
<1>0. /\ BlockTypes /\ HasHandle /\ BegunApart /\ RowsPending
      /\ LiveHasRows /\ RowsKnown /\ AllOrNothing
    BY DEF IInv, BlockInv, RowsInv
<1>1. HasHandle'
    <2>1. ASSUME NEW u \in Thread, NEW k \in Frames(u), Begun(stack[u][k])
          PROVE  NextHandle(stack[u][k].core, u) # None
        BY <1>0, <2>1 DEF HasHandle
    <2> QED
        BY <2>1 DEF HasHandle, NextHandle, MyHandle, Frames
<1>2. BegunApart'
    BY <1>0 DEF BegunApart, Frames
<1>3. RowsPending'
    <2> SUFFICES ASSUME NEW d \in Conn, NEW r \in conn'[d].rows
                 PROVE  /\ r[1] \in 1..Len(done)
                        /\ done[r[1]] # "no"
                        /\ done[r[1]] = "open" =>
                              \E u \in Thread : \E k \in Frames(u) :
                                  /\ stack[u][k].run = r[1]
                                  /\ Begun(stack[u][k])
                                  /\ NextHandle(stack[u][k].core, u) = d
        BY DEF RowsPending, NextHandle, MyHandle, Frames
    <2>1. r \in conn[d].rows
        OBVIOUS
    <2>2. /\ r[1] \in 1..Len(done)
          /\ done[r[1]] # "no"
          /\ done[r[1]] = "open" =>
                \E u \in Thread : \E k \in Frames(u) :
                    /\ stack[u][k].run = r[1]
                    /\ Begun(stack[u][k])
                    /\ MyHandle(stack[u][k].core, u) = d
        BY <1>0, <2>1 DEF RowsPending
    <2> QED
        BY <2>2
<1>4. LiveHasRows'
    <2> SUFFICES ASSUME NEW u \in Thread, NEW k \in Frames(u),
                        stack[u][k].own, stack[u][k].at \in {"block", "commit"}, ~ Doomed(u)
                 PROVE  /\ conn'[NextHandle(stack[u][k].core, u)].tx
                        /\ \A n \in 1..stack[u][k].written :
                             <<stack[u][k].run, n>> \in conn'[NextHandle(stack[u][k].core, u)].rows
        BY DEF LiveHasRows, NextHandle, MyHandle, Frames, Doomed, Top
    <2>1. Begun(stack[u][k])
        BY DEF Begun
    <2>2. /\ conn[MyHandle(stack[u][k].core, u)].tx
          /\ \A n \in 1..stack[u][k].written :
               <<stack[u][k].run, n>> \in conn[MyHandle(stack[u][k].core, u)].rows
        BY <1>0 DEF LiveHasRows
    <2> QED
        BY <2>1, <2>2
<1>5. RowsKnown' /\ AllOrNothing'
    <2>1. CASE db' = db
        BY <1>0, <2>1 DEF RowsKnown, AllOrNothing, RowsOf
    <2>2. ASSUME NEW c \in Conn, db' = db \cup conn[c].rows,
                 \A u \in Thread : \A k \in Frames(u) :
                     Begun(stack[u][k]) => MyHandle(stack[u][k].core, u) # c
          PROVE  RowsKnown' /\ AllOrNothing'
        <3>1. \A r \in conn[c].rows : r[1] \in 1..Len(done) /\ done[r[1]] \notin {"open", "no"}
            BY <1>0, <2>2 DEF RowsPending
        <3>2. RowsKnown'
            BY <1>0, <2>2, <3>1 DEF RowsKnown
        <3>3. ASSUME NEW i \in DOMAIN done
              PROVE  /\ done[i] \in {"open", "no"} => RowsOf(i) \cap db' = {}
                     /\ done[i] = "yes" => RowsOf(i) \subseteq db'
            <4>1. done[i] \in {"open", "no"} => RowsOf(i) \cap conn[c].rows = {}
                BY <3>1, RowOf
            <4> QED
                BY <1>0, <2>2, <4>1 DEF AllOrNothing
        <3> QED
            BY <3>2, <3>3 DEF AllOrNothing, RowsOf
    <2> QED
        BY <2>1, <2>2
<1> QED
    BY <1>1, <1>2, <1>3, <1>4, <1>5 DEF RowsInv

\* Nothing happens to the blocks.
LEMMA QuietBlock ==
    ASSUME BlockInv, UNCHANGED <<m_mutex, stack, done>>
    PROVE  BlockInv'
    BY DEF BlockInv, BlockTypes, RunsKnown, Placed, Locked, RunsApart, EmbeddedApart, Frames, Begun

-----------------------------------------------------------------------------
(* The actions                                                             *)

\* getTransaction takes a handle from the pool.
LEMMA GetTransactionPreserves ==
    ASSUME IInv, NEW x \in Trans, GetTransaction(x)
    PROVE  IInv'
<1>0. /\ HandleInv /\ HandleTypes /\ FreeIsIdle /\ HandlesApart /\ ClosedIsIdle /\ BlockInv /\ HasHandle
    BY DEF IInv, HandleInv, RowsInv
<1>1. PICK c \in Conn \ Held : trans' = [trans EXCEPT ![x].m_handle = c]
    BY DEF GetTransaction
<1>2. UNCHANGED <<db, conn, threaded, m_mutex, stack, done>> /\ trans[x].m_handle = None
    BY DEF GetTransaction, Exists
<1>3. /\ trans'[x].m_handle = c
      /\ trans'[x].m_isInTransaction = trans[x].m_isInTransaction
      /\ \A y \in Trans : y # x => trans'[y] = trans[y]
      /\ trans' \in [Trans -> [m_handle : Conn \cup {None}, m_isInTransaction : BOOLEAN]]
    BY <1>0, <1>1 DEF HandleTypes
<1>4. HandleTypes'
    BY <1>0, <1>2, <1>3 DEF HandleTypes
<1>5. FreeIsIdle'
    <2>1. \A d \in Conn : d \notin Held' => d \notin Held
        BY <1>0, <1>2, <1>3, NoneIsNone DEF Held
    <2> QED
        BY <1>0, <1>2, <2>1 DEF FreeIsIdle
<1>6. HandlesApart'
    <2>1. \A t \in Thread : threaded[t] # c
        BY DEF Held
    <2>2. \A y \in Trans : trans[y].m_handle # c
        BY DEF Held
    <2> QED
        BY <1>0, <1>2, <1>3, <2>1, <2>2 DEF HandlesApart
<1>7. ClosedIsIdle'
    <2>1. conn[c] = Idle \/ conn[c].left
        BY <1>0 DEF FreeIsIdle
    <2> QED
        BY <1>0, <1>2, <1>3, <2>1 DEF ClosedIsIdle
<1>8. BlockInv'
    BY <1>0, <1>2, QuietBlock
<1>9. RowsInv'
    <2>1. ASSUME NEW u \in Thread, NEW k \in Frames(u)
          PROVE  stack[u][k].core \in Core /\ stack[u][k].core # x
        BY <1>0, <1>2, FrameTyped DEF HasHandle, BlockInv
    <2>2. ASSUME NEW u \in Thread, NEW k \in Frames(u)
          PROVE  /\ stack[u][k].core \in Trans => trans'[stack[u][k].core].m_handle # None
                 /\ NextHandle(stack[u][k].core, u) = MyHandle(stack[u][k].core, u)
        BY <1>0, <1>2, <1>3, <2>1 DEF HasHandle, NextHandle, MyHandle, Core
    <2> QED
        BY <1>2, <1>8, <2>2, OutsideRows
<1> QED
    BY <1>4, <1>5, <1>6, <1>7, <1>8, <1>9 DEF IInv, HandleInv

\* A Transaction object is destroyed: its handle goes back rolled back, or closed.
LEMMA DestroyPreserves ==
    ASSUME IInv, NEW x \in Trans, Destroy(x)
    PROVE  IInv'
<1>0. /\ HandleInv /\ HandleTypes /\ FreeIsIdle /\ HandlesApart /\ ClosedIsIdle
      /\ BlockInv /\ BlockTypes /\ HasHandle
    BY DEF IInv, HandleInv, RowsInv, BlockInv
<1> DEFINE c == trans[x].m_handle
<1>1. /\ trans' = [trans EXCEPT ![x] = Closed]
      /\ UNCHANGED <<threaded, m_mutex, stack, done>>
      /\ c # None
    BY DEF Destroy, Exists
<1>2. c \in Conn
    BY <1>0, <1>1 DEF HandleTypes
<1>3. /\ trans'[x] = Closed
      /\ \A y \in Trans : y # x => trans'[y] = trans[y]
      /\ trans' \in [Trans -> [m_handle : Conn \cup {None}, m_isInTransaction : BOOLEAN]]
    BY <1>0, <1>1 DEF HandleTypes, Closed
<1>4. /\ db' = db
      /\ \A d \in Conn : d # c => conn'[d] = conn[d]
      /\ conn'[c] = Idle \/ conn'[c].left
      /\ conn'[c].rows \subseteq conn[c].rows
      /\ conn' \in [Conn -> [tx : BOOLEAN, rows : SUBSET Row, m_aggregation : BOOLEAN, left : BOOLEAN]]
    <2>1. CASE trans[x].m_isInTransaction
        <3>1. PICK ok \in BOOLEAN : ExecRollback(c, ok)
            BY <2>1 DEF Destroy
        <3>2. Ran(c) /\ conn'[c] = Idle /\ db' = db
            BY <1>0, <1>2, <3>1, RollbackRan
        <3> QED
            BY <3>2 DEF Ran, Idle
    <2>2. CASE ~ trans[x].m_isInTransaction
        <3>1. db' = db /\ conn' = conn
            BY <2>2 DEF Destroy
        <3>2. conn[c] = Idle \/ conn[c].left
            BY <1>0, <1>1, <2>2 DEF ClosedIsIdle
        <3> QED
            BY <1>0, <3>1, <3>2 DEF HandleTypes
    <2> QED
        BY <2>1, <2>2
<1>5. \A y \in Trans : y # x => trans[y].m_handle # c
    BY <1>0, <1>1 DEF HandlesApart
<1>6. \A t \in Thread : threaded[t] # c
    BY <1>0, <1>1 DEF HandlesApart
<1>7. Closed.m_handle = None
    BY DEF Closed
<1> HIDE DEF c
<1>8. HandleTypes'
    BY <1>0, <1>1, <1>3, <1>4 DEF HandleTypes
<1>9. FreeIsIdle'
    <2>1. \A d \in Conn : d \notin Held' /\ d # c => d \notin Held
        BY <1>1, <1>3 DEF Held, c
    <2> QED
        BY <1>0, <1>4, <2>1 DEF FreeIsIdle
<1>10. HandlesApart'
    BY <1>0, <1>1, <1>3, <1>7 DEF HandlesApart
<1>11. ClosedIsIdle'
    <2> SUFFICES ASSUME NEW y \in Trans, trans'[y].m_handle # None, ~ trans'[y].m_isInTransaction
                 PROVE  conn'[trans'[y].m_handle] = Idle \/ conn'[trans'[y].m_handle].left
        BY DEF ClosedIsIdle
    <2>1. y # x /\ trans'[y] = trans[y]
        BY <1>3, <1>7
    <2>2. trans[y].m_handle \in Conn /\ trans[y].m_handle # c
        BY <1>0, <1>5, <2>1 DEF HandleTypes
    <2> QED
        BY <1>0, <1>4, <2>1, <2>2 DEF ClosedIsIdle
<1>12. BlockInv'
    BY <1>0, <1>1, QuietBlock
<1>13. RowsInv'
    <2>1. ASSUME NEW u \in Thread, NEW k \in Frames(u)
          PROVE  stack[u][k].core \in Core /\ stack[u][k].core # x
        <3>1. k \in DOMAIN stack[u]
            BY <1>0 DEF BlockTypes, Frames
        <3> QED
            BY <1>0, <3>1, FrameTyped DEF Destroy, InUse
    <2>2. ASSUME NEW u \in Thread, NEW k \in Frames(u)
          PROVE  /\ stack[u][k].core \in Trans => trans'[stack[u][k].core].m_handle # None
                 /\ NextHandle(stack[u][k].core, u) = MyHandle(stack[u][k].core, u)
                 /\ MyHandle(stack[u][k].core, u) # c
        BY <1>0, <1>1, <1>3, <1>5, <1>6, <2>1 DEF HasHandle, NextHandle, MyHandle, Core
    <2>3. ASSUME NEW u \in Thread, NEW k \in Frames(u), Begun(stack[u][k])
          PROVE  conn'[MyHandle(stack[u][k].core, u)] = conn[MyHandle(stack[u][k].core, u)]
        BY <1>4, <2>2, <2>3, BegunHandle
    <2>4. \A d \in Conn : conn'[d].rows \subseteq conn[d].rows
        BY <1>4
    <2> QED
        BY <1>1, <1>4, <1>12, <2>2, <2>3, <2>4, OutsideRows
<1> QED
    BY <1>8, <1>9, <1>10, <1>11, <1>12, <1>13 DEF IInv, HandleInv

\* A thread ends, and its handle goes back to the pool as it is.
LEMMA ThreadExitPreserves ==
    ASSUME IInv, NEW t \in Thread, ThreadExit(t)
    PROVE  IInv'
<1>0. /\ HandleInv /\ HandleTypes /\ FreeIsIdle /\ HandlesApart /\ ClosedIsIdle
      /\ BlockInv /\ BlockTypes /\ HasHandle
    BY DEF IInv, HandleInv, RowsInv, BlockInv
<1> DEFINE c == threaded[t]
<1>1. /\ threaded' = [threaded EXCEPT ![t] = None]
      /\ conn' = [conn EXCEPT ![c].left = TRUE]
      /\ UNCHANGED <<db, trans, m_mutex, stack, done>>
      /\ stack[t] = <<>> /\ c \in Conn
    BY <1>0 DEF ThreadExit, HandleTypes
<1>2. /\ threaded'[t] = None
      /\ \A u \in Thread : u # t => threaded'[u] = threaded[u]
      /\ threaded' \in [Thread -> Conn \cup {None}]
    BY <1>0, <1>1 DEF HandleTypes
<1>3. /\ \A d \in Conn : d # c => conn'[d] = conn[d]
      /\ conn'[c].left
      /\ \A d \in Conn : conn'[d].rows = conn[d].rows /\ conn'[d].tx = conn[d].tx
      /\ conn' \in [Conn -> [tx : BOOLEAN, rows : SUBSET Row, m_aggregation : BOOLEAN, left : BOOLEAN]]
    BY <1>0, <1>1 DEF HandleTypes
<1>4. HandleTypes'
    BY <1>0, <1>1, <1>2, <1>3 DEF HandleTypes
<1> HIDE DEF c
<1>5. FreeIsIdle'
    <2>1. \A d \in Conn : d \notin Held' /\ d # c => d \notin Held
        BY <1>1, <1>2 DEF Held, c
    <2> QED
        BY <1>0, <1>3, <2>1 DEF FreeIsIdle
<1>6. HandlesApart'
    BY <1>0, <1>1, <1>2 DEF HandlesApart
<1>7. ClosedIsIdle'
    BY <1>0, <1>1, <1>3 DEF ClosedIsIdle, HandleTypes
<1>8. BlockInv'
    BY <1>0, <1>1, QuietBlock
<1>9. RowsInv'
    <2>1. ASSUME NEW u \in Thread, NEW k \in Frames(u)
          PROVE  stack[u][k].core \in Core /\ u # t
        BY <1>0, <1>1, FrameTyped DEF Frames
    <2>2. ASSUME NEW u \in Thread, NEW k \in Frames(u)
          PROVE  /\ stack[u][k].core \in Trans => trans'[stack[u][k].core].m_handle # None
                 /\ NextHandle(stack[u][k].core, u) = MyHandle(stack[u][k].core, u)
        BY <1>0, <1>1, <1>2, <2>1 DEF HasHandle, NextHandle, MyHandle, Core
    <2>3. ASSUME NEW u \in Thread, NEW k \in Frames(u), Begun(stack[u][k])
          PROVE  /\ conn'[MyHandle(stack[u][k].core, u)].tx = conn[MyHandle(stack[u][k].core, u)].tx
                 /\ conn'[MyHandle(stack[u][k].core, u)].rows = conn[MyHandle(stack[u][k].core, u)].rows
        BY <1>3, <2>3, BegunHandle
    <2> QED
        BY <1>1, <1>3, <1>8, <2>2, <2>3, OutsideRows
<1> QED
    BY <1>4, <1>5, <1>6, <1>7, <1>8, <1>9 DEF IInv, HandleInv

\* A begin, commit or rollback that a program makes outside of any block.
LEMMA SinglePreserves ==
    ASSUME IInv, NEW t \in Thread, NEW core \in Core, Single(t, core)
    PROVE  IInv'
<1>0. /\ HandleInv /\ HandleTypes /\ BlockInv /\ BlockTypes /\ HasHandle
    BY DEF IInv, HandleInv, RowsInv, BlockInv
<1>1. /\ stack[t] = <<>> /\ Exists(core) /\ Synchronized(core, t)
      /\ UNCHANGED <<m_mutex, stack, done>>
    BY DEF Single
<1>2. BlockInv'
    BY <1>0, <1>1, QuietBlock
<1>3. ASSUME NEW w \in Thread, NEW i \in Frames(w)
      PROVE  /\ w # t
             /\ stack[w][i].core = core /\ core \in Trans => stack[w][i].embedded
             /\ stack[w][i].core \in Core
    <2>1. i \in DOMAIN stack[w]
        BY <1>0 DEF BlockTypes, Frames
    <2>2. w # t
        BY <1>1 DEF Frames
    <2> QED
        BY <1>0, <1>1, <2>1, <2>2, FrameTyped, CoreAssumption DEF Synchronized
<1>4. ASSUME NEW c \in HandleOf(core, t), NEW u \in Thread, NEW k \in Frames(u), Begun(stack[u][k])
      PROVE  MyHandle(stack[u][k].core, u) # c
    BY <1>1, <1>3, <1>4, Mine
<1>5. ASSUME Others(core, t), NEW u \in Thread, NEW k \in Frames(u)
      PROVE  /\ stack[u][k].core \in Trans => trans'[stack[u][k].core].m_handle # None
             /\ NextHandle(stack[u][k].core, u) = MyHandle(stack[u][k].core, u)
    BY <1>0, <1>3, <1>5, OthersKeep DEF HasHandle
<1>6. ASSUME Others(core, t), HandleInv',
             NEW c \in HandleOf(core, t), Ran(c), conn'[c].rows \subseteq conn[c].rows,
             db' = db \/ db' = db \cup conn[c].rows
      PROVE  IInv'
    <2>1. c \in Conn
        BY <1>0, <1>1, HandleOfFacts
    <2>2. ASSUME NEW u \in Thread, NEW k \in Frames(u), Begun(stack[u][k])
          PROVE  conn'[MyHandle(stack[u][k].core, u)] = conn[MyHandle(stack[u][k].core, u)]
        BY <1>4, <1>6, <2>2, BegunHandle DEF Ran
    <2>3. \A d \in Conn : conn'[d].rows \subseteq conn[d].rows
        BY <1>6 DEF Ran
    <2>4. RowsInv'
        BY <1>1, <1>2, <1>4, <1>5, <1>6, <2>1, <2>2, <2>3, OutsideRows
    <2> QED
        BY <1>2, <1>6, <2>4 DEF IInv
<1>7. ASSUME Others(core, t), HandleInv', UNCHANGED <<db, conn>>
      PROVE  IInv'
    <2>1. RowsInv'
        BY <1>1, <1>2, <1>5, <1>7, OutsideRows
    <2> QED
        BY <1>2, <1>7, <2>1 DEF IInv
<1>8. ASSUME NEW ok \in BOOLEAN, Begin(core, t, ok) PROVE IInv'
    BY <1>0, <1>1, <1>6, <1>7, <1>8, BeginHandles
<1>9. ASSUME NEW ok \in BOOLEAN, Commit(core, t, ok) PROVE IInv'
    BY <1>0, <1>1, <1>6, <1>7, <1>9, CommitHandles
<1>10. ASSUME NEW ok \in BOOLEAN, Rollback(core, t, ok) PROVE IInv'
    <2>1. Idle.rows = {}
        BY DEF Idle
    <2> QED
        BY <1>0, <1>1, <1>6, <1>7, <1>10, <2>1, RollbackHandles
<1> QED
    BY <1>8, <1>9, <1>10 DEF Single

\* runTransaction is called.
LEMMA CallRunPreserves ==
    ASSUME IInv, NEW t \in Thread, NEW core \in Core, CallRun(t, core)
    PROVE  IInv'
<1>0. BlockInv /\ BlockTypes
    BY DEF IInv, BlockInv
<1>1. /\ stack[t] = <<>> \/ At(t, "block")
      /\ Exists(core) /\ Synchronized(core, t) /\ Len(done) < MaxRuns
      /\ Push(t, core, TRUE, FALSE)
      /\ UNCHANGED <<db, conn, threaded, trans, m_mutex>>
    BY DEF CallRun, CanCall
<1>2. Pushed(t, core, TRUE, FALSE)
    BY <1>0, <1>1, PushPushes
<1>3. BlockInv'
    <2>1. m_mutex' \in [Trans -> Thread \cup {None}]
        BY <1>0, <1>1 DEF BlockTypes
    <2> QED
        BY <1>0, <1>1, <1>2, <2>1, PushedBlock
<1>4. HandleInv' /\ RowsInv'
    BY <1>1, <1>2, <1>3, PushRows
<1> QED
    BY <1>3, <1>4 DEF IInv

\* runEmbeddedTransaction is called.
LEMMA CallEmbeddedPreserves ==
    ASSUME IInv, NEW t \in Thread, NEW core \in Core, CallEmbedded(t, core)
    PROVE  IInv'
<1>0. BlockInv /\ BlockTypes /\ HandleTypes
    BY DEF IInv, BlockInv, HandleInv
<1>1. /\ stack[t] = <<>> \/ At(t, "block")
      /\ Exists(core) /\ CanLock(core, t) /\ Len(done) < MaxRuns
      /\ UNCHANGED <<db, conn, threaded, trans>>
    BY DEF CallEmbedded, CanCall
<1>2. PICK own \in BOOLEAN : Push(t, core, own, TRUE)
    <2>1. CASE core = "database"
        BY <2>1 DEF CallEmbedded
    <2>2. CASE core \in Trans
        <3>1. (~ trans[core].m_isInTransaction) \in BOOLEAN
            OBVIOUS
        <3> QED
            BY <2>2, <3>1, CoreAssumption DEF CallEmbedded
    <2> QED
        BY <2>1, <2>2 DEF Core
<1>3. Pushed(t, core, own, TRUE)
    BY <1>0, <1>1, <1>2, PushPushes
<1>4. /\ m_mutex' \in [Trans -> Thread \cup {None}]
      /\ \A x \in Trans : m_mutex'[x] = IF x = core THEN t ELSE m_mutex[x]
    <2>1. CASE core = "database"
        BY <1>0, <2>1, CoreAssumption DEF CallEmbedded, BlockTypes
    <2>2. CASE core # "database"
        BY <1>0, <2>2 DEF CallEmbedded, BlockTypes, Core
    <2> QED
        BY <2>1, <2>2
<1>5. BlockInv'
    BY <1>0, <1>1, <1>3, <1>4, PushedBlock
<1>6. HandleInv' /\ RowsInv'
    BY <1>1, <1>3, <1>5, PushRows
<1> QED
    BY <1>5, <1>6 DEF IInv

\* What is known of the innermost block.
LEMMA TopFacts ==
    ASSUME IInv, NEW t \in Thread, stack[t] # <<>>
    PROVE  /\ Top(t).core \in Core /\ Exists(Top(t).core)
           /\ Top(t).run \in Run
           /\ Top(t).written \in 0..BlockRows /\ Top(t).written \in Nat /\ BlockRows \in Nat
           /\ Top(t).at = "begin" => Top(t).written = 0 /\ Top(t).own
           /\ Top(t).at \in {"commit", "rollback"} => Begun(Top(t))
           /\ ~ Top(t).own => Top(t).at \in {"block", "failed"}
           /\ Top(t).embedded /\ Top(t).core \in Trans => Top(t).written = 0 /\ ~ Begun(Top(t))
           /\ CanLock(Top(t).core, t) => ~ (Top(t).embedded /\ Top(t).core \in Trans)
           /\ Top(t).own \in BOOLEAN
<1>0. BlockTypes /\ Placed /\ Locked
    BY DEF IInv, BlockInv
<1>1. /\ Len(stack[t]) \in Frames(t) /\ Top(t) = stack[t][Len(stack[t])] /\ Top(t) \in Frame
    BY <1>0, TopIsFrame
<1>2. Top(t).core \in Core /\ Exists(Top(t).core)
    BY TopHandle
<1>3. /\ Top(t).run \in Run /\ Top(t).written \in 0..BlockRows /\ BlockRows \in Nat
      /\ Top(t).own \in BOOLEAN
    BY <1>1, CoreAssumption DEF Frame
<1>4. /\ Top(t).at = "begin" => Top(t).written = 0
      /\ ~ Top(t).own => Top(t).at \in {"block", "failed"}
    BY <1>0, <1>1 DEF Placed
<1>5. Top(t).embedded /\ Top(t).core \in Trans =>
          m_mutex[Top(t).core] = t /\ Top(t).written = 0 /\ ~ Begun(Top(t))
    BY <1>0, <1>1 DEF Locked
<1> QED
    BY <1>2, <1>3, <1>4, <1>5, NoneIsNone DEF Begun, CanLock

\* A block begins its transaction.
LEMMA RunBeginPreserves ==
    ASSUME IInv, NEW t \in Thread, RunBegin(t)
    PROVE  IInv'
<1>0. BlockInv /\ BlockTypes /\ HandleInv
    BY DEF IInv, BlockInv
<1>1. stack[t] # <<>> /\ Top(t).at = "begin" /\ At(t, "begin")
    BY DEF RunBegin, At
<1>2. CASE Begin(Top(t).core, t, TRUE) /\ Goto(t, "block") /\ UNCHANGED <<m_mutex, done>>
    <2>1. Moved(t, "block", Top(t).written)
        BY <1>0, <1>1, <1>2, GotoMoves
    <2>2. CanLock(Top(t).core, t)
        BY <1>2 DEF Begin
    <2>3. BlockInv'
        BY <1>0, <1>1, <1>2, <2>1, <2>2, TopFacts, MovedBlock
    <2>4. RowsInv'
        BY <1>1, <1>2, <2>1, <2>3, BeginRows
    <2>5. HandleInv'
        BY <1>0, <1>1, <1>2, TopFacts, BeginHandles
    <2> QED
        BY <2>3, <2>4, <2>5 DEF IInv
<1>3. CASE Begin(Top(t).core, t, FALSE) /\ Return(t, "no")
    <2>1. Ended(t, "no")
        BY <1>0, <1>1, <1>3, ReturnEnds
    <2>2. BlockInv'
        BY <1>0, <1>1, <2>1, EndedBlock
    <2>3. HandleInv' /\ RowsInv'
        BY <1>1, <1>3, <2>1, <2>2, BeginFailsRows
    <2> QED
        BY <2>2, <2>3 DEF IInv
<1> QED
    BY <1>2, <1>3 DEF RunBegin

\* A block writes a row.
LEMMA BlockWritePreserves ==
    ASSUME IInv, NEW t \in Thread, BlockWrite(t)
    PROVE  IInv'
<1> DEFINE row == <<Top(t).run, Top(t).written + 1>>
<1>0. BlockInv /\ BlockTypes /\ HandleInv /\ HandleTypes
    BY DEF IInv, BlockInv, HandleInv
<1>1. /\ stack[t] # <<>> /\ Top(t).at = "block" /\ At(t, "block") /\ Top(t).written < BlockRows
      /\ UNCHANGED <<m_mutex, done>>
    BY DEF BlockWrite, At
<1>2. CASE /\ Write(Top(t).core, t, row, TRUE)
           /\ stack' = [stack EXCEPT ![t][Len(stack[t])].written = @ + 1]
    <2>1. Moved(t, "block", Top(t).written + 1)
        BY <1>0, <1>1, <1>2, WrittenMoves
    <2>2. CanLock(Top(t).core, t)
        BY <1>2 DEF Write
    <2>3. Top(t).written + 1 \in 0..BlockRows
        BY <1>1, TopFacts
    <2>4. BlockInv'
        BY <1>0, <1>1, <2>1, <2>2, <2>3, TopFacts, MovedBlock
    <2>5. HandleInv' /\ RowsInv'
        BY <1>1, <1>2, <2>1, <2>4, WriteRows
    <2> QED
        BY <2>4, <2>5 DEF IInv
<1>3. CASE Write(Top(t).core, t, row, FALSE) /\ Goto(t, "failed")
    <2>1. Moved(t, "failed", Top(t).written)
        BY <1>0, <1>1, <1>3, GotoMoves
    <2>2. CanLock(Top(t).core, t)
        BY <1>3 DEF Write
    <2>3. BlockInv'
        BY <1>0, <1>1, <2>1, <2>2, TopFacts, MovedBlock
    <2>4. row \in Row
        <3>1. Top(t).run \in Run /\ Top(t).written + 1 \in 1..BlockRows
            BY <1>1, TopFacts
        <3> QED
            BY <3>1 DEF Row
    <2> HIDE DEF row
    <2>5. /\ HandleInv' /\ Others(Top(t).core, t) /\ UNCHANGED <<db, threaded>>
          /\ \/ conn' = conn
             \/ \E c \in HandleOf(Top(t).core, t) : Ran(c) /\ conn'[c].rows \subseteq conn[c].rows
        BY <1>0, <1>1, <1>3, <2>4, TopFacts, WriteHandles
    <2>6. Begun(Top(t)) \/ ~ Top(t).own
        BY <1>1 DEF Begun
    <2>7. RowsInv'
        BY <1>1, <2>1, <2>2, <2>3, <2>5, <2>6, FailRows
    <2> QED
        BY <2>3, <2>5, <2>7 DEF IInv
<1> QED
    BY <1>2, <1>3 DEF BlockWrite

\* A block that has begun or joined goes to its failure, or from it to its
\* rollback, and nothing else happens.
LEMMA FailPreserves ==
    ASSUME IInv, NEW t \in Thread, stack[t] # <<>>, NEW place \in {"failed", "rollback"},
           Goto(t, place), UNCHANGED <<db, conn, threaded, trans, m_mutex, done>>,
           Begun(Top(t)) \/ (~ Top(t).own /\ place = "failed")
    PROVE  IInv'
<1>0. BlockInv /\ BlockTypes /\ HandleInv /\ HandleTypes
    BY DEF IInv, BlockInv, HandleInv
<1>1. Moved(t, place, Top(t).written)
    BY <1>0, GotoMoves
<1>2. ~ Top(t).own => place = "failed"
    BY DEF Begun
<1>3. Top(t).embedded /\ Top(t).core \in Trans => Top(t).written = 0 /\ ~ Top(t).own
    BY TopFacts
<1>4. BlockInv'
    BY <1>0, <1>1, <1>2, <1>3, TopFacts, MovedBlock
<1>5. HandleInv' /\ Others(Top(t).core, t)
    BY <1>0, QuietHandles, TopFacts, UnchangedOthers
<1>6. RowsInv'
    BY <1>1, <1>4, <1>5, FailRows
<1> QED
    BY <1>4, <1>5, <1>6 DEF IInv

\* The function of a block returns YES.
LEMMA BlockEndsPreserves ==
    ASSUME IInv, NEW t \in Thread, BlockEnds(t)
    PROVE  IInv'
<1>0. BlockInv /\ BlockTypes /\ HandleInv
    BY DEF IInv, BlockInv
<1>1. /\ stack[t] # <<>>
      /\ \/ Top(t).at = "failed"
         \/ Top(t).at = "block" /\ At(t, "block") /\ ~ At(t, "failed") /\ Top(t).written = BlockRows
      /\ UNCHANGED <<db, conn, threaded, trans>>
    BY DEF BlockEnds, At
<1>2. CASE Top(t).own /\ Top(t).at = "failed"
    <2>1. Goto(t, "rollback") /\ UNCHANGED <<m_mutex, done>>
        BY <1>1, <1>2 DEF BlockEnds, At
    <2> QED
        BY <1>1, <1>2, <2>1, FailPreserves DEF Begun
<1>3. CASE Top(t).own /\ Top(t).at # "failed"
    <2>1. Goto(t, "commit") /\ UNCHANGED <<m_mutex, done>>
        BY <1>1, <1>3 DEF BlockEnds, At
    <2>2. Moved(t, "commit", Top(t).written)
        BY <1>0, <1>1, <2>1, GotoMoves
    <2>3. ~ (Top(t).embedded /\ Top(t).core \in Trans)
        BY <1>1, <1>3, TopFacts DEF Begun
    <2>4. BlockInv'
        BY <1>0, <1>1, <1>3, <2>1, <2>2, <2>3, TopFacts, MovedBlock
    <2>5. HandleInv' /\ RowsInv'
        BY <1>1, <1>3, <2>1, <2>2, <2>4, ToCommitRows
    <2> QED
        BY <2>4, <2>5 DEF IInv
<1>4. CASE ~ Top(t).own
    <2>1. PICK result \in {"yes", "no"} : Return(t, result) /\ (result = "no" \/ ~ At(t, "failed"))
        BY <1>4 DEF BlockEnds
    <2>2. Ended(t, result)
        BY <1>0, <1>1, <2>1, ReturnEnds
    <2>3. BlockInv'
        BY <1>0, <1>1, <2>2, EndedBlock
    <2>4. result = "no" \/ ~ Doomed(t)
        BY <1>1, <2>1 DEF At, Doomed
    <2>5. HandleInv' /\ RowsInv'
        BY <1>1, <1>4, <2>2, <2>3, <2>4, JoinedRows
    <2> QED
        BY <2>3, <2>5 DEF IInv
<1> QED
    BY <1>2, <1>3, <1>4

\* The function of a block returns NO.
LEMMA BlockGivesUpPreserves ==
    ASSUME IInv, NEW t \in Thread, BlockGivesUp(t)
    PROVE  IInv'
<1>1. stack[t] # <<>> /\ Top(t).at = "block"
    BY DEF BlockGivesUp, At
<1> QED
    BY <1>1, FailPreserves DEF BlockGivesUp, Begun

\* A block commits.
LEMMA RunCommitPreserves ==
    ASSUME IInv, NEW t \in Thread, RunCommit(t)
    PROVE  IInv'
<1>0. BlockInv /\ BlockTypes /\ HandleInv
    BY DEF IInv, BlockInv
<1>1. stack[t] # <<>> /\ Top(t).at = "commit" /\ At(t, "commit") /\ Begun(Top(t))
    BY TopFacts DEF RunCommit, At
<1>2. CASE Commit(Top(t).core, t, TRUE) /\ Return(t, "yes")
    <2>1. Ended(t, "yes")
        BY <1>0, <1>1, <1>2, ReturnEnds
    <2>2. BlockInv'
        BY <1>0, <1>1, <2>1, EndedBlock
    <2>3. HandleInv' /\ RowsInv'
        BY <1>1, <1>2, <2>1, <2>2, CommitRows
    <2> QED
        BY <2>2, <2>3 DEF IInv
<1>3. CASE Commit(Top(t).core, t, FALSE) /\ Goto(t, "rollback") /\ UNCHANGED <<m_mutex, done>>
    <2>1. Moved(t, "rollback", Top(t).written)
        BY <1>0, <1>1, <1>3, GotoMoves
    <2>2. CanLock(Top(t).core, t)
        BY <1>3 DEF Commit
    <2>3. BlockInv'
        BY <1>0, <1>1, <1>3, <2>1, <2>2, TopFacts, MovedBlock DEF Begun
    <2>4. /\ HandleInv' /\ Others(Top(t).core, t) /\ UNCHANGED <<db, threaded>>
          /\ \/ conn' = conn
             \/ \E c \in HandleOf(Top(t).core, t) : Ran(c) /\ conn'[c].rows \subseteq conn[c].rows
        BY <1>0, <1>1, <1>3, TopFacts, CommitHandles
    <2>5. RowsInv'
        BY <1>1, <1>3, <2>1, <2>2, <2>3, <2>4, FailRows
    <2> QED
        BY <2>3, <2>4, <2>5 DEF IInv
<1> QED
    BY <1>2, <1>3 DEF RunCommit

\* A block rolls back.
LEMMA RunRollbackPreserves ==
    ASSUME IInv, NEW t \in Thread, RunRollback(t)
    PROVE  IInv'
<1>0. BlockInv
    BY DEF IInv
<1>1. stack[t] # <<>> /\ At(t, "rollback") /\ Return(t, "no")
    BY DEF RunRollback, At
<1>2. PICK ok \in BOOLEAN : Rollback(Top(t).core, t, ok)
    BY DEF RunRollback
<1>3. Ended(t, "no")
    BY <1>0, <1>1, ReturnEnds
<1>4. BlockInv'
    BY <1>0, <1>1, <1>3, EndedBlock
<1>5. HandleInv' /\ RowsInv'
    BY <1>1, <1>2, <1>3, <1>4, RollbackRows
<1> QED
    BY <1>4, <1>5 DEF IInv

\* Initially nobody has a handle and nobody is in a block.
LEMMA InitEstablishes == Init => IInv
<1> SUFFICES ASSUME Init PROVE IInv
    OBVIOUS
<1>1. HandleInv
    BY IdleTyped DEF Init, HandleInv, HandleTypes, FreeIsIdle, HandlesApart, ClosedIsIdle, Closed
<1>2. \A t \in Thread : Frames(t) = {}
    <2> SUFFICES ASSUME NEW t \in Thread PROVE Frames(t) = {}
        OBVIOUS
    <2>1. stack[t] = << >>
        BY DEF Init
    <2>2. Frames(t) = 1 .. 0
        BY <2>1 DEF Frames
    <2> QED
        BY <2>2
<1>3. BlockTypes
    BY DEF Init, BlockTypes
<1>4. BlockInv
    BY <1>2, <1>3 DEF BlockInv, RunsKnown, Placed, Locked, RunsApart, EmbeddedApart
<1>5. RowsInv
    BY <1>2 DEF Init, Idle, RowsInv, HasHandle, BegunApart, RowsPending, LiveHasRows, RowsKnown, AllOrNothing
<1> QED
    BY <1>1, <1>4, <1>5 DEF IInv

\* Every step keeps the three parts.
LEMMA StepPreserves == IInv /\ [Next]_vars => IInv'
<1> SUFFICES ASSUME IInv, [Next]_vars PROVE IInv'
    OBVIOUS
<1>1. ASSUME NEW x \in Trans, GetTransaction(x) \/ Destroy(x) PROVE IInv'
    BY <1>1, GetTransactionPreserves, DestroyPreserves
<1>2. ASSUME NEW t \in Thread, NEW core \in Core,
             Single(t, core) \/ CallRun(t, core) \/ CallEmbedded(t, core)
      PROVE  IInv'
    BY <1>2, SinglePreserves, CallRunPreserves, CallEmbeddedPreserves
<1>3. ASSUME NEW t \in Thread, StepNext(t) PROVE IInv'
    BY <1>3, RunBeginPreserves, BlockWritePreserves, BlockEndsPreserves,
       RunCommitPreserves, RunRollbackPreserves DEF StepNext
<1>4. ASSUME NEW t \in Thread, BlockGivesUp(t) PROVE IInv'
    BY <1>4, BlockGivesUpPreserves
<1>5. ASSUME NEW t \in Thread, ThreadExit(t) PROVE IInv'
    BY <1>5, ThreadExitPreserves
<1>6. CASE UNCHANGED vars
    <2>1. HandleInv' /\ BlockInv'
        BY <1>6, QuietHandles, QuietBlock DEF IInv, vars
    <2>2. RowsInv'
        BY <1>6 DEF IInv, vars, RowsInv, HasHandle, BegunApart, RowsPending, LiveHasRows,
                    RowsKnown, AllOrNothing, Frames, Begun, MyHandle, Doomed, Top, RowsOf
    <2> QED
        BY <2>1, <2>2 DEF IInv
<1> QED
    BY <1>1, <1>2, <1>3, <1>4, <1>5, <1>6 DEF Next

-----------------------------------------------------------------------------
(* Theorems                                                                *)

\* The inductive invariant holds in every reachable state.
THEOREM IInvAlways == Spec => []IInv
<1> QED
    BY InitEstablishes, StepPreserves, PTL DEF Spec

\* For every number of threads, connections, Transaction objects, rows and
\* levels of blocks within blocks: what the pool has back is idle, unless a
\* thread has ended within its transaction, and an insert of several objects
\* through a WCTTransaction writes nothing.
THEOREM CoherentAlways == Spec => []Coherent
<1>1. IInv => Coherent
    <2> SUFFICES ASSUME IInv PROVE Coherent
        OBVIOUS
    <2>1. TypeOK
        BY DEF IInv, HandleInv, BlockInv, HandleTypes, BlockTypes, TypeOK
    <2>2. FreeIsIdle
        BY DEF IInv, HandleInv
    <2>3. EmbeddedWritesNothing
        BY DEF IInv, BlockInv, BlockTypes, Locked, Frames, EmbeddedWritesNothing, Embedded
    <2> QED
        BY <2>1, <2>2, <2>3 DEF Coherent
<1> QED
    BY <1>1, IInvAlways, PTL

\* Whatever statement fails, and whatever the other threads, the blocks
\* within blocks and sqlite's own rollbacks do: a run that returned YES has
\* all of its rows in the database, one that is not over or returned NO none.
THEOREM AllOrNothingAlways == Spec => []AllOrNothing
<1>1. IInv => AllOrNothing
    BY DEF IInv, RowsInv
<1> QED
    BY <1>1, IInvAlways, PTL

=============================================================================
