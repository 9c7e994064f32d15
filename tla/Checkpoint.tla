----------------------------- MODULE Checkpoint -----------------------------
(***************************************************************************)
(* The Database objects of an app, their shared pools with configs, and    *)
(* the thread that checkpoints databases in the background: a commit that  *)
(* leaves a grown log queues the path; when nobody has queued it again for *)
(* the delay, the thread opens a Database object of its own on the path    *)
(* and runs a checkpoint.                                                  *)
(*                                                                         *)
(* The app keeps one encrypted database at Home.  Each of its objects gets *)
(* the key before it commits, as setCipherKey's documentation asks.  Other *)
(* databases only compete for the queue.  A pool is given one handle.      *)
(***************************************************************************)
EXTENDS TimedQueue, PoolRegistry, Configs, FiniteSets

CONSTANTS
    Home,      \* the path of the app's database
    App,       \* the app's Database objects
    Ck,        \* the object of the checkpoint thread
    Order,     \* the orders the app gives to its own config
    MaxCalls   \* bound of the model: calls, without releases and the first setCipher of an object

ASSUME CheckpointAssumption ==
    /\ Home \in Path /\ Path \subseteq Key
    /\ App \cup {Ck} = Object /\ Ck \notin App /\ IsFiniteSet(App)

\* An order is an int.
ASSUME OrderAssumption == Order \subseteq -IntMax - 1..IntMax

VARIABLES
    configs,   \* the config list of each pool
    handle,    \* its handle
    file,      \* the database file: "none", "plain" or "encrypted"
    by,        \* history: who made it, the app or the checkpoint thread
    wal,       \* its log: more than 1000 pages or not
    missed,    \* history: a checkpoint has left the log grown, and no commit has queued it since
    ready,     \* the app's objects that have set the key
    ck,        \* where the checkpoint thread is in onExpired
    dropped,   \* history: the configs that were lost by setting another
    refused,   \* the app's last commit could not read its database
    calls

dataVars == <<configs, handle, file, by, wal, missed, ready, dropped, refused>>

vars == <<queueVars, registryVars, dataVars, ck, calls>>

NoHandle == [NewHandle EXCEPT !.ok = FALSE]

Init ==
    /\ QueueInit
    /\ RegistryInit
    /\ configs = <<>>
    /\ handle = <<>>
    /\ file = "none"
    /\ by = "none"
    /\ wal = "small"
    /\ missed = FALSE
    /\ ready = {}
    /\ ck = "idle"
    /\ dropped = {}
    /\ refused = FALSE
    /\ calls = 0

Called ==
    /\ calls < MaxCalls
    /\ calls' = calls + 1
    /\ UNCHANGED ck

Uncounted == UNCHANGED <<calls, ck>>

\* A new pool has the default configs and no handle.
NewPools ==
    IF Len(pools') = Len(pools) THEN UNCHANGED <<configs, handle>>
    ELSE configs' = Append(configs, DefaultConfigs) /\ handle' = Append(handle, NoHandle)

Open(o) ==
    /\ Called
    /\ GetPoolOfPath(o, Home)
    /\ NewPools
    /\ UNCHANGED <<queueVars, file, by, wal, missed, ready, dropped, refused>>

OpenByTag(o) ==
    /\ Called
    /\ \E tag \in Tag : GetPoolOfTag(o, tag)
    /\ UNCHANGED <<queueVars, dataVars>>

Label(o) ==
    /\ Called
    /\ \E tag \in Tag : SetTag(o, tag)
    /\ UNCHANGED <<queueVars, dataVars>>

\* A checkpoint that is busy, or fails, or copies a part leaves the log as it
\* is.  Nobody hears of it and nobody tries again.
TryCheckpoint ==
    /\ wal' \in {wal, "small"}
    /\ missed' = (wal' = "grown")

\* A pool goes with its last object, and its handle with it.  SQLite
\* checkpoints when the last connection to a file is closed.
IsDead(pool) ==
    /\ \A o \in Object : object'[o] # pool
    /\ \A p \in DOMAIN s_pools' : s_pools'[p].pool # pool

Reclaim ==
    /\ handle' = [i \in DOMAIN handle |-> IF IsDead(i) THEN NoHandle ELSE handle[i]]
    /\ IF handle' # handle /\ \A i \in DOMAIN handle' : ~ handle'[i].ok
       THEN TryCheckpoint
       ELSE UNCHANGED <<wal, missed>>

Release(o) ==
    /\ Uncounted
    /\ Recycle(o)
    /\ Reclaim
    /\ ready' = ready \ {o}
    /\ UNCHANGED <<queueVars, configs, file, by, dropped, refused>>

\* A handle that has been set up with another list is stale.
Configure(o, list) ==
    /\ object[o] # 0
    /\ configs' = [configs EXCEPT ![object[o]] = list]
    /\ handle' = [handle EXCEPT ![object[o]].current = FALSE]
    /\ dropped' = dropped \cup (Names(configs[object[o]]) \ Names(list))

SetCipher(o) ==
    /\ IF o \in ready THEN Called ELSE Uncounted
    /\ object[o] # 0
    /\ Configure(o, SetConfig(configs[object[o]], "cipher", "key"))
    /\ ready' = ready \cup {o}
    /\ UNCHANGED <<queueVars, registryVars, file, by, wal, missed, refused>>

\* The two configs are set one after the other; no other thread of the app
\* takes a handle in between here.
SetSynchronousFull(o, full) ==
    /\ Called
    /\ o \in ready
    /\ LET list == configs[object[o]]
       IN  Configure(o, SetConfig(SetConfig(list, "synchronous", IF full THEN "full" ELSE "null"),
                                  "checkpoint", IF full THEN "null" ELSE "hook"))
    /\ UNCHANGED <<queueVars, registryVars, file, by, wal, missed, ready, refused>>

\* The app has a config of its own.
SetConfigOrdered(o) ==
    /\ Called
    /\ o \in ready
    /\ \E order \in Order : Configure(o, SetConfigAt(configs[object[o]], "app", "nothing", order))
    /\ UNCHANGED <<queueVars, registryVars, file, by, wal, missed, ready, refused>>

\* flowOut: the free handle, or a new one, with the configs.
Keyed == CASE file = "none" -> BOOLEAN [] file = "plain" -> {FALSE} [] OTHER -> {TRUE}

FlowOut(pool) ==
    LET free == IF handle[pool].ok THEN handle[pool] ELSE [NewHandle EXCEPT !.current = FALSE]
    IN  IF free.current THEN free ELSE Invoke(configs[pool], free, Keyed)

\* Reading or writing makes the file, in the form the handle's key says.
Touch(h, who) ==
    IF file = "none" THEN file' = (IF h.key THEN "encrypted" ELSE "plain") /\ by' = who
    ELSE UNCHANGED <<file, by>>

\* The hook of a commit queues the path if the log has grown.
Hook(k, grown) == IF grown THEN ReQueue(k) ELSE StartThread

\* A write of the app.  The hook queues the path; without it SQLite tries to
\* checkpoint by itself.
Commit(o) ==
    /\ Called
    /\ o \in ready
    /\ LET pool == object[o]
           h == FlowOut(pool)
           works == h.ok /\ h.key \in Keyed
       IN  /\ refused' = ~ works
           /\ handle' = [handle EXCEPT ![pool] = IF h.ok THEN h ELSE NoHandle]
           /\ \/ /\ works /\ h.hook
                 /\ wal' \in {wal, "grown"}
                 /\ missed' = FALSE
                 /\ Touch(h, "app")
                 /\ Hook(Home, wal' = "grown")
              \/ /\ works /\ ~ h.hook
                 /\ wal' \in {"small", "grown"}
                 /\ missed' = (wal' = "grown")
                 /\ Touch(h, "app")
                 /\ UNCHANGED queueVars
              \/ ~ works /\ UNCHANGED <<queueVars, file, by, wal, missed>>
    /\ UNCHANGED <<registryVars, configs, ready, dropped>>

CommitElsewhere(k) ==
    /\ Called
    /\ k # Home
    /\ ReQueue(k)
    /\ UNCHANGED <<registryVars, dataVars>>

\* close, and removeFiles while nobody has the database open.
CloseAndRemove(o) ==
    /\ Called
    /\ o \in ready
    /\ \A i \in DOMAIN handle : i # object[o] => ~ handle[i].ok
    /\ handle' = [handle EXCEPT ![object[o]] = NoHandle]
    /\ file' = "none"
    /\ by' = "none"
    /\ wal' = "small"
    /\ missed' = FALSE
    /\ UNCHANGED <<queueVars, registryVars, configs, ready, dropped, refused>>

\* onExpired: Database database(path).
CkOpen ==
    /\ consumer = "expired"
    /\ ck = "idle"
    /\ IF got = Home
       THEN GetPoolOfPath(Ck, Home) /\ NewPools /\ ck' = "exec"
       ELSE UNCHANGED <<registryVars, configs, handle>> /\ ck' = "done"
    /\ UNCHANGED <<queueVars, file, by, wal, missed, ready, dropped, refused, calls>>

\* database.exec(pragma wal_checkpoint): its error goes to a local variable
\* and is dropped.
CkExec ==
    /\ ck = "exec"
    /\ ck' = "release"
    /\ LET h == FlowOut(object[Ck])
           works == h.ok /\ h.key \in Keyed
       IN  /\ handle' = [handle EXCEPT ![object[Ck]] = IF h.ok THEN h ELSE NoHandle]
           /\ IF works THEN Touch(h, "checkpoint") /\ TryCheckpoint
              ELSE UNCHANGED <<file, by, wal, missed>>
    /\ UNCHANGED <<queueVars, registryVars, configs, ready, dropped, refused, calls>>

CkRelease ==
    /\ ck = "release"
    /\ ck' = "done"
    /\ Recycle(Ck)
    /\ Reclaim
    /\ UNCHANGED <<queueVars, configs, file, by, ready, dropped, refused, calls>>

CkDone ==
    /\ ck = "done"
    /\ ck' = "idle"
    /\ Expired
    /\ UNCHANGED <<registryVars, dataVars, calls>>

CkNext == CkOpen \/ CkExec \/ CkRelease \/ CkDone

AppNext ==
    \E o \in App :
        \/ Open(o)
        \/ OpenByTag(o)
        \/ Label(o)
        \/ Release(o)
        \/ SetCipher(o)
        \/ \E full \in BOOLEAN : SetSynchronousFull(o, full)
        \/ SetConfigOrdered(o)
        \/ Commit(o)
        \/ CloseAndRemove(o)

QueueNext ==
    /\ ConsumerNext \/ WakeForNothing \/ Tick
    /\ UNCHANGED <<registryVars, dataVars, ck, calls>>

ElsewhereNext == \E k \in Key : CommitElsewhere(k)

Next == ~ undefined /\ (AppNext \/ ElsewhereNext \/ CkNext \/ QueueNext)

Spec == Init /\ [][Next]_vars

Runs(A) == A /\ ~ undefined /\ UNCHANGED <<registryVars, dataVars, ck, calls>>

\* The checkpoint thread is scheduled, and time passes.
FairSpec ==
    /\ Spec
    /\ WF_vars(Runs(ConsumerNext))
    /\ WF_vars(~ undefined /\ CkNext)
    /\ WF_vars(Runs(Tick))

-----------------------------------------------------------------------------
(* Properties                                                              *)

\* The queue, the registry and the data behind them have their types.
TypeOK ==
    /\ QueueTypeOK
    /\ RegistryTypeOK
    /\ Len(configs) = Len(pools) /\ Len(handle) = Len(pools)
    /\ handle \in Seq(Handle)
    /\ file \in {"none", "plain", "encrypted"} /\ by \in {"none", "app", "checkpoint"}
    /\ wal \in {"small", "grown"} /\ missed \in BOOLEAN /\ ck \in {"idle", "exec", "release", "done"}
    /\ ready \subseteq {o \in App : object[o] # 0}

\* Database objects of one path share one pool, the registered one, as
\* initWithPath's documentation says, and the entry is there for each of
\* them to count down.  An object made by tag is never counted: its pool may
\* be gone from the registry once the objects made by path are released, and
\* its own release may count down to nothing.
PoolIsShared ==
    released \/
        /\ ~ undefined
        /\ \A o \in Object \ byTag : object[o] # 0 =>
            LET p == pools[object[o]].path
            IN  p \in DOMAIN s_pools /\ s_pools[p].pool = object[o]

\* However configs are set, each name is there once and a smaller order
\* comes first.
ConfigsInOrder ==
    \A pool \in DOMAIN configs :
        LET list == configs[pool]
        IN  \A i, j \in DOMAIN list :
                i < j => list[i].order =< list[j].order /\ list[i].name # list[j].name

\* A handle in use syncs fully if and only if its database was last told to,
\* though only the basic config, set up before, ever sets the normal mode.
\* The documentation's example, an own config with order 1, loses that one.
FullAsTold ==
    \A pool \in DOMAIN handle :
        handle[pool].ok /\ handle[pool].current =>
            \/ "basic" \in dropped
            \/ handle[pool].full <=> \E i \in DOMAIN configs[pool] : configs[pool][i].invoke = "full"

\* An app that sets its key on every object can always write: unless an own
\* config of order 0 has pushed the key out, or the checkpoint thread, that
\* came after the files were removed and the objects released, has made the
\* database anew without it.
NotLockedOut ==
    [][refused' /\ ~ refused =>
        "cipher" \in dropped \/ (file = "plain" /\ by = "checkpoint")]_vars

\* A log that has grown is on its way to the checkpoint thread, whatever
\* becomes of hooks, handles and objects meanwhile: it is in the queue, or the
\* thread has it and has not yet tried.  It is not once a checkpoint has been
\* tried and has left the log grown, for nobody queues it again before the next
\* commit does; nor once the key has been pushed out, or when the objects made
\* by path are released before one made by tag: the thread then makes a pool of
\* its own, without the key.
GrownIsQueued ==
    wal = "grown" =>
        \/ missed
        \/ "cipher" \in dropped
        \/ byTag # {} \/ released
        \/ IsQueued(Home)
        \/ got = Home /\ ck \in {"idle", "exec"}

\* A key that waits is handed out, unless it is queued again before.
HandedOut ==
    \A k \in Key :
        (\E i \in DOMAIN m_list : m_list[i].key = k /\ m_list[i].left < Delay)
            ~> (undefined \/ \A i \in DOMAIN m_list : m_list[i].key = k => m_list[i].left = Delay)

\* The queue, the registry of pools and the lists of configs are in order.
Coherent ==
    /\ TypeOK
    /\ QueueInOrder
    /\ PoolIsShared
    /\ ConfigsInOrder

=============================================================================
