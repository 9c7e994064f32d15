-------------------------------- MODULE Reports --------------------------------
(***************************************************************************)
(* What WCDB tells the app: failures, through the report method, and       *)
(* statements, through the traces of the handles.  A thread keeps to one   *)
(* handle here.                                                            *)
(*                                                                         *)
(* A handle keeps the statements that have ended in its footprint, until   *)
(* another one has ended or the handle is gone; those of a transaction are *)
(* kept together.  The model keeps them in order, not only their numbers.  *)
(***************************************************************************)
EXTENDS Naturals, Sequences

CONSTANTS
    Thread,
    MaxStatements,   \* bounds of the model: statements that each thread runs,
    MaxSettings      \* methods and traces that are set

ASSUME ReportsAssumption == MaxStatements \in [Thread -> Nat] /\ MaxSettings \in Nat

VARIABLES
    s_reportMethod,            \* "unset", "default", "set" or "null"
    s_slient,                  \* of each thread
    s_globalPerformanceTrace,  \* "unset", "set" or "null"
    traceConfig,               \* what the config "trace" sets: "global", "set" or "null"
    version,                   \* of the configs
    handle,                    \* each thread's
    statements,
    settings,                  \* all methods and traces that were set
    killed,                    \* a null function was called
    unheard                    \* the operations whose failures were not told

reportsVars == <<s_reportMethod, s_slient, s_globalPerformanceTrace, traceConfig, version,
                 handle, statements, settings, killed, unheard>>

\* at "out" is a handle that is not open; done and told are the numbers of
\* statements that were traced and reported.
NewHandle ==
    [at |-> "out", version |-> 0, performanceTrace |-> FALSE, aggregation |-> FALSE,
     inTransaction |-> FALSE, footprint |-> <<>>, done |-> 0, told |-> 0]

ReportsInit ==
    /\ s_reportMethod = "unset"
    /\ s_slient = [t \in Thread |-> FALSE]
    /\ s_globalPerformanceTrace = "unset"
    /\ traceConfig = "global"
    /\ version = 1
    /\ handle = [t \in Thread |-> NewHandle]
    /\ statements = [t \in Thread |-> 0]
    /\ settings = <<>>
    /\ killed = FALSE
    /\ unheard = {}

-----------------------------------------------------------------------------
(* Failures                                                                *)

\* Mutant: silence is not of a thread.
IsSlient_Any(t) == \E u \in Thread : s_slient[u]

IsSlient(t) == s_slient[t]

\* report: the first one sets the default method.
Tell(ok) ==
    /\ s_reportMethod' = IF ~ ok /\ s_reportMethod = "unset" THEN "default" ELSE s_reportMethod
    /\ killed' = (~ ok /\ s_reportMethod = "null")

\* Error::Report of an operation that has failed.
Report(t, operation, ok) ==
    IF IsSlient(t)
    THEN /\ unheard' = IF ok THEN unheard ELSE unheard \cup {operation}
         /\ killed' = FALSE
         /\ UNCHANGED s_reportMethod
    ELSE /\ Tell(ok)
         /\ UNCHANGED unheard

-----------------------------------------------------------------------------
(* Settings                                                                *)

Setting(value) ==
    /\ Len(settings) < MaxSettings
    /\ settings' = Append(settings, value)

\* SetGlobalErrorReport, SetGlobalPerformanceTrace, setPerformanceTrace: the
\* method or trace "set", or nil, which makes a null function.
SetReportMethod(value) ==
    /\ Setting(value)
    /\ s_reportMethod' = value
    /\ UNCHANGED <<s_slient, s_globalPerformanceTrace, traceConfig, version, handle, statements,
                   killed, unheard>>

SetGlobalPerformanceTrace(value) ==
    /\ Setting(value)
    /\ s_globalPerformanceTrace' = value
    /\ UNCHANGED <<s_reportMethod, s_slient, traceConfig, version, handle, statements, killed, unheard>>

SetPerformanceTrace(value) ==
    /\ Setting(value)
    /\ traceConfig' = value
    /\ version' = version + 1
    /\ UNCHANGED <<s_reportMethod, s_slient, s_globalPerformanceTrace, handle, statements, killed, unheard>>

-----------------------------------------------------------------------------
(* Handles                                                                 *)

\* What the trace config does to a handle.
Traces(r) ==
    CASE traceConfig = "set" -> TRUE
      [] traceConfig = "null" -> FALSE
      [] s_globalPerformanceTrace = "unset" -> r.performanceTrace
      [] OTHER -> s_globalPerformanceTrace = "set"

\* The handle of a thread is opened, or set up again for new configs.
FlowOut(t) ==
    /\ handle[t].at = "out" \/ (handle[t].version # version /\ handle[t].at = "idle")
    /\ ~ handle[t].aggregation
    /\ \E ok \in BOOLEAN :
           /\ handle[t].at = "idle" => ok
           /\ Report(t, "open", ok)
           /\ IF ok
              THEN handle' = [handle EXCEPT ![t] =
                       [@ EXCEPT !.at = "idle", !.version = version, !.performanceTrace = Traces(handle[t])]]
              ELSE UNCHANGED handle
    /\ UNCHANGED <<s_slient, s_globalPerformanceTrace, traceConfig, version, statements, settings>>

\* reportPerformance
Reported(r) ==
    IF r.footprint = <<>> THEN r
    ELSE [r EXCEPT !.told = @ + Len(r.footprint), !.footprint = <<>>]

\* The profile callback of SQLite: a statement has ended.
Profile(r, statement) ==
    LET q == IF r.aggregation THEN r ELSE Reported(r)
    IN  IF r.performanceTrace
        THEN [q EXCEPT !.footprint = Append(@, statement), !.done = @ + 1]
        ELSE r

\* StatementTransaction
Transaction == {"BEGIN", "COMMIT", "ROLLBACK"}

Statement(t) ==
    /\ statements[t] < MaxStatements[t]
    /\ statements' = [statements EXCEPT ![t] = @ + 1]

\* Mutant: a rollback does not end the aggregation.
Aggregation_NoRollback(r, sql, ok) ==
    IF sql = "BEGIN" /\ ok THEN TRUE
    ELSE IF sql = "COMMIT" /\ ok THEN FALSE
    ELSE r.aggregation

Aggregation(r, sql, ok) ==
    IF sql = "BEGIN" /\ ok THEN TRUE
    ELSE IF (sql = "COMMIT" /\ ok) \/ sql = "ROLLBACK" THEN FALSE
    ELSE r.aggregation

\* exec, or a prepared statement from its first step to its end.  A statement
\* that is not even prepared is not traced.  SQLite may end a transaction
\* when a statement of it fails.
Exec(t, sql, ran, ok) ==
    LET r == handle[t]
        q == IF ran THEN Profile(r, [sql |-> sql, ok |-> ok]) ELSE r
    IN  /\ r.at = "idle"
        /\ r.version = version \/ r.aggregation
        /\ Statement(t)
        /\ ok => ran
        /\ sql \in Transaction => ran
        /\ sql = "BEGIN" /\ ok => ~ r.inTransaction
        /\ sql \in {"COMMIT", "ROLLBACK"} /\ ok => r.inTransaction
        /\ \E inTransaction \in IF ok /\ sql \in Transaction THEN {sql = "BEGIN"}
                                ELSE {r.inTransaction} \cup (IF ran /\ ~ ok THEN {FALSE} ELSE {}) :
               handle' = [handle EXCEPT ![t] =
                   [q EXCEPT !.aggregation = Aggregation(r, sql, ok), !.inTransaction = inTransaction]]
        /\ Report(t, "exec", ok)
        /\ UNCHANGED <<s_slient, s_globalPerformanceTrace, traceConfig, version, settings>>

\* A database refuses the statements that make a transaction before it takes a
\* handle, on a thread of any state.
Misuse(t) ==
    /\ handle[t].at \in {"out", "idle"}
    /\ Statement(t)
    /\ Report(t, "misuse", FALSE)
    /\ UNCHANGED <<s_slient, s_globalPerformanceTrace, traceConfig, version, handle, settings>>

Moves(t, from, to) ==
    /\ handle[t].at = from
    /\ handle' = [handle EXCEPT ![t].at = to]

\* isTableExists: silent while it prepares, and then steps.
BeginExists(t) ==
    /\ Moves(t, "idle", "silence")
    /\ handle[t].version = version \/ handle[t].aggregation
    /\ Statement(t)
    /\ s_slient' = [s_slient EXCEPT ![t] = TRUE]
    /\ UNCHANGED <<s_reportMethod, s_globalPerformanceTrace, traceConfig, version, settings, killed, unheard>>

PrepareExists(t) ==
    /\ \E ok \in BOOLEAN :
           /\ Moves(t, "silence", IF ok THEN "prepared" ELSE "refused")
           /\ Report(t, "exists", ok)
    /\ UNCHANGED <<s_slient, s_globalPerformanceTrace, traceConfig, version, statements, settings>>

\* setThreadedSlient(false), whether or not there is a statement.
EndSlience(t) == s_slient' = [s_slient EXCEPT ![t] = FALSE]

EndExists(t) ==
    /\ handle[t].at \in {"prepared", "refused"}
    /\ \E ok \in BOOLEAN :
           /\ handle[t].at = "refused" => ok
           /\ handle' = [handle EXCEPT ![t] =
                  [(IF @.at = "prepared" THEN Profile(@, [sql |-> "SQL", ok |-> ok]) ELSE @)
                      EXCEPT !.at = "idle"]]
           /\ EndSlience(t)
           /\ Tell(ok)
    /\ UNCHANGED <<s_globalPerformanceTrace, traceConfig, version, statements, settings, unheard>>

\* The report of a footprint to a trace that was taken away.
Kills(r) == r.footprint # <<>> /\ ~ r.performanceTrace

\* The handle is destroyed: what is left is reported.
Close(t) ==
    /\ handle[t].at = "idle"
    /\ ~ handle[t].aggregation
    /\ handle' = [handle EXCEPT ![t] = NewHandle]
    /\ killed' = Kills(handle[t])
    /\ UNCHANGED <<s_reportMethod, s_slient, s_globalPerformanceTrace, traceConfig, version,
                   statements, settings, unheard>>

ReportsNext ==
    /\ ~ killed
    /\ \/ \E value \in {"set", "null"} :
              \/ SetReportMethod(value)
              \/ SetGlobalPerformanceTrace(value)
              \/ SetPerformanceTrace(value)
       \/ \E t \in Thread :
              \/ FlowOut(t)
              \/ \E sql \in Transaction \cup {"SQL"}, ran, ok \in BOOLEAN : Exec(t, sql, ran, ok)
              \/ Misuse(t)
              \/ BeginExists(t)
              \/ PrepareExists(t)
              \/ EndExists(t)
              \/ Close(t)

ReportsSpec == ReportsInit /\ [][ReportsNext]_reportsVars

-----------------------------------------------------------------------------
(* Properties                                                              *)

Ends(statement) == statement.sql = "ROLLBACK" \/ (statement.sql = "COMMIT" /\ statement.ok)

\* What is reported is one statement, or a transaction from its BEGIN to its
\* end: aggregation starts after BEGIN is in the footprint, the last statement
\* is there before it stops, and a failed COMMIT does not stop it.  A statement
\* that was traced is reported once, or waits in the footprint.
ReportIsWhole ==
    \A t \in Thread :
        LET r == handle[t]
            footprint == r.footprint
            begins == footprint[1] = [sql |-> "BEGIN", ok |-> TRUE]
        IN  /\ r.aggregation /\ r.performanceTrace => footprint # <<>> /\ begins
            /\ Len(footprint) > 1 => begins
            /\ \A i \in 1..Len(footprint)-1 : ~ Ends(footprint[i])
            /\ Len(footprint) > 1 /\ ~ r.aggregation => Ends(footprint[Len(footprint)])
            /\ r.done = r.told + Len(footprint)

\* A failure is told to the report method, unless it is that of the
\* preparation by which isTableExists asks, on whatever thread that runs.
FailuresAreHeard == unheard \subseteq {"exists"}

\* Only an app that has taken a method or a trace away, with nil, is killed
\* by a call of a null function.
KilledByNil == killed => \E i \in DOMAIN settings : settings[i] = "null"

=============================================================================
