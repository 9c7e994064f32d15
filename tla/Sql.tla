--------------------------------- MODULE Sql ---------------------------------
(***************************************************************************)
(* The parts of WCDB between the app and SQLite: expressions become text,  *)
(* chained conditions become statements that are stepped, classes become   *)
(* tables, properties become cells, contents of full-text tables become    *)
(* tokens, failures and statements become reports.  They share no state; a *)
(* behaviour is of one of them.                                            *)
(***************************************************************************)
EXTENDS Expr, FullText, ChainCall, Schema, Values, Reports

VARIABLE subsystem

sqlVars == <<exprVars, fullTextVars, callVars, schemaVars, valuesVars, reportsVars, subsystem>>

SqlInit ==
    /\ ExprInit
    /\ FullTextInit
    /\ CallInit
    /\ SchemaInit
    /\ ValuesInit
    /\ ReportsInit
    /\ subsystem \in {"expression", "tokens", "calls", "schema", "values", "reports"}
    /\ subsystem # "expression" => expr.tree = <<"a">>
    /\ subsystem # "tokens" => m_input = <<>>
    /\ subsystem # "calls" => ~ limited
    /\ subsystem # "schema" => class = Binding(<<>>)
    /\ subsystem # "values" => property = NSString

SqlNext ==
    \/ /\ subsystem = "expression"
       /\ ExprNext
       /\ UNCHANGED <<fullTextVars, callVars, schemaVars, valuesVars, reportsVars, subsystem>>
    \/ /\ subsystem = "tokens"
       /\ FullTextNext
       /\ UNCHANGED <<exprVars, callVars, schemaVars, valuesVars, reportsVars, subsystem>>
    \/ /\ subsystem = "calls"
       /\ CallNext
       /\ UNCHANGED <<exprVars, fullTextVars, schemaVars, valuesVars, reportsVars, subsystem>>
    \/ /\ subsystem = "schema"
       /\ SchemaNext
       /\ UNCHANGED <<exprVars, fullTextVars, callVars, valuesVars, reportsVars, subsystem>>
    \/ /\ subsystem = "values"
       /\ ValuesNext
       /\ UNCHANGED <<exprVars, fullTextVars, callVars, schemaVars, reportsVars, subsystem>>
    \/ /\ subsystem = "reports"
       /\ ReportsNext
       /\ UNCHANGED <<exprVars, fullTextVars, callVars, schemaVars, valuesVars, subsystem>>

SqlSpec == SqlInit /\ [][SqlNext]_sqlVars

-----------------------------------------------------------------------------
(* Properties                                                              *)

\* The variables keep their types.
SqlTypeOK ==
    /\ nodes \in 0..MaxNodes
    /\ m_cursor \in 1..Len(m_input)+1
    /\ m_subTokensLengthArray \in Seq(Nat \ {0}) /\ Len(m_subTokensLengthArray) =< MaxInput
    /\ m_subTokensCursor \in 0..Offset[Len(m_input)+1]
    /\ {cut, m_lemma, m_subTokensDoubleChar, done} \subseteq BOOLEAN
    /\ m_lemma => tokens # <<>> /\ m_subTokensLengthArray = <<>>
    /\ DOMAIN call \subseteq CallObject
    /\ \A c \in DOMAIN call : call[c].handle \in Handle \cup {"none"} /\ call[c].pc # "gone"
    /\ free \subseteq Handle
    /\ DOMAIN table \subseteq Row
    /\ todo \subseteq DOMAIN class.columns \cup DOMAIN class.indexes
    /\ starts \in 0..MaxStarts
    /\ property \in PropertyType
    /\ \A row \in DOMAIN rows : rows[row].cell.class \in {"null", "integer", "real", "text", "blob"}
    /\ s_slient \in [Thread -> BOOLEAN]
    /\ \A t \in Thread : handle[t].at \in {"out", "idle", "silence", "prepared", "refused"}
    /\ \A t \in Thread : statements[t] \in 0..MaxStatements[t]

\* Types, and in each part what must never be: a cursor past its text, an
\* open statement on a pooled handle, a null statement that is stepped before
\* the end, a null function that is called although nothing was set to nil.
SqlCoherent ==
    /\ SqlTypeOK
    /\ InInput
    /\ PooledHandleIsIdle
    /\ UndefinedOnlyPastEnd
    /\ KilledByNil

=============================================================================
