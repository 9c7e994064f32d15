------------------------------ MODULE Convenient ------------------------------
(***************************************************************************)
(* The convenient methods of WCTInterface and of WCTTable.  A family of    *)
(* methods has one method for each choice of the conditions that its names *)
(* may hold; all of them chain the conditions they hold in one order.      *)
(***************************************************************************)
EXTENDS Sequences

\* kind: the statement; use: the first result, all of them, execution, or what
\* an app chains by itself; shape: what a result is, or what the app gives.
MethodType ==
    [ kind : {"select", "insert", "update", "delete"},
      use : {"one", "all", "execute", "chain"},
      shape : {"rows", "values", "distinct", "insert", "replace", "object", "row"},
      clauses : Seq({"where", "orderBy", "limit", "offset"}) ]

Method(kind, use, shape, clauses) ==
    [kind |-> kind, use |-> use, shape |-> shape, clauses |-> clauses]

\* The conditions the app gives, and those the method adds, as they are
\* chained.
Family(kind, use, shape, given, added) ==
    LET part(clause, held) == IF clause \in held THEN <<clause>> ELSE <<>>
        chained(held) ==
            part("where", held) \o part("orderBy", held) \o part("limit", held) \o part("offset", held)
    IN  { Method(kind, use, shape, chained(S \cup added)) : S \in SUBSET given }

OneOf == {"where", "orderBy", "offset"}
AnyOf == {"where", "orderBy", "limit", "offset"}

-----------------------------------------------------------------------------
(* WCTInterface                                                            *)

\* An object, a part of an object, a row.
GetOne == Family("select", "one", "rows", OneOf, {"limit"})

GetOneColumn == Family("select", "all", "values", AnyOf, {})

GetOneDistinctColumn == Family("select", "all", "distinct", AnyOf, {})

GetOneValue ==
    UNION {Family("select", "one", shape, OneOf, {"limit"}) : shape \in {"values", "distinct"}}

\* Objects and parts of objects.
GetObjects == Family("select", "all", "rows", AnyOf, {})

GetRows == Family("select", "all", "rows", AnyOf, {})

Insert == { Method("insert", "execute", shape, <<>>) : shape \in {"insert", "replace"} }

UpdateWithObject == Family("update", "execute", "object", AnyOf, {})

UpdatePropertyWithObject == Family("update", "execute", "object", AnyOf, {})

UpdateWithRow == Family("update", "execute", "row", AnyOf, {})

\* The row of one property and one value is complete.
UpdateWithValue == Family("update", "execute", "object", AnyOf, {})

Delete == Family("delete", "execute", "rows", AnyOf, {})

InterfaceMethods ==
    UNION {GetOne, GetOneColumn, GetOneDistinctColumn, GetOneValue, GetObjects, GetRows, Insert,
           UpdateWithObject, UpdatePropertyWithObject, UpdateWithRow, UpdateWithValue, Delete}

-----------------------------------------------------------------------------
(* WCTTable: the same without the name of the table                        *)

TableGetOne == Family("select", "one", "rows", OneOf, {"limit"})

TableGetColumns ==
    UNION {Family("select", "all", shape, AnyOf, {}) : shape \in {"values", "distinct"}}

TableGetValues ==
    UNION {Family("select", "one", shape, OneOf, {"limit"}) : shape \in {"values", "distinct"}}

TableGetObjects == Family("select", "all", "rows", AnyOf, {})

TableGetRows == Family("select", "all", "rows", AnyOf, {})

TableInsert == { Method("insert", "execute", shape, <<>>) : shape \in {"insert", "replace"} }

TableUpdateWithObject == Family("update", "execute", "object", AnyOf, {})

TableUpdatePropertyWithObject == Family("update", "execute", "object", AnyOf, {})

TableUpdateWithRow == Family("update", "execute", "row", AnyOf, {})

TableUpdateWithValue == Family("update", "execute", "object", AnyOf, {})

TableDelete == Family("delete", "execute", "rows", AnyOf, {})

TableMethods ==
    UNION {TableGetOne, TableGetColumns, TableGetValues, TableGetObjects, TableGetRows, TableInsert,
           TableUpdateWithObject, TableUpdatePropertyWithObject, TableUpdateWithRow,
           TableUpdateWithValue, TableDelete}

\* What can be asked of a database can be asked of a table.
ASSUME SameMethods == InterfaceMethods = TableMethods

=============================================================================
