-------------------------------- MODULE MCSql --------------------------------
EXTENDS Sql

MCChar ==
    { [type |-> "letter", size |-> 1], [type |-> "digit", size |-> 1],
      [type |-> "symbol", size |-> 1], [type |-> "other", size |-> 3],
      [type |-> "auxiliary", size |-> 4] }

MCTables == { (1 :> "x") @@ (2 :> "null") @@ (3 :> "x") }

\* A limit behind the offset; the values of all rows, one by one; a delete
\* and an update, which may be tried again.
MCChain ==
    { Method("select", "chain", "rows", <<"offset", "limit">>),
      Method("select", "chain", "values", <<>>),
      Method("delete", "chain", "rows", <<"where">>),
      Method("update", "chain", "object", <<"where">>) }

Column(c, default) == [macro |-> "synthesize", column |-> c, default |-> default]
Primary(c, conflict) == [macro |-> "primary", column |-> c, autoIncrement |-> TRUE, conflict |-> conflict]
On(macro, c) == [macro |-> macro, column |-> c]
Named(macro, name, c) == [macro |-> macro, name |-> name, column |-> c]

\* No class; a key and an index; three columns more, of which one has to
\* have a default, and another index of the name; a unique column and a
\* constraint; a key with a conflict.
MCVersions ==
    { <<>>,
      <<Column("id", FALSE), Primary("id", FALSE), Named("index", "_index", "id")>>,
      <<Column("id", FALSE), Column("a", FALSE), Column("b", TRUE), On("not null", "b"),
        Named("index", "_index", "id"), Named("index", "_index", "a"), Named("index", "_other", "b")>>,
      <<Column("id", FALSE), Column("a", FALSE), Column("c", FALSE), On("unique", "c"),
        Named("constraint", "_multi", "id"), Named("constraint", "_multi", "a")>>,
      <<Column("id", FALSE), Primary("id", TRUE)>> }

\* A small, an ordinary and a long integer type; a float and a double.
MCPropertyType ==
    { Integer(2, TRUE), Integer(3, TRUE), Integer(3, FALSE), Integer(5, TRUE), Integer(5, FALSE),
      Real(2), Real(3), NSNumber, NSString, NSData }

\* The boundaries of all of them, and numbers between; as reals they are
\* halves.
MCSample == {-64, -16, -4, -1, 0, 3, 7, 9, 15, 16, 31, 32}

\* One thread runs a transaction.
MCMaxStatements == <<3, 1>>

=============================================================================
