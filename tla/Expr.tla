-------------------------------- MODULE Expr --------------------------------
(***************************************************************************)
(* Building an SQL expression with the operators and methods of Expr.      *)
(* What is built is kept as a tree, which says what the app means, and as  *)
(* the text that the code makes, which is all that SQLite gets.  Parse     *)
(* says how SQLite reads it.                                               *)
(*                                                                         *)
(* The operators are one for each way of printing and each precedence; a   *)
(* text is a sequence of what the code appends, which is a word, a number  *)
(* or a mark, with or without spaces around it.                            *)
(***************************************************************************)
EXTENDS Integers, Sequences

CONSTANT MaxNodes  \* bound of the model: operations applied

ASSUME NodesAssumption == MaxNodes \in Nat

VARIABLES
    expr,   \* the expression built so far: tree and text
    nodes

exprVars == <<expr, nodes>>

-----------------------------------------------------------------------------
(* Texts                                                                   *)

\* No spaces; one before; one on each side.
Bare(token) == [token |-> token, spaces |-> 0]
Led(token) == [token |-> token, spaces |-> 1]
Spaced(token) == [token |-> token, spaces |-> 2]

Words == {"a", "1", "NOT", "OR", "AND", "LIKE", "REGEXP", "IN", "ESCAPE", "ISNULL", "BETWEEN", "LENGTH"}

\* From weak to strong; the prefix NOT is 3, the others are stronger than all.
Strength(token) ==
    CASE token = "OR" -> 1
      [] token = "AND" -> 2
      [] token \in {"=", "LIKE", "REGEXP", "IN", "ISNULL", "BETWEEN"} -> 4
      [] token = "<" -> 5
      [] token = "<<" -> 7
      [] token \in {"+", "-"} -> 8
      [] token = "*" -> 9
      [] token = "||" -> 10
      [] OTHER -> 0

-----------------------------------------------------------------------------
(* Expressions                                                             *)

\* form is what was applied last; an expression is plain if it has none of
\* the forms whose text does not say what they mean, which are named where
\* they are built.
Expr(form, tree, text, plain) == [form |-> form, tree |-> tree, text |-> text, plain |-> plain]

IsNot(e) == e.form = "NOT"
IsIn(e) == e.form = "IN"
BeginsWith(e) == Head(e.text).token

\* Column, and the literals 1, -1 and 's'.
Atoms ==
    { Expr("atom", <<"a">>, <<Bare("a")>>, TRUE), Expr("atom", <<"1">>, <<Bare("1")>>, TRUE),
      Expr("atom", <<"-", <<"1">>>>, <<Bare("-"), Bare("1")>>, TRUE),
      Expr("atom", <<"'s'">>, <<Bare("'s'")>>, TRUE) }

\* !, unary -, ~ and unary +, which only puts the operand into parentheses.
Not(e) == Expr("NOT", <<"NOT", e.tree>>, <<Bare("NOT"), Bare("(")>> \o e.text \o <<Bare(")")>>, e.plain)

Minus(e) == Expr("-", <<"-", e.tree>>, <<Bare("-"), Bare("(")>> \o e.text \o <<Bare(")")>>, e.plain)

Plus(e) == Expr("+", e.tree, <<Bare("(")>> \o e.text \o <<Bare(")")>>, e.plain)

\* || and &&, and like.
Spelled == {"OR", "AND", "LIKE"}

\* The marks stand between their operands without a space.
Marks == {"=", "<", "<<", "+", "-", "*", "||"}

\* Regexp forgets the second space.
Operator(op) == IF op \in Marks THEN Bare(op) ELSE IF op \in Spelled THEN Spaced(op) ELSE Led(op)

\* NOT (x) as the left operand of whatever is stronger; x IN(...) as the
\* right one; a minus before a minus; a pattern that touches the operator.
BinaryIsPlain(op, l, r) ==
    /\ l.plain /\ r.plain
    /\ Strength(op) >= 4 => ~ IsNot(l) /\ ~ IsIn(r)
    /\ op = "-" => BeginsWith(r) # "-"
    /\ op = "REGEXP" => BeginsWith(r) \notin Words

\* Mutant: the result is not put into parentheses.
Binary_Bare(op, l, r) ==
    Expr(op, <<op, l.tree, r.tree>>, l.text \o <<Operator(op)>> \o r.text, BinaryIsPlain(op, l, r))

\* Every operator of two operands.
Binary(op, l, r) ==
    Expr(op, <<op, l.tree, r.tree>>,
         <<Bare("(")>> \o l.text \o <<Operator(op)>> \o r.text \o <<Bare(")")>>,
         BinaryIsPlain(op, l, r))

\* like, glob, match and regexp with an escape all forget the space.
LikeEscape(l, r, escape) ==
    Expr("LIKE", <<"LIKE", l.tree, r.tree, escape.tree>>,
         <<Bare("(")>> \o l.text \o <<Led("LIKE")>> \o r.text
            \o <<Spaced("ESCAPE")>> \o escape.text \o <<Bare(")")>>,
         l.plain /\ r.plain /\ escape.plain
            /\ ~ IsNot(l) /\ ~ IsIn(r) /\ BeginsWith(r) \notin Words)

IsNull(e) ==
    Expr("ISNULL", <<"ISNULL", e.tree>>, <<Bare("(")>> \o e.text \o <<Led("ISNULL"), Bare(")")>>,
         e.plain /\ ~ IsNot(e))

Between(e, l, r) ==
    Expr("BETWEEN", <<"BETWEEN", e.tree, l.tree, r.tree>>,
         <<Bare("(")>> \o e.text \o <<Spaced("BETWEEN")>> \o l.text
            \o <<Spaced("AND")>> \o r.text \o <<Bare(")")>>,
         e.plain /\ l.plain /\ r.plain /\ ~ IsNot(e) /\ ~ IsIn(r))

\* in(exprList), here of one: nothing around it.
In(e, l) ==
    Expr("IN", <<"IN", e.tree, l.tree>>,
         e.text \o <<Led("IN"), Bare("(")>> \o l.text \o <<Bare(")")>>,
         e.plain /\ l.plain /\ ~ IsNot(e))

Function(e) ==
    Expr("LENGTH", <<"LENGTH", e.tree>>,
         <<Bare("LENGTH"), Bare("(")>> \o e.text \o <<Bare(")")>>, e.plain)

OneColumn == Expr("atom", <<"a">>, <<Bare("a")>>, TRUE)
Pattern == Expr("atom", <<"'s'">>, <<Bare("'s'")>>, TRUE)

\* The other operands: atoms and what is printed without parentheses.
Operands == Atoms \cup {Not(OneColumn), Minus(OneColumn), In(OneColumn, OneColumn), IsNull(OneColumn), Function(OneColumn)}

ExprInit ==
    /\ expr \in Atoms
    /\ nodes = 0

Build(e) ==
    /\ nodes < MaxNodes
    /\ nodes' = nodes + 1
    /\ expr' = e

ExprNext ==
    \/ \E e \in {Not(expr), Minus(expr), Plus(expr), IsNull(expr), Function(expr)} : Build(e)
    \/ \E op \in Spelled \cup Marks \cup {"REGEXP"}, o \in Operands :
           Build(Binary(op, expr, o)) \/ Build(Binary(op, o, expr))
    \/ \E o \in Operands :
           \/ Build(In(expr, o))
           \/ Build(In(o, expr))
           \/ Build(LikeEscape(expr, o, Pattern))
           \/ Build(LikeEscape(o, expr, Pattern))
           \/ Build(Between(expr, o, o))
           \/ Build(Between(o, expr, o))
           \/ Build(Between(o, o, expr))

ExprSpec == ExprInit /\ [][ExprNext]_exprVars

-----------------------------------------------------------------------------
(* How SQLite reads a text: it keeps the nodes that wait for an operand,   *)
(* and decides by the next token what becomes of the operand that it has.  *)

\* A node waits for an operand of operators that are so strong, and then
\* for a token that closes it, if it has one; behind are those that wait for
\* what becomes of it.
Waiting(node, need, close, behind) ==
    [node |-> node, need |-> need, close |-> close, behind |-> behind, depth |-> behind.depth + 1]

\* Nothing waits but the end.
Nobody == [node |-> <<>>, need |-> 1, close |-> "end", depth |-> 0]

\* The operand is <<>> while there is none.
Reading(waiting, operand, rest) == [waiting |-> waiting, operand |-> operand, rest |-> rest]

NextToken(rest) == IF rest = <<>> THEN "end" ELSE Head(rest).token

ReadOperand(r) ==
    LET token == NextToken(r.rest)
        rest == Tail(r.rest)
        then(node, need, close, after) == Reading(Waiting(node, need, close, r.waiting), <<>>, after)
    IN  CASE token \in {"a", "1", "'s'"} -> Reading(r.waiting, << <<token>> >>, rest)
          [] token = "NOT" -> then(<<"NOT">>, 3, "", rest)
          [] token = "-" -> then(<<"-">>, 11, "", rest)
          [] token = "(" -> then(<<>>, 1, ")", rest)
          [] token = "LENGTH" /\ NextToken(rest) = "(" -> then(<<"LENGTH">>, 1, ")", Tail(rest))
          [] OTHER -> r

\* The operand is the left one of an operator that is strong enough.
ReadLeft(r) ==
    LET op == NextToken(r.rest)
        rest == Tail(r.rest)
        node == <<op, r.operand[1]>>
        then(need, close, after) == Reading(Waiting(node, need, close, r.waiting), <<>>, after)
    IN  CASE op = "ISNULL" -> Reading(r.waiting, <<node>>, rest)
          [] op = "IN" -> IF NextToken(rest) = "(" THEN then(1, ")", Tail(rest)) ELSE r
          [] op = "BETWEEN" -> then(3, "AND", rest)
          [] OTHER -> then(Strength(op) + 1, "", rest)

\* A node that may go on after its second operand.
TakesEscape(node) == Len(node) = 2 /\ node[1] = "LIKE"

\* The operand is that of the last node that waits.
ReadRight(r) ==
    LET token == NextToken(r.rest)
        last == r.waiting
        node == Append(last.node, r.operand[1])
        then(need) == Reading(Waiting(node, need, "", last.behind), <<>>, Tail(r.rest))
    IN  CASE token = ")" /\ last.close = ")" ->
                 Reading(last.behind, IF last.node = <<>> THEN r.operand ELSE <<node>>, Tail(r.rest))
          [] token = "AND" /\ last.close = "AND" -> then(5)
          [] token = "ESCAPE" /\ last.close = "" /\ TakesEscape(last.node) -> then(7)
          [] last.close = "" /\ (token = "ESCAPE" => ~ TakesEscape(last.node)) ->
                 Reading(last.behind, <<node>>, r.rest)
          [] OTHER -> r

ReadOn(r) ==
    IF r.operand = <<>> THEN ReadOperand(r)
    ELSE IF Strength(NextToken(r.rest)) >= r.waiting.need THEN ReadLeft(r) ELSE ReadRight(r)

\* Words that touch are one word, which nobody knows; two minus signs that
\* touch begin a comment, and the rest of the text is gone.
Apart(a, b) ==
    \/ a.spaces = 2 \/ b.spaces > 0
    \/ ~ (a.token \in Words /\ b.token \in Words) /\ ~ (a.token = "-" /\ b.token = "-")

Clean(text) == \A i \in 1..Len(text)-1 : Apart(text[i], text[i + 1])

Failure == <<"failure">>

\* A step takes a token or a node that waits, so there are no more of them.
Parse(text) ==
    LET read[k \in Nat] == IF k = 0 THEN Reading(Nobody, <<>>, text) ELSE ReadOn(read[k - 1])
        end == read[2 * Len(text)]
    IN  IF Clean(text) /\ end.waiting = Nobody /\ end.rest = <<>> /\ end.operand # <<>>
        THEN end.operand[1] ELSE Failure

-----------------------------------------------------------------------------
(* Properties                                                              *)

\* SQLite reads from the text what the app has built, if and only if none of
\* the forms that are not plain occurs in it.
ReadsBack == (Parse(expr.text) = expr.tree) <=> expr.plain

=============================================================================
