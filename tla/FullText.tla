------------------------------- MODULE FullText -------------------------------
(***************************************************************************)
(* FTS::Module, through which SQLite's full-text search uses the cursor:   *)
(* it opens one cursor for the contents of a row and steps it to its end,  *)
(* and one for each term of a query, which is stepped once and closed, the *)
(* next being opened on the rest of the query.  The query here repeats a   *)
(* part of the contents.                                                   *)
(***************************************************************************)
EXTENDS Tokenizer

VARIABLES
    contents,  \* of the row
    index,     \* the bytes of the contents that the tokens of its index are from
    query,     \* the first and the last place of the contents that the query repeats
    base,      \* where the rest of the query begins in the contents
    terms      \* of the query, as in index

fullTextVars == <<tokenizerVars, contents, index, query, base, terms>>

FullTextInit ==
    /\ TokenizerInit
    /\ contents = m_input
    /\ index = {}
    /\ query = <<>>
    /\ base = 0
    /\ terms = {}

\* Open, a cursor on a text.
Open(input, isCut) ==
    /\ m_input' = input
    /\ cut' = isCut
    /\ m_cursor' = 1
    /\ m_lemma' = FALSE
    /\ m_subTokensLengthArray' = <<>>
    /\ m_subTokensCursor' = 0
    /\ m_subTokensDoubleChar' = TRUE
    /\ tokens' = <<>>
    /\ done' = FALSE

\* The contents are in the index; a part of them is searched for.
Match(i, j) ==
    /\ done
    /\ query = <<>>
    /\ query' = <<i, j>>
    /\ index' = {<<tokens[k].start, tokens[k].end>> : k \in DOMAIN tokens}
    /\ base' = Offset[i]
    /\ Open(SubSeq(m_input, i, j), cut /\ j = Len(m_input))
    /\ UNCHANGED <<contents, terms>>

\* Next, on a cursor that is not closed.
Next_ ==
    /\ query # <<>> => tokens = <<>>
    /\ TokenizerNext
    /\ UNCHANGED <<contents, index, query, base, terms>>

\* A term of the query is found.  Its cursor is closed and another one opened
\* behind it.
Term ==
    /\ query # <<>>
    /\ tokens # <<>>
    /\ LET end == tokens[1].end
           next == CHOOSE k \in 1..Len(m_input)+1 : Offset[k] = end
       IN  /\ terms' = terms \cup {<<base + tokens[1].start, base + end>>}
           /\ base' = base + end
           /\ Open(SubSeq(m_input, next, Len(m_input)), cut /\ next =< Len(m_input))
    /\ UNCHANGED <<contents, index, query>>

FullTextNext ==
    \/ Next_
    \/ Term
    \/ \E i, j \in DOMAIN m_input : i =< j /\ Match(i, j)

FullTextSpec == FullTextInit /\ [][FullTextNext]_fullTextVars

-----------------------------------------------------------------------------
(* Properties                                                              *)

\* The query begins or ends within a word or a number.
Splits(place) ==
    /\ place \in 1..Len(contents)-1
    /\ contents[place].type = contents[place + 1].type
    /\ contents[place].type \in {"letter", "digit"}

\* A row is found by every part of its contents that does not split a word:
\* the terms of the query are among the tokens of the contents, although the
\* cursors that found them began elsewhere.
Searchable ==
    query # <<>> /\ ~ Splits(query[1] - 1) /\ ~ Splits(query[2]) => terms \subseteq index

=============================================================================
