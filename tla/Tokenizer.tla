------------------------------ MODULE Tokenizer ------------------------------
(***************************************************************************)
(* WCDBCursorInfo, the cursor of the tokenizer for full-text search.  A    *)
(* run of letters or of digits is one token, and the lemma of a word may   *)
(* follow it.  A run of other characters, which have no spaces between     *)
(* words, gives every pair of neighbours and every character: AB, A, BC,   *)
(* B, C.  Symbols separate.                                                *)
(*                                                                         *)
(* The input is a sequence of characters with their bytes; the last one    *)
(* may be cut off.  m_cursor is kept as the place of its character.        *)
(***************************************************************************)
EXTENDS Integers, Sequences

CONSTANTS
    Char,     \* characters: type, and size, the bytes its first byte announces
    MaxInput  \* bound of the model: characters in the input

ASSUME CharAssumption ==
    /\ \A c \in Char : c.type \in {"letter", "digit", "symbol", "other", "auxiliary"}
                       /\ c.size \in Nat \ {0}
    /\ MaxInput \in Nat

VARIABLES
    m_input,
    cut,                     \* the last character lacks its last byte
    m_cursor,
    m_lemma,                 \* m_lemmaBuffer holds a lemma
    m_subTokensLengthArray,
    m_subTokensCursor,
    m_subTokensDoubleChar,
    tokens,                  \* what step has returned so far
    done                     \* step has returned SQLITE_DONE

tokenizerVars == <<m_input, cut, m_cursor, m_lemma, m_subTokensLengthArray,
                   m_subTokensCursor, m_subTokensDoubleChar, tokens, done>>

TokenizerInit ==
    /\ \E n \in 0..MaxInput : m_input \in [1..n -> Char]
    /\ cut \in BOOLEAN
    /\ cut => m_input # <<>> /\ m_input[Len(m_input)].size > 1
    /\ m_cursor = 1
    /\ m_lemma = FALSE
    /\ m_subTokensLengthArray = <<>>
    /\ m_subTokensCursor = 0
    /\ m_subTokensDoubleChar = TRUE
    /\ tokens = <<>>
    /\ done = FALSE

Offset[k \in 1..Len(m_input)+1] == IF k = 1 THEN 0 ELSE Offset[k - 1] + m_input[k - 1].size

InputLength == Offset[Len(m_input) + 1] - (IF cut THEN 1 ELSE 0)

\* cursorSetup: the type of the character at a place.  One that is cut off
\* is the end; but of those with four bytes and more only the first is read.
TypeAt(k) ==
    IF k > Len(m_input) \/ (cut /\ k = Len(m_input) /\ m_input[k].type # "auxiliary") THEN "none"
    ELSE m_input[k].type

\* The first place from k on whose type is not the given one.
Beyond(k, type) == CHOOSE j \in k..Len(m_input)+1 :
    TypeAt(j) # type /\ \A i \in k..j-1 : TypeAt(i) = type

Return(start, length) ==
    tokens' = Append(tokens, [start |-> start, end |-> start + length, lemma |-> FALSE])

\* Mutant: a pair uses up both of its characters.
SubTokensStep_Skip(lengths, start, double) ==
    LET pair == double /\ Len(lengths) > 1
    IN  /\ Return(start, IF pair THEN lengths[1] + lengths[2] ELSE lengths[1])
        /\ m_subTokensLengthArray' =
             IF pair THEN Tail(Tail(lengths)) ELSE IF double THEN <<>> ELSE Tail(lengths)
        /\ m_subTokensCursor' = IF pair THEN start + lengths[1] + lengths[2] ELSE start
        /\ m_subTokensDoubleChar' = TRUE

\* subTokensStep: a pair first, then its first character alone, which is
\* then used up; the last character has no pair.
SubTokensStep(lengths, start, double) ==
    LET pair == double /\ Len(lengths) > 1
    IN  /\ Return(start, IF pair THEN lengths[1] + lengths[2] ELSE lengths[1])
        /\ m_subTokensLengthArray' =
             IF pair THEN lengths ELSE IF double THEN <<>> ELSE Tail(lengths)
        /\ m_subTokensCursor' = IF double THEN start ELSE start + lengths[1]
        /\ m_subTokensDoubleChar' = ~ pair

\* The call of step that returns the lemma of the last word.
StepLemma ==
    /\ m_lemma
    /\ m_lemma' = FALSE
    /\ tokens' = Append(tokens, [tokens[Len(tokens)] EXCEPT !.lemma = TRUE])
    /\ UNCHANGED <<m_input, cut, m_cursor, m_subTokensLengthArray,
                   m_subTokensCursor, m_subTokensDoubleChar, done>>

\* ... the next token of the run it is in.
StepSubTokens ==
    /\ ~ m_lemma
    /\ m_subTokensLengthArray # <<>>
    /\ SubTokensStep(m_subTokensLengthArray, m_subTokensCursor, m_subTokensDoubleChar)
    /\ UNCHANGED <<m_input, cut, m_cursor, m_lemma, done>>

\* The next character that is no symbol.
First == Beyond(m_cursor, "symbol")

\* ... the first token of the next run.
StepRun ==
    /\ ~ m_lemma
    /\ m_subTokensLengthArray = <<>>
    /\ TypeAt(First) # "none"
    /\ LET type == TypeAt(First)
           next == Beyond(First, type)
       IN  /\ m_cursor' = next
           /\ IF type \in {"letter", "digit"}
              THEN /\ Return(Offset[First], Offset[next] - Offset[First])
                   /\ m_lemma' \in {FALSE, type = "letter"}
                   /\ UNCHANGED <<m_subTokensLengthArray, m_subTokensCursor,
                                  m_subTokensDoubleChar>>
              ELSE /\ SubTokensStep([i \in 1..next-First |-> m_input[First + i - 1].size],
                                    Offset[First], TRUE)
                   /\ UNCHANGED m_lemma
    /\ UNCHANGED <<m_input, cut, done>>

\* ... SQLITE_DONE, and does so again and again.
StepDone ==
    /\ ~ m_lemma
    /\ m_subTokensLengthArray = <<>>
    /\ TypeAt(First) = "none"
    /\ m_cursor' = First
    /\ done' = TRUE
    /\ UNCHANGED <<m_input, cut, m_lemma, m_subTokensLengthArray,
                   m_subTokensCursor, m_subTokensDoubleChar, tokens>>

TokenizerNext == StepLemma \/ StepSubTokens \/ StepRun \/ StepDone

-----------------------------------------------------------------------------
(* Properties                                                              *)

\* The places i..j are one run of a type, as long as it can be.
IsRun(i, j) ==
    /\ \A k \in i..j : TypeAt(k) = TypeAt(i)
    /\ i = 1 \/ TypeAt(i - 1) # TypeAt(i)
    /\ TypeAt(j + 1) # TypeAt(i)

Span(i, j) == <<Offset[i], Offset[j + 1]>>

\* What is to be found: words, numbers, and of everything else each
\* character and each pair of neighbours.
Wanted ==
    LET Places == {p \in (1..Len(m_input)) \X (1..Len(m_input)) : p[1] =< p[2]}
    IN  {Span(p[1], p[2]) : p \in {q \in Places :
            \/ TypeAt(q[1]) \in {"letter", "digit"} /\ IsRun(q[1], q[2])
            \/ /\ TypeAt(q[1]) \in {"other", "auxiliary"}
               /\ TypeAt(q[2]) = TypeAt(q[1])
               /\ q[2] - q[1] =< 1}}

Found == {<<tokens[i].start, tokens[i].end>> : i \in DOMAIN tokens}

\* When step is done it has returned all of that and nothing else, each
\* once: front to back, and the longer one first of two that begin together.
FindsWanted ==
    /\ done => Found = Wanted
    /\ \A i \in 1..Len(tokens)-1 :
        LET s == tokens[i]  t == tokens[i + 1]
        IN  s.start < t.start \/ (s.start = t.start /\ s.end > t.end) \/ (t.lemma /\ ~ s.lemma)

\* No token reaches past the input, but for the last character of four bytes
\* and more if it is cut off, which is taken as long as its first byte says.
InInput ==
    \A i \in DOMAIN tokens :
        \/ tokens[i].end =< InputLength
        \/ cut /\ TypeAt(Len(m_input)) = "auxiliary" /\ tokens[i].end = InputLength + 1

=============================================================================
