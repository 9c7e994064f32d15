SPECIFICATION Spec
CONSTANTS
    Dir <- MCDir
    Name <- MCName
    Lists <- MCLists
    MaxCalls = 3
CHECK_DEADLOCK FALSE
INVARIANTS
    Coherent
    AnswerIsTrue
