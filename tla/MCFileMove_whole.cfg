SPECIFICATION Spec
CONSTANTS
    Dir <- MCDir
    Name <- MCName
    Lists <- MCLists
    MaxCalls = 3
INVARIANT
    AllDataSomewhere
CHECK_DEADLOCK FALSE
