CONSTANTS
    Person <- MCPerson
    Shape <- MCShape
    Origin <- MCOrigin
    LastPerson = 6
    Boards <- MCBoards
    MaxDepth = 3
SPECIFICATION SolverSpec
CHECK_DEADLOCK FALSE
PROPERTY
    ReturnsSteps
