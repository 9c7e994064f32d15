CONSTANTS
    Person <- MCPerson
    Shape <- MCShape
    Origin <- MCOrigin
    MaxStep = 3
SPECIFICATION Spec
INVARIANT
    BestIsFewest
