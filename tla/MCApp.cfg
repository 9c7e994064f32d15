CONSTANTS
    Person <- MCPerson
    Shape <- MCShape
    Origin <- MCOrigin
    Plist <- MCPlist
    NoName = NoName
    MaxStep = 2
    MaxTouch = 6
    MaxDay = 1
    MaxFlight = 3
SPECIFICATION AppSpec
INVARIANTS
    Consistent
    GuardExact
    Coherent
    BarCoherent
PROPERTIES
    ImplementsPuzzle
    NoLevelLost
    RecordsAreOfWins
    BarComesBack
