SPECIFICATION SqlSpec
CONSTANTS
    MaxNodes = 2
    Char <- MCChar
    MaxInput = 4
    CallObject = {c1, c2}
    Handle = {h1}
    Row = {1, 2, 3}
    Chain <- MCChain
    Tables <- MCTables
    Limit = {0, 2}
    MaxObjects = 2
    Versions <- MCVersions
    MaxStarts = 3
    PropertyType <- MCPropertyType
    Sample <- MCSample
    IntBits = 3
    LongBits = 5
    DoubleBits = 3
    FractionBits = 1
    Thread = {1, 2}
    MaxStatements <- MCMaxStatements
    MaxSettings = 2
CHECK_DEADLOCK FALSE
INVARIANTS
    SqlCoherent
    ReadsBack
    FindsWanted
    Searchable
    GivesWhatIsAsked
    TableFitsClass
    ValuesSurvive
    ReportIsWhole
    FailuresAreHeard
PROPERTIES
    WritesAsAnswered
    OnlyAdds
