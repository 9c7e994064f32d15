SPECIFICATION FairSpec
CONSTANTS
    Home = home
    Path = {home}
    Key = {home, away}
    App = {a, b}
    Ck = ck
    Object = {a, b, ck}
    Tag = {1}
    Order <- MCOrder
    Delay = 1
    MaxLag = 1
    MaxCalls = 5
CHECK_DEADLOCK FALSE
INVARIANTS
    Coherent
    FullAsTold
    GrownIsQueued
PROPERTIES
    Debounced
    NotLockedOut
    HandedOut
