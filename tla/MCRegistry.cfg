SPECIFICATION RegistrySpec
CONSTANTS
    Callers = {c1, c2, c3}
    Ids = {i1, i2, i3}
    PlayerState = {"Connected", "Login", "Proxying"}
    Absent = Absent
    NoId = NoId
    ExclusiveIds = TRUE
SYMMETRY Symmetry
INVARIANTS
    RegistryTypeOK
    SessionsHaveHolders
    EntriesUndisturbed
    OnlineCountExact
PROPERTIES
    ImplementsOnlineCount
