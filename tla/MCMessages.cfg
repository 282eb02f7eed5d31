SPECIFICATION Spec
CONSTANTS
    User = {a, b, x}
    Registered = {a, b}
    Room = {r}
    Socket = {s1}
    Msg = {m1, m2}
    None = None
    MaxClock = 1
SYMMETRY Symmetry
INVARIANT TypeOK
INVARIANT NothingMissed
INVARIANT HeardIsStored
INVARIANT HistoryKeepsOrder
