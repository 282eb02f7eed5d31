SPECIFICATION Spec
CONSTANTS
    User = {u}
    Client = {k}
    Req = {q1, q2}
    None = None
    MaxNow = 1
SYMMETRY Symmetry
INVARIANT EverySessionRefreshes
