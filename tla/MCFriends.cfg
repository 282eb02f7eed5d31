SPECIFICATION Spec
CONSTANTS
    User = {a, b, c, x}
    Registered = {a, b, c}
    Friendship = {f1, f2}
    Req = {q1, q2}
SYMMETRY Symmetry
INVARIANT TypeOK
INVARIANT DuplicatesAreRaces
INVARIANT WritersAreAllowed
INVARIANT StatsCountOnce
PROPERTY ListsMissNone
PROPERTY DecisionsStay
PROPERTY ImplementsTie
