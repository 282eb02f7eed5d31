SPECIFICATION Spec
CONSTANTS
    User = {a, b}
    Registered = {a, b}
    Friendship = {f1, f2}
    Req = {q1, q2}
SYMMETRY Symmetry
INVARIANT NoDuplicates
