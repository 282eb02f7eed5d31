SPECIFICATION Spec
CONSTANTS
    User = {h, g}
    Room = {r1}
    Socket = {s1, s2}
    Call = {c1, c2}
    NoUser = NoUser
    MaxStarts = 3
SYMMETRY Symmetry
INVARIANT StopsWhenOwnerLeaves
