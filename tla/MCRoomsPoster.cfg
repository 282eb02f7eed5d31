SPECIFICATION Spec
CONSTANTS
    User = {u}
    Email = {e1, e2}
    Data = {d1, d2}
    Photo = {p1, p2}
    Room = {r1}
    Req = {q1, q2}
    None = None
    Sent <- EmailAndPhoto
SYMMETRY Symmetry
PROPERTY PosterIsSet
