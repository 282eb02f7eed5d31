SPECIFICATION Spec
CONSTANTS
    User = {u, v}
    Email = {e1, e2, e3}
    Data = {d1, d2}
    Photo = {p1, p2}
    Room = {r1}
    Req = {q1, q2}
    None = None
    Sent <- EmailAndPhoto
SYMMETRY Symmetry
INVARIANT TypeOK
INVARIANT InviteOpens
PROPERTY WritesOwnRow
PROPERTY NoOldPhoto
