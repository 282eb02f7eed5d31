SPECIFICATION Spec
CONSTANTS
    Email = {e, x}
    Registered = {e}
    Uuid = {u1, u2}
    Req = {q1, q2}
    NoReq = NoReq
SYMMETRY Symmetry
INVARIANT TypeOK
INVARIANT AnsweredUuidWorks
INVARIANT NoKeyLeft
PROPERTY ImplementsOneTimeKey
