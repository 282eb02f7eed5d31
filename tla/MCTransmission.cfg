SPECIFICATION FairSpec
CONSTANTS
    User = {h, g}
    Room = {r1}
    Socket = {s1, s2}
    Call = {c1, c2}
    NoUser = NoUser
    MaxStarts = 3
INVARIANT TypeOK
INVARIANT OwnerIsHost
INVARIANT WordIsTrue
INVARIANT SameControls
INVARIANT LiveHasCaster
PROPERTY ImplementsSlots
PROPERTY StartAnswered
