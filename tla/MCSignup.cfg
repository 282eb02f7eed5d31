SPECIFICATION FairSpec
CONSTANTS
    Email = {e}
    Password = {p}
    Req = {q1, q2}
    None = None
    MaxUuid = 2
INVARIANT TypeOK
INVARIANT AccountWasValidated
INVARIANT KnownUuidWorks
INVARIANT SettingsRace
PROPERTY AccountsStay
PROPERTY ChosenStay
PROPERTY SettingsFollow
PROPERTY ImplementsOneTimeKey
