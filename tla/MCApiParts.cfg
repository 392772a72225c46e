\* Two handlers at work, one value to send besides the default and blank; two
\* users and two rooms.
CONSTANTS
    Handlers = {h1, h2}
    Values = {v1}
    Default = Default
    Blank = Blank
    Users = {host, guest}
    host = host  guest = guest
    Rooms = {r1, r2}
    r1 = r1  r2 = r2
    Nobody = Nobody
    Moderators <- MCModerators
    MaxTokens = 3
    MaxDocuments = 1
    MaxSent = 1
SPECIFICATION ApiSpec
SYMMETRY Symmetry
INVARIANTS
    UpdatesKept
    HeardByThoseConcerned
