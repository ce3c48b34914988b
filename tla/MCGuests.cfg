SPECIFICATION MCSpec
CONSTANTS
    Guests = {g1, g2}
    User = u
    MaxTries = 1
    MaxActs = 5
    MaxTrips = 1
    Chats = {m1, m2, m3, m4}
    Controls = {k1}
    Limit = 1
    MaxAtOnce = 2
INVARIANTS
    InvitesEnd
    KeysFollowTheName
    OvershootBounded
CHECK_DEADLOCK FALSE
