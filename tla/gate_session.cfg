\* One client at a time, every kind of message but REQ, two keys, upstream failures.
SPECIFICATION Spec
CONSTANTS
    Pubkeys = {p1, p2}
    Usernames = {u1}
    Conns = {c1}
    Links = {k1, k2}
    NoRow = NoRow
    NoPubkey = NoPubkey
    NoUsername = NoUsername
    NoLink = NoLink
    NoEvent = NoEvent
    TTL = 1
    MaxAge = 1
    LookupRelays = 2
    QueryLimit = 1
    Inputs = {"auth", "emptyAuth", "profile", "event", "other", "refused"}
    RelayTags = {"public", "other"}
    Stamps = {1, 2}
    MaxTime = 0
    MaxChallenge = 2
INVARIANTS UpstreamReleased ForwardedIsBacked RelayedAfterOK ConfirmedMeansStored
SYMMETRY Symmetry
