\* Admission: two clients, two keys, one username that may move between them.
SPECIFICATION Spec
CONSTANTS
    Pubkeys = {p1, p2}
    Usernames = {u1}
    Conns = {c1, c2}
    Links = {k1, k2}
    NoRow = NoRow
    NoPubkey = NoPubkey
    NoUsername = NoUsername
    NoLink = NoLink
    NoEvent = NoEvent
    TTL = 1
    MaxAge = 1
    LookupRelays = 1
    QueryLimit = 1
    Inputs = {"auth"}
    RelayTags = {"public/", "other"}
    Stamps = {1}
    MaxTime = 2
    MaxChallenge = 2
INVARIANTS TypeOK CacheBacked
PROPERTIES KeepsContract OneProofOneSession
SYMMETRY Symmetry
