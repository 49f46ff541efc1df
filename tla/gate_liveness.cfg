\* Every handler comes back, under the fairness of the handlers alone.
SPECIFICATION FairSpec
CONSTANTS
    Pubkeys = {p1}
    Usernames = {u1}
    Conns = {c1, c2}
    Links = {k1}
    NoRow = NoRow
    NoPubkey = NoPubkey
    NoUsername = NoUsername
    NoLink = NoLink
    NoEvent = NoEvent
    TTL = 1
    MaxAge = 1
    LookupRelays = 2
    QueryLimit = 2
    Inputs = {"auth", "profile", "req"}
    RelayTags = {"public"}
    Stamps = {1}
    MaxTime = 1
    MaxChallenge = 2
INVARIANT QueriesInOrder
PROPERTY HandlerReturns
