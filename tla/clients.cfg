\* A session with one relay, the adverts of two, or the web client and its gate.
SPECIFICATION ClientsSpec
CONSTANTS
    Modes = {"publish", "load"}
    Kinds = {"gate", "late", "renew", "polite", "open", "strict"}
    MaxChallenge = 3
    Notes = 2
    RelayList <- MCRelayList
    Addresses = {"a"}
    LastTime = 2
    Earlier <- MCEarlier
    MaxLoads = 2
    Deletions = {d1, d2}
    MaxSockets = 3
    MaxMessages = 1
INVARIANTS VerdictIsTrue NewestShown GoneOnlyWhenDeleted PageKnowsItsSocket
PROPERTIES NoLatePublication EndsWithoutTimeout
\* A session ends.
CHECK_DEADLOCK FALSE
