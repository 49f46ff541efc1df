\* Two PUTs that overlap, a form and its loads, saves of identities, or peers entered and checked.
SPECIFICATION AdministrationSpec
CONSTANTS
    Services = {"jellyfin", "plex"}
    Hosts = {h1, h2}
    BadHost = BadHost
    Tokens = {t1, t2}
    Peers = {p1, pEnv}
    BadPeer = BadPeer
    None = None
    Requests = {r1, r2}
    NoFile = NoFile
    BadFile = BadFile
    h1 = h1
    h2 = h2
    t1 = t1
    t2 = t2
    p1 = p1
    pEnv = pEnv
    Bodies <- MCBodies
    Files <- MCFiles
    Env <- MCEnv
    Urls = {u1, u2}
    PeerNpubs = {q1}
    PeerAddrs = {b1}
    DefaultUrl = u1
    u1 = u1
    u2 = u2
    q1 = q1
    b1 = b1
    Submitted <- MCSubmitted
    Off = Off
    MaxVersion = 3
    MaxEdits = 3
    LoadSlots = {s1, s2}
    Nsecs = {n1, n2, n3}
    NoNsec = NoNsec
    PartOfNsec = PartOfNsec
    EnvNsec = NoNsec
    Saves = {i1, i2}
    Npubs = {x1, x2}
    BadNpubs = {x2}
    Addrs = {a1, a2}
    BadAddrs = {a2}
    NoAddr = NoAddr
    NoPeer = NoPeer
    Checks = {k1, k2, k3}
INVARIANTS NoSecretWithoutService RunsWholeIdentity OneCheckAtATime
PROPERTIES FileStaysWhole StartsOnceSaved ShowsThePeerEntered FormNeverOlder FormCatchesUp
