\* Calls for media and trials, while settings are saved one at a time with failures and crashes.
SPECIFICATION MediaSpec
CONSTANTS
    Services = {"jellyfin", "plex"}
    Hosts = {h1, h2}
    BadHost = BadHost
    Tokens = {t1, t2}
    Peers = {p1, pEnv}
    BadPeer = BadPeer
    None = None
    Requests = {r1}
    NoFile = NoFile
    BadFile = BadFile
    h1 = h1
    h2 = h2
    t1 = t1
    t2 = t2
    p1 = p1
    pEnv = pEnv
    Bodies <- MCBodies
    Files <- MCFiles
    Env <- MCEnv
    Calls = {m1}
    Asks <- MCAsks
INVARIANTS TypeOK AskedWithOneSetting
PROPERTIES SavesAreAtomic CallsEnd
