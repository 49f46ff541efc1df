\* Two saves that overlap.
SPECIFICATION Spec
CONSTANTS
    Services = {"jellyfin", "plex"}
    Hosts = {h1, h2}
    BadHost = BadHost
    Tokens = {t1, t2}
    Peers = {p1, pEnv}
    BadPeer = BadPeer
    None = None
    Requests = {r1, r2}
    NoFile = NoFile
    BadFile = BadFile
    h1 = h1
    h2 = h2
    t1 = t1
    t2 = t2
    p1 = p1
    pEnv = pEnv
    Bodies <- MCBodies
    Files <- MCFiles
    Env <- MCEnvNoPeer
INVARIANT SavedIsApplied
