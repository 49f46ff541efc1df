\* Two relays, of which one has not seen the newer advert.
SPECIFICATION DiscoverySpec
CONSTANTS
    AdvertRelays = {r1, r2}
    Services = {s1, s2}
    LastCreated = 2
INVARIANT NewestAdvertKept
CHECK_DEADLOCK FALSE
