\* Every file of up to six of these lines.
SPECIFICATION Spec
CONSTANTS
    Lines <- MCLines
    MaxLines = 6
    Groups = {"hospex", "media"}
    Wikis = {"w"}
    Values <- MCValues
    Keys <- MCKeys
    RouteKeys <- MCRouteKeys
    KeyOf <- MCKeyOf
    HttpURLs = {"https://www.trustroots.org", "https://wiki.org", "http://www.wiki.org"}
    AliasOf <- MCAliasOf
    Services = {"jellyfin"}
    Npubs = {"npub1owner", "npub1admin"}
    None = None
INVARIANTS GroupRulesHold RulesAreDefined NothingStatedIsLost
\* A file is read once.
CHECK_DEADLOCK FALSE
