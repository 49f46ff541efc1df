\* The example file of the repository.
SPECIFICATION ExampleSpec
CONSTANTS
    Lines <- MCLines
    MaxLines = 17
    Groups = {"hospex", "media"}
    Wikis = {"w"}
    Values <- MCValues
    Keys <- MCKeys
    RouteKeys <- MCRouteKeys
    KeyOf <- MCKeyOf
    HttpURLs = {"https://www.trustroots.org", "https://wiki.org", "http://www.wiki.org"}
    AliasOf <- MCAliasOf
    Services = {"jellyfin"}
    Npubs = {"npub1owner", "npub1admin"}
    None = None
INVARIANT ExampleIsAccepted
\* A file is read once.
CHECK_DEADLOCK FALSE
