\* A path that names no target and falls back to the default one.
SPECIFICATION Spec
CONSTANTS
    alice = alice
    bob = bob
    carol = carol
    ann = ann
    ben = ben
    Pubkeys = {alice, bob, carol}
    NoPubkey = NoPubkey
    Usernames = {ann, ben}
    NoUsername = NoUsername
    Claims <- MCClaims
    OwnerLists <- MCOwnerLists
    Lists <- MCLists
    NoList = NoList
    Rules = {"member", "friend", "strange"}
    RuleType <- MCRuleType
    Deny <- MCDeny
    NRelays = 2
    Targets = {"trustroots", "wiki", "notes"}
    DefaultTarget = "trustroots"
    NoTarget = NoTarget
    ProxyRules <- MCProxyRules
    TargetRules <- MCTargetRules
    Services = {"jellyfin", "plex", "audio"}
    ServiceRules <- MCServiceRules
    Grants = {carol}
    Admins = {carol}
    AdminMethod <- MCAdminMethod
    MaxAge = 1
    MaxBody = 2
    Inputs <- MCUnscoped
INVARIANT EveryPathIsChecked
