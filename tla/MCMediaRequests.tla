-------------------------- MODULE MCMediaRequests --------------------------
(* MediaRequests on the settings of MCConnectorSetup. *)
EXTENDS MediaRequests, MCConnectorSetup

Ask(from, action, service, wellFormed, candidate) ==
    [from |-> from, action |-> action, service |-> service,
     wellFormed |-> wellFormed, candidate |-> candidate]

MCAsks ==
    {Ask("gateway", "status", "plex", TRUE, None), Ask("gateway", "search", "jellyfin", FALSE, None),
     Ask("gateway", "search", "jellyfin", TRUE, None), Ask("gateway", "stream", "jellyfin", FALSE, None),
     Ask("gateway", "stream", "plex", TRUE, None),
     Ask("setup", "random-song", "plex", TRUE, None),
     Ask("setup", "stream", "plex", FALSE, None), Ask("setup", "stream", "jellyfin", TRUE, None)}
    \cup {Ask("setup", "test", "jellyfin", TRUE, body) : body \in MCBodies}
============================================================================
