------------------------- MODULE ConnectorSettings -------------------------
(***************************************************************************)
(* The media settings of the home connector (internal/media): for each     *)
(* media service a base URL and a secret (Jellyfin's API key, Plex's       *)
(* token), and the FIPS peer.  A submitted URL may carry white space and   *)
(* trailing slashes around what it means; that is its padding here.        *)
(***************************************************************************)

CONSTANTS
    Services,    \* Jellyfin and Plex
    Hosts,       \* what a base URL may name
    BadHost,     \* what no http(s) URL can be made of
    Tokens,      \* secrets of the media services
    Peers,       \* FIPS peers (npub, address)
    BadPeer,     \* what is neither an npub nor a host:port
    None         \* the empty string

Link == [host : Hosts \cup {BadHost}, padded : BOOLEAN]

ASSUME NoneAssumption ==
    None \notin Link \cup Hosts \cup Tokens \cup Peers \cup {BadHost, BadPeer}

Url == Link \cup {None}

Peer == Peers \cup {BadPeer, None}

Config == [url : [Services -> Url], token : [Services -> Tokens \cup {None}],
           npub : Peer, addr : Peer]

\* Settings without padding.
Settings == {c \in Config : \A s \in Services : c.url[s] # None => ~c.url[s].padded}

\* normalizedConnectorMediaConfig
Normalized(cfg) ==
    [url   |-> [s \in Services |->
                   IF cfg.url[s] = None THEN None ELSE [host |-> cfg.url[s].host, padded |-> FALSE]],
     token |-> cfg.token,
     npub  |-> cfg.npub,
     addr  |-> cfg.addr]

\* validateConnectorMediaConfig: empty is valid everywhere, and each URL and each
\* half of the peer is looked at by itself.
Valid(cfg) ==
    /\ \A s \in Services : cfg.url[s] # None => cfg.url[s].host # BadHost
    /\ cfg.npub # BadPeer
    /\ cfg.addr # BadPeer

\* Mutant: a blank secret is replaced whether or not the service is enabled.
Merge_KeepAlways(existing, candidate) ==
    [Normalized(candidate) EXCEPT !.token = [s \in Services |->
        IF candidate.token[s] = None THEN existing.token[s] ELSE candidate.token[s]]]

\* Mutant: the candidate is taken as it was submitted.
Merge_Raw(existing, candidate) ==
    [candidate EXCEPT !.token = [s \in Services |->
        CASE candidate.url[s] = None   -> None
          [] candidate.url[s] # None /\ candidate.token[s] = None -> existing.token[s]
          [] OTHER -> candidate.token[s]]]

\* mergeWithExistingSecrets: a service without a URL loses its secret, a blank
\* secret stands for the one in use.
Merge(existing, candidate) ==
    [url   |-> Normalized(candidate).url,
     token |-> [s \in Services |->
                   IF candidate.url[s] = None THEN None
                   ELSE IF candidate.token[s] = None THEN existing.token[s]
                   ELSE candidate.token[s]],
     npub  |-> candidate.npub,
     addr  |-> candidate.addr]

\* main: each half of the peer that is blank comes from the environment.
WithPeerOf(cfg, env) ==
    [url   |-> cfg.url,
     token |-> cfg.token,
     npub  |-> IF cfg.npub = None THEN env.npub ELSE cfg.npub,
     addr  |-> IF cfg.addr = None THEN env.addr ELSE cfg.addr]
============================================================================
