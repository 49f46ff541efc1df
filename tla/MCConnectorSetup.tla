-------------------------- MODULE MCConnectorSetup --------------------------
(* ConnectorSetup with the submissions that differ in what a save does. *)
EXTENDS ConnectorSetup, TLC

CONSTANTS h1, h2, t1, t2, p1, pEnv

\* A service that is off, with or without a secret, or on.
Down(token) == [url |-> None, token |-> token]
On(token)  == [url |-> [host |-> h1, padded |-> FALSE], token |-> token]
Raw(token) == [url |-> [host |-> h1, padded |-> TRUE], token |-> token]
New(token) == [url |-> [host |-> h2, padded |-> FALSE], token |-> token]
Bad(token) == [url |-> [host |-> BadHost, padded |-> FALSE], token |-> token]

Media(jellyfin, plex, npub) ==
    LET of == [s \in Services |-> IF s = "jellyfin" THEN jellyfin ELSE plex]
    IN  [url |-> [s \in Services |-> of[s].url], token |-> [s \in Services |-> of[s].token],
         npub |-> npub, addr |-> None]

\* The environment names a service, a secret and a peer, or no peer.
MCEnv       == Media(Raw(t1), Down(None), pEnv)
MCEnvNoPeer == Media(Raw(t1), Down(None), None)

\* The file of an earlier version kept the secret of a service switched off.
MCFiles == {NoFile, BadFile, Media(Down(t1), On(t2), None)}

\* New secrets, blank ones, another server, a service switched off with its secret sent along,
\* a bad URL, a bad peer.
MCBodies ==
    {Media(Raw(t2), Down(None), p1), Media(New(None), On(t1), None), Media(Down(t2), On(None), None),
     Media(Bad(t2), On(None), None), Media(On(None), Down(None), BadPeer)}
============================================================================
