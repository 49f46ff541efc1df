-------------------------- MODULE MCAdministration --------------------------
(***************************************************************************)
(* What administrators look after, for TLC: the settings of the connector  *)
(* and two PUTs that save them, the setup page, the FIPS identity and its  *)
(* sidecar, and the peer monitor of the Hub page.  In the models they      *)
(* share nothing, so a behaviour follows one of them while the others      *)
(* rest.                                                                   *)
(***************************************************************************)
EXTENDS MCConnectorSetup, SetupPage, FipsIdentity, FipsPeerCheck

CONSTANTS u1, u2, q1, b1

\* Of SetupPage, the settings that differ in what a load makes of them: a service on and no
\* peer, or a service off and half of a peer, or all of it.
MCSubmitted ==
    {[url |-> u2, peer |-> NoPeerGiven], [url |-> Off, peer |-> [npub |-> q1, addr |-> Off]],
     [url |-> u2, peer |-> [npub |-> q1, addr |-> b1]]}

VARIABLE task  \* what is followed

allVars == <<task, vars, setupPageVars, identityVars, peerVars>>

AdministrationInit ==
    /\ task \in {"saves", "form", "identity", "peer"}
    /\ Init /\ SetupPageInit /\ IdentityInit /\ PeerInit
    /\ task # "saves" => disk = NoFile
    /\ task # "form" => cache = NoPeerGiven
    /\ task # "peer" => overview = NoPeer /\ dials = {}

AdministrationNext ==
    \/ task = "saves" /\ Next /\ UNCHANGED <<task, setupPageVars, identityVars, peerVars>>
    \/ task = "form" /\ SetupPageNext /\ UNCHANGED <<task, vars, identityVars, peerVars>>
    \/ task = "identity" /\ IdentityNext /\ UNCHANGED <<task, vars, setupPageVars, peerVars>>
    \/ task = "peer" /\ PeerNext /\ UNCHANGED <<task, vars, setupPageVars, identityVars>>

AdministrationSpec ==
    /\ AdministrationInit
    /\ [][AdministrationNext]_allVars
    /\ SetupPageFairness /\ IdentityFairness /\ PeerFairness
============================================================================
