-------------------------- MODULE SettingsContract --------------------------
(***************************************************************************)
(* What the setup API promises an administrator who saves one thing at a   *)
(* time: a save takes effect on the file and in the running connector at   *)
(* one moment or not at all, whatever fails or crashes on the way, and a   *)
(* restart brings back what the file holds.                                *)
(***************************************************************************)
EXTENDS ConnectorSettings

CONSTANTS
    Bodies,     \* what administrators submit
    Env,        \* settings from the environment
    NoFile,     \* there is no file
    BadFile     \* the file cannot be read or used

VARIABLES
    saved,      \* the file
    applied     \* what the connector serves with, None while it is down

vars == <<saved, applied>>

Loaded(file) ==
    Normalized(WithPeerOf(IF file \in {NoFile, BadFile} THEN Env ELSE Normalized(file), Env))

Init ==
    /\ saved \in {NoFile, BadFile} \cup Config
    /\ applied = Loaded(saved)

Save(candidate) ==
    /\ applied # None
    /\ Valid(Merge(applied, candidate))
    /\ saved' = Merge(applied, candidate)
    /\ applied' = Merge(applied, candidate)

Stop ==
    /\ applied' = None
    /\ UNCHANGED saved

Start ==
    /\ applied = None
    /\ applied' = Loaded(saved)
    /\ UNCHANGED saved

Next ==
    \/ \E candidate \in Bodies : Save(candidate)
    \/ Stop
    \/ Start

Spec == Init /\ [][Next]_vars
============================================================================
