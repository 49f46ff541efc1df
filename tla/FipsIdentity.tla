---------------------------- MODULE FipsIdentity ----------------------------
(***************************************************************************)
(* The FIPS identity of one side: the setup UI (or the hub) saves an nsec  *)
(* to a file on a shared volume (internal/fips/identity.go), and the       *)
(* sidecar container (fips-sidecar/entrypoint.sh) waits for it, every two  *)
(* seconds, before it starts FIPS with it.  The two are different          *)
(* processes: either may stop and start at any time.                       *)
(***************************************************************************)

CONSTANTS
    Nsecs,       \* identities administrators generate
    NoNsec,      \* the empty string
    PartOfNsec,  \* what a reader finds in a file that is being written
    EnvNsec,     \* FIPS_NSEC in the environment of the sidecar, or NoNsec
    Saves        \* slots for save requests in progress

ASSUME NsecAssumption ==
    /\ NoNsec \notin Nsecs /\ PartOfNsec \notin Nsecs \cup {NoNsec}
    /\ EnvNsec \in Nsecs \cup {NoNsec}

VARIABLES
    file,        \* the nsec file, NoNsec when there is none
    saveStage,   \* where a save stands
    nsec,        \* what it saves
    sidecar,     \* "down", "setup" while it waits, "fips" once FIPS runs
    identity     \* the nsec FIPS was started with

identityVars == <<file, saveStage, nsec, sidecar, identity>>

IdentityInit ==
    /\ file = NoNsec
    /\ saveStage = [r \in Saves |-> "none"]
    /\ nsec = [r \in Saves |-> NoNsec]
    /\ sidecar = "down"
    /\ identity = NoNsec

-----------------------------------------------------------------------------
(* fips.SaveNsec, as the setup API and the admin API call it *)

\* A signed request whose nsec decodes (NsecIdentity), up to the creation of the
\* temporary file.
SaveNsec(r, n) ==
    /\ saveStage[r] = "none"
    /\ saveStage' = [saveStage EXCEPT ![r] = "temp"]
    /\ nsec' = [nsec EXCEPT ![r] = n]
    /\ UNCHANGED <<file, sidecar, identity>>

\* Mutant: the nsec file itself is opened and written to.
WriteNsec_InPlace(r) ==
    /\ saveStage[r] = "temp"
    /\ saveStage' = [saveStage EXCEPT ![r] = "written"]
    /\ file' = PartOfNsec
    /\ UNCHANGED <<nsec, sidecar, identity>>

\* WriteString, Chmod and Close of the temporary file.
WriteNsec(r) ==
    /\ saveStage[r] = "temp"
    /\ saveStage' = [saveStage EXCEPT ![r] = "written"]
    /\ UNCHANGED <<file, nsec, sidecar, identity>>

\* os.Rename, and the answer with the npub.
RenameNsec(r) ==
    /\ saveStage[r] = "written"
    /\ file' = nsec[r]
    /\ saveStage' = [saveStage EXCEPT ![r] = "none"]
    /\ nsec' = [nsec EXCEPT ![r] = NoNsec]
    /\ UNCHANGED <<sidecar, identity>>

\* A file operation fails.
SaveNsecFails(r) ==
    /\ saveStage[r] \in {"temp", "written"}
    /\ saveStage' = [saveStage EXCEPT ![r] = "none"]
    /\ nsec' = [nsec EXCEPT ![r] = NoNsec]
    /\ UNCHANGED <<file, sidecar, identity>>

\* The process that serves the requests stops; the volume stays.
ServerStops ==
    /\ saveStage' = [r \in Saves |-> "none"]
    /\ nsec' = [r \in Saves |-> NoNsec]
    /\ UNCHANGED <<file, sidecar, identity>>

-----------------------------------------------------------------------------
(* entrypoint.sh *)

\* Mutant: only the environment is read again.
LoadNsec_EnvOnly == EnvNsec

\* load_fips_nsec: the environment wins over the file.
LoadNsec == IF EnvNsec # NoNsec THEN EnvNsec ELSE file

\* FIPS is started with a configuration that names the nsec.
ExecFips(n) ==
    /\ sidecar' = "fips"
    /\ identity' = n

\* The container starts, with an identity or in setup mode.
SidecarStarts ==
    /\ sidecar = "down"
    /\ \/ LoadNsec # NoNsec /\ ExecFips(LoadNsec)
       \/ LoadNsec = NoNsec /\ sidecar' = "setup" /\ UNCHANGED identity
    /\ UNCHANGED <<file, saveStage, nsec>>

\* One round of the wait loop that finds an nsec.
SidecarPolls ==
    /\ sidecar = "setup"
    /\ LoadNsec # NoNsec
    /\ ExecFips(LoadNsec)
    /\ UNCHANGED <<file, saveStage, nsec>>

\* The container stops or is restarted by its operator.
SidecarStops ==
    /\ sidecar # "down"
    /\ sidecar' = "down"
    /\ identity' = NoNsec
    /\ UNCHANGED <<file, saveStage, nsec>>

-----------------------------------------------------------------------------
IdentityNext ==
    \/ \E r \in Saves, n \in Nsecs : SaveNsec(r, n)
    \/ \E r \in Saves : WriteNsec(r) \/ RenameNsec(r) \/ SaveNsecFails(r)
    \/ ServerStops
    \/ SidecarStarts \/ SidecarPolls \/ SidecarStops

IdentitySpec == IdentityInit /\ [][IdentityNext]_identityVars

\* The wait loop of a sidecar that is up goes round.  Nothing is assumed of the
\* containers being started again, nor of anybody saving an identity.
IdentityFairness == WF_identityVars(SidecarPolls)

FairIdentitySpec == IdentitySpec /\ IdentityFairness

-----------------------------------------------------------------------------
(* Properties *)

\* FIPS only ever runs with an identity that was saved or configured as a whole,
\* although the sidecar may read the file at any moment of a save and the
\* processes on both sides of it may stop at any time.
RunsWholeIdentity ==
    /\ identity \in Nsecs \cup {NoNsec}
    /\ sidecar = "fips" => identity # NoNsec

\* A sidecar that is up when an identity has been saved comes to run FIPS without
\* being told, unless it is stopped: "the FIPS sidecar starts automatically after
\* its identity is saved" (docs/fips-media-pilot.md).
StartsOnceSaved == file # NoNsec /\ sidecar # "down" ~> sidecar \in {"fips", "down"}
============================================================================
