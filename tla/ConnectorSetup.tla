--------------------------- MODULE ConnectorSetup ---------------------------
(***************************************************************************)
(* Saving the connector's media settings (internal/media/setup.go): each   *)
(* PUT of the setup API runs in a goroutine of its own that reads the      *)
(* settings in use, merges the body into them, writes a temporary file,    *)
(* renames it over the settings file, and only then replaces the settings  *)
(* in use.  The connector's mutex covers each single read and replacement, *)
(* nothing covers a PUT as a whole.  The process may stop between any two  *)
(* steps; cmd/wrapster-connector reads the file when it starts again.      *)
(***************************************************************************)
EXTENDS ConnectorSettings, FiniteSets

CONSTANTS
    Requests,    \* slots for PUT requests in progress
    Bodies,      \* what administrators submit
    Files,       \* what the file may hold when the connector is first started
    Env,         \* the settings in the environment of the process
    NoFile,
    BadFile      \* a file that is not JSON, or does not validate

ASSUME SetupAssumption ==
    /\ Bodies \subseteq Config /\ Env \in Config
    /\ Files \subseteq Config \cup {NoFile, BadFile}
    /\ \A f \in Files \ {NoFile, BadFile} : Valid(f)
    /\ {None, NoFile, BadFile} \cap Config = {}

VARIABLES
    disk,        \* the settings file
    memory,      \* the settings of the running Connector, None when it is down
    phase,       \* where a PUT stands
    cfg,         \* its merged settings, None when there is no PUT
    answered     \* a PUT was answered 200 since the process started

vars == <<disk, memory, phase, cfg, answered>>

Phases == {"none", "save", "temp", "written", "apply"}

\* LoadConnectorMediaConfig and main: a file that is missing or useless counts
\* for nothing, one that is good replaces the media settings of the environment.
Loaded(file) ==
    Normalized(WithPeerOf(IF file \in {NoFile, BadFile} THEN Env ELSE Normalized(file), Env))

Init ==
    /\ disk \in Files
    /\ memory = Loaded(disk)
    /\ phase = [r \in Requests |-> "none"]
    /\ cfg = [r \in Requests |-> None]
    /\ answered = FALSE

Goto(r, p) == phase' = [phase EXCEPT ![r] = p]

\* The handler returns; its locals are gone.
Return(r) ==
    /\ Goto(r, "none")
    /\ cfg' = [cfg EXCEPT ![r] = None]

\* A signed PUT with a decodable body: one read of the settings in use, the
\* merge, and the validation, which may end it.
ReceivePut(r, body) ==
    /\ memory # None
    /\ phase[r] = "none"
    /\ Valid(Merge(memory, body))
    /\ cfg' = [cfg EXCEPT ![r] = Merge(memory, body)]
    /\ Goto(r, "save")
    /\ UNCHANGED <<disk, memory, answered>>

\* Mutant: the settings file itself is opened for writing.
CreateTemp_InPlace(r) ==
    /\ phase[r] = "save"
    /\ disk' = BadFile
    /\ Goto(r, "temp")
    /\ UNCHANGED <<cfg, memory, answered>>

\* MkdirAll and CreateTemp, next to the settings file.
CreateTemp(r) ==
    /\ phase[r] = "save"
    /\ Goto(r, "temp")
    /\ UNCHANGED <<cfg, disk, memory, answered>>

\* Write, Chmod and Close of the temporary file.
WriteTemp(r) ==
    /\ phase[r] = "temp"
    /\ Goto(r, "written")
    /\ UNCHANGED <<cfg, disk, memory, answered>>

\* Mutant: the settings are put into use before the file is renamed.
RenameTemp_ApplyFirst(r) ==
    /\ phase[r] \in {"written", "apply"}
    /\ IF phase[r] = "written"
       THEN /\ memory' = Normalized(cfg[r]) /\ Goto(r, "apply")
            /\ UNCHANGED <<disk, cfg, answered>>
       ELSE /\ disk' = Normalized(cfg[r]) /\ answered' = TRUE
            /\ Return(r)
            /\ UNCHANGED memory

\* os.Rename: the file changes at once and as a whole.
RenameTemp(r) ==
    /\ phase[r] = "written"
    /\ disk' = Normalized(cfg[r])
    /\ Goto(r, "apply")
    /\ UNCHANGED <<cfg, memory, answered>>

\* Any of the file operations fails: 500, the temporary file is removed, and the
\* settings in use stay.
SaveFails(r) ==
    /\ phase[r] \in {"save", "temp", "written"}
    /\ Return(r)
    /\ UNCHANGED <<disk, memory, answered>>

\* SetMediaConfig under the connector's mutex, and the answer.
Apply(r) ==
    /\ phase[r] = "apply"
    /\ memory' = Normalized(cfg[r])
    /\ answered' = TRUE
    /\ Return(r)
    /\ UNCHANGED disk

\* The process dies: every request with it.
Stop ==
    /\ memory # None
    /\ memory' = None
    /\ phase' = [r \in Requests |-> "none"]
    /\ cfg' = [r \in Requests |-> None]
    /\ answered' = FALSE
    /\ UNCHANGED disk

Start ==
    /\ memory = None
    /\ memory' = Loaded(disk)
    /\ UNCHANGED <<disk, phase, cfg, answered>>

SetupStep ==
    \/ \E r \in Requests, body \in Bodies : ReceivePut(r, body)
    \/ \E r \in Requests :
          CreateTemp(r) \/ WriteTemp(r) \/ RenameTemp(r) \/ SaveFails(r) \/ Apply(r)
    \/ Start

Next == SetupStep \/ Stop

Spec == Init /\ [][Next]_vars

-----------------------------------------------------------------------------
(* Properties *)

\* Every variable keeps the kind of value its declaration gives it; what is in
\* use or on its way to the file has been normalized.
TypeOK ==
    /\ disk \in Config \cup {NoFile, BadFile}
    /\ memory \in Settings \cup {None}
    /\ phase \in [Requests -> Phases]
    /\ cfg \in [Requests -> Settings \cup {None}]
    /\ answered \in BOOLEAN

Whole(file) == file \notin {NoFile, BadFile} /\ Valid(file)

\* Once the settings file holds settings it holds whole and valid ones for ever:
\* a crash or an error at any step of any number of saves never leaves a file
\* that the next start would ignore (SaveConnectorMediaConfig).
FileStaysWhole == [][Whole(disk) => Whole(disk')]_vars

\* Settings that came through the API hold no secret of a service that is
\* switched off, in the file or in use: of two saves that overlap, one of which switches
\* the service off while the other keeps the secret in use, neither the order of
\* the renames nor that of the applications leaves the secret of one beside the
\* switch of the other (mergeWithExistingSecrets, SetupHandler.config).
NoSecretWithoutService ==
    answered =>
        \A s \in Services :
            /\ memory.url[s] = None => memory.token[s] = None
            /\ disk.url[s] = None => disk.token[s] = None

\* A save that has been renamed into place but not yet applied counts as applied.
Applied ==
    IF \E r \in Requests : phase[r] = "apply"
    THEN Normalized(cfg[CHOOSE r \in Requests : phase[r] = "apply"])
    ELSE memory

Contract == INSTANCE SettingsContract WITH saved <- disk, applied <- Applied

\* Saves that do not overlap are atomic across the file, the running connector
\* and a crash at any point in between (SetupHandler.config, main).
SavesAreAtomic == Contract!Spec

\* When no save is under way, the connector uses the settings last saved.
SavedIsApplied ==
    answered /\ (\A r \in Requests : phase[r] = "none") => memory = disk
============================================================================
