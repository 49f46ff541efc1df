----------------------- MODULE Administration_proofs -----------------------
(***************************************************************************)
(* What administrators look after, for any number of requests, peers,      *)
(* checks and loads: FIPS runs with whole identities only, a monitored     *)
(* peer has one check under way, and the setup form never goes back to     *)
(* older settings.  Each argument is a small inductive invariant of the    *)
(* component's own specification.                                          *)
(***************************************************************************)
EXTENDS FipsIdentity, FipsPeerCheck, SetupPage, FiniteSetTheorems, TLAPS

-----------------------------------------------------------------------------
(* The identity and its file *)

Identities == Nsecs \cup {NoNsec}

\* What a save holds, what the volume holds and what FIPS runs with are whole
\* identities: the temporary file is nowhere to be seen.
WholeFiles ==
    /\ file \in Identities
    /\ saveStage \in [Saves -> {"none", "temp", "written"}]
    /\ nsec \in [Saves -> Identities]
    /\ RunsWholeIdentity

\* The containers read either the environment or the file.
LEMMA LoadedIsWhole == WholeFiles => LoadNsec \in Identities
  BY NsecAssumption DEF WholeFiles, LoadNsec, Identities

\* Every step of a save, and every start and stop of either process, keeps the
\* identities whole.
LEMMA WholeFilesKept == WholeFiles /\ [IdentityNext]_identityVars => WholeFiles'
<1> SUFFICES ASSUME WholeFiles, [IdentityNext]_identityVars
             PROVE  WholeFiles'
  OBVIOUS
<1> NoNsec \in Identities
  BY DEF Identities
<1>1. ASSUME NEW r \in Saves, NEW n \in Nsecs, SaveNsec(r, n)
      PROVE  WholeFiles'
  BY <1>1 DEF SaveNsec, WholeFiles, RunsWholeIdentity, Identities
<1>2. ASSUME NEW r \in Saves, WriteNsec(r)
      PROVE  WholeFiles'
  BY <1>2 DEF WriteNsec, WholeFiles, RunsWholeIdentity, Identities
<1>3. ASSUME NEW r \in Saves, RenameNsec(r)
      PROVE  WholeFiles'
  BY <1>3 DEF RenameNsec, WholeFiles, RunsWholeIdentity, Identities
<1>4. ASSUME NEW r \in Saves, SaveNsecFails(r)
      PROVE  WholeFiles'
  BY <1>4 DEF SaveNsecFails, WholeFiles, RunsWholeIdentity, Identities
<1>5. CASE ServerStops
  BY <1>5 DEF ServerStops, WholeFiles, RunsWholeIdentity, Identities
<1>6. CASE SidecarStarts
  BY <1>6, LoadedIsWhole DEF SidecarStarts, ExecFips, WholeFiles, RunsWholeIdentity, Identities
<1>7. CASE SidecarPolls
  BY <1>7, LoadedIsWhole DEF SidecarPolls, ExecFips, WholeFiles, RunsWholeIdentity, Identities
<1>8. CASE SidecarStops
  BY <1>8 DEF SidecarStops, WholeFiles, RunsWholeIdentity, Identities
<1>9. CASE UNCHANGED identityVars
  BY <1>9 DEF identityVars, WholeFiles, RunsWholeIdentity
<1>10. QED
  BY <1>1, <1>2, <1>3, <1>4, <1>5, <1>6, <1>7, <1>8, <1>9 DEF IdentityNext

\* FIPS only ever runs with an identity that was saved or configured as a whole
\* (fips.SaveNsec writes beside the file and renames; entrypoint.sh reads it).
THEOREM IdentitiesAreWhole == IdentitySpec => []RunsWholeIdentity
<1>1. IdentityInit => WholeFiles
  BY DEF IdentityInit, WholeFiles, RunsWholeIdentity, Identities
<1>2. WholeFiles => RunsWholeIdentity
  BY DEF WholeFiles
<1>3. QED
  BY <1>1, <1>2, WholeFilesKept, PTL DEF IdentitySpec

-----------------------------------------------------------------------------
(* The monitored peer *)

CheckRecords == [stage : {"none", "signing", "asked"}, target : Targets \cup {NoPeer},
                 stopped : BOOLEAN]

\* The checks of the peer that is monitored now.
Current == {c \in Checks : check[c].stage # "none" /\ ~check[c].stopped}

\* fipsPeerCheckState.running names every check of the monitored peer that is
\* under way, and holds one at most.
RunningIsCurrent ==
    /\ overview \in Targets \cup {NoPeer}
    /\ check \in [Checks -> CheckRecords]
    /\ Current \subseteq running
    /\ \A c, d \in running : c = d

\* A check begins where none of the monitored peer is under way, or where all of
\* them have just been given up.
LEMMA CheckBegins ==
    ASSUME NEW c \in Checks, NEW target \in Targets,
           NEW others \in [Checks -> CheckRecords],
           \A d \in Checks : others[d].stage = "none" \/ others[d].stopped,
           StartCheck(c, target, others), overview' \in Targets \cup {NoPeer}
    PROVE  RunningIsCurrent'
<1> DEFINE begun == [stage |-> "signing", target |-> target, stopped |-> FALSE]
<1>1. begun \in CheckRecords
  BY DEF CheckRecords
<1>2. check' = [others EXCEPT ![c] = begun] /\ running' = {c}
  BY DEF StartCheck
<1> HIDE DEF begun
<1>3. check' \in [Checks -> CheckRecords] /\ \A d \in Checks \ {c} : check'[d] = others[d]
  BY <1>1, <1>2
<1>4. QED
  BY <1>2, <1>3 DEF RunningIsCurrent, Current

\* Giving up marks every check that is under way.
LEMMA GivenUp ==
    RunningIsCurrent => /\ Stopped \in [Checks -> CheckRecords]
                        /\ \A d \in Checks : Stopped[d].stage = "none" \/ Stopped[d].stopped
  BY DEF RunningIsCurrent, Stopped, CheckRecords

\* Where nothing is running, the checks under way are of peers given up.
LEMMA NothingRuns ==
    RunningIsCurrent /\ running = {} =>
        /\ check \in [Checks -> CheckRecords]
        /\ \A d \in Checks : check[d].stage = "none" \/ check[d].stopped
  BY DEF RunningIsCurrent, Current

\* Whatever the field is changed to, and from whatever.
LEMMA ScheduleKept ==
    ASSUME NEW target \in Targets \cup {NoPeer}, RunningIsCurrent, Schedule(target),
           UNCHANGED overview
    PROVE  RunningIsCurrent'
<1> overview' \in Targets \cup {NoPeer}
  BY DEF RunningIsCurrent
<1>1. CASE target = NoPeer
  BY <1>1, GivenUp DEF Schedule, Unmonitor, RunningIsCurrent, Current
<1>2. CASE target # NoPeer
  <2> target \in Targets /\ Monitor(target)
    BY <1>2 DEF Schedule
  <2>1. CASE peerKey = target /\ running = {}
    BY <2>1, CheckBegins, NothingRuns DEF Monitor, Idle
  <2>2. CASE peerKey = target /\ running # {}
    BY <2>2 DEF Monitor, RunningIsCurrent, Current
  <2>3. CASE peerKey # target
    BY <2>3, CheckBegins, GivenUp DEF Monitor, Idle
  <2>4. QED
    BY <2>1, <2>2, <2>3
<1>3. QED
  BY <1>1, <1>2

\* A check that ends, of whichever peer, takes away its own mark only.
LEMMA CheckEndsKept ==
    ASSUME NEW c \in Checks, NEW what, RunningIsCurrent, CheckEnds(c, what)
    PROVE  RunningIsCurrent'
<1>1. NoCheck \in CheckRecords /\ NoCheck.stage = "none"
  BY DEF NoCheck, CheckRecords
<1>2. /\ check' = [check EXCEPT ![c] = NoCheck] /\ running' = running \ {c}
      /\ UNCHANGED overview
  BY DEF CheckEnds, AfterCheck
<1>3. /\ check' \in [Checks -> CheckRecords]
      /\ check'[c].stage = "none"
      /\ \A d \in Checks \ {c} : check'[d] = check[d]
  BY <1>1, <1>2 DEF RunningIsCurrent
<1>4. QED
  BY <1>2, <1>3 DEF RunningIsCurrent, Current

LEMMA RunningKept == RunningIsCurrent /\ [PeerNext]_peerVars => RunningIsCurrent'
<1> SUFFICES ASSUME RunningIsCurrent, [PeerNext]_peerVars
             PROVE  RunningIsCurrent'
  OBVIOUS
<1>1. CASE UNCHANGED <<overview, running, check>>
  BY <1>1 DEF RunningIsCurrent, Current
<1>2. CASE ConnectHub \/ ConnectHubFails \/ PeerMoves \/ UNCHANGED peerVars
  BY <1>1, <1>2 DEF ConnectHub, ConnectHubFails, PeerMoves, peerVars
<1>3. CASE OverviewLoaded
  <2>1. PICK target \in IF overview # NoPeer THEN {overview} ELSE Targets \cup {NoPeer} :
           Schedule(target)
    BY <1>3 DEF OverviewLoaded
  <2>2. target \in Targets \cup {NoPeer} /\ UNCHANGED overview
    BY <1>3 DEF OverviewLoaded, RunningIsCurrent
  <2>3. QED
    BY <2>1, <2>2, ScheduleKept
<1>4. ASSUME NEW target \in Entries, PeerEntered(target)
      PROVE  RunningIsCurrent'
  <2>1. target \in Targets \cup {NoPeer}
    BY DEF Entries, Targets
  <2>2. QED
    BY <1>4, <2>1, ScheduleKept DEF PeerEntered
<1>5. ASSUME NEW target \in Targets, IntervalFires(target)
      PROVE  RunningIsCurrent'
  BY <1>5, CheckBegins, NothingRuns DEF IntervalFires, Idle, RunningIsCurrent
<1>6. ASSUME NEW c \in Checks, CheckSigned(c)
      PROVE  RunningIsCurrent'
  BY <1>6 DEF CheckSigned, RunningIsCurrent, Current, CheckRecords
<1>7. ASSUME NEW c \in Checks, CheckAnswered(c) \/ CheckFails(c)
      PROVE  RunningIsCurrent'
  BY <1>7, CheckEndsKept DEF CheckAnswered, CheckFails
<1>8. QED
  BY <1>2, <1>3, <1>4, <1>5, <1>6, <1>7 DEF PeerNext, CheckStep

\* Monitoring has one check of the peer under way at most, although checks of
\* peers entered before it are not cancelled and end in any order
\* (scheduleFIPSPeerConnectivityCheck, runTestFIPSPeerConnection).
THEOREM ChecksDoNotPileUp == PeerSpec => []OneCheckAtATime
<1>1. PeerInit => RunningIsCurrent
  <2>1. NoCheck \in CheckRecords /\ NoCheck.stage = "none"
    BY DEF NoCheck, CheckRecords
  <2>2. QED
    BY <2>1 DEF PeerInit, RunningIsCurrent, Current
<1>2. RunningIsCurrent => OneCheckAtATime
  <2> SUFFICES ASSUME RunningIsCurrent PROVE Cardinality(Current) <= 1
    BY DEF OneCheckAtATime, Current
  <2>1. CASE Current = {}
    BY <2>1, FS_EmptySet
  <2>2. CASE Current # {}
    <3>1. PICK c \in Current : Current = {c}
      BY <2>2 DEF RunningIsCurrent
    <3>2. QED
      BY <3>1, FS_Singleton
  <2>3. QED
    BY <2>1, <2>2
<1>3. QED
  BY <1>1, <1>2, RunningKept, PTL DEF PeerSpec

-----------------------------------------------------------------------------
(* The setup form *)

Settings == [content : Contents, number : Nat]

Answers == [stage : {"none", "fetching", "answered", "checking"}, got : Settings]

PageTypeOK ==
    /\ inUse \in Settings
    /\ form \in Contents /\ payload \in Contents /\ cache \in GivenPeers
    /\ loads \in [LoadSlots -> Answers]
    /\ shown \in Nat

\* Whoever wants a load while one is under way waits for that one.
OneLoad == \A s, t \in Loading : s = t

\* The form is not ahead of the connector, nor of an answer that will fill it.
FormFollows ==
    /\ shown <= inUse.number
    /\ \A s \in LoadSlots : loads[s].stage = "answered" =>
          shown <= loads[s].got.number /\ loads[s].got.number <= inUse.number

PageInvariant == PageTypeOK /\ OneLoad /\ FormFollows

LEMMA BlankIsContent == Blank \in Contents /\ NoPeerGiven \in GivenPeers
  BY DEF Blank, NoPeerGiven, Contents, GivenPeers

\* The form and localStorage hold what settings can hold.
LEMMA FilledIsContent ==
    ASSUME NEW c \in Contents, cache \in GivenPeers
    PROVE  Filled(c) \in Contents
<1>1. c.url \in Urls \cup {Off} /\ c.peer \in GivenPeers
  BY DEF Contents
<1>2. OrElse(c.url, DefaultUrl) \in Urls \cup {Off}
  BY <1>1, SetupPageAssumption DEF OrElse
<1>3. /\ OrElse(c.peer.npub, cache.npub) \in PeerNpubs \cup {Off}
      /\ OrElse(c.peer.addr, cache.addr) \in PeerAddrs \cup {Off}
  BY <1>1 DEF OrElse, GivenPeers
<1>4. QED
  BY <1>2, <1>3 DEF Filled, Contents, GivenPeers

\* A slot that takes another record leaves the page's invariant alone, if the slot
\* had a load or no slot had one, and if it holds no answer that the form is
\* ahead of.
LEMMA SlotTaken ==
    ASSUME PageInvariant, NEW s \in LoadSlots, NEW load \in Answers,
           loads' = [loads EXCEPT ![s] = load],
           load.stage = "none" \/ s \in Loading \/ Loading = {},
           load.stage = "answered" => shown <= load.got.number /\ load.got.number <= inUse.number,
           UNCHANGED <<inUse, form, cache, shown>>, payload' \in Contents
    PROVE  PageInvariant'
<1>1. /\ loads' \in [LoadSlots -> Answers]
      /\ loads'[s] = load
      /\ \A t \in LoadSlots \ {s} : loads'[t] = loads[t]
  BY DEF PageInvariant, PageTypeOK, Answers
<1>2. PageTypeOK'
  BY <1>1 DEF PageInvariant, PageTypeOK, Answers
<1>3. OneLoad'
  BY <1>1 DEF PageInvariant, OneLoad, Loading
<1>4. FormFollows'
  BY <1>1 DEF PageInvariant, FormFollows
<1>5. QED
  BY <1>2, <1>3, <1>4 DEF PageInvariant

\* A step that leaves the loads and the settings alone.
LEMMA LoadsUntouched ==
    ASSUME PageInvariant, UNCHANGED <<inUse, loads, shown>>, form' \in Contents, payload' \in Contents, cache' \in GivenPeers
    PROVE  PageInvariant'
  BY DEF PageInvariant, PageTypeOK, OneLoad, Loading, FormFollows

\* Settings that are replaced get a higher number.
LEMMA SettingsReplaced ==
    ASSUME PageInvariant, NEW content \in Contents,
           inUse' = [content |-> content, number |-> inUse.number + 1],
           UNCHANGED <<form, cache, loads, payload, shown>>
    PROVE  PageInvariant'
<1>1. inUse' \in Settings /\ inUse'.number = inUse.number + 1 /\ inUse.number \in Nat
  BY DEF PageInvariant, PageTypeOK, Settings
<1>2. PageTypeOK' /\ OneLoad'
  BY <1>1 DEF PageInvariant, PageTypeOK, OneLoad, Loading
<1>3. \A s \in LoadSlots : loads[s].got.number \in Nat
  BY DEF PageInvariant, PageTypeOK, Answers, Settings
<1>4. FormFollows'
  BY <1>1, <1>3 DEF PageInvariant, PageTypeOK, FormFollows
<1>5. QED
  BY <1>2, <1>4 DEF PageInvariant

LEMMA FetchBegins ==
    ASSUME PageInvariant, NEW s \in LoadSlots, MayLoad, BeginFetch(s),
           UNCHANGED <<inUse, form, cache, shown>>, payload' \in Contents
    PROVE  PageInvariant'
<1> DEFINE load == [NoLoad EXCEPT !.stage = "fetching"]
<1>1. load \in Answers /\ load.stage = "fetching"
  BY BlankIsContent DEF NoLoad, Answers, Settings
<1>2. loads' = [loads EXCEPT ![s] = load]
  BY DEF BeginFetch
<1> HIDE DEF load
<1>3. QED
  BY <1>1, <1>2, SlotTaken DEF MayLoad

LEMMA LoadOverKept ==
    ASSUME PageInvariant, NEW s \in LoadSlots, NEW ok \in BOOLEAN, LoadOver(s, ok)
    PROVE  PageInvariant'
<1>1. NoLoad \in Answers /\ NoLoad.stage = "none"
  BY BlankIsContent DEF NoLoad, Answers, Settings
<1>2. /\ loads' = [loads EXCEPT ![s] = NoLoad]
      /\ UNCHANGED <<inUse, form, cache, payload, shown>> /\ payload \in Contents
  BY DEF LoadOver, AfterLoad, PageInvariant, PageTypeOK
<1>3. QED
  BY <1>1, <1>2, SlotTaken

LEMMA AnswerKept ==
    ASSUME PageInvariant, NEW s \in LoadSlots, ConfigAnswered(s)
    PROVE  PageInvariant'
<1> DEFINE load == [stage |-> "answered", got |-> inUse]
<1>1. load \in Answers /\ load.got = inUse
  BY DEF Answers, PageInvariant, PageTypeOK
<1>2. shown <= load.got.number /\ load.got.number <= inUse.number
  BY <1>1 DEF PageInvariant, PageTypeOK, FormFollows, Settings
<1>3. /\ loads' = [loads EXCEPT ![s] = load] /\ s \in Loading
      /\ UNCHANGED <<inUse, form, cache, payload, shown>> /\ payload \in Contents
  BY DEF ConfigAnswered, Loading, PageInvariant, PageTypeOK
<1> HIDE DEF load
<1>4. QED
  BY <1>1, <1>2, <1>3, SlotTaken

\* The answer that fills the form is the only one there is, and is as new as the
\* form was and no newer than what is in use.
LEMMA FilledKept ==
    ASSUME PageInvariant, NEW s \in LoadSlots, FormFilled(s)
    PROVE  PageInvariant' /\ shown' >= shown
<1> DEFINE load == [loads[s] EXCEPT !.stage = "checking"]
<1>1. loads[s] \in Answers /\ loads[s].stage = "answered" /\ loads[s].got \in Settings
  BY DEF FormFilled, Answers, PageInvariant, PageTypeOK
<1>2. load \in Answers /\ load.stage = "checking"
  BY <1>1 DEF Answers
<1>3. loads' = [loads EXCEPT ![s] = load] /\ UNCHANGED <<inUse, payload>>
  BY DEF FormFilled
<1>4. /\ shown' = loads[s].got.number /\ form' = Filled(loads[s].got.content)
      /\ cache' = loads[s].got.content.peer \/ cache' = cache
  BY DEF FormFilled
<1> HIDE DEF load
<1>5. shown' \in Nat /\ shown \in Nat /\ shown <= shown' /\ shown' <= inUse.number
  BY <1>1, <1>4 DEF PageInvariant, PageTypeOK, FormFollows, Settings
<1>6. form' \in Contents /\ cache' \in GivenPeers
  <2>1. loads[s].got.content \in Contents /\ cache \in GivenPeers
    BY <1>1 DEF Settings, PageInvariant, PageTypeOK
  <2>2. loads[s].got.content.peer \in GivenPeers /\ Filled(loads[s].got.content) \in Contents
    BY <2>1, FilledIsContent DEF Contents
  <2>3. QED
    BY <1>4, <2>1, <2>2
<1>7. /\ loads' \in [LoadSlots -> Answers]
      /\ loads'[s] = load
      /\ \A t \in LoadSlots \ {s} : loads'[t] = loads[t]
  BY <1>2, <1>3 DEF PageInvariant, PageTypeOK, Answers
<1>8. \A t \in LoadSlots \ {s} : loads[t].stage = "none"
  BY <1>1 DEF PageInvariant, OneLoad, Loading
<1>9. PageTypeOK'
  BY <1>3, <1>5, <1>6, <1>7 DEF PageInvariant, PageTypeOK, Answers
<1>10. OneLoad'
  BY <1>7, <1>8 DEF OneLoad, Loading
<1>11. FormFollows'
  BY <1>2, <1>3, <1>5, <1>7, <1>8 DEF FormFollows
<1>12. QED
  BY <1>5, <1>9, <1>10, <1>11 DEF PageInvariant

\* Every step keeps the page's invariant and lets the form go forward only.
LEMMA PageStepKept ==
    PageInvariant /\ [SetupPageNext]_setupPageVars => PageInvariant' /\ shown' >= shown
<1> SUFFICES ASSUME PageInvariant, [SetupPageNext]_setupPageVars
             PROVE  PageInvariant' /\ shown' >= shown
  OBVIOUS
<1>1. form \in Contents /\ payload \in Contents /\ cache \in GivenPeers /\ shown \in Nat
  BY DEF PageInvariant, PageTypeOK
<1>2. UNCHANGED shown => shown' >= shown
  BY <1>1
<1>3. ASSUME NEW s \in LoadSlots, Load(s) \/ ConfigAnswered(s) \/ LoadDone(s) \/ LoadFails(s)
      PROVE  PageInvariant' /\ shown' >= shown
  <2>1. CASE Load(s)
    BY <2>1, <1>1, <1>2, FetchBegins DEF Load
  <2>2. CASE ConfigAnswered(s)
    BY <2>2, <1>2, AnswerKept DEF ConfigAnswered
  <2>3. CASE LoadDone(s) \/ LoadFails(s)
    BY <2>3, <1>2, LoadOverKept DEF LoadDone, LoadFails, LoadOver
  <2>4. QED
    BY <1>3, <2>1, <2>2, <2>3
<1>4. ASSUME NEW s \in LoadSlots, FormFilled(s)
      PROVE  PageInvariant' /\ shown' >= shown
  BY <1>4, FilledKept
<1>5. ASSUME NEW ok \in BOOLEAN, GetPublicKey(ok)
      PROVE  PageInvariant' /\ shown' >= shown
  BY <1>5, <1>1, <1>2, LoadsUntouched DEF GetPublicKey
<1>6. ASSUME NEW url \in Urls \cup {Off}, EditUrl(url)
      PROVE  PageInvariant' /\ shown' >= shown
  <2>1. [form EXCEPT !.url = url] \in Contents
    BY <1>1 DEF Contents
  <2>2. QED
    BY <1>6, <1>1, <1>2, <2>1, LoadsUntouched DEF EditUrl, Edit
<1>7. ASSUME NEW addr \in PeerAddrs \cup {Off}, EditPeer(addr)
      PROVE  PageInvariant' /\ shown' >= shown
  <2>1. [form EXCEPT !.peer.addr = addr] \in Contents
    BY <1>1 DEF Contents, GivenPeers
  <2>2. form' \in Contents /\ cache' = form'.peer
    BY <1>7, <2>1 DEF EditPeer, Edit
  <2>3. cache' \in GivenPeers
    BY <2>2 DEF Contents
  <2>4. QED
    BY <1>7, <1>1, <1>2, <2>2, <2>3, LoadsUntouched DEF EditPeer, Edit
<1>a. ASSUME NEW content \in Submitted, OthersSave(content)
      PROVE  PageInvariant' /\ shown' >= shown
  <2>1. content \in Contents
    BY SetupPageAssumption
  <2>2. QED
    BY <1>a, <1>2, <2>1, SettingsReplaced DEF OthersSave
<1>8. CASE Save
  <2>1. form.peer \in GivenPeers
    BY <1>1 DEF Contents
  <2>2. QED
    BY <1>8, <1>1, <1>2, <2>1, LoadsUntouched DEF Save
<1>9. CASE SaveSigned
  BY <1>9, <1>1, <1>2, LoadsUntouched DEF SaveSigned
<1>10. CASE PutApplied
  BY <1>10, <1>1, <1>2, SettingsReplaced DEF PutApplied
<1>11. CASE PutAnswered
  <2>1. payload' \in Contents /\ UNCHANGED <<inUse, form, cache, shown>>
    BY <1>11, BlankIsContent DEF PutAnswered
  <2>2. UNCHANGED loads \/ \E s \in LoadSlots : MayLoad /\ BeginFetch(s)
    BY <1>11 DEF PutAnswered
  <2>3. CASE UNCHANGED loads
    BY <2>1, <2>3, <1>1, <1>2, LoadsUntouched
  <2>4. ASSUME NEW s \in LoadSlots, MayLoad, BeginFetch(s)
        PROVE  PageInvariant' /\ shown' >= shown
    BY <2>1, <2>4, <1>2, FetchBegins
  <2>5. QED
    BY <2>2, <2>3, <2>4
<1>12. CASE SaveRefused
  BY <1>12, <1>1, <1>2, BlankIsContent, LoadsUntouched DEF SaveRefused
<1>13. CASE UNCHANGED setupPageVars
  BY <1>13, <1>1, <1>2, LoadsUntouched DEF setupPageVars
<1>14. QED
  BY <1>3, <1>4, <1>5, <1>6, <1>7, <1>a, <1>8, <1>9, <1>10, <1>11, <1>12, <1>13
     DEF SetupPageNext

\* The form never goes back to older settings, however slowly a load is answered
\* and whatever is saved meanwhile (load and save of the setup page).
THEOREM FormGoesForward == SetupPageSpec => FormNeverOlder
<1>1. SetupPageInit => PageInvariant
  <2> SUFFICES ASSUME SetupPageInit PROVE PageInvariant
    OBVIOUS
  <2>1. NoLoad \in Answers /\ NoLoad.stage = "none"
    BY BlankIsContent DEF NoLoad, Answers, Settings
  <2>2. loads \in [LoadSlots -> Answers] /\ \A s \in LoadSlots : loads[s].stage = "none"
    BY <2>1 DEF SetupPageInit
  <2>3. PageTypeOK
    BY <2>2, BlankIsContent DEF SetupPageInit, PageTypeOK, Settings
  <2>4. OneLoad /\ FormFollows
    BY <2>2 DEF SetupPageInit, OneLoad, Loading, FormFollows
  <2>5. QED
    BY <2>3, <2>4 DEF PageInvariant
<1>2. PageInvariant /\ [SetupPageNext]_setupPageVars => [shown' >= shown]_setupPageVars
  BY PageStepKept
<1>3. QED
  BY <1>1, <1>2, PageStepKept, PTL DEF SetupPageSpec, FormNeverOlder
============================================================================
