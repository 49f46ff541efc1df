--------------------------- MODULE FipsPeerCheck ---------------------------
(***************************************************************************)
(* The Hub page monitors a FIPS peer (the script in                        *)
(* internal/relay/admin.go): an interval starts a signed check of it, the  *)
(* Hub API dials the peer (internal/fips/connectivity.go), and the page    *)
(* shows the outcome.  Checks of a peer that is no longer the one entered  *)
(* are not cancelled; they still end, and still show what they found.      *)
(***************************************************************************)
EXTENDS Naturals, FiniteSets

CONSTANTS
    Npubs,       \* peers administrators enter
    BadNpubs,    \* those of them that are no public key
    Addrs,       \* host:port addresses of peers
    BadAddrs,    \* those of them that are none
    NoAddr, NoPeer,
    Checks       \* slots for checks under way

Targets == [npub : Npubs, addr : Addrs \cup {NoAddr}]

\* What the field of the page can hold.
Entries == [npub : Npubs, addr : {NoAddr}] \cup {NoPeer}

VARIABLES
    page,        \* "out", "connecting", "in"
    overview,    \* external: peer in the configuration of the Hub, or NoPeer
    dials,       \* external: addresses that can be resolved and dialled
    peerKey,     \* fipsPeerCheckState.peerKey
    timerId,     \* target of fipsPeerCheckState.timerId
    intervals,   \* targets of the intervals the browser runs
    running,     \* fipsPeerCheckState.running, a set of at most one check
    check,       \* the checks under way
    header, text \* what the page shows: a peer and what is said of it

peerVars == <<page, overview, dials, peerKey, timerId, intervals, running, check, header, text>>

NoCheck == [stage |-> "none", target |-> NoPeer, stopped |-> FALSE]

Idle == {c \in Checks : check[c].stage = "none"}

Says(target, what) == [peer |-> target, what |-> what]

PeerInit ==
    /\ page = "out"
    /\ overview \in Targets \cup {NoPeer}
    /\ dials \in SUBSET (Addrs \ BadAddrs)
    /\ peerKey = NoPeer /\ timerId = NoPeer /\ intervals = {}
    /\ running = {}
    /\ check = [c \in Checks |-> NoCheck]
    /\ header = Says(NoPeer, "not configured") /\ text = header

-----------------------------------------------------------------------------
(* scheduleFIPSPeerConnectivityCheck *)

\* stopped: the check was under way when monitoring stopped (read by a property).
Stopped == [c \in Checks |-> [check[c] EXCEPT !.stopped = check[c].stage # "none"]]

\* runTestFIPSPeerConnection up to the question to the signer.
StartCheck(c, target, others) ==
    /\ check' = [others EXCEPT ![c] = [stage |-> "signing", target |-> target, stopped |-> FALSE]]
    /\ running' = {c}
    /\ header' = Says(target, "checking")
    /\ text' = Says(target, "checking")

\* Mutant: the interval goes on.
ClearInterval_Forgotten == intervals

ClearInterval == intervals \ {timerId}

\* stopFIPSPeerConnectivityCheck, for an empty field
Unmonitor ==
    /\ peerKey' = NoPeer
    /\ timerId' = NoPeer
    /\ intervals' = ClearInterval
    /\ running' = {}
    /\ check' = Stopped
    /\ header' = Says(NoPeer, "not configured")
    /\ text' = header'

\* For another peer than before monitoring starts anew; the same peer keeps its
\* interval, and its check if one is under way.  The page is connected whenever
\* this runs.
Monitor(target) ==
    IF peerKey = target
    THEN /\ IF running = {}
            THEN \E c \in Idle : StartCheck(c, target, check)
            ELSE UNCHANGED <<running, check, header, text>>
         /\ UNCHANGED <<peerKey, timerId, intervals>>
    ELSE /\ peerKey' = target
         /\ timerId' = target
         /\ intervals' = ClearInterval \cup {target}
         /\ \E c \in Idle : StartCheck(c, target, Stopped)

Schedule(target) == IF target = NoPeer THEN Unmonitor ELSE Monitor(target)

\* connect counts as connected from its start.
ConnectHub ==
    /\ page = "out"
    /\ page' = "connecting"
    /\ UNCHANGED <<overview, dials, peerKey, timerId, intervals, running, check, header, text>>

ConnectHubFails ==
    /\ page = "connecting"
    /\ page' = "out"
    /\ UNCHANGED <<overview, dials, peerKey, timerId, intervals, running, check, header, text>>

\* renderFIPSIdentityStatus: the configured peer, or one a former visit has left,
\* with the configured address if there is one.
OverviewLoaded ==
    /\ page = "connecting"
    /\ page' = "in"
    /\ \E target \in IF overview # NoPeer THEN {overview} ELSE Targets \cup {NoPeer} : Schedule(target)
    /\ UNCHANGED <<overview, dials>>

\* The "input" listener of the field, which knows no address.
PeerEntered(target) ==
    /\ page = "in"
    /\ Schedule(target)
    /\ UNCHANGED <<page, overview, dials>>

\* An interval calls run, which leaves a check that is running alone.
IntervalFires(target) ==
    /\ target \in intervals
    /\ running = {}
    /\ \E c \in Idle : StartCheck(c, target, check)
    /\ UNCHANGED <<page, overview, dials, peerKey, timerId, intervals>>

-----------------------------------------------------------------------------
(* checkPeerConnectivity, ConnectivityError and adminFIPSPeerCheck *)

\* TestPeerAddress, over the transport that the port stands for.
Dialable(target) == target.addr \in dials

\* Set at the first thing that is wrong; the address is resolved and dialled last.
CheckError(target) ==
    \/ target.npub \in BadNpubs
    \/ target.addr # NoAddr /\ (target.addr \in BadAddrs \/ ~Dialable(target))

\* An error is rejected with 400 if it is about the npub, or if there is an address.
Rejected(target) == CheckError(target) /\ (target.npub \in BadNpubs \/ target.addr # NoAddr)

\* The page takes an answer 400 for an exception.
Outcome(target) ==
    IF Rejected(target) THEN "failed"
    ELSE IF target.addr # NoAddr /\ Dialable(target) THEN "dialable"
    ELSE "pending"

-----------------------------------------------------------------------------
(* The rest of a check *)

CheckSigned(c) ==
    /\ check[c].stage = "signing"
    /\ check' = [check EXCEPT ![c].stage = "asked"]
    /\ UNCHANGED <<page, overview, dials, peerKey, timerId, intervals, running, header, text>>

\* Mutant: whichever check ends clears the mark.
AfterCheck_Always(c) == {}

\* finally
AfterCheck(c) == running \ {c}

\* An exception shows in the text only.
CheckEnds(c, what) ==
    /\ text' = Says(check[c].target, what)
    /\ header' = IF what = "failed" THEN header ELSE Says(check[c].target, what)
    /\ running' = AfterCheck(c)
    /\ check' = [check EXCEPT ![c] = NoCheck]
    /\ UNCHANGED <<page, overview, dials, peerKey, timerId, intervals>>

CheckAnswered(c) ==
    /\ check[c].stage = "asked"
    /\ CheckEnds(c, Outcome(check[c].target))

\* The signer says no, or the Hub cannot be reached.
CheckFails(c) ==
    /\ check[c].stage \in {"signing", "asked"}
    /\ CheckEnds(c, "failed")

\* External: a peer comes and goes.
PeerMoves ==
    /\ dials' \in SUBSET (Addrs \ BadAddrs)
    /\ UNCHANGED <<page, overview, peerKey, timerId, intervals, running, check, header, text>>

-----------------------------------------------------------------------------
CheckStep(c) == CheckSigned(c) \/ CheckAnswered(c) \/ CheckFails(c)

PeerNext ==
    \/ ConnectHub \/ ConnectHubFails \/ OverviewLoaded
    \/ \E target \in Entries : PeerEntered(target)
    \/ \E target \in Targets : IntervalFires(target)
    \/ \E c \in Checks : CheckStep(c)
    \/ PeerMoves

\* The browser runs its intervals, and every check ends: the signer's user
\* answers, and the Hub gives up dialling after four seconds.
PeerFairness ==
    /\ \A target \in Targets : WF_peerVars(IntervalFires(target))
    /\ \A c \in Checks : WF_peerVars(CheckStep(c))

PeerSpec == PeerInit /\ [][PeerNext]_peerVars /\ PeerFairness

-----------------------------------------------------------------------------
(* Properties *)

\* A monitored peer has one check under way at most, in whatever order its checks
\* and those of the peers entered before it end: the signer is not asked again and
\* again while its user is thinking.
OneCheckAtATime ==
    Cardinality({c \in Checks : check[c].stage # "none" /\ ~check[c].stopped}) <= 1

\* Once the administrator leaves a peer in the field, the page comes to speak of
\* that peer and of no other, although checks of others that are still under way
\* when it is entered write to the same place.
ShowsThePeerEntered ==
    <>[][FALSE]_peerKey =>
        <>[](peerKey # NoPeer => text.peer = peerKey /\ header.peer = peerKey)
============================================================================
