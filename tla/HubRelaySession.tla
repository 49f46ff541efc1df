-------------------------- MODULE HubRelaySession --------------------------
(***************************************************************************)
(* The Hub page (the script in internal/relay/admin.go) talking to one     *)
(* Nostr relay: publishAdvertToRelay sends an EVENT and waits for its OK,  *)
(* relayEvents sends a REQ and collects what comes up to the EOSE.  Both   *)
(* first wait a moment for a NIP-42 challenge, ask the browser's signer to *)
(* answer it, and ask again when the relay wanted authentication first.    *)
(* Timers, the signer and the socket call back in any order.               *)
(***************************************************************************)
EXTENDS Integers, Sequences, FiniteSets

CONSTANTS
    Modes,       \* "publish", "load"
    Kinds,       \* of relay: "gate" challenges at once and wants authentication,
                 \* "late" challenges when it refuses, "renew" does both, "polite"
                 \* challenges at once and wants nothing, "open" does neither,
                 \* "strict" is open and may call a refusal "restricted"
    MaxChallenge,\* bound on the challenges a relay sends
    Notes        \* number of events the relay has for a load

ASSUME SessionAssumption ==
    /\ Modes \subseteq {"publish", "load"}
    /\ Kinds \subseteq {"gate", "late", "renew", "polite", "open", "strict"}
    /\ Notes \in Nat /\ MaxChallenge \in Nat \ {0}

VARIABLES
    mode, kind,
    signer,      \* window.nostr.signEvent is there
    socket,      \* "connecting", "open", "closed"
    done, result,
    sent,        \* sent, or requested for a load
    authEventId, \* challenge of the last signed auth event, 0 for none
    authAccepted,
    sendTimer,   \* sendTimer, or unauthenticatedReqTimer for a load
    signing,     \* challenges the signer was given
    events,      \* the notes received by a load
    toRelay, toPage,
    \* External, the relay's side:
    challenge,   \* last challenge sent
    member,      \* the page is authenticated
    stored,      \* the published event was accepted
    verdict      \* how the session ended, read by the properties

relayVars == <<kind, challenge, member, stored>>
pageVars  == <<done, result, sent, authEventId, authAccepted, sendTimer, signing, events, verdict>>
vars == <<mode, kind, signer, socket, done, result, sent, authEventId, authAccepted,
          sendTimer, signing, events, toRelay, toPage, challenge, member, stored, verdict>>

Challenges == kind \in {"gate", "renew", "polite"}
Demands    == kind \in {"gate", "late", "renew"}

-----------------------------------------------------------------------------
Init ==
    /\ mode \in Modes
    /\ kind \in Kinds
    /\ signer \in BOOLEAN
    /\ mode = "publish" => signer
    /\ socket = "connecting"
    /\ done = FALSE /\ result = "none" /\ verdict = "none"
    /\ sent = FALSE
    /\ authEventId = 0
    /\ authAccepted = FALSE
    /\ sendTimer = FALSE
    /\ signing = {}
    /\ events = {}
    /\ toRelay = <<>> /\ toPage = <<>>
    /\ challenge = 0 /\ member = FALSE /\ stored = FALSE

\* finish: only the first call counts.
Finish(how, why) ==
    IF done
    THEN UNCHANGED <<done, result, verdict, sendTimer>>
    ELSE /\ done' = TRUE
         /\ result' = how
         /\ verdict' = why
         /\ sendTimer' = FALSE

\* The socket is closed with it if it is open; one that is still connecting is
\* left to itself.  (A load also sends CLOSE, which no relay answers.)
HangUp == socket' = IF socket = "open" /\ ~done THEN "closed" ELSE socket

\* Mutant: whether the session has ended is not looked at.
CanSend_Anyway == ~sent /\ socket = "open"

CanSend == ~done /\ ~sent /\ socket = "open"

\* sendEvent, sendRequest
Send ==
    /\ sent' = (sent \/ CanSend)
    /\ toRelay' = IF CanSend THEN Append(toRelay, [type |-> "request"]) ELSE toRelay

-----------------------------------------------------------------------------
(* What calls back *)

\* The "open" event: the timer is set; the relay may have sent a challenge.
SocketOpens ==
    /\ socket = "connecting"
    /\ socket' = "open"
    /\ sendTimer' = TRUE
    /\ challenge' = IF Challenges THEN 1 ELSE 0
    /\ toPage' = IF Challenges THEN <<[type |-> "AUTH", challenge |-> 1]>> ELSE <<>>
    /\ UNCHANGED <<mode, kind, signer, done, result, sent, authEventId, authAccepted, signing,
                   events, toRelay, member, stored, verdict>>

\* The "error" or the "close" event; a load that is closed keeps what it has.
SocketFails ==
    /\ socket # "closed"
    /\ \E error \in BOOLEAN :
         Finish(IF ~error /\ mode = "load" /\ events # {} THEN "ok" ELSE "failed", "socket")
    /\ socket' = "closed"
    /\ toRelay' \in {toRelay, <<>>}
    /\ toPage' = <<>>
    /\ UNCHANGED <<mode, relayVars, signer, sent, authEventId, authAccepted, signing, events>>

TimerFires ==
    /\ sendTimer
    /\ sendTimer' = FALSE
    /\ Send
    /\ UNCHANGED <<mode, relayVars, signer, socket, done, result, authEventId, authAccepted,
                   signing, events, toPage, verdict>>

\* The overall timeout; a load then counts as complete with what it has.
Timeout ==
    /\ ~done
    /\ Finish(IF mode = "load" THEN "ok" ELSE "failed", "timeout")
    /\ HangUp
    /\ UNCHANGED <<mode, relayVars, signer, sent, authEventId, authAccepted, signing, events,
                   toRelay, toPage>>

\* The signer returns the auth event of challenge n: it is sent if the socket is
\* still open; only a load looks whether it has ended.
SignerSigns(n) ==
    /\ n \in signing
    /\ signing' = signing \ {n}
    /\ IF mode = "load" /\ (done \/ socket # "open")
       THEN UNCHANGED <<authEventId, toRelay>>
       ELSE /\ authEventId' = n
            /\ toRelay' = IF socket = "open"
                          THEN Append(toRelay, [type |-> "AUTH", challenge |-> n])
                          ELSE toRelay
    /\ UNCHANGED <<mode, relayVars, signer, socket, done, result, sent, authAccepted, sendTimer,
                   events, toPage, verdict>>

\* The signer fails or its user says no.
SignerRefuses(n) ==
    /\ n \in signing
    /\ signing' = signing \ {n}
    /\ Finish("failed", "signer")
    /\ HangUp
    /\ UNCHANGED <<mode, relayVars, signer, sent, authEventId, authAccepted, events, toRelay, toPage>>

-----------------------------------------------------------------------------
(* The "message" event, by the type of the message at hand *)

\* Mutant: the request stays marked as sent.
WaitForAuthRetry_StaysSent ==
    /\ sendTimer' = FALSE
    /\ UNCHANGED sent

\* waitForAuthRetry: the relay wants authentication, which may still come.
WaitForAuthRetry ==
    /\ sent' = FALSE
    /\ sendTimer' = FALSE

MayRetry(reason) == ~authAccepted /\ signer /\ reason \in {"auth-required", "restricted"}

\* authenticate: without a signer the request is sent as it is.
OnAuth(msg) ==
    /\ msg.type = "AUTH"
    /\ sendTimer' = FALSE
    /\ IF signer
       THEN signing' = signing \cup {msg.challenge} /\ UNCHANGED <<sent, toRelay>>
       ELSE Send /\ UNCHANGED signing
    /\ UNCHANGED <<socket, done, result, authEventId, authAccepted, events, verdict>>

\* An OK whose id is that of the last auth event.
IsAuthOK(msg) == msg.type = "OKAUTH" /\ msg.challenge = authEventId

OnAuthOK(msg) ==
    /\ IsAuthOK(msg)
    /\ IF msg.ok
       THEN /\ authAccepted' = TRUE
            /\ Send
            /\ UNCHANGED <<socket, done, result, sendTimer, verdict>>
       ELSE /\ Finish("failed", "auth")
            /\ HangUp
            /\ UNCHANGED <<sent, authAccepted, toRelay>>
    /\ UNCHANGED <<authEventId, signing, events>>

\* Mutant: any OK is taken for the one about the event.
OnVerdict_AnyOK(msg) ==
    /\ msg.type = "OK" \/ (msg.type = "OKAUTH" /\ msg.ok /\ ~IsAuthOK(msg))
    /\ IF ~msg.ok /\ MayRetry(msg.reason)
       THEN WaitForAuthRetry /\ UNCHANGED <<socket, done, result, toRelay, verdict>>
       ELSE Finish(IF msg.ok THEN "ok" ELSE "failed", "relay") /\ HangUp /\ UNCHANGED <<sent, toRelay>>
    /\ UNCHANGED <<authEventId, authAccepted, signing, events>>

\* The OK for the published event; of a load the EOSE, or else the CLOSED of the
\* subscription, after which it counts as complete with what it has.
OnVerdict(msg) ==
    /\ msg.type = "OK"
    /\ \/ /\ ~msg.ok /\ MayRetry(msg.reason)
          /\ WaitForAuthRetry
          /\ UNCHANGED <<socket, done, result, toRelay, verdict>>
       \/ /\ msg.ok \/ ~MayRetry(msg.reason)
          /\ Finish(IF msg.ok \/ (mode = "load" /\ events # {}) THEN "ok" ELSE "failed",
                    IF msg.ok \/ mode = "publish" THEN "relay" ELSE "closed")
          /\ HangUp
          /\ UNCHANGED <<sent, toRelay>>
    /\ UNCHANGED <<authEventId, authAccepted, signing, events>>

\* A NOTICE that speaks of authentication; a load does not look at it.
OnNotice(msg) ==
    /\ msg.type = "NOTICE"
    /\ IF mode = "publish" /\ MayRetry("auth-required")
       THEN WaitForAuthRetry
       ELSE UNCHANGED <<sent, sendTimer>>
    /\ UNCHANGED <<socket, done, result, toRelay, authEventId, authAccepted, signing, events, verdict>>

OnEvent(msg) ==
    /\ msg.type = "EVENT"
    /\ events' = events \cup {msg.note}
    /\ UNCHANGED <<socket, done, result, toRelay, sent, sendTimer, authEventId, authAccepted,
                   signing, verdict>>

\* An OK for an auth event that was replaced by a newer one.
OnOther(msg) ==
    /\ msg.type = "OKAUTH" /\ ~IsAuthOK(msg)
    /\ UNCHANGED <<socket, pageVars, toRelay>>

Receive ==
    /\ socket = "open"
    /\ toPage # <<>>
    /\ LET msg == Head(toPage)
       IN  OnAuth(msg) \/ OnAuthOK(msg) \/ OnVerdict(msg) \/ OnNotice(msg) \/ OnEvent(msg) \/ OnOther(msg)
    /\ toPage' = Tail(toPage)
    /\ UNCHANGED <<mode, relayVars, signer>>

-----------------------------------------------------------------------------
(* External: the relay, which takes one message after the other *)

\* The first n notes, and how it ends.
Replies(n, end) == [i \in 1..n |-> [type |-> "EVENT", note |-> i]] \o <<end>>

Done == [type |-> "OK", ok |-> TRUE, reason |-> ""]

Refusal(reason) == [type |-> "OK", ok |-> FALSE, reason |-> reason]

\* It does what was asked: the EVENT is stored, or the events are sent.
Grants ==
    /\ ~Demands \/ member
    /\ stored' = (mode = "publish")
    /\ toPage' = toPage \o Replies(IF mode = "load" THEN Notes ELSE 0, Done)
    /\ UNCHANGED challenge

\* It refuses for a reason of its own, a load also after some of its events.  It may
\* say "restricted", one that never challenges only if it is strict.
Declines ==
    /\ ~Demands \/ member
    /\ \E n \in 0..Notes, reason \in {"blocked"} \cup (IF kind = "open" THEN {} ELSE {"restricted"}) :
          /\ mode = "publish" => n = 0
          /\ toPage' = toPage \o Replies(n, Refusal(reason))
    /\ UNCHANGED <<stored, challenge>>

\* It wants authentication, and says so, before or after it sends a challenge; a
\* published event may be refused in a NOTICE only.
Demanding ==
    LET no   == {Refusal("auth-required")}
                    \cup (IF mode = "publish" /\ kind = "late" THEN {[type |-> "NOTICE"]} ELSE {})
        auth == [type |-> "AUTH", challenge |-> challenge + 1]
    IN  /\ Demands /\ ~member
        /\ \E msg \in no :
              IF challenge = 0 \/ (kind = "renew" /\ challenge < MaxChallenge)
              THEN /\ challenge' = challenge + 1
                   /\ toPage' \in {toPage \o <<msg, auth>>, toPage \o <<auth, msg>>}
              ELSE /\ toPage' = Append(toPage, msg)
                   /\ UNCHANGED challenge
        /\ UNCHANGED stored

\* What was sent before the socket closed is still read.
RelayReads ==
    /\ toRelay # <<>>
    /\ toRelay' = Tail(toRelay)
    /\ \/ /\ Head(toRelay).type = "request"
          /\ Grants \/ Declines \/ Demanding
          /\ UNCHANGED member
       \/ /\ Head(toRelay).type = "AUTH"
          /\ \E ok \in BOOLEAN :
                /\ member' = (member \/ ok)
                /\ toPage' = Append(toPage, [type |-> "OKAUTH", ok |-> ok,
                                             challenge |-> Head(toRelay).challenge])
          /\ UNCHANGED <<stored, challenge>>
    /\ UNCHANGED <<mode, kind, signer, socket, pageVars>>

-----------------------------------------------------------------------------
PageStep == TimerFires \/ Receive

SignerStep == \E n \in signing : SignerSigns(n) \/ SignerRefuses(n)

Next == SocketOpens \/ SocketFails \/ Timeout \/ PageStep \/ SignerStep \/ RelayReads

Spec == Init /\ [][Next]_vars

\* The browser delivers what is due, the signer's user answers, and the relay
\* reads on.  The overall timeout is not counted on.
Fairness == WF_vars(SocketOpens) /\ WF_vars(PageStep) /\ WF_vars(SignerStep) /\ WF_vars(RelayReads)

FairSpec == Spec /\ Fairness

-----------------------------------------------------------------------------
(* Properties *)

\* What the page reports as the relay's verdict is the relay's: a publication
\* counts as accepted exactly if the relay stored the event, and a load that an
\* EOSE ends has every event the relay holds, through refusals, events cut short,
\* repeated challenges, answers to replaced auth events and retries.  A load that is
\* ended by a CLOSED, a close or its timeout counts as complete with what it has.
VerdictIsTrue ==
    verdict = "relay" =>
        IF mode = "publish" THEN result = "ok" <=> stored
        ELSE events = 1..Notes

Requests(s) == {i \in DOMAIN s : s[i].type = "request"}

\* Once a session has ended and no request of it is on the wire, none ever is again
\* and whether the relay has stored the event stays as it is, although timers, the
\* signer, a late AUTH and a socket that connects late still call back.  (An EVENT
\* on its way at the timeout may be stored after it.)
NoLatePublication ==
    [][done /\ Requests(toRelay) = {} => Requests(toRelay') = {} /\ UNCHANGED stored]_vars

\* A session with a relay that answers comes to its end by itself, in whatever
\* order challenge, timer, refusal and signature come: the page never waits for
\* what only its timeout can end.  A strict relay is the exception: the page takes
\* "restricted" for a demand to authenticate and waits for a challenge.
EndsWithoutTimeout == kind # "strict" => <>done
============================================================================
