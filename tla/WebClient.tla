----------------------------- MODULE WebClient -----------------------------
(***************************************************************************)
(* The web relay client (apps/web/app.js): one current socket to a gate,   *)
(* and questions to the browser's signer that outlive the socket they were *)
(* asked for.  connect replaces the socket; the old one still calls back.  *)
(***************************************************************************)
EXTENDS Naturals, Sequences

CONSTANTS
    MaxSockets,  \* bound on the connections of a visit
    MaxMessages  \* bound on the messages under way when the user asks for more

ASSUME WebAssumption == MaxSockets \in Nat \ {0} /\ MaxMessages \in Nat

VARIABLES
    opened,      \* number of sockets made
    sock,        \* state.socket, 0 for null
    ready,       \* the browser's view of each socket: "none", "connecting", "open", "closed"
    unheard,     \* closed sockets whose "close" event is still to come
    keyed,       \* state.pubkey is known
    authed,      \* state.authed
    authEvent,   \* state.authEventID: socket whose challenge it answers, 0 for none
    pending,     \* state.pendingProfile
    controls,    \* what setControls last saw: socket open, authed
    asks,        \* questions to the signer that have no answer yet
    toGate, fromGate,
    members      \* external: sockets the gate has authenticated

webVars == <<opened, sock, ready, unheard, keyed, authed, authEvent, pending, controls, asks,
             toGate, fromGate, members>>

Sockets == 1..MaxSockets

\* An auth event answers the challenge of one socket; the gate's are all different.
Asks == [what : {"auth"}, socket : Sockets]
            \cup [what : {"key", "profile key", "profile", "note"}, socket : {0}]
Ask(what) == [what |-> what, socket |-> 0]

WebInit ==
    /\ opened = 0 /\ sock = 0
    /\ ready = [s \in Sockets |-> "none"]
    /\ unheard = {}
    /\ keyed = FALSE /\ authed = FALSE /\ authEvent = 0 /\ pending = FALSE
    /\ controls = [open |-> FALSE, authed |-> FALSE]
    /\ asks = {}
    /\ toGate = <<>> /\ fromGate = <<>>
    /\ members = {}

-----------------------------------------------------------------------------
(* connect, disconnect *)

IsSocketOpen == sock # 0 /\ ready[sock] = "open"

SetControls == controls' = [open |-> sock' # 0 /\ ready'[sock'] = "open", authed |-> authed']

\* disconnect: what is on its way to the page is not delivered any more.
Closed(s) == IF s # 0 /\ ready[s] # "closed" THEN [ready EXCEPT ![s] = "closed"] ELSE ready

Dropped ==
    /\ authed' = FALSE
    /\ authEvent' = 0
    /\ toGate' = <<>> /\ fromGate' = <<>>
    /\ unheard' = IF sock # 0 /\ ready[sock] # "closed" THEN unheard \cup {sock} ELSE unheard

\* The old socket goes; the new one is made, or its constructor throws.
Reconnect ==
    /\ opened < MaxSockets
    /\ \/ /\ opened' = opened + 1
          /\ sock' = opened + 1
          /\ ready' = [Closed(sock) EXCEPT ![opened + 1] = "connecting"]
       \/ /\ sock' = 0
          /\ ready' = Closed(sock)
          /\ UNCHANGED opened
    /\ Dropped
    /\ SetControls

\* connect, up to the key where it is not known; the button is disabled while a
\* socket was last seen open and not authenticated.
Connect ==
    /\ opened < MaxSockets
    /\ ~(controls.open /\ ~controls.authed)
    /\ IF keyed
       THEN Reconnect /\ UNCHANGED asks
       ELSE /\ asks' = asks \cup {Ask("key")}
            /\ UNCHANGED <<opened, sock, ready, unheard, authed, authEvent, controls, toGate, fromGate>>
    /\ UNCHANGED <<keyed, pending, members>>

Disconnect ==
    /\ controls.open
    /\ sock' = 0
    /\ ready' = Closed(sock)
    /\ Dropped
    /\ SetControls
    /\ UNCHANGED <<opened, keyed, pending, asks, members>>

\* loadPublicKey has the key: connect goes on.
KeyGiven ==
    /\ Ask("key") \in asks
    /\ asks' = asks \ {Ask("key")}
    /\ keyed' = TRUE
    /\ Reconnect
    /\ UNCHANGED <<pending, members>>

\* The key button.
LoadPublicKey ==
    /\ keyed' = TRUE
    /\ UNCHANGED <<opened, sock, ready, unheard, authed, authEvent, pending, controls, asks, toGate,
                   fromGate, members>>

-----------------------------------------------------------------------------
(* The listeners of a socket *)

\* Mutant: events of a socket that has been replaced are taken for the current one's.
IsCurrent_Any(s) == TRUE

IsCurrent(s) == sock = s

\* "open": the gate has sent its challenge; a profile that waits is sent.
SocketOpened(s) ==
    /\ ready[s] = "connecting"
    /\ ready' = [ready EXCEPT ![s] = "open"]
    /\ fromGate' = IF IsCurrent(s) THEN <<[type |-> "AUTH", socket |-> s]>> ELSE fromGate
    /\ toGate' = IF IsCurrent(s) /\ pending THEN Append(toGate, Ask("profile")) ELSE toGate
    /\ pending' = (pending /\ ~IsCurrent(s))
    /\ UNCHANGED <<opened, sock, unheard, keyed, authed, authEvent, controls, asks, members>>

\* The gate or the network closes the connection.
ConnectionLost(s) ==
    /\ ready[s] \in {"connecting", "open"}
    /\ ready' = [ready EXCEPT ![s] = "closed"]
    /\ unheard' = unheard \cup {s}
    /\ toGate' = <<>> /\ fromGate' = <<>>
    /\ UNCHANGED <<opened, sock, keyed, authed, authEvent, pending, controls, asks, members>>

\* "close"
SocketClosed(s) ==
    /\ s \in unheard
    /\ unheard' = unheard \ {s}
    /\ IF IsCurrent(s)
       THEN sock' = 0 /\ authed' = FALSE /\ authEvent' = 0 /\ SetControls
       ELSE UNCHANGED <<sock, authed, authEvent, controls>>
    /\ UNCHANGED <<opened, ready, keyed, pending, asks, toGate, fromGate, members>>

\* send: nothing happens when the socket is not open.
SendToGate(msg) == toGate' = IF IsSocketOpen THEN Append(toGate, msg) ELSE toGate

\* authenticate asks the signer.
HandleAuth(msg) ==
    /\ msg.type = "AUTH"
    /\ asks' = asks \cup {[what |-> "auth", socket |-> msg.socket]}
    /\ UNCHANGED <<authed, controls, toGate>>

IsAuthAnswer(msg) == msg.what = "auth" /\ msg.socket = authEvent

\* handleOK.  The subscription it then sends brings events that are only shown.
HandleOK(msg) ==
    /\ msg.type = "OK"
    /\ IF IsAuthAnswer(msg)
       THEN authed' = msg.ok /\ SetControls
       ELSE UNCHANGED <<authed, controls>>
    /\ UNCHANGED <<asks, toGate>>

\* "message": only the current socket has any.
HandleRelayMessage ==
    /\ IsSocketOpen
    /\ fromGate # <<>>
    /\ fromGate' = Tail(fromGate)
    /\ UNCHANGED <<sock, ready>>
    /\ HandleAuth(Head(fromGate)) \/ HandleOK(Head(fromGate))
    /\ UNCHANGED <<opened, unheard, keyed, authEvent, pending, members>>

-----------------------------------------------------------------------------
(* The signer, which answers when its user does *)

\* authenticate: sent on the socket that is current by now.
AuthSigned(s) ==
    LET ask == [what |-> "auth", socket |-> s]
    IN  /\ ask \in asks
        /\ asks' = asks \ {ask}
        /\ authEvent' = s
        /\ SendToGate(ask)
        /\ UNCHANGED <<opened, sock, ready, unheard, keyed, authed, pending, controls, fromGate, members>>

\* publishProfile, up to the question for the key or for the signature.
PublishProfile ==
    /\ Len(toGate) + Len(fromGate) < MaxMessages
    /\ asks' = asks \cup {Ask(IF keyed THEN "profile" ELSE "profile key")}
    /\ UNCHANGED <<opened, sock, ready, unheard, keyed, authed, authEvent, pending, controls,
                   toGate, fromGate, members>>

ProfileKeyGiven ==
    /\ Ask("profile key") \in asks
    /\ keyed' = TRUE
    /\ asks' = (asks \ {Ask("profile key")}) \cup {Ask("profile")}
    /\ UNCHANGED <<opened, sock, ready, unheard, authed, authEvent, pending, controls, toGate,
                   fromGate, members>>

\* Without an open socket the profile waits for a new one, also if one is being opened.
ProfileSigned ==
    /\ Ask("profile") \in asks
    /\ asks' = asks \ {Ask("profile")}
    /\ IF IsSocketOpen
       THEN /\ SendToGate(Ask("profile"))
            /\ UNCHANGED <<opened, sock, ready, unheard, authed, authEvent, pending, controls, fromGate>>
       ELSE pending' = TRUE /\ Reconnect
    /\ UNCHANGED <<keyed, members>>

\* publishNote: authenticated when it was asked, and whatever is current when it
\* is signed.
PublishNote ==
    /\ Len(toGate) + Len(fromGate) < MaxMessages
    /\ controls.authed /\ authed
    /\ asks' = asks \cup {Ask("note")}
    /\ UNCHANGED <<opened, sock, ready, unheard, keyed, authed, authEvent, pending, controls,
                   toGate, fromGate, members>>

NoteSigned ==
    /\ Ask("note") \in asks
    /\ asks' = asks \ {Ask("note")}
    /\ SendToGate(Ask("note"))
    /\ UNCHANGED <<opened, sock, ready, unheard, keyed, authed, authEvent, pending, controls,
                   fromGate, members>>

\* The signer's user says no.
SignerDenies(ask) ==
    /\ ask \in asks
    /\ asks' = asks \ {ask}
    /\ UNCHANGED <<opened, sock, ready, unheard, keyed, authed, authEvent, pending, controls,
                   toGate, fromGate, members>>

-----------------------------------------------------------------------------
\* External here: the gate takes one message after the other (RelayGate).  An auth
\* event must answer the challenge of this connection and may still be refused;
\* a profile may be accepted before it.
GateReads ==
    /\ toGate # <<>>
    /\ toGate' = Tail(toGate)
    /\ LET msg == Head(toGate)
       IN  \E ok \in BOOLEAN :
             /\ ok => \/ msg.what = "auth" /\ msg.socket = sock
                      \/ msg.what = "profile"
                      \/ msg.what = "note" /\ sock \in members
             /\ members' = IF ok /\ msg.what = "auth" THEN members \cup {sock} ELSE members
             /\ fromGate' = Append(fromGate, [type |-> "OK", what |-> msg.what,
                                              socket |-> msg.socket, ok |-> ok])
    /\ UNCHANGED <<opened, sock, ready, unheard, keyed, authed, authEvent, pending, controls, asks>>

WebNext ==
    \/ Connect \/ Disconnect \/ KeyGiven \/ LoadPublicKey \/ HandleRelayMessage
    \/ \E s \in Sockets : SocketOpened(s) \/ ConnectionLost(s) \/ SocketClosed(s) \/ AuthSigned(s)
    \/ PublishProfile \/ ProfileKeyGiven \/ ProfileSigned \/ PublishNote \/ NoteSigned
    \/ \E ask \in asks : SignerDenies(ask)
    \/ GateReads

WebSpec == WebInit /\ [][WebNext]_webVars

-----------------------------------------------------------------------------
(* Properties *)

\* What the page believes of its socket is so: it takes itself for authenticated
\* only while the gate has authenticated the socket it holds, and no other socket
\* is left connecting or open behind its back, although signatures, OKs and close
\* events of sockets it has replaced still come.
PageKnowsItsSocket ==
    /\ authed => sock \in members
    /\ \A s \in Sockets : ready[s] \in {"connecting", "open"} => s = sock
============================================================================
