-------------------------- MODULE Clients_proofs --------------------------
(***************************************************************************)
(* Proofs about the pages that talk to relays.                             *)
(*                                                                         *)
(* The web client knows what its socket is, for any number of connections  *)
(* and messages.  The argument: what is under way belongs to the socket    *)
(* that is open, so an OK to an auth event, when it is read, speaks of the *)
(* socket the page holds; and a socket is left only when it is closed.     *)
(*                                                                         *)
(* The Hub page lists the newest adverts until they are deleted, for any   *)
(* relays, versions, loads and deletions.  What a load makes of its        *)
(* answers is defined by two nested recursions; that they compute the      *)
(* newest version of each address is shown by induction over the events    *)
(* and over the relays.  The rest follows the note objects, which a        *)
(* deletion may still hold when the list has been replaced.                *)
(***************************************************************************)
EXTENDS WebClient, HubAdverts, FiniteSetTheorems, TLAPS

-----------------------------------------------------------------------------
(* The web client *)

Kinds == {"auth", "key", "profile key", "profile", "note"}
ToGate == [what : Kinds, socket : Nat]
Challenge == [type : {"AUTH"}, socket : Nat]
Verdict == [type : {"OK"}, what : Kinds, socket : Nat, ok : BOOLEAN]

WebTypeOK ==
    /\ opened \in 0..MaxSockets
    /\ sock \in 0..opened
    /\ ready \in [Sockets -> {"none", "connecting", "open", "closed"}]
    /\ unheard \subseteq Sockets
    /\ authed \in BOOLEAN
    /\ asks \subseteq ToGate
    /\ toGate \in Seq(ToGate)
    /\ fromGate \in Seq(Challenge \cup Verdict)

\* Sockets are made one after the other, and only the one in hand is not closed.
OneSocket ==
    \A s \in Sockets : /\ s > opened => ready[s] = "none"
                       /\ ready[s] \in {"connecting", "open"} => s = sock
                       /\ s \in unheard => ready[s] = "closed"

\* Without an open socket nothing is under way.
Underway == toGate # <<>> \/ fromGate # <<>> => IsSocketOpen

\* An OK to an auth event comes from a gate that has authenticated the socket.
TrueVerdicts ==
    \A i \in 1..Len(fromGate) :
       fromGate[i].type = "OK" /\ fromGate[i].what = "auth" /\ fromGate[i].ok => sock \in members

WebInv == WebTypeOK /\ OneSocket /\ Underway /\ TrueVerdicts /\ (authed => sock \in members)

-----------------------------------------------------------------------------
\* What the page asks of the signer is what it may send, and says for which socket.
LEMMA AskTyped ==
    /\ \A what \in Kinds : Ask(what) \in ToGate
    /\ \A s \in Nat : [what |-> "auth", socket |-> s] \in ToGate
BY DEF Ask, ToGate, Kinds

\* Nothing under way is typed.
LEMMA NothingTyped == <<>> \in Seq(ToGate) /\ <<>> \in Seq(Challenge \cup Verdict)
OBVIOUS

\* A message is appended to what the gate has still to read.
LEMMA SendTyped ==
    ASSUME WebTypeOK, NEW msg \in ToGate, SendToGate(msg)
    PROVE  toGate' \in Seq(ToGate) /\ (toGate' # <<>> => toGate # <<>> \/ IsSocketOpen)
BY DEF SendToGate, WebTypeOK

\* Closing the socket in hand closes it and no other.
LEMMA ClosedTyped ==
    ASSUME WebTypeOK, OneSocket
    PROVE  /\ Closed(sock) \in [Sockets -> {"none", "connecting", "open", "closed"}]
           /\ \A s \in Sockets : Closed(sock)[s] = IF s = sock THEN "closed" ELSE ready[s]
<1>1. ready \in [Sockets -> {"none", "connecting", "open", "closed"}]
  BY DEF WebTypeOK
<1>2. CASE sock # 0 /\ ready[sock] # "closed"
  <2>1. Closed(sock) = [ready EXCEPT ![sock] = "closed"]
    BY <1>2 DEF Closed
  <2> QED BY <1>1, <2>1
<1>3. CASE ~(sock # 0 /\ ready[sock] # "closed")
  <2>1. Closed(sock) = ready
    BY <1>3 DEF Closed
  <2>2. 0 \notin Sockets
    BY DEF Sockets
  <2> QED BY <1>1, <1>3, <2>1, <2>2
<1> QED BY <1>2, <1>3

\* A close event is owed for the socket that is dropped, and for no new one.
LEMMA DroppedUnheard ==
    ASSUME WebInv, Dropped
    PROVE  unheard' \subseteq Sockets /\ unheard' \subseteq unheard \cup ({sock} \ {0})
<1>1. sock = 0 \/ sock \in Sockets
  BY WebAssumption DEF WebInv, WebTypeOK, Sockets
<1> QED BY <1>1 DEF WebInv, WebTypeOK, Dropped

\* A socket is replaced: everything is given up at once.
LEMMA ReconnectInv ==
    ASSUME WebInv, Reconnect, members' = members, asks' \subseteq ToGate
    PROVE  WebInv'
<1> USE WebAssumption
<1>1. ready' \in [Sockets -> {"none", "connecting", "open", "closed"}]
  BY DEF WebInv, WebTypeOK, Reconnect, Closed
<1>2. WebTypeOK'
  <2>1. opened' \in 0..MaxSockets /\ sock' \in 0..opened'
    BY DEF WebInv, WebTypeOK, Reconnect
  <2>2. unheard' \subseteq Sockets
    BY DroppedUnheard DEF Reconnect, WebInv
  <2>3. authed' \in BOOLEAN /\ toGate' = <<>> /\ fromGate' = <<>>
    BY DEF Reconnect, Dropped
  <2> QED BY <1>1, <2>1, <2>2, <2>3 DEF WebTypeOK
<1>3. OneSocket'
  <2> SUFFICES ASSUME NEW s \in Sockets
               PROVE  /\ s > opened' => ready'[s] = "none"
                      /\ ready'[s] \in {"connecting", "open"} => s = sock'
                      /\ s \in unheard' => ready'[s] = "closed"
    BY DEF OneSocket
  <2>1. /\ s > opened => ready[s] = "none"
        /\ s # sock => ready[s] \in {"none", "closed"}
        /\ s \in unheard => ready[s] = "closed"
    BY DEF WebInv, WebTypeOK, OneSocket
  <2>2. CASE opened' = opened + 1
    <3>1. /\ sock' = opened + 1 /\ opened + 1 \in Sockets
          /\ ready' = [Closed(sock) EXCEPT ![opened + 1] = "connecting"]
      BY <2>2 DEF Reconnect, WebInv, WebTypeOK, Sockets
    <3>2. s = opened + 1 => ready'[s] = "connecting"
      BY <3>1, ClosedTyped DEF WebInv
    <3>3. s # opened + 1 => ready'[s] = Closed(sock)[s]
      BY <3>1, ClosedTyped DEF WebInv
    <3>4. opened \in Nat /\ s \in Nat /\ sock \in 0..opened
      BY DEF WebInv, WebTypeOK, Sockets
    <3> QED BY <2>1, <2>2, <3>1, <3>2, <3>3, <3>4, ClosedTyped, DroppedUnheard DEF Reconnect, WebInv
  <2>3. CASE opened' = opened
    <3>1. opened \in Nat /\ sock \in 0..opened
      BY DEF WebInv, WebTypeOK
    <3>2. sock' = 0 /\ ready' = Closed(sock)
      BY <2>3, <3>1 DEF Reconnect
    <3> QED BY <2>1, <2>3, <3>1, <3>2, ClosedTyped, DroppedUnheard DEF Reconnect, WebInv, Sockets
  <2> QED BY <2>2, <2>3 DEF Reconnect
<1>4. Underway' /\ TrueVerdicts' /\ ~authed'
  BY DEF Reconnect, Dropped, Underway, TrueVerdicts
<1> QED BY <1>2, <1>3, <1>4 DEF WebInv

\* The invariant says nothing of the key, the profile that waits, the controls
\* and the auth event last signed.
LEMMA RestUnchanged ==
    ASSUME WebInv, asks' \subseteq ToGate,
           UNCHANGED <<opened, sock, ready, unheard, authed, toGate, fromGate, members>>
    PROVE  WebInv'
BY DEF WebInv, WebTypeOK, OneSocket, Underway, TrueVerdicts, IsSocketOpen

\* A message is sent, or thrown away.
LEMMA SendInv ==
    ASSUME WebInv, NEW msg \in ToGate, SendToGate(msg), asks' \subseteq ToGate,
           UNCHANGED <<opened, sock, ready, unheard, authed, fromGate, members>>
    PROVE  WebInv'
<1>1. toGate' \in Seq(ToGate) /\ (toGate' # <<>> => toGate # <<>> \/ IsSocketOpen)
  BY SendTyped DEF WebInv
<1> QED BY <1>1 DEF WebInv, WebTypeOK, OneSocket, Underway, TrueVerdicts, IsSocketOpen

-----------------------------------------------------------------------------
\* The page has just been opened.
LEMMA WebInitially == WebInit => WebInv
<1> SUFFICES ASSUME WebInit PROVE WebInv
  OBVIOUS
<1>1. WebTypeOK
  <2>1. opened \in 0..MaxSockets /\ sock \in 0..opened
    BY WebAssumption DEF WebInit
  <2>2. ready \in [Sockets -> {"none", "connecting", "open", "closed"}]
    BY DEF WebInit
  <2> QED BY <2>1, <2>2, NothingTyped DEF WebInit, WebTypeOK
<1>2. OneSocket
  BY DEF WebInit, OneSocket
<1>3. Underway /\ TrueVerdicts /\ ~authed
  BY DEF WebInit, Underway, TrueVerdicts
<1> QED BY <1>1, <1>2, <1>3 DEF WebInv

\* No event of page, socket, signer or gate breaks the invariant.
LEMMA WebStep == WebInv /\ [WebNext]_webVars => WebInv'
<1> SUFFICES ASSUME WebInv, [WebNext]_webVars PROVE WebInv'
  OBVIOUS
<1> USE WebAssumption
<1>1. CASE Connect
  <2>1. asks' \subseteq ToGate
    BY <1>1, AskTyped DEF Connect, WebInv, WebTypeOK, Kinds
  <2>2. CASE keyed
    BY <1>1, <2>1, <2>2, ReconnectInv DEF Connect
  <2>3. CASE ~keyed
    BY <1>1, <2>1, <2>3, RestUnchanged DEF Connect
  <2> QED BY <2>2, <2>3
<1>2. CASE Disconnect
  <2>1. /\ ready' \in [Sockets -> {"none", "connecting", "open", "closed"}]
        /\ \A s \in Sockets : ready'[s] = IF s = sock THEN "closed" ELSE ready[s]
    BY <1>2, ClosedTyped DEF WebInv, Disconnect
  <2>2. WebTypeOK' /\ OneSocket'
    <3>1. opened \in Nat /\ 0 \in 0..opened /\ sock \in 0..opened /\ opened \in 0..MaxSockets
      BY DEF WebInv, WebTypeOK
    <3>2. unheard' \subseteq Sockets /\ unheard' \subseteq unheard \cup ({sock} \ {0})
      BY <1>2, DroppedUnheard DEF Disconnect
    <3>3. WebTypeOK'
      <4>1. authed' = FALSE /\ toGate' = <<>> /\ fromGate' = <<>>
        BY <1>2 DEF Disconnect, Dropped
      <4>2. opened' = opened /\ sock' = 0 /\ asks' \subseteq ToGate
        BY <1>2 DEF Disconnect, WebInv, WebTypeOK
      <4> QED BY <2>1, <3>1, <3>2, <4>1, <4>2, NothingTyped DEF WebTypeOK
    <3>4. OneSocket'
      BY <1>2, <2>1, <3>1, <3>2 DEF WebInv, OneSocket, Disconnect, Sockets
    <3> QED BY <3>3, <3>4
  <2>3. Underway' /\ TrueVerdicts' /\ ~authed'
    BY <1>2 DEF Disconnect, Dropped, Underway, TrueVerdicts
  <2> QED BY <2>2, <2>3 DEF WebInv
<1>3. CASE KeyGiven
  <2>1. asks' \subseteq ToGate
    BY <1>3 DEF KeyGiven, WebInv, WebTypeOK
  <2> QED BY <1>3, <2>1, ReconnectInv DEF KeyGiven
<1>4. CASE LoadPublicKey
  BY <1>4, RestUnchanged DEF LoadPublicKey, WebInv, WebTypeOK
<1>5. CASE HandleRelayMessage
  <2> DEFINE msg == Head(fromGate)
  <2>1. /\ msg \in Challenge \cup Verdict /\ msg = fromGate[1] /\ 1 \in 1..Len(fromGate)
        /\ fromGate' \in Seq(Challenge \cup Verdict)
        /\ \A i \in 1..Len(fromGate') : i + 1 \in 1..Len(fromGate) /\ fromGate'[i] = fromGate[i + 1]
    BY <1>5 DEF HandleRelayMessage, WebInv, WebTypeOK
  <2>2. TrueVerdicts'
    BY <1>5, <2>1 DEF HandleRelayMessage, WebInv, TrueVerdicts
  <2>3. OneSocket' /\ Underway'
    BY <1>5 DEF HandleRelayMessage, HandleAuth, HandleOK, WebInv, OneSocket, Underway, IsSocketOpen
  <2>4. CASE HandleAuth(msg)
    <3>1. msg.socket \in Nat
      BY <2>1 DEF Challenge, Verdict
    <3>2. asks' \subseteq ToGate
      BY <2>4, <3>1, AskTyped DEF HandleAuth, WebInv, WebTypeOK
    <3> QED
      BY <1>5, <2>1, <2>2, <2>3, <2>4, <3>2 DEF HandleRelayMessage, HandleAuth, WebInv, WebTypeOK
  <2>5. CASE HandleOK(msg)
    <3>1. msg \in Verdict
      BY <2>1, <2>5 DEF HandleOK, Challenge
    <3>2. authed' \in BOOLEAN /\ (authed' => sock \in members)
      BY <2>1, <2>5, <3>1 DEF HandleOK, IsAuthAnswer, Verdict, WebInv, WebTypeOK, TrueVerdicts
    <3> QED
      BY <1>5, <2>1, <2>2, <2>3, <2>5, <3>2 DEF HandleRelayMessage, HandleOK, WebInv, WebTypeOK
  <2> QED BY <1>5, <2>4, <2>5 DEF HandleRelayMessage
<1>6. ASSUME NEW s \in Sockets, SocketOpened(s) PROVE WebInv'
  <2>1. sock = s /\ toGate = <<>> /\ fromGate = <<>>
    BY <1>6 DEF SocketOpened, WebInv, OneSocket, Underway, IsSocketOpen
  <2>2. ready' \in [Sockets -> {"none", "connecting", "open", "closed"}] /\ ready'[s] = "open"
    BY <1>6 DEF SocketOpened, WebInv, WebTypeOK
  <2>3. fromGate' = <<[type |-> "AUTH", socket |-> s]>>
    BY <1>6, <2>1 DEF SocketOpened, IsCurrent
  <2>4. toGate' \in Seq(ToGate)
    <3>1. Ask("profile") \in ToGate
      BY AskTyped DEF Kinds
    <3>2. toGate' = toGate \/ toGate' = Append(toGate, Ask("profile"))
      BY <1>6 DEF SocketOpened
    <3> QED BY <3>1, <3>2 DEF WebInv, WebTypeOK
  <2>5. [type |-> "AUTH", socket |-> s] \in Challenge
    BY DEF Challenge, Sockets
  <2>6. WebTypeOK'
    <3>1. fromGate' \in Seq(Challenge \cup Verdict)
      BY <2>3, <2>5
    <3> QED BY <1>6, <2>2, <2>4, <3>1 DEF SocketOpened, WebInv, WebTypeOK
  <2>7. OneSocket'
    BY <1>6, <2>1 DEF SocketOpened, WebInv, WebTypeOK, OneSocket, Sockets
  <2>8. Underway' /\ TrueVerdicts'
    BY <1>6, <2>1, <2>2, <2>3 DEF SocketOpened, Underway, IsSocketOpen, TrueVerdicts, Sockets
  <2> QED BY <1>6, <2>6, <2>7, <2>8 DEF SocketOpened, WebInv
<1>7. ASSUME NEW s \in Sockets, ConnectionLost(s) PROVE WebInv'
  <2>1. WebTypeOK' /\ OneSocket'
    BY <1>7 DEF ConnectionLost, WebInv, WebTypeOK, OneSocket, Sockets
  <2>2. Underway' /\ TrueVerdicts'
    BY <1>7 DEF ConnectionLost, Underway, TrueVerdicts
  <2> QED BY <1>7, <2>1, <2>2 DEF ConnectionLost, WebInv
<1>8. ASSUME NEW s \in Sockets, SocketClosed(s) PROVE WebInv'
  <2>1. ready[s] = "closed"
    BY <1>8 DEF SocketClosed, WebInv, OneSocket
  <2>2. CASE IsCurrent(s)
    <3>1. toGate = <<>> /\ fromGate = <<>>
      BY <2>1, <2>2 DEF IsCurrent, WebInv, Underway, IsSocketOpen
    <3>2. WebTypeOK'
      <4>1. sock' = 0 /\ authed' = FALSE /\ unheard' = unheard \ {s}
        BY <1>8, <2>2 DEF SocketClosed
      <4>2. UNCHANGED <<opened, ready, asks, toGate, fromGate>>
        BY <1>8 DEF SocketClosed
      <4>3. 0 \in 0..opened
        BY DEF WebInv, WebTypeOK
      <4> QED BY <4>1, <4>2, <4>3 DEF WebInv, WebTypeOK
    <3>4. OneSocket'
      BY <1>8, <2>1, <2>2 DEF SocketClosed, IsCurrent, WebInv, OneSocket
    <3>3. Underway' /\ TrueVerdicts' /\ ~authed'
      BY <1>8, <2>2, <3>1 DEF SocketClosed, Underway, TrueVerdicts
    <3> QED BY <3>2, <3>3, <3>4 DEF WebInv
  <2>3. CASE ~IsCurrent(s)
    BY <1>8, <2>3 DEF SocketClosed, WebInv, WebTypeOK, OneSocket, Underway, TrueVerdicts, IsSocketOpen
  <2> QED BY <2>2, <2>3
<1>9. ASSUME NEW s \in Sockets, AuthSigned(s) PROVE WebInv'
  <2>1. [what |-> "auth", socket |-> s] \in ToGate
    BY DEF ToGate, Kinds, Sockets
  <2>2. asks' \subseteq ToGate
    BY <1>9 DEF AuthSigned, WebInv, WebTypeOK
  <2> QED BY <1>9, <2>1, <2>2, SendInv DEF AuthSigned
<1>10. CASE PublishProfile \/ ProfileKeyGiven \/ PublishNote
  <2>1. asks' \subseteq ToGate
    <3>1. PICK what \in Kinds : asks' \subseteq asks \cup {Ask(what)}
      BY <1>10 DEF PublishProfile, ProfileKeyGiven, PublishNote, Kinds
    <3> QED BY <3>1, AskTyped DEF WebInv, WebTypeOK
  <2> QED BY <1>10, <2>1, RestUnchanged DEF PublishProfile, ProfileKeyGiven, PublishNote
<1>11. CASE ProfileSigned
  <2>1. Ask("profile") \in ToGate /\ asks' \subseteq ToGate
    BY <1>11, AskTyped DEF ProfileSigned, WebInv, WebTypeOK, Kinds
  <2>2. CASE IsSocketOpen
    BY <1>11, <2>1, <2>2, SendInv DEF ProfileSigned
  <2>3. CASE ~IsSocketOpen
    BY <1>11, <2>1, <2>3, ReconnectInv DEF ProfileSigned
  <2> QED BY <2>2, <2>3
<1>12. CASE NoteSigned
  <2>1. Ask("note") \in ToGate /\ asks' \subseteq ToGate
    BY <1>12, AskTyped DEF NoteSigned, WebInv, WebTypeOK, Kinds
  <2> QED BY <1>12, <2>1, SendInv DEF NoteSigned
<1>13. ASSUME NEW ask \in asks, SignerDenies(ask) PROVE WebInv'
  BY <1>13, RestUnchanged DEF SignerDenies, WebInv, WebTypeOK
<1>14. CASE GateReads
  <2> DEFINE msg == Head(toGate)
  <2>1. msg \in ToGate /\ toGate' \in Seq(ToGate) /\ IsSocketOpen
    BY <1>14 DEF GateReads, WebInv, WebTypeOK, Underway
  <2>2. PICK ok \in BOOLEAN :
          /\ members' = IF ok /\ msg.what = "auth" THEN members \cup {sock} ELSE members
          /\ fromGate' = Append(fromGate, [type |-> "OK", what |-> msg.what,
                                           socket |-> msg.socket, ok |-> ok])
    BY <1>14 DEF GateReads
  <2> DEFINE answer == [type |-> "OK", what |-> msg.what, socket |-> msg.socket, ok |-> ok]
  <2>3. answer \in Verdict
    BY <2>1 DEF ToGate, Verdict
  <2>4. WebTypeOK' /\ OneSocket' /\ Underway' /\ (authed' => sock' \in members')
    BY <1>14, <2>1, <2>2, <2>3 DEF GateReads, WebInv, WebTypeOK, OneSocket, Underway, IsSocketOpen
  <2>5. fromGate \in Seq(Challenge \cup Verdict)
    BY DEF WebInv, WebTypeOK
  <2>6. ASSUME NEW i \in 1..Len(fromGate'), fromGate'[i].type = "OK", fromGate'[i].what = "auth",
               fromGate'[i].ok
        PROVE  sock' \in members'
    <3> HIDE DEF answer
    <3>1. fromGate' = Append(fromGate, answer)
      BY <2>2 DEF answer
    <3>2. CASE i = Len(fromGate) + 1
      <4>1. fromGate'[i] = answer
        BY <2>3, <2>5, <3>1, <3>2
      <4> QED BY <1>14, <2>2, <2>6, <4>1 DEF GateReads, answer
    <3>3. CASE i # Len(fromGate) + 1
      <4>1. i \in 1..Len(fromGate) /\ fromGate'[i] = fromGate[i]
        BY <2>3, <2>5, <3>1, <3>3
      <4> QED BY <1>14, <2>2, <2>6, <4>1 DEF GateReads, WebInv, TrueVerdicts
    <3> QED BY <3>2, <3>3
  <2> QED BY <2>4, <2>6 DEF WebInv, TrueVerdicts
<1>15. CASE UNCHANGED webVars
  BY <1>15, RestUnchanged DEF webVars, WebInv, WebTypeOK
<1> QED
  BY <1>1, <1>2, <1>3, <1>4, <1>5, <1>6, <1>7, <1>8, <1>9, <1>10, <1>11, <1>12, <1>13, <1>14, <1>15
  DEF WebNext

\* What the page of the web client holds of its socket stays typed and true, and
\* what is under way to and from the gate belongs to that socket.
THEOREM WebInvariant == WebSpec => []WebInv
BY WebInitially, WebStep, PTL DEF WebSpec

\* The web client takes itself for authenticated only while the gate has
\* authenticated the socket it holds, and leaves no other socket open, for any
\* number of reconnections and however late the signer answers.
THEOREM SocketIsKnown == WebSpec => []PageKnowsItsSocket
<1>1. WebInv => PageKnowsItsSocket
  BY DEF WebInv, OneSocket, PageKnowsItsSocket
<1> QED BY <1>1, WebInvariant, PTL


-----------------------------------------------------------------------------
(* Induction and recursion over the naturals *)

\* Any set of naturals has a least element.
LEMMA LeastElement ==
    ASSUME NEW T, T \subseteq Nat, T # {}
    PROVE  \E m \in T : \A y \in T : m <= y
<1>1. PICK m \in T : \A y \in T : <<y, m>> \notin OpToRel(<, Nat)
  BY NatLessThanWellFounded, WFMin, Zenon
<1>2. \A y \in Nat : y < m => <<y, m>> \in OpToRel(<, Nat)
  BY Zenon DEF OpToRel
<1>3. \A y \in T : ~(y < m)
  BY <1>1, <1>2, Zenon
<1> QED BY <1>3

\* A set that holds 0 and with every number the next one holds all of them:
\* induction, for a set in place of a predicate.
LEMMA NaturalsInSet ==
    ASSUME NEW S, 0 \in S, \A n \in Nat : n \in S => n + 1 \in S
    PROVE  \A n \in Nat : n \in S
<1> DEFINE Missing == {n \in Nat : n \notin S}
<1>1. SUFFICES ASSUME Missing # {} PROVE FALSE
  OBVIOUS
<1>2. PICK x \in Missing : \A y \in Missing : x <= y
  <2>1. Missing \subseteq Nat
    OBVIOUS
  <2> QED BY <1>1, <2>1, LeastElement
<1>3. x - 1 \in Nat /\ x - 1 \notin Missing
  BY <1>2
<1> QED BY <1>2, <1>3

\* f is what N steps make of base.
Steps(N, S) == [1..N -> [S -> S]]
IsRun(f, N, S, base, step) ==
    f \in [0..N -> S] /\ f[0] = base /\ \A n \in 1..N : f[n] = step[n][f[n - 1]]

\* Steps that take values of a set to values of the set can be run: a function
\* that is defined by recursion over an interval is what its definition says.
LEMMA StepsCanBeRun ==
    ASSUME NEW N \in Nat, NEW S, NEW base \in S, NEW step \in Steps(N, S)
    PROVE  \E f : IsRun(f, N, S, base, step)
<1> USE DEF Steps
<1> DEFINE Runs(m) == {f \in [0..m -> S] : f[0] = base /\ \A n \in 1..m : f[n] = step[n][f[n - 1]]}
           Good == {m \in Nat : m <= N => Runs(m) # {}}
<1>1. 0 \in Good
  <2>1. [n \in 0..0 |-> base] \in Runs(0)
    OBVIOUS
  <2> QED BY <2>1
<1>2. ASSUME NEW m \in Nat, m \in Good PROVE m + 1 \in Good
  <2>1. SUFFICES ASSUME m + 1 <= N PROVE Runs(m + 1) # {}
    OBVIOUS
  <2>2. PICK f \in [0..m -> S] : f[0] = base /\ \A n \in 1..m : f[n] = step[n][f[n - 1]]
    BY <1>2, <2>1
  <2> DEFINE g == [n \in 0..(m + 1) |-> IF n <= m THEN f[n] ELSE step[m + 1][f[m]]]
  <2>3. m + 1 \in 1..N /\ f[m] \in S
    BY <2>1
  <2>4. step[m + 1][f[m]] \in S
    BY <2>3
  <2>5. g \in [0..(m + 1) -> S]
    BY <2>4
  <2>6. g[0] = base
    BY <2>2
  <2>7. ASSUME NEW n \in 1..(m + 1) PROVE g[n] = step[n][g[n - 1]]
    <3>1. CASE n <= m
      BY <3>1, <2>2
    <3>2. CASE n = m + 1
      BY <3>2
    <3> QED BY <3>1, <3>2
  <2> HIDE DEF g
  <2>8. g \in Runs(m + 1)
    BY <2>5, <2>6, <2>7
  <2> QED BY <2>8
<1>3. N \in Good
  <2> HIDE DEF Good
  <2> QED BY <1>1, <1>2, NaturalsInSet
<1> QED BY <1>3 DEF IsRun

-----------------------------------------------------------------------------
(* What a load makes of the answers *)

Note == [at : Nat, relays : SUBSET Relays]
Table == [Addresses -> Note]

\* The administrator's own versions of an address among events.
OwnIn(events, a) == {v \in Versions : v.own /\ v.address = a /\ v \in Range(events)}

\* new is old with the events of a relay merged.
Merged(new, old, events, relay) ==
    \A a \in Addresses :
       /\ new[a].relays = old[a].relays \cup {r \in {relay} : OwnIn(events, a) # {}}
       /\ old[a].at <= new[a].at
       /\ \A v \in OwnIn(events, a) : v.at <= new[a].at
       /\ new[a].at = old[a].at \/ \E v \in OwnIn(events, a) : new[a].at = v.at

LEMMA UpsertOK ==
    ASSUME NEW m \in Table, NEW e \in Versions, NEW r \in Relays
    PROVE  /\ UpsertAdvertNote(m, e, r) \in Table
           /\ \A a \in Addresses :
                 LET new == UpsertAdvertNote(m, e, r)[a]
                 IN  IF e.own /\ e.address = a
                     THEN /\ new.relays = m[a].relays \cup {r}
                          /\ m[a].at <= new.at /\ e.at <= new.at
                          /\ new.at \in {m[a].at, e.at}
                     ELSE new = m[a]
<1>1. e.address \in Addresses /\ e.at \in Nat /\ e.own \in BOOLEAN
  BY AdvertAssumption DEF Versions
<1> DEFINE was == m[e.address]
           is == [at |-> IF e.at <= was.at THEN was.at ELSE e.at, relays |-> was.relays \cup {r}]
<1>2. was \in Note /\ was.at \in Nat /\ was.relays \subseteq Relays
  BY <1>1 DEF Table, Note
<1>3. is.at \in Nat /\ is.relays \subseteq Relays
  BY <1>1, <1>2
<1>4. is \in Note
  BY <1>3 DEF Note
<1>5. CASE ~e.own
  BY <1>5 DEF UpsertAdvertNote
<1>6. CASE e.own
  <2>1. UpsertAdvertNote(m, e, r) = [m EXCEPT ![e.address] = is]
    BY <1>6 DEF UpsertAdvertNote
  <2> HIDE DEF is
  <2>2. [m EXCEPT ![e.address] = is] \in Table
    BY <1>4, <1>1 DEF Table
  <2>3. \A a \in Addresses : [m EXCEPT ![e.address] = is][a] = IF a = e.address THEN is ELSE m[a]
    BY DEF Table
  <2>4. is.relays = was.relays \cup {r} /\ was.at <= is.at /\ e.at <= is.at /\ is.at \in {was.at, e.at}
    BY <1>1, <1>2 DEF is
  <2> QED BY <1>6, <2>1, <2>2, <2>3, <2>4
<1> QED BY <1>1, <1>5, <1>6


\* The events of a relay are merged one by one.
LEMMA UpsertAllOK ==
    ASSUME NEW m \in Table, NEW events \in Seq(Versions), NEW r \in Relays
    PROVE  /\ UpsertAll(m, events, r) \in Table
           /\ Merged(UpsertAll(m, events, r), m, events, r)
<1> DEFINE N == Len(events)
           step == [n \in 1..N |-> [t \in Table |-> UpsertAdvertNote(t, events[n], r)]]
           Defines(f) == f = [n \in 0..N |-> IF n = 0 THEN m ELSE UpsertAdvertNote(f[n - 1], events[n], r)]
           upserted == CHOOSE f : Defines(f)
<1>1. N \in Nat /\ \A n \in 1..N : events[n] \in Versions
  OBVIOUS
<1>2. step \in Steps(N, Table)
  BY <1>1, UpsertOK DEF Steps
<1>3. PICK f : IsRun(f, N, Table, m, step)
  <2> HIDE DEF step, N
  <2> QED BY <1>1, <1>2, StepsCanBeRun
<1>4. \A n \in 0..N : f[n] = IF n = 0 THEN m ELSE UpsertAdvertNote(f[n - 1], events[n], r)
  <2>1. ASSUME NEW n \in 1..N PROVE f[n] = UpsertAdvertNote(f[n - 1], events[n], r)
    <3>1. f[n - 1] \in Table
      BY <1>1, <1>3 DEF IsRun
    <3> QED BY <1>3, <3>1 DEF IsRun
  <2> QED BY <1>1, <1>3, <2>1 DEF IsRun
<1>5. Defines(f)
  <2> HIDE DEF N
  <2> QED BY <1>3, <1>4 DEF IsRun
<1>6. Defines(upserted)
  <2> HIDE DEF Defines
  <2> QED BY <1>5, Zenon
<1>7. UpsertAll(m, events, r) = upserted[N]
  BY DEF UpsertAll
<1> HIDE DEF upserted, step
<1>8. /\ upserted[0] = m
      /\ \A n \in 1..N : upserted[n] = UpsertAdvertNote(upserted[n - 1], events[n], r)
  BY <1>1, <1>6
<1> HIDE DEF Defines
<1> DEFINE First(n, a) == {v \in Versions : v.own /\ v.address = a /\ \E i \in 1..n : events[i] = v}
           Upto(n) == /\ upserted[n] \in Table
                      /\ \A a \in Addresses :
                            /\ upserted[n][a].relays = m[a].relays \cup {x \in {r} : First(n, a) # {}}
                            /\ m[a].at <= upserted[n][a].at
                            /\ \A v \in First(n, a) : v.at <= upserted[n][a].at
                            /\ upserted[n][a].at = m[a].at \/ \E v \in First(n, a) : upserted[n][a].at = v.at
           Good == {n \in Nat : n <= N => Upto(n)}
<1>9. 0 \in Good
  <2>1. \A a \in Addresses : First(0, a) = {}
    OBVIOUS
  <2>2. \A a \in Addresses : m[a].at \in Nat
    BY DEF Table, Note
  <2> HIDE DEF First
  <2> QED BY <1>8, <2>1, <2>2
<1>10. ASSUME NEW n \in Nat, n \in Good PROVE n + 1 \in Good
  <2>1. SUFFICES ASSUME n + 1 <= N PROVE Upto(n + 1)
    OBVIOUS
  <2> DEFINE e == events[n + 1]
             old == upserted[n]
             new == upserted[n + 1]
  <2>2. n + 1 \in 1..N /\ e \in Versions
    BY <1>1, <2>1
  <2>3. Upto(n) /\ old \in Table
    BY <1>10, <2>1
  <2>4. new = UpsertAdvertNote(old, e, r)
    BY <1>8, <2>2
  <2> HIDE DEF new, old, e
  <2>5. new \in Table
    BY <2>2, <2>3, <2>4, UpsertOK
  <2>6. ASSUME NEW a \in Addresses
        PROVE  First(n + 1, a) = First(n, a) \cup {v \in {e} : e.own /\ e.address = a}
    BY <2>2 DEF e
  <2>7. ASSUME NEW a \in Addresses
        PROVE  IF e.own /\ e.address = a
               THEN /\ new[a].relays = old[a].relays \cup {r}
                    /\ old[a].at <= new[a].at /\ e.at <= new[a].at
                    /\ new[a].at \in {old[a].at, e.at}
               ELSE new[a] = old[a]
    <3>1. old \in Table /\ e \in Versions
      BY <2>2, <2>3
    <3> QED BY <3>1, <2>4, UpsertOK
  <2>8. ASSUME NEW a \in Addresses
        PROVE  /\ old[a].at \in Nat /\ new[a].at \in Nat /\ m[a].at \in Nat /\ e.at \in Nat
               /\ \A v \in Versions : v.at \in Nat
    <3>1. old \in Table /\ e \in Versions
      BY <2>2, <2>3
    <3> QED BY <3>1, <2>5, AdvertAssumption DEF Table, Note, Versions
  <2>9. ASSUME NEW a \in Addresses
        PROVE  /\ old[a].relays = m[a].relays \cup {x \in {r} : First(n, a) # {}}
               /\ m[a].at <= old[a].at
               /\ \A v \in First(n, a) : v.at <= old[a].at
               /\ old[a].at = m[a].at \/ \E v \in First(n, a) : old[a].at = v.at
    BY <2>3 DEF old
  <2>10. \A k, a : First(k, a) \subseteq Versions
    OBVIOUS
  <2> HIDE DEF First
  <2>11. ASSUME NEW a \in Addresses
         PROVE  /\ new[a].relays = m[a].relays \cup {x \in {r} : First(n + 1, a) # {}}
                /\ m[a].at <= new[a].at
                /\ \A v \in First(n + 1, a) : v.at <= new[a].at
                /\ new[a].at = m[a].at \/ \E v \in First(n + 1, a) : new[a].at = v.at
    <3>1. CASE e.own /\ e.address = a
      <4>1. First(n + 1, a) = First(n, a) \cup {e}
        BY <2>6, <3>1
      <4>2. new[a].relays = m[a].relays \cup {r}
        BY <2>7, <2>9, <3>1
      <4>3. old[a].at <= new[a].at /\ e.at <= new[a].at /\ new[a].at \in {old[a].at, e.at}
        BY <2>7, <3>1
      <4>4. m[a].at <= new[a].at
        BY <4>3, <2>8, <2>9
      <4>5. \A v \in First(n + 1, a) : v.at <= new[a].at
        BY <4>1, <4>3, <2>8, <2>9, <2>10
      <4> QED BY <4>1, <4>2, <4>3, <4>4, <4>5, <2>9
    <3>2. CASE ~(e.own /\ e.address = a)
      <4>1. First(n + 1, a) = First(n, a)
        BY <2>6, <3>2
      <4>2. new[a] = old[a]
        BY <2>7, <3>2
      <4> QED BY <4>1, <4>2, <2>9
    <3> QED BY <3>1, <3>2
  <2> QED BY <2>5, <2>11 DEF new
<1>11. N \in Good
  <2> HIDE DEF Good
  <2> QED BY <1>1, <1>9, <1>10, NaturalsInSet
<1>12. \A a \in Addresses : First(N, a) = OwnIn(events, a)
  BY DEF OwnIn, Range
<1> HIDE DEF First
<1> QED BY <1>1, <1>7, <1>11, <1>12 DEF Merged

\* t lists, for every address, the relays that returned an own version of it
\* and the time of the newest.
Newest(t, got) ==
    \A a \in Addresses :
       /\ t[a].relays = {r \in Relays : OwnIn(got[r], a) # {}}
       /\ \A r \in Relays : \A v \in OwnIn(got[r], a) : v.at <= t[a].at
       /\ t[a].relays # {} => \E r \in Relays : \E v \in OwnIn(got[r], a) : t[a].at = v.at

\* What loadAdvertNotes makes of the answers, in whatever order they come.
LEMMA NotesByAddressOK ==
    ASSUME NEW l, answers[l] \in [Relays -> Seq(Versions)]
    PROVE  NotesByAddress(l) \in Table /\ Newest(NotesByAddress(l), answers[l])
<1> DEFINE N == Len(RelayList)
           got == answers[l]
           empty == [a \in Addresses |-> [at |-> 0, relays |-> {}]]
           step == [n \in 1..N |-> [t \in Table |-> UpsertAll(t, got[RelayList[n]], RelayList[n])]]
           Defines(f) == f = [n \in 0..N |-> IF n = 0 THEN empty
                                             ELSE UpsertAll(f[n - 1], got[RelayList[n]], RelayList[n])]
           merged == CHOOSE f : Defines(f)
<1>1. N \in Nat /\ \A n \in 1..N : RelayList[n] \in Relays /\ got[RelayList[n]] \in Seq(Versions)
  BY AdvertAssumption
<1>2. empty \in Table
  BY DEF Table, Note
<1>3. step \in Steps(N, Table)
  BY <1>1, UpsertAllOK DEF Steps
<1>4. PICK f : IsRun(f, N, Table, empty, step)
  <2> HIDE DEF step, N, empty
  <2> QED BY <1>1, <1>2, <1>3, StepsCanBeRun
<1>5. \A n \in 0..N : f[n] = IF n = 0 THEN empty
                             ELSE UpsertAll(f[n - 1], got[RelayList[n]], RelayList[n])
  <2>1. ASSUME NEW n \in 1..N PROVE f[n] = UpsertAll(f[n - 1], got[RelayList[n]], RelayList[n])
    <3>1. f[n - 1] \in Table
      BY <1>1, <1>4 DEF IsRun
    <3> QED BY <1>4, <3>1 DEF IsRun
  <2> QED BY <1>1, <1>4, <2>1 DEF IsRun
<1>6. Defines(f)
  <2> HIDE DEF N, empty, got
  <2> QED BY <1>4, <1>5 DEF IsRun
<1>7. Defines(merged)
  <2> HIDE DEF Defines
  <2> QED BY <1>6, Zenon
<1>8. NotesByAddress(l) = merged[N]
  BY DEF NotesByAddress
<1> HIDE DEF merged, step
<1>9. /\ merged[0] = empty
      /\ \A n \in 1..N : merged[n] = UpsertAll(merged[n - 1], got[RelayList[n]], RelayList[n])
  <2> HIDE DEF N, empty, got
  <2> QED BY <1>1, <1>7
<1>10. \A a \in Addresses : empty[a].at = 0 /\ empty[a].relays = {}
  OBVIOUS
<1> HIDE DEF Defines, empty, got
<1> DEFINE Asked(n) == {RelayList[i] : i \in 1..n}
           Upto(n) == /\ merged[n] \in Table
                      /\ \A a \in Addresses :
                            /\ merged[n][a].relays = {r \in Asked(n) : OwnIn(got[r], a) # {}}
                            /\ \A r \in Asked(n) : \A v \in OwnIn(got[r], a) : v.at <= merged[n][a].at
                            /\ \/ merged[n][a].at = 0
                               \/ \E r \in Asked(n) : \E v \in OwnIn(got[r], a) : merged[n][a].at = v.at
           Good == {n \in Nat : n <= N => Upto(n)}
<1>11. 0 \in Good
  <2>1. Asked(0) = {}
    OBVIOUS
  <2> HIDE DEF Asked
  <2> QED BY <1>2, <1>9, <1>10, <2>1
<1>12. ASSUME NEW n \in Nat, n \in Good PROVE n + 1 \in Good
  <2> HIDE DEF Upto, N
  <2>1. SUFFICES ASSUME n + 1 <= N PROVE Upto(n + 1)
    OBVIOUS
  <2> DEFINE r0 == RelayList[n + 1]
             old == merged[n]
             new == merged[n + 1]
  <2>2. n + 1 \in 1..N /\ r0 \in Relays /\ got[r0] \in Seq(Versions)
    BY <1>1, <2>1
  <2>3. Upto(n)
    BY <1>1, <1>12, <2>1
  <2>4. new = UpsertAll(old, got[r0], r0)
    BY <1>9, <2>2
  <2>5. Asked(n + 1) = Asked(n) \cup {r0}
    <3>1. 1..(n + 1) = 1..n \cup {n + 1}
      OBVIOUS
    <3> QED BY <3>1
  <2> HIDE DEF new, old, r0
  <2>6. old \in Table /\ r0 \in Relays /\ got[r0] \in Seq(Versions)
    BY <2>2, <2>3 DEF Upto, old
  <2>7. new \in Table /\ Merged(new, old, got[r0], r0)
    BY <2>4, <2>6, UpsertAllOK
  <2>8. \A v \in Versions : v.at \in Nat
    BY AdvertAssumption DEF Versions
  <2>9. \A r, a : OwnIn(got[r], a) \subseteq Versions
    BY DEF OwnIn
  <2>10. ASSUME NEW a \in Addresses
         PROVE  /\ new[a].relays = {r \in Asked(n + 1) : OwnIn(got[r], a) # {}}
                /\ \A r \in Asked(n + 1) : \A v \in OwnIn(got[r], a) : v.at <= new[a].at
                /\ \/ new[a].at = 0
                   \/ \E r \in Asked(n + 1) : \E v \in OwnIn(got[r], a) : new[a].at = v.at
    <3>1. /\ old[a].relays = {r \in Asked(n) : OwnIn(got[r], a) # {}}
          /\ \A r \in Asked(n) : \A v \in OwnIn(got[r], a) : v.at <= old[a].at
          /\ \/ old[a].at = 0
             \/ \E r \in Asked(n) : \E v \in OwnIn(got[r], a) : old[a].at = v.at
      BY <2>3 DEF old, Upto
    <3>2. /\ new[a].relays = old[a].relays \cup {r \in {r0} : OwnIn(got[r0], a) # {}}
          /\ old[a].at <= new[a].at
          /\ \A v \in OwnIn(got[r0], a) : v.at <= new[a].at
          /\ new[a].at = old[a].at \/ \E v \in OwnIn(got[r0], a) : new[a].at = v.at
      BY <2>7 DEF Merged
    <3>3. old[a].at \in Nat /\ new[a].at \in Nat
      BY <2>6, <2>7 DEF Table, Note
    <3> HIDE DEF Asked
    <3>4. new[a].relays = {r \in Asked(n + 1) : OwnIn(got[r], a) # {}}
      BY <3>1, <3>2, <2>5
    <3>5. \A r \in Asked(n + 1) : \A v \in OwnIn(got[r], a) : v.at <= new[a].at
      <4>1. ASSUME NEW r \in Asked(n), NEW v \in OwnIn(got[r], a) PROVE v.at <= new[a].at
        <5>1. v.at <= old[a].at /\ v.at \in Nat
          BY <3>1, <2>8, <2>9, <4>1
        <5> QED BY <3>2, <3>3, <5>1
      <4> QED BY <3>2, <4>1, <2>5
    <3>6. \/ new[a].at = 0
          \/ \E r \in Asked(n + 1) : \E v \in OwnIn(got[r], a) : new[a].at = v.at
      BY <3>1, <3>2, <2>5
    <3> QED BY <3>4, <3>5, <3>6
  <2> QED BY <2>7, <2>10 DEF new, Upto
<1>13. N \in Good
  <2> HIDE DEF Good
  <2> QED BY <1>1, <1>11, <1>12, NaturalsInSet
<1>14. Asked(N) = Relays
  BY AdvertAssumption DEF Relays
<1>15. \A a \in Addresses : \A r : \A v \in OwnIn(got[r], a) : v.at > 0
  BY AdvertAssumption DEF OwnIn, Versions
<1> HIDE DEF Asked
<1>16. Upto(N)
  <2> HIDE DEF Upto, N
  <2> QED BY <1>1, <1>13
<1>17. ASSUME NEW a \in Addresses, merged[N][a].relays # {} PROVE merged[N][a].at # 0
  <2>1. PICK r \in Relays : OwnIn(got[r], a) # {}
    BY <1>14, <1>16, <1>17
  <2>2. merged[N][a].at \in Nat
    BY <1>16 DEF Table, Note
  <2>3. PICK v \in OwnIn(got[r], a) : v.at <= merged[N][a].at
    BY <1>14, <1>16, <2>1
  <2>4. v.at > 0 /\ v.at \in Nat
    BY <1>15, AdvertAssumption DEF OwnIn, Versions
  <2> QED BY <2>2, <2>3, <2>4
<1> HIDE DEF N
<1> QED BY <1>8, <1>14, <1>16, <1>17 DEF Newest, got
-----------------------------------------------------------------------------
(* The inductive invariant *)

Ids == (1..MaxLoads) \X Addresses
Stages == {"none", "signing", "publishing"}
Publication == [stage : Stages, advert : Versions \cup {NoVersion}, left : SUBSET Relays,
                accepted : SUBSET Relays]
Deletion == [stage : Stages, note : Ids \cup {NoNote}, button : BOOLEAN, asked : SUBSET Relays,
             left : SUBSET Relays, accepted : SUBSET Relays]

\* The note objects there are: those in the list or kept by a deletion.
Objects == Referred(list, deletion)

RelaysOK ==
    /\ held \in [Relays -> {versions \in SUBSET Versions : IsFiniteSet(versions)}]
    /\ publish \in Publication
    /\ publish.stage # "none" => publish.advert \in Versions /\ begun \in 1..(MaxLoads - 1)
    /\ publish.left # {} => publish.stage = "publishing"

LoadsOK ==
    /\ begun \in 0..MaxLoads
    /\ loading \subseteq 1..begun
    /\ answers \in [1..MaxLoads -> [Relays -> Seq(Versions)]]
    /\ found \subseteq Versions \X Relays

ObjectsOK ==
    /\ list \subseteq Ids
    /\ notes \in [Objects -> Note]
    /\ deletion \in [Deletions -> Deletion]
    /\ \A d \in Deletions : /\ deletion[d].stage # "none" => deletion[d].note \in Ids
                            /\ deletion[d].left # {} => deletion[d].stage = "publishing"

\* A note is made by a load that has ended, and the list by the last one.
MadeByLoads ==
    /\ \A id \in Objects : id[1] \in 1..begun /\ id[1] \notin loading
    /\ \A id \in list : id[1] = current

\* A note of the load that made the list has the newest time, and relays that
\* returned the advert; so do the deletions that took their relays from it.
NotesAreNewest ==
    /\ \A id \in Objects : id[1] = current =>
          /\ \E x \in FoundOf(id[2]) : notes[id].at = x[1].at
          /\ \A x \in FoundOf(id[2]) : x[1].at <= notes[id].at
          /\ notes[id].relays \subseteq FoundOn(id[2])
    /\ \A d \in Deletions :
          deletion[d].stage = "publishing" /\ deletion[d].note[1] = current =>
             deletion[d].asked \subseteq FoundOn(deletion[d].note[2])

\* A relay that is missing from a note, from what a deletion asks, or with the
\* whole note from the list, has accepted a deletion.
MissingAreDeleted ==
    /\ \A id \in Objects : id[1] = current =>
          \A x \in FoundOf(id[2]) : x[2] \in notes[id].relays \/ <<id, x[2]>> \in deleted
    /\ \A d \in Deletions :
          deletion[d].stage = "publishing" /\ deletion[d].note[1] = current =>
             \A x \in FoundOf(deletion[d].note[2]) :
                x[2] \in deletion[d].asked \/ <<deletion[d].note, x[2]>> \in deleted
    /\ \A x \in found : <<current, x[1].address>> \notin list =>
          <<<<current, x[1].address>>, x[2]>> \in deleted

AdvertInv ==
    /\ RelaysOK /\ LoadsOK /\ ObjectsOK
    /\ MadeByLoads /\ NotesAreNewest /\ MissingAreDeleted


LEMMA InReferred ==
    \A ids, ds, id : id \in Referred(ids, ds) <=>
        id \in ids \/ \E d \in Deletions : ds[d].stage # "none" /\ ds[d].note = id
BY DEF Referred

LEMMA AdvertInitOK == AdvertInit => AdvertInv
<1> SUFFICES ASSUME AdvertInit PROVE AdvertInv
  OBVIOUS
<1> USE AdvertAssumption DEF AdvertInit
<1>1. RelaysOK
  BY DEF RelaysOK, NoPublication, Publication, Stages
<1>2. LoadsOK
  <2>1. <<>> \in Seq(Versions)
    OBVIOUS
  <2> QED BY <2>1 DEF LoadsOK
<1>3. \A d \in Deletions : deletion[d].stage = "none" /\ deletion[d].left = {}
  BY DEF NoDeletion
<1>4. Objects = {}
  BY <1>3, InReferred DEF Objects
<1>5. ObjectsOK
  <2>1. notes \in [{} -> Note]
    OBVIOUS
  <2>2. NoDeletion \in Deletion
    BY DEF NoDeletion, Deletion, Stages
  <2> QED BY <1>3, <1>4, <2>1, <2>2 DEF ObjectsOK
<1>6. MadeByLoads /\ NotesAreNewest /\ MissingAreDeleted
  BY <1>3, <1>4 DEF MadeByLoads, NotesAreNewest, MissingAreDeleted
<1> QED BY <1>1, <1>2, <1>5, <1>6 DEF AdvertInv

-----------------------------------------------------------------------------
(* Relays and loads *)

\* What the notes are does not change.
SameNotes == UNCHANGED <<notes, list, deletion, current, found, deleted>>

LEMMA SameNotesOK ==
    ASSUME AdvertInv, SameNotes, begun' \in Nat, begun <= begun', loading' \subseteq loading \cup {begun + 1}
    PROVE  ObjectsOK' /\ MadeByLoads' /\ NotesAreNewest' /\ MissingAreDeleted'
<1> USE DEF SameNotes
<1>1. Objects' = Objects
  BY DEF Objects, Referred
<1>2. ObjectsOK'
  BY <1>1 DEF AdvertInv, ObjectsOK
<1>3. MadeByLoads'
  BY <1>1 DEF AdvertInv, MadeByLoads, LoadsOK
<1>4. NotesAreNewest'
  BY <1>1 DEF AdvertInv, NotesAreNewest, FoundOf, FoundOn
<1>5. MissingAreDeleted'
  BY <1>1 DEF AdvertInv, MissingAreDeleted, FoundOf
<1> QED BY <1>2, <1>3, <1>4, <1>5

LEMMA BeginLoadOK ==
    ASSUME AdvertInv, BeginLoad, begun < MaxLoads
    PROVE  /\ begun' \in 0..MaxLoads /\ begun <= begun' /\ loading' \subseteq 1..begun'
           /\ loading' \subseteq loading \cup {begun + 1}
BY AdvertAssumption DEF AdvertInv, LoadsOK, BeginLoad

LEMMA LoadOverviewOK == AdvertInv /\ LoadOverview => AdvertInv'
<1> SUFFICES ASSUME AdvertInv, LoadOverview PROVE AdvertInv'
  OBVIOUS
<1>1. begun = 0 /\ begun < MaxLoads /\ BeginLoad /\ SameNotes /\ UNCHANGED <<held, answers, publish>>
  BY AdvertAssumption DEF LoadOverview, SameNotes
<1>2. /\ begun' \in 0..MaxLoads /\ begun <= begun' /\ loading' \subseteq 1..begun'
      /\ loading' \subseteq loading \cup {begun + 1}
  BY <1>1, BeginLoadOK
<1>3. RelaysOK'
  BY <1>1 DEF AdvertInv, RelaysOK
<1>4. LoadsOK'
  BY <1>1, <1>2 DEF AdvertInv, LoadsOK, SameNotes
<1>5. ObjectsOK' /\ MadeByLoads' /\ NotesAreNewest' /\ MissingAreDeleted'
  BY <1>1, <1>2, SameNotesOK
<1> QED BY <1>3, <1>4, <1>5 DEF AdvertInv

LEMMA RelayAnswersOK ==
    ASSUME AdvertInv, NEW l \in loading, NEW r \in Relays, RelayAnswers(l, r) \/ RelayLookupFails(l, r)
    PROVE  AdvertInv'
<1>1. SameNotes /\ UNCHANGED <<held, begun, loading, publish>> /\ l \in 1..MaxLoads
  BY AdvertAssumption DEF RelayAnswers, RelayLookupFails, SameNotes, AdvertInv, LoadsOK
<1>2. RelaysOK'
  BY <1>1 DEF AdvertInv, RelaysOK
<1>3. answers' \in [1..MaxLoads -> [Relays -> Seq(Versions)]]
  <2>1. CASE RelayAnswers(l, r)
    <3>1. PICK n \in 0..Cardinality(held[r]) : \E events \in Injection(1..n, held[r]) :
                 answers' = [answers EXCEPT ![l][r] = events]
      BY <2>1 DEF RelayAnswers
    <3>2. PICK events \in Injection(1..n, held[r]) : answers' = [answers EXCEPT ![l][r] = events]
      BY <3>1
    <3>3. held[r] \subseteq Versions /\ IsFiniteSet(held[r])
      BY DEF AdvertInv, RelaysOK
    <3>4. n \in Nat
      BY <3>3, FS_CardinalityType
    <3>5. events \in [1..n -> Versions]
      BY <3>3 DEF Injection
    <3>6. events \in Seq(Versions)
      BY <3>4, <3>5
    <3> QED BY <1>1, <3>2, <3>6 DEF AdvertInv, LoadsOK
  <2>2. CASE RelayLookupFails(l, r)
    BY <2>2 DEF RelayLookupFails, AdvertInv, LoadsOK
  <2> QED BY <2>1, <2>2
<1>4. LoadsOK'
  BY <1>1, <1>3 DEF AdvertInv, LoadsOK, SameNotes
<1>5. ObjectsOK' /\ MadeByLoads' /\ NotesAreNewest' /\ MissingAreDeleted'
  <2>1. begun' \in Nat /\ begun <= begun' /\ loading' \subseteq loading \cup {begun + 1}
    BY <1>1 DEF AdvertInv, LoadsOK
  <2> QED BY <1>1, <2>1, SameNotesOK
<1> QED BY <1>2, <1>4, <1>5 DEF AdvertInv

\* A step of a publication other than its end.
LEMMA PublishingOK ==
    ASSUME AdvertInv, SameNotes, RelaysOK', UNCHANGED <<begun, loading, answers>>
    PROVE  AdvertInv'
<1>1. LoadsOK'
  BY DEF AdvertInv, LoadsOK, SameNotes
<1>2. begun' \in Nat /\ begun <= begun' /\ loading' \subseteq loading \cup {begun + 1}
  BY DEF AdvertInv, LoadsOK
<1> QED BY <1>1, <1>2, SameNotesOK DEF AdvertInv

LEMMA PublicationStepsOK ==
    ASSUME AdvertInv,
           \/ \E v \in Versions : PublishAdvert(v)
           \/ \E relays \in SUBSET Relays : AdvertSigned(relays)
           \/ AdvertRefused
           \/ \E r \in Relays : AdvertAnswered(r)
    PROVE  AdvertInv'
<1>1. SameNotes /\ UNCHANGED <<begun, loading, answers>>
  BY DEF PublishAdvert, AdvertSigned, AdvertRefused, AdvertAnswered, SameNotes
<1>2. RelaysOK
  BY DEF AdvertInv
<1>3. publish.left \subseteq Relays /\ publish.accepted \subseteq Relays /\ publish.stage \in Stages
  BY <1>2 DEF RelaysOK, Publication
<1>4. ASSUME NEW v \in Versions, PublishAdvert(v) PROVE RelaysOK'
  <2>1. publish' = [stage |-> "signing", advert |-> v, left |-> {}, accepted |-> {}]
    BY <1>4 DEF PublishAdvert, NoPublication
  <2>2. publish' \in Publication
    BY <2>1 DEF Publication, Stages
  <2>3. held' = held /\ begun' \in 1..(MaxLoads - 1)
    BY <1>4 DEF PublishAdvert
  <2>4. publish'.advert = v /\ publish'.left = {}
    BY <2>1
  <2> QED BY <1>2, <2>2, <2>3, <2>4 DEF RelaysOK
<1>5. ASSUME NEW relays \in SUBSET Relays, AdvertSigned(relays) PROVE RelaysOK'
  <2>1. publish' \in Publication /\ publish'.stage = "publishing" /\ publish'.advert = publish.advert
    BY <1>2, <1>5 DEF AdvertSigned, RelaysOK, Publication, Stages
  <2>2. held' = held /\ publish.stage = "signing"
    BY <1>5 DEF AdvertSigned
  <2>3. publish.advert \in Versions /\ begun' \in 1..(MaxLoads - 1)
    BY <1>1, <1>2, <2>2 DEF RelaysOK
  <2> QED BY <1>2, <2>1, <2>2, <2>3 DEF RelaysOK
<1>6. ASSUME AdvertRefused PROVE RelaysOK'
  <2>1. publish' \in Publication /\ publish'.stage = "none" /\ publish'.left = {}
    BY <1>6 DEF AdvertRefused, NoPublication, Publication, Stages
  <2> QED BY <1>2, <1>6, <2>1 DEF AdvertRefused, RelaysOK
<1>7. ASSUME NEW r \in Relays, AdvertAnswered(r) PROVE RelaysOK'
  <2>1. publish.stage = "publishing" /\ publish.advert \in Versions /\ begun \in 1..(MaxLoads - 1)
    BY <1>2, <1>7 DEF AdvertAnswered, RelaysOK
  <2>2. PICK stores \in BOOLEAN, ok \in BOOLEAN :
          /\ held' = IF stores THEN [held EXCEPT ![r] = @ \cup {publish.advert}] ELSE held
          /\ publish' = [publish EXCEPT !.left = @ \ {r}, !.accepted = IF ok THEN @ \cup {r} ELSE @]
    BY <1>7 DEF AdvertAnswered
  <2>3. held[r] \subseteq Versions /\ IsFiniteSet(held[r])
    BY <1>2 DEF RelaysOK
  <2>4. IsFiniteSet(held[r] \cup {publish.advert})
    BY <2>3, FS_AddElement
  <2>5. held' \in [Relays -> {versions \in SUBSET Versions : IsFiniteSet(versions)}]
    BY <1>2, <2>1, <2>2, <2>3, <2>4 DEF RelaysOK
  <2>6. publish' \in Publication /\ publish'.stage = "publishing" /\ publish'.advert = publish.advert
    BY <1>2, <1>3, <2>1, <2>2 DEF RelaysOK, Publication
  <2> QED BY <1>1, <2>1, <2>5, <2>6 DEF RelaysOK
<1> QED BY <1>1, <1>4, <1>5, <1>6, <1>7, PublishingOK

LEMMA PublicationEndsOK == AdvertInv /\ PublicationEnds => AdvertInv'
<1> SUFFICES ASSUME AdvertInv, PublicationEnds PROVE AdvertInv'
  OBVIOUS
<1>1. SameNotes /\ UNCHANGED <<held, answers>> /\ begun < MaxLoads /\ publish' = NoPublication
  BY AdvertAssumption DEF PublicationEnds, SameNotes, AdvertInv, RelaysOK
<1>2. /\ begun' \in 0..MaxLoads /\ begun <= begun' /\ loading' \subseteq 1..begun'
      /\ loading' \subseteq loading \cup {begun + 1}
  <2>1. CASE BeginLoad
    BY <1>1, <2>1, BeginLoadOK
  <2>2. CASE UNCHANGED <<begun, loading, waiting>>
    BY <2>2 DEF AdvertInv, LoadsOK
  <2> QED BY <2>1, <2>2 DEF PublicationEnds
<1>3. RelaysOK'
  <2>1. publish' \in Publication /\ publish'.stage = "none" /\ publish'.left = {}
    BY <1>1 DEF NoPublication, Publication, Stages
  <2> QED BY <1>1, <2>1 DEF AdvertInv, RelaysOK
<1>4. LoadsOK'
  BY <1>1, <1>2 DEF AdvertInv, LoadsOK, SameNotes
<1>5. ObjectsOK' /\ MadeByLoads' /\ NotesAreNewest' /\ MissingAreDeleted'
  BY <1>1, <1>2, SameNotesOK
<1> QED BY <1>3, <1>4, <1>5 DEF AdvertInv

-----------------------------------------------------------------------------
(* The end of a load *)

LEMMA LoadEndsOK ==
    ASSUME AdvertInv, NEW l \in loading, LoadEnds(l)
    PROVE  AdvertInv'
<1> DEFINE byAddress == NotesByAddress(l)
           ids == {<<l, a>> : a \in {b \in Addresses : byAddress[b].relays # {}}}
           old == Referred({}, deletion)
           got == answers[l]
<1>1. /\ list' = ids
      /\ notes' = [id \in ids \cup old |-> IF id \in ids THEN byAddress[id[2]] ELSE notes[id]]
      /\ deletion' = Rendered(deletion)
      /\ current' = l
      /\ found' = {x \in Versions \X Relays : x[1].own /\ x[1] \in Range(got[x[2]])}
      /\ answers' = [answers EXCEPT ![l] = [r \in Relays |-> <<>>]]
      /\ loading' = loading \ {l}
      /\ UNCHANGED <<held, begun, publish>>
  BY DEF LoadEnds
<1>2. l \in 1..begun /\ l \in 1..MaxLoads /\ got \in [Relays -> Seq(Versions)]
  BY AdvertAssumption DEF AdvertInv, LoadsOK
<1>3. byAddress \in Table /\ Newest(byAddress, got)
  BY <1>2, NotesByAddressOK
<1> HIDE DEF byAddress
<1>4. RelaysOK'
  BY <1>1 DEF AdvertInv, RelaysOK
<1>5. LoadsOK'
  <2>1. answers' \in [1..MaxLoads -> [Relays -> Seq(Versions)]]
    <3>1. <<>> \in Seq(Versions)
      OBVIOUS
    <3> QED BY <1>1, <3>1 DEF AdvertInv, LoadsOK
  <2>2. found' \subseteq Versions \X Relays
    BY <1>1
  <2> QED BY <1>1, <2>1, <2>2 DEF AdvertInv, LoadsOK
<1>6. /\ deletion' \in [Deletions -> Deletion]
      /\ \A d \in Deletions : /\ deletion'[d].stage = deletion[d].stage
                              /\ deletion'[d].note = deletion[d].note
                              /\ deletion'[d].left = deletion[d].left
  <2>1. \A d \in Deletions : deletion[d] \in Deletion
    BY DEF AdvertInv, ObjectsOK
  <2> QED BY <1>1, <2>1 DEF Rendered, Deletion
<1>7. \A id \in old : id \in Objects /\ id \notin ids /\ id[1] \in 1..begun /\ id[1] # l
  <2>1. \A id \in old : id \in Objects
    BY InReferred DEF Objects
  <2> QED BY <2>1 DEF AdvertInv, MadeByLoads
<1>8. Objects' = ids \cup old
  <2>1. \A id : id \in Objects' <=> id \in ids \cup old
    <3>1. \A id : id \in Objects' <=> id \in list' \/ \E d \in Deletions : deletion'[d].stage # "none" /\ deletion'[d].note = id
      BY DEF Objects, Referred
    <3>2. \A id : id \in old <=> \E d \in Deletions : deletion[d].stage # "none" /\ deletion[d].note = id
      BY InReferred
    <3> HIDE DEF ids, old
    <3> QED BY <1>1, <1>6, <3>1, <3>2
  <2> QED BY <2>1
<1>9. ASSUME NEW id \in ids
      PROVE  /\ id[1] = l /\ id[2] \in Addresses /\ id = <<l, id[2]>> /\ byAddress[id[2]].relays # {}
             /\ id \in Ids /\ notes'[id] = byAddress[id[2]] /\ notes'[id] \in Note
  <2>1. PICK a \in Addresses : id = <<l, a>> /\ byAddress[a].relays # {}
    OBVIOUS
  <2>2. id \in Ids
    BY <1>2, <2>1 DEF Ids
  <2>3. notes'[id] = byAddress[id[2]]
    BY <1>1
  <2>4. byAddress[a] \in Note
    BY <1>3 DEF Table
  <2> QED BY <2>1, <2>2, <2>3, <2>4
<1>10. ObjectsOK'
  <2>1. \A id \in old : notes'[id] \in Note
    <3>1. \A id \in old : notes'[id] = notes[id] /\ id \in Objects
      BY <1>1, <1>7
    <3> QED BY <3>1 DEF AdvertInv, ObjectsOK
  <2>2. \A id \in ids : notes'[id] \in Note
    BY <1>9
  <2>3. notes' \in [ids \cup old -> Note]
    <3>1. notes' = [id \in ids \cup old |-> notes'[id]]
      BY <1>1
    <3> HIDE DEF ids, old
    <3> QED BY <2>1, <2>2, <3>1
  <2>4. list' \subseteq Ids
    BY <1>1, <1>9
  <2>5. \A d \in Deletions : /\ deletion'[d].stage # "none" => deletion'[d].note \in Ids
                             /\ deletion'[d].left # {} => deletion'[d].stage = "publishing"
    BY <1>6 DEF AdvertInv, ObjectsOK
  <2> QED BY <1>6, <1>8, <2>3, <2>4, <2>5 DEF ObjectsOK
<1>11. MadeByLoads'
  <2>1. \A id \in ids \cup old : id[1] \in 1..begun /\ id[1] \notin loading \ {l}
    <3>1. \A id \in ids : id[1] = l
      BY <1>9
    <3>2. \A id \in old : id[1] \in 1..begun /\ id[1] \notin loading
      BY <1>7 DEF AdvertInv, MadeByLoads
    <3> HIDE DEF ids, old
    <3> QED BY <1>2, <3>1, <3>2
  <2>2. \A id \in list' : id[1] = current'
    BY <1>1, <1>9
  <2> HIDE DEF ids, old
  <2> QED BY <1>1, <1>8, <2>1, <2>2 DEF MadeByLoads
<1>12. \A id \in Objects' : id[1] = l => id \in ids
  BY <1>7, <1>8
<1>13. \A d \in Deletions : deletion'[d].stage # "none" => deletion'[d].note[1] # current'
  <2>1. \A d \in Deletions : deletion[d].stage # "none" => deletion[d].note \in old
    BY InReferred
  <2> QED BY <1>1, <1>6, <1>7, <2>1
<1>14. \A a \in Addresses : \A v, r : <<v, r>> \in found' /\ v.address = a <=> r \in Relays /\ v \in OwnIn(got[r], a)
  BY <1>1 DEF OwnIn
<1>15. \A x \in found' : x = <<x[1], x[2]>> /\ x[1].address \in Addresses
  BY <1>1 DEF Versions
<1>16. ASSUME NEW a \in Addresses
       PROVE  /\ \A x \in FoundOf(a)' : x[2] \in Relays /\ x[1] \in OwnIn(got[x[2]], a)
              /\ \A r \in Relays : \A v \in OwnIn(got[r], a) : <<v, r>> \in FoundOf(a)'
  BY <1>14, <1>15 DEF FoundOf
<1>17. ASSUME NEW a \in Addresses
       PROVE  /\ byAddress[a].relays = FoundOn(a)'
              /\ \A x \in FoundOf(a)' : x[1].at <= byAddress[a].at
              /\ byAddress[a].relays # {} => \E x \in FoundOf(a)' : byAddress[a].at = x[1].at
  <2>1. /\ byAddress[a].relays = {r \in Relays : OwnIn(got[r], a) # {}}
        /\ \A r \in Relays : \A v \in OwnIn(got[r], a) : v.at <= byAddress[a].at
        /\ byAddress[a].relays # {} => \E r \in Relays : \E v \in OwnIn(got[r], a) : byAddress[a].at = v.at
    BY <1>3 DEF Newest
  <2>2. FoundOn(a)' = {x[2] : x \in FoundOf(a)'}
    BY DEF FoundOn
  <2>3. byAddress[a].relays = FoundOn(a)'
    <3>1. ASSUME NEW r \in Relays, OwnIn(got[r], a) # {} PROVE r \in FoundOn(a)'
      <4>1. PICK v : v \in OwnIn(got[r], a)
        BY <3>1
      <4>2. <<v, r>> \in FoundOf(a)' /\ <<v, r>>[2] = r
        BY <1>16, <4>1
      <4> QED BY <2>2, <4>2
    <3>2. ASSUME NEW r \in FoundOn(a)' PROVE r \in Relays /\ OwnIn(got[r], a) # {}
      BY <1>16, <2>2
    <3> QED BY <2>1, <3>1, <3>2
  <2>4. \A x \in FoundOf(a)' : x[1].at <= byAddress[a].at
    BY <1>16, <2>1
  <2>5. byAddress[a].relays # {} => \E x \in FoundOf(a)' : byAddress[a].at = x[1].at
    BY <1>16, <2>1
  <2> QED BY <2>3, <2>4, <2>5
<1>18. NotesAreNewest'
  <2>1. ASSUME NEW id \in Objects', id[1] = current'
        PROVE  /\ \E x \in FoundOf(id[2])' : notes'[id].at = x[1].at
               /\ \A x \in FoundOf(id[2])' : x[1].at <= notes'[id].at
               /\ notes'[id].relays \subseteq FoundOn(id[2])'
    <3>1. id \in ids
      BY <1>1, <1>12, <2>1
    <3>2. id[2] \in Addresses /\ byAddress[id[2]].relays # {} /\ notes'[id] = byAddress[id[2]]
      BY <1>9, <3>1
    <3> HIDE DEF ids
    <3> QED BY <1>17, <3>2
  <2> QED BY <1>13, <2>1 DEF NotesAreNewest
<1>19. MissingAreDeleted'
  <2>1. ASSUME NEW x \in found'
        PROVE  <<l, x[1].address>> \in ids /\ x[2] \in byAddress[x[1].address].relays
    <3>1. x[1].address \in Addresses /\ x \in FoundOf(x[1].address)'
      BY <1>15 DEF FoundOf
    <3>2. x[2] \in byAddress[x[1].address].relays
      BY <1>17, <3>1 DEF FoundOn
    <3> QED BY <3>1, <3>2
  <2>2. ASSUME NEW id \in Objects', id[1] = current', NEW x \in FoundOf(id[2])'
        PROVE  x[2] \in notes'[id].relays
    <3>1. id \in ids
      BY <1>1, <1>12, <2>2
    <3>2. id[2] \in Addresses /\ notes'[id] = byAddress[id[2]]
      BY <1>9, <3>1
    <3>3. x \in found' /\ x[1].address = id[2]
      BY <2>2 DEF FoundOf
    <3> QED BY <2>1, <3>2, <3>3
  <2> QED BY <1>1, <1>13, <2>1, <2>2 DEF MissingAreDeleted
<1> QED BY <1>4, <1>5, <1>10, <1>11, <1>18, <1>19 DEF AdvertInv

-----------------------------------------------------------------------------
(* Deletions *)

\* What deletions leave alone.
LEMMA DeletingOK ==
    ASSUME AdvertInv, UNCHANGED <<begun, loading, answers, publish, current, found>>,
           held' \in [Relays -> {versions \in SUBSET Versions : IsFiniteSet(versions)}]
    PROVE  /\ RelaysOK' /\ LoadsOK'
           /\ \A a : FoundOf(a)' = FoundOf(a) /\ FoundOn(a)' = FoundOn(a)
BY DEF AdvertInv, RelaysOK, LoadsOK, FoundOf, FoundOn

\* A deletion begins, is signed or hears from a relay: the notes stay.
LEMMA DeletionGoesOn ==
    ASSUME AdvertInv, UNCHANGED <<notes, list, current, found, deleted, begun, loading>>,
           \A a : FoundOf(a)' = FoundOf(a) /\ FoundOn(a)' = FoundOn(a),
           deletion' \in [Deletions -> Deletion], NEW d \in Deletions,
           \A e \in Deletions : e # d => deletion'[e] = deletion[e],
           deletion'[d].stage # "none", deletion'[d].note \in Objects,
           deletion'[d].left # {} => deletion'[d].stage = "publishing",
           deletion[d].stage = "none" \/ deletion'[d].note = deletion[d].note,
           deletion'[d].stage = "publishing" =>
              deletion'[d].asked = IF deletion[d].stage = "publishing" THEN deletion[d].asked
                                   ELSE notes[deletion'[d].note].relays
    PROVE  ObjectsOK' /\ MadeByLoads' /\ NotesAreNewest' /\ MissingAreDeleted'
<1>1. \A id : id \in Objects <=> id \in list \/ \E e \in Deletions : deletion[e].stage # "none" /\ deletion[e].note = id
  BY InReferred DEF Objects
<1>2. \A id : id \in Objects' <=> id \in list' \/ \E e \in Deletions : deletion'[e].stage # "none" /\ deletion'[e].note = id
  BY DEF Objects, Referred
<1>3. Objects' = Objects
  <2>1. ASSUME NEW id \in Objects PROVE id \in Objects'
    BY <1>1, <1>2
  <2>2. ASSUME NEW id \in Objects' PROVE id \in Objects
    BY <1>1, <1>2
  <2> QED BY <2>1, <2>2
<1>4. Objects \subseteq Ids
  BY <1>1 DEF AdvertInv, ObjectsOK
<1>5. ObjectsOK'
  BY <1>3, <1>4 DEF AdvertInv, ObjectsOK
<1>6. MadeByLoads'
  BY <1>3 DEF AdvertInv, MadeByLoads
<1>7. ASSUME deletion'[d].stage = "publishing", deletion[d].stage = "publishing"
      PROVE  deletion'[d].note = deletion[d].note /\ deletion'[d].asked = deletion[d].asked
  BY <1>7
<1>8. NotesAreNewest'
  <2>1. ASSUME NEW e \in Deletions, deletion'[e].stage = "publishing", deletion'[e].note[1] = current
        PROVE  deletion'[e].asked \subseteq FoundOn(deletion'[e].note[2])
    <3>1. CASE e # d \/ deletion[d].stage = "publishing"
      BY <2>1, <3>1, <1>7 DEF AdvertInv, NotesAreNewest
    <3>2. CASE e = d /\ deletion[d].stage # "publishing"
      BY <2>1, <3>2 DEF AdvertInv, NotesAreNewest
    <3> QED BY <3>1, <3>2
  <2> QED BY <1>3, <2>1 DEF AdvertInv, NotesAreNewest
<1>9. MissingAreDeleted'
  <2>1. ASSUME NEW e \in Deletions, deletion'[e].stage = "publishing", deletion'[e].note[1] = current,
               NEW x \in FoundOf(deletion'[e].note[2])
        PROVE  x[2] \in deletion'[e].asked \/ <<deletion'[e].note, x[2]>> \in deleted
    <3>1. CASE e # d \/ deletion[d].stage = "publishing"
      BY <2>1, <3>1, <1>7 DEF AdvertInv, MissingAreDeleted
    <3>2. CASE e = d /\ deletion[d].stage # "publishing"
      BY <2>1, <3>2 DEF AdvertInv, MissingAreDeleted
    <3> QED BY <3>1, <3>2
  <2> QED BY <1>3, <2>1 DEF AdvertInv, MissingAreDeleted
<1> QED BY <1>5, <1>6, <1>8, <1>9

LEMMA DeletionStepsOK ==
    ASSUME AdvertInv, NEW d \in Deletions,
           \/ \E id \in list : DeleteAdvertNote(d, id)
           \/ DeletionSigned(d)
           \/ \E r \in Relays : DeletionAnswered(d, r)
    PROVE  AdvertInv'
<1> DEFINE old == deletion[d]
           new == deletion'[d]
<1>1. /\ UNCHANGED <<begun, loading, answers, publish, current, found, notes, list, deleted>>
  BY DEF DeleteAdvertNote, DeletionSigned, DeletionAnswered
<1>2. held \in [Relays -> {versions \in SUBSET Versions : IsFiniteSet(versions)}]
  BY DEF AdvertInv, RelaysOK
<1>3. /\ deletion \in [Deletions -> Deletion] /\ old \in Deletion
      /\ \A e \in Deletions : deletion[e].stage # "none" => deletion[e].note \in Objects
      /\ \A id \in list : id \in Objects /\ id \in Ids
      /\ \A id \in Objects : notes[id] \in Note /\ notes[id].relays \subseteq Relays
  BY InReferred DEF AdvertInv, ObjectsOK, Objects, Note
<1>4. /\ old.stage \in Stages /\ old.note \in Ids \cup {NoNote} /\ old.button \in BOOLEAN
      /\ old.asked \subseteq Relays /\ old.left \subseteq Relays /\ old.accepted \subseteq Relays
  BY <1>3 DEF Deletion
<1> DEFINE Goes ==
         /\ held' \in [Relays -> {versions \in SUBSET Versions : IsFiniteSet(versions)}]
         /\ deletion' \in [Deletions -> Deletion]
         /\ \A e \in Deletions : e # d => deletion'[e] = deletion[e]
         /\ new.stage # "none" /\ new.note \in Objects
         /\ new.left # {} => new.stage = "publishing"
         /\ old.stage = "none" \/ new.note = old.note
         /\ new.stage = "publishing" => new.asked = IF old.stage = "publishing" THEN old.asked
                                                    ELSE notes[new.note].relays
<1>5. ASSUME NEW id \in list, DeleteAdvertNote(d, id) PROVE Goes
  <2> DEFINE made == [NoDeletion EXCEPT !.stage = "signing", !.note = id, !.button = TRUE]
  <2>1. NoDeletion \in Deletion /\ NoDeletion.left = {}
    BY DEF NoDeletion, Deletion, Stages
  <2>2. made \in Deletion /\ made.stage = "signing" /\ made.note = id /\ made.left = {}
    BY <1>3, <2>1 DEF Deletion, Stages
  <2> HIDE DEF made
  <2>3. deletion' = [deletion EXCEPT ![d] = made] /\ held' = held /\ old.stage = "none"
    BY <1>5 DEF DeleteAdvertNote, made
  <2> QED BY <1>2, <1>3, <2>2, <2>3
<1>6. ASSUME DeletionSigned(d) PROVE Goes
  <2> DEFINE relays == notes[old.note].relays
             made == [old EXCEPT !.stage = "publishing", !.asked = relays, !.left = relays]
  <2>1. deletion' = [deletion EXCEPT ![d] = made] /\ held' = held /\ old.stage = "signing"
    BY <1>3, <1>6 DEF DeletionSigned
  <2>2. relays \subseteq Relays /\ old.note \in Objects
    BY <1>3, <2>1
  <2>3. made \in Deletion /\ made.stage = "publishing" /\ made.note = old.note /\ made.asked = relays
    <3> HIDE DEF relays
    <3> QED BY <1>3, <1>4, <2>2 DEF Deletion, Stages
  <2> HIDE DEF made
  <2> QED BY <1>2, <1>3, <2>1, <2>2, <2>3
<1>7. ASSUME NEW r \in Relays, DeletionAnswered(d, r) PROVE Goes
  <2>1. PICK removes \in BOOLEAN, ok \in BOOLEAN :
         /\ held' = IF removes
                    THEN [held EXCEPT ![r] = {v \in @ : ~v.own \/ v.address # deletion[d].note[2]}]
                    ELSE held
         /\ deletion' = [deletion EXCEPT ![d].left = @ \ {r},
                                         ![d].accepted = IF ok THEN @ \cup {r} ELSE @]
    BY <1>7 DEF DeletionAnswered
  <2> DEFINE made == [old EXCEPT !.left = @ \ {r}, !.accepted = IF ok THEN @ \cup {r} ELSE @]
             kept == {v \in held[r] : ~v.own \/ v.address # deletion[d].note[2]}
  <2>2. deletion' = [deletion EXCEPT ![d] = made]
    BY <1>3, <2>1
  <2>3. held[r] \subseteq Versions /\ IsFiniteSet(held[r])
    BY <1>2
  <2>4. kept \subseteq Versions /\ IsFiniteSet(kept)
    <3>1. kept \subseteq held[r]
      OBVIOUS
    <3> HIDE DEF kept
    <3> QED BY <2>3, <3>1, FS_Subset
  <2>5. held' \in [Relays -> {versions \in SUBSET Versions : IsFiniteSet(versions)}]
    <3>1. held' = [held EXCEPT ![r] = kept] \/ held' = held
      BY <2>1
    <3> HIDE DEF kept
    <3> QED BY <1>2, <2>4, <3>1
  <2>6. made \in Deletion /\ made.stage = old.stage /\ made.note = old.note /\ made.asked = old.asked
    BY <1>3, <1>4 DEF Deletion
  <2>7. old.stage = "publishing"
    BY <1>7 DEF DeletionAnswered, AdvertInv, ObjectsOK
  <2> HIDE DEF made, kept
  <2> QED BY <1>3, <2>2, <2>5, <2>6, <2>7
<1>8. Goes
  BY <1>5, <1>6, <1>7
<1>9. RelaysOK' /\ LoadsOK' /\ \A a : FoundOf(a)' = FoundOf(a) /\ FoundOn(a)' = FoundOn(a)
  BY <1>1, <1>8, DeletingOK
<1>10. ObjectsOK' /\ MadeByLoads' /\ NotesAreNewest' /\ MissingAreDeleted'
  BY <1>1, <1>8, <1>9, DeletionGoesOn
<1> QED BY <1>9, <1>10 DEF AdvertInv

\* A deletion is over: the notes that nobody refers to any more go.
LEMMA DeletionStops ==
    ASSUME AdvertInv, NEW d \in Deletions, deletion[d].stage # "none",
           UNCHANGED <<held, begun, loading, answers, publish, current, found>>,
           deletion' \in [Deletions -> Deletion],
           deletion'[d].stage = "none" /\ deletion'[d].left = {},
           \A e \in Deletions : e # d =>
              /\ deletion'[e].stage = deletion[e].stage /\ deletion'[e].note = deletion[e].note
              /\ deletion'[e].asked = deletion[e].asked /\ deletion'[e].left = deletion[e].left,
           list' \subseteq list, deleted \subseteq deleted',
           NEW objects \in [Objects -> Note],
           notes' = [id \in Referred(list', deletion') |-> objects[id]],
           \A id \in Objects : id[1] = current =>
              /\ objects[id].at = notes[id].at
              /\ objects[id].relays \subseteq FoundOn(id[2])
              /\ \A x \in FoundOf(id[2]) : x[2] \in objects[id].relays \/ <<id, x[2]>> \in deleted',
           \A id \in list : id \notin list' =>
              \A x \in FoundOf(id[2]) : <<id, x[2]>> \in deleted'
    PROVE  AdvertInv'
<1>1. \A id : id \in Objects <=> id \in list \/ \E e \in Deletions : deletion[e].stage # "none" /\ deletion[e].note = id
  BY InReferred DEF Objects
<1>2. \A id : id \in Objects' <=> id \in list' \/ \E e \in Deletions : deletion'[e].stage # "none" /\ deletion'[e].note = id
  BY DEF Objects, Referred
<1>3. Objects' \subseteq Objects
  <2>1. ASSUME NEW id \in Objects' PROVE id \in Objects
    BY <1>1, <1>2
  <2> QED BY <2>1
<1>4. RelaysOK' /\ LoadsOK' /\ \A a : FoundOf(a)' = FoundOf(a) /\ FoundOn(a)' = FoundOn(a)
  <2>1. held' \in [Relays -> {versions \in SUBSET Versions : IsFiniteSet(versions)}]
    BY DEF AdvertInv, RelaysOK
  <2> QED BY <2>1, DeletingOK
<1>5. notes' = [id \in Objects' |-> objects[id]]
  BY DEF Objects
<1>6. ObjectsOK'
  <2>1. notes' \in [Objects' -> Note]
    BY <1>3, <1>5
  <2>2. \A e \in Deletions : /\ deletion'[e].stage # "none" => deletion'[e].note \in Ids
                             /\ deletion'[e].left # {} => deletion'[e].stage = "publishing"
    BY DEF AdvertInv, ObjectsOK
  <2> QED BY <2>1, <2>2 DEF AdvertInv, ObjectsOK
<1>7. MadeByLoads'
  BY <1>3 DEF AdvertInv, MadeByLoads
<1>8. \A e \in Deletions : deletion'[e].stage = "publishing" =>
         /\ deletion[e].stage = "publishing"
         /\ deletion'[e].note = deletion[e].note /\ deletion'[e].asked = deletion[e].asked
  OBVIOUS
<1>9. NotesAreNewest'
  <2>1. ASSUME NEW id \in Objects', id[1] = current
        PROVE  /\ \E x \in FoundOf(id[2]) : notes'[id].at = x[1].at
               /\ \A x \in FoundOf(id[2]) : x[1].at <= notes'[id].at
               /\ notes'[id].relays \subseteq FoundOn(id[2])
    <3>1. id \in Objects /\ notes'[id] = objects[id]
      BY <1>3, <1>5
    <3> QED BY <2>1, <3>1 DEF AdvertInv, NotesAreNewest
  <2>2. ASSUME NEW e \in Deletions, deletion'[e].stage = "publishing", deletion'[e].note[1] = current
        PROVE  deletion'[e].asked \subseteq FoundOn(deletion'[e].note[2])
    BY <1>8, <2>2 DEF AdvertInv, NotesAreNewest
  <2> QED BY <1>4, <2>1, <2>2 DEF NotesAreNewest
<1>10. MissingAreDeleted'
  <2>1. ASSUME NEW id \in Objects', id[1] = current, NEW x \in FoundOf(id[2])
        PROVE  x[2] \in notes'[id].relays \/ <<id, x[2]>> \in deleted'
    <3>1. id \in Objects /\ notes'[id] = objects[id]
      BY <1>3, <1>5
    <3> QED BY <2>1, <3>1
  <2>2. ASSUME NEW e \in Deletions, deletion'[e].stage = "publishing", deletion'[e].note[1] = current,
               NEW x \in FoundOf(deletion'[e].note[2])
        PROVE  x[2] \in deletion'[e].asked \/ <<deletion'[e].note, x[2]>> \in deleted'
    BY <1>8, <2>2 DEF AdvertInv, MissingAreDeleted
  <2>3. ASSUME NEW x \in found, <<current, x[1].address>> \notin list'
        PROVE  <<<<current, x[1].address>>, x[2]>> \in deleted'
    <3> DEFINE id == <<current, x[1].address>>
    <3>1. x \in FoundOf(id[2])
      BY DEF FoundOf
    <3>2. CASE id \in list
      <4> HIDE DEF id
      <4>1. id \notin list'
        BY <2>3 DEF id
      <4>2. <<id, x[2]>> \in deleted'
        BY <3>1, <3>2, <4>1
      <4> QED BY <4>2 DEF id
    <3>3. CASE id \notin list
      BY <3>3 DEF AdvertInv, MissingAreDeleted
    <3> QED BY <3>2, <3>3
  <2> QED BY <1>4, <2>1, <2>2, <2>3 DEF MissingAreDeleted
<1> QED BY <1>4, <1>6, <1>7, <1>9, <1>10 DEF AdvertInv

LEMMA DeletionEndsOK ==
    ASSUME AdvertInv, NEW d \in Deletions, DeletionRefused(d) \/ DeletionEnds(d)
    PROVE  AdvertInv'
<1>1. /\ deletion \in [Deletions -> Deletion] /\ notes \in [Objects -> Note] /\ deletion[d] \in Deletion
      /\ \A e \in Deletions : deletion[e].stage # "none" => deletion[e].note \in Objects
      /\ NotesAreNewest /\ MissingAreDeleted /\ MadeByLoads
  BY InReferred DEF AdvertInv, ObjectsOK, Objects
<1>2. NoDeletion \in Deletion /\ NoDeletion.stage = "none" /\ NoDeletion.left = {}
  BY DEF NoDeletion, Deletion, Stages
<1>3. CASE DeletionRefused(d)
  <2>1. /\ deletion[d].stage # "none" /\ deletion' = [deletion EXCEPT ![d] = NoDeletion]
        /\ notes' = [id \in Referred(list, deletion') |-> notes[id]]
        /\ UNCHANGED <<held, begun, loading, answers, list, publish, current, found, deleted>>
    BY <1>3 DEF DeletionRefused, Forget
  <2>2. /\ deletion' \in [Deletions -> Deletion]
        /\ deletion'[d].stage = "none" /\ deletion'[d].left = {}
        /\ \A e \in Deletions : e # d => deletion'[e] = deletion[e]
    BY <1>1, <1>2, <2>1
  <2>3. \A id \in Objects : id[1] = current =>
          /\ notes[id].relays \subseteq FoundOn(id[2])
          /\ \A x \in FoundOf(id[2]) : x[2] \in notes[id].relays \/ <<id, x[2]>> \in deleted
    BY <1>1 DEF NotesAreNewest, MissingAreDeleted
  <2> QED BY <1>1, <2>1, <2>2, <2>3, DeletionStops
<1>4. CASE DeletionEnds(d)
  <2> DEFINE note == deletion[d].note
             accepted == deletion[d].accepted
             asked == deletion[d].asked
             objects == IF accepted = {} THEN notes
                        ELSE [notes EXCEPT ![note].relays = asked \ accepted]
  <2>1. /\ deletion[d].stage = "publishing"
        /\ list' = IF accepted = {} THEN list ELSE {id \in list : StillListed(id, note, objects)}
        /\ deleted' = deleted \cup {<<note, r>> : r \in accepted}
        /\ deletion' = Rendered([deletion EXCEPT ![d] = NoDeletion])
        /\ notes' = [id \in Referred(list', deletion') |-> objects[id]]
        /\ UNCHANGED <<held, begun, loading, answers, publish, current, found>>
    BY <1>4 DEF DeletionEnds, Forget
  <2>2. note \in Objects /\ notes[note] \in Note /\ asked \subseteq Relays
    BY <1>1, <2>1 DEF Deletion
  <2>3. /\ objects \in [Objects -> Note]
        /\ \A id \in Objects : objects[id].at = notes[id].at
        /\ \A id \in Objects : id # note \/ accepted = {} => objects[id] = notes[id]
        /\ accepted # {} => objects[note].relays = asked \ accepted
    <3>1. CASE accepted = {}
      BY <1>1, <3>1
    <3>2. CASE accepted # {}
      <4> DEFINE made == [notes[note] EXCEPT !.relays = asked \ accepted]
      <4>1. made \in Note /\ made.at = notes[note].at /\ made.relays = asked \ accepted
        <5>1. asked \ accepted \subseteq Relays
          BY <2>2
        <5> HIDE DEF asked, accepted
        <5> QED BY <2>2, <5>1 DEF Note
      <4>2. objects = [notes EXCEPT ![note] = made]
        BY <1>1, <2>2, <3>2
      <4> HIDE DEF objects, made
      <4> QED BY <1>1, <2>2, <3>2, <4>1, <4>2
    <3> QED BY <3>1, <3>2
  <2> HIDE DEF objects
  <2>4. /\ deletion' \in [Deletions -> Deletion]
        /\ deletion'[d].stage = "none" /\ deletion'[d].left = {}
        /\ \A e \in Deletions : e # d =>
              /\ deletion'[e].stage = deletion[e].stage /\ deletion'[e].note = deletion[e].note
              /\ deletion'[e].asked = deletion[e].asked /\ deletion'[e].left = deletion[e].left
    <3> DEFINE ds == [deletion EXCEPT ![d] = NoDeletion]
    <3>1. ds \in [Deletions -> Deletion] /\ ds[d] = NoDeletion /\ \A e \in Deletions : e # d => ds[e] = deletion[e]
      BY <1>1, <1>2
    <3>2. deletion' = [e \in Deletions |-> [ds[e] EXCEPT !.button = FALSE]]
      BY <2>1 DEF Rendered
    <3> HIDE DEF ds
    <3>3. \A e \in Deletions : /\ deletion'[e] \in Deletion
                               /\ deletion'[e].stage = ds[e].stage /\ deletion'[e].note = ds[e].note
                               /\ deletion'[e].asked = ds[e].asked /\ deletion'[e].left = ds[e].left
      BY <3>1, <3>2 DEF Deletion
    <3> QED BY <1>2, <3>1, <3>2, <3>3
  <2>5. ASSUME NEW id \in Objects, id[1] = current
        PROVE  /\ objects[id].relays \subseteq FoundOn(id[2])
               /\ \A x \in FoundOf(id[2]) : x[2] \in objects[id].relays \/ <<id, x[2]>> \in deleted'
    <3>1. CASE id # note \/ accepted = {}
      BY <1>1, <2>1, <2>3, <2>5, <3>1 DEF NotesAreNewest, MissingAreDeleted
    <3>2. CASE id = note /\ accepted # {}
      <4>1. asked \subseteq FoundOn(id[2])
        BY <1>1, <2>1, <2>5, <3>2 DEF NotesAreNewest
      <4>2. ASSUME NEW x \in FoundOf(id[2]) PROVE x[2] \in asked \/ <<id, x[2]>> \in deleted
        BY <1>1, <2>1, <2>5, <3>2 DEF MissingAreDeleted
      <4>3. \A r \in accepted : <<id, r>> \in deleted'
        BY <2>1, <3>2
      <4> HIDE DEF note, accepted, asked
      <4> QED BY <2>1, <2>3, <3>2, <4>1, <4>2, <4>3
    <3> QED BY <3>1, <3>2
  <2>6. ASSUME NEW id \in list, id \notin list', NEW x \in FoundOf(id[2])
        PROVE  <<id, x[2]>> \in deleted'
    <3>1. objects[id].relays = {}
      BY <2>1, <2>6 DEF StillListed
    <3>2. id \in Objects /\ id[1] = current
      BY <1>1, InReferred DEF Objects, MadeByLoads
    <3> QED BY <2>5, <3>1, <3>2
  <2>7. list' \subseteq list /\ deleted \subseteq deleted' /\ deletion[d].stage # "none"
    BY <2>1
  <2> HIDE DEF note, accepted, asked
  <2> QED BY <2>1, <2>3, <2>4, <2>5, <2>6, <2>7, DeletionStops
<1> QED BY <1>3, <1>4

-----------------------------------------------------------------------------
(* The theorems *)

LEMMA AdvertNextOK == AdvertInv /\ [AdvertNext]_advertVars => AdvertInv'
<1> SUFFICES ASSUME AdvertInv, [AdvertNext]_advertVars PROVE AdvertInv'
  OBVIOUS
<1>1. CASE LoadOverview
  BY <1>1, LoadOverviewOK
<1>2. CASE LoadStep
  BY <1>2, LoadEndsOK, RelayAnswersOK, PublicationEndsOK DEF LoadStep
<1>3. CASE \/ \E v \in Versions : PublishAdvert(v)
           \/ \E relays \in SUBSET Relays : AdvertSigned(relays)
           \/ AdvertRefused
           \/ \E r \in Relays : AdvertAnswered(r)
  BY <1>3, PublicationStepsOK
<1>4. ASSUME NEW d \in Deletions,
             \/ \E id \in list : DeleteAdvertNote(d, id)
             \/ DeletionSigned(d) \/ DeletionRefused(d)
             \/ \E r \in Relays : DeletionAnswered(d, r)
             \/ DeletionEnds(d)
      PROVE  AdvertInv'
  BY <1>4, DeletionStepsOK, DeletionEndsOK
<1>5. CASE UNCHANGED advertVars
  <2>1. SameNotes /\ RelaysOK' /\ UNCHANGED <<begun, loading, answers>>
    BY <1>5 DEF advertVars, SameNotes, AdvertInv, RelaysOK
  <2> QED BY <2>1, PublishingOK
<1> QED BY <1>1, <1>2, <1>3, <1>4, <1>5 DEF AdvertNext

\* Notes of ended loads, their newest times and their relays: what loads,
\* publications and deletions of the Hub page keep, however they overlap.
THEOREM AdvertInvariant == AdvertSpec => []AdvertInv
<1> QED BY AdvertInitOK, AdvertNextOK, PTL DEF AdvertSpec

\* The Hub page lists the newest own version of every advert it was given
\* (upsertAdvertNote), and no relay that did not return it.
THEOREM NewestIsShown == AdvertSpec => []NewestShown
<1>1. AdvertInv => NewestShown
  <2>1. \A id \in list : id \in Objects
    BY InReferred DEF Objects
  <2> QED BY <2>1 DEF AdvertInv, MadeByLoads, NotesAreNewest, NewestShown
<1> QED BY <1>1, AdvertInvariant, PTL

\* A note leaves the list, and a relay leaves the note, only by a deletion that
\* this relay accepted (deleteAdvertNote).
THEOREM OnlyDeletedAreGone == AdvertSpec => []GoneOnlyWhenDeleted
<1>1. AdvertInv => GoneOnlyWhenDeleted
  <2> SUFFICES ASSUME AdvertInv, NEW x \in found
               PROVE  LET id == <<current, x[1].address>>
                      IN  IF id \in list THEN x[2] \in notes[id].relays \/ <<id, x[2]>> \in deleted
                                         ELSE <<id, x[2]>> \in deleted
    BY DEF GoneOnlyWhenDeleted
  <2> DEFINE id == <<current, x[1].address>>
  <2>1. x \in FoundOf(id[2]) /\ id[1] = current
    BY DEF FoundOf
  <2>2. CASE id \in list
    <3> HIDE DEF id
    <3>1. id \in Objects
      BY <2>2, InReferred DEF Objects
    <3>2. x[2] \in notes[id].relays \/ <<id, x[2]>> \in deleted
      BY <2>1, <3>1 DEF AdvertInv, MissingAreDeleted
    <3> QED BY <2>2, <3>2 DEF id
  <2>3. CASE id \notin list
    BY <2>3 DEF AdvertInv, MissingAreDeleted
  <2> QED BY <2>2, <2>3
<1> QED BY <1>1, AdvertInvariant, PTL
============================================================================
