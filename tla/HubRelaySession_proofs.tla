----------------------- MODULE HubRelaySession_proofs -----------------------
(***************************************************************************)
(* A session of the Hub page with a relay reports the relay's own verdict  *)
(* and publishes nothing late, for every number of challenges and events.  *)
(* The argument: while a session goes on there is one request or one       *)
(* answer on the wire at most, whatever the timer, the signer and the      *)
(* authentication retries do, so that the answer at hand is about the only *)
(* request that counts.                                                    *)
(***************************************************************************)
EXTENDS HubRelaySession, SequenceTheorems, TLAPS

\* What a relay sends, and what it is sent.
Heard ==
    [type : {"AUTH"}, challenge : Nat] \cup [type : {"OKAUTH"}, ok : BOOLEAN, challenge : Nat]
        \cup [type : {"OK"}, ok : BOOLEAN, reason : {"", "blocked", "restricted", "auth-required"}]
        \cup [type : {"NOTICE"}] \cup [type : {"EVENT"}, note : 1 .. Notes]

Told == [type : {"request"}] \cup [type : {"AUTH"}, challenge : Nat]

Types ==
    /\ toPage \in Seq(Heard) /\ toRelay \in Seq(Told)
    /\ mode \in {"publish", "load"} /\ socket \in {"connecting", "open", "closed"}
    /\ challenge \in Nat /\ signing \subseteq Nat /\ events \subseteq 1 .. Notes
    /\ done \in BOOLEAN /\ sent \in BOOLEAN /\ stored \in BOOLEAN

\* Positions on the wire to the page: answers to a request, and answers that grant it.
Answers(p) == {i \in DOMAIN p : p[i].type \in {"OK", "NOTICE"}}
Granted(p) == {i \in DOMAIN p : p[i].type = "OK" /\ p[i].ok}

\* A note that comes before position k.
Comes(p, k, n) == \E i \in DOMAIN p : i < k /\ p[i].type = "EVENT" /\ p[i].note = n

\* One request or one answer is under way, none unless the page has sent one.
OneExchange ==
    /\ \A i, j \in Requests(toRelay) : i = j
    /\ \A i, j \in Answers(toPage) : i = j
    /\ Requests(toRelay) = {} \/ Answers(toPage) = {}
    /\ ~sent => Requests(toRelay) = {} /\ Answers(toPage) = {}

\* The event is stored exactly while the answer that says so is under way; the notes
\* that a load has not received yet come before the answer that completes it.
GrantOnItsWay ==
    /\ \A k \in Granted(toPage) :
          IF mode = "publish" THEN stored
          ELSE \A n \in 1 .. Notes : n \in events \/ Comes(toPage, k, n)
    /\ Granted(toPage) = {} => ~stored

\* A socket that has never opened has carried nothing.
Open ==
    /\ socket # "closed"
    /\ socket = "connecting" => toRelay = <<>> /\ toPage = <<>>

Live == Open /\ OneExchange /\ GrantOnItsWay

\* After the relay's verdict nothing on the wire can change what it was.
Settled ==
    /\ done /\ socket = "closed"
    /\ Requests(toRelay) = {}
    /\ VerdictIsTrue

Inv == Types /\ (~done => Live) /\ (verdict = "relay" => Settled)

-----------------------------------------------------------------------------
(* The wires *)

\* What is appended comes last.
LEMMA Appended ==
    ASSUME NEW S, NEW s \in Seq(S), NEW x \in S
    PROVE  /\ Append(s, x) \in Seq(S)
           /\ DOMAIN Append(s, x) = DOMAIN s \cup {Len(s) + 1}
           /\ \A i \in DOMAIN s : Append(s, x)[i] = s[i]
           /\ Append(s, x)[Len(s) + 1] = x
           /\ Len(s) + 1 \notin DOMAIN s
  BY LenProperties

\* What is taken from the front moves everything by one.
LEMMA Taken ==
    ASSUME NEW S, NEW s \in Seq(S), s # <<>>
    PROVE  /\ Head(s) = s[1] /\ 1 \in DOMAIN s /\ Head(s) \in S
           /\ Tail(s) \in Seq(S)
           /\ DOMAIN s \subseteq Nat \ {0} /\ DOMAIN Tail(s) \subseteq Nat \ {0}
           /\ \A i \in DOMAIN Tail(s) : i + 1 \in DOMAIN s /\ Tail(s)[i] = s[i + 1]
           /\ \A i \in DOMAIN s : i # 1 => i - 1 \in DOMAIN Tail(s)
<1>1. Len(s) \in Nat \ {0} /\ DOMAIN s = 1 .. Len(s)
  BY LenProperties, EmptySeq
<1>2. Tail(s) \in Seq(S) /\ Len(Tail(s)) = Len(s) - 1 /\ DOMAIN Tail(s) = 1 .. Len(s) - 1
  BY <1>1, HeadTailProperties, LenProperties
<1>3. QED
  BY <1>1, <1>2, HeadTailProperties

LEMMA RequestsAppended ==
    ASSUME NEW s \in Seq(Told), NEW x \in Told
    PROVE  Requests(Append(s, x)) =
              Requests(s) \cup (IF x.type = "request" THEN {Len(s) + 1} ELSE {})
  BY Appended DEF Requests

LEMMA HeardAppended ==
    ASSUME NEW p \in Seq(Heard), NEW x \in Heard
    PROVE  /\ Answers(Append(p, x)) =
                 Answers(p) \cup (IF x.type \in {"OK", "NOTICE"} THEN {Len(p) + 1} ELSE {})
           /\ Granted(Append(p, x)) =
                 Granted(p) \cup (IF x.type = "OK" /\ x.ok THEN {Len(p) + 1} ELSE {})
  BY Appended DEF Answers, Granted

\* The one request is gone once it is read.
LEMMA RequestTaken ==
    ASSUME NEW s \in Seq(Told), s # <<>>
    PROVE  /\ Head(s).type = "request" /\ (\A i, j \in Requests(s) : i = j) => Requests(Tail(s)) = {}
           /\ (\A i, j \in Requests(s) : i = j) => \A i, j \in Requests(Tail(s)) : i = j
           /\ Head(s).type = "request" => Requests(s) # {}
           /\ Requests(s) = {} => Requests(Tail(s)) = {}
<1>1. /\ Head(s) = s[1] /\ 1 \in DOMAIN s
      /\ DOMAIN s \subseteq Nat \ {0} /\ DOMAIN Tail(s) \subseteq Nat \ {0}
      /\ \A i \in DOMAIN Tail(s) : i + 1 \in DOMAIN s /\ Tail(s)[i] = s[i + 1]
  BY Taken
<1>2. \A i \in Requests(Tail(s)) : i \in Nat \ {0} /\ i + 1 \in Requests(s)
  BY <1>1 DEF Requests
<1>3. Head(s).type = "request" => 1 \in Requests(s)
  BY <1>1 DEF Requests
<1>4. QED
  BY <1>2, <1>3

\* The positions of what is left are those of before, less one.
LEMMA HeardTaken ==
    ASSUME NEW p \in Seq(Heard), p # <<>>
    PROVE  /\ Answers(Tail(p)) = {i \in Nat \ {0} : i + 1 \in Answers(p)}
           /\ Granted(Tail(p)) = {i \in Nat \ {0} : i + 1 \in Granted(p)}
           /\ Answers(p) \subseteq Nat \ {0} /\ Granted(p) \subseteq Answers(p)
           /\ \A k \in Nat : \A n : Comes(p, k + 1, n) =>
                 Comes(Tail(p), k, n) \/ (Head(p).type = "EVENT" /\ Head(p).note = n)
<1>1. /\ DOMAIN p \subseteq Nat \ {0} /\ DOMAIN Tail(p) \subseteq Nat \ {0}
      /\ \A i \in DOMAIN Tail(p) : i + 1 \in DOMAIN p /\ Tail(p)[i] = p[i + 1]
      /\ \A i \in DOMAIN p : i # 1 => i - 1 \in DOMAIN Tail(p)
  BY Taken
<1>2. \A i \in Nat \ {0} : i \in DOMAIN Tail(p) <=> i + 1 \in DOMAIN p
  BY <1>1
<1>3. ASSUME NEW k \in Nat, NEW n, Comes(p, k + 1, n)
      PROVE  Comes(Tail(p), k, n) \/ (Head(p).type = "EVENT" /\ Head(p).note = n)
  <2>1. PICK i \in DOMAIN p : i < k + 1 /\ p[i].type = "EVENT" /\ p[i].note = n
    BY <1>3 DEF Comes
  <2>2. CASE i = 1
    BY <2>1, <2>2, Taken
  <2>3. CASE i # 1
    <3>1. /\ i - 1 \in DOMAIN Tail(p) /\ Tail(p)[i - 1] = p[(i - 1) + 1]
          /\ i \in Nat /\ i - 1 < k
      BY <1>1, <2>1, <2>3
    <3>2. p[(i - 1) + 1] = p[i]
      BY <3>1
    <3>3. QED
      BY <2>1, <3>1, <3>2 DEF Comes
  <2>4. QED
    BY <2>2, <2>3
<1>4. QED
  BY <1>1, <1>2, <1>3 DEF Answers, Granted

LEMMA Single ==
    ASSUME NEW S, NEW x \in S
    PROVE  <<x>> \in Seq(S) /\ Len(<<x>>) = 1 /\ <<x>>[1] = x
  OBVIOUS

\* The answer to a request: events and a final message.
LEMMA RepliesOK ==
    ASSUME NEW n \in 0 .. Notes, NEW end \in Heard
    PROVE  /\ Replies(n, end) \in Seq(Heard) /\ Len(Replies(n, end)) = n + 1
           /\ \A i \in 1 .. n : Replies(n, end)[i].type = "EVENT" /\ Replies(n, end)[i].note = i
           /\ Replies(n, end)[n + 1] = end
<1> DEFINE es == [i \in 1 .. n |-> [type |-> "EVENT", note |-> i]]
<1>1. n \in Nat /\ n <= Notes /\ Notes \in Nat
  BY SessionAssumption
<1>2. es \in [1 .. n -> Heard]
  <2>1. ASSUME NEW i \in 1 .. n PROVE [type |-> "EVENT", note |-> i] \in Heard
    <3>1. i \in 1 .. Notes
      BY <1>1
    <3>2. QED
      BY <3>1 DEF Heard
  <2>2. QED
    BY <2>1
<1>3. es \in Seq(Heard) /\ Len(es) = n
  BY <1>1, <1>2, SeqDef, LenProperties
<1>4. <<end>> \in Seq(Heard) /\ Len(<<end>>) = 1 /\ <<end>>[1] = end
  BY Single
<1>5. Replies(n, end) = es \o <<end>>
  BY DEF Replies
<1>6. \A i \in 1 .. n : es[i].type = "EVENT" /\ es[i].note = i
  OBVIOUS
<1> HIDE DEF es
<1>7. /\ Replies(n, end) \in Seq(Heard) /\ Len(Replies(n, end)) = n + 1
      /\ \A i \in 1 .. n + 1 : Replies(n, end)[i] = IF i <= n THEN es[i] ELSE <<end>>[i - n]
  BY <1>3, <1>4, <1>5, ConcatProperties
<1>8. Replies(n, end)[n + 1] = end
  BY <1>1, <1>4, <1>7
<1>9. \A i \in 1 .. n : Replies(n, end)[i].type = "EVENT" /\ Replies(n, end)[i].note = i
  BY <1>1, <1>6, <1>7
<1>10. QED
  BY <1>7, <1>8, <1>9

LEMMA RepliesAppended ==
    ASSUME NEW p \in Seq(Heard), NEW n \in 0 .. Notes, NEW end \in Heard,
           end.type = "OK", Answers(p) = {}
    PROVE  /\ p \o Replies(n, end) \in Seq(Heard)
           /\ \A i, j \in Answers(p \o Replies(n, end)) : i = j
           /\ Granted(p \o Replies(n, end)) = IF end.ok THEN {Len(p) + n + 1} ELSE {}
           /\ \A i \in 1 .. n : Comes(p \o Replies(n, end), Len(p) + n + 1, i)
<1> DEFINE rs == Replies(n, end)
           q  == p \o rs
<1>1. Len(p) \in Nat /\ DOMAIN p = 1 .. Len(p) /\ n \in Nat
  BY LenProperties
<1>a. rs \in Seq(Heard) /\ Len(rs) = n + 1
  BY RepliesOK
<1>b. \A i \in 1 .. n : rs[i].type = "EVENT" /\ rs[i].note = i
  BY RepliesOK
<1>c. rs[n + 1] = end
  BY RepliesOK
<1> HIDE DEF rs
<1>2. /\ q \in Seq(Heard) /\ Len(q) = Len(p) + n + 1
      /\ \A i \in 1 .. Len(p) + n + 1 :
            q[i] = IF i <= Len(p) THEN p[i] ELSE rs[i - Len(p)]
  <2>1. Len(p) + Len(rs) = Len(p) + n + 1
    BY <1>1, <1>a
  <2>2. /\ q \in Seq(Heard) /\ Len(q) = Len(p) + Len(rs)
        /\ \A i \in 1 .. Len(p) + Len(rs) :
              q[i] = IF i <= Len(p) THEN p[i] ELSE rs[i - Len(p)]
    BY <1>a, ConcatProperties
  <2> HIDE DEF q
  <2>3. QED
    BY <2>1, <2>2
<1>3. DOMAIN q = 1 .. Len(p) + n + 1
  BY <1>2, LenProperties
<1> HIDE DEF q
<1>4. \A i \in 1 .. Len(p) : q[i].type \notin {"OK", "NOTICE"}
  BY <1>1, <1>2 DEF Answers
<1>5. \A i \in 1 .. n : /\ Len(p) + i \in DOMAIN q /\ Len(p) + i < Len(p) + n + 1
                        /\ q[Len(p) + i].type = "EVENT" /\ q[Len(p) + i].note = i
  <2>1. ASSUME NEW i \in 1 .. n
        PROVE  /\ Len(p) + i \in DOMAIN q /\ Len(p) + i < Len(p) + n + 1
               /\ q[Len(p) + i] = rs[i]
    <3>1. (Len(p) + i) - Len(p) = i /\ ~(Len(p) + i <= Len(p)) /\ Len(p) + i \in 1 .. Len(p) + n + 1
      BY <1>1
    <3>2. QED
      BY <1>1, <1>2, <1>3, <3>1
  <2>2. QED
    BY <1>b, <2>1
<1>6. q[Len(p) + n + 1] = end
  <2>1. (Len(p) + n + 1) - Len(p) = n + 1 /\ Len(p) + n + 1 \in 1 .. Len(p) + n + 1
        /\ ~(Len(p) + n + 1 <= Len(p))
    BY <1>1
  <2>2. QED
    BY <1>2, <1>c, <2>1
<1>7. \A i \in DOMAIN q : i \in 1 .. Len(p) \/ i = Len(p) + n + 1 \/ \E m \in 1 .. n : i = Len(p) + m
  <2>1. ASSUME NEW i \in 1 .. Len(p) + n + 1, i \notin 1 .. Len(p), i # Len(p) + n + 1
        PROVE  i - Len(p) \in 1 .. n /\ i = Len(p) + (i - Len(p))
    BY <1>1, <2>1
  <2>2. QED
    BY <1>3, <2>1
<1>8. Answers(q) \subseteq {Len(p) + n + 1}
  BY <1>4, <1>5, <1>7 DEF Answers
<1>9. Granted(q) \subseteq {Len(p) + n + 1}
  BY <1>4, <1>5, <1>7 DEF Granted
<1>10. Len(p) + n + 1 \in DOMAIN q
  BY <1>1, <1>3
<1>11. Granted(q) = IF end.ok THEN {Len(p) + n + 1} ELSE {}
  BY <1>6, <1>9, <1>10 DEF Granted
<1>12. \A i \in 1 .. n : Comes(q, Len(p) + n + 1, i)
  BY <1>5 DEF Comes
<1>13. QED
  BY <1>2, <1>8, <1>11, <1>12 DEF q, rs

\* Two messages that grant nothing.
LEMMA PairAppended ==
    ASSUME NEW p \in Seq(Heard), NEW x \in Heard, NEW y \in Heard
    PROVE  /\ p \o <<x, y>> \in Seq(Heard)
           /\ (x.type = "OK" => ~x.ok) /\ (y.type = "OK" => ~y.ok) =>
                 Granted(p \o <<x, y>>) = Granted(p)
           /\ Answers(p) = {} /\ (x.type = "AUTH" \/ y.type = "AUTH") =>
                 \A i, j \in Answers(p \o <<x, y>>) : i = j
<1> DEFINE q == p \o <<x, y>>
<1>1. Len(p) \in Nat /\ DOMAIN p = 1 .. Len(p)
  BY LenProperties
<1>2. <<x, y>> \in Seq(Heard) /\ Len(<<x, y>>) = 2 /\ <<x, y>>[1] = x /\ <<x, y>>[2] = y
  OBVIOUS
<1>3. /\ q \in Seq(Heard) /\ Len(q) = Len(p) + 2
      /\ \A i \in 1 .. Len(p) + 2 : q[i] = IF i <= Len(p) THEN p[i] ELSE <<x, y>>[i - Len(p)]
  BY <1>1, <1>2, ConcatProperties
<1>4. DOMAIN q = 1 .. Len(p) + 2
  BY <1>3, LenProperties
<1> HIDE DEF q
<1>5. /\ \A i \in 1 .. Len(p) : q[i] = p[i]
      /\ q[Len(p) + 1] = x /\ q[Len(p) + 2] = y
      /\ DOMAIN q = DOMAIN p \cup {Len(p) + 1, Len(p) + 2}
  BY <1>1, <1>2, <1>3, <1>4
<1>7. (x.type = "OK" => ~x.ok) /\ (y.type = "OK" => ~y.ok) => Granted(q) = Granted(p)
  BY <1>1, <1>5 DEF Granted
<1>8. Answers(p) = {} /\ (x.type = "AUTH" \/ y.type = "AUTH") => \A i, j \in Answers(q) : i = j
  BY <1>1, <1>5 DEF Answers
<1>9. QED
  BY <1>3, <1>7, <1>8 DEF q

-----------------------------------------------------------------------------
(* Types *)

LEMMA EmptyWires == <<>> \in Seq(Heard) /\ <<>> \in Seq(Told)
  OBVIOUS

LEMMA TypesInit == Init => Types
<1> SUFFICES ASSUME Init PROVE Types
  OBVIOUS
<1>1. toPage \in Seq(Heard) /\ toRelay \in Seq(Told)
  BY EmptyWires DEF Init
<1>2. mode \in {"publish", "load"} /\ socket \in {"connecting", "open", "closed"}
  BY SessionAssumption DEF Init
<1>3. challenge \in Nat /\ signing \subseteq Nat /\ events \subseteq 1 .. Notes
  BY DEF Init
<1>4. QED
  BY <1>1, <1>2, <1>3 DEF Init, Types

LEMMA SendTypes ==
    ASSUME Types, Send
    PROVE  toRelay' \in Seq(Told) /\ sent' \in BOOLEAN
<1>1. [type |-> "request"] \in Told
  BY DEF Told
<1>2. toRelay' \in Seq(Told)
  BY <1>1, Appended DEF Types, Send
<1>3. sent' \in BOOLEAN
  BY DEF Types, Send, CanSend
<1>4. QED
  BY <1>2, <1>3

LEMMA FinishTypes ==
    ASSUME Types, NEW how, NEW why, Finish(how, why)
    PROVE  done' \in BOOLEAN
  BY DEF Types, Finish

LEMMA ReceiveTypes == Types /\ Receive => Types'
<1> SUFFICES ASSUME Types, Receive PROVE Types'
  OBVIOUS
<1> DEFINE msg == Head(toPage)
<1>1. toPage' \in Seq(Heard) /\ msg \in Heard
  BY Taken DEF Types, Receive
<1>2. UNCHANGED <<mode, challenge, stored>>
  BY DEF Receive, relayVars
<1>3. OnAuth(msg) \/ OnAuthOK(msg) \/ OnVerdict(msg) \/ OnNotice(msg) \/ OnEvent(msg) \/ OnOther(msg)
  BY DEF Receive
<1> HIDE DEF msg
<1>4. (msg.type = "AUTH" => msg.challenge \in Nat) /\ (msg.type = "EVENT" => msg.note \in 1 .. Notes)
  BY <1>1 DEF Heard
<1>5. signing' \subseteq Nat /\ events' \subseteq 1 .. Notes
  <2>1. UNCHANGED signing \/ (msg.type = "AUTH" /\ signing' = signing \cup {msg.challenge})
    BY <1>3 DEF OnAuth, OnAuthOK, OnVerdict, OnNotice, OnEvent, OnOther, pageVars
  <2>2. UNCHANGED events \/ (msg.type = "EVENT" /\ events' = events \cup {msg.note})
    BY <1>3 DEF OnAuth, OnAuthOK, OnVerdict, OnNotice, OnEvent, OnOther, pageVars
  <2>3. signing' \subseteq Nat
    BY <1>4, <2>1 DEF Types
  <2>4. events' \subseteq 1 .. Notes
    BY <1>4, <2>2 DEF Types
  <2>5. QED
    BY <2>3, <2>4
<1>6. toRelay' \in Seq(Told) /\ sent' \in BOOLEAN
  <2>1. CASE Send
    BY <2>1, SendTypes
  <2>2. CASE ~Send
    BY <2>2, <1>3 DEF Types, OnAuth, OnAuthOK, OnVerdict, OnNotice, OnEvent, OnOther, pageVars,
        WaitForAuthRetry
  <2>3. QED
    BY <2>1, <2>2
<1>7. done' \in BOOLEAN
  BY <1>3 DEF Types, OnAuth, OnAuthOK, OnVerdict, OnNotice, OnEvent, OnOther, pageVars, Finish
<1>8. socket' \in {"connecting", "open", "closed"}
  BY <1>3 DEF Types, OnAuth, OnAuthOK, OnVerdict, OnNotice, OnEvent, OnOther, pageVars, HangUp
<1>9. QED
  BY <1>1, <1>2, <1>5, <1>6, <1>7, <1>8 DEF Types

\* A relay that wants authentication says so once, with a challenge or without.
LEMMA DemandHeard ==
    ASSUME Types, Demanding
    PROVE  /\ toPage' \in Seq(Heard) /\ challenge' \in Nat /\ UNCHANGED stored
           /\ Granted(toPage') = Granted(toPage)
           /\ Answers(toPage) = {} => \A i, j \in Answers(toPage') : i = j
<1> DEFINE auth == [type |-> "AUTH", challenge |-> challenge + 1]
           no   == Refusal("auth-required")
<1>1. PICK msg \in {no, [type |-> "NOTICE"]} :
         \/ challenge' = challenge + 1 /\ toPage' \in {toPage \o <<msg, auth>>, toPage \o <<auth, msg>>}
         \/ toPage' = Append(toPage, msg) /\ UNCHANGED challenge
  BY DEF Demanding
<1>2. msg \in Heard /\ (msg.type = "OK" => ~msg.ok)
  <2>1. CASE msg = no
    BY <2>1 DEF Heard, Refusal
  <2>2. CASE msg = [type |-> "NOTICE"]
    BY <2>2 DEF Heard
  <2>3. QED
    BY <2>1, <2>2
<1>3. auth \in Heard /\ auth.type = "AUTH"
  <2>1. challenge + 1 \in Nat
    BY DEF Types
  <2>2. QED
    BY <2>1 DEF Heard
<1>4. challenge' \in Nat /\ UNCHANGED stored
  BY <1>1 DEF Types, Demanding
<1>5. toPage \in Seq(Heard)
  BY DEF Types
<1> HIDE DEF auth, no
<1>6. CASE toPage' = toPage \o <<msg, auth>>
  BY <1>2, <1>3, <1>4, <1>5, <1>6, PairAppended
<1>7. CASE toPage' = toPage \o <<auth, msg>>
  BY <1>2, <1>3, <1>4, <1>5, <1>7, PairAppended
<1>8. CASE toPage' = Append(toPage, msg)
  <2>1. toPage' \in Seq(Heard)
    BY <1>2, <1>5, <1>8, Appended
  <2>2. /\ Answers(toPage') \subseteq Answers(toPage) \cup {Len(toPage) + 1}
        /\ Granted(toPage') = Granted(toPage)
    BY <1>2, <1>5, <1>8, HeardAppended
  <2>3. QED
    BY <1>4, <2>1, <2>2
<1>9. QED
  BY <1>1, <1>6, <1>7, <1>8

LEMMA EndsHeard ==
    /\ Done \in Heard /\ Done.type = "OK" /\ Done.ok
    /\ \A reason \in {"blocked", "restricted"} :
          Refusal(reason) \in Heard /\ Refusal(reason).type = "OK" /\ ~Refusal(reason).ok
  BY DEF Heard, Done, Refusal

LEMMA RelayTypes == Types /\ RelayReads => Types'
<1> SUFFICES ASSUME Types, RelayReads PROVE Types'
  OBVIOUS
<1>1. toRelay' \in Seq(Told) /\ Head(toRelay) \in Told
  BY Taken DEF Types, RelayReads
<1>2. UNCHANGED <<mode, socket, signing, events, done, sent>>
  BY DEF RelayReads, pageVars
<1>3. Notes \in Nat /\ toPage \in Seq(Heard)
  BY SessionAssumption DEF Types
<1>4. CASE Head(toRelay).type = "request" /\ Grants
  <2> DEFINE n == IF mode = "load" THEN Notes ELSE 0
  <2>1. n \in 0 .. Notes
    BY <1>3
  <2>a. toPage' = toPage \o Replies(n, Done)
    BY <1>4 DEF Grants
  <2> HIDE DEF n
  <2>2. Replies(n, Done) \in Seq(Heard)
    BY <2>1, EndsHeard, RepliesOK
  <2>3. toPage' \in Seq(Heard)
    BY <1>3, <2>a, <2>2, ConcatProperties
  <2>4. stored' \in BOOLEAN /\ UNCHANGED challenge
    BY <1>4 DEF Grants
  <2>5. QED
    BY <1>1, <1>2, <2>3, <2>4 DEF Types
<1>5. CASE Head(toRelay).type = "request" /\ Declines
  <2>1. PICK n \in 0 .. Notes, reason \in {"blocked", "restricted"} :
           toPage' = toPage \o Replies(n, Refusal(reason))
    BY <1>5 DEF Declines
  <2>2. Replies(n, Refusal(reason)) \in Seq(Heard)
    BY EndsHeard, RepliesOK
  <2>3. toPage' \in Seq(Heard)
    BY <1>3, <2>1, <2>2, ConcatProperties
  <2>4. UNCHANGED <<stored, challenge>>
    BY <1>5 DEF Declines
  <2>5. QED
    BY <1>1, <1>2, <2>3, <2>4 DEF Types
<1>6. CASE Head(toRelay).type = "request" /\ Demanding
  BY <1>1, <1>2, <1>6, DemandHeard DEF Types
<1>7. CASE Head(toRelay).type = "AUTH" /\ ~(Head(toRelay).type = "request")
  <2>1. PICK ok \in BOOLEAN :
          toPage' = Append(toPage, [type |-> "OKAUTH", ok |-> ok, challenge |-> Head(toRelay).challenge])
    BY <1>7 DEF RelayReads
  <2>2. Head(toRelay).challenge \in Nat
    BY <1>1, <1>7 DEF Told
  <2>3. [type |-> "OKAUTH", ok |-> ok, challenge |-> Head(toRelay).challenge] \in Heard
    BY <2>2 DEF Heard
  <2>4. toPage' \in Seq(Heard)
    BY <2>1, <2>3, Appended DEF Types
  <2>5. UNCHANGED <<stored, challenge>>
    BY <1>7 DEF RelayReads
  <2>6. QED
    BY <1>1, <1>2, <2>4, <2>5 DEF Types
<1>8. QED
  BY <1>4, <1>5, <1>6, <1>7 DEF RelayReads

LEMMA TypesKept == Types /\ [Next]_vars => Types'
<1> SUFFICES ASSUME Types, [Next]_vars PROVE Types'
  OBVIOUS
<1>1. CASE SocketOpens
  <2>1. [type |-> "AUTH", challenge |-> 1] \in Heard
    BY DEF Heard
  <2>2. toPage' \in Seq(Heard) /\ challenge' \in Nat
    BY <1>1, <2>1, EmptyWires DEF SocketOpens
  <2>3. QED
    BY <1>1, <2>2 DEF SocketOpens, Types
<1>2. CASE SocketFails
  BY <1>2, FinishTypes, EmptyWires DEF SocketFails, Types, relayVars
<1>3. CASE Timeout
  BY <1>3, FinishTypes DEF Timeout, HangUp, Types, relayVars
<1>4. CASE TimerFires
  BY <1>4, SendTypes DEF TimerFires, Types, relayVars
<1>5. CASE Receive
  BY <1>5, ReceiveTypes
<1>6. ASSUME NEW n \in signing, SignerSigns(n) PROVE Types'
  <2> DEFINE proof == [type |-> "AUTH", challenge |-> n]
  <2>1. proof \in Told
    BY DEF Types, Told
  <2>a. toRelay' = toRelay \/ toRelay' = Append(toRelay, proof)
    BY <1>6 DEF SignerSigns
  <2> HIDE DEF proof
  <2>2. toRelay' \in Seq(Told)
    BY <2>1, <2>a, Appended DEF Types
  <2>3. QED
    BY <1>6, <2>2 DEF SignerSigns, Types, relayVars
<1>7. ASSUME NEW n \in signing, SignerRefuses(n) PROVE Types'
  BY <1>7, FinishTypes DEF SignerRefuses, HangUp, Types, relayVars
<1>8. CASE RelayReads
  BY <1>8, RelayTypes
<1>9. CASE UNCHANGED vars
  BY <1>9 DEF vars, Types
<1>10. QED
  BY <1>1, <1>2, <1>3, <1>4, <1>5, <1>6, <1>7, <1>8, <1>9 DEF Next, PageStep, SignerStep

-----------------------------------------------------------------------------
(* Sessions that have ended *)

\* The first end counts.
LEMMA EndsOnce == done /\ [Next]_vars => done' /\ UNCHANGED <<result, verdict>>
<1> SUFFICES ASSUME done, [Next]_vars PROVE done' /\ UNCHANGED <<result, verdict>>
  OBVIOUS
<1>1. ASSUME NEW how, NEW why, Finish(how, why)
      PROVE  done' /\ UNCHANGED <<result, verdict>>
  BY <1>1 DEF Finish
<1>2. CASE SocketOpens \/ TimerFires \/ RelayReads \/ UNCHANGED vars
  BY <1>2 DEF SocketOpens, TimerFires, RelayReads, vars, pageVars
<1>3. CASE SocketFails \/ Timeout
  BY <1>1, <1>3 DEF SocketFails, Timeout
<1>4. CASE Receive
  <2> DEFINE msg == Head(toPage)
  <2>1. OnAuth(msg) \/ OnAuthOK(msg) \/ OnVerdict(msg) \/ OnNotice(msg) \/ OnEvent(msg) \/ OnOther(msg)
    BY <1>4 DEF Receive
  <2> HIDE DEF msg
  <2>2. QED
    BY <1>1, <2>1 DEF OnAuth, OnAuthOK, OnVerdict, OnNotice, OnEvent, OnOther, pageVars
<1>5. CASE SignerStep
  BY <1>1, <1>5 DEF SignerStep, SignerSigns, SignerRefuses
<1>6. QED
  BY <1>2, <1>3, <1>4, <1>5 DEF Next, PageStep

\* What the relay has decided stands, although it still reads authentications.
LEMMA SettledKept ==
    ASSUME Types, Settled, verdict = "relay", [Next]_vars
    PROVE  Settled'
<1>1. done' /\ UNCHANGED <<result, verdict>>
  BY EndsOnce DEF Settled
<1>2. CASE RelayReads
  <2>1. Head(toRelay).type # "request" /\ Requests(toRelay') = {}
    BY <1>2, RequestTaken DEF RelayReads, Settled, Types
  <2>2. UNCHANGED <<mode, socket, events, stored>>
    BY <1>2, <2>1 DEF RelayReads, pageVars
  <2>3. QED
    BY <1>1, <2>1, <2>2 DEF Settled, VerdictIsTrue
<1>3. CASE UNCHANGED <<mode, socket, events, stored, toRelay>>
  BY <1>1, <1>3 DEF Settled, VerdictIsTrue
<1>4. CASE SocketOpens \/ SocketFails \/ Receive \/ Timeout
  BY <1>4 DEF SocketOpens, SocketFails, Receive, Timeout, Settled
<1>5. CASE TimerFires
  BY <1>3, <1>5 DEF TimerFires, Send, CanSend, relayVars, Settled
<1>6. CASE SignerStep
  BY <1>3, <1>6 DEF SignerStep, SignerSigns, SignerRefuses, HangUp, relayVars, Settled
<1>7. CASE UNCHANGED vars
  BY <1>3, <1>7 DEF vars
<1>8. QED
  BY <1>2, <1>4, <1>5, <1>6, <1>7 DEF Next, PageStep

-----------------------------------------------------------------------------
(* Sessions that go on *)

\* A request is sent where there is neither a request nor an answer.
LEMMA SendKept ==
    ASSUME Types, Live, Send,
           \A i, j \in Answers(toPage') : i = j,
           Answers(toPage) = {} => Answers(toPage') = {}
    PROVE  OneExchange'
<1>1. CASE CanSend
  <2>1. [type |-> "request"] \in Told /\ [type |-> "request"].type = "request"
    BY DEF Told
  <2>2. Requests(toRelay) = {} /\ Answers(toPage) = {}
    BY <1>1 DEF CanSend, Live, OneExchange
  <2>3. Requests(toRelay') = {Len(toRelay) + 1} /\ sent'
    BY <1>1, <2>1, <2>2, RequestsAppended DEF Send, Types
  <2>4. QED
    BY <2>2, <2>3 DEF OneExchange
<1>2. CASE ~CanSend
  BY <1>2 DEF Send, Live, OneExchange, Types
<1>3. QED
  BY <1>1, <1>2

\* Taking a message that is no answer moves what is left; an event is kept.
LEMMA OtherTaken ==
    ASSUME Types, Live, toPage # <<>>, toPage' = Tail(toPage),
           Head(toPage).type \notin {"OK", "NOTICE"},
           Head(toPage).type = "EVENT" => Head(toPage).note \in events',
           events \subseteq events', UNCHANGED <<mode, stored>>
    PROVE  /\ \A i, j \in Answers(toPage') : i = j
           /\ Answers(toPage) = {} => Answers(toPage') = {}
           /\ GrantOnItsWay'
<1>1. /\ Answers(toPage') = {i \in Nat \ {0} : i + 1 \in Answers(toPage)}
      /\ Granted(toPage') = {i \in Nat \ {0} : i + 1 \in Granted(toPage)}
      /\ Granted(toPage) \subseteq Nat \ {0}
      /\ \A k \in Nat : \A n : Comes(toPage, k + 1, n) =>
            Comes(toPage', k, n) \/ (Head(toPage).type = "EVENT" /\ Head(toPage).note = n)
  BY HeardTaken DEF Types
<1>2. 1 \notin Granted(toPage)
  BY Taken DEF Types, Granted
<1>3. \A i, j \in Answers(toPage') : i = j
  BY <1>1 DEF Live, OneExchange
<1>4. ASSUME NEW k \in Granted(toPage'), mode # "publish", NEW n \in 1 .. Notes
      PROVE  n \in events' \/ Comes(toPage', k, n)
  <2>1. k \in Nat /\ k + 1 \in Granted(toPage)
    BY <1>1
  <2>2. n \in events \/ Comes(toPage, k + 1, n)
    BY <1>4, <2>1 DEF Live, GrantOnItsWay
  <2>3. QED
    BY <1>1, <2>1, <2>2
<1>5. Granted(toPage') = {} => Granted(toPage) = {}
  <2>1. ASSUME NEW k \in Granted(toPage) PROVE k - 1 \in Granted(toPage')
    BY <1>1, <1>2
  <2>2. QED
    BY <2>1
<1>6. GrantOnItsWay'
  <2>1. \A k \in Granted(toPage') : mode = "publish" => stored
    BY <1>1 DEF Live, GrantOnItsWay
  <2>2. Granted(toPage') = {} => ~stored
    BY <1>5 DEF Live, GrantOnItsWay
  <2>3. QED
    BY <1>4, <2>1, <2>2 DEF GrantOnItsWay
<1>7. QED
  BY <1>1, <1>3, <1>6

\* An answer at hand is the only one, and no request is under way with it.
LEMMA AnswerTaken ==
    ASSUME Types, Live, toPage # <<>>, toPage' = Tail(toPage),
           Head(toPage).type \in {"OK", "NOTICE"}
    PROVE  /\ Requests(toRelay) = {} /\ Answers(toPage') = {} /\ Granted(toPage') = {}
           /\ Granted(toPage) # {} <=> (Head(toPage).type = "OK" /\ Head(toPage).ok)
           /\ Granted(toPage) # {} => 1 \in Granted(toPage)
<1>1. /\ Answers(toPage') = {i \in Nat \ {0} : i + 1 \in Answers(toPage)}
      /\ Granted(toPage') = {i \in Nat \ {0} : i + 1 \in Granted(toPage)}
      /\ Granted(toPage) \subseteq Answers(toPage)
  BY HeardTaken DEF Types
<1>2. 1 \in Answers(toPage) /\ (1 \in Granted(toPage) <=> (Head(toPage).type = "OK" /\ Head(toPage).ok))
  BY Taken DEF Types, Answers, Granted
<1>3. Answers(toPage) = {1} /\ Requests(toRelay) = {}
  BY <1>2 DEF Live, OneExchange
<1>4. QED
  BY <1>1, <1>2, <1>3

\* The verdict at hand is about what the relay has done.
LEMMA VerdictTaken ==
    ASSUME Types, Live, ~done, verdict # "relay", toPage # <<>>, toPage' = Tail(toPage), socket = "open",
           OnVerdict(Head(toPage)), UNCHANGED <<mode, stored>>
    PROVE  (~done' => Live') /\ (verdict' = "relay" => Settled')
<1> DEFINE msg == Head(toPage)
<1>1. /\ msg.type = "OK" /\ UNCHANGED events
      /\ \/ ~msg.ok /\ sent' = FALSE /\ UNCHANGED <<socket, done, toRelay, verdict>>
         \/ /\ Finish(IF msg.ok \/ (mode = "load" /\ events # {}) THEN "ok" ELSE "failed",
                     IF msg.ok \/ mode = "publish" THEN "relay" ELSE "closed")
            /\ HangUp /\ UNCHANGED <<sent, toRelay>>
  BY DEF OnVerdict, WaitForAuthRetry
<1>2. /\ Requests(toRelay) = {} /\ Answers(toPage') = {} /\ Granted(toPage') = {}
      /\ Granted(toPage) # {} <=> (msg.type = "OK" /\ msg.ok)
      /\ Granted(toPage) # {} => 1 \in Granted(toPage)
  BY <1>1, AnswerTaken
<1> HIDE DEF msg
<1>3. CASE ~msg.ok /\ sent' = FALSE /\ UNCHANGED <<socket, done, toRelay, verdict>>
  <2>1. OneExchange'
    BY <1>2, <1>3 DEF OneExchange
  <2>2. GrantOnItsWay'
    BY <1>1, <1>2, <1>3 DEF Live, GrantOnItsWay
  <2>3. QED
    BY <1>3, <2>1, <2>2 DEF Live, Open
<1>4. CASE /\ Finish(IF msg.ok \/ (mode = "load" /\ events # {}) THEN "ok" ELSE "failed",
                     IF msg.ok \/ mode = "publish" THEN "relay" ELSE "closed")
           /\ HangUp /\ UNCHANGED <<sent, toRelay>>
  <2>1. /\ done' = TRUE /\ socket' = "closed"
        /\ verdict' = IF msg.ok \/ mode = "publish" THEN "relay" ELSE "closed"
        /\ result' = IF msg.ok \/ (mode = "load" /\ events # {}) THEN "ok" ELSE "failed"
    BY <1>4 DEF Finish, HangUp
  <2>2. CASE msg.ok
    <3>1. 1 \in Granted(toPage)
      BY <1>1, <1>2, <2>2
    <3>2. mode = "publish" => stored
      BY <3>1 DEF Live, GrantOnItsWay
    <3>3. \A n : ~Comes(toPage, 1, n)
      <4>1. \A i \in DOMAIN toPage : i \in Nat /\ ~(i < 1)
        BY <1>1, Taken DEF Types
      <4>2. QED
        BY <4>1 DEF Comes
    <3>4. mode # "publish" => events = 1 .. Notes
      BY <3>1, <3>3 DEF Live, GrantOnItsWay, Types
    <3>5. QED
      BY <1>1, <1>2, <1>4, <2>1, <2>2, <3>2, <3>4 DEF Settled, VerdictIsTrue
  <2>3. CASE ~msg.ok
    <3>1. ~stored
      BY <1>2, <2>3 DEF Live, GrantOnItsWay
    <3>2. verdict' = "relay" => mode = "publish" /\ result' = "failed"
      BY <2>1, <2>3 DEF Types
    <3>3. QED
      BY <1>1, <1>2, <1>4, <2>1, <3>1, <3>2 DEF Settled, VerdictIsTrue
  <2>4. QED
    BY <2>2, <2>3
<1>5. QED
  BY <1>1, <1>3, <1>4

LEMMA ReceiveKept ==
    ASSUME Types, Live, ~done, verdict # "relay", Receive
    PROVE  (~done' => Live') /\ (verdict' = "relay" => Settled')
<1> DEFINE msg == Head(toPage)
<1>1. /\ toPage # <<>> /\ toPage' = Tail(toPage) /\ socket = "open"
      /\ UNCHANGED <<mode, stored>>
  BY DEF Receive, relayVars
<1>2. CASE OnVerdict(msg)
  BY <1>1, <1>2, VerdictTaken
<1>3. CASE OnEvent(msg)
  <2>1. /\ msg.type = "EVENT" /\ events' = events \cup {msg.note}
        /\ UNCHANGED <<socket, done, toRelay, sent, verdict>>
    BY <1>3 DEF OnEvent
  <2>2. msg.note \in events' /\ events \subseteq events'
    BY <2>1
  <2>3. /\ \A i, j \in Answers(toPage') : i = j
        /\ Answers(toPage) = {} => Answers(toPage') = {}
        /\ GrantOnItsWay'
    BY <1>1, <2>1, <2>2, OtherTaken
  <2>4. OneExchange'
    BY <2>1, <2>3 DEF Live, OneExchange
  <2>5. QED
    BY <1>1, <2>1, <2>3, <2>4 DEF Live, Open
<1>4. CASE OnNotice(msg)
  <2>1. msg.type = "NOTICE" /\ UNCHANGED <<socket, done, toRelay, events, verdict>>
    BY <1>4 DEF OnNotice
  <2>2. /\ Requests(toRelay) = {} /\ Answers(toPage') = {} /\ Granted(toPage') = {}
        /\ Granted(toPage) = {}
    BY <1>1, <2>1, AnswerTaken
  <2>3. OneExchange'
    BY <2>1, <2>2 DEF OneExchange
  <2>4. GrantOnItsWay'
    BY <1>1, <2>1, <2>2 DEF Live, GrantOnItsWay
  <2>5. QED
    BY <1>1, <2>1, <2>3, <2>4 DEF Live, Open
<1>5. CASE OnAuth(msg) \/ OnAuthOK(msg) \/ OnOther(msg)
  <2>1. msg.type \notin {"OK", "NOTICE", "EVENT"} /\ UNCHANGED events
    BY <1>5 DEF OnAuth, OnAuthOK, OnOther, IsAuthOK, pageVars
  <2>2. /\ \A i, j \in Answers(toPage') : i = j
        /\ Answers(toPage) = {} => Answers(toPage') = {}
        /\ GrantOnItsWay'
    BY <1>1, <2>1, OtherTaken
  <2>3. CASE Send /\ UNCHANGED <<socket, done, verdict>>
    BY <1>1, <2>2, <2>3, SendKept DEF Live, Open
  <2>4. CASE UNCHANGED <<sent, toRelay, socket, done, verdict>>
    <3>1. OneExchange'
      BY <2>2, <2>4 DEF Live, OneExchange
    <3>2. QED
      BY <1>1, <2>2, <2>4, <3>1 DEF Live, Open
  <2>5. CASE Finish("failed", "auth")
    BY <2>5 DEF Finish
  <2>6. QED
    BY <1>5, <2>3, <2>4, <2>5 DEF OnAuth, OnAuthOK, OnOther, pageVars
<1>6. QED
  BY <1>2, <1>3, <1>4, <1>5 DEF Receive

LEMMA RelayReadsKept ==
    ASSUME Types, Live, RelayReads
    PROVE  Live'
<1>1. /\ toRelay # <<>> /\ toRelay' = Tail(toRelay)
      /\ UNCHANGED <<mode, socket, sent, events>> /\ socket # "connecting"
  BY DEF RelayReads, pageVars, Live, Open
<1>2. Open'
  BY <1>1 DEF Live, Open
<1>3. CASE Head(toRelay).type = "request" /\ (Grants \/ Declines \/ Demanding)
  <2>1. Requests(toRelay) # {} /\ Requests(toRelay') = {}
    BY <1>1, <1>3, RequestTaken DEF Types, Live, OneExchange
  <2>2. Answers(toPage) = {} /\ sent = TRUE
    BY <2>1 DEF Types, Live, OneExchange
  <2>3. Granted(toPage) = {} /\ ~stored
    BY <2>2 DEF Answers, Granted, Live, GrantOnItsWay
  <2>4. ASSUME \A i, j \in Answers(toPage') : i = j
        PROVE  OneExchange'
    BY <1>1, <2>1, <2>2, <2>4 DEF OneExchange
  <2>5. CASE Grants
    <3> DEFINE n == IF mode = "load" THEN Notes ELSE 0
               k == Len(toPage) + n + 1
    <3>1. n \in 0 .. Notes /\ stored' = (mode = "publish") /\ toPage' = toPage \o Replies(n, Done)
      BY <2>5, SessionAssumption DEF Grants
    <3>a. mode # "publish" => n = Notes
      BY DEF Types
    <3> HIDE DEF n
    <3>2. /\ \A i, j \in Answers(toPage') : i = j
          /\ Granted(toPage') = {k}
          /\ \A i \in 1 .. n : Comes(toPage', k, i)
      BY <2>2, <3>1, EndsHeard, RepliesAppended DEF Types
    <3> HIDE DEF k
    <3>3. GrantOnItsWay'
      BY <1>1, <3>1, <3>2, <3>a DEF GrantOnItsWay
    <3>4. QED
      BY <1>2, <2>4, <3>2, <3>3 DEF Live
  <2>6. CASE Declines
    <3>1. PICK n \in 0 .. Notes, reason \in {"blocked", "restricted"} :
             toPage' = toPage \o Replies(n, Refusal(reason))
      BY <2>6 DEF Declines
    <3>2. Refusal(reason) \in Heard /\ Refusal(reason).type = "OK" /\ ~Refusal(reason).ok
      BY EndsHeard
    <3>3. (\A i, j \in Answers(toPage') : i = j) /\ Granted(toPage') = {}
      BY <2>2, <3>1, <3>2, RepliesAppended DEF Types
    <3>4. UNCHANGED stored
      BY <2>6 DEF Declines
    <3>5. GrantOnItsWay'
      BY <1>1, <2>3, <3>3, <3>4 DEF GrantOnItsWay
    <3>6. QED
      BY <1>2, <2>4, <3>3, <3>5 DEF Live
  <2>7. CASE Demanding
    <3>1. /\ UNCHANGED stored /\ Granted(toPage') = {}
          /\ \A i, j \in Answers(toPage') : i = j
      BY <2>2, <2>3, <2>7, DemandHeard
    <3>2. GrantOnItsWay'
      BY <1>1, <2>3, <3>1 DEF GrantOnItsWay
    <3>3. QED
      BY <1>2, <2>4, <3>1, <3>2 DEF Live
  <2>8. QED
    BY <1>3, <2>5, <2>6, <2>7
<1>4. CASE Head(toRelay).type = "AUTH" /\ ~(Head(toRelay).type = "request")
  <2>1. PICK ok \in BOOLEAN :
          toPage' = Append(toPage, [type |-> "OKAUTH", ok |-> ok, challenge |-> Head(toRelay).challenge])
    BY <1>4 DEF RelayReads
  <2> DEFINE ack == [type |-> "OKAUTH", ok |-> ok, challenge |-> Head(toRelay).challenge]
  <2>2. Head(toRelay).challenge \in Nat
    BY <1>1, <1>4, Taken DEF Told, Types
  <2>3. ack \in Heard /\ ack.type = "OKAUTH"
    BY <2>2 DEF Heard
  <2> HIDE DEF ack
  <2>4. /\ Answers(toPage') = Answers(toPage) /\ Granted(toPage') = Granted(toPage)
        /\ UNCHANGED stored
    BY <1>4, <2>1, <2>3, HeardAppended DEF Types, RelayReads, ack
  <2>a. \A k \in Granted(toPage) : \A n : Comes(toPage, k, n) => Comes(toPage', k, n)
    BY <2>1, <2>3, Appended DEF Types, ack, Comes
  <2>5. /\ \A i, j \in Requests(toRelay') : i = j
        /\ Requests(toRelay) = {} => Requests(toRelay') = {}
    BY <1>1, RequestTaken DEF Types, Live, OneExchange
  <2>6. OneExchange'
    BY <1>1, <2>4, <2>5 DEF Live, OneExchange
  <2>7. GrantOnItsWay'
    BY <1>1, <2>4, <2>a DEF Live, GrantOnItsWay
  <2>8. QED
    BY <1>2, <2>6, <2>7 DEF Live
<1>5. QED
  BY <1>3, <1>4 DEF RelayReads

LEMMA LiveKept ==
    ASSUME Types, Live, ~done, verdict # "relay", [Next]_vars
    PROVE  (~done' => Live') /\ (verdict' = "relay" => Settled')
<1>1. CASE SocketOpens
  <2>1. Requests(<<>>) = {} /\ Answers(<<>>) = {} /\ Granted(<<>>) = {}
    BY DEF Requests, Answers, Granted
  <2>2. toRelay = <<>> /\ toPage = <<>> /\ ~stored
    BY <1>1, <2>1 DEF SocketOpens, Live, Open, GrantOnItsWay
  <2>3. Answers(toPage') = {} /\ Granted(toPage') = {}
    <3>1. CASE toPage' = <<>>
      BY <3>1, <2>1
    <3>2. CASE toPage' = <<[type |-> "AUTH", challenge |-> 1]>>
      BY <3>2 DEF Answers, Granted
    <3>3. QED
      BY <1>1, <3>1, <3>2 DEF SocketOpens
  <2>4. OneExchange' /\ GrantOnItsWay'
    BY <1>1, <2>1, <2>2, <2>3 DEF SocketOpens, OneExchange, GrantOnItsWay
  <2>5. QED
    BY <1>1, <2>4 DEF SocketOpens, Live, Open
<1>2. CASE SocketFails \/ Timeout
  BY <1>2 DEF SocketFails, Timeout, Finish
<1>3. CASE TimerFires
  <2>1. OneExchange'
    BY <1>3, SendKept DEF TimerFires, Live, OneExchange
  <2>2. QED
    BY <1>3, <2>1 DEF TimerFires, Send, CanSend, relayVars, Live, Open, GrantOnItsWay
<1>4. CASE Receive
  BY <1>4, ReceiveKept
<1>5. ASSUME NEW n \in signing, SignerSigns(n)
      PROVE  (~done' => Live') /\ (verdict' = "relay" => Settled')
  <2> DEFINE proof == [type |-> "AUTH", challenge |-> n]
  <2>1. proof \in Told /\ proof.type # "request"
    BY DEF Types, Told
  <2>2. toRelay' = toRelay \/ (socket = "open" /\ toRelay' = Append(toRelay, proof))
    BY <1>5 DEF SignerSigns
  <2> HIDE DEF proof
  <2>3. Requests(toRelay') = Requests(toRelay)
    BY <2>1, <2>2, RequestsAppended DEF Types
  <2>4. UNCHANGED <<mode, socket, done, verdict, sent, stored, events, toPage>>
    BY <1>5 DEF SignerSigns, relayVars
  <2>5. OneExchange' /\ GrantOnItsWay'
    BY <2>3, <2>4 DEF Live, OneExchange, GrantOnItsWay
  <2>6. QED
    BY <2>2, <2>4, <2>5 DEF Live, Open
<1>6. ASSUME NEW n \in signing, SignerRefuses(n)
      PROVE  (~done' => Live') /\ (verdict' = "relay" => Settled')
  BY <1>6 DEF SignerRefuses, Finish
<1>7. CASE RelayReads
  BY <1>7, RelayReadsKept DEF RelayReads, pageVars
<1>8. CASE UNCHANGED vars
  BY <1>8 DEF vars, Live, Open, OneExchange, GrantOnItsWay
<1>9. QED
  BY <1>1, <1>2, <1>3, <1>4, <1>5, <1>6, <1>7, <1>8 DEF Next, PageStep, SignerStep

-----------------------------------------------------------------------------
(* Theorems *)

\* While a session goes on one request or one answer is on the wire at most, and a
\* publication is stored, or a load complete, exactly if the answer on its way says
\* so (publishAdvertToRelay, relayEvents).
THEOREM SessionInvariant == Spec => []Inv
<1>1. Init => Inv
  <2> SUFFICES ASSUME Init PROVE Inv
    OBVIOUS
  <2>1. Requests(<<>>) = {} /\ Answers(<<>>) = {} /\ Granted(<<>>) = {}
    BY DEF Requests, Answers, Granted
  <2>2. Live
    BY <2>1 DEF Init, Live, Open, OneExchange, GrantOnItsWay
  <2>3. QED
    BY <2>2, TypesInit DEF Init, Inv
<1>2. Inv /\ [Next]_vars => Inv'
  <2> SUFFICES ASSUME Inv, [Next]_vars PROVE Inv'
    OBVIOUS
  <2>1. Types'
    BY TypesKept DEF Inv
  <2>2. CASE verdict = "relay"
    BY <2>1, <2>2, SettledKept DEF Inv, Settled
  <2>3. CASE verdict # "relay" /\ done
    BY <2>1, <2>3, EndsOnce DEF Inv
  <2>4. CASE verdict # "relay" /\ ~done
    BY <2>1, <2>4, LiveKept DEF Inv
  <2>5. QED
    BY <2>2, <2>3, <2>4
<1>3. QED
  BY <1>1, <1>2, PTL DEF Spec

\* What the page reports as the relay's verdict is the relay's, for every number of
\* challenges, retries and events (publishAdvertToRelay, relayEvents).
THEOREM VerdictsAreTrue == Spec => []VerdictIsTrue
<1>1. Inv => VerdictIsTrue
  BY DEF Inv, Settled, VerdictIsTrue
<1>2. QED
  BY <1>1, SessionInvariant, PTL

\* What is not on its way to the relay when a session ends is not published later,
\* whoever calls back (sendEvent, sendRequest, finish).
THEOREM NothingPublishedLate == Spec => NoLatePublication
<1> DEFINE Quiet == done /\ Requests(toRelay) = {}
           Stays == Requests(toRelay') = {} /\ UNCHANGED stored
<1>1. ASSUME Types, Quiet, [Next]_vars
      PROVE  Stays
  <2>1. toRelay \in Seq(Told) /\ Requests(toRelay) = {} /\ done
    BY <1>1 DEF Types
  <2>2. CASE UNCHANGED <<toRelay, stored>>
    BY <2>1, <2>2
  <2>3. CASE RelayReads
    <3>1. Requests(toRelay') = {} /\ Head(toRelay).type # "request"
      BY <2>1, <2>3, RequestTaken DEF RelayReads
    <3>2. QED
      BY <2>3, <3>1 DEF RelayReads
  <2>4. CASE SocketFails
    <3>1. CASE toRelay' = <<>>
      BY <2>4, <3>1 DEF Requests, SocketFails, relayVars
    <3>2. QED
      BY <2>2, <2>4, <3>1 DEF SocketFails, relayVars
  <2>5. CASE SocketOpens \/ Timeout \/ UNCHANGED vars
    BY <2>2, <2>5 DEF SocketOpens, Timeout, vars, relayVars
  <2>6. CASE TimerFires
    BY <2>1, <2>2, <2>6 DEF TimerFires, Send, CanSend, relayVars
  <2>7. CASE Receive
    <3> DEFINE msg == Head(toPage)
    <3>1. OnAuth(msg) \/ OnAuthOK(msg) \/ OnVerdict(msg) \/ OnNotice(msg) \/ OnEvent(msg) \/ OnOther(msg)
      BY <2>7 DEF Receive
    <3> HIDE DEF msg
    <3>2. UNCHANGED toRelay
      BY <2>1, <3>1 DEF OnAuth, OnAuthOK, OnVerdict, OnNotice, OnEvent, OnOther, Send, CanSend
    <3>3. QED
      BY <2>2, <2>7, <3>2 DEF Receive, relayVars
  <2>8. ASSUME NEW n \in signing, SignerSigns(n) \/ SignerRefuses(n)
        PROVE  Stays
    <3> DEFINE proof == [type |-> "AUTH", challenge |-> n]
    <3>1. proof \in Told /\ proof.type # "request"
      BY <1>1 DEF Types, Told
    <3>2. toRelay' = toRelay \/ toRelay' = Append(toRelay, proof)
      BY <2>8 DEF SignerSigns, SignerRefuses
    <3> HIDE DEF proof
    <3>3. Requests(toRelay') = Requests(toRelay)
      BY <2>1, <3>1, <3>2, RequestsAppended
    <3>4. UNCHANGED stored
      BY <2>8 DEF SignerSigns, SignerRefuses, relayVars
    <3>5. QED
      BY <2>1, <3>3, <3>4
  <2>9. QED
    BY <1>1, <2>3, <2>4, <2>5, <2>6, <2>7, <2>8 DEF Next, PageStep, SignerStep
<1>2. Inv /\ [Next]_vars => [Quiet => Stays]_vars
  BY <1>1 DEF Inv
<1>3. QED
  BY <1>2, SessionInvariant, PTL DEF Spec, NoLatePublication
============================================================================
