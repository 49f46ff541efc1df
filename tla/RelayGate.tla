----------------------------- MODULE RelayGate -----------------------------
(***************************************************************************)
(* The relay gate of wrapster (internal/relay/server.go): one goroutine    *)
(* per client WebSocket runs Server.websocket, a loop that reads a message *)
(* and handles it to the end before it reads the next.  The goroutines     *)
(* share the authentication cache, the list of recent queries and the      *)
(* upstream relay; everything else is local to a connection.               *)
(*                                                                         *)
(* A handler is cut into steps at its network and database calls, so the   *)
(* clock, the NIP-05 directory, other connections, upstream failures and a *)
(* process crash can come between any two of them.  A write to the client  *)
(* may fail at any time (the client may be gone); the handler then returns *)
(* and its deferred calls run.                                             *)
(***************************************************************************)
EXTENDS AuthStore, Sequences, FiniteSets

CONSTANTS
    Conns,          \* slots for concurrent client connections
    Links,          \* slots for connections to the upstream relay
    NoPubkey,       \* the handler's pubkey == ""
    NoUsername,     \* no username found yet
    NoLink,         \* a nil *websocket.Conn
    NoEvent,        \* no AUTH event admitted
    TTL,            \* AuthCacheTTL
    MaxAge,         \* AuthEventMaxAge
    LookupRelays,   \* len(profileRelayURLs())
    QueryLimit,     \* recentRelayQueryLimit
    Inputs,         \* the kinds of client messages that occur
    RelayTags,      \* relay URLs clients sign for, out of "public", "public/", "other"
    Stamps,         \* created_at times clients put on their AUTH events
    MaxTime,        \* bound on the clock
    MaxChallenge    \* bound on the connections ever opened

ASSUME ConstantsAssumption ==
    /\ TTL \in Nat \ {0} /\ MaxAge \in Nat \ {0}
    /\ LookupRelays \in Nat \ {0} /\ QueryLimit \in Nat \ {0}
    /\ MaxTime \in Nat /\ MaxChallenge \in Nat /\ Stamps \subseteq Int
    /\ NoPubkey \notin Pubkeys /\ NoUsername \notin Usernames /\ NoLink \notin Links

VARIABLES
    now,            \* wall clock of the server
    directory,      \* external: the pubkey each username resolves to by NIP-05
    cache,          \* the auth_cache table; survives a restart
    issued,         \* challenges handed out so far
    pc,             \* where the handler of a connection stands
    challenge,      \* its challenge
    pubkey,         \* its authenticated pubkey, NoPubkey before
    upstream,       \* its upstream connection, NoLink before
    pending,        \* locals of the call in progress
    link,           \* state of each upstream connection
    pipe,           \* challenge of the client a pipe goroutine writes to, or 0
    verdict,        \* external: upstream's judgement of a bootstrapped profile
    recentQueries,  \* newest first
    \* History, read by the properties only:
    verifiedAt,     \* when NIP-05 last linked a pubkey to a username, or -1
    proof,          \* the AUTH event that authenticated the connection
    used,           \* the AUTH events that ever authenticated a session
    serves,         \* the pubkey an upstream connection was dialed for
    abandoned,      \* upstream connections a handler has overwritten unclosed
    seen,           \* what the client has been sent since its challenge
    forwarded,      \* EVENTs written to an upstream connection that was up
    stored,         \* authors whose bootstrapped profile upstream accepted
    confirmed       \* authors told that theirs was accepted

handlerVars == <<pc, challenge, pubkey, upstream, pending, proof, seen, verdict>>
linkVars    == <<link, pipe, serves, abandoned>>
envVars     == <<now, directory>>
logVars     == <<forwarded, stored, confirmed, used>>
vars == <<now, directory, cache, issued, pc, challenge, pubkey, upstream, pending,
          link, pipe, verdict, recentQueries, verifiedAt, proof, used, serves,
          abandoned, seen, forwarded, stored, confirmed>>

-----------------------------------------------------------------------------
(* Messages and locals *)

EventKind == 22242

AuthEvent == [pubkey : Pubkeys, challenge : 1..MaxChallenge, createdAt : Stamps,
              kind : {EventKind, 1}, sig : {"valid", "invalid"},
              relay : RelayTags]

Pending == [pubkey : Pubkeys \cup {NoPubkey}, username : Usernames \cup {NoUsername},
            now : Nat, tried : Nat, link : Links \cup {NoLink}]

NoPending == [pubkey |-> NoPubkey, username |-> NoUsername, now |-> 0, tried |-> 0, link |-> NoLink]

Phases == {"idle", "reading",
           "cache", "lookup", "nip05", "put", "dial", "accept",
           "bootDial", "bootWait", "record", "forward"}

Query == [at : Int, pubkey : Pubkeys, by : Int]

\* normalizeRelayURLForAuth: trailing slashes do not count.
NormalizeRelay(r) == IF r = "public/" THEN "public" ELSE r

\* Mutant: the challenge tag is not compared.
Verify_AnyChallenge(e, ch, t) ==
    /\ e.kind = EventKind
    /\ e.sig = "valid"
    /\ NormalizeRelay(e.relay) = NormalizeRelay("public")
    /\ e.createdAt >= t - MaxAge
    /\ e.createdAt <= t + MaxAge

\* auth.Verify: the event is a NIP-42 one, signed, for this challenge and this
\* relay, and its timestamp is within MaxAge of the clock on either side.
Verify(e, ch, t) ==
    /\ e.kind = EventKind
    /\ e.sig = "valid"
    /\ e.challenge = ch
    /\ NormalizeRelay(e.relay) = NormalizeRelay("public")
    /\ e.createdAt >= t - MaxAge
    /\ e.createdAt <= t + MaxAge

-----------------------------------------------------------------------------
Init ==
    /\ now = 0
    /\ directory \in [Usernames -> Pubkeys \cup {NoPubkey}]
    /\ cache = EmptyStore
    /\ issued = 0
    /\ pc = [c \in Conns |-> "idle"]
    /\ challenge = [c \in Conns |-> 0]
    /\ pubkey = [c \in Conns |-> NoPubkey]
    /\ upstream = [c \in Conns |-> NoLink]
    /\ pending = [c \in Conns |-> NoPending]
    /\ link = [k \in Links |-> "closed"]
    /\ pipe = [k \in Links |-> 0]
    /\ verdict = [c \in Conns |-> "none"]
    /\ recentQueries = <<>>
    /\ verifiedAt = [p \in Pubkeys |-> [u \in Usernames |-> -1]]
    /\ proof = [c \in Conns |-> NoEvent]
    /\ used = {}
    /\ serves = [k \in Links |-> NoPubkey]
    /\ abandoned = {}
    /\ seen = [c \in Conns |-> {}]
    /\ forwarded = {}
    /\ stored = {}
    /\ confirmed = {}

-----------------------------------------------------------------------------
(* How a handler goes on.  S is the temporary upstream connection that a    *)
(* nested call has deferred the closing of, if any.                         *)

Closing(S) ==
    /\ link' = [k \in Links |-> IF k \in S THEN "closed" ELSE link[k]]
    /\ serves' = [k \in Links |-> IF k \in S THEN NoPubkey ELSE serves[k]]
    /\ UNCHANGED abandoned

\* The loop reads the next message.
Continue(c, S) ==
    /\ pc' = [pc EXCEPT ![c] = "reading"]
    /\ pending' = [pending EXCEPT ![c] = NoPending]
    /\ verdict' = [verdict EXCEPT ![c] = "none"]
    /\ proof' = [proof EXCEPT ![c] = IF pubkey[c] = NoPubkey THEN NoEvent ELSE @]
    /\ Closing(S)
    /\ UNCHANGED <<challenge, pubkey, upstream, seen>>

\* Mutant: the deferred function closes the connection it saw when it was
\* deferred, which is none.
Return_EarlyBound(c, S) ==
    /\ pc' = [pc EXCEPT ![c] = "idle"]
    /\ challenge' = [challenge EXCEPT ![c] = 0]
    /\ pubkey' = [pubkey EXCEPT ![c] = NoPubkey]
    /\ upstream' = [upstream EXCEPT ![c] = NoLink]
    /\ pending' = [pending EXCEPT ![c] = NoPending]
    /\ verdict' = [verdict EXCEPT ![c] = "none"]
    /\ proof' = [proof EXCEPT ![c] = NoEvent]
    /\ seen' = [seen EXCEPT ![c] = {}]
    /\ Closing(S)

\* websocket returns: the deferred functions close the upstream connection the
\* handler holds at that moment and the client's.
Return(c, S) ==
    /\ pc' = [pc EXCEPT ![c] = "idle"]
    /\ challenge' = [challenge EXCEPT ![c] = 0]
    /\ pubkey' = [pubkey EXCEPT ![c] = NoPubkey]
    /\ upstream' = [upstream EXCEPT ![c] = NoLink]
    /\ pending' = [pending EXCEPT ![c] = NoPending]
    /\ verdict' = [verdict EXCEPT ![c] = "none"]
    /\ proof' = [proof EXCEPT ![c] = NoEvent]
    /\ seen' = [seen EXCEPT ![c] = {}]
    /\ Closing(S \cup {upstream[c]})

\* writeClient of an answer: the loop goes on, or the write fails.
Answer(c, S) ==
    /\ Continue(c, S) \/ Return(c, S)
    /\ UNCHANGED pipe

Goto(c, phase) == pc' = [pc EXCEPT ![c] = phase]

FreeLinks == {k \in Links : link[k] = "closed" /\ pipe[k] = 0}

-----------------------------------------------------------------------------
(* A client connects *)

\* Upgrade, NewChallenge and the first write.  A failure at any of them leaves
\* nothing behind.
OpenConn(c) ==
    /\ pc[c] = "idle"
    /\ issued < MaxChallenge
    /\ issued' = issued + 1
    /\ challenge' = [challenge EXCEPT ![c] = issued + 1]
    /\ Goto(c, "reading")
    /\ UNCHANGED <<envVars, linkVars, logVars, cache, pubkey, upstream, pending, proof, seen,
                   verdict, recentQueries, verifiedAt>>

\* ReadMessage fails: the client closed the connection or is gone.
ClientCloses(c) ==
    /\ pc[c] = "reading"
    /\ Return(c, {})
    /\ UNCHANGED <<envVars, logVars, cache, issued, pipe, recentQueries, verifiedAt>>

\* A message the gate answers itself and takes nothing from: malformed JSON at
\* any time; before authentication a REQ, a malformed EVENT, an EVENT other than
\* a self-signed kind 0, and every other type but AUTH.
RefuseMessage(c) ==
    /\ "refused" \in Inputs
    /\ pc[c] = "reading"
    /\ Answer(c, {})
    /\ UNCHANGED <<envVars, logVars, cache, issued, recentQueries, verifiedAt>>

-----------------------------------------------------------------------------
(* Server.authenticate *)

\* An AUTH message with an event.  When the event verifies, the time that will
\* be written to the cache is taken here, before any lookup.
ReceiveAuth(c, e) ==
    /\ "auth" \in Inputs
    /\ pc[c] = "reading"
    /\ pubkey[c] = NoPubkey
    /\ \/ /\ Verify(e, challenge[c], now)
          /\ Goto(c, "cache")
          /\ pending' = [pending EXCEPT ![c] = [NoPending EXCEPT !.pubkey = e.pubkey, !.now = now]]
          /\ proof' = [proof EXCEPT ![c] = e]
          /\ UNCHANGED <<linkVars, challenge, pubkey, upstream, seen, verdict>>
       \/ /\ ~Verify(e, challenge[c], now)
          /\ Answer(c, {})
    /\ UNCHANGED <<envVars, logVars, cache, issued, recentQueries, verifiedAt>>

\* An AUTH message without an event: authenticate returns an empty pubkey and
\* the nil error of the successful Unmarshal, so the caller goes on to dial.
ReceiveEmptyAuth(c) ==
    /\ "emptyAuth" \in Inputs
    /\ pc[c] = "reading"
    /\ pubkey[c] = NoPubkey
    /\ Goto(c, "dial")
    /\ UNCHANGED <<envVars, linkVars, logVars, cache, issued, challenge, pubkey, upstream,
                   pending, proof, seen, verdict, recentQueries, verifiedAt>>

\* Cache.GetValid, with the time taken when the message arrived.
CheckCache(c) ==
    /\ pc[c] = "cache"
    /\ \/ /\ GetValid(cache, pending[c].pubkey, pending[c].now)
          /\ Goto(c, "dial")
          /\ UNCHANGED <<linkVars, challenge, pubkey, upstream, pending, proof, seen, verdict>>
       \/ /\ ~GetValid(cache, pending[c].pubkey, pending[c].now)
          /\ Goto(c, "lookup")
          /\ UNCHANGED <<linkVars, challenge, pubkey, upstream, pending, proof, seen, verdict>>
       \/ Answer(c, {})
    /\ UNCHANGED <<envVars, logVars, cache, issued, recentQueries, verifiedAt>>

\* Mutant: a relay that fails is asked again.
LookupUsername_SameRelay(c) ==
    /\ pc[c] = "lookup"
    /\ \/ \E u \in Usernames :
             /\ Goto(c, "nip05")
             /\ pending' = [pending EXCEPT ![c].username = u]
             /\ UNCHANGED <<linkVars, challenge, pubkey, upstream, proof, seen, verdict>>
       \/ /\ pending' = [pending EXCEPT ![c].tried = 1 - @]
          /\ UNCHANGED <<linkVars, pc, challenge, pubkey, upstream, proof, seen, verdict>>
    /\ UNCHANGED <<envVars, logVars, cache, issued, recentQueries, verifiedAt>>

\* Upstream.FindTrustrootsUsername asks one relay after the other, each under
\* its own timeout.  The username is whatever the first relay that has an answer
\* says; the gate does not check the author of the profile event.
LookupUsername(c) ==
    /\ pc[c] = "lookup"
    /\ \/ \E u \in Usernames :
             /\ Goto(c, "nip05")
             /\ pending' = [pending EXCEPT ![c].username = u]
             /\ UNCHANGED <<linkVars, challenge, pubkey, upstream, proof, seen, verdict>>
       \/ /\ pending[c].tried + 1 < LookupRelays
          /\ pending' = [pending EXCEPT ![c].tried = @ + 1]
          /\ UNCHANGED <<linkVars, pc, challenge, pubkey, upstream, proof, seen, verdict>>
       \/ /\ pending[c].tried + 1 = LookupRelays
          /\ Answer(c, {})
    /\ UNCHANGED <<envVars, logVars, cache, issued, recentQueries, verifiedAt>>

\* Mutant: it is enough that the username resolves to a key.
VerifyNIP05_AnyKey(c) ==
    LET p == pending[c].pubkey
        u == pending[c].username
    IN  /\ pc[c] = "nip05"
        /\ \/ /\ directory[u] # NoPubkey
              /\ Goto(c, "put")
              /\ verifiedAt' = IF directory[u] = p THEN [verifiedAt EXCEPT ![p][u] = now] ELSE verifiedAt
              /\ UNCHANGED <<linkVars, challenge, pubkey, upstream, pending, proof, seen, verdict>>
           \/ /\ Answer(c, {})
              /\ UNCHANGED verifiedAt
        /\ UNCHANGED <<envVars, logVars, cache, issued, recentQueries>>

\* NIP05.Verify: the directory, as it is when it answers, decides.  An HTTP
\* failure counts as a mismatch.
VerifyNIP05(c) ==
    /\ pc[c] = "nip05"
    /\ \/ /\ directory[pending[c].username] = pending[c].pubkey
          /\ Goto(c, "put")
          /\ verifiedAt' = [verifiedAt EXCEPT ![pending[c].pubkey][pending[c].username] = now]
          /\ UNCHANGED <<linkVars, challenge, pubkey, upstream, pending, proof, seen, verdict>>
       \/ /\ Answer(c, {})
          /\ UNCHANGED verifiedAt
    /\ UNCHANGED <<envVars, logVars, cache, issued, recentQueries>>

\* Mutant: the expiry is counted from the time of the write.
PutCache_LateExpiry(c) ==
    /\ pc[c] = "put"
    /\ \/ /\ cache' = Put(cache, pending[c].pubkey, pending[c].username, pending[c].now, now + TTL)
          /\ Goto(c, "dial")
          /\ UNCHANGED <<linkVars, challenge, pubkey, upstream, pending, proof, seen, verdict>>
       \/ /\ Answer(c, {})
          /\ UNCHANGED cache
    /\ UNCHANGED <<envVars, logVars, issued, recentQueries, verifiedAt>>

\* Cache.Put with the time taken before the lookups.  A database error refuses
\* the client although its identity was verified.
PutCache(c) ==
    /\ pc[c] = "put"
    /\ \/ /\ cache' = Put(cache, pending[c].pubkey, pending[c].username,
                          pending[c].now, pending[c].now + TTL)
          /\ Goto(c, "dial")
          /\ UNCHANGED <<linkVars, challenge, pubkey, upstream, pending, proof, seen, verdict>>
       \/ /\ Answer(c, {})
          /\ UNCHANGED cache
    /\ UNCHANGED <<envVars, logVars, issued, recentQueries, verifiedAt>>

\* History of a dial that succeeds: the event that authenticated the session,
\* and the connection the handler's variable no longer names.
Recorded(c) ==
    /\ used' = IF pending[c].pubkey = NoPubkey THEN used ELSE used \cup {proof[c]}
    /\ abandoned' = IF upstream[c] = NoLink THEN abandoned ELSE abandoned \cup {upstream[c]}

\* Mutant: the pipe goroutine starts as soon as the connection is there.
DialUpstream_PipeFirst(c) ==
    /\ pc[c] = "dial"
    /\ \/ \E k \in FreeLinks :
             /\ link' = [link EXCEPT ![k] = "open"]
             /\ serves' = [serves EXCEPT ![k] = pending[c].pubkey]
             /\ upstream' = [upstream EXCEPT ![c] = k]
             /\ pubkey' = [pubkey EXCEPT ![c] = pending[c].pubkey]
             /\ pipe' = [pipe EXCEPT ![k] = challenge[c]]
             /\ Goto(c, "accept")
             /\ Recorded(c)
             /\ UNCHANGED <<challenge, pending, proof, seen, verdict>>
       \/ /\ Answer(c, {})
          /\ UNCHANGED used
    /\ UNCHANGED <<envVars, forwarded, stored, confirmed, cache, issued, recentQueries, verifiedAt>>

\* Upstream.Dial for the session: the handler's two variables are assigned, and
\* an upstream connection they held before is forgotten.
DialUpstream(c) ==
    /\ pc[c] = "dial"
    /\ \/ \E k \in FreeLinks :
             /\ link' = [link EXCEPT ![k] = "open"]
             /\ serves' = [serves EXCEPT ![k] = pending[c].pubkey]
             /\ upstream' = [upstream EXCEPT ![c] = k]
             /\ pubkey' = [pubkey EXCEPT ![c] = pending[c].pubkey]
             /\ Goto(c, "accept")
             /\ Recorded(c)
             /\ UNCHANGED <<pipe, challenge, pending, proof, seen, verdict>>
       \/ /\ Answer(c, {})
          /\ UNCHANGED used
    /\ UNCHANGED <<envVars, forwarded, stored, confirmed, cache, issued, recentQueries, verifiedAt>>

\* The OK is written first; the pipe goroutine starts after it.
AcceptAuth(c) ==
    /\ pc[c] = "accept"
    /\ \/ /\ Goto(c, "reading")
          /\ seen' = [seen EXCEPT ![c] = @ \cup {"OK"}]
          /\ pipe' = [pipe EXCEPT ![upstream[c]] = challenge[c]]
          /\ pending' = [pending EXCEPT ![c] = NoPending]
          /\ UNCHANGED <<link, serves, abandoned, challenge, pubkey, upstream, proof, verdict>>
       \/ /\ Return(c, {})
          /\ UNCHANGED pipe
    /\ UNCHANGED <<envVars, logVars, cache, issued, recentQueries, verifiedAt>>

-----------------------------------------------------------------------------
(* forwardToUpstreamAndWaitOK: the profile of a client not authenticated yet *)

ReceiveProfile(c, p) ==
    /\ "profile" \in Inputs
    /\ pc[c] = "reading"
    /\ pubkey[c] = NoPubkey
    /\ Goto(c, "bootDial")
    /\ pending' = [pending EXCEPT ![c] = [NoPending EXCEPT !.pubkey = p]]
    /\ UNCHANGED <<envVars, linkVars, logVars, cache, issued, challenge, pubkey, upstream,
                   proof, seen, verdict, recentQueries, verifiedAt>>

\* A connection of its own is dialed and the EVENT written to it.
BootDial(c) ==
    /\ pc[c] = "bootDial"
    /\ \/ \E k \in FreeLinks :
             /\ link' = [link EXCEPT ![k] = "open"]
             /\ serves' = [serves EXCEPT ![k] = NoPubkey]
             /\ pending' = [pending EXCEPT ![c].link = k]
             /\ forwarded' = forwarded \cup {[author |-> pending[c].pubkey, kind |-> 0,
                                              session |-> NoPubkey]}
             /\ Goto(c, "bootWait")
             /\ UNCHANGED <<pipe, abandoned, challenge, pubkey, upstream, proof, seen, verdict>>
       \/ /\ Answer(c, {})
          /\ UNCHANGED forwarded
    /\ UNCHANGED <<envVars, stored, confirmed, used, cache, issued, recentQueries, verifiedAt>>

\* External: the upstream relay stores the profile or refuses it.
UpstreamJudges(c) ==
    /\ pc[c] = "bootWait"
    /\ verdict[c] = "none"
    /\ link[pending[c].link] = "open"
    /\ \/ /\ verdict' = [verdict EXCEPT ![c] = "accepted"]
          /\ stored' = stored \cup {pending[c].pubkey}
       \/ /\ verdict' = [verdict EXCEPT ![c] = "rejected"]
          /\ UNCHANGED stored
    /\ UNCHANGED <<envVars, linkVars, cache, issued, pc, challenge, pubkey, upstream, pending,
                   proof, seen, recentQueries, verifiedAt, forwarded, confirmed, used>>

Frame == [about : {"this", "other", "nothing"}, says : {"accepted", "rejected"}]

\* Mutant: any OK is taken for the answer.
IsAnswer_AnyOK(frame) == frame.about \in {"this", "other"}

\* What the wait loop takes for the answer: an OK whose id is the event's.
IsAnswer(frame) == frame.about = "this"

\* The next frame from upstream: its OK about this event, an OK about another,
\* or anything else.  Frames that are not the answer are skipped.
BootFrame(c, frame) ==
    /\ pc[c] = "bootWait"
    /\ frame.about = "this" => verdict[c] = frame.says
    /\ \/ /\ IsAnswer(frame)
          /\ Continue(c, {pending[c].link})
          /\ confirmed' = IF frame.says = "accepted" THEN confirmed \cup {pending[c].pubkey} ELSE confirmed
          /\ UNCHANGED pipe
       \/ /\ IsAnswer(frame)
          /\ Return(c, {pending[c].link})
          /\ UNCHANGED <<pipe, confirmed>>
       \/ /\ ~IsAnswer(frame)
          /\ UNCHANGED <<handlerVars, linkVars, confirmed>>
    /\ UNCHANGED <<envVars, cache, issued, recentQueries, verifiedAt, forwarded, stored, used>>

\* The deadline passes, the connection breaks, or the OK cannot be decoded.  The
\* client is told that upstream is unavailable, whatever upstream has done.
BootFails(c) ==
    /\ pc[c] = "bootWait"
    /\ Answer(c, {pending[c].link})
    /\ UNCHANGED <<envVars, logVars, cache, issued, recentQueries, verifiedAt>>

-----------------------------------------------------------------------------
(* An authenticated session *)

\* upstream.WriteMessage: what is written to a connection whose other end is
\* gone may vanish without an error; an error ends the handler.
WriteUpstream(c, events) ==
    \/ /\ Continue(c, {})
       /\ forwarded' = IF link[upstream[c]] = "open" THEN forwarded \cup events ELSE forwarded
       /\ UNCHANGED pipe
    \/ /\ Return(c, {})
       /\ UNCHANGED <<pipe, forwarded>>

\* An EVENT goes upstream only if its pubkey is the session's.
ReceiveEvent(c, p) ==
    /\ "event" \in Inputs
    /\ pc[c] = "reading"
    /\ pubkey[c] # NoPubkey
    /\ \/ /\ p = pubkey[c]
          /\ WriteUpstream(c, {[author |-> p, kind |-> 1, session |-> pubkey[c]]})
       \/ /\ p # pubkey[c]
          /\ Answer(c, {})
          /\ UNCHANGED forwarded
    /\ UNCHANGED <<envVars, cache, issued, recentQueries, verifiedAt, stored, confirmed, used>>

\* recordRelayQuery, first half: the entry's time is taken before queryMu.
ReceiveReq(c) ==
    /\ "req" \in Inputs
    /\ pc[c] = "reading"
    /\ pubkey[c] # NoPubkey
    /\ Goto(c, "record")
    /\ pending' = [pending EXCEPT ![c].now = now]
    /\ UNCHANGED <<envVars, linkVars, logVars, cache, issued, challenge, pubkey, upstream,
                   proof, seen, verdict, recentQueries, verifiedAt>>

\* Mutant: the new entry is appended, and the list cut at the same end as before.
RecordQuery_Appended(c) ==
    LET entry == [at |-> pending[c].now, pubkey |-> pubkey[c], by |-> challenge[c]]
        all   == recentQueries \o <<entry>>
    IN  /\ pc[c] = "record"
        /\ recentQueries' = SubSeq(all, 1, IF Len(all) > QueryLimit THEN QueryLimit ELSE Len(all))
        /\ Goto(c, "forward")
        /\ UNCHANGED <<envVars, linkVars, logVars, cache, issued, challenge, pubkey, upstream,
                       pending, proof, seen, verdict, verifiedAt>>

\* Second half, under queryMu: the entry is put first and the list cut to size.
RecordQuery(c) ==
    LET entry == [at |-> pending[c].now, pubkey |-> pubkey[c], by |-> challenge[c]]
        all   == <<entry>> \o recentQueries
    IN  /\ pc[c] = "record"
        /\ recentQueries' = SubSeq(all, 1, IF Len(all) > QueryLimit THEN QueryLimit ELSE Len(all))
        /\ Goto(c, "forward")
        /\ UNCHANGED <<envVars, linkVars, logVars, cache, issued, challenge, pubkey, upstream,
                       pending, proof, seen, verdict, verifiedAt>>

ForwardReq(c) ==
    /\ pc[c] = "forward"
    /\ WriteUpstream(c, {})
    /\ UNCHANGED <<envVars, cache, issued, recentQueries, verifiedAt, stored, confirmed, used>>

\* Everything else is passed on unread: CLOSE, a REQ without a filter, and an
\* AUTH sent again.
ForwardOther(c) ==
    /\ "other" \in Inputs
    /\ pc[c] = "reading"
    /\ pubkey[c] # NoPubkey
    /\ WriteUpstream(c, {})
    /\ UNCHANGED <<envVars, cache, issued, recentQueries, verifiedAt, stored, confirmed, used>>

-----------------------------------------------------------------------------
(* pipeUpstreamToClient *)

\* A message from upstream: written to the client whose session the pipe was
\* started for.  The write fails when that client is gone, known or not, and the
\* goroutine ends without closing anything.
PipeMessage(k) ==
    /\ pipe[k] # 0
    /\ link[k] = "open"
    /\ \/ \E c \in Conns :
             /\ challenge[c] = pipe[k]
             /\ seen' = [seen EXCEPT ![c] = @ \cup {"relayed"}]
             /\ UNCHANGED pipe
       \/ /\ pipe' = [pipe EXCEPT ![k] = 0]
          /\ UNCHANGED seen
    /\ UNCHANGED <<envVars, logVars, cache, issued, pc, challenge, pubkey, upstream, pending, proof,
                   verdict, link, serves, abandoned, recentQueries, verifiedAt>>

\* ReadMessage fails: the connection was closed here or lost there.  The client
\* is not told.
PipeEnds(k) ==
    /\ pipe[k] # 0
    /\ link[k] # "open"
    /\ pipe' = [pipe EXCEPT ![k] = 0]
    /\ UNCHANGED <<envVars, logVars, handlerVars, cache, issued, link, serves, abandoned,
                   recentQueries, verifiedAt>>

-----------------------------------------------------------------------------
(* The environment *)

Tick ==
    /\ now < MaxTime
    /\ now' = now + 1
    /\ UNCHANGED <<directory, handlerVars, linkVars, logVars, cache, issued, recentQueries, verifiedAt>>

\* External: Trustroots changes the key a username resolves to.
DirectoryChanges(u, p) ==
    /\ directory' = [directory EXCEPT ![u] = p]
    /\ UNCHANGED <<now, handlerVars, linkVars, logVars, cache, issued, recentQueries, verifiedAt>>

\* External: the upstream end of a connection goes away.
UpstreamLost(k) ==
    /\ link[k] = "open"
    /\ link' = [link EXCEPT ![k] = "lost"]
    /\ UNCHANGED <<envVars, handlerVars, logVars, pipe, serves, abandoned, cache, issued,
                   recentQueries, verifiedAt>>

\* The process stops and is started again: every connection and the list of
\* queries are gone, the database file is not.
Restart ==
    /\ pc' = [c \in Conns |-> "idle"]
    /\ challenge' = [c \in Conns |-> 0]
    /\ pubkey' = [c \in Conns |-> NoPubkey]
    /\ upstream' = [c \in Conns |-> NoLink]
    /\ pending' = [c \in Conns |-> NoPending]
    /\ verdict' = [c \in Conns |-> "none"]
    /\ proof' = [c \in Conns |-> NoEvent]
    /\ seen' = [c \in Conns |-> {}]
    /\ link' = [k \in Links |-> "closed"]
    /\ serves' = [k \in Links |-> NoPubkey]
    /\ abandoned' = {}
    /\ pipe' = [k \in Links |-> 0]
    /\ recentQueries' = <<>>
    /\ UNCHANGED <<envVars, logVars, cache, issued, verifiedAt>>

-----------------------------------------------------------------------------
(* The specification *)

\* The steps a handler takes by itself once it has read a message.
HandlerStep(c) ==
    \/ CheckCache(c) \/ LookupUsername(c) \/ VerifyNIP05(c) \/ PutCache(c)
    \/ DialUpstream(c) \/ AcceptAuth(c)
    \/ BootDial(c) \/ BootFails(c)
    \/ RecordQuery(c) \/ ForwardReq(c)

ClientMessage(c) ==
    \/ RefuseMessage(c)
    \/ \E e \in AuthEvent : ReceiveAuth(c, e)
    \/ ReceiveEmptyAuth(c)
    \/ \E p \in Pubkeys : ReceiveProfile(c, p)
    \/ \E p \in Pubkeys : ReceiveEvent(c, p)
    \/ ReceiveReq(c)
    \/ ForwardOther(c)

Environment ==
    \/ Tick
    \/ \E u \in Usernames, p \in Pubkeys \cup {NoPubkey} : DirectoryChanges(u, p)
    \/ \E k \in Links : UpstreamLost(k)
    \/ \E c \in Conns : UpstreamJudges(c)

Next ==
    \/ \E c \in Conns : OpenConn(c) \/ ClientCloses(c) \/ ClientMessage(c) \/ HandlerStep(c)
    \/ \E c \in Conns, frame \in Frame : BootFrame(c, frame)
    \/ \E k \in Links : PipeMessage(k) \/ PipeEnds(k)
    \/ Environment
    \/ Restart

Spec == Init /\ [][Next]_vars

\* The steps whose wait ends under a deadline: the profile lookups (a context
\* timeout and a read deadline for each relay), the NIP-05 request (its client's
\* timeout), the dial (the handshake timeout) and the wait for an OK (a read
\* deadline).  What is written to an upstream connection has no deadline, so an
\* EVENT or a REQ may hold its handler as long as upstream does not read it.
TimedStep(c) ==
    \/ CheckCache(c) \/ LookupUsername(c) \/ VerifyNIP05(c) \/ PutCache(c)
    \/ DialUpstream(c) \/ AcceptAuth(c) \/ BootFails(c)

\* The Go scheduler runs every handler, and a client that is there reads what it
\* is answered (the answers have no deadline either).  Upstream, the profile
\* relays and the directory owe nothing.
Fairness == \A c \in Conns : WF_vars(TimedStep(c))

FairSpec == Spec /\ Fairness

-----------------------------------------------------------------------------
(* Properties *)

HandlerTypeOK ==
    /\ pc \in [Conns -> Phases]
    /\ challenge \in [Conns -> Nat]
    /\ pubkey \in [Conns -> Pubkeys \cup {NoPubkey}]
    /\ upstream \in [Conns -> Links \cup {NoLink}]
    /\ pending \in [Conns -> Pending]
    /\ verdict \in [Conns -> {"none", "accepted", "rejected"}]
    /\ proof \in [Conns -> AuthEvent \cup {NoEvent}]
    /\ seen \in [Conns -> SUBSET {"OK", "relayed"}]

LinkTypeOK ==
    /\ link \in [Links -> {"closed", "open", "lost"}]
    /\ pipe \in [Links -> Nat]
    /\ serves \in [Links -> Pubkeys \cup {NoPubkey}]
    /\ abandoned \in SUBSET Links

SharedTypeOK ==
    /\ now \in Nat
    /\ directory \in [Usernames -> Pubkeys \cup {NoPubkey}]
    /\ cache \in [Pubkeys -> Row \cup {NoRow}]
    /\ issued \in Nat
    /\ recentQueries \in Seq(Query)
    /\ verifiedAt \in [Pubkeys -> [Usernames -> Int]]
    /\ forwarded \in SUBSET [author : Pubkeys, kind : {0, 1}, session : Pubkeys \cup {NoPubkey}]
    /\ stored \in SUBSET Pubkeys
    /\ confirmed \in SUBSET Pubkeys
    /\ used \in SUBSET (AuthEvent \cup {NoEvent})

\* Every variable of the gate keeps the kind of value its declaration gives it:
\* no row without a username, no session of nobody in the list of queries.
TypeOK == HandlerTypeOK /\ LinkTypeOK /\ SharedTypeOK

\* A cached row never outlives the NIP-05 check it rests on by more than the TTL,
\* and names the username that was checked: authenticate may put rows out of
\* order, lookups may take long, the directory may change and the process may
\* restart in between.
CacheBacked ==
    \A p \in Pubkeys :
        cache[p] # NoRow => cache[p].expiresAt <= verifiedAt[p][cache[p].username] + TTL

\* The phases in which a decision on an AUTH event is open.
Deciding(c) ==
    /\ pc[c] \in {"cache", "lookup", "nip05", "put", "dial"}
    /\ pending[c].pubkey # NoPubkey

\* The sessions of the gate keep the contract of AdmissionContract: identities
\* are given once, on a NIP-05 link confirmed less than TTL before the AUTH came
\* in, through cache hits, slow lookups, a changing directory and restarts.
Contract == INSTANCE AdmissionContract WITH
    checked <- verifiedAt,
    asked   <- [c \in Conns |-> IF Deciding(c) THEN pending[c].now ELSE -1],
    session <- pubkey

\* Every step of the gate is a step the contract allows, or changes nothing in it.
KeepsContract == Contract!Spec

\* A signed AUTH event authenticates one session and no other after it: not on
\* another connection, not after a reconnection, not after a restart (auth.Verify
\* compares the challenge of the connection, and no challenge is handed out twice).
OneProofOneSession ==
    [][\A c \in Conns : pubkey[c] = NoPubkey /\ pubkey'[c] # NoPubkey => proof[c] \notin used]_vars

\* Connection k carries the session of handler c, or the profile it forwards.
CarriedBy(k, c) ==
    \/ pc[c] # "idle" /\ upstream[c] = k /\ serves[k] = pubkey[c]
    \/ pc[c] = "bootWait" /\ pending[c].link = k

\* Whatever way a handler returns or goes on, an upstream connection that is not
\* closed still has the handler that dialed it.  The exception is a connection
\* dialed for an AUTH message without an event and overwritten by the dial of the
\* next AUTH: nothing closes it before the process stops.  No connection of an
\* authenticated session is ever left that way.
UpstreamReleased ==
    \A k \in Links : link[k] # "closed" =>
        \/ \E c \in Conns : CarriedBy(k, c)
        \/ k \in abandoned /\ serves[k] = NoPubkey

\* What the upstream relay has been sent is a self-signed profile from a client
\* not authenticated yet, or an event of a key that NIP-05 has linked to a
\* username at some time, sent by that key's session: whether the session was
\* admitted by a check or by a row of the cache, before a restart or after it.
ForwardedIsBacked ==
    \A f \in forwarded :
        \/ f.kind = 0 /\ f.session = NoPubkey
        \/ f.session = f.author /\ \E u \in Usernames : verifiedAt[f.session][u] # -1

\* A client sees nothing from upstream before the OK that answers its AUTH: the
\* pipe goroutine starts only after that OK is written.
RelayedAfterOK ==
    \A c \in Conns : "relayed" \in seen[c] => "OK" \in seen[c]

\* A client told that its profile was accepted can rely on it: upstream stored
\* it, however late, lost or unrelated the frames on the bootstrap connection.
ConfirmedMeansStored == confirmed \subseteq stored

\* The list the hub shows is cut to its limit, and the queries of one connection
\* stand in it newest first, although their times are taken outside the lock.
QueriesInOrder ==
    /\ Len(recentQueries) <= QueryLimit
    /\ \A i, j \in DOMAIN recentQueries :
         i < j /\ recentQueries[i].by = recentQueries[j].by =>
            recentQueries[i].at >= recentQueries[j].at

\* A handler that authenticates a client, or waits for upstream's OK to a profile,
\* comes back to read the next message or returns: a profile relay, a directory
\* or an upstream relay that is silent costs a client its timeouts, one after the
\* other, and no more.
HandlerReturns ==
    \A c \in Conns :
        pc[c] \in {"cache", "lookup", "nip05", "put", "dial", "accept", "bootWait"}
            ~> pc[c] \in {"idle", "reading"}
============================================================================
