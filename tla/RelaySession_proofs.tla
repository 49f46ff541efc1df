------------------------ MODULE RelaySession_proofs ------------------------
(***************************************************************************)
(* The sessions of the relay gate, for any number of connections, keys and *)
(* upstream connections: an AUTH event authenticates one session, upstream *)
(* connections are released with their handlers, what is forwarded has a   *)
(* NIP-05 check behind it, and what a client is told, in which order,      *)
(* agrees with what happened upstream.                                     *)
(*                                                                         *)
(* The first two parts below tie a session to the challenge it was opened  *)
(* with, which no other connection has; the others follow a profile, an    *)
(* event and a query from the message to the place where they end.         *)
(***************************************************************************)
EXTENDS RelayGate_proofs

(* A connection that is up has a challenge of its own; one that is not has  *)
(* nothing.                                                                 *)
ChallengeOK ==
    /\ \A c \in Conns : challenge[c] <= issued /\ (pc[c] = "idle" <=> challenge[c] = 0)
    /\ \A c, d \in Conns : c # d /\ challenge[c] = challenge[d] => challenge[c] = 0
    /\ \A c \in Conns : pc[c] = "idle" => pubkey[c] = NoPubkey /\ seen[c] = {}

(* The connection is authenticated or being so. *)
Claims(c) == pubkey[c] # NoPubkey \/ Deciding(c)

ProofOK == \A c \in Conns : Claims(c) => proof[c] \in AuthEvent /\ proof[c].challenge = challenge[c]

(* An AUTH event that was used carries a challenge handed out already, and  *)
(* the connection that has this challenge is the one it authenticated.      *)
UsedOK ==
    /\ \A e \in used : e \in AuthEvent /\ e.challenge <= issued
    /\ \A e \in used : \A c \in Conns : challenge[c] = e.challenge => pubkey[c] # NoPubkey

(* A pipe goroutine writes to a client that has had its OK, or to nobody. *)
PipeOK ==
    /\ \A k \in Links : pipe[k] <= issued
    /\ \A k \in Links, c \in Conns : pipe[k] # 0 /\ challenge[c] = pipe[k] => "OK" \in seen[c]
    /\ RelayedAfterOK

Identity == ChallengeOK /\ ProofOK /\ UsedOK /\ PipeOK

(* Upstream's judgement of a profile is known while the handler waits for it. *)
VerdictOK ==
    /\ \A c \in Conns : pc[c] # "bootWait" => verdict[c] = "none"
    /\ \A c \in Conns : verdict[c] = "accepted" => pending[c].pubkey \in stored
    /\ ConfirmedMeansStored

(* A query that is about to be recorded is not older than its connection's  *)
(* entries.                                                                 *)
QueryOK ==
    /\ QueriesInOrder
    /\ \A i \in DOMAIN recentQueries : recentQueries[i].at <= now
    /\ \A c \in Conns, i \in DOMAIN recentQueries :
          pc[c] = "record" /\ recentQueries[i].by = challenge[c] =>
             recentQueries[i].at <= pending[c].now

-----------------------------------------------------------------------------
(* Identities.  In any step but the opening of a connection, a connection   *)
(* ends or stays what it is.                                                *)

Ends(c) == challenge'[c] = 0 /\ pc'[c] = "idle" /\ pubkey'[c] = NoPubkey /\ seen'[c] = {}

Stays(c) ==
    /\ challenge'[c] = challenge[c]
    /\ pc'[c] = "idle" <=> pc[c] = "idle"
    /\ pc[c] = "idle" => pubkey'[c] = pubkey[c] /\ seen'[c] = seen[c]
    /\ "OK" \in seen[c] => "OK" \in seen'[c]
    /\ "relayed" \in seen'[c] => "relayed" \in seen[c] \/ "OK" \in seen[c]
    /\ pubkey[c] # NoPubkey => pubkey'[c] # NoPubkey
    /\ pubkey'[c] # NoPubkey => Claims(c)
    /\ Claims(c)' => \/ (Claims(c) /\ proof'[c] = proof[c])
                     \/ (proof'[c] \in AuthEvent /\ proof'[c].challenge = challenge[c])

(* A pipe goroutine goes on, ends, or starts for a client that has its OK. *)
PipeStep(k) ==
    \/ pipe'[k] \in {pipe[k], 0}
    \/ \E c \in Conns : Stays(c) /\ pipe'[k] = challenge[c] /\ "OK" \in seen'[c]

(* An AUTH event is used for the connection it was sent on. *)
UsedStep ==
    \/ used' = used
    \/ \E c \in Conns :
          /\ pc[c] # "idle" /\ Claims(c) /\ pubkey'[c] # NoPubkey /\ Stays(c)
          /\ used' = used \cup {proof[c]}

(* A connection is authenticated by the AUTH event it has under way. *)
Admits == \A c \in Conns : pubkey'[c] # NoPubkey => Claims(c)

IdentityStep == Identity' /\ Admits

LEMMA IdentitySteps ==
    ASSUME TypeOK, TypeOK', Identity, issued' = issued,
           \A c \in Conns : Stays(c) \/ Ends(c),
           \A k \in Links : PipeStep(k),
           UsedStep
    PROVE  IdentityStep
<1> USE DEF Identity, TypeOK, HandlerTypeOK, LinkTypeOK, SharedTypeOK
<1>1. ChallengeOK'
  BY DEF ChallengeOK, Stays, Ends
<1>2. ProofOK'
  <2> SUFFICES ASSUME NEW c \in Conns, Claims(c)'
               PROVE  (proof[c] \in AuthEvent /\ proof[c].challenge = challenge[c])'
    BY DEF ProofOK
  <2>1. CASE Stays(c)
    BY <2>1 DEF Stays, ProofOK
  <2>2. CASE Ends(c)
    BY <2>2 DEF Ends, Claims, Deciding
  <2> QED BY <2>1, <2>2
<1>3. RelayedAfterOK'
  BY DEF PipeOK, RelayedAfterOK, Stays, Ends
<1>4. ASSUME NEW k \in Links PROVE pipe'[k] <= issued'
  <2>1. PipeStep(k) /\ pipe[k] <= issued /\ 0 <= issued
    BY DEF PipeOK
  <2>2. \A c \in Conns : challenge[c] <= issued
    BY DEF ChallengeOK
  <2> QED BY <2>1, <2>2 DEF PipeStep
<1>5. ASSUME NEW k \in Links, NEW c \in Conns, pipe'[k] # 0, challenge'[c] = pipe'[k]
      PROVE  "OK" \in seen'[c]
  <2>1. Stays(c) /\ challenge[c] = challenge'[c]
    BY <1>5 DEF Stays, Ends
  <2>2. CASE pipe'[k] = pipe[k]
    BY <1>5, <2>1, <2>2 DEF PipeOK, Stays
  <2>3. ASSUME NEW d \in Conns, Stays(d), pipe'[k] = challenge[d], "OK" \in seen'[d]
        PROVE  "OK" \in seen'[c]
    BY <1>5, <2>1, <2>3 DEF ChallengeOK
  <2> QED BY <1>5, <2>2, <2>3 DEF PipeStep
<1>6. \A d \in Conns : pubkey[d] # NoPubkey /\ challenge'[d] # 0 => pubkey'[d] # NoPubkey
  BY DEF Stays, Ends
<1>7. \A d \in Conns : challenge'[d] \in {0, challenge[d]}
  BY DEF Stays, Ends
<1>8. \A e \in AuthEvent : e.challenge \in Nat \ {0}
  BY DEF AuthEvent
<1>9. UsedOK'
  <2>1. CASE used' = used
    BY <1>6, <1>7, <1>8, <2>1 DEF UsedOK
  <2>2. ASSUME NEW c \in Conns, pc[c] # "idle", Claims(c), pubkey'[c] # NoPubkey,
               used' = used \cup {proof[c]}
        PROVE  UsedOK'
    <3>1. /\ proof[c] \in AuthEvent /\ proof[c].challenge = challenge[c]
          /\ challenge[c] <= issued
      BY <2>2 DEF ProofOK, ChallengeOK
    <3>2. ASSUME NEW d \in Conns, challenge'[d] = proof[c].challenge PROVE d = c
      BY <1>7, <1>8, <3>1, <3>2 DEF ChallengeOK
    <3>3. \A e \in used' : e \in AuthEvent /\ e.challenge <= issued'
      BY <2>2, <3>1 DEF UsedOK
    <3>4. ASSUME NEW e \in used', NEW d \in Conns, challenge'[d] = e.challenge
          PROVE  pubkey'[d] # NoPubkey
      <4>1. CASE e = proof[c]
        BY <2>2, <3>2, <3>4, <4>1
      <4>2. CASE e \in used
        <5>1. challenge'[d] # 0
          BY <1>8, <3>4, <4>2 DEF UsedOK
        <5>2. challenge[d] = e.challenge
          BY <1>7, <3>4, <5>1
        <5> QED BY <1>6, <4>2, <5>1, <5>2 DEF UsedOK
      <4> QED BY <2>2, <3>4, <4>1, <4>2
    <3> QED BY <3>3, <3>4 DEF UsedOK
  <2> QED BY <2>1, <2>2 DEF UsedStep
<1>10. Admits
  BY DEF Admits, Stays, Ends
<1> QED BY <1>1, <1>2, <1>3, <1>4, <1>5, <1>9, <1>10 DEF PipeOK, IdentityStep

LEMMA ContinueStays ==
    ASSUME TypeOK, NEW c \in Conns, NEW S, Continue(c, S), pc[c] # "idle"
    PROVE  \A d \in Conns : Stays(d)
<1>1. ASSUME NEW d \in Conns, d # c PROVE Stays(d)
  BY <1>1 DEF Continue, Stays, Claims, Deciding, TypeOK, HandlerTypeOK
<1>2. Stays(c)
  BY DEF Continue, Stays, Claims, Deciding, TypeOK, HandlerTypeOK
<1> QED BY <1>1, <1>2

LEMMA ReturnEnds ==
    ASSUME TypeOK, NEW c \in Conns, NEW S, Return(c, S)
    PROVE  \A d \in Conns : Stays(d) \/ Ends(d)
<1>1. ASSUME NEW d \in Conns, d # c PROVE Stays(d)
  BY <1>1 DEF Return, Stays, Claims, Deciding, TypeOK, HandlerTypeOK
<1>2. Ends(c)
  BY DEF Return, Ends, TypeOK, HandlerTypeOK
<1> QED BY <1>1, <1>2

(* A step that leaves connections as they are. *)
LEMMA UntouchedStays ==
    ASSUME UNCHANGED <<pc, challenge, pubkey, pending, proof, seen>>
    PROVE  \A d \in Conns : Stays(d)
BY DEF Stays, Claims, Deciding

(* A handler goes on to its next phase without a new identity. *)
LEMMA PhaseStays ==
    ASSUME TypeOK, NEW c \in Conns, NEW phase \in Phases \ {"idle"}, pc[c] # "idle",
           Goto(c, phase), UNCHANGED <<challenge, pubkey, proof, seen>>,
           \A d \in Conns \ {c} : pending'[d] = pending[d],
           Deciding(c)' => Claims(c)
    PROVE  \A d \in Conns : Stays(d)
<1>1. ASSUME NEW d \in Conns, d # c PROVE Stays(d)
  BY <1>1 DEF Goto, Stays, Claims, Deciding, TypeOK, HandlerTypeOK
<1>2. Stays(c)
  BY DEF Goto, Stays, Claims, TypeOK, HandlerTypeOK
<1> QED BY <1>1, <1>2

LEMMA InitIdentity == Init => Identity
BY ConstantsAssumption
   DEF Init, Identity, ChallengeOK, ProofOK, UsedOK, PipeOK, RelayedAfterOK, Claims, Deciding

LEMMA StepIdentity == IInv /\ Identity /\ [Next]_vars => IdentityStep
<1> SUFFICES ASSUME TypeOK, PhaseOK, Evidence, Identity, [Next]_vars PROVE IdentityStep
  BY DEF IInv
<1>0. TypeOK' /\ PhaseOK'
  BY StepTypes
<1> DEFINE Framed == /\ issued' = issued
                     /\ \A d \in Conns : Stays(d) \/ Ends(d)
                     /\ \A k \in Links : PipeStep(k)
                     /\ UsedStep
<1> USE ConstantsAssumption DEF handlerVars, linkVars, envVars, logVars
<1>a. Framed => IdentityStep
  BY <1>0, IdentitySteps
<1>b. UNCHANGED pipe => \A k \in Links : PipeStep(k)
  BY DEF PipeStep
<1>u. UNCHANGED used => UsedStep
  BY DEF UsedStep
<1>c. ASSUME NEW c \in Conns, NEW S, Continue(c, S) \/ Return(c, S), pc[c] # "idle",
             UNCHANGED <<issued, pipe, used>>
      PROVE  Framed
  BY <1>b, <1>u, <1>c, ContinueStays, ReturnEnds
<1>d. UNCHANGED <<issued, pipe, used, pc, challenge, pubkey, pending, proof, seen>> => Framed
  BY <1>b, <1>u, UntouchedStays
<1>e. ASSUME NEW c \in Conns, NEW phase \in Phases \ {"idle"}, pc[c] # "idle", Goto(c, phase),
             UNCHANGED <<issued, pipe, used, challenge, pubkey, proof, seen>>,
             \A d \in Conns \ {c} : pending'[d] = pending[d], Deciding(c)' => Claims(c)
      PROVE  Framed
  BY <1>b, <1>u, <1>e, PhaseStays
<1> HIDE DEF Framed
<1>1. ASSUME NEW c \in Conns, OpenConn(c) PROVE IdentityStep
  <2>1. /\ issued' = issued + 1 /\ pc[c] = "idle"
        /\ challenge' = [challenge EXCEPT ![c] = issued + 1]
        /\ pc' = [pc EXCEPT ![c] = "reading"]
        /\ UNCHANGED <<pubkey, pending, proof, seen, pipe, used>>
    BY <1>1 DEF OpenConn, Goto
  <2>2. ChallengeOK'
    BY <2>1 DEF Identity, ChallengeOK, TypeOK, HandlerTypeOK, SharedTypeOK
  <2>3. ProofOK'
    BY <2>1 DEF Identity, ProofOK, ChallengeOK, Claims, Deciding, TypeOK, HandlerTypeOK
  <2>4. PipeOK'
    BY <2>1 DEF Identity, PipeOK, RelayedAfterOK, TypeOK, HandlerTypeOK, LinkTypeOK, SharedTypeOK
  <2>5. UsedOK'
    <3>1. \A e \in used : e.challenge \in Nat /\ e.challenge <= issued /\ issued \in Nat
      BY DEF Identity, UsedOK, AuthEvent, TypeOK, SharedTypeOK
    <3>2. \A e \in used : e.challenge <= issued' /\ e.challenge # issued'
      BY <2>1, <3>1
    <3> QED BY <2>1, <3>2 DEF Identity, UsedOK, TypeOK, HandlerTypeOK
  <2>6. Admits
    BY <2>1 DEF Admits, Claims
  <2> QED BY <2>2, <2>3, <2>4, <2>5, <2>6 DEF Identity, IdentityStep
<1>2. ASSUME NEW c \in Conns, ClientCloses(c) PROVE IdentityStep
  BY <1>2, <1>a, <1>c DEF ClientCloses, Answer, WriteUpstream
<1>3. ASSUME NEW c \in Conns, RefuseMessage(c) PROVE IdentityStep
  BY <1>3, <1>a, <1>c DEF RefuseMessage, Answer, WriteUpstream
<1>4. ASSUME NEW c \in Conns, NEW e \in AuthEvent, ReceiveAuth(c, e) PROVE IdentityStep
  <2>1. CASE Answer(c, {})
    BY <1>4, <2>1, <1>a, <1>c DEF ReceiveAuth, Answer
  <2>2. CASE ~Answer(c, {})
    <3>1. /\ pc[c] = "reading" /\ e.challenge = challenge[c]
          /\ pc' = [pc EXCEPT ![c] = "cache"]
          /\ proof' = [proof EXCEPT ![c] = e]
          /\ \A d \in Conns \ {c} : pending'[d] = pending[d]
          /\ UNCHANGED <<issued, pipe, used, challenge, pubkey, seen>>
      BY <1>4, <2>2 DEF ReceiveAuth, Goto, Verify, TypeOK, HandlerTypeOK
    <3>2. ASSUME NEW d \in Conns, d # c PROVE Stays(d)
      BY <3>1, <3>2 DEF Stays, Claims, Deciding, TypeOK, HandlerTypeOK
    <3>3. Stays(c)
      <4>1. /\ proof'[c] = e /\ pc'[c] = "cache" /\ pubkey'[c] = pubkey[c] /\ pubkey[c] = NoPubkey
            /\ challenge'[c] = challenge[c] /\ seen'[c] = seen[c]
        BY <1>4, <2>2, <3>1 DEF ReceiveAuth, TypeOK, HandlerTypeOK
      <4> QED BY <3>1, <4>1 DEF Stays
    <3> QED BY <1>a, <1>b, <1>u, <3>1, <3>2, <3>3 DEF Framed
  <2> QED BY <2>1, <2>2
<1>5. ASSUME NEW c \in Conns, ReceiveEmptyAuth(c) PROVE IdentityStep
  <2>1. ~Deciding(c)'
    BY <1>5 DEF ReceiveEmptyAuth, Deciding, Evidence, RestOK
  <2> QED BY <1>5, <2>1, <1>a, <1>e DEF ReceiveEmptyAuth, Phases
<1>6. ASSUME NEW c \in Conns, CheckCache(c) PROVE IdentityStep
  <2>1. CASE Answer(c, {})
    BY <1>6, <2>1, <1>a, <1>c DEF CheckCache, Answer
  <2>2. CASE ~Answer(c, {})
    <3>1. Deciding(c)
      BY <1>6 DEF CheckCache, PhaseOK, Deciding
    <3> QED BY <1>6, <2>2, <3>1, <1>a, <1>e DEF CheckCache, Claims, Phases
  <2> QED BY <2>1, <2>2
<1>7. ASSUME NEW c \in Conns, LookupUsername(c) PROVE IdentityStep
  <2>1. CASE Answer(c, {})
    BY <1>7, <2>1, <1>a, <1>c DEF LookupUsername, Answer
  <2>2. CASE ~Answer(c, {})
    <3>1. Deciding(c)
      BY <1>7 DEF LookupUsername, PhaseOK, Deciding
    <3>2. \A d \in Conns \ {c} : pending'[d] = pending[d]
      BY <1>7, <2>2 DEF LookupUsername, TypeOK, HandlerTypeOK
    <3>3. Goto(c, "nip05") \/ Goto(c, "lookup")
      BY <1>7, <2>2 DEF LookupUsername, Goto, TypeOK, HandlerTypeOK
    <3> QED BY <1>7, <2>2, <3>1, <3>2, <3>3, <1>a, <1>e DEF LookupUsername, Claims, Phases
  <2> QED BY <2>1, <2>2
<1>8. ASSUME NEW c \in Conns, VerifyNIP05(c) PROVE IdentityStep
  <2>1. CASE Answer(c, {})
    BY <1>8, <2>1, <1>a, <1>c DEF VerifyNIP05, Answer
  <2>2. CASE ~Answer(c, {})
    <3>1. Deciding(c)
      BY <1>8 DEF VerifyNIP05, PhaseOK, Deciding
    <3> QED BY <1>8, <2>2, <3>1, <1>a, <1>e DEF VerifyNIP05, Claims, Phases
  <2> QED BY <2>1, <2>2
<1>9. ASSUME NEW c \in Conns, PutCache(c) PROVE IdentityStep
  <2>1. CASE Answer(c, {})
    BY <1>9, <2>1, <1>a, <1>c DEF PutCache, Answer
  <2>2. CASE ~Answer(c, {})
    <3>1. Deciding(c)
      BY <1>9 DEF PutCache, PhaseOK, Deciding
    <3> QED BY <1>9, <2>2, <3>1, <1>a, <1>e DEF PutCache, Claims, Phases
  <2> QED BY <2>1, <2>2
<1>10. ASSUME NEW c \in Conns, DialUpstream(c) PROVE IdentityStep
  <2>1. CASE Answer(c, {}) /\ UNCHANGED used
    BY <1>10, <2>1, <1>a, <1>c DEF DialUpstream, Answer
  <2>2. CASE ~(Answer(c, {}) /\ UNCHANGED used)
    <3>1. /\ pc[c] = "dial" /\ pubkey[c] = NoPubkey
          /\ pc' = [pc EXCEPT ![c] = "accept"]
          /\ pubkey' = [pubkey EXCEPT ![c] = pending[c].pubkey]
          /\ used' = IF pending[c].pubkey = NoPubkey THEN used ELSE used \cup {proof[c]}
          /\ UNCHANGED <<issued, pipe, challenge, pending, proof, seen>>
      BY <1>10, <2>2 DEF DialUpstream, Goto, Recorded, PhaseOK
    <3>2. ASSUME NEW d \in Conns, d # c PROVE Stays(d)
      BY <3>1, <3>2 DEF Stays, Claims, Deciding, TypeOK, HandlerTypeOK
    <3>3. Stays(c)
      BY <3>1 DEF Stays, Claims, Deciding, TypeOK, HandlerTypeOK
    <3>4. CASE pending[c].pubkey = NoPubkey
      BY <1>a, <1>b, <1>u, <3>1, <3>2, <3>3, <3>4 DEF Framed
    <3>5. CASE pending[c].pubkey # NoPubkey
      <4>1. Claims(c) /\ pubkey'[c] # NoPubkey
        BY <3>1, <3>5 DEF Claims, Deciding, TypeOK, HandlerTypeOK
      <4>2. UsedStep
        BY <3>1, <3>3, <3>5, <4>1 DEF UsedStep
      <4> QED BY <1>a, <1>b, <3>1, <3>2, <3>3, <4>2 DEF Framed
    <3> QED BY <3>4, <3>5
  <2> QED BY <2>1, <2>2
<1>11. ASSUME NEW c \in Conns, AcceptAuth(c) PROVE IdentityStep
  <2>1. CASE Return(c, {}) /\ UNCHANGED pipe
    BY <1>11, <2>1, <1>a, <1>c DEF AcceptAuth
  <2>2. CASE /\ Goto(c, "reading")
             /\ seen' = [seen EXCEPT ![c] = @ \cup {"OK"}]
             /\ pipe' = [pipe EXCEPT ![upstream[c]] = challenge[c]]
             /\ pending' = [pending EXCEPT ![c] = NoPending]
             /\ UNCHANGED <<link, serves, abandoned, challenge, pubkey, upstream, proof, verdict>>
    <3>1. ASSUME NEW d \in Conns, d # c PROVE Stays(d)
      BY <2>2, <3>1 DEF Goto, Stays, Claims, Deciding, TypeOK, HandlerTypeOK
    <3>2. Stays(c)
      BY <1>11, <2>2 DEF AcceptAuth, Goto, Stays, Claims, Deciding, TypeOK, HandlerTypeOK
    <3>3. "OK" \in seen'[c]
      BY <2>2 DEF TypeOK, HandlerTypeOK
    <3>4. ASSUME NEW k \in Links PROVE PipeStep(k)
      BY <2>2, <3>2, <3>3 DEF PipeStep, TypeOK, LinkTypeOK
    <3> QED BY <1>11, <1>a, <1>u, <3>1, <3>2, <3>4 DEF AcceptAuth, Framed
  <2> QED BY <1>11, <2>1, <2>2 DEF AcceptAuth
<1>12. ASSUME NEW c \in Conns, NEW p \in Pubkeys, ReceiveProfile(c, p) PROVE IdentityStep
  <2>1. ~Deciding(c)'
    BY <1>12 DEF ReceiveProfile, Goto, Deciding, TypeOK, HandlerTypeOK
  <2>2. \A d \in Conns \ {c} : pending'[d] = pending[d]
    BY <1>12 DEF ReceiveProfile, TypeOK, HandlerTypeOK
  <2> QED BY <1>12, <2>1, <2>2, <1>a, <1>e DEF ReceiveProfile, Phases
<1>13. ASSUME NEW c \in Conns, BootDial(c) PROVE IdentityStep
  <2>1. CASE Answer(c, {})
    BY <1>13, <2>1, <1>a, <1>c DEF BootDial, Answer
  <2>2. CASE ~Answer(c, {})
    <3>1. ~Deciding(c)'
      BY <1>13, <2>2 DEF BootDial, Goto, Deciding, TypeOK, HandlerTypeOK
    <3>2. \A d \in Conns \ {c} : pending'[d] = pending[d]
      BY <1>13, <2>2 DEF BootDial, TypeOK, HandlerTypeOK
    <3> QED BY <1>13, <2>2, <3>1, <3>2, <1>a, <1>e DEF BootDial, Phases
  <2> QED BY <2>1, <2>2
<1>14. ASSUME NEW c \in Conns, UpstreamJudges(c) PROVE IdentityStep
  BY <1>14, <1>a, <1>d DEF UpstreamJudges
<1>15. ASSUME NEW c \in Conns, NEW frame \in Frame, BootFrame(c, frame) PROVE IdentityStep
  BY <1>15, <1>a, <1>c, <1>d DEF BootFrame
<1>16. ASSUME NEW c \in Conns, BootFails(c) PROVE IdentityStep
  BY <1>16, <1>a, <1>c DEF BootFails, Answer, WriteUpstream
<1>17. ASSUME NEW c \in Conns, NEW p \in Pubkeys, ReceiveEvent(c, p) PROVE IdentityStep
  BY <1>17, <1>a, <1>c DEF ReceiveEvent, Answer, WriteUpstream
<1>18. ASSUME NEW c \in Conns, ReceiveReq(c) PROVE IdentityStep
  <2>1. ~Deciding(c)'
    BY <1>18 DEF ReceiveReq, Goto, Deciding, TypeOK, HandlerTypeOK
  <2>2. \A d \in Conns \ {c} : pending'[d] = pending[d]
    BY <1>18 DEF ReceiveReq, TypeOK, HandlerTypeOK
  <2> QED BY <1>18, <2>1, <2>2, <1>a, <1>e DEF ReceiveReq, Phases
<1>19. ASSUME NEW c \in Conns, RecordQuery(c) PROVE IdentityStep
  <2>1. ~Deciding(c)'
    BY <1>19 DEF RecordQuery, Goto, Deciding, TypeOK, HandlerTypeOK
  <2> QED BY <1>19, <2>1, <1>a, <1>e DEF RecordQuery, Phases
<1>20. ASSUME NEW c \in Conns, ForwardReq(c) PROVE IdentityStep
  BY <1>20, <1>a, <1>c DEF ForwardReq, Answer, WriteUpstream
<1>21. ASSUME NEW c \in Conns, ForwardOther(c) PROVE IdentityStep
  BY <1>21, <1>a, <1>c DEF ForwardOther, Answer, WriteUpstream
<1>22. ASSUME NEW k \in Links, PipeMessage(k) PROVE IdentityStep
  <2>1. \A j \in Links : PipeStep(j)
    BY <1>22 DEF PipeMessage, PipeStep, TypeOK, LinkTypeOK
  <2>2. ASSUME NEW c \in Conns, challenge[c] = pipe[k], seen' = [seen EXCEPT ![c] = @ \cup {"relayed"}]
        PROVE  \A d \in Conns : Stays(d)
    <3>1. pc[c] # "idle" /\ "OK" \in seen[c]
      BY <1>22, <2>2 DEF PipeMessage, Identity, ChallengeOK, PipeOK
    <3>2. /\ "OK" \in seen'[c] /\ \A d \in Conns \ {c} : seen'[d] = seen[d]
          /\ UNCHANGED <<pc, challenge, pubkey, pending, proof>>
      BY <1>22, <2>2, <3>1 DEF PipeMessage, TypeOK, HandlerTypeOK
    <3> QED BY <3>1, <3>2 DEF Stays, Claims, Deciding
  <2>3. ASSUME UNCHANGED seen PROVE \A d \in Conns : Stays(d)
    <3>1. UNCHANGED <<pc, challenge, pubkey, pending, proof, seen>>
      BY <1>22, <2>3 DEF PipeMessage
    <3> QED BY <3>1, UntouchedStays
  <2>4. \A d \in Conns : Stays(d)
    <3>1. \/ \E c \in Conns : challenge[c] = pipe[k] /\ seen' = [seen EXCEPT ![c] = @ \cup {"relayed"}]
          \/ UNCHANGED seen
      BY <1>22 DEF PipeMessage
    <3> QED BY <2>2, <2>3, <3>1
  <2> QED BY <1>22, <1>a, <1>u, <2>1, <2>4 DEF PipeMessage, Framed
<1>23. ASSUME NEW k \in Links, PipeEnds(k) PROVE IdentityStep
  <2>1. \A j \in Links : PipeStep(j)
    BY <1>23 DEF PipeEnds, PipeStep, TypeOK, LinkTypeOK
  <2> QED BY <1>23, <2>1, <1>a, <1>u, UntouchedStays DEF PipeEnds, Framed
<1>24. ASSUME Tick PROVE IdentityStep
  BY <1>24, <1>a, <1>d DEF Tick
<1>25. ASSUME NEW u \in Usernames, NEW p \in Pubkeys \cup {NoPubkey}, DirectoryChanges(u, p) PROVE IdentityStep
  BY <1>25, <1>a, <1>d DEF DirectoryChanges
<1>26. ASSUME NEW k \in Links, UpstreamLost(k) PROVE IdentityStep
  BY <1>26, <1>a, <1>d DEF UpstreamLost
<1>27. ASSUME Restart PROVE IdentityStep
  <2>1. \A d \in Conns : Ends(d)
    BY <1>27 DEF Restart, Ends
  <2>2. \A k \in Links : PipeStep(k)
    BY <1>27 DEF Restart, PipeStep
  <2> QED BY <1>27, <1>a, <1>u, <2>1, <2>2 DEF Restart, Framed
<1>28. CASE UNCHANGED vars
  BY <1>28, <1>a, <1>d DEF vars
<1> QED
  BY <1>1, <1>2, <1>3, <1>4, <1>5, <1>6, <1>7, <1>8, <1>9, <1>10, <1>11, <1>12, <1>13, <1>14, <1>15, <1>16, <1>17, <1>18, <1>19, <1>20, <1>21, <1>22, <1>23, <1>24, <1>25, <1>26, <1>27, <1>28
  DEF Next, HandlerStep, ClientMessage, Environment

-----------------------------------------------------------------------------
(* Upstream connections.  Each has one handler at most: the one whose        *)
(* variable, or whose nested call, holds it.                                *)

Holds(c, k) == upstream[c] = k \/ pending[c].link = k

LinksOK ==
    /\ \A c \in Conns, k \in Links : Holds(c, k) => link[k] # "closed" /\ pc[c] # "idle"
    /\ \A c, d \in Conns, k \in Links : Holds(c, k) /\ Holds(d, k) => c = d
    /\ \A c \in Conns, k \in Links : upstream[c] = k => serves[k] = pubkey[c] /\ pending[c].link # k
    /\ \A c \in Conns, k \in Links : pending[c].link = k => pc[c] = "bootWait"
    /\ UpstreamReleased

(* Nobody holds connection k after the step, which closes it, or everybody  *)
(* holds it as before, for the same key.                                    *)
Closes(k) == link'[k] = "closed" /\ \A c \in Conns : ~Holds(c, k)'

Keeps(k) ==
    /\ link'[k] = "closed" <=> link[k] = "closed"
    /\ serves'[k] = serves[k]
    /\ k \in abandoned => k \in abandoned'
    /\ \A c \in Conns : (upstream'[c] = k <=> upstream[c] = k) /\ (pending'[c].link = k <=> pending[c].link = k)
    /\ \A c \in Conns : Holds(c, k) => pubkey'[c] = pubkey[c] /\ pc'[c] # "idle"
    /\ \A c \in Conns : pending[c].link = k => pc'[c] = "bootWait"

LinkStep(k) == Closes(k) \/ Keeps(k)

LEMMA LinkSteps ==
    ASSUME LinksOK, \A k \in Links : LinkStep(k)
    PROVE  LinksOK'
<1>1. ASSUME NEW k \in Links, NEW c \in Conns, Holds(c, k)'
      PROVE  /\ Keeps(k) /\ Holds(c, k)
             /\ link'[k] # "closed" /\ pc'[c] # "idle"
             /\ upstream'[c] = k => serves'[k] = pubkey'[c] /\ pending'[c].link # k
             /\ pending'[c].link = k => pc'[c] = "bootWait"
  <2>1. Keeps(k) /\ Holds(c, k)
    BY <1>1 DEF LinkStep, Closes, Keeps, Holds
  <2> QED BY <1>1, <2>1 DEF LinksOK, Keeps, Holds
<1>2. \A c, d \in Conns, k \in Links : Holds(c, k)' /\ Holds(d, k)' => c = d
  BY <1>1 DEF LinksOK
<1>3. ASSUME NEW k \in Links, link'[k] # "closed"
      PROVE  (\E c \in Conns : CarriedBy(k, c)') \/ (k \in abandoned' /\ serves'[k] = NoPubkey)
  <2>1. Keeps(k) /\ link[k] # "closed"
    BY <1>3 DEF LinkStep, Closes, Keeps
  <2>2. ASSUME NEW c \in Conns, CarriedBy(k, c) PROVE CarriedBy(k, c)'
    BY <2>1, <2>2 DEF CarriedBy, Keeps, Holds
  <2> QED BY <2>1, <2>2 DEF LinksOK, UpstreamReleased, Keeps
<1>4. UpstreamReleased'
  BY <1>3 DEF UpstreamReleased, CarriedBy
<1> QED BY <1>1, <1>2, <1>4 DEF LinksOK, Holds

(* A handler goes on and closes the connection of its nested call, or is    *)
(* not in one.                                                              *)
LEMMA ContinueLinks ==
    ASSUME TypeOK, LinksOK, NEW c \in Conns, NEW S, Continue(c, S), pc[c] # "idle",
           S = {pending[c].link} \/ (S = {} /\ pc[c] # "bootWait")
    PROVE  \A k \in Links : LinkStep(k)
<1> SUFFICES ASSUME NEW k \in Links PROVE LinkStep(k)
  OBVIOUS
<1> USE ConstantsAssumption
<1>1. /\ pending'[c].link = NoLink /\ NoLink # k /\ pc'[c] # "idle"
      /\ \A d \in Conns \ {c} : pending'[d] = pending[d] /\ pc'[d] = pc[d]
      /\ UNCHANGED <<upstream, pubkey, abandoned>>
  BY DEF Continue, Closing, NoPending, TypeOK, HandlerTypeOK
<1>2. CASE k \in S
  <2>1. pending[c].link = k /\ upstream[c] # k /\ \A d \in Conns : Holds(d, k) => d = c
    BY <1>2 DEF LinksOK, Holds
  <2>2. link'[k] = "closed"
    BY <1>2 DEF Continue, Closing
  <2> QED BY <1>1, <2>1, <2>2 DEF LinkStep, Closes, Holds
<1>3. CASE k \notin S
  <2>1. link'[k] = link[k] /\ serves'[k] = serves[k]
    BY <1>3 DEF Continue, Closing
  <2>2. pending[c].link # k
    BY <1>3 DEF LinksOK
  <2>3. \A d \in Conns : Holds(d, k) => pc[d] # "idle"
    BY DEF LinksOK
  <2>4. \A d \in Conns : pending[d].link = k => d # c /\ pc[d] = "bootWait"
    BY <2>2 DEF LinksOK
  <2> QED BY <1>1, <2>1, <2>2, <2>3, <2>4 DEF LinkStep, Keeps, Holds
<1> QED BY <1>2, <1>3

LEMMA ReturnLinks ==
    ASSUME TypeOK, LinksOK, NEW c \in Conns, NEW S, Return(c, S),
           S = {pending[c].link} \/ (S = {} /\ pc[c] # "bootWait")
    PROVE  \A k \in Links : LinkStep(k)
<1> SUFFICES ASSUME NEW k \in Links PROVE LinkStep(k)
  OBVIOUS
<1> USE ConstantsAssumption
<1>1. /\ pending'[c].link = NoLink /\ upstream'[c] = NoLink /\ NoLink # k
      /\ \A d \in Conns \ {c} : /\ pending'[d] = pending[d] /\ pc'[d] = pc[d]
                               /\ upstream'[d] = upstream[d] /\ pubkey'[d] = pubkey[d]
      /\ UNCHANGED abandoned
  BY DEF Return, Closing, NoPending, TypeOK, HandlerTypeOK
<1>2. CASE k \in S \cup {upstream[c]}
  <2>1. Holds(c, k)
    BY <1>2 DEF Holds
  <2>2. \A d \in Conns : Holds(d, k) => d = c
    BY <2>1 DEF LinksOK
  <2>3. link'[k] = "closed"
    BY <1>2 DEF Return, Closing
  <2> QED BY <1>1, <2>2, <2>3 DEF LinkStep, Closes, Holds
<1>3. CASE k \notin S \cup {upstream[c]}
  <2>1. link'[k] = link[k] /\ serves'[k] = serves[k]
    BY <1>3 DEF Return, Closing
  <2>2. pending[c].link # k /\ upstream[c] # k
    BY <1>3 DEF LinksOK
  <2>3. \A d \in Conns : Holds(d, k) => d # c /\ pc[d] # "idle"
    BY <2>2 DEF LinksOK, Holds
  <2>4. \A d \in Conns : pending[d].link = k => d # c /\ pc[d] = "bootWait"
    BY <2>2 DEF LinksOK
  <2> QED BY <1>1, <2>1, <2>2, <2>3, <2>4 DEF LinkStep, Keeps, Holds
<1> QED BY <1>2, <1>3

(* A handler goes on to its next phase, with or without new locals.         *)
LEMMA PhaseLinks ==
    ASSUME TypeOK, LinksOK, NEW c \in Conns, pc[c] # "bootWait", pc'[c] # "idle",
           pending'[c].link \in {pending[c].link, NoLink},
           \A d \in Conns \ {c} : pc'[d] = pc[d] /\ pending'[d] = pending[d],
           UNCHANGED <<link, serves, abandoned, upstream, pubkey>>
    PROVE  \A k \in Links : LinkStep(k)
<1> SUFFICES ASSUME NEW k \in Links PROVE LinkStep(k)
  OBVIOUS
<1>1. pending[c].link # k /\ pending'[c].link # k
  BY ConstantsAssumption DEF LinksOK
<1>2. \A d \in Conns : Holds(d, k) => pc[d] # "idle"
  BY DEF LinksOK
<1>3. \A d \in Conns : pending[d].link = k => pc[d] = "bootWait"
  BY DEF LinksOK
<1> QED BY <1>1, <1>2, <1>3 DEF LinkStep, Keeps, Holds

LEMMA StepLinks == IInv /\ LinksOK /\ [Next]_vars => LinksOK'
<1> SUFFICES ASSUME TypeOK, PhaseOK, LinksOK, [Next]_vars PROVE LinksOK'
  BY DEF IInv
<1> DEFINE Framed == \A k \in Links : LinkStep(k)
<1> USE ConstantsAssumption DEF handlerVars, linkVars, envVars, logVars
<1>a. Framed => LinksOK'
  BY LinkSteps
<1>c. ASSUME NEW c \in Conns, NEW S, Continue(c, S) \/ Return(c, S), pc[c] # "idle",
             S = {pending[c].link} \/ (S = {} /\ pc[c] # "bootWait")
      PROVE  Framed
  BY <1>c, ContinueLinks, ReturnLinks
<1>d. UNCHANGED <<link, serves, abandoned, pc, upstream, pubkey, pending>> => Framed
  BY DEF LinkStep, Keeps, Holds, LinksOK
<1>e. ASSUME NEW c \in Conns, NEW phase \in Phases \ {"idle"}, Goto(c, phase), pc[c] # "bootWait",
             UNCHANGED <<link, serves, abandoned, upstream, pubkey, pending>>
      PROVE  Framed
  <2>1. pc'[c] # "idle" /\ \A d \in Conns \ {c} : pc'[d] = pc[d]
    BY <1>e DEF Goto, TypeOK, HandlerTypeOK
  <2> QED BY <1>e, <2>1, PhaseLinks
<1> HIDE DEF Framed
<1>1. ASSUME NEW c \in Conns, OpenConn(c) PROVE LinksOK'
  BY <1>1, <1>a, <1>e DEF OpenConn, Phases
<1>2. ASSUME NEW c \in Conns, ClientCloses(c) PROVE LinksOK'
  BY <1>2, <1>a, <1>c DEF ClientCloses, Answer, WriteUpstream
<1>3. ASSUME NEW c \in Conns, RefuseMessage(c) PROVE LinksOK'
  BY <1>3, <1>a, <1>c DEF RefuseMessage, Answer, WriteUpstream
<1>4. ASSUME NEW c \in Conns, NEW e \in AuthEvent, ReceiveAuth(c, e) PROVE LinksOK'
  <2>1. CASE Answer(c, {})
    BY <1>4, <2>1, <1>a, <1>c DEF ReceiveAuth, Answer
  <2>2. CASE ~Answer(c, {})
    <3> DEFINE new == [NoPending EXCEPT !.pubkey = e.pubkey, !.now = now]
    <3>0. new.link = NoLink
      BY DEF NoPending
    <3> HIDE DEF new
    <3>1. /\ pc[c] # "bootWait" /\ pc'[c] # "idle" /\ pending'[c].link \in {pending[c].link, NoLink}
          /\ \A d \in Conns \ {c} : pc'[d] = pc[d] /\ pending'[d] = pending[d]
          /\ UNCHANGED <<link, serves, abandoned, upstream, pubkey>>
      <4>1. /\ pc[c] = "reading" /\ pc' = [pc EXCEPT ![c] = "cache"]
            /\ pending' = [pending EXCEPT ![c] = new]
            /\ UNCHANGED <<link, serves, abandoned, upstream, pubkey>>
        BY <1>4, <2>2 DEF ReceiveAuth, Goto, new
      <4> QED BY <3>0, <4>1 DEF TypeOK, HandlerTypeOK
    <3> QED BY <1>a, <3>1, PhaseLinks DEF Framed
  <2> QED BY <2>1, <2>2
<1>5. ASSUME NEW c \in Conns, ReceiveEmptyAuth(c) PROVE LinksOK'
  BY <1>5, <1>a, <1>e DEF ReceiveEmptyAuth, Phases
<1>6. ASSUME NEW c \in Conns, CheckCache(c) PROVE LinksOK'
  <2>1. CASE Answer(c, {})
    BY <1>6, <2>1, <1>a, <1>c DEF CheckCache, Answer
  <2>2. CASE ~Answer(c, {})
    BY <1>6, <2>2, <1>a, <1>e DEF CheckCache, Phases
  <2> QED BY <2>1, <2>2
<1>7. ASSUME NEW c \in Conns, LookupUsername(c) PROVE LinksOK'
  <2>1. CASE Answer(c, {})
    BY <1>7, <2>1, <1>a, <1>c DEF LookupUsername, Answer
  <2>2. CASE ~Answer(c, {})
    <3>1. /\ pc[c] # "bootWait" /\ pc'[c] # "idle" /\ pending'[c].link \in {pending[c].link, NoLink}
          /\ \A d \in Conns \ {c} : pc'[d] = pc[d] /\ pending'[d] = pending[d]
          /\ UNCHANGED <<link, serves, abandoned, upstream, pubkey>>
      BY <1>7, <2>2 DEF LookupUsername, Goto, NoPending, TypeOK, HandlerTypeOK, Pending
    <3> QED BY <1>a, <3>1, PhaseLinks DEF Framed
  <2> QED BY <2>1, <2>2
<1>8. ASSUME NEW c \in Conns, VerifyNIP05(c) PROVE LinksOK'
  <2>1. CASE Answer(c, {})
    BY <1>8, <2>1, <1>a, <1>c DEF VerifyNIP05, Answer
  <2>2. CASE ~Answer(c, {})
    BY <1>8, <2>2, <1>a, <1>e DEF VerifyNIP05, Phases
  <2> QED BY <2>1, <2>2
<1>9. ASSUME NEW c \in Conns, PutCache(c) PROVE LinksOK'
  <2>1. CASE Answer(c, {})
    BY <1>9, <2>1, <1>a, <1>c DEF PutCache, Answer
  <2>2. CASE ~Answer(c, {})
    BY <1>9, <2>2, <1>a, <1>e DEF PutCache, Phases
  <2> QED BY <2>1, <2>2
<1>10. ASSUME NEW c \in Conns, DialUpstream(c) PROVE LinksOK'
  <2>1. CASE Answer(c, {})
    BY <1>10, <2>1, <1>a, <1>c DEF DialUpstream, Answer
  <2>2. ASSUME NEW k \in FreeLinks,
               link' = [link EXCEPT ![k] = "open"],
               serves' = [serves EXCEPT ![k] = pending[c].pubkey],
               upstream' = [upstream EXCEPT ![c] = k],
               pubkey' = [pubkey EXCEPT ![c] = pending[c].pubkey],
               Goto(c, "accept"), Recorded(c), UNCHANGED pending
        PROVE  LinksOK'
    <3>1. k \in Links /\ link[k] = "closed" /\ pubkey[c] = NoPubkey /\ pc[c] = "dial"
      BY <1>10 DEF FreeLinks, DialUpstream, PhaseOK
    <3>2. /\ link'[k] = "open" /\ \A j \in Links \ {k} : link'[j] = link[j] /\ serves'[j] = serves[j]
          /\ serves'[k] = pending[c].pubkey /\ pubkey'[c] = pending[c].pubkey
          /\ upstream'[c] = k /\ pc'[c] = "accept"
          /\ \A d \in Conns \ {c} : upstream'[d] = upstream[d] /\ pubkey'[d] = pubkey[d] /\ pc'[d] = pc[d]
      BY <2>2, <3>1 DEF Goto, TypeOK, HandlerTypeOK, LinkTypeOK
    <3>3. \A d \in Conns : ~Holds(d, k)
      BY <3>1 DEF LinksOK
    <3>4. \A j \in Links : pending[c].link # j
      BY <3>1 DEF LinksOK
    <3>5. \A d \in Conns, j \in Links : Holds(d, j)' <=> (d = c /\ j = k) \/ (d # c /\ Holds(d, j))
      BY <2>2, <3>2, <3>4 DEF Holds
    <3>6. \A d \in Conns, j \in Links : Holds(d, j)' => link'[j] # "closed" /\ pc'[d] # "idle"
      BY <3>2, <3>3, <3>5 DEF LinksOK
    <3>7. \A d, e \in Conns, j \in Links : Holds(d, j)' /\ Holds(e, j)' => d = e
      BY <3>3, <3>5 DEF LinksOK
    <3>8. ASSUME NEW d \in Conns, NEW j \in Links, upstream'[d] = j
          PROVE  serves'[j] = pubkey'[d] /\ pending'[d].link # j
      <4>1. CASE d = c
        BY <2>2, <3>2, <3>4, <3>8, <4>1
      <4>2. CASE d # c
        <5>1. upstream[d] = j /\ j # k
          BY <3>2, <3>3, <3>8, <4>2 DEF Holds
        <5> QED BY <2>2, <3>2, <4>2, <5>1 DEF LinksOK
      <4> QED BY <4>1, <4>2
    <3>9. \A d \in Conns, j \in Links : pending'[d].link = j => pc'[d] = "bootWait"
      BY <2>2, <3>2, <3>4 DEF LinksOK
    <3>10. ASSUME NEW j \in Links, link'[j] # "closed"
           PROVE  (\E d \in Conns : CarriedBy(j, d)') \/ (j \in abandoned' /\ serves'[j] = NoPubkey)
      <4>1. CASE j = k
        BY <3>2, <4>1 DEF CarriedBy
      <4>2. CASE j # k
        <5>1. link[j] # "closed" /\ serves'[j] = serves[j]
          BY <3>2, <3>10, <4>2
        <5>2. ASSUME NEW d \in Conns \ {c}, CarriedBy(j, d) PROVE CarriedBy(j, d)'
          BY <2>2, <3>2, <5>1, <5>2 DEF CarriedBy
        <5>3. ASSUME CarriedBy(j, c) PROVE j \in abandoned' /\ serves'[j] = NoPubkey
          BY <2>2, <3>1, <5>1, <5>3 DEF CarriedBy, Recorded
        <5>4. j \in abandoned => j \in abandoned'
          BY <2>2 DEF Recorded
        <5> QED BY <5>1, <5>2, <5>3, <5>4 DEF LinksOK, UpstreamReleased
      <4> QED BY <4>1, <4>2
    <3>11. UpstreamReleased'
      BY <3>10 DEF UpstreamReleased, CarriedBy
    <3> QED BY <3>6, <3>7, <3>8, <3>9, <3>11 DEF LinksOK
  <2> QED BY <1>10, <2>1, <2>2 DEF DialUpstream
<1>11. ASSUME NEW c \in Conns, AcceptAuth(c) PROVE LinksOK'
  <2>1. CASE Return(c, {})
    BY <1>11, <2>1, <1>a, <1>c DEF AcceptAuth
  <2>2. CASE ~Return(c, {})
    <3>1. /\ pc[c] # "bootWait" /\ pc'[c] # "idle" /\ pending'[c].link = NoLink
          /\ \A d \in Conns \ {c} : pc'[d] = pc[d] /\ pending'[d] = pending[d]
          /\ UNCHANGED <<link, serves, abandoned, upstream, pubkey>>
      BY <1>11, <2>2 DEF AcceptAuth, Goto, NoPending, TypeOK, HandlerTypeOK
    <3> QED BY <1>a, <3>1, PhaseLinks DEF Framed
  <2> QED BY <2>1, <2>2
<1>12. ASSUME NEW c \in Conns, NEW p \in Pubkeys, ReceiveProfile(c, p) PROVE LinksOK'
  <2>1. /\ pc[c] # "bootWait" /\ pc'[c] # "idle" /\ pending'[c].link \in {pending[c].link, NoLink}
        /\ \A d \in Conns \ {c} : pc'[d] = pc[d] /\ pending'[d] = pending[d]
        /\ UNCHANGED <<link, serves, abandoned, upstream, pubkey>>
    BY <1>12 DEF ReceiveProfile, Goto, NoPending, TypeOK, HandlerTypeOK, Pending
  <2> QED BY <1>a, <2>1, PhaseLinks DEF Framed
<1>13. ASSUME NEW c \in Conns, BootDial(c) PROVE LinksOK'
  <2>1. CASE Answer(c, {})
    BY <1>13, <2>1, <1>a, <1>c DEF BootDial, Answer
  <2>2. ASSUME NEW k \in FreeLinks, link' = [link EXCEPT ![k] = "open"],
               serves' = [serves EXCEPT ![k] = NoPubkey],
               pending' = [pending EXCEPT ![c].link = k], Goto(c, "bootWait"),
               UNCHANGED <<upstream, pubkey, abandoned>>
        PROVE  LinksOK'
    <3>1. k \in Links /\ link[k] = "closed" /\ pc[c] = "bootDial"
      BY <1>13 DEF FreeLinks, BootDial
    <3>2. /\ link'[k] = "open" /\ \A j \in Links \ {k} : link'[j] = link[j] /\ serves'[j] = serves[j]
          /\ pending'[c].link = k /\ pc'[c] = "bootWait"
          /\ \A d \in Conns \ {c} : pending'[d] = pending[d] /\ pc'[d] = pc[d]
      BY <2>2, <3>1 DEF Goto, TypeOK, HandlerTypeOK, LinkTypeOK, Pending
    <3>3. \A d \in Conns : ~Holds(d, k)
      BY <3>1 DEF LinksOK
    <3>4. \A j \in Links : pending[c].link # j
      BY <3>1 DEF LinksOK
    <3>5. \A d \in Conns, j \in Links : Holds(d, j)' <=> (d = c /\ j = k) \/ Holds(d, j)
      BY <2>2, <3>2, <3>4 DEF Holds
    <3>6. \A d \in Conns, j \in Links : Holds(d, j)' => link'[j] # "closed" /\ pc'[d] # "idle"
      BY <3>2, <3>3, <3>5 DEF LinksOK
    <3>7. \A d, e \in Conns, j \in Links : Holds(d, j)' /\ Holds(e, j)' => d = e
      BY <3>3, <3>5 DEF LinksOK
    <3>8. ASSUME NEW d \in Conns, NEW j \in Links, upstream'[d] = j
          PROVE  serves'[j] = pubkey'[d] /\ pending'[d].link # j
      <4>1. upstream[d] = j /\ j # k
        BY <2>2, <3>3, <3>8 DEF Holds
      <4> QED BY <2>2, <3>2, <4>1 DEF LinksOK
    <3>9. \A d \in Conns, j \in Links : pending'[d].link = j => pc'[d] = "bootWait"
      BY <3>2 DEF LinksOK
    <3>10. ASSUME NEW j \in Links, link'[j] # "closed"
           PROVE  (\E d \in Conns : CarriedBy(j, d)') \/ (j \in abandoned' /\ serves'[j] = NoPubkey)
      <4>1. CASE j = k
        BY <3>2, <4>1 DEF CarriedBy
      <4>2. CASE j # k
        <5>1. link[j] # "closed" /\ serves'[j] = serves[j]
          BY <3>2, <3>10, <4>2
        <5>2. ASSUME NEW d \in Conns, CarriedBy(j, d) PROVE CarriedBy(j, d)'
          BY <2>2, <3>1, <3>2, <3>4, <5>1, <5>2 DEF CarriedBy
        <5> QED BY <2>2, <5>1, <5>2 DEF LinksOK, UpstreamReleased
      <4> QED BY <4>1, <4>2
    <3>11. UpstreamReleased'
      BY <3>10 DEF UpstreamReleased, CarriedBy
    <3> QED BY <3>6, <3>7, <3>8, <3>9, <3>11 DEF LinksOK
  <2> QED BY <1>13, <2>1, <2>2 DEF BootDial
<1>14. ASSUME NEW c \in Conns, UpstreamJudges(c) PROVE LinksOK'
  BY <1>14, <1>a, <1>d DEF UpstreamJudges
<1>15. ASSUME NEW c \in Conns, NEW frame \in Frame, BootFrame(c, frame) PROVE LinksOK'
  BY <1>15, <1>a, <1>c, <1>d DEF BootFrame
<1>16. ASSUME NEW c \in Conns, BootFails(c) PROVE LinksOK'
  BY <1>16, <1>a, <1>c DEF BootFails, Answer
<1>17. ASSUME NEW c \in Conns, NEW p \in Pubkeys, ReceiveEvent(c, p) PROVE LinksOK'
  BY <1>17, <1>a, <1>c DEF ReceiveEvent, Answer, WriteUpstream
<1>18. ASSUME NEW c \in Conns, ReceiveReq(c) PROVE LinksOK'
  <2>1. /\ pc[c] # "bootWait" /\ pc'[c] # "idle" /\ pending'[c].link \in {pending[c].link, NoLink}
        /\ \A d \in Conns \ {c} : pc'[d] = pc[d] /\ pending'[d] = pending[d]
        /\ UNCHANGED <<link, serves, abandoned, upstream, pubkey>>
    BY <1>18 DEF ReceiveReq, Goto, NoPending, TypeOK, HandlerTypeOK, Pending
  <2> QED BY <1>a, <2>1, PhaseLinks DEF Framed
<1>19. ASSUME NEW c \in Conns, RecordQuery(c) PROVE LinksOK'
  BY <1>19, <1>a, <1>e DEF RecordQuery, Phases
<1>20. ASSUME NEW c \in Conns, ForwardReq(c) PROVE LinksOK'
  BY <1>20, <1>a, <1>c DEF ForwardReq, Answer, WriteUpstream
<1>21. ASSUME NEW c \in Conns, ForwardOther(c) PROVE LinksOK'
  BY <1>21, <1>a, <1>c DEF ForwardOther, Answer, WriteUpstream
<1>22. ASSUME NEW k \in Links, PipeMessage(k) PROVE LinksOK'
  BY <1>22, <1>a, <1>d DEF PipeMessage
<1>23. ASSUME NEW k \in Links, PipeEnds(k) PROVE LinksOK'
  BY <1>23, <1>a, <1>d DEF PipeEnds
<1>24. ASSUME Tick PROVE LinksOK'
  BY <1>24, <1>a, <1>d DEF Tick
<1>25. ASSUME NEW u \in Usernames, NEW p \in Pubkeys \cup {NoPubkey}, DirectoryChanges(u, p) PROVE LinksOK'
  BY <1>25, <1>a, <1>d DEF DirectoryChanges
<1>26. ASSUME NEW k \in Links, UpstreamLost(k) PROVE LinksOK'
  <2>1. \A j \in Links : link'[j] = "closed" <=> link[j] = "closed"
    BY <1>26 DEF UpstreamLost, TypeOK, LinkTypeOK
  <2>2. \A j \in Links : LinkStep(j)
    BY <1>26, <2>1 DEF UpstreamLost, LinkStep, Keeps, Holds, LinksOK
  <2> QED BY <1>a, <2>2 DEF Framed
<1>27. ASSUME Restart PROVE LinksOK'
  <2>1. \A k \in Links : LinkStep(k)
    BY <1>27 DEF Restart, LinkStep, Closes, Holds, NoPending
  <2> QED BY <1>a, <2>1 DEF Framed
<1>28. CASE UNCHANGED vars
  BY <1>28, <1>a, <1>d DEF vars
<1> QED
  BY <1>1, <1>2, <1>3, <1>4, <1>5, <1>6, <1>7, <1>8, <1>9, <1>10, <1>11, <1>12, <1>13, <1>14, <1>15, <1>16, <1>17, <1>18, <1>19, <1>20, <1>21, <1>22, <1>23, <1>24, <1>25, <1>26, <1>27, <1>28
  DEF Next, HandlerStep, ClientMessage, Environment

-----------------------------------------------------------------------------
(* What upstream is sent and what clients are told of it. *)

(* NIP-05 has linked the key to a username at some time. *)
Linked(p) == \E u \in Usernames : verifiedAt[p][u] # -1

BackedOK ==
    /\ \A c \in Conns : pubkey[c] # NoPubkey => Linked(pubkey[c])
    /\ ForwardedIsBacked

Backed(f) == (f.kind = 0 /\ f.session = NoPubkey) \/ (f.session = f.author /\ Linked(f.session))

LEMMA BackedSteps ==
    ASSUME BackedOK, UNCHANGED verifiedAt,
           \A c \in Conns : pubkey'[c] \in {pubkey[c], NoPubkey},
           \A f \in forwarded' : f \in forwarded \/ Backed(f)
    PROVE  BackedOK'
<1>1. \A f \in forwarded : Backed(f)
  BY DEF BackedOK, ForwardedIsBacked, Backed, Linked
<1>2. \A f \in forwarded' : Backed(f)
  BY <1>1
<1>3. ForwardedIsBacked'
  BY <1>2 DEF ForwardedIsBacked, Backed, Linked
<1>4. \A c \in Conns : pubkey'[c] # NoPubkey => Linked(pubkey'[c])
  BY DEF BackedOK
<1>5. \A c \in Conns : (pubkey[c] # NoPubkey => Linked(pubkey[c]))'
  BY <1>4 DEF Linked
<1> QED BY <1>3, <1>5 DEF BackedOK

LEMMA StepForwarded == IInv /\ BackedOK /\ [Next]_vars => BackedOK'
<1> SUFFICES ASSUME TypeOK, PhaseOK, Evidence, BackedOK, [Next]_vars PROVE BackedOK'
  BY DEF IInv
<1> DEFINE Framed == /\ UNCHANGED verifiedAt
                     /\ \A d \in Conns : pubkey'[d] \in {pubkey[d], NoPubkey}
                     /\ \A f \in forwarded' : f \in forwarded \/ Backed(f)
<1> USE DEF handlerVars, linkVars, envVars, logVars
<1>a. Framed => BackedOK'
  BY BackedSteps
<1>c. ASSUME NEW c \in Conns, NEW S, Continue(c, S) \/ Return(c, S), UNCHANGED <<verifiedAt, forwarded>>
      PROVE  Framed
  BY <1>c DEF Continue, Return, TypeOK, HandlerTypeOK
<1>d. UNCHANGED <<verifiedAt, pubkey, forwarded>> => Framed
  OBVIOUS
<1> HIDE DEF Framed
<1>1. ASSUME NEW c \in Conns, OpenConn(c) PROVE BackedOK'
  BY <1>1, <1>a, <1>d DEF OpenConn
<1>2. ASSUME NEW c \in Conns, ClientCloses(c) PROVE BackedOK'
  BY <1>2, <1>a, <1>c DEF ClientCloses, Answer, WriteUpstream
<1>3. ASSUME NEW c \in Conns, RefuseMessage(c) PROVE BackedOK'
  BY <1>3, <1>a, <1>c DEF RefuseMessage, Answer, WriteUpstream
<1>4. ASSUME NEW c \in Conns, NEW e \in AuthEvent, ReceiveAuth(c, e) PROVE BackedOK'
  <2>1. CASE Answer(c, {})
    BY <1>4, <2>1, <1>a, <1>c DEF ReceiveAuth, Answer
  <2>2. CASE ~Answer(c, {})
    BY <1>4, <2>2, <1>a, <1>d DEF ReceiveAuth
  <2> QED BY <2>1, <2>2
<1>5. ASSUME NEW c \in Conns, ReceiveEmptyAuth(c) PROVE BackedOK'
  BY <1>5, <1>a, <1>d DEF ReceiveEmptyAuth
<1>6. ASSUME NEW c \in Conns, CheckCache(c) PROVE BackedOK'
  <2>1. CASE Answer(c, {})
    BY <1>6, <2>1, <1>a, <1>c DEF CheckCache, Answer
  <2>2. CASE ~Answer(c, {})
    BY <1>6, <2>2, <1>a, <1>d DEF CheckCache
  <2> QED BY <2>1, <2>2
<1>7. ASSUME NEW c \in Conns, LookupUsername(c) PROVE BackedOK'
  <2>1. CASE Answer(c, {})
    BY <1>7, <2>1, <1>a, <1>c DEF LookupUsername, Answer
  <2>2. CASE ~Answer(c, {})
    BY <1>7, <2>2, <1>a, <1>d DEF LookupUsername
  <2> QED BY <2>1, <2>2
<1>8. ASSUME NEW c \in Conns, VerifyNIP05(c) PROVE BackedOK'
  <2>1. CASE Answer(c, {}) /\ UNCHANGED verifiedAt
    BY <1>8, <2>1, <1>a, <1>c DEF VerifyNIP05, Answer
  <2>2. CASE /\ verifiedAt' = [verifiedAt EXCEPT ![pending[c].pubkey][pending[c].username] = now]
             /\ UNCHANGED <<pubkey, forwarded>>
    <3>1. pending[c].pubkey \in Pubkeys /\ pending[c].username \in Usernames /\ now \in Nat
      BY <1>8 DEF VerifyNIP05, PhaseOK, TypeOK, SharedTypeOK
    <3>2. ASSUME NEW p \in Pubkeys, NEW u \in Usernames, verifiedAt[p][u] # -1
          PROVE  verifiedAt'[p][u] # -1
      BY <2>2, <3>1, <3>2 DEF TypeOK, SharedTypeOK
    <3>3. \A p \in Pubkeys : Linked(p) => Linked(p)'
      BY <3>2 DEF Linked
    <3>4. \A d \in Conns : pubkey[d] # NoPubkey => pubkey[d] \in Pubkeys /\ Linked(pubkey[d])
      BY DEF BackedOK, TypeOK, HandlerTypeOK
    <3>5. \A d \in Conns : (pubkey[d] # NoPubkey => Linked(pubkey[d]))'
      BY <2>2, <3>3, <3>4 DEF Linked
    <3>6. \A f \in forwarded : f.session \in Pubkeys \cup {NoPubkey}
      BY DEF TypeOK, SharedTypeOK
    <3>7. \A f \in forwarded : (f.kind = 0 /\ f.session = NoPubkey) \/ (f.session = f.author /\ Linked(f.session))
      BY DEF BackedOK, ForwardedIsBacked, Linked
    <3>8. \A f \in forwarded : f.session = f.author => f.session \in Pubkeys
      BY DEF TypeOK, SharedTypeOK
    <3>9. \A f \in forwarded : (f.kind = 0 /\ f.session = NoPubkey) \/ (f.session = f.author /\ Linked(f.session)')
      BY <3>3, <3>7, <3>8
    <3>10. ForwardedIsBacked'
      BY <2>2, <3>9 DEF ForwardedIsBacked, Linked
    <3> QED BY <3>5, <3>10 DEF BackedOK
  <2> QED BY <1>8, <2>1, <2>2 DEF VerifyNIP05
<1>9. ASSUME NEW c \in Conns, PutCache(c) PROVE BackedOK'
  <2>1. CASE Answer(c, {})
    BY <1>9, <2>1, <1>a, <1>c DEF PutCache, Answer
  <2>2. CASE ~Answer(c, {})
    BY <1>9, <2>2, <1>a, <1>d DEF PutCache
  <2> QED BY <2>1, <2>2
<1>10. ASSUME NEW c \in Conns, DialUpstream(c) PROVE BackedOK'
  <2>1. CASE Answer(c, {})
    BY <1>10, <2>1, <1>a, <1>c DEF DialUpstream, Answer
  <2>2. CASE ~Answer(c, {})
    <3>1. /\ pubkey' = [pubkey EXCEPT ![c] = pending[c].pubkey] /\ pc[c] = "dial"
          /\ UNCHANGED <<verifiedAt, forwarded>>
      BY <1>10, <2>2 DEF DialUpstream
    <3>2. pending[c].pubkey # NoPubkey => Linked(pending[c].pubkey)
      BY <3>1 DEF Evidence, DialOK, ConfirmedFor, Linked
    <3>3. \A d \in Conns : pubkey'[d] # NoPubkey => Linked(pubkey'[d])
      BY <3>1, <3>2 DEF BackedOK, TypeOK, HandlerTypeOK
    <3>4. \A d \in Conns : (pubkey[d] # NoPubkey => Linked(pubkey[d]))'
      BY <3>1, <3>3 DEF Linked
    <3>5. ForwardedIsBacked'
      BY <3>1 DEF BackedOK, ForwardedIsBacked
    <3> QED BY <3>4, <3>5 DEF BackedOK
  <2> QED BY <2>1, <2>2
<1>11. ASSUME NEW c \in Conns, AcceptAuth(c) PROVE BackedOK'
  BY <1>11, <1>a, <1>c, <1>d DEF AcceptAuth
<1>12. ASSUME NEW c \in Conns, NEW p \in Pubkeys, ReceiveProfile(c, p) PROVE BackedOK'
  BY <1>12, <1>a, <1>d DEF ReceiveProfile
<1>13. ASSUME NEW c \in Conns, BootDial(c) PROVE BackedOK'
  <2> DEFINE f == [author |-> pending[c].pubkey, kind |-> 0, session |-> NoPubkey]
  <2>1. Backed(f)
    BY DEF Backed
  <2>2. forwarded' \in {forwarded, forwarded \cup {f}} /\ UNCHANGED verifiedAt
    BY <1>13 DEF BootDial
  <2> HIDE DEF f
  <2>3. \A d \in Conns : pubkey'[d] \in {pubkey[d], NoPubkey}
    BY <1>13 DEF BootDial, Answer, Continue, Return, TypeOK, HandlerTypeOK
  <2> QED BY <2>1, <2>2, <2>3, <1>a DEF Framed
<1>14. ASSUME NEW c \in Conns, UpstreamJudges(c) PROVE BackedOK'
  BY <1>14, <1>a, <1>d DEF UpstreamJudges
<1>15. ASSUME NEW c \in Conns, NEW frame \in Frame, BootFrame(c, frame) PROVE BackedOK'
  BY <1>15, <1>a, <1>c, <1>d DEF BootFrame
<1>16. ASSUME NEW c \in Conns, BootFails(c) PROVE BackedOK'
  BY <1>16, <1>a, <1>c DEF BootFails, Answer, WriteUpstream
<1>17. ASSUME NEW c \in Conns, NEW p \in Pubkeys, ReceiveEvent(c, p) PROVE BackedOK'
  <2> DEFINE f == [author |-> p, kind |-> 1, session |-> pubkey[c]]
  <2>1. CASE p # pubkey[c]
    BY <1>17, <2>1, <1>a, <1>c DEF ReceiveEvent, Answer
  <2>2. CASE p = pubkey[c]
    <3>1. Backed(f)
      BY <1>17, <2>2 DEF Backed, BackedOK, ReceiveEvent
    <3>2. forwarded' \in {forwarded, forwarded \cup {f}} /\ UNCHANGED verifiedAt
      BY <1>17, <2>2 DEF ReceiveEvent, WriteUpstream
    <3> HIDE DEF f
    <3>3. \A d \in Conns : pubkey'[d] \in {pubkey[d], NoPubkey}
      BY <1>17, <2>2 DEF ReceiveEvent, WriteUpstream, Continue, Return, TypeOK, HandlerTypeOK
    <3> QED BY <3>1, <3>2, <3>3, <1>a DEF Framed
  <2> QED BY <2>1, <2>2
<1>18. ASSUME NEW c \in Conns, ReceiveReq(c) PROVE BackedOK'
  BY <1>18, <1>a, <1>d DEF ReceiveReq
<1>19. ASSUME NEW c \in Conns, RecordQuery(c) PROVE BackedOK'
  BY <1>19, <1>a, <1>d DEF RecordQuery
<1>20. ASSUME NEW c \in Conns, ForwardReq(c) PROVE BackedOK'
  <2>1. forwarded' = forwarded
    BY <1>20 DEF ForwardReq, WriteUpstream
  <2> QED BY <1>20, <2>1, <1>a, <1>c DEF ForwardReq, WriteUpstream
<1>21. ASSUME NEW c \in Conns, ForwardOther(c) PROVE BackedOK'
  <2>1. forwarded' = forwarded
    BY <1>21 DEF ForwardOther, WriteUpstream
  <2> QED BY <1>21, <2>1, <1>a, <1>c DEF ForwardOther, WriteUpstream
<1>22. ASSUME NEW k \in Links, PipeMessage(k) PROVE BackedOK'
  BY <1>22, <1>a, <1>d DEF PipeMessage
<1>23. ASSUME NEW k \in Links, PipeEnds(k) PROVE BackedOK'
  BY <1>23, <1>a, <1>d DEF PipeEnds
<1>24. ASSUME Tick PROVE BackedOK'
  BY <1>24, <1>a, <1>d DEF Tick
<1>25. ASSUME NEW u \in Usernames, NEW p \in Pubkeys \cup {NoPubkey}, DirectoryChanges(u, p) PROVE BackedOK'
  BY <1>25, <1>a, <1>d DEF DirectoryChanges
<1>26. ASSUME NEW k \in Links, UpstreamLost(k) PROVE BackedOK'
  BY <1>26, <1>a, <1>d DEF UpstreamLost
<1>27. ASSUME Restart PROVE BackedOK'
  <2>1. Framed
    BY <1>27 DEF Restart, Framed
  <2> QED BY <2>1, <1>a
<1>28. CASE UNCHANGED vars
  BY <1>28, <1>a, <1>d DEF vars
<1> QED
  BY <1>1, <1>2, <1>3, <1>4, <1>5, <1>6, <1>7, <1>8, <1>9, <1>10, <1>11, <1>12, <1>13, <1>14, <1>15, <1>16, <1>17, <1>18, <1>19, <1>20, <1>21, <1>22, <1>23, <1>24, <1>25, <1>26, <1>27, <1>28
  DEF Next, HandlerStep, ClientMessage, Environment

(* The judgement of a profile is dropped, or kept with the wait for it. *)
VerdictStep(c) ==
    \/ verdict'[c] = "none"
    \/ pc'[c] = "bootWait" /\ verdict'[c] = verdict[c] /\ pending'[c].pubkey = pending[c].pubkey

LEMMA VerdictSteps ==
    ASSUME VerdictOK, UNCHANGED <<stored, confirmed>>, \A c \in Conns : VerdictStep(c)
    PROVE  VerdictOK'
BY DEF VerdictOK, VerdictStep, ConfirmedMeansStored

LEMMA AnswerVerdict ==
    ASSUME TypeOK, VerdictOK, NEW c \in Conns, NEW S, Continue(c, S) \/ Return(c, S)
    PROVE  \A d \in Conns : VerdictStep(d)
BY DEF Continue, Return, VerdictStep, VerdictOK, TypeOK, HandlerTypeOK

LEMMA PhaseVerdict ==
    ASSUME VerdictOK, NEW c \in Conns, pc[c] # "bootWait", UNCHANGED verdict,
           \A d \in Conns \ {c} : pc'[d] = pc[d] /\ pending'[d] = pending[d]
    PROVE  \A d \in Conns : VerdictStep(d)
<1>1. VerdictStep(c)
  BY DEF VerdictStep, VerdictOK
<1>2. ASSUME NEW d \in Conns, d # c PROVE VerdictStep(d)
  BY <1>2 DEF VerdictStep, VerdictOK
<1> QED BY <1>1, <1>2

LEMMA StepVerdict == IInv /\ VerdictOK /\ [Next]_vars => VerdictOK'
<1> SUFFICES ASSUME TypeOK, VerdictOK, [Next]_vars PROVE VerdictOK'
  BY DEF IInv
<1> DEFINE Framed == UNCHANGED <<stored, confirmed>> /\ \A c \in Conns : VerdictStep(c)
<1> USE DEF handlerVars, linkVars, envVars, logVars
<1>a. Framed => VerdictOK'
  BY VerdictSteps
<1>c. ASSUME NEW c \in Conns, NEW S, Continue(c, S) \/ Return(c, S), UNCHANGED <<stored, confirmed>>
      PROVE  Framed
  BY <1>c, AnswerVerdict
<1>d. UNCHANGED <<pc, pending, verdict, stored, confirmed>> => Framed
  BY DEF VerdictStep, VerdictOK
<1>e. ASSUME NEW c \in Conns, pc[c] # "bootWait", UNCHANGED <<verdict, stored, confirmed>>,
             \A d \in Conns \ {c} : pc'[d] = pc[d] /\ pending'[d] = pending[d]
      PROVE  Framed
  BY <1>e, PhaseVerdict
<1> HIDE DEF Framed
<1>1. ASSUME NEW c \in Conns, OpenConn(c) PROVE VerdictOK'
  <2>1. \A d \in Conns \ {c} : pc'[d] = pc[d] /\ pending'[d] = pending[d]
    BY <1>1 DEF OpenConn, Goto, TypeOK, HandlerTypeOK
  <2> QED BY <1>1, <2>1, <1>a, <1>e DEF OpenConn
<1>2. ASSUME NEW c \in Conns, ClientCloses(c) PROVE VerdictOK'
  BY <1>2, <1>a, <1>c DEF ClientCloses, Answer, WriteUpstream
<1>3. ASSUME NEW c \in Conns, RefuseMessage(c) PROVE VerdictOK'
  BY <1>3, <1>a, <1>c DEF RefuseMessage, Answer, WriteUpstream
<1>4. ASSUME NEW c \in Conns, NEW e \in AuthEvent, ReceiveAuth(c, e) PROVE VerdictOK'
  <2>1. CASE Answer(c, {})
    BY <1>4, <2>1, <1>a, <1>c DEF ReceiveAuth, Answer
  <2>2. CASE ~Answer(c, {})
    <3>1. \A d \in Conns \ {c} : pc'[d] = pc[d] /\ pending'[d] = pending[d]
      BY <1>4, <2>2 DEF ReceiveAuth, Goto, TypeOK, HandlerTypeOK
    <3> QED BY <1>4, <2>2, <3>1, <1>a, <1>e DEF ReceiveAuth
  <2> QED BY <2>1, <2>2
<1>5. ASSUME NEW c \in Conns, ReceiveEmptyAuth(c) PROVE VerdictOK'
  <2>1. \A d \in Conns \ {c} : pc'[d] = pc[d] /\ pending'[d] = pending[d]
    BY <1>5 DEF ReceiveEmptyAuth, Goto, TypeOK, HandlerTypeOK
  <2> QED BY <1>5, <2>1, <1>a, <1>e DEF ReceiveEmptyAuth
<1>6. ASSUME NEW c \in Conns, CheckCache(c) PROVE VerdictOK'
  <2>1. CASE Answer(c, {})
    BY <1>6, <2>1, <1>a, <1>c DEF CheckCache, Answer
  <2>2. CASE ~Answer(c, {})
    <3>1. \A d \in Conns \ {c} : pc'[d] = pc[d] /\ pending'[d] = pending[d]
      BY <1>6, <2>2 DEF CheckCache, Goto, TypeOK, HandlerTypeOK
    <3> QED BY <1>6, <2>2, <3>1, <1>a, <1>e DEF CheckCache
  <2> QED BY <2>1, <2>2
<1>7. ASSUME NEW c \in Conns, LookupUsername(c) PROVE VerdictOK'
  <2>1. CASE Answer(c, {})
    BY <1>7, <2>1, <1>a, <1>c DEF LookupUsername, Answer
  <2>2. CASE ~Answer(c, {})
    <3>1. \A d \in Conns \ {c} : pc'[d] = pc[d] /\ pending'[d] = pending[d]
      BY <1>7, <2>2 DEF LookupUsername, Goto, TypeOK, HandlerTypeOK
    <3> QED BY <1>7, <2>2, <3>1, <1>a, <1>e DEF LookupUsername
  <2> QED BY <2>1, <2>2
<1>8. ASSUME NEW c \in Conns, VerifyNIP05(c) PROVE VerdictOK'
  <2>1. CASE Answer(c, {})
    BY <1>8, <2>1, <1>a, <1>c DEF VerifyNIP05, Answer
  <2>2. CASE ~Answer(c, {})
    <3>1. \A d \in Conns \ {c} : pc'[d] = pc[d] /\ pending'[d] = pending[d]
      BY <1>8, <2>2 DEF VerifyNIP05, Goto, TypeOK, HandlerTypeOK
    <3> QED BY <1>8, <2>2, <3>1, <1>a, <1>e DEF VerifyNIP05
  <2> QED BY <2>1, <2>2
<1>9. ASSUME NEW c \in Conns, PutCache(c) PROVE VerdictOK'
  <2>1. CASE Answer(c, {})
    BY <1>9, <2>1, <1>a, <1>c DEF PutCache, Answer
  <2>2. CASE ~Answer(c, {})
    <3>1. \A d \in Conns \ {c} : pc'[d] = pc[d] /\ pending'[d] = pending[d]
      BY <1>9, <2>2 DEF PutCache, Goto, TypeOK, HandlerTypeOK
    <3> QED BY <1>9, <2>2, <3>1, <1>a, <1>e DEF PutCache
  <2> QED BY <2>1, <2>2
<1>10. ASSUME NEW c \in Conns, DialUpstream(c) PROVE VerdictOK'
  <2>1. CASE Answer(c, {})
    BY <1>10, <2>1, <1>a, <1>c DEF DialUpstream, Answer
  <2>2. CASE ~Answer(c, {})
    <3>1. \A d \in Conns \ {c} : pc'[d] = pc[d] /\ pending'[d] = pending[d]
      BY <1>10, <2>2 DEF DialUpstream, Goto, TypeOK, HandlerTypeOK
    <3> QED BY <1>10, <2>2, <3>1, <1>a, <1>e DEF DialUpstream
  <2> QED BY <2>1, <2>2
<1>11. ASSUME NEW c \in Conns, AcceptAuth(c) PROVE VerdictOK'
  <2>1. CASE Return(c, {})
    BY <1>11, <2>1, <1>a, <1>c DEF AcceptAuth
  <2>2. CASE ~Return(c, {})
    <3>1. \A d \in Conns \ {c} : pc'[d] = pc[d] /\ pending'[d] = pending[d]
      BY <1>11, <2>2 DEF AcceptAuth, Goto, TypeOK, HandlerTypeOK
    <3> QED BY <1>11, <2>2, <3>1, <1>a, <1>e DEF AcceptAuth
  <2> QED BY <2>1, <2>2
<1>12. ASSUME NEW c \in Conns, NEW p \in Pubkeys, ReceiveProfile(c, p) PROVE VerdictOK'
  <2>1. \A d \in Conns \ {c} : pc'[d] = pc[d] /\ pending'[d] = pending[d]
    BY <1>12 DEF ReceiveProfile, Goto, TypeOK, HandlerTypeOK
  <2> QED BY <1>12, <2>1, <1>a, <1>e DEF ReceiveProfile
<1>13. ASSUME NEW c \in Conns, BootDial(c) PROVE VerdictOK'
  <2>1. CASE Answer(c, {})
    BY <1>13, <2>1, <1>a, <1>c DEF BootDial, Answer
  <2>2. CASE ~Answer(c, {})
    <3>1. \A d \in Conns \ {c} : pc'[d] = pc[d] /\ pending'[d] = pending[d]
      BY <1>13, <2>2 DEF BootDial, Goto, TypeOK, HandlerTypeOK
    <3> QED BY <1>13, <2>2, <3>1, <1>a, <1>e DEF BootDial
  <2> QED BY <2>1, <2>2
<1>14. ASSUME NEW c \in Conns, UpstreamJudges(c) PROVE VerdictOK'
  <2>1. pc[c] = "bootWait" /\ UNCHANGED <<pc, pending, confirmed>> /\ stored \subseteq stored'
    BY <1>14 DEF UpstreamJudges
  <2>2. \A d \in Conns \ {c} : verdict'[d] = verdict[d]
    BY <1>14 DEF UpstreamJudges, TypeOK, HandlerTypeOK
  <2>3. verdict'[c] = "accepted" => pending[c].pubkey \in stored'
    BY <1>14 DEF UpstreamJudges, TypeOK, HandlerTypeOK
  <2> QED BY <2>1, <2>2, <2>3 DEF VerdictOK, ConfirmedMeansStored
<1>15. ASSUME NEW c \in Conns, NEW frame \in Frame, BootFrame(c, frame) PROVE VerdictOK'
  <2>1. CASE UNCHANGED confirmed
    BY <1>15, <2>1, <1>a, <1>c, <1>d DEF BootFrame
  <2>2. CASE /\ Continue(c, {pending[c].link})
             /\ frame.says = "accepted" /\ IsAnswer(frame)
             /\ confirmed' = confirmed \cup {pending[c].pubkey}
    <3>1. verdict[c] = "accepted" /\ UNCHANGED stored
      BY <1>15, <2>2 DEF BootFrame, IsAnswer
    <3>2. confirmed' \subseteq stored'
      BY <2>2, <3>1 DEF VerdictOK, ConfirmedMeansStored
    <3>3. \A d \in Conns : VerdictStep(d)
      BY <2>2, AnswerVerdict
    <3> QED BY <3>1, <3>2, <3>3 DEF VerdictOK, VerdictStep, ConfirmedMeansStored
  <2> QED BY <1>15, <2>1, <2>2 DEF BootFrame
<1>16. ASSUME NEW c \in Conns, BootFails(c) PROVE VerdictOK'
  BY <1>16, <1>a, <1>c DEF BootFails, Answer, WriteUpstream
<1>17. ASSUME NEW c \in Conns, NEW p \in Pubkeys, ReceiveEvent(c, p) PROVE VerdictOK'
  BY <1>17, <1>a, <1>c DEF ReceiveEvent, Answer, WriteUpstream
<1>18. ASSUME NEW c \in Conns, ReceiveReq(c) PROVE VerdictOK'
  <2>1. \A d \in Conns \ {c} : pc'[d] = pc[d] /\ pending'[d] = pending[d]
    BY <1>18 DEF ReceiveReq, Goto, TypeOK, HandlerTypeOK
  <2> QED BY <1>18, <2>1, <1>a, <1>e DEF ReceiveReq
<1>19. ASSUME NEW c \in Conns, RecordQuery(c) PROVE VerdictOK'
  <2>1. \A d \in Conns \ {c} : pc'[d] = pc[d] /\ pending'[d] = pending[d]
    BY <1>19 DEF RecordQuery, Goto, TypeOK, HandlerTypeOK
  <2> QED BY <1>19, <2>1, <1>a, <1>e DEF RecordQuery
<1>20. ASSUME NEW c \in Conns, ForwardReq(c) PROVE VerdictOK'
  BY <1>20, <1>a, <1>c DEF ForwardReq, Answer, WriteUpstream
<1>21. ASSUME NEW c \in Conns, ForwardOther(c) PROVE VerdictOK'
  BY <1>21, <1>a, <1>c DEF ForwardOther, Answer, WriteUpstream
<1>22. ASSUME NEW k \in Links, PipeMessage(k) PROVE VerdictOK'
  BY <1>22, <1>a, <1>d DEF PipeMessage
<1>23. ASSUME NEW k \in Links, PipeEnds(k) PROVE VerdictOK'
  BY <1>23, <1>a, <1>d DEF PipeEnds
<1>24. ASSUME Tick PROVE VerdictOK'
  BY <1>24, <1>a, <1>d DEF Tick
<1>25. ASSUME NEW u \in Usernames, NEW p \in Pubkeys \cup {NoPubkey}, DirectoryChanges(u, p) PROVE VerdictOK'
  BY <1>25, <1>a, <1>d DEF DirectoryChanges
<1>26. ASSUME NEW k \in Links, UpstreamLost(k) PROVE VerdictOK'
  BY <1>26, <1>a, <1>d DEF UpstreamLost
<1>27. ASSUME Restart PROVE VerdictOK'
  <2>1. \A d \in Conns : VerdictStep(d)
    BY <1>27 DEF Restart, VerdictStep
  <2> QED BY <1>27, <2>1, <1>a DEF Restart, Framed
<1>28. CASE UNCHANGED vars
  BY <1>28, <1>a, <1>d DEF vars
<1> QED
  BY <1>1, <1>2, <1>3, <1>4, <1>5, <1>6, <1>7, <1>8, <1>9, <1>10, <1>11, <1>12, <1>13, <1>14, <1>15, <1>16, <1>17, <1>18, <1>19, <1>20, <1>21, <1>22, <1>23, <1>24, <1>25, <1>26, <1>27, <1>28
  DEF Next, HandlerStep, ClientMessage, Environment

-----------------------------------------------------------------------------
(* The list of recent queries. *)

(* Connection c has no query to record, has the one it had, or has taken its *)
(* time in this step.                                                       *)
QueryStep(c) ==
    \/ pc'[c] # "record"
    \/ pc'[c] = pc[c] /\ challenge'[c] = challenge[c] /\ pending'[c] = pending[c]
    \/ pending'[c].now = now

LEMMA QuerySteps ==
    ASSUME TypeOK, TypeOK', QueryOK, now' >= now, recentQueries' = recentQueries,
           \A c \in Conns : QueryStep(c)
    PROVE  QueryOK'
<1>0. now \in Int /\ now' \in Int /\ \A i \in DOMAIN recentQueries : recentQueries[i].at \in Int
  <2>1. \A i \in DOMAIN recentQueries : recentQueries[i] \in Query
    BY DEF TypeOK, SharedTypeOK
  <2>2. now \in Nat /\ now' \in Nat
    BY DEF TypeOK, SharedTypeOK
  <2> QED BY <2>1, <2>2 DEF Query
<1>1. QueriesInOrder'
  BY DEF QueryOK, QueriesInOrder
<1>2. \A i \in DOMAIN recentQueries' : recentQueries'[i].at <= now'
  <2> SUFFICES ASSUME NEW i \in DOMAIN recentQueries PROVE recentQueries[i].at <= now'
    OBVIOUS
  <2>1. recentQueries[i].at <= now
    BY DEF QueryOK
  <2> QED BY <1>0, <2>1
<1>3. ASSUME NEW c \in Conns, NEW i \in DOMAIN recentQueries, pc'[c] = "record",
             recentQueries[i].by = challenge'[c]
      PROVE  recentQueries[i].at <= pending'[c].now
  <2>1. recentQueries[i].at <= now
    BY DEF QueryOK
  <2>2. CASE pc'[c] = pc[c] /\ challenge'[c] = challenge[c] /\ pending'[c] = pending[c]
    BY <1>3, <2>2 DEF QueryOK
  <2> QED BY <1>3, <2>1, <2>2 DEF QueryStep
<1> QED BY <1>1, <1>2, <1>3 DEF QueryOK

LEMMA AnswerQuery ==
    ASSUME TypeOK, NEW c \in Conns, NEW S, Continue(c, S) \/ Return(c, S)
    PROVE  \A d \in Conns : QueryStep(d)
BY DEF Continue, Return, QueryStep, TypeOK, HandlerTypeOK

(* The entry of c goes to the front: it is not older than the entries of its *)
(* connection, and no other connection has its challenge.                   *)
LEMMA RecordKeepsOrder ==
    ASSUME IInv, ChallengeOK, QueryOK, NEW c \in Conns, RecordQuery(c)
    PROVE  QueryOK'
<1> DEFINE entry == [at |-> pending[c].now, pubkey |-> pubkey[c], by |-> challenge[c]]
           all   == <<entry>> \o recentQueries
           size  == IF Len(all) > QueryLimit THEN QueryLimit ELSE Len(all)
<1> USE ConstantsAssumption
<1>1. /\ entry \in Query /\ entry.at = pending[c].now /\ entry.by = challenge[c]
      /\ recentQueries \in Seq(Query)
  BY DEF RecordQuery, IInv, PhaseOK, TypeOK, HandlerTypeOK, SharedTypeOK, Pending, Query
<1>2. recentQueries' = SubSeq(all, 1, size)
  BY DEF RecordQuery
<1> HIDE DEF entry
<1>3. /\ all \in Seq(Query) /\ Len(all) = Len(recentQueries) + 1
      /\ all[1] = entry
      /\ \A i \in 2..Len(all) : all[i] = recentQueries[i - 1] /\ i - 1 \in DOMAIN recentQueries
  BY <1>1
<1>4. size \in 0..Len(all) /\ size <= QueryLimit
  BY <1>3
<1> HIDE DEF all, size
<1>5. /\ Len(recentQueries') = size
      /\ DOMAIN recentQueries' = 1..size
      /\ \A i \in 1..size : recentQueries'[i] = all[i]
  BY <1>2, <1>3, <1>4
<1>6. \A i \in 1..size : i \in 1..Len(all) /\ (i = 1 \/ i \in 2..Len(all))
  BY <1>3, <1>4
<1>7. \A i \in DOMAIN recentQueries : recentQueries[i] \in Query
  BY <1>1
<1>8. entry.at <= now
  BY <1>1 DEF IInv, Evidence, PastOK
<1>9. ASSUME NEW i \in 1..size PROVE recentQueries'[i].at <= now'
  BY <1>3, <1>5, <1>6, <1>8 DEF RecordQuery, envVars, QueryOK
<1>10. ASSUME NEW i \in 1..size, NEW j \in 1..size, i < j,
              recentQueries'[i].by = recentQueries'[j].by
       PROVE  recentQueries'[i].at >= recentQueries'[j].at
  <2>1. j \in 2..Len(all) /\ recentQueries'[j] = recentQueries[j - 1] /\ j - 1 \in DOMAIN recentQueries
    BY <1>3, <1>4, <1>5, <1>10
  <2>2. CASE i = 1
    <3>1. recentQueries'[i] = entry
      BY <1>3, <1>5, <2>2
    <3>2. recentQueries[j - 1].by = challenge[c]
      BY <1>1, <1>10, <2>1, <3>1
    <3>3. recentQueries[j - 1].at <= pending[c].now
      BY <2>1, <3>2 DEF RecordQuery, QueryOK
    <3> QED BY <1>1, <1>7, <2>1, <3>1, <3>3 DEF Query
  <2>3. CASE i # 1
    <3>1. /\ recentQueries'[i] = recentQueries[i - 1] /\ i - 1 \in DOMAIN recentQueries
          /\ i - 1 < j - 1
      BY <1>3, <1>5, <1>6, <1>10, <2>3
    <3> QED BY <1>10, <2>1, <3>1 DEF QueryOK, QueriesInOrder
  <2> QED BY <2>2, <2>3
<1>11. ASSUME NEW d \in Conns, NEW i \in 1..size, pc'[d] = "record", recentQueries'[i].by = challenge'[d]
       PROVE  recentQueries'[i].at <= pending'[d].now
  <2>1. /\ d # c /\ pc[d] = "record" /\ pc[c] = "record"
        /\ pending'[d] = pending[d] /\ challenge' = challenge
    BY <1>11 DEF RecordQuery, Goto, IInv, TypeOK, HandlerTypeOK
  <2>2. challenge[d] # challenge[c]
    BY <2>1 DEF ChallengeOK
  <2>3. i # 1
    BY <1>1, <1>3, <1>5, <1>11, <2>1, <2>2
  <2>4. recentQueries'[i] = recentQueries[i - 1] /\ i - 1 \in DOMAIN recentQueries
    BY <1>3, <1>5, <1>6, <2>3
  <2> QED BY <1>11, <2>1, <2>4 DEF QueryOK
<1> QED BY <1>4, <1>5, <1>9, <1>10, <1>11 DEF QueryOK, QueriesInOrder

LEMMA StepQuery == IInv /\ ChallengeOK /\ QueryOK /\ [Next]_vars => QueryOK'
<1> SUFFICES ASSUME IInv, ChallengeOK, QueryOK, [Next]_vars PROVE QueryOK'
  OBVIOUS
<1>0. TypeOK /\ TypeOK'
  BY StepTypes DEF IInv
<1> DEFINE Framed == /\ now' >= now /\ recentQueries' = recentQueries
                     /\ \A c \in Conns : QueryStep(c)
<1> USE DEF handlerVars, linkVars, envVars, logVars
<1>a. Framed => QueryOK'
  BY <1>0, QuerySteps
<1>b. now' = now => now' >= now
  BY <1>0 DEF TypeOK, SharedTypeOK
<1>c. ASSUME NEW c \in Conns, NEW S, Continue(c, S) \/ Return(c, S), UNCHANGED <<now, recentQueries>>
      PROVE  Framed
  BY <1>0, <1>b, <1>c, AnswerQuery
<1>d. now' >= now /\ UNCHANGED <<pc, challenge, pending, recentQueries>> => Framed
  BY DEF QueryStep
<1>e. ASSUME NEW c \in Conns, QueryStep(c), UNCHANGED <<now, recentQueries>>,
             \A d \in Conns \ {c} : pc'[d] = pc[d] /\ challenge'[d] = challenge[d] /\ pending'[d] = pending[d]
      PROVE  Framed
  BY <1>b, <1>e DEF QueryStep
<1> HIDE DEF Framed
<1>1. ASSUME NEW c \in Conns, OpenConn(c) PROVE QueryOK'
  <2>1. QueryStep(c)
    BY <1>0, <1>1 DEF OpenConn, Goto, QueryStep, TypeOK, HandlerTypeOK
  <2>2. \A d \in Conns \ {c} : pc'[d] = pc[d] /\ challenge'[d] = challenge[d] /\ pending'[d] = pending[d]
    BY <1>0, <1>1 DEF OpenConn, Goto, TypeOK, HandlerTypeOK
  <2> QED BY <1>1, <2>1, <2>2, <1>a, <1>e DEF OpenConn
<1>2. ASSUME NEW c \in Conns, ClientCloses(c) PROVE QueryOK'
  BY <1>2, <1>a, <1>c DEF ClientCloses, Answer, WriteUpstream
<1>3. ASSUME NEW c \in Conns, RefuseMessage(c) PROVE QueryOK'
  BY <1>3, <1>a, <1>c DEF RefuseMessage, Answer, WriteUpstream
<1>4. ASSUME NEW c \in Conns, NEW e \in AuthEvent, ReceiveAuth(c, e) PROVE QueryOK'
  <2>1. CASE Answer(c, {})
    BY <1>4, <2>1, <1>a, <1>c DEF ReceiveAuth, Answer
  <2>2. CASE ~Answer(c, {})
    <3>1. QueryStep(c)
      BY <1>0, <1>4, <2>2 DEF ReceiveAuth, Goto, QueryStep, TypeOK, HandlerTypeOK
    <3>2. \A d \in Conns \ {c} : pc'[d] = pc[d] /\ challenge'[d] = challenge[d] /\ pending'[d] = pending[d]
      BY <1>0, <1>4, <2>2 DEF ReceiveAuth, Goto, TypeOK, HandlerTypeOK
    <3> QED BY <1>4, <2>2, <3>1, <3>2, <1>a, <1>e DEF ReceiveAuth
  <2> QED BY <2>1, <2>2
<1>5. ASSUME NEW c \in Conns, ReceiveEmptyAuth(c) PROVE QueryOK'
  <2>1. QueryStep(c)
    BY <1>0, <1>5 DEF ReceiveEmptyAuth, Goto, QueryStep, TypeOK, HandlerTypeOK
  <2>2. \A d \in Conns \ {c} : pc'[d] = pc[d] /\ challenge'[d] = challenge[d] /\ pending'[d] = pending[d]
    BY <1>0, <1>5 DEF ReceiveEmptyAuth, Goto, TypeOK, HandlerTypeOK
  <2> QED BY <1>5, <2>1, <2>2, <1>a, <1>e DEF ReceiveEmptyAuth
<1>6. ASSUME NEW c \in Conns, CheckCache(c) PROVE QueryOK'
  <2>1. CASE Answer(c, {})
    BY <1>6, <2>1, <1>a, <1>c DEF CheckCache, Answer
  <2>2. CASE ~Answer(c, {})
    <3>1. QueryStep(c)
      BY <1>0, <1>6, <2>2 DEF CheckCache, Goto, QueryStep, TypeOK, HandlerTypeOK
    <3>2. \A d \in Conns \ {c} : pc'[d] = pc[d] /\ challenge'[d] = challenge[d] /\ pending'[d] = pending[d]
      BY <1>0, <1>6, <2>2 DEF CheckCache, Goto, TypeOK, HandlerTypeOK
    <3> QED BY <1>6, <2>2, <3>1, <3>2, <1>a, <1>e DEF CheckCache
  <2> QED BY <2>1, <2>2
<1>7. ASSUME NEW c \in Conns, LookupUsername(c) PROVE QueryOK'
  <2>1. CASE Answer(c, {})
    BY <1>7, <2>1, <1>a, <1>c DEF LookupUsername, Answer
  <2>2. CASE ~Answer(c, {})
    <3>1. QueryStep(c)
      BY <1>0, <1>7, <2>2 DEF LookupUsername, Goto, QueryStep, TypeOK, HandlerTypeOK
    <3>2. \A d \in Conns \ {c} : pc'[d] = pc[d] /\ challenge'[d] = challenge[d] /\ pending'[d] = pending[d]
      BY <1>0, <1>7, <2>2 DEF LookupUsername, Goto, TypeOK, HandlerTypeOK
    <3> QED BY <1>7, <2>2, <3>1, <3>2, <1>a, <1>e DEF LookupUsername
  <2> QED BY <2>1, <2>2
<1>8. ASSUME NEW c \in Conns, VerifyNIP05(c) PROVE QueryOK'
  <2>1. CASE Answer(c, {})
    BY <1>8, <2>1, <1>a, <1>c DEF VerifyNIP05, Answer
  <2>2. CASE ~Answer(c, {})
    <3>1. QueryStep(c)
      BY <1>0, <1>8, <2>2 DEF VerifyNIP05, Goto, QueryStep, TypeOK, HandlerTypeOK
    <3>2. \A d \in Conns \ {c} : pc'[d] = pc[d] /\ challenge'[d] = challenge[d] /\ pending'[d] = pending[d]
      BY <1>0, <1>8, <2>2 DEF VerifyNIP05, Goto, TypeOK, HandlerTypeOK
    <3> QED BY <1>8, <2>2, <3>1, <3>2, <1>a, <1>e DEF VerifyNIP05
  <2> QED BY <2>1, <2>2
<1>9. ASSUME NEW c \in Conns, PutCache(c) PROVE QueryOK'
  <2>1. CASE Answer(c, {})
    BY <1>9, <2>1, <1>a, <1>c DEF PutCache, Answer
  <2>2. CASE ~Answer(c, {})
    <3>1. QueryStep(c)
      BY <1>0, <1>9, <2>2 DEF PutCache, Goto, QueryStep, TypeOK, HandlerTypeOK
    <3>2. \A d \in Conns \ {c} : pc'[d] = pc[d] /\ challenge'[d] = challenge[d] /\ pending'[d] = pending[d]
      BY <1>0, <1>9, <2>2 DEF PutCache, Goto, TypeOK, HandlerTypeOK
    <3> QED BY <1>9, <2>2, <3>1, <3>2, <1>a, <1>e DEF PutCache
  <2> QED BY <2>1, <2>2
<1>10. ASSUME NEW c \in Conns, DialUpstream(c) PROVE QueryOK'
  <2>1. CASE Answer(c, {})
    BY <1>10, <2>1, <1>a, <1>c DEF DialUpstream, Answer
  <2>2. CASE ~Answer(c, {})
    <3>1. QueryStep(c)
      BY <1>0, <1>10, <2>2 DEF DialUpstream, Goto, QueryStep, TypeOK, HandlerTypeOK
    <3>2. \A d \in Conns \ {c} : pc'[d] = pc[d] /\ challenge'[d] = challenge[d] /\ pending'[d] = pending[d]
      BY <1>0, <1>10, <2>2 DEF DialUpstream, Goto, TypeOK, HandlerTypeOK
    <3> QED BY <1>10, <2>2, <3>1, <3>2, <1>a, <1>e DEF DialUpstream
  <2> QED BY <2>1, <2>2
<1>11. ASSUME NEW c \in Conns, AcceptAuth(c) PROVE QueryOK'
  <2>1. CASE Return(c, {})
    BY <1>11, <2>1, <1>a, <1>c DEF AcceptAuth, Answer
  <2>2. CASE ~Return(c, {})
    <3>1. QueryStep(c)
      BY <1>0, <1>11, <2>2 DEF AcceptAuth, Goto, QueryStep, TypeOK, HandlerTypeOK
    <3>2. \A d \in Conns \ {c} : pc'[d] = pc[d] /\ challenge'[d] = challenge[d] /\ pending'[d] = pending[d]
      BY <1>0, <1>11, <2>2 DEF AcceptAuth, Goto, TypeOK, HandlerTypeOK
    <3> QED BY <1>11, <2>2, <3>1, <3>2, <1>a, <1>e DEF AcceptAuth
  <2> QED BY <2>1, <2>2
<1>12. ASSUME NEW c \in Conns, NEW p \in Pubkeys, ReceiveProfile(c, p) PROVE QueryOK'
  <2>1. QueryStep(c)
    BY <1>0, <1>12 DEF ReceiveProfile, Goto, QueryStep, TypeOK, HandlerTypeOK
  <2>2. \A d \in Conns \ {c} : pc'[d] = pc[d] /\ challenge'[d] = challenge[d] /\ pending'[d] = pending[d]
    BY <1>0, <1>12 DEF ReceiveProfile, Goto, TypeOK, HandlerTypeOK
  <2> QED BY <1>12, <2>1, <2>2, <1>a, <1>e DEF ReceiveProfile
<1>13. ASSUME NEW c \in Conns, BootDial(c) PROVE QueryOK'
  <2>1. CASE Answer(c, {})
    BY <1>13, <2>1, <1>a, <1>c DEF BootDial, Answer
  <2>2. CASE ~Answer(c, {})
    <3>1. QueryStep(c)
      BY <1>0, <1>13, <2>2 DEF BootDial, Goto, QueryStep, TypeOK, HandlerTypeOK
    <3>2. \A d \in Conns \ {c} : pc'[d] = pc[d] /\ challenge'[d] = challenge[d] /\ pending'[d] = pending[d]
      BY <1>0, <1>13, <2>2 DEF BootDial, Goto, TypeOK, HandlerTypeOK
    <3> QED BY <1>13, <2>2, <3>1, <3>2, <1>a, <1>e DEF BootDial
  <2> QED BY <2>1, <2>2
<1>14. ASSUME NEW c \in Conns, UpstreamJudges(c) PROVE QueryOK'
  BY <1>14, <1>a, <1>b, <1>d DEF UpstreamJudges
<1>15. ASSUME NEW c \in Conns, NEW frame \in Frame, BootFrame(c, frame) PROVE QueryOK'
  BY <1>15, <1>a, <1>b, <1>c, <1>d DEF BootFrame
<1>16. ASSUME NEW c \in Conns, BootFails(c) PROVE QueryOK'
  BY <1>16, <1>a, <1>c DEF BootFails, Answer, WriteUpstream
<1>17. ASSUME NEW c \in Conns, NEW p \in Pubkeys, ReceiveEvent(c, p) PROVE QueryOK'
  BY <1>17, <1>a, <1>c DEF ReceiveEvent, Answer, WriteUpstream
<1>18. ASSUME NEW c \in Conns, ReceiveReq(c) PROVE QueryOK'
  <2>1. QueryStep(c)
    BY <1>0, <1>18 DEF ReceiveReq, Goto, QueryStep, TypeOK, HandlerTypeOK
  <2>2. \A d \in Conns \ {c} : pc'[d] = pc[d] /\ challenge'[d] = challenge[d] /\ pending'[d] = pending[d]
    BY <1>0, <1>18 DEF ReceiveReq, Goto, TypeOK, HandlerTypeOK
  <2> QED BY <1>18, <2>1, <2>2, <1>a, <1>e DEF ReceiveReq
<1>19. ASSUME NEW c \in Conns, RecordQuery(c) PROVE QueryOK'
  BY <1>19, RecordKeepsOrder
<1>20. ASSUME NEW c \in Conns, ForwardReq(c) PROVE QueryOK'
  BY <1>20, <1>a, <1>c DEF ForwardReq, Answer, WriteUpstream
<1>21. ASSUME NEW c \in Conns, ForwardOther(c) PROVE QueryOK'
  BY <1>21, <1>a, <1>c DEF ForwardOther, Answer, WriteUpstream
<1>22. ASSUME NEW k \in Links, PipeMessage(k) PROVE QueryOK'
  BY <1>22, <1>a, <1>b, <1>d DEF PipeMessage
<1>23. ASSUME NEW k \in Links, PipeEnds(k) PROVE QueryOK'
  BY <1>23, <1>a, <1>b, <1>d DEF PipeEnds
<1>24. ASSUME Tick PROVE QueryOK'
  <2>1. now' >= now
    BY <1>0, <1>24 DEF Tick, TypeOK, SharedTypeOK
  <2> QED BY <1>24, <2>1, <1>a, <1>d DEF Tick
<1>25. ASSUME NEW u \in Usernames, NEW p \in Pubkeys \cup {NoPubkey}, DirectoryChanges(u, p) PROVE QueryOK'
  BY <1>25, <1>a, <1>b, <1>d DEF DirectoryChanges
<1>26. ASSUME NEW k \in Links, UpstreamLost(k) PROVE QueryOK'
  BY <1>26, <1>a, <1>b, <1>d DEF UpstreamLost
<1>27. ASSUME Restart PROVE QueryOK'
  <2>1. recentQueries' = <<>>
    BY <1>27 DEF Restart
  <2>2. Len(recentQueries') = 0 /\ DOMAIN recentQueries' = {}
    BY <2>1
  <2>3. 0 <= QueryLimit
    BY ConstantsAssumption
  <2> QED BY <2>2, <2>3 DEF QueryOK, QueriesInOrder
<1>28. CASE UNCHANGED vars
  BY <1>28, <1>a, <1>b, <1>d DEF vars
<1> QED
  BY <1>1, <1>2, <1>3, <1>4, <1>5, <1>6, <1>7, <1>8, <1>9, <1>10, <1>11, <1>12, <1>13, <1>14, <1>15, <1>16, <1>17, <1>18, <1>19, <1>20, <1>21, <1>22, <1>23, <1>24, <1>25, <1>26, <1>27, <1>28
  DEF Next, HandlerStep, ClientMessage, Environment

-----------------------------------------------------------------------------
Session ==
    /\ Identity /\ LinksOK
    /\ BackedOK /\ VerdictOK /\ QueryOK

(* The inductive invariant of the sessions, on top of the one of admission: *)
(* a handler's phase bounds what it may claim, hold, forward and record,    *)
(* whatever the other handlers, the pipes, upstream and restarts do.        *)
THEOREM SessionInvariant == Spec => []Session
<1>1. Init => Session
  <2> SUFFICES ASSUME Init PROVE Session
    OBVIOUS
  <2>1. Identity
    BY InitIdentity
  <2>2. LinksOK /\ BackedOK /\ VerdictOK
    BY ConstantsAssumption
       DEF Init, LinksOK, Holds, NoPending, UpstreamReleased, BackedOK, ForwardedIsBacked,
           VerdictOK, ConfirmedMeansStored
  <2>3. Len(recentQueries) = 0 /\ DOMAIN recentQueries = {} /\ 0 <= QueryLimit
    BY ConstantsAssumption DEF Init
  <2>4. QueryOK
    BY <2>3 DEF QueryOK, QueriesInOrder
  <2> QED BY <2>1, <2>2, <2>4 DEF Session
<1>2. IInv /\ Session /\ [Next]_vars => Session'
  BY StepIdentity, StepLinks, StepForwarded, StepVerdict, StepQuery DEF Session, Identity, IdentityStep
<1> QED BY <1>1, <1>2, AdmissionInvariant, PTL DEF Spec

(* A step that gives a connection its key rests on an AUTH event that has   *)
(* authenticated nobody before: the event carries the challenge of the      *)
(* connection (auth.Verify), which no other connection was or will be sent, *)
(* and this connection was not authenticated.  What is replayed on another  *)
(* connection, after a reconnection or after a restart is refused.          *)
THEOREM ProofsAreNotShared == Spec => OneProofOneSession
<1>1. ASSUME IInv, Session, [Next]_vars, NEW c \in Conns,
             pubkey[c] = NoPubkey, pubkey'[c] # NoPubkey
      PROVE  proof[c] \notin used
  <2>1. Claims(c)
    BY <1>1, StepIdentity DEF Session, IdentityStep, Admits
  <2>2. proof[c].challenge = challenge[c]
    BY <1>1, <2>1 DEF Session, Identity, ProofOK
  <2> QED BY <1>1, <2>2 DEF Session, Identity, UsedOK
<1>2. IInv /\ Session /\ [Next]_vars =>
         [\A c \in Conns : pubkey[c] = NoPubkey /\ pubkey'[c] # NoPubkey => proof[c] \notin used]_vars
  BY <1>1
<1> QED BY <1>2, SessionInvariant, AdmissionInvariant, PTL DEF Spec, OneProofOneSession

(* However a handler of Server.websocket returns or goes on, an upstream    *)
(* connection that is not closed has its handler, or was overwritten by the *)
(* dial of an AUTH that followed one without an event (server.go:260).      *)
THEOREM LinksAreReleased == Spec => []UpstreamReleased
<1>1. Session => UpstreamReleased
  BY DEF Session, LinksOK
<1> QED BY <1>1, SessionInvariant, PTL

(* Upstream is sent profiles of clients not authenticated yet, and events   *)
(* whose author, the key of the session, has once passed a NIP-05 check.    *)
THEOREM ForwardersAreBacked == Spec => []ForwardedIsBacked
<1>1. Session => ForwardedIsBacked
  BY DEF Session, BackedOK
<1> QED BY <1>1, SessionInvariant, PTL

(* Nothing from upstream reaches a client before the OK to its AUTH: the    *)
(* pipe goroutine of a connection is started after that OK is written, and  *)
(* a pipe left over from an earlier connection writes to nobody.            *)
THEOREM OKComesFirst == Spec => []RelayedAfterOK
<1>1. Session => RelayedAfterOK
  BY DEF Session, Identity, PipeOK
<1> QED BY <1>1, SessionInvariant, PTL

(* The OK forwardToUpstreamAndWaitOK passes on for a profile is upstream's  *)
(* word on that profile.                                                    *)
THEOREM ConfirmationsAreTrue == Spec => []ConfirmedMeansStored
<1>1. Session => ConfirmedMeansStored
  BY DEF Session, VerdictOK
<1> QED BY <1>1, SessionInvariant, PTL

(* recordRelayQuery keeps the list within its limit and the queries of one  *)
(* connection newest first, although it takes the time before queryMu.      *)
THEOREM QueriesStayInOrder == Spec => []QueriesInOrder
<1>1. Session => QueriesInOrder
  BY DEF Session, QueryOK
<1> QED BY <1>1, SessionInvariant, PTL
============================================================================
