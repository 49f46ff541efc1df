-------------------------- MODULE RelayGate_proofs --------------------------
(***************************************************************************)
(* Proofs about RelayGate for any number of connections, keys, usernames   *)
(* and upstream connections, and any TTL: types, and admission.            *)
(*                                                                         *)
(* The gate admits on evidence: the cache never outlives the NIP-05 check  *)
(* behind it, and the gate implements AdmissionContract.  The inductive    *)
(* invariant says where the evidence for a decision is at each moment:     *)
(* with the handler that has just verified (PutOK), in the cache           *)
(* (StoreOK), and with the handler that goes on to dial (DialOK).          *)
(***************************************************************************)
EXTENDS RelayGate, TLAPS

(* What the phase of a handler says about its locals. *)
PhaseOK ==
    \A c \in Conns :
        /\ pc[c] \in {"cache", "lookup", "nip05", "put", "bootDial", "bootWait"} =>
              pending[c].pubkey \in Pubkeys /\ pubkey[c] = NoPubkey
        /\ pc[c] \in {"nip05", "put"} => pending[c].username \in Usernames
        /\ pc[c] = "dial" => pubkey[c] = NoPubkey
        /\ pc[c] \in {"record", "forward"} => pubkey[c] \in Pubkeys

-----------------------------------------------------------------------------
(* Updates of a handler's locals. *)

LEMMA PendingUpdate ==
    ASSUME NEW f \in [Conns -> Pending], NEW c \in Conns
    PROVE  /\ \A u \in Usernames : [f EXCEPT ![c].username = u] \in [Conns -> Pending]
           /\ \A n \in Nat : [f EXCEPT ![c].now = n] \in [Conns -> Pending]
           /\ [f EXCEPT ![c].tried = @ + 1] \in [Conns -> Pending]
           /\ \A k \in Links : [f EXCEPT ![c].link = k] \in [Conns -> Pending]
<1>1. ASSUME NEW u \in Usernames PROVE [f EXCEPT ![c].username = u] \in [Conns -> Pending]
  <2>1. [f[c] EXCEPT !.username = u] \in Pending BY DEF Pending
  <2> QED BY <2>1
<1>2. ASSUME NEW n \in Nat PROVE [f EXCEPT ![c].now = n] \in [Conns -> Pending]
  <2>1. [f[c] EXCEPT !.now = n] \in Pending BY DEF Pending
  <2> QED BY <2>1
<1>3. [f EXCEPT ![c].tried = @ + 1] \in [Conns -> Pending]
  <2>1. [f[c] EXCEPT !.tried = @ + 1] \in Pending BY DEF Pending
  <2> QED BY <2>1
<1>4. ASSUME NEW k \in Links PROVE [f EXCEPT ![c].link = k] \in [Conns -> Pending]
  <2>1. [f[c] EXCEPT !.link = k] \in Pending BY DEF Pending
  <2> QED BY <2>1
<1> QED BY <1>1, <1>2, <1>3, <1>4

LEMMA FreshPending ==
    ASSUME NEW p \in Pubkeys, NEW n \in Nat
    PROVE  /\ NoPending \in Pending
           /\ [NoPending EXCEPT !.pubkey = p, !.now = n] \in Pending
           /\ [NoPending EXCEPT !.pubkey = p, !.now = n].pubkey = p
           /\ [NoPending EXCEPT !.pubkey = p, !.now = n].now = n
BY ConstantsAssumption DEF NoPending, Pending

-----------------------------------------------------------------------------
(* The ways a handler goes on keep types and phases. *)

LEMMA ContinueOK ==
    ASSUME TypeOK, PhaseOK, NEW c \in Conns, NEW S, Continue(c, S)
    PROVE  HandlerTypeOK' /\ PhaseOK' /\ (UNCHANGED pipe => LinkTypeOK')
<1> USE ConstantsAssumption DEF TypeOK, HandlerTypeOK, LinkTypeOK, Pending, NoPending, Phases
<1>1. HandlerTypeOK'
  BY DEF Continue
<1>2. UNCHANGED pipe => LinkTypeOK'
  BY DEF Continue, Closing
<1>3. PhaseOK'
  BY DEF Continue, PhaseOK
<1> QED BY <1>1, <1>2, <1>3

LEMMA ReturnOK ==
    ASSUME TypeOK, PhaseOK, NEW c \in Conns, NEW S, Return(c, S)
    PROVE  HandlerTypeOK' /\ PhaseOK' /\ (UNCHANGED pipe => LinkTypeOK')
<1> USE ConstantsAssumption DEF TypeOK, HandlerTypeOK, LinkTypeOK, Pending, NoPending, Phases
<1>1. HandlerTypeOK'
  BY DEF Return
<1>2. UNCHANGED pipe => LinkTypeOK'
  BY DEF Return, Closing
<1>3. PhaseOK'
  BY DEF Return, PhaseOK
<1> QED BY <1>1, <1>2, <1>3

LEMMA AnswerOK ==
    ASSUME TypeOK, PhaseOK, NEW c \in Conns, NEW S, Answer(c, S)
    PROVE  HandlerTypeOK' /\ PhaseOK' /\ LinkTypeOK'
BY ContinueOK, ReturnOK DEF Answer

LEMMA WriteUpstreamOK ==
    ASSUME TypeOK, PhaseOK, NEW c \in Conns,
           NEW events \in SUBSET [author : Pubkeys, kind : {0, 1}, session : Pubkeys \cup {NoPubkey}],
           WriteUpstream(c, events)
    PROVE  HandlerTypeOK' /\ PhaseOK' /\ LinkTypeOK'
           /\ forwarded' \in SUBSET [author : Pubkeys, kind : {0, 1}, session : Pubkeys \cup {NoPubkey}]
<1>1. HandlerTypeOK' /\ PhaseOK' /\ LinkTypeOK'
  BY ContinueOK, ReturnOK DEF WriteUpstream
<1>2. forwarded' \in SUBSET [author : Pubkeys, kind : {0, 1}, session : Pubkeys \cup {NoPubkey}]
  BY DEF WriteUpstream, TypeOK, SharedTypeOK
<1> QED BY <1>1, <1>2

LEMMA InitTypes == Init => TypeOK /\ PhaseOK
<1> SUFFICES ASSUME Init PROVE TypeOK /\ PhaseOK
  OBVIOUS
<1>1. HandlerTypeOK /\ LinkTypeOK /\ PhaseOK
  BY ConstantsAssumption DEF Init, HandlerTypeOK, LinkTypeOK, PhaseOK, Phases, Pending, NoPending
<1>2. SharedTypeOK
  BY DEF Init, SharedTypeOK, EmptyStore
<1> QED BY <1>1, <1>2 DEF TypeOK

(* One step per action.  An action that may answer the client is split into *)
(* the answer, which AnswerOK covers, and the step that goes on.            *)
LEMMA StepTypes == TypeOK /\ PhaseOK /\ [Next]_vars => TypeOK' /\ PhaseOK'
<1> SUFFICES ASSUME TypeOK, PhaseOK, [Next]_vars PROVE TypeOK' /\ PhaseOK'
  OBVIOUS
<1> USE ConstantsAssumption DEF TypeOK, handlerVars, linkVars, envVars, logVars
<1>1. ASSUME NEW c \in Conns, OpenConn(c) PROVE TypeOK' /\ PhaseOK'
  <2>1. SharedTypeOK'
    BY <1>1 DEF OpenConn, SharedTypeOK
  <2>2. HandlerTypeOK'
    BY <1>1 DEF OpenConn, HandlerTypeOK, Pending, NoPending, Phases, Goto, SharedTypeOK
  <2>3. LinkTypeOK'
    BY <1>1 DEF OpenConn, LinkTypeOK
  <2>4. PhaseOK'
    BY <1>1 DEF OpenConn, PhaseOK, HandlerTypeOK, Pending, NoPending, Phases, Goto
  <2> QED BY <2>1, <2>2, <2>3, <2>4
<1>2. ASSUME NEW c \in Conns, ClientCloses(c) PROVE TypeOK' /\ PhaseOK'
  <2>1. SharedTypeOK'
    BY <1>2 DEF ClientCloses, SharedTypeOK
  <2> QED BY <1>2, <2>1, ReturnOK DEF ClientCloses
<1>3. ASSUME NEW c \in Conns, RefuseMessage(c) PROVE TypeOK' /\ PhaseOK'
  <2>1. SharedTypeOK'
    BY <1>3 DEF RefuseMessage, SharedTypeOK
  <2> QED BY <1>3, <2>1, AnswerOK DEF RefuseMessage
<1>4. ASSUME NEW c \in Conns, NEW e \in AuthEvent, ReceiveAuth(c, e) PROVE TypeOK' /\ PhaseOK'
  <2>1. SharedTypeOK'
    BY <1>4 DEF ReceiveAuth, SharedTypeOK
  <2>2. CASE Answer(c, {})
    BY <2>1, <2>2, AnswerOK
  <2>3. CASE ~Answer(c, {})
    <3> DEFINE new == [NoPending EXCEPT !.pubkey = e.pubkey, !.now = now]
    <3>1. e.pubkey \in Pubkeys /\ now \in Nat
      BY DEF AuthEvent, SharedTypeOK
    <3>2. new \in Pending /\ new.pubkey = e.pubkey
      BY <3>1, FreshPending
    <3> HIDE DEF new
    <3>3. /\ pc[c] = "reading" /\ pubkey[c] = NoPubkey
          /\ pc' = [pc EXCEPT ![c] = "cache"]
          /\ pending' = [pending EXCEPT ![c] = new]
          /\ proof' = [proof EXCEPT ![c] = e]
          /\ UNCHANGED <<linkVars, challenge, pubkey, upstream, seen, verdict>>
      BY <1>4, <2>3 DEF ReceiveAuth, Goto, new
    <3>4. HandlerTypeOK' /\ LinkTypeOK'
      BY <3>2, <3>3 DEF HandlerTypeOK, LinkTypeOK, Phases
    <3>5. PhaseOK'
      BY <3>1, <3>2, <3>3 DEF PhaseOK, HandlerTypeOK
    <3> QED BY <2>1, <3>4, <3>5
  <2> QED BY <2>2, <2>3
<1>5. ASSUME NEW c \in Conns, ReceiveEmptyAuth(c) PROVE TypeOK' /\ PhaseOK'
  <2>1. SharedTypeOK'
    BY <1>5 DEF ReceiveEmptyAuth, SharedTypeOK
  <2>2. HandlerTypeOK'
    BY <1>5 DEF ReceiveEmptyAuth, HandlerTypeOK, Pending, NoPending, Phases, Goto
  <2>3. LinkTypeOK'
    BY <1>5 DEF ReceiveEmptyAuth, LinkTypeOK
  <2>4. PhaseOK'
    BY <1>5 DEF ReceiveEmptyAuth, PhaseOK, HandlerTypeOK, Pending, NoPending, Phases, Goto
  <2> QED BY <2>1, <2>2, <2>3, <2>4
<1>6. ASSUME NEW c \in Conns, CheckCache(c) PROVE TypeOK' /\ PhaseOK'
  <2>1. SharedTypeOK'
    BY <1>6 DEF CheckCache, SharedTypeOK
  <2>2. CASE Answer(c, {})
    BY <2>1, <2>2, AnswerOK
  <2>3. CASE ~Answer(c, {})
    <3>1. HandlerTypeOK'
      BY <1>6, <2>3 DEF CheckCache, HandlerTypeOK, Pending, NoPending, Phases, Goto
    <3>2. LinkTypeOK'
      BY <1>6, <2>3 DEF CheckCache, LinkTypeOK, HandlerTypeOK, Pending, FreeLinks
    <3>3. PhaseOK'
      BY <1>6, <2>3 DEF CheckCache, PhaseOK, HandlerTypeOK, Pending, NoPending, Phases, Goto, AuthEvent
    <3> QED BY <2>1, <3>1, <3>2, <3>3
  <2> QED BY <2>2, <2>3
<1>7. ASSUME NEW c \in Conns, LookupUsername(c) PROVE TypeOK' /\ PhaseOK'
  <2>1. SharedTypeOK'
    BY <1>7 DEF LookupUsername, SharedTypeOK
  <2>2. CASE Answer(c, {})
    BY <2>1, <2>2, AnswerOK
  <2>3. ASSUME NEW u \in Usernames,
               pc' = [pc EXCEPT ![c] = "nip05"],
               pending' = [pending EXCEPT ![c].username = u],
               UNCHANGED <<linkVars, challenge, pubkey, upstream, proof, seen, verdict>>
        PROVE  TypeOK' /\ PhaseOK'
    <3>1. pending' \in [Conns -> Pending]
      BY <2>3, PendingUpdate DEF HandlerTypeOK
    <3>2. HandlerTypeOK' /\ LinkTypeOK'
      BY <2>3, <3>1 DEF HandlerTypeOK, LinkTypeOK, Phases
    <3>3. /\ pending'[c].pubkey = pending[c].pubkey
          /\ pending'[c].username = u
          /\ \A d \in Conns \ {c} : pending'[d] = pending[d]
      BY <2>3 DEF HandlerTypeOK, Pending
    <3>4. PhaseOK'
      BY <1>7, <2>3, <3>3 DEF PhaseOK, HandlerTypeOK, LookupUsername
    <3> QED BY <2>1, <3>2, <3>4
  <2>4. CASE /\ pending' = [pending EXCEPT ![c].tried = @ + 1]
             /\ UNCHANGED <<linkVars, pc, challenge, pubkey, upstream, proof, seen, verdict>>
    <3>1. pending' \in [Conns -> Pending]
      BY <2>4, PendingUpdate DEF HandlerTypeOK
    <3>2. HandlerTypeOK' /\ LinkTypeOK'
      BY <2>4, <3>1 DEF HandlerTypeOK, LinkTypeOK
    <3>3. \A d \in Conns : pending'[d].pubkey = pending[d].pubkey /\ pending'[d].username = pending[d].username
      BY <2>4 DEF HandlerTypeOK, Pending
    <3>4. PhaseOK'
      BY <2>4, <3>3 DEF PhaseOK
    <3> QED BY <2>1, <3>2, <3>4
  <2> QED BY <1>7, <2>2, <2>3, <2>4 DEF LookupUsername, Goto
<1>8. ASSUME NEW c \in Conns, VerifyNIP05(c) PROVE TypeOK' /\ PhaseOK'
  <2>1. SharedTypeOK'
    <3>1. verifiedAt' \in [Pubkeys -> [Usernames -> Int]]
      <4>1. CASE UNCHANGED verifiedAt
        BY <4>1 DEF SharedTypeOK
      <4>2. CASE verifiedAt' = [verifiedAt EXCEPT ![pending[c].pubkey][pending[c].username] = now]
        <5>1. pending[c].pubkey \in Pubkeys /\ pending[c].username \in Usernames /\ now \in Int
          BY <1>8 DEF VerifyNIP05, PhaseOK, SharedTypeOK
        <5>2. [verifiedAt[pending[c].pubkey] EXCEPT ![pending[c].username] = now] \in [Usernames -> Int]
          BY <5>1 DEF SharedTypeOK
        <5> QED BY <4>2, <5>1, <5>2 DEF SharedTypeOK
      <4> QED BY <1>8, <4>1, <4>2 DEF VerifyNIP05
    <3> QED BY <1>8, <3>1 DEF VerifyNIP05, SharedTypeOK
  <2>2. CASE Answer(c, {})
    BY <2>1, <2>2, AnswerOK
  <2>3. CASE ~Answer(c, {})
    <3>1. HandlerTypeOK'
      BY <1>8, <2>3 DEF VerifyNIP05, HandlerTypeOK, Pending, NoPending, Phases, Goto
    <3>2. LinkTypeOK'
      BY <1>8, <2>3 DEF VerifyNIP05, LinkTypeOK, HandlerTypeOK, Pending, FreeLinks
    <3>3. PhaseOK'
      BY <1>8, <2>3 DEF VerifyNIP05, PhaseOK, HandlerTypeOK, Pending, NoPending, Phases, Goto, AuthEvent
    <3> QED BY <2>1, <3>1, <3>2, <3>3
  <2> QED BY <2>2, <2>3
<1>9. ASSUME NEW c \in Conns, PutCache(c) PROVE TypeOK' /\ PhaseOK'
  <2>1. SharedTypeOK'
    <3>1. cache' \in [Pubkeys -> Row \cup {NoRow}]
      <4>1. CASE UNCHANGED cache
        BY <4>1 DEF SharedTypeOK
      <4>2. CASE cache' = Put(cache, pending[c].pubkey, pending[c].username,
                              pending[c].now, pending[c].now + TTL)
        <5>1. pending[c].username \in Usernames /\ pending[c].now \in Nat
          BY <1>9 DEF PutCache, PhaseOK, HandlerTypeOK, Pending
        <5>2. [username |-> pending[c].username, verifiedAt |-> pending[c].now,
               expiresAt |-> pending[c].now + TTL] \in Row
          BY <5>1 DEF Row
        <5> QED BY <4>2, <5>2 DEF Put, SharedTypeOK
      <4> QED BY <1>9, <4>1, <4>2 DEF PutCache
    <3> QED BY <1>9, <3>1 DEF PutCache, SharedTypeOK
  <2>2. CASE Answer(c, {})
    BY <2>1, <2>2, AnswerOK
  <2>3. CASE ~Answer(c, {})
    <3>1. HandlerTypeOK'
      BY <1>9, <2>3 DEF PutCache, HandlerTypeOK, Pending, NoPending, Phases, Goto
    <3>2. LinkTypeOK'
      BY <1>9, <2>3 DEF PutCache, LinkTypeOK, HandlerTypeOK, Pending, FreeLinks
    <3>3. PhaseOK'
      BY <1>9, <2>3 DEF PutCache, PhaseOK, HandlerTypeOK, Pending, NoPending, Phases, Goto, AuthEvent
    <3> QED BY <2>1, <3>1, <3>2, <3>3
  <2> QED BY <2>2, <2>3
<1>10. ASSUME NEW c \in Conns, DialUpstream(c) PROVE TypeOK' /\ PhaseOK'
  <2>1. SharedTypeOK'
    <3>1. used' \in SUBSET (AuthEvent \cup {NoEvent})
      BY <1>10 DEF DialUpstream, Recorded, SharedTypeOK, HandlerTypeOK
    <3> QED BY <1>10, <3>1 DEF DialUpstream, SharedTypeOK
  <2>2. CASE Answer(c, {})
    BY <2>1, <2>2, AnswerOK
  <2>3. CASE ~Answer(c, {})
    <3>1. PICK k \in FreeLinks :
             /\ link' = [link EXCEPT ![k] = "open"]
             /\ serves' = [serves EXCEPT ![k] = pending[c].pubkey]
             /\ upstream' = [upstream EXCEPT ![c] = k]
             /\ pubkey' = [pubkey EXCEPT ![c] = pending[c].pubkey]
             /\ Goto(c, "accept")
             /\ abandoned' \in {abandoned, abandoned \cup {upstream[c]}}
             /\ upstream[c] = NoLink => abandoned' = abandoned
             /\ UNCHANGED <<pipe, challenge, pending, proof, seen, verdict>>
      BY <1>10, <2>3 DEF DialUpstream, Recorded
    <3>2. k \in Links /\ pending[c].pubkey \in Pubkeys \cup {NoPubkey}
      BY DEF FreeLinks, HandlerTypeOK, Pending
    <3>3. HandlerTypeOK'
      BY <3>1, <3>2 DEF HandlerTypeOK, Phases, Goto
    <3>4. LinkTypeOK'
      BY <3>1, <3>2 DEF LinkTypeOK, HandlerTypeOK
    <3>5. PhaseOK'
      BY <3>1 DEF PhaseOK, HandlerTypeOK, Goto
    <3> QED BY <2>1, <3>3, <3>4, <3>5
  <2> QED BY <2>2, <2>3
<1>11. ASSUME NEW c \in Conns, AcceptAuth(c) PROVE TypeOK' /\ PhaseOK'
  <2>1. SharedTypeOK'
    BY <1>11 DEF AcceptAuth, SharedTypeOK
  <2>2. CASE Return(c, {}) /\ UNCHANGED pipe
    BY <2>1, <2>2, ReturnOK
  <2>3. CASE /\ Goto(c, "reading")
             /\ seen' = [seen EXCEPT ![c] = @ \cup {"OK"}]
             /\ pipe' = [pipe EXCEPT ![upstream[c]] = challenge[c]]
             /\ pending' = [pending EXCEPT ![c] = NoPending]
             /\ UNCHANGED <<link, serves, abandoned, challenge, pubkey, upstream, proof, verdict>>
    <3>1. NoPending \in Pending
      BY DEF NoPending, Pending
    <3>2. HandlerTypeOK'
      BY <2>3, <3>1 DEF HandlerTypeOK, Phases, Goto
    <3>3. LinkTypeOK'
      BY <2>3 DEF LinkTypeOK, HandlerTypeOK
    <3>4. PhaseOK'
      BY <2>3 DEF PhaseOK, HandlerTypeOK, Goto
    <3> QED BY <2>1, <3>2, <3>3, <3>4
  <2> QED BY <1>11, <2>2, <2>3 DEF AcceptAuth
<1>12. ASSUME NEW c \in Conns, NEW p \in Pubkeys, ReceiveProfile(c, p) PROVE TypeOK' /\ PhaseOK'
  <2>1. SharedTypeOK'
    BY <1>12 DEF ReceiveProfile, SharedTypeOK
  <2>2. HandlerTypeOK'
    BY <1>12 DEF ReceiveProfile, HandlerTypeOK, Pending, NoPending, Phases, Goto
  <2>3. LinkTypeOK'
    BY <1>12 DEF ReceiveProfile, LinkTypeOK
  <2>4. PhaseOK'
    BY <1>12 DEF ReceiveProfile, PhaseOK, HandlerTypeOK, Pending, NoPending, Phases, Goto
  <2> QED BY <2>1, <2>2, <2>3, <2>4
<1>13. ASSUME NEW c \in Conns, BootDial(c) PROVE TypeOK' /\ PhaseOK'
  <2>1. CASE Answer(c, {}) /\ UNCHANGED forwarded
    <3>1. SharedTypeOK'
      BY <1>13, <2>1 DEF BootDial, SharedTypeOK
    <3> QED BY <2>1, <3>1, AnswerOK
  <2>2. ASSUME NEW k \in FreeLinks,
               link' = [link EXCEPT ![k] = "open"],
               serves' = [serves EXCEPT ![k] = NoPubkey],
               pending' = [pending EXCEPT ![c].link = k],
               forwarded' = forwarded \cup {[author |-> pending[c].pubkey, kind |-> 0, session |-> NoPubkey]},
               Goto(c, "bootWait"),
               UNCHANGED <<pipe, abandoned, challenge, pubkey, upstream, proof, seen, verdict>>
        PROVE  TypeOK' /\ PhaseOK'
    <3>1. pending[c].pubkey \in Pubkeys /\ pubkey[c] = NoPubkey
      BY <1>13 DEF BootDial, PhaseOK
    <3>2. SharedTypeOK'
      BY <1>13, <2>2, <3>1 DEF BootDial, SharedTypeOK
    <3>3. pending' \in [Conns -> Pending]
      BY <2>2, PendingUpdate DEF HandlerTypeOK, FreeLinks
    <3>4. HandlerTypeOK'
      BY <2>2, <3>3 DEF HandlerTypeOK, Phases, Goto
    <3>5. LinkTypeOK'
      BY <2>2 DEF LinkTypeOK, FreeLinks
    <3>6. \A d \in Conns : pending'[d].pubkey = pending[d].pubkey /\ pending'[d].username = pending[d].username
      BY <2>2 DEF HandlerTypeOK, Pending
    <3>7. PhaseOK'
      BY <2>2, <3>1, <3>6 DEF PhaseOK, HandlerTypeOK, Goto
    <3> QED BY <3>2, <3>4, <3>5, <3>7
  <2> QED BY <1>13, <2>1, <2>2 DEF BootDial
<1>14. ASSUME NEW c \in Conns, UpstreamJudges(c) PROVE TypeOK' /\ PhaseOK'
  <2>1. SharedTypeOK'
    BY <1>14 DEF UpstreamJudges, SharedTypeOK, PhaseOK
  <2>2. HandlerTypeOK'
    BY <1>14 DEF UpstreamJudges, HandlerTypeOK, Pending, NoPending, Phases, Goto
  <2>3. LinkTypeOK'
    BY <1>14 DEF UpstreamJudges, LinkTypeOK
  <2>4. PhaseOK'
    BY <1>14 DEF UpstreamJudges, PhaseOK, HandlerTypeOK, Pending, NoPending, Phases, Goto
  <2> QED BY <2>1, <2>2, <2>3, <2>4
<1>15. ASSUME NEW c \in Conns, NEW frame \in Frame, BootFrame(c, frame) PROVE TypeOK' /\ PhaseOK'
  <2>1. SharedTypeOK'
    BY <1>15 DEF BootFrame, SharedTypeOK, PhaseOK
  <2>2. CASE Continue(c, {pending[c].link}) /\ UNCHANGED pipe
    BY <2>1, <2>2, ContinueOK
  <2>3. CASE Return(c, {pending[c].link}) /\ UNCHANGED pipe
    BY <2>1, <2>3, ReturnOK
  <2>4. CASE UNCHANGED <<handlerVars, linkVars>>
    BY <2>1, <2>4 DEF HandlerTypeOK, LinkTypeOK, PhaseOK
  <2> QED BY <1>15, <2>2, <2>3, <2>4 DEF BootFrame
<1>16. ASSUME NEW c \in Conns, BootFails(c) PROVE TypeOK' /\ PhaseOK'
  <2>1. SharedTypeOK'
    BY <1>16 DEF BootFails, SharedTypeOK
  <2> QED BY <1>16, <2>1, AnswerOK DEF BootFails
<1>17. ASSUME NEW c \in Conns, NEW p \in Pubkeys, ReceiveEvent(c, p) PROVE TypeOK' /\ PhaseOK'
  <2>1. CASE Answer(c, {}) /\ UNCHANGED forwarded
    BY <1>17, <2>1, AnswerOK DEF ReceiveEvent, SharedTypeOK
  <2>2. CASE p = pubkey[c] /\ WriteUpstream(c, {[author |-> p, kind |-> 1, session |-> pubkey[c]]})
    BY <1>17, <2>2, WriteUpstreamOK DEF ReceiveEvent, SharedTypeOK
  <2> QED BY <1>17, <2>1, <2>2 DEF ReceiveEvent
<1>18. ASSUME NEW c \in Conns, ReceiveReq(c) PROVE TypeOK' /\ PhaseOK'
  <2>1. SharedTypeOK'
    BY <1>18 DEF ReceiveReq, SharedTypeOK
  <2>2. pending' \in [Conns -> Pending]
    BY <1>18, PendingUpdate DEF ReceiveReq, HandlerTypeOK, SharedTypeOK
  <2>3. HandlerTypeOK' /\ LinkTypeOK'
    BY <1>18, <2>2 DEF ReceiveReq, HandlerTypeOK, LinkTypeOK, Phases, Goto
  <2>4. \A d \in Conns : pending'[d].pubkey = pending[d].pubkey /\ pending'[d].username = pending[d].username
    BY <1>18 DEF ReceiveReq, HandlerTypeOK, Pending
  <2>5. PhaseOK'
    BY <1>18, <2>4 DEF ReceiveReq, PhaseOK, HandlerTypeOK, Goto
  <2> QED BY <2>1, <2>3, <2>5
<1>19. ASSUME NEW c \in Conns, RecordQuery(c) PROVE TypeOK' /\ PhaseOK'
  <2>1. SharedTypeOK'
    <3> DEFINE entry == [at |-> pending[c].now, pubkey |-> pubkey[c], by |-> challenge[c]]
               all   == <<entry>> \o recentQueries
               size  == IF Len(all) > QueryLimit THEN QueryLimit ELSE Len(all)
    <3>1. entry \in Query
      BY <1>19 DEF RecordQuery, PhaseOK, HandlerTypeOK, Pending, Query
    <3>2. all \in Seq(Query)
      <4> HIDE DEF entry
      <4> QED BY <3>1 DEF SharedTypeOK
    <3>3. size \in 0..Len(all)
      BY <3>2
    <3>4. recentQueries' = SubSeq(all, 1, size)
      BY <1>19 DEF RecordQuery
    <3>5. recentQueries' \in Seq(Query)
      <4> HIDE DEF all, size
      <4> QED BY <3>2, <3>3, <3>4
    <3> QED BY <1>19, <3>5 DEF RecordQuery, SharedTypeOK
  <2>2. HandlerTypeOK'
    BY <1>19 DEF RecordQuery, HandlerTypeOK, Phases, Goto
  <2>3. LinkTypeOK'
    BY <1>19 DEF RecordQuery, LinkTypeOK
  <2>4. PhaseOK'
    BY <1>19 DEF RecordQuery, PhaseOK, HandlerTypeOK, Goto
  <2> QED BY <2>1, <2>2, <2>3, <2>4
<1>20. ASSUME NEW c \in Conns, ForwardReq(c) PROVE TypeOK' /\ PhaseOK'
  BY <1>20, WriteUpstreamOK DEF ForwardReq, SharedTypeOK
<1>21. ASSUME NEW c \in Conns, ForwardOther(c) PROVE TypeOK' /\ PhaseOK'
  BY <1>21, WriteUpstreamOK DEF ForwardOther, SharedTypeOK
<1>22. ASSUME NEW k \in Links, PipeMessage(k) PROVE TypeOK' /\ PhaseOK'
  <2>1. SharedTypeOK'
    BY <1>22 DEF PipeMessage, SharedTypeOK
  <2>2. HandlerTypeOK'
    BY <1>22 DEF PipeMessage, HandlerTypeOK, Pending, NoPending, Phases, Goto
  <2>3. LinkTypeOK'
    BY <1>22 DEF PipeMessage, LinkTypeOK
  <2>4. PhaseOK'
    BY <1>22 DEF PipeMessage, PhaseOK, HandlerTypeOK, Pending, NoPending, Phases, Goto
  <2> QED BY <2>1, <2>2, <2>3, <2>4
<1>23. ASSUME NEW k \in Links, PipeEnds(k) PROVE TypeOK' /\ PhaseOK'
  <2>1. SharedTypeOK'
    BY <1>23 DEF PipeEnds, SharedTypeOK
  <2>2. HandlerTypeOK'
    BY <1>23 DEF PipeEnds, HandlerTypeOK, Pending, NoPending, Phases, Goto
  <2>3. LinkTypeOK'
    BY <1>23 DEF PipeEnds, LinkTypeOK
  <2>4. PhaseOK'
    BY <1>23 DEF PipeEnds, PhaseOK, HandlerTypeOK, Pending, NoPending, Phases, Goto
  <2> QED BY <2>1, <2>2, <2>3, <2>4
<1>24. ASSUME Tick PROVE TypeOK' /\ PhaseOK'
  <2>1. SharedTypeOK'
    BY <1>24 DEF Tick, SharedTypeOK
  <2>2. HandlerTypeOK'
    BY <1>24 DEF Tick, HandlerTypeOK, Pending, NoPending, Phases, Goto
  <2>3. LinkTypeOK'
    BY <1>24 DEF Tick, LinkTypeOK
  <2>4. PhaseOK'
    BY <1>24 DEF Tick, PhaseOK, HandlerTypeOK, Pending, NoPending, Phases, Goto
  <2> QED BY <2>1, <2>2, <2>3, <2>4
<1>25. ASSUME NEW u \in Usernames, NEW p \in Pubkeys \cup {NoPubkey}, DirectoryChanges(u, p) PROVE TypeOK' /\ PhaseOK'
  <2>1. SharedTypeOK'
    BY <1>25 DEF DirectoryChanges, SharedTypeOK
  <2>2. HandlerTypeOK'
    BY <1>25 DEF DirectoryChanges, HandlerTypeOK, Pending, NoPending, Phases, Goto
  <2>3. LinkTypeOK'
    BY <1>25 DEF DirectoryChanges, LinkTypeOK
  <2>4. PhaseOK'
    BY <1>25 DEF DirectoryChanges, PhaseOK, HandlerTypeOK, Pending, NoPending, Phases, Goto
  <2> QED BY <2>1, <2>2, <2>3, <2>4
<1>26. ASSUME NEW k \in Links, UpstreamLost(k) PROVE TypeOK' /\ PhaseOK'
  <2>1. SharedTypeOK'
    BY <1>26 DEF UpstreamLost, SharedTypeOK
  <2>2. HandlerTypeOK'
    BY <1>26 DEF UpstreamLost, HandlerTypeOK, Pending, NoPending, Phases, Goto
  <2>3. LinkTypeOK'
    BY <1>26 DEF UpstreamLost, LinkTypeOK
  <2>4. PhaseOK'
    BY <1>26 DEF UpstreamLost, PhaseOK, HandlerTypeOK, Pending, NoPending, Phases, Goto
  <2> QED BY <2>1, <2>2, <2>3, <2>4
<1>27. ASSUME Restart PROVE TypeOK' /\ PhaseOK'
  <2>1. SharedTypeOK'
    BY <1>27 DEF Restart, SharedTypeOK
  <2>2. HandlerTypeOK'
    BY <1>27 DEF Restart, HandlerTypeOK, Pending, NoPending, Phases, Goto
  <2>3. LinkTypeOK'
    BY <1>27 DEF Restart, LinkTypeOK
  <2>4. PhaseOK'
    BY <1>27 DEF Restart, PhaseOK, HandlerTypeOK, Pending, NoPending, Phases, Goto
  <2> QED BY <2>1, <2>2, <2>3, <2>4
<1>28. CASE UNCHANGED vars
  BY <1>28 DEF vars, HandlerTypeOK, LinkTypeOK, SharedTypeOK, PhaseOK
<1> QED
  BY <1>1, <1>2, <1>3, <1>4, <1>5, <1>6, <1>7, <1>8, <1>9, <1>10, <1>11, <1>12, <1>13, <1>14, <1>15, <1>16, <1>17, <1>18, <1>19, <1>20, <1>21, <1>22, <1>23, <1>24, <1>25, <1>26, <1>27,
     <1>28 DEF Next, HandlerStep, ClientMessage, Environment

(* Type correctness of the gate: every action of Server.websocket, of the   *)
(* pipe goroutines and of the environment keeps TypeOK.                     *)
THEOREM TypeCorrect == Spec => []TypeOK
<1>1. TypeOK /\ PhaseOK /\ [Next]_vars => (TypeOK /\ PhaseOK)'
  BY StepTypes
<1> QED BY InitTypes, <1>1, PTL DEF Spec

-----------------------------------------------------------------------------
(* The evidence for a decision *)

(* Nothing was verified, and no decision was asked for, in the future. *)
PastOK ==
    /\ \A p \in Pubkeys, u \in Usernames : verifiedAt[p][u] <= now
    /\ \A c \in Conns : pending[c].now <= now

(* A row was put for a check made at or after the time it carries. *)
StoreOK ==
    \A p \in Pubkeys :
        cache[p] # NoRow =>
            /\ cache[p].verifiedAt >= 0
            /\ cache[p].expiresAt = cache[p].verifiedAt + TTL
            /\ cache[p].verifiedAt <= verifiedAt[p][cache[p].username]

PutOK ==
    \A c \in Conns :
        pc[c] = "put" => verifiedAt[pending[c].pubkey][pending[c].username] >= pending[c].now

(* p was confirmed less than TTL before t, or after it. *)
ConfirmedFor(p, t) ==
    \E u \in Usernames : verifiedAt[p][u] # -1 /\ t < verifiedAt[p][u] + TTL

DialOK ==
    \A c \in Conns :
        pc[c] = "dial" /\ pending[c].pubkey # NoPubkey => ConfirmedFor(pending[c].pubkey, pending[c].now)

(* Between messages a handler decides nothing. *)
RestOK ==
    \A c \in Conns : pc[c] \in {"idle", "reading"} => pending[c].pubkey = NoPubkey

Evidence == PastOK /\ StoreOK /\ PutOK /\ DialOK /\ RestOK

IInv == TypeOK /\ PhaseOK /\ Evidence

-----------------------------------------------------------------------------
(* A step of connection c that brings no evidence and needs none. *)
Quiet(c) ==
    \/ pc'[c] = pc[c] /\ pending'[c] = pending[c]
    \/ /\ pc'[c] # "put"
       /\ pending'[c].now <= now
       /\ pc'[c] \in {"dial", "idle", "reading"} => pending'[c].pubkey = NoPubkey

LEMMA QuietSteps ==
    ASSUME TypeOK, TypeOK', Evidence, now' >= now, UNCHANGED <<cache, verifiedAt>>,
           \A c \in Conns : Quiet(c)
    PROVE  Evidence'
<1> USE DEF Evidence
<1>1. PastOK'
  BY DEF PastOK, Quiet, TypeOK, SharedTypeOK, HandlerTypeOK, Pending
<1>2. StoreOK'
  BY DEF StoreOK
<1>3. PutOK'
  BY DEF PutOK, Quiet
<1>4. DialOK'
  BY DEF DialOK, ConfirmedFor, Quiet
<1>5. RestOK'
  BY DEF RestOK, Quiet
<1> QED BY <1>1, <1>2, <1>3, <1>4, <1>5

LEMMA AnswerQuiet ==
    ASSUME TypeOK, NEW c \in Conns, NEW S, Continue(c, S) \/ Return(c, S)
    PROVE  \A d \in Conns : Quiet(d)
BY DEF Continue, Return, Quiet, TypeOK, HandlerTypeOK, SharedTypeOK, NoPending, Pending

LEMMA InitEvidence == Init => Evidence
BY ConstantsAssumption DEF Init, Evidence, PastOK, StoreOK, PutOK, DialOK, RestOK, EmptyStore, NoPending

LEMMA StepEvidence == IInv /\ [Next]_vars => Evidence'
<1> SUFFICES ASSUME TypeOK, PhaseOK, Evidence, [Next]_vars PROVE Evidence'
  BY DEF IInv
<1>0. TypeOK' /\ PhaseOK'
  BY StepTypes
<1> USE ConstantsAssumption
<1> DEFINE Frame1 == now' >= now /\ UNCHANGED <<cache, verifiedAt>> /\ \A d \in Conns : Quiet(d)
<1> USE DEF handlerVars, linkVars, envVars, logVars
<1>a. now' = now => now' >= now
  BY DEF TypeOK, SharedTypeOK
<1>b. Frame1 => Evidence'
  BY <1>0, QuietSteps
<1> HIDE DEF Frame1
<1>1. ASSUME NEW c \in Conns, OpenConn(c) PROVE Evidence'
  <2>1. CASE ~(Continue(c, {}) \/ Return(c, {}))
    <3>1. \A d \in Conns \ {c} : Quiet(d)
      BY <1>1, <2>1 DEF OpenConn, Goto, Quiet, Answer, TypeOK, HandlerTypeOK, SharedTypeOK, Pending
    <3>2. Quiet(c)
      BY <1>1, <2>1 DEF OpenConn, Goto, Quiet, Answer, Evidence, PastOK, RestOK, NoPending, TypeOK, HandlerTypeOK, SharedTypeOK, Pending
    <3>3. Quiet(c) /\ (\A d \in Conns \ {c} : Quiet(d)) => \A d \in Conns : Quiet(d)
      OBVIOUS
    <3> QED BY <1>1, <1>a, <1>b, <3>1, <3>2, <3>3 DEF OpenConn, Frame1
  <2> QED BY <1>1, <2>1, <1>a, <1>b, AnswerQuiet DEF OpenConn, Frame1
<1>2. ASSUME NEW c \in Conns, ClientCloses(c) PROVE Evidence'
  BY <1>2, <1>a, <1>b, AnswerQuiet DEF ClientCloses, Answer, WriteUpstream, Frame1
<1>3. ASSUME NEW c \in Conns, RefuseMessage(c) PROVE Evidence'
  BY <1>3, <1>a, <1>b, AnswerQuiet DEF RefuseMessage, Answer, WriteUpstream, Frame1
<1>4. ASSUME NEW c \in Conns, NEW e \in AuthEvent, ReceiveAuth(c, e) PROVE Evidence'
  <2>1. CASE ~(Continue(c, {}) \/ Return(c, {}))
    <3>1. \A d \in Conns \ {c} : Quiet(d)
      BY <1>4, <2>1 DEF ReceiveAuth, Goto, Quiet, Answer, TypeOK, HandlerTypeOK, SharedTypeOK, Pending
    <3>2. Quiet(c)
      <4>1. e.pubkey \in Pubkeys /\ now \in Nat
        BY DEF AuthEvent, TypeOK, SharedTypeOK
      <4>2. [NoPending EXCEPT !.pubkey = e.pubkey, !.now = now].now = now
        BY <4>1, FreshPending
      <4>3. /\ pc' = [pc EXCEPT ![c] = "cache"]
            /\ pending' = [pending EXCEPT ![c] = [NoPending EXCEPT !.pubkey = e.pubkey, !.now = now]]
        BY <1>4, <2>1 DEF ReceiveAuth, Answer, Goto
      <4>4. pc'[c] = "cache" /\ pending'[c].now = now
        BY <4>2, <4>3 DEF TypeOK, HandlerTypeOK
      <4> QED BY <4>1, <4>4 DEF Quiet
    <3>3. Quiet(c) /\ (\A d \in Conns \ {c} : Quiet(d)) => \A d \in Conns : Quiet(d)
      OBVIOUS
    <3> QED BY <1>4, <1>a, <1>b, <3>1, <3>2, <3>3 DEF ReceiveAuth, Frame1
  <2> QED BY <1>4, <2>1, <1>a, <1>b, AnswerQuiet DEF ReceiveAuth, Frame1
<1>5. ASSUME NEW c \in Conns, ReceiveEmptyAuth(c) PROVE Evidence'
  <2>1. CASE ~(Continue(c, {}) \/ Return(c, {}))
    <3>1. \A d \in Conns \ {c} : Quiet(d)
      BY <1>5, <2>1 DEF ReceiveEmptyAuth, Goto, Quiet, Answer, TypeOK, HandlerTypeOK, SharedTypeOK, Pending
    <3>2. Quiet(c)
      BY <1>5, <2>1 DEF ReceiveEmptyAuth, Goto, Quiet, Answer, Evidence, PastOK, RestOK, NoPending, TypeOK, HandlerTypeOK, SharedTypeOK, Pending
    <3>3. Quiet(c) /\ (\A d \in Conns \ {c} : Quiet(d)) => \A d \in Conns : Quiet(d)
      OBVIOUS
    <3> QED BY <1>5, <1>a, <1>b, <3>1, <3>2, <3>3 DEF ReceiveEmptyAuth, Frame1
  <2> QED BY <1>5, <2>1, <1>a, <1>b, AnswerQuiet DEF ReceiveEmptyAuth, Frame1
<1>6. ASSUME NEW c \in Conns, CheckCache(c) PROVE Evidence'
  <2>1. CASE Answer(c, {})
    BY <1>6, <2>1, <1>a, <1>b, AnswerQuiet DEF CheckCache, Answer, Frame1
  <2>2. CASE pc' = [pc EXCEPT ![c] = "lookup"] /\ UNCHANGED pending
    BY <1>6, <2>2, <1>a, <1>b DEF CheckCache, Frame1, Quiet, Evidence, PastOK, TypeOK, HandlerTypeOK
  <2>3. CASE /\ GetValid(cache, pending[c].pubkey, pending[c].now)
             /\ pc' = [pc EXCEPT ![c] = "dial"]
             /\ UNCHANGED pending
    <3> DEFINE p == pending[c].pubkey
               row == cache[p]
    <3>1. p \in Pubkeys /\ pending[c].now \in Nat
      BY <1>6 DEF CheckCache, PhaseOK, TypeOK, HandlerTypeOK, Pending
    <3>2. row # NoRow /\ row.expiresAt > pending[c].now
      BY <2>3 DEF GetValid
    <3>3. /\ row.username \in Usernames
          /\ row.verifiedAt \in Int /\ row.verifiedAt >= 0
          /\ row.expiresAt = row.verifiedAt + TTL
          /\ row.verifiedAt <= verifiedAt[p][row.username]
      BY <3>1, <3>2 DEF TypeOK, SharedTypeOK, Row, Evidence, StoreOK
    <3>4. verifiedAt[p][row.username] \in Int
      BY <3>1, <3>3 DEF TypeOK, SharedTypeOK
    <3>5. ConfirmedFor(p, pending[c].now)
      <4> HIDE DEF p, row
      <4> QED BY <3>1, <3>2, <3>3, <3>4 DEF ConfirmedFor
    <3>6. /\ UNCHANGED <<now, cache, verifiedAt, pending>>
          /\ pc'[c] = "dial"
          /\ \A d \in Conns \ {c} : pc'[d] = pc[d]
      BY <1>6, <2>3 DEF CheckCache, TypeOK, HandlerTypeOK
    <3>7. DialOK'
      BY <3>5, <3>6 DEF Evidence, DialOK, ConfirmedFor
    <3> QED BY <3>6, <3>7 DEF Evidence, PastOK, StoreOK, PutOK, RestOK
  <2> QED BY <1>6, <2>1, <2>2, <2>3 DEF CheckCache, Goto
<1>7. ASSUME NEW c \in Conns, LookupUsername(c) PROVE Evidence'
  <2>1. CASE ~(Continue(c, {}) \/ Return(c, {}))
    <3>1. \A d \in Conns \ {c} : Quiet(d)
      BY <1>7, <2>1 DEF LookupUsername, Goto, Quiet, Answer, TypeOK, HandlerTypeOK, SharedTypeOK, Pending
    <3>2. Quiet(c)
      <4>1. /\ pc'[c] \in {"lookup", "nip05"}
            /\ \/ \E u \in Usernames : pending' = [pending EXCEPT ![c].username = u]
               \/ pending' = [pending EXCEPT ![c].tried = @ + 1]
        BY <1>7, <2>1 DEF LookupUsername, Answer, Goto, TypeOK, HandlerTypeOK
      <4>2. pending'[c].now = pending[c].now
        BY <4>1 DEF TypeOK, HandlerTypeOK, Pending
      <4> QED BY <4>1, <4>2 DEF Quiet, Evidence, PastOK
    <3>3. Quiet(c) /\ (\A d \in Conns \ {c} : Quiet(d)) => \A d \in Conns : Quiet(d)
      OBVIOUS
    <3> QED BY <1>7, <1>a, <1>b, <3>1, <3>2, <3>3 DEF LookupUsername, Frame1
  <2> QED BY <1>7, <2>1, <1>a, <1>b, AnswerQuiet DEF LookupUsername, Frame1
<1>8. ASSUME NEW c \in Conns, VerifyNIP05(c) PROVE Evidence'
  <2>1. CASE Answer(c, {}) /\ UNCHANGED verifiedAt
    BY <1>8, <2>1, <1>a, <1>b, AnswerQuiet DEF VerifyNIP05, Answer, Frame1
  <2>2. CASE /\ pc' = [pc EXCEPT ![c] = "put"]
             /\ verifiedAt' = [verifiedAt EXCEPT ![pending[c].pubkey][pending[c].username] = now]
             /\ UNCHANGED <<now, pending, cache>>
    <3> DEFINE p == pending[c].pubkey
               u == pending[c].username
    <3>1. p \in Pubkeys /\ u \in Usernames
      BY <1>8 DEF VerifyNIP05, PhaseOK
    <3>2. /\ verifiedAt'[p][u] = now
          /\ \A q \in Pubkeys, v \in Usernames : verifiedAt'[q][v] = verifiedAt[q][v] \/ verifiedAt'[q][v] = now
      BY <2>2, <3>1 DEF TypeOK, SharedTypeOK
    <3>3. \A q \in Pubkeys, v \in Usernames :
             verifiedAt[q][v] \in Int /\ verifiedAt[q][v] <= now /\ now \in Nat
      BY DEF TypeOK, SharedTypeOK, Evidence, PastOK
    <3>4. \A q \in Pubkeys, v \in Usernames :
             /\ verifiedAt'[q][v] \in Int /\ verifiedAt'[q][v] <= now
             /\ verifiedAt[q][v] <= verifiedAt'[q][v]
             /\ verifiedAt[q][v] # -1 => verifiedAt'[q][v] # -1
      BY <3>2, <3>3
    <3>5. PastOK'
      BY <2>2, <3>4 DEF Evidence, PastOK
    <3>6. StoreOK'
      <4> SUFFICES ASSUME NEW q \in Pubkeys, cache[q] # NoRow
                   PROVE  cache[q].verifiedAt <= verifiedAt'[q][cache[q].username]
        BY <2>2 DEF StoreOK, Evidence
      <4>1. cache[q].username \in Usernames /\ cache[q].verifiedAt \in Int
        BY DEF TypeOK, SharedTypeOK, Row
      <4> QED BY <3>3, <3>4, <4>1 DEF StoreOK, Evidence
    <3>7. PutOK'
      <4> SUFFICES ASSUME NEW d \in Conns, pc'[d] = "put"
                   PROVE  verifiedAt'[pending[d].pubkey][pending[d].username] >= pending[d].now
        BY <2>2 DEF PutOK
      <4>1. CASE d = c
        BY <3>2, <4>1 DEF Evidence, PastOK, TypeOK, HandlerTypeOK, SharedTypeOK, Pending
      <4>2. CASE d # c
        <5>1. pc[d] = "put"
          BY <2>2, <4>2 DEF TypeOK, HandlerTypeOK
        <5>2. pending[d].pubkey \in Pubkeys /\ pending[d].username \in Usernames /\ pending[d].now \in Nat
          BY <5>1 DEF PhaseOK, TypeOK, HandlerTypeOK, Pending
        <5>3. verifiedAt[pending[d].pubkey][pending[d].username] >= pending[d].now
          BY <5>1 DEF Evidence, PutOK
        <5> QED BY <3>3, <3>4, <5>2, <5>3
      <4> QED BY <4>1, <4>2
    <3>8. DialOK'
      <4> SUFFICES ASSUME NEW d \in Conns, pc'[d] = "dial", pending[d].pubkey # NoPubkey
                   PROVE  ConfirmedFor(pending[d].pubkey, pending[d].now)'
        BY <2>2 DEF DialOK
      <4>1. pc[d] = "dial"
        BY <2>2 DEF TypeOK, HandlerTypeOK
      <4>2. PICK v \in Usernames : /\ verifiedAt[pending[d].pubkey][v] # -1
                                   /\ pending[d].now < verifiedAt[pending[d].pubkey][v] + TTL
        BY <4>1 DEF Evidence, DialOK, ConfirmedFor
      <4>3. pending[d].pubkey \in Pubkeys /\ pending[d].now \in Nat
        BY DEF TypeOK, HandlerTypeOK, Pending
      <4>4. /\ verifiedAt'[pending[d].pubkey][v] # -1
            /\ pending[d].now < verifiedAt'[pending[d].pubkey][v] + TTL
        BY <3>3, <3>4, <4>2, <4>3
      <4> QED BY <2>2, <4>4 DEF ConfirmedFor
    <3>9. RestOK'
      BY <2>2 DEF Evidence, RestOK, TypeOK, HandlerTypeOK
    <3> QED BY <3>5, <3>6, <3>7, <3>8, <3>9 DEF Evidence
  <2> QED BY <1>8, <2>1, <2>2 DEF VerifyNIP05, Goto
<1>9. ASSUME NEW c \in Conns, PutCache(c) PROVE Evidence'
  <2>1. CASE Answer(c, {}) /\ UNCHANGED cache
    BY <1>9, <2>1, <1>a, <1>b, AnswerQuiet DEF PutCache, Answer, Frame1
  <2>2. CASE /\ pc' = [pc EXCEPT ![c] = "dial"]
             /\ cache' = Put(cache, pending[c].pubkey, pending[c].username, pending[c].now, pending[c].now + TTL)
             /\ UNCHANGED <<now, pending, verifiedAt>>
    <3> DEFINE p == pending[c].pubkey
               u == pending[c].username
               new == [username |-> u, verifiedAt |-> pending[c].now, expiresAt |-> pending[c].now + TTL]
    <3>1. /\ p \in Pubkeys /\ u \in Usernames /\ pending[c].now \in Nat
          /\ verifiedAt[p][u] >= pending[c].now
          /\ verifiedAt[p][u] \in Int
      BY <1>9 DEF PutCache, PhaseOK, TypeOK, HandlerTypeOK, SharedTypeOK, Pending, Evidence, PutOK
    <3>2. cache'[p] = new /\ \A q \in Pubkeys \ {p} : cache'[q] = cache[q]
      BY <2>2, <3>1 DEF Put, TypeOK, SharedTypeOK
    <3>3. StoreOK'
      <4> SUFFICES ASSUME NEW q \in Pubkeys, cache'[q] # NoRow
                   PROVE  /\ cache'[q].verifiedAt >= 0
                          /\ cache'[q].expiresAt = cache'[q].verifiedAt + TTL
                          /\ cache'[q].verifiedAt <= verifiedAt[q][cache'[q].username]
        BY <2>2 DEF StoreOK
      <4>1. CASE q = p
        BY <3>1, <3>2, <4>1
      <4>2. CASE q # p
        BY <3>2, <4>2 DEF Evidence, StoreOK
      <4> QED BY <4>1, <4>2
    <3>4. ConfirmedFor(p, pending[c].now)
      BY <3>1 DEF ConfirmedFor
    <3>5. DialOK'
      BY <2>2, <3>4 DEF Evidence, DialOK, ConfirmedFor, TypeOK, HandlerTypeOK
    <3>6. PastOK' /\ PutOK' /\ RestOK'
      BY <2>2 DEF Evidence, PastOK, PutOK, RestOK, TypeOK, HandlerTypeOK
    <3> QED BY <3>3, <3>5, <3>6 DEF Evidence
  <2> QED BY <1>9, <2>1, <2>2 DEF PutCache, Goto
<1>10. ASSUME NEW c \in Conns, DialUpstream(c) PROVE Evidence'
  <2>1. CASE ~(Continue(c, {}) \/ Return(c, {}))
    <3>1. \A d \in Conns \ {c} : Quiet(d)
      BY <1>10, <2>1 DEF DialUpstream, Goto, Quiet, Answer, TypeOK, HandlerTypeOK, SharedTypeOK, Pending
    <3>2. Quiet(c)
      BY <1>10, <2>1 DEF DialUpstream, Goto, Quiet, Answer, Evidence, PastOK, RestOK, NoPending, TypeOK, HandlerTypeOK, SharedTypeOK, Pending
    <3>3. Quiet(c) /\ (\A d \in Conns \ {c} : Quiet(d)) => \A d \in Conns : Quiet(d)
      OBVIOUS
    <3> QED BY <1>10, <1>a, <1>b, <3>1, <3>2, <3>3 DEF DialUpstream, Frame1
  <2> QED BY <1>10, <2>1, <1>a, <1>b, AnswerQuiet DEF DialUpstream, Frame1
<1>11. ASSUME NEW c \in Conns, AcceptAuth(c) PROVE Evidence'
  <2>1. CASE ~(Continue(c, {}) \/ Return(c, {}))
    <3>1. \A d \in Conns \ {c} : Quiet(d)
      BY <1>11, <2>1 DEF AcceptAuth, Goto, Quiet, Answer, TypeOK, HandlerTypeOK, SharedTypeOK, Pending
    <3>2. Quiet(c)
      BY <1>11, <2>1 DEF AcceptAuth, Goto, Quiet, Answer, Evidence, PastOK, RestOK, NoPending, TypeOK, HandlerTypeOK, SharedTypeOK, Pending
    <3>3. Quiet(c) /\ (\A d \in Conns \ {c} : Quiet(d)) => \A d \in Conns : Quiet(d)
      OBVIOUS
    <3> QED BY <1>11, <1>a, <1>b, <3>1, <3>2, <3>3 DEF AcceptAuth, Frame1
  <2> QED BY <1>11, <2>1, <1>a, <1>b, AnswerQuiet DEF AcceptAuth, Frame1
<1>12. ASSUME NEW c \in Conns, NEW p \in Pubkeys, ReceiveProfile(c, p) PROVE Evidence'
  <2>1. CASE ~(Continue(c, {}) \/ Return(c, {}))
    <3>1. \A d \in Conns \ {c} : Quiet(d)
      BY <1>12, <2>1 DEF ReceiveProfile, Goto, Quiet, Answer, TypeOK, HandlerTypeOK, SharedTypeOK, Pending
    <3>2. Quiet(c)
      BY <1>12, <2>1 DEF ReceiveProfile, Goto, Quiet, Answer, Evidence, PastOK, RestOK, NoPending, TypeOK, HandlerTypeOK, SharedTypeOK, Pending
    <3>3. Quiet(c) /\ (\A d \in Conns \ {c} : Quiet(d)) => \A d \in Conns : Quiet(d)
      OBVIOUS
    <3> QED BY <1>12, <1>a, <1>b, <3>1, <3>2, <3>3 DEF ReceiveProfile, Frame1
  <2> QED BY <1>12, <2>1, <1>a, <1>b, AnswerQuiet DEF ReceiveProfile, Frame1
<1>13. ASSUME NEW c \in Conns, BootDial(c) PROVE Evidence'
  <2>1. CASE ~(Continue(c, {}) \/ Return(c, {}))
    <3>1. \A d \in Conns \ {c} : Quiet(d)
      BY <1>13, <2>1 DEF BootDial, Goto, Quiet, Answer, TypeOK, HandlerTypeOK, SharedTypeOK, Pending
    <3>2. Quiet(c)
      <4>1. pc'[c] = "bootWait" /\ \E k \in Links : pending' = [pending EXCEPT ![c].link = k]
        BY <1>13, <2>1 DEF BootDial, Answer, Goto, TypeOK, HandlerTypeOK, FreeLinks
      <4>2. pending'[c].now = pending[c].now
        BY <4>1 DEF TypeOK, HandlerTypeOK, Pending
      <4> QED BY <4>1, <4>2 DEF Quiet, Evidence, PastOK
    <3>3. Quiet(c) /\ (\A d \in Conns \ {c} : Quiet(d)) => \A d \in Conns : Quiet(d)
      OBVIOUS
    <3> QED BY <1>13, <1>a, <1>b, <3>1, <3>2, <3>3 DEF BootDial, Frame1
  <2> QED BY <1>13, <2>1, <1>a, <1>b, AnswerQuiet DEF BootDial, Frame1
<1>14. ASSUME NEW c \in Conns, UpstreamJudges(c) PROVE Evidence'
  BY <1>14, <1>a, <1>b DEF UpstreamJudges, Frame1, Quiet
<1>15. ASSUME NEW c \in Conns, NEW frame \in Frame, BootFrame(c, frame) PROVE Evidence'
  <2>1. CASE UNCHANGED <<pc, pending>>
    BY <1>15, <2>1, <1>a, <1>b DEF BootFrame, Frame1, Quiet
  <2> QED BY <1>15, <2>1, <1>a, <1>b, AnswerQuiet DEF BootFrame, Frame1
<1>16. ASSUME NEW c \in Conns, BootFails(c) PROVE Evidence'
  BY <1>16, <1>a, <1>b, AnswerQuiet DEF BootFails, Answer, WriteUpstream, Frame1
<1>17. ASSUME NEW c \in Conns, NEW p \in Pubkeys, ReceiveEvent(c, p) PROVE Evidence'
  BY <1>17, <1>a, <1>b, AnswerQuiet DEF ReceiveEvent, Answer, WriteUpstream, Frame1
<1>18. ASSUME NEW c \in Conns, ReceiveReq(c) PROVE Evidence'
  <2>1. CASE ~(Continue(c, {}) \/ Return(c, {}))
    <3>1. \A d \in Conns \ {c} : Quiet(d)
      BY <1>18, <2>1 DEF ReceiveReq, Goto, Quiet, Answer, TypeOK, HandlerTypeOK, SharedTypeOK, Pending
    <3>2. Quiet(c)
      BY <1>18, <2>1 DEF ReceiveReq, Goto, Quiet, Answer, Evidence, PastOK, RestOK, NoPending, TypeOK, HandlerTypeOK, SharedTypeOK, Pending
    <3>3. Quiet(c) /\ (\A d \in Conns \ {c} : Quiet(d)) => \A d \in Conns : Quiet(d)
      OBVIOUS
    <3> QED BY <1>18, <1>a, <1>b, <3>1, <3>2, <3>3 DEF ReceiveReq, Frame1
  <2> QED BY <1>18, <2>1, <1>a, <1>b, AnswerQuiet DEF ReceiveReq, Frame1
<1>19. ASSUME NEW c \in Conns, RecordQuery(c) PROVE Evidence'
  <2>1. CASE ~(Continue(c, {}) \/ Return(c, {}))
    <3>1. \A d \in Conns \ {c} : Quiet(d)
      BY <1>19, <2>1 DEF RecordQuery, Goto, Quiet, Answer, TypeOK, HandlerTypeOK, SharedTypeOK, Pending
    <3>2. Quiet(c)
      BY <1>19, <2>1 DEF RecordQuery, Goto, Quiet, Answer, Evidence, PastOK, RestOK, NoPending, TypeOK, HandlerTypeOK, SharedTypeOK, Pending
    <3>3. Quiet(c) /\ (\A d \in Conns \ {c} : Quiet(d)) => \A d \in Conns : Quiet(d)
      OBVIOUS
    <3> QED BY <1>19, <1>a, <1>b, <3>1, <3>2, <3>3 DEF RecordQuery, Frame1
  <2> QED BY <1>19, <2>1, <1>a, <1>b, AnswerQuiet DEF RecordQuery, Frame1
<1>20. ASSUME NEW c \in Conns, ForwardReq(c) PROVE Evidence'
  BY <1>20, <1>a, <1>b, AnswerQuiet DEF ForwardReq, Answer, WriteUpstream, Frame1
<1>21. ASSUME NEW c \in Conns, ForwardOther(c) PROVE Evidence'
  BY <1>21, <1>a, <1>b, AnswerQuiet DEF ForwardOther, Answer, WriteUpstream, Frame1
<1>22. ASSUME NEW k \in Links, PipeMessage(k) PROVE Evidence'
  BY <1>22, <1>a, <1>b DEF PipeMessage, Frame1, Quiet
<1>23. ASSUME NEW k \in Links, PipeEnds(k) PROVE Evidence'
  BY <1>23, <1>a, <1>b DEF PipeEnds, Frame1, Quiet
<1>24. ASSUME Tick PROVE Evidence'
  BY <1>24, <1>b DEF Tick, Frame1, Quiet, TypeOK, SharedTypeOK
<1>25. ASSUME NEW u \in Usernames, NEW p \in Pubkeys \cup {NoPubkey}, DirectoryChanges(u, p) PROVE Evidence'
  BY <1>25, <1>a, <1>b DEF DirectoryChanges, Frame1, Quiet
<1>26. ASSUME NEW k \in Links, UpstreamLost(k) PROVE Evidence'
  BY <1>26, <1>a, <1>b DEF UpstreamLost, Frame1, Quiet
<1>27. ASSUME Restart PROVE Evidence'
  BY <1>27, <1>a, <1>b DEF Restart, Frame1, Quiet, NoPending, TypeOK, SharedTypeOK
<1>28. CASE UNCHANGED vars
  BY <1>28, <1>a, <1>b DEF vars, Frame1, Quiet
<1> QED
  BY <1>1, <1>2, <1>3, <1>4, <1>5, <1>6, <1>7, <1>8, <1>9, <1>10, <1>11, <1>12, <1>13, <1>14, <1>15, <1>16, <1>17, <1>18, <1>19, <1>20, <1>21, <1>22, <1>23, <1>24, <1>25, <1>26, <1>27,
     <1>28 DEF Next, HandlerStep, ClientMessage, Environment

(* The inductive invariant of admission. *)
THEOREM AdmissionInvariant == Spec => []IInv
<1>1. Init => IInv
  BY InitTypes, InitEvidence DEF IInv
<1>2. IInv /\ [Next]_vars => IInv'
  BY StepTypes, StepEvidence DEF IInv
<1> QED BY <1>1, <1>2, PTL DEF Spec

(* For any number of clients, keys and usernames and any TTL, a cached row  *)
(* never outlives the NIP-05 check behind it (Cache.Put in authenticate).   *)
THEOREM CacheIsBacked == Spec => []CacheBacked
<1>1. IInv => CacheBacked
  <2> SUFFICES ASSUME IInv, NEW p \in Pubkeys, cache[p] # NoRow
               PROVE  cache[p].expiresAt <= verifiedAt[p][cache[p].username] + TTL
    BY DEF CacheBacked
  <2>1. cache[p].username \in Usernames /\ cache[p].verifiedAt \in Int
    BY DEF IInv, TypeOK, SharedTypeOK, Row
  <2>2. verifiedAt[p][cache[p].username] \in Int
    BY <2>1 DEF IInv, TypeOK, SharedTypeOK
  <2> QED BY <2>1, <2>2, ConstantsAssumption DEF IInv, Evidence, StoreOK
<1> QED BY <1>1, AdmissionInvariant, PTL

-----------------------------------------------------------------------------
(* The gate implements AdmissionContract. *)

ContractStep == Contract!Next \/ UNCHANGED Contract!vars

(* A step that touches neither a session nor an open decision. *)
LEMMA StutterStep ==
    ASSUME UNCHANGED <<now, directory, verifiedAt, pubkey>>,
           \A d \in Conns : /\ Deciding(d)' <=> Deciding(d)
                            /\ Deciding(d) => pending'[d].now = pending[d].now
    PROVE  UNCHANGED Contract!vars
BY DEF Contract!vars

(* Connection c forgets its decision and its session. *)
LEMMA DropStep ==
    ASSUME TypeOK, NEW c \in Conns, UNCHANGED <<now, directory, verifiedAt>>,
           pubkey' = [pubkey EXCEPT ![c] = NoPubkey],
           pc'[c] \in {"idle", "reading"},
           \A d \in Conns \ {c} : pc'[d] = pc[d] /\ pending'[d] = pending[d]
    PROVE  ContractStep
<1>1. ~Deciding(c)' /\ \A d \in Conns \ {c} : (Deciding(d)' <=> Deciding(d)) /\ pending'[d] = pending[d]
  BY DEF Deciding
<1>2. Contract!Drop({c})
  BY <1>1 DEF Contract!Drop, TypeOK, HandlerTypeOK
<1> QED BY <1>2 DEF ContractStep, Contract!Next

LEMMA AnswerStep ==
    ASSUME TypeOK, PhaseOK, NEW c \in Conns, NEW S, UNCHANGED <<now, directory, verifiedAt>>,
           Continue(c, S) \/ Return(c, S)
    PROVE  ContractStep
<1>1. CASE Return(c, S)
  BY <1>1, DropStep DEF Return, TypeOK, HandlerTypeOK
<1>2. CASE Continue(c, S) /\ pubkey[c] = NoPubkey
  <2>1. pubkey' = [pubkey EXCEPT ![c] = NoPubkey]
    BY <1>2 DEF Continue, TypeOK, HandlerTypeOK
  <2> QED BY <1>2, <2>1, DropStep DEF Continue, TypeOK, HandlerTypeOK
<1>3. CASE Continue(c, S) /\ pubkey[c] # NoPubkey
  <2>1. ~Deciding(c)
    BY <1>3 DEF Deciding, PhaseOK
  <2>2. ~Deciding(c)'
    BY <1>3 DEF Continue, Deciding, TypeOK, HandlerTypeOK
  <2>3. \A d \in Conns \ {c} : pc'[d] = pc[d] /\ pending'[d] = pending[d]
    BY <1>3 DEF Continue, TypeOK, HandlerTypeOK
  <2>4. \A d \in Conns : /\ Deciding(d)' <=> Deciding(d)
                         /\ Deciding(d) => pending'[d].now = pending[d].now
    BY <2>1, <2>2, <2>3 DEF Deciding
  <2> QED BY <1>3, <2>4, StutterStep DEF Continue, ContractStep
<1> QED BY <1>1, <1>2, <1>3

(* Each step of the gate is a step of the contract, or none. *)
LEMMA StepContract == IInv /\ [Next]_vars => ContractStep
<1> SUFFICES ASSUME TypeOK, PhaseOK, Evidence, [Next]_vars PROVE ContractStep
  BY DEF IInv
<1> USE ConstantsAssumption DEF handlerVars, linkVars, envVars, logVars
<1> DEFINE Same == \A d \in Conns : /\ Deciding(d)' <=> Deciding(d)
                                    /\ Deciding(d) => pending'[d].now = pending[d].now
<1>a. Same /\ UNCHANGED <<now, directory, verifiedAt, pubkey>> => ContractStep
  BY StutterStep DEF ContractStep
<1>1. ASSUME NEW c \in Conns, OpenConn(c) PROVE ContractStep
  <2>1. Same
    BY <1>1 DEF OpenConn, Goto, Deciding, TypeOK, HandlerTypeOK, Evidence, RestOK
  <2> QED BY <1>1, <2>1, <1>a DEF OpenConn
<1>2. ASSUME NEW c \in Conns, ClientCloses(c) PROVE ContractStep
  BY <1>2, AnswerStep DEF ClientCloses, Answer, WriteUpstream
<1>3. ASSUME NEW c \in Conns, RefuseMessage(c) PROVE ContractStep
  BY <1>3, AnswerStep DEF RefuseMessage, Answer, WriteUpstream
<1>4. ASSUME NEW c \in Conns, NEW e \in AuthEvent, ReceiveAuth(c, e) PROVE ContractStep
  <2>1. CASE Answer(c, {})
    BY <1>4, <2>1, AnswerStep DEF ReceiveAuth, Answer
  <2>2. CASE ~Answer(c, {})
    <3> DEFINE new == [NoPending EXCEPT !.pubkey = e.pubkey, !.now = now]
    <3>1. /\ pubkey' = pubkey /\ pubkey[c] = NoPubkey /\ pc' = [pc EXCEPT ![c] = "cache"]
          /\ pending' = [pending EXCEPT ![c] = new]
          /\ UNCHANGED <<now, directory, verifiedAt>>
      BY <1>4, <2>2 DEF ReceiveAuth, Goto
    <3>2. e.pubkey \in Pubkeys /\ now \in Nat
      BY DEF AuthEvent, TypeOK, SharedTypeOK
    <3>3. new.pubkey = e.pubkey /\ new.now = now
      BY <3>2, FreshPending
    <3> HIDE DEF new
    <3>4. /\ pc'[c] = "cache" /\ pending'[c] = new
          /\ \A d \in Conns \ {c} : pc'[d] = pc[d] /\ pending'[d] = pending[d]
      BY <3>1 DEF TypeOK, HandlerTypeOK
    <3>5. /\ Deciding(c)' /\ pending'[c].now = now
          /\ \A d \in Conns \ {c} : /\ Deciding(d)' <=> Deciding(d)
                                    /\ pending'[d].now = pending[d].now
      BY <3>2, <3>3, <3>4 DEF Deciding
    <3>6. [d \in Conns |-> IF Deciding(d)' THEN pending'[d].now ELSE -1]
             = [[d \in Conns |-> IF Deciding(d) THEN pending[d].now ELSE -1] EXCEPT ![c] = now]
      BY <3>5
    <3>7. Contract!Ask(c)
      BY <3>1, <3>6 DEF Contract!Ask
    <3> QED BY <3>7 DEF ContractStep, Contract!Next
  <2> QED BY <2>1, <2>2
<1>5. ASSUME NEW c \in Conns, ReceiveEmptyAuth(c) PROVE ContractStep
  <2>1. Same
    BY <1>5 DEF ReceiveEmptyAuth, Goto, Deciding, TypeOK, HandlerTypeOK, Evidence, RestOK
  <2> QED BY <1>5, <2>1, <1>a DEF ReceiveEmptyAuth
<1>6. ASSUME NEW c \in Conns, CheckCache(c) PROVE ContractStep
  <2>1. CASE Answer(c, {})
    BY <1>6, <2>1, AnswerStep DEF CheckCache, Answer
  <2>2. CASE ~Answer(c, {})
    <3>1. pubkey' = pubkey /\ pending' = pending /\ pc'[c] \in {"lookup", "dial"} /\ \A d \in Conns \ {c} : pc'[d] = pc[d]
      BY <1>6, <2>2 DEF CheckCache, Goto, TypeOK, HandlerTypeOK
    <3>2. Same
      BY <1>6, <3>1 DEF CheckCache, Deciding
    <3> QED BY <1>6, <3>1, <3>2, <1>a DEF CheckCache
  <2> QED BY <2>1, <2>2
<1>7. ASSUME NEW c \in Conns, LookupUsername(c) PROVE ContractStep
  <2>1. CASE Answer(c, {})
    BY <1>7, <2>1, AnswerStep DEF LookupUsername, Answer
  <2>2. CASE ~Answer(c, {})
    <3>1. /\ pubkey' = pubkey /\ pc'[c] \in {"lookup", "nip05"}
          /\ \A d \in Conns \ {c} : pc'[d] = pc[d]
          /\ \/ \E u \in Usernames : pending' = [pending EXCEPT ![c].username = u]
             \/ pending' = [pending EXCEPT ![c].tried = @ + 1]
      BY <1>7, <2>2 DEF LookupUsername, Goto, TypeOK, HandlerTypeOK
    <3>2. \A d \in Conns : pending'[d].now = pending[d].now /\ pending'[d].pubkey = pending[d].pubkey
      BY <3>1 DEF TypeOK, HandlerTypeOK, Pending
    <3>3. Same
      BY <1>7, <3>1, <3>2 DEF LookupUsername, Deciding
    <3> QED BY <1>7, <3>1, <3>3, <1>a DEF LookupUsername
  <2> QED BY <2>1, <2>2
<1>8. ASSUME NEW c \in Conns, VerifyNIP05(c) PROVE ContractStep
  <2>1. CASE Answer(c, {}) /\ UNCHANGED verifiedAt
    BY <1>8, <2>1, AnswerStep DEF VerifyNIP05, Answer
  <2>2. CASE /\ directory[pending[c].username] = pending[c].pubkey
             /\ pc' = [pc EXCEPT ![c] = "put"]
             /\ verifiedAt' = [verifiedAt EXCEPT ![pending[c].pubkey][pending[c].username] = now]
             /\ UNCHANGED <<now, directory, pending, pubkey>>
    <3>1. pc'[c] = "put" /\ \A d \in Conns \ {c} : pc'[d] = pc[d]
      BY <2>2 DEF TypeOK, HandlerTypeOK
    <3>2. \A d \in Conns : Deciding(d)' <=> Deciding(d)
      BY <1>8, <2>2, <3>1 DEF VerifyNIP05, Deciding
    <3>3. Contract!Confirm(pending[c].pubkey, pending[c].username)
      BY <2>2, <3>2 DEF Contract!Confirm
    <3>4. pending[c].pubkey \in Pubkeys /\ pending[c].username \in Usernames
      BY <1>8 DEF VerifyNIP05, PhaseOK
    <3> QED BY <3>3, <3>4 DEF ContractStep, Contract!Next
  <2> QED BY <1>8, <2>1, <2>2 DEF VerifyNIP05, Goto
<1>9. ASSUME NEW c \in Conns, PutCache(c) PROVE ContractStep
  <2>1. CASE Answer(c, {})
    BY <1>9, <2>1, AnswerStep DEF PutCache, Answer
  <2>2. CASE ~Answer(c, {})
    <3>1. pubkey' = pubkey /\ pending' = pending /\ pc'[c] \in {"lookup", "dial"} /\ \A d \in Conns \ {c} : pc'[d] = pc[d]
      BY <1>9, <2>2 DEF PutCache, Goto, TypeOK, HandlerTypeOK
    <3>2. Same
      BY <1>9, <3>1 DEF PutCache, Deciding
    <3> QED BY <1>9, <3>1, <3>2, <1>a DEF PutCache
  <2> QED BY <2>1, <2>2
<1>10. ASSUME NEW c \in Conns, DialUpstream(c) PROVE ContractStep
  <2>1. CASE Answer(c, {})
    BY <1>10, <2>1, AnswerStep DEF DialUpstream, Answer
  <2>2. CASE ~Answer(c, {})
    <3>1. /\ pc[c] = "dial" /\ pc' = [pc EXCEPT ![c] = "accept"]
          /\ pubkey' = [pubkey EXCEPT ![c] = pending[c].pubkey]
          /\ UNCHANGED <<now, directory, verifiedAt, pending>>
      BY <1>10, <2>2 DEF DialUpstream, Goto
    <3>2. pubkey[c] = NoPubkey
      BY <3>1 DEF PhaseOK
    <3>3. pc'[c] = "accept" /\ \A d \in Conns \ {c} : pc'[d] = pc[d]
      BY <3>1 DEF TypeOK, HandlerTypeOK
    <3>4. ~Deciding(c)' /\ \A d \in Conns \ {c} : Deciding(d)' <=> Deciding(d)
      BY <3>1, <3>3 DEF Deciding
    <3>5. CASE pending[c].pubkey = NoPubkey
      <4>1. pubkey' = pubkey
        BY <3>1, <3>2, <3>5 DEF TypeOK, HandlerTypeOK
      <4>2. Same
        BY <3>1, <3>4, <3>5 DEF Deciding
      <4> QED BY <3>1, <4>1, <4>2, <1>a
    <3>6. CASE pending[c].pubkey # NoPubkey
      <4>1. Deciding(c) /\ pending[c].pubkey \in Pubkeys /\ pending[c].now \in Nat
        BY <3>1, <3>6 DEF Deciding, TypeOK, HandlerTypeOK, Pending
      <4>2. ConfirmedFor(pending[c].pubkey, pending[c].now)
        BY <3>1, <3>6 DEF Evidence, DialOK
      <4>3. /\ [d \in Conns |-> IF Deciding(d)' THEN pending'[d].now ELSE -1]
               = [[d \in Conns |-> IF Deciding(d) THEN pending[d].now ELSE -1] EXCEPT ![c] = -1]
            /\ [d \in Conns |-> IF Deciding(d) THEN pending[d].now ELSE -1][c] = pending[c].now
        BY <3>1, <3>4, <4>1
      <4>4. /\ pending[c].now # -1
            /\ \E u \in Usernames : /\ verifiedAt[pending[c].pubkey][u] # -1
                                    /\ pending[c].now < verifiedAt[pending[c].pubkey][u] + TTL
        BY <4>1, <4>2 DEF ConfirmedFor
      <4>5. PICK p \in Pubkeys : p = pending[c].pubkey
        BY <4>1
      <4>6. Contract!Admit(c, p)
        BY <3>1, <3>2, <4>3, <4>4, <4>5 DEF Contract!Admit
      <4> QED BY <4>6 DEF ContractStep, Contract!Next
    <3> QED BY <3>5, <3>6
  <2> QED BY <2>1, <2>2
<1>11. ASSUME NEW c \in Conns, AcceptAuth(c) PROVE ContractStep
  <2>1. CASE Return(c, {})
    BY <1>11, <2>1, AnswerStep DEF AcceptAuth
  <2>2. CASE ~Return(c, {})
    <3>1. /\ pubkey' = pubkey /\ pc[c] = "accept" /\ pc'[c] = "reading"
          /\ \A d \in Conns \ {c} : pc'[d] = pc[d] /\ pending'[d] = pending[d]
      BY <1>11, <2>2 DEF AcceptAuth, Goto, TypeOK, HandlerTypeOK
    <3>2. Same
      BY <3>1 DEF Deciding
    <3> QED BY <1>11, <3>1, <3>2, <1>a DEF AcceptAuth
  <2> QED BY <2>1, <2>2
<1>12. ASSUME NEW c \in Conns, NEW p \in Pubkeys, ReceiveProfile(c, p) PROVE ContractStep
  <2>1. Same
    BY <1>12 DEF ReceiveProfile, Goto, Deciding, TypeOK, HandlerTypeOK, Evidence, RestOK
  <2> QED BY <1>12, <2>1, <1>a DEF ReceiveProfile
<1>13. ASSUME NEW c \in Conns, BootDial(c) PROVE ContractStep
  <2>1. CASE Answer(c, {})
    BY <1>13, <2>1, AnswerStep DEF BootDial, Answer
  <2>2. CASE ~Answer(c, {})
    <3>1. /\ pubkey' = pubkey /\ pc[c] = "bootDial" /\ pc'[c] = "bootWait"
          /\ \A d \in Conns \ {c} : pc'[d] = pc[d] /\ pending'[d] = pending[d]
      BY <1>13, <2>2 DEF BootDial, Goto, TypeOK, HandlerTypeOK
    <3>2. Same
      BY <3>1 DEF Deciding
    <3> QED BY <1>13, <3>1, <3>2, <1>a DEF BootDial
  <2> QED BY <2>1, <2>2
<1>14. ASSUME NEW c \in Conns, UpstreamJudges(c) PROVE ContractStep
  <2>1. Same
    BY <1>14 DEF UpstreamJudges, Deciding
  <2> QED BY <1>14, <2>1, <1>a DEF UpstreamJudges
<1>15. ASSUME NEW c \in Conns, NEW frame \in Frame, BootFrame(c, frame) PROVE ContractStep
  <2>1. CASE UNCHANGED <<pc, pending, pubkey>>
    <3>1. Same
      BY <2>1 DEF Deciding
    <3> QED BY <1>15, <2>1, <3>1, <1>a DEF BootFrame
  <2> QED BY <1>15, <2>1, AnswerStep DEF BootFrame
<1>16. ASSUME NEW c \in Conns, BootFails(c) PROVE ContractStep
  BY <1>16, AnswerStep DEF BootFails, Answer, WriteUpstream
<1>17. ASSUME NEW c \in Conns, NEW p \in Pubkeys, ReceiveEvent(c, p) PROVE ContractStep
  BY <1>17, AnswerStep DEF ReceiveEvent, Answer, WriteUpstream
<1>18. ASSUME NEW c \in Conns, ReceiveReq(c) PROVE ContractStep
  <2>1. ~Deciding(c) /\ ~Deciding(c)'
    BY <1>18 DEF ReceiveReq, Goto, Deciding, TypeOK, HandlerTypeOK
  <2>2. \A d \in Conns \ {c} : pc'[d] = pc[d] /\ pending'[d] = pending[d]
    BY <1>18 DEF ReceiveReq, Goto, TypeOK, HandlerTypeOK
  <2>3. Same
    BY <2>1, <2>2 DEF Deciding
  <2> QED BY <1>18, <2>3, <1>a DEF ReceiveReq
<1>19. ASSUME NEW c \in Conns, RecordQuery(c) PROVE ContractStep
  <2>1. Same
    BY <1>19 DEF RecordQuery, Goto, Deciding, TypeOK, HandlerTypeOK, Evidence, RestOK
  <2> QED BY <1>19, <2>1, <1>a DEF RecordQuery
<1>20. ASSUME NEW c \in Conns, ForwardReq(c) PROVE ContractStep
  BY <1>20, AnswerStep DEF ForwardReq, Answer, WriteUpstream
<1>21. ASSUME NEW c \in Conns, ForwardOther(c) PROVE ContractStep
  BY <1>21, AnswerStep DEF ForwardOther, Answer, WriteUpstream
<1>22. ASSUME NEW k \in Links, PipeMessage(k) PROVE ContractStep
  <2>1. Same
    BY <1>22 DEF PipeMessage, Deciding
  <2> QED BY <1>22, <2>1, <1>a DEF PipeMessage
<1>23. ASSUME NEW k \in Links, PipeEnds(k) PROVE ContractStep
  <2>1. Same
    BY <1>23 DEF PipeEnds, Deciding
  <2> QED BY <1>23, <2>1, <1>a DEF PipeEnds
<1>24. ASSUME Tick PROVE ContractStep
  <2>1. Contract!Tick
    BY <1>24 DEF Tick, Contract!Tick, Deciding
  <2> QED BY <2>1 DEF ContractStep, Contract!Next
<1>25. ASSUME NEW u \in Usernames, NEW p \in Pubkeys \cup {NoPubkey}, DirectoryChanges(u, p) PROVE ContractStep
  <2>1. Contract!Relink(u, p)
    BY <1>25 DEF DirectoryChanges, Contract!Relink, Deciding
  <2> QED BY <2>1 DEF ContractStep, Contract!Next
<1>26. ASSUME NEW k \in Links, UpstreamLost(k) PROVE ContractStep
  <2>1. Same
    BY <1>26 DEF UpstreamLost, Deciding
  <2> QED BY <1>26, <2>1, <1>a DEF UpstreamLost
<1>27. ASSUME Restart PROVE ContractStep
  <2>1. Contract!Drop(Conns)
    BY <1>27 DEF Restart, Contract!Drop, Deciding
  <2> QED BY <2>1 DEF ContractStep, Contract!Next
<1>28. CASE UNCHANGED vars
  <2>1. Same
    BY <1>28 DEF vars, Deciding
  <2> QED BY <1>28, <2>1, <1>a DEF vars
<1> QED
  BY <1>1, <1>2, <1>3, <1>4, <1>5, <1>6, <1>7, <1>8, <1>9, <1>10, <1>11, <1>12, <1>13, <1>14, <1>15, <1>16, <1>17, <1>18, <1>19, <1>20, <1>21, <1>22, <1>23, <1>24, <1>25, <1>26, <1>27,
     <1>28 DEF Next, HandlerStep, ClientMessage, Environment

(* The gate implements the admission contract for any number of clients,    *)
(* keys and usernames and any TTL: identities are given once, and only on a *)
(* NIP-05 link confirmed less than TTL before the AUTH message came in.     *)
THEOREM GateKeepsContract == Spec => KeepsContract
<1>1. Init => Contract!Init
  BY DEF Init, Contract!Init, Deciding
<1>2. IInv /\ [Next]_vars => [Contract!Next]_(Contract!vars)
  BY StepContract DEF ContractStep
<1> QED BY <1>1, <1>2, AdmissionInvariant, PTL DEF Spec, KeepsContract, Contract!Spec
============================================================================
