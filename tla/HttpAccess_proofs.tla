------------------------- MODULE HttpAccess_proofs -------------------------
(***************************************************************************)
(* Proofs about HttpAccess for any targets, services, rules, keys, relays  *)
(* and requests: what is forwarded was entitled to it and its body is       *)
(* whole, and the follow lists kept of a relay's answers are the newest.   *)
(*                                                                         *)
(* The inductive invariant follows the list of rules being checked: at     *)
(* every moment each rule of it has been satisfied or is still to come.    *)
(***************************************************************************)
EXTENDS HttpAccess, FiniteSetTheorems, TLAPS

-----------------------------------------------------------------------------
(* The names of the rules of a target *)

(* Any set of naturals has a least element, which stands in for induction. *)
LEMMA LeastElement ==
    ASSUME NEW T, T \subseteq Nat, T # {}
    PROVE  \E m \in T : \A y \in T : m <= y
<1>1. PICK m \in T : \A y \in T : ~(<<y, m>> \in OpToRel(<, Nat))
  BY NatLessThanWellFounded, WFMin, Zenon
<1>2. \A y \in Nat : y < m => <<y, m>> \in OpToRel(<, Nat)
  BY Zenon DEF OpToRel
<1>3. \A y \in T : ~(y < m)
  BY <1>1, <1>2, Zenon
<1> QED BY <1>3

(* A finite set of positions has an n-th one, for every n up to its size. *)
LEMMA NthPosition ==
    ASSUME NEW N \in Nat, NEW F \in SUBSET (1..N), NEW n \in 1..Cardinality(F)
    PROVE  \E i \in F : Cardinality(F \cap 1..i) = n
<1> DEFINE Upto(i) == F \cap 1..i
           size[i \in 0..N] == Cardinality(Upto(i))
           Enough == {i \in 0..N : size[i] >= n}
<1>1. ASSUME NEW i \in 0..N PROVE IsFiniteSet(Upto(i)) /\ Cardinality(Upto(i)) \in Nat
  <2>1. IsFiniteSet(1..i)
    BY FS_Interval
  <2>2. Upto(i) \in SUBSET (1..i)
    OBVIOUS
  <2> QED BY <2>1, <2>2, FS_Subset, FS_CardinalityType
<1>2. Upto(N) = F /\ Upto(0) = {}
  <2>1. 1..0 = {}
    OBVIOUS
  <2> QED BY <2>1
<1>3. ASSUME NEW i \in 1..N
      PROVE  Upto(i) = IF i \in F THEN Upto(i - 1) \cup {i} ELSE Upto(i - 1)
  <2>1. 1..i = 1..(i - 1) \cup {i}
    OBVIOUS
  <2> QED BY <2>1
<1>4. ASSUME NEW i \in 1..N PROVE i \notin Upto(i - 1)
  OBVIOUS
<1> HIDE DEF Upto
<1>5. /\ size \in [0..N -> Nat]
      /\ \A i \in 0..N : size[i] = Cardinality(Upto(i))
  BY <1>1
<1>6. size[N] >= n /\ size[0] = 0 /\ n \in Nat /\ n > 0
  <2>1. size[N] = Cardinality(F) /\ size[0] = 0
    BY <1>2, <1>5, FS_EmptySet
  <2> QED BY <1>5, <2>1
<1>7. ASSUME NEW i \in 1..N PROVE size[i] = IF i \in F THEN size[i - 1] + 1 ELSE size[i - 1]
  <2>1. i - 1 \in 0..N /\ i \in 0..N
    OBVIOUS
  <2>2. CASE i \in F
    BY <1>1, <1>3, <1>4, <1>5, <2>1, <2>2, FS_AddElement
  <2>3. CASE i \notin F
    BY <1>3, <1>5, <2>1, <2>3
  <2> QED BY <2>2, <2>3
<1> HIDE DEF size
<1>8. Enough \subseteq Nat /\ N \in Enough
  BY <1>6
<1>9. PICK m \in Enough : \A y \in Enough : m <= y
  <2> HIDE DEF Enough
  <2> QED BY <1>8, LeastElement
<1>10. m \in 1..N /\ m - 1 \in 0..N /\ m - 1 \notin Enough /\ size[m] >= n
  BY <1>6, <1>9
<1>11. size[m - 1] < n
  BY <1>5, <1>6, <1>10
<1>12. m \in F /\ size[m] = n
  BY <1>5, <1>6, <1>7, <1>10, <1>11
<1> QED BY <1>5, <1>10, <1>12 DEF Upto

(* No two positions are the n-th. *)
LEMMA PositionsDiffer ==
    ASSUME NEW N \in Nat, NEW F \in SUBSET (1..N), NEW i \in F, NEW j \in F,
           Cardinality(F \cap 1..i) = Cardinality(F \cap 1..j)
    PROVE  i = j
<1>1. ASSUME NEW a \in F, NEW b \in F, a < b, Cardinality(F \cap 1..a) = Cardinality(F \cap 1..b)
      PROVE  FALSE
  <2>1. IsFiniteSet(1..b)
    BY FS_Interval
  <2>2. F \cap 1..b \in SUBSET (1..b)
    OBVIOUS
  <2>3. IsFiniteSet(F \cap 1..b)
    BY <2>1, <2>2, FS_Subset
  <2>4. F \cap 1..a \in SUBSET (F \cap 1..b)
    BY <1>1
  <2>5. F \cap 1..a = F \cap 1..b
    BY <1>1, <2>3, <2>4, FS_Subset
  <2>6. b \in F \cap 1..b /\ b \notin F \cap 1..a
    BY <1>1
  <2> QED BY <2>5, <2>6
<1>2. i \in Nat /\ j \in Nat
  OBVIOUS
<1>3. CASE i < j
  BY <1>1, <1>3
<1>4. CASE j < i
  BY <1>1, <1>4
<1> QED BY <1>2, <1>3, <1>4

(* appendUniqueRuleNames yields a list of the same names. *)
LEMMA UniqueNames ==
    ASSUME NEW names \in Seq(Rules)
    PROVE  /\ UniqueRuleNames(names) \in Seq(Rules)
           /\ Range(UniqueRuleNames(names)) = Range(names)
<1> DEFINE first == {i \in DOMAIN names : \A j \in 1..(i - 1) : names[j] # names[i]}
           size  == Cardinality(first)
           pos   == [n \in 1..size |-> CHOOSE i \in first : Cardinality(first \cap 1..i) = n]
           out   == [n \in 1..size |-> names[pos[n]]]
<1>1. DOMAIN names = 1..Len(names) /\ Len(names) \in Nat /\ \A i \in 1..Len(names) : names[i] \in Rules
  OBVIOUS
<1>2. first \in SUBSET (1..Len(names))
  BY <1>1
<1>3. ASSUME NEW v \in Range(names) PROVE \E i \in first : names[i] = v
  <2> DEFINE at == {i \in 1..Len(names) : names[i] = v}
  <2>1. at \subseteq Nat /\ at # {}
    BY <1>1 DEF Range
  <2>2. PICK i \in at : \A y \in at : i <= y
    <3> HIDE DEF at
    <3> QED BY <2>1, LeastElement
  <2>3. ASSUME NEW j \in 1..(i - 1) PROVE names[j] # names[i]
    BY <1>1, <2>2
  <2> QED BY <1>1, <2>2, <2>3
<1>4. UniqueRuleNames(names) = out
  BY DEF UniqueRuleNames
<1> HIDE DEF first
<1>5. IsFiniteSet(first) /\ size \in Nat
  <2>1. IsFiniteSet(1..Len(names))
    BY <1>1, FS_Interval
  <2> QED BY <1>2, <2>1, FS_Subset, FS_CardinalityType
<1>6. ASSUME NEW n \in 1..size PROVE pos[n] \in first /\ Cardinality(first \cap 1..pos[n]) = n
  BY <1>1, <1>2, <1>6, NthPosition
<1>7. ASSUME NEW i \in first PROVE \E n \in 1..size : pos[n] = i
  <2> DEFINE n == Cardinality(first \cap 1..i)
  <2>1. first \cap 1..i \in SUBSET first /\ i \in first \cap 1..i
    BY <1>2
  <2>2. n \in Nat /\ n <= size /\ n # 0
    BY <1>5, <2>1, FS_Subset, FS_CardinalityType, FS_EmptySet
  <2>3. n \in 1..size
    BY <1>5, <2>2
  <2> HIDE DEF n, pos, size
  <2>4. pos[n] \in first /\ Cardinality(first \cap 1..pos[n]) = n
    BY <1>6, <2>3
  <2>5. pos[n] = i
    BY <1>1, <1>2, <2>4, PositionsDiffer DEF n
  <2> QED BY <2>3, <2>5
<1> HIDE DEF pos, size
<1>8. \A n \in 1..size : names[pos[n]] \in Rules
  BY <1>1, <1>2, <1>6
<1>9. out \in Seq(Rules) /\ DOMAIN out = 1..size
  BY <1>5, <1>8
<1>10. \A n \in 1..size : out[n] = names[pos[n]]
  OBVIOUS
<1> HIDE DEF out
<1>11. Range(out) \subseteq Range(names)
  <2> SUFFICES ASSUME NEW n \in 1..size PROVE out[n] \in Range(names)
    BY <1>9 DEF Range
  <2>1. pos[n] \in DOMAIN names
    BY <1>1, <1>2, <1>6
  <2> QED BY <1>10, <2>1 DEF Range
<1>12. Range(names) \subseteq Range(out)
  <2> SUFFICES ASSUME NEW v \in Range(names) PROVE v \in Range(out)
    OBVIOUS
  <2>1. PICK i \in first : names[i] = v
    BY <1>3
  <2>2. PICK n \in 1..size : pos[n] = i
    BY <1>7
  <2> QED BY <1>9, <1>10, <2>1, <2>2 DEF Range
<1> QED BY <1>4, <1>9, <1>11, <1>12

-----------------------------------------------------------------------------
(* What a request has to satisfy *)

LEMMA RangeOfJoined ==
    ASSUME NEW s \in Seq(Rules), NEW t \in Seq(Rules)
    PROVE  s \o t \in Seq(Rules) /\ Range(s \o t) = Range(s) \cup Range(t)
<1>1. s \o t \in Seq(Rules) /\ DOMAIN (s \o t) = 1..(Len(s) + Len(t))
  OBVIOUS
<1>2. /\ \A i \in 1..Len(s) : (s \o t)[i] = s[i]
      /\ \A i \in 1..Len(t) : (s \o t)[Len(s) + i] = t[i]
  OBVIOUS
<1>3. \A i \in 1..(Len(s) + Len(t)) : i \in 1..Len(s) \/ i - Len(s) \in 1..Len(t)
  OBVIOUS
<1>4. DOMAIN s = 1..Len(s) /\ DOMAIN t = 1..Len(t) /\ Len(s) \in Nat /\ Len(t) \in Nat
  OBVIOUS
<1>5. Range(s \o t) \subseteq Range(s) \cup Range(t)
  <2> SUFFICES ASSUME NEW i \in 1..(Len(s) + Len(t)) PROVE (s \o t)[i] \in Range(s) \cup Range(t)
    BY <1>1 DEF Range
  <2>1. CASE i \in 1..Len(s)
    BY <1>2, <1>4, <2>1 DEF Range
  <2>2. CASE i - Len(s) \in 1..Len(t)
    <3>1. i = Len(s) + (i - Len(s))
      BY <1>4
    <3>2. (s \o t)[i] = t[i - Len(s)]
      BY <1>2, <2>2, <3>1
    <3> QED BY <1>4, <2>2, <3>2 DEF Range
  <2> QED BY <1>3, <2>1, <2>2
<1>6. ASSUME NEW v \in Range(s) PROVE v \in Range(s \o t)
  BY <1>1, <1>2, <1>4 DEF Range
<1>7. ASSUME NEW v \in Range(t) PROVE v \in Range(s \o t)
  <2>1. PICK i \in 1..Len(t) : t[i] = v
    BY <1>4 DEF Range
  <2>2. Len(s) + i \in DOMAIN (s \o t) /\ (s \o t)[Len(s) + i] = v
    BY <1>1, <1>2, <1>4, <2>1
  <2> QED BY <2>2 DEF Range
<1> QED BY <1>1, <1>5, <1>6, <1>7

LEMMA RouteRulesOK ==
    ASSUME NEW q
    PROVE  /\ RouteRules(q) \in Seq(Rules)
           /\ q.segment \in Targets =>
                 Range(RouteRules(q)) = Range(ProxyRules) \cup Range(TargetRules[q.segment])
<1>1. ProxyRules \in Seq(Rules) /\ \A t \in Targets : TargetRules[t] \in Seq(Rules)
  BY AccessAssumption
<1>2. CASE q.segment \in Targets
  <2> DEFINE names == ProxyRules \o TargetRules[q.segment]
  <2>1. names \in Seq(Rules) /\ Range(names) = Range(ProxyRules) \cup Range(TargetRules[q.segment])
    BY <1>1, <1>2, RangeOfJoined
  <2>2. RouteRules(q) = UniqueRuleNames(names)
    BY <1>2 DEF RouteRules
  <2> HIDE DEF names
  <2> QED BY <2>1, <2>2, UniqueNames
<1>3. CASE q.segment \notin Targets
  BY <1>1, <1>3, UniqueNames DEF RouteRules
<1> QED BY <1>2, <1>3

(* A request that has to be checked is checked against lists of rules, none *)
(* of them empty.                                                           *)
LEMMA AlternativesOK ==
    ASSUME NEW q \in Inputs, ~Exempt(q)
    PROVE  q.kind # "admin" /\ Alternatives(q) \in SUBSET (Seq(Rules) \ {<<>>})
<1>1. q.kind \in {"proxy", "service", "status"} /\ (q.kind = "service" => q.segment \in Services)
  BY InputsAssumption DEF Exempt
<1>2. RouteRules(q) \in Seq(Rules) /\ (q.kind = "proxy" => RouteRules(q) # <<>>)
  BY RouteRulesOK DEF Exempt
<1>3. \A s \in Services : ServiceRules[s] \in Seq(Rules)
  BY AccessAssumption
<1>4. CASE q.kind = "proxy"
  BY <1>2, <1>4 DEF Alternatives
<1>5. CASE q.kind = "service"
  BY <1>1, <1>3, <1>5 DEF Alternatives
<1>6. CASE q.kind = "status"
  BY <1>3, <1>6 DEF Alternatives
<1> QED BY <1>1, <1>4, <1>5, <1>6

(* What a request is entitled by: an exemption, or a list all of whose rules *)
(* are among those proved.                                                  *)
EntitledBy(q, S) == Exempt(q) \/ \E list \in Alternatives(q) : Range(list) \subseteq S

Fulfilled(list, S) == list # <<>> /\ Range(list) \subseteq S

(* ForwardedIsEntitled, of a request and the rules proved for it. *)
Entitlement(q, S) ==
    /\ q.kind = "proxy" /\ q.segment \in Targets /\ ~IsPublicAsset(q) =>
          Range(ProxyRules) \cup Range(TargetRules[q.segment]) \subseteq S
    /\ q.kind = "service" => Granted(q) \/ Fulfilled(ServiceRules[q.segment], S)
    /\ q.kind = "status" => Granted(q) \/ \E v \in Services : Fulfilled(ServiceRules[v], S)
    /\ q.kind = "admin" => VerifyNIP98(q) /\ q.auth.pubkey \in Admins

LEMMA EntitlementOK ==
    ASSUME NEW q \in Inputs, NEW S, EarlyAnswer(q) = "none", EntitledBy(q, S)
    PROVE  Entitlement(q, S)
<1>1. ASSUME q.kind = "proxy", q.segment \in Targets, ~IsPublicAsset(q)
      PROVE  Range(ProxyRules) \cup Range(TargetRules[q.segment]) \subseteq S
  <2>1. Range(RouteRules(q)) = Range(ProxyRules) \cup Range(TargetRules[q.segment])
    BY <1>1, RouteRulesOK
  <2>2. CASE Exempt(q)
    <3>1. RouteRules(q) = <<>>
      BY <1>1, <2>2 DEF Exempt
    <3>2. Range(RouteRules(q)) = {}
      BY <3>1 DEF Range
    <3> QED BY <2>1, <3>2
  <2>3. CASE \E list \in Alternatives(q) : Range(list) \subseteq S
    BY <1>1, <2>1, <2>3 DEF Alternatives
  <2> QED BY <2>2, <2>3 DEF EntitledBy
<1>2. ASSUME q.kind = "service" PROVE Granted(q) \/ Fulfilled(ServiceRules[q.segment], S)
  BY <1>2 DEF EntitledBy, Exempt, Alternatives, Fulfilled
<1>3. ASSUME q.kind = "status" PROVE Granted(q) \/ \E v \in Services : Fulfilled(ServiceRules[v], S)
  BY <1>3 DEF EntitledBy, Exempt, Alternatives, Fulfilled
<1>4. ASSUME q.kind = "admin" PROVE VerifyNIP98(q) /\ q.auth.pubkey \in Admins
  BY <1>4 DEF EarlyAnswer, AdminAnswer
<1> QED BY <1>1, <1>2, <1>3, <1>4 DEF Entitlement

LEMMA EarlyAnswersOK == ASSUME NEW q \in Inputs PROVE EarlyAnswer(q) \notin {"forwarded", "body_too_large"}
BY InputsAssumption DEF EarlyAnswer, AdminAnswer

-----------------------------------------------------------------------------
(* The inductive invariant *)

Checking == stage \in {"rule", "relay", "nip05"}

(* Each rule of one of the lists is proved or still to be checked. *)
CheckOK ==
    Checking =>
        /\ EarlyAnswer(req) = "none" /\ ~Exempt(req)
        /\ alts \subseteq Alternatives(req)
        /\ \E list \in Alternatives(req) : Range(list) \subseteq proved \cup Range(rules)

(* What was heard of relays is genuine. *)
AskingOK ==
    /\ stage \in {"relay", "nip05"} => req.auth.pubkey \notin Deny[Head(rules)]
    /\ stage = "nip05" => <<req.auth.pubkey, username>> \in Claims
    /\ latest \in OwnerLists \cup {NoList} /\ contacts \in OwnerLists \cup {NoList}

ForwardOK == stage = "forward" => EarlyAnswer(req) = "none" /\ EntitledBy(req, proved)

ListsOK == got \subseteq Lists /\ NewestListKept

OutcomeOK == ForwardedIsEntitled /\ BodyIsWhole

Access == TypeOK /\ CheckOK /\ AskingOK /\ ForwardOK /\ ListsOK /\ OutcomeOK

(* Nothing heard, or forgotten again. *)
LEMMA NothingAskedOK ==
    ASSUME NothingAsked
    PROVE  /\ ListsOK'
           /\ relay' = 0 /\ username' = NoUsername /\ latest' = NoList /\ contacts' = NoList
<1>1. /\ got' = {} /\ latest' = NoList /\ contacts' = NoList
      /\ relay' = 0 /\ username' = NoUsername
  BY DEF NothingAsked
<1> QED BY <1>1 DEF ListsOK, NewestListKept, Filled

(* A request ends: forwarded, it was entitled to it and its body is whole. *)
LEMMA EndOK ==
    ASSUME Access, NEW q, NEW how, NEW sent, End(q, how, sent), UNCHANGED directory,
           how = "forwarded" => q \in Inputs /\ EarlyAnswer(q) = "none" /\ EntitledBy(q, proved),
           how = "forwarded" /\ q.kind = "proxy" /\ q.method # "GET" =>
               sent = q.body /\ q.body <= MaxBody,
           how = "body_too_large" => q.body > MaxBody
    PROVE  Access'
<1> USE AccessAssumption
<1>1. /\ stage' = "idle" /\ req' = NoRequest /\ alts' = {} /\ rules' = <<>> /\ proved' = {}
      /\ outcome' = [request |-> q, is |-> how, proved |-> proved, sent |-> sent]
  BY DEF End
<1>2. /\ ListsOK'
      /\ relay' = 0 /\ username' = NoUsername /\ latest' = NoList /\ contacts' = NoList
  BY NothingAskedOK DEF End
<1>3. <<>> \in Seq(Rules) /\ 0 \in 0..NRelays
  OBVIOUS
<1>4. TypeOK'
  BY <1>1, <1>2, <1>3 DEF Access, TypeOK
<1>5. CheckOK' /\ AskingOK' /\ ForwardOK'
  BY <1>1, <1>2 DEF CheckOK, Checking, AskingOK, ForwardOK
<1>6. outcome'.request = q /\ outcome'.is = how /\ outcome'.proved = proved /\ outcome'.sent = sent
  BY <1>1
<1>7. ForwardedIsEntitled'
  BY <1>6, EntitlementOK DEF ForwardedIsEntitled, Forwarded, Entitlement, Fulfilled, AllProved
<1>8. BodyIsWhole'
  BY <1>6 DEF BodyIsWhole, Forwarded
<1> QED BY <1>2, <1>4, <1>5, <1>7, <1>8 DEF Access, OutcomeOK

LEMMA RefusedOK ==
    ASSUME Access, NEW q, NEW how, how \notin {"forwarded", "body_too_large"},
           Refuse(q, how), UNCHANGED directory
    PROVE  Access'
BY EndOK DEF Refuse

(* The rule at hand is not passed. *)
LEMMA FailOK ==
    ASSUME Access, Checking, Fail, UNCHANGED directory
    PROVE  Access'
<1> USE AccessAssumption
<1>1. CASE Refuse(req, "forbidden") \/ Refuse(req, "unauthorized")
  BY <1>1, RefusedOK
<1>2. ASSUME NEW list \in alts, rules' = list, alts' = alts \ {list}, stage' = "rule", NothingAsked,
             UNCHANGED <<req, proved, outcome>>
      PROVE  Access'
  <2>1. req \in Inputs /\ ~Exempt(req) /\ EarlyAnswer(req) = "none" /\ alts \subseteq Alternatives(req)
    BY DEF Access, TypeOK, CheckOK, Checking
  <2>2. list \in Alternatives(req) /\ list \in Seq(Rules)
    BY <2>1, AlternativesOK
  <2>3. /\ ListsOK'
        /\ relay' = 0 /\ username' = NoUsername /\ latest' = NoList /\ contacts' = NoList
    BY <1>2, NothingAskedOK
  <2>4. req # NoRequest /\ 0 \in 0..NRelays
    BY DEF Access, TypeOK, Checking
  <2>5. TypeOK'
    BY <1>2, <2>2, <2>3, <2>4 DEF Access, TypeOK
  <2>6. CheckOK'
    BY <1>2, <2>1, <2>2 DEF CheckOK
  <2>7. AskingOK' /\ ForwardOK' /\ OutcomeOK'
    BY <1>2, <2>3 DEF AskingOK, ForwardOK, OutcomeOK, Access, ForwardedIsEntitled, BodyIsWhole,
                      Forwarded, AllProved
  <2> QED BY <2>3, <2>5, <2>6, <2>7 DEF Access
<1> QED BY <1>1, <1>2 DEF Fail

(* The rule at hand is passed, and holds. *)
LEMMA PassOK ==
    ASSUME Access, stage \in {"relay", "nip05"}, Pass(TRUE), UNCHANGED directory
    PROVE  Access'
<1> USE AccessAssumption
<1>1. /\ rules \in Seq(Rules) /\ rules # <<>> /\ req \in Inputs /\ req # NoRequest
      /\ req.auth.pubkey \notin Deny[Head(rules)]
  BY DEF Access, TypeOK, AskingOK
<1>2. /\ rules' = Tail(rules) /\ proved' = proved \cup {Head(rules)} /\ stage' = "rule"
      /\ UNCHANGED <<alts, req, outcome>>
  BY <1>1 DEF Pass
<1>3. /\ ListsOK'
      /\ relay' = 0 /\ username' = NoUsername /\ latest' = NoList /\ contacts' = NoList
  BY NothingAskedOK DEF Pass
<1>4. /\ Tail(rules) \in Seq(Rules) /\ Head(rules) \in Rules /\ 0 \in 0..NRelays
  BY <1>1
<1>5. Range(rules) \subseteq {Head(rules)} \cup Range(Tail(rules))
  <2> SUFFICES ASSUME NEW i \in 1..Len(rules) PROVE rules[i] = Head(rules) \/ rules[i] \in Range(Tail(rules))
    BY <1>1 DEF Range
  <2>1. CASE i = 1
    BY <1>1, <2>1
  <2>2. CASE i # 1
    <3>1. i - 1 \in DOMAIN Tail(rules) /\ Tail(rules)[i - 1] = rules[i]
      BY <1>1, <2>2
    <3> QED BY <3>1 DEF Range
  <2> QED BY <2>1, <2>2
<1>6. TypeOK'
  BY <1>1, <1>2, <1>3, <1>4 DEF Access, TypeOK
<1>7. CheckOK'
  <2>1. /\ EarlyAnswer(req) = "none" /\ ~Exempt(req) /\ alts \subseteq Alternatives(req)
        /\ \E list \in Alternatives(req) : Range(list) \subseteq proved \cup Range(rules)
    BY DEF Access, CheckOK, Checking
  <2> QED BY <1>2, <1>5, <2>1 DEF CheckOK
<1>8. AskingOK' /\ ForwardOK' /\ OutcomeOK'
  BY <1>2, <1>3 DEF AskingOK, ForwardOK, OutcomeOK, Access, ForwardedIsEntitled, BodyIsWhole,
                    Forwarded, AllProved
<1> QED BY <1>3, <1>6, <1>7, <1>8 DEF Access

-----------------------------------------------------------------------------
(* Steps *)

LEMMA InitAccess == Init => Access
<1> SUFFICES ASSUME Init PROVE Access
  OBVIOUS
<1> USE AccessAssumption
<1>1. <<>> \in Seq(Rules) /\ 0 \in 0..NRelays
  OBVIOUS
<1>2. TypeOK
  BY <1>1 DEF Init, TypeOK
<1>3. CheckOK /\ AskingOK /\ ForwardOK
  BY DEF Init, CheckOK, Checking, AskingOK, ForwardOK
<1>4. got = {} /\ latest = NoList /\ contacts = NoList
  BY DEF Init
<1>5. ListsOK
  BY <1>4 DEF ListsOK, NewestListKept, Filled
<1>6. outcome.is \notin {"forwarded", "body_too_large"}
  BY DEF Init, NoOutcome
<1>7. OutcomeOK
  BY <1>6 DEF OutcomeOK, ForwardedIsEntitled, BodyIsWhole, Forwarded
<1> QED BY <1>2, <1>3, <1>5, <1>7 DEF Access

(* Nothing is said of the last request while another is under way. *)
LEMMA NoOutcomeOK == ASSUME outcome' = NoOutcome PROVE OutcomeOK'
<1>1. outcome'.is \notin {"forwarded", "body_too_large"}
  BY DEF NoOutcome
<1> QED BY <1>1 DEF OutcomeOK, ForwardedIsEntitled, BodyIsWhole, Forwarded

LEMMA SameOutcomeOK == ASSUME OutcomeOK, UNCHANGED outcome PROVE OutcomeOK'
BY DEF OutcomeOK, ForwardedIsEntitled, BodyIsWhole, Forwarded, AllProved

LEMMA SameListsOK ==
    ASSUME ListsOK, UNCHANGED <<latest, contacts, got>> PROVE ListsOK'
BY DEF ListsOK, NewestListKept

(* A request is under way only if it is one of the inputs. *)
LEMMA InputsDiffer == ASSUME NEW q \in Inputs PROVE q # NoRequest
<1>1. q.kind # "none"
  BY InputsAssumption
<1> QED BY <1>1 DEF NoRequest

(* findFollowListOnRelay: x is kept if it is newer than the newest of S. *)
LEMMA NewestOfMore ==
    ASSUME NEW S \in SUBSET Lists, NEW old, NEW x \in Lists,
           IF S = {} THEN old = NoList ELSE old \in Newest(S)
    PROVE  (IF Newer(x, old) THEN x ELSE old) \in Newest(S \cup {x})
<1> USE DEF Newest
<1> DEFINE new == IF Newer(x, old) THEN x ELSE old
<1>1. \A y \in Lists : y.at \in Int /\ y # NoList
  BY AccessAssumption
<1>2. CASE S = {}
  BY <1>1, <1>2 DEF Newer
<1>3. CASE S # {}
  <2>1. old \in S /\ old # NoList /\ old.at \in Int /\ x.at \in Int /\ \A z \in S : z.at <= old.at
    BY <1>1, <1>3
  <2>2. CASE x.at > old.at
    <3>1. new = x
      BY <2>2 DEF Newer
    <3>2. \A z \in S : z.at <= x.at
      BY <1>1, <2>1, <2>2
    <3> QED BY <2>1, <3>1, <3>2
  <2>3. CASE ~(x.at > old.at)
    <3>1. new = old
      BY <2>1, <2>3 DEF Newer
    <3> QED BY <2>1, <2>3, <3>1
  <2> QED BY <2>2, <2>3
<1> QED BY <1>2, <1>3

LEMMA RelayListOK ==
    ASSUME Access, NEW byOwner \in BOOLEAN, NEW sig \in {"valid", "invalid"}, NEW list \in Lists,
           RelayList(byOwner, sig, list)
    PROVE  Access'
<1>1. /\ stage = "relay" /\ list \in OwnerLists
      /\ latest' = (IF Newer(list, latest) THEN list ELSE latest)
      /\ contacts' = (IF list.contacts # {} /\ Newer(list, contacts) THEN list ELSE contacts)
      /\ got' = got \cup {list}
      /\ UNCHANGED <<directory, stage, req, alts, rules, relay, username, proved, outcome>>
  BY DEF RelayList, ValidEventAuthor, CanBeSent
<1>2. got \in SUBSET Lists /\ Filled(got) \in SUBSET Lists
  BY DEF Access, ListsOK, Filled
<1>3. latest' \in Newest(got')
  <2>1. IF got = {} THEN latest = NoList ELSE latest \in Newest(got)
    BY DEF Access, ListsOK, NewestListKept
  <2> QED BY <1>1, <1>2, <2>1, NewestOfMore
<1>4. IF Filled(got) = {} THEN contacts = NoList ELSE contacts \in Newest(Filled(got))
  BY DEF Access, ListsOK, NewestListKept
<1>5. CASE list.contacts # {}
  <2>1. Filled(got') = Filled(got) \cup {list}
    BY <1>1, <1>5 DEF Filled
  <2>2. contacts' = (IF Newer(list, contacts) THEN list ELSE contacts)
    BY <1>1, <1>5
  <2>3. contacts' \in Newest(Filled(got) \cup {list})
    BY <1>2, <1>4, <2>2, NewestOfMore
  <2>4. ListsOK'
    BY <1>1, <1>2, <1>3, <2>1, <2>3 DEF ListsOK, NewestListKept
  <2> QED BY <1>1, <2>4, SameOutcomeOK DEF Access, TypeOK, CheckOK, Checking, AskingOK, ForwardOK
<1>6. CASE list.contacts = {}
  <2>1. Filled(got') = Filled(got) /\ contacts' = contacts
    BY <1>1, <1>6 DEF Filled
  <2>2. ListsOK'
    BY <1>1, <1>2, <1>3, <1>4, <2>1 DEF ListsOK, NewestListKept
  <2> QED BY <1>1, <2>2, SameOutcomeOK DEF Access, TypeOK, CheckOK, Checking, AskingOK, ForwardOK
<1> QED BY <1>5, <1>6

(* The list that decides is the newest with entries, or the newest. *)
LEMMA NewestDecides ==
    ASSUME Access, NEW list, list = (IF contacts # NoList THEN contacts ELSE latest), list # NoList
    PROVE  list \in Newest(IF Filled(got) = {} THEN got ELSE Filled(got))
<1>1. NewestListKept /\ got \subseteq Lists /\ NoList \notin Lists
  BY AccessAssumption DEF Access, ListsOK
<1>2. Newest(Filled(got)) \subseteq Lists
  BY <1>1 DEF Newest, Filled
<1> QED BY <1>1, <1>2 DEF NewestListKept

LEMMA NextRelayOK ==
    ASSUME Access, stage = "relay", NextRelay, UNCHANGED directory
    PROVE  Access'
<1> USE AccessAssumption
<1>1. CASE Fail
  BY <1>1, FailOK DEF Checking
<1>2. CASE ~Fail
  <2>1. /\ relay < NRelays /\ relay' = relay + 1
        /\ latest' = NoList /\ contacts' = NoList /\ got' = {}
        /\ UNCHANGED <<stage, req, alts, rules, username, proved, outcome, directory>>
    BY <1>2 DEF NextRelay
  <2>2. ListsOK'
    BY <2>1 DEF ListsOK, NewestListKept, Filled
  <2>3. relay' \in 0..NRelays /\ relay' # 0
    BY <2>1 DEF Access, TypeOK
  <2>4. TypeOK'
    BY <2>1, <2>3 DEF Access, TypeOK
  <2>5. CheckOK' /\ AskingOK' /\ ForwardOK'
    BY <2>1 DEF Access, CheckOK, Checking, AskingOK, ForwardOK
  <2> QED BY <2>1, <2>2, <2>4, <2>5, SameOutcomeOK DEF Access
<1> QED BY <1>1, <1>2

(* readBody: what is read below the limit without an error is the body. *)
LEMMA ForwardOKAfter == ASSUME Access, Forward PROVE Access'
<1>1. /\ req \in Inputs /\ EarlyAnswer(req) = "none" /\ EntitledBy(req, proved)
      /\ UNCHANGED directory
  BY DEF Forward, Access, TypeOK, ForwardOK
<1>2. req.body \in Nat /\ MaxBody \in Nat
  BY <1>1, AccessAssumption, InputsAssumption
<1>3. CASE req.kind # "proxy"
  <2>1. CASE End(req, "forwarded", 0)
    BY <1>1, <1>3, <2>1, EndOK
  <2>2. CASE Refuse(req, "gateway_error")
    BY <1>1, <2>2, RefusedOK
  <2> QED BY <1>3, <2>1, <2>2 DEF Forward
<1>4. CASE req.kind = "proxy"
  <2> DEFINE hasBody == req.method # "GET"
             read(arrives) == IF arrives < ReadLimit THEN arrives ELSE ReadLimit
             broken(arrives) == arrives < req.body /\ arrives < ReadLimit
  <2>1. PICK arrives \in 0..req.body :
           \/ Refuse(req, "invalid_body")
           \/ read(arrives) > MaxBody /\ Refuse(req, "body_too_large")
           \/ Refuse(req, "gateway_error")
           \/ /\ hasBody => ~broken(arrives) /\ ~(read(arrives) > MaxBody)
              /\ End(req, "forwarded", IF hasBody THEN read(arrives) ELSE 0)
    BY <1>4 DEF Forward, ForwardProxied
  <2>2. CASE Refuse(req, "invalid_body") \/ Refuse(req, "gateway_error")
    BY <1>1, <2>2, RefusedOK
  <2>3. CASE read(arrives) > MaxBody /\ Refuse(req, "body_too_large")
    <3>1. req.body > MaxBody
      BY <1>2, <2>3 DEF ReadLimit
    <3> QED BY <1>1, <2>3, <3>1, EndOK DEF Refuse
  <2>4. CASE /\ hasBody => ~broken(arrives) /\ ~(read(arrives) > MaxBody)
             /\ End(req, "forwarded", IF hasBody THEN read(arrives) ELSE 0)
    <3>1. hasBody => read(arrives) = req.body /\ req.body <= MaxBody
      BY <1>2, <2>4 DEF ReadLimit
    <3> HIDE DEF read, broken
    <3> QED BY <1>1, <2>4, <3>1, EndOK
  <2> QED BY <2>1, <2>2, <2>3, <2>4
<1> QED BY <1>3, <1>4

LEMMA StepAccess == Access /\ [Next]_vars => Access'
<1> SUFFICES ASSUME Access, [Next]_vars PROVE Access'
  OBVIOUS
<1> USE AccessAssumption DEF checkVars
<1>1. ASSUME NEW q \in Inputs, AnswerEarly(q) PROVE Access'
  BY <1>1, EarlyAnswersOK, RefusedOK DEF AnswerEarly
<1>2. ASSUME NEW q \in Inputs, PassExempt(q) PROVE Access'
  <2>1. /\ stage' = "forward" /\ req' = q /\ q # NoRequest /\ outcome' = NoOutcome
        /\ stage = "idle" /\ EarlyAnswer(q) = "none" /\ Exempt(q)
        /\ UNCHANGED <<directory, alts, rules, relay, username, latest, contacts, got, proved>>
    BY <1>2, InputsDiffer DEF PassExempt
  <2>2. TypeOK'
    BY <2>1 DEF Access, TypeOK
  <2>3. CheckOK' /\ AskingOK' /\ ForwardOK'
    BY <2>1 DEF Access, CheckOK, Checking, AskingOK, ForwardOK, EntitledBy
  <2> QED BY <2>1, <2>2, <2>3, NoOutcomeOK, SameListsOK DEF Access
<1>3. ASSUME NEW q \in Inputs, StartCheck(q) PROVE Access'
  <2>1. CASE Refuse(q, "unauthorized") \/ Refuse(q, "forbidden")
    BY <1>3, <2>1, RefusedOK DEF StartCheck
  <2>2. ASSUME NEW list \in Alternatives(q), rules' = list, alts' = Alternatives(q) \ {list},
               stage' = "rule", req' = q, outcome' = NoOutcome,
               UNCHANGED <<relay, username, latest, contacts, got, proved>>
        PROVE  Access'
    <3>1. q # NoRequest /\ stage = "idle" /\ EarlyAnswer(q) = "none" /\ ~Exempt(q) /\ UNCHANGED directory
      BY <1>3, InputsDiffer DEF StartCheck
    <3>2. list \in Seq(Rules)
      BY <3>1, AlternativesOK
    <3>3. TypeOK'
      BY <2>2, <3>1, <3>2 DEF Access, TypeOK
    <3>4. CheckOK' /\ AskingOK' /\ ForwardOK'
      BY <2>2, <3>1 DEF Access, CheckOK, Checking, AskingOK, ForwardOK
    <3> QED BY <2>2, <3>3, <3>4, NoOutcomeOK, SameListsOK DEF Access
  <2> QED BY <1>3, <2>1, <2>2 DEF StartCheck
<1>4. ASSUME BeginRule PROVE Access'
  <2>1. CASE Fail
    BY <1>4, <2>1, FailOK DEF BeginRule, Checking
  <2>2. CASE rules = <<>> /\ stage' = "forward" /\ UNCHANGED <<req, checkVars, proved, outcome>>
    <3>1. stage = "rule" /\ UNCHANGED directory
      BY <1>4 DEF BeginRule
    <3>2. TypeOK'
      BY <2>2, <3>1 DEF Access, TypeOK
    <3>3. Range(rules) = {}
      BY <2>2 DEF Range
    <3>4. EarlyAnswer(req) = "none" /\ EntitledBy(req, proved)
      BY <3>1, <3>3 DEF Access, CheckOK, Checking, EntitledBy
    <3>5. CheckOK' /\ AskingOK' /\ ForwardOK'
      BY <2>2, <3>1, <3>4 DEF Access, CheckOK, Checking, AskingOK, ForwardOK
    <3> QED BY <2>2, <3>2, <3>5, SameOutcomeOK, SameListsOK DEF Access
  <2>3. CASE /\ rules # <<>> /\ req.auth.pubkey \notin Deny[Head(rules)]
             /\ stage' = "relay" /\ relay' = 1
             /\ UNCHANGED <<req, alts, rules, username, latest, contacts, got, proved, outcome>>
    <3>1. stage = "rule" /\ UNCHANGED directory /\ 1 \in 0..NRelays
      BY <1>4 DEF BeginRule
    <3>2. TypeOK'
      BY <2>3, <3>1 DEF Access, TypeOK
    <3>3. CheckOK' /\ AskingOK' /\ ForwardOK'
      BY <2>3, <3>1 DEF Access, CheckOK, Checking, AskingOK, ForwardOK
    <3> QED BY <2>3, <3>2, <3>3, SameOutcomeOK, SameListsOK DEF Access
  <2> QED BY <1>4, <2>1, <2>2, <2>3 DEF BeginRule
<1>5. ASSUME RelayFails PROVE Access'
  BY <1>5, NextRelayOK DEF RelayFails
<1>6. ASSUME NEW by \in Pubkeys, NEW sig \in {"valid", "invalid"}, NEW u \in Usernames,
             RelayProfile(by, sig, u)
      PROVE  Access'
  <2>1. /\ stage = "relay" /\ stage' = "nip05" /\ username' = u
        /\ <<req.auth.pubkey, u>> \in Claims
        /\ UNCHANGED <<directory, req, alts, rules, relay, latest, contacts, got, proved, outcome>>
    BY <1>6 DEF RelayProfile, CanBeSent, ValidEventAuthor
  <2>2. TypeOK'
    BY <2>1 DEF Access, TypeOK
  <2>3. CheckOK' /\ AskingOK' /\ ForwardOK'
    BY <2>1 DEF Access, CheckOK, Checking, AskingOK, ForwardOK
  <2> QED BY <2>1, <2>2, <2>3, SameOutcomeOK, SameListsOK DEF Access
<1>7. ASSUME VerifyNIP05 PROVE Access'
  <2>1. CASE Fail
    BY <1>7, <2>1, FailOK DEF VerifyNIP05, Checking
  <2>2. CASE ~Fail
    <3>1. <<req.auth.pubkey, username>> \in Claims /\ stage = "nip05"
      BY <1>7 DEF VerifyNIP05, Access, AskingOK
    <3>2. NameIsHeld /\ Pass(NameIsHeld)
      BY <1>7, <2>2, <3>1 DEF VerifyNIP05, NameIsHeld
    <3>3. Pass(TRUE)
      BY <3>2 DEF Pass
    <3> QED BY <1>7, <3>1, <3>3, PassOK DEF VerifyNIP05
  <2> QED BY <2>1, <2>2
<1>8. ASSUME NEW byOwner \in BOOLEAN, NEW sig \in {"valid", "invalid"}, NEW list \in Lists,
             RelayList(byOwner, sig, list)
      PROVE  Access'
  BY <1>8, RelayListOK
<1>9. ASSUME RelayDone PROVE Access'
  <2> DEFINE list == IF contacts # NoList THEN contacts ELSE latest
  <2>1. CASE NextRelay
    BY <1>9, <2>1, NextRelayOK DEF RelayDone
  <2>2. CASE Fail
    BY <1>9, <2>2, FailOK DEF RelayDone, Checking
  <2>3. CASE ~NextRelay /\ ~Fail
    <3>1. /\ stage = "relay" /\ list # NoList /\ UNCHANGED directory
          /\ req.auth.pubkey \in list.contacts /\ Pass(OwnerFollows)
      BY <1>9, <2>3 DEF RelayDone
    <3>2. list \in OwnerLists
      BY <3>1 DEF Access, AskingOK
    <3>3. list \in Newest(IF Filled(got) = {} THEN got ELSE Filled(got))
      BY <3>1, NewestDecides
    <3>4. OwnerFollows
      BY <3>1, <3>2, <3>3 DEF OwnerFollows
    <3>5. Pass(TRUE)
      BY <3>1, <3>4 DEF Pass
    <3> QED BY <3>1, <3>5, PassOK
  <2> QED BY <2>1, <2>2, <2>3
<1>10. ASSUME Forward PROVE Access'
  BY <1>10, ForwardOKAfter
<1>11. ASSUME NEW u \in Usernames, NEW p \in Pubkeys \cup {NoPubkey}, DirectoryChanges(u, p)
       PROVE  Access'
  BY <1>11, SameOutcomeOK, SameListsOK
     DEF DirectoryChanges, Access, TypeOK, CheckOK, Checking, AskingOK, ForwardOK
<1>12. CASE UNCHANGED vars
  BY <1>12, SameOutcomeOK, SameListsOK
     DEF vars, Access, TypeOK, CheckOK, Checking, AskingOK, ForwardOK
<1> QED
  BY <1>1, <1>2, <1>3, <1>4, <1>5, <1>6, <1>7, <1>8, <1>9, <1>10, <1>11, <1>12
  DEF Next, CheckStep, RelayStep

(* The inductive invariant of a request's way through the access rules. *)
THEOREM AccessInvariant == Spec => []Access
<1> QED BY InitAccess, StepAccess, PTL DEF Spec

(* Type correctness: what is known of a relay's answer is there only while  *)
(* that relay is being asked.                                               *)
THEOREM TypeCorrect == Spec => []TypeOK
<1>1. Access => TypeOK
  BY DEF Access
<1> QED BY <1>1, AccessInvariant, PTL

(* Whatever relays make up, repeat or reorder and however the directory      *)
(* changes, a request that reaches an upstream was entitled to:             *)
(* Authorizer.checkRule passed every rule of its target, or of its service, *)
(* on a claimed name that the directory gives the key, or on the newest     *)
(* filled list of those that the relay sent.                                *)
THEOREM OnlyEntitledForwarded == Spec => []ForwardedIsEntitled
<1>1. Access => ForwardedIsEntitled
  BY DEF Access, OutcomeOK
<1> QED BY <1>1, AccessInvariant, PTL

(* Proxy.forward sends the body whole or not at all, whatever the limit and  *)
(* wherever the client breaks off, and calls none too large that fits.      *)
THEOREM BodiesAreWhole == Spec => []BodyIsWhole
<1>1. Access => BodyIsWhole
  BY DEF Access, OutcomeOK
<1> QED BY <1>1, AccessInvariant, PTL

(* findFollowListOnRelay keeps the newest list, and the newest with an      *)
(* entry, of any number of lists in any order.                              *)
THEOREM NewestListsKept == Spec => []NewestListKept
<1>1. Access => NewestListKept
  BY DEF Access, ListsOK
<1> QED BY <1>1, AccessInvariant, PTL
============================================================================
