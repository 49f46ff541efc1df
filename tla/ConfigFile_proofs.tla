------------------------- MODULE ConfigFile_proofs -------------------------
(***************************************************************************)
(* Proofs about the loading of conf.toml, for files of any length and any  *)
(* lines: what the configuration holds is what the lines read so far       *)
(* state, and the groups that have been applied, in whatever order, have   *)
(* left the rules and the targets that they stand for.                     *)
(***************************************************************************)
EXTENDS ConfigFile, TLAPS

Fields == {"targets", "groups", "wiki", "wikis", "adminPubkeys", "owner", "relays",
           "accessRule", "rules", "proxyRules", "targetRules", "serviceRules"}

-----------------------------------------------------------------------------
(* The inductive invariant *)

\* The parts of the configuration and their types; the wikis play no role.
ShapeOK ==
    /\ DOMAIN cfg = Fields
    /\ cfg.targets \in [Keys -> Values \cup {None}]
    /\ cfg.groups \in [Groups -> [urls : Seq(Values), additional : Seq(Values)]]
    /\ cfg.owner \in Npubs \cup {None}
    /\ cfg.relays \subseteq Values
    /\ cfg.accessRule \in GlobalAccessRules \cup {None}
    /\ DOMAIN cfg.rules = RuleNames
    /\ DOMAIN cfg.targetRules = Keys
    /\ DOMAIN cfg.serviceRules = Services

\* Where in the loading the state is.
PhaseOK ==
    /\ phase \in {"reading", "groups", "accepted", "rejected"}
    /\ section.table = "proxy_group" => section.name \in Groups
    /\ todo \subseteq Groups
    /\ phase = "reading" =>
         /\ todo = Groups
         /\ \A k \in Keys : cfg.targetRules[k] = {}
         /\ \A s \in Services : cfg.serviceRules[s] = {}
    /\ phase = "accepted" =>
         /\ todo = {}
         /\ cfg.proxyRules = GlobalRules(cfg)
         /\ admins = cfg.adminPubkeys \cup ({cfg.owner} \ {None})

\* Lists of the configuration hold what the file says, and the keys with one
\* value what it says last.
ListsSaid ==
    /\ cfg.relays = {s.value : s \in Stated("top", "additional_relays")}
    /\ cfg.adminPubkeys = {s.value : s \in Stated("admin", "pubkeys") \cup Stated("admin", "owner_npub")}
    /\ \A s \in Stated("top", "owner_npub") : s.value \in {cfg.owner, ""} /\ s.value \in Values
    /\ {s.value : s \in Stated("top", "access_rule")} = {cfg.accessRule} \ {None}

\* So do the groups.
GroupsSaid ==
    /\ \A s \in Stated("proxy_group", "urls") : s.at.name \in Groups /\ s.value \in Values
    /\ \A g \in Groups :
         /\ Range(cfg.groups[g].urls) =
              {s.value : s \in {x \in Stated("proxy_group", "urls") : x.at.name = g}}
         /\ (cfg.groups[g].additional # <<>>) <=>
              (\E s \in Stated("proxy_group", "additional_access_rule") : s.at.name = g)

\* A target of a list is there until the table of targets names another.
TargetsSaid ==
    \A s \in Stated("top", "targets") :
       /\ s.value \in Values
       /\ KeyOf[s.value] \in Keys
       /\ \/ cfg.targets[KeyOf[s.value]] = s.value
          \/ \E t \in said : t.at.table = "targets" /\ t.key = KeyOf[s.value]

ListedBy(c, g) == {AliasOf[v] : v \in Range(c.groups[g].urls) \ HttpURLs}

Applied == Groups \ todo

\* The global rule and the one of the owner's follows are made when they are named.
RulesMade ==
    phase \in {"groups", "accepted"} =>
       /\ GlobalRuleOK(cfg)
       /\ \A r \in GlobalRules(cfg) :
            cfg.rules[r] = [type |-> "nip05", of |-> cfg.accessRule.domain, relays |-> TrimmedRelays(cfg)]
       /\ \A g \in Applied : \A r \in Additional(cfg, g) :
            /\ cfg.owner # None
            /\ cfg.rules[r] = [type |-> "follow", of |-> cfg.owner, relays |-> TrimmedRelays(cfg)]

\* A group that was applied has made its URLs targets that ask for its rules, and
\* no target asks for rules but those of such a group.
TargetsMade ==
    phase \in {"groups", "accepted"} =>
       /\ \A g \in Applied : \A v \in Range(cfg.groups[g].urls) \cap HttpURLs :
            /\ cfg.targets[KeyOf[v]] = v
            /\ cfg.targetRules[KeyOf[v]] = Additional(cfg, g)
       /\ \A k \in Keys : \A r \in cfg.targetRules[k] :
            /\ cfg.targets[k] # None
            /\ \E g \in Applied : r \in Additional(cfg, g)

\* A service asks for the rules of the groups applied so far that list it.
ServicesMade ==
    phase \in {"groups", "accepted"} =>
       /\ \A g \in Applied : None \notin ListedBy(cfg, g)
       /\ \A s \in Services :
            cfg.serviceRules[s] = UNION {GlobalRules(cfg) \cup Additional(cfg, g) :
                                            g \in {h \in Applied : s \in ListedBy(cfg, h)}}

ConfigInv ==
    /\ ShapeOK
    /\ PhaseOK
    /\ ListsSaid
    /\ GroupsSaid
    /\ TargetsSaid
    /\ RulesMade
    /\ TargetsMade
    /\ ServicesMade

-----------------------------------------------------------------------------
(* What the invariant says of a file that is accepted *)

LEMMA StatedRulesAre ==
    ASSUME ShapeOK, ListsSaid, GroupsSaid, NEW g \in Groups
    PROVE  StatedRules(g) = GlobalRules(cfg) \cup Additional(cfg, g)
<1> DEFINE NameOf(v) == IF v.domain = "trustroots.org" THEN "trustroots_nip05" ELSE "global_nip05"
<1>1. {NameOf(s.value) : s \in Stated("top", "access_rule")} = GlobalRules(cfg)
  <2>1. {NameOf(s.value) : s \in Stated("top", "access_rule")}
            = {NameOf(v) : v \in {s.value : s \in Stated("top", "access_rule")}}
    OBVIOUS
  <2>2. {s.value : s \in Stated("top", "access_rule")} = {cfg.accessRule} \ {None}
    BY DEF ListsSaid
  <2>3. CASE cfg.accessRule = None
    BY <2>1, <2>2, <2>3 DEF GlobalRules
  <2>4. CASE cfg.accessRule # None
    BY <2>1, <2>2, <2>4 DEF GlobalRules
  <2> QED  BY <2>3, <2>4
<1>2. (IF \E s \in Stated("proxy_group", "additional_access_rule") : s.at.name = g
       THEN {"media_owner_follows"} ELSE {}) = Additional(cfg, g)
  BY DEF GroupsSaid, Additional
<1> QED  BY <1>1, <1>2 DEF StatedRules

\* A URL is stated of a group exactly when the group lists it.
LEMMA UrlsAreSaid ==
    ASSUME GroupsSaid
    PROVE  /\ \A s \in Stated("proxy_group", "urls") :
                s.at.name \in Groups /\ s.value \in Values /\ s.value \in Range(cfg.groups[s.at.name].urls)
           /\ \A g \in Groups : \A v \in Range(cfg.groups[g].urls) :
                \E s \in Stated("proxy_group", "urls") : s.at.name = g /\ s.value = v
<1>1. ASSUME NEW s \in Stated("proxy_group", "urls")
      PROVE  s.at.name \in Groups /\ s.value \in Values /\ s.value \in Range(cfg.groups[s.at.name].urls)
  <2>1. s.at.name \in Groups /\ s.value \in Values
    BY DEF GroupsSaid
  <2>2. Range(cfg.groups[s.at.name].urls) =
            {t.value : t \in {x \in Stated("proxy_group", "urls") : x.at.name = s.at.name}}
    BY <2>1 DEF GroupsSaid
  <2> QED  BY <2>1, <2>2
<1>2. ASSUME NEW g \in Groups, NEW v \in Range(cfg.groups[g].urls)
      PROVE  \E s \in Stated("proxy_group", "urls") : s.at.name = g /\ s.value = v
  <2>1. Range(cfg.groups[g].urls) = {t.value : t \in {x \in Stated("proxy_group", "urls") : x.at.name = g}}
    BY DEF GroupsSaid
  <2> QED  BY <2>1
<1> QED  BY <1>1, <1>2

LEMMA ConfigMeansGroupRules == ConfigInv => GroupRulesHold
<1> SUFFICES ASSUME ConfigInv, phase = "accepted" PROVE GroupRulesHold
  BY DEF GroupRulesHold
<1> USE DEF ConfigInv
<1>1. Applied = Groups /\ cfg.proxyRules = GlobalRules(cfg)
  BY DEF PhaseOK, Applied
<1>2. ASSUME NEW s \in Stated("proxy_group", "urls"), s.value \in HttpURLs
      PROVE  cfg.proxyRules \cup cfg.targetRules[KeyOf[s.value]] = StatedRules(s.at.name)
  <2>1. s.at.name \in Groups
    BY UrlsAreSaid
  <2>2. s.value \in Range(cfg.groups[s.at.name].urls)
    BY UrlsAreSaid
  <2>3. cfg.targetRules[KeyOf[s.value]] = Additional(cfg, s.at.name)
    BY <1>1, <1>2, <2>1, <2>2 DEF TargetsMade
  <2> QED  BY <1>1, <2>1, <2>3, StatedRulesAre
<1>3. ASSUME NEW service \in Services
      PROVE  cfg.serviceRules[service] =
                UNION {StatedRules(s.at.name) :
                        s \in {x \in Stated("proxy_group", "urls") : AliasOf[x.value] = service}}
  <2> DEFINE Of(g) == GlobalRules(cfg) \cup Additional(cfg, g)
             Here  == {x \in Stated("proxy_group", "urls") : AliasOf[x.value] = service}
  <2>1. cfg.serviceRules[service] = UNION {Of(g) : g \in {h \in Groups : service \in ListedBy(cfg, h)}}
    BY <1>1 DEF ServicesMade
  <2>2. ASSUME NEW s \in Here
        PROVE  s.at.name \in {h \in Groups : service \in ListedBy(cfg, h)} /\ StatedRules(s.at.name) = Of(s.at.name)
    <3>1. s.at.name \in Groups /\ s.value \in Values
      BY UrlsAreSaid
    <3>2. s.value \in Range(cfg.groups[s.at.name].urls)
      BY UrlsAreSaid
    <3>3. s.value \notin HttpURLs
      BY ConfigAssumption
    <3> QED  BY <3>1, <3>2, <3>3, StatedRulesAre DEF ListedBy
  <2>3. ASSUME NEW g \in Groups, service \in ListedBy(cfg, g)
        PROVE  \E s \in Here : s.at.name = g /\ StatedRules(s.at.name) = Of(g)
    <3>1. PICK v \in Range(cfg.groups[g].urls) \ HttpURLs : AliasOf[v] = service
      BY <2>3 DEF ListedBy
    <3>2. PICK s \in Stated("proxy_group", "urls") : s.at.name = g /\ s.value = v
      BY <3>1, UrlsAreSaid
    <3> QED  BY <3>1, <3>2, StatedRulesAre
  <2> HIDE DEF Of, Here
  <2>4. UNION {Of(g) : g \in {h \in Groups : service \in ListedBy(cfg, h)}} = UNION {StatedRules(s.at.name) : s \in Here}
    BY <2>2, <2>3
  <2> QED  BY <2>1, <2>4 DEF Here
<1> QED  BY <1>2, <1>3 DEF GroupRulesHold

\* A rule that is made is one, and therefore not None.
LEMMA RuleIsMade ==
    ASSUME NEW type \in {"nip05", "follow"}, NEW of \in Values, NEW relays \in SUBSET Values
    PROVE  [type |-> type, of |-> of, relays |-> relays] # None
<1>1. [type |-> type, of |-> of, relays |-> relays] \in Rules
  BY DEF Rules
<1> QED  BY <1>1, ConfigAssumption

LEMMA ConfigMeansRulesDefined == ConfigInv => RulesAreDefined
<1> SUFFICES ASSUME ConfigInv, phase = "accepted",
                    NEW r \in cfg.proxyRules \cup (UNION {cfg.targetRules[k] : k \in Keys})
                                             \cup (UNION {cfg.serviceRules[s] : s \in Services})
             PROVE  /\ cfg.rules[r] # None
                    /\ cfg.rules[r].of \notin {None, ""}
                    /\ cfg.rules[r].relays = {s.value : s \in Stated("top", "additional_relays")} \ {""}
  BY DEF RulesAreDefined
<1> USE DEF ConfigInv
<1>1. cfg.proxyRules = GlobalRules(cfg)
  BY DEF PhaseOK
<1>2. \/ r \in GlobalRules(cfg)
      \/ \E g \in Applied : r \in Additional(cfg, g)
  <2>1. CASE r \in cfg.proxyRules
    BY <1>1, <2>1
  <2>2. CASE \E k \in Keys : r \in cfg.targetRules[k]
    BY <2>2 DEF TargetsMade
  <2>3. CASE \E s \in Services : r \in cfg.serviceRules[s]
    BY <2>3 DEF ServicesMade
  <2>4. \/ r \in cfg.proxyRules
        \/ r \in UNION {cfg.targetRules[k] : k \in Keys}
        \/ r \in UNION {cfg.serviceRules[s] : s \in Services}
    OBVIOUS
  <2> QED  BY <2>1, <2>2, <2>3, <2>4
<1>3. TrimmedRelays(cfg) = {s.value : s \in Stated("top", "additional_relays")} \ {""}
  BY DEF TrimmedRelays, ListsSaid
<1>4. TrimmedRelays(cfg) \subseteq Values
  BY DEF TrimmedRelays, ShapeOK
<1>5. CASE r \in GlobalRules(cfg)
  <2>1. cfg.accessRule # None /\ cfg.accessRule \in GlobalAccessRules /\ cfg.accessRule.domain # ""
    BY <1>5 DEF GlobalRules, ShapeOK, RulesMade, GlobalRuleOK
  <2>2. cfg.accessRule.domain \in Values \ {""}
    BY <2>1 DEF GlobalAccessRules
  <2>3. cfg.rules[r] = [type |-> "nip05", of |-> cfg.accessRule.domain, relays |-> TrimmedRelays(cfg)]
    BY <1>5 DEF RulesMade
  <2>4. [type |-> "nip05", of |-> cfg.accessRule.domain, relays |-> TrimmedRelays(cfg)] # None
    BY <1>4, <2>2, <2>3, RuleIsMade
  <2>5. /\ cfg.rules[r].of = cfg.accessRule.domain
        /\ cfg.rules[r].relays = TrimmedRelays(cfg)
    BY <2>3
  <2> QED  BY <1>3, <2>2, <2>3, <2>4, <2>5, ConfigAssumption
<1>6. CASE \E g \in Applied : r \in Additional(cfg, g)
  <2>1. cfg.owner \in Npubs
    BY <1>6 DEF RulesMade, ShapeOK
  <2>2. cfg.rules[r] = [type |-> "follow", of |-> cfg.owner, relays |-> TrimmedRelays(cfg)]
    BY <1>6 DEF RulesMade
  <2>3. cfg.owner \in Values \ {""}
    BY <2>1, ConfigAssumption
  <2>4. [type |-> "follow", of |-> cfg.owner, relays |-> TrimmedRelays(cfg)] # None
    BY <1>4, <2>2, <2>3, RuleIsMade
  <2>5. /\ cfg.rules[r].of = cfg.owner
        /\ cfg.rules[r].relays = TrimmedRelays(cfg)
    BY <2>2
  <2> QED  BY <1>3, <2>2, <2>3, <2>4, <2>5, ConfigAssumption
<1> QED  BY <1>2, <1>5, <1>6

LEMMA ConfigMeansNothingLost == ConfigInv => NothingStatedIsLost
<1> SUFFICES ASSUME ConfigInv, phase = "accepted" PROVE NothingStatedIsLost
  BY DEF NothingStatedIsLost
<1> USE DEF ConfigInv
<1>1. ASSUME NEW s \in Stated("top", "targets")
      PROVE  \/ cfg.targets[KeyOf[s.value]] = s.value
             \/ \E t \in said : t.at.table = "targets" /\ t.key = KeyOf[s.value]
  BY DEF TargetsSaid
<1>2. ASSUME NEW s \in Stated("proxy_group", "urls"), AliasOf[s.value] = None
      PROVE  cfg.targets[KeyOf[s.value]] = s.value
  <2>1. s.at.name \in Applied
    BY UrlsAreSaid DEF PhaseOK, Applied
  <2>2. s.value \in Range(cfg.groups[s.at.name].urls)
    BY UrlsAreSaid
  <2>3. s.value \in HttpURLs
    BY <1>2, <2>1, <2>2 DEF ServicesMade, ListedBy
  <2> QED  BY <2>1, <2>2, <2>3 DEF TargetsMade
<1>3. ASSUME NEW s \in Stated("top", "owner_npub") \cup Stated("admin", "pubkeys")
                            \cup Stated("admin", "owner_npub"), s.value # ""
      PROVE  s.value \in admins
  <2>1. CASE s \in Stated("top", "owner_npub")
    BY <1>3, <2>1, ConfigAssumption DEF ListsSaid, PhaseOK
  <2>2. CASE s \in Stated("admin", "pubkeys") \cup Stated("admin", "owner_npub")
    BY <2>2 DEF ListsSaid, PhaseOK
  <2> QED  BY <2>1, <2>2
<1> QED  BY <1>1, <1>2, <1>3 DEF NothingStatedIsLost

-----------------------------------------------------------------------------
(* Sequences, targets and statements *)

LEMMA RangeOfConcat ==
    ASSUME NEW S, NEW s \in Seq(S), NEW t \in Seq(S)
    PROVE  /\ s \o t \in Seq(S)
           /\ Range(s \o t) = Range(s) \cup Range(t)
           /\ s \o t = <<>> <=> s = <<>> /\ t = <<>>
<1>1. s \o t \in Seq(S) /\ Len(s \o t) = Len(s) + Len(t)
  OBVIOUS
<1>2. ASSUME NEW i \in 1..Len(s) PROVE (s \o t)[i] = s[i] /\ i \in 1..Len(s \o t)
  BY <1>1
<1>3. ASSUME NEW i \in 1..Len(t) PROVE (s \o t)[Len(s) + i] = t[i] /\ Len(s) + i \in 1..Len(s \o t)
  BY <1>1
<1>4. ASSUME NEW i \in 1..Len(s \o t) PROVE (s \o t)[i] \in Range(s) \cup Range(t)
  <2>1. CASE i <= Len(s)
    <3>1. i \in 1..Len(s)
      BY <1>1, <2>1
    <3> QED  BY <3>1, <1>2 DEF Range
  <2>2. CASE i > Len(s)
    <3>1. i - Len(s) \in 1..Len(t) /\ Len(s) + (i - Len(s)) = i
      BY <1>1, <2>2
    <3>2. (s \o t)[i] = t[i - Len(s)]
      BY <3>1, <1>3
    <3> QED  BY <3>1, <3>2 DEF Range
  <2> QED  BY <1>1, <2>1, <2>2
<1>5. Range(s \o t) \subseteq Range(s) \cup Range(t)
  BY <1>1, <1>4 DEF Range
<1>6. Range(s) \subseteq Range(s \o t)
  BY <1>1, <1>2 DEF Range
<1>7. Range(t) \subseteq Range(s \o t)
  <2> SUFFICES ASSUME NEW i \in 1..Len(t) PROVE t[i] \in Range(s \o t)
    BY DEF Range
  <2> HIDE DEF Range
  <2>1. t[i] = (s \o t)[Len(s) + i] /\ Len(s) + i \in DOMAIN (s \o t)
    BY <1>1, <1>3
  <2> QED  BY <2>1 DEF Range
<1>8. s \o t = <<>> <=> s = <<>> /\ t = <<>>
  <2>1. \A q \in Seq(S) : q = <<>> <=> Len(q) = 0
    OBVIOUS
  <2>2. Len(s) \in Nat /\ Len(t) \in Nat
    OBVIOUS
  <2> QED  BY <1>1, <2>1, <2>2
<1> QED  BY <1>1, <1>5, <1>6, <1>7, <1>8

LEMMA RangeIsTyped ==
    ASSUME NEW S, NEW s \in Seq(S)
    PROVE  Range(s) \subseteq S
BY DEF Range

\* addTargetKey makes every value the target of its key and leaves the targets
\* that were there alone.
LEMMA TargetsAdded ==
    ASSUME NEW targets \in [Keys -> Values \cup {None}], NEW vs, NEW at \in SUBSET Nat,
           \A i \in at : vs[i] \in Values, Addable(targets, vs, at)
    PROVE  /\ WithTargets(targets, vs, at) \in [Keys -> Values \cup {None}]
           /\ \A i \in at : KeyOf[vs[i]] \in Keys /\ targets[KeyOf[vs[i]]] = None
           /\ \A i \in at : WithTargets(targets, vs, at)[KeyOf[vs[i]]] = vs[i]
           /\ \A k \in Keys : targets[k] # None => WithTargets(targets, vs, at)[k] = targets[k]
           /\ \A k \in Keys : k \notin {KeyOf[vs[i]] : i \in at} => WithTargets(targets, vs, at)[k] = targets[k]
<1> DEFINE Here(k) == {i \in at : KeyOf[vs[i]] = k}
           New == WithTargets(targets, vs, at)
<1>1. \A i \in at : KeyOf[vs[i]] \in Keys /\ targets[KeyOf[vs[i]]] = None
  BY ConfigAssumption DEF Addable
<1>2. ASSUME NEW k \in Keys
      PROVE  New[k] = IF Here(k) = {} THEN targets[k] ELSE vs[CHOOSE i \in Here(k) : \A j \in Here(k) : j <= i]
  BY DEF WithTargets
<1>3. ASSUME NEW i \in at PROVE New[KeyOf[vs[i]]] = vs[i]
  <2>1. Here(KeyOf[vs[i]]) = {i}
    BY DEF Addable
  <2>2. (CHOOSE x \in {i} : \A j \in {i} : j <= x) = i
    <3>1. i <= i
      OBVIOUS
    <3> QED  BY <3>1
  <2>3. New[KeyOf[vs[i]]] = vs[CHOOSE x \in {i} : \A j \in {i} : j <= x]
    <3> HIDE DEF Here, New
    <3>1. KeyOf[vs[i]] \in Keys /\ {i} # {}
      BY <1>1
    <3> QED  BY <1>2, <2>1, <3>1
  <2> QED  BY <2>2, <2>3
<1>4. ASSUME NEW k \in Keys, k \notin {KeyOf[vs[i]] : i \in at} PROVE New[k] = targets[k]
  <2>1. Here(k) = {}
    BY <1>4
  <2> HIDE DEF Here, New
  <2> QED  BY <1>2, <2>1
<1>5. ASSUME NEW k \in Keys, targets[k] # None PROVE New[k] = targets[k]
  BY <1>1, <1>4, <1>5
<1>6. ASSUME NEW k \in Keys PROVE New[k] \in Values \cup {None}
  BY <1>3, <1>4
<1>7. New \in [Keys -> Values \cup {None}]
  BY <1>6 DEF WithTargets
<1> QED  BY <1>1, <1>3, <1>4, <1>5, <1>7

\* What a line states.
Entries(key, vs) == {[at |-> section, key |-> key, value |-> v] : v \in vs}

LEMMA EntriesAre ==
    ASSUME NEW key, NEW vs
    PROVE  /\ \A s \in Entries(key, vs) : s.at = section /\ s.key = key /\ s.value \in vs
           /\ {s.value : s \in Entries(key, vs)} = vs
<1>1. \A s \in Entries(key, vs) : s.at = section /\ s.key = key /\ s.value \in vs
  BY DEF Entries
<1>2. ASSUME NEW v \in vs PROVE \E s \in Entries(key, vs) : s.value = v
  <2>1. [at |-> section, key |-> key, value |-> v] \in Entries(key, vs)
    BY DEF Entries
  <2> QED  BY <2>1
<1> QED  BY <1>1, <1>2

LEMMA StatedElsewhere ==
    ASSUME NEW key, NEW vs, Say(key, vs), NEW table, NEW k, table # section.table \/ k # key
    PROVE  Stated(table, k)' = Stated(table, k)
BY EntriesAre DEF Say, Stated, Entries

LEMMA StatedMore ==
    ASSUME NEW key, NEW vs, Say(key, vs), NEW table, table = section.table,
           table # "top" \/ key \notin {"owner_npub", "access_rule"}
    PROVE  Stated(table, key)' = Stated(table, key) \cup Entries(key, vs)
BY EntriesAre DEF Say, Stated, Entries

LEMMA StatedAnew ==
    ASSUME NEW key, NEW vs, Say(key, vs), section.table = "top", key \in {"owner_npub", "access_rule"}
    PROVE  Stated("top", key)' = Entries(key, vs)
BY EntriesAre DEF Say, Stated, Entries

\* Nothing that the table of targets states is taken back.
LEMMA TableKept ==
    ASSUME NEW key, NEW vs, Say(key, vs), NEW t \in said, t.at.table = "targets"
    PROVE  t \in said'
BY DEF Say, Stated

-----------------------------------------------------------------------------
(* What a line that is accepted does to one part, and to no other *)

LineInv == ShapeOK /\ PhaseOK /\ ListsSaid /\ GroupsSaid /\ TargetsSaid

KeptBut(f) == DOMAIN cfg' = Fields /\ \A h \in Fields \ {f} : cfg'[h] = cfg[h]

LEMMA FieldSet ==
    ASSUME ShapeOK, NEW f \in Fields, NEW e, cfg' = [cfg EXCEPT ![f] = e]
    PROVE  KeptBut(f) /\ cfg'[f] = e
BY DEF ShapeOK, KeptBut

\* A line read in its section.
InSection == phase = "reading" /\ UNCHANGED <<phase, section, todo, admins>>

LEMMA PhaseKept ==
    ASSUME PhaseOK, InSection, cfg'.targetRules = cfg.targetRules, cfg'.serviceRules = cfg.serviceRules
    PROVE  PhaseOK'
BY DEF PhaseOK, InSection

LEMMA ListsKept ==
    ASSUME ListsSaid, NEW key, NEW vs, Say(key, vs),
           cfg'.relays = cfg.relays, cfg'.adminPubkeys = cfg.adminPubkeys,
           cfg'.owner = cfg.owner, cfg'.accessRule = cfg.accessRule,
           section.table # "top" \/ key \notin {"additional_relays", "owner_npub", "access_rule"},
           section.table # "admin" \/ key \notin {"pubkeys", "owner_npub"}
    PROVE  ListsSaid'
<1>1. /\ Stated("top", "additional_relays")' = Stated("top", "additional_relays")
      /\ Stated("top", "owner_npub")' = Stated("top", "owner_npub")
      /\ Stated("top", "access_rule")' = Stated("top", "access_rule")
      /\ Stated("admin", "pubkeys")' = Stated("admin", "pubkeys")
      /\ Stated("admin", "owner_npub")' = Stated("admin", "owner_npub")
  BY StatedElsewhere
<1> QED  BY <1>1 DEF ListsSaid

LEMMA GroupsKept ==
    ASSUME GroupsSaid, NEW key, NEW vs, Say(key, vs), cfg'.groups = cfg.groups,
           section.table # "proxy_group" \/ key \notin {"urls", "additional_access_rule"}
    PROVE  GroupsSaid'
<1>1. /\ Stated("proxy_group", "urls")' = Stated("proxy_group", "urls")
      /\ Stated("proxy_group", "additional_access_rule")' = Stated("proxy_group", "additional_access_rule")
  BY StatedElsewhere
<1> QED  BY <1>1 DEF GroupsSaid

LEMMA TargetsKept ==
    ASSUME TargetsSaid, NEW key, NEW vs, Say(key, vs), cfg'.targets = cfg.targets,
           section.table # "top" \/ key # "targets"
    PROVE  TargetsSaid'
<1>1. Stated("top", "targets")' = Stated("top", "targets")
  BY StatedElsewhere
<1> SUFFICES ASSUME NEW s \in Stated("top", "targets")
             PROVE  /\ s.value \in Values
                    /\ KeyOf[s.value] \in Keys
                    /\ \/ cfg'.targets[KeyOf[s.value]] = s.value
                       \/ \E t \in said' : t.at.table = "targets" /\ t.key = KeyOf[s.value]
  BY <1>1 DEF TargetsSaid
<1> QED  BY TableKept DEF TargetsSaid

LEMMA TargetsLine ==
    ASSUME LineInv, InSection, section.table = "top", NEW vs, NEW at \in SUBSET Nat,
           \A i \in at : vs[i] \in Values, Addable(cfg.targets, vs, at),
           cfg' = [cfg EXCEPT !.targets = WithTargets(cfg.targets, vs, at)],
           Say("targets", {vs[i] : i \in at})
    PROVE  LineInv'
<1> USE DEF LineInv
<1>1. KeptBut("targets") /\ cfg'.targets = WithTargets(cfg.targets, vs, at)
  BY FieldSet DEF Fields
<1>2. cfg.targets \in [Keys -> Values \cup {None}]
  BY DEF ShapeOK
<1>3. /\ cfg'.targets \in [Keys -> Values \cup {None}]
      /\ \A i \in at : KeyOf[vs[i]] \in Keys /\ cfg'.targets[KeyOf[vs[i]]] = vs[i]
      /\ \A k \in Keys : cfg.targets[k] # None => cfg'.targets[k] = cfg.targets[k]
  BY <1>1, <1>2, TargetsAdded
<1>4. ShapeOK'
  BY <1>1, <1>3 DEF ShapeOK, KeptBut, Fields
<1>5. PhaseOK' /\ ListsSaid' /\ GroupsSaid'
  BY <1>1, PhaseKept, ListsKept, GroupsKept DEF KeptBut, Fields
<1>6. TargetsSaid'
  <2>1. Stated("top", "targets")' = Stated("top", "targets") \cup Entries("targets", {vs[i] : i \in at})
    BY StatedMore
  <2>2. ASSUME NEW s \in Stated("top", "targets")
        PROVE  /\ s.value \in Values
               /\ KeyOf[s.value] \in Keys
               /\ \/ cfg'.targets[KeyOf[s.value]] = s.value
                  \/ \E t \in said' : t.at.table = "targets" /\ t.key = KeyOf[s.value]
    <3>1. s.value \in Values /\ KeyOf[s.value] \in Keys
      BY DEF TargetsSaid
    <3>2. CASE cfg.targets[KeyOf[s.value]] = s.value
      <4>1. s.value # None
        BY <3>1, ConfigAssumption
      <4> QED  BY <1>3, <3>1, <3>2, <4>1
    <3>3. CASE \E t \in said : t.at.table = "targets" /\ t.key = KeyOf[s.value]
      BY <3>1, <3>3, TableKept
    <3> QED  BY <3>2, <3>3 DEF TargetsSaid
  <2>3. ASSUME NEW s \in Entries("targets", {vs[i] : i \in at})
        PROVE  s.value \in Values /\ KeyOf[s.value] \in Keys /\ cfg'.targets[KeyOf[s.value]] = s.value
    <3>1. s.value \in {vs[i] : i \in at}
      BY EntriesAre
    <3>2. PICK i \in at : s.value = vs[i]
      BY <3>1
    <3> QED  BY <1>3, <3>2
  <2> QED  BY <2>1, <2>2, <2>3 DEF TargetsSaid
<1> QED  BY <1>4, <1>5, <1>6

LEMMA RelaysLine ==
    ASSUME LineInv, InSection, section.table = "top", NEW vs \in SUBSET Values,
           cfg' = [cfg EXCEPT !.relays = cfg.relays \cup vs], Say("additional_relays", vs)
    PROVE  LineInv'
<1> USE DEF LineInv
<1>1. KeptBut("relays") /\ cfg'.relays = cfg.relays \cup vs
  BY FieldSet DEF Fields
<1>2. ShapeOK'
  BY <1>1 DEF ShapeOK, KeptBut, Fields
<1>3. PhaseOK' /\ GroupsSaid' /\ TargetsSaid'
  BY <1>1, PhaseKept, GroupsKept, TargetsKept DEF KeptBut, Fields
<1>4. ListsSaid'
  <2>1. /\ Stated("top", "owner_npub")' = Stated("top", "owner_npub")
        /\ Stated("top", "access_rule")' = Stated("top", "access_rule")
        /\ Stated("admin", "pubkeys")' = Stated("admin", "pubkeys")
        /\ Stated("admin", "owner_npub")' = Stated("admin", "owner_npub")
    BY StatedElsewhere
  <2>2. Stated("top", "additional_relays")' = Stated("top", "additional_relays") \cup Entries("additional_relays", vs)
    BY StatedMore
  <2>3. {s.value : s \in Entries("additional_relays", vs)} = vs
    BY EntriesAre
  <2>4. cfg'.relays = {s.value : s \in Stated("top", "additional_relays")'}
    BY <1>1, <2>2, <2>3 DEF ListsSaid
  <2> QED  BY <1>1, <2>1, <2>4 DEF ListsSaid, KeptBut, Fields
<1> QED  BY <1>2, <1>3, <1>4

LEMMA AdminLine ==
    ASSUME LineInv, InSection, section.table = "admin", NEW vs \in SUBSET Values,
           NEW key \in {"pubkeys", "owner_npub"},
           cfg' = [cfg EXCEPT !.adminPubkeys = cfg.adminPubkeys \cup vs], Say(key, vs)
    PROVE  LineInv'
<1> USE DEF LineInv
<1>1. KeptBut("adminPubkeys") /\ cfg'.adminPubkeys = cfg.adminPubkeys \cup vs
  BY FieldSet DEF Fields
<1>2. ShapeOK'
  BY <1>1 DEF ShapeOK, KeptBut, Fields
<1>3. PhaseOK' /\ GroupsSaid' /\ TargetsSaid'
  BY <1>1, PhaseKept, GroupsKept, TargetsKept DEF KeptBut, Fields
<1>4. ListsSaid'
  <2>1. /\ Stated("top", "owner_npub")' = Stated("top", "owner_npub")
        /\ Stated("top", "access_rule")' = Stated("top", "access_rule")
        /\ Stated("top", "additional_relays")' = Stated("top", "additional_relays")
    BY StatedElsewhere
  <2>2. Stated("admin", key)' = Stated("admin", key) \cup Entries(key, vs)
    BY StatedMore
  <2>3. (Stated("admin", "pubkeys") \cup Stated("admin", "owner_npub"))'
            = (Stated("admin", "pubkeys") \cup Stated("admin", "owner_npub")) \cup Entries(key, vs)
    <3>1. CASE key = "pubkeys"
      <4>1. Stated("admin", "owner_npub")' = Stated("admin", "owner_npub")
        BY <3>1, StatedElsewhere
      <4> QED  BY <2>2, <3>1, <4>1
    <3>2. CASE key = "owner_npub"
      <4>1. Stated("admin", "pubkeys")' = Stated("admin", "pubkeys")
        BY <3>2, StatedElsewhere
      <4> QED  BY <2>2, <3>2, <4>1
    <3> QED  BY <3>1, <3>2
  <2>4. {s.value : s \in Entries(key, vs)} = vs
    BY EntriesAre
  <2>5. cfg'.adminPubkeys = {s.value : s \in (Stated("admin", "pubkeys") \cup Stated("admin", "owner_npub"))'}
    BY <1>1, <2>3, <2>4 DEF ListsSaid
  <2> QED  BY <1>1, <2>1, <2>5 DEF ListsSaid, KeptBut, Fields
<1> QED  BY <1>2, <1>3, <1>4

LEMMA OwnerLine ==
    ASSUME LineInv, InSection, section.table = "top", NEW v \in Values,
           NEW owner \in Npubs \cup {None}, v \in {owner, ""},
           cfg' = [cfg EXCEPT !.owner = owner], NEW vs, \A x \in vs : x = v, Say("owner_npub", vs)
    PROVE  LineInv'
<1> USE DEF LineInv
<1>1. KeptBut("owner") /\ cfg'.owner = owner
  BY FieldSet DEF Fields
<1>2. ShapeOK'
  BY <1>1 DEF ShapeOK, KeptBut, Fields
<1>3. PhaseOK' /\ GroupsSaid' /\ TargetsSaid'
  BY <1>1, PhaseKept, GroupsKept, TargetsKept DEF KeptBut, Fields
<1>4. ListsSaid'
  <2>1. Stated("top", "additional_relays")' = Stated("top", "additional_relays")
    <3>1. "additional_relays" # "owner_npub"
      OBVIOUS
    <3> QED  BY <3>1, StatedElsewhere
  <2>5. Stated("top", "access_rule")' = Stated("top", "access_rule")
    <3>1. "access_rule" # "owner_npub"
      OBVIOUS
    <3> QED  BY <3>1, StatedElsewhere
  <2>6. /\ Stated("admin", "pubkeys")' = Stated("admin", "pubkeys")
        /\ Stated("admin", "owner_npub")' = Stated("admin", "owner_npub")
    <3>1. "admin" # section.table
      OBVIOUS
    <3> QED  BY <3>1, StatedElsewhere
  <2>2. Stated("top", "owner_npub")' = Entries("owner_npub", vs)
    BY StatedAnew
  <2>3. \A s \in Entries("owner_npub", vs) : s.value = v
    BY EntriesAre
  <2>4. \A s \in Stated("top", "owner_npub")' : s.value \in {cfg'.owner, ""} /\ s.value \in Values
    BY <1>1, <2>2, <2>3
  <2> QED  BY <1>1, <2>1, <2>4, <2>5, <2>6 DEF ListsSaid, KeptBut, Fields
<1> QED  BY <1>2, <1>3, <1>4

LEMMA AccessRuleLine ==
    ASSUME LineInv, InSection, section.table = "top", NEW v \in GlobalAccessRules \cup {None},
           cfg' = [cfg EXCEPT !.accessRule = v], Say("access_rule", {v} \ {None})
    PROVE  LineInv'
<1> USE DEF LineInv
<1>1. KeptBut("accessRule") /\ cfg'.accessRule = v
  BY FieldSet DEF Fields
<1>2. ShapeOK'
  BY <1>1 DEF ShapeOK, KeptBut, Fields
<1>3. PhaseOK' /\ GroupsSaid' /\ TargetsSaid'
  BY <1>1, PhaseKept, GroupsKept, TargetsKept DEF KeptBut, Fields
<1>4. ListsSaid'
  <2>1. /\ Stated("top", "additional_relays")' = Stated("top", "additional_relays")
        /\ Stated("top", "owner_npub")' = Stated("top", "owner_npub")
        /\ Stated("admin", "pubkeys")' = Stated("admin", "pubkeys")
        /\ Stated("admin", "owner_npub")' = Stated("admin", "owner_npub")
    BY StatedElsewhere
  <2>2. Stated("top", "access_rule")' = Entries("access_rule", {v} \ {None})
    BY StatedAnew
  <2>3. {s.value : s \in Entries("access_rule", {v} \ {None})} = {v} \ {None}
    BY EntriesAre
  <2>4. {s.value : s \in Stated("top", "access_rule")'} = {cfg'.accessRule} \ {None}
    BY <1>1, <2>2, <2>3
  <2> QED  BY <1>1, <2>1, <2>4 DEF ListsSaid, KeptBut, Fields
<1> QED  BY <1>2, <1>3, <1>4

\* The table of targets may name another target for a key.
LEMMA TargetTableLine ==
    ASSUME LineInv, InSection, section.table = "targets", NEW key \in Keys, NEW v \in Values,
           cfg' = [cfg EXCEPT !.targets[key] = v], Say(key, {v})
    PROVE  LineInv'
<1> USE DEF LineInv
<1>1. KeptBut("targets") /\ cfg'.targets = [cfg.targets EXCEPT ![key] = v]
  <2>1. cfg' = [cfg EXCEPT !["targets"] = [cfg.targets EXCEPT ![key] = v]]
    OBVIOUS
  <2> QED  BY <2>1, FieldSet DEF Fields
<1>2. ShapeOK'
  BY <1>1 DEF ShapeOK, KeptBut, Fields
<1>3. PhaseOK' /\ ListsSaid' /\ GroupsSaid'
  BY <1>1, PhaseKept, ListsKept, GroupsKept DEF KeptBut, Fields
<1>4. TargetsSaid'
  <2>1. Stated("top", "targets")' = Stated("top", "targets")
    BY StatedElsewhere
  <2>2. \E t \in said' : t.at.table = "targets" /\ t.key = key
    <3>1. [at |-> section, key |-> key, value |-> v] \in said'
      BY DEF Say
    <3> QED  BY <3>1
  <2>3. ASSUME NEW s \in Stated("top", "targets")
        PROVE  /\ s.value \in Values
               /\ KeyOf[s.value] \in Keys
               /\ \/ cfg'.targets[KeyOf[s.value]] = s.value
                  \/ \E t \in said' : t.at.table = "targets" /\ t.key = KeyOf[s.value]
    <3>1. s.value \in Values /\ KeyOf[s.value] \in Keys
      BY DEF TargetsSaid
    <3>2. CASE KeyOf[s.value] = key
      BY <2>2, <3>1, <3>2
    <3>3. CASE KeyOf[s.value] # key
      <4>1. cfg'.targets[KeyOf[s.value]] = cfg.targets[KeyOf[s.value]]
        BY <1>1, <3>1, <3>3 DEF ShapeOK
      <4> QED  BY <3>1, <4>1, TableKept DEF TargetsSaid
    <3> QED  BY <3>2, <3>3
  <2> QED  BY <2>1, <2>3 DEF TargetsSaid
<1> QED  BY <1>2, <1>3, <1>4

\* Wikis are no part of the invariant.
LEMMA WikiLine ==
    ASSUME LineInv, InSection, section.table = "wiki", NEW key, NEW vs, Say(key, vs),
           DOMAIN cfg' = Fields, \A f \in Fields \ {"wiki", "wikis"} : cfg'[f] = cfg[f]
    PROVE  LineInv'
<1> USE DEF LineInv
<1>1. ShapeOK'
  BY DEF ShapeOK, Fields
<1>2. PhaseOK' /\ ListsSaid' /\ GroupsSaid' /\ TargetsSaid'
  BY PhaseKept, ListsKept, GroupsKept, TargetsKept DEF Fields
<1> QED  BY <1>1, <1>2

\* The groups after a line of a list of one of them.
LongerGroup(f, vs) ==
    [cfg.groups EXCEPT ![section.name] =
        [cfg.groups[section.name] EXCEPT ![f] = cfg.groups[section.name][f] \o vs]]

\* The list is longer by what the line holds, the other groups are as before.
LEMMA GroupField ==
    ASSUME ShapeOK, section.name \in Groups, NEW f \in {"urls", "additional"}, NEW vs \in Seq(Values)
    PROVE  /\ LongerGroup(f, vs) \in [Groups -> [urls : Seq(Values), additional : Seq(Values)]]
           /\ \A g \in Groups \ {section.name} : LongerGroup(f, vs)[g] = cfg.groups[g]
           /\ LongerGroup(f, vs)[section.name][f] = cfg.groups[section.name][f] \o vs
           /\ \A h \in {"urls", "additional"} \ {f} : LongerGroup(f, vs)[section.name][h] = cfg.groups[section.name][h]
<1> DEFINE G == [urls : Seq(Values), additional : Seq(Values)]
           old == cfg.groups[section.name]
           new == [old EXCEPT ![f] = old[f] \o vs]
<1>1. cfg.groups \in [Groups -> G] /\ old \in G
  BY DEF ShapeOK
<1>2. old[f] \in Seq(Values)
  BY <1>1
<1>3. old[f] \o vs \in Seq(Values)
  BY <1>2, RangeOfConcat
<1>4. new \in G /\ new[f] = old[f] \o vs /\ \A h \in {"urls", "additional"} \ {f} : new[h] = old[h]
  BY <1>1, <1>3
<1>5. LongerGroup(f, vs) = [cfg.groups EXCEPT ![section.name] = new]
  BY DEF LongerGroup
<1> HIDE DEF G, new, old
<1>6. /\ LongerGroup(f, vs) \in [Groups -> G]
      /\ LongerGroup(f, vs)[section.name] = new
      /\ \A g \in Groups \ {section.name} : LongerGroup(f, vs)[g] = cfg.groups[g]
  BY <1>1, <1>4, <1>5
<1> QED  BY <1>4, <1>6 DEF G, old

LEMMA UrlsLine ==
    ASSUME LineInv, InSection, section.table = "proxy_group", NEW vs \in Seq(Values),
           cfg' = [cfg EXCEPT !.groups[section.name].urls = @ \o vs], Say("urls", Range(vs))
    PROVE  LineInv'
<1> USE DEF LineInv
<1> DEFINE groups == LongerGroup("urls", vs)
<1>1. KeptBut("groups") /\ cfg'.groups = groups
  <2>1. cfg' = [cfg EXCEPT !["groups"] = groups]
    BY DEF LongerGroup
  <2> QED  BY <2>1, FieldSet DEF Fields
<1>2. section.name \in Groups
  BY DEF PhaseOK
<1> HIDE DEF groups
<1>3. /\ groups \in [Groups -> [urls : Seq(Values), additional : Seq(Values)]]
      /\ \A g \in Groups \ {section.name} : groups[g] = cfg.groups[g]
      /\ groups[section.name].urls = cfg.groups[section.name].urls \o vs
      /\ groups[section.name].additional = cfg.groups[section.name].additional
  <2>1. "urls" \in {"urls", "additional"} /\ "additional" \in {"urls", "additional"} \ {"urls"}
    OBVIOUS
  <2> QED  BY <1>2, <2>1, GroupField DEF groups
<1>4. ShapeOK'
  BY <1>1, <1>3 DEF ShapeOK, KeptBut, Fields
<1>5. PhaseOK' /\ ListsSaid' /\ TargetsSaid'
  BY <1>1, PhaseKept, ListsKept, TargetsKept DEF KeptBut, Fields
<1>6. GroupsSaid'
  <2> DEFINE Old == Stated("proxy_group", "urls")
             New == Entries("urls", Range(vs))
  <2>1. Stated("proxy_group", "urls")' = Old \cup New
    BY StatedMore
  <2>2. Stated("proxy_group", "additional_access_rule")' = Stated("proxy_group", "additional_access_rule")
    BY StatedElsewhere
  <2>3. \A s \in New : s.at.name = section.name /\ s.value \in Values
    BY EntriesAre, RangeIsTyped
  <2>4. {s.value : s \in New} = Range(vs)
    BY EntriesAre
  <2> HIDE DEF Old, New
  <2>5. \A s \in Old \cup New : s.at.name \in Groups /\ s.value \in Values
    BY <1>2, <2>3 DEF GroupsSaid, Old
  <2>6. ASSUME NEW g \in Groups
        PROVE  /\ Range(groups[g].urls) = {s.value : s \in {x \in Old \cup New : x.at.name = g}}
               /\ groups[g].additional = cfg.groups[g].additional
    <3>1. Range(cfg.groups[g].urls) = {s.value : s \in {x \in Old : x.at.name = g}}
      BY DEF GroupsSaid, Old
    <3>2. CASE g = section.name
      <4>0. cfg.groups[g].urls \in Seq(Values)
        BY DEF ShapeOK
      <4>1. Range(groups[g].urls) = Range(cfg.groups[g].urls) \cup Range(vs)
        <5>1. groups[g].urls = cfg.groups[g].urls \o vs
          BY <1>3, <3>2
        <5>2. Range(cfg.groups[g].urls \o vs) = Range(cfg.groups[g].urls) \cup Range(vs)
          BY <4>0, RangeOfConcat
        <5> QED  BY <5>1, <5>2
      <4>2. {x \in Old \cup New : x.at.name = g} = {x \in Old : x.at.name = g} \cup New
        BY <2>3, <3>2
      <4>3. {s.value : s \in {x \in Old : x.at.name = g} \cup New}
                = {s.value : s \in {x \in Old : x.at.name = g}} \cup {s.value : s \in New}
        OBVIOUS
      <4> QED  BY <1>3, <2>4, <3>1, <3>2, <4>1, <4>2, <4>3
    <3>3. CASE g # section.name
      <4>1. {x \in Old \cup New : x.at.name = g} = {x \in Old : x.at.name = g}
        BY <2>3, <3>3
      <4> QED  BY <1>3, <3>1, <3>3, <4>1
    <3> QED  BY <3>2, <3>3
  <2> QED  BY <1>1, <2>1, <2>2, <2>5, <2>6 DEF GroupsSaid
<1> QED  BY <1>4, <1>5, <1>6

LEMMA AdditionalLine ==
    ASSUME LineInv, InSection, section.table = "proxy_group", NEW vs \in Seq(Values),
           cfg' = [cfg EXCEPT !.groups[section.name].additional = @ \o vs],
           Say("additional_access_rule", Range(vs))
    PROVE  LineInv'
<1> USE DEF LineInv
<1> DEFINE groups == LongerGroup("additional", vs)
<1>1. KeptBut("groups") /\ cfg'.groups = groups
  <2>1. cfg' = [cfg EXCEPT !["groups"] = groups]
    BY DEF LongerGroup
  <2> QED  BY <2>1, FieldSet DEF Fields
<1>2. section.name \in Groups
  BY DEF PhaseOK
<1> HIDE DEF groups
<1>3. /\ groups \in [Groups -> [urls : Seq(Values), additional : Seq(Values)]]
      /\ \A g \in Groups \ {section.name} : groups[g] = cfg.groups[g]
      /\ groups[section.name].additional = cfg.groups[section.name].additional \o vs
      /\ groups[section.name].urls = cfg.groups[section.name].urls
  <2>1. "additional" \in {"urls", "additional"} /\ "urls" \in {"urls", "additional"} \ {"additional"}
    OBVIOUS
  <2> QED  BY <1>2, <2>1, GroupField DEF groups
<1>4. ShapeOK'
  BY <1>1, <1>3 DEF ShapeOK, KeptBut, Fields
<1>5. PhaseOK' /\ ListsSaid' /\ TargetsSaid'
  BY <1>1, PhaseKept, ListsKept, TargetsKept DEF KeptBut, Fields
<1>6. GroupsSaid'
  <2> DEFINE Old == Stated("proxy_group", "additional_access_rule")
             New == Entries("additional_access_rule", Range(vs))
  <2>1. Stated("proxy_group", "additional_access_rule")' = Old \cup New
    BY StatedMore
  <2>2. Stated("proxy_group", "urls")' = Stated("proxy_group", "urls")
    BY StatedElsewhere
  <2>3. \A s \in New : s.at.name = section.name
    BY EntriesAre
  <2>4. vs # <<>> <=> New # {}
    <3>1. {s.value : s \in New} = Range(vs)
      BY EntriesAre
    <3>2. Range(vs) = {} <=> vs = <<>>
      BY DEF Range
    <3> QED  BY <3>1, <3>2
  <2> HIDE DEF Old, New
  <2>5. ASSUME NEW g \in Groups
        PROVE  /\ groups[g].additional # <<>> <=> (\E s \in Old \cup New : s.at.name = g)
               /\ groups[g].urls = cfg.groups[g].urls
    <3>1. cfg.groups[g].additional # <<>> <=> (\E s \in Old : s.at.name = g)
      BY DEF GroupsSaid, Old
    <3>2. CASE g = section.name
      <4>1. cfg.groups[g].additional \in Seq(Values)
        BY DEF ShapeOK
      <4>2. groups[g].additional = <<>> <=> cfg.groups[g].additional = <<>> /\ vs = <<>>
        BY <1>3, <3>2, <4>1, RangeOfConcat
      <4> QED  BY <1>3, <2>3, <2>4, <3>1, <3>2, <4>2
    <3>3. CASE g # section.name
      BY <1>3, <2>3, <3>1, <3>3
    <3> QED  BY <3>2, <3>3
  <2> QED  BY <1>1, <2>1, <2>2, <2>5 DEF GroupsSaid
<1> QED  BY <1>4, <1>5, <1>6

-----------------------------------------------------------------------------
(* The lines of the file *)

\* A line that is accepted in its section.
Accepts(next, key, vs) == InSection /\ cfg' \in next /\ Say(key, vs)

LEMMA ArrayAccepted ==
    ASSUME LineInv, NEW key, NEW vs \in Seq(Values),
           Accepts(ApplyStringArray(cfg, section, key, vs), key, Range(vs))
    PROVE  LineInv'
<1> USE DEF Accepts
<1>1. Range(vs) \in SUBSET Values /\ Range(vs) = {vs[i] : i \in DOMAIN vs} /\ DOMAIN vs \in SUBSET Nat
  BY DEF Range
<1>2. CASE section.table = "top" /\ key = "targets" /\ Addable(cfg.targets, vs, DOMAIN vs)
  <2>1. cfg' = [cfg EXCEPT !.targets = WithTargets(cfg.targets, vs, DOMAIN vs)]
    BY <1>2 DEF ApplyStringArray
  <2> QED  BY <1>1, <1>2, <2>1, TargetsLine
<1>3. CASE section.table = "top" /\ key = "additional_relays"
  <2>1. cfg' = [cfg EXCEPT !.relays = cfg.relays \cup Range(vs)]
    BY <1>3 DEF ApplyStringArray
  <2> QED  BY <1>1, <1>3, <2>1, RelaysLine
<1>4. CASE section.table = "admin" /\ key \in {"pubkeys", "owner_npub"}
  <2>1. cfg' = [cfg EXCEPT !.adminPubkeys = cfg.adminPubkeys \cup Range(vs)]
    BY <1>4 DEF ApplyStringArray
  <2> QED  BY <1>1, <1>4, <2>1, AdminLine
<1>5. CASE section.table = "proxy_group" /\ key = "urls"
  <2>1. cfg' = [cfg EXCEPT !.groups[section.name].urls = @ \o vs]
    BY <1>5 DEF ApplyStringArray
  <2> QED  BY <1>5, <2>1, UrlsLine
<1>6. CASE section.table = "proxy_group" /\ key = "additional_access_rule"
  <2>1. cfg' = [cfg EXCEPT !.groups[section.name].additional = @ \o vs]
    BY <1>6 DEF ApplyStringArray
  <2> QED  BY <1>6, <2>1, AdditionalLine
<1>7. CASE section.table = "wiki" /\ key = "audience"
  <2>1. cfg' = [cfg EXCEPT !.wikis = @ \cup {section.name}]
    BY <1>7 DEF ApplyStringArray
  <2>2. DOMAIN cfg' = Fields /\ \A f \in Fields \ {"wiki", "wikis"} : cfg'[f] = cfg[f]
    BY <2>1 DEF LineInv, ShapeOK, Fields
  <2> QED  BY <1>7, <2>2, WikiLine
<1>8. ~\/ section.table = "top" /\ key = "targets" /\ Addable(cfg.targets, vs, DOMAIN vs)
       \/ section.table = "top" /\ key = "additional_relays"
       \/ section.table = "admin" /\ key \in {"pubkeys", "owner_npub"}
       \/ section.table = "proxy_group" /\ key = "urls"
       \/ section.table = "proxy_group" /\ key = "additional_access_rule"
       \/ section.table = "wiki" /\ key = "audience"
      => FALSE
  BY DEF ApplyStringArray
<1> QED  BY <1>2, <1>3, <1>4, <1>5, <1>6, <1>7, <1>8

LEMMA ValueAccepted ==
    ASSUME LineInv, NEW key \in Keys, NEW v \in Values,
           Accepts(ApplyStringValue(cfg, section, key, v), key, {v})
    PROVE  LineInv'
<1> USE DEF Accepts
<1>1. CASE section.table = "top" /\ key = "owner_npub" /\ v \in Npubs \cup {""}
  <2>1. PICK owner \in Npubs \cup {None} : v \in {owner, ""} /\ owner = IF v = "" THEN None ELSE v
    BY <1>1
  <2>2. cfg' = [cfg EXCEPT !.owner = owner]
    BY <1>1, <2>1 DEF ApplyStringValue
  <2>3. PICK vs : vs = {v}
    OBVIOUS
  <2>4. Say("owner_npub", vs) /\ \A x \in vs : x = v
    BY <1>1, <2>3
  <2> QED  BY <1>1, <2>1, <2>2, <2>4, OwnerLine
<1>2. CASE section.table = "top" /\ key = "targets" /\ Addable(cfg.targets, <<v>>, {1})
  <2>1. cfg' = [cfg EXCEPT !.targets = WithTargets(cfg.targets, <<v>>, {1})]
    BY <1>2 DEF ApplyStringValue
  <2>2. {v} = {<<v>>[i] : i \in {1}} /\ \A i \in {1} : <<v>>[i] \in Values
    OBVIOUS
  <2>3. {1} \in SUBSET Nat
    OBVIOUS
  <2>4. Say("targets", {<<v>>[i] : i \in {1}})
    BY <1>2, <2>2
  <2> QED  BY <1>2, <2>1, <2>2, <2>3, <2>4, TargetsLine
<1>3. CASE section.table = "targets"
  <2>1. cfg' = [cfg EXCEPT !.targets[key] = v]
    BY <1>3 DEF ApplyStringValue
  <2> QED  BY <1>3, <2>1, TargetTableLine
<1>4. CASE section.table = "wiki" /\ key \in WikiKeys \cup WikiTexts
  <2>1. \/ cfg' = [cfg EXCEPT !.wiki[section.name][key] = v, !.wikis = @ \cup {section.name}]
        \/ cfg' = [cfg EXCEPT !.wikis = @ \cup {section.name}]
    BY <1>4 DEF ApplyStringValue, WikiKeys, WikiTexts
  <2>2. DOMAIN cfg' = Fields /\ \A f \in Fields \ {"wiki", "wikis"} : cfg'[f] = cfg[f]
    BY <2>1 DEF LineInv, ShapeOK, Fields
  <2> QED  BY <1>4, <2>2, WikiLine
<1>5. ~\/ section.table = "top" /\ key = "owner_npub" /\ v \in Npubs \cup {""}
       \/ section.table = "top" /\ key = "targets" /\ Addable(cfg.targets, <<v>>, {1})
       \/ section.table = "targets"
       \/ section.table = "wiki" /\ key \in WikiKeys \cup WikiTexts
      => FALSE
  BY DEF ApplyStringValue
<1> QED  BY <1>1, <1>2, <1>3, <1>4, <1>5

LEMMA InlineAccepted ==
    ASSUME LineInv, NEW key, NEW v \in GlobalAccessRules \cup {None},
           Accepts(ApplyStringTable(cfg, section, key, v), key, {v} \ {None})
    PROVE  LineInv'
<1>1. section.table = "top" /\ key = "access_rule" /\ cfg' = [cfg EXCEPT !.accessRule = v]
  BY DEF Accepts, ApplyStringTable
<1> QED  BY <1>1, AccessRuleLine DEF Accepts

-----------------------------------------------------------------------------
(* The steps *)

LEMMA ConfigInitially == Init => ConfigInv
<1> SUFFICES ASSUME Init PROVE ConfigInv
  OBVIOUS
<1> USE DEF Init
<1>1. ShapeOK
  <2>1. DOMAIN cfg = Fields
    BY DEF Fields
  <2>2. cfg.targets = [k \in Keys |-> None] /\ cfg.groups = [g \in Groups |-> [urls |-> <<>>, additional |-> <<>>]]
    OBVIOUS
  <2>3. cfg.groups \in [Groups -> [urls : Seq(Values), additional : Seq(Values)]]
    <3>1. [urls |-> <<>>, additional |-> <<>>] \in [urls : Seq(Values), additional : Seq(Values)]
      OBVIOUS
    <3> QED  BY <2>2, <3>1
  <2> QED  BY <2>1, <2>2, <2>3 DEF ShapeOK
<1>2. PhaseOK
  BY DEF PhaseOK
<1>3. \A table, key : Stated(table, key) = {}
  BY DEF Stated
<1>4. ListsSaid
  BY <1>3 DEF ListsSaid
<1>5. GroupsSaid
  <2>1. \A g \in Groups : cfg.groups[g].urls = <<>> /\ cfg.groups[g].additional = <<>>
    OBVIOUS
  <2>2. Range(<<>>) = {}
    BY DEF Range
  <2> QED  BY <1>3, <2>1, <2>2 DEF GroupsSaid
<1>6. TargetsSaid
  BY <1>3 DEF TargetsSaid
<1>7. RulesMade /\ TargetsMade /\ ServicesMade
  BY DEF RulesMade, TargetsMade, ServicesMade
<1> QED  BY <1>1, <1>2, <1>4, <1>5, <1>6, <1>7 DEF ConfigInv

\* What is not looked at again stays as it is.
LEMMA RejectStep ==
    ASSUME ConfigInv, Reject
    PROVE  ConfigInv'
<1> USE DEF ConfigInv, Reject
<1>1. ShapeOK' /\ PhaseOK'
  BY DEF ShapeOK, PhaseOK
<1>2. \A table, key : Stated(table, key)' = Stated(table, key)
  BY DEF Stated
<1>3. ListsSaid' /\ GroupsSaid' /\ TargetsSaid'
  BY <1>2 DEF ListsSaid, GroupsSaid, TargetsSaid
<1>4. RulesMade' /\ TargetsMade' /\ ServicesMade'
  BY DEF RulesMade, TargetsMade, ServicesMade
<1> QED  BY <1>1, <1>3, <1>4

LEMMA StutteringStep ==
    ASSUME ConfigInv, UNCHANGED <<phase, section, cfg, todo, admins, said>>
    PROVE  ConfigInv'
<1> USE DEF ConfigInv
<1>1. ShapeOK' /\ PhaseOK'
  BY DEF ShapeOK, PhaseOK, GlobalRules
<1>2. \A table, key : Stated(table, key)' = Stated(table, key)
  BY DEF Stated
<1>3. ListsSaid' /\ GroupsSaid' /\ TargetsSaid'
  BY <1>2 DEF ListsSaid, GroupsSaid, TargetsSaid
<1>4. /\ GlobalRules(cfg)' = GlobalRules(cfg) /\ GlobalRuleOK(cfg)' = GlobalRuleOK(cfg)
      /\ TrimmedRelays(cfg)' = TrimmedRelays(cfg) /\ Applied' = Applied
      /\ \A g : Additional(cfg, g)' = Additional(cfg, g) /\ ListedBy(cfg, g)' = ListedBy(cfg, g)
  BY DEF GlobalRules, GlobalRuleOK, TrimmedRelays, Applied, Additional, ListedBy
<1>5. RulesMade'
  BY <1>4 DEF RulesMade
<1>6. TargetsMade'
  BY <1>4 DEF TargetsMade
<1>7. ServicesMade'
  BY <1>4 DEF ServicesMade
<1> QED  BY <1>1, <1>3, <1>5, <1>6, <1>7

LEMMA TableStep ==
    ASSUME ConfigInv, phase = "reading", NEW l \in Lines, ReadTable(l)
    PROVE  ConfigInv'
<1> USE DEF ConfigInv, ReadTable
<1>1. ShapeOK' /\ PhaseOK'
  BY ConfigAssumption DEF ShapeOK, PhaseOK
<1>2. \A table, key : Stated(table, key)' = Stated(table, key)
  BY DEF Stated
<1>3. ListsSaid' /\ GroupsSaid' /\ TargetsSaid'
  BY <1>2 DEF ListsSaid, GroupsSaid, TargetsSaid
<1>4. RulesMade' /\ TargetsMade' /\ ServicesMade'
  BY DEF RulesMade, TargetsMade, ServicesMade
<1> QED  BY <1>1, <1>3, <1>4

LEMMA ApplyStep ==
    ASSUME ConfigInv, phase = "reading", NEW next, NEW key, NEW vs, NEW rest, Apply(next, key, vs, rest),
           Accepts(next, key, vs) => LineInv'
    PROVE  ConfigInv'
<1>1. CASE Reject
  BY <1>1, RejectStep
<1>2. CASE cfg' \in next /\ Say(key, vs) /\ UNCHANGED <<phase, section, todo, admins>>
  <2>1. LineInv'
    BY <1>2 DEF Accepts, InSection
  <2>2. RulesMade' /\ TargetsMade' /\ ServicesMade'
    BY <1>2 DEF RulesMade, TargetsMade, ServicesMade
  <2> QED  BY <2>1, <2>2 DEF ConfigInv, LineInv
<1> QED  BY <1>1, <1>2 DEF Apply

LEMMA ReadLineStep ==
    ASSUME ConfigInv, NEW l \in Lines, ReadLine(l)
    PROVE  ConfigInv'
<1>1. LineInv /\ phase = "reading"
  BY DEF ConfigInv, LineInv, ReadLine
<1>2. CASE Skip(l)
  BY <1>2, StutteringStep DEF Skip
<1>3. CASE ReadItems(l)
  <2>1. CASE l.kind = "items"
    <3>1. l.values \in Seq(Values)
      BY <2>1, ConfigAssumption
    <3>2. PICK rest : Apply(ApplyStringArray(cfg, section, arrayKey, l.values), arrayKey, Range(l.values), rest)
      BY <1>3, <2>1 DEF ReadItems
    <3> QED  BY <1>1, <3>1, <3>2, ArrayAccepted, ApplyStep
  <2>2. CASE l.kind # "items"
    BY <1>3, <2>2, RejectStep DEF ReadItems
  <2> QED  BY <2>1, <2>2
<1>4. CASE ReadTable(l)
  BY <1>1, <1>4, TableStep
<1>5. CASE ReadArray(l)
  <2>1. l.values \in Seq(Values)
    BY <1>5, ConfigAssumption DEF ReadArray
  <2>2. PICK rest : Apply(ApplyStringArray(cfg, section, l.key, l.values), l.key, Range(l.values), rest)
    BY <1>5 DEF ReadArray
  <2> QED  BY <1>1, <2>1, <2>2, ArrayAccepted, ApplyStep
<1>6. CASE ReadInline(l)
  <2>1. l.value \in GlobalAccessRules \cup {None}
    BY <1>6, ConfigAssumption DEF ReadInline
  <2>2. Apply(ApplyStringTable(cfg, section, l.key, l.value), l.key, {l.value} \ {None}, None)
    BY <1>6 DEF ReadInline
  <2>3. Accepts(ApplyStringTable(cfg, section, l.key, l.value), l.key, {l.value} \ {None}) => LineInv'
    BY <1>1, <2>1, InlineAccepted
  <2> QED  BY <1>1, <2>2, <2>3, ApplyStep
<1>7. CASE ReadValue(l)
  <2>1. l.key \in Keys /\ l.value \in Values
    BY <1>7, ConfigAssumption DEF ReadValue
  <2>2. Apply(ApplyStringValue(cfg, section, l.key, l.value), l.key, {l.value}, None)
    BY <1>7 DEF ReadValue
  <2>3. Accepts(ApplyStringValue(cfg, section, l.key, l.value), l.key, {l.value}) => LineInv'
    BY <1>1, <2>1, ValueAccepted
  <2> QED  BY <1>1, <2>2, <2>3, ApplyStep
<1>8. CASE ReadBad(l)
  BY <1>8, RejectStep DEF ReadBad
<1> QED  BY <1>2, <1>3, <1>4, <1>5, <1>6, <1>7, <1>8 DEF ReadLine

\* The configuration said is left alone by the steps that follow the reading.
SaysTheSame ==
    /\ DOMAIN cfg' = Fields
    /\ \A f \in {"groups", "adminPubkeys", "owner", "relays", "accessRule"} : cfg'[f] = cfg[f]
    /\ UNCHANGED <<section, said>>

LEMMA SaysTheSameMeans ==
    ASSUME SaysTheSame
    PROVE  /\ \A table, key : Stated(table, key)' = Stated(table, key)
           /\ GlobalRules(cfg)' = GlobalRules(cfg)
           /\ GlobalRuleOK(cfg)' = GlobalRuleOK(cfg)
           /\ TrimmedRelays(cfg)' = TrimmedRelays(cfg)
           /\ \A g : Additional(cfg, g)' = Additional(cfg, g)
           /\ \A g : ListedBy(cfg, g)' = ListedBy(cfg, g)
           /\ ListsSaid => ListsSaid'
           /\ GroupsSaid => GroupsSaid'
<1> USE DEF SaysTheSame
<1>1. \A table, key : Stated(table, key)' = Stated(table, key)
  BY DEF Stated
<1>2. /\ cfg'.groups = cfg.groups /\ cfg'.adminPubkeys = cfg.adminPubkeys /\ cfg'.owner = cfg.owner
      /\ cfg'.relays = cfg.relays /\ cfg'.accessRule = cfg.accessRule
  OBVIOUS
<1>3. /\ GlobalRules(cfg)' = GlobalRules(cfg)
      /\ GlobalRuleOK(cfg)' = GlobalRuleOK(cfg)
      /\ TrimmedRelays(cfg)' = TrimmedRelays(cfg)
  BY <1>2 DEF GlobalRules, GlobalRuleOK, TrimmedRelays
<1>4. /\ \A g : Additional(cfg, g)' = Additional(cfg, g)
      /\ \A g : ListedBy(cfg, g)' = ListedBy(cfg, g)
  BY <1>2 DEF Additional, ListedBy
<1>5. ListsSaid => ListsSaid'
  BY <1>1, <1>2 DEF ListsSaid
<1>6. GroupsSaid => GroupsSaid'
  BY <1>1, <1>2 DEF GroupsSaid
<1> QED  BY <1>1, <1>3, <1>4, <1>5, <1>6

LEMMA EndOfFileStep ==
    ASSUME ConfigInv, EndOfFile
    PROVE  ConfigInv'
<1>1. CASE Reject
  BY <1>1, RejectStep
<1>2. CASE /\ phase = "reading" /\ GlobalRuleOK(cfg) /\ phase' = "groups"
           /\ cfg' = WithGlobalRule(cfg)
           /\ UNCHANGED <<section, arrayKey, todo, admins, said>>
  <2> DEFINE made == [r \in RuleNames |->
                        IF r \in GlobalRules(cfg)
                        THEN [type |-> "nip05", of |-> cfg.accessRule.domain, relays |-> TrimmedRelays(cfg)]
                        ELSE cfg.rules[r]]
  <2> USE DEF ConfigInv
  <2>1. KeptBut("rules") /\ cfg'.rules = made
    <3>1. cfg' = [cfg EXCEPT !["rules"] = made]
      BY <1>2 DEF WithGlobalRule
    <3> QED  BY <3>1, FieldSet DEF Fields
  <2>2. SaysTheSame
    BY <1>2, <2>1 DEF SaysTheSame, KeptBut, Fields
  <2>3. ShapeOK'
    BY <2>1 DEF ShapeOK, KeptBut, Fields
  <2>4. PhaseOK'
    BY <1>2 DEF PhaseOK
  <2>5. ListsSaid' /\ GroupsSaid'
    BY <2>2, SaysTheSameMeans
  <2>6. TargetsSaid'
    <3>1. cfg'.targets = cfg.targets /\ said' = said /\ Stated("top", "targets")' = Stated("top", "targets")
      BY <1>2, <2>1, <2>2, SaysTheSameMeans DEF KeptBut, Fields
    <3> QED  BY <3>1 DEF TargetsSaid
  <2>7. Applied' = {}
    BY <1>2 DEF PhaseOK, Applied
  <2>8. RulesMade'
    <3>1. GlobalRules(cfg) \subseteq RuleNames
      BY DEF GlobalRules, RuleNames
    <3>2. \A r \in GlobalRules(cfg) :
             cfg'.rules[r] = [type |-> "nip05", of |-> cfg.accessRule.domain, relays |-> TrimmedRelays(cfg)]
      BY <2>1, <3>1
    <3>3. cfg'.accessRule = cfg.accessRule
      BY <2>2 DEF SaysTheSame
    <3> QED  BY <1>2, <2>2, <2>7, <3>2, <3>3, SaysTheSameMeans DEF RulesMade
  <2>9. /\ \A k \in Keys : cfg'.targetRules[k] = {}
        /\ \A s \in Services : cfg'.serviceRules[s] = {}
    BY <1>2, <2>1 DEF PhaseOK, KeptBut, Fields
  <2>10. TargetsMade'
    BY <2>7, <2>9 DEF TargetsMade
  <2>11. ServicesMade'
    BY <2>7, <2>9 DEF ServicesMade
  <2> QED  BY <2>3, <2>4, <2>5, <2>6, <2>8, <2>10, <2>11
<1> QED  BY <1>1, <1>2 DEF EndOfFile

LEMMA LoadStep ==
    ASSUME ConfigInv, NEW ok \in BOOLEAN, Load(ok)
    PROVE  ConfigInv'
<1>1. CASE Reject
  BY <1>1, RejectStep
<1>2. CASE /\ phase = "groups" /\ todo = {} /\ phase' = "accepted"
           /\ cfg' = [cfg EXCEPT !.proxyRules = GlobalRules(cfg)]
           /\ admins' = cfg.adminPubkeys \cup ({cfg.owner} \ {None})
           /\ UNCHANGED <<section, arrayKey, todo, said>>
  <2> USE DEF ConfigInv
  <2>1. KeptBut("proxyRules") /\ cfg'.proxyRules = GlobalRules(cfg)
    BY <1>2, FieldSet DEF Fields
  <2>2. SaysTheSame
    BY <1>2, <2>1 DEF SaysTheSame, KeptBut, Fields
  <2>3. ShapeOK'
    BY <2>1 DEF ShapeOK, KeptBut, Fields
  <2>4. PhaseOK'
    BY <1>2, <2>1, <2>2, SaysTheSameMeans DEF PhaseOK, SaysTheSame
  <2>5. ListsSaid' /\ GroupsSaid'
    BY <2>2, SaysTheSameMeans
  <2>6. /\ cfg'.targets = cfg.targets /\ cfg'.rules = cfg.rules /\ cfg'.groups = cfg.groups
        /\ cfg'.targetRules = cfg.targetRules /\ cfg'.serviceRules = cfg.serviceRules
        /\ cfg'.owner = cfg.owner /\ cfg'.accessRule = cfg.accessRule /\ Applied' = Applied
    BY <1>2, <2>1 DEF KeptBut, Fields, Applied
  <2>7. TargetsSaid'
    <3>1. said' = said /\ Stated("top", "targets")' = Stated("top", "targets")
      BY <1>2, <2>2, SaysTheSameMeans
    <3> QED  BY <2>6, <3>1 DEF TargetsSaid
  <2>8. RulesMade'
    BY <1>2, <2>2, <2>6, SaysTheSameMeans DEF RulesMade
  <2>9. TargetsMade'
    BY <1>2, <2>2, <2>6, SaysTheSameMeans DEF TargetsMade
  <2>10. ServicesMade'
    BY <1>2, <2>2, <2>6, SaysTheSameMeans DEF ServicesMade
  <2> QED  BY <2>3, <2>4, <2>5, <2>7, <2>8, <2>9, <2>10
<1> QED  BY <1>1, <1>2 DEF Load

\* The rules of the groups applied so far, and of one more.
LEMMA GroupStep ==
    ASSUME ConfigInv, NEW g \in Groups, ApplyProxyGroup(g)
    PROVE  ConfigInv'
<1> DEFINE urls    == cfg.groups[g].urls
           http    == {i \in DOMAIN urls : urls[i] \in HttpURLs}
           own     == {KeyOf[urls[i]] : i \in http}
           listed  == {AliasOf[v] : v \in Range(urls) \ HttpURLs}
           made    == [r \in RuleNames |->
                         IF r \in Additional(cfg, g)
                         THEN [type |-> "follow", of |-> cfg.owner, relays |-> TrimmedRelays(cfg)]
                         ELSE cfg.rules[r]]
           tRules  == [k \in Keys |-> IF k \in own THEN cfg.targetRules[k] \cup Additional(cfg, g)
                                                   ELSE cfg.targetRules[k]]
           sRules  == [s \in Services |-> IF s \in listed THEN ServiceRules(cfg, g, s) ELSE cfg.serviceRules[s]]
           targets == WithTargets(cfg.targets, urls, http)
<1>1. CASE Reject
  BY <1>1, RejectStep
<1>2. CASE /\ phase = "groups" /\ g \in todo
           /\ AdditionalOK(cfg, g) /\ Addable(cfg.targets, urls, http) /\ None \notin listed
           /\ cfg' = [WithAdditional(cfg, g) EXCEPT
                        !.targets = targets, !.targetRules = tRules, !.serviceRules = sRules]
           /\ todo' = todo \ {g}
           /\ UNCHANGED <<phase, section, arrayKey, admins, said>>
  <2> USE DEF ConfigInv
  <2>1. /\ DOMAIN cfg' = Fields
        /\ cfg'.rules = made /\ cfg'.targets = targets
        /\ cfg'.targetRules = tRules /\ cfg'.serviceRules = sRules
        /\ \A f \in Fields \ {"rules", "targets", "targetRules", "serviceRules"} : cfg'[f] = cfg[f]
    <3>1. WithAdditional(cfg, g) = [cfg EXCEPT !["rules"] = made]
      BY DEF WithAdditional
    <3> HIDE DEF made, targets, tRules, sRules
    <3>2. DOMAIN cfg = Fields
      BY DEF ShapeOK
    <3> QED  BY <1>2, <3>1, <3>2 DEF Fields
  <2>2. SaysTheSame
    BY <1>2, <2>1 DEF SaysTheSame, Fields
  <2>3. Applied' = Applied \cup {g} /\ g \notin Applied
    BY <1>2 DEF Applied
  <2>4. urls \in Seq(Values) /\ http \in SUBSET Nat /\ \A i \in http : urls[i] \in Values
    BY DEF ShapeOK
  <2>5. /\ targets \in [Keys -> Values \cup {None}]
        /\ \A i \in http : KeyOf[urls[i]] \in Keys /\ cfg.targets[KeyOf[urls[i]]] = None
        /\ \A i \in http : targets[KeyOf[urls[i]]] = urls[i]
        /\ \A k \in Keys : cfg.targets[k] # None => targets[k] = cfg.targets[k]
    <3>1. cfg.targets \in [Keys -> Values \cup {None}]
      BY DEF ShapeOK
    <3> HIDE DEF urls, http
    <3> QED  BY <1>2, <2>4, <3>1, TargetsAdded
  <2>6. \A v \in Range(urls) \cap HttpURLs :
            /\ KeyOf[v] \in own /\ KeyOf[v] \in Keys /\ cfg.targets[KeyOf[v]] = None
            /\ targets[KeyOf[v]] = v
    <3> SUFFICES ASSUME NEW v \in Range(urls) \cap HttpURLs
                 PROVE  /\ KeyOf[v] \in own /\ KeyOf[v] \in Keys /\ cfg.targets[KeyOf[v]] = None
                        /\ targets[KeyOf[v]] = v
      OBVIOUS
    <3>1. PICK i \in http : urls[i] = v
      BY DEF Range
    <3> HIDE DEF urls, http, targets
    <3> QED  BY <2>5, <3>1
  <2>7. own \subseteq Keys /\ \A k \in own : cfg.targets[k] = None /\ targets[k] \in Values
    <3> HIDE DEF urls, http, targets
    <3> QED  BY <2>4, <2>5
  <2> HIDE DEF urls, http, own, targets, made
  <2>8. ShapeOK'
    BY <2>1, <2>2, <2>5 DEF ShapeOK, SaysTheSame, made, Fields
  <2>9. PhaseOK'
    BY <1>2 DEF PhaseOK
  <2>10. ListsSaid' /\ GroupsSaid'
    BY <2>2, SaysTheSameMeans
  <2>11. TargetsSaid'
    <3> SUFFICES ASSUME NEW s \in Stated("top", "targets")
                 PROVE  /\ s.value \in Values
                        /\ KeyOf[s.value] \in Keys
                        /\ \/ targets[KeyOf[s.value]] = s.value
                           \/ \E t \in said : t.at.table = "targets" /\ t.key = KeyOf[s.value]
      <4>1. Stated("top", "targets")' = Stated("top", "targets") /\ said' = said
        BY <1>2, <2>2, SaysTheSameMeans
      <4> QED  BY <2>1, <4>1 DEF TargetsSaid
    <3>1. s.value \in Values /\ KeyOf[s.value] \in Keys /\ s.value # None
      BY ConfigAssumption DEF TargetsSaid
    <3> QED  BY <2>5, <3>1 DEF TargetsSaid
  <2>12. RulesMade'
    <3>1. \A h : \A r \in Additional(cfg, h) : r = "media_owner_follows"
      BY DEF Additional
    <3>2. \A r \in GlobalRules(cfg) : r \in RuleNames /\ r # "media_owner_follows"
      BY DEF GlobalRules, RuleNames
    <3>3. ASSUME NEW r \in GlobalRules(cfg)
          PROVE  made[r] = [type |-> "nip05", of |-> cfg.accessRule.domain, relays |-> TrimmedRelays(cfg)]
      <4>1. made[r] = cfg.rules[r]
        BY <3>1, <3>2 DEF made
      <4> QED  BY <1>2, <4>1 DEF RulesMade
    <3>4. ASSUME NEW h \in Applied \cup {g}, NEW r \in Additional(cfg, h)
          PROVE  /\ cfg.owner # None
                 /\ made[r] = [type |-> "follow", of |-> cfg.owner, relays |-> TrimmedRelays(cfg)]
      <4>1. r \in RuleNames
        BY <3>1 DEF RuleNames
      <4>2. CASE r \in Additional(cfg, g)
        <5>1. made[r] = [type |-> "follow", of |-> cfg.owner, relays |-> TrimmedRelays(cfg)]
          BY <4>1, <4>2 DEF made
        <5>2. cfg.groups[g].additional \in Seq(Values) /\ cfg.groups[g].additional # <<>>
          BY <4>2 DEF Additional, ShapeOK
        <5>3. 1 \in DOMAIN cfg.groups[g].additional
          BY <5>2
        <5>4. cfg.owner # None
          BY <1>2, <5>3 DEF AdditionalOK
        <5> QED  BY <5>1, <5>4
      <4>3. CASE r \notin Additional(cfg, g)
        <5>1. h \in Applied /\ made[r] = cfg.rules[r]
          BY <4>1, <4>3 DEF made
        <5> QED  BY <1>2, <5>1 DEF RulesMade
      <4> QED  BY <4>2, <4>3
    <3>5. GlobalRuleOK(cfg)' /\ GlobalRules(cfg)' = GlobalRules(cfg) /\ TrimmedRelays(cfg)' = TrimmedRelays(cfg)
      BY <1>2, <2>2, SaysTheSameMeans DEF RulesMade
    <3>6. \A h : Additional(cfg, h)' = Additional(cfg, h)
      BY <2>2, SaysTheSameMeans
    <3>7. cfg'.owner = cfg.owner /\ cfg'.accessRule = cfg.accessRule /\ cfg'.rules = made
      BY <2>1, <2>2 DEF SaysTheSame
    <3> QED  BY <2>3, <3>3, <3>4, <3>5, <3>6, <3>7 DEF RulesMade
  <2>13. TargetsMade'
    <3>1. \A k \in Keys \ own : tRules[k] = cfg.targetRules[k]
      OBVIOUS
    <3>2. \A k \in own : tRules[k] = Additional(cfg, g)
      <4>1. \A k \in own : cfg.targetRules[k] = {}
        BY <1>2, <2>7 DEF TargetsMade
      <4> QED  BY <2>7, <4>1
    <3> HIDE DEF tRules
    <3>3. ASSUME NEW h \in Applied \cup {g}, NEW v \in Range(cfg.groups[h].urls) \cap HttpURLs
          PROVE  targets[KeyOf[v]] = v /\ tRules[KeyOf[v]] = Additional(cfg, h)
      <4>1. CASE h = g
        BY <2>6, <3>2, <4>1 DEF urls
      <4>2. CASE h \in Applied
        <5>1. cfg.targets[KeyOf[v]] = v /\ cfg.targetRules[KeyOf[v]] = Additional(cfg, h)
          BY <1>2, <4>2 DEF TargetsMade
        <5>2. v # None /\ KeyOf[v] \in Keys
          BY ConfigAssumption
        <5> QED  BY <2>5, <2>7, <3>1, <5>1, <5>2
      <4> QED  BY <4>1, <4>2
    <3>4. ASSUME NEW k \in Keys, NEW r \in tRules[k]
          PROVE  targets[k] # None /\ \E h \in Applied \cup {g} : r \in Additional(cfg, h)
      <4>1. CASE k \in own
        <5>1. targets[k] # None
          BY <2>7, <4>1, ConfigAssumption
        <5>2. r \in Additional(cfg, g)
          BY <3>2, <3>4, <4>1
        <5> QED  BY <5>1, <5>2
      <4>2. CASE k \notin own
        <5>1. cfg.targets[k] # None /\ \E h \in Applied : r \in Additional(cfg, h)
          BY <1>2, <3>1, <3>4, <4>2 DEF TargetsMade
        <5> QED  BY <2>5, <5>1
      <4> QED  BY <4>1, <4>2
    <3>5. \A h : Additional(cfg, h)' = Additional(cfg, h)
      BY <2>2, SaysTheSameMeans
    <3>6. cfg'.groups = cfg.groups
      BY <2>2 DEF SaysTheSame
    <3> QED  BY <2>1, <2>3, <3>3, <3>4, <3>5, <3>6 DEF TargetsMade
  <2>14. ServicesMade'
    <3> DEFINE Of(h) == GlobalRules(cfg) \cup Additional(cfg, h)
               Asked(s, S) == UNION {Of(h) : h \in {x \in S : s \in ListedBy(cfg, x)}}
    <3>1. listed = ListedBy(cfg, g)
      BY DEF ListedBy, urls
    <3>2. ASSUME NEW s \in Services
          PROVE  sRules[s] = Asked(s, Applied \cup {g})
      <4>1. cfg.serviceRules[s] = Asked(s, Applied)
        BY <1>2 DEF ServicesMade
      <4>2. CASE s \in listed
        <5>1. sRules[s] = cfg.serviceRules[s] \cup Of(g)
          BY <4>2 DEF ServiceRules
        <5> HIDE DEF Of
        <5>2. {x \in Applied \cup {g} : s \in ListedBy(cfg, x)} = {x \in Applied : s \in ListedBy(cfg, x)} \cup {g}
          BY <3>1, <4>2
        <5>3. UNION {Of(h) : h \in {x \in Applied : s \in ListedBy(cfg, x)} \cup {g}}
                 = (UNION {Of(h) : h \in {x \in Applied : s \in ListedBy(cfg, x)}}) \cup Of(g)
          OBVIOUS
        <5> QED  BY <4>1, <5>1, <5>2, <5>3
      <4>3. CASE s \notin listed
        <5>1. sRules[s] = cfg.serviceRules[s]
          BY <4>3
        <5>2. {x \in Applied \cup {g} : s \in ListedBy(cfg, x)} = {x \in Applied : s \in ListedBy(cfg, x)}
          BY <3>1, <4>3
        <5> HIDE DEF Of, sRules
        <5> QED  BY <4>1, <5>1, <5>2
      <4> QED  BY <4>2, <4>3
    <3>3. \A h \in Applied \cup {g} : None \notin ListedBy(cfg, h)
      BY <1>2, <3>1 DEF ServicesMade
    <3>4. /\ \A h : Additional(cfg, h)' = Additional(cfg, h)
          /\ \A h : ListedBy(cfg, h)' = ListedBy(cfg, h)
          /\ GlobalRules(cfg)' = GlobalRules(cfg)
      BY <2>2, SaysTheSameMeans
    <3> HIDE DEF sRules, listed
    <3> QED  BY <2>1, <2>3, <3>2, <3>3, <3>4 DEF ServicesMade
  <2> QED  BY <2>8, <2>9, <2>10, <2>11, <2>12, <2>13, <2>14
<1>3. /\ WithAdditional(cfg, g).targets = cfg.targets
      /\ WithAdditional(cfg, g).targetRules = cfg.targetRules
      /\ WithAdditional(cfg, g).serviceRules = cfg.serviceRules
  <2>1. WithAdditional(cfg, g) = [cfg EXCEPT !["rules"] = made]
    BY DEF WithAdditional
  <2>2. DOMAIN cfg = Fields
    BY DEF ConfigInv, ShapeOK
  <2> HIDE DEF made
  <2> QED  BY <2>1, <2>2 DEF Fields
<1>4. [WithAdditional(cfg, g) EXCEPT
          !.targets = WithTargets(@, urls, http),
          !.targetRules = [k \in Keys |-> IF k \in own THEN @[k] \cup Additional(cfg, g) ELSE @[k]],
          !.serviceRules = [s \in Services |-> IF s \in listed THEN ServiceRules(cfg, g, s) ELSE @[s]]]
        = [WithAdditional(cfg, g) EXCEPT !.targets = targets, !.targetRules = tRules, !.serviceRules = sRules]
  <2> HIDE DEF urls, http, own, listed
  <2> QED  BY <1>3
<1>5. \/ Reject
      \/ /\ phase = "groups" /\ g \in todo
         /\ AdditionalOK(cfg, g) /\ Addable(cfg.targets, urls, http) /\ None \notin listed
         /\ cfg' = [WithAdditional(cfg, g) EXCEPT
                      !.targets = WithTargets(@, urls, http),
                      !.targetRules = [k \in Keys |-> IF k \in own THEN @[k] \cup Additional(cfg, g) ELSE @[k]],
                      !.serviceRules = [s \in Services |-> IF s \in listed THEN ServiceRules(cfg, g, s) ELSE @[s]]]
         /\ todo' = todo \ {g}
         /\ UNCHANGED <<phase, section, arrayKey, admins, said>>
  BY Zenon DEF ApplyProxyGroup
<1> HIDE DEF urls, http, own, listed, targets, tRules, sRules
<1> QED  BY <1>1, <1>2, <1>4, <1>5

-----------------------------------------------------------------------------
(* Theorems *)

\* The configuration is what the lines read so far and the groups applied so far
\* make of it, for files of any length and groups in any order.
THEOREM ConfigInvariant == Spec => []ConfigInv
<1>1. ConfigInv /\ [Next]_vars => ConfigInv'
  <2> SUFFICES ASSUME ConfigInv, [Next]_vars PROVE ConfigInv'
    OBVIOUS
  <2>1. CASE \E l \in Lines : ReadLine(l)
    BY <2>1, ReadLineStep
  <2>2. CASE EndOfFile
    BY <2>2, EndOfFileStep
  <2>3. CASE \E g \in Groups : ApplyProxyGroup(g)
    BY <2>3, GroupStep
  <2>4. CASE \E ok \in BOOLEAN : Load(ok)
    BY <2>4, LoadStep
  <2>5. CASE UNCHANGED vars
    BY <2>5, StutteringStep DEF vars
  <2> QED  BY <2>1, <2>2, <2>3, <2>4, <2>5 DEF Next
<1> QED  BY <1>1, ConfigInitially, PTL DEF Spec

\* Whatever file is accepted, its targets and services ask for exactly the rules
\* of the groups that list them and the global one (applyProxyGroups).
THEOREM GroupRulesAlwaysHold == Spec => []GroupRulesHold
BY ConfigInvariant, ConfigMeansGroupRules, PTL

\* No rule that a target or a service asks for is left undefined, although
\* validateAccessRules leaves those of single targets out.
THEOREM RulesAreAlwaysDefined == Spec => []RulesAreDefined
BY ConfigInvariant, ConfigMeansRulesDefined, PTL

\* No URL, owner or administrator of an accepted file is lost (addTargetKey,
\* LoadWithArgs).
THEOREM NothingIsLost == Spec => []NothingStatedIsLost
BY ConfigInvariant, ConfigMeansNothingLost, PTL
============================================================================
