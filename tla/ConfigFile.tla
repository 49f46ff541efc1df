----------------------------- MODULE ConfigFile -----------------------------
(***************************************************************************)
(* Loading of conf.toml (internal/config/targets.go and config.go): the    *)
(* file is read line by line, a list may stretch over several lines, and   *)
(* only at its end are the global access rule and the proxy groups, in the *)
(* order in which Go walks a map, turned into targets and the access rules *)
(* that the proxy and the media gateway ask for.                           *)
(*                                                                         *)
(* A line is a record: [kind |-> "table", table, name], [kind |-> "value", *)
(* key, value], [kind |-> "array", key, values, done], [kind |-> "items",  *)
(* values, done] (inside a list), [kind |-> "inline", key, value] (value is *)
(* None for an empty table, else its criterion and domain), or             *)
(* [kind |-> "blank"] and [kind |-> "bad"] for what is skipped or is not   *)
(* TOML as this parser knows it.                                           *)
(***************************************************************************)
EXTENDS Integers, Sequences, Functions

CONSTANTS
    Lines,       \* lines a file may have
    MaxLines,    \* bound on their number
    Groups,      \* names of proxy groups
    Wikis,       \* slugs of wikis
    Values,      \* strings a file may hold, URLs without their trailing slashes
    Keys,        \* route keys
    RouteKeys,   \* those that are a path segment
    KeyOf,       \* routeKeyFromTarget, None without a host
    HttpURLs,    \* values that are http:// or https:// URLs
    AliasOf,     \* mediaServiceAlias, None for no service
    Services,
    Npubs,       \* strings NormalizePubkey accepts
    None

WikiKeys == {"origin", "proxy_route", "wiki_path"}   \* wiki_path for the four required paths
WikiTexts == {"label", "audience"}                   \* for every key that is only shown
RuleNames == {"trustroots_nip05", "global_nip05", "media_owner_follows"}
GlobalAccessRules == [criterion : Values, domain : Values]
Rules == [type : {"nip05", "follow"}, of : Values, relays : SUBSET Values]

ASSUME ConfigAssumption ==
    /\ MaxLines \in Nat
    /\ RouteKeys \subseteq Keys
    /\ HttpURLs \subseteq Values /\ Npubs \subseteq Values \ {""}
    /\ None \notin Keys \cup Services \cup Values \cup GlobalAccessRules \cup Rules
    /\ KeyOf \in [Values -> Keys \cup {None}] /\ AliasOf \in [Values -> Services \cup {None}]
    /\ \A v \in HttpURLs : KeyOf[v] # None /\ AliasOf[v] = None
    /\ \A l \in Lines :
         /\ l.kind = "table" /\ l.table = "proxy_group" => l.name \in Groups
         /\ l.kind = "value" => l.key \in Keys /\ l.value \in Values
         /\ l.kind \in {"array", "items"} => l.values \in Seq(Values)
         /\ l.kind = "inline" => l.value \in GlobalAccessRules \cup {None}

VARIABLES
    phase,       \* "reading", "groups", then "accepted" or "rejected"
    read,        \* number of lines read
    section,     \* table and name of the last table line
    arrayKey,    \* key of the list that is not closed yet
    cfg,         \* fileConfig
    todo,        \* groups not yet applied
    admins,      \* AdminPubkeys of the loaded configuration
    said         \* what the file states, read by the properties

vars == <<phase, read, section, arrayKey, cfg, todo, admins, said>>

Init ==
    /\ phase = "reading"
    /\ read = 0
    /\ section = [table |-> "top", name |-> None]
    /\ arrayKey = None
    /\ cfg = [targets |-> [k \in Keys |-> None],
              groups |-> [g \in Groups |-> [urls |-> <<>>, additional |-> <<>>]],
              wiki |-> [w \in Wikis |-> [k \in WikiKeys |-> None]], wikis |-> {},
              adminPubkeys |-> {}, owner |-> None, relays |-> {}, accessRule |-> None,
              rules |-> [r \in RuleNames |-> None],
              proxyRules |-> {},
              targetRules |-> [k \in Keys |-> {}],
              serviceRules |-> [s \in Services |-> {}]]
    /\ todo = Groups
    /\ admins = {}
    /\ said = {}

Reject ==
    /\ phase' = "rejected"
    /\ UNCHANGED <<section, arrayKey, cfg, todo, admins, said>>

-----------------------------------------------------------------------------
(* What a line does: the configurations it leads to, none if it is an error. *)

\* Mutant: a key that is there already is overwritten.
Addable_Duplicates(targets, vs, at) == \A i \in at : KeyOf[vs[i]] # None

\* addTargetKey of the values at these positions, one after the other: each has a
\* key of its own.
Addable(targets, vs, at) ==
    \A i \in at :
        /\ KeyOf[vs[i]] # None
        /\ targets[KeyOf[vs[i]]] = None
        /\ \A j \in at : KeyOf[vs[j]] = KeyOf[vs[i]] => j = i

WithTargets(targets, vs, at) ==
    [k \in Keys |-> LET here == {i \in at : KeyOf[vs[i]] = k}
                    IN  IF here = {} THEN targets[k] ELSE vs[CHOOSE i \in here : \A j \in here : j <= i]]

\* ("target" and "proxy_targets" are other names of "targets".)
ApplyStringArray(c, at, key, vs) ==
    CASE at.table = "top" /\ key = "targets" /\ Addable(c.targets, vs, DOMAIN vs) ->
            {[c EXCEPT !.targets = WithTargets(@, vs, DOMAIN vs)]}
      [] at.table = "top" /\ key = "additional_relays" -> {[c EXCEPT !.relays = @ \cup Range(vs)]}
      [] at.table = "admin" /\ key \in {"pubkeys", "owner_npub"} -> {[c EXCEPT !.adminPubkeys = @ \cup Range(vs)]}
      [] at.table = "proxy_group" /\ key = "urls" -> {[c EXCEPT !.groups[at.name].urls = @ \o vs]}
      [] at.table = "proxy_group" /\ key = "additional_access_rule" ->
            {[c EXCEPT !.groups[at.name].additional = @ \o vs]}
      [] at.table = "wiki" /\ key = "audience" -> {[c EXCEPT !.wikis = @ \cup {at.name}]}
      [] OTHER -> {}

\* An empty owner_npub is none.
ApplyStringValue(c, at, key, v) ==
    CASE at.table = "top" /\ key = "owner_npub" /\ v \in Npubs \cup {""} ->
            {[c EXCEPT !.owner = IF v = "" THEN None ELSE v]}
      [] at.table = "top" /\ key = "targets" /\ Addable(c.targets, <<v>>, {1}) ->
            {[c EXCEPT !.targets = WithTargets(@, <<v>>, {1})]}
      [] at.table = "targets" -> {[c EXCEPT !.targets[key] = v]}
      [] at.table = "wiki" /\ key \in WikiKeys ->
            {[c EXCEPT !.wiki[at.name][key] = v, !.wikis = @ \cup {at.name}]}
      [] at.table = "wiki" /\ key \in WikiTexts -> {[c EXCEPT !.wikis = @ \cup {at.name}]}
      [] OTHER -> {}

\* The last access_rule counts: a criterion and a domain, trimmed and in lower case.
ApplyStringTable(c, at, key, v) ==
    IF at.table = "top" /\ key = "access_rule" THEN {[c EXCEPT !.accessRule = v]} ELSE {}

Stated(table, key) == {s \in said : s.at.table = table /\ s.key = key}

\* Of the keys that hold one value the last one counts.
Say(key, vs) ==
    LET kept == IF section.table = "top" /\ key \in {"owner_npub", "access_rule"}
                THEN said \ Stated("top", key) ELSE said
    IN  said' = kept \cup {[at |-> section, key |-> key, value |-> v] : v \in vs}

Apply(next, key, vs, rest) ==
    \/ next = {} /\ Reject
    \/ /\ cfg' \in next
       /\ arrayKey' = rest
       /\ Say(key, vs)
       /\ UNCHANGED <<phase, section, todo, admins>>

-----------------------------------------------------------------------------
(* parseConfigTOML *)

\* A line of a list that was opened before: only quoted strings are expected.
ReadItems(l) ==
    /\ arrayKey # None
    /\ l.kind # "blank"
    /\ IF l.kind = "items"
       THEN Apply(ApplyStringArray(cfg, section, arrayKey, l.values), arrayKey, Range(l.values),
                  IF l.done THEN None ELSE arrayKey)
       ELSE Reject

ReadTable(l) ==
    /\ arrayKey = None
    /\ l.kind = "table"
    /\ section' = [table |-> l.table, name |-> l.name]
    /\ UNCHANGED <<phase, arrayKey, cfg, todo, admins, said>>

ReadArray(l) ==
    /\ arrayKey = None
    /\ l.kind = "array"
    /\ Apply(ApplyStringArray(cfg, section, l.key, l.values), l.key, Range(l.values),
             IF l.done THEN None ELSE l.key)

ReadInline(l) ==
    /\ arrayKey = None
    /\ l.kind = "inline"
    /\ Apply(ApplyStringTable(cfg, section, l.key, l.value), l.key, {l.value} \ {None}, None)

ReadValue(l) ==
    /\ arrayKey = None
    /\ l.kind = "value"
    /\ Apply(ApplyStringValue(cfg, section, l.key, l.value), l.key, {l.value}, None)

ReadBad(l) ==
    /\ arrayKey = None
    /\ l.kind \in {"items", "bad"}
    /\ Reject

Skip(l) ==
    /\ l.kind = "blank"
    /\ UNCHANGED <<phase, section, arrayKey, cfg, todo, admins, said>>

ReadLine(l) ==
    /\ phase = "reading"
    /\ read < MaxLines
    /\ read' = read + 1
    /\ \/ Skip(l) \/ ReadItems(l) \/ ReadTable(l) \/ ReadArray(l)
       \/ ReadInline(l) \/ ReadValue(l) \/ ReadBad(l)

\* globalAccessRuleNames
GlobalRules(c) ==
    IF c.accessRule = None THEN {}
    ELSE IF c.accessRule.domain = "trustroots.org" THEN {"trustroots_nip05"} ELSE {"global_nip05"}

\* applyGlobalAccessRule
GlobalRuleOK(c) ==
    c.accessRule # None => c.accessRule.criterion = "nip05_domain" /\ c.accessRule.domain # ""

TrimmedRelays(c) == c.relays \ {""}

WithGlobalRule(c) ==
    [c EXCEPT !.rules = [r \in RuleNames |->
        IF r \in GlobalRules(c)
        THEN [type |-> "nip05", of |-> c.accessRule.domain, relays |-> TrimmedRelays(c)] ELSE @[r]]]

EndOfFile ==
    /\ phase = "reading"
    /\ IF arrayKey # None \/ ~GlobalRuleOK(cfg)
       THEN Reject
       ELSE /\ phase' = "groups"
            /\ cfg' = WithGlobalRule(cfg)
            /\ UNCHANGED <<section, arrayKey, todo, admins, said>>
    /\ UNCHANGED read

\* additionalProxyGroupAccessRules
AdditionalOK(c, g) ==
    \A i \in DOMAIN c.groups[g].additional :
        c.groups[g].additional[i] = "nostr_follow" /\ c.owner # None

Additional(c, g) == IF c.groups[g].additional = <<>> THEN {} ELSE {"media_owner_follows"}

\* Mutant: the rule is named but not made.
WithAdditional_Unmade(c, g) == c

WithAdditional(c, g) ==
    [c EXCEPT !.rules = [r \in RuleNames |->
        IF r \in Additional(c, g)
        THEN [type |-> "follow", of |-> c.owner, relays |-> TrimmedRelays(c)] ELSE @[r]]]

\* Mutant: the rules of a service are those of the last group that lists it.
ServiceRules_Replaced(c, g, s) == GlobalRules(c) \cup Additional(c, g)

ServiceRules(c, g, s) == c.serviceRules[s] \cup GlobalRules(c) \cup Additional(c, g)

\* One round of applyProxyGroups, whose URLs become targets and whose aliases
\* name services.
ApplyProxyGroup(g) ==
    LET urls    == cfg.groups[g].urls
        http    == {i \in DOMAIN urls : urls[i] \in HttpURLs}
        made    == WithAdditional(cfg, g)
        own     == {KeyOf[urls[i]] : i \in http}
        listed  == {AliasOf[v] : v \in Range(urls) \ HttpURLs}
    IN  /\ phase = "groups"
        /\ g \in todo
        /\ \/ /\ ~AdditionalOK(cfg, g) \/ ~Addable(cfg.targets, urls, http) \/ None \in listed
              /\ Reject
           \/ /\ AdditionalOK(cfg, g) /\ Addable(cfg.targets, urls, http) /\ None \notin listed
              /\ cfg' = [made EXCEPT
                    !.targets = WithTargets(@, urls, http),
                    !.targetRules = [k \in Keys |-> IF k \in own THEN @[k] \cup Additional(cfg, g) ELSE @[k]],
                    !.serviceRules = [s \in Services |-> IF s \in listed THEN ServiceRules(cfg, g, s) ELSE @[s]]]
              /\ todo' = todo \ {g}
              /\ UNCHANGED <<phase, section, arrayKey, admins, said>>
        /\ UNCHANGED read

-----------------------------------------------------------------------------
(* loadConfigFile and LoadWithArgs *)

TargetKeys(c) == {k \in Keys : c.targets[k] # None}

TargetsOK(c) ==
    /\ TargetKeys(c) # {}
    /\ \A k \in TargetKeys(c) : k \in RouteKeys /\ c.targets[k] \in HttpURLs

\* validateAccessRules: the rules the targets add are not looked at.
RulesOK(c) ==
    \A r \in c.proxyRules \cup (UNION {c.serviceRules[s] : s \in Services}) : c.rules[r] # None

\* validateWikiConfig
WikiOK(c) ==
    \A w \in c.wikis :
        /\ c.wiki[w]["origin"] \in HttpURLs
        /\ c.wiki[w]["wiki_path"] # None
        /\ c.wiki[w]["proxy_route"] \in TargetKeys(c)

\* Every target asks for the global rule.  Whether what the environment says is
\* valid is not known.
Load(environmentOK) ==
    LET c == [cfg EXCEPT !.proxyRules = GlobalRules(cfg)]
    IN  /\ phase = "groups"
        /\ todo = {}
        /\ IF environmentOK /\ TargetsOK(c) /\ RulesOK(c) /\ WikiOK(c)
           THEN /\ phase' = "accepted"
                /\ cfg' = c
                /\ admins' = cfg.adminPubkeys \cup ({cfg.owner} \ {None})
                /\ UNCHANGED <<section, arrayKey, todo, said>>
           ELSE Reject
        /\ UNCHANGED read

-----------------------------------------------------------------------------
Next ==
    \/ \E l \in Lines : ReadLine(l)
    \/ EndOfFile
    \/ \E g \in Groups : ApplyProxyGroup(g)
    \/ \E ok \in BOOLEAN : Load(ok)

Spec == Init /\ [][Next]_vars

-----------------------------------------------------------------------------
(* Properties *)

\* The rule names a group stands for, by what the file states of it.
StatedRules(g) ==
    (IF \E s \in Stated("proxy_group", "additional_access_rule") : s.at.name = g
     THEN {"media_owner_follows"} ELSE {})
    \cup {IF s.value.domain = "trustroots.org" THEN "trustroots_nip05" ELSE "global_nip05" :
            s \in Stated("top", "access_rule")}

\* A file that is accepted protects what it says: a target or a service asks for
\* the rules of every group that lists it and for the global one, and for no
\* other, wherever in the file lists, tables and rules stand and in whatever
\* order the groups are applied.
GroupRulesHold ==
    phase = "accepted" =>
        /\ \A s \in Stated("proxy_group", "urls") :
             s.value \in HttpURLs =>
                cfg.proxyRules \cup cfg.targetRules[KeyOf[s.value]] = StatedRules(s.at.name)
        /\ \A service \in Services :
             cfg.serviceRules[service] =
                UNION {StatedRules(s.at.name) :
                        s \in {x \in Stated("proxy_group", "urls") : AliasOf[x.value] = service}}

\* Every rule that a target or a service asks for exists and knows its owner and
\* all relays the file names, although the validation leaves the rules of single
\* targets out: no request meets a rule nobody defined.
RulesAreDefined ==
    phase = "accepted" =>
        \A r \in cfg.proxyRules \cup (UNION {cfg.targetRules[k] : k \in Keys})
                                \cup (UNION {cfg.serviceRules[s] : s \in Services}) :
            /\ cfg.rules[r] # None
            /\ cfg.rules[r].of \notin {None, ""}
            /\ cfg.rules[r].relays = {s.value : s \in Stated("top", "additional_relays")} \ {""}

\* No address is lost: every URL that a list or a group of an accepted file names
\* is the target of its key, unless the table of targets names another for it,
\* and the owner and all who are named as such are administrators.
NothingStatedIsLost ==
    phase = "accepted" =>
        /\ \A s \in Stated("top", "targets") \cup Stated("proxy_group", "urls") :
             AliasOf[s.value] = None =>
                \/ cfg.targets[KeyOf[s.value]] = s.value
                \/ \E t \in said : t.at.table = "targets" /\ t.key = KeyOf[s.value]
        /\ {s.value : s \in Stated("top", "owner_npub") \cup Stated("admin", "pubkeys")
                                  \cup Stated("admin", "owner_npub")} \ {""} \subseteq admins
============================================================================
