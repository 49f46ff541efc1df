----------------------------- MODULE HttpAccess -----------------------------
(***************************************************************************)
(* An HTTP request to the generic proxy (internal/proxy), to the media     *)
(* gateway (internal/media/gateway.go) or to the administration interface  *)
(* of the hub (internal/relay/admin.go), from its arrival to the moment it *)
(* is carried out or refused.  Internal/access meanwhile checks the signed *)
(* pubkey against one access rule after the other; each check asks relays  *)
(* for signed events, one relay after the other, and may ask the NIP-05    *)
(* directory, all of which change meanwhile.  The checks of concurrent     *)
(* requests share no state, so one request is followed at a time.          *)
(***************************************************************************)
EXTENDS Integers, Sequences, FiniteSets, Functions

CONSTANTS
    Pubkeys, Usernames,
    NoPubkey, NoUsername,
    Claims,        \* <<pubkey, username>> of the signed profiles that exist
    OwnerLists,    \* the follow lists that the owner has signed
    Lists,         \* every follow list somebody may make up: [at, contacts]
    NoList,
    Rules,         \* names of the configured access rules
    RuleType,      \* "nip05", "follow" or an unknown type, by rule
    Deny,          \* denied pubkeys by rule
    NRelays,       \* len(relayURLsForRule), the same for every rule
    Targets,       \* configured proxy targets
    DefaultTarget, \* the one other paths fall back to, or NoTarget
    NoTarget,
    ProxyRules,    \* rules of every target, in order
    TargetRules,   \* further rules by target
    Services,      \* media services
    ServiceRules,  \* rules by service
    Grants,        \* pubkeys granted media access without rules
    Admins,        \* administrators of the hub
    AdminMethod,   \* the method of each operation of the administration interface
    MaxAge,        \* how old or how far ahead a signature may be
    MaxBody,       \* largest body that is forwarded (MaxBodyBytes)
    Inputs         \* the requests that occur

ASSUME AccessAssumption ==
    /\ NRelays \in Nat \ {0} /\ MaxAge \in Nat /\ MaxBody \in Nat
    /\ OwnerLists \subseteq Lists /\ NoList \notin Lists
    /\ NoPubkey \notin Pubkeys /\ NoUsername \notin Usernames
    /\ ProxyRules \in Seq(Rules) /\ TargetRules \in [Targets -> Seq(Rules)]
    /\ ServiceRules \in [Services -> Seq(Rules)]
    /\ RuleType \in [Rules -> STRING] /\ Deny \in [Rules -> SUBSET Pubkeys]
    /\ \A list \in Lists : list.at \in Int

\* Every request is addressed to one of the servers, to a media service by name.
ASSUME InputsAssumption ==
    \A q \in Inputs :
        /\ q.kind \in {"proxy", "service", "status", "admin"}
        /\ q.kind = "service" => q.segment \in Services
        /\ q.body \in Nat   \* its size

VARIABLES
    directory,  \* external: the pubkey each username resolves to
    stage,      \* where the request stands
    req,        \* the request
    alts,       \* rule lists that may still be tried instead
    rules,      \* rules left of the list being tried
    relay,      \* the relay being asked, counted from 1
    username,   \* what a relay said for a NIP-05 rule
    latest,     \* newest follow list the relay has sent
    contacts,   \* newest one with an entry
    \* History, read by the properties only:
    proved,     \* rules that were really satisfied during the request
    got,        \* lists of the owner the relay has sent
    outcome     \* how the last request ended

checkVars == <<alts, rules, relay, username, latest, contacts, got>>
vars == <<directory, stage, req, alts, rules, relay, username, latest, contacts,
          proved, got, outcome>>

NoRequest == [kind |-> "none"]

NoOutcome == [request |-> NoRequest, is |-> "none", proved |-> {}, sent |-> 0]

-----------------------------------------------------------------------------
(* What is decided from the request alone *)

\* admin.VerifyNIP98Event on the event in the Authorization header, if any.
VerifyNIP98(q) ==
    /\ q.auth.scheme = "Nostr"
    /\ q.auth.kind = 27235
    /\ q.auth.sig = "valid"
    /\ q.auth.age \in -MaxAge..MaxAge
    /\ q.auth.url = "this"
    /\ q.auth.method = q.method

CorsAllowed(q) == q.origin \in {"none", "listed"}

AllowedMethods == {"GET", "POST", "PUT", "DELETE", "OPTIONS"}

\* Proxy.route: the first segment names a target, or it is one of those that
\* belong to the default target, or it is unknown.
RouteTarget(q) ==
    CASE q.segment \in Targets    -> q.segment
      [] q.segment = "unscoped"   -> DefaultTarget
      [] OTHER                    -> NoTarget

\* appendUniqueRuleNames: every name where it occurs first, in that order.
UniqueRuleNames(names) ==
    LET first == {i \in DOMAIN names : \A j \in 1..(i - 1) : names[j] # names[i]}
    IN  [n \in 1..Cardinality(first) |->
            names[CHOOSE i \in first : Cardinality(first \cap 1..i) = n]]

\* accessRulesForTarget of the matched segment; the fallback is no segment.
RouteRules(q) ==
    UniqueRuleNames(IF q.segment \in Targets THEN ProxyRules \o TargetRules[q.segment] ELSE ProxyRules)

IsPublicAsset(q) == q.asset /\ q.method \in {"GET", "HEAD"}

\* media.Authorizer.VerifyRequest
Granted(q) == VerifyNIP98(q) /\ q.auth.pubkey \in Grants

\* adminAPI: the proof, the administrator, the operation and then its method.
AdminAnswer(q) ==
    IF ~VerifyNIP98(q)                            THEN "unauthorized"
    ELSE IF q.auth.pubkey \notin Admins           THEN "forbidden"
    ELSE IF q.segment \notin DOMAIN AdminMethod   THEN "not_found"
    ELSE IF q.method # AdminMethod[q.segment]     THEN "method_not_allowed"
    ELSE "none"

\* The lists of rules of which one has to be passed.
Alternatives(q) ==
    CASE q.kind = "proxy"   -> {RouteRules(q)}
      [] q.kind = "service" -> {ServiceRules[q.segment]} \ {<<>>}
      [] q.kind = "status"  -> {ServiceRules[s] : s \in Services} \ {<<>>}

\* The answer that ends a request before anything is asked or forwarded.
EarlyAnswer(q) ==
    IF q.kind = "proxy"
    THEN IF q.segment = "healthz"            THEN "health"
         ELSE IF ~CorsAllowed(q)             THEN "origin_not_allowed"
         ELSE IF q.method = "OPTIONS"        THEN "preflight"
         ELSE IF q.method \notin AllowedMethods THEN "method_not_allowed"
         ELSE IF RouteTarget(q) = NoTarget   THEN "no_upstream"
         ELSE "none"
    ELSE IF q.kind = "admin" THEN AdminAnswer(q)
    ELSE IF q.method # "GET" THEN "method_not_allowed" ELSE "none"

\* Nothing has to be asked; for an administrator all has been decided.
Exempt(q) ==
    CASE q.kind = "proxy" -> RouteRules(q) = <<>> \/ IsPublicAsset(q)
      [] q.kind = "admin" -> TRUE
      [] OTHER            -> Granted(q)

-----------------------------------------------------------------------------
Init ==
    /\ directory \in [Usernames -> Pubkeys \cup {NoPubkey}]
    /\ stage = "idle"
    /\ req = NoRequest
    /\ alts = {}
    /\ rules = <<>>
    /\ relay = 0
    /\ username = NoUsername
    /\ latest = NoList
    /\ contacts = NoList
    /\ proved = {}
    /\ got = {}
    /\ outcome = NoOutcome

\* Mutant: the username a relay gave for one rule stays for the next.
NothingAsked_KeepsUsername ==
    /\ relay' = 0
    /\ latest' = NoList
    /\ contacts' = NoList
    /\ got' = {}
    /\ UNCHANGED username

\* Nothing is known yet of what the relays hold.
NothingAsked ==
    /\ relay' = 0
    /\ username' = NoUsername
    /\ latest' = NoList
    /\ contacts' = NoList
    /\ got' = {}

\* The request ends; an upstream has been sent so much of its body.
End(q, how, sent) ==
    /\ stage' = "idle"
    /\ req' = NoRequest
    /\ alts' = {}
    /\ rules' = <<>>
    /\ NothingAsked
    /\ proved' = {}
    /\ outcome' = [request |-> q, is |-> how, proved |-> proved, sent |-> sent]

\* It ends without reaching an upstream.
Refuse(q, how) == End(q, how, 0)

-----------------------------------------------------------------------------
(* A request arrives *)

AnswerEarly(q) ==
    /\ stage = "idle"
    /\ EarlyAnswer(q) # "none"
    /\ Refuse(q, EarlyAnswer(q))
    /\ UNCHANGED directory

PassExempt(q) ==
    /\ stage = "idle"
    /\ EarlyAnswer(q) = "none"
    /\ Exempt(q)
    /\ stage' = "forward"
    /\ req' = q
    /\ outcome' = NoOutcome
    /\ UNCHANGED <<directory, checkVars, proved>>

\* VerifyAllRequest: without a signature that verifies, or without a rule, the
\* request is refused; the lists of rules are tried in an arbitrary order, the
\* order of a Go map.
StartCheck(q) ==
    /\ stage = "idle"
    /\ EarlyAnswer(q) = "none"
    /\ ~Exempt(q)
    /\ \/ /\ ~VerifyNIP98(q)
          /\ Refuse(q, "unauthorized")
       \/ /\ VerifyNIP98(q)
          /\ Alternatives(q) = {}
          /\ Refuse(q, "forbidden")
       \/ /\ VerifyNIP98(q)
          /\ \E list \in Alternatives(q) :
                /\ rules' = list
                /\ alts' = Alternatives(q) \ {list}
          /\ stage' = "rule"
          /\ req' = q
          /\ outcome' = NoOutcome
          /\ UNCHANGED <<relay, username, latest, contacts, got, proved>>
    /\ UNCHANGED directory

-----------------------------------------------------------------------------
(* Authorizer.checkRule *)

\* The rule at hand is not passed.  If there is another list of rules it is
\* tried, unless the signature, verified again, has become too old meanwhile.
Fail ==
    \/ /\ alts = {}
       /\ Refuse(req, "forbidden")
    \/ /\ alts # {}
       /\ Refuse(req, "unauthorized")
    \/ /\ \E list \in alts :
             /\ rules' = list
             /\ alts' = alts \ {list}
       /\ stage' = "rule"
       /\ NothingAsked
       /\ UNCHANGED <<req, proved, outcome>>

\* The rule at hand is passed; fact says whether it really holds.
Pass(fact) ==
    /\ rules' = Tail(rules)
    /\ proved' = IF fact /\ req.auth.pubkey \notin Deny[Head(rules)]
                 THEN proved \cup {Head(rules)} ELSE proved
    /\ stage' = "rule"
    /\ NothingAsked
    /\ UNCHANGED <<alts, req, outcome>>

\* The next rule: its deny list and its type are looked at first.
BeginRule ==
    /\ stage = "rule"
    /\ \/ /\ rules = <<>>
          /\ stage' = "forward"
          /\ UNCHANGED <<req, checkVars, proved, outcome>>
       \/ /\ rules # <<>>
          /\ \/ req.auth.pubkey \in Deny[Head(rules)]
             \/ RuleType[Head(rules)] \notin {"nip05", "follow"}
          /\ Fail
       \/ /\ rules # <<>>
          /\ req.auth.pubkey \notin Deny[Head(rules)]
          /\ RuleType[Head(rules)] \in {"nip05", "follow"}
          /\ stage' = "relay"
          /\ relay' = 1
          /\ UNCHANGED <<req, alts, rules, username, latest, contacts, got, proved, outcome>>
    /\ UNCHANGED directory

\* Mutant: the first relay is asked again after the last.
NextRelay_Wraps ==
    /\ relay' = IF relay < NRelays THEN relay + 1 ELSE 1
    /\ latest' = NoList /\ contacts' = NoList /\ got' = {}
    /\ UNCHANGED <<stage, req, alts, rules, username, proved, outcome>>

\* The relay had no answer: the next one is asked, after the last the rule is
\* not passed.
NextRelay ==
    \/ /\ relay < NRelays
       /\ relay' = relay + 1
       /\ latest' = NoList /\ contacts' = NoList /\ got' = {}
       /\ UNCHANGED <<stage, req, alts, rules, username, proved, outcome>>
    \/ /\ relay = NRelays
       /\ Fail

\* Dialing, writing or reading fails, the deadline of the relay passes, or it
\* closes the subscription.
RelayFails ==
    /\ stage = "relay"
    /\ NextRelay
    /\ UNCHANGED directory

\* Mutant: the signature of the event is not checked.
ValidEventAuthor_Unsigned(by, sig, author) == by = author

ValidEventAuthor(by, sig, author) == by = author /\ sig = "valid"

\* A relay can pass on what was signed, and make up the rest.
CanBeSent(genuine, sig) == sig = "valid" => genuine

\* findTrustrootsUsernameOnRelay: the first profile by the pubkey that names a
\* username decides; other frames are skipped.
RelayProfile(by, sig, u) ==
    /\ stage = "relay"
    /\ RuleType[Head(rules)] = "nip05"
    /\ CanBeSent(<<by, u>> \in Claims, sig)
    /\ ValidEventAuthor(by, sig, req.auth.pubkey)
    /\ username' = u
    /\ stage' = "nip05"
    /\ UNCHANGED <<directory, req, alts, rules, relay, latest, contacts, got, proved, outcome>>

\* History: the key claims the name and the directory gives it to the key.
NameIsHeld ==
    <<req.auth.pubkey, username>> \in Claims /\ directory[username] = req.auth.pubkey

\* nip05.Client.Verify, with the directory as it is when it answers.
VerifyNIP05 ==
    /\ stage = "nip05"
    /\ \/ /\ directory[username] = req.auth.pubkey
          /\ Pass(NameIsHeld)
       \/ Fail
    /\ UNCHANGED directory

\* Mutant: the last list sent is taken for the newest.
Newer_LastWins(list, than) == TRUE

Newer(list, than) == than = NoList \/ list.at > than.at

\* findFollowListOnRelay, one event: the newest list of the owner is kept, and the
\* newest one that has an entry.
RelayList(byOwner, sig, list) ==
    /\ stage = "relay"
    /\ RuleType[Head(rules)] = "follow"
    /\ CanBeSent(byOwner => list \in OwnerLists, sig)
    /\ ValidEventAuthor(byOwner, sig, TRUE)
    /\ latest' = IF Newer(list, latest) THEN list ELSE latest
    /\ contacts' = IF list.contacts # {} /\ Newer(list, contacts) THEN list ELSE contacts
    /\ got' = got \cup {list}
    /\ UNCHANGED <<directory, stage, req, alts, rules, relay, username, proved, outcome>>

\* The newest of some lists.
Newest(S) == {x \in S : \A y \in S : y.at <= x.at}

\* Of some lists, those that have an entry.
Filled(S) == {x \in S : x.contacts # {}}

\* History: the owner follows the key in the newest of the lists this relay has
\* sent, of those with an entry if there is one.
OwnerFollows ==
    \E list \in OwnerLists \cap Newest(IF Filled(got) = {} THEN got ELSE Filled(got)) :
        req.auth.pubkey \in list.contacts

\* EOSE.  For a follow rule the list with entries decides, or else the newest one.
RelayDone ==
    LET list == IF contacts # NoList THEN contacts ELSE latest
    IN  /\ stage = "relay"
        /\ \/ /\ RuleType[Head(rules)] = "nip05" \/ list = NoList
              /\ NextRelay
           \/ /\ RuleType[Head(rules)] = "follow" /\ list # NoList
              /\ IF req.auth.pubkey \in list.contacts
                 THEN Pass(OwnerFollows)
                 ELSE Fail
        /\ UNCHANGED directory

-----------------------------------------------------------------------------
(* Forwarding; carrying out an operation of the administration interface *)

\* Mutant: the reader stops at the limit, so a longer body looks like one of this size.
ReadLimit_CutsBody == MaxBody

\* readBody reads one byte more than the limit, to tell a body of this size from a
\* longer one.
ReadLimit == MaxBody + 1

\* Proxy.forward.  The client may break off after any part of its body, which is an
\* error unless enough has been read before; a GET sends none.  The request may
\* fail to be made, and the upstream be unreachable.
ForwardProxied ==
    \E arrives \in 0..req.body :
        LET hasBody  == req.method # "GET"
            read     == IF arrives < ReadLimit THEN arrives ELSE ReadLimit
            broken   == arrives < req.body /\ arrives < ReadLimit
            tooLarge == read > MaxBody
        IN  \/ /\ hasBody /\ broken
               /\ Refuse(req, "invalid_body")
            \/ /\ hasBody /\ ~broken /\ tooLarge
               /\ Refuse(req, "body_too_large")
            \/ /\ hasBody => ~broken /\ ~tooLarge
               /\ \/ End(req, "forwarded", IF hasBody THEN read ELSE 0)
                  \/ Refuse(req, "gateway_error")

\* Gateway.connectorRequest passes no body on; an operation of the administration
\* interface is carried out, or refuses what it is asked.
Forward ==
    /\ stage = "forward"
    /\ \/ /\ req.kind = "proxy"
          /\ ForwardProxied
       \/ /\ req.kind # "proxy"
          /\ End(req, "forwarded", 0) \/ Refuse(req, "gateway_error")
    /\ UNCHANGED directory

\* External: Trustroots changes the key a username resolves to.
DirectoryChanges(u, p) ==
    /\ directory' = [directory EXCEPT ![u] = p]
    /\ UNCHANGED <<stage, req, checkVars, proved, outcome>>

-----------------------------------------------------------------------------
\* The steps of a check that the handler takes by itself, each under a deadline: a
\* relay has perRelayTimeout, the directory the timeout of the HTTP client.
CheckStep == BeginRule \/ RelayFails \/ VerifyNIP05

RelayStep ==
    \/ \E by \in Pubkeys, sig \in {"valid", "invalid"}, u \in Usernames : RelayProfile(by, sig, u)
    \/ \E byOwner \in BOOLEAN, sig \in {"valid", "invalid"}, list \in Lists : RelayList(byOwner, sig, list)
    \/ RelayDone

Next ==
    \/ \E q \in Inputs : AnswerEarly(q) \/ PassExempt(q) \/ StartCheck(q)
    \/ CheckStep
    \/ Forward
    \/ RelayStep
    \/ \E u \in Usernames, p \in Pubkeys \cup {NoPubkey} : DirectoryChanges(u, p)

Spec == Init /\ [][Next]_vars

\* The scheduler runs the handler, and its dials, reads and lookups end at their
\* deadlines; the one write to a relay is the first on its connection and small.
\* Forward is left out: it reads the body the client sends, which has no deadline.
Fairness == WF_vars(CheckStep)

FairSpec == Spec /\ Fairness

-----------------------------------------------------------------------------
(* Properties *)

\* Every variable keeps the kind of value its declaration gives it; what is
\* known of a relay's answer is there only while that relay is being asked.
TypeOK ==
    /\ directory \in [Usernames -> Pubkeys \cup {NoPubkey}]
    /\ stage \in {"idle", "rule", "relay", "nip05", "forward"}
    /\ req \in Inputs \cup {NoRequest} /\ (stage = "idle" <=> req = NoRequest)
    /\ rules \in Seq(Rules) /\ (stage \in {"relay", "nip05"} => rules # <<>>)
    /\ relay \in 0..NRelays /\ (relay # 0 <=> stage \in {"relay", "nip05"})
    /\ username \in Usernames \cup {NoUsername} /\ (username # NoUsername <=> stage = "nip05")
    /\ latest \in Lists \cup {NoList} /\ contacts \in Lists \cup {NoList}
    /\ proved \in SUBSET Rules

Forwarded == outcome.is = "forwarded"

\* All the rules of a list were satisfied, and there is one.
AllProved(list) == list # <<>> /\ Range(list) \subseteq outcome.proved

\* A request that reaches an upstream was entitled to: on a configured target
\* every rule of all targets and of this one was satisfied at some moment of this
\* request by the pubkey that signed it, unless it is a public asset; at the media
\* connector the pubkey is granted, or satisfied all the rules of the service (of
\* some service, for the status).  A NIP-05 rule is satisfied if the directory gives
\* the pubkey a name it claims; a follow rule if the newest filled list of those
\* this relay sent has the pubkey.  What a relay makes up, or sends beside a newer
\* list, counts for nothing; a relay that withholds the newer list, or sends an old
\* one alone, does decide.  The hub is administered by its administrators only,
\* whatever else a pubkey is granted.
ForwardedIsEntitled ==
    LET q == outcome.request
    IN  Forwarded =>
            /\ q.kind = "proxy" /\ q.segment \in Targets /\ ~IsPublicAsset(q) =>
                  Range(ProxyRules) \cup Range(TargetRules[q.segment]) \subseteq outcome.proved
            /\ q.kind = "service" => Granted(q) \/ AllProved(ServiceRules[q.segment])
            /\ q.kind = "status" => Granted(q) \/ \E v \in Services : AllProved(ServiceRules[v])
            /\ q.kind = "admin" => VerifyNIP98(q) /\ q.auth.pubkey \in Admins

\* Where the client breaks off and however large the body: an upstream is sent the
\* whole body or nothing, and the client is told it is too large only if it is.
BodyIsWhole ==
    LET q == outcome.request
    IN  /\ Forwarded /\ q.kind = "proxy" /\ q.method # "GET" =>
               outcome.sent = q.body /\ q.body <= MaxBody
        /\ outcome.is = "body_too_large" => q.body > MaxBody

\* In whatever order a relay sends the owner's follow lists, the ones kept are
\* the newest of all it sent and the newest with an entry.
NewestListKept ==
    /\ IF got = {} THEN latest = NoList ELSE latest \in Newest(got)
    /\ IF Filled(got) = {} THEN contacts = NoList ELSE contacts \in Newest(Filled(got))

\* Every check ends, with a refusal or on the way to an upstream, however slow, silent
\* or talkative the relays are.
CheckEnds ==
    stage \in {"rule", "relay", "nip05"} ~> stage \in {"idle", "forward"}

\* "The signed pubkey SHALL pass all required rules for that target", by
\* whichever path the target is reached.
EveryPathIsChecked ==
    LET q == outcome.request
    IN  Forwarded /\ q.kind = "proxy" /\ ~IsPublicAsset(q) =>
            Range(ProxyRules \o TargetRules[RouteTarget(q)]) \subseteq outcome.proved
============================================================================
