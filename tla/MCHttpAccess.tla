---------------------------- MODULE MCHttpAccess ----------------------------
(* HttpAccess with a member, one who is denied, one who is granted, two       *)
(* targets, and one request for every way a request can be decided.           *)
EXTENDS HttpAccess, TLC

CONSTANTS alice, bob, carol, ann, ben

\* Profiles that were signed; carol has none, any other has to be made up.
MCClaims == {<<alice, ann>>, <<bob, ben>>}

\* The owner followed bob, dropped him, and once published an empty list.
MCOwnerLists == {[at |-> 1, contacts |-> {bob}], [at |-> 2, contacts |-> {alice}],
                 [at |-> 3, contacts |-> {}]}

\* Somebody else can make up a newer one.
MCLists == MCOwnerLists \cup {[at |-> 4, contacts |-> {bob}]}

MCRuleType == [r \in Rules |-> CASE r = "member" -> "nip05" [] r = "friend" -> "follow"
                                 [] OTHER -> "unknown"]
MCDeny == [r \in Rules |-> IF r = "member" THEN {bob} ELSE {}]

MCProxyRules   == <<"member">>
MCTargetRules  == [t \in Targets |-> CASE t = "trustroots" -> <<"friend">>
                                         [] t = "notes" -> <<"strange">>
                                         [] OTHER -> <<"member">>]
MCServiceRules == [s \in Services |-> CASE s = "jellyfin" -> <<"friend", "member">>
                                         [] s = "plex" -> <<"friend">>
                                         [] OTHER -> <<>>]

Signed(p, method) == [scheme |-> "Nostr", kind |-> 27235, sig |-> "valid", age |-> 0,
                      url |-> "this", method |-> method, pubkey |-> p]
Unsigned == [Signed(bob, "GET") EXCEPT !.scheme = "none"]

Request(segment, method, auth) ==
    [kind |-> "proxy", segment |-> segment, method |-> method, origin |-> "none",
     asset |-> FALSE, auth |-> auth, body |-> 0]
Service(s, auth) == [Request(s, "GET", auth) EXCEPT !.kind = "service"]

\* Requests of the three pubkeys to every kind of place.
Good ==
    {Request(segment, "GET", Signed(p, "GET")) : segment \in Targets, p \in Pubkeys}
        \cup {Service(s, Signed(p, "GET")) : s \in Services, p \in Pubkeys}
        \cup {[Service("none", Signed(p, "GET")) EXCEPT !.kind = "status"] : p \in Pubkeys}

\* Bodies, assets, origins and methods that are decided without a check.
Plain ==
    LET post  == Request("wiki", "POST", Signed(alice, "POST"))
        image == [Request("wiki", "GET", Unsigned) EXCEPT !.asset = TRUE]
    IN  {[post EXCEPT !.body = size] : size \in 0..(MaxBody + 2)} \cup
        {image, [image EXCEPT !.body = MaxBody + 1],
         [image EXCEPT !.origin = "other"], [image EXCEPT !.method = "OPTIONS"],
         [image EXCEPT !.method = "PATCH"], [image EXCEPT !.method = "POST", !.origin = "listed"],
         Request("nowhere", "GET", Unsigned), Request("healthz", "GET", Unsigned),
         [Service("jellyfin", Signed(alice, "POST")) EXCEPT !.method = "POST"]}

\* A request of alice with one defect in its signed event.
Defective ==
    LET q == Request("wiki", "GET", Signed(alice, "GET"))
    IN  {[q EXCEPT !.auth.scheme = "Basic"], [q EXCEPT !.auth.kind = 1],
         [q EXCEPT !.auth.sig = "invalid"], [q EXCEPT !.auth.age = MaxAge + 1],
         [q EXCEPT !.auth.age = -MaxAge - 1], [q EXCEPT !.auth.url = "other"],
         [q EXCEPT !.auth.method = "POST"]}

\* Operations of the hub, asked for by its administrator and by others.
MCAdminMethod == [overview |-> "GET", nsec |-> "POST"]

Administration ==
    LET q == [Request("nsec", "POST", Signed(carol, "POST")) EXCEPT !.kind = "admin"]
    IN  {q, [q EXCEPT !.body = MaxBody + 1], [q EXCEPT !.segment = "nothing"],
         [q EXCEPT !.segment = "overview"], [q EXCEPT !.auth.pubkey = alice],
         [q EXCEPT !.auth.method = "GET"],
         [q EXCEPT !.segment = "overview", !.method = "GET", !.auth = Signed(carol, "GET")]}

MCInputs == Good \cup Plain \cup Defective \cup Administration

\* A path that falls back to the default target.
MCUnscoped == {Request("unscoped", "GET", Signed(alice, "GET"))} \cup Good
============================================================================
