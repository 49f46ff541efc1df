---------------------------- MODULE MCConfigFile ----------------------------
(* ConfigFile with a handful of lines: two groups, two hosts, one of them      *)
(* under two addresses, and a service.                                         *)
EXTENDS ConfigFile, TLC

MCValues == {"https://www.trustroots.org", "https://wiki.org", "http://www.wiki.org",
             "ws://chat.org", "fips_jellyfin", "wireguard_jellyfin", "wireguard_plex",
             "wss://relay", "npub1owner", "npub1admin", "npub1bad", "nostr_follow", "",
             "nip05_domain", "name", "trustroots.org", "other.org", "wiki.org", "/w", "Wiki", "community"}
MCKeyOf == [v \in MCValues |-> CASE v = "https://www.trustroots.org" -> "trustroots"
                                 [] v \in {"https://wiki.org", "http://www.wiki.org"} -> "wiki.org"
                                 [] v = "ws://chat.org" -> "chat.org"
                                 [] v = "wss://relay" -> "relay"
                                 [] OTHER -> None]
MCAliasOf == [v \in MCValues |-> IF v = "fips_jellyfin" THEN "jellyfin" ELSE None]

Table(table, name)      == [kind |-> "table", table |-> table, name |-> name]
Array(key, vs, done)    == [kind |-> "array", key |-> key, values |-> vs, done |-> done]
Items(vs, done)         == [kind |-> "items", values |-> vs, done |-> done]
Value(key, v)           == [kind |-> "value", key |-> key, value |-> v]
AccessRule(crit, dom)   == [kind |-> "inline", key |-> "access_rule",
                            value |-> [criterion |-> crit, domain |-> dom]]
NoAccessRule            == [kind |-> "inline", key |-> "access_rule", value |-> None]

\* The two groups and what they list, over one line or several.
GroupLines ==
    {Table("proxy_group", "hospex"), Table("proxy_group", "media"),
     Array("urls", <<"https://www.trustroots.org", "fips_jellyfin">>, TRUE),
     Array("urls", <<"fips_jellyfin">>, TRUE), Array("urls", <<"https://wiki.org">>, FALSE),
     Items(<<"http://www.wiki.org">>, FALSE), Items(<<>>, TRUE),
     Array("additional_access_rule", <<"nostr_follow">>, TRUE)}

TopLines ==
    {Value("owner_npub", "npub1owner"), Array("additional_relays", <<"wss://relay">>, TRUE),
     AccessRule("nip05_domain", "trustroots.org"), AccessRule("nip05_domain", "other.org")}

\* Everything else a file may say, some of it wrong.
OtherLines ==
    {Table("targets", None), Table("admin", None), Table("wiki", "w"),
     Value("wiki.org", "https://wiki.org"), Value("bad/key", "https://wiki.org"),
     Value("targets", "ws://chat.org"), Value("targets", "https://wiki.org"), Array("pubkeys", <<"npub1admin">>, TRUE),
     Value("origin", "https://wiki.org"), Value("proxy_route", "wiki.org"), Value("wiki_path", "/w"),
     Value("label", "Wiki"), Array("audience", <<"community">>, TRUE),
     Value("owner_npub", "npub1bad"), Value("owner_npub", ""), NoAccessRule, AccessRule("nip05_domain", ""), AccessRule("name", "other.org"),
     Array("urls", <<"wireguard_jellyfin">>, TRUE), [kind |-> "bad"], [kind |-> "blank"]}

MCKeys == {"trustroots", "wiki.org", "chat.org", "relay", "bad/key", "audience"}
              \cup {l.key : l \in {x \in TopLines \cup OtherLines : x.kind = "value"}}

MCRouteKeys == MCKeys \ {"bad/key"}

MCLines == GroupLines \cup TopLines \cup OtherLines

-----------------------------------------------------------------------------
\* conf.toml.example with an owner put in, its wiki sections and most of its URLs
\* left out.
Example ==
    <<Value("owner_npub", "npub1owner"),
      Array("additional_relays", <<"wss://relay">>, TRUE),
      AccessRule("nip05_domain", "trustroots.org"),
      [kind |-> "blank"],
      Table("proxy_group", "hospex"),
      Array("urls", <<"https://www.trustroots.org">>, FALSE),
      Items(<<"https://wiki.org">>, FALSE),
      Items(<<>>, TRUE),
      Table("wiki", "w"),
      Value("origin", "https://wiki.org"),
      Value("label", "Wiki"),
      Value("wiki_path", "/w"),
      Value("proxy_route", "wiki.org"),
      Value("audience", "community"),
      Table("proxy_group", "media"),
      Array("urls", <<"wireguard_jellyfin", "wireguard_plex">>, TRUE),
      Array("additional_access_rule", <<"nostr_follow">>, TRUE)>>

\* The example is read to its end, in an environment that is in order.
ExampleNext ==
    \/ read < Len(Example) /\ ReadLine(Example[read + 1])
    \/ read = Len(Example) /\ EndOfFile
    \/ \E g \in Groups : ApplyProxyGroup(g)
    \/ Load(TRUE)

ExampleSpec == Init /\ [][ExampleNext]_vars

\* The example file, copied and given an owner as the README says, is accepted.
ExampleIsAccepted == phase # "rejected"
============================================================================
