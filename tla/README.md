# A verification development for wrapster

wrapster lets browsers and small clients reach a community's Nostr relay, its
web sites and somebody's media server at home, once they have shown who they
are. This directory holds TLA+ models of the parts that decide, remember and
save, TLC configurations that check them on small instances, and proofs that
TLAPS checks for every instance. The models are read from the Go code under
`src/wrapster`, from the shell script of the FIPS sidecar, from the scripts of the
Hub page, the setup page and the web client, and from the iOS client's discovery.
`PROJECT.json` maps every definition to the lines it stands for.

## 1. The system

Component | State it keeps | Operations | What makes it correct
--- | --- | --- | ---
Relay gate (`internal/relay/server.go`, `messages.go`, `internal/auth`) | per WebSocket: challenge, pubkey, upstream connection; shared: list of recent queries | accept, AUTH, bootstrap of a profile, EVENT, REQ, other messages, pipe of the upstream | only checked keys get a session; each AUTH event serves one session, also after a restart; behind every event sent on is a NIP-05 check of its author; nothing before the OK; upstream connections are given back, with one exception; waits for relays and the directory end
Auth cache (`internal/store`) | SQLite table `auth_cache`, kept over restarts | GetValid, Put | a row rests on a NIP-05 check no older than it says
Lookups (`internal/nip05`, `relay/upstream.go`) | none | find a username, verify it, dial | bounded by deadlines
HTTP access rules (`internal/access`, `internal/admin/auth.go`, `internal/media/auth.go`) | per request only | verify NIP-98, check rules over relays and the directory | what passes was entitled to, by what the relays asked have shown; what they forge, repeat or reorder changes nothing; a check ends
Generic proxy (`internal/proxy`) | none | route, authorise, forward, rewrite | rules of the matched target, limits, CORS
Media gateway (`internal/media/gateway.go`) | none | authorise, call the connector | as above
Media connector (`internal/media/connector.go`, `cmd/wrapster-connector`) | media settings under a mutex | status, search, random song, stream; SetMediaConfig | a media server is asked with settings that belong together
Connector setup (`internal/media/setup.go`) | settings file | PUT config, trials of a candidate, FIPS identity | file and running settings agree, survive crashes, and keep no secret that is not needed
FIPS identity and sidecar (`internal/fips/identity.go`, `fips-sidecar/entrypoint.sh`) | nsec file on a shared volume | SaveNsec; wait, start | only whole identities run; a waiting sidecar starts
Configuration (`internal/config`) | one parse | conf.toml, groups, rules, targets, validation | a file that is accepted is enforced as it is written
Hub API and page (`internal/relay/admin.go`) | page: sockets, timers, advert notes, the FIPS peer monitored; server: recent queries | overview; publish, load and delete adverts; check a FIPS peer again and again | a relay's verdict is reported as it was and nothing is published after the end that is not on the wire; the newest advert is listed, and until every relay has deleted it; what is shown of a peer becomes that of the peer entered
Setup page (script in `internal/media/setup.go`) | form, FIPS peer in localStorage, load under way, poll timer | connect, load, edit, save | the form does not go back in time and catches up with the settings in use
FIPS connectivity (`internal/fips/connectivity.go`) | none | check npub, resolve, dial | ends within its deadlines
Web client (`apps/web/app.js`) | one socket, whether it is authenticated, a profile that waits | connect, disconnect, authenticate, publish | what it believes of its socket is so
iOS client (`apps/ios`) | screens; a discovery in progress | fetch adverts from all relays | the newest advert for an address
wikistr page (`apps/wikistr`) | none | | static
strfry, Nostr relays, NIP-05 directory, Jellyfin, Plex, browser signer | external | | modelled by what they may do

How they interact: the gate calls the cache and the lookups from the goroutine
of each client, and one more goroutine per session copies upstream messages to
the client. Proxy and gateway call the access rules inside a request, and these
ask relays one after the other. The gateway calls the connector over HTTP. The
setup API and the connector share the settings through a mutex, and with the
next process through the file. The setup API and the sidecar share only the
identity file. The Hub page, the web client and the iOS client talk to Nostr relays
directly, the first two with a signer that answers when its user does; the Hub page
and the setup page also call their APIs with signed requests, on timers.

What is hard here: sessions that interleave with lookups, cache expiry, a
changing directory and restarts; relays that forge, repeat, reorder, withhold
and never stop; overlapping saves and crashes between any two file operations;
browser callbacks in any order; groups applied in the order of a Go map. The
list with its lines is `PROJECT.json`, "hazards".

## 2. Modules

Module | Models | Notes
--- | --- | ---
`AuthStore` | the table and its two queries | used by `RelayGate`
`RelayGate` | sessions of the gate | a handler is cut at its network and database calls; between them everything else may happen
`AdmissionContract` | what a session promises, without cache, lookups and locals | abstract specification of `RelayGate`
`MCRelayGate` | symmetry for TLC |
`RelayGate_proofs`, `RelaySession_proofs` | theorems on the gate: types and who is admitted, what sessions do | section 5, the second builds on the first
`ConnectorSettings` | settings and the pure functions on them: normalise, validate, merge | used by the next three
`ConnectorSetup` | PUTs, file operations, errors, crashes, restarts |
`SettingsContract` | a save is one step over file and connector | abstract specification of `ConnectorSetup` for saves that do not overlap
`MediaRequests` | calls of the gateway and trials of the setup page, composed with `ConnectorSetup` |
`MCConnectorSetup`, `MCMediaRequests` | submissions, files and calls for TLC |
`ConnectorSetup_proofs` | theorems on saving, and on calls beside it |
`FipsIdentity` | saves of the identity and the sidecar beside them |
`HttpAccess`, `MCHttpAccess` | one HTTP request to proxy, gateway or Hub API, with relays and directory |
`HttpAccess_proofs` | theorems on it |
`ConfigFile`, `MCConfigFile` | loading of conf.toml line by line |
`ConfigFile_proofs` | theorems on it | section 5
`HubRelaySession` | one publication or load of the Hub page with one relay |
`HubRelaySession_proofs` | theorems on it |
`HubAdverts` | the advert list of the Hub page over all relays | what one relay says of one request is `HubRelaySession`
`WebClient` | the web client's page, its sockets and its signer |
`MCClients` | the three above, one at a time, for TLC |
`Clients_proofs` | theorems on the web client and the advert list | section 5
`FipsPeerCheck` | the peer monitor of the Hub page and the check it calls |
`SetupPage` | the form of the setup page, its loads and saves | what a PUT does inside is `ConnectorSetup`
`MCAdministration` | `ConnectorSetup`, `SetupPage`, `FipsIdentity` and `FipsPeerCheck`, one at a time, for TLC |
`Administration_proofs` | theorems on the last three of these |
`AdvertDiscovery` | the discovery of the iOS client |

### How the models read the code

*`RelayGate`.* `pc[c]` is the place in `Server.websocket` and the functions it
calls: `reading` is `ReadMessage`, `cache`, `lookup`, `nip05`, `put` and `dial`
are the calls in `authenticate` and after it, `bootDial` and `bootWait` those of
`forwardToUpstreamAndWaitOK`. `pending` holds the locals. The time that
`authenticate` takes once (`now := time.Now()`) is `pending.now`, so the expiry
counts from before the lookup as in the code. A write to the client may fail
whenever there is one; the handler then returns, and `Return` closes the
upstream connection that the deferred call would. `link` and `pipe` live on
their own, as the goroutine does. `verifiedAt`, `proof`, `used`, `serves`,
`abandoned`, `seen`, `forwarded`, `stored` and `confirmed` are history: no guard reads
them. `used` outlives restarts and holds the AUTH events that ever authenticated a
session; `abandoned` holds the connections that the dial of a second AUTH has
overwritten in the variable `upstream`, which is possible after an AUTH without an event.

*`ConnectorSetup`.* One step for each file operation that can fail or be the
last before a crash: CreateTemp, WriteTemp (write, chmod, close), RenameTemp,
Apply (`SetMediaConfig` and the answer 200). `Loaded` is what
`LoadConnectorMediaConfig` and `main` make of a file and the environment. Strings
keep what the functions tell apart: a URL may be padded, or name no host; a
secret may be blank.

*`MediaRequests`.* A call takes the settings once (`MediaConfig`), builds its
request and sends it, in steps of its own, so saves, crashes and its own second
attempt (`streamJellyfinRandomSong`) come in between. `asked` records host and
secret that reach a media server.

*`HttpAccess`.* `EarlyAnswer` holds the returns before the access check in the
order of the code; then one rule after another, one relay after another, one
event after another. Relays may send every event there is (`CanBeSent`), signed
by its author or not, in any order and any number of times, and fall silent.
A follow rule goes by the newest filled list of those the relay sent, so a relay that
withholds a newer list, or sends an old one alone, decides. A body is its
size, read up to the limit and one byte more (`ReadLimit`), and the client may break off before its end.
Concurrent requests share no state, so one is followed at a time. `AdminAnswer` is
the entry of the Hub API (`adminAPI`), whose operations then run or fail.

*`ConfigFile`.* A line is a record of the kinds the parser tells apart. The end of the
file applies the global rule, then the groups in any order (`applyProxyGroups`
walks a map), then the validations. What a value is to the parser (`KeyOf`,
`AliasOf`, `HttpURLs`, `Npubs`) is a constant, of which the proofs assume only that it is
defined for every string a file may hold. An empty `owner_npub` takes the owner back,
and an empty `access_rule` the rule, as in the code. `said` is history: what the file states, of keys with
one value the last.

*`HubRelaySession`.* Variables are those of the two functions of the page;
listeners, timers and promises are actions. One module stands for both because
they differ in names and in the answer they wait for; `mode` selects. The relay may
refuse a load after some of its events, for a reason of its own or with the word
`restricted`, which the page takes for a demand to authenticate. `verdict` says what ended the session:
only an EOSE or the OK to the event counts as the relay's verdict; a load that a CLOSED, a
close or the timeout ends counts as complete with what it has.

*`HubAdverts`.* A load waits for every relay (`Promise.all`) and then replaces the
list; a note is an object named by the load that made it and its address, because
a deletion keeps its object when the list is replaced. `relays` of a note are read
when the deletion has been signed and overwritten when its answers are there. A button is
disabled until the next rendering, which any load or deletion causes. A timed-out
load returns some of what the relay holds. `found`, `current` and `deleted` are
history.

*`FipsPeerCheck`.* `running` is the promise the page remembers, `check` holds all
that have not ended, also those of peers entered before. `Dialable`, `CheckError`,
`Rejected` and `Outcome` are the check in the Hub; the page treats an answer 400 as an exception,
which shows in the text below the field and leaves the header.

*`SetupPage`.* One load may be under way (`setupLoadRequest`), and whoever wants
another waits for it. The payload of a save is taken when the button is clicked, before
the signer is asked. `form` holds one URL, for the media servers, and the FIPS peer:
its address as a field, its key as the page's variable. Every edit of the address, every click on save and every
load of settings that name a peer writes `cache`, the copy in localStorage, and a load fills from it
what the settings leave blank (`hydrateFIPSState`). Settings are numbered in the order of their saves; `shown` is
the number the form was filled with last and is read by a property only.

*`WebClient`.* `sock` is `state.socket`, `ready` the browser's view of every socket
made. Questions to the signer (`asks`) know no socket when they are answered, as in the
code; an auth event carries the challenge of the socket it was asked for.
`controls` is what `setControls` last saw, because the buttons stay as they are
until it is called again.

*`AdvertDiscovery`.* One task for each relay; the group hands over their results in the
order in which they end.

*`FipsIdentity`.* The steps of `SaveNsec` as in `ConnectorSetup`, and the script's
wait loop in another process that may stop at any time.

## 3. Runs

Run | Question | Bounds and why they are enough
--- | --- | ---
`gate_admission` | are sessions admitted only on evidence? | two connections, two keys, one username that moves between them, times 0 to 2 with a lifetime of 1, so that rows expire in use and lookups outlast them; two challenges, so that an AUTH event is replayed on the other connection, on the same one after it was closed, and after a restart. Keys and connections are symmetric: only safety is checked
`gate_session` | what reaches upstream and what is given back? | one slot that is used again and two upstream connections, enough for one that is overwritten and one in its place; every message but REQ; no clock
`gate_liveness` | does the list of queries stay in order, and do the waits of a handler end? | two sessions and a list of two, so that it overflows; two relays to look a username up at, one after the other; no symmetry
`media_requests` | do saves, crashes and media calls go together? | one PUT and one call at a time: two PUTs are in the next two runs and the theorems; two services, two hosts, two secrets; five submissions that differ in what a save does
`setup_overlap` | violation, section 6 | two PUTs
`administration` | does the settings file stay whole, and free of secrets that are not needed, when saves overlap? does the setup form stay current? does FIPS run only whole identities, and start? does the page come to speak of the peer entered, with one check at a time? | two PUTs, which merge, write, rename and apply in every order, with the submissions of `media_requests`; three versions of the settings, with and without each half of a peer, three edits or clicks on save, two slots for loads, of which the code uses one; two saves of three identities, any stop; two peers, one with a key that is none, two addresses, one of them malformed, and three checks, so that two of former peers are under way beside a new one
`http_access` | is everything forwarded entitled to? | three keys (granted, entitled, neither), two relays per rule, three rules, three targets, every method, defects of the signature one at a time; bodies of every size from none to two more than the limit
`http_default` | violation, section 6 | a path without a target
`clients` | are a relay's verdicts reported truly, is nothing published late, does a session end without its timeout? is the newest advert listed, until it is deleted everywhere? does the web client know its socket? | six kinds of relay, three challenges, two notes, so that a load is cut short before, between and after them; two relays, two versions, one publication, two loads and two deletions, so that each overlaps each; three sockets: one in use, one replaced and one before it
`config_file` | is an accepted file enforced as written? | six lines: the shortest file with two groups that list one service, a rule for one of them and an owner has six, and one with a wiki five; files of any length are in section 5
`config_example` | violation, section 6 | the example file as it is shipped
`discovery_newest` | violation, section 6 | two relays, two versions of one advert

The properties, with what could break them, are stated above their definitions.
Deadlock is checked except where a behaviour ends: a session of the Hub page and
the reading of a file.

`clients` and `administration` put three and four components under one configuration. The
components share no state, so a behaviour chooses one of them and follows it, while
the others stay where they began: in states where none of their fair
actions is enabled (a session that is over, a page that is not connected, a sidecar
that is not up), so the fairness of one asks nothing of another.

Fairness. `RelayGate`: weak fairness of `TimedStep`, the steps that end at a
deadline or at once: cache and directory, lookups, dials, the wait for an OK, and the
answer to an AUTH, whose client reads it. Writes have no deadline in the code, so
sending to upstream and whatever else waits for somebody to read has no fairness, and
`HandlerReturns` speaks of the phases that need none. Clients, upstream and directory
owe nothing else. `HttpAccess`: weak fairness of the checks only (`CheckStep`), in which every relay
has its own context with a timeout; the one write to a relay is the first on its
connection and small. `Forward` has none, because it reads the body that the client
sends, without a deadline. `MediaRequests`: of the steps of
a call; the connector's HTTP client has a positive timeout
(`config.go:332`), after which "lost" is an answer. `FipsIdentity`: of the
sidecar's polling. `FipsPeerCheck`: of the browser's intervals and of checks, which end
because the Hub dials for four seconds at most and the signer's user answers or
declines. `SetupPage`: weak for the interval and the end of a load; strong for the
connector's answers and the filling of the form, because requests may fail any
number of times but a connector that never answers again shows nothing. The end of a load
needs the signer: a load waits for the check of the FIPS peer, which is signed, so
a prompt that nobody answers holds it and every later one. That its user answers or declines is
assumed; that anybody edits or saves is not. `HubRelaySession`: of the page's event loop, of the signer and
of a relay that reads what it is sent. `EndsWithoutTimeout` is about such relays, without the kind `strict`;
the page's own timeout, which ends it with the others, is not counted on.

Each property has a mutant beside the definition it changes (named
`Definition_WhatIsWrong`): a slip of the kind that could be made there, for which
TLC finds the property violated under the same configuration.

## 4. Order of the work

1. Gate, its contract and proofs. 2. Settings, their contract and proofs. 3. Media
calls over settings, identity and sidecar, HTTP access, relay sessions of the page,
configuration. 4. The advert list, the peer monitor, the setup page, the web client
and the iOS discovery. 5. Proofs of the safety properties of all of them. All of this is
done. What could follow: the parts that section 7 leaves out, of which the
proxy's rewriting of answers is the largest.

## 5. What is proved

For every number of keys, names, connections, relays, and every lifetime and
clock bound (assumptions: `ConstantsAssumption` of `RelayGate`, `NoRowAssumption`
of `AuthStore`):

- `RelayGate_proofs!TypeCorrect`: `Spec => []TypeOK`. `TypeOK` alone is not inductive:
  an action that puts a row needs the username of its call, so `PhaseOK` says what
  `pending` holds in each phase. One lemma for each helper that ends a step
  (`ContinueOK`, `ReturnOK`, `AnswerOK`, ...), one step for each action.
- `RelayGate_proofs!AdmissionInvariant`, `CacheIsBacked`, `GateKeepsContract`.
  The evidence for a decision moves from the handler that verified (`PutOK`) to the row
  (`StoreOK`) to the handler about to dial (`DialOK`); `PastOK` keeps times from
  lying ahead and `RestOK` says that nothing is left between messages. Together
  they are inductive; a cache hit gets its evidence from `StoreOK`. With them every
  step of the gate is a step of `AdmissionContract` or a stutter.
- `RelaySession_proofs!SessionInvariant` and from it `ProofsAreNotShared`,
  `LinksAreReleased`, `ForwardersAreBacked`, `OKComesFirst`, `ConfirmationsAreTrue`,
  `QueriesStayInOrder`. The invariant `Session` has a part for each. `Identity`: a
  challenge belongs to one connection and is never handed out again (`ChallengeOK`), a
  session's proof is over its own challenge (`ProofOK`), and an event that was ever used is over
  a challenge that no connection has now, or whose connection is authenticated (`UsedOK`); so
  the step that gives a connection its key cannot rest on a used event, whatever
  connections and processes have come and gone. A pipe runs only where an
  OK was written (`PipeOK`). `LinksOK`: which connections a handler holds in each phase, and
  that those overwritten serve nobody. `BackedOK`: a session's key has been linked to a name by a NIP-05
  check, now or earlier, which a cache row keeps over restarts (this rests on
  `AdmissionInvariant`). `VerdictOK`: a confirmation on its way comes from
  an upstream that stored the profile. `QueryOK`: a handler that has taken the time of a
  query but not yet the lock holds a time no older than those of its
  connection in the list, which is what keeps the list in order.

For any services, hosts, secrets, submissions, initial files and any number of
overlapping PUTs (assumptions `NoneAssumption`, `SetupAssumption`):

- `ConnectorSetup_proofs!SetupInvariant`, `SecretsFollowServices`, `FileIsNeverBroken`:
  what a PUT holds from its merge on is savable (normalised, valid, without
  secrets of services that are off), hence what it writes and applies.
  `answered` is needed because a file from before, or the environment, may hold
  such secrets.
- `ConnectorSetup_proofs!SavesImplementContract`: with one slot for PUTs, `Spec`
  implements `SettingsContract` under a mapping in which a save counts as applied
  from its rename on. That a PUT is still a merge into the settings in use
  (`MergedIntoMemory`) is what overlapping PUTs lack.
- `ConnectorSetup_proofs!CallsLeaveSettingsAlone`: `MediaSpec => Spec`, so the
  theorems above hold beside any number of calls for media; and
  `CallsUseOneSetting` (assumption `AsksAssumption`). For the latter `CallsOK` says that
  the settings in use now, those a call has taken and those it has asked with all give a
  pair of host and secret in `during`; the first is needed because a call of the
  gateway takes its settings later than it comes in.

For any rules, relays, follow lists, profiles, directory, requests and body limit
(assumptions `AccessAssumption`, `InputsAssumption`, which say what kind of value each
constant is, that times are integers and that every rule a route or a service names exists):

- `HttpAccess_proofs!AccessInvariant` and from it `TypeCorrect`,
  `OnlyEntitledForwarded`, `BodiesAreWhole`, `NewestListsKept`. The
  invariant `Access` adds to the types what a check in progress has
  established: the rules before the one at hand are proved (`CheckOK`), what was taken from a
  relay is about the signer of the request, by the newest filled list it sent (`AskingOK`), a request that is being forwarded
  has passed all its rules (`ForwardOK`), the list that is kept is the newest of those
  received that have entries (`ListsOK`), and an answer says nothing else (`OutcomeOK`). That a body is sent whole or not at all
  is arithmetic about the reader that stops one byte after the limit (`ReadLimit`).
  That a route asks for every rule of the proxy and of its target, each once
  (`UniqueNames`), is an induction over a list; it is replaced by an argument about the first position of
  a name (`LeastElement`, from the library's theorem that every non-empty set of
  numbers has a least one).

For any number of requests, peers, checks and loads (assumptions `NsecAssumption`,
`SetupPageAssumption`):

- `Administration_proofs!IdentitiesAreWhole`: what the volume, a save and FIPS hold are
  whole identities (`WholeFiles`).
- `Administration_proofs!ChecksDoNotPileUp`: `running` names every check of the
  peer that is monitored (`RunningIsCurrent`); a check begins only where `running` is
  empty or all have just been given up, and one that ends takes its own mark away.
- `Administration_proofs!FormGoesForward`, an action property: one load is under
  way at most (`OneLoad`), and an answer that has not filled the form yet is at least as new as the
  form (`FormFollows`). Without the first, an earlier load could be answered before and fill
  the form after a later one.

For any number of challenges and events (assumption `SessionAssumption`):

- `HubRelaySession_proofs!SessionInvariant`, `VerdictsAreTrue`,
  `NothingPublishedLate`. While a session goes on, one request or one answer is
  on the wire (`OneExchange`), whichever of timer, authentication and retry sent it; an
  answer that grants the request is under way only if the event is stored, or if every note the load has
  not received comes before it, whatever loads were cut short and begun again before
  (`GrantOnItsWay`). So the answer at hand decides truly; after it no request is under way that
  could change what it said (`Settled`).

For any number of sockets and messages (assumption `WebAssumption`):

- `Clients_proofs!WebInvariant`, `SocketIsKnown`. `PageKnowsItsSocket` is not
  inductive: that an OK to an auth event may be believed rests on `Underway` (messages
  exist only while the socket in hand is open, so none outlives it) and
  `TrueVerdicts` (a positive answer under way comes from a gate that has
  authenticated this very socket); that no other socket is left open rests on
  `OneSocket` (later sockets do not exist, earlier ones are closed).

For any number of relays, adverts, versions, loads and deletions (assumption
`AdvertAssumption`: a relay holds finitely many versions):

- `Clients_proofs!AdvertInvariant`, `NewestIsShown`, `OnlyDeletedAreGone`. The list is
  made by two nested loops over the relays' answers (`NotesByAddress`, `UpsertAll`, in
  the model recursive functions of the number of relays and of events taken), so the first
  part is an induction: `NaturalsInSet` gets it from the least element of a set of numbers,
  `StepsCanBeRun` gives that a function defined step by step exists, `UpsertAllOK` and
  `NotesByAddressOK` that after any number of events a note has the newest time met
  and exactly the relays that returned its address. `AdvertInv` then says that notes of the load that
  made the list stay so (`NotesAreNewest`), and that a relay missing from a note, or from what
  a deletion asks, has accepted a deletion (`MissingAreDeleted`); deletions are in both parts
  because they write back the relays they read before.

For files of any length, any lines, groups, services and keys (assumption
`ConfigAssumption`, which says of what kind the values of a line are):

- `ConfigFile_proofs!ConfigInvariant`, `GroupRulesAlwaysHold`, `RulesAreAlwaysDefined`,
  `NothingIsLost`. While the file is read, `ConfigInv` ties each part of the
  configuration to what has been said: `ListsSaid`, `GroupsSaid`, `TargetsSaid` (a target of a list is
  there unless the table of targets named another). One lemma for each kind of line shows
  that it changes its own part and no other. From the end of the file on, it says
  what the groups applied so far have left, in whatever order: `RulesMade`, `TargetsMade` and
  `ServicesMade`. `TargetsMade` needs its second half, that only keys with a target ask for rules:
  with it `addTargetKey`, which refuses a key that is taken, keeps two groups from
  sharing a key, so the rules of a target are those of one group. That every rule a target
  asks for exists does not use `validateAccessRules`, which leaves these out.

Model-checked only: the liveness properties (`HandlerReturns`, `CallsEnd`,
`CheckEnds`, `StartsOnceSaved`, `EndsWithoutTimeout`, `ShowsThePeerEntered`,
`FormCatchesUp`), which need fairness and ENABLED, out of the prover's reach. All
invariants and action properties of the passing runs are proved.

## 6. Where code and documents disagree

- `setup_overlap`: two overlapping PUTs, both answered 200, leave the file with
  the settings of one and the connector with those of the other
  (`setup.go:459`), against `docs/fips-media-pilot.md:160`.
- `http_default`: a path that names no target goes to the target "trustroots" without
  the rules of that target (`proxy.go:270`), against `generic-proxy/spec.md:31`.
- `config_example`: the example file uses two names that are no service alias to the
  loader, which knows `fips_jellyfin` and `fips_plex` (`targets.go:606`), against `README.md:61`.
- `discovery_newest`: the iOS client keeps, for an address, the advert of the relay that
  ends last (`ServiceAdvertClient.swift:15`; its adverts have no time at all), against
  `service-adverts/spec.md:46`, "the client keeps the newest advert for that
  address".

Seen without a run:

- HEAD requests for assets are refused for their method
  (`proxy.go:119`) before the exemption that `generic-proxy/spec.md:50` grants them.
- `["AUTH"]` without an event is answered with OK true (`server.go:424` returns no
  error) and the upstream is dialled, although nobody has been authenticated. The
  client can still send nothing upstream, for its key is empty. Another AUTH on the same
  connection dials again and overwrites the variable (`server.go:260`), and the
  deferred close (`server.go:214`) closes only the last: the earlier connection stays open until the process
  ends or the upstream closes it. `UpstreamReleased` excepts these connections (`abandoned`)
  and shows that they are the only ones and that none of them carries an authenticated session.
- Of two adverts with one time the Hub page keeps the first that arrives
  (`admin.go:1753`); `docs/nostr-service-advert.md:177` asks for the lower id.
- The Hub answers a peer check that fails with an error text alone
  (`admin.go:149`), without the diagnostic steps that `admin-hub/spec.md:83` describes.
- The setup form shows the default address for a service that is off
  (`setup.go:1306`), so the next save switches it on; and a poll overwrites
  edits of the media URLs that have not been saved. The address of the FIPS peer is
  overwritten too if the settings name a peer; if they name none, the field keeps what localStorage
  remembers, which every edit changes (`setup.go:963`), so a peer that was removed
  elsewhere comes back with the next save. All this is in `SetupPage`; no document speaks of it.
- The Hub page reports a load as complete that a relay ends with CLOSED, or by closing the
  connection, after some events (`admin.go:2258`, `2264`), and one that its timeout ends.
  `VerdictIsTrue` is about loads that an EOSE ends.
- The page takes a refusal with the word `restricted` for a demand to authenticate
  (`admin.go:2199`, `2453`). A relay that refuses so and never challenges leaves the session
  waiting for its timeout: `EndsWithoutTimeout` excepts that kind of relay, and with the exception
  taken away TLC finds the session that waits.
- An EVENT that is on the wire when a publication is reported as timed out may still be stored,
  and the page sends its AUTH after the end if the signer answers late and the socket
  is open (`admin.go:2469`). `NoLatePublication` is about everything else.
- What a relay says of follow lists is its word: one that withholds a newer list, or
  replays an old one alone, decides; and a newest list without entries revokes nothing,
  because the newest with entries counts (`access.go:328`).
- `PROXY_MAX_BODY_BYTES` of 2^63 - 1 would make the reader's limit, one more than it, negative
  and every body empty (`proxy.go:607`); `MaxBody` in the model is a natural number that does not wrap.
- In the web client a signature that comes late replaces `authEventID`, so the OK to
  the event that was really sent on this socket is no longer recognised (the page then takes itself for
  unauthenticated, never for more).

## 7. What is not modelled, and why

Rewriting of pages, headers and cookies by the proxy, decoding of search results
and the texts of answers: functions of one answer without state. Errors of the
cache database: each ends the AUTH as another refusal does. Socket buffers and
clients that do not read: see the fairness above. Durations of streams. Origin check,
health and NIP-11 answers, FIPS peer parsing: no state. Environment variables: read
once. The setup page's key fields (a load fills them only when they are
empty, a save clears them), its songs played as a test and the clipboard. The Hub
page's views of access rules, connectors and recent queries, each of which shows one answer.
A signer that changes its key while the Hub page is open. The screens of the iOS
client, which make one request each. Compose files, scripts and the static wikistr page.
