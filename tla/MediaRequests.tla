--------------------------- MODULE MediaRequests ---------------------------
(***************************************************************************)
(* Requests for media while the settings change (internal/media): calls of *)
(* the public gateway to the connector (gateway.go, connector.go) and the  *)
(* trials an administrator starts from the setup page (setup.go).  Each    *)
(* runs in a goroutine of its own, takes the settings in use once, under   *)
(* the connector's mutex, and asks a media server with them.  Whether the  *)
(* caller may ask at all is HttpAccess's part; the saving of settings, the *)
(* crashes and the restarts are ConnectorSetup's.                          *)
(*                                                                         *)
(* A call is a record: where it comes from, the service and the action it  *)
(* names, whether its query or stream id is well formed, and the candidate *)
(* settings a trial may carry.                                             *)
(***************************************************************************)
EXTENDS ConnectorSetup, Integers

CONSTANTS
    Calls,       \* slots for calls in progress
    Asks         \* what is called for

ASSUME AsksAssumption ==
    \A q \in Asks :
        /\ q.from \in {"gateway", "setup"}
        /\ q.action \in {"status", "search", "random-song", "stream", "test"}
        /\ q.service \in Services
        /\ q.wellFormed \in BOOLEAN
        /\ q.candidate \in Bodies \cup {None}
        /\ q.from = "gateway" => q.candidate = None /\ q.action # "test"
        /\ q.from = "setup" => q.action \in {"random-song", "stream", "test"}

VARIABLES
    trusted,     \* the gateway's address and token are those the connector expects
    stage,       \* where a call stands
    ask,         \* what it is for
    using,       \* the settings it took
    retries,     \* other ways left to ask
    asked,       \* host and secret the media server was asked with
    during       \* hosts and secrets that went together since the call came in,
                 \* read by the properties

callVars == <<stage, ask, using, retries, asked, during>>
allVars  == <<vars, trusted, callVars>>

NoCall == [from |-> "nobody"]

\* The settings of a call, by the settings c in use: a trial may bring candidate
\* ones, into which the secrets in use are merged; nothing validates them.
SettingsFor(q, c) == IF q.candidate = None THEN c ELSE Merge(c, q.candidate)

\* Host and secret that settings c give a call.
Given(c, q) ==
    LET used == SettingsFor(q, c)
        url  == used.url[q.service]
    IN  [host |-> IF url = None THEN None ELSE url.host, token |-> used.token[q.service]]

MediaInit ==
    /\ Init
    /\ trusted \in BOOLEAN
    /\ stage = [m \in Calls |-> "none"]
    /\ ask = [m \in Calls |-> NoCall]
    /\ using = [m \in Calls |-> None]
    /\ retries = [m \in Calls |-> 0]
    /\ asked = [m \in Calls |-> None]
    /\ during = [m \in Calls |-> {}]

\* The call is answered, whatever the answer.
Answer(m) ==
    /\ stage' = [stage EXCEPT ![m] = "none"]
    /\ ask' = [ask EXCEPT ![m] = NoCall]
    /\ using' = [using EXCEPT ![m] = None]
    /\ retries' = [retries EXCEPT ![m] = 0]
    /\ asked' = [asked EXCEPT ![m] = None]
    /\ during' = [during EXCEPT ![m] = {}]
    /\ UNCHANGED <<vars, trusted>>

\* On to the next stage, with the settings c.
Proceed(m, to, c) ==
    /\ stage' = [stage EXCEPT ![m] = to]
    /\ using' = [using EXCEPT ![m] = c]

-----------------------------------------------------------------------------
(* Calls come in *)

\* The gateway has authorised a request and reaches the connector; when that is
\* down the call is over at once.
GatewayCalls(m, q) ==
    /\ q.from = "gateway"
    /\ stage[m] = "none"
    /\ memory # None
    /\ Proceed(m, "connector", None)
    /\ ask' = [ask EXCEPT ![m] = q]
    /\ during' = [during EXCEPT ![m] = {Given(memory, q)}]
    /\ UNCHANGED <<vars, trusted, retries, asked>>

\* Connector.ServeHTTP: who may call, which route, and one look at the settings.
ConnectorServes(m) ==
    LET q      == ask[m]
        served == trusted /\ q.action # "status" /\ (q.action = "search" => q.wellFormed)
    IN  /\ stage[m] = "connector"
        /\ \/ ~served /\ Answer(m)
           \/ /\ served
              /\ Proceed(m, "build", memory)
              /\ UNCHANGED <<vars, trusted, ask, retries, asked, during>>

\* A trial that an administrator signed.  A song of Jellyfin is asked for in two
\* ways.
SetupCalls(m, q) ==
    /\ q.from = "setup"
    /\ stage[m] = "none"
    /\ memory # None
    /\ Proceed(m, "build", SettingsFor(q, memory))
    /\ ask' = [ask EXCEPT ![m] = q]
    /\ retries' = [retries EXCEPT ![m] = IF q.action = "stream" /\ q.service = "jellyfin" THEN 1 ELSE 0]
    /\ during' = [during EXCEPT ![m] = {Given(memory, q)}]
    /\ UNCHANGED <<vars, trusted, asked>>

-----------------------------------------------------------------------------
(* Media servers are asked *)

\* Mutant: the secret is looked up when the request is built.
Credentials_Late(m) == [host |-> using[m].url[ask[m].service].host, token |-> memory.token[ask[m].service]]

\* URL and secret of a request to the media server.
Credentials(m) ==
    LET s == ask[m].service IN [host |-> using[m].url[s].host, token |-> using[m].token[s]]

\* A request can be built: the service is configured, by a URL, and the id of a
\* stream is well formed.
Buildable(q, c) ==
    /\ c.url[q.service] # None
    /\ c.url[q.service].host # BadHost
    /\ q.action = "stream" => q.wellFormed

\* The request is built and sent, or that is all.
AskMedia(m) ==
    /\ stage[m] = "build"
    /\ \/ ~Buildable(ask[m], using[m]) /\ Answer(m)
       \/ /\ Buildable(ask[m], using[m])
          /\ asked' = [asked EXCEPT ![m] = Credentials(m)]
          /\ Proceed(m, "media", using[m])
          /\ UNCHANGED <<vars, trusted, ask, retries, during>>

\* Mutant: the ways that are left are not counted.
Retry_Uncounted(m) ==
    /\ Proceed(m, "build", using[m])
    /\ UNCHANGED <<vars, trusted, ask, retries, asked, during>>

\* streamJellyfinRandomSong: the next way to ask, with the same settings.
Retry(m) ==
    /\ Proceed(m, "build", using[m])
    /\ retries' = [retries EXCEPT ![m] = @ - 1]
    /\ UNCHANGED <<vars, trusted, ask, asked, during>>

\* The media server answers well, with an error, or not at all until the HTTP
\* client's timeout.
MediaAnswers(m, outcome) ==
    /\ stage[m] = "media"
    /\ \/ outcome = "ok" /\ Answer(m)
       \/ outcome # "ok" /\ retries[m] > 0 /\ Retry(m)
       \/ outcome # "ok" /\ retries[m] = 0 /\ Answer(m)

\* The gateway's own timeout ends the call, here and at the connector.
GatewayGivesUp(m) ==
    /\ stage[m] # "none"
    /\ ask[m].from = "gateway"
    /\ Answer(m)

-----------------------------------------------------------------------------
(* Together with the saving of settings *)

SettingsChange ==
    /\ SetupStep
    /\ during' = [m \in Calls |-> IF stage[m] = "none" THEN {} ELSE during[m] \cup {Given(memory', ask[m])}]
    /\ UNCHANGED <<trusted, stage, ask, using, retries, asked>>

\* The connector dies; whoever called it is told so.
ConnectorDies ==
    /\ Stop
    /\ stage' = [m \in Calls |-> "none"]
    /\ ask' = [m \in Calls |-> NoCall]
    /\ using' = [m \in Calls |-> None]
    /\ retries' = [m \in Calls |-> 0]
    /\ asked' = [m \in Calls |-> None]
    /\ during' = [m \in Calls |-> {}]
    /\ UNCHANGED trusted

CallStep(m) ==
    \/ ConnectorServes(m)
    \/ AskMedia(m)
    \/ \E outcome \in {"ok", "error", "lost"} : MediaAnswers(m, outcome)

MediaNext ==
    \/ \E m \in Calls, q \in Asks : GatewayCalls(m, q) \/ SetupCalls(m, q)
    \/ \E m \in Calls : CallStep(m) \/ GatewayGivesUp(m)
    \/ SettingsChange
    \/ ConnectorDies

\* Handlers run on, and an HTTP client with a timeout gets an answer or none.
MediaSpec == MediaInit /\ [][MediaNext]_allVars /\ \A m \in Calls : WF_allVars(CallStep(m))

-----------------------------------------------------------------------------
(* Properties *)

\* A media server is only asked with a host and a secret that belong together:
\* those of settings that were in use as a whole at one moment since the call
\* came in, however a save, or the second attempt of a trial, falls in between.
\* So a call that comes in after a service was switched off asks nobody.
AskedWithOneSetting ==
    \A m \in Calls :
        asked[m] # None => asked[m] \in during[m]

\* Every call is answered, whatever the media servers do and whatever happens to
\* the settings or the connector meanwhile.
CallsEnd == \A m \in Calls : stage[m] # "none" ~> stage[m] = "none"
============================================================================
