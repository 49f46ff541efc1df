----------------------------- MODULE MCClients -----------------------------
(***************************************************************************)
(* The browser clients of relays, for TLC: one relay session of the Hub    *)
(* page, its list of adverts, and the web client.  They share nothing but  *)
(* the browser, so a behaviour follows one of them while the others rest.  *)
(***************************************************************************)
EXTENDS HubRelaySession, HubAdverts, WebClient
LOCAL INSTANCE TLC

VARIABLE client  \* the one that is followed

allVars == <<client, vars, advertVars, webVars>>

MCRelayList == <<"r1", "r2">>

\* Both relays have an advert, one of them somebody else's newer one as well.
MCEarlier ==
    LET v(at, own) == [address |-> "a", at |-> at, own |-> own]
    IN  {("r1" :> {v(1, TRUE)}) @@ ("r2" :> {v(1, TRUE), v(2, FALSE)})}

\* A session that is over.
SessionRests ==
    /\ mode = "load" /\ kind = "open" /\ signer = FALSE
    /\ socket = "closed" /\ done = TRUE /\ result = "ok" /\ verdict = "none"
    /\ sent = FALSE /\ authEventId = 0 /\ authAccepted = FALSE /\ sendTimer = FALSE
    /\ signing = {} /\ events = {} /\ toRelay = <<>> /\ toPage = <<>>
    /\ challenge = 0 /\ member = FALSE /\ stored = FALSE

ClientsInit ==
    /\ client \in {"session", "adverts", "web"}
    /\ IF client = "session" THEN Init ELSE SessionRests
    /\ AdvertInit
    /\ WebInit

ClientsNext ==
    \/ client = "session" /\ Next /\ UNCHANGED <<client, advertVars, webVars>>
    \/ client = "adverts" /\ AdvertNext /\ UNCHANGED <<client, vars, webVars>>
    \/ client = "web" /\ WebNext /\ UNCHANGED <<client, vars, advertVars>>

ClientsSpec == ClientsInit /\ [][ClientsNext]_allVars /\ Fairness
============================================================================
