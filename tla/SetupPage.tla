----------------------------- MODULE SetupPage -----------------------------
(***************************************************************************)
(* The connector's setup page (the script in internal/media/setup.go): a   *)
(* form that is filled from the settings in use every five seconds, edited *)
(* and saved.  A load may fail at each of its requests; everybody who      *)
(* wants one while it is under way waits for that one.  What a PUT does in *)
(* the connector is ConnectorSetup, here it is one step.  One field stands *)
(* for the URLs of the media servers.  The FIPS peer has a copy in the     *)
(* browser's localStorage, which fills the form when no peer is in use.    *)
(* The key fields, which no load replaces once they are filled and a save  *)
(* clears, are left out.                                                   *)
(***************************************************************************)
EXTENDS Naturals

CONSTANTS
    Urls, PeerNpubs, PeerAddrs, \* values of the form's fields
    Submitted,   \* settings saved from other browsers
    DefaultUrl,  \* what the form shows for a service that is off
    Off,         \* the empty value
    MaxVersion,  \* bound on the saves
    MaxEdits,    \* bound on the edits and on the clicks on save
    LoadSlots    \* loads the page could have under way

GivenPeers    == [npub : PeerNpubs \cup {Off}, addr : PeerAddrs \cup {Off}]
Contents == [url : Urls \cup {Off}, peer : GivenPeers]

ASSUME SetupPageAssumption ==
    /\ DefaultUrl \in Urls /\ Off \notin Urls
    /\ Submitted \subseteq Contents
    /\ MaxVersion \in Nat /\ MaxEdits \in Nat

VARIABLES
    inUse,       \* external: the settings in use and their number
    form,        \* the fields of the form, and currentFIPSPeerNpub
    cache,       \* the FIPS peer in localStorage
    edits,       \* number of edits, and of clicks on save
    pubkey,      \* currentPubkey is set
    visible,     \* it has been set before: the form is visible and the interval runs
    loads,       \* setupLoadRequest, with the settings it was answered with
    saving,      \* where a save stands
    payload,     \* what it sends
    joined,      \* the load it waits for, a set of at most one
    shown        \* number of the settings the form was filled with last, read by a property

setupPageVars ==
    <<inUse, form, cache, edits, pubkey, visible, loads, saving, payload, joined, shown>>

NoPeerGiven == [npub |-> Off, addr |-> Off]
Blank       == [url |-> Off, peer |-> NoPeerGiven]

NoLoad == [stage |-> "none", got |-> [content |-> Blank, number |-> 0]]

\* The page is opened: the form is empty, localStorage is what an earlier visit left.
SetupPageInit ==
    /\ inUse = [content |-> Blank, number |-> 1]
    /\ form = Blank
    /\ cache \in GivenPeers
    /\ edits = 0
    /\ pubkey = FALSE /\ visible = FALSE
    /\ loads = [s \in LoadSlots |-> NoLoad]
    /\ saving = "none" /\ payload = Blank /\ joined = {}
    /\ shown = 0

-----------------------------------------------------------------------------
(* load *)

Loading == {s \in LoadSlots : loads[s].stage # "none"}

\* Mutant: a load is begun although another is under way.
MayLoad_Anyway == Loading # LoadSlots

MayLoad == Loading = {}

Free == CHOOSE s \in LoadSlots : s \notin Loading

BeginFetch(s) == loads' = [loads EXCEPT ![s] = [NoLoad EXCEPT !.stage = "fetching"]]

\* The interval, the refresh button and the end of connect: a load begins unless
\* one is under way.
Load(s) ==
    /\ pubkey
    /\ MayLoad /\ s = Free
    /\ BeginFetch(s)
    /\ UNCHANGED <<inUse, form, cache, edits, pubkey, visible, saving, payload, joined, shown>>

\* The connector answers GET config and GET status.
ConfigAnswered(s) ==
    /\ loads[s].stage = "fetching"
    /\ loads' = [loads EXCEPT ![s] = [stage |-> "answered", got |-> inUse]]
    /\ UNCHANGED <<inUse, form, cache, edits, pubkey, visible, saving, payload, joined, shown>>

OrElse(value, other) == IF value = Off THEN other ELSE value

\* The form for settings c: what is blank in the FIPS peer comes from localStorage
\* (hydrateFIPSState).
Filled(c) ==
    [url  |-> OrElse(c.url, DefaultUrl),
     peer |-> [npub |-> OrElse(c.peer.npub, cache.npub), addr |-> OrElse(c.peer.addr, cache.addr)]]

\* Both answers are there: the form is filled, whatever it held, a peer that is in
\* use is put into localStorage, and is checked.
FormFilled(s) ==
    /\ loads[s].stage = "answered"
    /\ loads' = [loads EXCEPT ![s].stage = "checking"]
    /\ form' = Filled(loads[s].got.content)
    /\ cache' = LET peer == loads[s].got.content.peer
                IN  IF peer # NoPeerGiven THEN peer ELSE cache
    /\ shown' = loads[s].got.number
    /\ UNCHANGED <<inUse, edits, pubkey, visible, saving, payload, joined>>

\* Mutant: only a load that succeeds makes place for the next.
AfterLoad_OnSuccess(s, ok) == IF ok THEN NoLoad ELSE [loads[s] EXCEPT !.stage = "failed"]

\* finally
AfterLoad(s, ok) == NoLoad

\* Those who wait for the load come back with it.
LoadOver(s, ok) ==
    /\ loads' = [loads EXCEPT ![s] = AfterLoad(s, ok)]
    /\ saving' = IF s \in joined THEN "none" ELSE saving
    /\ joined' = joined \ {s}
    /\ UNCHANGED <<inUse, form, cache, edits, pubkey, visible, payload, shown>>

\* runSetupFIPSPeerConnectivityCheck has come back, or there is no peer.
LoadDone(s) == loads[s].stage = "checking" /\ LoadOver(s, TRUE)

\* A request fails, or the signer of the peer check says no.
LoadFails(s) == loads[s].stage \in {"fetching", "answered", "checking"} /\ LoadOver(s, FALSE)

-----------------------------------------------------------------------------
(* The user *)

\* connect: getPublicKey answers with a key, or with something that is none.
GetPublicKey(ok) ==
    /\ pubkey' = ok
    /\ visible' = (visible \/ ok)
    /\ UNCHANGED <<inUse, form, cache, edits, loads, saving, payload, joined, shown>>

Edit(content) ==
    /\ visible /\ edits < MaxEdits
    /\ edits' = edits + 1
    /\ form' = content
    /\ UNCHANGED <<inUse, pubkey, visible, loads, saving, payload, joined, shown>>

EditUrl(url) == Edit([form EXCEPT !.url = url]) /\ UNCHANGED cache

\* persistFIPSPeerInputs
EditPeer(addr) == Edit([form EXCEPT !.peer.addr = addr]) /\ cache' = form'.peer

\* save, up to the signer: the payload is taken from the form when the button is
\* clicked, its peer goes to localStorage, and the button stays disabled until the
\* save is over.
Save ==
    /\ visible /\ saving = "none"
    /\ inUse.number < MaxVersion /\ edits < MaxEdits
    /\ edits' = edits + 1
    /\ saving' = "signing"
    /\ payload' = form
    /\ cache' = form.peer
    /\ UNCHANGED <<inUse, form, pubkey, visible, loads, joined, shown>>

\* signedFetch connects first if it has to.
SaveSigned ==
    /\ saving = "signing"
    /\ saving' = "sent"
    /\ pubkey' = TRUE
    /\ UNCHANGED <<inUse, form, cache, edits, visible, loads, payload, joined, shown>>

\* The connector saves and applies the settings.
PutApplied ==
    /\ saving = "sent" /\ inUse.number < MaxVersion
    /\ saving' = "applied"
    /\ inUse' = [content |-> payload, number |-> inUse.number + 1]
    /\ UNCHANGED <<form, cache, edits, pubkey, visible, loads, payload, joined, shown>>

\* The answer 200: load, or wait for the one that is under way.
PutAnswered ==
    /\ saving = "applied"
    /\ payload' = Blank
    /\ IF ~pubkey
       THEN saving' = "none" /\ UNCHANGED <<loads, joined>>
       ELSE /\ saving' = "loading"
            /\ \E s \in LoadSlots :
                 /\ joined' = {s}
                 /\ IF MayLoad THEN s = Free /\ BeginFetch(s)
                               ELSE s \in Loading /\ UNCHANGED loads
    /\ UNCHANGED <<inUse, form, cache, edits, pubkey, visible, shown>>

\* The signer says no, the settings are refused, or the answer is lost.
SaveRefused ==
    /\ saving \in {"signing", "sent", "applied"}
    /\ saving' = "none"
    /\ payload' = Blank
    /\ UNCHANGED <<inUse, form, cache, edits, pubkey, visible, loads, joined, shown>>

\* Somebody else saves, from another browser.
OthersSave(content) ==
    /\ inUse.number < MaxVersion
    /\ inUse' = [content |-> content, number |-> inUse.number + 1]
    /\ UNCHANGED <<form, cache, edits, pubkey, visible, loads, saving, payload, joined, shown>>

-----------------------------------------------------------------------------
SetupPageNext ==
    \/ \E s \in LoadSlots :
         Load(s) \/ ConfigAnswered(s) \/ FormFilled(s) \/ LoadDone(s) \/ LoadFails(s)
    \/ \E ok \in BOOLEAN : GetPublicKey(ok)
    \/ \E url \in Urls \cup {Off} : EditUrl(url)
    \/ \E addr \in PeerAddrs \cup {Off} : EditPeer(addr)
    \/ \E content \in Submitted : OthersSave(content)
    \/ Save \/ SaveSigned \/ PutApplied \/ PutAnswered \/ SaveRefused

\* The interval fires, requests come back one way or the other, and the connector
\* is not out of reach for ever.  The user need not save or edit, but the signer
\* answers what the peer check asks it: a load waits for it, and the page for the
\* load.
SetupPageFairness ==
    /\ WF_setupPageVars(\E s \in LoadSlots : Load(s))
    /\ \A s \in LoadSlots :
         /\ WF_setupPageVars(LoadDone(s) \/ LoadFails(s))
         /\ SF_setupPageVars(ConfigAnswered(s))
         /\ SF_setupPageVars(FormFilled(s))

SetupPageSpec == SetupPageInit /\ [][SetupPageNext]_setupPageVars /\ SetupPageFairness

-----------------------------------------------------------------------------
(* Properties *)

\* The form is never filled with older settings than it was before: a slow answer
\* to one load cannot undo what a later one has shown, however loads, saves and
\* failures interleave.
FormNeverOlder == [][shown' >= shown]_setupPageVars

\* When nobody saves or edits any more the form comes to show the settings in use
\* and goes on showing them, whatever requests have failed on the way and
\* whichever load a save has joined, as long as the page stays connected.  Of the
\* FIPS peer this is so if the settings name one: a blank half of it is first filled
\* with what localStorage remembers, and remembers it no more at the next load.
FormCatchesUp ==
    <>[]pubkey =>
        <>[](/\ form.url = OrElse(inUse.content.url, DefaultUrl)
             /\ inUse.content.peer # NoPeerGiven => form.peer = inUse.content.peer)
============================================================================
