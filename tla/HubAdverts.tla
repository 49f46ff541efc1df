----------------------------- MODULE HubAdverts -----------------------------
(***************************************************************************)
(* The adverts the Hub page (the script in internal/relay/admin.go) lists, *)
(* publishes and deletes.  A load asks every relay and builds the list     *)
(* when the last has answered or given up; loads, one publication and any  *)
(* number of deletions go on at the same time.  Notes are objects: a       *)
(* deletion keeps the one it was clicked on, also when the list has been   *)
(* replaced.  What one relay says of one request is HubRelaySession.  The  *)
(* signer keeps its key, so the administrator's own adverts stay so.       *)
(***************************************************************************)
EXTENDS Naturals, Sequences, FiniteSets, Functions

CONSTANTS
    RelayList,   \* the relays a load asks, in order
    Addresses,   \* of adverts, "31388:<pubkey>:<d>"
    LastTime,    \* bound on created_at
    Earlier,     \* what relays may hold when the page is opened
    MaxLoads,    \* bound on the loads of a visit
    Deletions    \* slots for deletions in progress

Relays == {RelayList[i] : i \in DOMAIN RelayList}

\* own: signed by the administrator who is looking.
Versions == [address : Addresses, at : 1..LastTime, own : BOOLEAN]

\* A relay holds finitely many adverts.
ASSUME AdvertAssumption ==
    /\ RelayList \in Seq(Relays)
    /\ LastTime \in Nat /\ MaxLoads \in Nat \ {0}
    /\ Earlier \subseteq [Relays -> {versions \in SUBSET Versions : IsFiniteSet(versions)}]

VARIABLES
    held,        \* external: the versions each relay holds
    begun,       \* number of the last load
    loading,     \* loads that have not ended
    waiting,     \* relays a load waits for
    answers,     \* what they returned to it
    notes,       \* note objects, by load and address
    list,        \* state.advertNotes
    publish,     \* the publication in progress
    deletion,    \* the deletions in progress
    current,     \* load that made the list, read by the properties
    found,       \* the own versions it was given, with their relays, likewise
    deleted      \* deletions accepted, by note and relay, likewise

advertVars == <<held, begun, loading, waiting, answers, notes, list, publish, deletion, current,
                found, deleted>>

NoNote == <<0, CHOOSE a \in Addresses : TRUE>>
NoVersion == [address |-> NoNote[2], at |-> 0, own |-> TRUE]
NoPublication == [stage |-> "none", advert |-> NoVersion, left |-> {}, accepted |-> {}]
NoDeletion == [stage |-> "none", note |-> NoNote, button |-> FALSE, asked |-> {}, left |-> {},
               accepted |-> {}]

AdvertInit ==
    /\ held \in Earlier
    /\ begun = 0 /\ loading = {}
    /\ waiting = [l \in 1..MaxLoads |-> {}]
    /\ answers = [l \in 1..MaxLoads |-> [r \in Relays |-> <<>>]]
    /\ notes = <<>> /\ list = {}
    /\ publish = NoPublication
    /\ deletion = [d \in Deletions |-> NoDeletion]
    /\ current = 0 /\ found = {} /\ deleted = {}

-----------------------------------------------------------------------------
(* loadAdvertNotes *)

BeginLoad ==
    /\ begun' = begun + 1
    /\ loading' = loading \cup {begun + 1}
    /\ waiting' = [waiting EXCEPT ![begun + 1] = Relays]

\* connect, loadAll, renderOverview: once a visit, for the page stays connected.
LoadOverview ==
    /\ begun = 0
    /\ BeginLoad
    /\ UNCHANGED <<held, answers, notes, list, publish, deletion, current, found, deleted>>

\* A relay has sent what it holds, in any order, or some of it when the load
\* timed out or the connection closed: all three count as an answer.
RelayAnswers(l, r) ==
    /\ r \in waiting[l]
    /\ waiting' = [waiting EXCEPT ![l] = @ \ {r}]
    /\ \E n \in 0..Cardinality(held[r]) : \E events \in Injection(1..n, held[r]) :
          answers' = [answers EXCEPT ![l][r] = events]
    /\ UNCHANGED <<held, begun, loading, notes, list, publish, deletion, current, found, deleted>>

\* loadAdvertNotesFromRelay catches the error; the relay contributes nothing.
RelayLookupFails(l, r) ==
    /\ r \in waiting[l]
    /\ waiting' = [waiting EXCEPT ![l] = @ \ {r}]
    /\ UNCHANGED <<held, begun, loading, answers, notes, list, publish, deletion, current, found,
                   deleted>>

\* Mutant: an older version that comes later replaces the newer one.
UpsertAdvertNote_LastWins(byAddress, event, relay) ==
    IF ~event.own THEN byAddress
    ELSE [byAddress EXCEPT ![event.address] =
            [at |-> event.at, relays |-> @.relays \cup {relay}]]

\* A relay that has an older version counts as one the note was found on.
UpsertAdvertNote(byAddress, event, relay) ==
    IF ~event.own THEN byAddress
    ELSE [byAddress EXCEPT ![event.address] =
            [at |-> IF event.at <= @.at THEN @.at ELSE event.at, relays |-> @.relays \cup {relay}]]

\* The events of one relay, one after the other.
UpsertAll(byAddress, events, relay) ==
    LET upserted[n \in 0..Len(events)] ==
            IF n = 0 THEN byAddress ELSE UpsertAdvertNote(upserted[n - 1], events[n], relay)
    IN  upserted[Len(events)]

\* All relays' events, relay by relay; an address that nothing was found of has
\* no relays.
NotesByAddress(l) ==
    LET merged[n \in 0..Len(RelayList)] ==
            IF n = 0 THEN [a \in Addresses |-> [at |-> 0, relays |-> {}]]
            ELSE UpsertAll(merged[n - 1], answers[l][RelayList[n]], RelayList[n])
    IN  merged[Len(RelayList)]

\* renderAdvertServices: every card and its button is made anew.
Rendered(ds) == [d \in Deletions |-> [ds[d] EXCEPT !.button = FALSE]]

\* The notes that the list or a deletion still refers to.
Referred(ids, ds) == ids \cup {ds[d].note : d \in {e \in Deletions : ds[e].stage # "none"}}

LoadEnds(l) ==
    /\ l \in loading /\ waiting[l] = {}
    /\ loading' = loading \ {l}
    /\ LET byAddress == NotesByAddress(l)
           ids       == {<<l, a>> : a \in {b \in Addresses : byAddress[b].relays # {}}}
           old       == Referred({}, deletion)
       IN  /\ list' = ids
           /\ notes' = [id \in ids \cup old |-> IF id \in ids THEN byAddress[id[2]] ELSE notes[id]]
           /\ deleted' = {x \in deleted : x[1] \in old}
    /\ deletion' = Rendered(deletion)
    /\ current' = l
    /\ found' = {x \in Versions \X Relays : x[1].own /\ x[1] \in Range(answers[l][x[2]])}
    /\ answers' = [answers EXCEPT ![l] = [r \in Relays |-> <<>>]]
    /\ UNCHANGED <<held, begun, waiting, publish>>

-----------------------------------------------------------------------------
(* publishAdvertFromForm: one at a time, for its button is disabled meanwhile *)

\* buildAdvertEvent, with the time that it is, and the question to the signer.
PublishAdvert(v) ==
    /\ begun \in 1..(MaxLoads - 1) /\ publish.stage = "none"
    /\ v.own /\ \A r \in Relays, w \in Versions : w \in held[r] => w.at <= v.at
    /\ publish' = [NoPublication EXCEPT !.stage = "signing", !.advert = v]
    /\ UNCHANGED <<held, begun, loading, waiting, answers, notes, list, deletion, current, found,
                   deleted>>

\* The relays are read from the form once the event is signed.
AdvertSigned(relays) ==
    /\ publish.stage = "signing" /\ relays # {}
    /\ publish' = [publish EXCEPT !.stage = "publishing", !.left = relays]
    /\ UNCHANGED <<held, begun, loading, waiting, answers, notes, list, deletion, current, found,
                   deleted>>

\* The signer says no, or no relay is in the form.
AdvertRefused ==
    /\ publish.stage = "signing"
    /\ publish' = NoPublication
    /\ UNCHANGED <<held, begun, loading, waiting, answers, notes, list, deletion, current, found,
                   deleted>>

\* publishAdvertToRelay comes back: a relay that is heard to accept has stored
\* it, one that is not may have.
AdvertAnswered(r) ==
    /\ r \in publish.left
    /\ \E stores \in BOOLEAN, ok \in BOOLEAN :
         /\ ok => stores
         /\ held' = IF stores THEN [held EXCEPT ![r] = @ \cup {publish.advert}] ELSE held
         /\ publish' = [publish EXCEPT !.left = @ \ {r},
                                       !.accepted = IF ok THEN @ \cup {r} ELSE @]
    /\ UNCHANGED <<begun, loading, waiting, answers, notes, list, deletion, current, found, deleted>>

\* Once one relay has accepted, the list is loaded again; nobody waits for that.
PublicationEnds ==
    /\ publish.stage = "publishing" /\ publish.left = {}
    /\ IF publish.accepted # {} THEN BeginLoad ELSE UNCHANGED <<begun, loading, waiting>>
    /\ publish' = NoPublication
    /\ UNCHANGED <<held, answers, notes, list, deletion, current, found, deleted>>

-----------------------------------------------------------------------------
(* deleteAdvertNote *)

\* The button of a note is disabled by its own deletion until the next rendering.
DeleteAdvertNote(d, id) ==
    /\ deletion[d].stage = "none"
    /\ id \in list
    /\ \A e \in Deletions : ~(deletion[e].stage # "none" /\ deletion[e].note = id /\ deletion[e].button)
    /\ deletion' = [deletion EXCEPT ![d] = [NoDeletion EXCEPT !.stage = "signing", !.note = id,
                                                              !.button = TRUE]]
    /\ UNCHANGED <<held, begun, loading, waiting, answers, notes, list, publish, current, found,
                   deleted>>

\* The note's relays are read when the deletion has been signed.
DeletionSigned(d) ==
    /\ deletion[d].stage = "signing"
    /\ LET relays == notes[deletion[d].note].relays
       IN  deletion' = [deletion EXCEPT ![d].stage = "publishing", ![d].asked = relays,
                                        ![d].left = relays]
    /\ UNCHANGED <<held, begun, loading, waiting, answers, notes, list, publish, current, found,
                   deleted>>

\* The object a deletion that ends was for may be nobody's any more.
Forget(ids, ds, objects) ==
    notes' = [id \in Referred(ids, ds) |-> objects[id]]

DeletionRefused(d) ==
    /\ deletion[d].stage = "signing"
    /\ deletion' = [deletion EXCEPT ![d] = NoDeletion]
    /\ Forget(list, deletion', notes)
    /\ UNCHANGED <<held, begun, loading, waiting, answers, list, publish, current, found, deleted>>

\* publishAdvertToRelay comes back for the deletion event.
DeletionAnswered(d, r) ==
    /\ r \in deletion[d].left
    /\ \E removes \in BOOLEAN, ok \in BOOLEAN :
         /\ ok => removes
         /\ held' = IF removes
                    THEN [held EXCEPT ![r] = {v \in @ : ~v.own \/ v.address # deletion[d].note[2]}]
                    ELSE held
         /\ deletion' = [deletion EXCEPT ![d].left = @ \ {r},
                                         ![d].accepted = IF ok THEN @ \cup {r} ELSE @]
    /\ UNCHANGED <<begun, loading, waiting, answers, notes, list, publish, current, found, deleted>>

\* Mutant: one relay that accepts is enough for the note to go.
StillListed_AnyAccepted(id, note, objects) == id[2] # note[2]

\* The filter of state.advertNotes, by address.
StillListed(id, note, objects) == id[2] # note[2] \/ objects[id].relays # {}

DeletionEnds(d) ==
    LET note     == deletion[d].note
        accepted == deletion[d].accepted
        objects  == IF accepted = {} THEN notes
                    ELSE [notes EXCEPT ![note].relays = deletion[d].asked \ accepted]
    IN  /\ deletion[d].stage = "publishing" /\ deletion[d].left = {}
        /\ list' = IF accepted = {} THEN list
                   ELSE {id \in list : StillListed(id, note, objects)}
        /\ deleted' = deleted \cup {<<note, r>> : r \in accepted}
        /\ deletion' = Rendered([deletion EXCEPT ![d] = NoDeletion])
        /\ Forget(list', deletion', objects)
        /\ UNCHANGED <<held, begun, loading, waiting, answers, publish, current, found>>

-----------------------------------------------------------------------------
LoadStep ==
    \/ \E l \in loading : LoadEnds(l) \/ \E r \in Relays : RelayAnswers(l, r) \/ RelayLookupFails(l, r)
    \/ PublicationEnds

AdvertNext ==
    \/ LoadOverview
    \/ LoadStep
    \/ \E v \in Versions : PublishAdvert(v)
    \/ \E relays \in SUBSET Relays : AdvertSigned(relays)
    \/ AdvertRefused
    \/ \E r \in Relays : AdvertAnswered(r)
    \/ \E d \in Deletions :
         \/ \E id \in list : DeleteAdvertNote(d, id)
         \/ DeletionSigned(d) \/ DeletionRefused(d)
         \/ \E r \in Relays : DeletionAnswered(d, r)
         \/ DeletionEnds(d)

AdvertSpec == AdvertInit /\ [][AdvertNext]_advertVars

-----------------------------------------------------------------------------
(* Properties *)

FoundOf(a) == {x \in found : x[1].address = a}
FoundOn(a) == {x[2] : x \in FoundOf(a)}

\* A listed advert is the newest of the administrator's own among all that the
\* relays returned to the load that made the list, in whatever order they came,
\* and claims no relay that did not return it; other people's adverts are not
\* listed, and a load that ends never leaves notes of another in the list.
NewestShown ==
    \A id \in list :
       /\ id[1] = current
       /\ \E x \in FoundOf(id[2]) : notes[id].at = x[1].at
       /\ \A x \in FoundOf(id[2]) : x[1].at <= notes[id].at
       /\ notes[id].relays \subseteq FoundOn(id[2])

\* A note that was found stays in the list, with every relay that still has it,
\* until each of them has accepted a deletion of it, also when two deletions of
\* one note overlap, or a deletion of a note from before ends after a load.
GoneOnlyWhenDeleted ==
    \A x \in found :
       LET id == <<current, x[1].address>>
       IN  IF id \in list THEN x[2] \in notes[id].relays \/ <<id, x[2]>> \in deleted
                          ELSE <<id, x[2]>> \in deleted
============================================================================
