-------------------------- MODULE AdvertDiscovery --------------------------
(***************************************************************************)
(* The discovery of media services in the iOS client                       *)
(* (SharedCore/ServiceAdvertClient.swift): a task for each relay collects  *)
(* adverts up to the EOSE, an error or the deadline, and the group merges  *)
(* them in the order in which the tasks end.                               *)
(***************************************************************************)
EXTENDS Naturals, Sequences, FiniteSets
LOCAL INSTANCE SequencesExt

CONSTANTS
    AdvertRelays,    \* the relays in the settings
    Services,        \* addresses "31388:<pubkey>:<d>" of media services
    LastCreated      \* bound on created_at

Adverts == [id : Services, at : 1..LastCreated]

VARIABLES
    holds,       \* external: what each relay has to send; one version of an address, as NIP-01 asks
    task,        \* "receiving", "ended", "merged"
    adverts,     \* received by a task
    byID,        \* merged adverts, at most one for an id
    returned     \* fetch has returned

discoveryVars == <<holds, task, adverts, byID, returned>>

DiscoveryInit ==
    /\ holds \in [AdvertRelays -> {s \in SUBSET Adverts : \A x, y \in s : x.id = y.id => x = y}]
    /\ task = [r \in AdvertRelays |-> "receiving"]
    /\ adverts = [r \in AdvertRelays |-> <<>>]
    /\ byID = {}
    /\ returned = FALSE

\* receive returns an EVENT that parses.
ReceiveAdvert(r) ==
    /\ task[r] = "receiving"
    /\ \E a \in holds[r] \ ToSet(adverts[r]) : adverts' = [adverts EXCEPT ![r] = Append(@, a)]
    /\ UNCHANGED <<holds, task, byID, returned>>

\* The EOSE, an error, or the deadline, which is looked at between two messages.
TaskEnds(r) ==
    /\ task[r] = "receiving"
    /\ task' = [task EXCEPT ![r] = "ended"]
    /\ UNCHANGED <<holds, adverts, byID, returned>>

\* byID[advert.id] = advert, one after the other.
Assign(merged, a) == {b \in merged : b.id # a.id} \cup {a}

\* The next result of the group.
MergeTask(r) ==
    /\ task[r] = "ended"
    /\ task' = [task EXCEPT ![r] = "merged"]
    /\ byID' = FoldLeft(Assign, byID, adverts[r])
    /\ UNCHANGED <<holds, adverts, returned>>

FetchReturns ==
    /\ ~returned
    /\ \A r \in AdvertRelays : task[r] = "merged"
    /\ returned' = TRUE
    /\ UNCHANGED <<holds, task, adverts, byID>>

DiscoveryNext ==
    \/ \E r \in AdvertRelays : ReceiveAdvert(r) \/ TaskEnds(r) \/ MergeTask(r)
    \/ FetchReturns

DiscoverySpec == DiscoveryInit /\ [][DiscoveryNext]_discoveryVars

-----------------------------------------------------------------------------
(* Properties *)

\* The list of services holds, for every address that some relay sent, the newest
\* advert received: "the client keeps the newest advert for that address"
\* (openspec/specs/service-adverts/spec.md:46).
NewestAdvertKept ==
    returned => \A r \in AdvertRelays : \A i \in DOMAIN adverts[r] :
                   \E b \in byID : b.id = adverts[r][i].id /\ b.at >= adverts[r][i].at
============================================================================
