------------------------- MODULE AdmissionContract -------------------------
(***************************************************************************)
(* What the relay gate promises about sessions, whatever it caches and     *)
(* however its lookups interleave: a connection carries at most one        *)
(* identity, given to it once, and the identity rests on a moment at which *)
(* the NIP-05 directory did link a username to the pubkey, less than TTL   *)
(* before the client asked.                                                *)
(***************************************************************************)
EXTENDS Integers

CONSTANTS Conns, Pubkeys, Usernames, NoPubkey, TTL

VARIABLES
    now,         \* the clock
    directory,   \* the pubkey each username resolves to
    checked,     \* when the link of a pubkey to a username was last confirmed, or -1
    asked,       \* when the client of a connection asked for the open decision, or -1
    session      \* the identity of a connection, or NoPubkey

vars == <<now, directory, checked, asked, session>>

Init ==
    /\ now = 0
    /\ directory \in [Usernames -> Pubkeys \cup {NoPubkey}]
    /\ checked = [p \in Pubkeys |-> [u \in Usernames |-> -1]]
    /\ asked = [c \in Conns |-> -1]
    /\ session = [c \in Conns |-> NoPubkey]

Tick ==
    /\ now' = now + 1
    /\ UNCHANGED <<directory, checked, asked, session>>

Relink(u, p) ==
    /\ directory' = [directory EXCEPT ![u] = p]
    /\ UNCHANGED <<now, checked, asked, session>>

Confirm(p, u) ==
    /\ directory[u] = p
    /\ checked' = [checked EXCEPT ![p][u] = now]
    /\ UNCHANGED <<now, directory, asked, session>>

Ask(c) ==
    /\ session[c] = NoPubkey
    /\ asked' = [asked EXCEPT ![c] = now]
    /\ UNCHANGED <<now, directory, checked, session>>

Admit(c, p) ==
    /\ session[c] = NoPubkey
    /\ asked[c] # -1
    /\ \E u \in Usernames : checked[p][u] # -1 /\ asked[c] < checked[p][u] + TTL
    /\ session' = [session EXCEPT ![c] = p]
    /\ asked' = [asked EXCEPT ![c] = -1]
    /\ UNCHANGED <<now, directory, checked>>

\* Connections end, one by one or all at once.
Drop(S) ==
    /\ asked' = [c \in Conns |-> IF c \in S THEN -1 ELSE asked[c]]
    /\ session' = [c \in Conns |-> IF c \in S THEN NoPubkey ELSE session[c]]
    /\ UNCHANGED <<now, directory, checked>>

Next ==
    \/ Tick
    \/ \E u \in Usernames, p \in Pubkeys \cup {NoPubkey} : Relink(u, p)
    \/ \E p \in Pubkeys, u \in Usernames : Confirm(p, u)
    \/ \E c \in Conns : Ask(c)
    \/ \E c \in Conns, p \in Pubkeys : Admit(c, p)
    \/ \E S \in SUBSET Conns : Drop(S)

Spec == Init /\ [][Next]_vars
============================================================================
