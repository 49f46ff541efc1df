----------------------------- MODULE AuthStore -----------------------------
(***************************************************************************)
(* The persisted authentication cache (internal/store): one row per pubkey *)
(* in the SQLite table auth_cache, written by Put after a successful       *)
(* NIP-05 check and consulted by GetValid before the next one.  Times are  *)
(* whole seconds, as the columns hold Unix seconds.                        *)
(***************************************************************************)
EXTENDS Integers

CONSTANTS
    Pubkeys,      \* Nostr public keys of the clients
    Usernames,    \* Trustroots usernames
    NoRow         \* absence of a row

ASSUME NoRowAssumption == NoRow \notin [username : Usernames, verifiedAt : Int, expiresAt : Int]

Row == [username : Usernames, verifiedAt : Int, expiresAt : Int]

\* The table right after init on a new database file.
EmptyStore == [p \in Pubkeys |-> NoRow]

\* Mutant: a row is still valid in the second it expires.
GetValid_Inclusive(store, p, t) == store[p] # NoRow /\ store[p].expiresAt >= t

\* SELECT ... WHERE pubkey = ? AND expires_at > ?
GetValid(store, p, t) == store[p] # NoRow /\ store[p].expiresAt > t

\* Mutant: the username column is left out of the statement.
Put_NoUsername(store, p, u, verified, expires) ==
    [store EXCEPT ![p] = [username |-> NoRow, verifiedAt |-> verified, expiresAt |-> expires]]

\* INSERT ... ON CONFLICT(pubkey) DO UPDATE: the row is replaced as a whole,
\* whether or not the replaced row was verified more recently.
Put(store, p, u, verified, expires) ==
    [store EXCEPT ![p] = [username |-> u, verifiedAt |-> verified, expiresAt |-> expires]]
============================================================================
