---------------------------- MODULE MCRelayGate ----------------------------
(* RelayGate on small instances. *)
EXTENDS RelayGate, TLC

\* Connections, upstream connections and keys are interchangeable.
Symmetry == Permutations(Conns) \cup Permutations(Links) \cup Permutations(Pubkeys)
============================================================================
