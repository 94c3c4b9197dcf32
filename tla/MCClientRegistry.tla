----------------------------- MODULE MCClientRegistry -----------------------------
(* Instances of ClientRegistry for TLC. *)
EXTENDS ClientRegistry, TLC

Symmetry == Permutations(Procs) \cup Permutations(Ids) \cup Permutations(Clients)
=============================================================================
