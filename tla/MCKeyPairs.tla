------------------------------ MODULE MCKeyPairs ------------------------------
(* Instances of KeyPairs for TLC. *)
EXTENDS KeyPairs, TLC

CONSTANTS k1, k2, k3, k4

(* Two keys that can be encoded, one that is refused, one of an unknown type. *)
MCKind == k1 :> "rsa" @@ k2 :> "ed25519" @@ k3 :> "dsa" @@ k4 :> "other"

Symmetry == Permutations(Procs) \cup Permutations(Actors)
=============================================================================
