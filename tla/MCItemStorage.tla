----------------------------- MODULE MCItemStorage -----------------------------
(* Instances of ItemStorage for TLC: an object with two collections, whose *)
(* versions name none, one or both of them.                                *)
EXTENDS ItemStorage, FiniteSets, TLC

CONSTANTS c1, c2, o1

MCNamed == [o \in Objects |-> {<<>>, <<c1>>, <<c1, c2>>}]
MCNamedOne == [o \in Objects |-> {<<>>, <<c1>>}]

(* Callers that save objects, add to their collections and load them, and neither *)
(* remove nor delete nor replace anything; no Append fails.                         *)
AddersNext ==
    \E p \in Procs :
        \/ \E o \in Objects : \E v \in Named[o] : Save(p, o, v)
        \/ SaveCollectionIfExists(p)
        \/ StoreObject(p)
        \/ \E k \in IRIs, S \in SUBSET Members \ {{}} : AddTo(p, k, S)
        \/ ReadItems(p)
        \/ WriteItems(p)
        \/ SaveEdited(p)
        \/ \E k \in IRIs, filtered \in BOOLEAN : Load(p, k, filtered)

AddersSpec == Init /\ [][AddersNext]_vars

(* Addresses, members and goroutines are interchangeable. *)
Symmetry == Permutations(Cells) \cup Permutations(Members) \cup Permutations(Procs)
=============================================================================
