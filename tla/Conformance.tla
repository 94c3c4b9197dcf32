------------------------------ MODULE Conformance ------------------------------
(***************************************************************************)
(* What the tests of the suite have in common.  Each makes its calls on a  *)
(* backend in a fixed order and compares what comes back with what it sent *)
(* in.  The backend is not memStorage but any backend: at each call it     *)
(* either does what the interface promises or breaks a promise, and broken *)
(* remembers which.  The invariants say when the verdict of the suite      *)
(* tells the two apart.                                                    *)
(***************************************************************************)
EXTENDS Naturals, FiniteSets

CONSTANTS
    Faults,     \* bound: how many different promises a backend may break
    Missing     \* what is answered and kept where there is nothing

ASSUME FaultsAssumption == Faults \in Nat

VARIABLES
    pc,         \* the step of the suite that comes next
    at,         \* the object, filter, key or value of that step
    verdict,    \* of the tests so far: pass, fail or panic
    broken      \* history: the promises the backend has broken

(* The backend gives the right answer, or breaks promise p. *)
Answers(a, right, p) ==
    IF a = right
    THEN UNCHANGED broken
    ELSE /\ p \in broken \/ Cardinality(broken) < Faults
         /\ broken' = broken \cup {p}

(* t.Errorf or t.Fatalf when the comparison fails.  What failed stays failed. *)
Expect(ok) == verdict' = IF ok THEN verdict ELSE "fail"

Fails(a) == a = "error"

(* The step that follows for the next object, or the first one of the next test. *)
Advance(again, next, count) ==
    IF at < count THEN pc' = again /\ at' = at + 1 ELSE pc' = next /\ at' = 1

(* No false alarm: a backend that keeps its promises passes, for each page size  *)
(* up to one more than there are objects (activitypub_storage.go:345-392),        *)
(* however it keeps what the comparisons of the OAuth tests write into            *)
(* (oauth_storage.go:62-87), and on the storage an earlier run has left.          *)
KeepersPass == verdict # "pass" => broken # {}
=============================================================================
