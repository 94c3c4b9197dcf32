-------------------------------- MODULE Backend --------------------------------
(***************************************************************************)
(* How a backend keeps the values it is given, which the tests on secrets  *)
(* and tokens depend on.  A backend                                        *)
(*   shares  keeps the caller's pointer and hands it out, as memStorage    *)
(*           does (storage_mem.go:206-423);                                *)
(*   owns    keeps a copy, and hands out a pointer to it;                  *)
(*   copies  keeps a copy and hands out copies;                            *)
(*   refers  does that too, but keeps clients and authorizations by their  *)
(*           ID and code, and looks them up when it loads.                 *)
(***************************************************************************)
EXTENDS Conformance

Ways == {"shares", "owns", "copies", "refers"}
Unknown == "unknown"    \* before the first test it makes a difference to

VARIABLE way

(* It is found out once. *)
FindsWay == way' \in IF way = Unknown THEN Ways ELSE {way}

(* The type assertion each test begins with. *)
Fits(interface, first) ==
    \E fits \in BOOLEAN :
        /\ Answers(fits, TRUE, interface)
        /\ pc' = IF fits THEN first ELSE "done"
=============================================================================
