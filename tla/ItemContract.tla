----------------------------- MODULE ItemContract -----------------------------
(***************************************************************************)
(* What a backend promises to concurrent callers of the item operations of *)
(* ActivityPubStorage (activitypub_storage.go:14-85): the storage is a map *)
(* from IRIs to items, each AddTo and RemoveFrom takes effect exactly once, *)
(* at one instant between its call and its return, and on the collection   *)
(* that is stored at that instant.  Every Save of an object creates the    *)
(* collections the object names, one at a time, whether the object was     *)
(* stored before or not, and touches none that is there already.  A hidden *)
(* collection is created by the AddTo that finds it missing.               *)
(*                                                                         *)
(* There is no heap here, no pointer and no snapshot: those belong to      *)
(* ItemStorage, the detailed specification.                                *)
(***************************************************************************)
EXTENDS Sequences

CONSTANTS
    Procs,        \* the goroutines that call the storage
    Objects,      \* IRIs of objects and actors
    Collections,  \* IRIs of collections
    Hidden,       \* those of them that are an actor's blocked or ignored items
    Members,      \* the items a collection may hold
    Named,        \* Named[o]: the lists of collection IRIs the versions of o carry
    Absent        \* what the map holds under an IRI with no item

VARIABLES
    contents,     \* contents[k]: Absent, a version of an object or a set of members
    pending       \* pending[p]: the call of p that has not returned, or its last reply

contractVars == <<contents, pending>>

IRIs == Objects \cup Collections
Idle(reply) == [phase |-> "idle", reply |-> reply]

Init ==
    /\ contents = [k \in IRIs |-> Absent]
    /\ pending = [p \in Procs |-> Idle("ok")]

IsIdle(p) == pending[p].phase = "idle"
Replies(p, reply) == pending' = [pending EXCEPT ![p] = Idle(reply)]

-----------------------------------------------------------------------------
(* Save of an object: the call, the collections it creates in the order the object *)
(* names them, the return.  A backend may look first whether there is anything to  *)
(* create, and may leave the hidden ones to AddTo.                                  *)

Saving(o, v, cs) == [phase |-> "save", iri |-> o, version |-> v, todo |-> cs]

NothingToCreate(v) ==
    \A i \in DOMAIN v : v[i] \in Hidden \/ contents[v[i]] # Absent

SaveCall(p, o, v) ==
    /\ IsIdle(p)
    /\ \/ pending' = [pending EXCEPT ![p] = Saving(o, v, v)]
       \/ NothingToCreate(v) /\ pending' = [pending EXCEPT ![p] = Saving(o, v, <<>>)]
    /\ UNCHANGED contents

Open(p) ==
    /\ pending[p].phase = "save"
    /\ pending[p].todo # <<>>
    /\ LET c == Head(pending[p].todo)
       IN  \/ contents' = [contents EXCEPT ![c] = IF @ = Absent THEN {} ELSE @]
           \/ c \in Hidden /\ UNCHANGED contents
    /\ pending' = [pending EXCEPT ![p] = Saving(@.iri, @.version, Tail(@.todo))]

SaveReturn(p) ==
    /\ pending[p].phase = "save"
    /\ pending[p].todo = <<>>
    /\ contents' = [contents EXCEPT ![pending[p].iri] = pending[p].version]
    /\ Replies(p, "ok")

(* Save of a collection, Delete and Load are atomic. *)

Replace(p, c, S) ==
    /\ IsIdle(p)
    /\ contents' = [contents EXCEPT ![c] = S]
    /\ Replies(p, "ok")

Drop(p, k) ==
    /\ IsIdle(p)
    /\ contents' = [contents EXCEPT ![k] = Absent]
    /\ Replies(p, "ok")

Look(p, k) ==
    /\ IsIdle(p)
    /\ Replies(p, IF contents[k] = Absent THEN "notfound" ELSE "ok")
    /\ UNCHANGED contents

-----------------------------------------------------------------------------
(* AddTo and RemoveFrom: a call, one effect, a return.  A missing collection is *)
(* the reason to refuse, but not to an AddTo of a hidden one, which creates it.  *)

Creates(c, add) == add /\ c \in Hidden
Missing(c, add) == contents[c] = Absent /\ ~Creates(c, add)
NoCollection(add) == IF add THEN "notadded" ELSE "notfound"

EditCall(p, c, add, S) ==
    /\ IsIdle(p)
    /\ pending' = [pending EXCEPT
                     ![p] = [phase |-> "edit", iri |-> c, add |-> add, delta |-> S]]
    /\ UNCHANGED contents

(* A call that is refused as soon as it is made, and one that finds the collection *)
(* gone later.                                                                       *)
Refuse(p, k, add) ==
    /\ IsIdle(p)
    /\ \/ Missing(k, add) /\ Replies(p, NoCollection(add))
       \/ k \in Objects /\ contents[k] # Absent /\ Replies(p, "invalid")
    /\ UNCHANGED contents

EditMisses(p) ==
    /\ pending[p].phase = "edit"
    /\ Missing(pending[p].iri, pending[p].add)
    /\ Replies(p, NoCollection(pending[p].add))
    /\ UNCHANGED contents

Items(c) == IF contents[c] = Absent THEN {} ELSE contents[c]

Effect(p) ==
    /\ pending[p].phase = "edit"
    /\ LET c == pending[p].iri
           add == pending[p].add
           S == pending[p].delta
       IN  /\ ~Missing(c, add)
           /\ contents' = [contents EXCEPT ![c] = IF add THEN Items(c) \cup S ELSE @ \ S]
    /\ pending' = [pending EXCEPT ![p] = [phase |-> "done"]]

EditReturn(p) ==
    /\ pending[p].phase = "done"
    /\ Replies(p, "ok")
    /\ UNCHANGED contents

(* An AddTo whose Append fails may have added some of its items. *)
EditFail(p) ==
    /\ pending[p].phase = "edit"
    /\ pending[p].add
    /\ LET c == pending[p].iri
       IN  /\ ~Missing(c, TRUE)
           /\ \E S \in SUBSET pending[p].delta :
                 contents' = [contents EXCEPT ![c] = Items(c) \cup S]
    /\ Replies(p, "failed")

-----------------------------------------------------------------------------
Next ==
    \E p \in Procs :
        \/ \E o \in Objects : \E v \in Named[o] : SaveCall(p, o, v)
        \/ Open(p)
        \/ SaveReturn(p)
        \/ \E c \in Collections, S \in SUBSET Members : Replace(p, c, S)
        \/ \E k \in IRIs : Drop(p, k)
        \/ \E k \in IRIs : Look(p, k)
        \/ \E c \in Collections, add \in BOOLEAN, S \in SUBSET Members :
              EditCall(p, c, add, S)
        \/ \E k \in IRIs, add \in BOOLEAN : Refuse(p, k, add)
        \/ EditMisses(p)
        \/ Effect(p)
        \/ EditReturn(p)
        \/ EditFail(p)

Spec == Init /\ [][Next]_contractVars
=============================================================================
