------------------------------ MODULE ItemStorage ------------------------------
(***************************************************************************)
(* The item operations of memStorage (storage_mem.go:62-200): Save, Delete, *)
(* AddTo, RemoveFrom and Load, over one sync.Map shared by the goroutines  *)
(* that hold the storage.                                                  *)
(*                                                                         *)
(* Each call on the sync.Map is atomic; nothing holds a lock across two of *)
(* them.  So a step below is one call on the map, or one access to the     *)
(* memory of a collection.  The map holds POINTERS: a collection is a cell *)
(* of the heap, loadCol hands out its address, and Append and Remove       *)
(* change it in place, without a lock.  The two accesses of such a change  *)
(* (read the items, write them back) are therefore steps of their own, and *)
(* what they lose when two of them overlap is what the data race loses.    *)
(***************************************************************************)
EXTENDS Sequences

CONSTANTS
    Procs,        \* goroutines that share the storage
    Objects,      \* IRIs of objects, actors and links
    Collections,  \* IRIs of collections
    Hidden,       \* those of them that are an actor's blocked or ignored items
    Members,      \* items that are put in collections
    Named,        \* Named[o]: for each version of o a caller may save, the IRIs of
                  \* its collection properties, in the order they are visited
    Shapes,       \* Go types of the collections callers save: "collection", "page"
    Fills,        \* the sets of items that collections callers save are filled with
    Cells,        \* addresses of collection values (the heap's size is the bound)
    Orderly,      \* TRUE: callers keep to what MayCall and the InOrder guards ask
    Absent        \* what Load of the map finds under an IRI with no item

IRIs == Objects \cup Collections
Versions == UNION {Named[o] : o \in Objects}

ASSUME NamedAssumption == Named \in [Objects -> SUBSET Seq(Collections)]
ASSUME ShapesAssumption == Shapes \subseteq {"collection", "page"}
ASSUME FillsAssumption == Fills \subseteq SUBSET Members
ASSUME HiddenAssumption == Hidden \subseteq Collections
ASSUME OrderlyAssumption == Orderly \in BOOLEAN
ASSUME KeysAssumption == Objects \cap Collections = {}
ASSUME ValuesAssumption ==
    /\ Cells \cap Versions = {}
    /\ Absent \notin Cells \cup Versions
    /\ \A S \in SUBSET Members : Absent # S

VARIABLES
    store,      \* the sync.Map, on the IRIs of items
    heap,       \* the collection at each address: its ID, Go type and items
    frame,      \* the call each goroutine is in, or how its last call ended
    known,      \* history: items that callers were told are in the collection
    possible,   \* history: items that callers must reckon with
    overlapped  \* history: collections two calls on which have overlapped

vars == <<store, heap, frame, known, possible, overlapped>>

(* AddTo answers notfound as RemoveFrom and Load do; "notadded" tells it apart. *)
Errors == {"ok", "notfound", "notadded", "invalid", "failed", "panic"}
IdleFrames == [at : {"idle"}, err : Errors]
SaveFrames == [at : {"create"}, iri : Objects, version : Versions,
               todo : Seq(Collections)]
EditFrames == [at : {"read", "write", "save"}, iri : Collections, cell : Cells,
               add : BOOLEAN, delta : SUBSET Members, snap : SUBSET Members]
CellValues == [iri : Collections \cup {Absent}, shape : {"collection", "page"},
               items : SUBSET Members]

StoreTypeOK ==
    /\ store \in [IRIs -> Cells \cup Versions \cup {Absent}]
    /\ \A o \in Objects : store[o] \notin Cells
    /\ \A c \in Collections : store[c] \notin Versions
    /\ heap \in [Cells -> CellValues]

FrameTypeOK == frame \in [Procs -> IdleFrames \cup SaveFrames \cup EditFrames]

HistoryTypeOK ==
    /\ known \in [Collections -> SUBSET Members]
    /\ possible \in [Collections -> SUBSET Members]
    /\ overlapped \subseteq Collections

TypeOK == StoreTypeOK /\ FrameTypeOK /\ HistoryTypeOK

Init ==
    /\ store = [k \in IRIs |-> Absent]
    /\ heap = [r \in Cells |-> [iri |-> Absent, shape |-> "collection", items |-> {}]]
    /\ frame = [p \in Procs |-> [at |-> "idle", err |-> "ok"]]
    /\ known = [c \in Collections |-> {}]
    /\ possible = [c \in Collections |-> {}]
    /\ overlapped = {}

-----------------------------------------------------------------------------
Idle(p) == frame[p].at = "idle"
Editing(p) == frame[p].at \in {"read", "write", "save"}

(* The IRIs that running calls are for. *)
Busy == {frame[q].iri : q \in {q \in Procs : ~Idle(q)}}

MayCall(p, k) ==
    /\ Idle(p)
    /\ Orderly => k \notin Busy

(* Under which conditions memStorage does all that its interface asks for.  Orderly *)
(* callers do not let calls on one IRI overlap, they name all collections of an      *)
(* object when they first save it, delete none that an object names, add to hidden   *)
(* ones only of actors that are stored, and load no page through filters.            *)

Names(v, c) == \E i \in DOMAIN v : v[i] = c
StoredNames(c) == \E o \in Objects : store[o] # Absent /\ Names(store[o], c)

SaveInOrder(o, v) ==
    Orderly /\ store[o] # Absent => \A i \in DOMAIN v : Names(store[o], v[i])

DeleteInOrder(k) ==
    Orderly => /\ ~StoredNames(k)
               /\ \A p \in Procs : frame[p].at = "create" => ~Names(frame[p].version, k)

AddInOrder(k) == Orderly /\ k \in Hidden => StoredNames(k)

LoadInOrder(k, filtered) ==
    Orderly /\ filtered /\ store[k] \in Cells => heap[store[k]].shape = "collection"

(* Recorded when a call starts that may change what is stored under k. *)
Overlap(k) ==
    overlapped' = overlapped \cup (Collections \cap Busy \cap {k})

Return(p, e) == frame' = [frame EXCEPT ![p] = [at |-> "idle", err |-> e]]

(* A cell that neither the map nor a running call points to. *)
FreeCells == {r \in Cells : /\ \A k \in IRIs : store[k] # r
                            /\ \A p \in Procs : Editing(p) => frame[p].cell # r}

NewCollection(r, c, s, S) ==
    heap' = [heap EXCEPT ![r] = [iri |-> c, shape |-> s, items |-> S]]

-----------------------------------------------------------------------------
(* Save of an object or actor: look the IRI up; if it is missing, LoadOrStore *)
(* an empty collection under each collection IRI the item carries; store it.  *)

(* A slip the runs must catch: collections are opened when the object was there. *)
SaveInverted(p, o, v) ==
    /\ MayCall(p, o)
    /\ SaveInOrder(o, v)
    /\ frame' = [frame EXCEPT
                   ![p] = [at      |-> "create",
                           iri     |-> o,
                           version |-> v,
                           todo    |-> IF store[o] = Absent THEN <<>> ELSE v]]
    /\ UNCHANGED <<store, heap, known, possible, overlapped>>

Save(p, o, v) ==
    /\ MayCall(p, o)
    /\ SaveInOrder(o, v)
    /\ frame' = [frame EXCEPT
                   ![p] = [at      |-> "create",
                           iri     |-> o,
                           version |-> v,
                           todo    |-> IF store[o] = Absent THEN v ELSE <<>>]]
    /\ UNCHANGED <<store, heap, known, possible, overlapped>>

(* Slips the runs must catch: Store in the place of LoadOrStore; the owner's IRI *)
(* given to the new collection.                                                  *)
SaveCollectionReplaces(p) ==
    /\ frame[p].at = "create"
    /\ frame[p].todo # <<>>
    /\ LET c == Head(frame[p].todo)
       IN  \E r \in FreeCells :
              /\ store' = [store EXCEPT ![c] = r]
              /\ NewCollection(r, c, "collection", {})
    /\ frame' = [frame EXCEPT ![p].todo = Tail(@)]
    /\ UNCHANGED <<known, possible, overlapped>>

SaveCollectionUnderOwner(p) ==
    /\ frame[p].at = "create"
    /\ frame[p].todo # <<>>
    /\ LET c == Head(frame[p].todo)
       IN  \/ store[c] # Absent /\ UNCHANGED <<store, heap>>
           \/ /\ store[c] = Absent
              /\ \E r \in FreeCells :
                    /\ store' = [store EXCEPT ![c] = r]
                    /\ NewCollection(r, frame[p].iri, "collection", {})
    /\ frame' = [frame EXCEPT ![p].todo = Tail(@)]
    /\ UNCHANGED <<known, possible, overlapped>>

SaveCollectionIfExists(p) ==
    /\ frame[p].at = "create"
    /\ frame[p].todo # <<>>
    /\ LET c == Head(frame[p].todo)
       IN  \/ /\ store[c] # Absent
              /\ UNCHANGED <<store, heap>>
           \/ /\ store[c] = Absent
              /\ \E r \in FreeCells :
                    /\ store' = [store EXCEPT ![c] = r]
                    /\ NewCollection(r, c, "collection", {})
    /\ frame' = [frame EXCEPT ![p].todo = Tail(@)]
    /\ UNCHANGED <<known, possible, overlapped>>

StoreObject(p) ==
    /\ frame[p].at = "create"
    /\ frame[p].todo = <<>>
    /\ store' = [store EXCEPT ![frame[p].iri] = frame[p].version]
    /\ Return(p, "ok")
    /\ UNCHANGED <<heap, known, possible, overlapped>>

(* Save, or Create, of a collection value the caller built.  Such a value names *)
(* no collections of its own, so whether its IRI was there makes no difference.  *)
SaveCollection(p, c, s, S) ==
    /\ MayCall(p, c)
    /\ \E r \in FreeCells :
          /\ store' = [store EXCEPT ![c] = r]
          /\ NewCollection(r, c, s, S)
    /\ Return(p, "ok")
    /\ known' = [known EXCEPT ![c] = S]
    /\ possible' = [possible EXCEPT ![c] = S]
    /\ Overlap(c)

Delete(p, k) ==
    /\ MayCall(p, k)
    /\ DeleteInOrder(k)
    /\ store' = [store EXCEPT ![k] = Absent]
    /\ Return(p, "ok")
    /\ known' = [c \in Collections |-> IF c = k THEN {} ELSE known[c]]
    /\ possible' = [c \in Collections |-> IF c = k THEN {} ELSE possible[c]]
    /\ Overlap(k)
    /\ UNCHANGED heap

-----------------------------------------------------------------------------
(* AddTo and RemoveFrom: loadCol, change the items in place, Save the collection *)
(* under its own ID.                                                             *)

LoadColFails(p, k, missing) ==
    /\ MayCall(p, k)
    /\ \/ /\ store[k] = Absent
          /\ Return(p, missing)
       \/ /\ store[k] \in Versions
          /\ Return(p, "invalid")
    /\ UNCHANGED <<store, heap, known, possible, overlapped>>

(* A slip the runs must catch: what the map holds is taken for a collection. *)
LoadColUnchecked(p, k, add, S) ==
    /\ MayCall(p, k)
    /\ store[k] # Absent
    /\ frame' = [frame EXCEPT
                   ![p] = [at |-> "read", iri |-> k, cell |-> store[k],
                           add |-> add, delta |-> S, snap |-> {}]]
    /\ Overlap(k)
    /\ UNCHANGED <<store, heap>>

LoadCol(p, k, add, S) ==
    /\ MayCall(p, k)
    /\ store[k] \in Cells
    /\ frame' = [frame EXCEPT
                   ![p] = [at |-> "read", iri |-> k, cell |-> store[k],
                           add |-> add, delta |-> S, snap |-> {}]]
    /\ Overlap(k)
    /\ UNCHANGED <<store, heap>>

AddTo(p, k, S) ==
    /\ AddInOrder(k)
    /\ \/ LoadColFails(p, k, "notadded")
       \/ /\ LoadCol(p, k, TRUE, S)
          /\ possible' = [possible EXCEPT ![k] = @ \cup S]
          /\ UNCHANGED known

RemoveFrom(p, k, S) ==
    \/ LoadColFails(p, k, "notfound")
    \/ /\ LoadCol(p, k, FALSE, S)
       /\ known' = [known EXCEPT ![k] = @ \ S]
       /\ UNCHANGED possible

ReadItems(p) ==
    /\ frame[p].at = "read"
    /\ frame' = [frame EXCEPT ![p].at = "write",
                              ![p].snap = heap[frame[p].cell].items]
    /\ UNCHANGED <<store, heap, known, possible, overlapped>>

(* A slip the runs must catch: what Append made is not assigned to the items. *)
EditedUnassigned(f) == IF f.add THEN f.snap ELSE f.snap \ f.delta

(* What the call writes back: the items it read, with its own added or removed. *)
Edited(f) == IF f.add THEN f.snap \cup f.delta ELSE f.snap \ f.delta

WriteItems(p) ==
    /\ frame[p].at = "write"
    /\ heap' = [heap EXCEPT ![frame[p].cell].items = Edited(frame[p])]
    /\ frame' = [frame EXCEPT ![p].at = "save"]
    /\ UNCHANGED <<store, known, possible, overlapped>>

(* Append returns an error: some of the items may be in place already, and  *)
(* AddTo returns it without saving.                                         *)
AppendFails(p) ==
    /\ frame[p].at = "write"
    /\ frame[p].add
    /\ \E S \in SUBSET frame[p].delta :
          heap' = [heap EXCEPT ![frame[p].cell].items = frame[p].snap \cup S]
    /\ Return(p, "failed")
    /\ UNCHANGED <<store, known, possible, overlapped>>

SaveEdited(p) ==
    /\ frame[p].at = "save"
    /\ LET f == frame[p]
       IN  /\ store' = [store EXCEPT ![heap[f.cell].iri] = f.cell]
           /\ known' = [known EXCEPT ![f.iri] = IF f.add THEN @ \cup f.delta ELSE @]
           /\ possible' = [possible EXCEPT ![f.iri] = IF f.add THEN @ ELSE @ \ f.delta]
    /\ Return(p, "ok")
    /\ UNCHANGED <<heap, overlapped>>

-----------------------------------------------------------------------------
(* Load with or without filters.  The filters run on a copy of the collection, *)
(* which Load makes through a pointer to the plain collection type: for a page *)
(* that assertion yields nil and the copy dereferences it.                     *)
Load(p, k, filtered) ==
    /\ MayCall(p, k)
    /\ LoadInOrder(k, filtered)
    /\ \/ /\ store[k] = Absent
          /\ Return(p, "notfound")
       \/ /\ store[k] \in Versions
          /\ Return(p, "ok")
       \/ /\ store[k] \in Cells
          /\ Return(p, IF filtered /\ heap[store[k]].shape = "page"
                       THEN "panic" ELSE "ok")
    /\ UNCHANGED <<store, heap, known, possible, overlapped>>

-----------------------------------------------------------------------------
Next ==
    \E p \in Procs :
        \/ \E o \in Objects : \E v \in Named[o] : Save(p, o, v)
        \/ SaveCollectionIfExists(p)
        \/ StoreObject(p)
        \/ \E c \in Collections, s \in Shapes, S \in Fills :
              SaveCollection(p, c, s, S)
        \/ \E k \in IRIs : Delete(p, k)
        \/ \E k \in IRIs, S \in SUBSET Members \ {{}} : AddTo(p, k, S)
        \/ \E k \in IRIs, S \in SUBSET Members \ {{}} : RemoveFrom(p, k, S)
        \/ ReadItems(p)
        \/ WriteItems(p)
        \/ AppendFails(p)
        \/ SaveEdited(p)
        \/ \E k \in IRIs, filtered \in BOOLEAN : Load(p, k, filtered)

Spec == Init /\ [][Next]_vars

-----------------------------------------------------------------------------
(* Properties *)

ItemsOf(c) == IF store[c] \in Cells THEN heap[store[c]].items ELSE {}

(* A collection is stored under its own ID, whichever stale address a call    *)
(* still holds when it saves the collection it edited (storage_mem.go:176).   *)
StoredUnderOwnIRI ==
    \A c \in Collections : store[c] \in Cells => heap[store[c]].iri = c

(* What callers were told stays true: an item whose AddTo returned is in the  *)
(* collection until someone starts to remove it, and an item whose RemoveFrom *)
(* returned is out of it until someone starts to add it, and what a deleted   *)
(* collection held is gone (storage_mem.go:137-200).  It holds for every      *)
(* collection two calls on which have not overlapped, whatever happens to the *)
(* others, and although a Save of an object may open collections beside any   *)
(* of these calls.                                                            *)
RepliesHold ==
    \A c \in Collections \ overlapped :
        known[c] \subseteq ItemsOf(c) /\ ItemsOf(c) \subseteq possible[c]

(* "AddTo adds items to the collection" (activitypub_storage.go:76): an item   *)
(* whose AddTo returned without an error is there, also where AddTo calls of   *)
(* one collection overlap.  For callers that remove and delete nothing.        *)
AddedItemsStay == \A c \in Collections : known[c] \subseteq ItemsOf(c)

(* "When saving a [vocab.Object] compatible type the backend *MUST* create all *)
(* the object's collections that have IRIs set" (activitypub_storage.go:17):  *)
(* when any Save returns, the collections of the version it stored exist.     *)
SaveOpensCollections ==
    [][\A p \in Procs :
          StoreObject(p) =>
             \A i \in DOMAIN frame[p].version : store[frame[p].version[i]] # Absent]_vars

(* Why RepliesHold is inductive: a running AddTo or RemoveFrom works on the  *)
(* collection that was stored under its IRI, and as long as no other call on *)
(* that IRI overlaps it, that collection is still the stored one, nobody else *)
(* edits it, and the items it read are the items that are there              *)
(* (storage_mem.go:176-200).                                                 *)

EditsOwnCell ==
    \A p \in Procs : Editing(p) => heap[frame[p].cell].iri = frame[p].iri

EditIsCurrent(p) ==
    LET f == frame[p]
        items == heap[f.cell].items
    IN  /\ store[f.iri] = f.cell
        /\ \A q \in Procs : Editing(q) /\ frame[q].iri = f.iri => q = p
        /\ f.at = "write" => f.snap = items
        /\ f.add => f.delta \subseteq possible[f.iri]
        /\ ~f.add => f.delta \cap known[f.iri] = {}
        /\ f.at = "save" /\ f.add => f.delta \subseteq items
        /\ f.at = "save" /\ ~f.add => f.delta \cap items = {}

UncontendedEditsAreCurrent ==
    \A p \in Procs : Editing(p) /\ frame[p].iri \notin overlapped => EditIsCurrent(p)

InductiveInvariant ==
    /\ TypeOK
    /\ StoredUnderOwnIRI
    /\ EditsOwnCell
    /\ UncontendedEditsAreCurrent
    /\ RepliesHold

-----------------------------------------------------------------------------
(* Refinement: seen through the map, without heap, addresses and snapshots. *)

Contents == [k \in IRIs |-> IF store[k] \in Cells THEN heap[store[k]].items ELSE store[k]]

Seen(f) ==
    CASE f.at = "idle"   -> [phase |-> "idle", reply |-> f.err]
      [] f.at = "create" -> [phase |-> "save", iri |-> f.iri,
                             version |-> f.version, todo |-> f.todo]
      [] f.at = "save"   -> [phase |-> "done"]
      [] OTHER           -> [phase |-> "edit", iri |-> f.iri,
                             add |-> f.add, delta |-> f.delta]

Pending == [p \in Procs |-> Seen(frame[p])]

Contract == INSTANCE ItemContract WITH contents <- Contents, pending <- Pending

(* A running call changes what is under its own IRI and nothing else, however old *)
(* the pointer it writes through, but for the collections a Save opens where there *)
(* are none (storage_mem.go:90-145, 176-200).                                      *)
CallsStayApart ==
    [][\A p \in Procs, k \in IRIs :
          ~Idle(p) /\ frame'[p] # frame[p] /\ Contents'[k] # Contents[k] =>
             \/ k = frame[p].iri
             \/ frame[p].at = "create" /\ Contents[k] = Absent /\ Contents'[k] = {}]_vars

(* Why it implements the contract where Orderly: the collections that a stored *)
(* object names exist, and of a running Save those it is not going to create.   *)
NamedExist ==
    \A o \in Objects : store[o] # Absent =>
        \A i \in DOMAIN store[o] : store[store[o][i]] # Absent

SavesKeepUp ==
    \A p \in Procs : frame[p].at = "create" =>
        \A i \in DOMAIN frame[p].version :
            LET c == frame[p].version[i]
            IN  store[c] # Absent \/ Names(frame[p].todo, c)

OrderlyInvariant == Orderly => NamedExist /\ SavesKeepUp /\ overlapped = {}

(* For orderly callers the storage, with its heap, addresses and snapshots, does  *)
(* what the interface asks of a backend: every Save creates the collections its   *)
(* object names, each edit takes effect once on the collection that is stored,    *)
(* and all replies are the contract's (storage_mem.go:62-200).                     *)
ImplementsContract == Contract!Spec
=============================================================================
