-------------------------- MODULE ItemStorageProofs --------------------------
(***************************************************************************)
(* Proofs about ItemStorage, for any number of goroutines, objects,        *)
(* collections, members and addresses, with or without overlapping calls;  *)
(* and that it implements ItemContract where no two calls on the same IRI  *)
(* overlap.                                                                *)
(***************************************************************************)
EXTENDS ItemStorage, Naturals, TLAPS

(* What a goroutine is doing tells the fields of its frame. *)
LEMMA FrameShape ==
  ASSUME FrameTypeOK, NEW p \in Procs
  PROVE  /\ frame[p].at = "create" => frame[p] \in SaveFrames
         /\ Editing(p) => frame[p] \in EditFrames
         /\ Idle(p) => frame[p] \in IdleFrames
         /\ Idle(p) => ~Editing(p)
         /\ frame[p].at = "create" => ~Editing(p)
  BY DEF FrameTypeOK, SaveFrames, EditFrames, IdleFrames, Editing, Idle

LEMMA InitInductive == Init => InductiveInvariant
  BY NamedAssumption, KeysAssumption, ValuesAssumption
     DEF Init, InductiveInvariant, TypeOK, StoreTypeOK, FrameTypeOK, HistoryTypeOK,
         StoredUnderOwnIRI, EditsOwnCell, UncontendedEditsAreCurrent, RepliesHold,
         Editing, ItemsOf, IRIs, IdleFrames, Errors, CellValues

-----------------------------------------------------------------------------
(* The types, one lemma for each part. *)

LEMMA StoreTypePreserved ==
  ASSUME InductiveInvariant, [Next]_vars
  PROVE  StoreTypeOK'
  <1> USE DEF IRIs
  <1>t. StoreTypeOK /\ FrameTypeOK /\ EditsOwnCell
    BY DEF InductiveInvariant, TypeOK
  <1>same. CASE UNCHANGED <<store, heap>>
    BY <1>same, <1>t DEF StoreTypeOK
  <1>new. ASSUME NEW c \in Collections, NEW r \in Cells, NEW s \in {"collection", "page"},
                 NEW S \in SUBSET Members,
                 store' = [store EXCEPT ![c] = r], NewCollection(r, c, s, S)
          PROVE  StoreTypeOK'
    BY <1>new, <1>t, KeysAssumption, ValuesAssumption
       DEF StoreTypeOK, NewCollection, CellValues
  <1>1. ASSUME NEW p \in Procs, SaveCollectionIfExists(p) PROVE StoreTypeOK'
    <2>1. Head(frame[p].todo) \in Collections
      BY <1>1, <1>t, FrameShape DEF SaveCollectionIfExists, SaveFrames
    <2> QED BY <1>1, <1>new, <1>same, <2>1 DEF SaveCollectionIfExists, FreeCells
  <1>2. ASSUME NEW p \in Procs, StoreObject(p) PROVE StoreTypeOK'
    <2>1. frame[p].iri \in Objects /\ frame[p].version \in Versions
      BY <1>2, <1>t, FrameShape DEF StoreObject, SaveFrames
    <2> QED BY <1>2, <2>1, <1>t, KeysAssumption, ValuesAssumption
            DEF StoreObject, StoreTypeOK
  <1>3. ASSUME NEW p \in Procs, NEW c \in Collections, NEW s \in Shapes,
               NEW S \in Fills, SaveCollection(p, c, s, S)
        PROVE  StoreTypeOK'
    BY <1>3, <1>new, ShapesAssumption, FillsAssumption DEF SaveCollection, FreeCells
  <1>4. ASSUME NEW p \in Procs, NEW k \in IRIs, Delete(p, k) PROVE StoreTypeOK'
    BY <1>4, <1>t, ValuesAssumption DEF Delete, StoreTypeOK
  <1>5. ASSUME NEW p \in Procs, WriteItems(p) \/ AppendFails(p) PROVE StoreTypeOK'
    <2>1. frame[p] \in EditFrames
      BY <1>5, <1>t, FrameShape DEF WriteItems, AppendFails, Editing
    <2>2. PICK T \in SUBSET Members : heap' = [heap EXCEPT ![frame[p].cell].items = T]
      BY <1>5, <2>1 DEF WriteItems, AppendFails, Edited, EditFrames
    <2>3. store' = store
      BY <1>5 DEF WriteItems, AppendFails
    <2> QED BY <2>1, <2>2, <2>3, <1>t DEF StoreTypeOK, EditFrames, CellValues
  <1>6. ASSUME NEW p \in Procs, SaveEdited(p) PROVE StoreTypeOK'
    <2>1. frame[p] \in EditFrames /\ heap[frame[p].cell].iri = frame[p].iri
      BY <1>6, <1>t, FrameShape DEF SaveEdited, EditsOwnCell, Editing
    <2> QED BY <1>6, <2>1, <1>t, KeysAssumption, ValuesAssumption
            DEF SaveEdited, StoreTypeOK, EditFrames
  <1> QED
    BY <1>same, <1>1, <1>2, <1>3, <1>4, <1>5, <1>6
       DEF Next, vars, Save, AddTo, RemoveFrom, LoadCol, LoadColFails, ReadItems, Load

LEMMA FrameTypePreserved ==
  ASSUME InductiveInvariant, [Next]_vars
  PROVE  FrameTypeOK'
  <1> USE DEF IRIs
  <1>t. StoreTypeOK /\ FrameTypeOK
    BY DEF InductiveInvariant, TypeOK
  <1>same. CASE UNCHANGED frame
    BY <1>same, <1>t DEF FrameTypeOK
  <1>idle. ASSUME NEW p \in Procs, NEW e \in Errors, Return(p, e) PROVE FrameTypeOK'
    <2>1. [at |-> "idle", err |-> e] \in IdleFrames
      BY DEF IdleFrames
    <2> QED BY <1>idle, <2>1, <1>t DEF Return, FrameTypeOK
  <1>1. ASSUME NEW p \in Procs, NEW o \in Objects, NEW v \in Named[o], Save(p, o, v)
        PROVE  FrameTypeOK'
    <2>1. v \in Versions /\ v \in Seq(Collections)
      BY NamedAssumption DEF Versions
    <2>2. [at |-> "create", iri |-> o, version |-> v,
           todo |-> IF store[o] = Absent THEN v ELSE <<>>] \in SaveFrames
      BY <2>1 DEF SaveFrames
    <2> QED BY <1>1, <1>t, <2>2 DEF FrameTypeOK, Save
  <1>2. ASSUME NEW p \in Procs, SaveCollectionIfExists(p) PROVE FrameTypeOK'
    <2>1. frame[p] \in SaveFrames
      BY <1>2, <1>t, FrameShape DEF SaveCollectionIfExists
    <2>2. [frame[p] EXCEPT !.todo = Tail(@)] \in SaveFrames
      BY <2>1, <1>2 DEF SaveFrames, SaveCollectionIfExists
    <2> QED BY <2>2, <1>2, <1>t DEF FrameTypeOK, SaveCollectionIfExists
  <1>3. ASSUME NEW p \in Procs, StoreObject(p) \/ SaveEdited(p) \/ AppendFails(p)
        PROVE  FrameTypeOK'
    BY <1>3, <1>idle DEF StoreObject, SaveEdited, AppendFails, Errors
  <1>4. ASSUME NEW p \in Procs, NEW c \in Collections, NEW s \in Shapes,
               NEW S \in Fills, SaveCollection(p, c, s, S)
        PROVE  FrameTypeOK'
    BY <1>4, <1>idle DEF SaveCollection, Errors
  <1>5. ASSUME NEW p \in Procs, NEW k \in IRIs,
               \/ Delete(p, k)
               \/ \E missing \in Errors : LoadColFails(p, k, missing)
               \/ \E filtered \in BOOLEAN : Load(p, k, filtered)
        PROVE  FrameTypeOK'
    BY <1>5, <1>idle DEF Delete, LoadColFails, Load, Errors
  <1>6. ASSUME NEW p \in Procs, NEW k \in IRIs, NEW add \in BOOLEAN,
               NEW S \in SUBSET Members, LoadCol(p, k, add, S)
        PROVE  FrameTypeOK'
    <2>1. k \in Collections
      BY <1>6, <1>t DEF LoadCol, StoreTypeOK
    <2>2. [at |-> "read", iri |-> k, cell |-> store[k], add |-> add, delta |-> S,
           snap |-> {}] \in EditFrames
      BY <1>6, <2>1 DEF LoadCol, EditFrames
    <2> QED BY <1>6, <2>2, <1>t DEF LoadCol, FrameTypeOK
  <1>7. ASSUME NEW p \in Procs, ReadItems(p) PROVE FrameTypeOK'
    <2>1. frame[p] \in EditFrames
      BY <1>7, <1>t, FrameShape DEF ReadItems, Editing
    <2>2. heap[frame[p].cell].items \in SUBSET Members
      BY <2>1, <1>t DEF EditFrames, StoreTypeOK, CellValues
    <2>3. [frame[p] EXCEPT !.at = "write", !.snap = heap[frame[p].cell].items]
             \in EditFrames
      BY <2>1, <2>2 DEF EditFrames
    <2> QED BY <2>3, <1>7, <1>t DEF FrameTypeOK, ReadItems
  <1>8. ASSUME NEW p \in Procs, WriteItems(p) PROVE FrameTypeOK'
    <2>1. frame[p] \in EditFrames
      BY <1>8, <1>t, FrameShape DEF WriteItems, Editing
    <2>2. [frame[p] EXCEPT !.at = "save"] \in EditFrames
      BY <2>1 DEF EditFrames
    <2> QED BY <2>2, <1>8, <1>t DEF FrameTypeOK, WriteItems
  <1> QED
    BY <1>same, <1>1, <1>2, <1>3, <1>4, <1>5, <1>6, <1>7, <1>8
       DEF Next, vars, AddTo, RemoveFrom, Errors

LEMMA HistoryTypePreserved ==
  ASSUME InductiveInvariant, [Next]_vars
  PROVE  HistoryTypeOK'
  <1>t. StoreTypeOK /\ FrameTypeOK /\ HistoryTypeOK
    BY DEF InductiveInvariant, TypeOK
  <1>same. CASE UNCHANGED <<known, possible, overlapped>>
    BY <1>same, <1>t DEF HistoryTypeOK
  <1>1. ASSUME NEW p \in Procs, NEW c \in Collections, NEW s \in Shapes,
               NEW S \in Fills, SaveCollection(p, c, s, S)
        PROVE  HistoryTypeOK'
    BY <1>1, <1>t, FillsAssumption DEF SaveCollection, Overlap, HistoryTypeOK
  <1>2. ASSUME NEW p \in Procs, NEW k \in IRIs, Delete(p, k) PROVE HistoryTypeOK'
    BY <1>2, <1>t DEF Delete, Overlap, HistoryTypeOK
  <1>3. ASSUME NEW p \in Procs, NEW k \in IRIs, NEW S \in SUBSET Members,
               AddTo(p, k, S) \/ RemoveFrom(p, k, S)
        PROVE  HistoryTypeOK'
    BY <1>3, <1>t, <1>same
       DEF AddTo, RemoveFrom, LoadCol, LoadColFails, Overlap, HistoryTypeOK
  <1>4. ASSUME NEW p \in Procs, SaveEdited(p) PROVE HistoryTypeOK'
    <2>1. frame[p] \in EditFrames
      BY <1>4, <1>t, FrameShape DEF SaveEdited, Editing
    <2> QED BY <1>4, <2>1, <1>t DEF SaveEdited, EditFrames, HistoryTypeOK
  <1> QED
    BY <1>same, <1>1, <1>2, <1>3, <1>4
       DEF Next, vars, Save, SaveCollectionIfExists, StoreObject, ReadItems, WriteItems,
           AppendFails, Load

-----------------------------------------------------------------------------
(* What a step does to the cells: one that takes a free cell disturbs no      *)
(* stored collection and no edited one; the others keep every collection's ID. *)

LEMMA NewCellIsFresh ==
  ASSUME InductiveInvariant, NEW c \in Collections, NEW r \in FreeCells,
         NEW s \in {"collection", "page"}, NEW S \in SUBSET Members,
         NewCollection(r, c, s, S)
  PROVE  /\ heap'[r].iri = c /\ heap'[r].items = S
         /\ \A k \in IRIs : store[k] \in Cells => heap'[store[k]] = heap[store[k]]
         /\ \A p \in Procs : Editing(p) => heap'[frame[p].cell] = heap[frame[p].cell]
  <1>1. StoreTypeOK /\ FrameTypeOK
    BY DEF InductiveInvariant, TypeOK
  <1>2. \A p \in Procs : Editing(p) => frame[p].cell \in Cells /\ frame[p].cell # r
    BY <1>1, FrameShape DEF EditFrames, FreeCells
  <1>3. heap'[r] = [iri |-> c, shape |-> s, items |-> S]
    BY <1>1 DEF NewCollection, FreeCells, StoreTypeOK
  <1> QED BY <1>1, <1>2, <1>3 DEF NewCollection, FreeCells, StoreTypeOK

(* A step that changes a collection's items in place changes nothing else. *)
LEMMA WritesInPlace ==
  ASSUME InductiveInvariant, NEW p \in Procs, WriteItems(p) \/ AppendFails(p)
  PROVE  /\ frame[p] \in EditFrames
         /\ store' = store
         /\ \A r \in Cells : heap'[r].iri = heap[r].iri
         /\ \A r \in Cells \ {frame[p].cell} : heap'[r].items = heap[r].items
         /\ WriteItems(p) => heap'[frame[p].cell].items = Edited(frame[p])
         /\ AppendFails(p) =>
               \E S \in SUBSET frame[p].delta :
                  heap'[frame[p].cell].items = frame[p].snap \cup S
  <1>1. StoreTypeOK /\ FrameTypeOK
    BY DEF InductiveInvariant, TypeOK
  <1>2. frame[p] \in EditFrames
    BY <1>1, FrameShape DEF WriteItems, AppendFails, Editing
  <1>3. frame[p].cell \in Cells
    BY <1>2 DEF EditFrames
  <1>4. ASSUME NEW T, heap' = [heap EXCEPT ![frame[p].cell].items = T]
        PROVE  /\ \A r \in Cells : heap'[r].iri = heap[r].iri
               /\ \A r \in Cells \ {frame[p].cell} : heap'[r].items = heap[r].items
               /\ heap'[frame[p].cell].items = T
    BY <1>4, <1>1, <1>3 DEF StoreTypeOK, CellValues
  <1>5. CASE WriteItems(p)
    BY <1>2, <1>4, <1>5 DEF WriteItems, AppendFails
  <1>6. CASE AppendFails(p)
    BY <1>2, <1>4, <1>6 DEF WriteItems, AppendFails
  <1> QED BY <1>5, <1>6

LEMMA StoredUnderOwnIRIPreserved ==
  ASSUME InductiveInvariant, [Next]_vars
  PROVE  StoredUnderOwnIRI'
  <1>t. StoreTypeOK /\ FrameTypeOK /\ EditsOwnCell /\ StoredUnderOwnIRI
    BY DEF InductiveInvariant, TypeOK
  <1>same. CASE UNCHANGED <<store, heap>>
    BY <1>same, <1>t DEF StoredUnderOwnIRI
  <1>new. ASSUME NEW c \in Collections, NEW r \in FreeCells,
                 NEW s \in {"collection", "page"}, NEW S \in SUBSET Members,
                 store' = [store EXCEPT ![c] = r], NewCollection(r, c, s, S)
          PROVE  StoredUnderOwnIRI'
    <2>1. \A k \in Collections : store'[k] = IF k = c THEN r ELSE store[k]
      BY <1>new, <1>t DEF StoreTypeOK, IRIs
    <2>2. heap'[r].iri = c
      BY <1>new, NewCellIsFresh
    <2>3. \A k \in Collections : store[k] \in Cells => heap'[store[k]] = heap[store[k]]
      BY <1>new, NewCellIsFresh DEF IRIs
    <2> QED BY <2>1, <2>2, <2>3, <1>t DEF StoredUnderOwnIRI
  <1>1. ASSUME NEW p \in Procs, SaveCollectionIfExists(p) PROVE StoredUnderOwnIRI'
    <2>1. Head(frame[p].todo) \in Collections
      BY <1>1, <1>t, FrameShape DEF SaveCollectionIfExists, SaveFrames
    <2> QED BY <1>1, <1>new, <1>same, <2>1 DEF SaveCollectionIfExists
  <1>2. ASSUME NEW p \in Procs, StoreObject(p) PROVE StoredUnderOwnIRI'
    <2>1. frame[p].iri \in Objects
      BY <1>2, <1>t, FrameShape DEF StoreObject, SaveFrames
    <2> QED BY <1>2, <2>1, <1>t, KeysAssumption
            DEF StoreObject, StoreTypeOK, StoredUnderOwnIRI, IRIs
  <1>3. ASSUME NEW p \in Procs, NEW c \in Collections, NEW s \in Shapes,
               NEW S \in Fills, SaveCollection(p, c, s, S)
        PROVE  StoredUnderOwnIRI'
    BY <1>3, <1>new, ShapesAssumption, FillsAssumption DEF SaveCollection
  <1>4. ASSUME NEW p \in Procs, NEW k \in IRIs, Delete(p, k) PROVE StoredUnderOwnIRI'
    BY <1>4, <1>t, ValuesAssumption DEF Delete, StoreTypeOK, StoredUnderOwnIRI, IRIs
  <1>5. ASSUME NEW p \in Procs, WriteItems(p) \/ AppendFails(p)
        PROVE  StoredUnderOwnIRI'
    <2>1. store' = store /\ \A r \in Cells : heap'[r].iri = heap[r].iri
      BY <1>5, WritesInPlace
    <2> QED BY <2>1, <1>t DEF StoredUnderOwnIRI
  <1>6. ASSUME NEW p \in Procs, SaveEdited(p) PROVE StoredUnderOwnIRI'
    <2>1. frame[p] \in EditFrames /\ heap[frame[p].cell].iri = frame[p].iri
      BY <1>6, <1>t, FrameShape DEF SaveEdited, EditsOwnCell, Editing
    <2> QED BY <1>6, <2>1, <1>t
            DEF SaveEdited, StoreTypeOK, StoredUnderOwnIRI, EditFrames, IRIs
  <1> QED
    BY <1>same, <1>1, <1>2, <1>3, <1>4, <1>5, <1>6
       DEF Next, vars, Save, AddTo, RemoveFrom, LoadCol, LoadColFails, ReadItems, Load

LEMMA EditsOwnCellPreserved ==
  ASSUME InductiveInvariant, [Next]_vars
  PROVE  EditsOwnCell'
  <1>t. StoreTypeOK /\ FrameTypeOK /\ EditsOwnCell /\ StoredUnderOwnIRI
    BY DEF InductiveInvariant, TypeOK
  (* A step of p that leaves it idle, or editing what it edited. *)
  <1>keep. ASSUME NEW p \in Procs,
                  \A q \in Procs : Editing(q) =>
                     heap'[frame[q].cell].iri = heap[frame[q].cell].iri,
                  \A q \in Procs \ {p} : frame'[q] = frame[q],
                  Editing(p)' => /\ Editing(p)
                                 /\ frame'[p].cell = frame[p].cell
                                 /\ frame'[p].iri = frame[p].iri
           PROVE  EditsOwnCell'
    BY <1>keep, <1>t DEF EditsOwnCell, Editing
  <1>new. ASSUME NEW p \in Procs, NEW c \in Collections, NEW r \in FreeCells,
                 NEW s \in {"collection", "page"}, NEW S \in SUBSET Members,
                 NewCollection(r, c, s, S),
                 \A q \in Procs \ {p} : frame'[q] = frame[q], ~Editing(p)'
          PROVE  EditsOwnCell'
    BY <1>new, <1>keep, NewCellIsFresh
  <1>1. ASSUME NEW p \in Procs, SaveCollectionIfExists(p) PROVE EditsOwnCell'
    <2>1. Head(frame[p].todo) \in Collections
      BY <1>1, <1>t, FrameShape DEF SaveCollectionIfExists, SaveFrames
    <2>2. /\ ~Editing(p)'
          /\ \A q \in Procs \ {p} : frame'[q] = frame[q]
      BY <1>1, <1>t, FrameShape
         DEF SaveCollectionIfExists, FrameTypeOK, Editing, SaveFrames
    <2> QED BY <1>1, <1>new, <1>keep, <2>1, <2>2 DEF SaveCollectionIfExists
  <1>2. ASSUME NEW p \in Procs, NEW c \in Collections, NEW s \in Shapes,
               NEW S \in Fills, SaveCollection(p, c, s, S)
        PROVE  EditsOwnCell'
    <2>1. ~Editing(p)' /\ \A q \in Procs \ {p} : frame'[q] = frame[q]
      BY <1>2, <1>t DEF SaveCollection, Return, FrameTypeOK, Editing
    <2> QED BY <1>2, <2>1, <1>new, ShapesAssumption, FillsAssumption DEF SaveCollection
  <1>3. ASSUME NEW p \in Procs, NEW k \in IRIs, NEW add \in BOOLEAN,
               NEW S \in SUBSET Members, LoadCol(p, k, add, S)
        PROVE  EditsOwnCell'
    <2>1. k \in Collections
      BY <1>3, <1>t DEF LoadCol, StoreTypeOK, IRIs
    <2> QED BY <1>3, <2>1, <1>t
            DEF LoadCol, FrameTypeOK, EditsOwnCell, StoredUnderOwnIRI, Editing
  <1>4. ASSUME NEW p \in Procs, ReadItems(p) PROVE EditsOwnCell'
    <2>1. frame[p] \in EditFrames /\ Editing(p)
      BY <1>4, <1>t, FrameShape DEF ReadItems, Editing
    <2> QED BY <1>4, <1>keep, <2>1, <1>t DEF ReadItems, FrameTypeOK, EditFrames
  <1>5. ASSUME NEW p \in Procs, WriteItems(p) \/ AppendFails(p) PROVE EditsOwnCell'
    <2>1. frame[p] \in EditFrames /\ Editing(p)
      BY <1>5, <1>t, FrameShape DEF WriteItems, AppendFails, Editing
    <2>2. \A r \in Cells : heap'[r].iri = heap[r].iri
      BY <1>5, WritesInPlace
    <2>3. \A q \in Procs : Editing(q) => frame[q].cell \in Cells
      BY <1>t, FrameShape DEF EditFrames
    <2>4. \A q \in Procs \ {p} : frame'[q] = frame[q]
      BY <1>5, <1>t DEF WriteItems, AppendFails, Return, FrameTypeOK
    <2>5. Editing(p)' => frame'[p].cell = frame[p].cell /\ frame'[p].iri = frame[p].iri
      BY <1>5, <1>t, <2>1 DEF WriteItems, AppendFails, Return, FrameTypeOK, Editing,
                              EditFrames
    <2> QED BY <1>keep, <2>1, <2>2, <2>3, <2>4, <2>5
  <1>6. ASSUME NEW p \in Procs, heap' = heap,
               \/ \E e \in Errors : Return(p, e)
               \/ \E o \in Objects, v \in Versions : Save(p, o, v)
        PROVE  EditsOwnCell'
    <2>1. ~Editing(p)' /\ \A q \in Procs \ {p} : frame'[q] = frame[q]
      BY <1>6, <1>t DEF Return, Save, FrameTypeOK, Editing
    <2> QED BY <1>6, <1>keep, <2>1
  <1>7. CASE UNCHANGED vars
    BY <1>7, <1>t DEF vars, EditsOwnCell, Editing
  <1>8. ASSUME NEW p \in Procs, NEW k \in IRIs,
               \/ \E missing \in Errors : LoadColFails(p, k, missing)
               \/ Delete(p, k)
               \/ \E filtered \in BOOLEAN : Load(p, k, filtered)
        PROVE  EditsOwnCell'
    <2>1. heap' = heap /\ \E e \in Errors : Return(p, e)
      BY <1>8 DEF LoadColFails, Delete, Load, Errors
    <2> QED BY <1>6, <2>1
  <1>9. ASSUME NEW p \in Procs, StoreObject(p) \/ SaveEdited(p) PROVE EditsOwnCell'
    <2>1. heap' = heap /\ \E e \in Errors : Return(p, e)
      BY <1>9 DEF StoreObject, SaveEdited, Errors
    <2> QED BY <1>6, <2>1
  <1>10. ASSUME NEW p \in Procs, NEW o \in Objects, NEW v \in Named[o], Save(p, o, v)
         PROVE  EditsOwnCell'
    BY <1>10, <1>6 DEF Save, Versions
  <1> QED
    BY <1>1, <1>2, <1>3, <1>4, <1>5, <1>7, <1>8, <1>9, <1>10
       DEF Next, AddTo, RemoveFrom, Errors

-----------------------------------------------------------------------------
(* A step of one goroutine leaves the frames of the others alone. *)
LEMMA OthersKeepTheirFrame ==
  ASSUME InductiveInvariant, NEW p \in Procs, NEW f, frame' = [frame EXCEPT ![p] = f]
  PROVE  frame'[p] = f /\ \A q \in Procs \ {p} : frame'[q] = frame[q]
  BY DEF InductiveInvariant, TypeOK, FrameTypeOK

LEMMA ReturnEndsTheCall ==
  ASSUME InductiveInvariant, NEW p \in Procs, NEW e, Return(p, e)
  PROVE  ~Editing(p)' /\ \A q \in Procs \ {p} : frame'[q] = frame[q]
  <1>1. FrameTypeOK
    BY DEF InductiveInvariant, TypeOK
  <1>2. frame'[p].at = "idle" /\ \A q \in Procs \ {p} : frame'[q] = frame[q]
    BY <1>1 DEF Return, FrameTypeOK
  <1> QED BY <1>2 DEF Editing

(* What an editing goroutine depends on, so that a step that leaves it alone *)
(* leaves its edit current.                                                  *)
LEMMA UndisturbedEditStaysCurrent ==
  ASSUME NEW q \in Procs, EditIsCurrent(q), frame'[q] = frame[q],
         store'[frame[q].iri] = store[frame[q].iri],
         heap'[frame[q].cell].items = heap[frame[q].cell].items,
         possible'[frame[q].iri] = possible[frame[q].iri],
         known'[frame[q].iri] = known[frame[q].iri],
         \A r \in Procs : Editing(r)' /\ frame'[r].iri = frame[q].iri =>
                             Editing(r) /\ frame[r].iri = frame[q].iri
  PROVE  EditIsCurrent(q)'
  BY DEF EditIsCurrent

(* Any call on an IRI that finds another one running on it is recorded. *)
LEMMA OverlapIsRecorded ==
  ASSUME InductiveInvariant, NEW q \in Procs, NEW k, Editing(q), Overlap(k),
         frame[q].iri \notin overlapped'
  PROVE  k # frame[q].iri /\ overlapped \subseteq overlapped'
  <1>1. frame[q].iri \in Collections /\ ~Idle(q)
    BY FrameShape DEF InductiveInvariant, TypeOK, EditFrames, Editing, Idle
  <1>2. frame[q].iri \in Busy
    BY <1>1 DEF Busy
  <1> QED BY <1>1, <1>2 DEF Overlap

(* Two goroutines whose edits are not recorded as overlapping edit two cells. *)
LEMMA UncontendedCellsDiffer ==
  ASSUME InductiveInvariant, NEW p \in Procs, NEW q \in Procs \ {p},
         Editing(p), Editing(q), frame[q].iri \notin overlapped
  PROVE  frame[p].iri # frame[q].iri /\ frame[p].cell # frame[q].cell
  <1>1. frame[p].iri # frame[q].iri
    BY DEF InductiveInvariant, UncontendedEditsAreCurrent, EditIsCurrent
  <1> QED BY <1>1 DEF InductiveInvariant, EditsOwnCell

LEMMA UncontendedEditsPreserved ==
  ASSUME InductiveInvariant, [Next]_vars
  PROVE  UncontendedEditsAreCurrent'
  <1>t. StoreTypeOK /\ FrameTypeOK /\ HistoryTypeOK /\ EditsOwnCell
    BY DEF InductiveInvariant, TypeOK
  <1> SUFFICES ASSUME NEW q \in Procs, Editing(q)', frame'[q].iri \notin overlapped'
               PROVE  EditIsCurrent(q)'
    BY DEF UncontendedEditsAreCurrent
  <1>cur. ASSUME Editing(q), frame[q].iri \notin overlapped
          PROVE  /\ EditIsCurrent(q)
                 /\ frame[q] \in EditFrames
                 /\ frame[q].iri \in Collections
                 /\ frame[q].cell \in Cells
                 /\ store[frame[q].iri] = frame[q].cell
    <2>1. EditIsCurrent(q) /\ frame[q] \in EditFrames
      BY <1>cur, <1>t, FrameShape DEF InductiveInvariant, UncontendedEditsAreCurrent
    <2> QED BY <2>1 DEF EditFrames, EditIsCurrent
  (* The goroutine that steps ends the step idle or in a Save of an object. *)
  <1>quiet. ASSUME NEW p \in Procs, ~Editing(p)',
                   \A r \in Procs \ {p} : frame'[r] = frame[r],
                   overlapped \subseteq overlapped',
                   Editing(q) /\ frame[q].iri \notin overlapped /\ q # p =>
                      /\ store'[frame[q].iri] = store[frame[q].iri]
                      /\ heap'[frame[q].cell].items = heap[frame[q].cell].items
                      /\ possible'[frame[q].iri] = possible[frame[q].iri]
                      /\ known'[frame[q].iri] = known[frame[q].iri]
            PROVE  EditIsCurrent(q)'
    <2>1. q # p /\ frame'[q] = frame[q] /\ Editing(q) /\ frame[q].iri \notin overlapped
      BY <1>quiet DEF Editing
    <2>2. \A r \in Procs : Editing(r)' /\ frame'[r].iri = frame[q].iri =>
                              Editing(r) /\ frame[r].iri = frame[q].iri
      BY <1>quiet DEF Editing
    <2> QED BY <1>quiet, <2>1, <2>2, <1>cur, UndisturbedEditStaysCurrent
  <1>1. ASSUME NEW p \in Procs, SaveCollectionIfExists(p) PROVE EditIsCurrent(q)'
    <2>1. /\ Head(frame[p].todo) \in Collections
          /\ ~Editing(p)'
          /\ \A r \in Procs \ {p} : frame'[r] = frame[r]
      BY <1>1, <1>t, FrameShape
         DEF SaveCollectionIfExists, SaveFrames, FrameTypeOK, Editing
    <2>2. ASSUME Editing(q), frame[q].iri \notin overlapped
          PROVE  /\ store'[frame[q].iri] = store[frame[q].iri]
                 /\ heap'[frame[q].cell].items = heap[frame[q].cell].items
      <3>1. store[frame[q].iri] # Absent /\ frame[q].iri \in IRIs
        BY <1>cur, <2>2, ValuesAssumption DEF IRIs
      <3>2. CASE UNCHANGED <<store, heap>>
        BY <3>2
      <3>3. ASSUME NEW r \in FreeCells, store[Head(frame[p].todo)] = Absent,
                   store' = [store EXCEPT ![Head(frame[p].todo)] = r],
                   NewCollection(r, Head(frame[p].todo), "collection", {})
            PROVE  /\ store'[frame[q].iri] = store[frame[q].iri]
                   /\ heap'[frame[q].cell].items = heap[frame[q].cell].items
        BY <3>3, <3>1, <2>1, <2>2, <1>t, NewCellIsFresh DEF StoreTypeOK
      <3> QED BY <3>2, <3>3, <1>1 DEF SaveCollectionIfExists
    <2> QED BY <1>1, <1>quiet, <2>1, <2>2 DEF SaveCollectionIfExists
  <1>2. ASSUME NEW p \in Procs, StoreObject(p) PROVE EditIsCurrent(q)'
    <2>1. frame[p].iri \in Objects
      BY <1>2, <1>t, FrameShape DEF StoreObject, SaveFrames
    <2>2. ~Editing(p)' /\ \A r \in Procs \ {p} : frame'[r] = frame[r]
      BY <1>2, ReturnEndsTheCall DEF StoreObject
    <2>3. Editing(q) /\ frame[q].iri \notin overlapped =>
             store'[frame[q].iri] = store[frame[q].iri]
      BY <1>2, <1>cur, <2>1, <1>t, KeysAssumption DEF StoreObject, StoreTypeOK, IRIs
    <2> QED BY <1>2, <2>2, <2>3, <1>quiet DEF StoreObject
  <1>3. ASSUME NEW p \in Procs, NEW c \in Collections, NEW s \in Shapes,
               NEW S \in Fills, SaveCollection(p, c, s, S)
        PROVE  EditIsCurrent(q)'
    <2>1. ~Editing(p)' /\ \A r \in Procs \ {p} : frame'[r] = frame[r]
      BY <1>3, ReturnEndsTheCall DEF SaveCollection
    <2>2. q # p /\ frame'[q] = frame[q] /\ Editing(q)
      BY <2>1 DEF Editing
    <2>3. c # frame[q].iri /\ overlapped \subseteq overlapped'
      BY <1>3, <2>2, OverlapIsRecorded DEF SaveCollection
    <2>4. PICK r \in FreeCells : /\ store' = [store EXCEPT ![c] = r]
                                 /\ NewCollection(r, c, s, S)
      BY <1>3 DEF SaveCollection
    <2>5. heap'[frame[q].cell] = heap[frame[q].cell]
      BY <2>2, <2>4, NewCellIsFresh, ShapesAssumption, FillsAssumption
    <2>6. frame[q].iri \in Collections
      BY <2>2, <2>3, <1>cur
    <2>7. store'[frame[q].iri] = store[frame[q].iri]
      BY <2>3, <2>4, <2>6, <1>t DEF StoreTypeOK, IRIs
    <2>8. /\ possible'[frame[q].iri] = possible[frame[q].iri]
          /\ known'[frame[q].iri] = known[frame[q].iri]
      BY <1>3, <2>3, <2>6, <1>t DEF SaveCollection, HistoryTypeOK
    <2> QED BY <2>1, <2>3, <2>5, <2>7, <2>8, <1>quiet
  <1>4. ASSUME NEW p \in Procs, NEW k \in IRIs, Delete(p, k) PROVE EditIsCurrent(q)'
    <2>1. ~Editing(p)' /\ \A r \in Procs \ {p} : frame'[r] = frame[r]
      BY <1>4, ReturnEndsTheCall DEF Delete
    <2>2. q # p /\ frame'[q] = frame[q] /\ Editing(q)
      BY <2>1 DEF Editing
    <2>3. k # frame[q].iri /\ overlapped \subseteq overlapped'
      BY <1>4, <2>2, OverlapIsRecorded DEF Delete
    <2>4. frame[q].iri \in Collections
      BY <2>2, <2>3, <1>cur
    <2>5. store'[frame[q].iri] = store[frame[q].iri]
      BY <1>4, <2>3, <2>4, <1>t DEF Delete, StoreTypeOK, IRIs
    <2>6. /\ possible'[frame[q].iri] = possible[frame[q].iri]
          /\ known'[frame[q].iri] = known[frame[q].iri]
      BY <1>4, <2>3, <2>4, <1>t DEF Delete, HistoryTypeOK
    <2>7. heap' = heap
      BY <1>4 DEF Delete
    <2> QED BY <2>1, <2>3, <2>5, <2>6, <2>7, <1>quiet
  <1>5. ASSUME NEW p \in Procs, NEW k \in IRIs, NEW add \in BOOLEAN,
               NEW S \in SUBSET Members, LoadCol(p, k, add, S),
               add => S \subseteq possible'[k],
               ~add => S \cap known'[k] = {},
               \A c \in Collections \ {k} : possible'[c] = possible[c] /\ known'[c] = known[c]
        PROVE  EditIsCurrent(q)'
    <2>1. /\ frame'[p] = [at |-> "read", iri |-> k, cell |-> store[k], add |-> add,
                          delta |-> S, snap |-> {}]
          /\ \A r \in Procs \ {p} : frame'[r] = frame[r]
      BY <1>5, OthersKeepTheirFrame DEF LoadCol
    <2>2. k \in Collections /\ store' = store /\ heap' = heap
      BY <1>5, <1>t DEF LoadCol, StoreTypeOK, IRIs
    <2>3. ASSUME NEW r \in Procs \ {p}, Editing(r), frame[r].iri \notin overlapped'
          PROVE  k # frame[r].iri /\ overlapped \subseteq overlapped'
      BY <1>5, <2>3, OverlapIsRecorded DEF LoadCol
    <2>4. CASE q = p
      <3>1. \A r \in Procs \ {p} : Editing(r)' => frame'[r].iri # k
        BY <2>1, <2>3, <2>4 DEF Editing
      <3> QED BY <2>1, <2>2, <2>4, <3>1, <1>5 DEF EditIsCurrent
    <2>5. CASE q # p
      <3>1. frame'[q] = frame[q] /\ Editing(q) /\ k # frame[q].iri
            /\ frame[q].iri \notin overlapped
        BY <2>1, <2>3, <2>5 DEF Editing
      <3>2. \A r \in Procs : Editing(r)' /\ frame'[r].iri = frame[q].iri =>
                                Editing(r) /\ frame[r].iri = frame[q].iri
        BY <2>1, <3>1 DEF Editing
      <3> QED BY <1>5, <2>2, <3>1, <3>2, <1>cur, UndisturbedEditStaysCurrent
    <2> QED BY <2>4, <2>5
  <1>6. ASSUME NEW p \in Procs, ReadItems(p) PROVE EditIsCurrent(q)'
    <2>1. frame[p] \in EditFrames /\ Editing(p)
      BY <1>6, <1>t, FrameShape DEF ReadItems, Editing
    <2>2. /\ frame'[p].at = "write" /\ frame'[p].snap = heap[frame[p].cell].items
          /\ frame'[p].iri = frame[p].iri /\ frame'[p].cell = frame[p].cell
          /\ frame'[p].add = frame[p].add /\ frame'[p].delta = frame[p].delta
          /\ \A r \in Procs \ {p} : frame'[r] = frame[r]
      BY <1>6, <2>1, <1>t DEF ReadItems, FrameTypeOK, EditFrames
    <2>3. /\ \A r \in Procs : frame'[r].iri = frame[r].iri
          /\ \A r \in Procs : Editing(r)' => Editing(r)
      BY <2>1, <2>2 DEF Editing
    <2>4. UNCHANGED <<store, heap, known, possible, overlapped>>
      BY <1>6 DEF ReadItems
    <2>5. EditIsCurrent(q)
      BY <2>3, <2>4, <1>cur
    <2> QED BY <2>2, <2>3, <2>4, <2>5 DEF EditIsCurrent
  <1>7. ASSUME NEW p \in Procs, WriteItems(p) PROVE EditIsCurrent(q)'
    <2>1. frame[p] \in EditFrames /\ Editing(p)
      BY <1>7, <1>t, FrameShape DEF WriteItems, Editing
    <2>2. /\ frame'[p].at = "save"
          /\ frame'[p].iri = frame[p].iri /\ frame'[p].cell = frame[p].cell
          /\ frame'[p].add = frame[p].add /\ frame'[p].delta = frame[p].delta
          /\ \A r \in Procs \ {p} : frame'[r] = frame[r]
      BY <1>7, <2>1, <1>t DEF WriteItems, FrameTypeOK, EditFrames
    <2>3. /\ \A r \in Procs : frame'[r].iri = frame[r].iri
          /\ \A r \in Procs : Editing(r)' => Editing(r)
      BY <2>1, <2>2 DEF Editing
    <2>4. EditIsCurrent(q) /\ Editing(q) /\ frame[q].iri \notin overlapped
      BY <1>7, <2>3, <1>cur DEF WriteItems
    <2>5. CASE q = p
      <3>1. heap'[frame[p].cell].items = Edited(frame[p])
        BY <1>7, WritesInPlace
      <3> QED BY <1>7, <2>2, <2>3, <2>4, <2>5, <3>1 DEF EditIsCurrent, WriteItems, Edited
    <2>6. CASE q # p
      <3>1. heap'[frame[q].cell].items = heap[frame[q].cell].items
        BY <1>7, <2>1, <2>4, <2>6, <1>cur, WritesInPlace, UncontendedCellsDiffer
      <3> QED BY <1>7, <2>2, <2>3, <2>4, <2>6, <3>1, UndisturbedEditStaysCurrent
              DEF WriteItems
    <2> QED BY <2>5, <2>6
  <1>8. ASSUME NEW p \in Procs, AppendFails(p) PROVE EditIsCurrent(q)'
    <2>1. Editing(p)
      BY <1>8 DEF AppendFails, Editing
    <2>2. ~Editing(p)' /\ \A r \in Procs \ {p} : frame'[r] = frame[r]
      BY <1>8, ReturnEndsTheCall DEF AppendFails
    <2>3. Editing(q) /\ frame[q].iri \notin overlapped /\ q # p =>
             heap'[frame[q].cell].items = heap[frame[q].cell].items
      BY <1>8, <2>1, <1>cur, WritesInPlace, UncontendedCellsDiffer
    <2> QED BY <1>8, <2>2, <2>3, <1>quiet DEF AppendFails
  <1>9. ASSUME NEW p \in Procs, SaveEdited(p) PROVE EditIsCurrent(q)'
    <2>1. frame[p] \in EditFrames /\ Editing(p) /\ heap[frame[p].cell].iri = frame[p].iri
      BY <1>9, <1>t, FrameShape DEF SaveEdited, Editing, EditsOwnCell
    <2>2. ~Editing(p)' /\ \A r \in Procs \ {p} : frame'[r] = frame[r]
      BY <1>9, ReturnEndsTheCall DEF SaveEdited
    <2>3. ASSUME Editing(q), frame[q].iri \notin overlapped, q # p
          PROVE  /\ store'[frame[q].iri] = store[frame[q].iri]
                 /\ possible'[frame[q].iri] = possible[frame[q].iri]
                 /\ known'[frame[q].iri] = known[frame[q].iri]
      <3>1. frame[q].iri # frame[p].iri /\ frame[q].iri \in Collections
        BY <2>1, <2>3, <1>cur, UncontendedCellsDiffer
      <3> QED BY <1>9, <2>1, <3>1, <1>t
              DEF SaveEdited, EditFrames, StoreTypeOK, HistoryTypeOK, IRIs
    <2> QED BY <1>9, <2>2, <2>3, <1>quiet DEF SaveEdited
  <1>10. ASSUME NEW p \in Procs, UNCHANGED <<store, heap, known, possible, overlapped>>,
                \/ \E e \in Errors : Return(p, e)
                \/ \E o \in Objects, v \in Versions : Save(p, o, v)
         PROVE  EditIsCurrent(q)'
    <2>1. ~Editing(p)' /\ \A r \in Procs \ {p} : frame'[r] = frame[r]
      BY <1>10, ReturnEndsTheCall, <1>t DEF Save, FrameTypeOK, Editing
    <2> QED BY <1>10, <2>1, <1>quiet
  <1>11. ASSUME NEW p \in Procs, NEW k \in IRIs,
                \/ \E missing \in Errors : LoadColFails(p, k, missing)
                \/ \E filtered \in BOOLEAN : Load(p, k, filtered)
         PROVE  EditIsCurrent(q)'
    <2>1. \E e \in Errors : Return(p, e)
      BY <1>11 DEF LoadColFails, Load, Errors
    <2> QED BY <1>10, <1>11, <2>1 DEF LoadColFails, Load
  <1>12. ASSUME NEW p \in Procs, NEW o \in Objects, NEW v \in Named[o], Save(p, o, v)
         PROVE  EditIsCurrent(q)'
    BY <1>10, <1>12 DEF Save, Versions
  <1>13. ASSUME NEW p \in Procs, NEW k \in IRIs, NEW S \in SUBSET Members,
                AddTo(p, k, S) \/ RemoveFrom(p, k, S)
         PROVE  EditIsCurrent(q)'
    <2>1. store[k] \in Cells => k \in Collections
      BY <1>t DEF StoreTypeOK, IRIs
    <2>2. CASE \E missing \in Errors : LoadColFails(p, k, missing)
      BY <1>11, <2>2
    <2>3. CASE /\ LoadCol(p, k, TRUE, S)
               /\ possible' = [possible EXCEPT ![k] = @ \cup S]
               /\ UNCHANGED known
      BY <1>5, <2>1, <2>3, <1>t DEF LoadCol, HistoryTypeOK
    <2>4. CASE /\ LoadCol(p, k, FALSE, S)
               /\ known' = [known EXCEPT ![k] = @ \ S]
               /\ UNCHANGED possible
      BY <1>5, <2>1, <2>4, <1>t DEF LoadCol, HistoryTypeOK
    <2> QED BY <1>13, <2>2, <2>3, <2>4 DEF AddTo, RemoveFrom, Errors
  <1>14. CASE UNCHANGED vars
    BY <1>14, <1>cur, UndisturbedEditStaysCurrent DEF vars, Editing
  <1> QED
    BY <1>1, <1>2, <1>3, <1>4, <1>6, <1>7, <1>8, <1>9, <1>11, <1>12, <1>13, <1>14
       DEF Next

-----------------------------------------------------------------------------
(* What callers were told. *)

LEMMA RepliesPreserved ==
  ASSUME InductiveInvariant, [Next]_vars
  PROVE  RepliesHold'
  <1>t. StoreTypeOK /\ FrameTypeOK /\ HistoryTypeOK /\ EditsOwnCell /\ StoredUnderOwnIRI
    BY DEF InductiveInvariant, TypeOK
  <1>o. overlapped \subseteq overlapped'
    BY DEF Next, vars, Save, SaveCollectionIfExists, StoreObject, SaveCollection, Delete,
           AddTo, RemoveFrom, LoadCol, LoadColFails, ReadItems, WriteItems, AppendFails,
           SaveEdited, Load, Overlap
  <1> SUFFICES ASSUME NEW c \in Collections, c \notin overlapped'
               PROVE  known'[c] \subseteq ItemsOf(c)' /\ ItemsOf(c)' \subseteq possible'[c]
    BY DEF RepliesHold
  <1>h. c \notin overlapped /\ known[c] \subseteq ItemsOf(c) /\ ItemsOf(c) \subseteq possible[c]
    BY <1>o DEF InductiveInvariant, RepliesHold
  <1>same. ASSUME ItemsOf(c)' = ItemsOf(c), known'[c] \subseteq known[c],
                  possible[c] \subseteq possible'[c]
           PROVE  known'[c] \subseteq ItemsOf(c)' /\ ItemsOf(c)' \subseteq possible'[c]
    BY <1>same, <1>h
  <1>1. ASSUME NEW p \in Procs, SaveCollectionIfExists(p)
        PROVE  known'[c] \subseteq ItemsOf(c)' /\ ItemsOf(c)' \subseteq possible'[c]
    <2>1. Head(frame[p].todo) \in Collections
      BY <1>1, <1>t, FrameShape DEF SaveCollectionIfExists, SaveFrames
    <2>2. CASE UNCHANGED <<store, heap>>
      BY <1>1, <1>same, <2>2 DEF SaveCollectionIfExists, ItemsOf
    <2>3. ASSUME NEW r \in FreeCells, store[Head(frame[p].todo)] = Absent,
                 store' = [store EXCEPT ![Head(frame[p].todo)] = r],
                 NewCollection(r, Head(frame[p].todo), "collection", {})
          PROVE  ItemsOf(c)' = ItemsOf(c)
      <3>1. heap'[r].items = {} /\ r \in Cells
            /\ \A k \in IRIs : store[k] \in Cells => heap'[store[k]] = heap[store[k]]
        BY <2>1, <2>3, NewCellIsFresh DEF FreeCells
      <3>2. store'[c] = IF c = Head(frame[p].todo) THEN r ELSE store[c]
        BY <2>3, <1>t DEF StoreTypeOK, IRIs
      <3>3. CASE c = Head(frame[p].todo)
        <4>1. ItemsOf(c)' = {}
          BY <3>1, <3>2, <3>3 DEF ItemsOf
        <4>2. ItemsOf(c) = {}
          BY <2>3, <3>3, ValuesAssumption DEF ItemsOf
        <4> QED BY <4>1, <4>2
      <3>4. CASE c # Head(frame[p].todo)
        BY <3>1, <3>2, <3>4 DEF ItemsOf, IRIs
      <3> QED BY <3>3, <3>4
    <2> QED BY <1>1, <1>same, <2>2, <2>3 DEF SaveCollectionIfExists
  <1>2. ASSUME NEW p \in Procs, StoreObject(p)
        PROVE  known'[c] \subseteq ItemsOf(c)' /\ ItemsOf(c)' \subseteq possible'[c]
    <2>1. frame[p].iri \in Objects
      BY <1>2, <1>t, FrameShape DEF StoreObject, SaveFrames
    <2>2. store'[c] = store[c] /\ heap' = heap
      BY <1>2, <2>1, <1>t, KeysAssumption DEF StoreObject, StoreTypeOK, IRIs
    <2> QED BY <1>2, <2>2, <1>same DEF StoreObject, ItemsOf
  <1>3. ASSUME NEW p \in Procs, NEW d \in Collections, NEW s \in Shapes,
               NEW S \in Fills, SaveCollection(p, d, s, S)
        PROVE  known'[c] \subseteq ItemsOf(c)' /\ ItemsOf(c)' \subseteq possible'[c]
    <2>1. PICK r \in FreeCells : /\ store' = [store EXCEPT ![d] = r]
                                 /\ NewCollection(r, d, s, S)
      BY <1>3 DEF SaveCollection
    <2>2. heap'[r].items = S /\ r \in Cells
          /\ \A k \in IRIs : store[k] \in Cells => heap'[store[k]] = heap[store[k]]
      BY <2>1, NewCellIsFresh, ShapesAssumption, FillsAssumption DEF FreeCells
    <2>3. store'[c] = IF c = d THEN r ELSE store[c]
      BY <2>1, <1>t DEF StoreTypeOK, IRIs
    <2>4. /\ known'[c] = IF c = d THEN S ELSE known[c]
          /\ possible'[c] = IF c = d THEN S ELSE possible[c]
      BY <1>3, <1>t DEF SaveCollection, HistoryTypeOK
    <2>5. CASE c = d
      BY <2>2, <2>3, <2>4, <2>5 DEF ItemsOf
    <2>6. CASE c # d
      BY <2>2, <2>3, <2>4, <2>6, <1>same DEF ItemsOf, IRIs
    <2> QED BY <2>5, <2>6
  <1>4. ASSUME NEW p \in Procs, NEW k \in IRIs, Delete(p, k)
        PROVE  known'[c] \subseteq ItemsOf(c)' /\ ItemsOf(c)' \subseteq possible'[c]
    <2>1. store'[c] = IF c = k THEN Absent ELSE store[c]
      BY <1>4, <1>t DEF Delete, StoreTypeOK, IRIs
    <2>2. /\ known'[c] = IF c = k THEN {} ELSE known[c]
          /\ possible'[c] = IF c = k THEN {} ELSE possible[c]
          /\ heap' = heap
      BY <1>4, <1>t DEF Delete, HistoryTypeOK
    <2>3. CASE c = k
      BY <2>1, <2>2, <2>3, ValuesAssumption DEF ItemsOf
    <2>4. CASE c # k
      BY <2>1, <2>2, <2>4, <1>same DEF ItemsOf
    <2> QED BY <2>3, <2>4
  <1>5. ASSUME NEW p \in Procs, NEW k \in IRIs, NEW S \in SUBSET Members,
               AddTo(p, k, S) \/ RemoveFrom(p, k, S)
        PROVE  known'[c] \subseteq ItemsOf(c)' /\ ItemsOf(c)' \subseteq possible'[c]
    <2>1. ItemsOf(c)' = ItemsOf(c)
      BY <1>5 DEF AddTo, RemoveFrom, LoadCol, LoadColFails, ItemsOf
    <2>2. known'[c] \subseteq known[c] /\ possible[c] \subseteq possible'[c]
      BY <1>5, <1>t DEF AddTo, RemoveFrom, LoadColFails, HistoryTypeOK
    <2> QED BY <2>1, <2>2, <1>same
  <1>6. ASSUME NEW p \in Procs, WriteItems(p) \/ AppendFails(p)
        PROVE  known'[c] \subseteq ItemsOf(c)' /\ ItemsOf(c)' \subseteq possible'[c]
    <2>1. Editing(p) /\ frame[p].at = "write"
      BY <1>6 DEF WriteItems, AppendFails, Editing
    <2>2. UNCHANGED <<store, known, possible>>
      BY <1>6 DEF WriteItems, AppendFails
    <2>3. CASE store[c] = frame[p].cell
      <3>1. frame[p].cell \in Cells /\ frame[p].delta \in SUBSET Members
        BY <1>6, WritesInPlace DEF EditFrames
      <3>2. c = frame[p].iri
        BY <2>1, <2>3, <3>1, <1>t DEF EditsOwnCell, StoredUnderOwnIRI
      <3>3. EditIsCurrent(p)
        BY <2>1, <3>2, <1>h DEF InductiveInvariant, UncontendedEditsAreCurrent
      <3>4. /\ frame[p].snap = ItemsOf(c)
            /\ frame[p].add => frame[p].delta \subseteq possible[c]
            /\ ~frame[p].add => frame[p].delta \cap known[c] = {}
        BY <2>1, <2>3, <3>1, <3>2, <3>3 DEF EditIsCurrent, ItemsOf
      <3>5. ItemsOf(c)' = heap'[frame[p].cell].items
        BY <2>2, <2>3, <3>1 DEF ItemsOf
      <3>6. CASE WriteItems(p)
        <4>1. heap'[frame[p].cell].items = Edited(frame[p])
          BY <3>6, WritesInPlace
        <4>2. CASE frame[p].add
          BY <3>4, <3>5, <4>1, <4>2, <2>2, <1>h DEF Edited
        <4>3. CASE ~frame[p].add
          BY <3>4, <3>5, <4>1, <4>3, <2>2, <1>h DEF Edited
        <4> QED BY <4>2, <4>3
      <3>7. CASE AppendFails(p)
        <4>1. PICK S \in SUBSET frame[p].delta :
                 heap'[frame[p].cell].items = frame[p].snap \cup S
          BY <3>7, WritesInPlace
        <4>2. frame[p].add
          BY <3>7 DEF AppendFails
        <4> QED BY <3>4, <3>5, <4>1, <4>2, <2>2, <1>h
      <3> QED BY <1>6, <3>6, <3>7
    <2>4. CASE store[c] # frame[p].cell
      BY <1>6, <1>same, <2>2, <2>4, WritesInPlace DEF ItemsOf
    <2> QED BY <2>3, <2>4
  <1>7. ASSUME NEW p \in Procs, SaveEdited(p)
        PROVE  known'[c] \subseteq ItemsOf(c)' /\ ItemsOf(c)' \subseteq possible'[c]
    <2>1. /\ frame[p] \in EditFrames /\ Editing(p) /\ frame[p].at = "save"
          /\ heap[frame[p].cell].iri = frame[p].iri
      BY <1>7, <1>t, FrameShape DEF SaveEdited, Editing, EditsOwnCell
    <2>2. frame[p].cell \in Cells /\ frame[p].iri \in Collections
      BY <2>1 DEF EditFrames
    <2>3. /\ store'[c] = IF c = frame[p].iri THEN frame[p].cell ELSE store[c]
          /\ heap' = heap
      BY <1>7, <2>1, <1>t DEF SaveEdited, StoreTypeOK, IRIs
    <2>4. CASE c = frame[p].iri
      <3>1. EditIsCurrent(p)
        BY <2>1, <2>4, <1>h DEF InductiveInvariant, UncontendedEditsAreCurrent
      <3>2. /\ ItemsOf(c)' = ItemsOf(c)
            /\ frame[p].add => frame[p].delta \subseteq ItemsOf(c)
            /\ ~frame[p].add => frame[p].delta \cap ItemsOf(c) = {}
        BY <2>1, <2>2, <2>3, <2>4, <3>1 DEF EditIsCurrent, ItemsOf
      <3>3. /\ known'[c] = IF frame[p].add THEN known[c] \cup frame[p].delta ELSE known[c]
            /\ possible'[c] = IF frame[p].add THEN possible[c]
                              ELSE possible[c] \ frame[p].delta
        BY <1>7, <2>4, <1>t DEF SaveEdited, HistoryTypeOK
      <3> QED BY <3>2, <3>3, <1>h
    <2>5. CASE c # frame[p].iri
      <3>1. known'[c] = known[c] /\ possible'[c] = possible[c]
        BY <1>7, <2>5, <1>t DEF SaveEdited, HistoryTypeOK
      <3> QED BY <2>3, <2>5, <3>1, <1>same DEF ItemsOf
    <2> QED BY <2>4, <2>5
  <1>8. CASE UNCHANGED <<store, heap, known, possible>>
    BY <1>8, <1>same DEF ItemsOf
  <1> QED
    BY <1>1, <1>2, <1>3, <1>4, <1>5, <1>6, <1>7, <1>8
       DEF Next, vars, Save, ReadItems, Load

-----------------------------------------------------------------------------
(* The inductive invariant holds in every reachable state. *)
LEMMA InvariantPreserved == InductiveInvariant /\ [Next]_vars => InductiveInvariant'
  BY StoreTypePreserved, FrameTypePreserved, HistoryTypePreserved,
     StoredUnderOwnIRIPreserved, EditsOwnCellPreserved, UncontendedEditsPreserved,
     RepliesPreserved
     DEF InductiveInvariant, TypeOK

LEMMA InvariantHolds == Spec => []InductiveInvariant
  BY InitInductive, InvariantPreserved, PTL DEF Spec

(* The map, the heap and the running calls keep their types: a pointer to a   *)
(* collection is only ever stored under the IRI of a collection.              *)
THEOREM TypeCorrect == Spec => []TypeOK
  <1>1. InductiveInvariant => TypeOK
    BY DEF InductiveInvariant
  <1> QED BY <1>1, InvariantHolds, PTL

(* However stale the address AddTo and RemoveFrom save (storage_mem.go:176-200), *)
(* a collection is only ever stored under its own ID.                            *)
THEOREM OwnIRI == Spec => []StoredUnderOwnIRI
  <1>1. InductiveInvariant => StoredUnderOwnIRI
    BY DEF InductiveInvariant
  <1> QED BY <1>1, InvariantHolds, PTL

(* On a collection no two calls on which have overlapped, what AddTo, RemoveFrom, *)
(* Save and Delete have told their callers stays true, whatever the other calls   *)
(* that run at the same time do (storage_mem.go:90-200).                          *)
THEOREM Replies == Spec => []RepliesHold
  <1>1. InductiveInvariant => RepliesHold
    BY DEF InductiveInvariant
  <1> QED BY <1>1, InvariantHolds, PTL

(* As long as no other call on its IRI overlaps it, an AddTo or RemoveFrom edits  *)
(* the collection that is stored there, alone, and writes back the items that are *)
(* there (storage_mem.go:176-200).                                                *)
THEOREM EditsAreCurrent == Spec => []UncontendedEditsAreCurrent
  <1>1. InductiveInvariant => UncontendedEditsAreCurrent
    BY DEF InductiveInvariant
  <1> QED BY <1>1, InvariantHolds, PTL

-----------------------------------------------------------------------------
(***************************************************************************)
(* For orderly callers every step of the storage, seen through the map, is *)
(* a step of the contract or changes nothing in it.                        *)
(***************************************************************************)

Good == InductiveInvariant /\ OrderlyInvariant

LEMMA NoneOverlap ==
  ASSUME Orderly, Good, [Next]_vars
  PROVE  overlapped' = {}
  <1>0. overlapped = {}
    BY DEF Good, OrderlyInvariant
  <1>2. ASSUME NEW k \in IRIs, NEW p \in Procs, MayCall(p, k), Overlap(k)
        PROVE  overlapped' = {}
    BY <1>0, <1>2 DEF MayCall, Overlap
  <1>3. ASSUME NEW p \in Procs, NEW c \in Collections, NEW s \in Shapes, NEW S \in Fills,
               SaveCollection(p, c, s, S)
        PROVE  overlapped' = {}
    BY <1>2, <1>3 DEF SaveCollection, IRIs
  <1>4. ASSUME NEW p \in Procs, NEW k \in IRIs, Delete(p, k)
        PROVE  overlapped' = {}
    BY <1>2, <1>4 DEF Delete
  <1>5. ASSUME NEW p \in Procs, NEW k \in IRIs, NEW S \in SUBSET Members,
               AddTo(p, k, S) \/ RemoveFrom(p, k, S)
        PROVE  overlapped' = {}
    BY <1>0, <1>2, <1>5 DEF AddTo, RemoveFrom, LoadCol, LoadColFails
  <1> QED
    BY <1>0, <1>3, <1>4, <1>5
       DEF Next, vars, Save, SaveCollectionIfExists, StoreObject,
           ReadItems, WriteItems, AppendFails, SaveEdited, Load

(* What a running Save and a stored object carry. *)
LEMMA WhatIsNamed ==
  ASSUME StoreTypeOK, FrameTypeOK
  PROVE  /\ \A o \in Objects : store[o] # Absent => store[o] \in Seq(Collections)
         /\ \A p \in Procs : frame[p].at = "create" =>
               /\ frame[p].iri \in Objects
               /\ frame[p].version \in Seq(Collections)
               /\ frame[p].todo \in Seq(Collections)
  <1>1. ASSUME NEW v \in Versions PROVE v \in Seq(Collections)
    BY NamedAssumption DEF Versions
  <1>2. \A o \in Objects : store[o] # Absent => store[o] \in Versions
    BY DEF StoreTypeOK, IRIs
  <1>3. ASSUME NEW p \in Procs, frame[p].at = "create" PROVE frame[p] \in SaveFrames
    BY <1>3, FrameShape
  <1> QED BY <1>1, <1>2, <1>3 DEF SaveFrames

(* A collection that an object names does not go away. *)
LEMMA NamedStay ==
  ASSUME Orderly, Good, [Next]_vars, NEW c \in Collections, store[c] # Absent,
         \/ StoredNames(c)
         \/ \E p \in Procs : frame[p].at = "create" /\ Names(frame[p].version, c)
  PROVE  store'[c] # Absent
  <1>t. StoreTypeOK /\ FrameTypeOK /\ EditsOwnCell /\ Absent \notin Cells
    BY ValuesAssumption DEF Good, InductiveInvariant, TypeOK
  <1>1. CASE store' = store
    BY <1>1
  <1>2. ASSUME NEW p \in Procs, NEW k \in IRIs, Delete(p, k) PROVE store'[c] # Absent
    <2>1. k # c
      BY <1>2 DEF Delete, DeleteInOrder
    <2> QED BY <1>2, <2>1, <1>t DEF Delete, StoreTypeOK
  <1>3. ASSUME NEW p \in Procs, SaveCollectionIfExists(p) PROVE store'[c] # Absent
    <2> DEFINE d == Head(frame[p].todo)
    <2>1. store' = store \/ \E r \in Cells : store' = [store EXCEPT ![d] = r]
      BY <1>3 DEF SaveCollectionIfExists, FreeCells
    <2> HIDE DEF d
    <2> QED BY <2>1, <1>t DEF StoreTypeOK, IRIs
  <1>4. ASSUME NEW p \in Procs, StoreObject(p) PROVE store'[c] # Absent
    <2>1. frame[p].iri \in Objects
      BY <1>4, <1>t, WhatIsNamed DEF StoreObject
    <2>2. frame[p].iri # c
      BY <2>1, KeysAssumption
    <2> QED BY <1>4, <2>2, <1>t DEF StoreObject, StoreTypeOK
  <1>5. ASSUME NEW p \in Procs, NEW d \in Collections, NEW s \in Shapes, NEW S \in Fills,
               SaveCollection(p, d, s, S)
        PROVE  store'[c] # Absent
    BY <1>5, <1>t DEF SaveCollection, FreeCells, StoreTypeOK, IRIs
  <1>6. ASSUME NEW p \in Procs, SaveEdited(p) PROVE store'[c] # Absent
    <2>1. frame[p].cell \in Cells
      BY <1>6, <1>t, FrameShape DEF SaveEdited, Editing, EditFrames
    <2> QED BY <1>6, <2>1, <1>t DEF SaveEdited, StoreTypeOK, IRIs
  <1> QED
    BY <1>1, <1>2, <1>3, <1>4, <1>5, <1>6
       DEF Next, vars, Save, AddTo, RemoveFrom, LoadCol, LoadColFails, ReadItems,
           WriteItems, AppendFails, Load

(* Of the objects, only the one whose Save returns is stored anew. *)
LEMMA ObjectsAreStoredBySave ==
  ASSUME InductiveInvariant, [Next]_vars, NEW o \in Objects
  PROVE  \/ store'[o] \in {store[o], Absent}
         \/ \E p \in Procs : /\ StoreObject(p) /\ frame[p].iri = o
                             /\ store'[o] = frame[p].version
  <1>t. StoreTypeOK /\ FrameTypeOK /\ EditsOwnCell
    BY DEF InductiveInvariant, TypeOK
  <1>1. CASE store' = store
    BY <1>1
  <1>2. ASSUME NEW p \in Procs, NEW k \in IRIs, Delete(p, k)
        PROVE  store'[o] \in {store[o], Absent}
    BY <1>2, <1>t DEF Delete, StoreTypeOK, IRIs
  <1>3. ASSUME NEW d \in Collections, NEW r, store' = [store EXCEPT ![d] = r]
        PROVE  store'[o] = store[o]
    BY <1>3, KeysAssumption
  <1>4. ASSUME NEW p \in Procs, StoreObject(p)
        PROVE  \/ store'[o] = store[o]
               \/ frame[p].iri = o /\ store'[o] = frame[p].version
    BY <1>4, <1>t DEF StoreObject, StoreTypeOK, IRIs
  <1>5. ASSUME NEW p \in Procs, SaveCollectionIfExists(p) PROVE store'[o] = store[o]
    <2>1. frame[p].todo \in Seq(Collections) /\ frame[p].todo # <<>>
      BY <1>5, <1>t, WhatIsNamed DEF SaveCollectionIfExists
    <2>2. Head(frame[p].todo) \in Collections
      BY <2>1
    <2> QED BY <1>5, <2>2, <1>3 DEF SaveCollectionIfExists
  <1>6. ASSUME NEW p \in Procs, SaveEdited(p) PROVE store'[o] = store[o]
    <2>1. heap[frame[p].cell].iri \in Collections
      BY <1>6, <1>t, FrameShape DEF SaveEdited, Editing, EditFrames, EditsOwnCell
    <2> QED BY <1>6, <2>1, <1>3 DEF SaveEdited
  <1>7. ASSUME NEW p \in Procs, NEW d \in Collections, NEW s \in Shapes, NEW S \in Fills,
               SaveCollection(p, d, s, S)
        PROVE  store'[o] = store[o]
    BY <1>3, <1>7 DEF SaveCollection
  <1> QED
    BY <1>1, <1>2, <1>4, <1>5, <1>6, <1>7
       DEF Next, vars, Save, AddTo, RemoveFrom, LoadCol, LoadColFails, ReadItems,
           WriteItems, AppendFails, Load

LEMMA NamedExistPreserved ==
  ASSUME Orderly, Good, [Next]_vars
  PROVE  NamedExist'
  <1>t. StoreTypeOK /\ FrameTypeOK /\ InductiveInvariant /\ NamedExist /\ SavesKeepUp
    BY DEF Good, OrderlyInvariant, InductiveInvariant, TypeOK
  <1> SUFFICES ASSUME NEW o \in Objects, store'[o] # Absent, NEW i \in DOMAIN store'[o]
               PROVE  store'[store'[o][i]] # Absent
    BY DEF NamedExist
  <1>1. CASE store'[o] = store[o]
    <2> DEFINE c == store[o][i]
    <2>1. c \in Collections /\ store[c] # Absent
      BY <1>1, <1>t, WhatIsNamed DEF NamedExist
    <2>2. StoredNames(c)
      BY <1>1 DEF StoredNames, Names
    <2> QED BY <1>1, <2>1, <2>2, NamedStay
  <1>2. ASSUME NEW p \in Procs, StoreObject(p), store'[o] = frame[p].version
        PROVE  store'[store'[o][i]] # Absent
    <2> DEFINE c == frame[p].version[i]
    <2>1. frame[p].at = "create" /\ frame[p].todo = <<>>
      BY <1>2 DEF StoreObject
    <2>2. c \in Collections /\ i \in DOMAIN frame[p].version
      BY <1>2, <2>1, <1>t, WhatIsNamed
    <2>3. store[c] # Absent
      BY <2>1, <2>2, <1>t DEF SavesKeepUp, Names
    <2>4. Names(frame[p].version, c)
      BY <2>2 DEF Names
    <2> QED BY <1>2, <2>1, <2>2, <2>3, <2>4, NamedStay
  <1> QED BY <1>1, <1>2, <1>t, ObjectsAreStoredBySave

(* What a step makes of the frame of a running Save. *)
LEMMA SaveFramesStep ==
  ASSUME InductiveInvariant, [Next]_vars, NEW p \in Procs, frame'[p].at = "create"
  PROVE  \/ frame'[p] = frame[p]
         \/ SaveCollectionIfExists(p)
         \/ \E o \in Objects : \E v \in Named[o] : Save(p, o, v)
  <1>t. FrameTypeOK
    BY DEF InductiveInvariant, TypeOK
  <1>1. CASE frame' = frame
    BY <1>1
  <1>2. ASSUME NEW q \in Procs, NEW e, Return(q, e) PROVE frame'[p] = frame[p]
    <2>1. frame'[q].at = "idle" /\ \A r \in Procs \ {q} : frame'[r] = frame[r]
      BY <1>2, <1>t DEF Return, FrameTypeOK
    <2> QED BY <2>1
  <1>3. ASSUME NEW q \in Procs, NEW f, frame' = [frame EXCEPT ![q] = f], q # p
        PROVE  frame'[p] = frame[p]
    BY <1>3, <1>t DEF FrameTypeOK
  <1>4. ASSUME NEW q \in Procs, NEW k, NEW add, NEW S, LoadCol(q, k, add, S)
        PROVE  frame'[p] = frame[p]
    <2>1. frame'[q].at = "read" /\ \A r \in Procs \ {q} : frame'[r] = frame[r]
      BY <1>4, <1>t DEF LoadCol, FrameTypeOK
    <2> QED BY <2>1
  <1>5. ASSUME NEW q \in Procs, ReadItems(q) \/ WriteItems(q) PROVE frame'[p] = frame[p]
    <2>1. frame[q] \in EditFrames
      BY <1>5, <1>t, FrameShape DEF ReadItems, WriteItems, Editing
    <2>2. frame'[q].at \in {"write", "save"} /\ \A r \in Procs \ {q} : frame'[r] = frame[r]
      BY <1>5, <2>1, <1>t DEF ReadItems, WriteItems, FrameTypeOK, EditFrames
    <2> QED BY <2>2
  <1>6. ASSUME NEW q \in Procs,
               \/ SaveCollectionIfExists(q)
               \/ \E o \in Objects : \E v \in Named[o] : Save(q, o, v)
        PROVE  \/ frame'[p] = frame[p]
               \/ SaveCollectionIfExists(p)
               \/ \E o \in Objects : \E v \in Named[o] : Save(p, o, v)
    BY <1>3, <1>6 DEF Save, SaveCollectionIfExists
  <1>7. ASSUME NEW q \in Procs,
               \/ \E k \in IRIs, S \in SUBSET Members :
                     AddTo(q, k, S) \/ RemoveFrom(q, k, S)
               \/ \E k \in IRIs : Delete(q, k) \/ \E filtered \in BOOLEAN : Load(q, k, filtered)
               \/ \E c \in Collections, s \in Shapes, S \in Fills : SaveCollection(q, c, s, S)
               \/ StoreObject(q) \/ AppendFails(q) \/ SaveEdited(q)
        PROVE  frame'[p] = frame[p]
    BY <1>2, <1>4, <1>7
       DEF AddTo, RemoveFrom, LoadColFails, Delete, Load, SaveCollection, StoreObject,
           AppendFails, SaveEdited
  <1> QED BY <1>1, <1>5, <1>6, <1>7 DEF Next, vars

LEMMA SavesKeepUpPreserved ==
  ASSUME Orderly, Good, [Next]_vars
  PROVE  SavesKeepUp'
  <1>t. StoreTypeOK /\ FrameTypeOK /\ InductiveInvariant /\ NamedExist /\ SavesKeepUp
    BY DEF Good, OrderlyInvariant, InductiveInvariant, TypeOK
  <1> SUFFICES ASSUME NEW p \in Procs, frame'[p].at = "create",
                      NEW i \in DOMAIN frame'[p].version
               PROVE  LET c == frame'[p].version[i]
                      IN  store'[c] # Absent \/ Names(frame'[p].todo, c)
    BY DEF SavesKeepUp
  <1> DEFINE c == frame'[p].version[i]
  <1>1. ASSUME frame[p].at = "create", frame'[p].version = frame[p].version,
               store[c] # Absent
        PROVE  store'[c] # Absent
    <2>1. c \in Collections
      BY <1>1, <1>t, WhatIsNamed
    <2>2. Names(frame[p].version, c)
      BY <1>1 DEF Names
    <2> QED BY <1>1, <2>1, <2>2, NamedStay
  <1>2. CASE frame'[p] = frame[p]
    <2>1. store[c] # Absent \/ Names(frame[p].todo, c)
      BY <1>2, <1>t DEF SavesKeepUp
    <2> QED BY <1>1, <1>2, <2>1
  <1>3. CASE SaveCollectionIfExists(p)
    <2>1. /\ frame[p].at = "create" /\ frame[p].todo \in Seq(Collections)
          /\ frame[p].todo # <<>> /\ frame[p] \in SaveFrames
      BY <1>3, <1>t, WhatIsNamed, FrameShape DEF SaveCollectionIfExists
    <2>2. frame'[p].version = frame[p].version /\ frame'[p].todo = Tail(frame[p].todo)
      BY <1>3, <2>1, <1>t DEF SaveCollectionIfExists, FrameTypeOK, SaveFrames
    <2>3. CASE store[c] # Absent
      BY <1>1, <2>1, <2>2, <2>3
    <2>4. CASE store[c] = Absent
      <3>1. PICK j \in DOMAIN frame[p].todo : frame[p].todo[j] = c
        BY <2>1, <2>2, <2>4, <1>t DEF SavesKeepUp, Names
      <3>2. CASE j = 1
        <4>1. c = Head(frame[p].todo) /\ c \in Collections
          BY <2>1, <3>1, <3>2
        <4> HIDE DEF c
        <4>2. PICK r \in FreeCells : store' = [store EXCEPT ![c] = r]
          BY <1>3, <2>4, <4>1 DEF SaveCollectionIfExists
        <4>3. r # Absent
          BY <4>2, ValuesAssumption DEF FreeCells
        <4> QED BY <4>1, <4>2, <4>3, <1>t DEF StoreTypeOK, IRIs, c
      <3>3. CASE j # 1
        <4> DEFINE s == frame[p].todo
        <4>0. /\ s \in Seq(Collections) /\ s # <<>>
              /\ j \in 1..Len(s) /\ j # 1 /\ s[j] = c
          BY <2>1, <3>1, <3>3
        <4> HIDE DEF s, c
        <4>1. j - 1 \in DOMAIN Tail(s) /\ Tail(s)[j - 1] = c
          <5>1. /\ Len(s) \in Nat /\ Tail(s) \in Seq(Collections)
                /\ Len(Tail(s)) = Len(s) - 1
            BY <4>0
          <5>2. j - 1 \in 1..Len(Tail(s)) /\ Tail(s)[j - 1] = s[(j - 1) + 1]
            BY <4>0, <5>1
          <5>3. (j - 1) + 1 = j
            BY <4>0
          <5> QED BY <4>0, <5>1, <5>2, <5>3
        <4> QED BY <2>2, <4>1 DEF Names, s, c
      <3> QED BY <3>2, <3>3
    <2> QED BY <2>3, <2>4
  <1>4. ASSUME NEW o \in Objects, NEW v \in Named[o], Save(p, o, v)
        PROVE  store'[c] # Absent \/ Names(frame'[p].todo, c)
    <2>1. /\ frame'[p].version = v
          /\ frame'[p].todo = IF store[o] = Absent THEN v ELSE <<>>
          /\ store' = store
      BY <1>4, <1>t DEF Save, FrameTypeOK
    <2>2. CASE store[o] = Absent
      BY <2>1, <2>2 DEF Names
    <2>3. CASE store[o] # Absent
      <3>1. Names(store[o], c)
        BY <1>4, <2>1, <2>3 DEF Save, SaveInOrder
      <3>2. store[c] # Absent
        BY <2>3, <3>1, <1>t DEF Names, NamedExist
      <3> QED BY <2>1, <3>2
    <2> QED BY <2>2, <2>3
  <1> QED BY <1>2, <1>3, <1>4, <1>t, SaveFramesStep

LEMMA GoodPreserved ==
  ASSUME Orderly, Good, [Next]_vars
  PROVE  Good'
  <1>1. InductiveInvariant'
    BY InvariantPreserved DEF Good
  <1> QED BY <1>1, NoneOverlap, NamedExistPreserved, SavesKeepUpPreserved
          DEF Good, OrderlyInvariant

-----------------------------------------------------------------------------
(* The mapping, one IRI and one goroutine at a time. *)

LEMMA ContentsAt ==
  ASSUME NEW k \in IRIs
  PROVE  /\ Contents[k] = IF store[k] \in Cells THEN heap[store[k]].items ELSE store[k]
         /\ Contents'[k] = IF store'[k] \in Cells THEN heap'[store'[k]].items ELSE store'[k]
  BY DEF Contents

(* What is stored is seen as stored. *)
LEMMA AbsentIsSeen ==
  ASSUME StoreTypeOK, NEW k \in IRIs
  PROVE  /\ Contents[k] = Absent <=> store[k] = Absent
         /\ store[k] \notin Cells => Contents[k] = store[k]
  BY ValuesAssumption DEF Contents, StoreTypeOK, CellValues

(* How each kind of frame is seen. *)
LEMMA SeenIdle ==
  ASSUME NEW f, f.at = "idle"
  PROVE  Seen(f) = [phase |-> "idle", reply |-> f.err]
  BY DEF Seen

LEMMA SeenCreate ==
  ASSUME NEW f, f.at = "create"
  PROVE  Seen(f) = [phase |-> "save", iri |-> f.iri, version |-> f.version, todo |-> f.todo]
  BY DEF Seen

LEMMA SeenDone ==
  ASSUME NEW f, f.at = "save"
  PROVE  Seen(f) = [phase |-> "done"]
  BY DEF Seen

LEMMA SeenEdit ==
  ASSUME NEW f, f.at \in {"read", "write"}
  PROVE  Seen(f) = [phase |-> "edit", iri |-> f.iri, add |-> f.add, delta |-> f.delta]
  BY DEF Seen

LEMMA PendingAt ==
  ASSUME NEW p \in Procs
  PROVE  Pending[p] = Seen(frame[p])
  BY DEF Pending

(* What a call answers is the reply the contract has. *)
LEMMA ReturnSeen ==
  ASSUME NEW p \in Procs, NEW e, FrameTypeOK, Return(p, e)
  PROVE  Contract!Replies(p, e)
  <1> DEFINE f == [at |-> "idle", err |-> e]
  <1>1. frame'[p] = f /\ f.at = "idle" /\ f.err = e /\ \A q \in Procs \ {p} : frame'[q] = frame[q]
    BY DEF Return, FrameTypeOK
  <1> HIDE DEF f
  <1>2. Seen(frame'[p]) = [phase |-> "idle", reply |-> e]
    BY <1>1, SeenIdle
  <1>3. Pending' = [Pending EXCEPT ![p] = [phase |-> "idle", reply |-> e]]
    BY <1>1, <1>2 DEF Pending
  <1> QED BY <1>3 DEF Contract!Replies, Contract!Idle

LEMMA IdleSeen ==
  ASSUME NEW p \in Procs, Idle(p)
  PROVE  Contract!IsIdle(p)
  <1>1. Pending[p] = [phase |-> "idle", reply |-> frame[p].err]
    BY PendingAt, SeenIdle DEF Idle
  <1> QED BY <1>1 DEF Contract!IsIdle

LEMMA ContentsSame == UNCHANGED <<store, heap>> => Contents' = Contents
  BY DEF Contents

LEMMA ContentsStored ==
  ASSUME NEW k \in IRIs, NEW v, v \notin Cells, StoreTypeOK,
         store' = [store EXCEPT ![k] = v], heap' = heap
  PROVE  Contents' = [Contents EXCEPT ![k] = v]
  BY DEF Contents, StoreTypeOK

(* A new collection changes nothing but what is under its IRI. *)
LEMMA ContentsNew ==
  ASSUME NEW c \in Collections, NEW r \in FreeCells, NEW s, NEW S, StoreTypeOK,
         store' = [store EXCEPT ![c] = r], NewCollection(r, c, s, S)
  PROVE  Contents' = [Contents EXCEPT ![c] = S]
  BY DEF Contents, StoreTypeOK, NewCollection, FreeCells, IRIs

(* A change in place changes what is under the IRI the collection is stored under. *)
LEMMA ContentsEdited ==
  ASSUME StoreTypeOK, StoredUnderOwnIRI,
         NEW c \in Collections, NEW r \in Cells, store[c] = r, NEW S,
         heap' = [heap EXCEPT ![r].items = S], store' = store
  PROVE  Contents' = [Contents EXCEPT ![c] = S]
  <1>1. \A k \in IRIs : store[k] = r => k = c
    BY KeysAssumption DEF StoreTypeOK, StoredUnderOwnIRI, IRIs
  <1>2. heap'[r].items = S /\ \A q \in Cells \ {r} : heap'[q] = heap[q]
    BY DEF StoreTypeOK, CellValues
  <1>3. ASSUME NEW k \in IRIs, k # c PROVE Contents'[k] = Contents[k]
    <2>1. store[k] # r
      BY <1>1, <1>3
    <2> QED BY <1>2, <2>1 DEF Contents
  <1>4. Contents'[c] = S
    BY <1>2 DEF Contents, IRIs
  <1>5. DOMAIN Contents' = IRIs /\ DOMAIN Contents = IRIs
    BY DEF Contents
  <1>6. [Contents EXCEPT ![c] = S] = [k \in IRIs |-> IF k = c THEN S ELSE Contents[k]]
    BY DEF Contents
  <1>7. Contents' = [k \in IRIs |-> Contents'[k]]
    BY DEF Contents
  <1> QED BY <1>3, <1>4, <1>6, <1>7

-----------------------------------------------------------------------------
(* Each action of the storage, and the action of the contract it is. *)

LEMMA GoodMeans ==
  ASSUME Orderly, Good
  PROVE  /\ NamedExist
         /\ StoreTypeOK /\ FrameTypeOK /\ StoredUnderOwnIRI
         /\ \A p \in Procs : Editing(p) => EditIsCurrent(p)
  BY DEF Good, InductiveInvariant, TypeOK, OrderlyInvariant, UncontendedEditsAreCurrent

LEMMA SaveIsSaveCall ==
  ASSUME Orderly, Good, NEW p \in Procs, NEW o \in Objects, NEW v \in Named[o], Save(p, o, v)
  PROVE  Contract!SaveCall(p, o, v)
  <1>1. Idle(p) /\ UNCHANGED <<store, heap>>
    BY DEF Save, MayCall
  <1>2. Pending' = [Pending EXCEPT
                      ![p] = [phase |-> "save", iri |-> o, version |-> v,
                              todo |-> IF store[o] = Absent THEN v ELSE <<>>]]
    <2>1. /\ frame'[p] = [at |-> "create", iri |-> o, version |-> v,
                          todo |-> IF store[o] = Absent THEN v ELSE <<>>]
          /\ \A q \in Procs \ {p} : frame'[q] = frame[q]
      BY GoodMeans DEF Save, FrameTypeOK
    <2>2. Seen(frame'[p]) = [phase |-> "save", iri |-> o, version |-> v,
                             todo |-> IF store[o] = Absent THEN v ELSE <<>>]
      BY <2>1 DEF Seen
    <2> QED BY <2>1, <2>2 DEF Pending
  <1>3. CASE store[o] = Absent
    BY <1>1, <1>2, <1>3, IdleSeen, ContentsSame DEF Contract!SaveCall, Contract!Saving
  <1>4. CASE store[o] # Absent
    <2>1. Contract!NothingToCreate(v)
      <3> SUFFICES ASSUME NEW i \in DOMAIN v PROVE Contents[v[i]] # Absent
        BY DEF Contract!NothingToCreate
      <3>1. v \in Seq(Collections)
        BY NamedAssumption
      <3>2. v[i] \in Collections
        BY <3>1
      <3>3. Names(store[o], v[i])
        BY <1>4 DEF Save, SaveInOrder
      <3>4. store[v[i]] # Absent
        BY <1>4, <3>3, GoodMeans DEF NamedExist, Names
      <3> QED BY <3>2, <3>4, GoodMeans, AbsentIsSeen DEF IRIs
    <2> QED BY <1>1, <1>2, <1>4, <2>1, IdleSeen, ContentsSame
            DEF Contract!SaveCall, Contract!Saving
  <1> QED BY <1>3, <1>4

LEMMA OpeningIsOpen ==
  ASSUME Orderly, Good, NEW p \in Procs, SaveCollectionIfExists(p)
  PROVE  Contract!Open(p)
  <1> DEFINE c == Head(frame[p].todo)
  <1>1. /\ frame[p].at = "create" /\ frame[p].todo # <<>>
        /\ frame[p] \in SaveFrames
        /\ c \in Collections
    <2>1. frame[p].at = "create" /\ frame[p].todo # <<>> /\ frame[p] \in SaveFrames
      BY GoodMeans, FrameShape DEF SaveCollectionIfExists
    <2> QED BY <2>1 DEF SaveFrames
  <1>2. Pending[p] = [phase |-> "save", iri |-> frame[p].iri,
                      version |-> frame[p].version, todo |-> frame[p].todo]
    BY <1>1, PendingAt, SeenCreate
  <1>3. Pending' = [Pending EXCEPT ![p] = [phase   |-> "save",
                                          iri     |-> frame[p].iri,
                                          version |-> frame[p].version,
                                          todo    |-> Tail(frame[p].todo)]]
    <2>1. /\ frame'[p].at = "create" /\ frame'[p].iri = frame[p].iri
          /\ frame'[p].version = frame[p].version
          /\ frame'[p].todo = Tail(frame[p].todo)
          /\ \A q \in Procs \ {p} : frame'[q] = frame[q]
      BY <1>1, GoodMeans DEF SaveCollectionIfExists, FrameTypeOK, SaveFrames
    <2>2. Seen(frame'[p]) = [phase |-> "save", iri |-> frame[p].iri,
                             version |-> frame[p].version,
                             todo |-> Tail(frame[p].todo)]
      BY <2>1, SeenCreate
    <2> HIDE DEF c
    <2> QED BY <2>1, <2>2, <1>2 DEF Pending
  <1>4. Contents' = [Contents EXCEPT ![c] = IF @ = Absent THEN {} ELSE @]
    <2>1. CASE store[c] # Absent /\ UNCHANGED <<store, heap>>
      <3>1. Contents[c] # Absent /\ Contents' = Contents
        BY <2>1, <1>1, GoodMeans, AbsentIsSeen, ContentsSame DEF IRIs
      <3>2. Contents = [k \in IRIs |-> Contents[k]]
        BY DEF Contents
      <3> QED BY <3>1, <3>2, <1>1 DEF IRIs
    <2>2. CASE store[c] = Absent /\ \E r \in FreeCells :
                 store' = [store EXCEPT ![c] = r] /\ NewCollection(r, c, "collection", {})
      <3>1. Contents[c] = Absent
        BY <2>2, <1>1, GoodMeans, AbsentIsSeen DEF IRIs
      <3>2. Contents' = [Contents EXCEPT ![c] = {}]
        BY <2>2, <1>1, GoodMeans, ContentsNew
      <3> QED BY <3>1, <3>2
    <2> QED BY <2>1, <2>2 DEF SaveCollectionIfExists
  <1>5. /\ Pending[p].phase = "save" /\ Pending[p].todo = frame[p].todo
        /\ Pending[p].iri = frame[p].iri /\ Pending[p].version = frame[p].version
    BY <1>2
  <1> QED BY <1>1, <1>3, <1>4, <1>5 DEF Contract!Open, Contract!Saving

LEMMA StoreObjectIsSaveReturn ==
  ASSUME Orderly, Good, NEW p \in Procs, StoreObject(p)
  PROVE  Contract!SaveReturn(p)
  <1>1. frame[p].at = "create" /\ frame[p].todo = <<>> /\ frame[p] \in SaveFrames
    BY GoodMeans, FrameShape DEF StoreObject
  <1>2. Pending[p] = [phase |-> "save", iri |-> frame[p].iri,
                      version |-> frame[p].version, todo |-> frame[p].todo]
    BY <1>1, PendingAt, SeenCreate
  <1>3. Contract!Replies(p, "ok")
    BY GoodMeans, ReturnSeen DEF StoreObject
  <1>4. frame[p].iri \in IRIs /\ frame[p].version \notin Cells
    BY <1>1, ValuesAssumption DEF SaveFrames, IRIs
  <1>5. Contents' = [Contents EXCEPT ![frame[p].iri] = frame[p].version]
    BY <1>4, GoodMeans, ContentsStored DEF StoreObject
  <1>6. /\ Pending[p].phase = "save" /\ Pending[p].todo = <<>>
        /\ Pending[p].iri = frame[p].iri /\ Pending[p].version = frame[p].version
    BY <1>1, <1>2
  <1> QED BY <1>3, <1>5, <1>6 DEF Contract!SaveReturn

LEMMA SaveCollectionIsReplace ==
  ASSUME Orderly, Good, NEW p \in Procs, NEW c \in Collections, NEW s \in Shapes, NEW S \in Fills,
         SaveCollection(p, c, s, S)
  PROVE  Contract!Replace(p, c, S)
  <1>1. Idle(p)
    BY DEF SaveCollection, MayCall
  <1>2. Contract!Replies(p, "ok")
    BY GoodMeans, ReturnSeen DEF SaveCollection
  <1>3. Contents' = [Contents EXCEPT ![c] = S]
    BY GoodMeans, ContentsNew DEF SaveCollection
  <1> QED BY <1>1, <1>2, <1>3, IdleSeen DEF Contract!Replace

LEMMA DeleteIsDrop ==
  ASSUME Orderly, Good, NEW p \in Procs, NEW k \in IRIs, Delete(p, k)
  PROVE  Contract!Drop(p, k)
  <1>1. Idle(p)
    BY DEF Delete, MayCall
  <1>2. Contract!Replies(p, "ok")
    BY GoodMeans, ReturnSeen DEF Delete
  <1>3. Contents' = [Contents EXCEPT ![k] = Absent]
    BY GoodMeans, ContentsStored, ValuesAssumption DEF Delete
  <1> QED BY <1>1, <1>2, <1>3, IdleSeen DEF Contract!Drop

(* AddTo and RemoveFrom: loading the collection is the call, writing the items *)
(* is the effect, and saving the collection is the return.                     *)
LEMMA LoadColIsEditCall ==
  ASSUME Orderly, Good, NEW p \in Procs, NEW k \in IRIs, NEW add \in BOOLEAN,
         NEW S \in SUBSET Members, LoadCol(p, k, add, S)
  PROVE  k \in Collections /\ Contract!EditCall(p, k, add, S)
  <1>1. Idle(p) /\ store[k] \in Cells /\ UNCHANGED <<store, heap>>
    BY DEF LoadCol, MayCall
  <1>2. k \in Collections
    BY <1>1, GoodMeans DEF StoreTypeOK, IRIs
  <1>4. Pending' = [Pending EXCEPT
                      ![p] = [phase |-> "edit", iri |-> k, add |-> add, delta |-> S]]
    <2>1. /\ frame'[p] = [at |-> "read", iri |-> k, cell |-> store[k],
                          add |-> add, delta |-> S, snap |-> {}]
          /\ \A q \in Procs \ {p} : frame'[q] = frame[q]
      BY GoodMeans DEF LoadCol, FrameTypeOK
    <2>2. Seen(frame'[p]) = [phase |-> "edit", iri |-> k, add |-> add, delta |-> S]
      BY <2>1 DEF Seen
    <2> QED BY <2>1, <2>2 DEF Pending
  <1> QED BY <1>1, <1>2, <1>4, IdleSeen, ContentsSame DEF Contract!EditCall

LEMMA LoadColFailsIsRefuse ==
  ASSUME Orderly, Good, NEW p \in Procs, NEW k \in IRIs, NEW add \in BOOLEAN,
         LoadColFails(p, k, IF add THEN "notadded" ELSE "notfound"),
         add => AddInOrder(k)
  PROVE  Contract!Refuse(p, k, add)
  <1>1. Idle(p) /\ UNCHANGED <<store, heap>>
    BY DEF LoadColFails, MayCall
  <1>2. CASE store[k] = Absent /\ Return(p, IF add THEN "notadded" ELSE "notfound")
    <2>1. add => k \notin Hidden
      <3>1. ASSUME StoredNames(k), k \in Collections PROVE FALSE
        BY <1>2, <3>1, GoodMeans DEF StoredNames, Names, NamedExist
      <3> QED BY <3>1, HiddenAssumption DEF AddInOrder
    <2>2. Contract!Missing(k, add)
      BY <1>2, <2>1, GoodMeans, AbsentIsSeen DEF Contract!Missing, Contract!Creates
    <2>3. Contract!Replies(p, Contract!NoCollection(add))
      BY <1>2, GoodMeans, ReturnSeen DEF Contract!NoCollection
    <2> QED BY <1>1, <2>2, <2>3, IdleSeen, ContentsSame DEF Contract!Refuse
  <1>3. CASE store[k] \in Versions /\ Return(p, "invalid")
    <2>1. k \in Objects /\ store[k] # Absent
      BY <1>3, GoodMeans, ValuesAssumption DEF StoreTypeOK, IRIs
    <2>2. Contents[k] # Absent
      BY <2>1, GoodMeans, AbsentIsSeen
    <2>3. Contract!Replies(p, "invalid")
      BY <1>3, GoodMeans, ReturnSeen
    <2> QED BY <1>1, <2>1, <2>2, <2>3, IdleSeen, ContentsSame DEF Contract!Refuse
  <1> QED BY <1>2, <1>3 DEF LoadColFails

LEMMA LoadIsLook ==
  ASSUME Orderly, Good, NEW p \in Procs, NEW k \in IRIs, NEW filtered \in BOOLEAN,
         Load(p, k, filtered)
  PROVE  Contract!Look(p, k)
  <1>1. Idle(p) /\ UNCHANGED <<store, heap>>
    BY DEF Load, MayCall
  <1>2. Contents[k] = Absent <=> store[k] = Absent
    BY GoodMeans, AbsentIsSeen
  <1>3. Return(p, IF store[k] = Absent THEN "notfound" ELSE "ok")
    BY ValuesAssumption DEF Load, LoadInOrder
  <1>4. Contract!Replies(p, IF store[k] = Absent THEN "notfound" ELSE "ok")
    BY <1>3, GoodMeans, ReturnSeen
  <1> QED BY <1>1, <1>2, <1>4, IdleSeen, ContentsSame DEF Contract!Look

LEMMA ReadItemsUnseen ==
  ASSUME Orderly, Good, NEW p \in Procs, ReadItems(p)
  PROVE  UNCHANGED <<Contents, Pending>>
  <1>1. frame[p].at = "read" /\ frame[p] \in EditFrames
    BY GoodMeans, FrameShape DEF ReadItems, Editing
  <1>2. /\ frame'[p].at = "write" /\ frame'[p].iri = frame[p].iri
        /\ frame'[p].add = frame[p].add /\ frame'[p].delta = frame[p].delta
        /\ \A q \in Procs \ {p} : frame'[q] = frame[q]
    BY <1>1, GoodMeans DEF ReadItems, FrameTypeOK, EditFrames
  <1>3. Seen(frame'[p]) = [phase |-> "edit", iri |-> frame[p].iri,
                           add |-> frame[p].add, delta |-> frame[p].delta]
    BY <1>2, SeenEdit
  <1>4. Pending' = [Pending EXCEPT ![p] = [phase |-> "edit", iri |-> frame[p].iri,
                                          add |-> frame[p].add, delta |-> frame[p].delta]]
    BY <1>2, <1>3 DEF Pending
  <1>5. Pending[p] = [phase |-> "edit", iri |-> frame[p].iri,
                      add |-> frame[p].add, delta |-> frame[p].delta]
    BY <1>1, PendingAt, SeenEdit
  <1>6. Pending = [q \in Procs |-> Pending[q]]
    BY DEF Pending
  <1> QED BY <1>4, <1>5, <1>6, ContentsSame DEF ReadItems

(* What a running edit writes to its collection is written to what the contract *)
(* has under its IRI, for that collection is the one that is stored there.      *)
LEMMA EditSeen ==
  ASSUME Orderly, Good, NEW p \in Procs, frame[p].at = "write"
  PROVE  /\ frame[p] \in EditFrames /\ frame[p].iri \in Collections
         /\ frame[p].cell \in Cells
         /\ store[frame[p].iri] = frame[p].cell
         /\ Contents[frame[p].iri] = frame[p].snap
         /\ Contents[frame[p].iri] # Absent
         /\ Pending[p] = [phase |-> "edit", iri |-> frame[p].iri,
                          add |-> frame[p].add, delta |-> frame[p].delta]
  <1>1. /\ frame[p] \in EditFrames /\ frame[p].iri \in Collections
        /\ frame[p].cell \in Cells /\ frame[p].snap \in SUBSET Members
    BY GoodMeans, FrameShape DEF Editing, EditFrames
  <1>2. EditIsCurrent(p)
    BY GoodMeans DEF Editing
  <1>3. store[frame[p].iri] = frame[p].cell /\ frame[p].snap = heap[frame[p].cell].items
    BY <1>2 DEF EditIsCurrent
  <1>4. Contents[frame[p].iri] = frame[p].snap
    BY <1>1, <1>3 DEF Contents, IRIs
  <1> QED BY <1>1, <1>3, <1>4, PendingAt, SeenEdit, ValuesAssumption

LEMMA WriteItemsIsEffect ==
  ASSUME Orderly, Good, NEW p \in Procs, WriteItems(p)
  PROVE  Contract!Effect(p)
  <1>1. frame[p].at = "write"
    BY DEF WriteItems
  <1>0. /\ frame[p].iri \in Collections /\ frame[p].cell \in Cells
        /\ store[frame[p].iri] = frame[p].cell
        /\ Contents[frame[p].iri] = frame[p].snap
        /\ Contents[frame[p].iri] # Absent
        /\ frame[p] \in EditFrames
        /\ Pending[p] = [phase |-> "edit", iri |-> frame[p].iri,
                         add |-> frame[p].add, delta |-> frame[p].delta]
    BY <1>1, EditSeen
  <1>2. Contents' = [Contents EXCEPT ![frame[p].iri] = Edited(frame[p])]
    BY <1>0, GoodMeans, ContentsEdited DEF WriteItems
  <1>3. Edited(frame[p]) = IF frame[p].add THEN Contents[frame[p].iri] \cup frame[p].delta
                           ELSE Contents[frame[p].iri] \ frame[p].delta
    BY <1>0, <1>1 DEF Edited
  <1>4. Pending' = [Pending EXCEPT ![p] = [phase |-> "done"]]
    <2>1. frame'[p].at = "save" /\ \A q \in Procs \ {p} : frame'[q] = frame[q]
      BY <1>0, <1>1, GoodMeans DEF WriteItems, FrameTypeOK, EditFrames
    <2>2. Seen(frame'[p]) = [phase |-> "done"]
      BY <2>1, SeenDone
    <2> QED BY <2>1, <2>2 DEF Pending
  <1>5. /\ Pending[p].phase = "edit" /\ Pending[p].iri = frame[p].iri
        /\ Pending[p].add = frame[p].add /\ Pending[p].delta = frame[p].delta
    BY <1>0
  <1>6. Contract!Items(frame[p].iri) = Contents[frame[p].iri]
        /\ ~Contract!Missing(frame[p].iri, frame[p].add)
    BY <1>0 DEF Contract!Items, Contract!Missing
  <1> QED BY <1>1, <1>2, <1>3, <1>4, <1>5, <1>6 DEF Contract!Effect

LEMMA AppendFailsIsEditFail ==
  ASSUME Orderly, Good, NEW p \in Procs, AppendFails(p)
  PROVE  Contract!EditFail(p)
  <1>1. frame[p].at = "write" /\ frame[p].add /\ Editing(p)
    BY DEF AppendFails, Editing
  <1>0. /\ frame[p].iri \in Collections /\ frame[p].cell \in Cells
        /\ store[frame[p].iri] = frame[p].cell
        /\ Contents[frame[p].iri] = frame[p].snap
        /\ Contents[frame[p].iri] # Absent
        /\ frame[p] \in EditFrames
        /\ Pending[p] = [phase |-> "edit", iri |-> frame[p].iri,
                         add |-> frame[p].add, delta |-> frame[p].delta]
    BY <1>1, EditSeen
  <1>2. PICK S \in SUBSET frame[p].delta :
           heap' = [heap EXCEPT ![frame[p].cell].items = frame[p].snap \cup S]
    BY DEF AppendFails
  <1>3. Contents' = [Contents EXCEPT ![frame[p].iri] = frame[p].snap \cup S]
    BY <1>0, <1>2, GoodMeans, ContentsEdited DEF AppendFails
  <1>4. Contract!Replies(p, "failed")
    BY GoodMeans, ReturnSeen DEF AppendFails
  <1>5. /\ Pending[p].phase = "edit" /\ Pending[p].iri = frame[p].iri
        /\ Pending[p].add = frame[p].add /\ Pending[p].delta = frame[p].delta
    BY <1>0
  <1>6. Contract!Items(frame[p].iri) = frame[p].snap
        /\ ~Contract!Missing(frame[p].iri, TRUE)
    BY <1>0 DEF Contract!Items, Contract!Missing
  <1> QED BY <1>1, <1>2, <1>3, <1>4, <1>5, <1>6 DEF Contract!EditFail

LEMMA SaveEditedIsEditReturn ==
  ASSUME Orderly, Good, NEW p \in Procs, SaveEdited(p)
  PROVE  Contract!EditReturn(p)
  <1>1. frame[p].at = "save" /\ Editing(p)
    BY DEF SaveEdited, Editing
  <1>2. frame[p].iri \in Collections /\ frame[p].cell \in Cells
    BY <1>1, GoodMeans, FrameShape DEF EditFrames
  <1>3. store[frame[p].iri] = frame[p].cell /\ heap[frame[p].cell].iri = frame[p].iri
    BY <1>1, <1>2, GoodMeans DEF EditIsCurrent, StoredUnderOwnIRI
  <1>4. store' = store /\ heap' = heap
    BY <1>2, <1>3, GoodMeans DEF SaveEdited, StoreTypeOK, IRIs
  <1>5. Contract!Replies(p, "ok")
    BY GoodMeans, ReturnSeen DEF SaveEdited
  <1>6. Pending[p].phase = "done"
    <2>1. Pending[p] = [phase |-> "done"]
      BY <1>1, PendingAt, SeenDone
    <2> QED BY <2>1
  <1> QED BY <1>4, <1>5, <1>6, ContentsSame DEF Contract!EditReturn

-----------------------------------------------------------------------------
LEMMA StepsImplement ==
  ASSUME Orderly, Good, [Next]_vars
  PROVE  [Contract!Next]_<<Contents, Pending>>
  <1>1. ASSUME NEW p \in Procs, NEW k \in IRIs, NEW S \in SUBSET Members,
               AddTo(p, k, S) \/ RemoveFrom(p, k, S)
        PROVE  [Contract!Next]_<<Contents, Pending>>
    <2>1. CASE LoadColFails(p, k, "notfound")
      <3>1. Contract!Refuse(p, k, FALSE)
        BY <2>1, LoadColFailsIsRefuse
      <3> QED BY <3>1 DEF Contract!Next, IRIs, Contract!IRIs
    <2>3. CASE AddInOrder(k) /\ LoadColFails(p, k, "notadded")
      <3>1. Contract!Refuse(p, k, TRUE)
        BY <2>3, LoadColFailsIsRefuse
      <3> QED BY <3>1 DEF Contract!Next, IRIs, Contract!IRIs
    <2>2. ASSUME NEW add \in BOOLEAN, LoadCol(p, k, add, S)
          PROVE  [Contract!Next]_<<Contents, Pending>>
      BY <2>2, LoadColIsEditCall DEF Contract!Next
    <2> QED BY <1>1, <2>1, <2>2, <2>3 DEF AddTo, RemoveFrom
  <1>2. ASSUME NEW p \in Procs, NEW o \in Objects, NEW v \in Named[o], Save(p, o, v)
        PROVE  [Contract!Next]_<<Contents, Pending>>
    BY <1>2, SaveIsSaveCall DEF Contract!Next
  <1>3. ASSUME NEW p \in Procs, SaveCollectionIfExists(p) \/ StoreObject(p)
        PROVE  [Contract!Next]_<<Contents, Pending>>
    BY <1>3, OpeningIsOpen, StoreObjectIsSaveReturn DEF Contract!Next
  <1>4. ASSUME NEW p \in Procs, NEW c \in Collections, NEW s \in Shapes, NEW S \in Fills,
               SaveCollection(p, c, s, S)
        PROVE  [Contract!Next]_<<Contents, Pending>>
    BY <1>4, SaveCollectionIsReplace, FillsAssumption DEF Contract!Next
  <1>5. ASSUME NEW p \in Procs, NEW k \in IRIs, Delete(p, k)
        PROVE  [Contract!Next]_<<Contents, Pending>>
    BY <1>5, DeleteIsDrop DEF Contract!Next, IRIs, Contract!IRIs
  <1>6. ASSUME NEW p \in Procs,
               WriteItems(p) \/ AppendFails(p) \/ SaveEdited(p) \/ ReadItems(p)
        PROVE  [Contract!Next]_<<Contents, Pending>>
    BY <1>6, WriteItemsIsEffect, AppendFailsIsEditFail, SaveEditedIsEditReturn,
       ReadItemsUnseen DEF Contract!Next
  <1>7. ASSUME NEW p \in Procs, NEW k \in IRIs, NEW filtered \in BOOLEAN,
               Load(p, k, filtered)
        PROVE  [Contract!Next]_<<Contents, Pending>>
    BY <1>7, LoadIsLook DEF Contract!Next, IRIs, Contract!IRIs
  <1>8. CASE UNCHANGED vars
    BY <1>8 DEF vars, Contents, Pending
  <1> QED
    BY <1>1, <1>2, <1>3, <1>4, <1>5, <1>6, <1>7, <1>8 DEF Next

LEMMA InitImplements == Init => Contract!Init
  BY ValuesAssumption
     DEF Init, Contract!Init, Contents, Pending, Seen, Contract!Idle, IRIs, Contract!IRIs

(* For callers that keep calls on one IRI apart, name an object's collections when  *)
(* they first save it and do not delete them, memStorage does all that the interface *)
(* asks for (activitypub_storage.go:14-85, storage_mem.go:62-200): every Save creates *)
(* the object's collections, no AddTo to a hidden collection of a stored actor finds  *)
(* it missing, and each edit takes effect once, at one instant, whatever the number   *)
(* of goroutines, IRIs and addresses.                                                  *)
THEOREM OrderlyCallsKeepTheContract ==
  ASSUME Orderly
  PROVE  Spec => ImplementsContract
  <1>1. Init => Good /\ Contract!Init
    BY InitInductive, InitImplements
       DEF Init, Good, OrderlyInvariant, NamedExist, SavesKeepUp, IRIs
  <1>2. Good /\ [Next]_vars => Good' /\ [Contract!Next]_<<Contents, Pending>>
    BY GoodPreserved, StepsImplement
  <1> QED BY <1>1, <1>2, PTL
          DEF Spec, ImplementsContract, Contract!Spec, Contract!contractVars

-----------------------------------------------------------------------------
(***************************************************************************)
(* A running call changes what is under its own IRI and nothing else.      *)
(***************************************************************************)

(* What a step of the call of p may change. *)
Apart(p, k) ==
    Contents'[k] # Contents[k] =>
       \/ k = frame[p].iri
       \/ frame[p].at = "create" /\ Contents[k] = Absent /\ Contents'[k] = {}

LEMMA OpeningStaysApart ==
  ASSUME InductiveInvariant, NEW p \in Procs, SaveCollectionIfExists(p), NEW k \in IRIs
  PROVE  Apart(p, k)
  <1>1. StoreTypeOK /\ FrameTypeOK
    BY DEF InductiveInvariant, TypeOK
  <1>2. frame[p].at = "create" /\ Head(frame[p].todo) \in Collections
    BY <1>1, FrameShape DEF SaveCollectionIfExists, SaveFrames
  <1>3. CASE UNCHANGED <<store, heap>>
    BY <1>3, ContentsSame DEF Apart
  <1>4. ASSUME NEW r \in FreeCells, store[Head(frame[p].todo)] = Absent,
               store' = [store EXCEPT ![Head(frame[p].todo)] = r],
               NewCollection(r, Head(frame[p].todo), "collection", {})
        PROVE  Apart(p, k)
    <2>1. Contents' = [Contents EXCEPT ![Head(frame[p].todo)] = {}]
      BY <1>1, <1>2, <1>4, ContentsNew
    <2>2. Head(frame[p].todo) \in IRIs /\ Contents[Head(frame[p].todo)] = Absent
      BY <1>1, <1>2, <1>4, AbsentIsSeen DEF IRIs
    <2>3. DOMAIN Contents = IRIs
      BY DEF Contents
    <2> QED BY <1>2, <2>1, <2>2, <2>3 DEF Apart
  <1> QED BY <1>3, <1>4 DEF SaveCollectionIfExists

LEMMA StoringStaysApart ==
  ASSUME InductiveInvariant, NEW p \in Procs, StoreObject(p), NEW k \in IRIs
  PROVE  Apart(p, k)
  <1>1. StoreTypeOK /\ FrameTypeOK
    BY DEF InductiveInvariant, TypeOK
  <1>2. frame[p].iri \in IRIs /\ frame[p].version \notin Cells
    BY <1>1, FrameShape, ValuesAssumption DEF StoreObject, SaveFrames, IRIs
  <1>3. Contents' = [Contents EXCEPT ![frame[p].iri] = frame[p].version]
    BY <1>1, <1>2, ContentsStored DEF StoreObject
  <1>4. DOMAIN Contents = IRIs
    BY DEF Contents
  <1> QED BY <1>2, <1>3, <1>4 DEF Apart

(* Whatever is stored in the cell that is edited is stored under the IRI of the edit. *)
LEMMA EditingStaysApart ==
  ASSUME InductiveInvariant, NEW p \in Procs, WriteItems(p) \/ AppendFails(p), NEW k \in IRIs
  PROVE  Apart(p, k)
  <1>1. StoreTypeOK /\ StoredUnderOwnIRI /\ EditsOwnCell
    BY DEF InductiveInvariant, TypeOK
  <1>2. /\ frame[p] \in EditFrames /\ store' = store
        /\ \A r \in Cells \ {frame[p].cell} : heap'[r].items = heap[r].items
    BY WritesInPlace
  <1>3. heap[frame[p].cell].iri = frame[p].iri
    BY <1>1 DEF EditsOwnCell, Editing, WriteItems, AppendFails
  <1>4. k # frame[p].iri /\ store[k] \in Cells => store[k] # frame[p].cell
    BY <1>1, <1>3 DEF StoreTypeOK, StoredUnderOwnIRI, IRIs
  <1>5. k # frame[p].iri => Contents'[k] = Contents[k]
    BY <1>2, <1>4, ContentsAt
  <1> QED BY <1>5 DEF Apart

LEMMA SavingStaysApart ==
  ASSUME InductiveInvariant, NEW p \in Procs, SaveEdited(p), NEW k \in IRIs
  PROVE  Apart(p, k)
  <1>1. StoreTypeOK /\ EditsOwnCell
    BY DEF InductiveInvariant, TypeOK
  <1>2. heap[frame[p].cell].iri = frame[p].iri
    BY <1>1 DEF EditsOwnCell, Editing, SaveEdited
  <1>3. store' = [store EXCEPT ![frame[p].iri] = frame[p].cell] /\ heap' = heap
    BY <1>2 DEF SaveEdited
  <1>4. k # frame[p].iri => store'[k] = store[k]
    BY <1>1, <1>3 DEF StoreTypeOK
  <1> QED BY <1>3, <1>4, ContentsAt DEF Apart

(* However old the pointer an AddTo or RemoveFrom writes through, it changes no item *)
(* but the one it was asked to, and a Save none but the object it saves and the       *)
(* collections it finds missing, for any number of goroutines and addresses           *)
(* (storage_mem.go:90-145, 176-200).                                                  *)
THEOREM CallsAreApart == Spec => CallsStayApart
  <1> DEFINE Step == \A p \in Procs, k \in IRIs :
                        ~Idle(p) /\ frame'[p] # frame[p] => Apart(p, k)
  <1>1. InductiveInvariant /\ [Next]_vars => Step
    <2> SUFFICES ASSUME InductiveInvariant, [Next]_vars,
                        NEW p \in Procs, NEW k \in IRIs, ~Idle(p), frame'[p] # frame[p]
                 PROVE  Apart(p, k)
      OBVIOUS
    <2>1. FrameTypeOK
      BY DEF InductiveInvariant, TypeOK
    <2>2. PICK q \in Procs :
             \/ \E o \in Objects : \E v \in Named[o] : Save(q, o, v)
             \/ SaveCollectionIfExists(q)
             \/ StoreObject(q)
             \/ \E c \in Collections, s \in Shapes, S \in Fills : SaveCollection(q, c, s, S)
             \/ \E j \in IRIs : Delete(q, j)
             \/ \E j \in IRIs, S \in SUBSET Members \ {{}} : AddTo(q, j, S) \/ RemoveFrom(q, j, S)
             \/ ReadItems(q) \/ WriteItems(q) \/ AppendFails(q) \/ SaveEdited(q)
             \/ \E j \in IRIs, filtered \in BOOLEAN : Load(q, j, filtered)
      BY DEF Next, vars
    <2>3. ASSUME NEW f, frame' = [frame EXCEPT ![q] = f] PROVE p = q
      BY <2>1, <2>3 DEF FrameTypeOK
    <2>4. p = q
      BY <2>2, <2>3
         DEF Save, SaveCollectionIfExists, StoreObject, SaveCollection, Delete, AddTo,
             RemoveFrom, LoadCol, LoadColFails, ReadItems, WriteItems, AppendFails,
             SaveEdited, Load, Return
    <2>5. CASE UNCHANGED <<store, heap>>
      BY <2>5, ContentsSame DEF Apart
    <2>6. CASE SaveCollectionIfExists(p) \/ StoreObject(p)
      BY <2>6, OpeningStaysApart, StoringStaysApart
    <2>7. CASE WriteItems(p) \/ AppendFails(p) \/ SaveEdited(p)
      BY <2>7, EditingStaysApart, SavingStaysApart
    <2> QED
      BY <2>2, <2>4, <2>5, <2>6, <2>7
         DEF Save, SaveCollection, Delete, AddTo, RemoveFrom, LoadCol, LoadColFails,
             ReadItems, Load, MayCall
  <1>2. Step => [\A p \in Procs, k \in IRIs :
          ~Idle(p) /\ frame'[p] # frame[p] /\ Contents'[k] # Contents[k] =>
             \/ k = frame[p].iri
             \/ frame[p].at = "create" /\ Contents[k] = Absent /\ Contents'[k] = {}]_vars
    BY DEF Apart
  <1> QED BY <1>1, <1>2, InvariantHolds, PTL DEF Spec, CallsStayApart
=============================================================================
