------------------------- MODULE ClientRegistryProofs -------------------------
(***************************************************************************)
(* Proofs about ClientRegistry, for any number of goroutines, client IDs   *)
(* and client values.                                                      *)
(***************************************************************************)
EXTENDS ClientRegistry, TLAPS

(* Why a finished listing tells the truth: what the map holds now was stored *)
(* during every running listing, and so was, at the visit, whatever has been *)
(* found under the IDs visited so far.                                       *)
NowIsDuring ==
    \A p \in Procs : frame[p].at = "range" =>
        \A i \in Ids : clients[i] \in during[p][i]

VisitedWasStored ==
    \A p \in Procs : frame[p].at \in {"range", "listed"} =>
        \A i \in Ids \ frame[p].left : frame[p].found[i] \in during[p][i]

ListingInvariant == TypeOK /\ NowIsDuring /\ VisitedWasStored

LEMMA InitListing == Init => ListingInvariant
  BY DEF Init, ListingInvariant, TypeOK, NowIsDuring, VisitedWasStored,
         Idle, Nothing, Stored, Frames

(* A goroutine that is ranging is not one that starts a call. *)
LEMMA OthersRange ==
  ASSUME TypeOK, NEW p \in Procs, Free(p), NEW f, f.at # "range",
         frame' = [frame EXCEPT ![p] = f], NEW q \in Procs, frame'[q].at = "range"
  PROVE  q # p /\ frame'[q] = frame[q] /\ ~Free(q)
  BY DEF TypeOK, Free

-----------------------------------------------------------------------------
(* SaveClient and RemoveClient: one value changes, and all that range see it. *)
LEMMA StoresPreserve ==
  ASSUME ListingInvariant, NEW p \in Procs, NEW i \in Ids, NEW v \in Stored,
         Free(p),
         clients' = [clients EXCEPT ![i] = v],
         frame' = [frame EXCEPT ![p] = Idle],
         Witness(i, v)
  PROVE  ListingInvariant'
  <1>t. TypeOK
    BY DEF ListingInvariant
  <1>d. ASSUME NEW q \in Procs
        PROVE  /\ during'[q] \in [Ids -> SUBSET Stored]
               /\ \A j \in Ids : during[q][j] \subseteq during'[q][j]
               /\ ~Free(q) => v \in during'[q][i]
    <2>1. during[q] \in [Ids -> SUBSET Stored]
      BY <1>t DEF TypeOK
    <2>2. CASE Free(q)
      BY <2>1, <2>2 DEF Witness
    <2>3. CASE ~Free(q)
      <3>1. during'[q] = [during[q] EXCEPT ![i] = @ \cup {v}]
        BY <2>3 DEF Witness
      <3> QED BY <2>1, <2>3, <3>1
    <2> QED BY <2>2, <2>3
  <1>1. TypeOK'
    <2>1. clients' \in [Ids -> Stored]
      BY <1>t DEF TypeOK
    <2>2. Idle \in Frames /\ Idle.at # "range" /\ Idle.left = {}
      BY DEF Idle, Frames, Nothing, Stored
    <2>3. /\ frame' \in [Procs -> Frames]
          /\ \A q \in Procs : frame'[q].at # "range" => frame'[q].left = {}
      BY <2>2, <1>t DEF TypeOK
    <2>4. during' \in [Procs -> [Ids -> SUBSET Stored]]
      BY <1>d DEF Witness
    <2> QED BY <2>1, <2>3, <2>4 DEF TypeOK
  <1>s. ASSUME NEW q \in Procs, frame'[q].at = "range"
        PROVE  q # p /\ frame'[q] = frame[q] /\ ~Free(q)
    BY <1>s, <1>t, OthersRange DEF Idle
  <1>2. NowIsDuring'
    <2> SUFFICES ASSUME NEW q \in Procs, frame'[q].at = "range", NEW j \in Ids
                 PROVE  clients'[j] \in during'[q][j]
      BY DEF NowIsDuring
    <2>1. clients[j] \in during[q][j] /\ ~Free(q)
      BY <1>s DEF ListingInvariant, NowIsDuring
    <2> QED BY <2>1, <1>d, <1>t DEF TypeOK
  <1>3. VisitedWasStored'
    <2> SUFFICES ASSUME NEW q \in Procs, frame'[q].at \in {"range", "listed"},
                        NEW j \in Ids, j \notin frame'[q].left
                 PROVE  frame'[q].found[j] \in during'[q][j]
      BY DEF VisitedWasStored
    <2>1. frame'[q] = frame[q]
      BY <1>t DEF TypeOK, Idle
    <2>2. frame[q].found[j] \in during[q][j]
      BY <2>1 DEF ListingInvariant, VisitedWasStored
    <2> QED BY <2>1, <2>2, <1>d
  <1> QED BY <1>1, <1>2, <1>3 DEF ListingInvariant

(* GetClient, ListClients and the end of a listing touch one frame. *)
LEMMA GetPreserves ==
  ASSUME ListingInvariant, NEW p \in Procs, NEW i \in Ids, GetClient(p, i)
  PROVE  ListingInvariant'
  <1> DEFINE f == [at |-> "got", left |-> {}, found |-> [Nothing EXCEPT ![i] = clients[i]]]
  <1>1. f \in Frames /\ f.at = "got" /\ f.left = {}
    BY DEF ListingInvariant, TypeOK, Frames, Nothing, Stored
  <1>2. frame' = [frame EXCEPT ![p] = f] /\ UNCHANGED <<clients, during>>
    BY DEF GetClient
  <1> HIDE DEF f
  <1> QED BY <1>1, <1>2 DEF ListingInvariant, TypeOK, NowIsDuring, VisitedWasStored

LEMMA ListPreserves ==
  ASSUME ListingInvariant, NEW p \in Procs, ListClients(p)
  PROVE  ListingInvariant'
  <1> DEFINE f == [at |-> "range", left |-> Ids, found |-> Nothing]
             d == [i \in Ids |-> {clients[i]}]
  <1>1. f \in Frames /\ f.at = "range" /\ f.left = Ids
    BY DEF Frames, Nothing, Stored
  <1>2. /\ frame' = [frame EXCEPT ![p] = f]
        /\ during' = [during EXCEPT ![p] = d]
        /\ clients' = clients
    BY DEF ListClients
  <1>3. d \in [Ids -> SUBSET Stored] /\ \A i \in Ids : clients[i] \in d[i]
    BY DEF ListingInvariant, TypeOK
  <1> HIDE DEF f, d
  <1> QED BY <1>1, <1>2, <1>3 DEF ListingInvariant, TypeOK, NowIsDuring, VisitedWasStored

LEMMA ReturnPreserves ==
  ASSUME ListingInvariant, NEW p \in Procs, ListReturns(p)
  PROVE  ListingInvariant'
  <1> DEFINE f == [frame[p] EXCEPT !.at = "listed"]
  <1>1. /\ f \in Frames /\ f.at = "listed" /\ f.left = frame[p].left
        /\ f.found = frame[p].found /\ f.left = {}
    BY DEF ListingInvariant, TypeOK, Frames, ListReturns
  <1>2. /\ frame' = [frame EXCEPT ![p] = f] /\ UNCHANGED <<clients, during>>
        /\ frame[p].at = "range"
    BY DEF ListReturns
  <1> HIDE DEF f
  <1> QED BY <1>1, <1>2 DEF ListingInvariant, TypeOK, NowIsDuring, VisitedWasStored

(* A visit finds what the map holds, which was stored during the listing. *)
LEMMA VisitPreserves ==
  ASSUME ListingInvariant, NEW p \in Procs, Visit(p)
  PROVE  ListingInvariant'
  <1>1. PICK i \in frame[p].left :
           frame' = [frame EXCEPT ![p].left = @ \ {i}, ![p].found[i] = clients[i]]
    BY DEF Visit
  <1> DEFINE f == [frame[p] EXCEPT !.left = @ \ {i}, !.found[i] = clients[i]]
  <1>2. i \in Ids /\ frame[p] \in Frames /\ clients[i] \in Stored
    BY DEF ListingInvariant, TypeOK, Frames
  <1>3. /\ f \in Frames /\ f.at = frame[p].at /\ f.left = frame[p].left \ {i}
        /\ f.found = [frame[p].found EXCEPT ![i] = clients[i]]
    BY <1>2 DEF Frames
  <1>4. /\ frame' = [frame EXCEPT ![p] = f] /\ UNCHANGED <<clients, during>>
        /\ frame[p].at = "range"
    <2>1. frame \in [Procs -> Frames]
      BY DEF ListingInvariant, TypeOK
    <2>2. frame'[p] = f
      BY <1>1, <1>2, <2>1 DEF Frames
    <2>3. \A q \in Procs \ {p} : frame'[q] = frame[q]
      BY <1>1, <2>1
    <2>4. DOMAIN frame' = Procs
      BY <1>1, <2>1
    <2> QED BY <2>1, <2>2, <2>3, <2>4, <1>1 DEF Visit
  <1>5. clients[i] \in during[p][i]
    BY <1>2, <1>4 DEF ListingInvariant, NowIsDuring
  <1>6. \A j \in Ids \ f.left : f.found[j] \in during[p][j]
    BY <1>2, <1>3, <1>4, <1>5 DEF ListingInvariant, VisitedWasStored, Frames
  <1> HIDE DEF f
  <1> QED BY <1>3, <1>4, <1>6 DEF ListingInvariant, TypeOK, NowIsDuring, VisitedWasStored

-----------------------------------------------------------------------------
LEMMA ListingPreserved == ListingInvariant /\ [Next]_vars => ListingInvariant'
  <1> SUFFICES ASSUME ListingInvariant, [Next]_vars PROVE ListingInvariant'
    OBVIOUS
  <1>1. ASSUME NEW p \in Procs, NEW i \in Ids, NEW c \in Clients, SaveClient(p, i, c)
        PROVE  ListingInvariant'
    BY <1>1, StoresPreserve DEF SaveClient, Stored
  <1>2. ASSUME NEW p \in Procs, NEW i \in Ids, RemoveClient(p, i)
        PROVE  ListingInvariant'
    BY <1>2, StoresPreserve DEF RemoveClient, Stored
  <1>3. CASE UNCHANGED vars
    BY <1>3 DEF vars, ListingInvariant, TypeOK, NowIsDuring, VisitedWasStored
  <1> QED
    BY <1>1, <1>2, <1>3, GetPreserves, ListPreserves, VisitPreserves, ReturnPreserves
       DEF Next

LEMMA ListingHolds == Spec => []ListingInvariant
  BY InitListing, ListingPreserved, PTL DEF Spec

(* The clients and the running listings keep their types; a listing that has  *)
(* returned left no ID out (storage_mem.go:202-249).                          *)
THEOREM ClientTypes == Spec => []TypeOK
  <1>1. ListingInvariant => TypeOK
    BY DEF ListingInvariant
  <1> QED BY <1>1, ListingHolds, PTL

(* Whatever is saved and removed while ListClients ranges over the map, what it *)
(* answers for each ID was stored under it at some time during the listing      *)
(* (storage_mem.go:216-230).                                                    *)
THEOREM ListingsTellTheTruth == Spec => []ListsWhatWasStored
  <1>1. ListingInvariant => ListsWhatWasStored
    BY DEF ListingInvariant, TypeOK, VisitedWasStored, ListsWhatWasStored
  <1> QED BY <1>1, ListingHolds, PTL
=============================================================================
