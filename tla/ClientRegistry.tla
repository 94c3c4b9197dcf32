------------------------------ MODULE ClientRegistry ------------------------------
(***************************************************************************)
(* OAuth clients in memStorage (storage_mem.go:202-249): SaveClient,       *)
(* RemoveClient, GetClient and ListClients.                                *)
(*                                                                         *)
(* ListClients ranges over the sync.Map.  A range is not atomic: it visits *)
(* the keys one by one, in an order it does not promise, and clients may be *)
(* saved, replaced and removed between two visits.  It visits no key twice *)
(* and none that is stored all the time is left out.                       *)
(***************************************************************************)
CONSTANTS
    Procs,      \* goroutines that share the storage
    Ids,        \* client IDs
    Clients,    \* the client values callers save
    Absent      \* what the map answers under an ID it does not hold

ASSUME AbsentAssumption == Absent \notin Clients

VARIABLES
    clients,    \* clients[i]: the client stored under i, or Absent
    frame,      \* the listing each goroutine is in, or its last answer
    during      \* history: what was stored under each ID since the listing began

vars == <<clients, frame, during>>

Stored == Clients \cup {Absent}
Frames == [at : {"idle", "range", "listed", "got"}, left : SUBSET Ids,
           found : [Ids -> Stored]]

TypeOK ==
    /\ clients \in [Ids -> Stored]
    /\ frame \in [Procs -> Frames]
    /\ \A p \in Procs : frame[p].at # "range" => frame[p].left = {}
    /\ during \in [Procs -> [Ids -> SUBSET Stored]]

Nothing == [i \in Ids |-> Absent]
Idle == [at |-> "idle", left |-> {}, found |-> Nothing]

Init ==
    /\ clients = Nothing
    /\ frame = [p \in Procs |-> Idle]
    /\ during = [p \in Procs |-> [i \in Ids |-> {}]]

-----------------------------------------------------------------------------
Free(p) == frame[p].at # "range"

(* Whoever lists clients at the time may see the new value. *)
Witness(i, v) ==
    during' = [p \in Procs |->
                 IF Free(p) THEN during[p] ELSE [during[p] EXCEPT ![i] = @ \cup {v}]]

SaveClient(p, i, c) ==
    /\ Free(p)
    /\ clients' = [clients EXCEPT ![i] = c]
    /\ frame' = [frame EXCEPT ![p] = Idle]
    /\ Witness(i, c)

RemoveClient(p, i) ==
    /\ Free(p)
    /\ clients' = [clients EXCEPT ![i] = Absent]
    /\ frame' = [frame EXCEPT ![p] = Idle]
    /\ Witness(i, Absent)

GetClient(p, i) ==
    /\ Free(p)
    /\ frame' = [frame EXCEPT ![p] = [at |-> "got", left |-> {},
                                      found |-> [Nothing EXCEPT ![i] = clients[i]]]]
    /\ UNCHANGED <<clients, during>>

-----------------------------------------------------------------------------
ListClients(p) ==
    /\ Free(p)
    /\ frame' = [frame EXCEPT ![p] = [at |-> "range", left |-> Ids, found |-> Nothing]]
    /\ during' = [during EXCEPT ![p] = [i \in Ids |-> {clients[i]}]]
    /\ UNCHANGED clients

(* A slip the runs must catch: the callback asks to stop after the first client. *)
VisitStops(p) ==
    /\ frame[p].at = "range"
    /\ \E i \in frame[p].left :
          frame' = [frame EXCEPT ![p].left = IF clients[i] = Absent THEN @ \ {i} ELSE {},
                                 ![p].found[i] = clients[i]]
    /\ UNCHANGED <<clients, during>>

(* One key of the map: appended when it holds a client at that moment. *)
Visit(p) ==
    /\ frame[p].at = "range"
    /\ \E i \in frame[p].left :
          frame' = [frame EXCEPT ![p].left = @ \ {i}, ![p].found[i] = clients[i]]
    /\ UNCHANGED <<clients, during>>

(* A slip the runs must catch: an answer while keys are left. *)
ListReturnsEarly(p) ==
    /\ frame[p].at = "range"
    /\ frame' = [frame EXCEPT ![p].at = "listed"]
    /\ UNCHANGED <<clients, during>>

ListReturns(p) ==
    /\ frame[p].at = "range"
    /\ frame[p].left = {}
    /\ frame' = [frame EXCEPT ![p].at = "listed"]
    /\ UNCHANGED <<clients, during>>

-----------------------------------------------------------------------------
Next ==
    \E p \in Procs :
        \/ \E i \in Ids, c \in Clients : SaveClient(p, i, c)
        \/ \E i \in Ids : RemoveClient(p, i)
        \/ \E i \in Ids : GetClient(p, i)
        \/ ListClients(p)
        \/ Visit(p)
        \/ ListReturns(p)

Spec == Init /\ [][Next]_vars

-----------------------------------------------------------------------------
(* Each client of the answer was stored at some time during the listing, and a *)
(* client that was stored all that time is in it, whatever was saved and       *)
(* removed meanwhile (storage_mem.go:216-230).                                 *)
ListsWhatWasStored ==
    \A p \in Procs : frame[p].at = "listed" =>
        \A i \in Ids : frame[p].found[i] \in during[p][i]
=============================================================================
