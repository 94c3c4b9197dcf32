------------------------------ MODULE TokenStorage ------------------------------
(***************************************************************************)
(* Access and refresh tokens in memStorage (storage_mem.go:277-329).       *)
(*                                                                         *)
(* Access data is stored under its access token, and the access token is   *)
(* stored a second time under the refresh token, so that LoadRefresh finds *)
(* the data in two look-ups.  The two entries are written, and removed, by *)
(* separate calls on the map: each step below is one of them, and any      *)
(* other goroutine's calls may come between.                               *)
(***************************************************************************)
CONSTANTS
    Procs,      \* goroutines that share the storage
    Tokens,     \* access tokens
    Refreshes,  \* refresh tokens
    Grants,     \* the (access token, refresh token) pairs that callers save
    NoRefresh,  \* the empty refresh token
    Absent      \* what the map answers under a key it does not hold

ASSUME GrantsAssumption == Grants \subseteq Tokens \X (Refreshes \cup {NoRefresh})
ASSUME KeysAssumption == Tokens \cap Refreshes = {}
ASSUME ValuesAssumption ==
    /\ NoRefresh \notin Tokens \cup Refreshes
    /\ Absent \notin Tokens \cup Refreshes \cup {NoRefresh}

(* The discipline of a token server: an access token is issued with one      *)
(* refresh token, which is issued with no other.  It may be saved repeatedly. *)
Paired ==
    \A g, h \in Grants : /\ g[1] = h[1] => g[2] = h[2]
                         /\ g[2] = h[2] /\ g[2] # NoRefresh => g[1] = h[1]

VARIABLES
    access,     \* access[t]: the refresh token of the data stored under t, or Absent
    refresh,    \* refresh[r]: the access token stored under r, or Absent
    frame,      \* the call each goroutine is in, or the answer to its last
    issued,     \* history: what callers were told is there
    revoked,    \* history: what callers were told is gone
    overlapped, \* history: tokens two calls on which have overlapped
    raced       \* history: access tokens a SaveAccess and a RemoveAccess of which have

vars == <<access, refresh, frame, issued, revoked, overlapped, raced>>

Keys == Tokens \cup Refreshes
Frames == [at      : {"idle", "map", "delete", "unmap", "load"},
           token   : Tokens \cup {Absent},
           refresh : Refreshes \cup {NoRefresh, Absent},
           data    : Refreshes \cup {NoRefresh, Absent}]

AccessTypeOK == access \in [Tokens -> Refreshes \cup {NoRefresh, Absent}]
RefreshTypeOK == refresh \in [Refreshes -> Tokens \cup {Absent}]
FrameTypeOK ==
    /\ frame \in [Procs -> Frames]
    /\ \A p \in Procs :
          /\ frame[p].at # "idle" => frame[p].token \in Tokens
          /\ frame[p].at \in {"map", "unmap", "load"} => frame[p].refresh \in Refreshes
HistoryTypeOK ==
    /\ issued \subseteq Keys
    /\ revoked \subseteq Keys
    /\ overlapped \subseteq Keys
    /\ raced \subseteq Tokens

TypeOK == AccessTypeOK /\ RefreshTypeOK /\ FrameTypeOK /\ HistoryTypeOK

(* A call that ended: the refresh token it was asked for, if it was a look-up, *)
(* and the refresh token of the data it answered.  A call that is running: its *)
(* next step, and the tokens it is for.                                        *)
Ended(r, d) == [at |-> "idle", token |-> Absent, refresh |-> r, data |-> d]
Done == Ended(Absent, Absent)
Running(step, t, r) == [at |-> step, token |-> t, refresh |-> r, data |-> Absent]

Init ==
    /\ access = [t \in Tokens |-> Absent]
    /\ refresh = [r \in Refreshes |-> Absent]
    /\ frame = [p \in Procs |-> Done]
    /\ issued = {}
    /\ revoked = {}
    /\ overlapped = {}
    /\ raced = {}

-----------------------------------------------------------------------------
Idle(p) == frame[p].at = "idle"

(* The keys that running calls write, or are about to. *)
Writing(p) == frame[p].at \in {"map", "delete", "unmap"}
KeysOf(p) == {frame[p].token, frame[p].refresh} \cap Keys
Busy == UNION {KeysOf(q) : q \in {q \in Procs : Writing(q)}}

(* Recorded when a call starts, and when it finds out which refresh token it is for. *)
Overlap(K) == overlapped' = overlapped \cup (Busy \cap K)

(* Recorded when a SaveAccess starts while a RemoveAccess of the token is running, *)
(* and the other way round.                                                        *)
Race(t, steps) ==
    raced' = raced \cup {u \in {t} : \E q \in Procs : frame[q].at \in steps /\ frame[q].token = u}

-----------------------------------------------------------------------------
(* SaveAccess: store the data, then, if it has a refresh token, the reference. *)

(* Slips the runs must catch: a stored copy without the refresh token; no new  *)
(* reference for data that is there already.                                   *)
SaveAccessScrubbed(p, t, r) ==
    /\ Idle(p)
    /\ access' = [access EXCEPT ![t] = NoRefresh]
    /\ frame' = [frame EXCEPT ![p] = IF r = NoRefresh THEN Done ELSE Running("map", t, r)]
    /\ Overlap({t, r})
    /\ Race(t, {"delete", "unmap"})
    /\ issued' = IF r = NoRefresh THEN issued \cup {t} ELSE issued
    /\ revoked' = revoked \ {t, r}
    /\ UNCHANGED refresh

SaveAccessOnce(p, t, r) ==
    LET known == r = NoRefresh \/ access[t] = r
    IN  /\ Idle(p)
        /\ access' = [access EXCEPT ![t] = r]
        /\ frame' = [frame EXCEPT ![p] = IF known THEN Done ELSE Running("map", t, r)]
        /\ Overlap({t, r})
        /\ Race(t, {"delete", "unmap"})
        /\ issued' = IF known THEN issued \cup ({t, r} \cap Keys) ELSE issued
        /\ revoked' = revoked \ {t, r}
        /\ UNCHANGED refresh

SaveAccess(p, t, r) ==
    /\ Idle(p)
    /\ access' = [access EXCEPT ![t] = r]
    /\ frame' = [frame EXCEPT ![p] = IF r = NoRefresh THEN Done
                                                      ELSE Running("map", t, r)]
    /\ Overlap({t, r})
    /\ Race(t, {"delete", "unmap"})
    /\ issued' = IF r = NoRefresh THEN issued \cup {t} ELSE issued
    /\ revoked' = revoked \ {t, r}
    /\ UNCHANGED refresh

StoreRefresh(p) ==
    /\ frame[p].at = "map"
    /\ refresh' = [refresh EXCEPT ![frame[p].refresh] = frame[p].token]
    /\ frame' = [frame EXCEPT ![p] = Done]
    /\ issued' = issued \cup {frame[p].token, frame[p].refresh}
    /\ UNCHANGED <<access, revoked, overlapped, raced>>

-----------------------------------------------------------------------------
(* RemoveAccess: load the data, delete it, delete the reference to it. *)

(* Slips the runs must catch: the data is looked up when it is deleted already; *)
(* an empty or missing refresh token is deleted like any other.                 *)
RemoveAccessLoadsLate(p, t) ==
    /\ Idle(p)
    /\ frame' = [frame EXCEPT ![p] = Running("delete", t, Absent)]
    /\ Overlap({t, access[t]})
    /\ Race(t, {"map"})
    /\ issued' = issued \ {t, access[t]}
    /\ UNCHANGED <<access, refresh, revoked>>

DeleteAccessUnguarded(p) ==
    /\ frame[p].at = "delete"
    /\ access' = [access EXCEPT ![frame[p].token] = Absent]
    /\ frame' = [frame EXCEPT ![p].at = "unmap"]
    /\ UNCHANGED <<refresh, issued, revoked, overlapped, raced>>

RemoveAccess(p, t) ==
    /\ Idle(p)
    /\ frame' = [frame EXCEPT ![p] = Running("delete", t, access[t])]
    /\ Overlap({t, access[t]})
    /\ Race(t, {"map"})
    /\ issued' = issued \ {t, access[t]}
    /\ UNCHANGED <<access, refresh, revoked>>

DeleteAccess(p) ==
    /\ frame[p].at = "delete"
    /\ LET f == frame[p]
       IN  /\ access' = [access EXCEPT ![f.token] = Absent]
           /\ IF f.refresh \in Refreshes
              THEN /\ frame' = [frame EXCEPT ![p].at = "unmap"]
                   /\ UNCHANGED revoked
              ELSE /\ frame' = [frame EXCEPT ![p] = Done]
                   /\ revoked' = revoked \cup {f.token}
    /\ UNCHANGED <<refresh, issued, overlapped, raced>>

DeleteRefresh(p) ==
    /\ frame[p].at = "unmap"
    /\ refresh' = [refresh EXCEPT ![frame[p].refresh] = Absent]
    /\ frame' = [frame EXCEPT ![p] = Done]
    /\ revoked' = revoked \cup {frame[p].token, frame[p].refresh}
    /\ UNCHANGED <<access, issued, overlapped, raced>>

RemoveRefresh(p, r) ==
    /\ Idle(p)
    /\ refresh' = [refresh EXCEPT ![r] = Absent]
    /\ frame' = [frame EXCEPT ![p] = Done]
    /\ Overlap({r})
    /\ issued' = issued \ {r}
    /\ revoked' = revoked \cup {r}
    /\ UNCHANGED <<access, raced>>

-----------------------------------------------------------------------------
(* LoadRefresh: load the access token, then the data stored under it. *)

LoadRefresh(p, r) ==
    /\ Idle(p)
    /\ frame' = [frame EXCEPT ![p] = IF refresh[r] = Absent
                                     THEN Ended(r, Absent)
                                     ELSE Running("load", refresh[r], r)]
    /\ UNCHANGED <<access, refresh, issued, revoked, overlapped, raced>>

LoadReferenced(p) ==
    /\ frame[p].at = "load"
    /\ frame' = [frame EXCEPT ![p] = Ended(@.refresh, access[@.token])]
    /\ UNCHANGED <<access, refresh, issued, revoked, overlapped, raced>>

LoadAccess(p, t) ==
    /\ Idle(p)
    /\ frame' = [frame EXCEPT ![p] = Ended(Absent, access[t])]
    /\ UNCHANGED <<access, refresh, issued, revoked, overlapped, raced>>

-----------------------------------------------------------------------------
Next ==
    \E p \in Procs :
        \/ \E g \in Grants : SaveAccess(p, g[1], g[2])
        \/ StoreRefresh(p)
        \/ \E t \in Tokens : RemoveAccess(p, t)
        \/ DeleteAccess(p)
        \/ DeleteRefresh(p)
        \/ \E r \in Refreshes : RemoveRefresh(p, r)
        \/ \E r \in Refreshes : LoadRefresh(p, r)
        \/ LoadReferenced(p)
        \/ \E t \in Tokens : LoadAccess(p, t)

Spec == Init /\ [][Next]_vars

-----------------------------------------------------------------------------
(* Properties, for servers that issue tokens in pairs *)

(* What callers were told stays true although the two entries of a grant are   *)
(* written and removed one at a time: a grant whose SaveAccess returned is in   *)
(* both places until a removal starts, and one whose removal returned is in     *)
(* neither until it is saved again (storage_mem.go:281-329), as long as no two  *)
(* calls that write the same token overlap.                                     *)
RepliesHold ==
    /\ \A g \in Grants :
          /\ g[1] \in issued \ overlapped => access[g[1]] = g[2]
          /\ g[2] \in issued \ overlapped => refresh[g[2]] = g[1]
    /\ \A t \in revoked \ overlapped :
          IF t \in Tokens THEN access[t] = Absent ELSE refresh[t] = Absent

(* What a SaveAccess and a RemoveAccess of one token can leave when they overlap *)
(* is a reference to nothing, as neither holds the two tables together           *)
(* (storage_mem.go:281-287, 301-308).  Nothing else leaves one: whatever else     *)
(* overlaps, repeated saves, repeated removals and RemoveRefresh included, a     *)
(* reference leads to data with that refresh token, or a RemoveAccess is about   *)
(* to delete it.                                                                 *)
ReferencesAreLive ==
    \A r \in Refreshes : refresh[r] \in Tokens \ raced =>
        \/ access[refresh[r]] = r
        \/ \E p \in Procs : frame[p].at = "unmap" /\ frame[p].refresh = r

(* LoadRefresh answers the data that was saved with the refresh token it is     *)
(* asked for, whatever is saved and removed between its two look-ups            *)
(* (storage_mem.go:314-324; the suite compares them at oauth_storage.go:331).   *)
RefreshFindsItsGrant ==
    \A p \in Procs : Idle(p) /\ frame[p].refresh \in Refreshes =>
        frame[p].data \in {frame[p].refresh, Absent}

(* Why these hold.  Only saved pairs are ever in the storage or in a call, so   *)
(* that Paired says which token goes with which; and on a token that is not     *)
(* overlapped, a running call is the only one to write it and still finds what  *)
(* it wrote or read (storage_mem.go:281-329).                                   *)

OnlyGrants ==
    /\ \A t \in Tokens : access[t] # Absent => <<t, access[t]>> \in Grants
    /\ \A r \in Refreshes : refresh[r] # Absent => <<refresh[r], r>> \in Grants
    /\ \A p \in Procs :
          /\ frame[p].at \in {"map", "unmap", "load"} => <<frame[p].token, frame[p].refresh>> \in Grants
          /\ frame[p].at = "delete" =>
                frame[p].refresh = Absent \/ <<frame[p].token, frame[p].refresh>> \in Grants

OneWriter ==
    \A p, q \in Procs : p # q /\ Writing(p) /\ Writing(q) =>
        KeysOf(p) \cap KeysOf(q) \subseteq overlapped

WriterIsCurrent(p) ==
    LET f == frame[p]
    IN  /\ f.token \notin overlapped =>
              access[f.token] = IF f.at = "unmap" THEN Absent ELSE f.refresh
        /\ f.at = "map" => KeysOf(p) \cap revoked \subseteq overlapped
        /\ f.at # "map" => KeysOf(p) \cap issued \subseteq overlapped

(* Why ReferencesAreLive holds: on a token that has not raced, a SaveAccess and a *)
(* RemoveAccess never run together, so that the save still finds the data it     *)
(* stored, and the removal what it loaded, or nothing (storage_mem.go:281-308).   *)
CalmData(p) ==
    LET t == frame[p].token
    IN  t \notin raced =>
          /\ frame[p].at = "map" =>
                /\ access[t] = frame[p].refresh
                /\ \A q \in Procs : frame[q].at \in {"delete", "unmap"} => frame[q].token # t
          /\ frame[p].at = "delete" => access[t] \in {frame[p].refresh, Absent}

InductiveInvariant ==
    /\ TypeOK
    /\ OnlyGrants
    /\ OneWriter
    /\ \A p \in Procs : Writing(p) => WriterIsCurrent(p)
    /\ \A p \in Procs : CalmData(p)
    /\ RepliesHold
    /\ ReferencesAreLive
    /\ RefreshFindsItsGrant
=============================================================================
