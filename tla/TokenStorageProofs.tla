-------------------------- MODULE TokenStorageProofs --------------------------
(***************************************************************************)
(* Proofs about TokenStorage, for any number of goroutines, tokens and     *)
(* grants, where each access token is issued with one refresh token.       *)
(***************************************************************************)
EXTENDS TokenStorage, TLAPS

LEMMA InitInductive == Init => InductiveInvariant
  BY ValuesAssumption
     DEF Init, InductiveInvariant, TypeOK, AccessTypeOK, RefreshTypeOK, FrameTypeOK,
         HistoryTypeOK, Frames, Done, Ended, OnlyGrants, OneWriter, Writing, RepliesHold,
         ReferencesAreLive, RefreshFindsItsGrant, CalmData, Idle, Keys

-----------------------------------------------------------------------------
(* A step of one goroutine leaves the frames of the others alone. *)
LEMMA OthersKeepTheirFrame ==
  ASSUME TypeOK, NEW p \in Procs, NEW f, frame' = [frame EXCEPT ![p] = f]
  PROVE  frame'[p] = f /\ \A q \in Procs \ {p} : frame'[q] = frame[q]
  BY DEF TypeOK, FrameTypeOK

(* The tokens of a running call. *)
LEMMA RunningFrame ==
  ASSUME TypeOK, NEW p \in Procs, ~Idle(p)
  PROVE  /\ frame[p].token \in Tokens
         /\ frame[p].at # "delete" => frame[p].refresh \in Refreshes
         /\ frame[p].refresh \in Refreshes \cup {NoRefresh, Absent}
         /\ frame[p].at \in {"map", "delete", "unmap", "load"}
         /\ frame[p].token \in KeysOf(p)
         /\ frame[p].refresh \in Refreshes => frame[p].refresh \in KeysOf(p)
         /\ KeysOf(p) \subseteq {frame[p].token, frame[p].refresh}
         /\ KeysOf(p) \subseteq Keys
  BY DEF TypeOK, FrameTypeOK, Frames, Idle, KeysOf, Keys

(* A call that finds another one writing one of its keys is recorded. *)
LEMMA OverlapIsRecorded ==
  ASSUME NEW q \in Procs, Writing(q), NEW K, Overlap(K)
  PROVE  KeysOf(q) \cap K \subseteq overlapped'
  BY DEF Overlap, Busy

LEMMA OverlappedGrows ==
  ASSUME [Next]_vars
  PROVE  overlapped \subseteq overlapped'
  BY DEF Next, vars, SaveAccess, StoreRefresh, RemoveAccess, DeleteAccess, DeleteRefresh,
         RemoveRefresh, LoadRefresh, LoadReferenced, LoadAccess, Overlap

LEMMA RacedGrows ==
  ASSUME [Next]_vars
  PROVE  raced \subseteq raced'
  BY DEF Next, vars, SaveAccess, StoreRefresh, RemoveAccess, DeleteAccess, DeleteRefresh,
         RemoveRefresh, LoadRefresh, LoadReferenced, LoadAccess, Race

-----------------------------------------------------------------------------
LEMMA TypesPreserved ==
  ASSUME TypeOK, [Next]_vars
  PROVE  TypeOK'
  <1>t. TypeOK
    OBVIOUS
  <1> USE GrantsAssumption, ValuesAssumption
      DEF TypeOK, AccessTypeOK, RefreshTypeOK, HistoryTypeOK
  <1>set. ASSUME NEW p \in Procs, NEW f \in Frames, frame' = [frame EXCEPT ![p] = f],
                 f.at # "idle" => f.token \in Tokens,
                 f.at \in {"map", "unmap", "load"} => f.refresh \in Refreshes
          PROVE  FrameTypeOK'
    BY <1>set, <1>t DEF FrameTypeOK
  <1>done. Done \in Frames /\ Done.at = "idle"
    BY DEF Done, Ended, Frames
  <1>1. ASSUME NEW p \in Procs, NEW g \in Grants, SaveAccess(p, g[1], g[2]) PROVE TypeOK'
    <2>1. g[1] \in Tokens /\ g[2] \in Refreshes \cup {NoRefresh}
      OBVIOUS
    <2>2. Running("map", g[1], g[2]) \in Frames
      BY <2>1 DEF Running, Frames
    <2>3. FrameTypeOK'
      BY <1>1, <1>set, <1>done, <2>1, <2>2 DEF SaveAccess, Running
    <2> QED BY <1>1, <1>t, <2>1, <2>3 DEF SaveAccess, Overlap, Race, Busy, KeysOf, Keys
  <1>2. ASSUME NEW p \in Procs, StoreRefresh(p) \/ DeleteRefresh(p) PROVE TypeOK'
    <2>1. FrameTypeOK'
      BY <1>2, <1>set, <1>done DEF StoreRefresh, DeleteRefresh
    <2>2. frame[p].token \in Tokens /\ frame[p].refresh \in Refreshes
      BY <1>2, <1>t, RunningFrame DEF StoreRefresh, DeleteRefresh, Idle
    <2> QED BY <1>2, <1>t, <2>1, <2>2 DEF StoreRefresh, DeleteRefresh, Keys
  <1>3. ASSUME NEW p \in Procs, NEW t \in Tokens, RemoveAccess(p, t) PROVE TypeOK'
    <2>1. Running("delete", t, access[t]) \in Frames
      BY <1>t DEF Running, Frames
    <2>2. FrameTypeOK'
      BY <1>3, <1>set, <2>1 DEF RemoveAccess, Running
    <2> QED BY <1>3, <1>t, <2>2 DEF RemoveAccess, Overlap, Race, Busy, KeysOf, Keys
  <1>4. ASSUME NEW p \in Procs, DeleteAccess(p) PROVE TypeOK'
    <2>1. frame[p].token \in Tokens /\ frame[p] \in Frames
      BY <1>4, <1>t, RunningFrame DEF DeleteAccess, Idle, FrameTypeOK
    <2>2. FrameTypeOK'
      <3>1. CASE frame[p].refresh \in Refreshes
        BY <1>4, <2>1, <3>1, <1>t DEF DeleteAccess, FrameTypeOK, Frames
      <3>2. CASE frame[p].refresh \notin Refreshes
        BY <1>4, <3>2, <1>set, <1>done DEF DeleteAccess
      <3> QED BY <3>1, <3>2
    <2> QED BY <1>4, <1>t, <2>1, <2>2 DEF DeleteAccess, Keys
  <1>5. ASSUME NEW p \in Procs, NEW r \in Refreshes, RemoveRefresh(p, r) PROVE TypeOK'
    <2>1. FrameTypeOK'
      BY <1>5, <1>set, <1>done DEF RemoveRefresh
    <2> QED BY <1>5, <1>t, <2>1 DEF RemoveRefresh, Overlap, Busy, KeysOf, Keys
  <1>6. ASSUME NEW p \in Procs, NEW r \in Refreshes, LoadRefresh(p, r) PROVE TypeOK'
    <2>1. Ended(r, Absent) \in Frames /\ Ended(r, Absent).at = "idle"
      BY DEF Ended, Frames
    <2>2. refresh[r] # Absent => Running("load", refresh[r], r) \in Frames
      BY <1>t DEF Running, Frames
    <2>3. FrameTypeOK'
      BY <1>6, <1>t, <1>set, <2>1, <2>2 DEF LoadRefresh, Running
    <2> QED BY <1>6, <1>t, <2>3 DEF LoadRefresh
  <1>ended. ASSUME NEW r \in Refreshes \cup {NoRefresh, Absent}, NEW t \in Tokens
            PROVE  Ended(r, access[t]) \in Frames /\ Ended(r, access[t]).at = "idle"
    BY <1>t DEF Ended, Frames
  <1>7. ASSUME NEW p \in Procs, NEW t \in Tokens, LoadAccess(p, t) PROVE TypeOK'
    <2>1. FrameTypeOK'
      BY <1>7, <1>set, <1>ended DEF LoadAccess
    <2> QED BY <1>7, <1>t, <2>1 DEF LoadAccess
  <1>8. CASE UNCHANGED vars
    BY <1>8, <1>t DEF vars, FrameTypeOK
  <1>9. ASSUME NEW p \in Procs, LoadReferenced(p) PROVE TypeOK'
    <2>1. frame[p].token \in Tokens /\ frame[p].refresh \in Refreshes
      BY <1>9, <1>t, RunningFrame DEF LoadReferenced, Idle
    <2>2. FrameTypeOK'
      BY <1>9, <1>set, <1>ended, <2>1 DEF LoadReferenced
    <2> QED BY <1>9, <1>t, <2>2 DEF LoadReferenced
  <1> QED
    BY <1>1, <1>2, <1>3, <1>4, <1>5, <1>6, <1>7, <1>8, <1>9 DEF Next

-----------------------------------------------------------------------------
(* The storage and the calls hold saved pairs only. *)
LEMMA OnlyGrantsPreserved ==
  ASSUME InductiveInvariant, [Next]_vars
  PROVE  OnlyGrants'
  <1>t. TypeOK /\ OnlyGrants
    BY DEF InductiveInvariant
  <1> DEFINE StoreOK == /\ \A t \in Tokens : access[t] # Absent => <<t, access[t]>> \in Grants
                        /\ \A r \in Refreshes : refresh[r] # Absent => <<refresh[r], r>> \in Grants
             CallOK(p) == /\ frame[p].at \in {"map", "unmap", "load"} =>
                               <<frame[p].token, frame[p].refresh>> \in Grants
                          /\ frame[p].at = "delete" =>
                               \/ frame[p].refresh = Absent
                               \/ <<frame[p].token, frame[p].refresh>> \in Grants
  <1>split. /\ OnlyGrants <=> StoreOK /\ \A p \in Procs : CallOK(p)
            /\ OnlyGrants' <=> StoreOK' /\ \A p \in Procs : CallOK(p)'
    BY DEF OnlyGrants
  <1>set. ASSUME NEW p \in Procs, NEW f, frame' = [frame EXCEPT ![p] = f], CallOK(p)'
          PROVE  \A q \in Procs : CallOK(q)'
    <2>1. \A q \in Procs \ {p} : frame'[q] = frame[q]
      BY <1>set, <1>t, OthersKeepTheirFrame
    <2> QED BY <2>1, <1>set, <1>t, <1>split
  <1>idle. ASSUME NEW p \in Procs, NEW f, frame' = [frame EXCEPT ![p] = f], f.at = "idle"
           PROVE  \A q \in Procs : CallOK(q)'
    <2>1. frame'[p] = f
      BY <1>idle, <1>t, OthersKeepTheirFrame
    <2> QED BY <2>1, <1>idle, <1>set
  <1>done. Done.at = "idle" /\ \A r, d : Ended(r, d).at = "idle"
    BY DEF Done, Ended
  <1>1. ASSUME NEW p \in Procs, NEW g \in Grants, SaveAccess(p, g[1], g[2]) PROVE OnlyGrants'
    <2>1. g[1] \in Tokens /\ g = <<g[1], g[2]>>
      BY GrantsAssumption
    <2>2. StoreOK'
      BY <1>1, <2>1, <1>t, <1>split DEF SaveAccess, TypeOK, AccessTypeOK
    <2>3. CASE g[2] = NoRefresh
      BY <1>1, <2>2, <2>3, <1>idle, <1>done, <1>split DEF SaveAccess
    <2>4. CASE g[2] # NoRefresh
      <3>1. frame' = [frame EXCEPT ![p] = Running("map", g[1], g[2])]
        BY <1>1, <2>4 DEF SaveAccess
      <3>2. frame'[p] = Running("map", g[1], g[2])
        BY <3>1, <1>t, OthersKeepTheirFrame
      <3>3. CallOK(p)'
        BY <3>2, <2>1 DEF Running
      <3> QED BY <2>2, <3>1, <3>3, <1>set, <1>split
    <2> QED BY <2>3, <2>4
  <1>2. ASSUME NEW p \in Procs, StoreRefresh(p) PROVE OnlyGrants'
    <2>1. <<frame[p].token, frame[p].refresh>> \in Grants
      BY <1>2, <1>t DEF StoreRefresh, OnlyGrants
    <2>2. StoreOK'
      BY <1>2, <2>1, <1>t, <1>split DEF StoreRefresh, TypeOK, RefreshTypeOK
    <2> QED BY <1>2, <2>2, <1>idle, <1>done, <1>split DEF StoreRefresh
  <1>3. ASSUME NEW p \in Procs, NEW t \in Tokens, RemoveAccess(p, t) PROVE OnlyGrants'
    <2>1. frame' = [frame EXCEPT ![p] = Running("delete", t, access[t])]
      BY <1>3 DEF RemoveAccess
    <2>2. frame'[p] = Running("delete", t, access[t])
      BY <2>1, <1>t, OthersKeepTheirFrame
    <2>3. CallOK(p)'
      BY <2>2, <1>t DEF Running, OnlyGrants
    <2> QED BY <1>3, <2>1, <2>3, <1>set, <1>split, <1>t DEF RemoveAccess
  <1>4. ASSUME NEW p \in Procs, DeleteAccess(p) PROVE OnlyGrants'
    <2>1. StoreOK'
      BY <1>4, <1>t, <1>split, ValuesAssumption DEF DeleteAccess, TypeOK, AccessTypeOK
    <2>2. CASE frame[p].refresh \in Refreshes
      <3>1. frame[p] \in Frames
        BY <1>t DEF TypeOK, FrameTypeOK
      <3>2. frame' = [frame EXCEPT ![p] = [frame[p] EXCEPT !.at = "unmap"]]
        BY <1>4, <2>2 DEF DeleteAccess
      <3>3. frame'[p] = [frame[p] EXCEPT !.at = "unmap"]
        BY <3>2, <1>t, OthersKeepTheirFrame
      <3>4. frame'[p].token = frame[p].token /\ frame'[p].refresh = frame[p].refresh
            /\ frame'[p].at = "unmap"
        BY <3>1, <3>3 DEF Frames
      <3>5. <<frame[p].token, frame[p].refresh>> \in Grants
        BY <1>4, <2>2, <1>t, ValuesAssumption DEF DeleteAccess, OnlyGrants
      <3>6. CallOK(p)'
        BY <3>4, <3>5
      <3> QED BY <2>1, <3>2, <3>6, <1>set, <1>split
    <2>3. CASE frame[p].refresh \notin Refreshes
      BY <1>4, <2>1, <2>3, <1>idle, <1>done, <1>split DEF DeleteAccess
    <2> QED BY <2>2, <2>3
  <1>5. ASSUME NEW p \in Procs, NEW r \in Refreshes,
               \/ DeleteRefresh(p) /\ r = frame[p].refresh
               \/ RemoveRefresh(p, r)
        PROVE  OnlyGrants'
    <2>1. refresh' = [refresh EXCEPT ![r] = Absent] /\ access' = access
          /\ frame' = [frame EXCEPT ![p] = Done]
      BY <1>5 DEF DeleteRefresh, RemoveRefresh
    <2>2. StoreOK'
      BY <2>1, <1>t, <1>split DEF TypeOK, RefreshTypeOK
    <2> QED BY <2>1, <2>2, <1>idle, <1>done, <1>split
  <1>6. ASSUME NEW p \in Procs, DeleteRefresh(p) PROVE OnlyGrants'
    BY <1>5, <1>6, <1>t, RunningFrame DEF DeleteRefresh, Idle
  <1>7. ASSUME NEW p \in Procs, NEW r \in Refreshes, LoadRefresh(p, r) PROVE OnlyGrants'
    <2>1. CASE refresh[r] = Absent
      BY <1>7, <2>1, <1>idle, <1>done, <1>split, <1>t DEF LoadRefresh
    <2>2. CASE refresh[r] # Absent
      <3>1. frame' = [frame EXCEPT ![p] = Running("load", refresh[r], r)]
        BY <1>7, <2>2 DEF LoadRefresh
      <3>2. frame'[p] = Running("load", refresh[r], r)
        BY <3>1, <1>t, OthersKeepTheirFrame
      <3>3. CallOK(p)'
        BY <3>2, <2>2, <1>t DEF Running, OnlyGrants
      <3> QED BY <1>7, <3>1, <3>3, <1>set, <1>split, <1>t DEF LoadRefresh
    <2> QED BY <2>1, <2>2
  <1>8. ASSUME NEW p \in Procs, LoadReferenced(p) \/ \E t \in Tokens : LoadAccess(p, t)
        PROVE  OnlyGrants'
    <2>1. \E f : frame' = [frame EXCEPT ![p] = f] /\ f.at = "idle"
      BY <1>8, <1>done DEF LoadReferenced, LoadAccess
    <2>2. access' = access /\ refresh' = refresh
      BY <1>8 DEF LoadReferenced, LoadAccess
    <2> QED BY <2>1, <2>2, <1>idle, <1>split, <1>t
  <1>9. CASE UNCHANGED vars
    BY <1>9, <1>t DEF vars, OnlyGrants
  <1> QED
    BY <1>1, <1>2, <1>3, <1>4, <1>5, <1>6, <1>7, <1>8, <1>9 DEF Next

-----------------------------------------------------------------------------
(* How a step of p changes what is being written: p stops writing, or goes on *)
(* with the same keys, or starts and records whose keys it shares.            *)
LEMMA WritersAfterStep ==
  ASSUME TypeOK, Next
  PROVE  \E p \in Procs :
            /\ \A q \in Procs \ {p} : frame'[q] = frame[q]
            /\ \/ ~Writing(p)'
               \/ Writing(p) /\ KeysOf(p)' = KeysOf(p)
               \/ \E K : Overlap(K) /\ KeysOf(p)' \subseteq K
  <1> DEFINE Goal(p) == /\ \A q \in Procs \ {p} : frame'[q] = frame[q]
                        /\ \/ ~Writing(p)'
                           \/ Writing(p) /\ KeysOf(p)' = KeysOf(p)
                           \/ \E K : Overlap(K) /\ KeysOf(p)' \subseteq K
  <1>quiet. ASSUME NEW p \in Procs, NEW f, frame' = [frame EXCEPT ![p] = f],
                   f.at \in {"idle", "load"}
            PROVE  Goal(p)
    BY <1>quiet, OthersKeepTheirFrame DEF Writing
  <1>done. Done.at = "idle" /\ \A r, d : Ended(r, d).at = "idle"
    BY DEF Done, Ended
  <1>start. ASSUME NEW p \in Procs, NEW step, NEW t, NEW r, Overlap({t, r}),
                   frame' = [frame EXCEPT ![p] = Running(step, t, r)]
            PROVE  Goal(p)
    <2>1. frame'[p] = Running(step, t, r) /\ \A q \in Procs \ {p} : frame'[q] = frame[q]
      BY <1>start, OthersKeepTheirFrame
    <2>2. KeysOf(p)' \subseteq {t, r}
      BY <2>1 DEF KeysOf, Running
    <2> QED BY <2>1, <2>2, <1>start
  <1>1. ASSUME NEW p \in Procs, NEW g \in Grants, SaveAccess(p, g[1], g[2]) PROVE Goal(p)
    BY <1>1, <1>quiet, <1>start, <1>done DEF SaveAccess
  <1>2. ASSUME NEW p \in Procs, NEW t \in Tokens, RemoveAccess(p, t) PROVE Goal(p)
    BY <1>2, <1>start DEF RemoveAccess
  <1>3. ASSUME NEW p \in Procs, DeleteAccess(p) PROVE Goal(p)
    <2>1. CASE frame[p].refresh \in Refreshes
      <3>1. frame[p] \in Frames
        BY DEF TypeOK, FrameTypeOK
      <3>2. frame' = [frame EXCEPT ![p] = [frame[p] EXCEPT !.at = "unmap"]]
        BY <1>3, <2>1 DEF DeleteAccess
      <3>3. /\ frame'[p] = [frame[p] EXCEPT !.at = "unmap"]
            /\ \A q \in Procs \ {p} : frame'[q] = frame[q]
        BY <3>2, OthersKeepTheirFrame
      <3>4. KeysOf(p)' = KeysOf(p)
        BY <3>1, <3>3 DEF KeysOf, Frames
      <3> QED BY <1>3, <3>3, <3>4 DEF DeleteAccess, Writing
    <2>2. CASE frame[p].refresh \notin Refreshes
      BY <1>3, <2>2, <1>quiet, <1>done DEF DeleteAccess
    <2> QED BY <2>1, <2>2
  <1>4. ASSUME NEW p \in Procs,
               \/ StoreRefresh(p) \/ DeleteRefresh(p) \/ LoadReferenced(p)
               \/ \E r \in Refreshes : RemoveRefresh(p, r)
               \/ \E t \in Tokens : LoadAccess(p, t)
        PROVE  Goal(p)
    <2>1. CASE frame' = [frame EXCEPT ![p] = Done]
      BY <2>1, <1>quiet, <1>done
    <2>2. CASE LoadReferenced(p)
      BY <2>2, <1>quiet, <1>done DEF LoadReferenced
    <2>3. ASSUME NEW t \in Tokens, LoadAccess(p, t) PROVE Goal(p)
      BY <2>3, <1>quiet, <1>done DEF LoadAccess
    <2> QED BY <1>4, <2>1, <2>2, <2>3 DEF StoreRefresh, DeleteRefresh, RemoveRefresh
  <1>5. ASSUME NEW p \in Procs, NEW r \in Refreshes, LoadRefresh(p, r) PROVE Goal(p)
    BY <1>5, <1>quiet, <1>done DEF LoadRefresh, Running
  <1> QED BY <1>1, <1>2, <1>3, <1>4, <1>5 DEF Next

LEMMA OneWriterPreserved ==
  ASSUME InductiveInvariant, [Next]_vars
  PROVE  OneWriter'
  <1>t. TypeOK /\ OneWriter /\ overlapped \subseteq overlapped'
    BY OverlappedGrows DEF InductiveInvariant
  <1>1. CASE UNCHANGED vars
    BY <1>1, <1>t DEF vars, OneWriter, Writing, KeysOf
  <1>2. CASE Next
    <2>1. PICK p \in Procs :
            /\ \A q \in Procs \ {p} : frame'[q] = frame[q]
            /\ \/ ~Writing(p)'
               \/ Writing(p) /\ KeysOf(p)' = KeysOf(p)
               \/ \E K : Overlap(K) /\ KeysOf(p)' \subseteq K
      BY <1>2, <1>t, WritersAfterStep
    <2>2. \A q \in Procs \ {p} : /\ Writing(q)' <=> Writing(q)
                                  /\ KeysOf(q)' = KeysOf(q)
      BY <2>1 DEF Writing, KeysOf
    <2>3. ASSUME NEW q \in Procs \ {p}, Writing(p)', Writing(q)'
          PROVE  KeysOf(p)' \cap KeysOf(q)' \subseteq overlapped'
      <3>1. Writing(q) /\ KeysOf(q)' = KeysOf(q)
        BY <2>2, <2>3
      <3>2. CASE Writing(p) /\ KeysOf(p)' = KeysOf(p)
        BY <3>1, <3>2, <1>t DEF OneWriter
      <3>3. CASE \E K : Overlap(K) /\ KeysOf(p)' \subseteq K
        BY <3>1, <3>3, OverlapIsRecorded
      <3> QED BY <2>1, <2>3, <3>2, <3>3
    <2>4. ASSUME NEW q \in Procs \ {p}, NEW r \in Procs \ {p}, q # r,
                 Writing(q)', Writing(r)'
          PROVE  KeysOf(q)' \cap KeysOf(r)' \subseteq overlapped'
      BY <2>2, <2>4, <1>t DEF OneWriter
    <2> QED BY <2>3, <2>4 DEF OneWriter
  <1> QED BY <1>1, <1>2

-----------------------------------------------------------------------------
(* A running call that the step of another one leaves alone is still current. *)
LEMMA UndisturbedWriterStaysCurrent ==
  ASSUME NEW q \in Procs, WriterIsCurrent(q), frame'[q] = frame[q],
         overlapped \subseteq overlapped',
         frame[q].token \notin overlapped' => access'[frame[q].token] = access[frame[q].token],
         KeysOf(q) \cap revoked' \subseteq revoked \cup overlapped',
         KeysOf(q) \cap issued' \subseteq issued \cup overlapped'
  PROVE  WriterIsCurrent(q)'
  BY DEF WriterIsCurrent, KeysOf

LEMMA WritersStayCurrent ==
  ASSUME InductiveInvariant, [Next]_vars
  PROVE  (\A p \in Procs : Writing(p) => WriterIsCurrent(p))'
  <1>t. TypeOK /\ OneWriter /\ overlapped \subseteq overlapped'
    BY OverlappedGrows DEF InductiveInvariant
  <1> SUFFICES ASSUME NEW q \in Procs, Writing(q)' PROVE WriterIsCurrent(q)'
    OBVIOUS
  <1>cur. ASSUME Writing(q)
          PROVE  /\ WriterIsCurrent(q)
                 /\ frame[q].token \in Tokens \cap KeysOf(q)
    BY <1>cur, <1>t, RunningFrame DEF InductiveInvariant, Writing, Idle
  (* The step of another goroutine: it writes a key of q only if it overlaps. *)
  <1>other. ASSUME NEW p \in Procs \ {q}, NEW f, frame' = [frame EXCEPT ![p] = f],
                   NEW K, Writing(q) => KeysOf(q) \cap K \subseteq overlapped',
                   \A t \in Tokens \ K : access'[t] = access[t],
                   revoked' \subseteq revoked \cup K, issued' \subseteq issued \cup K
            PROVE  WriterIsCurrent(q)'
    <2>1. frame'[q] = frame[q] /\ Writing(q)
      BY <1>other, <1>t, OthersKeepTheirFrame DEF Writing
    <2> QED BY <2>1, <1>other, <1>cur, <1>t, UndisturbedWriterStaysCurrent
  (* A call that does not write in the end is not the one of q. *)
  <1>neq. ASSUME NEW p \in Procs, NEW f, frame' = [frame EXCEPT ![p] = f],
                 f.at \in {"idle", "load"}
          PROVE  q # p
    BY <1>neq, <1>t, OthersKeepTheirFrame DEF Writing
  <1>done. Done.at = "idle" /\ \A r, d : Ended(r, d).at = "idle"
    BY DEF Done, Ended
  (* Two writers share recorded keys only. *)
  <1>one. ASSUME NEW p \in Procs \ {q}, Writing(p), Writing(q)
          PROVE  KeysOf(q) \cap KeysOf(p) \subseteq overlapped'
    BY <1>one, <1>t DEF OneWriter
  <1>1. ASSUME NEW p \in Procs, NEW g \in Grants, SaveAccess(p, g[1], g[2])
        PROVE  WriterIsCurrent(q)'
    <2>1. g[1] \in Tokens /\ access' = [access EXCEPT ![g[1]] = g[2]]
      BY <1>1, GrantsAssumption DEF SaveAccess
    <2>2. CASE q = p
      <3>1. g[2] # NoRefresh
        <4>1. g[2] = NoRefresh => frame' = [frame EXCEPT ![p] = Done]
          BY <1>1 DEF SaveAccess
        <4> QED BY <2>2, <4>1, <1>neq, <1>done
      <3>2. frame'[p] = Running("map", g[1], g[2])
        BY <1>1, <3>1, <1>t, OthersKeepTheirFrame DEF SaveAccess
      <3>3. access'[g[1]] = g[2]
        BY <2>1, <1>t DEF TypeOK, AccessTypeOK
      <3>4. KeysOf(p)' \subseteq {g[1], g[2]} /\ revoked' = revoked \ {g[1], g[2]}
        BY <1>1, <3>2 DEF KeysOf, Running, SaveAccess
      <3> QED BY <2>2, <3>2, <3>3, <3>4 DEF WriterIsCurrent, Running
    <2>3. CASE q # p
      <3>1. Writing(q) => KeysOf(q) \cap {g[1], g[2]} \subseteq overlapped'
        BY <1>1, OverlapIsRecorded DEF SaveAccess
      <3>2. \A t \in Tokens \ {g[1], g[2]} : access'[t] = access[t]
        BY <2>1, <1>t DEF TypeOK, AccessTypeOK
      <3>3. /\ revoked' \subseteq revoked \cup {g[1], g[2]}
            /\ issued' \subseteq issued \cup {g[1], g[2]}
        BY <1>1 DEF SaveAccess
      <3> QED BY <1>1, <2>3, <3>1, <3>2, <3>3, <1>other DEF SaveAccess
    <2> QED BY <2>2, <2>3
  <1>2. ASSUME NEW p \in Procs, StoreRefresh(p) \/ DeleteRefresh(p)
        PROVE  WriterIsCurrent(q)'
    <2>1. q # p
      BY <1>2, <1>neq, <1>done DEF StoreRefresh, DeleteRefresh
    <2>2. Writing(p) /\ {frame[p].token, frame[p].refresh} \subseteq KeysOf(p)
      BY <1>2, <1>t, RunningFrame DEF StoreRefresh, DeleteRefresh, Writing, Idle
    <2>3. Writing(q) => KeysOf(q) \cap KeysOf(p) \subseteq overlapped'
      BY <2>1, <2>2, <1>one
    <2>4. /\ frame' = [frame EXCEPT ![p] = Done] /\ access' = access
          /\ revoked' \subseteq revoked \cup KeysOf(p)
          /\ issued' \subseteq issued \cup KeysOf(p)
      BY <1>2, <2>2 DEF StoreRefresh, DeleteRefresh
    <2> QED BY <2>1, <2>3, <2>4, <1>other
  <1>3. ASSUME NEW p \in Procs, NEW t \in Tokens, RemoveAccess(p, t)
        PROVE  WriterIsCurrent(q)'
    <2>1. CASE q = p
      <3>1. frame'[p] = Running("delete", t, access[t])
        BY <1>3, <1>t, OthersKeepTheirFrame DEF RemoveAccess
      <3>2. KeysOf(p)' \subseteq {t, access[t]} /\ issued' = issued \ {t, access[t]}
        BY <1>3, <3>1 DEF KeysOf, Running, RemoveAccess
      <3>3. access' = access
        BY <1>3 DEF RemoveAccess
      <3> QED BY <2>1, <3>1, <3>2, <3>3 DEF WriterIsCurrent, Running
    <2>2. CASE q # p
      BY <1>3, <2>2, <1>other DEF RemoveAccess
    <2> QED BY <2>1, <2>2
  <1>4. ASSUME NEW p \in Procs, DeleteAccess(p) PROVE WriterIsCurrent(q)'
    <2>1. /\ Writing(p) /\ frame[p].token \in Tokens /\ frame[p].token \in KeysOf(p)
          /\ frame[p] \in Frames
      BY <1>4, <1>t, RunningFrame DEF DeleteAccess, Writing, Idle, TypeOK, FrameTypeOK
    <2>2. access' = [access EXCEPT ![frame[p].token] = Absent] /\ issued' = issued
          /\ revoked' \subseteq revoked \cup {frame[p].token}
      BY <1>4 DEF DeleteAccess
    <2>3. CASE q = p
      <3>1. frame' = [frame EXCEPT ![p] = [frame[p] EXCEPT !.at = "unmap"]]
        BY <1>4, <2>3, <1>t, OthersKeepTheirFrame DEF DeleteAccess, Writing, Done, Ended
      <3>2. frame'[p] = [frame[p] EXCEPT !.at = "unmap"]
        BY <3>1, <1>t, OthersKeepTheirFrame
      <3>3. frame'[p].at = "unmap" /\ frame'[p].token = frame[p].token
            /\ KeysOf(p)' = KeysOf(p)
        BY <2>1, <3>2 DEF Frames, KeysOf
      <3>4. access'[frame[p].token] = Absent
        BY <2>1, <2>2, <1>t DEF TypeOK, AccessTypeOK
      <3>5. KeysOf(p) \cap issued \subseteq overlapped
        BY <1>4, <2>1, <2>3, <1>cur DEF WriterIsCurrent, DeleteAccess
      <3> QED BY <2>2, <2>3, <3>3, <3>4, <3>5, <1>t DEF WriterIsCurrent
    <2>4. CASE q # p
      <3>1. Writing(q) => KeysOf(q) \cap {frame[p].token} \subseteq overlapped'
        BY <2>1, <2>4, <1>one
      <3>2. \A t \in Tokens \ {frame[p].token} : access'[t] = access[t]
        BY <2>2, <1>t DEF TypeOK, AccessTypeOK
      <3>3. CASE frame[p].refresh \in Refreshes
        <4>1. frame' = [frame EXCEPT ![p] = [frame[p] EXCEPT !.at = "unmap"]]
          BY <1>4, <3>3 DEF DeleteAccess
        <4> QED BY <2>2, <2>4, <3>1, <3>2, <4>1, <1>other
      <3>4. CASE frame[p].refresh \notin Refreshes
        <4>1. frame' = [frame EXCEPT ![p] = Done]
          BY <1>4, <3>4 DEF DeleteAccess
        <4> QED BY <2>2, <2>4, <3>1, <3>2, <4>1, <1>other
      <3> QED BY <3>3, <3>4
    <2> QED BY <2>3, <2>4
  <1>5. ASSUME NEW p \in Procs, NEW r \in Refreshes, RemoveRefresh(p, r)
        PROVE  WriterIsCurrent(q)'
    <2>1. q # p
      BY <1>5, <1>neq, <1>done DEF RemoveRefresh
    <2>2. Writing(q) => KeysOf(q) \cap {r} \subseteq overlapped'
      BY <1>5, OverlapIsRecorded DEF RemoveRefresh
    <2>3. /\ frame' = [frame EXCEPT ![p] = Done] /\ access' = access
          /\ revoked' \subseteq revoked \cup {r} /\ issued' \subseteq issued \cup {r}
      BY <1>5 DEF RemoveRefresh
    <2> QED BY <2>1, <2>2, <2>3, <1>other
  <1>6. ASSUME NEW p \in Procs, NEW f, frame' = [frame EXCEPT ![p] = f],
               f.at \in {"idle", "load"},
               UNCHANGED <<access, refresh, issued, revoked, overlapped>>
        PROVE  WriterIsCurrent(q)'
    <2>1. q # p
      BY <1>6, <1>neq
    <2> QED BY <1>6, <2>1, <1>other
  <1>7. ASSUME NEW p \in Procs, NEW r \in Refreshes, LoadRefresh(p, r)
        PROVE  WriterIsCurrent(q)'
    <2>1. UNCHANGED <<access, refresh, issued, revoked, overlapped>>
      BY <1>7 DEF LoadRefresh
    <2>2. CASE refresh[r] = Absent
      BY <1>7, <2>1, <2>2, <1>6, <1>done DEF LoadRefresh
    <2>3. CASE refresh[r] # Absent
      <3>1. Running("load", refresh[r], r).at = "load"
        BY DEF Running
      <3> QED BY <1>7, <2>1, <2>3, <3>1, <1>6 DEF LoadRefresh
    <2> QED BY <2>2, <2>3
  <1>8. ASSUME NEW p \in Procs, NEW t \in Tokens, LoadAccess(p, t)
        PROVE  WriterIsCurrent(q)'
    BY <1>8, <1>6, <1>done DEF LoadAccess
  <1>9. ASSUME NEW p \in Procs, LoadReferenced(p) PROVE WriterIsCurrent(q)'
    BY <1>9, <1>6, <1>done DEF LoadReferenced
  <1>10. CASE UNCHANGED vars
    BY <1>10, <1>cur, <1>t, UndisturbedWriterStaysCurrent DEF vars, Writing
  <1> QED
    BY <1>1, <1>2, <1>3, <1>4, <1>5, <1>7, <1>8, <1>9, <1>10 DEF Next

-----------------------------------------------------------------------------
(* What is stored under a token is what Paired says goes with it. *)

LEMMA RepliesPreserved ==
  ASSUME Paired, InductiveInvariant, [Next]_vars
  PROVE  RepliesHold'
  <1>t. TypeOK /\ OnlyGrants /\ RepliesHold /\ overlapped \subseteq overlapped'
    BY OverlappedGrows DEF InductiveInvariant
  <1>keys. /\ \A g \in Grants : g[1] \in Tokens /\ g[2] \in Refreshes \cup {NoRefresh}
           /\ Tokens \cap Refreshes = {} /\ NoRefresh \notin Keys /\ Absent \notin Keys
           /\ issued \subseteq Keys
    BY <1>t, GrantsAssumption, KeysAssumption, ValuesAssumption
       DEF Keys, TypeOK, HistoryTypeOK
  <1>w. ASSUME NEW p \in Procs, Writing(p)
        PROVE  /\ frame[p].token \in Tokens /\ frame[p].token \in KeysOf(p)
               /\ frame[p].refresh \in Refreshes => frame[p].refresh \in KeysOf(p)
               /\ frame[p].at # "delete" => frame[p].refresh \in Refreshes
               /\ WriterIsCurrent(p)
    BY <1>w, <1>t, RunningFrame DEF InductiveInvariant, Writing, Idle
  <1>1. ASSUME NEW p \in Procs, NEW g \in Grants, SaveAccess(p, g[1], g[2])
        PROVE  RepliesHold'
    <2>1. /\ \A t \in Tokens : access'[t] = IF t = g[1] THEN g[2] ELSE access[t]
          /\ refresh' = refresh
          /\ issued' \subseteq issued \cup {g[1]}
          /\ revoked' = revoked \ {g[1], g[2]}
      BY <1>1, <1>t DEF SaveAccess, TypeOK, AccessTypeOK
    <2>2. \A h \in Grants : h[1] = g[1] => h[2] = g[2]
      BY DEF Paired
    <2> QED BY <2>1, <2>2, <1>t, <1>keys DEF RepliesHold, Keys, TypeOK, HistoryTypeOK
  <1>2. ASSUME NEW p \in Procs, StoreRefresh(p) PROVE RepliesHold'
    <2>1. /\ frame[p].token \in Tokens /\ frame[p].refresh \in Refreshes
          /\ frame[p].token \notin overlapped => access[frame[p].token] = frame[p].refresh
          /\ frame[p].refresh \notin overlapped => frame[p].refresh \notin revoked
      BY <1>2, <1>w DEF StoreRefresh, Writing, WriterIsCurrent
    <2>2. <<frame[p].token, frame[p].refresh>> \in Grants
      BY <1>2, <1>t DEF StoreRefresh, OnlyGrants
    <2>3. \A h \in Grants : h[1] = frame[p].token <=> h[2] = frame[p].refresh
      BY <2>1, <2>2, <1>keys DEF Paired, Keys
    <2>4. /\ \A r \in Refreshes :
                refresh'[r] = IF r = frame[p].refresh THEN frame[p].token ELSE refresh[r]
          /\ issued' = issued \cup {frame[p].token, frame[p].refresh}
          /\ UNCHANGED <<access, revoked, overlapped>>
      BY <1>2, <1>t DEF StoreRefresh, TypeOK, RefreshTypeOK
    <2>5. ASSUME NEW h \in Grants
          PROVE  /\ h[1] \in issued' \ overlapped' => access'[h[1]] = h[2]
                 /\ h[2] \in issued' \ overlapped' => refresh'[h[2]] = h[1]
      <3>1. CASE h[1] = frame[p].token
        BY <3>1, <2>1, <2>3, <2>4
      <3>2. CASE h[1] # frame[p].token
        BY <3>2, <2>1, <2>3, <2>4, <1>t, <1>keys DEF RepliesHold, Keys
      <3> QED BY <3>1, <3>2
    <2>6. \A k \in revoked' \ overlapped' :
             IF k \in Tokens THEN access'[k] = Absent ELSE refresh'[k] = Absent
      BY <2>1, <2>4, <1>t DEF RepliesHold, TypeOK, HistoryTypeOK, Keys
    <2> QED BY <2>5, <2>6 DEF RepliesHold
  <1>3. ASSUME NEW p \in Procs, NEW t \in Tokens, RemoveAccess(p, t) PROVE RepliesHold'
    <2>1. UNCHANGED <<access, refresh, revoked>> /\ issued' \subseteq issued
      BY <1>3 DEF RemoveAccess
    <2> QED BY <2>1, <1>t DEF RepliesHold
  <1>4. ASSUME NEW p \in Procs, DeleteAccess(p) PROVE RepliesHold'
    <2>1. /\ frame[p].token \in Tokens
          /\ frame[p].token \notin overlapped => frame[p].token \notin issued
      BY <1>4, <1>w DEF DeleteAccess, Writing, WriterIsCurrent
    <2>2. /\ \A t \in Tokens : access'[t] = IF t = frame[p].token THEN Absent ELSE access[t]
          /\ revoked' \subseteq revoked \cup {frame[p].token}
          /\ UNCHANGED <<refresh, issued, overlapped>>
      BY <1>4, <1>t DEF DeleteAccess, TypeOK, AccessTypeOK
    <2> QED BY <2>1, <2>2, <1>t, <1>keys DEF RepliesHold
  <1>5. ASSUME NEW p \in Procs, DeleteRefresh(p) PROVE RepliesHold'
    <2>1. /\ frame[p].token \in Tokens /\ frame[p].refresh \in Refreshes
          /\ frame[p].token \notin overlapped => access[frame[p].token] = Absent
          /\ frame[p].refresh \notin overlapped => frame[p].refresh \notin issued
      BY <1>5, <1>w DEF DeleteRefresh, Writing, WriterIsCurrent
    <2>2. /\ \A r \in Refreshes :
                refresh'[r] = IF r = frame[p].refresh THEN Absent ELSE refresh[r]
          /\ revoked' = revoked \cup {frame[p].token, frame[p].refresh}
          /\ UNCHANGED <<access, issued, overlapped>>
      BY <1>5, <1>t DEF DeleteRefresh, TypeOK, RefreshTypeOK
    <2>3. frame[p].refresh \notin Tokens
      BY <2>1, <1>keys
    <2>4. \A h \in Grants : h[2] \in issued => h[2] \in Refreshes
      BY <1>keys
    <2>5. revoked \subseteq Tokens \cup Refreshes
      BY <1>t DEF TypeOK, HistoryTypeOK, Keys
    <2> QED BY <2>1, <2>2, <2>3, <2>4, <2>5, <1>t DEF RepliesHold
  <1>6. ASSUME NEW p \in Procs, NEW r \in Refreshes, RemoveRefresh(p, r) PROVE RepliesHold'
    <2>1. /\ \A s \in Refreshes : refresh'[s] = IF s = r THEN Absent ELSE refresh[s]
          /\ access' = access /\ issued' = issued \ {r} /\ revoked' = revoked \cup {r}
      BY <1>6, <1>t DEF RemoveRefresh, TypeOK, RefreshTypeOK
    <2>2. revoked \subseteq Tokens \cup Refreshes /\ r \notin Tokens
      BY <1>t, <1>keys DEF TypeOK, HistoryTypeOK, Keys
    <2>3. \A h \in Grants : h[2] \in issued => h[2] \in Refreshes
      BY <1>keys
    <2> QED BY <2>1, <2>2, <2>3, <1>t DEF RepliesHold
  <1>7. CASE UNCHANGED <<access, refresh, issued, revoked, overlapped>>
    BY <1>7, <1>t DEF RepliesHold
  <1> QED
    BY <1>1, <1>2, <1>3, <1>4, <1>5, <1>6, <1>7
       DEF Next, vars, LoadRefresh, LoadReferenced, LoadAccess

(* On a token that has not raced, saves and removals do not run together. *)
LEMMA DataStaysCalm ==
  ASSUME Paired, InductiveInvariant, [Next]_vars
  PROVE  (\A p \in Procs : CalmData(p))'
  <1>t. TypeOK /\ OnlyGrants /\ (\A p \in Procs : CalmData(p)) /\ raced \subseteq raced'
    BY RacedGrows DEF InductiveInvariant
  <1> SUFFICES ASSUME NEW q \in Procs, frame'[q].token \notin raced' PROVE CalmData(q)'
    BY DEF CalmData
  (* The step of another goroutine leaves the data of the token as it was. *)
  <1>other. ASSUME NEW p \in Procs \ {q}, NEW f, frame' = [frame EXCEPT ![p] = f],
                   frame[q].at \in {"map", "delete"} =>
                      access'[frame[q].token] = access[frame[q].token],
                   frame[q].at = "map" /\ f.at \in {"delete", "unmap"} =>
                      f.token # frame[q].token
            PROVE  CalmData(q)'
    <2>1. frame'[p] = f /\ \A r \in Procs \ {p} : frame'[r] = frame[r]
      BY <1>other, <1>t, OthersKeepTheirFrame
    <2>2. frame'[q] = frame[q]
      BY <2>1
    <2> QED BY <2>1, <2>2, <1>other, <1>t DEF CalmData
  (* A step that starts no call and leaves the data alone. *)
  <1>quiet. ASSUME NEW p \in Procs, NEW f, frame' = [frame EXCEPT ![p] = f],
                   f.at \in {"idle", "load"}, access' = access
            PROVE  CalmData(q)'
    <2>1. CASE q = p
      <3>1. frame'[q] = f
        BY <1>quiet, <2>1, <1>t, OthersKeepTheirFrame
      <3> QED BY <1>quiet, <3>1 DEF CalmData
    <2>2. CASE q # p
      BY <1>quiet, <1>other, <2>2
    <2> QED BY <2>1, <2>2
  <1>done. Done.at = "idle" /\ \A r, d : Ended(r, d).at = "idle"
    BY DEF Done, Ended
  <1>1. ASSUME NEW p \in Procs, NEW g \in Grants, SaveAccess(p, g[1], g[2])
        PROVE  CalmData(q)'
    <2>1. \A t \in Tokens : access'[t] = IF t = g[1] THEN g[2] ELSE access[t]
      BY <1>1, <1>t DEF SaveAccess, TypeOK, AccessTypeOK
    <2> DEFINE f == IF g[2] = NoRefresh THEN Done ELSE Running("map", g[1], g[2])
    <2>2. frame' = [frame EXCEPT ![p] = f] /\ f.at \in {"idle", "map"}
      BY <1>1, <1>done DEF SaveAccess, Running
    <2>3. \A r \in Procs :
             frame[r].at \in {"delete", "unmap"} /\ frame[r].token = g[1] => g[1] \in raced'
      BY <1>1 DEF SaveAccess, Race
    <2>4. frame'[p] = f /\ \A r \in Procs \ {p} : frame'[r] = frame[r]
      BY <2>2, <1>t, OthersKeepTheirFrame
    <2>5. CASE q = p
      <3>1. CASE g[2] = NoRefresh
        BY <2>4, <2>5, <3>1, <1>done DEF CalmData
      <3>2. CASE g[2] # NoRefresh
        <4>1. /\ frame'[q].at = "map" /\ frame'[q].token = g[1] /\ frame'[q].refresh = g[2]
              /\ g[1] \in Tokens
          BY <2>4, <2>5, <3>2, GrantsAssumption DEF Running
        <4>2. \A r \in Procs : frame'[r].at \in {"delete", "unmap"} => frame'[r].token # g[1]
          BY <2>3, <2>4, <2>5, <4>1
        <4> QED BY <2>1, <4>1, <4>2 DEF CalmData
      <3> QED BY <3>1, <3>2
    <2>6. CASE q # p
      <3>1. frame'[q] = frame[q]
        BY <2>4, <2>6
      <3>2. frame[q].at \in {"map", "delete"} => frame[q].token \in Tokens
        BY <1>t DEF TypeOK, FrameTypeOK
      <3>3. frame[q].at = "map" /\ frame[q].token = g[1] => access'[g[1]] = access[g[1]]
        <4>1. SUFFICES ASSUME frame[q].at = "map", frame[q].token = g[1]
                       PROVE  g[2] = access[g[1]]
          BY <2>1, <3>2
        <4>2. <<frame[q].token, frame[q].refresh>> \in Grants
          BY <4>1, <1>t DEF OnlyGrants
        <4>3. access[frame[q].token] = frame[q].refresh
          BY <4>1, <3>1, <1>t DEF CalmData
        <4> QED BY <4>1, <4>2, <4>3 DEF Paired
      <3>4. frame[q].at = "delete" => frame[q].token # g[1]
        BY <2>3, <3>1
      <3>5. frame[q].at \in {"map", "delete"} =>
               access'[frame[q].token] = access[frame[q].token]
        BY <2>1, <3>2, <3>3, <3>4
      <3> QED BY <1>other, <2>2, <2>6, <3>5
    <2> QED BY <2>5, <2>6
  <1>2. ASSUME NEW p \in Procs, NEW t \in Tokens, RemoveAccess(p, t) PROVE CalmData(q)'
    <2>1. frame' = [frame EXCEPT ![p] = Running("delete", t, access[t])] /\ access' = access
      BY <1>2 DEF RemoveAccess
    <2>2. Running("delete", t, access[t]).token = t
      BY DEF Running
    <2>3. CASE q = p
      <3>1. frame'[q] = Running("delete", t, access[t])
        BY <2>1, <2>3, <1>t, OthersKeepTheirFrame
      <3> QED BY <2>1, <3>1 DEF CalmData, Running
    <2>4. CASE q # p
      <3>1. frame'[q] = frame[q]
        BY <2>1, <2>4, <1>t, OthersKeepTheirFrame
      <3>2. frame[q].at = "map" => frame[q].token # t
        BY <1>2, <3>1 DEF RemoveAccess, Race
      <3> QED BY <1>other, <2>1, <2>2, <2>4, <3>2
    <2> QED BY <2>3, <2>4
  <1>3. ASSUME NEW p \in Procs, DeleteAccess(p) PROVE CalmData(q)'
    <2>1. /\ frame[p].token \in Tokens /\ frame[p] \in Frames /\ frame[p].at = "delete"
          /\ \A t \in Tokens : access'[t] = IF t = frame[p].token THEN Absent ELSE access[t]
      BY <1>3, <1>t, RunningFrame
         DEF DeleteAccess, Idle, TypeOK, AccessTypeOK, FrameTypeOK
    <2>2. PICK f : /\ frame' = [frame EXCEPT ![p] = f]
                   /\ f.at \in {"idle", "unmap"}
                   /\ f.at = "unmap" => f.token = frame[p].token
      <3>1. CASE frame[p].refresh \in Refreshes
        <4>1. frame' = [frame EXCEPT ![p] = [frame[p] EXCEPT !.at = "unmap"]]
          BY <1>3, <3>1 DEF DeleteAccess
        <4>2. /\ [frame[p] EXCEPT !.at = "unmap"].at = "unmap"
              /\ [frame[p] EXCEPT !.at = "unmap"].token = frame[p].token
          BY <2>1 DEF Frames
        <4> QED BY <4>1, <4>2
      <3>2. CASE frame[p].refresh \notin Refreshes
        BY <1>3, <3>2, <1>done DEF DeleteAccess
      <3> QED BY <3>1, <3>2
    <2>3. frame'[p] = f /\ \A r \in Procs \ {p} : frame'[r] = frame[r]
      BY <2>2, <1>t, OthersKeepTheirFrame
    <2>4. CASE q = p
      BY <2>2, <2>3, <2>4 DEF CalmData
    <2>5. CASE q # p
      <3>1. frame'[q] = frame[q]
        BY <2>3, <2>5
      <3>2. CASE frame[q].at = "map"
        <4>1. frame[p].token # frame[q].token
          BY <2>1, <3>1, <3>2, <1>t DEF CalmData
        <4>2. access'[frame[q].token] = access[frame[q].token]
          BY <2>1, <3>2, <4>1, <1>t DEF TypeOK, FrameTypeOK
        <4> QED BY <1>other, <2>2, <2>5, <4>1, <4>2
      <3>3. CASE frame[q].at = "delete"
        <4>1. access[frame[q].token] \in {frame[q].refresh, Absent}
          BY <3>1, <3>3, <1>t DEF CalmData
        <4>2. access'[frame[q].token] \in {frame[q].refresh, Absent}
          BY <2>1, <3>3, <4>1, <1>t DEF TypeOK, FrameTypeOK
        <4> QED BY <3>1, <3>3, <4>2 DEF CalmData
      <3>4. CASE frame[q].at \notin {"map", "delete"}
        BY <3>1, <3>4 DEF CalmData
      <3> QED BY <3>2, <3>3, <3>4
    <2> QED BY <2>4, <2>5
  <1>4. ASSUME NEW p \in Procs,
               \/ StoreRefresh(p) \/ DeleteRefresh(p) \/ LoadReferenced(p)
               \/ \E r \in Refreshes : RemoveRefresh(p, r)
               \/ \E t \in Tokens : LoadAccess(p, t)
        PROVE  CalmData(q)'
    <2>1. /\ access' = access
          /\ \/ frame' = [frame EXCEPT ![p] = Done]
             \/ \E r, d : frame' = [frame EXCEPT ![p] = Ended(r, d)]
      BY <1>4 DEF StoreRefresh, DeleteRefresh, LoadReferenced, RemoveRefresh, LoadAccess
    <2> QED BY <2>1, <1>quiet, <1>done
  <1>5. ASSUME NEW p \in Procs, NEW r \in Refreshes, LoadRefresh(p, r) PROVE CalmData(q)'
    BY <1>5, <1>quiet, <1>done DEF LoadRefresh, Running
  <1>6. CASE UNCHANGED vars
    BY <1>6, <1>t DEF vars, CalmData
  <1> QED
    BY <1>1, <1>2, <1>3, <1>4, <1>5, <1>6 DEF Next

LEMMA ReferencesPreserved ==
  ASSUME Paired, InductiveInvariant, [Next]_vars
  PROVE  ReferencesAreLive'
  <1>t. TypeOK /\ OnlyGrants /\ ReferencesAreLive /\ raced \subseteq raced'
    BY RacedGrows DEF InductiveInvariant
  <1> DEFINE Unmapping(p, r) == frame[p].at = "unmap" /\ frame[p].refresh = r
             Live(r) == access[refresh[r]] = r \/ \E p \in Procs : Unmapping(p, r)
  <1> SUFFICES ASSUME NEW r \in Refreshes, refresh'[r] \in Tokens \ raced'
               PROVE  Live(r)'
    BY DEF ReferencesAreLive
  <1>h. refresh'[r] = refresh[r] =>
           /\ refresh[r] \in Tokens \ raced /\ Live(r)
           /\ <<refresh[r], r>> \in Grants
    BY <1>t, ValuesAssumption DEF ReferencesAreLive, OnlyGrants
  (* The reference is kept, the data too, and so is the call that may be about *)
  (* to delete the reference.                                                  *)
  <1>keep. ASSUME NEW p \in Procs, \A q \in Procs \ {p} : frame'[q] = frame[q],
                  refresh'[r] = refresh[r], access'[refresh[r]] = access[refresh[r]],
                  ~Unmapping(p, r)
           PROVE  Live(r)'
    BY <1>keep, <1>h
  <1>1. ASSUME NEW p \in Procs, NEW g \in Grants, SaveAccess(p, g[1], g[2]) PROVE Live(r)'
    <2>1. /\ refresh' = refresh
          /\ \A t \in Tokens : access'[t] = IF t = g[1] THEN g[2] ELSE access[t]
          /\ ~Unmapping(p, r)
      BY <1>1, <1>t DEF SaveAccess, Idle, TypeOK, AccessTypeOK
    <2>2. \A q \in Procs \ {p} : frame'[q] = frame[q]
      BY <1>1, <1>t, OthersKeepTheirFrame DEF SaveAccess
    <2>3. CASE refresh[r] = g[1]
      <3>1. g[2] = r
        BY <1>h, <2>1, <2>3 DEF Paired
      <3> QED BY <1>h, <2>1, <2>3, <3>1
    <2>4. CASE refresh[r] # g[1]
      BY <1>h, <1>keep, <2>1, <2>2, <2>4
    <2> QED BY <2>3, <2>4
  <1>2. ASSUME NEW p \in Procs, StoreRefresh(p) PROVE Live(r)'
    <2>1. /\ \A s \in Refreshes :
                refresh'[s] = IF s = frame[p].refresh THEN frame[p].token ELSE refresh[s]
          /\ access' = access /\ raced' = raced
          /\ ~Unmapping(p, r)
      BY <1>2, <1>t DEF StoreRefresh, TypeOK, RefreshTypeOK
    <2>2. \A q \in Procs \ {p} : frame'[q] = frame[q]
      BY <1>2, <1>t, OthersKeepTheirFrame DEF StoreRefresh
    <2>3. CASE r = frame[p].refresh
      <3>1. frame[p].token \notin raced
        BY <2>1, <2>3
      <3>2. access[frame[p].token] = r
        BY <1>2, <2>3, <3>1 DEF StoreRefresh, InductiveInvariant, CalmData
      <3> QED BY <2>1, <2>3, <3>2
    <2>4. CASE r # frame[p].refresh
      BY <1>keep, <2>1, <2>2, <2>4
    <2> QED BY <2>3, <2>4
  <1>3. ASSUME NEW p \in Procs, NEW t \in Tokens, RemoveAccess(p, t) PROVE Live(r)'
    <2>1. \A q \in Procs \ {p} : frame'[q] = frame[q]
      BY <1>3, <1>t, OthersKeepTheirFrame DEF RemoveAccess
    <2> QED BY <1>3, <2>1, <1>keep DEF RemoveAccess, Idle
  <1>4. ASSUME NEW p \in Procs, DeleteAccess(p) PROVE Live(r)'
    <2>1. /\ refresh' = refresh /\ raced' = raced
          /\ \A t \in Tokens : access'[t] = IF t = frame[p].token THEN Absent ELSE access[t]
          /\ ~Unmapping(p, r)
      BY <1>4, <1>t DEF DeleteAccess, TypeOK, AccessTypeOK
    <2>2. CASE frame[p].refresh \in Refreshes
      <3>1. frame' = [frame EXCEPT ![p] = [frame[p] EXCEPT !.at = "unmap"]]
        BY <1>4, <2>2 DEF DeleteAccess
      <3>2. /\ frame'[p] = [frame[p] EXCEPT !.at = "unmap"]
            /\ \A q \in Procs \ {p} : frame'[q] = frame[q]
        BY <3>1, <1>t, OthersKeepTheirFrame
      <3>3. frame'[p].at = "unmap" /\ frame'[p].refresh = frame[p].refresh
        BY <3>2, <1>t DEF TypeOK, FrameTypeOK, Frames
      <3>4. CASE refresh[r] # frame[p].token
        BY <1>h, <1>keep, <2>1, <3>2, <3>4
      <3>5. CASE refresh[r] = frame[p].token
        <4>1. access[frame[p].token] \in {frame[p].refresh, Absent}
          BY <1>4, <1>h, <2>1, <3>5 DEF DeleteAccess, InductiveInvariant, CalmData
        <4>2. CASE access[refresh[r]] = r
          BY <3>3, <3>5, <4>1, <4>2, ValuesAssumption
        <4>3. CASE \E q \in Procs : Unmapping(q, r)
          BY <2>1, <3>2, <4>3
        <4> QED BY <1>h, <2>1, <4>2, <4>3
      <3> QED BY <3>4, <3>5
    <2>3. CASE frame[p].refresh \notin Refreshes
      <3>1. \A q \in Procs \ {p} : frame'[q] = frame[q]
        BY <1>4, <2>3, <1>t, OthersKeepTheirFrame DEF DeleteAccess
      <3>2. CASE refresh[r] # frame[p].token
        BY <1>h, <1>keep, <2>1, <3>1, <3>2
      <3>3. CASE refresh[r] = frame[p].token
        <4>1. access[frame[p].token] \in {frame[p].refresh, Absent}
          BY <1>4, <1>h, <2>1, <3>3 DEF DeleteAccess, InductiveInvariant, CalmData
        <4>2. \E q \in Procs : Unmapping(q, r)
          BY <1>h, <2>1, <2>3, <3>3, <4>1, ValuesAssumption
        <4> QED BY <2>1, <3>1, <4>2
      <3> QED BY <3>2, <3>3
    <2> QED BY <2>2, <2>3
  <1>5. ASSUME NEW p \in Procs, NEW s \in Refreshes,
               refresh' = [refresh EXCEPT ![s] = Absent], access' = access,
               frame' = [frame EXCEPT ![p] = Done],
               frame[p].at = "unmap" => frame[p].refresh = s
        PROVE  Live(r)'
    <2>1. r # s /\ refresh'[r] = refresh[r]
      BY <1>5, <1>t, ValuesAssumption DEF TypeOK, RefreshTypeOK
    <2>2. \A q \in Procs \ {p} : frame'[q] = frame[q]
      BY <1>5, <1>t, OthersKeepTheirFrame
    <2> QED BY <1>5, <2>1, <2>2, <1>keep
  <1>6. ASSUME NEW p \in Procs, DeleteRefresh(p) PROVE Live(r)'
    <2>1. frame[p].refresh \in Refreshes
      BY <1>6, <1>t, RunningFrame DEF DeleteRefresh, Idle
    <2> QED BY <1>5, <1>6, <2>1 DEF DeleteRefresh
  <1>7. ASSUME NEW p \in Procs, NEW s \in Refreshes, RemoveRefresh(p, s) PROVE Live(r)'
    BY <1>5, <1>7 DEF RemoveRefresh, Idle
  <1>8. ASSUME NEW p \in Procs, UNCHANGED <<access, refresh>>,
               \A q \in Procs \ {p} : frame'[q] = frame[q], ~Unmapping(p, r)
        PROVE  Live(r)'
    BY <1>8, <1>keep
  <1>9. ASSUME NEW p \in Procs,
               \/ \E s \in Refreshes : LoadRefresh(p, s)
               \/ \E t \in Tokens : LoadAccess(p, t)
               \/ LoadReferenced(p)
        PROVE  Live(r)'
    <2>1. \A q \in Procs \ {p} : frame'[q] = frame[q]
      BY <1>9, <1>t, OthersKeepTheirFrame DEF LoadRefresh, LoadAccess, LoadReferenced
    <2> QED BY <1>8, <1>9, <2>1 DEF LoadRefresh, LoadAccess, LoadReferenced, Idle
  <1>10. CASE UNCHANGED vars
    BY <1>10, <1>h DEF vars
  <1> QED
    BY <1>1, <1>2, <1>3, <1>4, <1>6, <1>7, <1>9, <1>10 DEF Next

LEMMA LookUpsPreserved ==
  ASSUME Paired, InductiveInvariant, [Next]_vars
  PROVE  RefreshFindsItsGrant'
  <1>t. TypeOK /\ OnlyGrants /\ RefreshFindsItsGrant
    BY DEF InductiveInvariant
  <1> DEFINE Right(p) == Idle(p) /\ frame[p].refresh \in Refreshes =>
                            frame[p].data \in {frame[p].refresh, Absent}
  <1>set. ASSUME NEW p \in Procs, NEW f, frame' = [frame EXCEPT ![p] = f],
                 f.at = "idle" /\ f.refresh \in Refreshes => f.data \in {f.refresh, Absent}
          PROVE  RefreshFindsItsGrant'
    <2>1. frame'[p] = f /\ \A q \in Procs \ {p} : frame'[q] = frame[q]
      BY <1>set, <1>t, OthersKeepTheirFrame
    <2>2. Right(p)'
      BY <2>1, <1>set DEF Idle
    <2>3. \A q \in Procs \ {p} : Right(q)'
      BY <2>1, <1>t DEF RefreshFindsItsGrant, Idle
    <2> QED BY <2>2, <2>3 DEF RefreshFindsItsGrant
  <1>done. ASSUME NEW p \in Procs, frame' = [frame EXCEPT ![p] = Done]
           PROVE  RefreshFindsItsGrant'
    <2>1. Done.refresh = Absent
      BY DEF Done, Ended
    <2> QED BY <1>done, <1>set, <2>1, ValuesAssumption
  <1>run. ASSUME NEW p \in Procs, NEW step \in {"map", "delete", "load"}, NEW t, NEW r,
                 frame' = [frame EXCEPT ![p] = Running(step, t, r)]
          PROVE  RefreshFindsItsGrant'
    <2>1. Running(step, t, r).at # "idle"
      BY DEF Running
    <2> QED BY <1>run, <1>set, <2>1
  <1>1. ASSUME NEW p \in Procs, NEW g \in Grants, SaveAccess(p, g[1], g[2])
        PROVE  RefreshFindsItsGrant'
    BY <1>1, <1>done, <1>run DEF SaveAccess
  <1>2. ASSUME NEW p \in Procs,
               \/ StoreRefresh(p) \/ DeleteRefresh(p)
               \/ \E r \in Refreshes : RemoveRefresh(p, r)
        PROVE  RefreshFindsItsGrant'
    BY <1>2, <1>done DEF StoreRefresh, DeleteRefresh, RemoveRefresh
  <1>3. ASSUME NEW p \in Procs, NEW t \in Tokens, RemoveAccess(p, t)
        PROVE  RefreshFindsItsGrant'
    BY <1>3, <1>run DEF RemoveAccess
  <1>4. ASSUME NEW p \in Procs, DeleteAccess(p) PROVE RefreshFindsItsGrant'
    <2>1. CASE frame[p].refresh \in Refreshes
      <3>1. frame' = [frame EXCEPT ![p] = [frame[p] EXCEPT !.at = "unmap"]]
        BY <1>4, <2>1 DEF DeleteAccess
      <3>2. [frame[p] EXCEPT !.at = "unmap"].at = "unmap"
        BY <1>t DEF TypeOK, FrameTypeOK, Frames
      <3> QED BY <3>1, <3>2, <1>set
    <2>2. CASE frame[p].refresh \notin Refreshes
      BY <1>4, <2>2, <1>done DEF DeleteAccess
    <2> QED BY <2>1, <2>2
  <1>5. ASSUME NEW p \in Procs, NEW r \in Refreshes, LoadRefresh(p, r)
        PROVE  RefreshFindsItsGrant'
    <2>1. CASE refresh[r] = Absent
      <3>1. Ended(r, Absent).data = Absent
        BY DEF Ended
      <3> QED BY <1>5, <2>1, <3>1, <1>set DEF LoadRefresh
    <2>2. CASE refresh[r] # Absent
      BY <1>5, <2>2, <1>run DEF LoadRefresh
    <2> QED BY <2>1, <2>2
  <1>6. ASSUME NEW p \in Procs, LoadReferenced(p) PROVE RefreshFindsItsGrant'
    <2>1. frame[p].token \in Tokens /\ <<frame[p].token, frame[p].refresh>> \in Grants
      BY <1>6, <1>t, RunningFrame DEF LoadReferenced, Idle, OnlyGrants
    <2>2. access[frame[p].token] \in {frame[p].refresh, Absent}
      BY <2>1, <1>t DEF OnlyGrants, Paired
    <2>3. Ended(frame[p].refresh, access[frame[p].token]).data = access[frame[p].token]
          /\ Ended(frame[p].refresh, access[frame[p].token]).refresh = frame[p].refresh
      BY DEF Ended
    <2> QED BY <1>6, <2>2, <2>3, <1>set DEF LoadReferenced
  <1>7. ASSUME NEW p \in Procs, NEW t \in Tokens, LoadAccess(p, t)
        PROVE  RefreshFindsItsGrant'
    <2>1. Ended(Absent, access[t]).refresh = Absent
      BY DEF Ended
    <2> QED BY <1>7, <2>1, <1>set, ValuesAssumption DEF LoadAccess
  <1>8. CASE UNCHANGED vars
    BY <1>8, <1>t DEF vars, RefreshFindsItsGrant, Idle
  <1> QED
    BY <1>1, <1>2, <1>3, <1>4, <1>5, <1>6, <1>7, <1>8 DEF Next

-----------------------------------------------------------------------------
LEMMA InvariantHolds == ASSUME Paired PROVE Spec => []InductiveInvariant
  <1>1. InductiveInvariant /\ [Next]_vars => InductiveInvariant'
    BY TypesPreserved, OnlyGrantsPreserved, OneWriterPreserved, WritersStayCurrent,
       RepliesPreserved, DataStaysCalm, ReferencesPreserved, LookUpsPreserved
       DEF InductiveInvariant
  <1> QED BY InitInductive, <1>1, PTL DEF Spec

(* The two tables and the running calls keep their types, whatever callers save: *)
(* RemoveAccess only goes on to delete a reference when the data it loaded has a  *)
(* refresh token (storage_mem.go:301-308).                                       *)
THEOREM TokenTypes == Spec => []TypeOK
  <1>1. Init => TypeOK
    BY InitInductive DEF InductiveInvariant
  <1>2. TypeOK /\ [Next]_vars => TypeOK'
    BY TypesPreserved
  <1> QED BY <1>1, <1>2, PTL DEF Spec

(* Where access and refresh tokens are issued in pairs, what callers were told   *)
(* of a token stays true, as long as no two calls that write it overlap          *)
(* (storage_mem.go:281-329).                                                     *)
THEOREM TokenReplies == ASSUME Paired PROVE Spec => []RepliesHold
  <1>1. InductiveInvariant => RepliesHold
    BY DEF InductiveInvariant
  <1> QED BY <1>1, InvariantHolds, PTL

(* Where tokens are issued in pairs, a reference leads to data with that refresh *)
(* token, or a RemoveAccess is about to delete it, for every access token of     *)
(* which no SaveAccess and RemoveAccess have overlapped; of those that have, it   *)
(* may lead to nothing (storage_mem.go:281-287, 301-308).                        *)
THEOREM References == ASSUME Paired PROVE Spec => []ReferencesAreLive
  <1>1. InductiveInvariant => ReferencesAreLive
    BY DEF InductiveInvariant
  <1> QED BY <1>1, InvariantHolds, PTL

(* Whatever overlaps, LoadRefresh never answers data that was issued with another *)
(* refresh token than the one it is asked for (storage_mem.go:314-324).          *)
THEOREM LookUps == ASSUME Paired PROVE Spec => []RefreshFindsItsGrant
  <1>1. InductiveInvariant => RefreshFindsItsGrant
    BY DEF InductiveInvariant
  <1> QED BY <1>1, InvariantHolds, PTL
=============================================================================
