---------------------------- MODULE KeyPairsProofs ----------------------------
(***************************************************************************)
(* Proofs about KeyPairs, for any number of goroutines, actors and keys of *)
(* any type.                                                               *)
(***************************************************************************)
EXTENDS KeyPairs, TLAPS

LEMMA InitInductive == Init => InductiveInvariant
  BY KeysAssumption
     DEF Init, InductiveInvariant, TypeOK, SoleRotation, PairsAgree, CalmKeyIsCurrent,
         ComparedKeysMatch, Idle, Frames, Phases, Stored

(* SaveKey changes the frame of its caller, and at most the calm of the others. *)
LEMMA SaveKeyFrames ==
  ASSUME TypeOK, NEW p \in Procs, NEW a \in Actors, NEW k \in Keys, SaveKey(p, a, k)
  PROVE  /\ frame' \in [Procs -> Frames]
         /\ frame'[p].at = After(k) /\ frame'[p].actor = a /\ frame'[p].key = k
         /\ ~frame'[p].calm
         /\ \A q \in Procs \ {p} :
               /\ frame'[q].at = frame[q].at /\ frame'[q].actor = frame[q].actor
               /\ frame'[q].key = frame[q].key /\ frame'[q].other = frame[q].other
               /\ frame'[q].calm => frame[q].calm /\ frame[q].actor # a
  <1>1. After(k) \in Phases
    BY DEF After, Phases
  <1>2. [Idle EXCEPT !.at = After(k), !.actor = a, !.key = k] \in Frames
    BY <1>1 DEF Idle, Frames, Stored
  <1>3. Disturbed(a) \in [Procs -> Frames]
    BY DEF TypeOK, Disturbed, Frames
  <1> QED
    BY <1>2, <1>3 DEF SaveKey, Idle, Disturbed, TypeOK, Frames

(* The other steps change the frame of their caller only. *)
LEMMA OthersKeepTheirFrame ==
  ASSUME TypeOK, NEW p \in Procs, NEW f \in Frames, frame' = [frame EXCEPT ![p] = f]
  PROVE  /\ frame' \in [Procs -> Frames]
         /\ frame'[p] = f /\ \A q \in Procs \ {p} : frame'[q] = frame[q]
  BY DEF TypeOK

LEMMA LoadKeyFrame ==
  ASSUME TypeOK, NEW p \in Procs, NEW a \in Actors, LoadKey(p, a)
  PROVE  /\ frame' \in [Procs -> Frames]
         /\ frame'[p].at \in {"failed", "loaded"}
         /\ frame'[p].actor = a /\ frame'[p].key = private[a]
         /\ frame'[p].calm => ~Rotating(a) /\ a \notin unsettled
         /\ \A q \in Procs \ {p} : frame'[q] = frame[q]
         /\ frame[p].at # "saved"
  <1> DEFINE f == [at    |-> IF private[a] = Absent THEN "failed" ELSE "loaded",
                   actor |-> a, key |-> private[a], other |-> Absent,
                   calm  |-> ~Rotating(a) /\ a \notin unsettled]
  <1>0. (~Rotating(a) /\ a \notin unsettled) \in BOOLEAN
    OBVIOUS
  <1>1. f \in Frames
    BY <1>0 DEF TypeOK, Frames, Phases, Stored
  <1>2. frame' = [frame EXCEPT ![p] = f]
    BY DEF LoadKey
  <1>3. frame' \in [Procs -> Frames] /\ frame'[p] = f /\ \A q \in Procs \ {p} : frame'[q] = frame[q]
    BY <1>1, <1>2, OthersKeepTheirFrame
  <1> QED BY <1>3 DEF LoadKey, Free

LEMMA LoadActorFrame ==
  ASSUME TypeOK, NEW p \in Procs, LoadActor(p)
  PROVE  /\ frame' \in [Procs -> Frames]
         /\ frame'[p].at = "compared" /\ frame'[p].actor = frame[p].actor
         /\ frame'[p].key = frame[p].key /\ frame'[p].calm = frame[p].calm
         /\ frame'[p].other = published[frame[p].actor]
         /\ \A q \in Procs \ {p} : frame'[q] = frame[q]
  <1>1. frame[p].actor \in Actors
    BY DEF TypeOK, LoadActor
  <1> QED BY <1>1 DEF LoadActor, TypeOK, Frames, Phases

LEMMA PublishFrame ==
  ASSUME TypeOK, NEW p \in Procs, Publish(p)
  PROVE  /\ frame' \in [Procs -> Frames]
         /\ frame'[p] = Idle
         /\ \A q \in Procs \ {p} : frame'[q] = frame[q]
  <1>1. Idle \in Frames
    BY DEF Idle, Frames, Phases, Stored
  <1> QED BY <1>1, OthersKeepTheirFrame DEF Publish

(* Publishing ends the rotation of the caller, and loading neither begins nor ends one. *)
LEMMA NoRotationBegins ==
  ASSUME TypeOK, NEW p \in Procs,
         Publish(p) \/ (\E a \in Actors : LoadKey(p, a)) \/ LoadActor(p)
  PROVE  /\ \A q \in Procs : frame'[q].at = "saved" => frame'[q] = frame[q]
         /\ ~Publish(p) => \A q \in Procs : frame[q].at = "saved" => frame'[q] = frame[q]
  <1>1. CASE Publish(p)
    BY <1>1, PublishFrame DEF Idle
  <1>2. ASSUME NEW a \in Actors, LoadKey(p, a)
        PROVE  \A q \in Procs : frame'[q].at = "saved" \/ frame[q].at = "saved" => frame'[q] = frame[q]
    BY <1>2, LoadKeyFrame
  <1>3. CASE LoadActor(p)
    <2>1. frame[p].at # "saved"
      BY <1>3 DEF LoadActor
    <2>2. frame'[p].at # "saved" /\ \A q \in Procs \ {p} : frame'[q] = frame[q]
      BY <1>3, LoadActorFrame
    <2> QED BY <2>1, <2>2
  <1> QED BY <1>1, <1>2, <1>3

-----------------------------------------------------------------------------
LEMMA TypesPreserved ==
  ASSUME TypeOK, [Next]_vars
  PROVE  TypeOK'
  <1>1. ASSUME NEW p \in Procs, NEW a \in Actors, NEW k \in Keys, SaveKey(p, a, k)
        PROVE  TypeOK'
    <2>1. After(k) = "saved" => Kind[k] \in Encodable
      BY DEF After
    <2>2. private' \in [Actors -> Stored] /\ unsettled' \subseteq Actors /\ published' = published
      BY <1>1 DEF SaveKey, TypeOK, Stored
    <2>3. After(k) # "loaded"
      BY DEF After
    <2> QED BY <1>1, <2>1, <2>2, <2>3, SaveKeyFrames DEF TypeOK
  <1>2. ASSUME NEW p \in Procs, Publish(p) PROVE TypeOK'
    <2>1. published' \in [Actors -> Stored]
      BY <1>2 DEF Publish, TypeOK, Stored
    <2> QED BY <1>2, <2>1, PublishFrame DEF TypeOK, Publish, Idle
  <1>3. ASSUME NEW p \in Procs, NEW a \in Actors, LoadKey(p, a) PROVE TypeOK'
    BY <1>3, LoadKeyFrame DEF TypeOK, LoadKey
  <1>4. ASSUME NEW p \in Procs, LoadActor(p) PROVE TypeOK'
    BY <1>4, LoadActorFrame DEF TypeOK, LoadActor
  <1>5. CASE UNCHANGED vars
    BY <1>5 DEF vars, TypeOK
  <1> QED BY <1>1, <1>2, <1>3, <1>4, <1>5 DEF Next

LEMMA SoleRotationPreserved ==
  ASSUME InductiveInvariant, [Next]_vars
  PROVE  SoleRotation'
  <1> USE DEF InductiveInvariant
  <1>1. ASSUME NEW p \in Procs, NEW a \in Actors, NEW k \in Keys, SaveKey(p, a, k)
        PROVE  SoleRotation'
    <2> SUFFICES ASSUME NEW q \in Procs, frame'[q].at = "saved",
                        frame'[q].actor \notin unsettled'
                 PROVE  /\ private'[frame'[q].actor] = frame'[q].key
                        /\ \A r \in Procs : frame'[r].at = "saved"
                                            /\ frame'[r].actor = frame'[q].actor => r = q
      BY DEF SoleRotation
    <2>1. frame[p].at # "saved"
      BY <1>1 DEF SaveKey, Free
    <2>2. private' = [private EXCEPT ![a] = k]
      BY <1>1 DEF SaveKey
    <2>3. CASE q = p
      <3>0. frame'[q].actor = a /\ frame'[q].key = k
        BY <1>1, <2>3, SaveKeyFrames
      <3>1. ~Rotating(a)
        BY <1>1, <3>0 DEF SaveKey
      <3>2. private'[a] = k
        BY <2>2 DEF TypeOK
      <3> QED BY <1>1, <2>3, <3>0, <3>1, <3>2, SaveKeyFrames DEF Rotating
    <2>4. CASE q # p
      <3>1. frame[q].at = "saved" /\ frame'[q].actor = frame[q].actor /\ frame'[q].key = frame[q].key
        BY <1>1, <2>4, SaveKeyFrames
      <3>2. frame[q].actor # a
        <4>1. frame[q].actor = a => Rotating(a)
          BY <3>1 DEF Rotating
        <4> QED BY <4>1, <3>1, <1>1 DEF SaveKey
      <3>3. frame[q].actor \notin unsettled
        BY <1>1, <3>1, <3>2 DEF SaveKey
      <3>4. frame[q].actor \in Actors
        BY <3>1 DEF TypeOK
      <3>5. private'[frame[q].actor] = private[frame[q].actor]
        BY <2>2, <3>2, <3>4 DEF TypeOK
      <3> QED BY <1>1, <3>1, <3>2, <3>3, <3>5, SaveKeyFrames DEF SoleRotation
    <2> QED BY <2>3, <2>4
  <1>2. ASSUME NEW p \in Procs, Publish(p) PROVE SoleRotation'
    <2>1. \A q \in Procs : frame'[q].at = "saved" => frame'[q] = frame[q]
      BY <1>2, NoRotationBegins
    <2>2. private' = private /\ unsettled' = unsettled
      BY <1>2 DEF Publish
    <2> QED BY <2>1, <2>2 DEF SoleRotation
  <1>3. ASSUME NEW p \in Procs, NEW a \in Actors, LoadKey(p, a) PROVE SoleRotation'
    <2>1. \A q \in Procs : frame'[q].at = "saved" => frame'[q] = frame[q]
      BY <1>3, NoRotationBegins
    <2>2. private' = private /\ unsettled' = unsettled
      BY <1>3 DEF LoadKey
    <2> QED BY <2>1, <2>2 DEF SoleRotation
  <1>4. ASSUME NEW p \in Procs, LoadActor(p) PROVE SoleRotation'
    <2>1. \A q \in Procs : frame'[q].at = "saved" => frame'[q] = frame[q]
      BY <1>4, NoRotationBegins
    <2>2. private' = private /\ unsettled' = unsettled
      BY <1>4 DEF LoadActor
    <2> QED BY <2>1, <2>2 DEF SoleRotation
  <1>5. CASE UNCHANGED vars
    BY <1>5 DEF vars, SoleRotation
  <1> QED BY <1>1, <1>2, <1>3, <1>4, <1>5 DEF Next

LEMMA PairsPreserved ==
  ASSUME InductiveInvariant, [Next]_vars
  PROVE  PairsAgree'
  <1> USE DEF InductiveInvariant
  <1>1. ASSUME NEW p \in Procs, NEW a \in Actors, NEW k \in Keys, SaveKey(p, a, k)
        PROVE  PairsAgree'
    <2> SUFFICES ASSUME NEW b \in Actors, ~Rotating(b)', b \notin unsettled'
                 PROVE  private'[b] = published'[b]
      BY DEF PairsAgree
    <2>1. frame[p].at # "saved"
      BY <1>1 DEF SaveKey, Free
    <2>2. b # a
      <3>1. ASSUME b = a PROVE FALSE
        <4>1. Kind[k] \in Encodable
          BY <1>1, <3>1 DEF SaveKey
        <4>2. After(k) = "saved"
          BY <4>1 DEF After, Encodable
        <4>3. frame'[p].at = "saved" /\ frame'[p].actor = a
          BY <1>1, <4>2, SaveKeyFrames
        <4> QED BY <3>1, <4>3 DEF Rotating
      <3> QED BY <3>1
    <2>3. ~Rotating(b)
      BY <1>1, <2>1, SaveKeyFrames DEF Rotating
    <2>4. b \notin unsettled /\ private'[b] = private[b] /\ published' = published
      BY <1>1, <2>2 DEF SaveKey, TypeOK
    <2> QED BY <2>3, <2>4 DEF PairsAgree
  <1>2. ASSUME NEW p \in Procs, Publish(p) PROVE PairsAgree'
    <2> SUFFICES ASSUME NEW b \in Actors, ~Rotating(b)', b \notin unsettled'
                 PROVE  private'[b] = published'[b]
      BY DEF PairsAgree
    <2>1. b \notin unsettled /\ private' = private
      BY <1>2 DEF Publish
    <2>2. CASE b = frame[p].actor
      BY <1>2, <2>1, <2>2 DEF Publish, SoleRotation, TypeOK
    <2>3. CASE b # frame[p].actor
      <3>1. ~Rotating(b)
        BY <1>2, <2>3, PublishFrame DEF Rotating
      <3> QED BY <1>2, <2>1, <2>3, <3>1 DEF Publish, PairsAgree, TypeOK
    <2> QED BY <2>2, <2>3
  <1>3. ASSUME NEW p \in Procs, NEW a \in Actors, LoadKey(p, a) PROVE PairsAgree'
    <2>1. frame[p].at # "saved" /\ UNCHANGED <<private, published, unsettled>>
      BY <1>3 DEF LoadKey, Free
    <2>2. \A q \in Procs : frame[q].at = "saved" => frame'[q] = frame[q]
      BY <1>3, <2>1, NoRotationBegins DEF Publish
    <2>3. \A b \in Actors : Rotating(b) => Rotating(b)'
      BY <2>2 DEF Rotating
    <2> QED BY <2>1, <2>3 DEF PairsAgree
  <1>4. ASSUME NEW p \in Procs, LoadActor(p) PROVE PairsAgree'
    <2>1. frame[p].at # "saved" /\ UNCHANGED <<private, published, unsettled>>
      BY <1>4 DEF LoadActor, Free
    <2>2. \A q \in Procs : frame[q].at = "saved" => frame'[q] = frame[q]
      BY <1>4, <2>1, NoRotationBegins DEF Publish
    <2>3. \A b \in Actors : Rotating(b) => Rotating(b)'
      BY <2>2 DEF Rotating
    <2> QED BY <2>1, <2>3 DEF PairsAgree
  <1>5. CASE UNCHANGED vars
    BY <1>5 DEF vars, PairsAgree, Rotating
  <1> QED BY <1>1, <1>2, <1>3, <1>4, <1>5 DEF Next

LEMMA CalmPreserved ==
  ASSUME InductiveInvariant, [Next]_vars
  PROVE  CalmKeyIsCurrent'
  <1> USE DEF InductiveInvariant
  <1>1. ASSUME NEW p \in Procs, NEW a \in Actors, NEW k \in Keys, SaveKey(p, a, k)
        PROVE  CalmKeyIsCurrent'
    <2> SUFFICES ASSUME NEW q \in Procs, frame'[q].at = "loaded", frame'[q].calm
                 PROVE  /\ \A r \in Procs : frame'[r].at = "saved" => frame'[r].actor # frame'[q].actor
                        /\ frame'[q].actor \notin unsettled'
                        /\ private'[frame'[q].actor] = frame'[q].key
      BY DEF CalmKeyIsCurrent, Rotating
    <2>1. q # p
      BY <1>1, SaveKeyFrames DEF After
    <2>2. /\ frame[q].at = "loaded" /\ frame[q].calm /\ frame[q].actor # a
          /\ frame'[q].actor = frame[q].actor /\ frame'[q].key = frame[q].key
      BY <1>1, <2>1, SaveKeyFrames
    <2>3. /\ ~Rotating(frame[q].actor) /\ frame[q].actor \notin unsettled
          /\ private[frame[q].actor] = frame[q].key /\ frame[q].actor \in Actors
      BY <2>2 DEF CalmKeyIsCurrent, TypeOK
    <2>4. \A r \in Procs : frame'[r].at = "saved" => frame'[r].actor # frame'[q].actor
      BY <1>1, <2>2, <2>3, SaveKeyFrames DEF Rotating
    <2>5. frame'[q].actor \notin unsettled' /\ private'[frame'[q].actor] = frame'[q].key
      BY <1>1, <2>2, <2>3 DEF SaveKey, TypeOK
    <2> QED BY <2>4, <2>5
  <1>2. ASSUME NEW p \in Procs, Publish(p) PROVE CalmKeyIsCurrent'
    <2>1. \A q \in Procs : frame'[q].at = "saved" => frame'[q] = frame[q]
      BY <1>2, NoRotationBegins
    <2>2. \A q \in Procs : frame'[q].at = "loaded" => frame'[q] = frame[q]
      BY <1>2, PublishFrame DEF Idle
    <2>3. private' = private /\ unsettled' = unsettled
      BY <1>2 DEF Publish
    <2> QED BY <2>1, <2>2, <2>3 DEF CalmKeyIsCurrent, Rotating
  <1>3. ASSUME NEW p \in Procs, NEW a \in Actors, LoadKey(p, a) PROVE CalmKeyIsCurrent'
    <2>1. \A q \in Procs : frame'[q].at = "saved" => frame'[q] = frame[q]
      BY <1>3, NoRotationBegins
    <2>2. \A b : Rotating(b)' => Rotating(b)
      BY <2>1 DEF Rotating
    <2>3. private' = private /\ unsettled' = unsettled
      BY <1>3 DEF LoadKey
    <2>4. /\ frame'[p].actor = a /\ frame'[p].key = private[a]
          /\ frame'[p].calm => ~Rotating(a) /\ a \notin unsettled
          /\ \A q \in Procs \ {p} : frame'[q] = frame[q]
      BY <1>3, LoadKeyFrame
    <2> QED BY <2>2, <2>3, <2>4 DEF CalmKeyIsCurrent
  <1>4. ASSUME NEW p \in Procs, LoadActor(p) PROVE CalmKeyIsCurrent'
    <2>1. \A q \in Procs : frame'[q].at = "saved" => frame'[q] = frame[q]
      BY <1>4, NoRotationBegins
    <2>2. \A b : Rotating(b)' => Rotating(b)
      BY <2>1 DEF Rotating
    <2>3. private' = private /\ unsettled' = unsettled
      BY <1>4 DEF LoadActor
    <2>4. frame'[p].at # "loaded" /\ \A q \in Procs \ {p} : frame'[q] = frame[q]
      BY <1>4, LoadActorFrame
    <2> QED BY <2>2, <2>3, <2>4 DEF CalmKeyIsCurrent
  <1>5. CASE UNCHANGED vars
    BY <1>5 DEF vars, CalmKeyIsCurrent, Rotating
  <1> QED BY <1>1, <1>2, <1>3, <1>4, <1>5 DEF Next

LEMMA MatchPreserved ==
  ASSUME InductiveInvariant, [Next]_vars
  PROVE  ComparedKeysMatch'
  <1> USE DEF InductiveInvariant
  <1>1. ASSUME NEW p \in Procs, NEW a \in Actors, NEW k \in Keys, SaveKey(p, a, k)
        PROVE  ComparedKeysMatch'
    BY <1>1, SaveKeyFrames DEF ComparedKeysMatch
  <1>2. ASSUME NEW p \in Procs, Publish(p) PROVE ComparedKeysMatch'
    BY <1>2, PublishFrame DEF ComparedKeysMatch, Idle
  <1>3. ASSUME NEW p \in Procs, NEW a \in Actors, LoadKey(p, a) PROVE ComparedKeysMatch'
    BY <1>3, LoadKeyFrame DEF ComparedKeysMatch
  <1>4. ASSUME NEW p \in Procs, LoadActor(p) PROVE ComparedKeysMatch'
    <2>1. ASSUME frame[p].calm PROVE frame[p].key = published[frame[p].actor]
      BY <1>4, <2>1 DEF LoadActor, CalmKeyIsCurrent, PairsAgree, TypeOK
    <2> QED BY <1>4, <2>1, LoadActorFrame DEF ComparedKeysMatch
  <1>5. CASE UNCHANGED vars
    BY <1>5 DEF vars, ComparedKeysMatch
  <1> QED BY <1>1, <1>2, <1>3, <1>4, <1>5 DEF Next

-----------------------------------------------------------------------------
LEMMA InvariantHolds == Spec => []InductiveInvariant
  <1>1. InductiveInvariant /\ [Next]_vars => InductiveInvariant'
    BY TypesPreserved, SoleRotationPreserved, PairsPreserved, CalmPreserved, MatchPreserved
       DEF InductiveInvariant
  <1> QED BY InitInductive, <1>1, PTL DEF Spec

(* Only a goroutine that was given a public key goes on to publish it: SaveKey    *)
(* answers one for keys that can be encoded (storage_mem.go:340-371).            *)
THEOREM KeyTypes == Spec => []TypeOK
  <1>1. InductiveInvariant => TypeOK
    BY DEF InductiveInvariant
  <1> QED BY <1>1, InvariantHolds, PTL

(* Between rotations the two keys of an actor belong together, unless the last   *)
(* SaveKey failed or overlapped another rotation (storage_mem.go:340-371).       *)
THEOREM Pairs == Spec => []PairsAgree
  <1>1. InductiveInvariant => PairsAgree
    BY DEF InductiveInvariant
  <1> QED BY <1>1, InvariantHolds, PTL

(* The suite's own comparison of the two keys, made by any caller at any time no *)
(* rotation disturbs it, finds that they match (key_storage.go:75-88, 126-139).  *)
THEOREM Comparisons == Spec => []ComparedKeysMatch
  <1>1. InductiveInvariant => ComparedKeysMatch
    BY DEF InductiveInvariant
  <1> QED BY <1>1, InvariantHolds, PTL
=============================================================================
