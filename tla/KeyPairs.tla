------------------------------- MODULE KeyPairs -------------------------------
(***************************************************************************)
(* Keys in memStorage (storage_mem.go:331-371) and how the suite uses them *)
(* (key_storage.go:34-145): a caller gives an actor a new private key with *)
(* SaveKey, which answers the public key, and publishes that one by saving *)
(* the actor with it.  The two steps are two calls, and SaveKey stores the *)
(* private key before it knows whether it can encode the public one.       *)
(*                                                                         *)
(* An actor is stored together with its public key; only the key is        *)
(* modelled, as the private key it belongs to.                             *)
(***************************************************************************)
CONSTANTS
    Procs,      \* goroutines that share the storage
    Actors,     \* IRIs of actors
    Keys,       \* private keys
    Kind,       \* Kind[k]: the Go type of the key
    Absent      \* what the map answers under an IRI it does not hold

Encodable == {"ecdsa", "rsa", "ed25519"}    \* x509.MarshalPKIXPublicKey takes these
Kinds == Encodable \cup {"dsa", "other"}

ASSUME KeysAssumption ==
    /\ Kind \in [Keys -> Kinds]
    /\ Absent \notin Keys

VARIABLES
    private,    \* private[a]: the key under a/privateKey
    published,  \* published[a]: the private key that a's stored public key belongs to
    frame,      \* the call each goroutine is in, or how its last one ended
    unsettled   \* history: the actors whose last SaveKey failed or overlapped a rotation

vars == <<private, published, frame, unsettled>>

Stored == Keys \cup {Absent}
Phases == {"idle", "saved", "loaded", "compared", "failed", "panicked"}
Frames == [at : Phases, actor : Actors \cup {Absent}, key : Stored, other : Stored,
           calm : BOOLEAN]

Idle == [at |-> "idle", actor |-> Absent, key |-> Absent, other |-> Absent, calm |-> FALSE]

TypeOK ==
    /\ private \in [Actors -> Stored]
    /\ published \in [Actors -> Stored]
    /\ frame \in [Procs -> Frames]
    /\ unsettled \subseteq Actors
    /\ \A p \in Procs :
          frame[p].at = "saved" => /\ frame[p].actor \in Actors
                                   /\ frame[p].key \in Keys
                                   /\ Kind[frame[p].key] \in Encodable
    /\ \A p \in Procs : frame[p].at = "loaded" => frame[p].actor \in Actors

Init ==
    /\ private = [a \in Actors |-> Absent]
    /\ published = [a \in Actors |-> Absent]
    /\ frame = [p \in Procs |-> Idle]
    /\ unsettled = {}

-----------------------------------------------------------------------------
(* Between calls.  A goroutine that panicked makes no more. *)
Free(p) == frame[p].at \notin {"saved", "loaded", "panicked"}

(* Some goroutine is between the two calls that give a its new key. *)
Rotating(a) == \E p \in Procs : frame[p].at = "saved" /\ frame[p].actor = a

(* Whoever compares the keys of a at the time was disturbed. *)
Disturbed(a) ==
    [p \in Procs |-> IF frame[p].actor = a THEN [frame[p] EXCEPT !.calm = FALSE] ELSE frame[p]]

(* What becomes of the caller.  A DSA key is refused when its public key is       *)
(* encoded; for a key of another type there is no error and no public key, and    *)
(* the caller, who checks the error only, dereferences the nil pointer.           *)
After(k) ==
    CASE Kind[k] \in Encodable -> "saved"
      [] Kind[k] = "dsa"       -> "failed"
      [] OTHER                 -> "panicked"

(* A slip the runs must catch: every key is taken for one that can be encoded. *)
SaveKeyUnchecked(p, a, k) ==
    /\ Free(p)
    /\ private' = [private EXCEPT ![a] = k]
    /\ frame' = [Disturbed(a) EXCEPT ![p] = [Idle EXCEPT !.at = "saved", !.actor = a, !.key = k]]
    /\ unsettled' = IF Rotating(a) THEN unsettled \cup {a} ELSE unsettled \ {a}
    /\ UNCHANGED published

(* Another: an actor that has a private key keeps it. *)
SaveKeyOnce(p, a, k) ==
    /\ Free(p)
    /\ private' = [private EXCEPT ![a] = IF @ = Absent THEN k ELSE @]
    /\ frame' = [Disturbed(a) EXCEPT ![p] = [Idle EXCEPT !.at = After(k), !.actor = a, !.key = k]]
    /\ unsettled' = IF Rotating(a) \/ Kind[k] \notin Encodable
                    THEN unsettled \cup {a} ELSE unsettled \ {a}
    /\ UNCHANGED published

(* SaveKey: the key is stored whatever comes of it. *)
SaveKey(p, a, k) ==
    /\ Free(p)
    /\ private' = [private EXCEPT ![a] = k]
    /\ frame' = [Disturbed(a) EXCEPT ![p] = [Idle EXCEPT !.at = After(k), !.actor = a, !.key = k]]
    /\ unsettled' = IF Rotating(a) \/ Kind[k] \notin Encodable
                    THEN unsettled \cup {a} ELSE unsettled \ {a}
    /\ UNCHANGED published

(* A slip the runs must catch: an actor that has a key is not saved again. *)
PublishOnce(p) ==
    /\ frame[p].at = "saved"
    /\ published' = [published EXCEPT ![frame[p].actor] = IF @ = Absent THEN frame[p].key ELSE @]
    /\ frame' = [frame EXCEPT ![p] = Idle]
    /\ UNCHANGED <<private, unsettled>>

(* The caller saves the actor with the public key it was given. *)
Publish(p) ==
    /\ frame[p].at = "saved"
    /\ published' = [published EXCEPT ![frame[p].actor] = frame[p].key]
    /\ frame' = [frame EXCEPT ![p] = Idle]
    /\ UNCHANGED <<private, unsettled>>

-----------------------------------------------------------------------------
(* A slip the runs must catch: a caller goes on using the key it once loaded. *)
LoadKeyOnce(p, a) ==
    /\ Free(p)
    /\ LET k == IF frame[p].at = "compared" /\ frame[p].actor = a THEN frame[p].key ELSE private[a]
       IN  frame' = [frame EXCEPT ![p] =
                       [at    |-> IF k = Absent THEN "failed" ELSE "loaded",
                        actor |-> a, key |-> k, other |-> Absent,
                        calm  |-> ~Rotating(a) /\ a \notin unsettled]]
    /\ UNCHANGED <<private, published, unsettled>>

(* "load %T key": the private key is loaded, then the actor, and the public key *)
(* of the first compared with the one of the second.                            *)
LoadKey(p, a) ==
    /\ Free(p)
    /\ frame' = [frame EXCEPT ![p] =
                   [at    |-> IF private[a] = Absent THEN "failed" ELSE "loaded",
                    actor |-> a, key |-> private[a], other |-> Absent,
                    calm  |-> ~Rotating(a) /\ a \notin unsettled]]
    /\ UNCHANGED <<private, published, unsettled>>

LoadActor(p) ==
    /\ frame[p].at = "loaded"
    /\ frame' = [frame EXCEPT ![p].at = "compared", ![p].other = published[frame[p].actor]]
    /\ UNCHANGED <<private, published, unsettled>>

-----------------------------------------------------------------------------
Next ==
    \E p \in Procs :
        \/ \E a \in Actors, k \in Keys : SaveKey(p, a, k)
        \/ Publish(p)
        \/ \E a \in Actors : LoadKey(p, a)
        \/ LoadActor(p)

Spec == Init /\ [][Next]_vars

-----------------------------------------------------------------------------
(* Between rotations an actor's private key and its public one belong together, *)
(* provided the last SaveKey answered a key and overlapped no other rotation of *)
(* that actor, whatever went wrong before (key_storage.go:34-45, 103-115).      *)
PairsAgree ==
    \A a \in Actors : ~Rotating(a) /\ a \notin unsettled => private[a] = published[a]

(* "invalid actor public PEM key" (key_storage.go:87, 138): who compares the two  *)
(* keys of an actor that is not being given another one finds that they match.    *)
ComparedKeysMatch ==
    \A p \in Procs : frame[p].at = "compared" /\ frame[p].calm => frame[p].key = frame[p].other

-----------------------------------------------------------------------------
(* The inductive invariant of the proofs. *)

(* A rotation that overlapped none is the only one, and its key is the stored one. *)
SoleRotation ==
    \A p \in Procs : frame[p].at = "saved" /\ frame[p].actor \notin unsettled =>
        /\ private[frame[p].actor] = frame[p].key
        /\ \A q \in Procs : frame[q].at = "saved" /\ frame[q].actor = frame[p].actor => q = p

(* Whoever loaded a private key undisturbed holds the one that is still stored. *)
CalmKeyIsCurrent ==
    \A p \in Procs : frame[p].at = "loaded" /\ frame[p].calm =>
        /\ ~Rotating(frame[p].actor)
        /\ frame[p].actor \notin unsettled
        /\ private[frame[p].actor] = frame[p].key

InductiveInvariant ==
    TypeOK /\ SoleRotation /\ PairsAgree /\ CalmKeyIsCurrent /\ ComparedKeysMatch
=============================================================================
