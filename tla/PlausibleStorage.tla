--------------------------- MODULE PlausibleStorage ---------------------------
(***************************************************************************)
(* PlausibleStorage and RandomPlausible (gen/mock_build.go:603-667): a     *)
(* quarter of the items asked for are objects and an eighth actors, each   *)
(* with the activity that creates it; activities on any of them fill up    *)
(* the rest, and all are sorted by their dates.                            *)
(*                                                                         *)
(* Actors and objects are numbered as they are made.  An activity is what  *)
(* it does, to which of them, and when.                                    *)
(***************************************************************************)
EXTENDS Integers, Sequences, SequencesExt

CONSTANTS
    MaxCount,   \* bound: how many items are asked for
    MaxTick,    \* bound: how far BaseTime moves on for an item
    IntBits     \* the width of an int

ASSUME PlausibleAssumption == {MaxCount, MaxTick, IntBits} \subseteq Nat

VARIABLES
    cnt,        \* the argument
    pc,         \* which loop runs, or how the call ended
    left,       \* how many times that loop still runs
    actors,     \* how many actors were made
    objects,    \* how many objects were made
    activities, \* the result
    BaseTime

vars == <<cnt, pc, left, actors, objects, activities, BaseTime>>

TypeOK ==
    /\ cnt \in 0..MaxCount
    /\ pc \in {"actors", "objects", "activities", "sort", "done", "panic"}
    /\ left \in 0..MaxCount
    /\ actors + objects <= cnt
    /\ BaseTime \in Nat
    /\ \A i \in DOMAIN activities : activities[i].object \in 1..(actors + objects)

-----------------------------------------------------------------------------
obCnt == cnt \div 4

Init ==
    /\ cnt \in 0..MaxCount
    /\ pc = "actors"
    /\ left = obCnt \div 2
    /\ actors = 0
    /\ objects = 0
    /\ activities = <<>>
    /\ BaseTime = 0

(* The item and the activity on it are dated one after the other. *)
Act(verb, object) ==
    \E n \in 0..MaxTick :
        /\ BaseTime' = BaseTime + n
        /\ activities' = Append(activities,
                                [verb |-> verb, object |-> object, published |-> BaseTime'])

MakeActor ==
    /\ pc = "actors" /\ left > 0
    /\ actors' = actors + 1
    /\ Act("Create", actors')
    /\ left' = left - 1
    /\ UNCHANGED <<cnt, pc, objects>>

MakeObjects ==
    /\ pc = "actors" /\ left = 0
    /\ pc' = "objects"
    /\ left' = obCnt
    /\ UNCHANGED <<cnt, actors, objects, activities, BaseTime>>

(* rand.Intn(0), the choice of an actor among none, panics. *)
Panic ==
    /\ pc \in {"objects", "activities"} /\ left > 0 /\ actors = 0
    /\ pc' = "panic"
    /\ UNCHANGED <<cnt, left, actors, objects, activities, BaseTime>>

MakeObject ==
    /\ pc = "objects" /\ left > 0 /\ actors > 0
    /\ objects' = objects + 1
    /\ Act("Create", actors + objects')
    /\ left' = left - 1
    /\ UNCHANGED <<cnt, pc, actors>>

(* A slip the runs must catch: the actors are not counted among the objects. *)
MakeActivitiesUncounted ==
    /\ pc = "objects" /\ left = 0
    /\ pc' = "activities"
    /\ left' = cnt - objects
    /\ UNCHANGED <<cnt, actors, objects, activities, BaseTime>>

MakeActivities ==
    /\ pc = "objects" /\ left = 0
    /\ pc' = "activities"
    /\ left' = cnt - (objects + actors)
    /\ UNCHANGED <<cnt, actors, objects, activities, BaseTime>>

(* A slip the runs must catch: one past the last of the objects. *)
MakeActivityPastEnd ==
    /\ pc = "activities" /\ left > 0 /\ actors > 0
    /\ \E object \in 1..(actors + objects + 1) : Act("Like", object)
    /\ left' = left - 1
    /\ UNCHANGED <<cnt, pc, actors, objects>>

MakeActivity ==
    /\ pc = "activities" /\ left > 0 /\ actors > 0
    /\ \E object \in 1..(actors + objects) : Act("Like", object)
    /\ left' = left - 1
    /\ UNCHANGED <<cnt, pc, actors, objects>>

(* int(t1.Sub(t2)): the low bits of the difference, as a signed number. *)
Truncated(n) ==
    LET low == n % (2 ^ IntBits)
    IN  IF low >= 2 ^ (IntBits - 1) THEN low - 2 ^ IntBits ELSE low

(* A slip the runs must catch: the latest first. *)
NewestFirst(a, b) == Truncated(b.published - a.published)

ItemCollectionByTimestamp(a, b) == Truncated(a.published - b.published)

(* slices.SortStableFunc, as the insertion sort it is for few items. *)
Insert(sorted, a) ==
    LET before == {i \in DOMAIN sorted : ItemCollectionByTimestamp(a, sorted[i]) >= 0}
        at == IF before = {} THEN 0 ELSE CHOOSE i \in before : \A j \in before : j <= i
    IN  SubSeq(sorted, 1, at) \o <<a>> \o SubSeq(sorted, at + 1, Len(sorted))

Sort ==
    /\ pc = "activities" /\ left = 0
    /\ activities' = FoldLeft(Insert, <<>>, activities)
    /\ pc' = "done"
    /\ UNCHANGED <<cnt, left, actors, objects, BaseTime>>

Next ==
    \/ MakeActor \/ MakeObjects \/ MakeObject
    \/ MakeActivities \/ MakeActivity
    \/ Panic \/ Sort

Spec == Init /\ [][Next]_vars

-----------------------------------------------------------------------------
(* As many items as were asked for; a call panics when that is too few for one actor *)
(* and not none (gen/mock_build.go:613-643).                                         *)
AsManyAsAsked ==
    /\ pc = "done" => Len(activities) = cnt /\ cnt \notin 1..7
    /\ pc = "panic" => activities = <<>> /\ cnt \in 1..7

(* After sorting, whoever stores the items one after the other stores the creation  *)
(* of an object before any other activity on it.                                    *)
CreatedBeforeUsed ==
    pc = "done" =>
        \A j \in DOMAIN activities : activities[j].verb # "Create" =>
            \E i \in 1..(j - 1) : /\ activities[i].verb = "Create"
                                  /\ activities[i].object = activities[j].object
=============================================================================
