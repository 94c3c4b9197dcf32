------------------------------- MODULE Generator -------------------------------
(***************************************************************************)
(* The generator of test data (gen/mock_build.go): every Random function   *)
(* dates what it makes by moving BaseTime on, numbers it with the counter  *)
(* of its type, and puts it into a cache that later activities choose      *)
(* their objects from.  BaseTime, typeCountMap and genCache are variables  *)
(* of the package.  The functions are called by one goroutine.             *)
(*                                                                         *)
(* An IRI is its base, the type in lower case and the number; content,     *)
(* names and media types are left out.                                     *)
(***************************************************************************)
EXTENDS Naturals, Sequences

CONSTANTS
    ObjectTypes,    \* the types content may have, "Unknown" among them
    ActorTypes,
    MaxItems,       \* bound: how many items are made
    MaxOptions,     \* bound: how many items a collection has (9 in a question)
    MaxTick         \* bound: how far a call moves BaseTime on

NoType == "no type"     \* of a tag, whose Type is never set
Collection == "OrderedCollection"
Question == "Question"
Create == "Create"
Verbs == {"Like", "Block"}

ASSUME GeneratorAssumption ==
    /\ "Unknown" \in ObjectTypes
    /\ (ObjectTypes \cup ActorTypes)
         \cap (Verbs \cup {Create, Collection, Question, NoType, "Link"}) = {}
    /\ {MaxItems, MaxOptions, MaxTick} \subseteq Nat

Types == ObjectTypes \cup ActorTypes \cup Verbs
         \cup {NoType, Collection, Question, Create, "Image", "Place", "Profile", "Link"}

Host == <<>>
Root == <<"~root">>
Nothing == <<"nothing">>
Never == MaxTick * MaxItems + 1

VARIABLES
    typeCountMap,   \* typeCountMap[t]: how many of type t were numbered
    BaseTime,
    genCache,       \* the cached items, one for each IRI
    making,         \* the items RandomItemCollection has yet to make, and what for
    made            \* history: the items in the order they were made

vars == <<typeCountMap, BaseTime, genCache, making, made>>

(* typeAsString and strings.ToLower: two types may come to share a name. *)
Lower(t) == IF t = NoType THEN "Unknown" ELSE t

(* A slip the runs must catch: the counters are kept by the type as it is. *)
CounterOfType(t) == t

(* The counter of a type is the one of its name. *)
CounterOf(t) == Lower(t)

NotMaking == [for |-> "nothing", owner |-> Root, published |-> 0, left |-> 0]

Init ==
    /\ typeCountMap = [t \in Types |-> 0]
    /\ BaseTime = 0
    /\ genCache = {}
    /\ making = NotMaking
    /\ made = <<>>

-----------------------------------------------------------------------------
(* The package's variables as one value, for functions that make several items. *)
Now == [count |-> typeCountMap, time |-> BaseTime, cache |-> genCache, made |-> made]

Becomes(g) ==
    /\ Len(g.made) <= MaxItems
    /\ typeCountMap' = g.count
    /\ BaseTime' = g.time
    /\ genCache' = g.cache
    /\ made' = g.made

(* getRandomTime *)
Tick(g, n) == [count |-> g.count, time |-> g.time + n, cache |-> g.cache, made |-> g.made]
Ticks == 0..MaxTick

(* A slip the runs must catch: nothing is replaced. *)
CachedTwice(cache, it) == cache \cup {it}

(* addToGenCache: an item replaces the one cached under the same IRI. *)
Cached(cache, it) == {c \in cache : c.id # it.id} \cup {it}

(* DefaultSetter: setObjectID, setLinkID, addToGenCache.  A collection has no number. *)
SetItemID(g, type, owner, published, object) ==
    LET n == g.count[CounterOf(type)] + 1
        id == IF type = Collection THEN <<owner, Lower(type)>>
              ELSE <<owner, Lower(type), n>>
        it == [id |-> id, type |-> type, attributedTo |-> owner, published |-> published,
               object |-> object]
    IN  [count |-> IF type = Collection THEN g.count
                   ELSE [g.count EXCEPT ![CounterOf(type)] = n],
         time  |-> g.time,
         cache |-> Cached(g.cache, it),
         made  |-> Append(g.made, it)]

(* An item dated on its own. *)
Dated(g, tick, type, owner, object) ==
    SetItemID(Tick(g, tick), type, owner, g.time + tick, object)

Newest(g) == g.made[Len(g.made)]

-----------------------------------------------------------------------------
(* One call makes the items of g, one after the other. *)
Makes(g) ==
    /\ making = NotMaking /\ Len(made) < MaxItems
    /\ Becomes(g)
    /\ UNCHANGED making

RandomCollection(owner) ==
    \E n \in Ticks : Makes(Dated(Now, n, Collection, owner, Nothing))

(* RandomObject, RandomPlace and RandomProfile.  The type of an object is found out *)
(* from its content.                                                                *)
RandomObject(owner) ==
    \E n \in Ticks, t \in ObjectTypes \cup {"Place", "Profile"} :
        Makes(Dated(Now, n, t, owner, Nothing))

RandomTagOrImage(owner) ==
    \E n \in Ticks, t \in {NoType, "Image"} : Makes(Dated(Now, n, t, owner, Nothing))

(* The icon is made first. *)
RandomActor(owner) ==
    \E n, m \in Ticks, t \in ActorTypes :
        Makes(Dated(Dated(Now, n, "Image", owner, Nothing), m, t, owner, Nothing))

(* A link has no date, and no owner. *)
RandomLink == Makes(SetItemID(Now, "Link", Host, Never, Nothing))

-----------------------------------------------------------------------------
(* RandomItemCollection makes its objects one by one; the question that has them *)
(* for options was dated before them, and is numbered after them.                *)

Begins(what, owner, published, count) ==
    /\ making = NotMaking
    /\ Len(made) + count < MaxItems
    /\ making' = [for |-> what, owner |-> owner, published |-> published, left |-> count]
    /\ UNCHANGED <<typeCountMap, genCache, made>>

RandomItemCollection(owner) ==
    /\ \E count \in 0..MaxOptions : Begins("collection", owner, 0, count)
    /\ UNCHANGED BaseTime

RandomQuestion(owner) ==
    \E n \in Ticks, count \in 0..MaxOptions :
        /\ BaseTime' = BaseTime + n
        /\ Begins("question", owner, BaseTime', count)

NextOfCollection ==
    /\ making.left > 0
    /\ \E n \in Ticks, t \in ObjectTypes : Becomes(Dated(Now, n, t, making.owner, Nothing))
    /\ making' = [making EXCEPT !.left = @ - 1]

CollectionIsMade ==
    /\ making.for # "nothing" /\ making.left = 0
    /\ IF making.for = "question"
       THEN Becomes(SetItemID(Now, Question, making.owner, making.published, Nothing))
       ELSE UNCHANGED <<typeCountMap, BaseTime, genCache, made>>
    /\ making' = NotMaking

-----------------------------------------------------------------------------
(* getFromCache with the filter of randomActivity: objects of the same owner. *)
Choices(g, owner) ==
    {c \in g.cache : c.type \in (ObjectTypes \ {"Unknown"}) \cup {"Place", "Profile", "Image"}
                     /\ c.attributedTo = owner}

(* What an activity acts on, and who decided it. *)
Chosen(it) == [id |-> it.id, by |-> "randomActivity"]
Given(id) == [id |-> id, by |-> "caller"]

(* CreateActivity and RandomNonNonContentActivity *)
Activity(g, tick, verb, owner, object) == Dated(g, tick, verb, owner, object)

(* A slip the runs must catch: whatever is cached is taken for the owner's. *)
RandomActivityOfAnyone(owner) ==
    \E n, m \in Ticks, t \in ObjectTypes, verb \in Verbs \cup {Create} :
        IF genCache = {}
        THEN LET g == Dated(Now, n, t, owner, Nothing)
             IN  Makes(Activity(g, m, verb, owner, Chosen(Newest(g))))
        ELSE \E object \in genCache : Makes(Activity(Now, m, verb, owner, Chosen(object)))

(* randomActivity: on an object of the owner, made for the purpose when there is none. *)
RandomActivity(owner) ==
    \E n, m \in Ticks, t \in ObjectTypes, verb \in Verbs \cup {Create} :
        IF Choices(Now, owner) = {}
        THEN LET g == Dated(Now, n, t, owner, Nothing)
             IN  Makes(Activity(g, m, verb, owner, Chosen(Newest(g))))
        ELSE \E object \in Choices(Now, owner) :
                Makes(Activity(Now, m, verb, owner, Chosen(object)))

(* The same two functions called by others, among them PlausibleStorage: on root or on  *)
(* anything that was made, a link, an actor or an activity, whoever it belongs to.      *)
ActivityOn(owner) ==
    \E n \in Ticks, verb \in Verbs \cup {Create} :
        \E id \in {Root} \cup {made[i].id : i \in DOMAIN made} :
            Makes(Activity(Now, n, verb, owner, Given(id)))

Owners == {Root} \cup {c.id : c \in {d \in genCache : d.type \in ActorTypes}}

Next ==
    \/ RandomLink
    \/ NextOfCollection
    \/ CollectionIsMade
    \/ \E owner \in Owners :
        \/ RandomCollection(owner)
        \/ RandomObject(owner)
        \/ RandomTagOrImage(owner)
        \/ RandomActor(owner)
        \/ RandomItemCollection(owner)
        \/ RandomQuestion(owner)
        \/ RandomActivity(owner)
        \/ ActivityOn(owner)

Spec == Init /\ [][Next]_vars

-----------------------------------------------------------------------------
Made == {made[i] : i \in DOMAIN made}

(* Besides the types: the cache has one item for each IRI that was made. *)
TypeOK ==
    /\ typeCountMap \in [Types -> 0..MaxItems]
    /\ BaseTime \in Nat
    /\ making.for \in {"nothing", "collection", "question"}
    /\ making.left \in 0..MaxOptions /\ making.published \in 0..BaseTime
    /\ genCache \subseteq Made
    /\ {c.id : c \in genCache} = {it.id : it \in Made}
    /\ \A c, d \in genCache : c.id = d.id => c = d

(* No two items are given the same IRI, whoever they belong to and in whatever order *)
(* their types are made, unless they are collections (gen/mock_build.go:166-199).    *)
UniqueIRIs ==
    \A i, j \in DOMAIN made :
        made[i].id = made[j].id /\ made[i].type # Collection => i = j

(* An activity acts on root or on something that was made before it, and that is not  *)
(* dated after it unless it is a link, which has no date.  Whoever calls for one gives *)
(* it any object (src/generator.go:28, gen/mock_build.go:622, 630, 638); where         *)
(* randomActivity chooses, from a cache that is keyed by IRIs which a later collection *)
(* shares, it is an object of the actor's own (gen/mock_build.go:84-98, 228-239).      *)
ActivitiesFollowTheirObjects ==
    \A j \in DOMAIN made : made[j].type \in Verbs \cup {Create} =>
        \/ made[j].object = Given(Root)
        \/ \E i \in 1..(j - 1) :
            /\ made[i].id = made[j].object.id
            /\ made[i].type = "Link" \/ made[i].published <= made[j].published
            /\ made[j].object.by = "randomActivity" =>
                  made[i].attributedTo = made[j].attributedTo
=============================================================================
