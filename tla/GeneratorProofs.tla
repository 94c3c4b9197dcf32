---------------------------- MODULE GeneratorProofs ----------------------------
(***************************************************************************)
(* Proofs about Generator, for any types of objects and actors and any     *)
(* bounds: how items are numbered, cached and dated, one item at a time.   *)
(***************************************************************************)
EXTENDS Generator, TLAPS

(* A sequence, of whatever its elements are. *)
IsSequence(s) == s \in Seq({s[i] : i \in DOMAIN s})
Elements(s) == {s[i] : i \in DOMAIN s}

LEMMA AppendFacts ==
  ASSUME NEW s, IsSequence(s), NEW e
  PROVE  /\ IsSequence(Append(s, e))
         /\ Len(s) \in Nat /\ DOMAIN s = 1..Len(s)
         /\ Len(Append(s, e)) = Len(s) + 1
         /\ DOMAIN Append(s, e) = 1..(Len(s) + 1)
         /\ \A i \in DOMAIN s : Append(s, e)[i] = s[i]
         /\ Append(s, e)[Len(s) + 1] = e
         /\ Elements(Append(s, e)) = Elements(s) \cup {e}
  <1> DEFINE S == Elements(s) \cup {e}
             t == Append(s, e)
  <1>1. s \in Seq(S)
    BY DEF IsSequence, Elements
  <1>2. /\ Len(s) \in Nat /\ DOMAIN s = 1..Len(s)
        /\ t \in Seq(S)
        /\ Len(t) = Len(s) + 1
        /\ \A i \in 1..Len(s) : t[i] = s[i]
        /\ t[Len(s) + 1] = e
    BY <1>1
  <1>3. DOMAIN t = 1..(Len(s) + 1)
    BY <1>2
  <1> HIDE DEF t
  <1>4. Elements(t) = Elements(s) \cup {e}
    BY <1>2, <1>3 DEF Elements
  <1>5. t \in Seq(Elements(t))
    BY <1>2, <1>4
  <1> QED BY <1>2, <1>3, <1>4, <1>5 DEF IsSequence, Elements, t

-----------------------------------------------------------------------------
(* What holds of the package's variables between any two items. *)

IsRecord(g) ==
    g = [count |-> g.count, time |-> g.time, cache |-> g.cache, made |-> g.made]

Counted(g) ==
    /\ g.count \in [Types -> Nat]
    /\ g.time \in Nat
    /\ IsSequence(g.made)
    /\ \A t \in Types : g.count[t] <= Len(g.made)

CacheOfMade(g) ==
    /\ g.cache \subseteq Elements(g.made)
    /\ {c.id : c \in g.cache} = {it.id : it \in Elements(g.made)}
    /\ \A c, d \in g.cache : c.id = d.id => c = d

(* An IRI has a number, that its counter has reached, unless it is a collection's. *)
Numbered(g) ==
    \A i \in DOMAIN g.made :
        LET it == g.made[i]
        IN  /\ it.type \in Types
            /\ it.type = Collection => it.id = <<it.attributedTo, Lower(Collection)>>
            /\ it.type # Collection =>
                  \E n \in Nat : /\ n <= g.count[CounterOf(it.type)]
                                 /\ it.id = <<it.attributedTo, Lower(it.type), n>>

Unique(g) ==
    \A i, j \in DOMAIN g.made :
        g.made[i].id = g.made[j].id /\ g.made[i].type # Collection => i = j

InThePast(g) ==
    \A i \in DOMAIN g.made :
        g.made[i].type # "Link" => g.made[i].published \in 0..g.time

(* What an activity that is made now may act on. *)
IsObjectFor(s, object, owner, published) ==
    \/ object = Given(Root)
    \/ \E i \in DOMAIN s :
          /\ s[i].id = object.id
          /\ s[i].type = "Link" \/ s[i].published <= published
          /\ object.by = "randomActivity" => s[i].attributedTo = owner

ActivityTypes == Verbs \cup {Create}

Following(g) ==
    \A j \in DOMAIN g.made : g.made[j].type \in ActivityTypes =>
        \/ g.made[j].object = Given(Root)
        \/ \E i \in 1..(j - 1) :
            /\ g.made[i].id = g.made[j].object.id
            /\ g.made[i].type = "Link" \/ g.made[i].published <= g.made[j].published
            /\ g.made[j].object.by = "randomActivity" =>
                  g.made[i].attributedTo = g.made[j].attributedTo

Sound(g) ==
    /\ IsRecord(g)
    /\ Counted(g)
    /\ CacheOfMade(g)
    /\ Numbered(g)
    /\ Unique(g)
    /\ InThePast(g)
    /\ Following(g)

MakingOK ==
    /\ making = [for |-> making.for, owner |-> making.owner,
                 published |-> making.published, left |-> making.left]
    /\ making.for \in {"nothing", "collection", "question"}
    /\ making.left \in 0..MaxOptions
    /\ making.published \in 0..BaseTime

InductiveInvariant == Sound(Now) /\ Len(made) <= MaxItems /\ MakingOK

-----------------------------------------------------------------------------
LEMMA CountersAreTypes ==
  ASSUME NEW t \in Types
  PROVE  CounterOf(t) \in Types /\ CounterOf(t) = Lower(t)
  BY GeneratorAssumption DEF CounterOf, Lower, Types

LEMMA TickKeepsSound ==
  ASSUME NEW g, Sound(g), NEW n \in Ticks
  PROVE  /\ Sound(Tick(g, n))
         /\ Tick(g, n).time = g.time + n /\ g.time + n \in Nat
         /\ Tick(g, n).made = g.made /\ Tick(g, n).cache = g.cache
  <1> DEFINE h == Tick(g, n)
  <1>1. /\ h.count = g.count /\ h.time = g.time + n
        /\ h.cache = g.cache /\ h.made = g.made
        /\ IsRecord(h)
    BY DEF Tick, IsRecord
  <1>2. g.time \in Nat /\ n \in Nat
    BY GeneratorAssumption DEF Sound, Counted, Ticks
  <1> HIDE DEF h
  <1>3. Counted(h) /\ CacheOfMade(h) /\ Numbered(h) /\ Unique(h) /\ Following(h)
    <2>1. Counted(h)
      BY <1>1, <1>2 DEF Sound, Counted
    <2>2. CacheOfMade(h)
      BY <1>1 DEF Sound, CacheOfMade
    <2>3. Numbered(h)
      BY <1>1 DEF Sound, Numbered
    <2>4. Unique(h) /\ Following(h)
      BY <1>1 DEF Sound, Unique, Following
    <2> QED BY <2>1, <2>2, <2>3, <2>4
  <1>4. InThePast(h)
    BY <1>1, <1>2 DEF Sound, InThePast
  <1> QED BY <1>1, <1>2, <1>3, <1>4 DEF Sound, h

(* One more item. *)
LEMMA SetItemIDKeepsSound ==
  ASSUME NEW g, Sound(g), NEW t \in Types, NEW owner, NEW published \in Nat, NEW object,
         t # "Link" => published <= g.time,
         t \in ActivityTypes => IsObjectFor(g.made, object, owner, published)
  PROVE  LET h == SetItemID(g, t, owner, published, object)
             it == h.made[Len(g.made) + 1]
         IN  /\ Sound(h)
             /\ h.time = g.time
             /\ h.made = Append(g.made, it)
             /\ it.type = t /\ it.attributedTo = owner /\ it.published = published
  <1> DEFINE c == CounterOf(t)
             n == g.count[c] + 1
             id == IF t = Collection THEN <<owner, Lower(t)>> ELSE <<owner, Lower(t), n>>
             it == [id |-> id, type |-> t, attributedTo |-> owner, published |-> published,
                    object |-> object]
             count == IF t = Collection THEN g.count ELSE [g.count EXCEPT ![c] = n]
             h == SetItemID(g, t, owner, published, object)
  <1>g. /\ g.count \in [Types -> Nat] /\ g.time \in Nat /\ IsSequence(g.made)
        /\ \A s \in Types : g.count[s] <= Len(g.made)
    BY DEF Sound, Counted
  <1>c. c \in Types /\ c = Lower(t) /\ n \in Nat
    BY <1>g, CountersAreTypes
  <1>1. /\ h.count = count /\ h.time = g.time
        /\ h.cache = Cached(g.cache, it) /\ h.made = Append(g.made, it)
        /\ IsRecord(h)
    BY DEF SetItemID, IsRecord
  <1>2. /\ it.id = id /\ it.type = t /\ it.attributedTo = owner
        /\ it.published = published /\ it.object = object
    OBVIOUS
  <1>3. /\ count \in [Types -> Nat]
        /\ \A s \in Types : g.count[s] <= count[s] /\ count[s] <= g.count[s] + 1
        /\ t # Collection => count[c] = n
    BY <1>g, <1>c
  <1>4. t # Collection => id = <<owner, Lower(t), n>>
    OBVIOUS
  <1>5. t = Collection => id = <<owner, Lower(Collection)>>
    OBVIOUS
  <1> HIDE DEF it, h, count, id
  <1>s. /\ IsSequence(h.made)
        /\ Len(g.made) \in Nat /\ DOMAIN g.made = 1..Len(g.made)
        /\ Len(h.made) = Len(g.made) + 1
        /\ DOMAIN h.made = 1..(Len(g.made) + 1)
        /\ \A i \in DOMAIN g.made : h.made[i] = g.made[i]
        /\ h.made[Len(g.made) + 1] = it
        /\ Elements(h.made) = Elements(g.made) \cup {it}
    BY <1>1, <1>g, AppendFacts
  <1>6. Counted(h)
    BY <1>1, <1>3, <1>g, <1>s DEF Counted
  <1>7. CacheOfMade(h)
    <2>1. /\ g.cache \subseteq Elements(g.made)
          /\ {d.id : d \in g.cache} = {e.id : e \in Elements(g.made)}
          /\ \A d, e \in g.cache : d.id = e.id => d = e
      BY DEF Sound, CacheOfMade
    <2>2. h.cache = {d \in g.cache : d.id # it.id} \cup {it}
      BY <1>1 DEF Cached
    <2>3. h.cache \subseteq Elements(h.made)
      BY <2>1, <2>2, <1>s
    <2>4. {d.id : d \in h.cache} = {e.id : e \in Elements(h.made)}
      <3>1. ASSUME NEW e \in Elements(h.made) PROVE \E d \in h.cache : d.id = e.id
        <4>1. CASE e = it
          BY <4>1, <2>2
        <4>2. CASE e # it
          <5>1. PICK d \in g.cache : d.id = e.id
            BY <4>2, <2>1, <1>s
          <5>2. CASE d.id = it.id
            BY <5>1, <5>2, <2>2
          <5>3. CASE d.id # it.id
            BY <5>1, <5>3, <2>2
          <5> QED BY <5>2, <5>3
        <4> QED BY <4>1, <4>2
      <3> QED BY <2>3, <3>1
    <2>5. \A d, e \in h.cache : d.id = e.id => d = e
      BY <2>1, <2>2
    <2> QED BY <2>3, <2>4, <2>5 DEF CacheOfMade
  <1>8. Numbered(h)
    <2> SUFFICES ASSUME NEW i \in DOMAIN h.made
                 PROVE  /\ h.made[i].type \in Types
                        /\ h.made[i].type = Collection =>
                             h.made[i].id = <<h.made[i].attributedTo, Lower(Collection)>>
                        /\ h.made[i].type # Collection =>
                             \E m \in Nat :
                                /\ m <= h.count[CounterOf(h.made[i].type)]
                                /\ h.made[i].id = <<h.made[i].attributedTo,
                                                    Lower(h.made[i].type), m>>
      BY DEF Numbered
    <2>1. CASE i = Len(g.made) + 1
      <3>1. h.made[i] = it
        BY <2>1, <1>s
      <3>2. CASE t = Collection
        BY <3>1, <3>2, <1>2, <1>5
      <3>3. CASE t # Collection
        BY <3>1, <3>3, <1>1, <1>2, <1>3, <1>4, <1>c
      <3> QED BY <3>2, <3>3
    <2>2. CASE i # Len(g.made) + 1
      <3>1. i \in DOMAIN g.made /\ h.made[i] = g.made[i]
        BY <2>2, <1>s
      <3> DEFINE ti == g.made[i].type
      <3>2. /\ ti \in Types
            /\ ti = Collection => g.made[i].id = <<g.made[i].attributedTo, Lower(Collection)>>
            /\ ti # Collection =>
                  \E m \in Nat : /\ m <= g.count[CounterOf(ti)]
                                 /\ g.made[i].id = <<g.made[i].attributedTo, Lower(ti), m>>
        BY <3>1 DEF Sound, Numbered
      <3>3. /\ g.count[CounterOf(ti)] \in Nat /\ h.count[CounterOf(ti)] \in Nat
            /\ g.count[CounterOf(ti)] <= h.count[CounterOf(ti)]
        BY <3>2, <1>1, <1>3, <1>g, CountersAreTypes
      <3> HIDE DEF ti
      <3>4. ti # Collection =>
              \E m \in Nat : /\ m <= h.count[CounterOf(ti)]
                             /\ g.made[i].id = <<g.made[i].attributedTo, Lower(ti), m>>
        BY <3>2, <3>3
      <3> QED BY <3>1, <3>2, <3>4 DEF ti
    <2> QED BY <2>1, <2>2
  <1>9. Unique(h)
    <2>1. ASSUME NEW i \in DOMAIN g.made, t # Collection
          PROVE  g.made[i].id # it.id
      <3> DEFINE ti == g.made[i].type
      <3>1. /\ ti \in Types
            /\ ti = Collection => g.made[i].id = <<g.made[i].attributedTo, Lower(Collection)>>
            /\ ti # Collection =>
                  \E m \in Nat : /\ m <= g.count[CounterOf(ti)]
                                 /\ g.made[i].id = <<g.made[i].attributedTo, Lower(ti), m>>
        BY DEF Sound, Numbered
      <3>2. it.id = <<owner, Lower(t), n>>
        BY <1>2, <1>4, <2>1
      <3>3. CASE ti = Collection
        BY <3>1, <3>2, <3>3
      <3>4. CASE ti # Collection
        <4>1. PICK m \in Nat : /\ m <= g.count[CounterOf(ti)]
                               /\ g.made[i].id = <<g.made[i].attributedTo, Lower(ti), m>>
          BY <3>1, <3>4
        <4>2. SUFFICES ASSUME Lower(ti) = Lower(t), m = n PROVE FALSE
          BY <3>2, <4>1
        <4>3. CounterOf(ti) = c
          BY <4>2, <3>1, CountersAreTypes
        <4> QED BY <4>1, <4>2, <4>3, <1>c, <1>g
      <3> QED BY <3>3, <3>4
    <2>2. ASSUME NEW i \in DOMAIN g.made, t = Collection, g.made[i].type # Collection
          PROVE  g.made[i].id # it.id
      <3>1. \E m \in Nat : g.made[i].id = <<g.made[i].attributedTo, Lower(g.made[i].type), m>>
        BY <2>2 DEF Sound, Numbered
      <3> QED BY <3>1, <2>2, <1>2, <1>5
    <2>3. ASSUME NEW i \in DOMAIN h.made, NEW j \in DOMAIN h.made,
                 h.made[i].id = h.made[j].id, h.made[i].type # Collection
          PROVE  i = j
      <3>1. CASE i \in DOMAIN g.made /\ j \in DOMAIN g.made
        BY <2>3, <3>1, <1>s DEF Sound, Unique
      <3>2. CASE i \notin DOMAIN g.made /\ j \in DOMAIN g.made
        BY <2>1, <2>3, <3>2, <1>2, <1>s
      <3>3. CASE i \in DOMAIN g.made /\ j \notin DOMAIN g.made
        BY <2>1, <2>2, <2>3, <3>3, <1>2, <1>s
      <3>4. CASE i \notin DOMAIN g.made /\ j \notin DOMAIN g.made
        BY <3>4, <1>s
      <3> QED BY <3>1, <3>2, <3>3, <3>4
    <2> QED BY <2>3 DEF Unique
  <1>10. InThePast(h)
    BY <1>1, <1>2, <1>g, <1>s DEF Sound, InThePast
  <1>11. Following(h)
    <2> SUFFICES ASSUME NEW j \in DOMAIN h.made, h.made[j].type \in ActivityTypes
                 PROVE  \/ h.made[j].object = Given(Root)
                        \/ \E i \in 1..(j - 1) :
                              /\ h.made[i].id = h.made[j].object.id
                              /\ \/ h.made[i].type = "Link"
                                 \/ h.made[i].published <= h.made[j].published
                              /\ h.made[j].object.by = "randomActivity" =>
                                    h.made[i].attributedTo = h.made[j].attributedTo
      BY DEF Following
    <2>1. CASE j = Len(g.made) + 1
      BY <2>1, <1>2, <1>s DEF IsObjectFor
    <2>2. CASE j # Len(g.made) + 1
      <3>1. j \in DOMAIN g.made /\ h.made[j] = g.made[j] /\ 1..(j - 1) \subseteq DOMAIN g.made
        BY <2>2, <1>s
      <3> QED BY <3>1, <1>s DEF Sound, Following
    <2> QED BY <2>1, <2>2
  <1>12. Sound(h)
    BY <1>1, <1>6, <1>7, <1>8, <1>9, <1>10, <1>11 DEF Sound
  <1> QED BY <1>1, <1>2, <1>12, <1>s DEF h

LEMMA DatedKeepsSound ==
  ASSUME NEW g, Sound(g), NEW n \in Ticks, NEW t \in Types, NEW owner, NEW object,
         t \in ActivityTypes => IsObjectFor(g.made, object, owner, g.time + n)
  PROVE  LET h == Dated(g, n, t, owner, object)
             it == h.made[Len(g.made) + 1]
         IN  /\ Sound(h)
             /\ h.made = Append(g.made, it)
             /\ h.time = g.time + n
             /\ it.type = t /\ it.attributedTo = owner /\ it.published = g.time + n
  <1> DEFINE k == Tick(g, n)
  <1>1. /\ Sound(k) /\ k.made = g.made /\ k.time = g.time + n /\ g.time + n \in Nat
    BY TickKeepsSound
  <1> HIDE DEF k
  <1>2. g.time + n <= k.time
    BY <1>1
  <1>3. Dated(g, n, t, owner, object) = SetItemID(k, t, owner, g.time + n, object)
    BY DEF Dated, k
  <1> DEFINE p == g.time + n
             h == SetItemID(k, t, owner, p, object)
             it == h.made[Len(k.made) + 1]
  <1>4. /\ t \in ActivityTypes => IsObjectFor(k.made, object, owner, p)
        /\ p \in Nat /\ p <= k.time
    BY <1>1, <1>2
  <1> HIDE DEF p
  <1>5. /\ Sound(h) /\ h.time = k.time /\ h.made = Append(k.made, it)
        /\ it.type = t /\ it.attributedTo = owner /\ it.published = p
    <2>1. Sound(h)
      BY <1>1, <1>4, SetItemIDKeepsSound
    <2>2. h.time = k.time
      BY DEF SetItemID
    <2> HIDE DEF h
    <2>3. h.made = Append(k.made, it)
      <3>1. PICK e : h.made = Append(k.made, e)
        BY DEF h, SetItemID
      <3> QED BY <3>1, <1>1, AppendFacts DEF Sound, Counted
    <2>4. it.type = t /\ it.attributedTo = owner /\ it.published = p
      BY <1>1, <1>4, SetItemIDKeepsSound DEF h
    <2> QED BY <2>1, <2>2, <2>3, <2>4
  <1> HIDE DEF h
  <1> QED BY <1>1, <1>3, <1>5 DEF h, p

(* An activity on something that was made, or on root. *)
LEMMA ActivityKeepsSound ==
  ASSUME NEW g, Sound(g), NEW n \in Ticks, NEW verb \in ActivityTypes, NEW owner,
         NEW object,
         \/ object = Given(Root)
         \/ \E i \in DOMAIN g.made : object = Given(g.made[i].id)
         \/ \E it \in Elements(g.made) : object = Chosen(it) /\ it.attributedTo = owner
  PROVE  Sound(Activity(g, n, verb, owner, object))
  <1>1. g.time \in Nat /\ n \in Nat
    BY GeneratorAssumption DEF Sound, Counted, Ticks
  <1>2. ASSUME NEW i \in DOMAIN g.made
        PROVE  g.made[i].type = "Link" \/ g.made[i].published <= g.time + n
    <2>1. g.made[i].type # "Link" => g.made[i].published \in 0..g.time
      BY DEF Sound, InThePast
    <2> QED BY <2>1, <1>1
  <1>3. ASSUME \E i \in DOMAIN g.made : object = Given(g.made[i].id)
        PROVE  IsObjectFor(g.made, object, owner, g.time + n)
    BY <1>2, <1>3 DEF IsObjectFor, Given
  <1>4. ASSUME \E it \in Elements(g.made) : object = Chosen(it) /\ it.attributedTo = owner
        PROVE  IsObjectFor(g.made, object, owner, g.time + n)
    <2>1. PICK i \in DOMAIN g.made :
             object = Chosen(g.made[i]) /\ g.made[i].attributedTo = owner
      BY <1>4 DEF Elements
    <2> QED BY <2>1, <1>2 DEF IsObjectFor, Chosen
  <1>5. IsObjectFor(g.made, object, owner, g.time + n)
    BY <1>3, <1>4 DEF IsObjectFor
  <1>6. verb \in Types
    BY DEF ActivityTypes, Types
  <1> QED BY <1>5, <1>6, DatedKeepsSound DEF Activity

-----------------------------------------------------------------------------
(* The actions. *)

LEMMA BecomesSound ==
  ASSUME NEW g, Sound(g), Becomes(g)
  PROVE  Sound(Now)' /\ Len(made') <= MaxItems /\ BaseTime' = g.time
  <1>1. /\ Now' = g /\ made' = g.made /\ BaseTime' = g.time
    BY DEF Becomes, Now, Sound, IsRecord
  <1> QED BY <1>1 DEF Becomes

(* What a whole call makes leaves MakingOK as it was. *)
LEMMA MakesSound ==
  ASSUME NEW g, Sound(g), Makes(g)
  PROVE  InductiveInvariant'
  <1>1. Sound(Now)' /\ Len(made') <= MaxItems /\ BaseTime' = g.time
    BY BecomesSound DEF Makes
  <1>2. making' = NotMaking /\ g.time \in Nat
    BY DEF Makes, Sound, Counted
  <1>3. MakingOK'
    BY <1>1, <1>2, GeneratorAssumption DEF MakingOK, NotMaking
  <1> QED BY <1>1, <1>3 DEF InductiveInvariant

LEMMA PlainTypes ==
  /\ ObjectTypes \cup ActorTypes \cup {"Place", "Profile", "Image", NoType, Collection,
                                       Question, "Link"}
       \subseteq Types \ ActivityTypes
  /\ ActivityTypes \subseteq Types
  BY GeneratorAssumption
     DEF Types, ActivityTypes, Verbs, Create, Collection, Question, NoType

(* An item that acts on nothing. *)
LEMMA PlainItem ==
  ASSUME NEW g, Sound(g), NEW n \in Ticks, NEW t \in Types \ ActivityTypes, NEW owner
  PROVE  Sound(Dated(g, n, t, owner, Nothing))
  BY DatedKeepsSound

LEMMA InvariantPreserved == InductiveInvariant /\ [Next]_vars => InductiveInvariant'
  <1> SUFFICES ASSUME InductiveInvariant, [Next]_vars
               PROVE  InductiveInvariant'
    OBVIOUS
  <1>s. Sound(Now) /\ Now.cache = genCache /\ Now.time = BaseTime /\ Now.made = made
    BY DEF InductiveInvariant, Now
  <1>1. CASE RandomLink
    <2>1. Never \in Nat /\ "Link" \in Types \ ActivityTypes
      BY PlainTypes, GeneratorAssumption DEF Never
    <2>2. Sound(SetItemID(Now, "Link", Host, Never, Nothing))
      BY <2>1, <1>s, SetItemIDKeepsSound
    <2> QED BY <1>1, <2>2, MakesSound DEF RandomLink
  <1>2. ASSUME NEW owner, RandomCollection(owner) PROVE InductiveInvariant'
    BY <1>2, <1>s, PlainTypes, PlainItem, MakesSound DEF RandomCollection
  <1>3. ASSUME NEW owner, RandomObject(owner) PROVE InductiveInvariant'
    BY <1>3, <1>s, PlainTypes, PlainItem, MakesSound DEF RandomObject
  <1>4. ASSUME NEW owner, RandomTagOrImage(owner) PROVE InductiveInvariant'
    BY <1>4, <1>s, PlainTypes, PlainItem, MakesSound DEF RandomTagOrImage
  <1>5. ASSUME NEW owner, RandomActor(owner) PROVE InductiveInvariant'
    <2>1. PICK n \in Ticks, m \in Ticks, t \in ActorTypes :
             Makes(Dated(Dated(Now, n, "Image", owner, Nothing), m, t, owner, Nothing))
      BY <1>5 DEF RandomActor
    <2>2. Sound(Dated(Now, n, "Image", owner, Nothing))
      BY <1>s, PlainTypes, PlainItem
    <2>3. t \in Types \ ActivityTypes
      BY PlainTypes
    <2>4. Sound(Dated(Dated(Now, n, "Image", owner, Nothing), m, t, owner, Nothing))
      BY <2>2, <2>3, PlainItem
    <2> QED BY <2>1, <2>4, MakesSound
  <1>6. ASSUME NEW owner, RandomItemCollection(owner) \/ RandomQuestion(owner)
        PROVE  InductiveInvariant'
    <2>1. PICK n \in Ticks, count \in 0..MaxOptions, what \in {"collection", "question"} :
             \E k \in {0, n}, published \in {0, BaseTime + n} :
                /\ BaseTime' = BaseTime + k
                /\ published \in 0..(BaseTime + k)
                /\ Begins(what, owner, published, count)
      <3>1. BaseTime \in Nat
        BY <1>s DEF Sound, Counted
      <3>2. CASE RandomItemCollection(owner)
        <4>1. PICK count \in 0..MaxOptions : Begins("collection", owner, 0, count)
          BY <3>2 DEF RandomItemCollection
        <4>2. 0 \in Ticks /\ BaseTime' = BaseTime + 0 /\ 0 \in 0..(BaseTime + 0)
          BY <3>1, <3>2, GeneratorAssumption DEF Ticks, RandomItemCollection
        <4> QED BY <4>1, <4>2
      <3>3. CASE RandomQuestion(owner)
        <4>1. PICK n \in Ticks, count \in 0..MaxOptions :
                 BaseTime' = BaseTime + n /\ Begins("question", owner, BaseTime', count)
          BY <3>3 DEF RandomQuestion
        <4>2. BaseTime + n \in 0..(BaseTime + n)
          BY <3>1, GeneratorAssumption DEF Ticks
        <4> QED BY <4>1, <4>2
      <3> QED BY <1>6, <3>2, <3>3
    <2>a. PICK k \in {0, n}, published \in {0, BaseTime + n} :
             /\ BaseTime' = BaseTime + k
             /\ published \in 0..(BaseTime + k)
             /\ Begins(what, owner, published, count)
      BY <2>1
    <2>2. /\ making' = [for |-> what, owner |-> owner, published |-> published, left |-> count]
          /\ UNCHANGED <<typeCountMap, genCache, made>>
      BY <2>a DEF Begins
    <2>5. k \in Ticks
      BY GeneratorAssumption DEF Ticks
    <2>6. Now' = Tick(Now, k)
      BY <2>2, <2>a DEF Now, Tick
    <2>7. Sound(Now)'
      BY <2>5, <2>6, <1>s, TickKeepsSound
    <2>8. MakingOK'
      BY <2>2, <2>a DEF MakingOK
    <2> QED BY <2>2, <2>7, <2>8 DEF InductiveInvariant
  <1>7. CASE NextOfCollection
    <2>1. PICK n \in Ticks, t \in ObjectTypes :
             Becomes(Dated(Now, n, t, making.owner, Nothing))
      BY <1>7 DEF NextOfCollection
    <2>2. t \in Types \ ActivityTypes
      BY PlainTypes
    <2>3. /\ Sound(Dated(Now, n, t, making.owner, Nothing))
          /\ Dated(Now, n, t, making.owner, Nothing).time = BaseTime + n
      BY <2>2, <1>s, DatedKeepsSound
    <2>4. Sound(Now)' /\ Len(made') <= MaxItems /\ BaseTime' = BaseTime + n
      BY <2>1, <2>3, BecomesSound
    <2>5. MakingOK'
      <3>1. /\ making.left > 0 /\ making' = [making EXCEPT !.left = @ - 1]
            /\ MakingOK /\ BaseTime \in Nat /\ n \in Nat
        BY <1>7, <1>s, GeneratorAssumption
           DEF NextOfCollection, InductiveInvariant, Sound, Counted, Ticks
      <3>2. making' = [for |-> making.for, owner |-> making.owner,
                       published |-> making.published, left |-> making.left - 1]
        BY <3>1 DEF MakingOK
      <3> QED BY <3>1, <3>2, <2>4, GeneratorAssumption DEF MakingOK
    <2> QED BY <2>4, <2>5 DEF InductiveInvariant
  <1>8. CASE CollectionIsMade
    <2>1. making' = NotMaking
      BY <1>8 DEF CollectionIsMade
    <2>2. /\ Sound(Now)' /\ Len(made') <= MaxItems /\ BaseTime' = BaseTime
      <3>1. CASE making.for = "question"
        <4> DEFINE g == SetItemID(Now, Question, making.owner, making.published, Nothing)
        <4>1. Question \in Types \ ActivityTypes /\ Question # "Link"
          BY PlainTypes DEF Question
        <4>2. making.published \in 0..BaseTime
          BY DEF InductiveInvariant, MakingOK
        <4>3. Sound(g) /\ g.time = BaseTime
          <5>1. making.published \in Nat /\ making.published <= Now.time
            BY <4>2, <1>s DEF Sound, Counted
          <5>2. g.time = Now.time
            BY DEF SetItemID
          <5>3. Sound(g)
            BY <5>1, <4>1, <1>s, SetItemIDKeepsSound
          <5> QED BY <5>2, <5>3, <1>s
        <4>4. Becomes(g)
          BY <1>8, <3>1 DEF CollectionIsMade
        <4> HIDE DEF g
        <4> QED BY <4>3, <4>4, BecomesSound
      <3>2. CASE making.for # "question"
        <4>1. UNCHANGED <<typeCountMap, BaseTime, genCache, made>>
          BY <1>8, <3>2 DEF CollectionIsMade
        <4>2. Now' = Now
          BY <4>1 DEF Now
        <4> QED BY <4>1, <4>2 DEF InductiveInvariant
      <3> QED BY <3>1, <3>2
    <2>3. MakingOK'
      BY <2>1, <2>2, <1>s, GeneratorAssumption DEF MakingOK, NotMaking, Sound, Counted
    <2> QED BY <2>2, <2>3 DEF InductiveInvariant
  <1>9. ASSUME NEW owner, RandomActivity(owner) PROVE InductiveInvariant'
    <2>1. PICK n \in Ticks, m \in Ticks, t \in ObjectTypes, verb \in ActivityTypes :
             IF Choices(Now, owner) = {}
             THEN LET g == Dated(Now, n, t, owner, Nothing)
                  IN  Makes(Activity(g, m, verb, owner, Chosen(Newest(g))))
             ELSE \E object \in Choices(Now, owner) :
                     Makes(Activity(Now, m, verb, owner, Chosen(object)))
      BY <1>9 DEF RandomActivity, ActivityTypes
    <2>2. CASE Choices(Now, owner) = {}
      <3> DEFINE g == Dated(Now, n, t, owner, Nothing)
                 object == g.made[Len(made) + 1]
      <3>1. t \in Types \ ActivityTypes /\ IsSequence(made) /\ BaseTime \in Nat /\ n \in Nat
        BY <1>s, PlainTypes, GeneratorAssumption DEF Sound, Counted, Ticks
      <3>2. /\ Sound(g) /\ g.made = Append(made, object) /\ g.time = BaseTime + n
            /\ object.attributedTo = owner /\ object.published = BaseTime + n
        BY <3>1, <1>s, DatedKeepsSound
      <3>3. Makes(Activity(g, m, verb, owner, Chosen(Newest(g))))
        BY <2>1, <2>2
      <3> HIDE DEF g
      <3>4. Len(g.made) = Len(made) + 1 /\ Len(made) + 1 \in DOMAIN g.made
        BY <3>1, <3>2, AppendFacts
      <3>5. Newest(g) = object
        BY <3>4 DEF Newest
      <3>6. object \in Elements(g.made)
        BY <3>4 DEF Elements
      <3>7. Sound(Activity(g, m, verb, owner, Chosen(object)))
        BY <3>2, <3>6, ActivityKeepsSound
      <3> QED BY <3>3, <3>5, <3>7, MakesSound
    <2>3. CASE Choices(Now, owner) # {}
      <3>1. PICK object \in Choices(Now, owner) :
               Makes(Activity(Now, m, verb, owner, Chosen(object)))
        BY <2>1, <2>3
      <3>2. object \in Elements(made) /\ object.attributedTo = owner
        BY <1>s DEF Choices, Sound, CacheOfMade
      <3>3. Sound(Activity(Now, m, verb, owner, Chosen(object)))
        BY <3>2, <1>s, ActivityKeepsSound
      <3> QED BY <3>1, <3>3, MakesSound
    <2> QED BY <2>2, <2>3
  <1>10. ASSUME NEW owner, ActivityOn(owner) PROVE InductiveInvariant'
    <2>1. PICK n \in Ticks, verb \in ActivityTypes,
               id \in {Root} \cup {made[i].id : i \in DOMAIN made} :
             Makes(Activity(Now, n, verb, owner, Given(id)))
      BY <1>10 DEF ActivityOn, ActivityTypes
    <2>2. Sound(Activity(Now, n, verb, owner, Given(id)))
      BY <1>s, ActivityKeepsSound
    <2> QED BY <2>1, <2>2, MakesSound
  <1>11. CASE UNCHANGED vars
    BY <1>11 DEF vars, InductiveInvariant, Now, MakingOK
  <1> QED
    BY <1>1, <1>2, <1>3, <1>4, <1>5, <1>6, <1>7, <1>8, <1>9, <1>10, <1>11 DEF Next

LEMMA InitInductive == Init => InductiveInvariant
  <1> SUFFICES ASSUME Init PROVE InductiveInvariant
    OBVIOUS
  <1>1. /\ Now.count = [t \in Types |-> 0] /\ Now.time = 0 /\ Now.cache = {}
        /\ Now.made = <<>> /\ IsRecord(Now)
    BY DEF Init, Now, IsRecord
  <1>2. IsSequence(<<>>) /\ Len(<<>>) = 0 /\ DOMAIN <<>> = {}
    BY DEF IsSequence
  <1>3. Sound(Now)
    BY <1>1, <1>2 DEF Sound, Counted, CacheOfMade, Numbered, Unique, InThePast, Following,
                      Elements
  <1>4. Len(made) <= MaxItems /\ MakingOK
    BY <1>2, GeneratorAssumption DEF Init, MakingOK, NotMaking
  <1> QED BY <1>3, <1>4 DEF InductiveInvariant

LEMMA InvariantHolds == Spec => []InductiveInvariant
  BY InitInductive, InvariantPreserved, PTL DEF Spec

-----------------------------------------------------------------------------
(* The counters, the clock and the cache keep their types, and the cache has one *)
(* item for each IRI that was made (gen/mock_build.go:84-87, 146-210).           *)
THEOREM GeneratorTypes == Spec => []TypeOK
  <1>1. InductiveInvariant => TypeOK
    <2> SUFFICES ASSUME InductiveInvariant PROVE TypeOK
      OBVIOUS
    <2>1. /\ typeCountMap \in [Types -> Nat] /\ BaseTime \in Nat /\ IsSequence(made)
          /\ \A t \in Types : typeCountMap[t] <= Len(made)
      BY DEF InductiveInvariant, Sound, Counted, Now
    <2>2. Len(made) \in Nat /\ MaxItems \in Nat /\ Len(made) <= MaxItems
      BY <2>1, AppendFacts, GeneratorAssumption DEF InductiveInvariant
    <2>3. typeCountMap \in [Types -> 0..MaxItems]
      BY <2>1, <2>2
    <2>4. /\ genCache \subseteq Made
          /\ {c.id : c \in genCache} = {it.id : it \in Made}
          /\ \A c, d \in genCache : c.id = d.id => c = d
      BY DEF InductiveInvariant, Sound, CacheOfMade, Now, Made, Elements
    <2> QED BY <2>1, <2>3, <2>4 DEF TypeOK, InductiveInvariant, MakingOK
  <1> QED BY <1>1, InvariantHolds, PTL

(* Whatever is made, in whatever order and for whomever, no two items but          *)
(* collections are given the same IRI (gen/mock_build.go:166-199).                 *)
THEOREM IRIsAreUnique == Spec => []UniqueIRIs
  <1>1. InductiveInvariant => UniqueIRIs
    BY DEF InductiveInvariant, Sound, Unique, Now, UniqueIRIs
  <1> QED BY <1>1, InvariantHolds, PTL

(* Whoever calls for an activity, it acts on root or on something made before it that *)
(* is not dated after it, if it is dated at all; where randomActivity chose, on an     *)
(* object of its own actor (src/generator.go:28, gen/mock_build.go:84-98, 228-239,     *)
(* 418-441, 573-587).                                                                  *)
THEOREM ActivitiesFollow == Spec => []ActivitiesFollowTheirObjects
  <1>1. InductiveInvariant => ActivitiesFollowTheirObjects
    BY DEF InductiveInvariant, Sound, Following, Now, ActivitiesFollowTheirObjects,
           ActivityTypes
  <1> QED BY <1>1, InvariantHolds, PTL
=============================================================================
