---------------------------- MODULE ActivityPubSuite ----------------------------
(***************************************************************************)
(* RunActivityPubTests (activitypub_storage.go:87-432): the calls the suite *)
(* makes on a backend, in their order, and what it compares their answers  *)
(* with.                                                                   *)
(*                                                                         *)
(* The random objects are numbered in the order of their IDs, which is the *)
(* order randomObjects is sorted in and the collection is filled in.       *)
(***************************************************************************)
EXTENDS Conformance, Sequences

CONSTANTS
    N,          \* how many random objects are generated (64 in the code)
    Filters     \* the query filters, each as the set of objects it matches

ASSUME SuiteAssumption ==
    /\ N \in Nat \ {0}
    /\ Filters \in Seq(SUBSET (1..N))
    /\ Filters # <<>>
    /\ \A S \in SUBSET (1..N) : Missing # S
    /\ Missing \notin {"same", "other", "accepted", "error"}

Objects == 1..N

ActivityPubPromises ==
    {"save", "collections", "load", "edit of nothing", "create", "add", "query",
     "page", "next", "remove", "delete"}

ActivityPubSteps ==
    {"init", "load root", "save", "load saved", "remove from nothing", "add to nothing",
     "create", "load created", "add", "load added", "query", "page", "remove",
     "load removed", "delete", "load deleted", "done"}

VARIABLES
    page,       \* the page: its size, how many are left, the object it starts after
    kept,       \* backend: the objects it would find
    inbox,      \* backend: the items of the collection, or Missing
    seen        \* history: what the traversal with the present page size was given

activityPubVars == <<page, kept, inbox, seen>>
backend == <<kept, inbox>>

ActivityPubTypeOK ==
    /\ page \in [size : 1..(N + 1), left : 0..N, after : 0..N]
    /\ kept \subseteq Objects
    /\ inbox = Missing \/ inbox \subseteq Objects
    /\ seen \subseteq Objects

ActivityPubInit ==
    /\ page = [size |-> 1, left |-> N, after |-> 0]
    /\ kept = {}
    /\ inbox = Missing
    /\ seen = {}

-----------------------------------------------------------------------------
Same == UNCHANGED <<at, page, seen>>

-----------------------------------------------------------------------------
(* initActivityPub and "Load Root item".  Nothing runs when init fails. *)
InitActivityPub ==
    /\ pc = "init"
    /\ \E a \in {"same", "error"} :
          /\ Answers(a, "same", "save")
          /\ Expect(~Fails(a))
          /\ pc' = IF Fails(a) THEN "done" ELSE "load root"
    /\ Same /\ UNCHANGED backend

LoadRoot ==
    /\ pc = "load root"
    /\ \E a \in {"same", "other", "error"} :
          /\ Answers(a, "same", "load")
          /\ Expect(a = "same")
    /\ pc' = "save"
    /\ Same /\ UNCHANGED backend

(* "save %d random objects".  The link to load by is asked of the item Save   *)
(* returned, also when it returned none: a nil item has no method to call.    *)
SaveObject ==
    /\ pc = "save"
    /\ \E a \in {"same", "other", "forgets", "error"} :
          /\ Answers(a, "same", "save")
          /\ kept' = IF a \in {"same", "other"} THEN kept \cup {at} ELSE kept
          /\ IF Fails(a) THEN verdict' = "panic" /\ pc' = "done"
             ELSE Expect(a # "other") /\ pc' = "load saved"
    /\ Same /\ UNCHANGED inbox

(* Saving without opening the collections is not a matter of the answer: the *)
(* check of each collection is skipped (t.Skipf at line 208).                *)
SaveWithoutCollections ==
    /\ pc = "save"
    /\ Answers("closed", "opened", "collections")
    /\ kept' = kept \cup {at}
    /\ pc' = "load saved"
    /\ Same /\ UNCHANGED <<inbox, verdict>>

LoadSaved ==
    /\ pc = "load saved"
    /\ \E a \in {"same", "other", Missing, "error"} :
          /\ Answers(a, IF at \in kept THEN "same" ELSE Missing, "load")
          /\ Expect(a = "same")
    /\ Advance("save", "remove from nothing", N)
    /\ UNCHANGED <<page, seen, backend>>

(* "operate on non-existent collection" *)
EditNothing(step, next) ==
    /\ pc = step
    /\ \E a \in {Missing, "accepted", "error"} :
          /\ Answers(a, Missing, "edit of nothing")
          /\ Expect(a = Missing)
    /\ pc' = next
    /\ Same /\ UNCHANGED backend

-----------------------------------------------------------------------------
(* "create collection" *)
CreateCollection ==
    /\ pc = "create"
    /\ \E a \in {"same", "other", "forgets", "error"} :
          /\ Answers(a, "same", "create")
          /\ inbox' = IF a \in {"same", "other"} THEN {} ELSE inbox
          /\ Expect(a \in {"same", "forgets"})
    /\ pc' = "load created"
    /\ Same /\ UNCHANGED kept

LoadCreated ==
    /\ pc = "load created"
    /\ \E a \in {"same", "other", "error"} :
          /\ Answers(a, IF inbox = Missing THEN "error" ELSE "same", "load")
          /\ Expect(a = "same")
    /\ pc' = "add"
    /\ Same /\ UNCHANGED backend

(* A collection with other items than S; what the fault leaves out is one of them. *)
AllBut(S) == {S \ {i} : i \in S}

AddTo ==
    /\ pc = "add"
    /\ IF inbox = Missing THEN Expect(FALSE) /\ UNCHANGED <<inbox, broken>>
       ELSE \E S \in {Objects, inbox} \cup AllBut(Objects), a \in {"ok", "error"} :
               /\ Answers(<<S, a>>, <<Objects, "ok">>, "add")
               /\ inbox' = S
               /\ Expect(~Fails(a))
    /\ pc' = "load added"
    /\ Same /\ UNCHANGED kept

(* What a load of the collection answers: its items and the total they are of. *)
Loaded(items, total) == [ok |-> TRUE, items |-> items, total |-> total]
NotLoaded == [ok |-> FALSE, items |-> {}, total |-> 0]
Right(items) == IF inbox = Missing THEN NotLoaded ELSE Loaded(items, Cardinality(inbox))
Wrong(items) ==
    {NotLoaded, Loaded(items, 0), Loaded(items, N + 1)}
    \cup {Loaded(S, Cardinality(S)) : S \in AllBut(items)}
    \cup {Loaded(S, N) : S \in AllBut(items)}
    \cup {Loaded(items \cup {i}, N) : i \in Objects}

(* The load of the collection, with the items the backend ought to answer. *)
LoadInbox(items, promise, good(_)) ==
    \E a \in {Right(items)} \cup Wrong(items) :
        /\ Answers(a, Right(items), promise)
        /\ Expect(good(a))

All == IF inbox = Missing THEN {} ELSE inbox

LoadAdded ==
    /\ pc = "load added"
    /\ LoadInbox(All, "load", LAMBDA a : a = Loaded(Objects, N))
    /\ pc' = "query"
    /\ Same /\ UNCHANGED backend

(* "query collection with filters": the same filter is run on the collection and *)
(* on the objects it was filled with.                                            *)
Query ==
    /\ pc = "query"
    /\ LoadInbox(All \cap Filters[at], "query", LAMBDA a : a = Loaded(Filters[at], N))
    /\ Advance("query", "page", Len(Filters))
    /\ UNCHANGED <<page, seen, backend>>

-----------------------------------------------------------------------------
(* "traverse collection with pagination %d": for each size from 1 to N + 1, as  *)
(* many loads as there are full pages.  What is expected of a page is computed  *)
(* with the very filter the page was loaded with, so that the suite follows the *)
(* backend to whatever page it calls the next one.                              *)

First(size, S) == {i \in S : Cardinality({j \in S : j <= i}) <= size}
PageOf(S) == First(page.size, {i \in S : i > page.after})
Last(S) == CHOOSE i \in S : \A j \in S : j <= i

(* A slip the runs must catch: one load more than there are full pages. *)
NextSizeRoundsUp ==
    /\ pc = "page" /\ page.left = 0
    /\ IF page.size <= N
       THEN /\ page' = [size |-> page.size + 1, left |-> (N + page.size) \div (page.size + 1),
                        after |-> 0]
            /\ UNCHANGED pc
       ELSE /\ pc' = "remove" /\ UNCHANGED page
    /\ seen' = {}
    /\ UNCHANGED <<at, verdict, broken, backend>>

NextSize ==
    /\ pc = "page" /\ page.left = 0
    /\ IF page.size <= N
       THEN /\ page' = [size |-> page.size + 1, left |-> N \div (page.size + 1), after |-> 0]
            /\ UNCHANGED pc
       ELSE /\ pc' = "remove" /\ UNCHANGED page
    /\ seen' = {}
    /\ UNCHANGED <<at, verdict, broken, backend>>

(* A slip the runs must catch: a page that is shorter than asked for is taken. *)
PageFailsUnlessShort(a, expected) ==
    \/ a.total # N
    \/ Cardinality(a.items) # Cardinality(expected)

(* The checks that end the load of a page with Fatalf. *)
PageFails(a, expected) ==
    \/ a.total # N
    \/ Cardinality(a.items) # Cardinality(expected)
    \/ Cardinality(expected) # page.size

(* A slip the runs must catch: a page is asked for until it is the right one. *)
LoadPageRetries ==
    /\ pc = "page" /\ page.left > 0
    /\ \E a \in {Right(PageOf(All))} \cup Wrong(PageOf(All)) :
          /\ Answers(a, Right(PageOf(All)), "page")
          /\ Expect(a.items = PageOf(Objects))
          /\ page' = IF a = Loaded(PageOf(Objects), N)
                     THEN [page EXCEPT !.left = @ - 1, !.after = Last(a.items)] ELSE page
          /\ seen' = seen \cup a.items
    /\ UNCHANGED <<pc, at, backend>>

(* A Fatalf leaves the filter as it was, so that the next load asks for the same *)
(* page again.                                                                  *)
LoadPage ==
    /\ pc = "page" /\ page.left > 0
    /\ LET expected == PageOf(Objects)
           items == PageOf(All)
       IN  \E a \in {Right(items)} \cup Wrong(items), skip \in {0, 1} :
             LET fatal == PageFails(a, expected)
                 next == IF a.items = {} THEN page.after ELSE Last(a.items)
             IN  /\ \/ skip = 0 /\ Answers(a, Right(items), "page")
                    \/ skip = 1 /\ a = Right(items) /\ next < N /\ Answers(1, 0, "next")
                 /\ Expect(~fatal /\ a.items = expected)
                 /\ page' = [page EXCEPT !.left = @ - 1,
                                         !.after = IF fatal THEN @ ELSE next + skip]
                 /\ seen' = seen \cup a.items
    /\ UNCHANGED <<pc, at, backend>>

-----------------------------------------------------------------------------
(* "remove %d items from collection" *)
RemoveFrom ==
    /\ pc = "remove"
    /\ IF inbox = Missing THEN Expect(FALSE) /\ UNCHANGED <<inbox, broken>>
       ELSE \E S \in {{}, inbox} \cup {{i} : i \in inbox}, a \in {"ok", "error"} :
               /\ Answers(<<S, a>>, <<{}, "ok">>, "remove")
               /\ inbox' = S
               /\ Expect(~Fails(a))
    /\ pc' = "load removed"
    /\ Same /\ UNCHANGED kept

LoadRemoved ==
    /\ pc = "load removed"
    /\ LoadInbox(All, "load", LAMBDA a : a = Loaded({}, 0))
    /\ pc' = "delete"
    /\ Same /\ UNCHANGED backend

(* "delete %d random objects" *)
Delete ==
    /\ pc = "delete"
    /\ \E gone \in BOOLEAN, a \in {"ok", "error"} :
          /\ Answers(<<gone, a>>, <<TRUE, "ok">>, "delete")
          /\ kept' = IF gone THEN kept \ {at} ELSE kept
          /\ Expect(~Fails(a))
    /\ pc' = "load deleted"
    /\ Same /\ UNCHANGED inbox

(* A slip the runs must catch: whatever is found is taken for an answer. *)
LoadDeletedTrusts ==
    /\ pc = "load deleted"
    /\ \E a \in {"same", "other", Missing, "error"} :
          /\ Answers(a, IF at \in kept THEN "same" ELSE Missing, "load")
          /\ Expect(a # "error")
    /\ Advance("delete", "done", N)
    /\ UNCHANGED <<page, seen, backend>>

LoadDeleted ==
    /\ pc = "load deleted"
    /\ \E a \in {"same", "other", Missing, "error"} :
          /\ Answers(a, IF at \in kept THEN "same" ELSE Missing, "load")
          /\ Expect(a = Missing)
    /\ Advance("delete", "done", N)
    /\ UNCHANGED <<page, seen, backend>>

-----------------------------------------------------------------------------
ActivityPubNext ==
    \/ InitActivityPub \/ LoadRoot
    \/ SaveObject \/ SaveWithoutCollections \/ LoadSaved
    \/ EditNothing("remove from nothing", "add to nothing")
    \/ EditNothing("add to nothing", "create")
    \/ CreateCollection \/ LoadCreated
    \/ AddTo \/ LoadAdded
    \/ Query
    \/ LoadPage \/ NextSize
    \/ RemoveFrom \/ LoadRemoved
    \/ Delete \/ LoadDeleted

-----------------------------------------------------------------------------
(* What the checks of the suite are meant to notice (all but the collections an *)
(* object names, whose check is skipped, and the next page).                    *)
ActivityPubChecked == ActivityPubPromises \ {"collections", "next"}

(* No silence: once the suite is through, a backend that broke a promise the     *)
(* suite checks has failed, whichever call it broke it in and however often.     *)
ActivityPubBreakersFail ==
    pc = "done" /\ broken \cap ActivityPubChecked # {} => verdict # "pass"

(* A traversal that failed no check was given as many objects as fill its pages, *)
(* whatever pages the backend called the next ones; the rest of the objects, fewer *)
(* than a page, it never asks for (activitypub_storage.go:345-392).               *)
TraversalsFillTheirPages ==
    pc = "page" /\ page.left = 0 /\ page.size <= N /\ verdict = "pass" =>
        Cardinality(seen) = N - (N % page.size)
=============================================================================
