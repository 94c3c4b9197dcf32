----------------------------- MODULE SuiteProofs -----------------------------
(***************************************************************************)
(* Proofs about SuiteRun, for any number of objects and any filters:       *)
(*                                                                         *)
(* 1. the suite raises no false alarm, and its OAuth tests can be repeated;*)
(* 2. whatever promises a backend breaks, the variables keep their types,  *)
(*    and a traversal that passes was given what it should be;             *)
(* 3. the tests that run are the ones that were asked for;                 *)
(* 4. a backend that breaks one promise the tests check does not pass.     *)
(*                                                                         *)
(* While a backend has kept its promises it is known, at each step of the  *)
(* suite, what it holds.  Good says what that is, for the step that comes  *)
(* next.                                                                   *)
(***************************************************************************)
EXTENDS SuiteRun, FiniteSetTheorems, SequenceTheorems, WellFoundedInduction, TLAPS

(* The ActivityPub tests. *)
InActivityPub == pc \in ActivityPubSteps \ {"done"}

GoodObjects ==
    /\ pc \in {"init", "load root"} => kept = {}
    /\ pc = "save" => at \in Objects /\ kept = 1..(at - 1)
    /\ pc = "load saved" => at \in Objects /\ kept = 1..at
    /\ pc \in {"remove from nothing", "add to nothing", "create", "load created", "add",
               "load added", "query", "page", "remove", "load removed"} => kept = Objects
    /\ pc = "delete" => at \in Objects /\ kept = at..N
    /\ pc = "load deleted" => at \in Objects /\ kept = (at + 1)..N

GoodInbox ==
    /\ pc \in {"load created", "add"} => inbox = {}
    /\ pc \in {"load added", "query", "page", "remove"} => inbox = Objects
    /\ pc = "load removed" => inbox = {}

GoodPlace ==
    /\ InActivityPub /\ pc \notin {"save", "load saved", "query", "delete", "load deleted"}
         => at = 1
    /\ pc = "query" => at \in 1..Len(Filters)
    /\ InActivityPub /\ pc \notin {"page", "remove", "load removed", "delete", "load deleted"}
         => page = [size |-> 1, left |-> N, after |-> 0]
    /\ pc = "page" => /\ page \in [size : 1..(N + 1), left : 0..N, after : 0..N]
                      /\ page.after + page.left * page.size <= N

GoodActivityPub ==
    /\ TestActivityPub \notin ran => ActivityPubInit
    /\ InActivityPub => TestActivityPub \in ran
    /\ GoodObjects
    /\ GoodInbox
    /\ GoodPlace

(* The OAuth tests.  The client is known where there is a saver, and there is one *)
(* where values refer to it.                                                      *)
InOAuth == pc \in OAuthSteps \ {"oauth", "done"}
Code1 == "xx44aa1!"
Code2 == "yy44aa1!"

GoodClients ==
    /\ InOAuth => /\ way \in Ways
                  /\ way = "refers" => "saver" \in able
                  /\ "saver" \notin able => clients = "none"
    /\ pc \in {"get client", "list clients", "update client", "get updated",
               "remove client", "get removed"} => "saver" \in able
    /\ pc \in {"get client", "list clients", "update client"} => clients = "first"
    /\ pc \in {"get updated", "remove client"} => clients = "second"
    /\ pc = "get removed" => clients = "none"
    /\ pc \in {"save code", "load code", "remove code", "load removed code",
               "client for access", "code for access", "save access", "load access",
               "remove access", "load removed access", "client for refresh",
               "code for refresh", "access for refresh", "load refresh",
               "remove refresh", "load removed refresh"}
         => ("saver" \in able => clients = "first")

(* The data of the running test, whose clients the comparisons take away. *)
Bare == [client |-> "none", rest |-> "given"]
Compared(code) == [code |-> code, auth |-> Bare, access |-> Bare]

GoodMine ==
    /\ pc \in {"save code", "load code"} => mine = NewGrant(Code1)
    /\ pc \in {"remove code", "load removed code", "client for access"} =>
         mine = [code |-> Code1, auth |-> Bare, access |-> Given]
    /\ pc \in {"code for access", "save access", "load access"} => mine = NewGrant(Code2)
    /\ pc \in {"remove access", "load removed access", "client for refresh"} =>
         mine = Compared(Code2)
    /\ pc \in {"code for refresh", "access for refresh", "load refresh", "remove refresh",
               "load removed refresh"} => mine = NewGrant(Code1)

Own == {Nothing, Copy(Given), Copy(Bare)}
LeftCode2 == IF way = "shares" THEN Copy(Bare) ELSE Copy(Given)

GoodCodes ==
    /\ InOAuth => codes \in [Codes -> Own \cup {Shared}]
    /\ pc \in {"save client", "get client", "list clients", "update client", "get updated",
               "remove client", "get removed", "client for code", "save code"}
         => codes[Code1] \in Own
    /\ InOAuth /\ pc \notin {"save access", "load access", "remove access",
                             "load removed access", "client for refresh"}
         => codes[Code2] \in Own
    /\ pc \in {"load code", "load refresh", "access for refresh", "remove refresh",
               "load removed refresh"} => codes[Code1] = Keep(Given)
    /\ pc \in {"load removed code", "client for access", "code for access", "save access",
               "load access", "remove access", "load removed access", "client for refresh",
               "code for refresh"} => codes[Code1] = Nothing
    /\ pc \in {"save access", "load access", "remove access", "load removed access",
               "client for refresh"} => codes[Code2] = Keep(Given)
    /\ pc \in {"code for refresh", "access for refresh", "load refresh", "remove refresh",
               "load removed refresh"} => codes[Code2] = LeftCode2

GoodAccess ==
    /\ InOAuth /\ pc \notin {"load access", "remove access", "load refresh", "remove refresh",
                             "load removed refresh"} => access # Shared
    /\ pc = "load access" => access = Keep(NewGrant(Code2))
    /\ pc \in {"load removed access", "client for refresh", "code for refresh",
               "access for refresh"} => access = Nothing
    /\ pc \in {"load refresh", "remove refresh", "load removed refresh"}
         => access = Keep(NewGrant(Code1))
    /\ pc = "load refresh" => refresh = TRUE
    /\ pc = "load removed refresh" => refresh = FALSE

GoodOAuth ==
    /\ TestOAuth \notin ran \/ pc = "oauth" => OAuthInit
    /\ InOAuth \/ pc = "oauth" => TestOAuth \in ran
    /\ TestOAuth \in ran /\ ~InOAuth /\ pc # "oauth" => way \in Ways /\ Repeatable
    /\ GoodClients
    /\ GoodMine
    /\ GoodCodes
    /\ GoodAccess

(* The tests on secrets. *)
GoodSecrets ==
    /\ pc \in {"save actor", "load key", "load actor"} => key = "given" /\ public = "given"
    /\ pc \in {"load key", "load actor"} => actor = "given"
    /\ pc = "load actor" => private = "given"
    /\ pc = "check password" => password = TRUE
    /\ pc = "load metadata" => meta = at

Good ==
    /\ verdict = "pass"
    /\ way \in Ways \cup {Unknown}
    /\ GoodActivityPub
    /\ GoodOAuth
    /\ GoodSecrets

Inv == broken = {} => Good

-----------------------------------------------------------------------------
LEMMA InvInitially == RunInit => Inv
  BY DEF RunInit, Inv, Good, GoodActivityPub, GoodOAuth, GoodSecrets, InActivityPub, InOAuth,
         GoodObjects, GoodInbox, GoodPlace, GoodClients, GoodMine, GoodCodes, GoodAccess,
         TestActivityPub, TestOAuth, Unknown

(* What the steps of the other tests leave alone. *)
LEMMA ActivityPubAside ==
  ASSUME GoodActivityPub, ~InActivityPub, ~InActivityPub', ran \subseteq ran',
         UNCHANGED activityPubVars
  PROVE  GoodActivityPub'
  BY DEF GoodActivityPub, InActivityPub, ActivityPubSteps, GoodObjects, GoodInbox, GoodPlace,
         ActivityPubInit, activityPubVars

LEMMA OAuthAside ==
  ASSUME GoodOAuth, ~InOAuth, pc # "oauth", ~InOAuth', pc' # "oauth",
         UNCHANGED oauthVars, TestOAuth \in ran' <=> TestOAuth \in ran,
         way \in Ways => way' = way
  PROVE  GoodOAuth'
  <1>1. Repeatable /\ way \in Ways => Repeatable'
    BY DEF Repeatable, oauthVars, LeftClients, LeftCodes, LeftAccess, Detached
  <1>2. OAuthInit => OAuthInit'
    BY DEF OAuthInit, oauthVars
  <1> QED
    BY <1>1, <1>2 DEF GoodOAuth, InOAuth, OAuthSteps, GoodClients, GoodMine, GoodCodes, GoodAccess

LEMMA SecretsAside ==
  ASSUME pc' \notin SecretsSteps \ {"done"}
  PROVE  GoodSecrets'
  BY DEF GoodSecrets, SecretsSteps

-----------------------------------------------------------------------------
(* The page of a collection that lacks nothing: the objects after the last one, and *)
(* as many as asked for while there are that many.                                  *)
LEMMA WholePage ==
  ASSUME page \in [size : 1..(N + 1), left : 0..N, after : 0..N],
         page.after + page.size <= N
  PROVE  /\ PageOf(Objects) = (page.after + 1)..(page.after + page.size)
         /\ Cardinality(PageOf(Objects)) = page.size
         /\ PageOf(Objects) # {}
         /\ Last(PageOf(Objects)) = page.after + page.size
  <1> DEFINE after == page.after
             size == page.size
             S == {i \in Objects : i > after}
             P == (after + 1)..(after + size)
  <1>1. N \in Nat /\ after \in Nat /\ size \in Nat /\ size > 0 /\ after + size <= N
    BY SuiteAssumption
  <1>2. S = (after + 1)..N
    BY <1>1 DEF Objects
  <1>3. ASSUME NEW i \in S PROVE Cardinality({j \in S : j <= i}) = i - after
    <2>1. i \in Nat /\ i > after /\ i <= N
      BY <1>1, <1>3 DEF Objects
    <2>2. {j \in S : j <= i} = (after + 1)..i
      BY <1>1, <1>2, <2>1
    <2>3. Cardinality((after + 1)..i) = i - (after + 1) + 1
      BY <1>1, <2>1, FS_Interval
    <2>4. i - (after + 1) + 1 = i - after
      BY <1>1, <2>1
    <2> HIDE DEF S
    <2> QED BY <2>2, <2>3, <2>4
  <1>4. PageOf(Objects) = {i \in S : Cardinality({j \in S : j <= i}) <= size}
    BY DEF PageOf, First
  <1>5. PageOf(Objects) = {i \in S : i - after <= size}
    BY <1>3, <1>4
  <1>6. PageOf(Objects) = P
    BY <1>1, <1>2, <1>5
  <1>7. Cardinality(P) = size
    BY <1>1, FS_Interval
  <1>8. after + size \in P /\ \A j \in P : j <= after + size
    BY <1>1
  <1>9. Last(P) = after + size
    <2>1. \E i \in P : \A j \in P : j <= i
      BY <1>8
    <2>2. Last(P) \in P /\ \A j \in P : j <= Last(P)
      BY <2>1 DEF Last
    <2> QED BY <1>1, <1>8, <2>2
  <1> QED BY <1>6, <1>7, <1>8, <1>9

LEMMA AllObjects == Cardinality(Objects) = N /\ Cardinality({}) = 0
  BY SuiteAssumption, FS_Interval, FS_EmptySet DEF Objects

LEMMA FilterPlaces ==
  /\ 1 \in 1..Len(Filters)
  /\ \A i \in 1..Len(Filters) : i < Len(Filters) => i + 1 \in 1..Len(Filters)
  <1>1. Len(Filters) \in Nat \ {0}
    BY SuiteAssumption, EmptySeq
  <1> QED BY <1>1

LEMMA Division ==
  ASSUME NEW n \in Nat, NEW d \in Nat, d > 0
  PROVE  n \div d \in 0..n /\ (n \div d) * d <= n
  <1>1. n \div d >= 0 /\ n \div d <= n
    OBVIOUS
  <1>2. (n \div d) * d <= n
    OBVIOUS
  <1> QED BY <1>1, <1>2

(* The pages of the next size. *)
FullPages(size) == [size |-> size, left |-> N \div size, after |-> 0]

LEMMA FullPagesFit ==
  \A size \in 1..(N + 1) :
    LET next == FullPages(size)
    IN  /\ next \in [size : 1..(N + 1), left : 0..N, after : 0..N]
        /\ next.after + next.left * next.size <= N
  <1> TAKE size \in 1..(N + 1)
  <1>1. N \in Nat /\ size \in Nat /\ size > 0
    BY SuiteAssumption
  <1>2. N \div size \in 0..N /\ (N \div size) * size <= N
    BY <1>1, Division
  <1> QED BY <1>1, <1>2 DEF FullPages

(* Of the objects up to the present one, and after it. *)
LEMMA Places ==
  /\ 1 \in Objects /\ 1..(1 - 1) = {} /\ 1..N = Objects
  /\ \A i \in Objects :
       /\ i \in Nat
       /\ 1..(i - 1) \cup {i} = 1..i
       /\ i..N \ {i} = (i + 1)..N
       /\ i < N => i + 1 \in Objects /\ 1..i = 1..((i + 1) - 1)
       /\ ~(i < N) => 1..i = Objects
       /\ i \in 1..i /\ i \notin (i + 1)..N
  BY SuiteAssumption DEF Objects

(* A step of the ActivityPub tests on a backend that keeps its promises. *)
LEMMA ActivityPubStep ==
  ASSUME Good, ActivityPubNext, UNCHANGED <<way, oauthVars, secretsVars, runVars>>, broken' = {}
  PROVE  verdict' = "pass" /\ GoodActivityPub' /\ InActivityPub /\ (pc' = "done" \/ InActivityPub')
  <1> DEFINE Moves(from, to) == pc = from /\ pc' = to /\ verdict' = "pass"
  <1> USE DEF Good, GoodActivityPub, InActivityPub, ActivityPubSteps, GoodObjects, GoodInbox,
          GoodPlace, Expect, Fails, Same, backend, runVars
  <1>1. CASE InitActivityPub
    <2>1. Moves("init", "load root")
      BY <1>1 DEF Answers, InitActivityPub
    <2> QED BY <1>1, <2>1 DEF InitActivityPub
  <1>2. CASE LoadRoot
    <2>1. Moves("load root", "save")
      BY <1>2 DEF Answers, LoadRoot
    <2> QED BY <1>2, <2>1, Places DEF LoadRoot
  <1>3. CASE SaveObject
    <2>1. Moves("save", "load saved") /\ kept' = kept \cup {at}
      BY <1>3 DEF Answers, SaveObject
    <2>2. at \in Objects /\ kept' = 1..at
      BY <2>1, Places
    <2> QED BY <1>3, <2>1, <2>2 DEF SaveObject
  <1>4. CASE SaveWithoutCollections
    BY <1>4 DEF Answers, SaveWithoutCollections
  <1>5. CASE LoadSaved
    <2>0. at \in Objects /\ kept = 1..at /\ at \in kept
      BY <1>5, Places DEF LoadSaved
    <2>1. pc = "load saved" /\ verdict' = "pass" /\ UNCHANGED <<page, seen, kept, inbox>>
      BY <1>5, <2>0 DEF Answers, LoadSaved
    <2>2. CASE at < N
      <3>1. Moves("load saved", "save") /\ at' = at + 1
        BY <1>5, <2>1, <2>2 DEF LoadSaved, Advance
      <3>2. at' \in Objects /\ kept' = 1..(at' - 1)
        BY <2>0, <2>1, <2>2, <3>1, Places
      <3> QED BY <1>5, <2>1, <3>1, <3>2
    <2>3. CASE ~(at < N)
      <3>1. Moves("load saved", "remove from nothing") /\ at' = 1
        BY <1>5, <2>1, <2>3 DEF LoadSaved, Advance
      <3>2. kept' = Objects
        BY <2>0, <2>1, <2>3, Places
      <3> QED BY <1>5, <2>1, <3>1, <3>2
    <2> QED BY <2>2, <2>3
  <1>6. CASE EditNothing("remove from nothing", "add to nothing")
    <2>1. Moves("remove from nothing", "add to nothing")
      BY <1>6 DEF Answers, EditNothing
    <2> QED BY <1>6, <2>1 DEF EditNothing
  <1>7. CASE EditNothing("add to nothing", "create")
    <2>1. Moves("add to nothing", "create")
      BY <1>7 DEF Answers, EditNothing
    <2> QED BY <1>7, <2>1 DEF EditNothing
  <1>8. CASE CreateCollection
    <2>1. Moves("create", "load created") /\ inbox' = {}
      BY <1>8 DEF Answers, CreateCollection
    <2> QED BY <1>8, <2>1 DEF CreateCollection
  <1>9. CASE LoadCreated
    <2>1. {} # Missing
      BY SuiteAssumption
    <2>2. Moves("load created", "add")
      BY <1>9, <2>1 DEF Answers, LoadCreated
    <2> QED BY <1>9, <2>2 DEF LoadCreated
  <1>in. inbox = Objects => inbox # Missing /\ {} # Missing
    BY SuiteAssumption DEF Objects
  <1>a. CASE AddTo
    <2>1. {} # Missing
      BY SuiteAssumption
    <2>2. Moves("add", "load added") /\ inbox' = Objects
      BY <1>a, <2>1 DEF Answers, AddTo
    <2> QED BY <1>a, <2>2 DEF AddTo
  <1>b. CASE LoadAdded
    <2>1. Right(All) = Loaded(Objects, N)
      BY <1>b, <1>in, AllObjects DEF LoadAdded, Right, All
    <2>2. Moves("load added", "query")
      BY <1>b, <2>1 DEF Answers, LoadAdded, LoadInbox
    <2>3. 1 \in 1..Len(Filters)
      BY FilterPlaces
    <2> QED BY <1>b, <2>2, <2>3 DEF LoadAdded
  <1>c. CASE Query
    <2>1. at \in 1..Len(Filters) /\ Filters[at] \subseteq Objects
      BY <1>c, SuiteAssumption DEF Query, Objects
    <2>2. Right(All \cap Filters[at]) = Loaded(Filters[at], N)
      <3>1. Objects \cap Filters[at] = Filters[at]
        BY <2>1
      <3> QED BY <1>c, <1>in, <3>1, AllObjects DEF Query, Right, All
    <2>3. pc = "query" /\ verdict' = "pass" /\ UNCHANGED <<page, seen, kept, inbox>>
      BY <1>c, <2>2 DEF Answers, Query, LoadInbox
    <2>4. CASE at < Len(Filters)
      <3>1. Moves("query", "query") /\ at' = at + 1
        BY <1>c, <2>3, <2>4 DEF Query, Advance
      <3>2. at' \in 1..Len(Filters)
        BY <2>1, <2>4, <3>1, FilterPlaces
      <3> QED BY <2>3, <3>1, <3>2
    <2>5. CASE ~(at < Len(Filters))
      <3>1. Moves("query", "page") /\ at' = 1
        BY <1>c, <2>3, <2>5 DEF Query, Advance
      <3>2. /\ page \in [size : 1..(N + 1), left : 0..N, after : 0..N]
            /\ page.after + page.left * page.size <= N
        BY <2>3, SuiteAssumption
      <3> QED BY <2>3, <3>1, <3>2
    <2> QED BY <2>4, <2>5
  <1>d. CASE NextSize
    <2>1. pc = "page" /\ verdict' = "pass" /\ UNCHANGED <<at, kept, inbox>>
      BY <1>d DEF NextSize
    <2>2. CASE page.size <= N
      <3>1. Moves("page", "page") /\ page' = FullPages(page.size + 1)
        BY <1>d, <2>1, <2>2 DEF NextSize, FullPages
      <3>2. page.size + 1 \in 1..(N + 1)
        BY <2>1, <2>2, SuiteAssumption
      <3> QED BY <2>1, <3>1, <3>2, FullPagesFit
    <2>3. CASE ~(page.size <= N)
      <3>1. Moves("page", "remove")
        BY <1>d, <2>1, <2>3 DEF NextSize
      <3> QED BY <2>1, <3>1
    <2> QED BY <2>2, <2>3
  <1>e. CASE LoadPage
    <2> DEFINE whole == PageOf(Objects)
    <2>1. /\ pc = "page" /\ pc' = "page" /\ page.left > 0 /\ UNCHANGED <<at, kept, inbox>>
          /\ inbox = Objects /\ All = Objects
          /\ page \in [size : 1..(N + 1), left : 0..N, after : 0..N]
          /\ page.after + page.left * page.size <= N
      BY <1>e, <1>in DEF LoadPage, All
    <2>2. page.after + page.size + (page.left - 1) * page.size <= N
      <3>1. page.left * page.size = page.size + (page.left - 1) * page.size
        BY <2>1
      <3> QED BY <2>1, <3>1, SuiteAssumption
    <2>3. page.after + page.size <= N
      <3>1. (page.left - 1) * page.size >= 0
        BY <2>1
      <3> QED BY <2>1, <2>2, <3>1, SuiteAssumption
    <2>4. /\ Cardinality(whole) = page.size
          /\ whole # {}
          /\ Last(whole) = page.after + page.size
      BY <2>1, <2>3, WholePage
    <2>5. Right(whole) = Loaded(whole, N)
      BY <2>1, <1>in, AllObjects DEF Right
    <2>6. ~PageFails(Loaded(whole, N), whole)
      BY <2>4 DEF PageFails, Loaded
    <2>7. verdict' = "pass" /\ page' = [page EXCEPT !.left = @ - 1, !.after = Last(whole)]
      <3>1. PICK a \in {Right(PageOf(All))} \cup Wrong(PageOf(All)), skip \in {0, 1} :
               LET fatal == PageFails(a, whole)
                   next == IF a.items = {} THEN page.after ELSE Last(a.items)
               IN  /\ \/ skip = 0 /\ Answers(a, Right(PageOf(All)), "page")
                      \/ skip = 1 /\ a = Right(PageOf(All)) /\ next < N /\ Answers(1, 0, "next")
                   /\ Expect(~fatal /\ a.items = whole)
                   /\ page' = [page EXCEPT !.left = @ - 1,
                                           !.after = IF fatal THEN @ ELSE next + skip]
        BY <1>e DEF LoadPage
      <3> HIDE DEF whole
      <3>2. a = Loaded(whole, N) /\ skip = 0
        BY <3>1, <2>1, <2>5 DEF Answers, whole
      <3>3. Loaded(whole, N).items = whole
        BY DEF Loaded
      <3>4. Last(whole) + 0 = Last(whole)
        BY <2>1, <2>4
      <3> QED BY <3>1, <3>2, <3>3, <3>4, <2>1, <2>4, <2>6
    <2>8. /\ page' \in [size : 1..(N + 1), left : 0..N, after : 0..N]
          /\ page'.after + page'.left * page'.size <= N
      <3>1. page' = [size |-> page.size, left |-> page.left - 1, after |-> page.after + page.size]
        BY <2>1, <2>4, <2>7
      <3>2. page.left - 1 \in 0..N /\ page.after + page.size \in 0..N
        BY <2>1, <2>3, SuiteAssumption
      <3> QED BY <2>1, <2>2, <3>1, <3>2
    <2> QED BY <2>1, <2>7, <2>8
  <1>f. CASE RemoveFrom
    <2>1. Moves("remove", "load removed") /\ inbox' = {}
      BY <1>f, <1>in DEF Answers, RemoveFrom
    <2> QED BY <1>f, <2>1 DEF RemoveFrom
  <1>g. CASE LoadRemoved
    <2>1. Right(All) = Loaded({}, 0)
      BY <1>g, SuiteAssumption, AllObjects DEF LoadRemoved, Right, All
    <2>2. Moves("load removed", "delete")
      BY <1>g, <2>1 DEF Answers, LoadRemoved, LoadInbox
    <2> QED BY <1>g, <2>2, Places DEF LoadRemoved
  <1>h. CASE Delete
    <2>1. Moves("delete", "load deleted") /\ kept' = kept \ {at}
      BY <1>h DEF Answers, Delete
    <2>2. at \in Objects /\ kept' = (at + 1)..N
      BY <2>1, Places
    <2> QED BY <1>h, <2>1, <2>2 DEF Delete
  <1>i. CASE LoadDeleted
    <2>0. at \in Objects /\ kept = (at + 1)..N /\ at \notin kept
      BY <1>i, Places DEF LoadDeleted
    <2>1. pc = "load deleted" /\ verdict' = "pass" /\ UNCHANGED <<page, seen, kept, inbox>>
      BY <1>i, <2>0 DEF Answers, LoadDeleted
    <2>2. CASE at < N
      <3>1. Moves("load deleted", "delete") /\ at' = at + 1
        BY <1>i, <2>1, <2>2 DEF LoadDeleted, Advance
      <3>2. at' \in Objects /\ kept' = at'..N
        BY <2>0, <2>1, <2>2, <3>1, Places
      <3> QED BY <2>1, <3>1, <3>2
    <2>3. CASE ~(at < N)
      <3>1. Moves("load deleted", "done")
        BY <1>i, <2>1, <2>3 DEF LoadDeleted, Advance
      <3> QED BY <2>1, <3>1
    <2> QED BY <2>2, <2>3
  <1> QED
    BY <1>1, <1>2, <1>3, <1>4, <1>5, <1>6, <1>7, <1>8, <1>9,
       <1>a, <1>b, <1>c, <1>d, <1>e, <1>f, <1>g, <1>h, <1>i DEF ActivityPubNext

-----------------------------------------------------------------------------
(* What the comparisons make of the data, and what the storage keeps of it. *)
LEMMA Stripping ==
  /\ Stripped(Given, Given) = Bare
  /\ [Given EXCEPT !.client = "none"] = Bare
  /\ [Given EXCEPT !.client = "first"] = Given
  BY DEF Stripped, Given, Bare

LEMMA GrantFields ==
  \A c : /\ NewGrant(c).code = c /\ NewGrant(c).auth = Given /\ NewGrant(c).access = Given
        /\ Compared(c).code = c /\ Compared(c).auth = Bare /\ Compared(c).access = Bare
        /\ [NewGrant(c) EXCEPT !.auth = Bare] = [code |-> c, auth |-> Bare, access |-> Given]
        /\ StrippedGrant(NewGrant(c), NewGrant(c)) = Compared(c)
  <1>1. Given.client = "first"
    BY DEF Given
  <1>2. ASSUME NEW g, g = [code |-> g.code, auth |-> Given, access |-> Given]
        PROVE  StrippedGrant(g, g) = Compared(g.code)
    <2>1. g.auth = Given /\ g.access = Given
      BY <1>2
    <2>2. StrippedGrant(g, g) = [g EXCEPT !.auth = Bare, !.access = Bare]
      BY <2>1, Stripping DEF StrippedGrant
    <2> QED BY <1>2, <2>2 DEF Compared
  <1> QED BY <1>2 DEF NewGrant, Compared

LEMMA Entry ==
  /\ Nothing.kept = "nothing" /\ Shared.kept = "shared"
  /\ \A d : Copy(d).kept = "copy" /\ Copy(d).data = d
  /\ Nothing # Shared /\ \A d : Copy(d) # Shared /\ Copy(d) # Nothing
  <1>1. Nothing.kept = "nothing" /\ Shared.kept = "shared"
    BY DEF Nothing, Shared
  <1>2. \A d : Copy(d).kept = "copy" /\ Copy(d).data = d
    BY DEF Copy
  <1> QED BY <1>1, <1>2

(* What a load answers to what was saved. *)
LEMMA KeptCode ==
  ASSUME NEW c \in Codes, codes[c] = Keep(Given), mine.auth = Given,
         way = "refers" => clients = "first"
  PROVE  LoadedCode(c) = Found(Given)
  <1>1. Referred(Given) = Given
    BY Stripping DEF Referred
  <1>2. CASE way = "shares"
    BY <1>2, Entry DEF LoadedCode, Keep
  <1>3. CASE way # "shares"
    BY <1>1, <1>3, Entry DEF LoadedCode, Keep
  <1> QED BY <1>2, <1>3

LEMMA KeptAccess ==
  ASSUME NEW c \in Codes, codes[c] = Keep(Given), access = Keep(NewGrant(c)), mine = NewGrant(c),
         way = "refers" => clients = "first"
  PROVE  LoadedAccess = Found(NewGrant(c))
  <1>1. Referred(Given) = Given
    BY Stripping DEF Referred
  <1>2. CASE way = "shares"
    BY <1>2, Entry DEF LoadedAccess, Keep
  <1>3. CASE way # "shares"
    <2>1. LoadedCode(c).found /\ LoadedCode(c).data = Given
      BY KeptCode, GrantFields DEF Found
    <2>2. LoadedGrant(NewGrant(c)) = NewGrant(c)
      BY <1>1, <2>1, GrantFields DEF LoadedGrant, NewGrant
    <2> QED BY <1>3, <2>2, Entry DEF LoadedAccess, Keep
  <1> QED BY <1>2, <1>3

LEMMA SavedCode ==
  ASSUME NEW c \in Codes, NEW e \in Own \cup {Shared}, codes \in [Codes -> Own \cup {Shared}],
         codes' = [codes EXCEPT ![c] = e]
  PROVE  /\ codes' \in [Codes -> Own \cup {Shared}]
         /\ codes'[c] = e /\ \A d \in Codes \ {c} : codes'[d] = codes[d]
  OBVIOUS

LEMMA OwnStays ==
  \A e, d : e \in Own \/ e # Shared => Detached(e, d) = e
  BY Entry DEF Own, Detached

(* A step of the OAuth tests on a backend that keeps its promises. *)
LEMMA OAuthStep ==
  ASSUME Good, OAuthNext, UNCHANGED <<activityPubVars, secretsVars, runVars>>, broken' = {}
  PROVE  /\ verdict' = "pass" /\ GoodOAuth' /\ way' \in Ways /\ (way \in Ways => way' = way)
         /\ InOAuth \/ pc = "oauth"
         /\ pc' = "done" \/ InOAuth'
  <1> DEFINE Moves(from, to) == pc = from /\ pc' = to /\ verdict' = "pass"
  <1> USE DEF Good, GoodOAuth, GoodClients, GoodMine, GoodCodes, GoodAccess, InOAuth, OAuthSteps,
          Expect, Fails, runVars, oauthVars
  <1>c. Codes = {Code1, Code2} /\ Code1 # Code2
    BY DEF Codes, Code1, Code2
  <1>1. CASE RunOAuthTests
    <2>1. /\ pc = "oauth" /\ pc' = "save client" /\ verdict' = "pass" /\ OAuthInit
          /\ way' \in Ways /\ (way \in Ways => way' = way)
          /\ way' = "refers" => "saver" \in able'
      BY <1>1 DEF RunOAuthTests, Fits, Answers, FindsWay, Ways, Unknown
    <2>2. CASE fresh'
      <3>1. clients' = "none" /\ codes' = [c \in Codes |-> Nothing] /\ access' = Nothing
        BY <1>1, <2>1, <2>2 DEF RunOAuthTests, store, OAuthInit
      <3>2. codes' \in [Codes -> Own \cup {Shared}] /\ codes'[Code1] \in Own /\ codes'[Code2] \in Own
        BY <1>c, <3>1 DEF Own
      <3> QED BY <2>1, <3>1, <3>2, Entry
    <2>3. CASE ~fresh'
      <3>1. clients' = LeftClients' /\ codes' = LeftCodes' /\ access' = LeftAccess'
        BY <1>1, <2>3 DEF RunOAuthTests
      <3>2. codes' = [c \in Codes |-> IF way' = "shares" /\ c = Code2 THEN Copy(Bare) ELSE Copy(Given)]
        BY <3>1, Stripping DEF LeftCodes, Code2
      <3>3. codes' \in [Codes -> Own \cup {Shared}] /\ codes'[Code1] \in Own /\ codes'[Code2] \in Own
        BY <1>c, <3>2 DEF Own
      <3>4. access' # Shared /\ ("saver" \notin able' => clients' = "none")
        BY <3>1, Entry DEF LeftAccess, LeftClients
      <3> QED BY <2>1, <3>3, <3>4
    <2> QED BY <2>2, <2>3
  <1>2. CASE TestSaveClient
    <2>1. CASE "saver" \in able
      <3>1. Moves("save client", "get client") /\ clients' = "first"
        BY <1>2, <2>1 DEF TestSaveClient, SaveClient, Answers
      <3> QED BY <1>2, <2>1, <3>1 DEF TestSaveClient
    <2>2. CASE "saver" \notin able
      BY <1>2, <2>2 DEF TestSaveClient
    <2> QED BY <2>1, <2>2
  <1>3. CASE UpdateClient
    <2>1. Moves("update client", "get updated") /\ clients' = "second"
      BY <1>3 DEF UpdateClient, SaveClient, Answers
    <2> QED BY <1>3, <2>1 DEF UpdateClient
  <1>4. CASE GetClient("get client", "list clients", "first")
    <2>1. Moves("get client", "list clients")
      BY <1>4 DEF GetClient, Answers
    <2> QED BY <1>4, <2>1 DEF GetClient
  <1>5. CASE GetClient("get updated", "remove client", "second")
    <2>1. Moves("get updated", "remove client")
      BY <1>5 DEF GetClient, Answers
    <2> QED BY <1>5, <2>1 DEF GetClient
  <1>6. CASE GetClient("get removed", "client for code", "none")
    <2>1. Moves("get removed", "client for code")
      BY <1>6 DEF GetClient, Answers
    <2> QED BY <1>6, <2>1 DEF GetClient
  <1>7. CASE ListClients
    <2>1. {clients} \ {"none"} = {"first"}
      BY <1>7 DEF ListClients
    <2>2. Moves("list clients", "update client")
      BY <1>7, <2>1 DEF ListClients, Answers
    <2> QED BY <1>7, <2>2 DEF ListClients
  <1>8. CASE RemoveClient
    <2>1. Moves("remove client", "get removed") /\ clients' = "none"
      BY <1>8 DEF RemoveClient, Answers
    <2> QED BY <1>8, <2>1 DEF RemoveClient
  <1>9. CASE NewTest("client for code", "save code", "xx44aa1!")
    <2>1. /\ Moves("client for code", "save code") /\ mine' = NewGrant(Code1)
          /\ codes' = [c \in Codes |-> Detached(codes[c], mine.auth)]
          /\ access' = Detached(access, mine)
          /\ "saver" \in able => clients' = "first"
          /\ "saver" \notin able => clients' = clients
          /\ UNCHANGED <<way, able, refresh>>
      BY <1>9 DEF NewTest, SaveClient, Answers, Code1, Code2
    <2>2. codes' = codes /\ access' = access
      BY <1>c, <2>1, OwnStays
    <2> QED BY <2>1, <2>2
  <1>10. CASE SaveAuthorize("save code", "load code", "save code")
    <2>1. /\ pc = "save code" /\ mine = NewGrant(Code1) /\ mine' = [mine EXCEPT !.auth = mine.auth]
          /\ codes' = [codes EXCEPT ![mine.code] = Keep(mine.auth)]
          /\ pc' = "load code" /\ verdict' = "pass"
          /\ UNCHANGED <<way, able, clients, access, refresh>>
      BY <1>10 DEF SaveAuthorize, Blame, Faulty, Answers
    <2>2. mine' = mine /\ codes' = [codes EXCEPT ![Code1] = Keep(Given)]
      BY <2>1, GrantFields DEF NewGrant
    <2>3. Keep(Given) \in Own \cup {Shared} /\ Keep(Given)' = Keep(Given) /\ LeftCode2' = LeftCode2
      BY <2>1 DEF Keep, Own, LeftCode2
    <2>4. /\ codes' \in [Codes -> Own \cup {Shared}]
          /\ codes'[Code1] = Keep(Given) /\ codes'[Code2] = codes[Code2]
      BY <1>c, <2>1, <2>2, <2>3, SavedCode
    <2> QED BY <2>1, <2>2, <2>3, <2>4
  <1>11. CASE NewTest("client for access", "code for access", "yy44aa1!")
    <2>1. /\ Moves("client for access", "code for access") /\ mine' = NewGrant(Code2)
          /\ codes' = [c \in Codes |-> Detached(codes[c], mine.auth)]
          /\ access' = Detached(access, mine)
          /\ "saver" \in able => clients' = "first"
          /\ "saver" \notin able => clients' = clients
          /\ UNCHANGED <<way, able, refresh>>
      BY <1>11 DEF NewTest, SaveClient, Answers, Code1, Code2
    <2>2. codes[Code1] # Shared /\ codes[Code2] # Shared /\ access # Shared
      BY <2>1, Entry DEF Own
    <2>3. access' = access /\ \A c \in Codes : Detached(codes[c], mine.auth) = codes[c]
      BY <1>c, <2>1, <2>2, OwnStays
    <2>4. codes' = codes
      BY <2>1, <2>3
    <2> QED BY <2>1, <2>3, <2>4
  <1>12. CASE SaveAuthorize("code for access", "save access", "save again")
    <2>1. /\ pc = "code for access" /\ mine = NewGrant(Code2) /\ mine' = [mine EXCEPT !.auth = mine.auth]
          /\ codes' = [codes EXCEPT ![mine.code] = Keep(mine.auth)]
          /\ pc' = "save access" /\ verdict' = "pass"
          /\ UNCHANGED <<way, able, clients, access, refresh>>
      BY <1>12 DEF SaveAuthorize, Blame, Faulty, Answers
    <2>2. mine' = mine /\ codes' = [codes EXCEPT ![Code2] = Keep(Given)]
      BY <2>1, GrantFields DEF NewGrant
    <2>3. Keep(Given) \in Own \cup {Shared} /\ Keep(Given)' = Keep(Given) /\ LeftCode2' = LeftCode2
      BY <2>1 DEF Keep, Own, LeftCode2
    <2>4. /\ codes' \in [Codes -> Own \cup {Shared}]
          /\ codes'[Code2] = Keep(Given) /\ codes'[Code1] = codes[Code1]
      BY <1>c, <2>1, <2>2, <2>3, SavedCode
    <2> QED BY <2>1, <2>2, <2>3, <2>4
  <1>13. CASE NewTest("client for refresh", "code for refresh", "xx44aa1!")
    <2>1. /\ Moves("client for refresh", "code for refresh") /\ mine' = NewGrant(Code1)
          /\ codes' = [c \in Codes |-> Detached(codes[c], mine.auth)]
          /\ access' = Detached(access, mine)
          /\ "saver" \in able => clients' = "first"
          /\ "saver" \notin able => clients' = clients
          /\ UNCHANGED <<way, able, refresh>>
      BY <1>13 DEF NewTest, SaveClient, Answers, Code1, Code2
    <2>2. access' = Nothing /\ codes'[Code1] = Nothing
      BY <1>c, <2>1, OwnStays, Entry
    <2>3. mine.auth = Bare /\ codes'[Code2] = Detached(Keep(Given), Bare)
      BY <1>c, <2>1, GrantFields
    <2>4. codes'[Code2] = LeftCode2 /\ LeftCode2' = LeftCode2 /\ LeftCode2 \in Own
      BY <2>1, <2>3, Entry DEF Detached, Keep, LeftCode2, Own
    <2>5. codes' \in [Codes -> Own]
      BY <1>c, <2>1, <2>2, <2>4 DEF Own
    <2> QED BY <1>c, <2>1, <2>2, <2>4, <2>5, Entry
  <1>14. CASE SaveAuthorize("code for refresh", "access for refresh", "save again")
    <2>1. /\ pc = "code for refresh" /\ mine = NewGrant(Code1) /\ mine' = [mine EXCEPT !.auth = mine.auth]
          /\ codes' = [codes EXCEPT ![mine.code] = Keep(mine.auth)]
          /\ pc' = "access for refresh" /\ verdict' = "pass"
          /\ UNCHANGED <<way, able, clients, access, refresh>>
      BY <1>14 DEF SaveAuthorize, Blame, Faulty, Answers
    <2>2. mine' = mine /\ codes' = [codes EXCEPT ![Code1] = Keep(Given)]
      BY <2>1, GrantFields DEF NewGrant
    <2>3. Keep(Given) \in Own \cup {Shared} /\ Keep(Given)' = Keep(Given) /\ LeftCode2' = LeftCode2
      BY <2>1 DEF Keep, Own, LeftCode2
    <2>4. /\ codes' \in [Codes -> Own \cup {Shared}]
          /\ codes'[Code1] = Keep(Given) /\ codes'[Code2] = codes[Code2]
      BY <1>c, <2>1, <2>2, <2>3, SavedCode
    <2> QED BY <2>1, <2>2, <2>3, <2>4
  <1>15. CASE LoadAuthorize
    <2>1. pc = "load code" /\ mine = NewGrant(Code1) /\ codes[Code1] = Keep(Given)
      BY <1>15 DEF LoadAuthorize
    <2>2. mine.code = Code1 /\ mine.auth = Given /\ LoadedCode(mine.code) = Found(Given)
      BY <1>c, <2>1, KeptCode, GrantFields
    <2>3. Found(Given).found /\ Found(Given).data = Given
      BY DEF Found
    <2>4. /\ Moves("load code", "remove code") /\ UNCHANGED <<way, able, clients, access>>
          /\ mine' = [mine EXCEPT !.auth = Bare]
          /\ codes' = codes \/ codes' = [codes EXCEPT ![Code1] = Copy(Bare)]
      BY <1>15, <2>2, <2>3, Stripping DEF LoadAuthorize, Answers
    <2>5. mine' = [code |-> Code1, auth |-> Bare, access |-> Given]
      BY <2>1, <2>4, GrantFields
    <2>6. codes' \in [Codes -> Own \cup {Shared}] /\ codes'[Code2] = codes[Code2]
      BY <1>c, <2>1, <2>4, SavedCode DEF Own
    <2> QED BY <2>1, <2>4, <2>5, <2>6
  <1>16. CASE Remove("remove code", "load removed code")
    <2>1. /\ Moves("remove code", "load removed code") /\ mine' = mine
          /\ mine = [code |-> Code1, auth |-> Bare, access |-> Given]
          /\ codes' = [codes EXCEPT ![mine.code] = Nothing] /\ access' = access
          /\ UNCHANGED <<way, able, clients>>
      BY <1>16 DEF Remove, Removal, Answers
    <2>2. codes' \in [Codes -> Own \cup {Shared}] /\ codes'[Code1] = Nothing /\ codes'[Code2] = codes[Code2]
      BY <1>c, <2>1, SavedCode DEF Own
    <2> QED BY <2>1, <2>2
  <1>17. CASE LoadAfterRemove("load removed code", "client for access", LoadedCode(mine.code), "load code")
    <2>1. /\ pc = "load removed code" /\ codes[Code1] = Nothing
          /\ mine = [code |-> Code1, auth |-> Bare, access |-> Given]
      BY <1>17 DEF LoadAfterRemove
    <2>. mine.code = Code1
      BY <2>1
    <2>2. ~LoadedCode(mine.code).found
      BY <2>1, Entry DEF LoadedCode, NotFound
    <2>3. Moves("load removed code", "client for access")
      BY <1>17, <2>2 DEF LoadAfterRemove, Answers
    <2> QED BY <1>17, <2>3 DEF LoadAfterRemove
  <1>18. CASE SaveAccess("save access", "load access", Faulty, TRUE)
    <2>1. /\ Moves("save access", "load access") /\ mine = NewGrant(Code2) /\ mine' = mine
          /\ access' = Keep(mine) /\ UNCHANGED <<way, able, clients, codes>>
      BY <1>18 DEF SaveAccess, Blame, Faulty, Answers
    <2>2. Keep(NewGrant(Code2))' = Keep(NewGrant(Code2)) /\ Keep(Given)' = Keep(Given)
      BY <2>1 DEF Keep, NewGrant
    <2> QED BY <2>1, <2>2
  <1>19. CASE LoadAccess
    <2>1. pc = "load access" /\ mine = NewGrant(Code2)
      BY <1>19 DEF LoadAccess
    <2>2. LoadedAccess = Found(NewGrant(Code2))
      BY <1>c, <2>1, KeptAccess
    <2>3. Found(NewGrant(Code2)).found /\ Found(NewGrant(Code2)).data = NewGrant(Code2)
      BY DEF Found
    <2>4. /\ Moves("load access", "remove access") /\ UNCHANGED <<way, able, clients, codes>>
          /\ mine' = StrippedGrant(NewGrant(Code2), NewGrant(Code2))
      BY <1>19, <2>1, <2>2, <2>3 DEF LoadAccess, Answers, AccessDataEqual
    <2>5. mine' = Compared(Code2) /\ Keep(Given)' = Keep(Given)
      BY <2>4, GrantFields DEF Keep
    <2> QED BY <2>1, <2>4, <2>5
  <1>20. CASE Remove("remove access", "load removed access")
    <2>1. /\ Moves("remove access", "load removed access") /\ access' = Nothing
          /\ UNCHANGED <<way, able, clients, codes, mine>>
      BY <1>20 DEF Remove, Removal, Answers
    <2>2. Keep(Given)' = Keep(Given)
      BY <2>1 DEF Keep
    <2> QED BY <2>1, <2>2, Entry
  <1>21. CASE LoadAfterRemove("load removed access", "client for refresh", LoadedAccess, "load access")
    <2>1. ~LoadedAccess.found
      BY <1>21, Entry DEF LoadAfterRemove, LoadedAccess, NotFound
    <2>2. Moves("load removed access", "client for refresh") /\ UNCHANGED <<at, way, oauthVars>>
      BY <1>21, <2>1 DEF LoadAfterRemove, Answers
    <2>3. Keep(Given)' = Keep(Given)
      BY <2>2 DEF Keep
    <2> QED BY <2>2, <2>3
  <1>22. CASE SaveAccess("access for refresh", "load refresh", Faulty \cup {"no refresh"}, FALSE)
    <2>1. /\ Moves("access for refresh", "load refresh") /\ mine = NewGrant(Code1) /\ mine' = mine
          /\ access' = Keep(mine) /\ refresh' = TRUE /\ UNCHANGED <<way, able, clients, codes>>
      BY <1>22 DEF SaveAccess, Blame, Faulty, Answers
    <2>2. /\ Keep(NewGrant(Code1))' = Keep(NewGrant(Code1))
          /\ Keep(Given)' = Keep(Given) /\ LeftCode2' = LeftCode2
      BY <2>1 DEF Keep, NewGrant, LeftCode2
    <2> QED BY <2>1, <2>2
  <1>23. CASE LoadRefresh
    <2>1. pc = "load refresh" /\ mine = NewGrant(Code1) /\ refresh
      BY <1>23 DEF LoadRefresh
    <2>2. LoadedRefresh = Found(NewGrant(Code1))
      BY <1>c, <2>1, KeptAccess DEF LoadedRefresh
    <2>3. Found(NewGrant(Code1)).found /\ Found(NewGrant(Code1)).data = NewGrant(Code1)
      BY DEF Found
    <2>4. Moves("load refresh", "remove refresh") /\ UNCHANGED <<at, way, oauthVars>>
      BY <1>23, <2>1, <2>2, <2>3 DEF LoadRefresh, Answers
    <2>5. /\ Keep(NewGrant(Code1))' = Keep(NewGrant(Code1))
          /\ Keep(Given)' = Keep(Given) /\ LeftCode2' = LeftCode2
      BY <2>4 DEF Keep, NewGrant, LeftCode2
    <2> QED BY <2>4, <2>5
  <1>24. CASE Remove("remove refresh", "load removed refresh")
    <2>1. /\ Moves("remove refresh", "load removed refresh") /\ refresh' = FALSE
          /\ UNCHANGED <<way, able, clients, codes, access, mine>>
      BY <1>24 DEF Remove, Removal, Answers
    <2>2. /\ Keep(NewGrant(Code1))' = Keep(NewGrant(Code1))
          /\ Keep(Given)' = Keep(Given) /\ LeftCode2' = LeftCode2
      BY <2>1 DEF Keep, NewGrant, LeftCode2
    <2> QED BY <2>1, <2>2
  <1>25. CASE LoadAfterRemove("load removed refresh", "done", LoadedRefresh, "load refresh")
    <2>1. /\ pc = "load removed refresh" /\ refresh = FALSE /\ mine = NewGrant(Code1)
          /\ codes[Code1] = Keep(Given) /\ codes[Code2] = LeftCode2 /\ access = Keep(NewGrant(Code1))
      BY <1>25 DEF LoadAfterRemove
    <2>2. ~LoadedRefresh.found
      BY <2>1 DEF LoadedRefresh, NotFound
    <2>3. Moves("load removed refresh", "done") /\ UNCHANGED <<at, way, oauthVars>>
      BY <1>25, <2>2 DEF LoadAfterRemove, Answers
    <2>4. Repeatable
      <3>1. clients = LeftClients
        BY <2>1 DEF LeftClients
      <3>2. Detached(access, mine) = LeftAccess
        BY <2>1, Entry DEF Keep, Detached, LeftAccess, Code1
      <3>3. Detached(codes[Code1], mine.auth) = Copy(Given)
        BY <2>1, Entry, GrantFields DEF Keep, Detached
      <3>4. Detached(codes[Code2], mine.auth) = LeftCode2
        BY <2>1, Entry, OwnStays DEF LeftCode2
      <3>5. [c \in Codes |-> Detached(codes[c], mine.auth)] = LeftCodes
        BY <1>c, <3>3, <3>4, Stripping DEF LeftCodes, LeftCode2, Code1, Code2
      <3> QED BY <2>1, <3>1, <3>2, <3>5 DEF Repeatable
    <2>5. Repeatable'
      BY <2>3, <2>4 DEF Repeatable, LeftClients, LeftCodes, LeftAccess, Detached
    <2> QED BY <2>3, <2>5
  <1> QED
    BY <1>1, <1>2, <1>3, <1>4, <1>5, <1>6, <1>7, <1>8, <1>9, <1>10, <1>11, <1>12, <1>13, <1>14,
       <1>15, <1>16, <1>17, <1>18, <1>19, <1>20, <1>21, <1>22, <1>23, <1>24, <1>25
       DEF OAuthNext, Code1, Code2

-----------------------------------------------------------------------------
(* A step of the tests on secrets on a backend that keeps its promises. *)
LEMMA SecretsStep ==
  ASSUME Good, SecretsNext, UNCHANGED <<activityPubVars, oauthVars, runVars>>, broken' = {}
  PROVE  /\ verdict' = "pass" /\ GoodSecrets'
         /\ way' \in Ways \cup {Unknown} /\ (way \in Ways => way' = way)
         /\ {pc, pc'} \subseteq SecretsSteps
         /\ pc # "done"
  <1> DEFINE Stays == way' \in Ways \cup {Unknown} /\ (way \in Ways => way' = way)
             Moves(from, to) == pc = from /\ pc' = to /\ verdict' = "pass"
  <1> USE DEF Good, GoodSecrets, SecretsSteps, Expect, Fails, EndOfKey, Advance
  <1>1. CASE RunKeyTests
    <2>1. Moves("keys", "save key") /\ Stays
      BY <1>1 DEF RunKeyTests, Fits, Answers, FindsWay, Ways, Unknown
    <2> QED BY <2>1
  <1>2. CASE SaveKey
    <2>1. Moves("save key", "save actor") /\ Stays /\ key' = "given" /\ public' = "given"
      BY <1>2 DEF SaveKey, Answers
    <2> QED BY <2>1
  <1>3. CASE SaveActor
    <2>1. /\ Moves("save actor", "load key") /\ Stays /\ actor' = public
          /\ UNCHANGED <<key, public, private>>
      BY <1>3 DEF SaveActor, Answers
    <2> QED BY <2>1
  <1>4. CASE LoadKey
    <2>1. /\ Moves("load key", "load actor") /\ Stays /\ private' = key
          /\ UNCHANGED <<key, actor, public>>
      BY <1>4 DEF LoadKey, Answers, NoKey
    <2> QED BY <2>1
  <1>5. CASE LoadActor
    <2>1. pc = "load actor" /\ pc' \in {"save key", "done"} /\ verdict' = "pass" /\ Stays
      BY <1>5 DEF LoadActor, Answers
    <2> QED BY <2>1
  <1>6. CASE RunPasswordTests
    <2>1. Moves("passwords", "set password") /\ Stays
      BY <1>6 DEF RunPasswordTests, Fits, Answers
    <2> QED BY <2>1
  <1>7. CASE PasswordSet
    <2>1. Moves("set password", "check password") /\ Stays /\ password' = TRUE
      BY <1>7 DEF PasswordSet, Answers
    <2> QED BY <2>1
  <1>8. CASE PasswordCheck
    <2>1. Moves("check password", "done") /\ Stays
      BY <1>8 DEF PasswordCheck, Answers
    <2> QED BY <2>1
  <1>9. CASE RunMetadataTests
    <2>1. Moves("metadata", "save metadata") /\ Stays
      BY <1>9 DEF RunMetadataTests, Fits, Answers, FindsWay, Ways, Unknown
    <2> QED BY <2>1
  <1>10. CASE SaveMetadata
    <2>1. Moves("save metadata", "load metadata") /\ Stays /\ meta' = at /\ at' = at
      BY <1>10 DEF SaveMetadata, Answers
    <2> QED BY <2>1
  <1>11. CASE LoadMetadata
    <2>1. pc = "load metadata" /\ pc' \in {"save metadata", "done"} /\ verdict' = "pass" /\ Stays
      BY <1>11 DEF LoadMetadata, Answers
    <2> QED BY <2>1
  <1> QED
    BY <1>1, <1>2, <1>3, <1>4, <1>5, <1>6, <1>7, <1>8, <1>9, <1>10, <1>11 DEF SecretsNext

-----------------------------------------------------------------------------
(* The steps of the tests are apart. *)
LEMMA StepsApart ==
  /\ ActivityPubSteps \cap OAuthSteps = {"done"}
  /\ ActivityPubSteps \cap SecretsSteps = {"done"}
  /\ OAuthSteps \cap SecretsSteps = {"done"}
  BY DEF ActivityPubSteps, OAuthSteps, SecretsSteps

LEMMA TestPreservesGood ==
  ASSUME Good, RunTest, broken' = {}
  PROVE  Good'
  <1>r. UNCHANGED runVars /\ ran' = ran
    BY DEF RunTest, runVars
  <1>1. ASSUME ActivityPubNext, UNCHANGED <<way, oauthVars, secretsVars>> PROVE Good'
    <2>1. verdict' = "pass" /\ GoodActivityPub' /\ InActivityPub /\ (pc' = "done" \/ InActivityPub')
      BY <1>1, <1>r, ActivityPubStep
    <2>2. /\ ~InOAuth /\ pc # "oauth" /\ ~InOAuth' /\ pc' # "oauth"
          /\ pc' \notin SecretsSteps \ {"done"}
      BY <2>1, StepsApart DEF InActivityPub, InOAuth, OAuthSteps
    <2>3. GoodOAuth'
      BY <1>1, <1>r, <2>2, OAuthAside DEF Good
    <2>4. GoodSecrets'
      BY <2>2, SecretsAside
    <2> QED BY <1>1, <2>1, <2>3, <2>4 DEF Good
  <1>2. ASSUME OAuthNext, UNCHANGED <<activityPubVars, secretsVars>> PROVE Good'
    <2>1. /\ verdict' = "pass" /\ GoodOAuth' /\ way' \in Ways
          /\ InOAuth \/ pc = "oauth"
          /\ pc' = "done" \/ InOAuth'
      BY <1>2, <1>r, OAuthStep
    <2>2. ~InActivityPub /\ ~InActivityPub' /\ pc' \notin SecretsSteps \ {"done"}
      BY <2>1, StepsApart DEF InActivityPub, InOAuth, OAuthSteps
    <2>3. GoodActivityPub'
      BY <1>2, <1>r, <2>2, ActivityPubAside DEF Good
    <2>4. GoodSecrets'
      BY <2>2, SecretsAside
    <2> QED BY <2>1, <2>3, <2>4 DEF Good
  <1>3. ASSUME SecretsNext, UNCHANGED <<activityPubVars, oauthVars>> PROVE Good'
    <2>1. /\ verdict' = "pass" /\ GoodSecrets'
          /\ way' \in Ways \cup {Unknown} /\ (way \in Ways => way' = way)
          /\ {pc, pc'} \subseteq SecretsSteps
          /\ pc # "done"
      BY <1>3, <1>r, SecretsStep
    <2>2. /\ ~InActivityPub /\ ~InActivityPub' /\ ~InOAuth /\ ~InOAuth'
          /\ pc # "oauth" /\ pc' # "oauth"
      BY <2>1, StepsApart DEF InActivityPub, InOAuth, OAuthSteps
    <2>3. GoodActivityPub'
      BY <1>3, <1>r, <2>2, ActivityPubAside DEF Good
    <2>4. GoodOAuth'
      BY <1>3, <1>r, <2>1, <2>2, OAuthAside DEF Good
    <2> QED BY <2>1, <2>3, <2>4 DEF Good
  <1> QED BY <1>1, <1>2, <1>3 DEF RunTest

LEMMA FirstSteps ==
  /\ FirstStep(TestActivityPub) = "init"
  /\ FirstStep(TestOAuth) = "oauth"
  /\ FirstStep(TestKey) = "keys"
  /\ FirstStep(TestPassword) = "passwords"
  /\ FirstStep(TestMetadata) = "metadata"
  BY DEF FirstStep, TestActivityPub, TestOAuth, TestKey, TestPassword, TestMetadata

LEMMA StartPreservesGood ==
  ASSUME Good, StartTest
  PROVE  Good'
  <1> DEFINE t == Order[turn]
  <1>1. /\ t \in Tests /\ t \notin ran /\ ran' = ran \cup {t} /\ pc = "done" /\ pc' = FirstStep(t)
        /\ at' = 1 /\ UNCHANGED <<verdict, way, activityPubVars, oauthVars, secretsVars>>
    BY DEF StartTest, Order, Tests
  <1> HIDE DEF t
  <1>2. CASE t = TestActivityPub
    <2>1. pc' = "init" /\ ~InOAuth /\ ~InOAuth' /\ pc' \notin SecretsSteps \ {"done"}
      BY <1>1, <1>2, FirstSteps DEF InOAuth, OAuthSteps, SecretsSteps
    <2>2. GoodActivityPub'
      <3>1. ActivityPubInit' /\ TestActivityPub \in ran'
        BY <1>1, <1>2 DEF Good, GoodActivityPub, ActivityPubInit, activityPubVars
      <3> QED BY <1>1, <2>1, <3>1 DEF GoodActivityPub, GoodObjects, GoodInbox, GoodPlace, ActivityPubInit
    <2>3. GoodOAuth'
      <3>1. TestOAuth \in ran' <=> TestOAuth \in ran
        BY <1>1, <1>2 DEF TestOAuth, TestActivityPub
      <3> QED BY <1>1, <2>1, <3>1, OAuthAside DEF Good
    <2> QED BY <1>1, <2>1, <2>2, <2>3, SecretsAside DEF Good
  <1>3. CASE t = TestOAuth
    <2>1. pc' = "oauth" /\ pc' \notin SecretsSteps \ {"done"} /\ ~InOAuth'
          /\ ~InActivityPub /\ ~InActivityPub'
      BY <1>1, <1>3, FirstSteps DEF InOAuth, InActivityPub, ActivityPubSteps, OAuthSteps, SecretsSteps
    <2>2. OAuthInit' /\ TestOAuth \in ran'
      BY <1>1, <1>3 DEF Good, GoodOAuth, OAuthInit, oauthVars
    <2>3. GoodOAuth'
      BY <2>1, <2>2 DEF GoodOAuth, InOAuth, OAuthSteps, GoodClients, GoodMine, GoodCodes, GoodAccess
    <2>4. GoodActivityPub'
      BY <1>1, <2>1, ActivityPubAside DEF Good
    <2> QED BY <1>1, <2>1, <2>3, <2>4, SecretsAside DEF Good
  <1>4. CASE t \in {TestKey, TestPassword, TestMetadata}
    <2>1. /\ pc' \in {"keys", "passwords", "metadata"} /\ ~InOAuth /\ ~InOAuth'
          /\ ~InActivityPub /\ ~InActivityPub'
      BY <1>1, <1>4, FirstSteps DEF InOAuth, OAuthSteps, InActivityPub, ActivityPubSteps
    <2>2. GoodOAuth'
      <3>1. TestOAuth \in ran' <=> TestOAuth \in ran
        BY <1>1, <1>4 DEF TestOAuth, TestKey, TestPassword, TestMetadata
      <3> QED BY <1>1, <2>1, <3>1, OAuthAside DEF Good
    <2>3. GoodActivityPub'
      BY <1>1, <2>1, ActivityPubAside DEF Good
    <2>4. GoodSecrets'
      BY <2>1 DEF GoodSecrets
    <2> QED BY <1>1, <2>2, <2>3, <2>4 DEF Good
  <1> QED BY <1>1, <1>2, <1>3, <1>4 DEF Tests

(* A promise that is broken stays broken. *)
LEMMA ActivityPubRemembers ==
  ASSUME ActivityPubNext, broken' = {}
  PROVE  broken = {}
  <1> USE DEF Answers
  <1>1. CASE InitActivityPub \/ LoadRoot \/ SaveObject \/ SaveWithoutCollections \/ LoadSaved
    BY <1>1 DEF InitActivityPub, LoadRoot, SaveObject, SaveWithoutCollections, LoadSaved
  <1>2. CASE EditNothing("remove from nothing", "add to nothing")
             \/ EditNothing("add to nothing", "create") \/ CreateCollection \/ LoadCreated
    BY <1>2 DEF EditNothing, CreateCollection, LoadCreated
  <1>3. CASE AddTo \/ RemoveFrom \/ Delete \/ LoadDeleted \/ NextSize
    BY <1>3 DEF AddTo, RemoveFrom, Delete, LoadDeleted, NextSize
  <1>4. CASE LoadAdded \/ Query \/ LoadRemoved
    BY <1>4 DEF LoadAdded, Query, LoadRemoved, LoadInbox
  <1>5. CASE LoadPage
    BY <1>5 DEF LoadPage
  <1> QED BY <1>1, <1>2, <1>3, <1>4, <1>5 DEF ActivityPubNext

LEMMA OAuthRemembers ==
  ASSUME OAuthNext, broken' = {}
  PROVE  broken = {}
  <1> USE DEF Answers
  <1>1. CASE RunOAuthTests \/ TestSaveClient \/ UpdateClient \/ ListClients \/ RemoveClient
    BY <1>1 DEF RunOAuthTests, Fits, TestSaveClient, UpdateClient, SaveClient, ListClients, RemoveClient
  <1>2. ASSUME NEW step, NEW next, NEW data,
               GetClient(step, next, data) \/ NewTest(step, next, data) \/ SaveAuthorize(step, next, data)
        PROVE  broken = {}
    BY <1>2 DEF GetClient, NewTest, SaveClient, SaveAuthorize
  <1>3. ASSUME NEW step, NEW next, NEW outcomes, NEW heard,
               SaveAccess(step, next, outcomes, heard) \/ Remove(step, next)
        PROVE  broken = {}
    BY <1>3 DEF SaveAccess, Remove, Removal
  <1>4. CASE LoadAuthorize \/ LoadAccess \/ LoadRefresh
    BY <1>4 DEF LoadAuthorize, LoadAccess, LoadRefresh
  <1>5. CASE \/ LoadAfterRemove("load removed code", "client for access", LoadedCode(mine.code), "load code")
             \/ LoadAfterRemove("load removed access", "client for refresh", LoadedAccess, "load access")
             \/ LoadAfterRemove("load removed refresh", "done", LoadedRefresh, "load refresh")
    BY <1>5 DEF LoadAfterRemove
  <1> QED BY <1>1, <1>2, <1>3, <1>4, <1>5 DEF OAuthNext

LEMMA SecretsRemember ==
  ASSUME SecretsNext, broken' = {}
  PROVE  broken = {}
  BY DEF SecretsNext, Answers, Fits, RunKeyTests, SaveKey, SaveActor, LoadKey, LoadActor,
         RunPasswordTests, PasswordSet, PasswordCheck, RunMetadataTests, SaveMetadata, LoadMetadata

LEMMA SameGood ==
  ASSUME Good, UNCHANGED <<testVars, ran>>
  PROVE  Good'
  <1> USE DEF testVars, activityPubVars, oauthVars, secretsVars
  <1>1. GoodActivityPub'
    BY DEF Good, GoodActivityPub, InActivityPub, GoodObjects, GoodInbox, GoodPlace, ActivityPubInit
  <1>2. /\ Keep(Given)' = Keep(Given) /\ LeftCode2' = LeftCode2
        /\ \A c : Keep(NewGrant(c))' = Keep(NewGrant(c))
    BY DEF Keep, NewGrant, LeftCode2
  <1>i. (OAuthInit => OAuthInit') /\ (Repeatable => Repeatable')
    BY DEF OAuthInit, Repeatable, LeftClients, LeftCodes, LeftAccess, Detached
  <1>o. GoodOAuth
    BY DEF Good
  <1>3. GoodOAuth'
    <2>1. GoodClients' /\ GoodMine'
      BY <1>o DEF GoodOAuth, InOAuth, GoodClients, GoodMine
    <2>2. GoodCodes' /\ GoodAccess'
      BY <1>o, <1>2 DEF GoodOAuth, InOAuth, GoodCodes, GoodAccess
    <2>3. UNCHANGED <<pc, ran, way>> /\ (InOAuth' <=> InOAuth)
      BY DEF InOAuth
    <2> QED BY <1>o, <1>i, <2>1, <2>2, <2>3 DEF GoodOAuth
  <1>4. GoodSecrets'
    BY DEF Good, GoodSecrets
  <1> QED BY <1>1, <1>3, <1>4 DEF Good

LEMMA InvPreserved ==
  ASSUME Inv, [RunNext]_vars
  PROVE  Inv'
  <1> SUFFICES ASSUME broken' = {} PROVE Good'
    BY DEF Inv
  <1>1. CASE RunTest
    <2>1. broken = {}
      BY <1>1, ActivityPubRemembers, OAuthRemembers, SecretsRemember DEF RunTest
    <2> QED BY <1>1, <2>1, TestPreservesGood DEF Inv
  <1>2. CASE StartTest
    <2>1. broken = {}
      BY <1>2 DEF StartTest
    <2> QED BY <1>2, <2>1, StartPreservesGood DEF Inv
  <1>3. CASE Open \/ EndTest \/ UNCHANGED vars
    <2>1. UNCHANGED <<testVars, ran>>
      BY <1>3 DEF Open, EndTest, vars, runVars
    <2>2. Good
      BY <2>1 DEF Inv, testVars
    <2> QED BY <2>1, <2>2, SameGood
  <1> QED BY <1>1, <1>2, <1>3 DEF RunNext

(* No false alarm: a backend that keeps its promises passes every test of the suite, *)
(* for any number of objects, filters and tests asked for.                            *)
THEOREM KeepersAlwaysPass == RunSpec => []KeepersPass
  <1>1. Inv => KeepersPass
    BY DEF Inv, Good, KeepersPass
  <1> QED BY <1>1, InvInitially, InvPreserved, PTL DEF RunSpec

(* What the OAuth tests leave in a storage that keeps its promises they pass on again. *)
THEOREM RunsCanBeRepeated == RunSpec => []CanRunAgain
  <1>1. Inv => CanRunAgain
    BY DEF Inv, Good, GoodOAuth, InOAuth, CanRunAgain
  <1> QED BY <1>1, InvInitially, InvPreserved, PTL DEF RunSpec

-----------------------------------------------------------------------------
(***************************************************************************)
(* What holds whatever promises the backend breaks: the types, and what a  *)
(* traversal that the suite has passed was given.                          *)
(***************************************************************************)

Promises == ActivityPubPromises \cup OAuthPromises \cup SecretsPromises

MetadataSteps == {"metadata", "save metadata", "load metadata"}

(* The steps that are about one of the objects, or one of the values. *)
TypeInv ==
    /\ RunTypeOK
    /\ pc \in MetadataSteps => at \in Values
    /\ pc \in ActivityPubSteps \ {"query", "done"} => at \in Objects

(* What every step of a test leaves as it should be. *)
Common ==
    /\ at' \in Nat \ {0}
    /\ verdict' \in {"pass", "fail", "panic"}
    /\ broken' \subseteq Promises

LEMMA LargestExists ==
  ASSUME NEW n \in Nat, NEW S \in SUBSET (1..n), S # {}
  PROVE  \E i \in S : \A j \in S : j <= i
  <1> DEFINE T == {n - i : i \in S}
             R == OpToRel(<, Nat)
  <1>1. \A i \in S : n - i \in Nat
    OBVIOUS
  <1>2. T \subseteq Nat /\ T # {}
    BY <1>1
  <1>3. IsWellFoundedOn(R, Nat)
    BY NatLessThanWellFounded
  <1> HIDE DEF R
  <1>4. PICK x \in T : \A y \in T : ~ (<<y, x>> \in R)
    BY <1>2, <1>3, WFMin
  <1>5. \A y \in T : ~(y < x)
    BY <1>2, <1>4 DEF R, OpToRel
  <1>6. PICK i \in S : x = n - i
    OBVIOUS
  <1>7. ASSUME NEW j \in S PROVE j <= i
    <2>1. n - j \in T
      OBVIOUS
    <2>2. ~(n - j < n - i)
      BY <1>5, <1>6, <2>1
    <2> QED BY <2>2
  <1> QED BY <1>7

-----------------------------------------------------------------------------
(* The ActivityPub tests. *)
LEMMA Answered ==
  \A a, b, p : broken \subseteq Promises /\ p \in Promises /\ Answers(a, b, p)
               => broken' \subseteq Promises
  BY DEF Answers

LEMMA LoadedItems ==
  ASSUME NEW items \in SUBSET Objects, NEW a \in {Right(items)} \cup Wrong(items)
  PROVE  a.items \subseteq Objects
  BY DEF Right, Wrong, Loaded, NotLoaded, AllBut

LEMMA ActivityPubTypes ==
  ASSUME TypeInv, ActivityPubNext
  PROVE  /\ ActivityPubTypeOK' /\ Common
         /\ pc \in ActivityPubSteps \ {"done"} /\ pc' \in ActivityPubSteps
         /\ pc' \in ActivityPubSteps \ {"query", "done"} => at' \in Objects
  <1> DEFINE Typed == /\ ActivityPubTypeOK' /\ Common
                      /\ pc \in ActivityPubSteps \ {"done"} /\ pc' \in ActivityPubSteps
                      /\ pc' \in ActivityPubSteps \ {"query", "done"} => at' \in Objects
  <1>t. /\ page \in [size : 1..(N + 1), left : 0..N, after : 0..N]
        /\ kept \subseteq Objects /\ (inbox = Missing \/ inbox \subseteq Objects)
        /\ seen \subseteq Objects
        /\ at \in Nat \ {0} /\ verdict \in {"pass", "fail", "panic"}
        /\ broken \subseteq Promises
        /\ pc \in ActivityPubSteps \ {"query", "done"} => at \in Objects
    BY DEF TypeInv, RunTypeOK, ActivityPubTypeOK, Promises
  <1>n. N \in Nat \ {0} /\ 1 \in Objects /\ All \subseteq Objects
    BY <1>t, SuiteAssumption DEF Objects, All
  <1>o. 1 \in Objects /\ 1 \in Nat \ {0}
    BY <1>n
  <1>p. {"save", "collections", "load", "edit of nothing", "create", "add", "query",
         "page", "next", "remove", "delete"} \subseteq Promises
    BY DEF Promises, ActivityPubPromises
  <1> USE DEF ActivityPubTypeOK, Common, Expect, Fails, Same, backend, ActivityPubSteps
  <1>1. CASE InitActivityPub
    BY <1>1, <1>t, <1>p, Answered DEF InitActivityPub
  <1>2. CASE LoadRoot
    BY <1>2, <1>t, <1>p, Answered DEF LoadRoot
  <1>3. CASE SaveObject
    BY <1>3, <1>t, <1>p, Answered DEF SaveObject
  <1>4. CASE SaveWithoutCollections
    BY <1>4, <1>t, <1>p, Answered DEF SaveWithoutCollections
  <1>5. CASE LoadSaved
    <2>1. /\ pc = "load saved" /\ at \in Objects /\ UNCHANGED <<page, seen, kept, inbox>>
          /\ Advance("save", "remove from nothing", N)
          /\ broken' \subseteq Promises /\ verdict' \in {"pass", "fail", "panic"}
      BY <1>5, <1>t, <1>p, Answered DEF LoadSaved
    <2>2. pc' \in {"save", "remove from nothing"} /\ at' \in Objects /\ at' \in Nat \ {0}
      <3>1. at \in 1..N /\ N \in Nat
        BY <2>1, <1>n DEF Objects
      <3>2. CASE at < N
        <4>1. at + 1 \in 1..N
          BY <3>1, <3>2
        <4>2. pc' = "save" /\ at' = at + 1
          BY <2>1, <3>2 DEF Advance
        <4> QED BY <3>1, <4>1, <4>2 DEF Objects
      <3>3. CASE ~(at < N)
        <4>1. pc' = "remove from nothing" /\ at' = 1
          BY <2>1, <3>3 DEF Advance
        <4>2. at' \in Objects /\ at' \in Nat \ {0}
          BY <4>1, <1>o
        <4> QED BY <4>1, <4>2
      <3> QED BY <3>2, <3>3
    <2> QED BY <2>1, <2>2, <1>t
  <1>6. ASSUME NEW step \in {"remove from nothing", "add to nothing"},
               NEW next \in {"add to nothing", "create"}, EditNothing(step, next)
        PROVE  Typed
    BY <1>6, <1>t, <1>p, Answered DEF EditNothing
  <1>7. CASE CreateCollection
    BY <1>7, <1>t, <1>p, Answered DEF CreateCollection
  <1>8. CASE LoadCreated
    BY <1>8, <1>t, <1>p, Answered DEF LoadCreated
  <1>9. CASE AddTo
    <2>1. /\ pc = "add" /\ pc' = "load added" /\ UNCHANGED <<at, page, seen, kept>>
          /\ verdict' \in {"pass", "fail", "panic"}
      BY <1>9, <1>t DEF AddTo
    <2>2. CASE inbox = Missing
      BY <1>9, <1>t, <2>1, <2>2 DEF AddTo
    <2>3. CASE inbox # Missing
      <3>1. PICK S \in {Objects, inbox} \cup AllBut(Objects), a \in {"ok", "error"} :
               Answers(<<S, a>>, <<Objects, "ok">>, "add") /\ inbox' = S
        BY <1>9, <2>3 DEF AddTo
      <3>2. S \subseteq Objects
        BY <1>t, <2>3 DEF AllBut
      <3>3. broken' \subseteq Promises
        BY <3>1, <1>t, <1>p, Answered
      <3> QED BY <1>t, <2>1, <3>1, <3>2, <3>3
    <2> QED BY <2>2, <2>3
  <1>10. CASE LoadAdded
    BY <1>10, <1>t, <1>p, Answered DEF LoadAdded, LoadInbox
  <1>11. CASE Query
    <2>1. /\ pc = "query" /\ UNCHANGED <<page, seen, kept, inbox>>
          /\ Advance("query", "page", Len(Filters))
          /\ broken' \subseteq Promises /\ verdict' \in {"pass", "fail", "panic"}
      BY <1>11, <1>t, <1>p, Answered DEF Query, LoadInbox
    <2>2. /\ pc' \in {"query", "page"} /\ at' \in Nat \ {0}
          /\ pc' = "page" => at' = 1
      BY <2>1, <1>t DEF Advance
    <2> QED BY <2>1, <2>2, <1>t, <1>n
  <1>12. CASE LoadPage
    <2>1. /\ pc = "page" /\ pc' = "page" /\ UNCHANGED <<at, kept, inbox>> /\ page.left > 0
      BY <1>12 DEF LoadPage
    <2> DEFINE items == PageOf(All)
    <2>2. PICK a \in {Right(items)} \cup Wrong(items), skip \in {0, 1}, fatal \in BOOLEAN :
             LET next == IF a.items = {} THEN page.after ELSE Last(a.items)
             IN  /\ \/ skip = 0 /\ Answers(a, Right(items), "page")
                    \/ skip = 1 /\ a = Right(items) /\ next < N /\ Answers(1, 0, "next")
                 /\ verdict' \in {"pass", "fail", "panic"}
                 /\ page' = [page EXCEPT !.left = @ - 1,
                                         !.after = IF fatal THEN @ ELSE next + skip]
                 /\ seen' = seen \cup a.items
      <3> HIDE DEF items
      <3>1. \A a : PageFails(a, PageOf(Objects)) \in BOOLEAN
        BY DEF PageFails
      <3> QED BY <1>12, <1>t, <3>1 DEF LoadPage, items
    <2> DEFINE next == IF a.items = {} THEN page.after ELSE Last(a.items)
    <2>3. items \subseteq Objects
      BY <1>n DEF PageOf, First
    <2> HIDE DEF items
    <2>4. a.items \subseteq Objects
      BY <2>3, LoadedItems
    <2>5. next \in 0..N
      <3>1. CASE a.items = {}
        BY <3>1, <1>t
      <3>2. CASE a.items # {}
        <4>1. \E i \in a.items : \A j \in a.items : j <= i
          BY <2>4, <3>2, <1>n, LargestExists DEF Objects
        <4>2. Last(a.items) \in a.items
          BY <4>1 DEF Last
        <4> QED BY <2>4, <3>2, <4>2 DEF Objects
      <3> QED BY <3>1, <3>2
    <2>6. skip = 1 => next < N
      BY <2>2
    <2>7. broken' \subseteq Promises
      BY <2>2, <1>t, <1>p, Answered
    <2> HIDE DEF next
    <2>8. next + skip \in 0..N
      BY <2>5, <2>6, <1>n
    <2>9. page' = [page EXCEPT !.left = @ - 1, !.after = IF fatal THEN @ ELSE next + skip]
      BY <2>2 DEF next
    <2>10. page' \in [size : 1..(N + 1), left : 0..N, after : 0..N]
      <3>1. page.left - 1 \in 0..N
        BY <2>1, <1>t, <1>n
      <3>2. page' = [size |-> page.size, left |-> page.left - 1,
                     after |-> IF fatal THEN page.after ELSE next + skip]
        BY <2>9, <1>t
      <3> QED BY <2>8, <3>1, <3>2, <1>t
    <2>11. seen' \subseteq Objects
      BY <2>2, <2>4, <1>t
    <2> QED BY <2>1, <2>2, <2>7, <2>10, <2>11, <1>t
  <1>13. CASE NextSize
    <2>1. /\ pc = "page" /\ pc' \in {"page", "remove"}
          /\ seen' = {} /\ UNCHANGED <<at, verdict, broken, kept, inbox>>
      BY <1>13 DEF NextSize
    <2>2. page' \in [size : 1..(N + 1), left : 0..N, after : 0..N]
      <3>1. CASE page.size <= N
        <4>1. page' = FullPages(page.size + 1)
          BY <1>13, <3>1 DEF NextSize, FullPages
        <4>2. page.size + 1 \in 1..(N + 1)
          <5>1. page.size \in 1..(N + 1) /\ N \in Nat
            BY <1>t, <1>n
          <5> QED BY <5>1, <3>1
        <4> QED BY <4>1, <4>2, FullPagesFit
      <3>2. CASE ~(page.size <= N)
        BY <1>13, <1>t, <3>2 DEF NextSize
      <3> QED BY <3>1, <3>2
    <2> QED BY <2>1, <2>2, <1>t
  <1>14. CASE RemoveFrom
    <2>1. /\ pc = "remove" /\ pc' = "load removed" /\ UNCHANGED <<at, page, seen, kept>>
          /\ verdict' \in {"pass", "fail", "panic"}
      BY <1>14, <1>t DEF RemoveFrom
    <2>2. CASE inbox = Missing
      BY <1>14, <1>t, <2>1, <2>2 DEF RemoveFrom
    <2>3. CASE inbox # Missing
      <3>1. PICK S \in {{}, inbox} \cup {{i} : i \in inbox}, a \in {"ok", "error"} :
               Answers(<<S, a>>, <<{}, "ok">>, "remove") /\ inbox' = S
        BY <1>14, <2>3 DEF RemoveFrom
      <3>2. S \subseteq Objects
        BY <1>t, <2>3
      <3>3. broken' \subseteq Promises
        BY <3>1, <1>t, <1>p, Answered
      <3> QED BY <1>t, <2>1, <3>1, <3>2, <3>3
    <2> QED BY <2>2, <2>3
  <1>15. CASE LoadRemoved
    BY <1>15, <1>t, <1>p, Answered DEF LoadRemoved, LoadInbox
  <1>16. CASE Delete
    BY <1>16, <1>t, <1>p, Answered DEF Delete
  <1>17. CASE LoadDeleted
    <2>1. /\ pc = "load deleted" /\ at \in Objects /\ UNCHANGED <<page, seen, kept, inbox>>
          /\ Advance("delete", "done", N)
          /\ broken' \subseteq Promises /\ verdict' \in {"pass", "fail", "panic"}
      BY <1>17, <1>t, <1>p, Answered DEF LoadDeleted
    <2>2. pc' \in {"delete", "done"} /\ at' \in Objects /\ at' \in Nat \ {0}
      <3>1. at \in 1..N /\ N \in Nat
        BY <2>1, <1>n DEF Objects
      <3>2. CASE at < N
        <4>1. at + 1 \in 1..N
          BY <3>1, <3>2
        <4>2. pc' = "delete" /\ at' = at + 1
          BY <2>1, <3>2 DEF Advance
        <4> QED BY <3>1, <4>1, <4>2 DEF Objects
      <3>3. CASE ~(at < N)
        <4>1. pc' = "done" /\ at' = 1
          BY <2>1, <3>3 DEF Advance
        <4>2. at' \in Objects /\ at' \in Nat \ {0}
          BY <4>1, <1>o
        <4> QED BY <4>1, <4>2
      <3> QED BY <3>2, <3>3
    <2> QED BY <2>1, <2>2, <1>t
  <1> QED
    BY <1>1, <1>2, <1>3, <1>4, <1>5, <1>6, <1>7, <1>8, <1>9, <1>10, <1>11, <1>12, <1>13, <1>14,
       <1>15, <1>16, <1>17 DEF ActivityPubNext

-----------------------------------------------------------------------------
(* The OAuth tests. *)
LEMMA DataTypes ==
  /\ Given \in Data /\ Lost \in Data
  /\ \A d \in Data : /\ Changed(d) \in Data /\ Others(d) \subseteq Data
                     /\ \A e : Stripped(d, e) \in Data
  <1>1. Given \in Data /\ Lost \in Data
    BY DEF Given, Lost, Data, Clients
  <1>2. ASSUME NEW d \in Data
        PROVE  /\ Changed(d) \in Data /\ Others(d) \subseteq Data
               /\ \A e : Stripped(d, e) \in Data
    BY DEF Data, Clients, Changed, Others, Stripped
  <1> QED BY <1>1, <1>2

LEMMA GrantTypes ==
  /\ \A c \in Codes : NewGrant(c) \in Grants
  /\ \A g \in Grants : /\ g.code \in Codes /\ g.auth \in Data /\ g.access \in Data
                       /\ \A d \in Data : /\ [g EXCEPT !.auth = d] \in Grants
                                          /\ [g EXCEPT !.access = d] \in Grants
                       /\ \A h : StrippedGrant(g, h) \in Grants
  <1>1. \A c \in Codes : NewGrant(c) \in Grants
    BY DataTypes DEF NewGrant, Grants
  <1>2. ASSUME NEW g \in Grants
        PROVE  /\ g.code \in Codes /\ g.auth \in Data /\ g.access \in Data
               /\ \A d \in Data : /\ [g EXCEPT !.auth = d] \in Grants
                                  /\ [g EXCEPT !.access = d] \in Grants
    BY DEF Grants
  <1>3. ASSUME NEW g \in Grants, NEW h PROVE StrippedGrant(g, h) \in Grants
    <2> DEFINE a == Stripped(g.auth, h.auth)
               b == IF g.auth = h.auth THEN Stripped(g.access, h.access) ELSE g.access
    <2>1. a \in Data /\ b \in Data
      BY <1>2, DataTypes
    <2>2. StrippedGrant(g, h) = g \/ StrippedGrant(g, h) = [g EXCEPT !.auth = a, !.access = b]
      BY DEF StrippedGrant
    <2> HIDE DEF a, b
    <2> QED BY <2>1, <2>2 DEF Grants
  <1> QED BY <1>1, <1>2, <1>3

LEMMA EntryTypes ==
  ASSUME NEW D
  PROVE  /\ Nothing \in Entries(D) /\ Shared \in Entries(D)
         /\ \A d \in D : Copy(d) \in Entries(D)
         /\ \A e \in Entries(D) :
              /\ e.kept \in {"nothing", "shared", "copy"}
              /\ e.kept = "copy" => e.data \in D
              /\ \A d \in D : Detached(e, d) \in Entries(D) /\ Detached(e, d) # Shared
  BY Entry DEF Entries, Detached

(* What a load answers. *)
LEMMA LoadTypes ==
  ASSUME OAuthTypeOK
  PROVE  /\ \A c \in Codes : LoadedCode(c) \in {NotFound} \cup {Found(d) : d \in Data}
         /\ LoadedAccess \in {NotFound} \cup {Found(g) : g \in Grants}
         /\ NotFound.found = FALSE
         /\ \A d : Found(d).found = TRUE /\ Found(d).data = d
  <1>f. NotFound.found = FALSE /\ \A d : Found(d).found = TRUE /\ Found(d).data = d
    BY DEF NotFound, Found
  <1>1. \A d \in Data : Referred(d) \in Data
    BY DEF OAuthTypeOK, Data, Referred
  <1>2. ASSUME NEW c \in Codes
        PROVE  LoadedCode(c) \in {NotFound} \cup {Found(d) : d \in Data}
    <2>1. codes[c] \in Entries(Data) /\ mine.auth \in Data
      BY GrantTypes DEF OAuthTypeOK
    <2>2. /\ codes[c].kept \in {"nothing", "shared", "copy"}
          /\ codes[c].kept = "copy" => codes[c].data \in Data
      BY <2>1, EntryTypes
    <2> QED BY <1>1, <2>1, <2>2 DEF LoadedCode
  <1>3. ASSUME NEW g \in Grants PROVE LoadedGrant(g) \in Grants
    <2>1. g.code \in Codes /\ g.access \in Data
      BY GrantTypes
    <2> DEFINE a == IF LoadedCode(g.code).found THEN LoadedCode(g.code).data ELSE Lost
    <2>2. a \in Data
      BY <1>2, <1>f, <2>1, DataTypes
    <2> HIDE DEF a
    <2>3. [code |-> g.code, auth |-> a, access |-> Referred(g.access)] \in Grants
      BY <1>1, <2>1, <2>2 DEF Grants
    <2> QED BY <2>3 DEF LoadedGrant, a
  <1>4. LoadedAccess \in {NotFound} \cup {Found(g) : g \in Grants}
    <2>1. access \in Entries(Grants) /\ mine \in Grants
      BY DEF OAuthTypeOK
    <2>2. /\ access.kept \in {"nothing", "shared", "copy"}
          /\ access.kept = "copy" => access.data \in Grants
      BY <2>1, EntryTypes
    <2> QED BY <1>3, <2>1, <2>2 DEF LoadedAccess
  <1> QED BY <1>f, <1>2, <1>4

LEMMA OAuthTypes ==
  ASSUME TypeInv, OAuthNext
  PROVE  /\ OAuthTypeOK' /\ Common /\ pc' \in OAuthSteps
         /\ way' \in Ways \cup {Unknown}
  <1> DEFINE Typed == /\ OAuthTypeOK' /\ Common /\ pc' \in OAuthSteps
                      /\ way' \in Ways \cup {Unknown}
             Kept == UNCHANGED way /\ at' = at /\ pc' \in OAuthSteps
  <1>t. /\ able \subseteq {"saver", "lister"} /\ fresh \in BOOLEAN /\ clients \in Clients
        /\ codes \in [Codes -> Entries(Data)] /\ access \in Entries(Grants)
        /\ refresh \in BOOLEAN /\ mine \in Grants
        /\ way # "shares" => access # Shared /\ \A c \in Codes : codes[c] # Shared
    BY DEF TypeInv, RunTypeOK, OAuthTypeOK
  <1>c. /\ at \in Nat \ {0} /\ verdict \in {"pass", "fail", "panic"}
        /\ broken \subseteq Promises /\ way \in Ways \cup {Unknown}
    BY DEF TypeInv, RunTypeOK, Promises
  <1>p. OAuthPromises \subseteq Promises
    BY DEF Promises
  <1>g. mine.code \in Codes /\ mine.auth \in Data /\ mine.access \in Data
    BY <1>t, GrantTypes
  <1>e. \A ok : Expect(ok) => verdict' \in {"pass", "fail", "panic"}
    BY <1>c DEF Expect
  <1>k. /\ \A d \in Data : Keep(d) \in Entries(Data)
        /\ \A g \in Grants : Keep(g) \in Entries(Grants)
        /\ \A d : way # "shares" => Keep(d) # Shared
    BY EntryTypes, Entry DEF Keep
  <1>1. CASE RunOAuthTests
    <2>1. /\ pc' \in {"save client", "done"} /\ broken' \subseteq Promises
          /\ UNCHANGED <<at, verdict, mine>>
          /\ able' \subseteq {"saver", "lister"} /\ fresh' \in BOOLEAN
          /\ way' \in Ways /\ (way' # "shares" => way # "shares")
      <3>1. /\ UNCHANGED <<at, verdict, mine>> /\ able' \in SUBSET {"saver", "lister"}
            /\ fresh' \in BOOLEAN /\ FindsWay /\ Fits("OSINStorage", "save client")
        BY <1>1 DEF RunOAuthTests
      <3>2. way' \in Ways /\ (way' # "shares" => way # "shares")
        BY <3>1, <1>c DEF FindsWay, Ways, Unknown
      <3>3. pc' \in {"save client", "done"} /\ broken' \subseteq Promises
        BY <3>1, <1>c, <1>p, Answered DEF Fits, OAuthPromises
      <3> QED BY <3>1, <3>2, <3>3
    <2>2. CASE fresh'
      <3>1. UNCHANGED store
        BY <1>1, <2>2 DEF RunOAuthTests
      <3> QED BY <1>t, <1>c, <2>1, <3>1 DEF OAuthTypeOK, Common, store, OAuthSteps
    <2>3. CASE ~fresh'
      <3>1. clients' = LeftClients' /\ codes' = LeftCodes' /\ access' = LeftAccess' /\ refresh' = FALSE
        BY <1>1, <2>3 DEF RunOAuthTests
      <3>2. clients' \in Clients
        BY <3>1 DEF LeftClients, Clients
      <3>3. /\ codes' \in [Codes -> Entries(Data)]
            /\ \A c \in Codes : codes'[c] # Shared
        <4> DEFINE bare == [Given EXCEPT !.client = "none"]
        <4>1. bare \in Data /\ Given \in Data
          BY DEF Given, Data, Clients
        <4>2. codes' = [c \in Codes |-> IF way' = "shares" /\ c = "yy44aa1!"
                                        THEN Copy(bare) ELSE Copy(Given)]
          BY <3>1 DEF LeftCodes
        <4> HIDE DEF bare
        <4> QED BY <4>1, <4>2, EntryTypes, Entry
      <3>4. access' \in Entries(Grants) /\ access' # Shared
        BY <3>1, GrantTypes, EntryTypes, Entry DEF LeftAccess, Codes
      <3> QED BY <1>t, <1>c, <2>1, <3>1, <3>2, <3>3, <3>4 DEF OAuthTypeOK, Common, OAuthSteps
    <2> QED BY <2>2, <2>3
  <1>s. ASSUME NEW client \in Clients, NEW promise \in OAuthPromises, SaveClient(client, promise)
        PROVE  /\ clients' \in Clients /\ broken' \subseteq Promises
               /\ verdict' \in {"pass", "fail", "panic"}
    BY <1>s, <1>t, <1>c, <1>p, <1>e, Answered DEF SaveClient
  <1>2. CASE TestSaveClient \/ UpdateClient \/ RemoveClient
    <2>1. /\ Kept /\ UNCHANGED <<able, fresh, codes, access, refresh, mine>>
          /\ clients' \in Clients /\ broken' \subseteq Promises
          /\ verdict' \in {"pass", "fail", "panic"}
      <3>1. CASE TestSaveClient
        BY <3>1, <1>s, <1>t, <1>c DEF TestSaveClient, OAuthSteps, OAuthPromises, Clients
      <3>2. CASE UpdateClient
        BY <3>2, <1>s DEF UpdateClient, OAuthSteps, OAuthPromises, Clients
      <3>3. CASE RemoveClient
        BY <3>3, <1>t, <1>c, <1>p, <1>e, Answered
           DEF RemoveClient, OAuthSteps, OAuthPromises, Clients
      <3> QED BY <1>2, <3>1, <3>2, <3>3
    <2> QED BY <1>t, <1>c, <2>1 DEF OAuthTypeOK, Common
  <1>3. ASSUME NEW step, NEW next \in OAuthSteps, NEW expected, GetClient(step, next, expected)
        PROVE  Typed
    <2>1. /\ Kept /\ UNCHANGED oauthVars /\ broken' \subseteq Promises
          /\ verdict' \in {"pass", "fail", "panic"}
      BY <1>3, <1>c, <1>p, <1>e, Answered DEF GetClient, OAuthPromises
    <2> QED BY <1>t, <1>c, <2>1 DEF OAuthTypeOK, Common, oauthVars
  <1>4. CASE ListClients
    <2>1. /\ Kept /\ UNCHANGED oauthVars /\ broken' \subseteq Promises
          /\ verdict' \in {"pass", "fail", "panic"}
      BY <1>4, <1>c, <1>p, <1>e, Answered DEF ListClients, OAuthPromises, OAuthSteps
    <2> QED BY <1>t, <1>c, <2>1 DEF OAuthTypeOK, Common, oauthVars
  <1>5. ASSUME NEW step, NEW next \in OAuthSteps, NEW code \in Codes, NewTest(step, next, code)
        PROVE  Typed
    <2>1. /\ Kept /\ UNCHANGED <<able, fresh, refresh>> /\ mine' \in Grants
      BY <1>5, GrantTypes DEF NewTest
    <2>2. /\ clients' \in Clients /\ broken' \subseteq Promises
          /\ verdict' \in {"pass", "fail", "panic"}
      BY <1>5, <1>s, <1>t, <1>c DEF NewTest, Clients, OAuthPromises
    <2>3. /\ codes' \in [Codes -> Entries(Data)] /\ access' \in Entries(Grants)
          /\ access' # Shared /\ \A c \in Codes : codes'[c] # Shared
      <3>1. /\ codes' = [c \in Codes |-> Detached(codes[c], mine.auth)]
            /\ access' = Detached(access, mine)
        BY <1>5 DEF NewTest
      <3>2. ASSUME NEW c \in Codes
            PROVE  LET e == Detached(codes[c], mine.auth)
                   IN  e \in Entries(Data) /\ e # Shared
        BY <1>t, <1>g, EntryTypes
      <3>3. access' \in Entries(Grants) /\ access' # Shared
        BY <3>1, <1>t, EntryTypes
      <3> QED BY <3>1, <3>2, <3>3
    <2> QED BY <1>t, <1>c, <2>1, <2>2, <2>3 DEF OAuthTypeOK, Common
  <1>6. ASSUME NEW step, NEW next \in OAuthSteps, NEW promise \in OAuthPromises,
               SaveAuthorize(step, next, promise)
        PROVE  Typed
    <2>1. PICK a \in {"keeps"} \cup Faulty :
             LET auth == IF a = "scribbles" THEN Changed(mine.auth) ELSE mine.auth
                 entry == IF a = "alters" THEN Copy(Changed(auth)) ELSE Keep(auth)
             IN  /\ Answers(a, "keeps", Blame(a, promise))
                 /\ mine' = [mine EXCEPT !.auth = auth]
                 /\ codes' = IF a \in {"forgets", "error"} THEN codes
                             ELSE [codes EXCEPT ![mine.code] = entry]
                 /\ Expect(promise = "save again" \/ ~Fails(a))
      BY <1>6 DEF SaveAuthorize
    <2> DEFINE auth == IF a = "scribbles" THEN Changed(mine.auth) ELSE mine.auth
               entry == IF a = "alters" THEN Copy(Changed(auth)) ELSE Keep(auth)
    <2>2. auth \in Data
      BY <1>g, DataTypes
    <2>3. entry \in Entries(Data) /\ (way # "shares" => entry # Shared)
      <3> HIDE DEF auth
      <3> QED BY <2>2, <1>k, DataTypes, EntryTypes, Entry
    <2>4. /\ mine' = [mine EXCEPT !.auth = auth]
          /\ codes' = codes \/ codes' = [codes EXCEPT ![mine.code] = entry]
      BY <2>1
    <2>5. Blame(a, promise) \in Promises
      BY <1>p DEF Blame, OAuthPromises
    <2>6. broken' \subseteq Promises /\ verdict' \in {"pass", "fail", "panic"}
      BY <2>1, <2>5, <1>c, <1>e, Answered
    <2>7. Kept /\ UNCHANGED <<able, fresh, clients, access, refresh>>
      BY <1>6 DEF SaveAuthorize
    <2> HIDE DEF auth, entry
    <2>8. mine' \in Grants
      BY <2>2, <2>4, <1>t, GrantTypes
    <2>9. codes' \in [Codes -> Entries(Data)] /\ (way # "shares" => \A c \in Codes : codes'[c] # Shared)
      BY <2>3, <2>4, <1>t, <1>g
    <2> QED BY <1>t, <1>c, <2>6, <2>7, <2>8, <2>9 DEF OAuthTypeOK, Common
  <1>7. ASSUME NEW step, NEW next \in OAuthSteps, NEW outcomes, NEW heard,
               SaveAccess(step, next, outcomes, heard)
        PROVE  Typed
    <2>1. PICK a \in {"keeps"} \cup outcomes :
             LET grant == IF a = "scribbles" THEN [mine EXCEPT !.access = Changed(@)] ELSE mine
                 entry == IF a = "alters" THEN Copy([grant EXCEPT !.access = Changed(@)])
                          ELSE Keep(grant)
             IN  /\ Answers(a, "keeps", Blame(a, "save access"))
                 /\ mine' = grant
                 /\ access' = IF a \in {"forgets", "error"} THEN access ELSE entry
                 /\ refresh' = (refresh \/ a \notin {"forgets", "error", "no refresh"})
                 /\ Expect(heard => ~Fails(a))
      BY <1>7 DEF SaveAccess
    <2> DEFINE grant == IF a = "scribbles" THEN [mine EXCEPT !.access = Changed(@)] ELSE mine
               entry == IF a = "alters" THEN Copy([grant EXCEPT !.access = Changed(@)])
                        ELSE Keep(grant)
    <2>2. grant \in Grants
      BY <1>g, <1>t, DataTypes, GrantTypes
    <2>3. entry \in Entries(Grants) /\ (way # "shares" => entry # Shared)
      <3> HIDE DEF grant
      <3>1. [grant EXCEPT !.access = Changed(@)] \in Grants
        BY <2>2, DataTypes, GrantTypes
      <3> QED BY <2>2, <3>1, <1>k, EntryTypes, Entry
    <2>4. /\ mine' = grant /\ (access' = access \/ access' = entry) /\ refresh' \in BOOLEAN
      BY <2>1, <1>t
    <2>5. Blame(a, "save access") \in Promises
      BY <1>p DEF Blame, OAuthPromises
    <2>6. broken' \subseteq Promises /\ verdict' \in {"pass", "fail", "panic"}
      BY <2>1, <2>5, <1>c, <1>e, Answered
    <2>7. Kept /\ UNCHANGED <<able, fresh, clients, codes>>
      BY <1>7 DEF SaveAccess
    <2> HIDE DEF grant, entry
    <2> QED BY <1>t, <1>c, <2>2, <2>3, <2>4, <2>6, <2>7 DEF OAuthTypeOK, Common
  <1>8. CASE LoadAuthorize
    <2>1. PICK a \in {LoadedCode(mine.code), NotFound} \cup {Found(d) : d \in Others(mine.auth)} :
             /\ Answers(a, LoadedCode(mine.code), "load code")
             /\ Expect(a.found /\ a.data = mine.auth)
             /\ mine' = IF a.found THEN [mine EXCEPT !.auth = Stripped(@, a.data)] ELSE mine
             /\ codes' = IF way = "owns" /\ a.found /\ a = LoadedCode(mine.code)
                         THEN [codes EXCEPT ![mine.code] = Copy(Stripped(a.data, mine.auth))]
                         ELSE codes
      BY <1>8 DEF LoadAuthorize
    <2>2. a.found => a.data \in Data
      <3>1. OAuthTypeOK
        BY DEF TypeInv, RunTypeOK
      <3>2. LoadedCode(mine.code) \in {NotFound} \cup {Found(d) : d \in Data}
        BY <3>1, <1>g, LoadTypes
      <3>3. Others(mine.auth) \subseteq Data
        BY <1>g, DataTypes
      <3>4. a \in {NotFound} \cup {Found(d) : d \in Data}
        BY <2>1, <3>2, <3>3
      <3> QED BY <3>1, <3>4, LoadTypes
    <2>3. mine' \in Grants
      BY <2>1, <1>g, <1>t, DataTypes, GrantTypes
    <2>4. codes' = codes \/ (codes' = [codes EXCEPT ![mine.code] = Copy(Stripped(a.data, mine.auth))]
                             /\ Stripped(a.data, mine.auth) \in Data)
      BY <2>1, <2>2, DataTypes
    <2>5. codes' \in [Codes -> Entries(Data)] /\ (way # "shares" => \A c \in Codes : codes'[c] # Shared)
      <3>1. CASE codes' = codes
        BY <3>1, <1>t
      <3>2. CASE codes' # codes
        <4> DEFINE entry == Copy(Stripped(a.data, mine.auth))
        <4>1. entry \in Entries(Data) /\ entry # Shared
          BY <2>4, <3>2, EntryTypes, Entry
        <4>2. codes' = [codes EXCEPT ![mine.code] = entry]
          BY <2>4, <3>2
        <4> HIDE DEF entry
        <4> QED BY <4>1, <4>2, <1>t, <1>g
      <3> QED BY <3>1, <3>2
    <2>6. broken' \subseteq Promises /\ verdict' \in {"pass", "fail", "panic"}
      BY <2>1, <1>p, <1>c, <1>e, Answered DEF OAuthPromises
    <2>7. Kept /\ UNCHANGED <<able, fresh, clients, access, refresh>>
      BY <1>8 DEF LoadAuthorize, OAuthSteps
    <2> QED BY <1>t, <1>c, <2>3, <2>5, <2>6, <2>7 DEF OAuthTypeOK, Common
  <1>9. CASE LoadAccess
    <2>1. PICK a \in {LoadedAccess, NotFound} \cup OtherGrants :
             /\ Answers(a, LoadedAccess, "load access")
             /\ Expect(a.found /\ AccessDataEqual(mine, a.data))
             /\ mine' = IF a.found THEN StrippedGrant(mine, a.data) ELSE mine
             /\ access' = IF way = "owns" /\ a.found /\ a = LoadedAccess
                          THEN Copy(StrippedGrant(a.data, mine)) ELSE access
      BY <1>9 DEF LoadAccess
    <2>2. mine' \in Grants
      BY <2>1, <1>t, GrantTypes
    <2>3. a = LoadedAccess /\ a.found => a.data \in Grants
      <3>1. OAuthTypeOK
        BY DEF TypeInv, RunTypeOK
      <3> QED BY <3>1, LoadTypes
    <2>4. access' \in Entries(Grants) /\ (way # "shares" => access' # Shared)
      BY <2>1, <2>3, <1>t, GrantTypes, EntryTypes, Entry
    <2>6. broken' \subseteq Promises /\ verdict' \in {"pass", "fail", "panic"}
      BY <2>1, <1>p, <1>c, <1>e, Answered DEF OAuthPromises
    <2>7. Kept /\ UNCHANGED <<able, fresh, clients, codes, refresh>>
      BY <1>9 DEF LoadAccess, OAuthSteps
    <2> QED BY <1>t, <1>c, <2>2, <2>4, <2>6, <2>7 DEF OAuthTypeOK, Common
  <1>10. CASE LoadRefresh
    <2>1. /\ Kept /\ UNCHANGED oauthVars /\ broken' \subseteq Promises
          /\ verdict' \in {"pass", "fail", "panic"}
      BY <1>10, <1>c, <1>p, <1>e, Answered DEF LoadRefresh, OAuthPromises, OAuthSteps
    <2> QED BY <1>t, <1>c, <2>1 DEF OAuthTypeOK, Common, oauthVars
  <1>11. ASSUME NEW step \in OAuthPromises, NEW next \in OAuthSteps, Remove(step, next)
         PROVE  Typed
    <2>1. /\ Kept /\ UNCHANGED <<able, fresh, clients, mine>> /\ Removal(step)
      BY <1>11 DEF Remove
    <2>2. broken' \subseteq Promises /\ verdict' \in {"pass", "fail", "panic"}
      BY <2>1, <1>c, <1>p, <1>e, Answered DEF Removal
    <2>3. /\ codes' = codes \/ codes' = [codes EXCEPT ![mine.code] = Nothing]
          /\ access' = access \/ access' = Nothing
          /\ refresh' \in BOOLEAN
      BY <2>1, <1>t DEF Removal
    <2>4. codes' \in [Codes -> Entries(Data)] /\ (way # "shares" => \A c \in Codes : codes'[c] # Shared)
      BY <2>3, <1>t, <1>g, EntryTypes, Entry
    <2>5. access' \in Entries(Grants) /\ (way # "shares" => access' # Shared)
      BY <2>3, <1>t, EntryTypes, Entry
    <2> QED BY <1>t, <1>c, <2>1, <2>2, <2>3, <2>4, <2>5 DEF OAuthTypeOK, Common
  <1>12. ASSUME NEW step, NEW next \in OAuthSteps, NEW right, NEW promise \in OAuthPromises,
                LoadAfterRemove(step, next, right, promise)
         PROVE  Typed
    <2>1. /\ Kept /\ UNCHANGED oauthVars /\ broken' \subseteq Promises
          /\ verdict' \in {"pass", "fail", "panic"}
      BY <1>12, <1>c, <1>p, <1>e, Answered DEF LoadAfterRemove
    <2> QED BY <1>t, <1>c, <2>1 DEF OAuthTypeOK, Common, oauthVars
  <1>z. /\ {"list clients", "remove client", "client for code", "save code", "load code",
            "load removed code", "client for access", "code for access", "save access",
            "load access", "load removed access", "client for refresh", "code for refresh",
            "access for refresh", "load refresh", "load removed refresh", "done"} \subseteq OAuthSteps
        /\ {"xx44aa1!", "yy44aa1!"} \subseteq Codes
        /\ {"save code", "save again", "remove code", "load code", "remove access",
            "load access", "remove refresh", "load refresh"} \subseteq OAuthPromises
    BY DEF OAuthSteps, Codes, OAuthPromises
  <1> HIDE DEF Typed
  <1>q. Typed
    BY <1>1, <1>2, <1>3, <1>4, <1>5, <1>6, <1>7, <1>8, <1>9, <1>10, <1>11, <1>12, <1>z
       DEF OAuthNext, Typed
  <1> QED BY <1>q DEF Typed

-----------------------------------------------------------------------------
(* The tests on secrets. *)
LEMMA SecretsTypes ==
  ASSUME TypeInv, SecretsNext
  PROVE  /\ SecretsTypeOK' /\ Common /\ pc' \in SecretsSteps
         /\ pc' \in MetadataSteps => at' \in Values
         /\ way' \in Ways \cup {Unknown} /\ (way' # "shares" => way # "shares")
  <1>t. /\ key \in Keys \cup {NoKey} /\ public \in Keys \cup {NoKey}
        /\ private \in Keys \cup {NoKey}
        /\ actor \in Keys \cup {NoKey, NotStored}
        /\ password \in BOOLEAN /\ meta \in {0} \cup Values
        /\ at \in Nat \ {0} /\ verdict \in {"pass", "fail", "panic"}
        /\ broken \subseteq Promises /\ way \in Ways \cup {Unknown}
        /\ pc \in MetadataSteps => at \in Values
    BY DEF TypeInv, RunTypeOK, SecretsTypeOK, Promises
  <1>p. SecretsPromises \subseteq Promises
    BY DEF Promises
  <1>e. \A ok : Expect(ok) => verdict' \in {"pass", "fail", "panic"}
    BY <1>t DEF Expect
  <1>w. FindsWay => way' \in Ways /\ (way' # "shares" => way # "shares")
    BY <1>t DEF FindsWay, Ways, Unknown
  <1>f. \A i, f : i \in SecretsPromises /\ f \in SecretsSteps /\ Fits(i, f)
                  => pc' \in {f, "done"} /\ broken' \subseteq Promises
    BY <1>t, <1>p, Answered DEF Fits
  <1>a. \A again, next, count :
           Advance(again, next, count) => pc' \in {again, next} /\ at' \in Nat \ {0}
    BY <1>t DEF Advance
  <1>n. /\ NewActor => /\ key' = NoKey /\ actor' = NotStored
                       /\ public' = NoKey /\ private' = NoKey
        /\ EndOfKey => Advance("save key", "done", 8) /\ NewActor
    BY DEF NewActor, EndOfKey
  <1>s. /\ {"save key", "save actor", "load key", "load actor", "set password", "check password",
            "save metadata", "load metadata", "done"} \subseteq SecretsSteps
        /\ {"KeyStorage", "save key", "public key", "save actor", "load key", "load actor",
            "PasswordStorage", "set password", "check password", "MetadataStorage",
            "save metadata", "load metadata", "save the same"} \subseteq SecretsPromises
        /\ {"given", "other"} \subseteq Keys
        /\ MetadataSteps \cap {"save key", "save actor", "load key", "load actor",
                               "set password", "check password", "done"} = {}
    BY DEF SecretsSteps, SecretsPromises, Keys, MetadataSteps
  <1>l. \A p, held : p \in SecretsPromises => LostSave(p, held) \in SecretsPromises
    BY <1>s DEF LostSave
  <1>1. CASE RunKeyTests
    <2>1. /\ key' \in Keys \cup {NoKey} /\ actor' \in Keys \cup {NoKey, NotStored}
          /\ UNCHANGED <<at, public, private, password, meta>>
          /\ verdict' \in {"pass", "fail", "panic"} /\ FindsWay
          /\ Fits("KeyStorage", "save key")
      BY <1>1, <1>e DEF RunKeyTests
    <2>2. pc' \in {"save key", "done"} /\ broken' \subseteq Promises
      BY <1>f, <1>s, <2>1
    <2>3. way' \in Ways /\ (way' # "shares" => way # "shares")
      BY <1>w, <2>1
    <2> QED BY <1>t, <1>s, <2>1, <2>2, <2>3 DEF SecretsTypeOK, Common
  <1>2. CASE SaveKey
    <2>1. PICK a \in {"ok", "forgets", "alters", "other", "nil", "error"} :
             /\ Answers(a, "ok", CASE a \in {"other", "nil"} -> "public key"
                                   [] a = "forgets" -> LostSave("save key", key = "given")
                                   [] OTHER -> "save key")
             /\ CASE a = "error" /\ at = Root -> pc' = "done" /\ UNCHANGED at /\ NewActor
                  [] a = "error" /\ at # Root -> EndOfKey
                  [] a # "error" ->
                       /\ key' = CASE a = "forgets" -> key [] a = "alters" -> "other"
                                    [] OTHER -> "given"
                       /\ public' = IF a = "other" THEN "other" ELSE "given"
                       /\ pc' = IF a = "nil" THEN "done" ELSE "save actor"
                       /\ UNCHANGED <<at, actor, private>>
             /\ IF a = "nil" THEN verdict' = "panic" ELSE Expect(~Fails(a))
      BY <1>2 DEF SaveKey
    <2>2. UNCHANGED <<way, password, meta>> /\ verdict' \in {"pass", "fail", "panic"}
      BY <1>2, <2>1, <1>e DEF SaveKey
    <2>3. broken' \subseteq Promises
      BY <2>1, <1>t, <1>p, <1>s, <1>l, Answered
    <2>4. /\ pc' \in {"save key", "save actor", "done"} /\ at' \in Nat \ {0}
          /\ {key', public', private'} \subseteq Keys \cup {NoKey}
          /\ actor' \in Keys \cup {NoKey, NotStored}
      <3>1. CASE a = "error" /\ at = Root
        BY <2>1, <3>1, <1>t, <1>n, <1>s
      <3>2. CASE a = "error" /\ at # Root
        BY <2>1, <3>2, <1>t, <1>n, <1>s, <1>a
      <3>3. CASE a # "error"
        <4>1. /\ key' \in {key, "other", "given"} /\ public' \in {"other", "given"}
              /\ pc' \in {"done", "save actor"} /\ UNCHANGED <<at, actor, private>>
          BY <2>1, <3>3
        <4> QED BY <4>1, <1>t, <1>s
      <3> QED BY <3>1, <3>2, <3>3
    <2> QED BY <1>t, <1>s, <2>2, <2>3, <2>4 DEF SecretsTypeOK, Common
  <1>3. CASE SaveActor
    <2>1. /\ pc' = "load key" /\ actor' \in {public, actor}
          /\ UNCHANGED <<at, verdict, way, key, public, private, password, meta>>
      BY <1>3 DEF SaveActor
    <2>2. broken' \subseteq Promises
      BY <1>3, <1>t, <1>p, <1>s, <1>l, Answered DEF SaveActor
    <2> QED BY <1>t, <1>s, <2>1, <2>2 DEF SecretsTypeOK, Common
  <1>4. CASE LoadKey
    <2>1. PICK a \in Keys \cup {NoKey} :
             /\ Answers(a, key, "load key")
             /\ Expect(a = "given")
             /\ IF a = NoKey THEN EndOfKey
                ELSE private' = a /\ pc' = "load actor" /\ UNCHANGED <<at, key, actor, public>>
      BY <1>4 DEF LoadKey
    <2>2. /\ UNCHANGED <<way, password, meta>> /\ verdict' \in {"pass", "fail", "panic"}
          /\ broken' \subseteq Promises
      BY <1>4, <2>1, <1>t, <1>p, <1>s, <1>e, Answered DEF LoadKey
    <2>3. /\ pc' \in {"save key", "load actor", "done"} /\ at' \in Nat \ {0}
          /\ {key', public', private'} \subseteq Keys \cup {NoKey}
          /\ actor' \in Keys \cup {NoKey, NotStored}
      <3>1. CASE a = NoKey
        BY <2>1, <3>1, <1>t, <1>n, <1>s, <1>a
      <3>2. CASE a # NoKey
        BY <2>1, <3>2, <1>t, <1>s
      <3> QED BY <3>1, <3>2
    <2> QED BY <1>t, <1>s, <2>2, <2>3 DEF SecretsTypeOK, Common
  <1>5. CASE LoadActor
    <2>1. /\ UNCHANGED <<way, password, meta>> /\ verdict' \in {"pass", "fail", "panic"}
          /\ broken' \subseteq Promises /\ EndOfKey
      BY <1>5, <1>t, <1>p, <1>s, <1>e, Answered DEF LoadActor
    <2> QED BY <1>t, <1>n, <1>s, <1>a, <2>1 DEF SecretsTypeOK, Common
  <1>6. CASE RunPasswordTests
    <2>1. /\ password' \in BOOLEAN /\ Fits("PasswordStorage", "set password")
          /\ UNCHANGED <<at, verdict, way, key, actor, public, private, meta>>
      BY <1>6 DEF RunPasswordTests
    <2> QED BY <1>t, <1>f, <1>s, <2>1 DEF SecretsTypeOK, Common
  <1>7. CASE PasswordSet
    <2>1. /\ pc' \in {"done", "check password"} /\ password' \in BOOLEAN
          /\ UNCHANGED <<at, way, key, actor, public, private, meta>>
          /\ verdict' \in {"pass", "fail", "panic"}
      BY <1>7, <1>t, <1>e DEF PasswordSet
    <2>2. broken' \subseteq Promises
      BY <1>7, <1>t, <1>p, <1>s, <1>l, Answered DEF PasswordSet
    <2> QED BY <1>t, <1>s, <2>1, <2>2 DEF SecretsTypeOK, Common
  <1>8. CASE PasswordCheck
    <2>1. /\ pc' = "done" /\ UNCHANGED <<at, way, secretsVars>>
          /\ verdict' \in {"pass", "fail", "panic"} /\ broken' \subseteq Promises
      BY <1>8, <1>t, <1>p, <1>s, <1>e, Answered DEF PasswordCheck
    <2> QED BY <1>t, <1>s, <2>1 DEF SecretsTypeOK, Common, secretsVars
  <1>9. CASE RunMetadataTests
    <2>1. /\ meta' \in {0, 6} /\ FindsWay /\ Fits("MetadataStorage", "save metadata")
          /\ UNCHANGED <<at, verdict, key, actor, public, private, password>>
      BY <1>9 DEF RunMetadataTests
    <2>2. at' \in Values /\ meta' \in {0} \cup Values
      <3>1. pc = "metadata" /\ pc \in MetadataSteps
        BY <1>9 DEF RunMetadataTests, MetadataSteps
      <3>2. 6 \in Values
        BY DEF Values
      <3> QED BY <1>t, <2>1, <3>1, <3>2
    <2> QED BY <1>t, <1>w, <1>f, <1>s, <2>1, <2>2 DEF SecretsTypeOK, Common
  <1>10. CASE SaveMetadata
    <2>1. /\ pc = "save metadata" /\ pc' = "load metadata" /\ meta' \in {at, meta}
          /\ UNCHANGED <<at, way, key, actor, public, private, password>>
          /\ verdict' \in {"pass", "fail", "panic"} /\ broken' \subseteq Promises
      BY <1>10, <1>t, <1>p, <1>s, <1>e, Answered DEF SaveMetadata
    <2>2. at \in Values
      BY <1>t, <2>1 DEF MetadataSteps
    <2> QED BY <1>t, <1>s, <2>1, <2>2 DEF SecretsTypeOK, Common
  <1>11. CASE LoadMetadata
    <2>1. PICK a : /\ Answers(a, CASE meta = at -> "same"
                                   [] meta \notin {0, at} /\ way = "shares" -> "panic"
                                   [] OTHER -> "error", "load metadata")
                   /\ IF a = "panic" THEN verdict' = "panic" /\ pc' = "done" /\ UNCHANGED at
                      ELSE Expect(a = "same") /\ Advance("save metadata", "done", 6)
      BY <1>11 DEF LoadMetadata
    <2>2. UNCHANGED <<way, key, actor, public, private, password, meta>>
      BY <1>11 DEF LoadMetadata, secretsVars
    <2>3. broken' \subseteq Promises
      BY <2>1, <1>t, <1>p, <1>s, Answered
    <2>4. verdict' \in {"pass", "fail", "panic"}
      BY <2>1, <1>e
    <2>5. /\ pc' \in {"save metadata", "done"} /\ at' \in Nat \ {0}
          /\ pc' = "save metadata" => at' \in Values
      <3>1. CASE a = "panic"
        BY <2>1, <3>1, <1>t
      <3>2. CASE a # "panic"
        <4>1. Advance("save metadata", "done", 6)
          BY <2>1, <3>2
        <4>2. CASE at < 6
          <5>1. pc' = "save metadata" /\ at' = at + 1
            BY <4>1, <4>2 DEF Advance
          <5>2. at + 1 \in Values /\ at + 1 \in Nat \ {0}
            BY <1>t, <4>2 DEF Values
          <5> QED BY <5>1, <5>2
        <4>3. CASE ~(at < 6)
          <5>1. pc' = "done" /\ at' = 1
            BY <4>1, <4>3 DEF Advance
          <5> QED BY <5>1
        <4> QED BY <4>2, <4>3
      <3> QED BY <3>1, <3>2
    <2>6. pc' \in SecretsSteps /\ (pc' \in MetadataSteps => at' \in Values)
      BY <2>5, <1>s
    <2> QED BY <1>t, <2>2, <2>3, <2>4, <2>5, <2>6 DEF SecretsTypeOK, Common
  <1> QED
    BY <1>1, <1>2, <1>3, <1>4, <1>5, <1>6, <1>7, <1>8, <1>9, <1>10, <1>11 DEF SecretsNext

-----------------------------------------------------------------------------
(* Every step of Run. *)
LEMMA TypePreserved == TypeInv /\ [RunNext]_vars => TypeInv'
  <1> SUFFICES ASSUME TypeInv, [RunNext]_vars PROVE TypeInv'
    OBVIOUS
  <1> DEFINE Steps == ActivityPubSteps \cup OAuthSteps \cup SecretsSteps
             Places1 == /\ pc' \in MetadataSteps => at' \in Values
                        /\ pc' \in ActivityPubSteps \ {"query", "done"} => at' \in Objects
             RunTypes == /\ asked \in UNION {[1..n -> Tests] : n \in 0..MaxAsked}
                         /\ storage \in [opens : BOOLEAN, closer : BOOLEAN]
                         /\ turn \in Opening..Died
                         /\ ~storage.opens => turn \in {Opening, Returned}
                         /\ ran \subseteq Tests
                         /\ closed \in BOOLEAN
  <1>t. /\ pc \in Steps /\ at \in Nat \ {0} /\ verdict \in {"pass", "fail", "panic"}
        /\ broken \subseteq Promises /\ way \in Ways \cup {Unknown}
        /\ ActivityPubTypeOK /\ OAuthTypeOK /\ SecretsTypeOK /\ RunTypes
    BY DEF TypeInv, RunTypeOK, Promises
  <1>i. ASSUME Common, pc' \in Steps, way' \in Ways \cup {Unknown}, Places1,
               ActivityPubTypeOK', OAuthTypeOK', SecretsTypeOK', RunTypes'
        PROVE  TypeInv'
    BY <1>i DEF TypeInv, RunTypeOK, Common, Promises
  <1>a. UNCHANGED activityPubVars => ActivityPubTypeOK'
    BY <1>t DEF activityPubVars, ActivityPubTypeOK
  <1>o. UNCHANGED oauthVars /\ (way' # "shares" => way # "shares") => OAuthTypeOK'
    BY <1>t DEF oauthVars, OAuthTypeOK
  <1>s. UNCHANGED secretsVars => SecretsTypeOK'
    BY <1>t DEF secretsVars, SecretsTypeOK
  <1>m. MetadataSteps \cap (ActivityPubSteps \cup OAuthSteps) = {}
    BY DEF MetadataSteps, ActivityPubSteps, OAuthSteps
  <1>1. CASE RunTest
    <2>1. RunTypes'
      BY <1>1, <1>t DEF RunTest, runVars
    <2>2. ASSUME ActivityPubNext, UNCHANGED <<way, oauthVars, secretsVars>> PROVE TypeInv'
      <3>1. /\ ActivityPubTypeOK' /\ Common /\ pc' \in ActivityPubSteps
            /\ pc' \in ActivityPubSteps \ {"query", "done"} => at' \in Objects
        BY <2>2, ActivityPubTypes
      <3> QED BY <1>i, <1>m, <1>o, <1>s, <1>t, <2>1, <2>2, <3>1
    <2>3. ASSUME OAuthNext, UNCHANGED <<activityPubVars, secretsVars>> PROVE TypeInv'
      <3>1. OAuthTypeOK' /\ Common /\ pc' \in OAuthSteps /\ way' \in Ways \cup {Unknown}
        BY <2>3, OAuthTypes
      <3> QED BY <1>i, <1>m, <1>a, <1>s, <2>1, <2>3, <3>1, StepsApart
    <2>4. ASSUME SecretsNext, UNCHANGED <<activityPubVars, oauthVars>> PROVE TypeInv'
      <3>1. /\ SecretsTypeOK' /\ Common /\ pc' \in SecretsSteps
            /\ pc' \in MetadataSteps => at' \in Values
            /\ way' \in Ways \cup {Unknown} /\ (way' # "shares" => way # "shares")
        BY <2>4, SecretsTypes
      <3> QED BY <1>i, <1>a, <1>o, <2>1, <2>4, <3>1, StepsApart
    <2> QED BY <1>1, <2>2, <2>3, <2>4 DEF RunTest
  <1>2. CASE StartTest
    <2>1. /\ UNCHANGED <<verdict, broken, way, activityPubVars, oauthVars, secretsVars,
                         asked, storage, turn, closed>>
          /\ turn \in DOMAIN Order /\ ran' = ran \cup {Order[turn]}
          /\ pc' = FirstStep(Order[turn]) /\ at' = 1
      BY <1>2 DEF StartTest
    <2>2. Order[turn] \in Tests
      BY <2>1 DEF Order, Tests
    <2>3. pc' \in {"init", "oauth", "keys", "passwords", "metadata"}
      BY <2>1, <2>2, FirstSteps DEF Tests
    <2>4. pc' \in Steps
      BY <2>3 DEF ActivityPubSteps, OAuthSteps, SecretsSteps
    <2>5. 1 \in Values /\ 1 \in Objects /\ 1 \in Nat \ {0}
      BY Places DEF Values
    <2>6. Common /\ RunTypes' /\ Places1
      BY <1>t, <2>1, <2>2, <2>5 DEF Common
    <2> QED BY <1>i, <1>a, <1>o, <1>s, <1>t, <2>1, <2>4, <2>6
  <1>3. CASE Open \/ EndTest \/ UNCHANGED vars
    <2>1. UNCHANGED <<testVars, asked, storage, ran>>
      BY <1>3 DEF Open, EndTest, vars, runVars
    <2>2. /\ turn' \in Opening..Died /\ (~storage.opens => turn' \in {Opening, Returned})
          /\ closed' \in BOOLEAN
      <3>1. CASE Open
        BY <1>t, <3>1 DEF Open, Opening, Returned, Died
      <3>2. CASE EndTest
        <4>1. turn \in 1..5 /\ turn' \in {Died, turn + 1}
          BY <3>2 DEF EndTest, Order
        <4>2. storage.opens
          BY <1>t, <4>1 DEF Opening, Returned
        <4>3. closed' \in BOOLEAN
          BY <1>t, <3>2 DEF EndTest
        <4> QED BY <4>1, <4>2, <4>3 DEF Opening, Died
      <3>3. CASE UNCHANGED vars
        BY <1>t, <3>3 DEF vars, runVars
      <3> QED BY <1>3, <3>1, <3>2, <3>3
    <2>3. UNCHANGED <<pc, at, verdict, broken, way, activityPubVars, oauthVars, secretsVars>>
      BY <2>1 DEF testVars
    <2>4. Common /\ Places1
      BY <1>t, <2>3 DEF Common, TypeInv
    <2>5. RunTypes'
      BY <1>t, <2>1, <2>2
    <2> QED BY <1>i, <1>a, <1>o, <1>s, <1>t, <2>3, <2>4, <2>5
  <1> QED BY <1>1, <1>2, <1>3 DEF RunNext

LEMMA TypesInitially == RunInit => TypeInv
  <1> SUFFICES ASSUME RunInit PROVE TypeInv
    OBVIOUS
  <1>1. ActivityPubTypeOK
    BY SuiteAssumption DEF RunInit, ActivityPubInit, ActivityPubTypeOK
  <1>2. OAuthTypeOK
    BY GrantTypes, EntryTypes, Entry
       DEF RunInit, OAuthInit, OAuthTypeOK, Clients, Codes
  <1>3. SecretsTypeOK
    BY DEF RunInit, SecretsInit, SecretsTypeOK
  <1>4. /\ pc = "done" /\ at \in Nat \ {0} /\ verdict = "pass" /\ broken = {}
        /\ way = Unknown
    BY DEF RunInit
  <1>5. /\ asked \in UNION {[1..n -> Tests] : n \in 0..MaxAsked}
        /\ storage \in [opens : BOOLEAN, closer : BOOLEAN]
        /\ turn \in Opening..Died /\ turn = Opening
        /\ ran = {} /\ closed = FALSE
    BY DEF RunInit, Opening, Died
  <1>6. "done" \in ActivityPubSteps \cup OAuthSteps \cup SecretsSteps
        /\ "done" \notin MetadataSteps
    BY DEF ActivityPubSteps, MetadataSteps
  <1>7. RunTypeOK
    BY <1>1, <1>2, <1>3, <1>4, <1>5, <1>6 DEF RunTypeOK
  <1> QED BY <1>4, <1>6, <1>7 DEF TypeInv

(* Whatever the backend answers, the state of the suite, of the tests and of the backend *)
(* keep their types, and no test runs on a storage that did not open                     *)
(* (suite.go:35-83).                                                                     *)
THEOREM SuiteTypes == RunSpec => []RunTypeOK
  <1>1. TypeInv => RunTypeOK
    BY DEF TypeInv
  <1> QED BY <1>1, TypesInitially, TypePreserved, PTL DEF RunSpec

-----------------------------------------------------------------------------
(* The pages of a traversal. *)
FirstPage == [size |-> 1, left |-> N, after |-> 0]
BeforePages ==
    {"init", "load root", "save", "load saved", "remove from nothing", "add to nothing",
     "create", "load created", "add", "load added", "query"}

(* The pages of the present size that were loaded: they end where the next starts. *)
Traversed ==
    /\ page \in [size : 1..(N + 1), left : 0..N, after : 0..N]
    /\ page.left <= N \div page.size
    /\ seen \subseteq 1..page.after
    /\ Cardinality(seen) = (N \div page.size - page.left) * page.size

TraversalInv ==
    /\ pc \in ActivityPubSteps \ {"done"} => TestActivityPub \in ran
    /\ TestActivityPub \notin ran \/ pc \in BeforePages => page = FirstPage /\ seen = {}
    /\ pc = "page" /\ verdict = "pass" => Traversed

-----------------------------------------------------------------------------
(* A page has a full number of objects only where that many are left. *)
LEMMA FullPage ==
  ASSUME page \in [size : 1..(N + 1), left : 0..N, after : 0..N],
         Cardinality(PageOf(Objects)) = page.size
  PROVE  /\ page.after + page.size \in 1..N
         /\ PageOf(Objects) = (page.after + 1)..(page.after + page.size)
         /\ PageOf(Objects) # {}
         /\ Last(PageOf(Objects)) = page.after + page.size
  <1> DEFINE after == page.after
             size == page.size
             S == {i \in Objects : i > after}
             P == (after + 1)..(after + size)
  <1>1. N \in Nat /\ after \in 0..N /\ size \in Nat /\ size > 0
    BY SuiteAssumption
  <1>2. S = (after + 1)..N
    BY <1>1 DEF Objects
  <1>3. ASSUME NEW i \in S PROVE Cardinality({j \in S : j <= i}) = i - after
    <2>1. i \in Nat /\ i > after /\ i <= N
      BY <1>1, <1>3 DEF Objects
    <2>2. {j \in S : j <= i} = (after + 1)..i
      BY <1>1, <1>2, <2>1
    <2>3. Cardinality((after + 1)..i) = i - (after + 1) + 1
      BY <1>1, <2>1, FS_Interval
    <2>4. i - (after + 1) + 1 = i - after
      BY <1>1, <2>1
    <2> HIDE DEF S
    <2> QED BY <2>2, <2>3, <2>4
  <1>4. PageOf(Objects) = {i \in S : Cardinality({j \in S : j <= i}) <= size}
    BY DEF PageOf, First
  <1>5. PageOf(Objects) = {i \in S : i - after <= size}
    BY <1>3, <1>4
  <1>6. after + size <= N
    <2> SUFFICES ASSUME after + size > N PROVE FALSE
      BY <1>1
    <2>1. PageOf(Objects) = (after + 1)..N
      BY <1>1, <1>2, <1>5
    <2>2. Cardinality((after + 1)..N) = N - after
      <3>1. CASE after = N
        BY <1>1, <3>1, FS_Interval
      <3>2. CASE after < N
        <4>1. Cardinality((after + 1)..N) = N - (after + 1) + 1
          BY <1>1, <3>2, FS_Interval
        <4> QED BY <1>1, <4>1
      <3> QED BY <1>1, <3>1, <3>2
    <2> QED BY <1>1, <2>1, <2>2
  <1>7. PageOf(Objects) = P
    BY <1>1, <1>2, <1>5, <1>6
  <1>8. after + size \in P /\ \A j \in P : j <= after + size
    BY <1>1
  <1>9. Last(P) = after + size
    <2>1. \E i \in P : \A j \in P : j <= i
      BY <1>8
    <2>2. Last(P) \in P /\ \A j \in P : j <= Last(P)
      BY <2>1 DEF Last
    <2> QED BY <1>1, <1>8, <2>2
  <1> QED BY <1>1, <1>6, <1>7, <1>8, <1>9

(* One more page that was the right one. *)
LEMMA PageAdded ==
  ASSUME Traversed, page.left > 0,
         Cardinality(PageOf(Objects)) = page.size, NEW skip \in {0, 1},
         skip = 1 => page.after + page.size < N,
         page' = [size |-> page.size, left |-> page.left - 1,
                  after |-> Last(PageOf(Objects)) + skip],
         seen' = seen \cup PageOf(Objects)
  PROVE  Traversed'
  <1> DEFINE size == page.size
             after == page.after
             left == page.left
             d == N \div size
             P == (after + 1)..(after + size)
  <1>1. /\ N \in Nat /\ after \in 0..N /\ size \in 1..(N + 1) /\ left \in 1..N
        /\ d \in Nat /\ left <= d /\ seen \subseteq 1..after
        /\ Cardinality(seen) = (d - left) * size
    BY SuiteAssumption DEF Traversed
  <1>2. after + size \in 1..N /\ PageOf(Objects) = P /\ Last(PageOf(Objects)) = after + size
    BY FullPage DEF Traversed
  <1>3. page' = [size |-> size, left |-> left - 1, after |-> after + size + skip]
    BY <1>2
  <1>4. after + size + skip \in 0..N
    BY <1>1, <1>2
  <1>5. seen' \subseteq 1..(after + size + skip)
    <2>1. 1..after \subseteq 1..(after + size + skip)
      BY <1>1
    <2>2. P \subseteq 1..(after + size + skip)
      BY <1>1
    <2> HIDE DEF P, after, size
    <2> QED BY <1>1, <1>2, <2>1, <2>2
  <1>6. Cardinality(seen') = (d - left) * size + size
    <2>0. /\ after \in Int /\ after + 1 \in Int /\ after + size \in Int /\ size \in Int
          /\ after + 1 <= after + size /\ (after + size) - (after + 1) + 1 = size
      BY <1>1
    <2> HIDE DEF after, size, left, d
    <2>1. IsFiniteSet(1..after) /\ IsFiniteSet(P)
      <3>1. IsFiniteSet(1..after)
        BY <2>0, 1 \in Int, FS_Interval
      <3>2. IsFiniteSet(P)
        BY <2>0, FS_Interval
      <3> QED BY <3>1, <3>2
    <2>2. IsFiniteSet(seen)
      BY <1>1, <2>1, FS_Subset
    <2>3. Cardinality(P) = size
      <3>1. Cardinality(P) = (after + size) - (after + 1) + 1
        BY <2>0, FS_Interval
      <3> QED BY <2>0, <3>1
    <2>4. seen \cap P = {}
      BY <1>1
    <2>5. Cardinality(seen \cup P) = Cardinality(seen) + Cardinality(P) - Cardinality(seen \cap P)
      BY <2>1, <2>2, FS_Union
    <2>6. Cardinality(seen \cap P) = 0
      <3> HIDE DEF P
      <3>1. Cardinality({}) = 0
        BY FS_EmptySet
      <3> QED BY <3>1, <2>4, Zenon
    <2> DEFINE before == (d - left) * size
    <2>7. before \in Int /\ Cardinality(seen) = before
      BY <1>1
    <2> HIDE DEF before, P
    <2>8. Cardinality(seen \cup P) = before + size
      BY <2>0, <2>3, <2>5, <2>6, <2>7
    <2> QED BY <1>2, <2>8 DEF before
  <1>7. (d - left) * size + size = (d - (left - 1)) * size
    <2> HIDE DEF d, size, left
    <2> QED BY <1>1
  <1>8. /\ page'.size = size /\ page'.left = left - 1 /\ page'.after = after + size + skip
        /\ page' \in [size : 1..(N + 1), left : 0..N, after : 0..N]
    <2>1. left - 1 \in 0..N
      BY <1>1
    <2>2. page'.size = size /\ page'.left = left - 1 /\ page'.after = after + size + skip
      BY <1>3
    <2> HIDE DEF size, left, after
    <2> QED BY <1>1, <1>3, <1>4, <2>1, <2>2
  <1>9. Cardinality(seen') = (d - (left - 1)) * size
    BY <1>6, <1>7
  <1>10. left - 1 <= d
    BY <1>1
  <1> HIDE DEF size, left, after
  <1> QED BY <1>5, <1>8, <1>9, <1>10 DEF Traversed

(* The first page of a size. *)
LEMMA NothingTraversed ==
  ASSUME NEW size \in 1..(N + 1),
         page' = [size |-> size, left |-> N \div size, after |-> 0], seen' = {}
  PROVE  Traversed'
  <1>1. N \in Nat /\ size \in Nat /\ size > 0
    BY SuiteAssumption
  <1>2. N \div size \in Nat /\ N \div size <= N
    BY <1>1
  <1>3. (N \div size - N \div size) * size = 0
    BY <1>1, <1>2
  <1> QED BY <1>1, <1>2, <1>3, FS_EmptySet DEF Traversed

-----------------------------------------------------------------------------
LEMMA ActivityPubTraverses ==
  ASSUME TraversalInv, ActivityPubNext, UNCHANGED ran
  PROVE  TraversalInv'
  <1> DEFINE Quiet == {"remove", "load removed", "delete", "load deleted", "done"}
  <1>r. pc \in ActivityPubSteps \ {"done"} /\ TestActivityPub \in ran
    BY DEF TraversalInv, ActivityPubNext, InitActivityPub, LoadRoot, SaveObject,
           SaveWithoutCollections, LoadSaved, EditNothing, CreateCollection, LoadCreated, AddTo,
           LoadAdded, LoadInbox, Query, LoadPage, NextSize, RemoveFrom, LoadRemoved, Delete,
           LoadDeleted, ActivityPubSteps
  <1>1. CASE LoadPage
    <2>1. pc = "page" /\ pc' = "page"
      BY <1>1 DEF LoadPage
    <2>2. ASSUME verdict' = "pass" PROVE Traversed'
      <3> DEFINE expected == PageOf(Objects)
      <3>1. PICK a \in {Right(PageOf(All))} \cup Wrong(PageOf(All)), skip \in {0, 1} :
               LET fatal == PageFails(a, expected)
                   next == IF a.items = {} THEN page.after ELSE Last(a.items)
               IN  /\ skip = 1 => next < N
                   /\ Expect(~fatal /\ a.items = expected)
                   /\ page' = [page EXCEPT !.left = @ - 1,
                                           !.after = IF fatal THEN @ ELSE next + skip]
                   /\ seen' = seen \cup a.items
        <4>1. ASSUME NEW a, NEW skip, NEW next,
                     \/ skip = 0 /\ Answers(a, Right(PageOf(All)), "page")
                     \/ skip = 1 /\ a = Right(PageOf(All)) /\ next < N /\ Answers(1, 0, "next")
              PROVE  skip = 1 => next < N
          BY <4>1
        <4> HIDE DEF expected
        <4> QED BY <1>1, <4>1 DEF LoadPage, expected
      <3>2. verdict = "pass" /\ ~PageFails(a, expected) /\ a.items = expected
        BY <2>2, <3>1 DEF Expect
      <3>3. Traversed /\ page.left > 0
        BY <1>1, <2>1, <3>2 DEF TraversalInv, LoadPage
      <3>4. Cardinality(expected) = page.size
        BY <3>2 DEF PageFails
      <3>5. expected # {} /\ Last(expected) = page.after + page.size
        BY <3>3, <3>4, FullPage DEF Traversed
      <3>6. /\ page' = [page EXCEPT !.left = @ - 1, !.after = Last(expected) + skip]
            /\ seen' = seen \cup expected
            /\ skip = 1 => page.after + page.size < N
        BY <3>1, <3>2, <3>5
      <3>7. page' = [size |-> page.size, left |-> page.left - 1, after |-> Last(expected) + skip]
        BY <3>3, <3>6 DEF Traversed
      <3> QED BY <3>3, <3>4, <3>6, <3>7, PageAdded
    <2> QED BY <1>r, <2>1, <2>2 DEF TraversalInv, BeforePages
  <1>2. CASE NextSize
    <2>1. pc = "page" /\ UNCHANGED verdict
      BY <1>2 DEF NextSize
    <2>2. CASE pc' = "page" /\ verdict' = "pass"
      <3>1. Traversed
        BY <2>1, <2>2 DEF TraversalInv
      <3>2. page.size <= N
        BY <1>2, <2>1, <2>2 DEF NextSize
      <3>3. /\ page' = [size |-> page.size + 1, left |-> N \div (page.size + 1), after |-> 0]
            /\ seen' = {}
        BY <1>2, <3>2 DEF NextSize
      <3>4. page.size + 1 \in 1..(N + 1)
        BY <3>1, <3>2, SuiteAssumption DEF Traversed
      <3>5. Traversed'
        BY <3>3, <3>4, NothingTraversed
      <3> QED BY <1>r, <2>2, <3>5 DEF TraversalInv, BeforePages
    <2>3. CASE ~(pc' = "page" /\ verdict' = "pass")
      <3>1. pc' \in {"page", "remove"}
        BY <1>2, <2>1 DEF NextSize
      <3> QED BY <1>r, <2>3, <3>1 DEF TraversalInv, BeforePages
    <2> QED BY <2>2, <2>3
  <1>3. CASE Query
    <2>1. /\ pc = "query" /\ pc' \in {"query", "page"} /\ UNCHANGED <<page, seen>>
          /\ page = FirstPage /\ seen = {}
      BY <1>3 DEF Query, Advance, TraversalInv, BeforePages
    <2>2. 1 \in 1..(N + 1) /\ N \div 1 = N
      BY SuiteAssumption
    <2>3. Traversed'
      BY <2>1, <2>2, NothingTraversed DEF FirstPage
    <2> QED BY <1>r, <2>1, <2>3 DEF TraversalInv
  <1>4. CASE InitActivityPub \/ LoadRoot \/ SaveObject \/ SaveWithoutCollections \/ LoadSaved
             \/ EditNothing("remove from nothing", "add to nothing")
             \/ EditNothing("add to nothing", "create")
             \/ CreateCollection \/ LoadCreated \/ AddTo \/ LoadAdded
    <2>1. /\ pc \in BeforePages \ {"query"} /\ pc' \in BeforePages \cup {"done"}
          /\ UNCHANGED <<page, seen>>
      BY <1>4 DEF InitActivityPub, LoadRoot, SaveObject, SaveWithoutCollections, LoadSaved,
                  EditNothing, CreateCollection, LoadCreated, AddTo, LoadAdded, LoadInbox,
                  Advance, Same, BeforePages
    <2> QED BY <1>r, <2>1 DEF TraversalInv, BeforePages
  <1>5. CASE RemoveFrom \/ LoadRemoved \/ Delete \/ LoadDeleted
    <2>1. pc' \in Quiet
      BY <1>5 DEF RemoveFrom, LoadRemoved, Delete, LoadDeleted, Advance
    <2> QED BY <1>r, <2>1 DEF TraversalInv, BeforePages
  <1> QED BY <1>1, <1>2, <1>3, <1>4, <1>5 DEF ActivityPubNext

(* The steps of the other tests, and of Run. *)
LEMMA OthersAside ==
  ASSUME OAuthNext \/ SecretsNext
  PROVE  pc' \notin ActivityPubSteps \ {"done"}
  <1>1. CASE OAuthNext
    BY <1>1 DEF OAuthNext, RunOAuthTests, Fits, TestSaveClient, ListClients, UpdateClient,
                RemoveClient, GetClient, NewTest, SaveAuthorize, LoadAuthorize, SaveAccess,
                LoadAccess, Remove, LoadAfterRemove, LoadRefresh, ActivityPubSteps
  <1>2. CASE SecretsNext
    BY <1>2 DEF SecretsNext, RunKeyTests, SaveKey, SaveActor, LoadKey, LoadActor, EndOfKey,
                RunPasswordTests, PasswordSet, PasswordCheck, RunMetadataTests, SaveMetadata,
                LoadMetadata, Fits, Advance, ActivityPubSteps
  <1> QED BY <1>1, <1>2

LEMMA Aside ==
  ASSUME TraversalInv, pc' \notin ActivityPubSteps \ {"done"}, ran \subseteq ran',
         UNCHANGED activityPubVars
  PROVE  TraversalInv'
  BY DEF TraversalInv, ActivityPubSteps, BeforePages, activityPubVars

LEMMA TraversalPreserved == TraversalInv /\ [RunNext]_vars => TraversalInv'
  <1> SUFFICES ASSUME TraversalInv, [RunNext]_vars
               PROVE  TraversalInv'
    OBVIOUS
  <1>1. CASE RunTest
    <2>1. UNCHANGED ran
      BY <1>1 DEF RunTest, runVars
    <2>2. CASE ActivityPubNext
      BY <2>1, <2>2, ActivityPubTraverses
    <2>3. CASE ~ActivityPubNext
      <3>1. (OAuthNext \/ SecretsNext) /\ UNCHANGED activityPubVars
        BY <1>1, <2>3 DEF RunTest
      <3> QED BY <2>1, <3>1, OthersAside, Aside
    <2> QED BY <2>2, <2>3
  <1>2. CASE StartTest
    <2>1. /\ ran' = ran \cup {Order[turn]} /\ Order[turn] \notin ran
          /\ pc' = FirstStep(Order[turn]) /\ UNCHANGED activityPubVars
      BY <1>2 DEF StartTest
    <2>2. CASE Order[turn] = TestActivityPub
      <3>1. pc' = "init"
        BY <2>1, <2>2 DEF FirstStep, TestActivityPub, TestOAuth, TestKey, TestPassword,
                          TestMetadata
      <3> QED BY <2>1, <2>2, <3>1 DEF TraversalInv, activityPubVars, BeforePages
    <2>3. CASE Order[turn] # TestActivityPub
      <3>1. turn \in 1..5 /\ Order[turn] \in {TestOAuth, TestKey, TestPassword, TestMetadata}
        BY <1>2, <2>3 DEF StartTest, Order
      <3>2. pc' \in {"oauth", "keys", "passwords", "metadata"}
        BY <2>1, <3>1 DEF FirstStep, TestActivityPub, TestOAuth, TestKey, TestPassword,
                          TestMetadata
      <3> QED BY <2>1, <3>2, Aside DEF ActivityPubSteps
    <2> QED BY <2>2, <2>3
  <1>3. CASE Open \/ EndTest \/ UNCHANGED vars
    <2>1. UNCHANGED <<pc, verdict, page, seen, ran>>
      BY <1>3 DEF Open, EndTest, vars, testVars, runVars, activityPubVars
    <2> QED BY <2>1 DEF TraversalInv, Traversed
  <1> QED BY <1>1, <1>2, <1>3 DEF RunNext

(* Whatever pages the backend calls the next ones, a traversal that failed no check was *)
(* given as many objects as fill its pages, for any number of objects                   *)
(* (activitypub_storage.go:345-392).                                                    *)
THEOREM TraversalsAreFull == RunSpec => []TraversalsFillTheirPages
  <1>1. RunInit => TraversalInv
    BY DEF RunInit, ActivityPubInit, TraversalInv, ActivityPubSteps, BeforePages, FirstPage
  <1>2. TraversalInv => TraversalsFillTheirPages
    <2> SUFFICES ASSUME TraversalInv, pc = "page", page.left = 0, page.size <= N,
                        verdict = "pass"
                 PROVE  Cardinality(seen) = N - (N % page.size)
      BY DEF TraversalsFillTheirPages
    <2>1. page.size \in 1..N /\ Cardinality(seen) = (N \div page.size - 0) * page.size
      BY SuiteAssumption DEF TraversalInv, Traversed
    <2>2. \A d \in 1..N : (N \div d - 0) * d = N - (N % d)
      BY SuiteAssumption
    <2> QED BY <2>1, <2>2
  <1> QED BY <1>1, <1>2, TraversalPreserved, PTL DEF RunSpec

-----------------------------------------------------------------------------
(***************************************************************************)
(* The tests that run are the ones that were asked for.                    *)
(***************************************************************************)

Words == 0..31

(* What Or does to a word of five bits: it sets the bit, and no other. *)
LEMMA OrSets ==
  ASSUME NEW w \in Words, NEW t \in Tests
  PROVE  /\ Or(w, t) \in Words
         /\ \A u \in Tests : Has(Or(w, t), u) <=> Has(w, u) \/ u = t
  <1> USE DEF Words, Has, Or, Tests, TestActivityPub, TestKey, TestPassword, TestMetadata, TestOAuth
  <1>1. Or(w, t) \in Words
    <2>1. CASE t = 1
      BY <2>1
    <2>2. CASE t = 2
      BY <2>2
    <2>3. CASE t = 4
      BY <2>3
    <2>4. CASE t = 8
      BY <2>4
    <2>5. CASE t = 16
      BY <2>5
    <2> QED BY <2>1, <2>2, <2>3, <2>4, <2>5
  <1>2. ASSUME NEW u \in Tests
        PROVE  Has(Or(w, t), u) <=> Has(w, u) \/ u = t
    <2>1. CASE t = 1
      BY <2>1
    <2>2. CASE t = 2
      BY <2>2
    <2>3. CASE t = 4
      BY <2>3
    <2>4. CASE t = 8
      BY <2>4
    <2>5. CASE t = 16
      BY <2>5
    <2> QED BY <2>1, <2>2, <2>3, <2>4, <2>5
  <1> QED BY <1>1, <1>2

(* Every set of numbers that is not empty has a least one. *)
LEMMA LeastExists ==
  ASSUME NEW S \in SUBSET Nat, S # {}
  PROVE  \E x \in S : \A y \in S : x <= y
  <1> DEFINE R == OpToRel(<, Nat)
  <1>1. IsWellFoundedOn(R, Nat)
    BY NatLessThanWellFounded
  <1> HIDE DEF R
  <1>2. PICK x \in S : \A y \in S : ~ (<<y, x>> \in R)
    BY <1>1, WFMin
  <1>3. \A y \in S : ~(y < x)
    BY <1>2 DEF R, OpToRel
  <1> QED BY <1>3

(* The words that Suite goes through: there is such a function, and it is the one of *)
(* its definition.                                                                    *)
Through(f, s, n) == f = [m \in 0..n |-> IF m = 0 THEN TestNone ELSE Or(f[m - 1], s[m])]

LEMMA WordsExist ==
  ASSUME NEW s, NEW L \in Nat
  PROVE  \E f : Through(f, s, L)
  <1> DEFINE Without == {n \in 0..L : ~\E f : Through(f, s, n)}
  <1> SUFFICES ASSUME Without # {} PROVE FALSE
    OBVIOUS
  <1>1. PICK x \in Without : \A y \in Without : x <= y
    <2>1. Without \subseteq Nat
      OBVIOUS
    <2> HIDE DEF Without
    <2> QED BY <2>1, LeastExists
  <1>2. x \in Nat /\ ~\E f : Through(f, s, x)
    OBVIOUS
  <1>3. x # 0
    <2>1. ASSUME x = 0 PROVE FALSE
      <3> DEFINE f == [m \in 0..0 |-> TestNone]
      <3>1. Through(f, s, 0)
        BY DEF Through
      <3> QED BY <1>2, <2>1, <3>1
    <2> QED BY <2>1
  <1>4. PICK f : Through(f, s, x - 1)
    <2>1. x - 1 \in 0..L /\ ~(x <= x - 1)
      BY <1>2, <1>3
    <2>2. x - 1 \notin Without
      BY <1>1, <2>1
    <2> QED BY <2>1, <2>2
  <1> DEFINE g == [m \in 0..x |-> IF m < x THEN f[m] ELSE Or(f[x - 1], s[x])]
  <1>5. ASSUME NEW m \in 0..x
        PROVE  g[m] = IF m = 0 THEN TestNone ELSE Or(g[m - 1], s[m])
    <2>1. CASE m = x
      <3>1. g[x - 1] = f[x - 1] /\ g[x] = Or(f[x - 1], s[x])
        BY <1>2, <1>3
      <3> QED BY <1>3, <2>1, <3>1
    <2>2. CASE m # x
      <3>1. m \in 0..(x - 1) /\ g[m] = f[m]
        BY <1>2, <1>3, <2>2
      <3>2. f[m] = IF m = 0 THEN TestNone ELSE Or(f[m - 1], s[m])
        BY <1>4, <3>1 DEF Through
      <3>3. m # 0 => g[m - 1] = f[m - 1]
        BY <1>2, <3>1
      <3> QED BY <3>1, <3>2, <3>3
    <2> QED BY <2>1, <2>2
  <1>6. DOMAIN g = 0..x
    OBVIOUS
  <1>7. Through(g, s, x)
    <2> DEFINE h == [m \in 0..x |-> IF m = 0 THEN TestNone ELSE Or(g[m - 1], s[m])]
    <2>1. g = h
      <3>1. g = [m \in 0..x |-> g[m]]
        OBVIOUS
      <3> HIDE DEF g
      <3> QED BY <1>5, <3>1
    <2> QED BY <2>1 DEF Through
  <1> QED BY <1>2, <1>7

LEMMA SuiteWords ==
  ASSUME NEW n \in Nat, NEW s \in [1..n -> Tests]
  PROVE  \E f : Through(f, s, n) /\ Suite(s) = f[n]
  <1>1. Len(s) = n
    BY LenProperties
  <1> DEFINE f == CHOOSE f : Through(f, s, n)
  <1>2. Through(f, s, n)
    BY WordsExist
  <1>3. Suite(s) = f[n]
    BY <1>1 DEF Suite, Through
  <1> QED BY <1>2, <1>3

(* A test is in the word if and only if it is listed, however often. *)
LEMMA SuiteHas ==
  ASSUME NEW n \in Nat, NEW s \in [1..n -> Tests], NEW t \in Tests
  PROVE  Has(Suite(s), t) <=> \E i \in 1..n : s[i] = t
  <1>1. PICK f : Through(f, s, n) /\ Suite(s) = f[n]
    BY SuiteWords
  <1>2. \A m \in 0..n : f[m] = IF m = 0 THEN TestNone ELSE Or(f[m - 1], s[m])
    BY <1>1 DEF Through
  <1> DEFINE Tells(m) == /\ f[m] \in Words
                         /\ Has(f[m], t) <=> \E i \in 1..m : s[i] = t
             Misses == {m \in 0..n : ~Tells(m)}
  <1>3. Misses = {}
    <2> SUFFICES ASSUME Misses # {} PROVE FALSE
      OBVIOUS
    <2>1. PICK x \in Misses : \A y \in Misses : x <= y
      <3>1. Misses \subseteq Nat
        OBVIOUS
      <3> HIDE DEF Misses
      <3> QED BY <3>1, LeastExists
    <2>2. x \in 0..n /\ ~Tells(x)
      OBVIOUS
    <2>3. CASE x = 0
      <3>1. f[0] = 0
        BY <1>2 DEF TestNone
      <3>2. ~Has(0, t)
        BY DEF Has, Tests, TestActivityPub, TestKey, TestPassword, TestMetadata, TestOAuth
      <3> QED BY <2>2, <2>3, <3>1, <3>2 DEF Words
    <2>4. CASE x # 0
      <3>1. x - 1 \in 0..n /\ x \in 1..n /\ ~(x <= x - 1) /\ 1..x = 1..(x - 1) \cup {x}
        BY <2>2, <2>4
      <3>2. Tells(x - 1)
        BY <2>1, <3>1
      <3>3. s[x] \in Tests /\ f[x] = Or(f[x - 1], s[x])
        BY <1>2, <2>2, <2>4, <3>1
      <3>4. f[x] \in Words /\ (Has(f[x], t) <=> Has(f[x - 1], t) \/ t = s[x])
        BY <3>2, <3>3, OrSets
      <3> QED BY <2>2, <3>1, <3>2, <3>4
    <2> QED BY <2>3, <2>4
  <1>4. n \in 0..n
    OBVIOUS
  <1>5. Tells(n)
    BY <1>3, <1>4
  <1> QED BY <1>1, <1>5

-----------------------------------------------------------------------------
(* The tests that ran are among those asked for, and none that Run has passed is missing. *)
RanInv ==
    /\ \A t \in ran : AskedFor(t)
    /\ storage.opens /\ turn # Died =>
         \A i \in DOMAIN Order : i < turn /\ AskedFor(Order[i]) => Order[i] \in ran

LEMMA RanPreserved ==
  ASSUME TypeInv, RanInv, [RunNext]_vars
  PROVE  RanInv'
  <1>1. UNCHANGED <<asked, storage>> /\ \A t : AskedFor(t)' = AskedFor(t)
    BY DEF RunNext, Open, StartTest, RunTest, EndTest, runVars, vars, AskedFor
  <1>2. turn \in Opening..Died /\ DOMAIN Order = 1..5
    BY DEF TypeInv, RunTypeOK, Order
  <1>3. CASE Open
    BY <1>1, <1>2, <1>3 DEF Open, RanInv, Opening, Returned
  <1>4. CASE StartTest
    BY <1>1, <1>4 DEF StartTest, RanInv
  <1>5. CASE EndTest
    <2>1. /\ turn \in 1..5 /\ ran' = ran /\ turn' = IF verdict = "panic" THEN Died ELSE turn + 1
          /\ AskedFor(Order[turn]) => Order[turn] \in ran
      BY <1>2, <1>5 DEF EndTest
    <2>2. turn # Died
      BY <2>1 DEF Died
    <2>3. turn' # Died => \A i \in 1..5 : i < turn' => i < turn \/ i = turn
      BY <2>1
    <2> QED BY <1>1, <1>2, <2>1, <2>2, <2>3 DEF RanInv
  <1>6. CASE RunTest \/ UNCHANGED vars
    <2>1. UNCHANGED <<turn, ran>>
      BY <1>6 DEF RunTest, vars, runVars
    <2> QED BY <1>1, <2>1 DEF RanInv
  <1> QED BY <1>3, <1>4, <1>5, <1>6 DEF RunNext

(* Once Run returns from a storage that opened, the tests that ran are the ones asked *)
(* for, however many were listed, in whatever order and however often                 *)
(* (suite.go:19-25, 48-83).                                                            *)
THEOREM RunsWhatWasAsked == RunSpec => []RunsWhatIsAsked
  <1>1. RunInit => RanInv
    BY DEF RunInit, RanInv, Opening, Order
  <1>2. TypeInv /\ RanInv => RunsWhatIsAsked
    <2> SUFFICES ASSUME TypeInv, RanInv, turn = Returned, storage.opens
                 PROVE  ran = Asked
      BY DEF RunsWhatIsAsked
    <2>1. PICK n \in 0..MaxAsked : asked \in [1..n -> Tests]
      BY DEF TypeInv, RunTypeOK
    <2>2. n \in Nat /\ Asked = {asked[i] : i \in 1..n} /\ Asked \subseteq Tests
      BY <2>1, MaxAskedAssumption DEF Asked
    <2>3. \A t \in Tests : AskedFor(t) <=> t \in Asked
      BY <2>1, <2>2, SuiteHas DEF AskedFor
    <2>4. ran \subseteq Tests /\ \A t \in ran : AskedFor(t)
      BY DEF TypeInv, RunTypeOK, RanInv
    <2>5. ASSUME NEW t \in Tests, AskedFor(t) PROVE t \in ran
      <3>1. PICK i \in 1..5 : Order[i] = t
        BY DEF Order, Tests
      <3>2. i < turn /\ turn # Died /\ i \in DOMAIN Order
        BY <3>1 DEF Returned, Died, Order
      <3> QED BY <2>5, <3>1, <3>2 DEF RanInv
    <2> QED BY <2>2, <2>3, <2>4, <2>5
  <1>3. TypeInv /\ RanInv /\ [RunNext]_vars => RanInv'
    BY RanPreserved
  <1> QED BY <1>1, <1>2, <1>3, TypesInitially, TypePreserved, PTL DEF RunSpec

-----------------------------------------------------------------------------
(***************************************************************************)
(* A backend that breaks one promise does not pass.                        *)
(***************************************************************************)

(* What a backend that has kept its promises holds at some more steps, where it was *)
(* empty at first.                                                                  *)
BeforeCreate ==
    {"init", "load root", "save", "load saved", "remove from nothing", "add to nothing", "create"}
BeforeCode ==
    {"save client", "get client", "list clients", "update client", "get updated",
     "remove client", "get removed", "client for code", "save code"}
BeforeAccess ==
    BeforeCode \cup {"load code", "remove code", "load removed code", "client for access",
                     "code for access", "save access"}

GoodBefore ==
    /\ pc \in BeforeCreate => inbox = Missing
    /\ fresh /\ pc = "save client" => clients = "none"
    /\ fresh /\ pc \in BeforeCode => codes[Code1] = Nothing
    /\ fresh /\ pc \in BeforeAccess => access = Nothing
    /\ pc = "remove code" => codes[Code1] # Nothing
    /\ pc = "remove access" => access # Nothing
    /\ pc = "remove refresh" => refresh = TRUE
    /\ pc \in {"load removed access", "client for refresh", "code for refresh",
               "access for refresh"} => refresh = FALSE
    /\ pc = "metadata" => at = 1
    /\ pc = "save metadata" => meta # at

BeforeInv == broken = {} => GoodBefore

(* The OAuth tests begin but once, and fresh is found out then. *)
FreshInv ==
    /\ TestOAuth \notin ran \/ pc = "oauth" => fresh
    /\ pc \in OAuthSteps \ {"done"} => TestOAuth \in ran

(* Where a promise may be broken and no check have noticed it yet. *)
ActivityPubLate(p) ==
    \/ p = "save" /\ pc = "load saved" /\ at \notin kept
    \/ p = "create" /\ pc = "load created" /\ inbox = Missing
    \/ p = "add" /\ pc = "load added" /\ inbox \subseteq Objects /\ inbox # Objects
    \/ p = "remove" /\ pc = "load removed" /\ inbox \subseteq Objects /\ inbox # {}
    \/ p = "delete" /\ pc = "load deleted" /\ at \in kept

Altered(c) == [NewGrant(c) EXCEPT !.access = Changed(Given)]

OAuthLate(p) ==
    \/ p = "save client" /\ pc = "get client" /\ clients # "first"
    \/ p = "save client" /\ pc = "get updated" /\ clients # "second"
    \/ p = "remove client" /\ pc = "get removed" /\ clients # "none"
    \/ /\ p = "save code" /\ pc = "load code" /\ mine = NewGrant(Code1)
       /\ codes[Code1] \in {Nothing, Copy(Changed(Given))}
    \/ p = "remove code" /\ pc = "load removed code" /\ codes[mine.code] # Nothing
    \/ /\ p = "save access" /\ pc = "load access" /\ mine = NewGrant(Code2)
       /\ access \in {Nothing, Copy(Altered(Code2))}
    \/ p = "remove access" /\ pc = "load removed access" /\ access # Nothing
    \/ /\ p = "save access" /\ pc = "load refresh" /\ mine = NewGrant(Code1)
       /\ refresh => access \in {Nothing, Copy(Altered(Code1))}
    \/ p = "remove refresh" /\ pc = "load removed refresh" /\ refresh /\ access # Nothing

SecretsLate(p) ==
    \/ p = "save key" /\ pc \in {"save actor", "load key"} /\ key # "given"
    \/ /\ p = "public key" /\ public = "other" /\ key = "given"
       /\ \/ pc = "save actor"
          \/ pc = "load key" /\ actor = "other"
          \/ pc = "load actor" /\ actor = "other" /\ private = "given"
    \/ /\ p = "save actor" /\ key = "given" /\ actor # "given"
       /\ pc = "load key" \/ (pc = "load actor" /\ private = "given")
    \/ p = "set password" /\ pc = "check password" /\ password = FALSE
    \/ p = "save metadata" /\ pc = "load metadata" /\ meta # at

LateInv ==
    \A p : broken = {p} /\ verdict = "pass" =>
        /\ p \in ActivityPubChecked => ActivityPubLate(p)
        /\ p \in OAuthChecked /\ fresh => OAuthLate(p)
        /\ p \in SecretsChecked => SecretsLate(p)

-----------------------------------------------------------------------------
(* Which promises a step may break: those of its own test, and no more than Faults. *)
Breaks(promises) ==
    \/ broken' = broken
    \/ \E p \in promises : /\ p \in broken \/ Cardinality(broken) < Faults
                           /\ broken' = broken \cup {p}

LEMMA OneBreaks ==
  ASSUME NEW promises, NEW p \in promises, NEW a, NEW right, Answers(a, right, p)
  PROVE  Breaks(promises)
  BY DEF Answers, Breaks

LEMMA ActivityPubBreaks ==
  ASSUME ActivityPubNext
  PROVE  Breaks(ActivityPubPromises)
  <1>a. \A p, a, right : p \in ActivityPubPromises /\ Answers(a, right, p) => Breaks(ActivityPubPromises)
    BY OneBreaks
  <1>b. UNCHANGED broken => Breaks(ActivityPubPromises)
    BY DEF Breaks
  <1> USE DEF ActivityPubPromises
  <1>1. CASE InitActivityPub \/ LoadRoot \/ SaveObject \/ SaveWithoutCollections \/ LoadSaved
    BY <1>1, <1>a DEF InitActivityPub, LoadRoot, SaveObject, SaveWithoutCollections, LoadSaved
  <1>2. CASE EditNothing("remove from nothing", "add to nothing")
             \/ EditNothing("add to nothing", "create") \/ CreateCollection \/ LoadCreated
    BY <1>2, <1>a DEF EditNothing, CreateCollection, LoadCreated
  <1>3. CASE AddTo \/ RemoveFrom \/ Delete \/ LoadDeleted \/ NextSize
    BY <1>3, <1>a, <1>b DEF AddTo, RemoveFrom, Delete, LoadDeleted, NextSize
  <1>4. CASE LoadAdded \/ Query \/ LoadRemoved
    BY <1>4, <1>a DEF LoadAdded, Query, LoadRemoved, LoadInbox
  <1>5. CASE LoadPage
    BY <1>5, <1>a DEF LoadPage
  <1> QED BY <1>1, <1>2, <1>3, <1>4, <1>5 DEF ActivityPubNext

LEMMA OAuthBreaks ==
  ASSUME OAuthNext
  PROVE  Breaks(OAuthPromises)
  <1>a. \A p, a, right : p \in OAuthPromises /\ Answers(a, right, p) => Breaks(OAuthPromises)
    BY OneBreaks
  <1>b. UNCHANGED broken => Breaks(OAuthPromises)
    BY DEF Breaks
  <1>p. {"OSINStorage", "save client", "get client", "list clients", "remove client",
         "save code", "load code", "remove code", "save access", "load access",
         "remove access", "load refresh", "remove refresh", "save again",
         "leave data alone"} \subseteq OAuthPromises
    BY DEF OAuthPromises
  <1>1. CASE RunOAuthTests \/ TestSaveClient \/ UpdateClient \/ ListClients \/ RemoveClient
    BY <1>1, <1>a, <1>b, <1>p
       DEF RunOAuthTests, Fits, TestSaveClient, UpdateClient, SaveClient, ListClients, RemoveClient
  <1>2. ASSUME NEW step, NEW next, NEW data, GetClient(step, next, data) \/ NewTest(step, next, data)
        PROVE  Breaks(OAuthPromises)
    BY <1>2, <1>a, <1>b, <1>p DEF GetClient, NewTest, SaveClient
  <1>3. ASSUME NEW step, NEW next, NEW promise \in OAuthPromises, SaveAuthorize(step, next, promise)
        PROVE  Breaks(OAuthPromises)
    BY <1>3, <1>a, <1>p DEF SaveAuthorize, Blame
  <1>4. ASSUME NEW step, NEW next, NEW outcomes, NEW heard, SaveAccess(step, next, outcomes, heard)
        PROVE  Breaks(OAuthPromises)
    BY <1>4, <1>a, <1>p DEF SaveAccess, Blame
  <1>5. ASSUME NEW step \in OAuthPromises, NEW next, Remove(step, next)
        PROVE  Breaks(OAuthPromises)
    BY <1>5, <1>a DEF Remove, Removal
  <1>6. CASE LoadAuthorize \/ LoadAccess \/ LoadRefresh
    BY <1>6, <1>a, <1>p DEF LoadAuthorize, LoadAccess, LoadRefresh
  <1>7. ASSUME NEW step, NEW next, NEW right, NEW promise \in OAuthPromises,
               LoadAfterRemove(step, next, right, promise)
        PROVE  Breaks(OAuthPromises)
    BY <1>7, <1>a DEF LoadAfterRemove
  <1> QED
    BY <1>1, <1>2, <1>3, <1>4, <1>5, <1>6, <1>7, <1>p DEF OAuthNext

LEMMA SecretsBreak ==
  ASSUME SecretsNext
  PROVE  Breaks(SecretsPromises)
  <1>a. \A p, a, right : p \in SecretsPromises /\ Answers(a, right, p) => Breaks(SecretsPromises)
    BY OneBreaks
  <1>p. {"KeyStorage", "save key", "public key", "save actor", "load key", "load actor",
         "PasswordStorage", "set password", "check password",
         "MetadataStorage", "save metadata", "load metadata", "save the same"} \subseteq SecretsPromises
    BY DEF SecretsPromises
  <1>s. \A p, held : p \in SecretsPromises => LostSave(p, held) \in SecretsPromises
    BY <1>p DEF LostSave
  <1>1. CASE RunKeyTests \/ RunPasswordTests \/ RunMetadataTests
    BY <1>1, <1>a, <1>p DEF RunKeyTests, RunPasswordTests, RunMetadataTests, Fits
  <1>2. CASE SaveKey
    BY <1>2, <1>a, <1>p, <1>s DEF SaveKey
  <1>3. CASE SaveActor \/ PasswordSet
    BY <1>3, <1>a, <1>p, <1>s DEF SaveActor, PasswordSet
  <1>4. CASE LoadKey \/ LoadActor \/ PasswordCheck \/ SaveMetadata \/ LoadMetadata
    BY <1>4, <1>a, <1>p DEF LoadKey, LoadActor, PasswordCheck, SaveMetadata, LoadMetadata
  <1> QED BY <1>1, <1>2, <1>3, <1>4 DEF SecretsNext

(* No promise belongs to two of the tests. *)
LEMMA PromisesApart ==
  /\ ActivityPubPromises \cap OAuthPromises = {}
  /\ ActivityPubPromises \cap SecretsPromises = {}
  /\ OAuthPromises \cap SecretsPromises = {}
  BY DEF ActivityPubPromises, OAuthPromises, SecretsPromises

-----------------------------------------------------------------------------
(* The steps that GoodBefore is about, by their tests. *)
LEMMA BeforeSteps ==
  /\ BeforeCreate \subseteq ActivityPubSteps \ {"done"}
  /\ BeforeCode \subseteq OAuthSteps \ {"done"}
  /\ BeforeAccess \subseteq OAuthSteps \ {"done"}
  BY DEF BeforeCreate, BeforeCode, BeforeAccess, ActivityPubSteps, OAuthSteps

LEMMA ActivityPubMoves ==
  ASSUME ActivityPubNext
  PROVE  /\ pc \in ActivityPubSteps \ {"done"} /\ pc' \in ActivityPubSteps
         /\ pc' \in BeforeCreate => pc \in BeforeCreate /\ UNCHANGED inbox
  BY DEF ActivityPubNext, InitActivityPub, LoadRoot, SaveObject, SaveWithoutCollections,
         LoadSaved, EditNothing, CreateCollection, LoadCreated, AddTo, LoadAdded, LoadInbox,
         Query, LoadPage, NextSize, RemoveFrom, LoadRemoved, Delete, LoadDeleted, Advance,
         Same, backend, ActivityPubSteps, BeforeCreate, BeforeCode, BeforeAccess

LEMMA OAuthMoves ==
  ASSUME OAuthNext
  PROVE  /\ pc \in OAuthSteps \ {"done"} /\ pc' \in OAuthSteps \ {"oauth"}
         /\ pc # "oauth" => UNCHANGED fresh
  BY DEF OAuthNext, RunOAuthTests, Fits, TestSaveClient, ListClients, UpdateClient,
         RemoveClient, GetClient, NewTest, SaveAuthorize, LoadAuthorize, SaveAccess,
         LoadAccess, Remove, LoadAfterRemove, LoadRefresh, OAuthSteps, oauthVars

LEMMA SecretsMoves ==
  ASSUME SecretsNext
  PROVE  pc \in SecretsSteps \ {"done"} /\ pc' \in SecretsSteps \ {"metadata"}
  BY DEF SecretsNext, RunKeyTests, SaveKey, SaveActor, LoadKey, LoadActor, EndOfKey,
         RunPasswordTests, PasswordSet, PasswordCheck, RunMetadataTests, SaveMetadata,
         LoadMetadata, Fits, Advance, SecretsSteps

(* GoodBefore says nothing of the steps of the other tests. *)
LEMMA NothingBefore ==
  ASSUME pc' \notin BeforeCreate, pc' \notin OAuthSteps \ {"oauth", "done"},
         pc' = "metadata" => at' = 1, pc' = "save metadata" => meta' # at'
  PROVE  GoodBefore'
  BY BeforeSteps DEF GoodBefore, OAuthSteps, BeforeCreate, BeforeCode, BeforeAccess

LEMMA OAuthBefore ==
  ASSUME Good, GoodBefore, OAuthNext, broken' = {}
  PROVE  GoodBefore'
  <1> DEFINE Kept == UNCHANGED <<fresh, clients, codes, access, refresh>>
  <1>a. /\ pc' \notin BeforeCreate /\ pc' # "metadata" /\ pc' # "save metadata"
    BY OAuthMoves, BeforeSteps, StepsApart DEF ActivityPubSteps, OAuthSteps
  <1>c. Codes = {Code1, Code2} /\ Code1 # Code2
    BY DEF Codes, Code1, Code2
  <1> USE DEF GoodBefore, BeforeCreate, BeforeCode, BeforeAccess
  <1>1. CASE RunOAuthTests
    <2>1. pc = "oauth" /\ pc' = "save client" /\ OAuthInit
      BY <1>1 DEF RunOAuthTests, Fits, Answers, Good, GoodOAuth
    <2>2. fresh' => clients' = "none" /\ codes' = [c \in Codes |-> Nothing] /\ access' = Nothing
      BY <1>1, <2>1 DEF RunOAuthTests, store, OAuthInit
    <2> QED BY <1>a, <1>c, <2>1, <2>2
  <1>2. CASE TestSaveClient \/ UpdateClient \/ RemoveClient
    <2>1. UNCHANGED <<fresh, codes, access, refresh>>
      BY <1>2 DEF TestSaveClient, UpdateClient, RemoveClient
    <2>2. \/ pc = "save client" /\ pc' \in {"get client", "client for code"}
          \/ pc = "update client" /\ pc' = "get updated"
          \/ pc = "remove client" /\ pc' = "get removed"
      BY <1>2 DEF TestSaveClient, UpdateClient, RemoveClient
    <2> QED BY <1>a, <2>1, <2>2
  <1>3. CASE \/ GetClient("get client", "list clients", "first")
             \/ GetClient("get updated", "remove client", "second")
             \/ GetClient("get removed", "client for code", "none")
             \/ ListClients
    <2>1. Kept
      BY <1>3 DEF GetClient, ListClients, oauthVars
    <2>2. \/ pc = "get client" /\ pc' = "list clients"
          \/ pc = "get updated" /\ pc' = "remove client"
          \/ pc = "get removed" /\ pc' = "client for code"
          \/ pc = "list clients" /\ pc' = "update client"
      BY <1>3 DEF GetClient, ListClients
    <2> QED BY <1>a, <2>1, <2>2
  <1>n. ASSUME NEW step, NEW next, NEW code, NewTest(step, next, code)
        PROVE  /\ pc = step /\ pc' = next /\ UNCHANGED <<fresh, refresh>>
               /\ codes[Code1] = Nothing => codes'[Code1] = Nothing
               /\ access = Nothing => access' = Nothing
    <2>1. /\ codes' = [c \in Codes |-> Detached(codes[c], mine.auth)]
          /\ access' = Detached(access, mine)
          /\ pc = step /\ pc' = next /\ UNCHANGED <<fresh, refresh>>
      BY <1>n DEF NewTest
    <2>2. Nothing # Shared
      BY Entry
    <2> QED BY <1>c, <2>1, <2>2 DEF Detached
  <1>4. CASE \/ NewTest("client for code", "save code", "xx44aa1!")
             \/ NewTest("client for access", "code for access", "yy44aa1!")
             \/ NewTest("client for refresh", "code for refresh", "xx44aa1!")
    <2>1. /\ UNCHANGED <<fresh, refresh>>
          /\ codes[Code1] = Nothing => codes'[Code1] = Nothing
          /\ access = Nothing => access' = Nothing
      BY <1>4, <1>n
    <2>2. \/ pc = "client for code" /\ pc' = "save code"
          \/ pc = "client for access" /\ pc' = "code for access"
          \/ pc = "client for refresh" /\ pc' = "code for refresh"
      BY <1>4 DEF NewTest
    <2> QED BY <1>a, <2>1, <2>2
  <1>5. CASE \/ SaveAuthorize("save code", "load code", "save code")
             \/ SaveAuthorize("code for access", "save access", "save again")
             \/ SaveAuthorize("code for refresh", "access for refresh", "save again")
    <2>1. UNCHANGED <<fresh, access, refresh>>
      BY <1>5 DEF SaveAuthorize
    <2>2. \/ pc = "save code" /\ pc' = "load code"
          \/ pc = "code for access" /\ pc' = "save access"
          \/ pc = "code for refresh" /\ pc' = "access for refresh"
      BY <1>5 DEF SaveAuthorize
    <2> QED BY <1>a, <2>1, <2>2
  <1>6. CASE LoadAuthorize
    <2>1. /\ pc = "load code" /\ pc' = "remove code" /\ UNCHANGED <<fresh, access, refresh>>
          /\ codes[Code1] = Keep(Given) /\ mine = NewGrant(Code1) /\ mine.code = Code1
          /\ codes \in [Codes -> Own \cup {Shared}]
      BY <1>6, GrantFields
         DEF LoadAuthorize, Good, GoodOAuth, GoodCodes, GoodMine, InOAuth, OAuthSteps
    <2>2. codes' = codes \/ \E d : codes' = [codes EXCEPT ![Code1] = Copy(d)]
      BY <1>6, <2>1 DEF LoadAuthorize
    <2>3. codes'[Code1] # Nothing
      BY <1>c, <2>1, <2>2, Entry DEF Keep
    <2> QED BY <1>a, <2>1, <2>3
  <1>7. CASE Remove("remove code", "load removed code")
    <2>1. /\ pc = "remove code" /\ pc' = "load removed code" /\ UNCHANGED <<fresh, access, refresh>>
      BY <1>7 DEF Remove, Removal
    <2> QED BY <1>a, <2>1
  <1>8. CASE \/ LoadAfterRemove("load removed code", "client for access", LoadedCode(mine.code), "load code")
             \/ LoadAfterRemove("load removed access", "client for refresh", LoadedAccess, "load access")
             \/ LoadAfterRemove("load removed refresh", "done", LoadedRefresh, "load refresh")
    <2>1. Kept
      BY <1>8 DEF LoadAfterRemove, oauthVars
    <2>2. \/ pc = "load removed code" /\ pc' = "client for access"
          \/ pc = "load removed access" /\ pc' = "client for refresh"
          \/ pc = "load removed refresh" /\ pc' = "done"
      BY <1>8 DEF LoadAfterRemove
    <2> QED BY <1>a, <2>1, <2>2
  <1>9. CASE \/ SaveAccess("save access", "load access", Faulty, TRUE)
             \/ SaveAccess("access for refresh", "load refresh", Faulty \cup {"no refresh"}, FALSE)
    <2>1. pc' \in {"load access", "load refresh"}
      BY <1>9 DEF SaveAccess
    <2> QED BY <1>a, <2>1
  <1>10. CASE LoadAccess
    <2>1. /\ pc = "load access" /\ pc' = "remove access" /\ UNCHANGED fresh
          /\ access = Keep(NewGrant(Code2))
          /\ access' = access \/ \E g : access' = Copy(g)
      BY <1>10 DEF LoadAccess, Good, GoodOAuth, GoodAccess
    <2> QED BY <1>a, <2>1, Entry DEF Keep
  <1>11. CASE Remove("remove access", "load removed access")
    <2>1. pc' = "load removed access" /\ refresh' = FALSE
      BY <1>11 DEF Remove, Removal, Answers
    <2> QED BY <1>a, <2>1
  <1>12. CASE LoadRefresh
    <2>1. pc = "load refresh" /\ pc' = "remove refresh" /\ UNCHANGED refresh
      BY <1>12 DEF LoadRefresh, oauthVars
    <2> QED BY <1>a, <2>1 DEF Good, GoodOAuth, GoodAccess
  <1>13. CASE Remove("remove refresh", "load removed refresh")
    <2>1. pc' = "load removed refresh"
      BY <1>13 DEF Remove
    <2> QED BY <1>a, <2>1
  <1> QED
    BY <1>1, <1>2, <1>3, <1>4, <1>5, <1>6, <1>7, <1>8, <1>9, <1>10, <1>11, <1>12, <1>13
       DEF OAuthNext

LEMMA SecretsBefore ==
  ASSUME TypeInv, Good, GoodBefore, SecretsNext, broken' = {}
  PROVE  GoodBefore'
  <1>1. pc' \in SecretsSteps \ {"metadata"}
    BY SecretsMoves
  <1>2. pc' = "save metadata" => meta' # at'
    <2>1. CASE RunMetadataTests
      <3>1. at' = 1 /\ (meta' = 0 \/ meta' = 6)
        BY <2>1 DEF RunMetadataTests, GoodBefore
      <3>2. 0 # 1 /\ 6 # 1
        OBVIOUS
      <3> QED BY <3>1, <3>2
    <2>2. CASE LoadMetadata
      <3>1. /\ pc = "load metadata" /\ meta = at /\ UNCHANGED meta /\ at \in Values
            /\ pc' = "save metadata" => at' = at + 1
        BY <2>2 DEF LoadMetadata, Advance, Good, GoodSecrets, secretsVars, TypeInv, MetadataSteps
      <3>2. \A i \in Values : i # i + 1
        BY DEF Values
      <3> QED BY <3>1, <3>2
    <2>3. CASE ~RunMetadataTests /\ ~LoadMetadata
      BY <2>3 DEF SecretsNext, RunKeyTests, SaveKey, SaveActor, LoadKey, LoadActor, EndOfKey,
         RunPasswordTests, PasswordSet, PasswordCheck, SaveMetadata, Fits, Advance
    <2> QED BY <2>1, <2>2, <2>3
  <1> QED BY <1>1, <1>2, BeforeSteps, StepsApart, NothingBefore DEF SecretsSteps

LEMMA BeforePreserved ==
  ASSUME TypeInv, Inv, BeforeInv, [RunNext]_vars
  PROVE  BeforeInv'
  <1> SUFFICES ASSUME broken' = {} PROVE GoodBefore'
    BY DEF BeforeInv
  <1>1. CASE RunTest
    <2>1. broken = {}
      BY <1>1, ActivityPubRemembers, OAuthRemembers, SecretsRemember DEF RunTest
    <2>2. Good /\ GoodBefore
      BY <2>1 DEF Inv, BeforeInv
    <2>3. CASE ActivityPubNext
      <3>1. pc' \in BeforeCreate => inbox' = Missing
        BY <2>2, <2>3, ActivityPubMoves DEF GoodBefore
      <3>2. /\ pc' \notin OAuthSteps \ {"oauth", "done"}
            /\ pc' # "metadata" /\ pc' # "save metadata"
        BY <2>3, ActivityPubMoves, StepsApart DEF SecretsSteps
      <3> QED BY <3>1, <3>2, BeforeSteps DEF GoodBefore, OAuthSteps, BeforeCreate, BeforeCode, BeforeAccess
    <2>4. CASE OAuthNext
      BY <2>2, <2>4, OAuthBefore
    <2>5. CASE SecretsNext
      BY <2>2, <2>5, SecretsBefore
    <2> QED BY <1>1, <2>3, <2>4, <2>5 DEF RunTest
  <1>2. CASE StartTest
    <2>1. /\ Order[turn] \in Tests /\ Order[turn] \notin ran /\ broken = {} /\ pc' = FirstStep(Order[turn])
          /\ at' = 1 /\ UNCHANGED <<activityPubVars, oauthVars>>
      BY <1>2 DEF StartTest, Order, Tests
    <2>2. CASE Order[turn] = TestActivityPub
      <3>1. pc' = "init" /\ inbox' = Missing
        BY <2>1, <2>2, FirstSteps DEF Inv, Good, GoodActivityPub, ActivityPubInit, activityPubVars
      <3> QED BY <3>1 DEF GoodBefore, BeforeCreate, BeforeCode, BeforeAccess
    <2>3. CASE Order[turn] # TestActivityPub
      <3>1. pc' \in {"oauth", "keys", "passwords", "metadata"}
        BY <2>1, <2>3, FirstSteps DEF Tests
      <3> QED BY <2>1, <3>1, NothingBefore DEF OAuthSteps, BeforeCreate, BeforeCode, BeforeAccess
    <2> QED BY <2>2, <2>3
  <1>3. CASE Open \/ EndTest \/ UNCHANGED vars
    <2>1. UNCHANGED testVars
      BY <1>3 DEF Open, EndTest, vars
    <2> QED BY <2>1 DEF BeforeInv, GoodBefore, testVars, activityPubVars, oauthVars, secretsVars
  <1> QED BY <1>1, <1>2, <1>3 DEF RunNext

-----------------------------------------------------------------------------
(* What is broken after a step that left the suite without complaint. *)
LEMMA OneBroken ==
  ASSUME NEW p, broken' = {p},
         NEW a, NEW right, NEW q, Answers(a, right, q)
  PROVE  \/ a = right /\ broken = {p}
         \/ a # right /\ q = p /\ broken \in {{}, {p}}
  <1>1. CASE a = right
    BY <1>1 DEF Answers
  <1>2. CASE a # right
    <2>1. broken \cup {q} = {p}
      BY <1>2 DEF Answers
    <2>2. q = p /\ broken \subseteq {p}
      BY <2>1
    <2> QED BY <1>2, <2>2
  <1> QED BY <1>1, <1>2

LEMMA LoadedFields ==
  /\ \A i, n : Loaded(i, n).items = i /\ Loaded(i, n).total = n
  /\ NotLoaded.total = 0
  BY DEF Loaded, NotLoaded

LEMMA InPlace ==
  \A i \in Objects : /\ i \notin 1..(i - 1) /\ i \in 1..i
                     /\ i \in i..N /\ i \notin (i + 1)..N
  <1>1. N \in Nat
    BY SuiteAssumption
  <1> QED BY <1>1 DEF Objects

LEMMA ActivityPubNotices ==
  ASSUME Good, GoodBefore, broken = {}, ActivityPubNext,
         NEW p \in ActivityPubChecked, broken' = {p}, verdict' = "pass"
  PROVE  ActivityPubLate(p)'
  <1>m. Missing \notin {"same", "other", "accepted", "error"} /\ Missing # {} /\ Missing # Objects
    BY SuiteAssumption DEF Objects
  <1>p. p \notin {"collections", "next"}
    BY DEF ActivityPubChecked
  <1>o. \A a, right, q : Answers(a, right, q) => a # right /\ q = p
    <2> SUFFICES ASSUME NEW a, NEW right, NEW q, Answers(a, right, q)
                 PROVE  a # right /\ q = p
      OBVIOUS
    <2> QED BY OneBroken
  <1>k. /\ verdict = "pass"
        /\ pc = "save" => at \in Objects /\ kept = 1..(at - 1)
        /\ pc = "load saved" => at \in Objects /\ kept = 1..at
        /\ pc = "delete" => at \in Objects /\ kept = at..N
        /\ pc = "load deleted" => at \in Objects /\ kept = (at + 1)..N
        /\ pc \in {"load created", "add"} => inbox = {}
        /\ pc \in {"load added", "query", "page", "remove"} => inbox = Objects
        /\ pc = "load removed" => inbox = {}
        /\ pc = "query" => at \in 1..Len(Filters)
    BY DEF Good, GoodActivityPub, GoodObjects, GoodInbox, GoodPlace
  <1> USE DEF Fails, Expect, ActivityPubLate
  <1>1. CASE InitActivityPub \/ LoadRoot \/ SaveWithoutCollections
    BY <1>1, <1>k, <1>o, <1>p DEF InitActivityPub, LoadRoot, SaveWithoutCollections
  <1>2. CASE SaveObject
    <2>0. PICK a \in {"same", "other", "forgets", "error"} :
             /\ Answers(a, "same", "save")
             /\ kept' = IF a \in {"same", "other"} THEN kept \cup {at} ELSE kept
             /\ IF Fails(a) THEN verdict' = "panic" /\ pc' = "done"
                ELSE Expect(a # "other") /\ pc' = "load saved"
      BY <1>2, <1>k DEF SaveObject
    <2>a. a = "forgets" /\ p = "save"
      <3>0. Answers(a, "same", "save")
        BY <2>0
      <3>1. a # "same" /\ p = "save"
        BY <3>0, <1>o
      <3>2. a # "other" /\ a # "error"
        BY <2>0
      <3> QED BY <3>1, <3>2
    <2>1. /\ pc = "save" /\ pc' = "load saved" /\ p = "save" /\ at' = at /\ kept' = kept
      BY <1>2, <1>k, <2>0, <2>a DEF SaveObject, Same
    <2>2. at \notin kept
      BY <1>k, <2>1, InPlace
    <2> QED BY <2>1, <2>2
  <1>3. CASE LoadSaved
    <2>1. at \in kept
      BY <1>3, <1>k, InPlace DEF LoadSaved
    <2> QED BY <1>3, <1>k, <2>1, <1>o DEF LoadSaved
  <1>4. CASE EditNothing("remove from nothing", "add to nothing")
             \/ EditNothing("add to nothing", "create")
    BY <1>4, <1>k, <1>o DEF EditNothing
  <1>5. CASE CreateCollection
    <2>1. inbox = Missing
      BY <1>5, <1>k DEF CreateCollection, GoodBefore, BeforeCreate
    <2>2. PICK a \in {"same", "other", "forgets", "error"} :
             /\ Answers(a, "same", "create")
             /\ inbox' = IF a \in {"same", "other"} THEN {} ELSE inbox
             /\ Expect(a \in {"same", "forgets"})
      BY <1>5, <1>k DEF CreateCollection
    <2>3. a = "forgets" /\ p = "create"
      BY <2>2, <1>o
    <2> QED BY <1>5, <1>k, <2>1, <2>2, <2>3 DEF CreateCollection
  <1>6. CASE LoadCreated
    BY <1>6, <1>k, <1>m, <1>o DEF LoadCreated
  <1>7. CASE AddTo
    <2>1. pc = "add" /\ pc' = "load added" /\ inbox = {}
      BY <1>7, <1>k DEF AddTo
    <2>2. PICK S \in {Objects, {}} \cup AllBut(Objects), a \in {"ok", "error"} :
             /\ Answers(<<S, a>>, <<Objects, "ok">>, "add")
             /\ inbox' = S
             /\ Expect(~Fails(a))
      BY <1>7, <1>k, <1>m, <2>1 DEF AddTo
    <2>3. a = "ok" /\ p = "add" /\ <<S, a>> # <<Objects, "ok">>
      BY <2>2, <1>o
    <2>4. S # Objects /\ S \subseteq Objects
      <3>1. S # Objects
        BY <2>3
      <3>2. S \subseteq Objects
        BY DEF AllBut
      <3> QED BY <3>1, <3>2
    <2> QED BY <2>1, <2>2, <2>3, <2>4
  <1>8. CASE LoadAdded
    <2>1. Right(All) = Loaded(Objects, N)
      BY <1>8, <1>k, <1>m, AllObjects DEF LoadAdded, Right, All
    <2> QED BY <1>8, <1>k, <2>1, <1>o DEF LoadAdded, LoadInbox
  <1>9. CASE Query
    <2>1. at \in 1..Len(Filters) /\ Filters[at] \subseteq Objects
      BY <1>9, <1>k, SuiteAssumption DEF Query, Objects
    <2>2. Right(All \cap Filters[at]) = Loaded(Filters[at], N)
      <3>1. Objects \cap Filters[at] = Filters[at]
        BY <2>1
      <3> QED BY <1>9, <1>k, <1>m, <3>1, AllObjects DEF Query, Right, All
    <2> QED BY <1>9, <1>k, <2>2, <1>o DEF Query, LoadInbox
  <1>10. CASE NextSize
    BY <1>10, <1>k DEF NextSize
  <1>11. CASE LoadPage
    <2> DEFINE items == PageOf(Objects)
    <2>1. inbox = Objects /\ All = Objects /\ Right(items) = Loaded(items, N)
      BY <1>11, <1>k, <1>m, AllObjects DEF LoadPage, Right, All
    <2>2. PICK a \in {Right(items)} \cup Wrong(items), skip \in {0, 1} :
             /\ \/ skip = 0 /\ Answers(a, Right(items), "page")
                \/ skip = 1 /\ Answers(1, 0, "next")
             /\ Expect(~PageFails(a, items) /\ a.items = items)
      <3> HIDE DEF items
      <3> QED BY <1>11, <1>k, <2>1 DEF LoadPage, items
    <2> HIDE DEF items
    <2>3. a # Loaded(items, N) /\ a.total = N /\ a.items = items
      BY <2>1, <2>2, <1>o, <1>p DEF PageFails
    <2>4. a \in Wrong(items)
      BY <2>1, <2>2, <2>3
    <2>5. N # 0 /\ N # N + 1
      <3>1. N \in Nat \ {0}
        BY SuiteAssumption
      <3> QED BY <3>1
    <2>7. \A S \in AllBut(items) : S # items
      BY DEF AllBut
    <2>f. /\ NotLoaded.total = 0 /\ Loaded(items, 0).total = 0 /\ Loaded(items, N + 1).total = N + 1
          /\ \A S, n : Loaded(S, n).items = S
          /\ \A i : Loaded(items \cup {i}, N).items = items \cup {i}
      BY LoadedFields
    <2>8. CASE a = NotLoaded \/ a = Loaded(items, 0) \/ a = Loaded(items, N + 1)
      BY <2>3, <2>5, <2>8, <2>f
    <2>9. CASE \E S \in AllBut(items) : a = Loaded(S, Cardinality(S)) \/ a = Loaded(S, N)
      <3>1. PICK S \in AllBut(items) : a = Loaded(S, Cardinality(S)) \/ a = Loaded(S, N)
        BY <2>9
      <3>2. a.items = S
        BY <3>1, <2>f
      <3> QED BY <2>3, <2>7, <3>2
    <2>10. CASE \E i \in Objects : a = Loaded(items \cup {i}, N)
      BY <2>3, <2>10, <2>f
    <2> QED BY <2>4, <2>8, <2>9, <2>10 DEF Wrong
  <1>12. CASE RemoveFrom
    <2>1. pc = "remove" /\ pc' = "load removed" /\ inbox = Objects
      BY <1>12, <1>k DEF RemoveFrom
    <2>2. PICK S \in {{}, Objects} \cup {{i} : i \in Objects}, a \in {"ok", "error"} :
             /\ Answers(<<S, a>>, <<{}, "ok">>, "remove")
             /\ inbox' = S
             /\ Expect(~Fails(a))
      BY <1>12, <1>k, <1>m, <2>1 DEF RemoveFrom
    <2>3. a = "ok" /\ p = "remove" /\ <<S, a>> # <<{}, "ok">>
      BY <2>2, <1>o
    <2>4. S # {} /\ S \subseteq Objects
      <3>1. S # {}
        BY <2>3
      <3>2. S \subseteq Objects
        OBVIOUS
      <3> QED BY <3>1, <3>2
    <2> QED BY <2>1, <2>2, <2>3, <2>4
  <1>13. CASE LoadRemoved
    <2>1. Right(All) = Loaded({}, 0)
      BY <1>13, <1>k, <1>m, AllObjects DEF LoadRemoved, Right, All
    <2> QED BY <1>13, <1>k, <2>1, <1>o DEF LoadRemoved, LoadInbox
  <1>14. CASE Delete
    <2>0. PICK gone \in BOOLEAN, a \in {"ok", "error"} :
             /\ Answers(<<gone, a>>, <<TRUE, "ok">>, "delete")
             /\ kept' = IF gone THEN kept \ {at} ELSE kept
             /\ Expect(~Fails(a))
      BY <1>14, <1>k DEF Delete
    <2>a. a = "ok" /\ p = "delete" /\ ~gone
      <3>0. Answers(<<gone, a>>, <<TRUE, "ok">>, "delete")
        BY <2>0
      <3>1. p = "delete"
        BY <3>0 DEF Answers
      <3>3. ASSUME gone, a = "ok" PROVE FALSE
        <4>1. <<gone, a>> = <<TRUE, "ok">>
          BY <3>3
        <4> QED BY <3>0, <4>1 DEF Answers
      <3>2. a # "error"
        BY <2>0
      <3> QED BY <3>1, <3>2, <3>3
    <2>1. /\ pc = "delete" /\ pc' = "load deleted" /\ p = "delete" /\ at' = at /\ kept' = kept
      BY <1>14, <1>k, <2>0, <2>a DEF Delete, Same
    <2>2. at \in kept
      BY <1>k, <2>1, InPlace
    <2> QED BY <2>1, <2>2
  <1>15. CASE LoadDeleted
    <2>1. at \notin kept
      BY <1>15, <1>k, InPlace DEF LoadDeleted
    <2> QED BY <1>15, <1>k, <2>1, <1>o DEF LoadDeleted
  <1> QED
    BY <1>1, <1>2, <1>3, <1>4, <1>5, <1>6, <1>7, <1>8, <1>9, <1>10, <1>11, <1>12, <1>13, <1>14,
       <1>15 DEF ActivityPubNext

(* What is noticed late is noticed in the next step. *)
LEMMA ActivityPubNoticesLate ==
  ASSUME ActivityPubNext, NEW p, ActivityPubLate(p), broken = {p}, broken' = {p}
  PROVE  verdict' # "pass"
  <1> SUFFICES ASSUME verdict' = "pass" PROVE FALSE
    OBVIOUS
  <1>m. Missing \notin {"same", "other", "accepted", "error"}
        /\ \A S \in SUBSET Objects : Missing # S
    BY SuiteAssumption DEF Objects
  <1>o. \A a, right, q : Answers(a, right, q) => a = right \/ q = p
    <2> SUFFICES ASSUME NEW a, NEW right, NEW q, Answers(a, right, q)
                 PROVE  a = right \/ q = p
      OBVIOUS
    <2> QED BY OneBroken
  <1> USE DEF Expect
  <1>1. CASE p = "save" /\ pc = "load saved" /\ at \notin kept
    <2>1. LoadSaved
      BY <1>1 DEF ActivityPubNext, InitActivityPub, LoadRoot, SaveObject, SaveWithoutCollections,
         EditNothing, CreateCollection, LoadCreated, AddTo, LoadAdded, Query, LoadPage,
         NextSize, RemoveFrom, LoadRemoved, Delete, LoadDeleted
    <2> QED BY <1>1, <2>1, <1>m, <1>o DEF LoadSaved
  <1>2. CASE p = "create" /\ pc = "load created" /\ inbox = Missing
    <2>1. LoadCreated
      BY <1>2 DEF ActivityPubNext, InitActivityPub, LoadRoot, SaveObject, SaveWithoutCollections,
         EditNothing, CreateCollection, LoadSaved, AddTo, LoadAdded, Query, LoadPage,
         NextSize, RemoveFrom, LoadRemoved, Delete, LoadDeleted
    <2> QED BY <1>2, <2>1, <1>o DEF LoadCreated
  <1>3. CASE p = "add" /\ pc = "load added" /\ inbox \subseteq Objects /\ inbox # Objects
    <2>1. LoadAdded
      BY <1>3 DEF ActivityPubNext, InitActivityPub, LoadRoot, SaveObject, SaveWithoutCollections,
         EditNothing, CreateCollection, LoadSaved, AddTo, LoadCreated, Query, LoadPage,
         NextSize, RemoveFrom, LoadRemoved, Delete, LoadDeleted
    <2>2. Right(All) = Loaded(inbox, Cardinality(inbox))
      BY <1>3, <1>m DEF Right, All
    <2>3. Right(All) = Loaded(Objects, N)
      BY <1>3, <2>1, <1>o DEF LoadAdded, LoadInbox
    <2>4. Loaded(inbox, Cardinality(inbox)).items = inbox /\ Loaded(Objects, N).items = Objects
      BY LoadedFields
    <2> QED BY <1>3, <2>2, <2>3, <2>4
  <1>4. CASE p = "remove" /\ pc = "load removed" /\ inbox \subseteq Objects /\ inbox # {}
    <2>1. LoadRemoved
      BY <1>4 DEF ActivityPubNext, InitActivityPub, LoadRoot, SaveObject, SaveWithoutCollections,
         EditNothing, CreateCollection, LoadSaved, AddTo, LoadCreated, Query, LoadPage,
         NextSize, RemoveFrom, LoadAdded, Delete, LoadDeleted
    <2>2. Right(All) = Loaded(inbox, Cardinality(inbox))
      BY <1>4, <1>m DEF Right, All
    <2>3. Right(All) = Loaded({}, 0)
      BY <1>4, <2>1, <1>o DEF LoadRemoved, LoadInbox
    <2>4. Loaded(inbox, Cardinality(inbox)).items = inbox /\ Loaded({}, 0).items = {}
      BY LoadedFields
    <2> QED BY <1>4, <2>2, <2>3, <2>4
  <1>5. CASE p = "delete" /\ pc = "load deleted" /\ at \in kept
    <2>1. LoadDeleted
      BY <1>5 DEF ActivityPubNext, InitActivityPub, LoadRoot, SaveObject, SaveWithoutCollections,
         EditNothing, CreateCollection, LoadSaved, AddTo, LoadCreated, Query, LoadPage,
         NextSize, RemoveFrom, LoadAdded, Delete, LoadRemoved
    <2> QED BY <1>5, <2>1, <1>m, <1>o DEF LoadDeleted
  <1> QED BY <1>1, <1>2, <1>3, <1>4, <1>5 DEF ActivityPubLate

-----------------------------------------------------------------------------
LEMMA SecretsNotices ==
  ASSUME Good, GoodBefore, broken = {}, SecretsNext,
         NEW p \in SecretsChecked, broken' = {p}, verdict' = "pass"
  PROVE  SecretsLate(p)'
  <1>p. p \notin {"save the same", "PasswordStorage", "MetadataStorage"}
    BY DEF SecretsChecked
  <1>o. \A a, right, q : Answers(a, right, q) => a # right /\ q = p
    <2> SUFFICES ASSUME NEW a, NEW right, NEW q, Answers(a, right, q)
                 PROVE  a # right /\ q = p
      OBVIOUS
    <2> QED BY OneBroken
  <1>k. /\ verdict = "pass"
        /\ pc \in {"save actor", "load key", "load actor"} => key = "given" /\ public = "given"
        /\ pc \in {"load key", "load actor"} => actor = "given"
        /\ pc = "load actor" => private = "given"
        /\ pc = "check password" => password = TRUE
        /\ pc = "load metadata" => meta = at
        /\ pc = "save metadata" => meta # at
    BY DEF Good, GoodSecrets, GoodBefore
  <1> USE DEF Expect, Fails, LostSave
  <1>1. CASE RunKeyTests
    <2>1. PICK fits \in BOOLEAN : Answers(fits, TRUE, "KeyStorage") /\ pc' = IF fits THEN "save key" ELSE "done"
      BY <1>1 DEF RunKeyTests, Fits
    <2>2. pc' # "done"
      BY <1>1 DEF RunKeyTests
    <2>3. fits = TRUE
      BY <2>1, <2>2
    <2> QED BY <2>1, <2>3 DEF Answers
  <1>2. CASE RunPasswordTests \/ RunMetadataTests
    <2>1. PICK fits \in BOOLEAN, q \in {"PasswordStorage", "MetadataStorage"} : Answers(fits, TRUE, q)
      BY <1>2 DEF RunPasswordTests, RunMetadataTests, Fits
    <2>2. q = p
      BY <2>1 DEF Answers
    <2> QED BY <1>p, <2>2
  <1>3. CASE SaveKey
    <2>1. PICK a \in {"ok", "forgets", "alters", "other", "nil", "error"} :
             /\ Answers(a, "ok", CASE a \in {"other", "nil"} -> "public key"
                                   [] a = "forgets" -> LostSave("save key", key = "given")
                                   [] OTHER -> "save key")
             /\ CASE a = "error" /\ at = Root -> pc' = "done" /\ UNCHANGED at /\ NewActor
                  [] a = "error" /\ at # Root -> EndOfKey
                  [] a # "error" ->
                       /\ key' = CASE a = "forgets" -> key [] a = "alters" -> "other"
                                    [] OTHER -> "given"
                       /\ public' = IF a = "other" THEN "other" ELSE "given"
                       /\ pc' = IF a = "nil" THEN "done" ELSE "save actor"
                       /\ UNCHANGED <<at, actor, private>>
             /\ IF a = "nil" THEN verdict' = "panic" ELSE Expect(~Fails(a))
      BY <1>3 DEF SaveKey
    <2>2. a \notin {"nil", "error"}
      BY <2>1
    <2>3. /\ key' = CASE a = "forgets" -> key [] a = "alters" -> "other" [] OTHER -> "given"
          /\ public' = IF a = "other" THEN "other" ELSE "given"
          /\ pc' = "save actor"
      BY <2>1, <2>2
    <2>4. a # "ok"
      BY <2>1 DEF Answers
    <2>5. CASE a = "forgets"
      <3>1. p = IF key = "given" THEN "save the same" ELSE "save key"
        BY <2>1, <2>5 DEF Answers
      <3> QED BY <1>p, <2>3, <2>5, <3>1 DEF SecretsLate
    <2>6. CASE a = "alters"
      <3>1. p = "save key"
        BY <2>1, <2>6 DEF Answers
      <3> QED BY <2>3, <2>6, <3>1 DEF SecretsLate
    <2>7. CASE a = "other"
      <3>1. p = "public key"
        BY <2>1, <2>7 DEF Answers
      <3> QED BY <2>3, <2>7, <3>1 DEF SecretsLate
    <2> QED BY <2>2, <2>4, <2>5, <2>6, <2>7
  <1>4. CASE SaveActor
    <2> DEFINE held == actor = public \/ (way = "shares" /\ actor # NotStored)
    <2>1. PICK saved \in BOOLEAN :
             /\ Answers(saved, TRUE, LostSave("save actor", held))
             /\ actor' = IF saved \/ held THEN public ELSE actor
      BY <1>4 DEF SaveActor
    <2>2. pc = "save actor" /\ pc' = "load key" /\ UNCHANGED <<key, public, private>>
      BY <1>4 DEF SaveActor
    <2>3. ~saved /\ p = IF held THEN "save the same" ELSE "save actor"
      BY <2>1 DEF Answers
    <2>4. ~held /\ p = "save actor"
      BY <1>p, <2>3
    <2>5. key = "given" /\ public = "given" /\ actor # public
      BY <1>k, <2>2, <2>4
    <2> QED BY <2>1, <2>2, <2>3, <2>4, <2>5 DEF SecretsLate
  <1>5. CASE LoadKey
    BY <1>5, <1>k, <1>o DEF LoadKey
  <1>6. CASE LoadActor
    BY <1>6, <1>k, <1>o DEF LoadActor
  <1>7. CASE PasswordSet
    <2>1. PICK a \in {"ok", "forgets", "error"} :
             /\ Answers(a, "ok", LostSave("set password", password /\ a = "forgets"))
             /\ Expect(~Fails(a))
             /\ password' = (password \/ a = "ok")
             /\ pc' = IF Fails(a) THEN "done" ELSE "check password"
      BY <1>7 DEF PasswordSet
    <2>2. a = "forgets" /\ pc' = "check password"
      BY <2>1 DEF Answers
    <2>3. p = IF password THEN "save the same" ELSE "set password"
      BY <2>1, <2>2 DEF Answers
    <2>4. ~password /\ p = "set password"
      BY <1>p, <2>3
    <2>5. password' = FALSE
      BY <2>1, <2>2, <2>4
    <2> QED BY <2>2, <2>4, <2>5 DEF SecretsLate
  <1>8. CASE PasswordCheck
    <2>1. PICK accepted \in BOOLEAN : Answers(accepted, password, "check password") /\ Expect(accepted)
      BY <1>8 DEF PasswordCheck
    <2>2. accepted = TRUE /\ password = TRUE
      BY <1>8, <1>k, <2>1 DEF PasswordCheck
    <2> QED BY <2>1, <2>2 DEF Answers
  <1>9. CASE SaveMetadata
    <2>1. PICK a \in {"ok", "forgets", "error"} :
             /\ Answers(a, "ok", "save metadata")
             /\ Expect(~Fails(a))
             /\ meta' = IF a = "ok" THEN at ELSE meta
      BY <1>9 DEF SaveMetadata
    <2>2. a = "forgets" /\ p = "save metadata"
      <3>1. Answers(a, "ok", "save metadata") /\ a # "error"
        BY <2>1
      <3>2. a # "ok"
        BY <3>1, <1>o
      <3>3. "save metadata" = p
        BY <3>1 DEF Answers
      <3> QED BY <3>1, <3>2, <3>3
    <2>3. pc = "save metadata" /\ pc' = "load metadata" /\ meta' = meta /\ at' = at
      BY <1>9, <2>1, <2>2 DEF SaveMetadata
    <2> QED BY <1>k, <2>2, <2>3 DEF SecretsLate
  <1>10. CASE LoadMetadata
    <2> DEFINE right == CASE meta = at -> "same"
                          [] meta \notin {0, at} /\ way = "shares" -> "panic"
                          [] OTHER -> "error"
    <2>1. right = "same"
      BY <1>10, <1>k DEF LoadMetadata
    <2>2. PICK a \in {right, "other", "error"} :
             /\ Answers(a, right, "load metadata")
             /\ IF a = "panic" THEN verdict' = "panic" ELSE Expect(a = "same")
      BY <1>10 DEF LoadMetadata
    <2> HIDE DEF right
    <2>3. a = "same"
      BY <2>2
    <2> QED BY <1>o, <2>1, <2>2, <2>3
  <1> QED
    BY <1>1, <1>2, <1>3, <1>4, <1>5, <1>6, <1>7, <1>8, <1>9, <1>10 DEF SecretsNext

(* A wrong public key is noticed when the actor is loaded, the rest in the next step but one *)
(* at most.                                                                                  *)
LEMMA SecretsNoticesLate ==
  ASSUME SecretsNext, NEW p, SecretsLate(p), broken = {p}, broken' = {p}, verdict' = "pass"
  PROVE  SecretsLate(p)'
  <1>o. \A a, right, q : Answers(a, right, q) => a = right \/ q = p
    <2> SUFFICES ASSUME NEW a, NEW right, NEW q, Answers(a, right, q)
                 PROVE  a = right \/ q = p
      OBVIOUS
    <2> QED BY OneBroken
  <1> USE DEF Expect
  <1>1. CASE pc = "save actor"
    <2>1. SaveActor
      BY <1>1 DEF SecretsNext, RunKeyTests, SaveKey, LoadKey, LoadActor, RunPasswordTests,
                  PasswordSet, PasswordCheck, RunMetadataTests, SaveMetadata, LoadMetadata
    <2> DEFINE held == actor = public \/ (way = "shares" /\ actor # NotStored)
    <2>2. PICK saved \in BOOLEAN :
             /\ Answers(saved, TRUE, LostSave("save actor", held))
             /\ actor' = IF saved \/ held THEN public ELSE actor
      BY <2>1 DEF SaveActor
    <2>3. pc' = "load key" /\ UNCHANGED <<key, public, private>>
      BY <2>1 DEF SaveActor
    <2>4. p \in {"save key", "public key"}
      BY <1>1 DEF SecretsLate
    <2>5. saved = TRUE
      <3>1. LostSave("save actor", held) \in {"save actor", "save the same"}
        BY DEF LostSave
      <3>2. CASE saved = FALSE
        BY <2>2, <2>4, <3>1, <3>2 DEF Answers
      <3> QED BY <3>2
    <2>6. actor' = public
      BY <2>2, <2>5
    <2> QED BY <1>1, <2>3, <2>4, <2>6 DEF SecretsLate
  <1>2. CASE pc = "load key"
    <2>1. LoadKey
      BY <1>2 DEF SecretsNext, RunKeyTests, SaveKey, SaveActor, LoadActor, RunPasswordTests,
                  PasswordSet, PasswordCheck, RunMetadataTests, SaveMetadata, LoadMetadata
    <2>2. PICK a \in Keys \cup {NoKey} :
             /\ Answers(a, key, "load key")
             /\ Expect(a = "given")
             /\ IF a = NoKey THEN EndOfKey
                ELSE private' = a /\ pc' = "load actor" /\ UNCHANGED <<at, key, actor, public>>
      BY <2>1 DEF LoadKey
    <2>3. p \in {"save key", "public key", "save actor"}
      BY <1>2 DEF SecretsLate
    <2>4. a = "given" /\ a = key
      BY <2>2, <2>3, <1>o
    <2>5. private' = "given" /\ pc' = "load actor" /\ UNCHANGED <<key, actor, public>>
      BY <2>2, <2>4 DEF NoKey
    <2> QED BY <1>2, <2>4, <2>5 DEF SecretsLate
  <1>3. CASE pc = "load actor"
    <2>1. LoadActor
      BY <1>3 DEF SecretsNext, RunKeyTests, SaveKey, SaveActor, LoadKey, RunPasswordTests,
                  PasswordSet, PasswordCheck, RunMetadataTests, SaveMetadata, LoadMetadata
    <2>2. PICK a \in Keys \cup {NoKey, NotStored} : Answers(a, actor, "load actor") /\ a = private
      BY <2>1 DEF LoadActor
    <2>3. p \in {"public key", "save actor"} /\ private = "given" /\ actor # "given"
      BY <1>3 DEF SecretsLate
    <2> QED BY <2>2, <2>3, <1>o
  <1>4. CASE pc = "check password"
    <2>1. PasswordCheck
      BY <1>4 DEF SecretsNext, RunKeyTests, SaveKey, SaveActor, LoadKey, RunPasswordTests,
                  PasswordSet, LoadActor, RunMetadataTests, SaveMetadata, LoadMetadata
    <2>2. PICK accepted \in BOOLEAN : Answers(accepted, password, "check password") /\ Expect(accepted)
      BY <2>1 DEF PasswordCheck
    <2>3. p = "set password" /\ password = FALSE /\ accepted = TRUE
      BY <1>4, <2>2 DEF SecretsLate
    <2>4. broken' = broken \cup {"check password"}
      BY <2>2, <2>3 DEF Answers
    <2>5. "check password" \in {p}
      BY <2>4
    <2> QED BY <2>3, <2>5
  <1>5. CASE pc = "load metadata"
    <2>1. LoadMetadata
      BY <1>5 DEF SecretsNext, RunKeyTests, SaveKey, SaveActor, LoadKey, RunPasswordTests,
                  PasswordSet, LoadActor, RunMetadataTests, SaveMetadata, PasswordCheck
    <2> DEFINE right == CASE meta = at -> "same"
                          [] meta \notin {0, at} /\ way = "shares" -> "panic"
                          [] OTHER -> "error"
    <2>2. PICK a \in {right, "other", "error"} :
             IF a = "panic" THEN verdict' = "panic" ELSE Expect(a = "same")
      BY <2>1 DEF LoadMetadata
    <2>3. meta # at
      BY <1>5 DEF SecretsLate
    <2>4. right \in {"panic", "error"}
      BY <2>3
    <2> HIDE DEF right
    <2> QED BY <2>2, <2>4
  <1> QED BY <1>1, <1>2, <1>3, <1>4, <1>5 DEF SecretsLate

LEMMA OtherData ==
  /\ \A d \in Others(Given) : d # Given
  /\ Changed(Given) \in Data /\ Changed(Given).rest = "changed" /\ Given.rest = "given"
  /\ \A d : Changed(Given) \in Data /\ [Changed(Given) EXCEPT !.client = d].rest = "changed"
  BY DEF Others, Changed, Given, Data, Clients

LEMMA AlteredFields ==
  \A c : /\ Altered(c).code = c /\ Altered(c).auth = Given /\ Altered(c).access = Changed(Given)
         /\ [NewGrant(c) EXCEPT !.auth = Given] = NewGrant(c)
  BY DEF Altered, NewGrant

(* A grant with other data than what it ought to hold. *)
LEMMA OtherGrant ==
  ASSUME NEW c, mine = NewGrant(c), NEW a \in OtherGrants
  PROVE  /\ a.found => a.data # mine
         /\ ~AccessDataEqual(mine, a.data)
  <1>1. mine.auth = Given /\ mine.access = Given
    BY GrantFields
  <1>2. PICK d \in Others(Given) : \/ a = Found([mine EXCEPT !.auth = d])
                                   \/ a = Found([mine EXCEPT !.access = d])
    BY <1>1 DEF OtherGrants
  <1>3. d # Given
    BY OtherData
  <1>4. \/ a.data = [mine EXCEPT !.auth = d] /\ a.data.auth = d
        \/ a.data = [mine EXCEPT !.access = d] /\ a.data.access = d
    BY <1>2 DEF Found, NewGrant
  <1> QED BY <1>1, <1>3, <1>4 DEF AccessDataEqual

LEMMA OAuthNotices ==
  ASSUME TypeInv, Good, GoodBefore, broken = {}, OAuthNext, fresh',
         NEW p \in OAuthChecked, broken' = {p}, verdict' = "pass"
  PROVE  OAuthLate(p)'
  <1>p. p \notin {"OSINStorage", "save again", "leave data alone"}
    BY DEF OAuthChecked
  <1>o. \A a, right, q : Answers(a, right, q) => a # right /\ q = p
    <2> SUFFICES ASSUME NEW a, NEW right, NEW q, Answers(a, right, q)
                 PROVE  a # right /\ q = p
      OBVIOUS
    <2> QED BY OneBroken
  <1>c. Codes = {Code1, Code2} /\ Code1 # Code2
    BY DEF Codes, Code1, Code2
  <1>t. OAuthTypeOK /\ codes \in [Codes -> Entries(Data)]
    BY DEF TypeInv, RunTypeOK, OAuthTypeOK
  <1>i. pc \in OAuthSteps \ {"oauth", "done"} => InOAuth
    BY DEF InOAuth
  <1>k. /\ verdict = "pass"
        /\ pc \in {"get client", "list clients", "update client"} => clients = "first"
        /\ pc \in {"get updated", "remove client"} => clients = "second"
        /\ pc = "get removed" => clients = "none"
        /\ pc \in {"save code", "load code"} => mine = NewGrant(Code1)
        /\ pc \in {"remove code", "load removed code"} => mine.code = Code1
        /\ pc \in {"save access", "load access"} => mine = NewGrant(Code2)
        /\ pc \in {"access for refresh", "load refresh"} => mine = NewGrant(Code1)
        /\ pc \in {"load code", "load refresh"} => codes[Code1] = Keep(Given)
        /\ pc = "load removed code" => codes[Code1] = Nothing
        /\ pc = "load access" => codes[Code2] = Keep(Given)
        /\ pc = "load access" => access = Keep(NewGrant(Code2))
        /\ pc \in {"load removed access", "access for refresh"} => access = Nothing
        /\ pc \in {"load refresh", "remove refresh"} => access = Keep(NewGrant(Code1))
        /\ pc = "load refresh" => refresh = TRUE
        /\ pc = "load removed refresh" => refresh = FALSE
    <2>1. GoodClients /\ GoodMine /\ GoodCodes /\ GoodAccess /\ verdict = "pass"
      BY DEF Good, GoodOAuth
    <2>2. pc \in {"remove code", "load removed code"} => mine.code = Code1
      <3>1. [code |-> Code1, auth |-> Bare, access |-> Given].code = Code1
        OBVIOUS
      <3> QED BY <2>1, <3>1 DEF GoodMine
    <2>3. /\ pc \in {"load code", "load refresh"} => codes[Code1] = Keep(Given)
          /\ pc = "load removed code" => codes[Code1] = Nothing
          /\ pc = "load access" => codes[Code2] = Keep(Given)
      BY <2>1 DEF GoodCodes
    <2>4. /\ pc = "load access" => access = Keep(NewGrant(Code2))
          /\ pc \in {"load removed access", "access for refresh"} => access = Nothing
          /\ pc \in {"load refresh", "remove refresh"} => access = Keep(NewGrant(Code1))
          /\ pc = "load refresh" => refresh = TRUE
          /\ pc = "load removed refresh" => refresh = FALSE
      BY <2>1 DEF GoodAccess
    <2> QED BY <2>1, <2>2, <2>3, <2>4 DEF GoodClients, GoodMine
  <1>w. pc \in {"load code", "load access", "load refresh"} /\ way = "refers" => clients = "first"
    BY DEF Good, GoodOAuth, GoodClients, InOAuth, OAuthSteps
  <1>b. /\ fresh /\ pc = "save client" => clients = "none"
        /\ fresh /\ pc = "save code" => codes[Code1] = Nothing
        /\ fresh /\ pc = "save access" => access = Nothing
        /\ pc = "remove code" => codes[Code1] # Nothing
        /\ pc = "remove access" => access # Nothing
        /\ pc = "remove refresh" => refresh = TRUE
        /\ pc = "access for refresh" => refresh = FALSE
    BY DEF GoodBefore, BeforeCode, BeforeAccess
  <1>f. pc # "oauth" => fresh
    BY OAuthMoves
  <1> USE DEF Expect, Fails
  <1>1. CASE RunOAuthTests
    <2>1. PICK fits \in BOOLEAN : Answers(fits, TRUE, "OSINStorage")
      BY <1>1 DEF RunOAuthTests, Fits
    <2> QED BY <1>o, <1>p, <2>1
  <1>2. CASE TestSaveClient
    <2>1. pc = "save client" /\ clients = "none"
      BY <1>2, <1>b, <1>f DEF TestSaveClient
    <2>2. "saver" \in able
      BY <1>2 DEF TestSaveClient
    <2>3. PICK a \in {"ok", "forgets", "error"} :
             /\ Answers(a, "ok", "save client")
             /\ clients' = IF a = "ok" THEN "first" ELSE clients
             /\ Expect(~Fails(a))
      BY <1>2, <2>2 DEF TestSaveClient, SaveClient
    <2>4. a # "ok" /\ "save client" = p
      BY <2>3 DEF Answers
    <2> QED BY <1>2, <2>1, <2>2, <2>3, <2>4 DEF TestSaveClient, OAuthLate
  <1>3. CASE UpdateClient
    <2>1. pc = "update client" /\ clients = "first" /\ pc' = "get updated"
      BY <1>3, <1>k DEF UpdateClient
    <2>3. PICK a \in {"ok", "forgets", "error"} :
             /\ Answers(a, "ok", "save client")
             /\ clients' = IF a = "ok" THEN "second" ELSE clients
      BY <1>3 DEF UpdateClient, SaveClient
    <2>4. a # "ok" /\ "save client" = p
      BY <2>3 DEF Answers
    <2> QED BY <2>1, <2>3, <2>4 DEF OAuthLate
  <1>4. ASSUME NEW step, NEW next, NEW expected, GetClient(step, next, expected),
               pc = step => clients = expected
        PROVE  FALSE
    <2>1. PICK a \in Clients : Answers(a, clients, "get client") /\ Expect(a = expected)
      BY <1>4 DEF GetClient
    <2>2. a # clients
      BY <1>o, <2>1
    <2> QED BY <1>4, <2>1, <2>2 DEF GetClient
  <1>5. CASE ListClients
    <2>1. pc = "list clients" /\ clients = "first"
      BY <1>5, <1>k DEF ListClients
    <2>2. "lister" \in able
      BY <1>5 DEF ListClients
    <2>3. PICK a \in SUBSET {"first", "second"} :
             Answers(a, {clients} \ {"none"}, "list clients") /\ Expect(a = {"first"})
      BY <1>5, <2>2 DEF ListClients
    <2>4. a = {"first"} /\ {clients} \ {"none"} = {"first"}
      BY <2>1, <2>3
    <2> QED BY <1>o, <2>3, <2>4
  <1>6. CASE RemoveClient
    <2>1. pc = "remove client" /\ clients = "second" /\ pc' = "get removed"
      BY <1>6, <1>k DEF RemoveClient
    <2>3. PICK a \in {"ok", "forgets", "error"} :
             /\ Answers(a, "ok", "remove client")
             /\ clients' = IF a = "ok" THEN "none" ELSE clients
      BY <1>6 DEF RemoveClient
    <2>4. a # "ok" /\ "remove client" = p
      BY <2>3 DEF Answers
    <2> QED BY <2>1, <2>3, <2>4 DEF OAuthLate
  <1>7. ASSUME NEW step, NEW next, NEW code, NewTest(step, next, code)
        PROVE  FALSE
    <2>1. "saver" \in able
      BY <1>7 DEF NewTest
    <2>2. PICK a \in {"ok", "forgets", "error"} : Answers(a, "ok", "save again")
      BY <1>7, <2>1 DEF NewTest, SaveClient
    <2> QED BY <1>o, <1>p, <2>2
  <1>8. ASSUME NEW step, NEW next, SaveAuthorize(step, next, "save again")
        PROVE  FALSE
    <2>1. PICK a \in {"keeps"} \cup Faulty : Answers(a, "keeps", Blame(a, "save again"))
      BY <1>8 DEF SaveAuthorize
    <2>2. Blame(a, "save again") = p
      BY <2>1 DEF Answers
    <2> QED BY <1>p, <2>2 DEF Blame
  <1>9. CASE SaveAuthorize("save code", "load code", "save code")
    <2>1. pc = "save code" /\ pc' = "load code" /\ mine = NewGrant(Code1) /\ codes[Code1] = Nothing
      BY <1>9, <1>k, <1>b, <1>f DEF SaveAuthorize
    <2> DEFINE Auth(a) == IF a = "scribbles" THEN Changed(mine.auth) ELSE mine.auth
               Entr(a) == IF a = "alters" THEN Copy(Changed(Auth(a))) ELSE Keep(Auth(a))
    <2>2. PICK a \in {"keeps"} \cup Faulty :
             /\ Answers(a, "keeps", Blame(a, "save code"))
             /\ mine' = [mine EXCEPT !.auth = Auth(a)]
             /\ codes' = IF a \in {"forgets", "error"} THEN codes
                         ELSE [codes EXCEPT ![mine.code] = Entr(a)]
             /\ verdict' = IF "save code" = "save again" \/ a # "error" THEN verdict ELSE "fail"
      BY <1>9 DEF SaveAuthorize
    <2>3. a # "keeps" /\ Blame(a, "save code") = p
      BY <2>2 DEF Answers
    <2>4. a \in {"forgets", "alters"} /\ p = "save code"
      BY <1>p, <2>2, <2>3 DEF Faulty, Blame
    <2>5. Auth(a) = Given /\ mine.code = Code1
      BY <2>1, <2>4, GrantFields
    <2>6. mine' = NewGrant(Code1)
      BY <2>1, <2>2, <2>5, AlteredFields
    <2>7. codes'[Code1] \in {Nothing, Copy(Changed(Given))}
      BY <1>c, <1>t, <2>1, <2>2, <2>4, <2>5
    <2> QED BY <2>1, <2>4, <2>6, <2>7 DEF OAuthLate
  <1>10. CASE LoadAuthorize
    <2>1. pc = "load code" /\ mine.code = Code1 /\ mine.auth = Given
      BY <1>10, <1>k, GrantFields DEF LoadAuthorize
    <2>2. LoadedCode(Code1) = Found(Given)
      BY <1>c, <1>k, <1>w, <2>1, KeptCode
    <2>3. PICK a \in {Found(Given), NotFound} \cup {Found(d) : d \in Others(Given)} :
             /\ Answers(a, Found(Given), "load code")
             /\ Expect(a.found /\ a.data = Given)
      BY <1>10, <2>1, <2>2 DEF LoadAuthorize
    <2>4. a # Found(Given) /\ a.found /\ a.data = Given
      BY <1>k, <1>o, <2>3
    <2>5. a # NotFound
      BY <2>4, LoadTypes, <1>t
    <2>6. PICK d \in Others(Given) : a = Found(d)
      BY <2>3, <2>4, <2>5
    <2> QED BY <2>4, <2>6, LoadTypes, <1>t, OtherData
  <1>11. CASE Remove("remove code", "load removed code")
    <2>1. /\ pc = "remove code" /\ pc' = "load removed code" /\ mine.code = Code1 /\ mine' = mine
          /\ codes[Code1] # Nothing
      BY <1>11, <1>k, <1>b DEF Remove
    <2>2. PICK a \in {"ok", "forgets", "error"} :
             /\ Answers(a, "ok", "remove code")
             /\ codes' = IF a = "ok" THEN [codes EXCEPT ![mine.code] = Nothing] ELSE codes
      BY <1>11 DEF Remove, Removal
    <2>3. a # "ok" /\ "remove code" = p
      BY <2>2 DEF Answers
    <2> QED BY <2>1, <2>2, <2>3 DEF OAuthLate
  <1>12. CASE LoadAfterRemove("load removed code", "client for access", LoadedCode(mine.code), "load code")
    <2>1. pc = "load removed code" /\ codes[mine.code] = Nothing
      BY <1>12, <1>k DEF LoadAfterRemove
    <2>2. LoadedCode(mine.code).found = FALSE
      BY <2>1, Entry, LoadTypes, <1>t DEF LoadedCode
    <2> QED BY <1>12, <1>k, <1>o, <2>2 DEF LoadAfterRemove
  <1>13. CASE SaveAccess("save access", "load access", Faulty, TRUE)
    <2>1. pc = "save access" /\ pc' = "load access" /\ mine = NewGrant(Code2) /\ access = Nothing
      BY <1>13, <1>k, <1>b, <1>f DEF SaveAccess
    <2> DEFINE Grant(a) == IF a = "scribbles" THEN [mine EXCEPT !.access = Changed(@)] ELSE mine
               Entr(a) == IF a = "alters" THEN Copy([Grant(a) EXCEPT !.access = Changed(@)])
                          ELSE Keep(Grant(a))
    <2>2. PICK a \in {"keeps"} \cup Faulty :
             /\ Answers(a, "keeps", Blame(a, "save access"))
             /\ mine' = Grant(a)
             /\ access' = IF a \in {"forgets", "error"} THEN access ELSE Entr(a)
             /\ verdict' = IF a # "error" THEN verdict ELSE "fail"
      BY <1>13 DEF SaveAccess
    <2>3. a # "keeps" /\ Blame(a, "save access") = p
      BY <2>2 DEF Answers
    <2>4. a \in {"forgets", "alters"} /\ p = "save access"
      BY <1>p, <2>2, <2>3 DEF Faulty, Blame
    <2>5. mine' = NewGrant(Code2)
      BY <2>1, <2>2, <2>4
    <2>6. access' \in {Nothing, Copy(Altered(Code2))}
      <3>1. CASE a = "forgets"
        BY <2>1, <2>2, <3>1
      <3>2. CASE a = "alters"
        <4>1. access' = Copy([mine EXCEPT !.access = Changed(@)])
          BY <2>2, <3>2
        <4> QED BY <2>1, <4>1, GrantFields DEF Altered
      <3> QED BY <2>4, <3>1, <3>2
    <2> QED BY <2>1, <2>4, <2>5, <2>6 DEF OAuthLate
  <1>14. CASE LoadAccess
    <2>1. pc = "load access" /\ mine = NewGrant(Code2) /\ Code2 \in Codes
      BY <1>14, <1>c, <1>k DEF LoadAccess
    <2>2. LoadedAccess = Found(mine)
      BY <1>k, <1>w, <2>1, KeptAccess
    <2>3. PICK a \in {LoadedAccess, NotFound} \cup OtherGrants :
             /\ Answers(a, LoadedAccess, "load access")
             /\ Expect(a.found /\ AccessDataEqual(mine, a.data))
      BY <1>14 DEF LoadAccess
    <2>4. a # LoadedAccess /\ a.found /\ AccessDataEqual(mine, a.data)
      BY <1>k, <1>o, <2>3
    <2>5. a # NotFound
      BY <2>4, LoadTypes, <1>t
    <2> QED BY <2>1, <2>3, <2>4, <2>5, OtherGrant
  <1>15. CASE Remove("remove access", "load removed access")
    <2>1. pc = "remove access" /\ pc' = "load removed access" /\ access # Nothing
      BY <1>15, <1>b DEF Remove
    <2>2. PICK a \in {"ok", "forgets", "error"} :
             /\ Answers(a, "ok", "remove access")
             /\ access' = IF a = "ok" THEN Nothing ELSE access
      BY <1>15 DEF Remove, Removal
    <2>3. a # "ok" /\ "remove access" = p
      BY <2>2 DEF Answers
    <2> QED BY <2>1, <2>2, <2>3 DEF OAuthLate
  <1>16. CASE LoadAfterRemove("load removed access", "client for refresh", LoadedAccess, "load access")
    <2>1. pc = "load removed access" /\ access = Nothing
      BY <1>16, <1>k DEF LoadAfterRemove
    <2>2. LoadedAccess.found = FALSE
      BY <2>1, Entry, LoadTypes, <1>t DEF LoadedAccess
    <2> QED BY <1>16, <1>k, <1>o, <2>2 DEF LoadAfterRemove
  <1>17. CASE SaveAccess("access for refresh", "load refresh", Faulty \cup {"no refresh"}, FALSE)
    <2>1. /\ pc = "access for refresh" /\ pc' = "load refresh" /\ mine = NewGrant(Code1)
          /\ access = Nothing /\ refresh = FALSE
      BY <1>17, <1>k, <1>b DEF SaveAccess
    <2> DEFINE Grant(a) == IF a = "scribbles" THEN [mine EXCEPT !.access = Changed(@)] ELSE mine
               Entr(a) == IF a = "alters" THEN Copy([Grant(a) EXCEPT !.access = Changed(@)])
                          ELSE Keep(Grant(a))
    <2>2. PICK a \in {"keeps"} \cup (Faulty \cup {"no refresh"}) :
             /\ Answers(a, "keeps", Blame(a, "save access"))
             /\ mine' = Grant(a)
             /\ access' = IF a \in {"forgets", "error"} THEN access ELSE Entr(a)
             /\ refresh' = (refresh \/ a \notin {"forgets", "error", "no refresh"})
      BY <1>17 DEF SaveAccess
    <2>3. a # "keeps" /\ Blame(a, "save access") = p
      BY <2>2 DEF Answers
    <2>4. a \in {"forgets", "alters", "error", "no refresh"} /\ p = "save access"
      BY <1>p, <2>2, <2>3 DEF Faulty, Blame
    <2>5. mine' = NewGrant(Code1)
      BY <2>1, <2>2, <2>4
    <2>6. CASE a = "alters"
      <3>1. access' = Copy([mine EXCEPT !.access = Changed(@)])
        BY <2>2, <2>6
      <3>2. access' = Copy(Altered(Code1))
        BY <2>1, <3>1, GrantFields DEF Altered
      <3> QED BY <2>1, <2>4, <2>5, <3>2 DEF OAuthLate
    <2>7. CASE a # "alters"
      <3>1. refresh' = FALSE
        BY <2>1, <2>2, <2>4, <2>7
      <3> QED BY <2>1, <2>4, <2>5, <3>1 DEF OAuthLate
    <2> QED BY <2>6, <2>7
  <1>18. CASE LoadRefresh
    <2>1. pc = "load refresh" /\ mine = NewGrant(Code1) /\ Code1 \in Codes /\ refresh = TRUE
      BY <1>18, <1>c, <1>k DEF LoadRefresh
    <2>2. LoadedAccess = Found(mine)
      BY <1>k, <1>w, <2>1, KeptAccess
    <2>3. PICK a \in {LoadedRefresh, NotFound} \cup OtherGrants :
             /\ Answers(a, LoadedRefresh, "load refresh")
             /\ Expect(a.found /\ a.data = mine)
      BY <1>18 DEF LoadRefresh
    <2>4. a # LoadedRefresh /\ a.found /\ a.data = mine
      BY <1>k, <1>o, <2>3
    <2>5. a # NotFound
      BY <2>4, LoadTypes, <1>t
    <2> QED BY <2>1, <2>3, <2>4, <2>5, OtherGrant
  <1>19. CASE Remove("remove refresh", "load removed refresh")
    <2>1. /\ pc = "remove refresh" /\ pc' = "load removed refresh" /\ refresh = TRUE
          /\ access # Nothing
      BY <1>19, <1>b, <1>k, Entry DEF Remove, Keep
    <2>2. PICK a \in {"ok", "forgets", "error"} :
             /\ Answers(a, "ok", "remove refresh")
             /\ refresh' = IF a = "ok" THEN FALSE ELSE refresh
             /\ access' = access
      BY <1>19 DEF Remove, Removal
    <2>3. a # "ok" /\ "remove refresh" = p
      BY <2>2 DEF Answers
    <2> QED BY <2>1, <2>2, <2>3 DEF OAuthLate
  <1>20. CASE LoadAfterRemove("load removed refresh", "done", LoadedRefresh, "load refresh")
    <2>1. pc = "load removed refresh" /\ refresh = FALSE
      BY <1>20, <1>k DEF LoadAfterRemove
    <2>2. LoadedRefresh.found = FALSE
      BY <2>1, LoadTypes, <1>t DEF LoadedRefresh
    <2> QED BY <1>20, <1>k, <1>o, <2>2 DEF LoadAfterRemove
  <1> QED
    BY <1>1, <1>2, <1>3, <1>4, <1>5, <1>6, <1>7, <1>8, <1>9, <1>10, <1>11, <1>12, <1>13, <1>14,
       <1>15, <1>16, <1>17, <1>18, <1>19, <1>20, <1>k DEF OAuthNext

(* What a load of something else than was saved answers, and of what should be gone. *)
LEMMA LoadedOtherwise ==
  ASSUME OAuthTypeOK
  PROVE  /\ \A c \in Codes : codes[c] # Nothing => LoadedCode(c).found = TRUE
         /\ access # Nothing => LoadedAccess.found = TRUE
         /\ \A c \in Codes : /\ codes[c] \in {Nothing, Copy(Changed(Given))}
                             /\ LoadedCode(c).found
                             => LoadedCode(c).data # Given
         /\ \A c \in Codes : /\ access \in {Nothing, Copy(Altered(c))}
                             /\ LoadedAccess.found
                             => LoadedAccess.data.access # Given
  <1>f. NotFound.found = FALSE /\ \A d : Found(d).found = TRUE /\ Found(d).data = d
    BY LoadTypes
  <1>r. \A d : Referred(Changed(Given)) # Given
    BY OtherData DEF Referred
  <1>1. ASSUME NEW c \in Codes, codes[c] # Nothing
        PROVE  LoadedCode(c).found = TRUE
    <2>1. codes[c] \in Entries(Data)
      BY DEF OAuthTypeOK
    <2>2. codes[c].kept \in {"shared", "copy"}
      BY <1>1, <2>1, Entry DEF Entries
    <2> QED BY <1>f, <2>2 DEF LoadedCode
  <1>2. ASSUME access # Nothing
        PROVE  LoadedAccess.found = TRUE
    <2>1. access \in Entries(Grants)
      BY DEF OAuthTypeOK
    <2>2. access.kept \in {"shared", "copy"}
      BY <1>2, <2>1, Entry DEF Entries
    <2> QED BY <1>f, <2>2 DEF LoadedAccess
  <1>3. ASSUME NEW c \in Codes, codes[c] \in {Nothing, Copy(Changed(Given))}, LoadedCode(c).found
        PROVE  LoadedCode(c).data # Given
    <2>1. codes[c] # Nothing
      BY <1>3, <1>f, Entry DEF LoadedCode
    <2>2. LoadedCode(c) = Found(Referred(Changed(Given)))
      BY <1>3, <2>1, Entry DEF LoadedCode
    <2> QED BY <1>f, <1>r, <2>2
  <1>4. ASSUME NEW c \in Codes, access \in {Nothing, Copy(Altered(c))}, LoadedAccess.found
        PROVE  LoadedAccess.data.access # Given
    <2>1. access # Nothing
      BY <1>4, <1>f, Entry DEF LoadedAccess
    <2>2. LoadedAccess = Found(LoadedGrant(Altered(c)))
      BY <1>4, <2>1, Entry DEF LoadedAccess
    <2>3. LoadedAccess.data = LoadedGrant(Altered(c))
      BY <1>f, <2>2
    <2>4. LoadedGrant(Altered(c)).access \in {Changed(Given), Referred(Changed(Given))}
      BY AlteredFields DEF LoadedGrant
    <2> QED BY <1>r, <2>3, <2>4, OtherData
  <1> QED BY <1>1, <1>2, <1>3, <1>4

LEMMA OAuthNoticesLate ==
  ASSUME TypeInv, OAuthNext, NEW p, OAuthLate(p), broken = {p}, broken' = {p}
  PROVE  verdict' # "pass"
  <1> SUFFICES ASSUME verdict' = "pass" PROVE FALSE
    OBVIOUS
  <1>t. OAuthTypeOK /\ mine \in Grants
    BY DEF TypeInv, RunTypeOK, OAuthTypeOK
  <1>c. Code1 \in Codes /\ Code2 \in Codes /\ mine.code \in Codes
    BY <1>t, GrantTypes DEF Codes, Code1, Code2
  <1>o. \A a, right, q : Answers(a, right, q) => a = right \/ q = p
    <2> SUFFICES ASSUME NEW a, NEW right, NEW q, Answers(a, right, q)
                 PROVE  a = right \/ q = p
      OBVIOUS
    <2> QED BY OneBroken
  <1> USE DEF Expect
  <1>1. CASE p = "save client" /\ pc = "get client" /\ clients # "first"
    <2>1. GetClient("get client", "list clients", "first")
      BY <1>1
         DEF OAuthNext, RunOAuthTests, TestSaveClient, ListClients, UpdateClient, RemoveClient,
             GetClient, NewTest, SaveAuthorize, LoadAuthorize, SaveAccess, LoadAccess, Remove,
             LoadAfterRemove, LoadRefresh
    <2>2. PICK a \in Clients : Answers(a, clients, "get client") /\ Expect(a = "first")
      BY <2>1 DEF GetClient
    <2>3. a = clients
      BY <1>1, <1>o, <2>2
    <2> QED BY <1>1, <2>2, <2>3
  <1>2. CASE p = "save client" /\ pc = "get updated" /\ clients # "second"
    <2>1. GetClient("get updated", "remove client", "second")
      BY <1>2
         DEF OAuthNext, RunOAuthTests, TestSaveClient, ListClients, UpdateClient, RemoveClient,
             GetClient, NewTest, SaveAuthorize, LoadAuthorize, SaveAccess, LoadAccess, Remove,
             LoadAfterRemove, LoadRefresh
    <2>2. PICK a \in Clients : Answers(a, clients, "get client") /\ Expect(a = "second")
      BY <2>1 DEF GetClient
    <2>3. a = clients
      BY <1>2, <1>o, <2>2
    <2> QED BY <1>2, <2>2, <2>3
  <1>3. CASE p = "remove client" /\ pc = "get removed" /\ clients # "none"
    <2>1. GetClient("get removed", "client for code", "none")
      BY <1>3
         DEF OAuthNext, RunOAuthTests, TestSaveClient, ListClients, UpdateClient, RemoveClient,
             GetClient, NewTest, SaveAuthorize, LoadAuthorize, SaveAccess, LoadAccess, Remove,
             LoadAfterRemove, LoadRefresh
    <2>2. PICK a \in Clients : Answers(a, clients, "get client") /\ Expect(a = "none")
      BY <2>1 DEF GetClient
    <2>3. a = clients
      BY <1>3, <1>o, <2>2
    <2> QED BY <1>3, <2>2, <2>3
  <1>4. CASE /\ p = "save code" /\ pc = "load code" /\ mine = NewGrant(Code1)
             /\ codes[Code1] \in {Nothing, Copy(Changed(Given))}
    <2>1. LoadAuthorize /\ mine.code = Code1 /\ mine.auth = Given
      <3>1. LoadAuthorize
        BY <1>4
           DEF OAuthNext, RunOAuthTests, TestSaveClient, ListClients, UpdateClient, RemoveClient,
               GetClient, NewTest, SaveAuthorize, LoadAuthorize, SaveAccess, LoadAccess, Remove,
               LoadAfterRemove, LoadRefresh
      <3> QED BY <1>4, <3>1, GrantFields
    <2>2. PICK a : /\ Answers(a, LoadedCode(Code1), "load code")
                   /\ Expect(a.found /\ a.data = Given)
      BY <2>1 DEF LoadAuthorize
    <2>3. a = LoadedCode(Code1)
      BY <1>4, <1>o, <2>2
    <2>4. a.found /\ a.data = Given
      BY <2>2
    <2> QED BY <1>4, <1>c, <1>t, <2>3, <2>4, LoadedOtherwise
  <1>5. CASE p = "remove code" /\ pc = "load removed code" /\ codes[mine.code] # Nothing
    <2>1. LoadAfterRemove("load removed code", "client for access", LoadedCode(mine.code), "load code")
      BY <1>5
         DEF OAuthNext, RunOAuthTests, TestSaveClient, ListClients, UpdateClient, RemoveClient,
             GetClient, NewTest, SaveAuthorize, LoadAuthorize, SaveAccess, LoadAccess, Remove,
             LoadAfterRemove, LoadRefresh
    <2>2. PICK found \in BOOLEAN : Answers(found, LoadedCode(mine.code).found, "load code") /\ Expect(~found)
      BY <2>1 DEF LoadAfterRemove
    <2>3. found = LoadedCode(mine.code).found
      BY <1>5, <1>o, <2>2
    <2>4. LoadedCode(mine.code).found = TRUE
      BY <1>5, <1>c, <1>t, LoadedOtherwise DEF LoadedRefresh
    <2> QED BY <2>2, <2>3, <2>4
  <1>6. CASE /\ p = "save access" /\ pc = "load access" /\ mine = NewGrant(Code2)
             /\ access \in {Nothing, Copy(Altered(Code2))}
    <2>1. LoadAccess
      BY <1>6
         DEF OAuthNext, RunOAuthTests, TestSaveClient, ListClients, UpdateClient, RemoveClient,
             GetClient, NewTest, SaveAuthorize, LoadAuthorize, SaveAccess, LoadAccess, Remove,
             LoadAfterRemove, LoadRefresh
    <2>2. PICK a : /\ Answers(a, LoadedAccess, "load access")
                   /\ Expect(a.found /\ AccessDataEqual(mine, a.data))
      BY <2>1 DEF LoadAccess
    <2>3. a = LoadedAccess
      BY <1>6, <1>o, <2>2
    <2>4. a.found /\ a.data.access = Given
      BY <1>6, <2>2, GrantFields DEF AccessDataEqual
    <2> QED BY <1>6, <1>c, <1>t, <2>3, <2>4, LoadedOtherwise
  <1>7. CASE p = "remove access" /\ pc = "load removed access" /\ access # Nothing
    <2>1. LoadAfterRemove("load removed access", "client for refresh", LoadedAccess, "load access")
      BY <1>7
         DEF OAuthNext, RunOAuthTests, TestSaveClient, ListClients, UpdateClient, RemoveClient,
             GetClient, NewTest, SaveAuthorize, LoadAuthorize, SaveAccess, LoadAccess, Remove,
             LoadAfterRemove, LoadRefresh
    <2>2. PICK found \in BOOLEAN : Answers(found, LoadedAccess.found, "load access") /\ Expect(~found)
      BY <2>1 DEF LoadAfterRemove
    <2>3. found = LoadedAccess.found
      BY <1>7, <1>o, <2>2
    <2>4. LoadedAccess.found = TRUE
      BY <1>7, <1>c, <1>t, LoadedOtherwise DEF LoadedRefresh
    <2> QED BY <2>2, <2>3, <2>4
  <1>8. CASE /\ p = "save access" /\ pc = "load refresh" /\ mine = NewGrant(Code1)
             /\ refresh => access \in {Nothing, Copy(Altered(Code1))}
    <2>1. LoadRefresh
      BY <1>8
         DEF OAuthNext, RunOAuthTests, TestSaveClient, ListClients, UpdateClient, RemoveClient,
             GetClient, NewTest, SaveAuthorize, LoadAuthorize, SaveAccess, LoadAccess, Remove,
             LoadAfterRemove, LoadRefresh
    <2>2. PICK a : /\ Answers(a, LoadedRefresh, "load refresh")
                   /\ Expect(a.found /\ a.data = mine)
      BY <2>1 DEF LoadRefresh
    <2>3. a = LoadedRefresh
      BY <1>8, <1>o, <2>2
    <2>4. a.found /\ a.data.access = Given
      BY <1>8, <2>2, GrantFields
    <2>5. refresh /\ a = LoadedAccess
      BY <1>t, <2>3, <2>4, LoadTypes DEF LoadedRefresh
    <2> QED BY <1>8, <1>c, <1>t, <2>4, <2>5, LoadedOtherwise
  <1>9. CASE p = "remove refresh" /\ pc = "load removed refresh" /\ refresh /\ access # Nothing
    <2>1. LoadAfterRemove("load removed refresh", "done", LoadedRefresh, "load refresh")
      BY <1>9
         DEF OAuthNext, RunOAuthTests, TestSaveClient, ListClients, UpdateClient, RemoveClient,
             GetClient, NewTest, SaveAuthorize, LoadAuthorize, SaveAccess, LoadAccess, Remove,
             LoadAfterRemove, LoadRefresh
    <2>2. PICK found \in BOOLEAN : Answers(found, LoadedRefresh.found, "load refresh") /\ Expect(~found)
      BY <2>1 DEF LoadAfterRemove
    <2>3. found = LoadedRefresh.found
      BY <1>9, <1>o, <2>2
    <2>4. LoadedRefresh.found = TRUE
      BY <1>9, <1>c, <1>t, LoadedOtherwise DEF LoadedRefresh
    <2> QED BY <2>2, <2>3, <2>4
  <1> QED BY <1>1, <1>2, <1>3, <1>4, <1>5, <1>6, <1>7, <1>8, <1>9 DEF OAuthLate

(* What has failed stays failed. *)
LEMMA VerdictStays ==
  ASSUME ActivityPubNext \/ OAuthNext \/ SecretsNext, verdict' = "pass"
  PROVE  verdict = "pass"
  <1> USE DEF Expect
  <1>1. CASE ActivityPubNext
    BY <1>1
       DEF ActivityPubNext, InitActivityPub, LoadRoot, SaveObject, SaveWithoutCollections,
           LoadSaved, EditNothing, CreateCollection, LoadCreated, AddTo, LoadAdded, LoadInbox,
           Query, LoadPage, NextSize, RemoveFrom, LoadRemoved, Delete, LoadDeleted
  <1>2. CASE OAuthNext
    BY <1>2
       DEF OAuthNext, RunOAuthTests, TestSaveClient, SaveClient, ListClients, UpdateClient,
           RemoveClient, GetClient, NewTest, SaveAuthorize, LoadAuthorize, SaveAccess,
           LoadAccess, Remove, Removal, LoadAfterRemove, LoadRefresh
  <1>3. CASE SecretsNext
    BY <1>3
       DEF SecretsNext, RunKeyTests, SaveKey, SaveActor, LoadKey, LoadActor, RunPasswordTests,
           PasswordSet, PasswordCheck, RunMetadataTests, SaveMetadata, LoadMetadata
  <1> QED BY <1>1, <1>2, <1>3

(* What is noticed late is noticed in the same test. *)
LEMMA LateSteps ==
  ASSUME NEW p
  PROVE  /\ ActivityPubLate(p) => pc \in ActivityPubSteps \ {"done"}
         /\ OAuthLate(p) => pc \in OAuthSteps \ {"oauth", "done"}
         /\ SecretsLate(p) => pc \in SecretsSteps \ {"done"}
  BY DEF ActivityPubLate, OAuthLate, SecretsLate, ActivityPubSteps, OAuthSteps, SecretsSteps

LEMMA FreshPreserved ==
  ASSUME FreshInv, [RunNext]_vars
  PROVE  FreshInv'
  <1> USE DEF FreshInv
  <1>s. "oauth" \in OAuthSteps \ {"done"}
    BY DEF OAuthSteps
  <1>1. CASE RunTest
    <2>1. ran' = ran
      BY <1>1 DEF RunTest, runVars
    <2>2. CASE OAuthNext
      BY <2>1, <2>2, OAuthMoves
    <2>3. CASE ~OAuthNext
      <3>1. pc' \in ActivityPubSteps \cup SecretsSteps /\ fresh' = fresh
        BY <1>1, <2>3, ActivityPubMoves, SecretsMoves DEF RunTest, oauthVars
      <3>2. pc' \notin OAuthSteps \ {"done"}
        BY <3>1, StepsApart
      <3> QED BY <1>s, <2>1, <3>1, <3>2
    <2> QED BY <2>2, <2>3
  <1>2. CASE StartTest
    <2>1. /\ Order[turn] \in Tests /\ Order[turn] \notin ran /\ ran' = ran \cup {Order[turn]}
          /\ pc' = FirstStep(Order[turn]) /\ fresh' = fresh
      BY <1>2 DEF StartTest, Order, Tests, oauthVars
    <2>2. CASE Order[turn] = TestOAuth
      BY <2>1, <2>2
    <2>3. CASE Order[turn] # TestOAuth
      <3>1. pc' \in {"init", "keys", "passwords", "metadata"}
        BY <2>1, <2>3, FirstSteps DEF Tests
      <3> QED BY <2>1, <2>3, <3>1 DEF OAuthSteps
    <2> QED BY <2>2, <2>3
  <1>3. CASE Open \/ EndTest \/ UNCHANGED vars
    BY <1>3 DEF Open, EndTest, vars, testVars, runVars, oauthVars
  <1> QED BY <1>1, <1>2, <1>3 DEF RunNext

LEMMA LateTest ==
  ASSUME TypeInv, Inv, BeforeInv, FreshInv, LateInv, RunTest,
         NEW p, broken' = {p}, verdict' = "pass"
  PROVE  /\ p \in ActivityPubChecked => ActivityPubLate(p)'
         /\ p \in OAuthChecked /\ fresh' => OAuthLate(p)'
         /\ p \in SecretsChecked => SecretsLate(p)'
  <1>v. verdict = "pass"
    BY VerdictStays DEF RunTest
  <1>g. broken = {} => Good /\ GoodBefore
    BY DEF Inv, BeforeInv
  <1>l. broken = {p} => /\ p \in ActivityPubChecked => ActivityPubLate(p)
                        /\ p \in OAuthChecked /\ fresh => OAuthLate(p)
                        /\ p \in SecretsChecked => SecretsLate(p)
    BY <1>v DEF LateInv
  <1>p. /\ ActivityPubChecked \subseteq ActivityPubPromises
        /\ OAuthChecked \subseteq OAuthPromises /\ SecretsChecked \subseteq SecretsPromises
    BY DEF ActivityPubChecked, OAuthChecked, SecretsChecked
  <1>b. ASSUME NEW promises, Breaks(promises)
        PROVE  broken = {p} \/ (broken = {} /\ p \in promises)
    BY <1>b DEF Breaks
  <1>1. CASE ActivityPubNext /\ UNCHANGED oauthVars
    <2>1. broken = {p} \/ (broken = {} /\ p \in ActivityPubPromises)
      BY <1>1, <1>b, ActivityPubBreaks
    <2>2. pc \in ActivityPubSteps \ {"done"} /\ fresh' = fresh
      BY <1>1, ActivityPubMoves DEF oauthVars
    <2>3. p \in ActivityPubChecked => ActivityPubLate(p)'
      BY <1>1, <1>g, <1>l, <2>1, ActivityPubNotices, ActivityPubNoticesLate
    <2>4. ~(p \in OAuthChecked /\ fresh) /\ p \notin SecretsChecked
      BY <1>l, <1>p, <2>1, <2>2, LateSteps, StepsApart, PromisesApart
    <2> QED BY <2>2, <2>3, <2>4
  <1>2. CASE OAuthNext
    <2>1. broken = {p} \/ (broken = {} /\ p \in OAuthPromises)
      BY <1>2, <1>b, OAuthBreaks
    <2>2. pc \in OAuthSteps \ {"done"} /\ (fresh' => fresh)
      BY <1>2, OAuthMoves DEF FreshInv
    <2>3. p \in OAuthChecked /\ fresh' => OAuthLate(p)'
      BY <1>2, <1>g, <1>l, <2>1, <2>2, OAuthNotices, OAuthNoticesLate
    <2>4. p \notin ActivityPubChecked /\ p \notin SecretsChecked
      BY <1>l, <1>p, <2>1, <2>2, LateSteps, StepsApart, PromisesApart
    <2> QED BY <2>3, <2>4
  <1>3. CASE SecretsNext /\ UNCHANGED oauthVars
    <2>1. broken = {p} \/ (broken = {} /\ p \in SecretsPromises)
      BY <1>3, <1>b, SecretsBreak
    <2>2. pc \in SecretsSteps \ {"done"} /\ fresh' = fresh
      BY <1>3, SecretsMoves DEF oauthVars
    <2>3. p \in SecretsChecked => SecretsLate(p)'
      BY <1>3, <1>g, <1>l, <2>1, SecretsNotices, SecretsNoticesLate
    <2>4. ~(p \in OAuthChecked /\ fresh) /\ p \notin ActivityPubChecked
      BY <1>l, <1>p, <2>1, <2>2, LateSteps, StepsApart, PromisesApart
    <2> QED BY <2>2, <2>3, <2>4
  <1> QED BY <1>1, <1>2, <1>3 DEF RunTest

LEMMA LatePreserved ==
  ASSUME TypeInv, Inv, BeforeInv, FreshInv, LateInv, [RunNext]_vars
  PROVE  LateInv'
  <1> SUFFICES ASSUME NEW p, broken' = {p}, verdict' = "pass"
               PROVE  /\ p \in ActivityPubChecked => ActivityPubLate(p)'
                      /\ p \in OAuthChecked /\ fresh' => OAuthLate(p)'
                      /\ p \in SecretsChecked => SecretsLate(p)'
    BY DEF LateInv
  <1>1. CASE RunTest
    BY <1>1, LateTest
  <1>2. CASE StartTest
    <2>1. pc = "done" /\ broken = {p} /\ verdict = "pass" /\ fresh' = fresh
      BY <1>2 DEF StartTest, oauthVars
    <2> QED BY <2>1, LateSteps DEF LateInv
  <1>3. CASE Open \/ EndTest \/ UNCHANGED vars
    <2>1. UNCHANGED testVars
      BY <1>3 DEF Open, EndTest, vars
    <2>2. UNCHANGED <<pc, at, verdict, broken, fresh, activityPubVars, oauthVars, secretsVars>>
      BY <2>1 DEF testVars, oauthVars
    <2>3. /\ ActivityPubLate(p) => ActivityPubLate(p)'
          /\ OAuthLate(p) => OAuthLate(p)'
          /\ SecretsLate(p) => SecretsLate(p)'
      BY <2>2 DEF ActivityPubLate, OAuthLate, SecretsLate, activityPubVars, oauthVars, secretsVars
    <2> QED BY <2>2, <2>3 DEF LateInv
  <1> QED BY <1>1, <1>2, <1>3 DEF RunNext

-----------------------------------------------------------------------------
(* With one fault, one promise is broken at most. *)
FewBroken == Faults <= 1 => broken = {} \/ \E p : broken = {p}

LEMMA FewPreserved ==
  ASSUME FewBroken, [RunNext]_vars
  PROVE  FewBroken'
  <1> SUFFICES ASSUME Faults <= 1 PROVE broken' = {} \/ \E p : broken' = {p}
    BY DEF FewBroken
  <1>1. ASSUME NEW promises, Breaks(promises)
        PROVE  broken' = {} \/ \E p : broken' = {p}
    <2>1. CASE broken' = broken
      BY <2>1 DEF FewBroken
    <2>2. CASE \E p \in promises : /\ p \in broken \/ Cardinality(broken) < Faults
                                   /\ broken' = broken \cup {p}
      <3>1. PICK p \in promises : /\ p \in broken \/ Cardinality(broken) < Faults
                                  /\ broken' = broken \cup {p}
        BY <2>2
      <3>2. CASE broken = {}
        BY <3>1, <3>2
      <3>3. CASE broken # {}
        <4>1. PICK q : broken = {q}
          BY <3>3 DEF FewBroken
        <4>2. Cardinality(broken) = 1
          BY <4>1, FS_Singleton
        <4>3. p = q
          BY <3>1, <4>1, <4>2, FaultsAssumption
        <4> QED BY <3>1, <4>1, <4>3
      <3> QED BY <3>2, <3>3
    <2> QED BY <1>1, <2>1, <2>2 DEF Breaks
  <1>2. CASE RunTest
    BY <1>1, <1>2, ActivityPubBreaks, OAuthBreaks, SecretsBreak DEF RunTest
  <1>3. CASE ~RunTest
    <2>1. broken' = broken
      BY <1>3 DEF RunNext, Open, StartTest, EndTest, vars, testVars
    <2> QED BY <2>1 DEF FewBroken
  <1> QED BY <1>2, <1>3

(* All of it, as one inductive invariant. *)
SilenceInv == TypeInv /\ Inv /\ BeforeInv /\ FreshInv /\ LateInv /\ FewBroken

LEMMA SilenceInitially == RunInit => SilenceInv
  <1> SUFFICES ASSUME RunInit PROVE SilenceInv
    OBVIOUS
  <1>1. TypeInv /\ Inv
    BY TypesInitially, InvInitially
  <1>2. pc = "done" /\ broken = {} /\ fresh = TRUE
    BY DEF RunInit, OAuthInit
  <1>3. BeforeInv
    BY <1>2 DEF BeforeInv, GoodBefore, BeforeCreate, BeforeCode, BeforeAccess
  <1>4. FreshInv
    BY <1>2 DEF FreshInv
  <1>5. LateInv /\ FewBroken
    BY <1>2 DEF LateInv, FewBroken
  <1> QED BY <1>1, <1>3, <1>4, <1>5 DEF SilenceInv

LEMMA SilencePreserved == SilenceInv /\ [RunNext]_vars => SilenceInv'
  BY TypePreserved, InvPreserved, BeforePreserved, FreshPreserved, LatePreserved, FewPreserved
     DEF SilenceInv

(* A test is over only when what is broken has been noticed. *)
LEMMA Noticed ==
  ASSUME LateInv, NEW p, broken = {p}, pc = "done", verdict = "pass"
  PROVE  /\ p \notin ActivityPubChecked /\ p \notin SecretsChecked
         /\ fresh => p \notin OAuthChecked
  BY LateSteps DEF LateInv

(* A backend that has broken one promise, and one that the tests check, whatever and *)
(* however often, has failed by the end of the test, for any number of objects,       *)
(* filters and tests asked for (activitypub_storage.go:87-432, oauth_storage.go:89-355, *)
(* key_storage.go:79-205, metadata_storage.go:150-247).                                *)
THEOREM OneBrokenPromiseIsNoticed ==
  RunSpec => [](\A p : broken = {p} => /\ ActivityPubBreakersFail
                                       /\ OAuthBreakersFail
                                       /\ SecretsBreakersFail)
  <1>1. SilenceInv => \A p : broken = {p} => /\ ActivityPubBreakersFail
                                             /\ OAuthBreakersFail
                                             /\ SecretsBreakersFail
    BY Noticed DEF SilenceInv, ActivityPubBreakersFail, OAuthBreakersFail, SecretsBreakersFail
  <1> QED BY <1>1, SilenceInitially, SilencePreserved, PTL DEF RunSpec

(* With one fault at most, no broken promise of the ActivityPub tests goes by in silence. *)
THEOREM ActivityPubBreakersAreCaught ==
  ASSUME Faults <= 1
  PROVE  RunSpec => []ActivityPubBreakersFail
  <1>1. SilenceInv => ActivityPubBreakersFail
    BY Noticed DEF SilenceInv, FewBroken, ActivityPubBreakersFail
  <1> QED BY <1>1, SilenceInitially, SilencePreserved, PTL DEF RunSpec

(* Nor one of the OAuth tests on an empty storage, however it keeps its data. *)
THEOREM OAuthBreakersAreCaught ==
  ASSUME Faults <= 1
  PROVE  RunSpec => []OAuthBreakersFail
  <1>1. SilenceInv => OAuthBreakersFail
    BY Noticed DEF SilenceInv, FewBroken, OAuthBreakersFail
  <1> QED BY <1>1, SilenceInitially, SilencePreserved, PTL DEF RunSpec

(* Nor one of the tests on keys, passwords and metadata. *)
THEOREM SecretsBreakersAreCaught ==
  ASSUME Faults <= 1
  PROVE  RunSpec => []SecretsBreakersFail
  <1>1. SilenceInv => SecretsBreakersFail
    BY Noticed DEF SilenceInv, FewBroken, SecretsBreakersFail
  <1> QED BY <1>1, SilenceInitially, SilencePreserved, PTL DEF RunSpec
=============================================================================
