# Verification of the storage conformance suite

The repository has two halves. One is a **test suite** (package `conformance`)
that storage backends of the go-ap project run against themselves: it says what
a backend has to do and checks it with data from a **generator** (package
`gen`). The other is a **backend**, `memStorage` in `storage_mem.go`, that the
suite itself is tried on. This directory specifies both halves in TLA+, checks
them with TLC on small instances and proves the main invariants of both with
TLAPS for every instance.

Line numbers below are those of the files under `src/`.

## 1. Inventory

| Part | Source | State | Operations |
|---|---|---|---|
| item storage | `storage_mem.go:40-200` | one `sync.Map` from IRIs to items; collections behind pointers | Save, Create, Delete, AddTo, RemoveFrom, Load |
| access and refresh tokens | `storage_mem.go:277-329` | two entries of the map for each grant | SaveAccess, LoadAccess, RemoveAccess, LoadRefresh, RemoveRefresh |
| OAuth clients | `storage_mem.go:202-249` | an entry for each client | SaveClient, RemoveClient, GetClient, ListClients |
| authorize codes | `storage_mem.go:251-275` | an entry for each code | SaveAuthorize, LoadAuthorize, RemoveAuthorize |
| private keys | `storage_mem.go:331-371`, `key_storage.go` | an entry for each actor; the public key is in the stored actor | SaveKey, LoadKey |
| passwords | `storage_mem.go:373-393`, `password_storage.go` | a bcrypt hash for each item | PasswordSet, PasswordCheck |
| metadata | `storage_mem.go:395-423`, `metadata_storage.go` | a value for each item; `PassAndKeyMetadata` has a JSON form | SaveMetadata, LoadMetadata, MarshalJSON, UnmarshalJSON |
| suite entry | `suite.go` | the tests asked for, the storage opened | Suite, TestType.Run |
| ActivityPub tests | `activitypub_storage.go` | the random objects, the filter of the page to load next | RunActivityPubTests |
| OAuth, key, password, metadata tests | `oauth_storage.go`, `key_storage.go`, `password_storage.go`, `metadata_storage.go` | fixtures in package variables | RunOAuthTests, ... |
| generator | `generator.go`, `gen/mock_build.go` | `BaseTime`, `typeCountMap`, `genCache` | Random..., CreateActivity, PlausibleStorage |
| content map, name tables | `gen/mock_content.go`, `gen/names` | constant tables | one random choice |

How they meet: `TestType.Run` opens the storage it is given and runs the tests
asked for one after the other, in one goroutine. Each test asks the storage for
the interface it needs, takes data from the generator, calls the storage, and
compares what comes back with what it sent in. The parts of `memStorage` share
nothing but the map, under keys that differ in their last path element.
`LoadRefresh` calls `LoadAccess`; `AddTo` and `RemoveFrom` call `Save`; publishing
a key takes a `SaveKey` and a `Save`. No part calls back into another.

What is hard in this code:

* **Interleavings.** Each call on the `sync.Map` is atomic and nothing locks two
  of them together. Save, AddTo, RemoveFrom, SaveAccess, RemoveAccess,
  LoadRefresh, ListClients and the rotation of a key all take more than one. The
  run script uses the race detector (`tools/run-suite.sh`), and `storage_mem.go`
  took a concurrent map, so that concurrent use is meant.
* **Aliasing.** The map holds pointers. AddTo and RemoveFrom change a stored
  collection in place and save the pointer they loaded, however old it is.
* **Partial failure.** Append may fail half way; SaveKey stores before it can
  fail; MarshalJSON drops an error.
* **Verdicts.** A conformance suite can be wrong in two ways: it fails a backend
  that keeps its promises, or passes one that breaks them. Its own paging
  arithmetic, its order of checks and what it skips decide.
* **Uniqueness.** The storage tests mean something only when generated items do
  not share an IRI.

What makes each part correct is stated in its module, and summed up in section 3.

## 2. Modules

| Module | Part | State and steps |
|---|---|---|
| `ItemContract` | what a backend promises to concurrent callers of the item operations, as the comments of its interface have it (`activitypub_storage.go:14-85`) | a map of contents, and for each caller the pending call or the last reply; every Save creates the collections its object names, AddTo creates a missing hidden one, each edit takes effect once, at one instant |
| `ItemStorage` | item storage of `memStorage` | `store` is the map, `heap` the memory of collections, `frame` the call each goroutine is in. A step is one call on the map or one access to a collection. `known`, `possible` and `overlapped` record what callers were told. `Hidden` are the blocked and ignored collections; with `Orderly` callers keep to the conditions under which memStorage does all that the contract asks |
| `TokenStorage` | access and refresh tokens | `access` and `refresh` are the two tables of the map; a step is one call on it. `raced` records the access tokens of which a SaveAccess and a RemoveAccess have overlapped |
| `ClientRegistry` | OAuth clients | `clients`; ListClients visits one key after the other and `during` records what each held meanwhile |
| `KeyPairs` | private keys and how callers publish them | `private` and `published`; SaveKey and the Save of the actor are two steps, so are the two loads of a comparison |
| `MetadataCodec` | `PassAndKeyMetadata` as JSON | a document of members and commas, and the value it is loaded into |
| `Conformance` | what all tests of the suite have in common | `pc` is the next call of the suite, `verdict` what it thinks so far, and `broken` the promises the backend has broken |
| `Backend` | how the backend under test keeps what it is given | `way`: it shares the caller's pointer, owns a copy it hands out pointers to, copies, or refers to clients and authorizations by ID |
| `ActivityPubSuite` | RunActivityPubTests | the objects and the collection the backend keeps, and the traversal: its page size, the pages left, the filter's `after` and the objects seen |
| `OAuthSuite` | RunOAuthTests, and the clients, authorize codes and tokens of the backend | the value of the running test (`mine`), and for each key whether the backend holds nothing, that very value, or a copy |
| `SecretsSuite` | RunKeyTests, RunPasswordTests, RunMetadataTests, and the secrets of the backend | the key and the stored actor, what SaveKey and LoadKey answered, the password, the metadata value |
| `SuiteRun` | Suite and TestType.Run, with all five tests | the tests asked for, the storage as it opens, `turn` in the order of Run, the tests started, Close called |
| `Generator` | the functions of `gen/mock_build.go` that make one item, activity or collection | the package's three variables; `making`, what a collection or question still lacks; `made`, the items in order. An activity's object is `Chosen` by randomActivity or `Given` by the caller |
| `PlausibleStorage` | PlausibleStorage | its three loops and the sort |

`SuiteRun` composes the suite: it extends the modules of the tests, which share
`Conformance`, and `RunTest` is one call of whichever test is running. The tests
pass the one storage on to each other, and `at`, `verdict`, `broken` and `way`
with it. `ItemStorage` is composed with `ItemContract` by a refinement: `Contents`
and `Pending` see the storage without heap, addresses and snapshots, and
`ImplementsContract` says that this view behaves as the contract does.

`MC*` modules give the constants of the module of that name for TLC, `*Proofs`
modules hold the proofs. A definition introduced by "A slip the runs must catch"
is a mutated form of the one after it; it is in no specification, and exists so
that a property can be seen to fail when the code has that slip.

### The backend under test

The suite is checked against *any* backend. At each call the backend gives the
answer the interface promises or another one, and what it keeps may differ from
what it answered. `Answers(a, right, p)` records the promise `p` as broken when it
is not the right one. That makes both questions about a verdict invariants: a
`verdict` other than `pass` with `broken = {}` is a false alarm, `pc = "done"` with a
checked promise in `broken` and `verdict = "pass"` is silence.

The storage a test begins on is a new one, or one that has been used: for the
OAuth tests what they leave themselves (`LeftClients`, `LeftCodes`, `LeftAccess`),
for keys, passwords and metadata anything that earlier tests or runs may have
left. `CanRunAgain` justifies the former: it says that the tests leave exactly
that. Where the storage already holds the very value, a save that stores nothing
cannot be noticed; such a save breaks `save the same`, which no test checks.

### What is abstracted

* An item is its IRI and, for an object, the list of the collection IRIs it
  carries (a *version*). A caller may save any version at any time. The hidden
  collections of an actor, which are no properties of it but which Save opens with
  the others (`storage_mem.go:123-125`), are in the lists of its versions.
* Filters: what a filter keeps is left out of `ItemStorage`, except that running
  one on a page crashes. In `ActivityPubSuite` a filter is the set of objects it
  matches, and paging is modelled as arithmetic on the objects' order.
* Append and Remove come from a library. They read the items and write them
  back, which are two steps; two that overlap lose what a data race on the slice
  loses. Torn writes and other effects of the race are not modelled.
* The address of a collection nobody points to is free again: `Cells` bounds how
  many collections exist at once and not how many are made.
* In the suite's modules the backend's answers are enumerated by kind: the right
  one, another value, nothing, an error, and for a collection one item less, one
  more, another total. A value of the OAuth tests is its client and whether its
  other fields are as the caller gave them. A key is the one the test saved or
  another, and a public key is the private key it belongs to.
* In `MetadataCodec` a password is a model value, one of them not UTF-8, which
  json.Marshal replaces by another.
* In `Generator` an IRI is its base, its type and its number. Names and contents
  are left out; the type that content has is chosen freely.

## 3. What the runs show

Each `pass` run visits every reachable state of its instance. A `violation` run shows
that the code does other than what a comment or an assertion of the repository
says; each checks one property.

| Run | Properties | Shows |
|---|---|---|
| `items_shared` | TypeOK, StoredUnderOwnIRI, UncontendedEditsAreCurrent, RepliesHold, CallsStayApart | two goroutines, any overlap: a collection is never stored under another's IRI, and no running call changes what is under another; on a collection no two calls on which overlapped, what callers were told stays true although Saves open collections beside them |
| `items_contract` | ImplementsContract | for `Orderly` callers the storage implements the contract of the interface: every Save creates the collections its object names, edits take effect once, and all replies are the contract's |
| `items_lost_edit` (violation) | AddedItemsStay | two AddTo calls of one collection that overlap: both return without error, and an item of one is missing. Nobody removes, deletes or replaces anything |
| `items_later_save` (violation) | SaveOpensCollections | a later Save, of a version that names another collection, opens it not |
| `tokens` | TypeOK, RepliesHold, ReferencesAreLive, RefreshFindsItsGrant | on tokens no two writing calls on which overlapped, a grant that was saved is in both tables and one that was removed in neither; a reference outlives its data only where a SaveAccess and a RemoveAccess of the token overlapped, or until the RemoveAccess under way deletes it; a look-up by refresh token never answers the data of another grant |
| `clients_list` | TypeOK, ListsWhatWasStored | a listing leaves out no client that was there all the time, and invents none |
| `keys_rotation` | TypeOK, PairsAgree, ComparedKeysMatch | between rotations an actor's two keys belong together, whatever failed before |
| `metadata_codec` | TypeOK, RoundTrip, StaleOnlyWhereEmpty | what is stored is JSON that decodes to what was saved; a load over an older value keeps only what the new one does not name |
| `metadata_no_key` (violation) | EverythingIsSaved | a password without a key makes a document that is no JSON |
| `suite` | RunTypeOK, KeepersPass, ActivityPubBreakersFail, OAuthBreakersFail, SecretsBreakersFail, TraversalsFillTheirPages, RunsWhatIsAsked, CanRunAgain, RunReturns | up to two of the five tests on any kind of backend: no false alarm for any page size, however values are shared and whatever is left of earlier runs; no silence about any promise a test checks; a traversal that passes was given as many objects as fill its pages; what the OAuth tests leave they pass on again; the tests asked for run, Run returns whatever the backend answers, and a storage that opened is closed |
| `generator` | TypeOK, UniqueIRIs, ActivitiesFollowTheirObjects | IRIs are unique across types and owners, also while a question's options are made one by one; an activity comes after what it acts on, whoever calls for it, and where randomActivity chooses, that is its own actor's |
| `plausible` | TypeOK, AsManyAsAsked, CreatedBeforeUsed | as many items as asked for, each created before it is used; too few to make an actor is a panic |

### Disagreements met on the way

Three have a run, above. Others are visible in the models but not the subject of
a run of their own:

* AddTo to the missing `blocked` or `ignored` collection of a stored actor
  answers not found (`storage_mem.go:165`), while `activitypub_storage.go:79-80`
  wants it created. The contract creates it, `ItemStorage!LoadColFails` does not.
* A filtered Load of a stored collection *page* dereferences a nil pointer
  (`storage_mem.go:78-84`). The contract's Look answers, `ItemStorage!Load` has the
  outcome `panic`.
* A SaveAccess and a RemoveAccess of one token that overlap may leave a reference
  to nothing (`storage_mem.go:284, 302`): these tokens are the `raced` ones, and
  `ReferencesAreLive` says that nothing else leaves one.
* Grants that are saved again with another refresh token leave the old reference
  behind (`storage_mem.go:284`); hence the hypothesis `Paired` of the theorems.
* SaveKey stores the private key before it knows that it can answer the public
  one (`storage_mem.go:342`); `KeyPairs` counts such an actor as `unsettled`.
* MarshalJSON leaves out a key it cannot encode and reports nothing
  (`metadata_storage.go:109`). A value without a password is then saved as an empty
  document, and a load over an older value keeps the older key: `StaleOnlyWhereEmpty`
  says that this is one of the two cases in which it does.
* The suite does not check that Save opens collections (`t.Skipf`,
  `activitypub_storage.go:208`) though line 17 demands it; it asks a nil item for
  its link after a Save that failed (line 174); and a traversal never asks for the
  last page when that one is not full (line 349). In `ActivityPubSuite` these are
  `SaveWithoutCollections`, the verdict `panic`, and the `left` of NextSize.
* With a backend that keeps pointers, the first comparisons of the OAuth tests
  compare a value with itself (`oauth_storage.go:198, 275`): a backend that changes
  the values it is given passes. `OAuthChecked` leaves `leave data alone` out, and
  `save again`, the saves whose errors are discarded and whose values the test may
  find in its own memory.
* The key tests dereference the public key SaveKey answered without looking
  (`key_storage.go:39, 109`): a nil one is a panic, the verdict `panic` of
  `SecretsSuite!SaveKey`. LoadMetadata of memStorage panics on a value of another
  type (`storage_mem.go:421`), which the suite meets only when the save before it
  was lost.

### Bounds

* `items_*`: one object, two collections (one in `items_lost_edit`), two goroutines
  (one in `items_later_save`, which needs no second), and one more cell than there are collections, so that a stale pointer, the stored collection and a
  fresh one can exist together. Every property speaks of one collection and the
  calls that touch it; the second collection is there so that one Save opens two
  and so that a call can be right on one while the other is overlapped. In
  `items_contract` one of the two is hidden. Two members in `items_lost_edit`, whose
  callers (`AddersSpec`) only save objects, add and load, and no Append fails: what is
  missing there was lost to another AddTo.
* `tokens`: two grants to be confused, and one that has no refresh token. Two
  goroutines, as each property is about what one call does between two steps of
  another.
* `clients_list`: two listings at once over two clients with two values.
* `keys_rotation`: three goroutines, two rotating an actor and one comparing.
* `suite`: five objects, so that page sizes 1 to 6 include two that divide,
  several that do not, and one too large; one kind of broken promise (`Faults`), as
  often as the backend likes. **Two kinds may hide each other** (a Save that stores
  nothing and a Load that answers it all the same), and no caller can tell: that is
  the reason for the bound and not the size of the run. Two tests asked for
  (`MaxAsked`), so that one can be listed twice and that one test follows another
  on its storage, in each pair. More than two tests in a run are within the
  proofs.
* `metadata_codec`: a key of each type with a format and one without, a password,
  one that is not UTF-8 and what that one becomes.
* `generator`: four items, as a clash takes two items, an owner and an icon;
  questions of up to two options, each followed by other calls' effects on the
  counters.
* `plausible`: zero to nine items; 1 to 7 are too few for an actor and 8 is the
  first that is enough. `IntBits` holds every difference of dates, as `int` does
  on 64-bit platforms.

`CHECK_DEADLOCK FALSE` is set where the system really stops: the suite that is
done, the process that panicked, the generator at its bound. Symmetry is used
only in runs that check invariants and action properties.

### Fairness

Only `SuiteRun` has a liveness property and assumes fairness: weak fairness of
the next step. Run and the tests it calls are one goroutine that waits for nothing
but the call it makes, and the model takes for granted that a backend returns from
a call. The storage modules assume none, as nothing in them waits:
there are no locks and no retries.

## 4. What is proved

The proofs hold for any number of goroutines, IRIs, tokens, clients, keys and
cells, of objects, filters and tests asked for, of passwords and keys with
metadata, of items made. Every invariant and every action property that a
passing run checks is among the statements.

| Module | Theorem | Statement |
|---|---|---|
| `ItemStorageProofs` | `TypeCorrect`, `OwnIRI`, `EditsAreCurrent`, `Replies` | `Spec => []TypeOK`, `[]StoredUnderOwnIRI`, `[]UncontendedEditsAreCurrent`, `[]RepliesHold` |
| | `CallsAreApart` | `Spec => CallsStayApart` |
| | `OrderlyCallsKeepTheContract` | where `Orderly`, `Spec => ImplementsContract` |
| `TokenStorageProofs` | `TokenTypes`, `TokenReplies`, `References`, `LookUps` | `[]TypeOK`, and where grants are issued in pairs `[]RepliesHold`, `[]ReferencesAreLive`, `[]RefreshFindsItsGrant` |
| `ClientRegistryProofs` | `ClientTypes`, `ListingsTellTheTruth` | `[]TypeOK`, `[]ListsWhatWasStored` |
| `KeyPairsProofs` | `KeyTypes`, `Pairs`, `Comparisons` | `[]TypeOK`, `[]PairsAgree`, `[]ComparedKeysMatch` |
| `SuiteProofs` | `KeepersAlwaysPass`, `RunsCanBeRepeated` | `RunSpec => []KeepersPass`, `[]CanRunAgain` |
| | `SuiteTypes`, `TraversalsAreFull` | `[]RunTypeOK`, `[]TraversalsFillTheirPages` |
| | `RunsWhatWasAsked` | `[]RunsWhatIsAsked` |
| | `ActivityPubBreakersAreCaught`, `OAuthBreakersAreCaught`, `SecretsBreakersAreCaught` | where `Faults <= 1`, `[]ActivityPubBreakersFail`, `[]OAuthBreakersFail`, `[]SecretsBreakersFail` |
| | `OneBrokenPromiseIsNoticed` | for any `Faults`, each of these three in every state with one promise broken |
| `MetadataCodecProofs` | `SavedValues` | `ValidJSON(MarshalJSON(v))` exactly where `v` has no password or a key that can be encoded |
| | `CodecTypes`, `ValuesComeBack`, `NothingElseIsStale` | `Spec => []TypeOK`, `[]RoundTrip`, `StaleOnlyWhereEmpty` |
| `GeneratorProofs` | `GeneratorTypes`, `IRIsAreUnique`, `ActivitiesFollow` | `[]TypeOK`, `[]UniqueIRIs`, `[]ActivitiesFollowTheirObjects` |
| `PlausibleProofs` | `PlausibleTypes`, `AllThatWereAsked` | `[]TypeOK`, `[]AsManyAsAsked` |
| | `CreationsComeFirst` | where an int is `Wide` enough, `[]CreatedBeforeUsed` |

Assumptions are those the modules name: keys and values of the map are told
apart; `Named`, `Shapes`, `Fills`, `Kind` have their types; the suite has at least
one object, and a filter is a set of objects; a missing item, a value, an error
and an acceptance are told apart (as `err` and the result are in Go), and so are
types, verbs and "Unknown". `Paired` (no token and no refresh token is in two
grants) is a hypothesis of three theorems because without it they are false: the
reference of the older refresh token stays. `Orderly` is the
hypothesis of the refinement, because memStorage does what its interface asks only
for callers that

* let no two calls on one IRI overlap, else `items_lost_edit` refutes it;
* name every collection of an object when they first save it (`SaveInOrder`), else
  `items_later_save` does, and delete no collection that a stored object or a running
  Save names (`DeleteInOrder`), which a later Save would not open again, nor AddTo
  create, if it is hidden;
* add to hidden collections of stored actors only (`AddInOrder`), as there is none yet
  before their first Save;
* load no page through filters (`LoadInOrder`), which panics.

`Faults <= 1` (at most one kind of promise is broken) is needed because of what
section 3 says of two that hide each other: with `Faults = 2` and two objects TLC
finds that a Delete that leaves the object and a Load that reports it missing
pass together. `Wide` (an `int` holds every difference between the dates of two
items) is true where `int` has 64 bits, up to 292 years between them; where it has
32, items more than two seconds apart may be sorted the wrong way round.

The arguments:

* **Items.** RepliesHold is not inductive: that an AddTo leaves its items in the
  collection needs that the cell it writes to is still the stored one.
  `InductiveInvariant` adds that a running edit works on a cell with its own IRI
  (`EditsOwnCell`), and that while no other call on the IRI overlaps, that cell
  is stored, no other edit works on it, and the items it read are the ones that
  are there (`UncontendedEditsAreCurrent`). The proof goes action by action; the
  interesting cases are the Save that opens a collection, which must find the
  IRI taken, and the SaveEdited of a stale pointer, which makes an overlap.
  `CallsAreApart` needs `EditsOwnCell` and `StoredUnderOwnIRI` together: a cell that an
  edit writes to is under the edit's own IRI if it is stored at all.
* **The contract.** The contract is the one of the interface's comments and not of
  memStorage's code: a Save creates what its object names whether the object is new
  or not, unless all of it is there. That memStorage may skip this for an object
  that is stored (line 138) rests on `NamedExist`, that the collections a stored
  object names exist, and `NamedExist` on `SavesKeepUp`, that those of a running Save
  exist or are still to be opened. With `overlapped = {}`, by which every running
  edit is current, these make up `OrderlyInvariant`. Then each step maps to one of
  the contract: the write to the collection is the instant at which the edit takes
  effect, the read before it is a stutter and the Save after it the return, and
  a Save of an object makes the collections it opens appear one by one.
* **Tokens.** `OnlyGrants` says that only saved pairs are in the tables and in
  running calls, so that `Paired` identifies a grant by either token; `OneWriter`
  and `WriterIsCurrent` say that on a token that is not overlapped a running call
  is the only writer and still finds what it wrote. `CalmData` is what
  ReferencesAreLive needs beyond that, of tokens on which calls may overlap but that
  have not `raced`: a SaveAccess before its second store still finds the data it
  stored and no RemoveAccess of the token is running, and a RemoveAccess still finds
  the data it loaded, or none.
* **Clients.** What a listing has yet to visit was stored, as far as `during`
  remembers, now; what it has visited was among that then, and `during` only
  grows until the next listing begins.
* **Keys.** `SoleRotation`: a rotation that overlapped none is the only one and
  the stored private key is its own. `CalmKeyIsCurrent`: whoever loaded a key
  undisturbed holds the stored one.
* **No false alarms.** `Inv` is `broken = {} => Good`; `Good` says for each step of
  each test what an honest backend keeps by then: which objects are stored, which
  client, code and token and in whose memory, which key the actor carries. Since
  `broken` never shrinks, a step that ends with `broken = {}` began so, and was
  answered right. Paging rests on `page.after + page.left * page.size <= N`: there is
  a whole page left whenever one is asked for. Between tests `Repeatable` is part of
  `Good`, which is `CanRunAgain`.
* **Traversals, whatever the backend does.** As long as no check has failed,
  `Traversed` holds: the objects seen are among `1..after`, and there are
  `(N \div size - left) * size` of them. Each page that passes is a whole one of
  objects beyond `after`, hence of new ones; a page that the backend skips ahead to
  only moves `after` further.
* **The tests that run.** `Suite` is a recursive function of the list of tests.
  `Through` is that function over the list's first places; that it exists follows
  from the least length at which it would not. `SuiteHas` then says that the word
  has the bit of a test exactly if the test is in the list, and `RanInv` that `ran`
  is what was asked for up to `turn`.
* **No silence.** `LateInv` is the heart of it: if one promise is broken, the verdict is still `pass` and the tests check that promise, then the suite is
  at the very call that is going to see it, and what the backend keeps is wrong
  in the way that call will see (`ActivityPubLate`, `OAuthLate`, `SecretsLate`). A
  promise about an answer is noticed in the step that breaks it; one about what is
  kept, in the next Load of it, or, for the keys, up to three calls later. No `Late`
  disjunct is about the end of a test, so that whoever gets there with a broken
  promise has failed. The proof has two kinds of steps: the first breach, which
  starts in a state where `Good` still says everything about the backend (with
  `BeforeInv`, what it lacks so far), and the steps after it, which are few. A used
  storage can hide a save that stores nothing; `FreshInv` says that the OAuth tests
  begin on a fresh one at most once.
* **Metadata.** There are four documents, by whether the value has a password and
  whether it has a key that can be encoded (`IsDocument`). `SavedValues` follows from
  what they consist of; `ComesBack` says what each of them, read over any value,
  leaves there. `IInv` is that what is stored is the document of what was saved.
* **PlausibleStorage.** `Counts` gives, for each loop, how many actors, objects and
  activities there are and how many are left. The sort is a fold that the community
  modules define by sets of places; `SortSteps` shows that it inserts one item after
  the other, and `SortKeeps` that the result is as long, of the same items' kind,
  and the very same where the dates are `InOrder`. They are, as `Dated` says that
  each item is the latest so far, no later than `MaxTick` times their number.
  Go's stable sort inserts only within blocks of twenty, which it then merges; in
  the order that `DatedInOrder` finds, neither moves anything, so that
  `CreationsComeFirst` is about the one as much as the other.
* **Generator.** `Sound(g)` is about the package's variables as a value: numbers
  in use are at most the counter of their type, so that the next is unused;
  owner, type and number make the IRI; what is cached was made, no later than
  `BaseTime`. It is a lemma of `SetItemID` that it keeps `Sound`, and each function
  is a composition of SetItemID and Tick. A half-made question is dated in the past
  and takes its number last, so that it clashes with no option.
  That an activity follows its object is kept by each call of `Activity`, by where its
  object comes from: a chosen one is in the cache, which holds only what was made and
  is dated no later than `BaseTime`; a given one is root or among `made` already.

## 5. Only model-checked

* `RunReturns`: liveness under fairness is out of the prover's reach. TLC checks
  it in `suite`, for every pair of tests and every kind of backend.
* What two broken promises at once may do, beyond that they can hide each other,
  is neither proved nor checked.
* The three `violation` runs.

## 6. Not modelled

* The content map and the name tables (`gen/mock_content.go`, `gen/names`): constant
  tables, read once, from which one entry is chosen at random. Addressees, names,
  contents and media types of generated items neither.
* What a filter keeps, and how `vocab` compares items: both are code of other
  repositories. `filters` are sets of objects, comparisons are equality.
* Data races on `BaseTime` and `typeCountMap` (`gen/mock_build.go:25`): the suite
  generates in one goroutine, and nothing calls the generator from two.
* Crashes and restarts: `memStorage` persists nothing, and the suite holds nothing
  that is to survive it.

Hazards that no property covers:

* `storage_mem.go:165` (AddTo to a hidden collection that is missing), `:78` (a
  filtered Load of a page): the contract has what the interface asks, memStorage does
  otherwise at the first call, whatever came before, and the conditions of `Orderly`
  that exclude such callers say so.
* `storage_mem.go:284` (a grant saved again with another refresh token): excluded by
  `Paired`.
* `storage_mem.go:340` (secrets under IRIs that might be items): an item whose IRI
  ends in `privateKey`, `__password` or `__meta` would meet a secret; the map is
  modelled in parts, as the generator makes no such IRI.
* `storage_mem.go:375` (passwords of more than 72 bytes): a limit of the library that
  one call meets or does not.
* `activitypub_storage.go:208`: the suite skips the check on purpose, so that
  `ActivityPubBreakersFail` cannot ask for it.
* `gen/mock_build.go:666` (an `int` of 32 bits): `IntBits` and `Wide` suppose an `int`
  that holds every difference of dates; with a narrower one `CreatedBeforeUsed` is false.

## 7. Plan

Done: the item storage with its contract, the proofs of both and of the
refinement; tokens, clients and keys with proofs; the metadata format with
proofs; the whole suite, with proofs that it raises no false alarm, lets no
broken promise pass and runs what it is asked for; the generator and
PlausibleStorage with proofs.

Next, in this order:

1. What `ItemStorage` promises without `Orderly`: a weaker contract in which
   overlapping edits of one collection may lose each other's items and nothing
   else.
2. Which pairs of broken promises hide each other, and that no others do.
3. Composition of item storage and key storage: a Save of an actor beside a
   rotation publishes an old key.
