------------------------------- MODULE SuiteRun -------------------------------
(***************************************************************************)
(* Suite and TestType.Run (suite.go:5-83), and the tests it runs as        *)
(* ActivityPubSuite, OAuthSuite and SecretsSuite have them.  The tests     *)
(* asked for are bits of a word; Run opens the storage when it can be      *)
(* opened, runs the tests whose bits are set in a fixed order, each to its *)
(* end, and closes the storage on the way out.                             *)
(***************************************************************************)
EXTENDS ActivityPubSuite, OAuthSuite, SecretsSuite

CONSTANT MaxAsked   \* bound: how many tests a caller lists, repetitions included

ASSUME MaxAskedAssumption == MaxAsked \in Nat

TestActivityPub == 1
TestKey == 2
TestPassword == 4
TestMetadata == 8
TestOAuth == 16
TestNone == 0
Tests == {TestActivityPub, TestKey, TestPassword, TestMetadata, TestOAuth}

(* The order of Run. *)
Order == <<TestActivityPub, TestOAuth, TestKey, TestPassword, TestMetadata>>

VARIABLES
    asked,      \* the tests the caller lists
    storage,    \* whether it can be opened, or needs not be, and whether it has Close
    turn,       \* where Run is: opening, at a test of Order, or through
    ran,        \* history: the tests that were started
    closed      \* Close has been called

runVars == <<asked, storage, turn, ran, closed>>
testVars == <<pc, at, verdict, broken, way, activityPubVars, oauthVars, secretsVars>>
vars == <<testVars, runVars>>

Opening == 0
Returned == 6
Died == 7

RunTypeOK ==
    /\ pc \in ActivityPubSteps \cup OAuthSteps \cup SecretsSteps
    /\ at \in Nat \ {0}
    /\ verdict \in {"pass", "fail", "panic"}
    /\ broken \subseteq ActivityPubPromises \cup OAuthPromises \cup SecretsPromises
    /\ way \in Ways \cup {Unknown}
    /\ ActivityPubTypeOK
    /\ OAuthTypeOK
    /\ SecretsTypeOK
    /\ asked \in UNION {[1..n -> Tests] : n \in 0..MaxAsked}
    /\ storage \in [opens : BOOLEAN, closer : BOOLEAN]
    /\ turn \in Opening..Died
    /\ ~storage.opens => turn \in {Opening, Returned}
    /\ ran \subseteq Tests
    /\ closed \in BOOLEAN

-----------------------------------------------------------------------------
(* tt & t == t for a single bit t, and tt | t. *)
Has(tt, t) == (tt \div t) % 2 = 1
Or(tt, t) == IF Has(tt, t) THEN tt ELSE tt + t

(* A slip the runs must catch: bits are added up. *)
SuiteAdds(tests) ==
    LET sum[n \in 0..Len(tests)] == IF n = 0 THEN TestNone ELSE sum[n - 1] + tests[n]
    IN  sum[Len(tests)]

Suite(tests) ==
    LET result[n \in 0..Len(tests)] ==
            IF n = 0 THEN TestNone ELSE Or(result[n - 1], tests[n])
    IN  result[Len(tests)]

RunInit ==
    /\ pc = "done"
    /\ at = 1
    /\ verdict = "pass"
    /\ broken = {}
    /\ way = Unknown
    /\ ActivityPubInit
    /\ OAuthInit
    /\ SecretsInit
    /\ asked \in UNION {[1..n -> Tests] : n \in 0..MaxAsked}
    /\ storage \in [opens : BOOLEAN, closer : BOOLEAN]
    /\ turn = Opening
    /\ ran = {}
    /\ closed = FALSE

(* A slip the runs must catch: the error of Open is dropped. *)
OpenUnchecked ==
    /\ turn = Opening
    /\ turn' = 1
    /\ UNCHANGED <<testVars, asked, storage, ran, closed>>

(* maybeOpen: a storage that does not open is never closed and no test runs. *)
Open ==
    /\ turn = Opening
    /\ turn' = IF storage.opens THEN 1 ELSE Returned
    /\ UNCHANGED <<testVars, asked, storage, ran, closed>>

-----------------------------------------------------------------------------
AskedFor(t) == Has(Suite(asked), t)

FirstStep(t) ==
    CASE t = TestActivityPub -> "init"
      [] t = TestOAuth       -> "oauth"
      [] t = TestKey         -> "keys"
      [] t = TestPassword    -> "passwords"
      [] t = TestMetadata    -> "metadata"

StartTest ==
    /\ turn \in DOMAIN Order
    /\ pc = "done"
    /\ AskedFor(Order[turn]) /\ Order[turn] \notin ran
    /\ ran' = ran \cup {Order[turn]}
    /\ pc' = FirstStep(Order[turn]) /\ at' = 1
    /\ UNCHANGED <<verdict, broken, way, activityPubVars, oauthVars, secretsVars,
                   asked, storage, turn, closed>>

(* The calls of the test that was started, one after the other. *)
RunTest ==
    /\ \/ ActivityPubNext /\ UNCHANGED <<way, oauthVars, secretsVars>>
       \/ OAuthNext /\ UNCHANGED <<activityPubVars, secretsVars>>
       \/ SecretsNext /\ UNCHANGED <<activityPubVars, oauthVars>>
    /\ UNCHANGED runVars

(* A failed test lets the next one run; a panic ends the process.  Close is *)
(* deferred: it is called whenever Run returns.                             *)
EndTest ==
    /\ turn \in DOMAIN Order
    /\ pc = "done"
    /\ AskedFor(Order[turn]) => Order[turn] \in ran
    /\ turn' = IF verdict = "panic" THEN Died ELSE turn + 1
    /\ closed' = (storage.closer /\ turn' = Returned)
    /\ UNCHANGED <<testVars, asked, storage, ran>>

RunNext == Open \/ StartTest \/ RunTest \/ EndTest

(* Run is one goroutine, and waits for nothing but the calls it makes. *)
RunSpec == RunInit /\ [][RunNext]_vars /\ WF_vars(RunNext)

-----------------------------------------------------------------------------
Asked == {asked[n] : n \in DOMAIN asked}

(* Once Run returns from a storage that opened, the tests that ran are the ones *)
(* asked for, however often each was listed and however the others ended        *)
(* (suite.go:19-25, 48-83).                                                     *)
RunsWhatIsAsked == turn = Returned /\ storage.opens => ran = Asked

(* The OAuth tests can be repeated, and so can Run: what they leave in a storage   *)
(* that keeps its promises, and what the comparisons write into it, is what they   *)
(* are known to pass on (oauth_storage.go:62-87, 178-347).                          *)
CanRunAgain == pc = "done" /\ broken = {} /\ TestOAuth \in ran => Repeatable

(* Whatever the storage answers, and unless the process dies, Run returns, and a *)
(* storage that opened and can be closed is closed by then (suite.go:35-50).     *)
RunReturns ==
    <>(turn = Died
       \/ (turn = Returned /\ (closed \/ ~storage.closer \/ ~storage.opens)))
=============================================================================
