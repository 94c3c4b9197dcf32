------------------------------- MODULE OAuthSuite -------------------------------
(***************************************************************************)
(* RunOAuthTests (oauth_storage.go:89-355), and the backends it is run on. *)
(* The tests compare what a backend loads with the value they saved, and   *)
(* the comparisons write: they set the client of both values to nil.  So   *)
(* it matters who else holds these values.                                 *)
(*                                                                         *)
(* A client is "first", as it is saved, or "second", as it is updated. The *)
(* other fields of a value are as the caller gave them, or not.            *)
(***************************************************************************)
EXTENDS Backend

Clients == {"first", "second", "none"}
Data == [client : Clients, rest : {"given", "changed", "lost"}]
Codes == {"xx44aa1!", "yy44aa1!"}
Grants == [code : Codes, auth : Data, access : Data]

Given == [client |-> "first", rest |-> "given"]
Lost == [client |-> "none", rest |-> "lost"]
NewGrant(code) == [code |-> code, auth |-> Given, access |-> Given]

VARIABLES
    able,       \* which of the optional interfaces it has
    fresh,      \* nothing was stored when the tests began
    clients,    \* backend: the client under "test", "none" when there is none
    codes,      \* backend: the authorize data under each code
    access,     \* backend: the access data under "f00b4r"
    refresh,    \* backend: "s0fresh" leads to that access data
    mine        \* the data of the running test: a code, its authorize and access data

store == <<clients, codes, access, refresh>>
oauthVars == <<able, fresh, clients, codes, access, refresh, mine>>

(* What is stored under a key: nothing, the caller's own value, or a copy of one. *)
Nothing == [kept |-> "nothing"]
Shared == [kept |-> "shared"]
Copy(d) == [kept |-> "copy", data |-> d]
Entries(D) == {Nothing, Shared} \cup {Copy(d) : d \in D}

OAuthSteps ==
    {"oauth", "save client", "get client", "list clients", "update client", "get updated",
     "remove client", "get removed",
     "client for code", "save code", "load code", "remove code", "load removed code",
     "client for access", "code for access", "save access", "load access",
     "remove access", "load removed access",
     "client for refresh", "code for refresh", "access for refresh", "load refresh",
     "remove refresh", "load removed refresh", "done"}

OAuthPromises ==
    {"OSINStorage", "save client", "get client", "list clients", "remove client",
     "save code", "load code", "remove code", "save access", "load access", "remove access",
     "load refresh", "remove refresh", "save again", "leave data alone"}

OAuthTypeOK ==
    /\ able \subseteq {"saver", "lister"}
    /\ fresh \in BOOLEAN
    /\ clients \in Clients
    /\ codes \in [Codes -> Entries(Data)]
    /\ access \in Entries(Grants)
    /\ refresh \in BOOLEAN
    /\ mine \in Grants
    /\ way # "shares" => /\ access # Shared
                         /\ \A c \in Codes : codes[c] # Shared

OAuthInit ==
    /\ able = {}
    /\ fresh = TRUE
    /\ clients = "none"
    /\ codes = [c \in Codes |-> Nothing]
    /\ access = Nothing
    /\ refresh = FALSE
    /\ mine = NewGrant("xx44aa1!")

-----------------------------------------------------------------------------
(* What these tests leave in a storage that keeps its promises: the client, both *)
(* codes and the access data.  Where the storage shares the caller's pointers,    *)
(* the client of the code that was compared is gone.                              *)
LeftClients == IF "saver" \in able THEN "first" ELSE "none"
LeftCodes == [c \in Codes |-> IF way = "shares" /\ c = "yy44aa1!"
                              THEN Copy([Given EXCEPT !.client = "none"]) ELSE Copy(Given)]
LeftAccess == Copy(NewGrant("xx44aa1!"))

(* The storage is an OSINStorage, or the tests are skipped.  It is empty, or has been *)
(* through these tests before; whether it saves and lists clients is its own choice,  *)
(* but one that refers to clients has to be given them.                               *)
RunOAuthTests ==
    /\ pc = "oauth"
    /\ Fits("OSINStorage", "save client")
    /\ FindsWay
    /\ able' \in SUBSET {"saver", "lister"}
    /\ way' = "refers" => "saver" \in able'
    /\ fresh' \in BOOLEAN
    /\ IF fresh' THEN UNCHANGED store
       ELSE /\ clients' = LeftClients'
            /\ codes' = LeftCodes'
            /\ access' = LeftAccess'
            /\ refresh' = FALSE
    /\ UNCHANGED <<at, verdict, mine>>

-----------------------------------------------------------------------------
(* "client operations" *)

(* A failed save is reported where the code looks at the error, and is not where *)
(* it prepares a later test.                                                     *)
SaveClient(client, promise) ==
    \E a \in {"ok", "forgets", "error"} :
        /\ Answers(a, "ok", promise)
        /\ clients' = IF a = "ok" THEN client ELSE clients
        /\ Expect(promise = "save again" \/ ~Fails(a))

TestSaveClient ==
    /\ pc = "save client"
    /\ IF "saver" \in able
       THEN SaveClient("first", "save client") /\ pc' = "get client"
       ELSE pc' = "client for code" /\ UNCHANGED <<verdict, broken, clients>>
    /\ UNCHANGED <<at, way, able, fresh, codes, access, refresh, mine>>

UpdateClient ==
    /\ pc = "update client"
    /\ SaveClient("second", "save client")
    /\ pc' = "get updated"
    /\ UNCHANGED <<at, way, able, fresh, codes, access, refresh, mine>>

(* GetClient, and clientsEqual, which only reads. *)
GetClient(step, next, expected) ==
    /\ pc = step
    /\ \E a \in Clients :
          /\ Answers(a, clients, "get client")
          /\ Expect(a = expected)
    /\ pc' = next
    /\ UNCHANGED <<at, way, oauthVars>>

(* Exactly one client is expected. *)
ListClients ==
    /\ pc = "list clients"
    /\ IF "lister" \in able
       THEN \E a \in SUBSET {"first", "second"} :
               /\ Answers(a, {clients} \ {"none"}, "list clients")
               /\ Expect(a = {"first"})
       ELSE UNCHANGED <<verdict, broken>>
    /\ pc' = "update client"
    /\ UNCHANGED <<at, way, oauthVars>>

RemoveClient ==
    /\ pc = "remove client"
    /\ \E a \in {"ok", "forgets", "error"} :
          /\ Answers(a, "ok", "remove client")
          /\ clients' = IF a = "ok" THEN "none" ELSE clients
          /\ Expect(~Fails(a))
    /\ pc' = "get removed"
    /\ UNCHANGED <<at, way, able, fresh, codes, access, refresh, mine>>

-----------------------------------------------------------------------------
(* Each of the other tests makes data of its own and saves its client.  What the *)
(* storage shares with the test before stays as it is then.                      *)
Detached(entry, d) == IF entry = Shared THEN Copy(d) ELSE entry

NewTest(step, next, code) ==
    /\ pc = step
    /\ mine' = NewGrant(code)
    /\ codes' = [c \in Codes |-> Detached(codes[c], mine.auth)]
    /\ access' = Detached(access, mine)
    /\ IF "saver" \in able THEN SaveClient("first", "save again")
                           ELSE UNCHANGED <<verdict, broken, clients>>
    /\ pc' = next
    /\ UNCHANGED <<at, way, able, fresh, refresh>>

Keep(d) == IF way = "shares" THEN Shared ELSE Copy(d)
Changed(d) == [d EXCEPT !.rest = "changed"]
Others(d) == {Changed(d), [d EXCEPT !.client = "second"]}

(* A save keeps the value, or it keeps none, or another, or it changes the caller's. *)
Faulty == {"forgets", "alters", "scribbles", "error"}
Blame(a, promise) == IF a = "scribbles" THEN "leave data alone" ELSE promise

SaveAuthorize(step, next, promise) ==
    /\ pc = step
    /\ \E a \in {"keeps"} \cup Faulty :
          LET auth == IF a = "scribbles" THEN Changed(mine.auth) ELSE mine.auth
              entry == IF a = "alters" THEN Copy(Changed(auth)) ELSE Keep(auth)
          IN  /\ Answers(a, "keeps", Blame(a, promise))
              /\ mine' = [mine EXCEPT !.auth = auth]
              /\ codes' = IF a \in {"forgets", "error"} THEN codes
                          ELSE [codes EXCEPT ![mine.code] = entry]
              /\ Expect(promise = "save again" \/ ~Fails(a))
    /\ pc' = next
    /\ UNCHANGED <<at, way, able, fresh, clients, access, refresh>>

(* The access data may also be kept without its refresh token, which the test of *)
(* the access token does not ask for.                                            *)
SaveAccess(step, next, outcomes, heard) ==
    /\ pc = step
    /\ \E a \in {"keeps"} \cup outcomes :
          LET grant == IF a = "scribbles" THEN [mine EXCEPT !.access = Changed(@)] ELSE mine
              entry == IF a = "alters" THEN Copy([grant EXCEPT !.access = Changed(@)])
                       ELSE Keep(grant)
          IN  /\ Answers(a, "keeps", Blame(a, "save access"))
              /\ mine' = grant
              /\ access' = IF a \in {"forgets", "error"} THEN access ELSE entry
              /\ refresh' = (refresh \/ a \notin {"forgets", "error", "no refresh"})
              /\ Expect(heard => ~Fails(a))
    /\ pc' = next
    /\ UNCHANGED <<at, way, able, fresh, clients, codes>>

-----------------------------------------------------------------------------
(* What a load answers when the backend does as it should. *)
NotFound == [found |-> FALSE]
Found(d) == [found |-> TRUE, data |-> d]

Referred(d) == IF way = "refers" THEN [d EXCEPT !.client = clients] ELSE d

LoadedCode(code) ==
    CASE codes[code].kept = "nothing" -> NotFound
      [] codes[code].kept = "shared"  -> Found(mine.auth)
      [] codes[code].kept = "copy"    -> Found(Referred(codes[code].data))

(* Authorize data that is referred to and is not there is nil. *)
LoadedGrant(g) ==
    IF way # "refers" THEN g
    ELSE [code   |-> g.code,
          auth   |-> IF LoadedCode(g.code).found THEN LoadedCode(g.code).data ELSE Lost,
          access |-> Referred(g.access)]

LoadedAccess ==
    CASE access.kept = "nothing" -> NotFound
      [] access.kept = "shared"  -> Found(mine)
      [] access.kept = "copy"    -> Found(LoadedGrant(access.data))

LoadedRefresh == IF refresh THEN LoadedAccess ELSE NotFound

(* authorizeDataEqual and accessDataEqual: the answer, and what becomes of the first *)
(* of the two values.  Clients are set to nil where they were found equal.           *)
Stripped(d, e) == IF d.client = e.client THEN [d EXCEPT !.client = "none"] ELSE d

StrippedGrant(g, h) ==
    IF g.access.client # h.access.client THEN g
    ELSE [g EXCEPT !.auth = Stripped(@, h.auth),
                   !.access = IF g.auth = h.auth THEN Stripped(@, h.access) ELSE @]

(* A slip the runs must catch: only the clients and the authorize data are compared. *)
AccessDataEqualNearly(g, h) == g.access.client = h.access.client /\ g.auth = h.auth

AccessDataEqual(g, h) == g.access = h.access /\ g.auth = h.auth

LoadAuthorize ==
    /\ pc = "load code"
    /\ LET right == LoadedCode(mine.code)
       IN  \E a \in {right, NotFound} \cup {Found(d) : d \in Others(mine.auth)} :
              /\ Answers(a, right, "load code")
              /\ Expect(a.found /\ a.data = mine.auth)
              /\ mine' = IF a.found THEN [mine EXCEPT !.auth = Stripped(@, a.data)] ELSE mine
              /\ codes' = IF way = "owns" /\ a.found /\ a = right
                          THEN [codes EXCEPT ![mine.code] = Copy(Stripped(a.data, mine.auth))]
                          ELSE codes
    /\ pc' = "remove code"
    /\ UNCHANGED <<at, way, able, fresh, clients, access, refresh>>

OtherGrants == {Found([mine EXCEPT !.auth = d]) : d \in Others(mine.auth)}
               \cup {Found([mine EXCEPT !.access = d]) : d \in Others(mine.access)}

LoadAccess ==
    /\ pc = "load access"
    /\ \E a \in {LoadedAccess, NotFound} \cup OtherGrants :
          /\ Answers(a, LoadedAccess, "load access")
          /\ Expect(a.found /\ AccessDataEqual(mine, a.data))
          /\ mine' = IF a.found THEN StrippedGrant(mine, a.data) ELSE mine
          /\ access' = IF way = "owns" /\ a.found /\ a = LoadedAccess
                       THEN Copy(StrippedGrant(a.data, mine)) ELSE access
    /\ pc' = "remove access"
    /\ UNCHANGED <<at, way, able, fresh, clients, codes, refresh>>

(* A slip the runs must catch: the data is compared as in the test before. *)
LoadRefreshStrips ==
    /\ pc = "load refresh"
    /\ \E a \in {LoadedRefresh, NotFound} \cup OtherGrants :
          /\ Answers(a, LoadedRefresh, "load refresh")
          /\ Expect(a.found /\ AccessDataEqual(mine, a.data))
          /\ mine' = IF a.found THEN StrippedGrant(mine, a.data) ELSE mine
    /\ pc' = "remove refresh"
    /\ UNCHANGED <<at, way, able, fresh, store>>

(* Here the comparison is cmp.Equal, which only reads. *)
LoadRefresh ==
    /\ pc = "load refresh"
    /\ \E a \in {LoadedRefresh, NotFound} \cup OtherGrants :
          /\ Answers(a, LoadedRefresh, "load refresh")
          /\ Expect(a.found /\ a.data = mine)
    /\ pc' = "remove refresh"
    /\ UNCHANGED <<at, way, oauthVars>>

-----------------------------------------------------------------------------
Removal(promise) ==
    \E a \in {"ok", "forgets", "error"} :
        /\ Answers(a, "ok", promise)
        /\ Expect(~Fails(a))
        /\ codes' = IF a = "ok" /\ promise = "remove code"
                    THEN [codes EXCEPT ![mine.code] = Nothing] ELSE codes
        /\ access' = IF a = "ok" /\ promise = "remove access" THEN Nothing ELSE access
        /\ refresh' = IF a = "ok" /\ promise \in {"remove access", "remove refresh"}
                      THEN FALSE ELSE refresh

Remove(step, next) ==
    /\ pc = step
    /\ Removal(step)
    /\ pc' = next
    /\ UNCHANGED <<at, way, able, fresh, clients, mine>>

(* NotFound is expected, and nothing with it. *)
LoadAfterRemove(step, next, right, promise) ==
    /\ pc = step
    /\ \E found \in BOOLEAN :
          /\ Answers(found, right.found, promise)
          /\ Expect(~found)
    /\ pc' = next
    /\ UNCHANGED <<at, way, oauthVars>>

OAuthNext ==
    \/ RunOAuthTests
    \/ TestSaveClient \/ ListClients \/ UpdateClient \/ RemoveClient
    \/ GetClient("get client", "list clients", "first")
    \/ GetClient("get updated", "remove client", "second")
    \/ GetClient("get removed", "client for code", "none")
    \/ NewTest("client for code", "save code", "xx44aa1!")
    \/ SaveAuthorize("save code", "load code", "save code")
    \/ LoadAuthorize
    \/ Remove("remove code", "load removed code")
    \/ LoadAfterRemove("load removed code", "client for access", LoadedCode(mine.code), "load code")
    \/ NewTest("client for access", "code for access", "yy44aa1!")
    \/ SaveAuthorize("code for access", "save access", "save again")
    \/ SaveAccess("save access", "load access", Faulty, TRUE)
    \/ LoadAccess
    \/ Remove("remove access", "load removed access")
    \/ LoadAfterRemove("load removed access", "client for refresh", LoadedAccess, "load access")
    \/ NewTest("client for refresh", "code for refresh", "xx44aa1!")
    \/ SaveAuthorize("code for refresh", "access for refresh", "save again")
    \/ SaveAccess("access for refresh", "load refresh", Faulty \cup {"no refresh"}, FALSE)
    \/ LoadRefresh
    \/ Remove("remove refresh", "load removed refresh")
    \/ LoadAfterRemove("load removed refresh", "done", LoadedRefresh, "load refresh")

-----------------------------------------------------------------------------
(* All that the tests are meant to notice: not a save whose error is discarded, and *)
(* not what a backend does to the values it is given, which the tests then compare   *)
(* with themselves.                                                                  *)
OAuthChecked == OAuthPromises \ {"OSINStorage", "save again", "leave data alone"}

(* No silence on an empty storage, however it keeps its data: although half of the   *)
(* comparisons compare a value with itself where pointers are shared, a backend that *)
(* breaks one of these promises fails (oauth_storage.go:95-347).                      *)
OAuthBreakersFail ==
    pc = "done" /\ fresh /\ broken \cap OAuthChecked # {} => verdict # "pass"

(* The tests can be repeated: what they leave in a storage that keeps its promises,  *)
(* and what the comparisons write into it, is what they are known to pass on          *)
(* (oauth_storage.go:62-87, 178-347).                                                 *)
Repeatable ==
    /\ clients = LeftClients
    /\ [c \in Codes |-> Detached(codes[c], mine.auth)] = LeftCodes
    /\ Detached(access, mine) = LeftAccess
    /\ ~refresh
=============================================================================
