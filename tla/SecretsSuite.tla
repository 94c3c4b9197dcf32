------------------------------ MODULE SecretsSuite ------------------------------
(***************************************************************************)
(* RunKeyTests, RunPasswordTests and RunMetadataTests                      *)
(* (key_storage.go:34-147, password_storage.go:17-41,                      *)
(* metadata_storage.go:142-247) and the backends they are run on.          *)
(*                                                                         *)
(* The key tests are about the root actor, which is one value for all the  *)
(* tests of the suite, and about a new actor for each of the keys.  A key  *)
(* is the one the test saved or another one; a public key is named by the  *)
(* private key it belongs to.                                              *)
(***************************************************************************)
EXTENDS Backend

Root == 1           \* the actor that the first key is saved for
Actors == 1..8      \* that one, and one for each of the seven keys of genPrivateKeys
Values == 1..6      \* the metadata values, each of its own type

Keys == {"given", "other"}
NoKey == "no key"
NotStored == "not stored"

VARIABLES
    key,        \* backend: the private key of the present actor
    actor,      \* backend: the public key in the present actor, as it is stored
    public,     \* the public key that SaveKey answered
    private,    \* the private key that LoadKey answered
    password,   \* backend: root's password is stored
    meta        \* backend: the value stored as root's metadata, or 0

secretsVars == <<key, actor, public, private, password, meta>>

SecretsSteps == {"keys", "save key", "save actor", "load key", "load actor", "passwords",
          "set password", "check password", "metadata", "save metadata", "load metadata", "done"}

SecretsPromises ==
    {"KeyStorage", "save key", "public key", "save actor", "load key", "load actor",
     "PasswordStorage", "set password", "check password",
     "MetadataStorage", "save metadata", "load metadata", "save the same"}

SecretsTypeOK ==
    /\ {key, public, private} \subseteq Keys \cup {NoKey}
    /\ actor \in Keys \cup {NoKey, NotStored}
    /\ password \in BOOLEAN
    /\ meta \in {0} \cup Values

NewActor ==
    /\ key' = NoKey
    /\ actor' = NotStored
    /\ public' = NoKey
    /\ private' = NoKey

SecretsInit ==
    /\ key = NoKey /\ public = NoKey /\ private = NoKey
    /\ actor = NotStored
    /\ password = FALSE
    /\ meta = 0

-----------------------------------------------------------------------------
(* A save that is lost where the storage holds the very value already. *)
LostSave(promise, held) == IF held THEN "save the same" ELSE promise

(* RunKeyTests.  A storage that keeps no keys fails.  An earlier test, or an earlier run *)
(* with this key or with another, may have stored the root actor.                        *)
RunKeyTests ==
    /\ pc = "keys"
    /\ Fits("KeyStorage", "save key")
    /\ Expect(pc' # "done")
    /\ FindsWay
    /\ key' \in Keys \cup {NoKey}
    /\ actor' \in Keys \cup {NoKey, NotStored}
    /\ UNCHANGED <<at, public, private, password, meta>>

EndOfKey == Advance("save key", "done", 8) /\ NewActor

(* SaveKey.  Without it the test of the key ends, and for root all of them.  The public *)
(* key it answers is used unseen.                                                      *)
SaveKey ==
    /\ pc = "save key"
    /\ \E a \in {"ok", "forgets", "alters", "other", "nil", "error"} :
          /\ Answers(a, "ok", CASE a \in {"other", "nil"} -> "public key"
                                [] a = "forgets" -> LostSave("save key", key = "given")
                                [] OTHER -> "save key")
          /\ CASE a = "error" /\ at = Root -> pc' = "done" /\ UNCHANGED at /\ NewActor
               [] a = "error" /\ at # Root -> EndOfKey
               [] a # "error" ->
                    /\ key' = CASE a = "forgets" -> key [] a = "alters" -> "other" [] OTHER -> "given"
                    /\ public' = IF a = "other" THEN "other" ELSE "given"
                    /\ pc' = IF a = "nil" THEN "done" ELSE "save actor"
                    /\ UNCHANGED <<at, actor, private>>
          /\ IF a = "nil" THEN verdict' = "panic" ELSE Expect(~Fails(a))
    /\ UNCHANGED <<way, password, meta>>

(* The actor is given its public key and saved, whose error is discarded.  A storage *)
(* that holds the very actor has the key already.                                    *)
SaveActor ==
    /\ pc = "save actor"
    /\ LET held == actor = public \/ (way = "shares" /\ actor # NotStored)
       IN  \E saved \in BOOLEAN :
              /\ Answers(saved, TRUE, LostSave("save actor", held))
              /\ actor' = IF saved \/ held THEN public ELSE actor
    /\ pc' = "load key"
    /\ UNCHANGED <<at, verdict, way, key, public, private, password, meta>>

LoadKey ==
    /\ pc = "load key"
    /\ \E a \in Keys \cup {NoKey} :
          /\ Answers(a, key, "load key")
          /\ Expect(a = "given")
          /\ IF a = NoKey THEN EndOfKey
             ELSE private' = a /\ pc' = "load actor" /\ UNCHANGED <<at, key, actor, public>>
    /\ UNCHANGED <<way, password, meta>>

(* A slip the runs must catch: the stored key is compared with the answer of SaveKey only. *)
LoadActorTrustsAnswer ==
    /\ pc = "load actor"
    /\ \E a \in Keys \cup {NoKey, NotStored} :
          /\ Answers(a, actor, "load actor")
          /\ Expect(a = public)
    /\ EndOfKey
    /\ UNCHANGED <<way, password, meta>>

(* The public key that the actor was stored with is compared with the one of the private *)
(* key that was loaded, and root's also with the one that SaveKey answered.               *)
LoadActor ==
    /\ pc = "load actor"
    /\ \E a \in Keys \cup {NoKey, NotStored} :
          /\ Answers(a, actor, "load actor")
          /\ Expect(a = private /\ (at = Root => a = public))
    /\ EndOfKey
    /\ UNCHANGED <<way, password, meta>>

-----------------------------------------------------------------------------
(* RunPasswordTests.  The password is the same in every run of the suite. *)
RunPasswordTests ==
    /\ pc = "passwords"
    /\ Fits("PasswordStorage", "set password")
    /\ password' \in BOOLEAN
    /\ UNCHANGED <<at, verdict, way, key, actor, public, private, meta>>

PasswordSet ==
    /\ pc = "set password"
    /\ \E a \in {"ok", "forgets", "error"} :
          /\ Answers(a, "ok", LostSave("set password", password /\ a = "forgets"))
          /\ Expect(~Fails(a))
          /\ password' = (password \/ a = "ok")
          /\ pc' = IF Fails(a) THEN "done" ELSE "check password"
    /\ UNCHANGED <<at, way, key, actor, public, private, meta>>

PasswordCheck ==
    /\ pc = "check password"
    /\ \E accepted \in BOOLEAN :
          /\ Answers(accepted, password, "check password")
          /\ Expect(accepted)
    /\ pc' = "done"
    /\ UNCHANGED <<at, way, secretsVars>>

-----------------------------------------------------------------------------
(* RunMetadataTests: all the values are saved under root's IRI, one after the other, *)
(* and the last one stays for the next run.                                          *)
RunMetadataTests ==
    /\ pc = "metadata"
    /\ Fits("MetadataStorage", "save metadata")
    /\ FindsWay
    /\ meta' \in {0, 6}
    /\ UNCHANGED <<at, verdict, key, actor, public, private, password>>

SaveMetadata ==
    /\ pc = "save metadata"
    /\ \E a \in {"ok", "forgets", "error"} :
          /\ Answers(a, "ok", "save metadata")
          /\ Expect(~Fails(a))
          /\ meta' = IF a = "ok" THEN at ELSE meta
    /\ pc' = "load metadata"
    /\ UNCHANGED <<at, way, key, actor, public, private, password>>

(* The value is loaded into a variable of its type.  memStorage panics when another *)
(* type is stored: reflect does not assign it.                                      *)
LoadMetadata ==
    /\ pc = "load metadata"
    /\ LET right == CASE meta = at -> "same"
                      [] meta \notin {0, at} /\ way = "shares" -> "panic"
                      [] OTHER -> "error"
       IN  \E a \in {right, "other", "error"} :
              /\ Answers(a, right, "load metadata")
              /\ IF a = "panic" THEN verdict' = "panic" /\ pc' = "done" /\ UNCHANGED at
                 ELSE Expect(a = "same") /\ Advance("save metadata", "done", 6)
    /\ UNCHANGED <<way, secretsVars>>

SecretsNext ==
    \/ RunKeyTests \/ SaveKey \/ SaveActor \/ LoadKey \/ LoadActor
    \/ RunPasswordTests \/ PasswordSet \/ PasswordCheck
    \/ RunMetadataTests \/ SaveMetadata \/ LoadMetadata

-----------------------------------------------------------------------------
(* All that these tests are meant to notice. *)
SecretsChecked ==
    SecretsPromises \ {"save the same", "PasswordStorage", "MetadataStorage"}

(* No silence: a backend that breaks one of these promises fails, although the error of *)
(* Save is discarded, the answer of SaveKey is what actors are published with, and the   *)
(* next value is saved where the last one was (key_storage.go:97-147).                   *)
SecretsBreakersFail ==
    pc = "done" /\ broken \cap SecretsChecked # {} => verdict # "pass"
=============================================================================
