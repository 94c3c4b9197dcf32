----------------------------- MODULE MetadataCodec -----------------------------
(***************************************************************************)
(* PassAndKeyMetadata and its JSON form (metadata_storage.go:27-118), as a *)
(* backend that keeps metadata as documents uses it: json.Marshal on       *)
(* saving, json.Unmarshal into the caller's value on loading.              *)
(*                                                                         *)
(* A document is the sequence of its braces, members and commas; a key is  *)
(* written as a PEM block in the format its Go type is marshalled to.      *)
(***************************************************************************)
EXTENDS Integers, Sequences

CONSTANTS
    Passwords,  \* the passwords that are not empty
    Garbled,    \* a password that is not valid UTF-8
    Replaced,   \* what json.Marshal writes for it, with U+FFFD in it
    Keys,       \* private keys
    Kind        \* Kind[k]: the Go type of the key

NoPassword == "no password"
NoKey == "no key"
Absent == <<>>

Supported == {"ecdsa", "rsa", "ed25519"}

ASSUME MetadataAssumption ==
    /\ {Garbled, Replaced} \subseteq Passwords
    /\ Kind \in [Keys -> Supported \cup {"dsa", "other"}]

VARIABLES
    doc,        \* the stored document, or Absent
    saved,      \* history: the value the document was made of
    into,       \* the value the last load went into
    outcome     \* how the last call ended

vars == <<doc, saved, into, outcome>>

Values == [pw : Passwords \cup {NoPassword}, key : Keys \cup {NoKey}]
Zero == [pw |-> NoPassword, key |-> NoKey]

-----------------------------------------------------------------------------
(* encPrv: the format of the block depends on the type of the key.  x509 does not *)
(* marshal DSA keys, and keys of another type are refused.                        *)
Format(k) ==
    CASE Kind[k] = "ecdsa"   -> "EC"
      [] Kind[k] = "rsa"     -> "PKCS1"
      [] Kind[k] = "ed25519" -> "PKCS8"
      [] OTHER               -> "error"

(* A slip the runs must catch: EC keys are written and never read. *)
DecPrvTwoFormats(block) ==
    IF block.format \in {"PKCS8", "PKCS1"} THEN block.key ELSE NoKey

(* decPrv: one format is tried after the other. *)
DecPrv(block) ==
    IF block.format \in {"PKCS8", "PKCS1", "EC"} THEN block.key ELSE NoKey

(* json.Marshal of a string. *)
Utf8(pw) == IF pw = Garbled THEN Replaced ELSE pw

Member(name, value) == [name |-> name, value |-> value]
Mark(name) == [name |-> name, value |-> NoKey]
IsMember(token) == token.name \in {"pw", "key"}

(* MarshalJSON: the comma goes with the password, whether a key follows or not, and *)
(* a key that cannot be encoded is left out without an error.                       *)
MarshalJSON(v) ==
    <<Mark("{")>>
    \o (IF v.pw = NoPassword THEN <<>> ELSE <<Member("pw", Utf8(v.pw)), Mark(",")>>)
    \o (IF v.key = NoKey \/ Format(v.key) = "error" THEN <<>>
        ELSE <<Member("key", [format |-> Format(v.key), key |-> v.key])>>)
    \o <<Mark("}")>>

(* What json.Marshal accepts of a Marshaler: members with a comma between them. *)
ValidJSON(d) ==
    LET body == SubSeq(d, 2, Len(d) - 1)
    IN  /\ body # <<>> => Len(body) % 2 = 1
        /\ \A i \in DOMAIN body : IF i % 2 = 1 THEN IsMember(body[i]) ELSE body[i].name = ","

Has(d, name) == \E i \in DOMAIN d : d[i].name = name
Get(d, name) == d[CHOOSE i \in DOMAIN d : d[i].name = name].value

(* A slip the runs must catch: without a password the key is not looked at. *)
UnmarshalJSONEarly(d, v) ==
    IF ~Has(d, "pw") THEN v
    ELSE [pw  |-> Get(d, "pw"),
          key |-> IF Has(d, "key") THEN DecPrv(Get(d, "key")) ELSE v.key]

(* Another: a field that has a value keeps it. *)
UnmarshalJSONOnce(d, v) ==
    [pw  |-> IF Has(d, "pw") /\ v.pw = NoPassword THEN Get(d, "pw") ELSE v.pw,
     key |-> IF Has(d, "key") /\ v.key = NoKey THEN DecPrv(Get(d, "key")) ELSE v.key]

(* UnmarshalJSON: what the document does not name stays as it is in the target. *)
UnmarshalJSON(d, v) ==
    [pw  |-> IF Has(d, "pw") THEN Get(d, "pw") ELSE v.pw,
     key |-> IF Has(d, "key") /\ DecPrv(Get(d, "key")) # NoKey
             THEN DecPrv(Get(d, "key")) ELSE v.key]

(* The error of UnmarshalJSON: the password is set by then. *)
Undecodable(d) == Has(d, "key") /\ DecPrv(Get(d, "key")) = NoKey

-----------------------------------------------------------------------------
Init ==
    /\ doc = Absent
    /\ saved = Zero
    /\ into = Zero
    /\ outcome = "none"

SaveMetadata(v) ==
    /\ IF ValidJSON(MarshalJSON(v))
       THEN doc' = MarshalJSON(v) /\ saved' = v /\ outcome' = "saved"
       ELSE UNCHANGED <<doc, saved>> /\ outcome' = "not saved"
    /\ UNCHANGED into

(* Into a new value, or into the one the last load went into. *)
LoadMetadata(fresh) ==
    /\ doc # Absent
    /\ into' = UnmarshalJSON(doc, IF fresh THEN Zero ELSE into)
    /\ outcome' = CASE Undecodable(doc) -> "not loaded"
                    [] ~Undecodable(doc) /\ fresh -> "loaded"
                    [] OTHER -> "loaded over"
    /\ UNCHANGED <<doc, saved>>

Next ==
    \/ \E v \in Values : SaveMetadata(v)
    \/ \E fresh \in BOOLEAN : LoadMetadata(fresh)

Spec == Init /\ [][Next]_vars

-----------------------------------------------------------------------------
(* Besides the types: what is stored is JSON, and its key can be decoded. *)
TypeOK ==
    /\ doc # Absent => ValidJSON(doc) /\ ~Undecodable(doc)
    /\ saved \in Values
    /\ into \in Values
    /\ outcome \in {"none", "saved", "not saved", "loaded", "loaded over", "not loaded"}

(* A password in UTF-8 and a key of a supported type come back as they were saved *)
(* (metadata_storage.go:79-118), whatever was saved and loaded before.            *)
RoundTrip ==
    outcome = "loaded" /\ saved.pw # Garbled
      /\ (saved.key = NoKey \/ Kind[saved.key] \in Supported) => into = saved

(* A load over an older value leaves nothing of that one, but where the saved value *)
(* is empty: absent members are not reset.                                          *)
StaleOnlyWhereEmpty ==
    [][outcome' = "loaded over" =>
         /\ into'.pw # Utf8(saved.pw) => saved.pw = NoPassword /\ into'.pw = into.pw
         /\ into'.key # saved.key =>
              /\ saved.key = NoKey \/ Kind[saved.key] \notin Supported
              /\ into'.key = into.key]_vars

(* "unable to save Metadata" (metadata_storage.go:155): saving does not fail. *)
EverythingIsSaved == outcome # "not saved"

=============================================================================
