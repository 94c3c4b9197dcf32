-------------------------- MODULE MetadataCodecProofs --------------------------
(***************************************************************************)
(* Proofs about MetadataCodec, for any passwords and keys of any kind: what*)
(* the documents look like, which values have one, and what comes back     *)
(* from it.                                                                *)
(***************************************************************************)
EXTENDS MetadataCodec, SequenceTheorems, TLAPS

HasPassword(v) == v.pw # NoPassword
HasKey(v) == v.key # NoKey /\ Format(v.key) # "error"

Open == Mark("{")
Comma == Mark(",")
Close == Mark("}")
PasswordOf(v) == Member("pw", Utf8(v.pw))
KeyOf(v) == Member("key", [format |-> Format(v.key), key |-> v.key])

LEMMA Names ==
  \A v : /\ Open.name = "{" /\ Comma.name = "," /\ Close.name = "}"
        /\ PasswordOf(v).name = "pw" /\ KeyOf(v).name = "key"
        /\ PasswordOf(v).value = Utf8(v.pw)
        /\ KeyOf(v).value = [format |-> Format(v.key), key |-> v.key]
  BY DEF Open, Comma, Close, PasswordOf, KeyOf, Mark, Member

(* The four documents there are, token by token. *)
Tokens(v) == {Open, Comma, Close, PasswordOf(v), KeyOf(v)}

IsDocument(d, v) ==
    /\ d \in Seq(Tokens(v))
    /\ d[1] = Open
    /\ HasPassword(v) /\ HasKey(v) =>
         Len(d) = 5 /\ d[2] = PasswordOf(v) /\ d[3] = Comma /\ d[4] = KeyOf(v) /\ d[5] = Close
    /\ HasPassword(v) /\ ~HasKey(v) =>
         Len(d) = 4 /\ d[2] = PasswordOf(v) /\ d[3] = Comma /\ d[4] = Close
    /\ ~HasPassword(v) /\ HasKey(v) => Len(d) = 3 /\ d[2] = KeyOf(v) /\ d[3] = Close
    /\ ~HasPassword(v) /\ ~HasKey(v) => Len(d) = 2 /\ d[2] = Close

LEMMA Documents ==
  ASSUME NEW v
  PROVE  IsDocument(MarshalJSON(v), v)
  <1> DEFINE S == Tokens(v)
             p == IF HasPassword(v) THEN <<PasswordOf(v), Comma>> ELSE <<>>
             k == IF HasKey(v) THEN <<KeyOf(v)>> ELSE <<>>
             s1 == <<Open>> \o p
             s2 == s1 \o k
             d == s2 \o <<Close>>
  <1>1. d = MarshalJSON(v)
    BY DEF MarshalJSON, HasPassword, HasKey, Open, Comma, Close, PasswordOf, KeyOf
  <1>2. /\ <<Open>> \in Seq(S) /\ Len(<<Open>>) = 1 /\ <<Open>>[1] = Open
        /\ <<Close>> \in Seq(S) /\ Len(<<Close>>) = 1 /\ <<Close>>[1] = Close
    BY DEF Tokens
  <1>3. /\ p \in Seq(S)
        /\ HasPassword(v) => Len(p) = 2 /\ p[1] = PasswordOf(v) /\ p[2] = Comma
        /\ ~HasPassword(v) => Len(p) = 0
    <2>1. CASE HasPassword(v)
      <3>1. p = <<PasswordOf(v), Comma>>
        BY <2>1
      <3> HIDE DEF p
      <3> QED BY <2>1, <3>1 DEF Tokens
    <2>2. CASE ~HasPassword(v)
      <3>1. p = <<>>
        BY <2>2
      <3> HIDE DEF p
      <3> QED BY <2>2, <3>1
    <2> QED BY <2>1, <2>2
  <1>4. /\ k \in Seq(S)
        /\ HasKey(v) => Len(k) = 1 /\ k[1] = KeyOf(v)
        /\ ~HasKey(v) => Len(k) = 0
    <2>1. CASE HasKey(v)
      <3>1. k = <<KeyOf(v)>>
        BY <2>1
      <3> HIDE DEF k
      <3> QED BY <2>1, <3>1 DEF Tokens
    <2>2. CASE ~HasKey(v)
      <3>1. k = <<>>
        BY <2>2
      <3> HIDE DEF k
      <3> QED BY <2>2, <3>1
    <2> QED BY <2>1, <2>2
  <1> HIDE DEF S, p, k
  <1>5. /\ s1 \in Seq(S) /\ Len(s1) = 1 + Len(p) /\ s1[1] = Open
        /\ \A i \in 1..Len(p) : s1[1 + i] = p[i]
    <2>1. /\ s1 \in Seq(S) /\ Len(s1) = Len(<<Open>>) + Len(p)
          /\ \A i \in 1..(Len(<<Open>>) + Len(p)) :
               s1[i] = IF i <= Len(<<Open>>) THEN <<Open>>[i] ELSE p[i - Len(<<Open>>)]
      BY <1>2, <1>3, ConcatProperties
    <2>2. Len(p) \in Nat
      BY <1>3
    <2> HIDE DEF s1
    <2> QED BY <1>2, <2>1, <2>2
  <1> HIDE DEF s1
  <1>6. /\ s2 \in Seq(S) /\ Len(s2) = Len(s1) + Len(k)
        /\ \A i \in 1..Len(s1) : s2[i] = s1[i]
        /\ \A i \in 1..Len(k) : s2[Len(s1) + i] = k[i]
    <2>1. /\ s2 \in Seq(S) /\ Len(s2) = Len(s1) + Len(k)
          /\ \A i \in 1..(Len(s1) + Len(k)) :
               s2[i] = IF i <= Len(s1) THEN s1[i] ELSE k[i - Len(s1)]
      BY <1>4, <1>5, ConcatProperties
    <2>2. Len(s1) \in Nat /\ Len(k) \in Nat
      BY <1>4, <1>5
    <2> HIDE DEF s2
    <2> QED BY <2>1, <2>2
  <1> HIDE DEF s2
  <1>7. /\ d \in Seq(S) /\ Len(d) = Len(s2) + 1 /\ d[Len(s2) + 1] = Close
        /\ \A i \in 1..Len(s2) : d[i] = s2[i]
    BY <1>2, <1>6, ConcatProperties
  <1> HIDE DEF d
  <1>a. CASE HasPassword(v)
    <2>1. Len(p) = 2 /\ p[1] = PasswordOf(v) /\ p[2] = Comma
      BY <1>3, <1>a
    <2>2. Len(s1) = 3 /\ s1[1] = Open /\ s1[2] = PasswordOf(v) /\ s1[3] = Comma
      BY <1>5, <2>1
    <2>3. CASE HasKey(v)
      <3>1. Len(k) = 1 /\ k[1] = KeyOf(v)
        BY <1>4, <2>3
      <3>2. /\ Len(s2) = 4 /\ s2[1] = Open /\ s2[2] = PasswordOf(v) /\ s2[3] = Comma
            /\ s2[4] = KeyOf(v)
        BY <1>6, <2>2, <3>1
      <3>3. /\ Len(d) = 5 /\ d[1] = Open /\ d[2] = PasswordOf(v) /\ d[3] = Comma
            /\ d[4] = KeyOf(v) /\ d[5] = Close
        BY <1>7, <3>2
      <3> QED BY <1>1, <1>a, <1>7, <2>3, <3>3 DEF IsDocument, S
    <2>4. CASE ~HasKey(v)
      <3>1. Len(k) = 0
        BY <1>4, <2>4
      <3>2. Len(s2) = 3 /\ s2[1] = Open /\ s2[2] = PasswordOf(v) /\ s2[3] = Comma
        BY <1>6, <2>2, <3>1
      <3>3. /\ Len(d) = 4 /\ d[1] = Open /\ d[2] = PasswordOf(v) /\ d[3] = Comma
            /\ d[4] = Close
        BY <1>7, <3>2
      <3> QED BY <1>1, <1>a, <1>7, <2>4, <3>3 DEF IsDocument, S
    <2> QED BY <2>3, <2>4
  <1>b. CASE ~HasPassword(v)
    <2>1. Len(p) = 0 /\ Len(s1) = 1 /\ s1[1] = Open
      BY <1>3, <1>5, <1>b
    <2>3. CASE HasKey(v)
      <3>1. Len(k) = 1 /\ k[1] = KeyOf(v)
        BY <1>4, <2>3
      <3>2. Len(s2) = 2 /\ s2[1] = Open /\ s2[2] = KeyOf(v)
        BY <1>6, <2>1, <3>1
      <3>3. Len(d) = 3 /\ d[1] = Open /\ d[2] = KeyOf(v) /\ d[3] = Close
        BY <1>7, <3>2
      <3> QED BY <1>1, <1>b, <1>7, <2>3, <3>3 DEF IsDocument, S
    <2>4. CASE ~HasKey(v)
      <3>1. Len(k) = 0
        BY <1>4, <2>4
      <3>2. Len(s2) = 1 /\ s2[1] = Open
        BY <1>6, <2>1, <3>1
      <3>3. Len(d) = 2 /\ d[1] = Open /\ d[2] = Close
        BY <1>7, <3>2
      <3> QED BY <1>1, <1>b, <1>7, <2>4, <3>3 DEF IsDocument, S
    <2> QED BY <2>3, <2>4
  <1> QED BY <1>1, <1>a, <1>b

(* What a document names. *)
LEMMA Named ==
  ASSUME NEW v
  PROVE  /\ Has(MarshalJSON(v), "pw") <=> HasPassword(v)
         /\ HasPassword(v) => Get(MarshalJSON(v), "pw") = Utf8(v.pw)
         /\ Has(MarshalJSON(v), "key") <=> HasKey(v)
         /\ HasKey(v) => Get(MarshalJSON(v), "key") = [format |-> Format(v.key), key |-> v.key]
  <1> DEFINE d == MarshalJSON(v)
             place == IF HasPassword(v) THEN 4 ELSE 2
  <1>1. IsDocument(d, v)
    BY Documents
  <1> HIDE DEF d
  <1>2. DOMAIN d = 1..Len(d) /\ Len(d) \in Nat
    BY <1>1 DEF IsDocument
  <1>n. /\ Open.name = "{" /\ Comma.name = "," /\ Close.name = "}"
        /\ PasswordOf(v).name = "pw" /\ KeyOf(v).name = "key"
    BY Names
  <1>3. /\ HasPassword(v) => 2 \in DOMAIN d /\ d[2] = PasswordOf(v)
        /\ \A i \in DOMAIN d : d[i].name = "pw" <=> HasPassword(v) /\ i = 2
    <2>1. \A i \in DOMAIN d : \/ i = 1 /\ d[i] = Open
                              \/ i = 2 /\ HasPassword(v) /\ d[i] = PasswordOf(v)
                              \/ i # 2 /\ d[i] \in {Comma, KeyOf(v), Close}
                              \/ ~HasPassword(v) /\ d[i] \in {KeyOf(v), Close}
      BY <1>1, <1>2 DEF IsDocument
    <2>2. HasPassword(v) => 2 \in DOMAIN d /\ d[2] = PasswordOf(v)
      BY <1>1, <1>2 DEF IsDocument
    <2> QED BY <1>n, <2>1, <2>2
  <1>4. /\ HasKey(v) => place \in DOMAIN d /\ d[place] = KeyOf(v)
        /\ \A i \in DOMAIN d : d[i].name = "key" <=> HasKey(v) /\ i = place
    <2>1. \A i \in DOMAIN d : \/ i # place /\ d[i] \in {Open, PasswordOf(v), Comma, Close}
                              \/ i = place /\ HasKey(v) /\ d[i] = KeyOf(v)
                              \/ i = place /\ ~HasKey(v) /\ d[i] = Close
      BY <1>1, <1>2 DEF IsDocument
    <2>2. HasKey(v) => place \in DOMAIN d /\ d[place] = KeyOf(v)
      BY <1>1, <1>2 DEF IsDocument
    <2> HIDE DEF place
    <2> QED BY <1>n, <2>1, <2>2
  <1> HIDE DEF place
  <1>5. (Has(d, "pw") <=> HasPassword(v)) /\ (Has(d, "key") <=> HasKey(v))
    BY <1>3, <1>4 DEF Has
  <1>6. HasPassword(v) => Get(d, "pw") = PasswordOf(v).value
    <2> SUFFICES ASSUME HasPassword(v) PROVE Get(d, "pw") = PasswordOf(v).value
      OBVIOUS
    <2>1. (CHOOSE i \in DOMAIN d : d[i].name = "pw") = 2
      BY <1>3
    <2> QED BY <1>3, <2>1 DEF Get
  <1>7. HasKey(v) => Get(d, "key") = KeyOf(v).value
    <2> SUFFICES ASSUME HasKey(v) PROVE Get(d, "key") = KeyOf(v).value
      OBVIOUS
    <2>1. (CHOOSE i \in DOMAIN d : d[i].name = "key") = place
      BY <1>4
    <2> QED BY <1>4, <2>1 DEF Get
  <1> QED BY <1>5, <1>6, <1>7, Names DEF d

(* Every key that is written can be read. *)
LEMMA KeysAreRead ==
  ASSUME NEW v, HasKey(v)
  PROVE  DecPrv([format |-> Format(v.key), key |-> v.key]) = v.key /\ v.key # NoKey
  BY DEF HasKey, Format, DecPrv

(* What comes back from the document of a value, and over what was in the target before. *)
LEMMA ComesBack ==
  ASSUME NEW v, NEW w
  PROVE  /\ ~Undecodable(MarshalJSON(v))
         /\ UnmarshalJSON(MarshalJSON(v), w) =
              [pw  |-> IF HasPassword(v) THEN Utf8(v.pw) ELSE w.pw,
               key |-> IF HasKey(v) THEN v.key ELSE w.key]
  BY Named, KeysAreRead DEF Undecodable, UnmarshalJSON

(* A value has a document that is JSON exactly when no comma is left over: it has no *)
(* password, or a key that can be encoded (metadata_storage.go:79-93).               *)
THEOREM SavedValues ==
  ASSUME NEW v
  PROVE  ValidJSON(MarshalJSON(v)) <=> ~HasPassword(v) \/ HasKey(v)
  <1> DEFINE d == MarshalJSON(v)
             S == Tokens(v)
             body == SubSeq(d, 2, Len(d) - 1)
  <1>1. IsDocument(d, v)
    BY Documents
  <1> HIDE DEF d
  <1>2. /\ d \in Seq(S) /\ Len(d) \in Nat /\ \A i \in 2..(Len(d) - 1) : d[i] \in S
        /\ Len(d) >= 2
    BY <1>1 DEF IsDocument
  <1> HIDE DEF S
  <1>3. /\ body \in Seq(S) /\ Len(body) = Len(d) - 2
        /\ \A i \in 1..(Len(d) - 2) : body[i] = d[i + 1]
    <2>1. /\ body \in Seq(S)
          /\ Len(body) = IF 2 <= Len(d) - 1 THEN Len(d) - 1 - 2 + 1 ELSE 0
          /\ \A i \in 1..(Len(d) - 1 - 2 + 1) : body[i] = d[2 + i - 1]
      BY <1>2, SubSeqProperties
    <2> HIDE DEF body
    <2>2. Len(body) = Len(d) - 2
      <3>1. \A n \in Nat : n >= 2 => (IF 2 <= n - 1 THEN n - 1 - 2 + 1 ELSE 0) = n - 2
        OBVIOUS
      <3>2. Len(d) \in Nat /\ Len(d) >= 2
        BY <1>2
      <3> QED BY <2>1, <3>1, <3>2
    <2>3. Len(d) - 1 - 2 + 1 = Len(d) - 2 /\ \A i \in 1..(Len(d) - 2) : 2 + i - 1 = i + 1
      BY <1>2
    <2>4. \A i \in 1..(Len(d) - 2) : body[i] = d[i + 1]
      BY <2>1, <2>3
    <2> QED BY <2>1, <2>2, <2>4
  <1> HIDE DEF body
  <1>4. DOMAIN body = 1..Len(body) /\ (body = <<>> <=> Len(body) = 0)
    BY <1>2, <1>3, EmptySeq
  <1>5. ValidJSON(d) <=> /\ Len(body) # 0 => Len(body) % 2 = 1
                         /\ \A i \in 1..Len(body) : IF i % 2 = 1 THEN IsMember(body[i])
                                                     ELSE body[i].name = ","
    BY <1>4 DEF ValidJSON, body
  <1>n. /\ Comma.name = "," /\ IsMember(PasswordOf(v)) /\ IsMember(KeyOf(v))
    BY Names DEF IsMember
  <1>6. CASE HasPassword(v) /\ HasKey(v)
    <2>1. /\ Len(body) = 3 /\ body[1] = PasswordOf(v) /\ body[2] = Comma /\ body[3] = KeyOf(v)
      BY <1>1, <1>3, <1>6 DEF IsDocument
    <2>2. 3 % 2 = 1 /\ 1..3 = {1, 2, 3} /\ 1 % 2 = 1 /\ 2 % 2 = 0
      OBVIOUS
    <2>3. ValidJSON(d)
      BY <1>5, <1>n, <2>1, <2>2
    <2> QED BY <1>6, <2>3 DEF d
  <1>7. CASE HasPassword(v) /\ ~HasKey(v)
    <2>1. Len(body) = 2
      BY <1>1, <1>3, <1>7 DEF IsDocument
    <2> QED BY <1>5, <1>7, <2>1 DEF d
  <1>8. CASE ~HasPassword(v) /\ HasKey(v)
    <2>1. Len(body) = 1 /\ body[1] = KeyOf(v)
      BY <1>1, <1>3, <1>8 DEF IsDocument
    <2>2. 1 % 2 = 1 /\ 1..1 = {1}
      OBVIOUS
    <2>3. ValidJSON(d)
      BY <1>5, <1>n, <2>1, <2>2
    <2> QED BY <1>8, <2>3 DEF d
  <1>9. CASE ~HasPassword(v) /\ ~HasKey(v)
    <2>1. Len(body) = 0
      BY <1>1, <1>3, <1>9 DEF IsDocument
    <2> QED BY <1>5, <1>9, <2>1 DEF d
  <1> QED BY <1>6, <1>7, <1>8, <1>9 DEF d

-----------------------------------------------------------------------------
(* The document is that of the value that was saved last, and what was loaded into a *)
(* new value is what it holds.                                                        *)
IInv ==
    /\ saved \in Values
    /\ into \in Values
    /\ outcome \in {"none", "saved", "not saved", "loaded", "loaded over", "not loaded"}
    /\ doc # Absent => doc = MarshalJSON(saved) /\ ValidJSON(doc)
    /\ outcome = "loaded" => into = UnmarshalJSON(MarshalJSON(saved), Zero)

LEMMA LoadedValue ==
  ASSUME NEW v \in Values, NEW w \in Values
  PROVE  UnmarshalJSON(MarshalJSON(v), w) \in Values
  <1>1. Utf8(v.pw) \in Passwords \cup {NoPassword}
    BY MetadataAssumption DEF Utf8, Values
  <1> QED BY <1>1, ComesBack DEF Values

LEMMA IInvPreserved == IInv /\ [Next]_vars => IInv'
  <1> SUFFICES ASSUME IInv, [Next]_vars PROVE IInv'
    OBVIOUS
  <1> USE DEF IInv
  <1>z. Zero \in Values
    BY DEF Zero, Values
  <1>1. ASSUME NEW v \in Values, SaveMetadata(v) PROVE IInv'
    BY <1>1 DEF SaveMetadata
  <1>2. ASSUME NEW fresh \in BOOLEAN, LoadMetadata(fresh) PROVE IInv'
    <2>1. /\ doc = MarshalJSON(saved) /\ ValidJSON(doc) /\ UNCHANGED <<doc, saved>>
          /\ into' = UnmarshalJSON(doc, IF fresh THEN Zero ELSE into)
      BY <1>2 DEF LoadMetadata
    <2>2. ~Undecodable(doc)
      BY <2>1, ComesBack
    <2>3. outcome' = IF fresh THEN "loaded" ELSE "loaded over"
      BY <1>2, <2>2 DEF LoadMetadata
    <2>4. into' \in Values
      BY <1>z, <2>1, LoadedValue
    <2> QED BY <2>1, <2>3, <2>4
  <1>3. CASE UNCHANGED vars
    BY <1>3 DEF vars
  <1> QED BY <1>1, <1>2, <1>3 DEF Next

LEMMA IInvInitially == Init => IInv
  BY DEF Init, IInv, Zero, Values

(* What is stored is JSON whose key can be decoded, whatever was saved and loaded. *)
THEOREM CodecTypes == Spec => []TypeOK
  <1>1. IInv => TypeOK
    BY ComesBack DEF IInv, TypeOK
  <1> QED BY <1>1, IInvInitially, IInvPreserved, PTL DEF Spec

(* A password in UTF-8 and a key of a supported type come back as they were saved, for *)
(* any passwords and keys (metadata_storage.go:79-118).                                *)
THEOREM ValuesComeBack == Spec => []RoundTrip
  <1>1. IInv => RoundTrip
    <2> SUFFICES ASSUME IInv, outcome = "loaded", saved.pw # Garbled,
                        saved.key = NoKey \/ Kind[saved.key] \in Supported
                 PROVE  into = saved
      BY DEF RoundTrip
    <2>1. HasKey(saved) \/ saved.key = NoKey
      BY DEF HasKey, Format, Supported
    <2>2. into = [pw  |-> IF HasPassword(saved) THEN Utf8(saved.pw) ELSE Zero.pw,
                  key |-> IF HasKey(saved) THEN saved.key ELSE Zero.key]
      BY ComesBack DEF IInv
    <2>3. into = [pw |-> saved.pw, key |-> saved.key]
      BY <2>1, <2>2 DEF HasPassword, HasKey, Utf8, Zero
    <2> QED BY <2>3 DEF IInv, Values
  <1> QED BY <1>1, IInvInitially, IInvPreserved, PTL DEF Spec

(* A load over an older value leaves nothing of that one, but where the saved value is *)
(* empty (metadata_storage.go:94-118).                                                  *)
THEOREM NothingElseIsStale == Spec => StaleOnlyWhereEmpty
  <1> DEFINE Step == outcome' = "loaded over" =>
         /\ into'.pw # Utf8(saved.pw) => saved.pw = NoPassword /\ into'.pw = into.pw
         /\ into'.key # saved.key =>
              /\ saved.key = NoKey \/ Kind[saved.key] \notin Supported
              /\ into'.key = into.key
  <1>1. IInv /\ [Next]_vars => [Step]_vars
    <2> SUFFICES ASSUME IInv, Next, outcome' = "loaded over" PROVE Step
      BY DEF vars
    <2>1. PICK fresh \in BOOLEAN : LoadMetadata(fresh)
      BY DEF Next, SaveMetadata
    <2>2. doc = MarshalJSON(saved) /\ fresh = FALSE
      BY <2>1 DEF LoadMetadata, IInv
    <2>3. into' = [pw  |-> IF HasPassword(saved) THEN Utf8(saved.pw) ELSE into.pw,
                   key |-> IF HasKey(saved) THEN saved.key ELSE into.key]
      BY <2>1, <2>2, ComesBack DEF LoadMetadata
    <2>4. saved.key # NoKey /\ ~HasKey(saved) => Kind[saved.key] \notin Supported
      BY DEF HasKey, Format, Supported
    <2> QED BY <2>3, <2>4 DEF HasPassword, HasKey
  <1> QED BY <1>1, IInvInitially, IInvPreserved, PTL DEF Spec, StaleOnlyWhereEmpty
=============================================================================
