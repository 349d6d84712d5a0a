-------------------------- MODULE ObjectUriProofs --------------------------
(***************************************************************************)
(* Proofs about ObjectUri, for any URIs of the registered prefixes.        *)
(***************************************************************************)
EXTENDS ObjectUri, WellFoundedInduction, SequenceTheorems, TLAPS

\* What the texts are made of: the tokens, and what TryParse writes itself.
Word ==
  Tokens \cup (UNION {{s.text[i] : i \in DOMAIN s.text} : s \in Starts}) \cup Registered
    \cup {"/", "?", "@", "raw", "datasets", "spaces", "models", "http", "https", "ftp"}
    \cup {":", ".", "a", "blob", "%2F"}

LEMMA Words ==
  /\ Tokens \subseteq Word
  /\ \A s \in Starts : \A i \in DOMAIN s.text : s.text[i] \in Word
  /\ Registered \subseteq Word
  /\ {"/", "?", "@", "raw", "datasets", "spaces", "models", "http", "https", "ftp"}
        \subseteq Word
  /\ {":", ".", "a", "blob", "%2F"} \subseteq Word
<1> DEFINE given == UNION {{s.text[i] : i \in DOMAIN s.text} : s \in Starts}
           written == {"/", "?", "@", "raw", "datasets", "spaces", "models", "http",
                       "https", "ftp"}
           decoded == {":", ".", "a", "blob", "%2F"}
<1>1. Word = Tokens \cup given \cup Registered \cup written \cup decoded
  BY DEF Word
<1>2. \A s \in Starts : \A i \in DOMAIN s.text : s.text[i] \in given
  OBVIOUS
<1> HIDE DEF given, written, decoded
<1>3. Tokens \subseteq Word /\ given \subseteq Word /\ Registered \subseteq Word
        /\ written \subseteq Word /\ decoded \subseteq Word
  BY <1>1
<1> QED BY <1>2, <1>3 DEF written, decoded

Text == Seq(Word)

-----------------------------------------------------------------------------
(* Texts and their parts. *)

\* A set of positions has a first one.
LEMMA FirstOf ==
  ASSUME NEW T, T \subseteq Nat, T # {}
  PROVE  Min(T) \in T /\ \A n \in T : Min(T) <= n
<1> DEFINE R == OpToRel(<, Nat)
<1>1. IsWellFoundedOn(R, Nat)
  BY NatLessThanWellFounded
<1>2. \A a, b \in Nat : <<a, b>> \in R <=> a < b
  BY DEF OpToRel
<1> HIDE DEF R
<1>3. PICK m \in T : \A n \in T : ~(<<n, m>> \in R)
  BY <1>1, WFMin
<1>4. ASSUME NEW n \in T PROVE m <= n
  <2>1. n \in Nat /\ m \in Nat
    OBVIOUS
  <2>2. ~(n < m)
    BY <1>2, <1>3, <2>1
  <2> QED BY <2>1, <2>2
<1> QED BY <1>4 DEF Min

\* A text that holds a token is what comes before it, the token, and what follows.
LEMMA CutFound ==
  ASSUME NEW text \in Text, NEW token, Contains(text, token)
  PROVE  /\ Cut(text, token) = <<Cut(text, token)[1], Cut(text, token)[2]>>
         /\ Cut(text, token)[1] \in Text /\ Cut(text, token)[2] \in Text
         /\ text = Cut(text, token)[1] \o <<token>> \o Cut(text, token)[2]
         /\ Len(text) = Len(Cut(text, token)[1]) + 1 + Len(Cut(text, token)[2])
         /\ ~Contains(Cut(text, token)[1], token)
<1> DEFINE T == {i \in 1 .. Len(text) : text[i] = token}
           i == Min(T)
           before == SubSeq(text, 1, i - 1)
           after == SubSeq(text, i + 1, Len(text))
<1>1. T \subseteq Nat /\ T # {}
  BY DEF Contains
<1>2. i \in T /\ \A n \in T : i <= n
  BY <1>1, FirstOf
<1>3. Cut(text, token) = <<before, after>>
  <2>1. i # 0
    BY <1>2
  <2> QED BY <1>1, <2>1 DEF Cut, SelectInSeq
<1>4. i \in 1 .. Len(text) /\ text[i] = token /\ \A n \in 1 .. i - 1 : text[n] # token
  <2>1. i \in 1 .. Len(text) /\ text[i] = token
    BY <1>2
  <2>2. ASSUME NEW n \in 1 .. i - 1, text[n] = token PROVE FALSE
    <3>1. n \in T
      BY <2>1, <2>2, LenProperties DEF Text
    <3>2. i <= n
      BY <1>2, <3>1
    <3> QED BY <2>1, <2>2, <3>2
  <2> QED BY <2>1, <2>2
<1> HIDE DEF i, T
<1>5. Len(text) \in Nat /\ i \in Nat /\ \A n \in 1 .. Len(text) : text[n] \in Word
  BY <1>4, LenProperties, ElementOfSeq DEF Text
<1>7. /\ before \in Text /\ Len(before) = i - 1
      /\ \A n \in 1 .. i - 1 : before[n] = text[n]
  BY <1>4, <1>5, SubSeqProperties DEF Text
<1>8. after \in Text /\ Len(after) = Len(text) - i
  BY <1>4, <1>5, SubSeqProperties DEF Text
<1>9. text = before \o <<token>> \o after
  <2>1. text = before \o SubSeq(text, i, Len(text))
    BY <1>4, <1>5, ConcatAdjacentSubSeq, SubSeqFull DEF Text
  <2>2. SubSeq(text, i, Len(text)) = <<token>> \o after
    BY <1>4, <1>5, SubSeqRecursiveFirst DEF Text
  <2>3. <<token>> \in Seq(Word)
    BY <1>4, <1>5
  <2> HIDE DEF before, after
  <2>4. (before \o <<token>>) \o after = before \o (<<token>> \o after)
    BY <1>7, <1>8, <2>3, ConcatAssociative DEF Text
  <2> QED BY <2>1, <2>2, <2>4
<1>10. ~Contains(before, token)
  BY <1>4, <1>7 DEF Contains
<1> HIDE DEF before, after
<1>11. Len(text) = Len(before) + 1 + Len(after)
  BY <1>4, <1>5, <1>7, <1>8
<1> QED BY <1>3, <1>7, <1>8, <1>9, <1>10, <1>11

LEMMA CutMissing ==
  ASSUME NEW text, NEW token, ~Contains(text, token)
  PROVE  /\ Cut(text, token)[1] = text
         /\ Cut(text, token)[2] = <<>>
<1>1. {i \in 1 .. Len(text) : text[i] = token} = {}
  BY DEF Contains
<1>2. SelectInSeq(text, LAMBDA t : t = token) = 0
  BY <1>1 DEF SelectInSeq
<1> QED BY <1>2 DEF Cut

LEMMA CutTyped ==
  ASSUME NEW text \in Text, NEW token
  PROVE  /\ Cut(text, token)[1] \in Text /\ Cut(text, token)[2] \in Text
         /\ Len(text) \in Nat
         /\ Len(Cut(text, token)[1]) \in Nat /\ Len(Cut(text, token)[2]) \in Nat
         /\ Len(Cut(text, token)[1]) <= Len(text)
         /\ Len(Cut(text, token)[2]) <= Len(text)
         /\ Cut(text, token)[2] # <<>> => Contains(text, token)
<1>1. \A t \in Text : Len(t) \in Nat
  BY LenProperties DEF Text
<1>2. <<>> \in Text /\ Len(<<>>) = 0
  BY EmptySeq DEF Text
<1>3. CASE Contains(text, token)
  <2> DEFINE before == Cut(text, token)[1]
             after == Cut(text, token)[2]
  <2>1. before \in Text /\ after \in Text /\ Len(text) = Len(before) + 1 + Len(after)
    BY <1>3, CutFound
  <2> HIDE DEF before, after
  <2>2. Len(before) \in Nat /\ Len(after) \in Nat /\ Len(text) \in Nat
    BY <1>1, <2>1
  <2>3. Len(before) <= Len(text) /\ Len(after) <= Len(text)
    BY <2>1, <2>2
  <2> QED BY <1>3, <2>1, <2>2, <2>3 DEF before, after
<1>4. CASE ~Contains(text, token)
  <2>1. Cut(text, token)[1] = text /\ Cut(text, token)[2] = <<>>
    BY <1>4, CutMissing
  <2>2. Len(text) \in Nat /\ 0 <= Len(text)
    BY <1>1
  <2> QED BY <1>2, <2>1, <2>2
<1> QED BY <1>3, <1>4

LEMMA DecodeTyped ==
  ASSUME NEW text \in Text
  PROVE  /\ Decode(text) \in Text /\ Len(Decode(text)) = Len(text)
         /\ EndsInSlash(text) => EndsInSlash(Decode(text))
<1>1. Len(text) \in Nat /\ DOMAIN text = 1 .. Len(text)
  BY LenProperties DEF Text
<1>2. \A i \in 1 .. Len(text) : text[i] \in Word
  BY ElementOfSeq DEF Text
<1>3. Decode(text) \in Text /\ Len(Decode(text)) = Len(text)
  <2>1. \A i \in 1 .. Len(text) : Decode(text)[i] \in Word
    <3> SUFFICES ASSUME NEW i \in 1 .. Len(text) PROVE Decode(text)[i] \in Word
      OBVIOUS
    <3>1. Decode(text)[i] = Unescaped(text[i])
      BY <1>1 DEF Decode
    <3>2. Unescaped(text[i]) \in {"/", "?", "@", ":", ".", "a", "blob", "%2F", text[i]}
      BY DEF Unescaped
    <3>3. {"/", "?", "@", ":", ".", "a", "blob", "%2F"} \subseteq Word
      BY Words
    <3> QED BY <1>2, <3>1, <3>2, <3>3
  <2>2. Decode(text) = [i \in 1 .. Len(text) |-> Decode(text)[i]]
    BY <1>1 DEF Decode
  <2>3. Decode(text) \in [1 .. Len(text) -> Word]
    BY <2>1, <2>2
  <2> HIDE DEF Decode
  <2> QED BY <1>1, <2>3 DEF Text
<1>4. ASSUME EndsInSlash(text) PROVE EndsInSlash(Decode(text))
  <2>1. Len(text) # 0 /\ text[Len(text)] = "/"
    BY <1>4, EmptySeq DEF EndsInSlash, Last, Text
  <2>2. Decode(text)[Len(text)] = "/"
    BY <1>1, <2>1 DEF Decode, Unescaped
  <2> QED BY <1>3, <2>1, <2>2, EmptySeq DEF EndsInSlash, Last, Text
<1> QED BY <1>3, <1>4

-----------------------------------------------------------------------------
(* The services. *)

LEMMA AliasedServices ==
  /\ DOMAIN Aliases = {"s3", "gcs", "azblob", "azdls", "http"}
  /\ Aliases["s3"] = {"s3", "s3a", "s3n"}
  /\ Aliases["gcs"] = {"gs", "gcs"}
  /\ Aliases["azblob"] = {"az", "azblob"}
  /\ Aliases["azdls"] = {"abfs", "abfss", "azdls"}
  /\ Aliases["http"] = {"http", "https"}
BY DEF Aliases

\* A registered prefix is one of a service with several, or of one with its own.
LEMMA SchemeOf ==
  ASSUME NEW prefix \in Registered
  PROVE  \/ Scheme(prefix) \in DOMAIN Aliases /\ prefix \in Aliases[Scheme(prefix)]
         \/ Scheme(prefix) = prefix /\ prefix \in Unaliased
<1>1. CASE \E s \in DOMAIN Aliases : prefix \in Aliases[s]
  BY <1>1 DEF Scheme
<1>2. CASE ~ \E s \in DOMAIN Aliases : prefix \in Aliases[s]
  <2> DEFINE aliased == UNION {Aliases[s] : s \in DOMAIN Aliases}
  <2>1. Scheme(prefix) = prefix
    BY <1>2 DEF Scheme
  <2>2. prefix \notin aliased
    BY <1>2
  <2>3. Registered = aliased \cup Unaliased
    BY DEF Registered
  <2> HIDE DEF aliased
  <2>4. prefix \in Unaliased
    BY <2>2, <2>3
  <2> QED BY <2>1, <2>4
<1> QED BY <1>1, <1>2

Typed == uri \in [prefix : Registered, text : Text] /\ room \in 0 .. MaxTokens

(* The types of secrets and their names.  They are told apart by position. *)

Positions ==
  {1, 2, 3, 4, 5, 6, 7, 8, 9, 10, 11, 12, 13, 14, 15, 16, 17, 18, 19, 20, 21, 22, 23, 24, 25,
   26, 27, 28, 29, 30, 31, 32, 33}

Position ==
  [NONE |-> 1, HTTP |-> 2, ALIYUN_DRIVE |-> 3, AZBLOB |-> 4, AZDLS |-> 5, AZFILE |-> 6,
   B2 |-> 7, COS |-> 8, DBFS |-> 9, DROPBOX |-> 10, FTP |-> 11, GCS |-> 12, GDRIVE |-> 13,
   GITHUB |-> 14, HF |-> 15, HUGGINGFACE |-> 16, IPFS |-> 17, KOOFR |-> 18, LAKEFS |-> 19,
   OBS |-> 20, ONEDRIVE |-> 21, OSS |-> 22, PCLOUD |-> 23, S3 |-> 24, SEAFILE |-> 25,
   SFTP |-> 26, SWIFT |-> 27, TOS |-> 28, UPYUN |-> 29, VERCEL_ARTIFACTS |-> 30,
   VERCEL_BLOB |-> 31, WEBDAV |-> 32, YANDEX_DISK |-> 33]

LEMMA PositionsOfTypes == DOMAIN OpenDALSecretType = Positions
<1>1. DOMAIN OpenDALSecretType = 1 .. 33
  BY DEF OpenDALSecretType
<1> QED BY <1>1 DEF Positions

LEMMA PositionOf ==
  ASSUME NEW i \in Positions
  PROVE  Position[OpenDALSecretType[i]] = i
BY DEF Positions, Position, OpenDALSecretType

LEMMA NameAt ==
  ASSUME NEW i \in Positions
  PROVE  OpenDALSecretTypeName(OpenDALSecretType[i]) = SecretTypeNames[i]
<1>1. \A j \in Positions : OpenDALSecretType[j] = OpenDALSecretType[i] => j = i
  BY PositionOf
<1>2. (CHOOSE j \in DOMAIN OpenDALSecretType : OpenDALSecretType[j] = OpenDALSecretType[i]) = i
  BY <1>1, PositionsOfTypes
<1> QED BY <1>2 DEF OpenDALSecretTypeName

LEMMA SecretTypes ==
  ASSUME NEW prefix \in Registered
  PROVE  \E i \in Positions : SecretType(prefix) = OpenDALSecretType[i]
<1>2. DOMAIN SecretPrefixes = {OpenDALSecretType[i] : i \in Positions}
  BY DEF Positions, OpenDALSecretType, SecretPrefixes
<1>1. \E type \in DOMAIN SecretPrefixes : prefix \in SecretPrefixes[type]
  BY DEF Registered, Aliases, Unaliased, SecretPrefixes
<1> QED BY <1>1, <1>2 DEF SecretType

LEMMA Prepended ==
  ASSUME NEW S, NEW a \in S, NEW rest \in Seq(S)
  PROVE  /\ <<a>> \o rest \in Seq(S) /\ Len(<<a>> \o rest) = Len(rest) + 1
         /\ (<<a>> \o rest)[1] = a
         /\ \A i \in 1 .. Len(rest) : (<<a>> \o rest)[i + 1] = rest[i]
         /\ Tail(<<a>> \o rest) = rest
<1>1. <<a>> \in Seq(S) /\ Len(<<a>>) = 1 /\ <<a>>[1] = a
  OBVIOUS
<1> DEFINE all == <<a>> \o rest
<1>2. /\ all \in Seq(S) /\ Len(all) = Len(<<a>>) + Len(rest)
      /\ \A i \in 1 .. Len(<<a>>) + Len(rest) :
           all[i] = IF i <= Len(<<a>>) THEN <<a>>[i] ELSE rest[i - Len(<<a>>)]
  BY <1>1, ConcatProperties
<1>3. Len(rest) \in Nat
  BY LenProperties
<1> HIDE DEF all
<1>4. Len(all) = Len(rest) + 1 /\ all[1] = a
  BY <1>1, <1>2, <1>3
<1>5. \A i \in 1 .. Len(rest) : all[i + 1] = rest[i]
  BY <1>1, <1>2, <1>3
<1>6. all # <<>>
  BY <1>2, <1>3, <1>4, EmptySeq
<1>7. Tail(all) \in Seq(S) /\ Len(Tail(all)) = Len(all) - 1
        /\ \A i \in 1 .. Len(Tail(all)) : Tail(all)[i] = all[i + 1]
  BY <1>2, <1>6, HeadTailProperties
<1>8. Len(Tail(all)) = Len(rest)
  BY <1>3, <1>4, <1>7
<1>9. Tail(all) = rest
  BY <1>5, <1>7, <1>8, SeqEqual
<1> QED BY <1>2, <1>4, <1>5, <1>9 DEF all

\* A name of a type and its service.
LEMMA Prefixed ==
  ASSUME NEW S, NEW a \in S, NEW rest \in Seq(S), NEW all \in Seq(S),
         Len(all) = Len(rest) + 1, all[1] = a, \A i \in 1 .. Len(rest) : all[i + 1] = rest[i]
  PROVE  <<a>> \o rest = all /\ Tail(all) = rest
<1> DEFINE both == <<a>> \o rest
<1>1. both \in Seq(S) /\ Len(both) = Len(rest) + 1 /\ both[1] = a /\ Tail(both) = rest
  BY Prepended
<1>2. \A i \in 1 .. Len(rest) : both[i + 1] = rest[i]
  BY Prepended
<1>3. Len(rest) \in Nat
  BY LenProperties
<1> HIDE DEF both
<1>4. ASSUME NEW i \in 1 .. Len(rest) + 1 PROVE both[i] = all[i]
  <2>1. CASE i = 1
    BY <1>1, <2>1
  <2>2. CASE i # 1
    <3>1. i - 1 \in 1 .. Len(rest) /\ (i - 1) + 1 = i
      BY <1>3, <2>2
    <3>2. both[(i - 1) + 1] = rest[i - 1] /\ all[(i - 1) + 1] = rest[i - 1]
      BY <1>2, <3>1
    <3> QED BY <3>1, <3>2
  <2> QED BY <2>1, <2>2
<1>5. both = all
  BY <1>1, <1>4, SeqEqual
<1> QED BY <1>1, <1>5 DEF both

LEMMA OneWord ==
  ASSUME NEW a, NEW b
  PROVE  <<a>> \o <<b>> = <<a, b>> /\ Tail(<<a, b>>) = <<b>>
<1> DEFINE S == {a, b}
           rest == <<b>>
           all == <<a, b>>
<1>1. rest \in Seq(S) /\ Len(rest) = 1 /\ rest[1] = b
  OBVIOUS
<1>2. all \in Seq(S) /\ Len(all) = 2 /\ all[1] = a /\ all[2] = b
  OBVIOUS
<1>3. a \in S
  OBVIOUS
<1> HIDE DEF S, rest, all
<1>4. \A i \in 1 .. 1 : all[i + 1] = rest[i]
  <2>1. all[1 + 1] = rest[1]
    BY <1>1, <1>2
  <2>2. \A i \in 1 .. 1 : i = 1
    OBVIOUS
  <2> QED BY <2>1, <2>2
<1>5. Len(all) = Len(rest) + 1 /\ \A i \in 1 .. Len(rest) : all[i + 1] = rest[i]
  BY <1>1, <1>2, <1>4
<1>6. <<a>> \o rest = all /\ Tail(all) = rest
  BY <1>1, <1>2, <1>3, <1>5, Prefixed
<1> QED BY <1>6 DEF all, rest

LEMMA ThreeParts ==
  ASSUME NEW a, NEW b, NEW c, NEW d
  PROVE  <<a>> \o <<b, c, d>> = <<a, b, c, d>> /\ Tail(<<a, b, c, d>>) = <<b, c, d>>
<1> DEFINE S == {a, b, c, d}
           rest == <<b, c, d>>
           all == <<a, b, c, d>>
<1>1. rest \in Seq(S) /\ Len(rest) = 3 /\ rest[1] = b /\ rest[2] = c /\ rest[3] = d
  OBVIOUS
<1>2. /\ all \in Seq(S) /\ Len(all) = 4
      /\ all[1] = a /\ all[2] = b /\ all[3] = c /\ all[4] = d
  OBVIOUS
<1>3. a \in S
  OBVIOUS
<1> HIDE DEF S, rest, all
<1>4. \A i \in 1 .. 3 : all[i + 1] = rest[i]
  <2>1. all[1 + 1] = rest[1] /\ all[2 + 1] = rest[2] /\ all[3 + 1] = rest[3]
    BY <1>1, <1>2
  <2>2. \A i \in 1 .. 3 : i = 1 \/ i = 2 \/ i = 3
    OBVIOUS
  <2> QED BY <2>1, <2>2
<1>5. Len(all) = Len(rest) + 1 /\ \A i \in 1 .. Len(rest) : all[i + 1] = rest[i]
  BY <1>1, <1>2, <1>4
<1>6. <<a>> \o rest = all /\ Tail(all) = rest
  BY <1>1, <1>2, <1>3, <1>5, Prefixed
<1> QED BY <1>6 DEF all, rest

\* Only what joins the words of a name is replaced.
LEMMA DashedWord ==
  ASSUME NEW W, "'_'" \notin W, NEW w \in W
  PROVE  Dashed(Name(<<w>>, FALSE)) = Name(<<w>>, FALSE)
<1> DEFINE s == <<w>>
           dashed == [i \in DOMAIN s |-> IF s[i] = "'_'" THEN "'-'" ELSE s[i]]
<1>1. s \in Seq(W) /\ DOMAIN s = 1 .. 1 /\ s[1] = w
  OBVIOUS
<1>6. s = [i \in 1 .. 1 |-> s[i]]
  OBVIOUS
<1>2. Name(s, FALSE).parts = s /\ Name(s, FALSE).capitals = FALSE
  BY DEF Name
<1> HIDE DEF s
<1>3. \A i \in 1 .. 1 : s[i] \in W
  BY <1>1, ElementOfSeq
<1>4. dashed = s
  BY <1>1, <1>3, <1>6
<1>5. Dashed(Name(s, FALSE)) = Name(dashed, FALSE)
  BY <1>2 DEF Dashed
<1> QED BY <1>4, <1>5 DEF s

LEMMA DashedWords ==
  ASSUME NEW W, "'_'" \notin W, NEW v \in W, NEW w \in W
  PROVE  Dashed(Name(<<v, "'_'", w>>, FALSE)) = Name(<<v, "'-'", w>>, FALSE)
<1> DEFINE s == <<v, "'_'", w>>
           t == <<v, "'-'", w>>
           dashed == [i \in DOMAIN s |-> IF s[i] = "'_'" THEN "'-'" ELSE s[i]]
<1>1. DOMAIN s = 1 .. 3 /\ s[1] = v /\ s[2] = "'_'" /\ s[3] = w
  OBVIOUS
<1>2. t[1] = v /\ t[2] = "'-'" /\ t[3] = w
  OBVIOUS
<1>7. t = [i \in 1 .. 3 |-> t[i]]
  OBVIOUS
<1>3. Name(s, FALSE).parts = s /\ Name(s, FALSE).capitals = FALSE
  BY DEF Name
<1> HIDE DEF s, t
<1>4. ASSUME NEW i \in 1 .. 3 PROVE t[i] = IF s[i] = "'_'" THEN "'-'" ELSE s[i]
  <2>1. i = 1 \/ i = 2 \/ i = 3
    OBVIOUS
  <2>2. v # "'_'" /\ w # "'_'"
    OBVIOUS
  <2> QED BY <1>1, <1>2, <2>1, <2>2
<1>5. dashed = t
  BY <1>1, <1>4, <1>7
<1>6. Dashed(Name(s, FALSE)) = Name(dashed, FALSE)
  BY <1>3 DEF Dashed
<1> QED BY <1>5, <1>6 DEF s, t

(* The rows of the tables, by position. *)

PlainWords ==
  {"azfile", "b2", "cos", "dbfs", "dropbox", "ftp", "gdrive", "github", "hf",
   "huggingface", "ipfs", "koofr", "lakefs", "obs", "onedrive", "oss", "pcloud",
   "seafile", "sftp", "swift", "tos", "upyun", "webdav"}

WordRow(i, w) ==
  SecretTypeNames[i] = <<"opendal_", w>> /\ SecretPrefixes[OpenDALSecretType[i]] = {w}

PairRow(i, v, w, prefix) ==
  /\ SecretTypeNames[i] = <<"opendal_", v, "'_'", w>>
  /\ SecretPrefixes[OpenDALSecretType[i]] = {prefix}

AliasRow(i, w, prefixes) ==
  /\ SecretTypeNames[i] = <<"opendal_", w>>
  /\ SecretPrefixes[OpenDALSecretType[i]] = prefixes

LEMMA WordRows ==
  /\ WordRow(6, "azfile") /\ WordRow(7, "b2") /\ WordRow(8, "cos") /\ WordRow(9, "dbfs")
  /\ WordRow(10, "dropbox") /\ WordRow(11, "ftp") /\ WordRow(13, "gdrive")
  /\ WordRow(14, "github") /\ WordRow(15, "hf") /\ WordRow(16, "huggingface")
  /\ WordRow(17, "ipfs") /\ WordRow(18, "koofr") /\ WordRow(19, "lakefs")
  /\ WordRow(20, "obs") /\ WordRow(21, "onedrive") /\ WordRow(22, "oss")
  /\ WordRow(23, "pcloud") /\ WordRow(25, "seafile") /\ WordRow(26, "sftp")
  /\ WordRow(27, "swift") /\ WordRow(28, "tos") /\ WordRow(29, "upyun")
  /\ WordRow(32, "webdav")
BY DEF WordRow, SecretTypeNames, SecretPrefixes, OpenDALSecretType

LEMMA PairRows ==
  /\ PairRow(3, "aliyun", "drive", "aliyun-drive")
  /\ PairRow(30, "vercel", "artifacts", "vercel-artifacts")
  /\ PairRow(31, "vercel", "blob", "vercel-blob")
  /\ PairRow(33, "yandex", "disk", "yandex-disk")
BY DEF PairRow, SecretTypeNames, SecretPrefixes, OpenDALSecretType

LEMMA AliasRows ==
  /\ AliasRow(4, "azblob", {"az", "azblob"}) /\ AliasRow(5, "azdls", {"abfs", "abfss", "azdls"})
  /\ AliasRow(12, "gcs", {"gs", "gcs"}) /\ AliasRow(24, "s3", {"s3", "s3a", "s3n"})
BY DEF AliasRow, SecretTypeNames, SecretPrefixes, OpenDALSecretType

LEMMA OtherRows == SecretTypeNames[1] = <<>> /\ SecretTypeNames[2] = <<"http">>
BY DEF SecretTypeNames

\* The secrets of a row's type are for its prefixes.
Reaches(i) ==
  /\ SecretTypeNames[i] \in RegisterOpenDALSecrets
  /\ \A capitals \in BOOLEAN :
       CreateOpenDALSecret(Name(SecretTypeNames[i], capitals))
         = {Name(Parted(prefix), FALSE) : prefix \in SecretPrefixes[OpenDALSecretType[i]]}

LEMMA Created ==
  ASSUME NEW rest, NEW name, NEW capitals, Tail(name) = rest
  PROVE  CreateOpenDALSecret(Name(name, capitals)) = DefaultScopes(Name(rest, FALSE))
BY DEF CreateOpenDALSecret, Name, Lower

LEMMA SameName ==
  ASSUME NEW v, NEW w, Name(<<v>>, FALSE) = Name(<<w>>, FALSE)
  PROVE  v = w
<1>1. <<v>> = <<w>>
  BY DEF Name
<1> QED BY <1>1

LEMMA WordReaches ==
  ASSUME NEW i, NEW w \in PlainWords, WordRow(i, w)
  PROVE  Reaches(i)
<1>1. <<"opendal_">> \o <<w>> = <<"opendal_", w>> /\ Tail(<<"opendal_", w>>) = <<w>>
  BY OneWord
<1>2. <<w>> \in SecretServices
  BY DEF PlainWords, SecretServices
<1>3. SecretTypeNames[i] \in RegisterOpenDALSecrets
  BY <1>1, <1>2 DEF WordRow, RegisterOpenDALSecrets
<1>4. DefaultScopes(Name(<<w>>, FALSE)) = {Name(<<w>>, FALSE)}
  <2>1. w \notin {"s3", "gcs", "azblob", "azdls"} /\ "'_'" \notin PlainWords
    BY DEF PlainWords
  <2>2. Dashed(Name(<<w>>, FALSE)) = Name(<<w>>, FALSE)
    BY <2>1, DashedWord
  <2>3. \A v \in {"s3", "gcs", "azblob", "azdls"} : Name(<<w>>, FALSE) # Name(<<v>>, FALSE)
    BY <2>1, SameName
  <2> QED BY <2>2, <2>3 DEF DefaultScopes
<1>5. Parted(w) = <<w>>
  BY DEF PlainWords, Parted
<1>6. \A capitals \in BOOLEAN :
        CreateOpenDALSecret(Name(SecretTypeNames[i], capitals)) = {Name(<<w>>, FALSE)}
  BY <1>1, <1>4, Created DEF WordRow
<1> QED BY <1>3, <1>5, <1>6 DEF WordRow, Reaches

LEMMA PairReaches ==
  ASSUME NEW i, NEW v, NEW w, NEW prefix,
         <<v, w, prefix>> \in {<<"aliyun", "drive", "aliyun-drive">>,
           <<"vercel", "artifacts", "vercel-artifacts">>,
           <<"vercel", "blob", "vercel-blob">>, <<"yandex", "disk", "yandex-disk">>},
         PairRow(i, v, w, prefix)
  PROVE  Reaches(i)
<1> DEFINE service == <<v, "'_'", w>>
           name == <<"opendal_", v, "'_'", w>>
<1>1. <<"opendal_">> \o service = name /\ Tail(name) = service
  BY ThreeParts
<1>2. service \in SecretServices
  BY DEF SecretServices
<1>3. Parted(prefix) = <<v, "'-'", w>>
  BY DEF Parted
<1>4. DefaultScopes(Name(service, FALSE)) = {Name(<<v, "'-'", w>>, FALSE)}
  <2> DEFINE W == {"aliyun", "drive", "vercel", "artifacts", "blob", "yandex", "disk"}
  <2>1. "'_'" \notin W /\ v \in W /\ w \in W
    OBVIOUS
  <2> HIDE DEF W
  <2>2. Dashed(Name(service, FALSE)) = Name(<<v, "'-'", w>>, FALSE)
    BY <2>1, DashedWords
  <2>3. \A p : Name(service, FALSE) # Name(<<p>>, FALSE)
    <3>1. Len(service) = 3 /\ \A p : Len(<<p>>) = 1
      OBVIOUS
    <3> HIDE DEF service
    <3> QED BY <3>1 DEF Name
  <2> HIDE DEF service
  <2>4. DefaultScopes(Name(service, FALSE)) = {Dashed(Name(service, FALSE))}
    BY <2>3 DEF DefaultScopes
  <2> QED BY <2>2, <2>4
<1>5. name \in RegisterOpenDALSecrets
  BY <1>1, <1>2 DEF RegisterOpenDALSecrets
<1>6. SecretTypeNames[i] = name /\ SecretPrefixes[OpenDALSecretType[i]] = {prefix}
  BY DEF PairRow
<1> HIDE DEF name, service
<1>7. \A capitals \in BOOLEAN :
        CreateOpenDALSecret(Name(name, capitals)) = {Name(<<v, "'-'", w>>, FALSE)}
  BY <1>1, <1>4, Created
<1> QED BY <1>3, <1>5, <1>6, <1>7 DEF Reaches

LEMMA AliasReaches ==
  ASSUME NEW i,
         \/ AliasRow(i, "s3", {"s3", "s3a", "s3n"})
         \/ AliasRow(i, "gcs", {"gs", "gcs"})
         \/ AliasRow(i, "azblob", {"az", "azblob"})
         \/ AliasRow(i, "azdls", {"abfs", "abfss", "azdls"})
  PROVE  Reaches(i)
<1>1. PICK w \in {"s3", "gcs", "azblob", "azdls"} :
        AliasRow(i, w, SecretPrefixes[OpenDALSecretType[i]])
  BY DEF AliasRow
<1>2. <<"opendal_">> \o <<w>> = <<"opendal_", w>> /\ Tail(<<"opendal_", w>>) = <<w>>
  BY OneWord
<1>3. <<w>> \in SecretServices
  BY DEF SecretServices
<1>4. SecretTypeNames[i] \in RegisterOpenDALSecrets
  BY <1>1, <1>2, <1>3 DEF AliasRow, RegisterOpenDALSecrets
<1>5. DefaultScopes(Name(<<w>>, FALSE))
        = {Name(<<p>>, FALSE) : p \in SecretPrefixes[OpenDALSecretType[i]]}
  <2>1. \A v, u \in {"s3", "gcs", "azblob", "azdls"} :
          Name(<<v>>, FALSE) = Name(<<u>>, FALSE) => v = u
    BY SameName
  <2>2. CASE w = "s3"
    <3>1. SecretPrefixes[OpenDALSecretType[i]] = {"s3", "s3a", "s3n"}
      BY <1>1, <2>2 DEF AliasRow
    <3> QED BY <2>1, <2>2, <3>1 DEF DefaultScopes
  <2>3. CASE w = "gcs"
    <3>1. SecretPrefixes[OpenDALSecretType[i]] = {"gcs", "gs"}
      BY <1>1, <2>3 DEF AliasRow
    <3> QED BY <2>1, <2>3, <3>1 DEF DefaultScopes
  <2>4. CASE w = "azblob"
    <3>1. SecretPrefixes[OpenDALSecretType[i]] = {"azblob", "az"}
      BY <1>1, <2>4 DEF AliasRow
    <3> QED BY <2>1, <2>4, <3>1 DEF DefaultScopes
  <2>5. CASE w = "azdls"
    <3>1. SecretPrefixes[OpenDALSecretType[i]] = {"azdls", "abfs", "abfss"}
      BY <1>1, <2>5 DEF AliasRow
    <3> QED BY <2>1, <2>5, <3>1 DEF DefaultScopes
  <2> QED BY <2>2, <2>3, <2>4, <2>5
<1>6. \A p \in SecretPrefixes[OpenDALSecretType[i]] : Parted(p) = <<p>>
  BY DEF AliasRow, Parted
<1>7. \A capitals \in BOOLEAN :
        CreateOpenDALSecret(Name(SecretTypeNames[i], capitals)) = DefaultScopes(Name(<<w>>, FALSE))
  BY <1>1, <1>2, Created DEF AliasRow
<1> QED BY <1>4, <1>5, <1>6, <1>7 DEF Reaches

LEMMA AllReach ==
  ASSUME NEW i \in Positions, SecretTypeNames[i] \notin {<<>>, <<"http">>}
  PROVE  Reaches(i)
<1>1. i \notin {1, 2}
  BY OtherRows
<1>2. CASE i \in {3, 30, 31, 33}
  BY <1>2, PairRows, PairReaches
<1>3. CASE i \in {4, 5, 12, 24}
  BY <1>3, AliasRows, AliasReaches
<1>4. CASE i \in {6, 7, 8, 9, 10, 11, 13, 14, 15, 16, 17, 18, 19, 20, 21, 22, 23, 25, 26,
                 27, 28, 29, 32}
  <2>1. \E w \in PlainWords : WordRow(i, w)
    BY <1>4, WordRows DEF PlainWords
  <2> QED BY <2>1, WordReaches
<1> QED BY <1>1, <1>2, <1>3, <1>4 DEF Positions

\* A secret made without a scope is found for every prefix of its service.
LEMMA SecretsFound ==
  ASSUME Typed
  PROVE  SecretFound
<1> DEFINE type == SecretType(uri.prefix)
           name == OpenDALSecretTypeName(type)
<1>1. PICK i \in Positions : type = OpenDALSecretType[i]
  BY SecretTypes DEF Typed
<1>2. name = SecretTypeNames[i]
  BY <1>1, NameAt
<1> SUFFICES ASSUME name \notin {<<>>, <<"http">>} PROVE Reaches(i)
  BY <1>1, <1>2 DEF SecretFound, Reaches
<1> QED BY <1>2, AllReach

-----------------------------------------------------------------------------
(* What a URI is parsed into. *)

\* The authority, its slash and the root are the text up to its query.
LEMMA ParseParts ==
  ASSUME Typed
  PROVE  LET u == Parse(uri.text) IN
         /\ u.authority \in Text /\ u.root \in Text
         /\ Contains(uri.text, "/") =>
              /\ Written = u.authority \o <<"/">> \o u.root
              /\ Len(u.authority) + 1 + Len(u.root) <= Len(uri.text)
         /\ ~Contains(uri.text, "/") =>
              Written = u.authority /\ u.authority = uri.text /\ u.root = <<>>
         /\ Len(u.root) <= Len(uri.text)
<1> DEFINE text == uri.text
           authority == Cut(text, "/")[1]
           rest == Cut(text, "/")[2]
           plain == Cut(rest, "?")[1]
<1>1. text \in Text
  BY DEF Typed
<1>2. Parse(text).authority = authority /\ Parse(text).root = Decode(plain)
  BY DEF Parse
<1>3. \A t \in Text : Len(t) \in Nat
  BY LenProperties DEF Text
<1> HIDE DEF text
<1>4. authority \in Text /\ rest \in Text /\ Len(rest) <= Len(text)
  BY <1>1, CutTyped
<1> HIDE DEF rest, authority
<1>5. plain \in Text /\ Len(plain) <= Len(rest)
  BY <1>4, CutTyped
<1>6. <<>> \in Text /\ Len(<<>>) = 0 /\ \A t \in Text : Len(t) = 0 => t = <<>>
  BY EmptySeq DEF Text
<1> HIDE DEF plain
<1>7. Decode(plain) \in Text /\ Len(Decode(plain)) = Len(plain)
  BY <1>5, DecodeTyped
<1>8. CASE Contains(text, "/")
  <2>1. Written = authority \o <<"/">> \o Decode(plain)
    BY <1>8 DEF Written, text, authority, rest, plain
  <2>2. Len(text) = Len(authority) + 1 + Len(rest)
    BY <1>1, <1>8, CutFound DEF authority, rest
  <2>3. Len(authority) + 1 + Len(Decode(plain)) <= Len(text)
    BY <1>1, <1>3, <1>4, <1>5, <1>7, <2>2
  <2>4. Len(Decode(plain)) <= Len(text)
    BY <1>1, <1>3, <1>4, <1>5, <1>7
  <2> QED BY <1>2, <1>4, <1>7, <1>8, <2>1, <2>3, <2>4 DEF text
<1>9. CASE ~Contains(text, "/")
  <2>1. Written = text
    BY <1>9 DEF Written, text
  <2>2. authority = text /\ rest = <<>>
    BY <1>9, CutMissing DEF authority, rest
  <2>3. Len(Decode(plain)) = 0 /\ Decode(plain) = <<>>
    BY <1>3, <1>5, <1>6, <1>7, <2>2
  <2>4. Len(Decode(plain)) <= Len(text)
    BY <1>1, <1>3, <2>3
  <2> QED BY <1>2, <1>4, <1>7, <1>9, <2>1, <2>2, <2>3, <2>4 DEF text
<1> QED BY <1>8, <1>9 DEF text

-----------------------------------------------------------------------------
(* What Apply makes of it, service by service. *)

scheme == Scheme(uri.prefix)
authority == Parse(uri.text).authority
root == Parse(uri.text).root

\* The root's first segment, and what follows it.
segment == Cut(root, "/")[1]
remainder == Cut(root, "/")[2]

LEMMA Services ==
  ASSUME Typed
  PROVE  scheme \in {"s3", "gcs", "azblob", "azdls", "http"} \cup Unaliased
BY SchemeOf, AliasedServices DEF Typed, scheme

\* Most services take segments of the root, in this order or none at all.
LEMMA Segments ==
  ASSUME scheme \notin {"hf", "huggingface", "memory", "fs", "vercel-artifacts", "onedrive", "http"}
  PROVE  Located = TakeSegments(SegmentOptions(scheme),
                                [config |-> AuthorityOptions(uri.prefix, authority), path |-> root])
BY DEF scheme, authority, root, Located, TryParse, Apply, HuggingFace, WholePath

LEMMA NoSegment ==
  ASSUME NEW location PROVE TakeSegments(<<>>, location) = location
BY DEF TakeSegments

LEMMA OneSegment ==
  ASSUME NEW name, NEW config, NEW path
  PROVE  TakeSegments(<<name>>, [config |-> config, path |-> path])
           = [config |-> config \cup {<<name, Cut(path, "/")[1]>>}, path |-> Cut(path, "/")[2]]
BY DEF TakeSegments, TakeSegment

LEMMA TwoSegments ==
  ASSUME NEW name, NEW other, NEW config, NEW path
  PROVE  TakeSegments(<<name, other>>, [config |-> config, path |-> path])
           = [config |-> config \cup {<<name, Cut(path, "/")[1]>>}
                                \cup {<<other, Cut(Cut(path, "/")[2], "/")[1]>>},
              path |-> Cut(Cut(path, "/")[2], "/")[2]]
BY DEF TakeSegments, TakeSegment

LEMMA ByAuthority ==
  ASSUME scheme \in BucketServices \cup {"azblob", "aliyun-drive"}
  PROVE  /\ SegmentOptions(scheme) = <<>>
         /\ \E name \in {"bucket", "container", "drive_type"} :
              Located.config = {<<name, authority>>}
         /\ Located.path = root
<1>1. SegmentOptions(scheme) = <<>>
  BY DEF SegmentOptions, BucketServices
<1>2. \E name \in {"bucket", "container", "drive_type"} :
        AuthorityOptions(uri.prefix, authority) = {<<name, authority>>}
  BY DEF scheme, AuthorityOptions, BucketServices, HttpsServices
<1>3. scheme \notin {"hf", "huggingface", "memory", "fs", "vercel-artifacts", "onedrive", "http"}
  BY DEF BucketServices
<1> QED BY <1>1, <1>2, <1>3, Segments, NoSegment

LEMMA ByEndpoint ==
  ASSUME scheme \in {"dbfs", "pcloud", "webdav", "ftp", "ipfs"}
  PROVE  /\ SegmentOptions(scheme) = <<>>
         /\ \E start \in Word :
              Located.config = {<<"endpoint", <<start>> \o authority>>}
         /\ Located.path = root
<1>1. SegmentOptions(scheme) = <<>>
  BY DEF SegmentOptions
<1>2. \E start \in {"http", "https", "ftp"} :
        AuthorityOptions(uri.prefix, authority) = {<<"endpoint", <<start>> \o authority>>}
  BY DEF scheme, AuthorityOptions, BucketServices, HttpsServices
<1>3. Located = [config |-> AuthorityOptions(uri.prefix, authority), path |-> root]
  BY <1>1, Segments, NoSegment
<1> QED BY <1>1, <1>2, <1>3, Words

LEMMA BySegment ==
  ASSUME scheme \in {"koofr", "seafile", "swift"}
  PROVE  \E name \in {"email", "repo_name", "container"} :
           /\ SegmentOptions(scheme) = <<name>>
           /\ Located.config = {<<"endpoint", <<"https">> \o authority>>, <<name, segment>>}
           /\ Located.path = remainder
<1>1. PICK name \in {"email", "repo_name", "container"} : SegmentOptions(scheme) = <<name>>
  BY DEF SegmentOptions
<1>2. AuthorityOptions(uri.prefix, authority) = {<<"endpoint", <<"https">> \o authority>>}
  BY DEF scheme, AuthorityOptions, BucketServices, HttpsServices
<1>3. Located = [config |-> {<<"endpoint", <<"https">> \o authority>>} \cup {<<name, segment>>},
                 path |-> remainder]
  BY <1>1, <1>2, Segments, OneSegment DEF segment, remainder
<1> QED BY <1>1, <1>3

LEMMA ByHost ==
  ASSUME scheme = "sftp"
  PROVE  /\ SegmentOptions(scheme) = <<>>
         /\ Located.config = {<<"endpoint", authority>>}
         /\ Located.path = root
<1>1. SegmentOptions(scheme) = <<>>
  BY DEF SegmentOptions
<1>2. AuthorityOptions(uri.prefix, authority) = {<<"endpoint", authority>>}
  BY DEF scheme, AuthorityOptions, BucketServices, HttpsServices
<1> QED BY <1>1, <1>2, Segments, NoSegment

LEMMA ByAccount ==
  ASSUME scheme \in {"azdls", "azfile"}
  PROVE  \E name \in {"filesystem", "share_name"} :
           /\ SegmentOptions(scheme) = <<name>>
           /\ Located.config = {<<"endpoint", <<"https">> \o authority>>,
                                 <<"account_name", Cut(authority, ".")[1]>>,
                                 <<name, segment>>}
           /\ Located.path = remainder
<1>1. PICK name \in {"filesystem", "share_name"} : SegmentOptions(scheme) = <<name>>
  BY DEF SegmentOptions
<1>2. AuthorityOptions(uri.prefix, authority)
        = {<<"endpoint", <<"https">> \o authority>>} \cup {<<"account_name", Cut(authority, ".")[1]>>}
  BY DEF scheme, AuthorityOptions, BucketServices, HttpsServices
<1> DEFINE account == {<<"endpoint", <<"https">> \o authority>>}
                      \cup {<<"account_name", Cut(authority, ".")[1]>>}
<1>3. Located = TakeSegments(SegmentOptions(scheme),
                             [config |-> AuthorityOptions(uri.prefix, authority), path |-> root])
  BY Segments
<1>4. AuthorityOptions(uri.prefix, authority) = account
  BY <1>2
<1> HIDE DEF account
<1>5. Located = TakeSegments(<<name>>, [config |-> account, path |-> root])
  BY <1>1, <1>3, <1>4
<1>6. Located = [config |-> account \cup {<<name, segment>>}, path |-> remainder]
  BY <1>5, OneSegment DEF segment, remainder
<1>7. /\ Located.config = account \cup {<<name, segment>>}
      /\ Located.path = remainder
  BY <1>6
<1> QED BY <1>1, <1>7 DEF account

LEMMA ByOwner ==
  ASSUME scheme = "github"
  PROVE  /\ SegmentOptions(scheme) = <<"repo">>
         /\ Located.config = {<<"owner", authority>>, <<"repo", segment>>}
         /\ Located.path = remainder
<1>1. SegmentOptions(scheme) = <<"repo">>
  BY DEF SegmentOptions
<1>2. AuthorityOptions(uri.prefix, authority) = {<<"owner", authority>>}
  BY DEF scheme, AuthorityOptions, BucketServices, HttpsServices
<1>3. Located = [config |-> {<<"owner", authority>>} \cup {<<"repo", segment>>},
                 path |-> remainder]
  BY <1>1, <1>2, Segments, OneSegment DEF segment, remainder
<1> QED BY <1>3, <1>1

LEMMA ByBranch ==
  ASSUME scheme = "lakefs"
  PROVE  /\ SegmentOptions(scheme) = <<"repository", "branch">>
         /\ Located.config = {<<"endpoint", <<"https">> \o authority>>,
                               <<"repository", segment>>,
                               <<"branch", Cut(remainder, "/")[1]>>}
         /\ Located.path = Cut(remainder, "/")[2]
<1>1. SegmentOptions(scheme) = <<"repository", "branch">>
  BY DEF SegmentOptions
<1>2. AuthorityOptions(uri.prefix, authority) = {<<"endpoint", <<"https">> \o authority>>}
  BY DEF scheme, AuthorityOptions, BucketServices, HttpsServices
<1>3. Located = [config |-> ({<<"endpoint", <<"https">> \o authority>>} \cup {<<"repository", segment>>})
                             \cup {<<"branch", Cut(remainder, "/")[1]>>},
                 path |-> Cut(remainder, "/")[2]]
  <2>1. Located = TakeSegments(<<"repository", "branch">>,
                     [config |-> {<<"endpoint", <<"https">> \o authority>>}, path |-> root])
    BY <1>1, <1>2, Segments
  <2> QED BY <2>1, TwoSegments DEF segment, remainder
<1> QED BY <1>3, <1>1

\* Services with one drive for each secret.
LEMMA ByDrive ==
  ASSUME scheme \in RootOnlyServices \cup {"onedrive"}
  PROVE  /\ Located.config = {}
         /\ Located.path = root \/ Located.path = remainder
         /\ scheme # "onedrive" => Located.path = root /\ SegmentOptions(scheme) = <<>>
<1>1. AuthorityOptions(uri.prefix, authority) = {}
  BY DEF scheme, AuthorityOptions, BucketServices, HttpsServices, RootOnlyServices
<1>2. CASE scheme = "onedrive"
  <2>1. Located = [config |-> AuthorityOptions(uri.prefix, authority), path |-> remainder]
    BY <1>2 DEF Located, TryParse, Apply, HuggingFace, WholePath, scheme, authority, root, remainder
  <2> QED BY <1>1, <1>2, <2>1
<1>3. CASE scheme \in RootOnlyServices
  <2>1. SegmentOptions(scheme) = <<>>
    BY <1>3 DEF SegmentOptions, RootOnlyServices
  <2>2. scheme \notin {"hf", "huggingface", "memory", "fs", "vercel-artifacts", "onedrive", "http"}
    BY <1>3 DEF RootOnlyServices
  <2> QED BY <1>1, <1>3, <2>1, <2>2, Segments, NoSegment
<1> QED BY <1>2, <1>3

LEMMA ByPath ==
  ASSUME WholePath(scheme)
  PROVE  /\ Located.config = {}
         /\ Located.path = PathWithAuthority(Parse(uri.text))
<1>1. AuthorityOptions(uri.prefix, authority) = {}
  BY DEF scheme, AuthorityOptions, BucketServices, HttpsServices, WholePath
<1> QED BY <1>1 DEF Located, TryParse, Apply, HuggingFace, WholePath, scheme, authority

LEMMA ByPage ==
  ASSUME Typed, scheme = "http"
  PROVE  /\ SegmentOptions(scheme) = <<>>
         /\ \E start \in Word :
              Located.config = {<<"endpoint", <<start>> \o authority>>}
         /\ Located.path = IF RawOnGitHub(Parse(uri.text)) THEN RawPath(root) ELSE root
<1>1. SegmentOptions(scheme) = <<>>
  BY DEF SegmentOptions
<1>2. AuthorityOptions(uri.prefix, authority) = {<<"endpoint", <<uri.prefix>> \o authority>>}
  BY DEF scheme, AuthorityOptions, BucketServices, HttpsServices
<1>3. uri.prefix \in Word
  BY Words DEF Typed
<1>4. CASE RawOnGitHub(Parse(uri.text))
  <2>1. Located = [config |-> AuthorityOptions(uri.prefix, authority), path |-> RawPath(root)]
    BY <1>4 DEF Located, TryParse, Apply, HuggingFace, WholePath, scheme, authority, root
  <2> QED BY <1>1, <1>2, <1>3, <1>4, <2>1
<1>5. CASE ~RawOnGitHub(Parse(uri.text))
  <2>1. Located = TakeSegments(SegmentOptions(scheme),
                     [config |-> AuthorityOptions(uri.prefix, authority), path |-> root])
    BY <1>5 DEF Located, TryParse, Apply, HuggingFace, WholePath, scheme, authority, root
  <2> QED BY <1>1, <1>2, <1>3, <1>5, <2>1, NoSegment
<1> QED BY <1>4, <1>5

repository == Cut(remainder, "/")[1]

LEMMA ByRepository ==
  ASSUME scheme \in HuggingFace
  PROVE  /\ Located.path = Cut(remainder, "/")[2]
         /\ \E kind \in {"dataset", "space", "model"} :
              /\ kind = "dataset" <=> authority = <<"datasets">>
              /\ kind = "space" <=> authority = <<"spaces">>
              /\ Located.config
                   = {<<"repo_type", kind>>,
                      <<"repo_id", segment \o <<"/">> \o Cut(repository, "@")[1]>>}
                       \cup IF Contains(repository, "@")
                            THEN {<<"revision", Cut(repository, "@")[2]>>} ELSE {}
<1>1. Located = ApplyHuggingFace(Parse(uri.text))
  BY DEF Located, TryParse, Apply, HuggingFace, WholePath, scheme
<1>2. <<"datasets">> # <<"spaces">>
  OBVIOUS
<1>3. PICK kind \in {"dataset", "space", "model"} :
        /\ kind = "dataset" <=> authority = <<"datasets">>
        /\ kind = "space" <=> authority = <<"spaces">>
        /\ kind = CASE authority = <<"datasets">> -> "dataset"
                    [] authority = <<"spaces">> -> "space"
                    [] OTHER -> "model"
  BY <1>2
<1> DEFINE config == {<<"repo_type", kind>>,
                      <<"repo_id", segment \o <<"/">> \o Cut(repository, "@")[1]>>}
                       \cup IF Contains(repository, "@")
                            THEN {<<"revision", Cut(repository, "@")[2]>>} ELSE {}
<1>4. Located = [config |-> config, path |-> Cut(remainder, "/")[2]]
  BY <1>1, <1>3 DEF ApplyHuggingFace, authority, root, segment, remainder, repository
<1> QED BY <1>3, <1>4

-----------------------------------------------------------------------------
(* The options are named once. *)

Once == \A o, p \in Located.config : o[1] = p[1] => o = p

LEMMA ThreeNames ==
  ASSUME NEW a, NEW b, NEW c, NEW x, NEW y, NEW z, a # b, b # c, a # c,
         Located.config \subseteq {<<a, x>>, <<b, y>>, <<c, z>>}
  PROVE  Once
BY DEF Once

LEMMA NamedOnce ==
  ASSUME Typed
  PROVE  Once
<1>1. CASE scheme \in BucketServices \cup {"azblob", "aliyun-drive"}
  BY <1>1, ByAuthority DEF Once
<1>2. CASE scheme \in {"dbfs", "pcloud", "webdav", "ftp", "ipfs"}
  <2>1. PICK v : Located.config = {<<"endpoint", v>>}
    BY <1>2, ByEndpoint
  <2> QED BY <2>1 DEF Once
<1>3. CASE scheme \in {"koofr", "seafile", "swift"}
  BY <1>3, BySegment DEF Once
<1>4. CASE scheme = "sftp"
  BY <1>4, ByHost DEF Once
<1>5. CASE scheme \in {"azdls", "azfile"}
  <2>1. PICK name \in {"filesystem", "share_name"} :
          \E v : Located.config = {<<"endpoint", v>>, <<"account_name", Cut(authority, ".")[1]>>,
                                   <<name, segment>>}
    BY <1>5, ByAccount
  <2>2. PICK v : Located.config = {<<"endpoint", v>>, <<"account_name", Cut(authority, ".")[1]>>,
                                   <<name, segment>>}
    BY <2>1
  <2>3. "endpoint" # "account_name" /\ "account_name" # name /\ "endpoint" # name
    BY <2>1
  <2> QED BY <2>2, <2>3, ThreeNames
<1>6. CASE scheme = "github"
  BY <1>6, ByOwner DEF Once
<1>7. CASE scheme = "lakefs"
  <2>1. PICK v : Located.config = {<<"endpoint", v>>, <<"repository", segment>>,
                                   <<"branch", Cut(remainder, "/")[1]>>}
    BY <1>7, ByBranch
  <2> QED BY <2>1, ThreeNames
<1>8. CASE scheme \in RootOnlyServices \cup {"onedrive"}
  BY <1>8, ByDrive DEF Once
<1>9. CASE WholePath(scheme)
  BY <1>9, ByPath DEF Once
<1>10. CASE scheme = "http"
  BY <1>10, ByPage DEF Once
<1>11. CASE scheme \in HuggingFace
  <2>1. PICK kind, id : Located.config \subseteq {<<"repo_type", kind>>, <<"repo_id", id>>,
                                                  <<"revision", Cut(repository, "@")[2]>>}
    BY <1>11, ByRepository
  <2> QED BY <2>1, ThreeNames
<1> QED BY <1>1, <1>2, <1>3, <1>4, <1>5, <1>6, <1>7, <1>8, <1>9, <1>10, <1>11, Services
        DEF Unaliased, BucketServices, RootOnlyServices, WholePath, HuggingFace

LEMMA ValueOf ==
  ASSUME Once, NEW name, NEW v, <<name, v>> \in Located.config
  PROVE  name \in Names /\ Value(name) = v
<1>1. name \in Names
  BY DEF Names
<1>2. \E o \in Located.config : o[1] = name
  OBVIOUS
<1>3. PICK o \in Located.config : o[1] = name /\ Value(name) = o[2]
  BY <1>2 DEF Value
<1>4. o = <<name, v>>
  BY <1>3 DEF Once
<1> QED BY <1>1, <1>3, <1>4

-----------------------------------------------------------------------------
(* A path is what is left of the URI. *)

LEMMA Lengths == \A t \in Text : Len(t) \in Nat /\ (t = <<>> <=> Len(t) = 0)
BY LenProperties, EmptySeq DEF Text

LEMMA Parts ==
  ASSUME Typed
  PROVE  /\ uri.text \in Text /\ authority \in Text /\ root \in Text
         /\ segment \in Text /\ remainder \in Text /\ repository \in Text
         /\ Cut(remainder, "/")[2] \in Text
         /\ Len(remainder) <= Len(root) /\ Len(Cut(remainder, "/")[2]) <= Len(remainder)
<1>1. uri.text \in Text
  BY DEF Typed
<1>2. authority \in Text /\ root \in Text
  BY ParseParts DEF authority, root
<1>3. segment \in Text /\ remainder \in Text /\ Len(remainder) <= Len(root)
  BY <1>2, CutTyped DEF segment, remainder
<1>4. repository \in Text /\ Cut(remainder, "/")[2] \in Text
        /\ Len(Cut(remainder, "/")[2]) <= Len(remainder)
  BY <1>3, CutTyped DEF repository
<1> QED BY <1>1, <1>2, <1>3, <1>4

LEMMA RawPathTyped ==
  ASSUME NEW text \in Text
  PROVE  /\ RawPath(text) \in Text /\ Len(RawPath(text)) = Len(text)
         /\ Blobs(text) # {} =>
              /\ Min(Blobs(text)) \in Blobs(text)
              /\ \A i \in Blobs(text) : Min(Blobs(text)) <= i
              /\ \A i \in 1 .. Len(text) :
                   RawPath(text)[i] = IF i = Min(Blobs(text)) + 1 THEN "raw" ELSE text[i]
<1>1. CASE Blobs(text) = {}
  BY <1>1 DEF RawPath
<1>2. CASE Blobs(text) # {}
  <2> DEFINE b == Min(Blobs(text))
  <2>1. b \in Blobs(text) /\ \A i \in Blobs(text) : b <= i
    <3>1. Blobs(text) \subseteq Nat
      BY DEF Blobs
    <3> QED BY <1>2, <3>1, FirstOf
  <2>2. RawPath(text) = [text EXCEPT ![b + 1] = "raw"]
    BY <1>2 DEF RawPath
  <2> HIDE DEF b
  <2>3. b + 1 \in 1 .. Len(text)
    BY <2>1, Lengths DEF Blobs
  <2>4. "raw" \in Word
    BY Words
  <2>5. /\ RawPath(text) \in Text /\ Len(RawPath(text)) = Len(text)
        /\ \A i \in 1 .. Len(text) : RawPath(text)[i] = IF i = b + 1 THEN "raw" ELSE text[i]
    BY <2>2, <2>3, <2>4, ExceptSeq DEF Text
  <2> QED BY <2>1, <2>5 DEF b
<1> QED BY <1>1, <1>2

LEMMA EndOfConcat ==
  ASSUME NEW a \in Text, NEW b \in Text, b # <<>>
  PROVE  a \o b # <<>> /\ (EndsInSlash(a \o b) <=> EndsInSlash(b))
<1>1. Len(a) \in Nat /\ Len(b) \in Nat \ {0}
  BY Lengths
<1>2. a \o b \in Text /\ Len(a \o b) = Len(a) + Len(b)
  BY ConcatProperties DEF Text
<1>3. (a \o b)[Len(a) + Len(b)] = b[Len(b)]
  <2>1. Len(a) + Len(b) \in 1 .. Len(a) + Len(b) /\ ~(Len(a) + Len(b) <= Len(a))
        /\ (Len(a) + Len(b)) - Len(a) = Len(b)
    BY <1>1
  <2> QED BY <2>1, ConcatProperties DEF Text
<1>4. a \o b # <<>>
  BY <1>1, <1>2, Lengths
<1> QED BY <1>2, <1>3, <1>4 DEF EndsInSlash, Last

LEMMA Slash == <<"/">> \in Text /\ Len(<<"/">>) = 1 /\ EndsInSlash(<<"/">>)
BY Words DEF Text, EndsInSlash, Last

\* The path that holds the authority is the text itself, unless there is a query.
LEMMA WholePathLocation ==
  ASSUME Typed
  PROVE  LET path == PathWithAuthority(Parse(uri.text)) IN
         /\ path \in Text
         /\ Len(path) <= Len(uri.text)
         /\ path # <<>> /\ ~HasQuery => path = Written
<1> DEFINE text == uri.text
           rest == Cut(text, "/")[2]
           path == PathWithAuthority(Parse(text))
           bare == authority \o (IF root = <<>> THEN <<>> ELSE <<"/">> \o root)
           trailing == TrailingSlash(text)
<1>1. /\ text \in Text /\ authority \in Text /\ root \in Text /\ rest \in Text
      /\ Len(text) \in Nat /\ Len(authority) \in Nat /\ Len(root) \in Nat
      /\ Len(rest) \in Nat
  BY Parts, CutTyped, Lengths
<1>2. path = bare \o (IF trailing /\ bare # <<>> /\ ~EndsInSlash(bare) THEN <<"/">> ELSE <<>>)
  BY DEF PathWithAuthority, Parse, authority, root
<1>3. /\ Contains(text, "/") => /\ Written = authority \o <<"/">> \o root
                               /\ Len(authority) + 1 + Len(root) <= Len(text)
      /\ ~Contains(text, "/") => Written = authority /\ authority = text /\ root = <<>>
  BY ParseParts DEF authority, root
<1>4. authority = Cut(text, "/")[1] /\ root = Decode(Cut(rest, "?")[1])
        /\ (HasQuery <=> Contains(rest, "?"))
  BY DEF authority, root, Parse, HasQuery
<1>5. ~EndsInSlash(authority)
  <2> HIDE DEF text
  <2>1. ~Contains(authority, "/")
    <3>1. CASE Contains(text, "/")
      BY <1>1, <1>4, <3>1, CutFound
    <3>2. CASE ~Contains(text, "/")
      BY <1>4, <3>2, CutMissing
    <3> QED BY <3>1, <3>2
  <2> QED BY <1>1, <2>1, Lengths DEF EndsInSlash, Last, Contains
<1>6. <<>> \in Text /\ Len(<<>>) = 0
  BY Lengths, EmptySeq DEF Text
<1> HIDE DEF text, rest, path, bare, trailing
\* No slash follows what stands for itself.
<1>7. ASSUME ~(trailing /\ bare # <<>> /\ ~EndsInSlash(bare)), bare \in Text PROVE path = bare
  BY <1>2, <1>7, ConcatEmptySeq DEF Text
<1>8. CASE ~Contains(text, "/")
  <2>1. bare = text
    BY <1>1, <1>3, <1>8, ConcatEmptySeq DEF bare, Text
  <2>2. trailing => bare = <<>>
    BY <1>3, <1>5, <1>8, <2>1 DEF trailing, TrailingSlash
  <2>3. path = text
    BY <1>1, <1>7, <2>1, <2>2
  <2> QED BY <1>1, <1>3, <1>8, <2>3 DEF text, path
<1>9. CASE Contains(text, "/") /\ root = <<>>
  <2>1. bare = authority
    BY <1>1, <1>9, ConcatEmptySeq DEF bare, Text
  <2>2. Written = authority \o <<"/">>
    <3>1. authority \o <<"/">> \in Text
      BY <1>1, Slash, ConcatProperties DEF Text
    <3> QED BY <1>3, <1>9, <3>1, ConcatEmptySeq DEF Text
  <2>3. path = authority \/ path = authority \o <<"/">>
    BY <1>1, <1>2, <1>7, <2>1
  <2>4. /\ authority \o <<"/">> \in Text /\ Len(authority \o <<"/">>) = Len(authority) + 1
        /\ authority \o <<"/">> # <<>> /\ EndsInSlash(authority \o <<"/">>)
    <3>1. /\ authority \o <<"/">> \in Text
          /\ Len(authority \o <<"/">>) = Len(authority) + 1
      BY <1>1, Slash, ConcatProperties DEF Text
    <3>2. <<"/">> # <<>>
      BY Slash, Lengths
    <3> QED BY <1>1, <3>1, <3>2, Slash, EndOfConcat
  <2>5. path \in Text /\ Len(path) <= Len(text)
    <3>1. Len(authority) + 1 <= Len(text)
      BY <1>1, <1>3, <1>6, <1>9
    <3>2. CASE path = authority
      BY <1>1, <3>1, <3>2
    <3>3. CASE path = authority \o <<"/">>
      BY <2>4, <3>1, <3>3
    <3> QED BY <2>3, <3>2, <3>3
  <2>6. ASSUME ~HasQuery, path # <<>> PROVE path = Written
    <3>1. root = Decode(rest)
      BY <1>4, <2>6, CutMissing
    <3>2. rest = <<>>
      BY <1>1, <1>6, <1>9, <3>1, DecodeTyped, Lengths
    <3>3. text = authority \o <<"/">>
      <4>1. text = (authority \o <<"/">>) \o rest
        BY <1>1, <1>4, <1>9, CutFound DEF rest
      <4> QED BY <2>4, <3>2, <4>1, ConcatEmptySeq DEF Text
    <3>4. trailing
      BY <2>4, <3>3 DEF trailing, TrailingSlash
    <3>5. bare # <<>>
      BY <1>1, <1>7, <2>1, <2>6
    <3> QED BY <1>2, <1>5, <2>1, <2>2, <3>4, <3>5
  <2> QED BY <2>5, <2>6 DEF text, path
<1>10. CASE Contains(text, "/") /\ root # <<>>
  <2>1. bare = authority \o (<<"/">> \o root)
    BY <1>10 DEF bare
  <2>2. bare = Written
    <3>1. (authority \o <<"/">>) \o root = authority \o (<<"/">> \o root)
      BY <1>1, Slash, ConcatAssociative DEF Text
    <3> QED BY <1>3, <1>10, <2>1, <3>1
  <2>3. <<"/">> \o root \in Text /\ Len(<<"/">> \o root) = 1 + Len(root)
          /\ <<"/">> \o root # <<>> /\ (EndsInSlash(<<"/">> \o root) <=> EndsInSlash(root))
    BY <1>1, <1>10, Slash, EndOfConcat, ConcatProperties DEF Text
  <2>4. /\ bare \in Text /\ Len(bare) = Len(authority) + 1 + Len(root) /\ bare # <<>>
        /\ (EndsInSlash(bare) <=> EndsInSlash(root))
    <3>1. Len(bare) = Len(authority) + (1 + Len(root))
      BY <1>1, <2>1, <2>3, ConcatProperties DEF Text
    <3>2. bare \in Text /\ bare # <<>> /\ (EndsInSlash(bare) <=> EndsInSlash(root))
      BY <1>1, <2>1, <2>3, EndOfConcat, ConcatProperties DEF Text
    <3> QED BY <1>1, <3>1, <3>2
  \* A last slash is missing only where a query was cut off.
  <2>5. ASSUME trailing, ~EndsInSlash(root) PROVE Contains(rest, "?")
    <3> SUFFICES ASSUME ~Contains(rest, "?") PROVE FALSE
      OBVIOUS
    <3>1. root = Decode(rest)
      BY <1>4, CutMissing
    <3>2. rest # <<>>
      BY <1>1, <1>6, <1>10, <3>1, DecodeTyped, Lengths
    <3>3. text = (authority \o <<"/">>) \o rest
      BY <1>1, <1>4, <1>10, CutFound DEF rest
    <3>4. authority \o <<"/">> \in Text
      BY <1>1, Slash, ConcatProperties DEF Text
    <3>5. text # <<>> /\ (EndsInSlash(text) <=> EndsInSlash(rest))
      BY <1>1, <3>2, <3>3, <3>4, EndOfConcat
    <3>6. EndsInSlash(rest)
      BY <2>5, <3>5 DEF trailing, TrailingSlash
    <3> QED BY <1>1, <2>5, <3>1, <3>6, DecodeTyped
  <2>6. CASE trailing /\ ~EndsInSlash(root)
    <3>1. path = bare \o <<"/">>
      BY <1>2, <2>4, <2>6
    <3>2. path \in Text /\ Len(path) = Len(bare) + 1
      BY <2>4, <3>1, Slash, ConcatProperties DEF Text
    <3>3. Len(root) < Len(rest)
      <4> DEFINE plain == Cut(rest, "?")[1]
                 query == Cut(rest, "?")[2]
      <4>1. plain \in Text /\ query \in Text /\ Len(rest) = Len(plain) + 1 + Len(query)
        BY <1>1, <2>5, <2>6, CutFound
      <4>2. Len(root) = Len(plain)
        BY <1>4, <4>1, DecodeTyped
      <4> HIDE DEF plain, query
      <4>3. Len(plain) \in Nat /\ Len(query) \in Nat
        BY <4>1, Lengths
      <4> QED BY <1>1, <4>1, <4>2, <4>3
    <3>4. Len(text) = Len(authority) + 1 + Len(rest)
      BY <1>1, <1>4, <1>10, CutFound DEF rest
    <3>5. Len(path) <= Len(text)
      BY <1>1, <2>4, <3>2, <3>3, <3>4
    <3> QED BY <1>4, <2>5, <2>6, <3>2, <3>5 DEF text, path
  <2>7. CASE ~(trailing /\ ~EndsInSlash(root))
    <3>1. path = bare
      BY <1>7, <2>4, <2>7
    <3>2. Len(path) <= Len(text)
      BY <1>3, <1>10, <2>4, <3>1
    <3> QED BY <2>2, <2>4, <3>1, <3>2 DEF text, path
  <2> QED BY <2>6, <2>7
<1> QED BY <1>8, <1>9, <1>10

-----------------------------------------------------------------------------
(* The location spells the URI. *)

Cat(t, v) == t \o v

LEMMA Associative ==
  /\ \A t, v \in Text : Cat(t, v) \in Text
  /\ \A t, v, w \in Text : Cat(Cat(t, v), w) = Cat(t, Cat(v, w))
<1>1. ASSUME NEW t \in Text, NEW v \in Text PROVE Cat(t, v) \in Text
  BY ConcatProperties DEF Text, Cat
<1>2. ASSUME NEW t \in Text, NEW v \in Text, NEW w \in Text
      PROVE  Cat(Cat(t, v), w) = Cat(t, Cat(v, w))
  BY ConcatAssociative DEF Text, Cat
<1> QED BY <1>1, <1>2

LEMMA Join ==
  ASSUME NEW a \in Text, NEW s \in Text, NEW g \in Text, NEW m \in Text
  PROVE  Cat(Cat(Cat(a, Cat(s, g)), s), m) = Cat(Cat(a, s), Cat(Cat(g, s), m))
BY Associative

\* Two segments.
LEMMA JoinTwo ==
  ASSUME NEW a \in Text, NEW s \in Text, NEW g \in Text, NEW h \in Text, NEW m \in Text
  PROVE  Cat(Cat(Cat(a, Cat(Cat(Cat(s, g), s), h)), s), m)
           = Cat(Cat(a, s), Cat(Cat(g, s), Cat(Cat(h, s), m)))
<1> DEFINE both == Cat(Cat(g, s), h)
<1>1. both \in Text /\ Cat(Cat(Cat(s, g), s), h) = Cat(s, both)
  <2>1. Cat(g, s) \in Text /\ Cat(s, g) \in Text
    BY Associative
  <2>2. Cat(Cat(Cat(s, g), s), h) = Cat(Cat(s, g), Cat(s, h))
    BY <2>1, Associative
  <2>3. Cat(Cat(s, g), Cat(s, h)) = Cat(s, Cat(g, Cat(s, h)))
    BY Associative
  <2>4. Cat(g, Cat(s, h)) = both
    BY Associative
  <2> QED BY <2>1, <2>2, <2>3, <2>4, Associative
<1>2. Cat(Cat(both, s), m) = Cat(Cat(g, s), Cat(Cat(h, s), m))
  BY Associative
<1> HIDE DEF both
<1>3. Cat(Cat(Cat(a, Cat(s, both)), s), m) = Cat(Cat(a, s), Cat(Cat(both, s), m))
  BY <1>1, Join
<1> QED BY <1>1, <1>2, <1>3

\* The authority, a slash, and the root: with the segments that are options in it.
Whole(path, segments) == authority \o segments \o <<"/">> \o path

LEMMA Slashed ==
  ASSUME Typed, root # <<>>
  PROVE  Written = authority \o <<"/">> \o root
BY ParseParts DEF authority, root

LEMMA WholeRoot ==
  ASSUME Typed, root # <<>>
  PROVE  Whole(root, <<>>) = Written
<1>1. authority \o <<>> = authority
  BY Parts, ConcatEmptySeq DEF Text
<1> QED BY <1>1, Slashed DEF Whole

LEMMA WholeSegment ==
  ASSUME Typed, remainder # <<>>
  PROVE  /\ root # <<>>
         /\ Whole(remainder, <<"/">> \o segment) = Written
<1>1. /\ authority \in Text /\ segment \in Text /\ remainder \in Text /\ root \in Text
      /\ Contains(root, "/")
  BY Parts, CutTyped DEF remainder
<1>2. root = segment \o <<"/">> \o remainder
  BY <1>1, CutFound DEF segment, remainder
<1>3. root # <<>>
  <2>1. Len(remainder) <= Len(root) /\ Len(remainder) # 0
    BY <1>1, Parts, Lengths
  <2> QED BY <1>1, <2>1, Lengths
<1> DEFINE s == <<"/">>
<1>4. s \in Text
  BY Slash
<1> HIDE DEF s
<1>5. Cat(Cat(Cat(authority, Cat(s, segment)), s), remainder)
        = Cat(Cat(authority, s), Cat(Cat(segment, s), remainder))
  BY <1>1, <1>4, Join
<1>6. Whole(remainder, <<"/">> \o segment)
        = authority \o <<"/">> \o (segment \o <<"/">> \o remainder)
  BY <1>5 DEF Whole, Cat, s
<1> QED BY <1>2, <1>3, <1>6, Slashed

LEMMA WholeSegments ==
  ASSUME Typed, Cut(remainder, "/")[2] # <<>>
  PROVE  /\ root # <<>> /\ remainder # <<>>
         /\ Whole(Cut(remainder, "/")[2], <<"/">> \o segment \o <<"/">> \o repository) = Written
<1> DEFINE path == Cut(remainder, "/")[2]
           s == <<"/">>
<1>1. /\ authority \in Text /\ segment \in Text /\ remainder \in Text /\ root \in Text
      /\ path \in Text /\ repository \in Text /\ s \in Text
      /\ Contains(remainder, "/")
  BY Parts, CutTyped, Slash
<1>2. remainder = repository \o s \o path
  BY <1>1, CutFound DEF repository
<1>3. remainder # <<>>
  <2>1. Len(path) <= Len(remainder) /\ Len(path) # 0
    BY <1>1, Parts, Lengths
  <2> QED BY <1>1, <2>1, Lengths
<1>4. Contains(root, "/")
  BY <1>1, <1>3, CutTyped DEF remainder
<1>5. root = segment \o s \o remainder
  BY <1>1, <1>4, CutFound DEF segment, remainder
<1>6. root # <<>>
  BY <1>3, WholeSegment
<1>7. Whole(path, s \o segment \o s \o repository)
        = authority \o s \o (segment \o s \o (repository \o s \o path))
  <2> HIDE DEF s, path
  <2>1. Cat(Cat(Cat(authority, Cat(Cat(Cat(s, segment), s), repository)), s), path)
          = Cat(Cat(authority, s), Cat(Cat(segment, s), Cat(Cat(repository, s), path)))
    BY <1>1, JoinTwo
  <2> QED BY <2>1 DEF Whole, Cat, s
<1> QED BY <1>2, <1>3, <1>5, <1>6, <1>7, Slashed

\* The options give the authority back.
LEMMA TailOfStart ==
  ASSUME NEW start \in Word, NEW text \in Text
  PROVE  Tail(<<start>> \o text) = text
<1>1. <<start>> \in Text /\ Len(<<start>>) = 1
  BY DEF Text
<1> DEFINE all == <<start>> \o text
<1>2. /\ all \in Text /\ Len(all) = 1 + Len(text)
      /\ \A i \in 1 .. 1 + Len(text) : all[i] = IF i <= 1 THEN <<start>>[i] ELSE text[i - 1]
  BY <1>1, ConcatProperties DEF Text
<1>3. Len(text) \in Nat
  BY Lengths
<1> HIDE DEF all
<1>4. all # <<>>
  BY <1>2, <1>3, Lengths
<1>5. Tail(all) \in Text /\ Len(Tail(all)) = Len(all) - 1
        /\ \A i \in 1 .. Len(Tail(all)) : Tail(all)[i] = all[i + 1]
  BY <1>2, <1>4, HeadTailProperties DEF Text
<1>6. Len(Tail(all)) = Len(text)
  BY <1>2, <1>3, <1>5
<1>7. \A i \in 1 .. Len(text) : Tail(all)[i] = text[i]
  BY <1>2, <1>3, <1>5, <1>6
<1>8. Tail(all) = text
  BY <1>5, <1>6, <1>7, SeqEqual DEF Text
<1> QED BY <1>8 DEF all

LEMMA SpelledEndpoint ==
  ASSUME Typed, Once, scheme # "sftp", "repo_type" \notin Names,
         NEW start \in Word, <<"endpoint", <<start>> \o authority>> \in Located.config
  PROVE  SpelledAuthority = authority
<1>1. "endpoint" \in Names /\ Value("endpoint") = <<start>> \o authority
  BY ValueOf
<1>2. Tail(Value("endpoint")) = authority
  BY <1>1, Parts, TailOfStart
<1> QED BY <1>1, <1>2 DEF SpelledAuthority, scheme, authority

LEMMA SpelledName ==
  ASSUME Typed, Once, scheme # "sftp", "repo_type" \notin Names, "endpoint" \notin Names,
         NEW name \in {"bucket", "container", "drive_type", "owner"},
         \A n \in {"bucket", "container", "drive_type", "owner"} \ {name} : n \notin Names,
         <<name, authority>> \in Located.config
  PROVE  SpelledAuthority = authority
<1>1. name \in Names /\ Value(name) = authority
  BY ValueOf
<1>2. (CHOOSE n \in {"bucket", "container", "drive_type", "owner"} : n \in Names) = name
  BY <1>1
<1> QED BY <1>1, <1>2 DEF SpelledAuthority, scheme, authority

\* Hence each kind of service spells its URIs.
LEMMA NamesOf ==
  ASSUME NEW a, NEW b, NEW c, NEW x, NEW y, NEW z,
         Located.config \subseteq {<<a, x>>, <<b, y>>, <<c, z>>}
  PROVE  Names \subseteq {a, b, c}
BY DEF Names

Spells == Spelled = Written

LEMMA SpelledPlain ==
  ASSUME Typed, ~WholePath(scheme), "repo_id" \notin Names, SegmentOptions(scheme) = <<>>,
         Located.path = root, root # <<>>, SpelledAuthority = authority
  PROVE  Spells
<1>1. SpelledSegments = <<>>
  BY DEF SpelledSegments, scheme
<1>2. Spelled = Whole(root, <<>>)
  BY <1>1 DEF Spelled, Whole, scheme
<1> QED BY <1>2, WholeRoot DEF Spells

LEMMA SpelledOne ==
  ASSUME Typed, ~WholePath(scheme), "repo_id" \notin Names, NEW name,
         SegmentOptions(scheme) = <<name>>, Value(name) = segment,
         Located.path = remainder, remainder # <<>>, SpelledAuthority = authority
  PROVE  Spells
<1>1. SpelledSegments = <<"/">> \o segment
  BY DEF SpelledSegments, scheme
<1>2. Spelled = Whole(remainder, <<"/">> \o segment)
  BY <1>1 DEF Spelled, Whole, scheme
<1> QED BY <1>2, WholeSegment DEF Spells

LEMMA SpellsByAuthority ==
  ASSUME Typed, Located.path # <<>>, scheme \in BucketServices \cup {"azblob", "aliyun-drive"}
  PROVE  Spells
<1>1. PICK name \in {"bucket", "container", "drive_type"} :
        Located.config = {<<name, authority>>}
  BY ByAuthority
<1>2. Names = {name}
  BY <1>1 DEF Names
<1>3. SpelledAuthority = authority
  <2>1. scheme # "sftp"
    BY DEF BucketServices
  <2>2. /\ name \in {"bucket", "container", "drive_type", "owner"}
        /\ \A n \in {"bucket", "container", "drive_type", "owner"} \ {name} : n \notin Names
        /\ "repo_type" \notin Names /\ "endpoint" \notin Names
    BY <1>2
  <2>3. <<name, authority>> \in Located.config
    BY <1>1
  <2> QED BY <2>1, <2>2, <2>3, NamedOnce, SpelledName
<1>4. ~WholePath(scheme)
  BY DEF BucketServices, WholePath
<1>5. "repo_id" \notin Names
  BY <1>2
<1> QED BY <1>3, <1>4, <1>5, ByAuthority, SpelledPlain

LEMMA SpellsByEndpoint ==
  ASSUME Typed, Located.path # <<>>,
         \/ scheme \in {"dbfs", "pcloud", "webdav", "ftp", "ipfs"}
         \/ scheme = "http" /\ ~RawOnGitHub(Parse(uri.text))
  PROVE  Spells
<1>1. /\ SegmentOptions(scheme) = <<>> /\ Located.path = root
      /\ \E start \in Word : Located.config = {<<"endpoint", <<start>> \o authority>>}
  BY ByEndpoint, ByPage
<1>2. PICK start \in Word : Located.config = {<<"endpoint", <<start>> \o authority>>}
  BY <1>1
<1>3. Names = {"endpoint"}
  BY <1>2 DEF Names
<1>4. scheme # "sftp" /\ ~WholePath(scheme)
  BY DEF WholePath
<1>5. <<"endpoint", <<start>> \o authority>> \in Located.config
  BY <1>2
<1>6. "repo_type" \notin Names /\ "repo_id" \notin Names
  BY <1>3
<1>7. SpelledAuthority = authority
  BY <1>4, <1>5, <1>6, NamedOnce, SpelledEndpoint
<1> QED BY <1>1, <1>4, <1>6, <1>7, SpelledPlain

LEMMA SpellsByHost ==
  ASSUME Typed, Located.path # <<>>, scheme = "sftp"
  PROVE  Spells
<1>1. Located.config = {<<"endpoint", authority>>}
  BY ByHost
<1>2. Names = {"endpoint"}
  BY <1>1 DEF Names
<1>3. <<"endpoint", authority>> \in Located.config
  BY <1>1
<1>4. Value("endpoint") = authority
  BY <1>3, NamedOnce, ValueOf
<1>5. SpelledAuthority = authority
  <2>1. "repo_type" \notin Names
    BY <1>2
  <2> QED BY <1>4, <2>1 DEF SpelledAuthority, scheme, authority
<1>6. ~WholePath(scheme) /\ "repo_id" \notin Names
  BY <1>2 DEF WholePath
<1> QED BY <1>5, <1>6, ByHost, SpelledPlain

LEMMA SpellsBySegment ==
  ASSUME Typed, Located.path # <<>>, scheme \in {"koofr", "seafile", "swift"}
  PROVE  Spells
<1>1. PICK name \in {"email", "repo_name", "container"} :
        /\ SegmentOptions(scheme) = <<name>>
        /\ Located.config = {<<"endpoint", <<"https">> \o authority>>, <<name, segment>>}
        /\ Located.path = remainder
  BY BySegment
<1>2. Names = {"endpoint", name}
  BY <1>1 DEF Names
<1>3. /\ <<"endpoint", <<"https">> \o authority>> \in Located.config
      /\ <<name, segment>> \in Located.config
  BY <1>1
<1>4. scheme # "sftp" /\ ~WholePath(scheme) /\ "repo_type" \notin Names /\ "repo_id" \notin Names
  BY <1>2 DEF WholePath
<1>5. "https" \in Word
  BY Words
<1>6. SpelledAuthority = authority
  BY <1>3, <1>4, <1>5, NamedOnce, SpelledEndpoint
<1>7. Value(name) = segment
  BY <1>3, NamedOnce, ValueOf
<1> QED BY <1>1, <1>4, <1>6, <1>7, SpelledOne

LEMMA SpellsByAccount ==
  ASSUME Typed, Located.path # <<>>, scheme \in {"azdls", "azfile"}
  PROVE  Spells
<1>1. PICK name \in {"filesystem", "share_name"} :
        /\ SegmentOptions(scheme) = <<name>>
        /\ Located.config = {<<"endpoint", <<"https">> \o authority>>,
                              <<"account_name", Cut(authority, ".")[1]>>, <<name, segment>>}
        /\ Located.path = remainder
  BY ByAccount
<1>2. Names = {"endpoint", "account_name", name}
  BY <1>1 DEF Names
<1>3. /\ <<"endpoint", <<"https">> \o authority>> \in Located.config
      /\ <<name, segment>> \in Located.config
  BY <1>1
<1>4. scheme # "sftp" /\ ~WholePath(scheme) /\ "repo_type" \notin Names /\ "repo_id" \notin Names
  BY <1>2 DEF WholePath
<1>5. "https" \in Word
  BY Words
<1>6. SpelledAuthority = authority
  BY <1>3, <1>4, <1>5, NamedOnce, SpelledEndpoint
<1>7. Value(name) = segment
  BY <1>3, NamedOnce, ValueOf
<1> QED BY <1>1, <1>4, <1>6, <1>7, SpelledOne

LEMMA SpellsByOwner ==
  ASSUME Typed, Located.path # <<>>, scheme = "github"
  PROVE  Spells
<1>1. /\ SegmentOptions(scheme) = <<"repo">>
      /\ Located.config = {<<"owner", authority>>, <<"repo", segment>>}
      /\ Located.path = remainder
  BY ByOwner
<1>2. Names = {"owner", "repo"}
  BY <1>1 DEF Names
<1>3. <<"owner", authority>> \in Located.config /\ <<"repo", segment>> \in Located.config
  BY <1>1
<1>4. /\ scheme # "sftp" /\ ~WholePath(scheme) /\ "repo_type" \notin Names
      /\ "repo_id" \notin Names /\ "endpoint" \notin Names
      /\ \A n \in {"bucket", "container", "drive_type", "owner"} \ {"owner"} : n \notin Names
  BY <1>2 DEF WholePath
<1>5. SpelledAuthority = authority
  <2>1. "owner" \in {"bucket", "container", "drive_type", "owner"}
    OBVIOUS
  <2> QED BY <1>3, <1>4, <2>1, NamedOnce, SpelledName
<1>6. Value("repo") = segment
  BY <1>3, NamedOnce, ValueOf
<1> QED BY <1>1, <1>4, <1>5, <1>6, SpelledOne

LEMMA SpellsByBranch ==
  ASSUME Typed, Located.path # <<>>, scheme = "lakefs"
  PROVE  Spells
<1>1. /\ SegmentOptions(scheme) = <<"repository", "branch">>
      /\ Located.config = {<<"endpoint", <<"https">> \o authority>>,
                            <<"repository", segment>>, <<"branch", repository>>}
      /\ Located.path = Cut(remainder, "/")[2]
  BY ByBranch DEF repository
<1>2. Names \subseteq {"endpoint", "repository", "branch"}
  <2>1. Located.config \subseteq {<<"endpoint", <<"https">> \o authority>>,
                                  <<"repository", segment>>, <<"branch", repository>>}
    BY <1>1
  <2> QED BY <2>1, NamesOf, Zenon
<1>3. /\ <<"endpoint", <<"https">> \o authority>> \in Located.config
      /\ <<"repository", segment>> \in Located.config
      /\ <<"branch", repository>> \in Located.config
  BY <1>1
<1>4. scheme # "sftp" /\ ~WholePath(scheme) /\ "repo_type" \notin Names /\ "repo_id" \notin Names
  BY <1>2 DEF WholePath
<1>5. "https" \in Word
  BY Words
<1>6. SpelledAuthority = authority
  BY <1>3, <1>4, <1>5, NamedOnce, SpelledEndpoint
<1>7. Value("repository") = segment /\ Value("branch") = repository
  BY <1>3, NamedOnce, ValueOf
<1>8. SpelledSegments = <<"/">> \o segment \o <<"/">> \o repository
  BY <1>1, <1>4, <1>7 DEF SpelledSegments, scheme
<1>9. Spelled = Whole(Cut(remainder, "/")[2], <<"/">> \o segment \o <<"/">> \o repository)
  BY <1>1, <1>4, <1>6, <1>8 DEF Spelled, Whole, scheme
<1> QED BY <1>1, <1>9, WholeSegments DEF Spells

LEMMA SpellsByPath ==
  ASSUME Typed, Located.path # <<>>, WholePath(scheme), ~HasQuery
  PROVE  Spells
BY ByPath, WholePathLocation DEF Spells, Spelled, scheme

\* The revision of a repository is spelled after an "@".
LEMMA SpellsByRepository ==
  ASSUME Typed, Located.path # <<>>, scheme \in HuggingFace
  PROVE  Spells
<1> DEFINE base == Cut(repository, "@")[1]
           revision == Cut(repository, "@")[2]
           id == segment \o <<"/">> \o base
           path == Cut(remainder, "/")[2]
<1>1. PICK kind \in {"dataset", "space", "model"} :
        /\ kind = "dataset" <=> authority = <<"datasets">>
        /\ kind = "space" <=> authority = <<"spaces">>
        /\ Located.config
             = {<<"repo_type", kind>>, <<"repo_id", id>>}
                 \cup IF Contains(repository, "@") THEN {<<"revision", revision>>} ELSE {}
  BY ByRepository
<1>2. Located.path = path
  BY ByRepository
<1>3. /\ repository \in Text /\ segment \in Text /\ authority \in Text
      /\ base \in Text /\ revision \in Text
  BY Parts, CutTyped
<1>4. /\ Contains(repository, "@") => repository = base \o <<"@">> \o revision
      /\ ~Contains(repository, "@") => base = repository
  BY <1>3, CutFound, CutMissing
<1> HIDE DEF base, revision, id, path
<1>5. <<"repo_type", kind>> \in Located.config /\ <<"repo_id", id>> \in Located.config
  BY <1>1
<1>6. /\ "repo_type" \in Names /\ Value("repo_type") = kind
      /\ "repo_id" \in Names /\ Value("repo_id") = id
  BY <1>5, NamedOnce, ValueOf
<1>7. Names \subseteq {"repo_type", "repo_id", "revision"}
  <2>1. Located.config \subseteq {<<"repo_type", kind>>, <<"repo_id", id>>,
                                  <<"revision", revision>>}
    BY <1>1
  <2> QED BY <2>1, NamesOf
<1>8. scheme # "sftp" /\ ~WholePath(scheme)
  BY DEF HuggingFace, WholePath
<1>9. SpelledAuthority = authority
  <2>1. CASE ~KeepsAuthority
    BY <2>1 DEF SpelledAuthority, authority
  <2>2. CASE KeepsAuthority
    <3>1. authority \in {<<"datasets">>, <<"spaces">>, <<"models">>}
      BY <2>2 DEF KeepsAuthority, scheme, authority
    <3>2. /\ <<"datasets">> # <<"spaces">> /\ <<"datasets">> # <<"models">>
          /\ <<"spaces">> # <<"models">>
      OBVIOUS
    <3>3. /\ kind = "dataset" => authority = <<"datasets">>
          /\ kind = "space" => authority = <<"spaces">>
          /\ kind = "model" => authority = <<"models">>
      BY <1>1, <3>1, <3>2
    <3>4. "endpoint" \notin Names
      BY <1>7
    <3> QED BY <1>1, <1>6, <1>8, <2>2, <3>3, <3>4 DEF SpelledAuthority, scheme
  <2> QED BY <2>1, <2>2
<1>10. SpelledSegments = <<"/">> \o segment \o <<"/">> \o repository
  <2> DEFINE s == <<"/">>
             at == <<"@">>
  <2>1. s \in Text /\ at \in Text
    BY Words DEF Text
  <2>2. <<>> \in Text
    BY EmptySeq DEF Text
  <2>3. SpelledSegments
          = Cat(Cat(s, Cat(Cat(segment, s), base)),
                IF "revision" \in Names THEN Cat(at, Value("revision")) ELSE <<>>)
    BY <1>6 DEF SpelledSegments, Cat, id
  <2> HIDE DEF s, at
  <2>4. CASE Contains(repository, "@")
    <3>1. <<"revision", revision>> \in Located.config
      BY <1>1, <2>4
    <3>2. "revision" \in Names /\ Value("revision") = revision
      BY <3>1, NamedOnce, ValueOf
    <3>3. repository = Cat(Cat(base, at), revision)
      BY <1>4, <2>4 DEF Cat, at
    <3>4. Cat(Cat(s, Cat(Cat(segment, s), base)), Cat(at, revision))
            = Cat(Cat(Cat(s, segment), s), Cat(Cat(base, at), revision))
      <4> DEFINE front == Cat(segment, s)
                 back == Cat(at, revision)
      <4>1. front \in Text /\ back \in Text /\ Cat(s, front) \in Text
        BY <1>3, <2>1, Associative
      <4>2. Cat(Cat(s, segment), s) = Cat(s, front) /\ Cat(Cat(base, at), revision) = Cat(base, back)
        BY <1>3, <2>1, Associative
      <4> HIDE DEF front, back
      <4>3. Cat(Cat(s, Cat(front, base)), back) = Cat(Cat(s, front), Cat(base, back))
        BY <1>3, <2>1, <4>1, Associative
      <4> QED BY <4>2, <4>3 DEF front, back
    <3> QED BY <2>3, <3>2, <3>3, <3>4 DEF Cat, s
  <2>5. CASE ~Contains(repository, "@")
    <3>1. "revision" \notin Names
      <4>1. Located.config = {<<"repo_type", kind>>, <<"repo_id", id>>}
        BY <1>1, <2>5
      <4> QED BY <4>1 DEF Names
    <3>2. repository = base
      BY <1>4, <2>5
    <3>3. Cat(Cat(s, Cat(Cat(segment, s), base)), <<>>) = Cat(Cat(Cat(s, segment), s), base)
      <4>1. \A t \in Text : Cat(t, <<>>) = t
        BY ConcatEmptySeq DEF Text, Cat
      <4> QED BY <1>3, <2>1, <4>1, Associative
    <3> QED BY <2>3, <3>1, <3>2, <3>3 DEF Cat, s
  <2> QED BY <2>4, <2>5
<1>11. Spelled = Whole(path, <<"/">> \o segment \o <<"/">> \o repository)
  BY <1>2, <1>8, <1>9, <1>10 DEF Spelled, Whole, scheme
<1> QED BY <1>2, <1>11, WholeSegments DEF Spells, path

\* Nothing of a drive's URI becomes an option.
LEMMA SpellsByDrive ==
  ASSUME Typed, Located.path # <<>>, scheme \in RootOnlyServices
  PROVE  Spells
<1>1. Located.config = {} /\ Located.path = root /\ SegmentOptions(scheme) = <<>>
  <2>1. scheme # "onedrive"
    BY DEF RootOnlyServices
  <2> QED BY <2>1, ByDrive
<1>2. "repo_id" \notin Names
  BY <1>1 DEF Names
<1>3. SpelledAuthority = authority
  BY DEF SpelledAuthority, KeepsAuthority, scheme, authority
<1>4. ~WholePath(scheme)
  BY DEF RootOnlyServices, WholePath
<1> QED BY <1>1, <1>2, <1>3, <1>4, SpelledPlain

LEMMA AllSpelled ==
  ASSUME Typed
  PROVE  SpelledBack
<1> SUFFICES ASSUME Located.path # <<>>, scheme # "onedrive",
                    ~(scheme = "http" /\ RawOnGitHub(Parse(uri.text))),
                    WholePath(scheme) => ~HasQuery
             PROVE  Spells
  BY DEF SpelledBack, Spells, scheme
<1>2. CASE scheme \in RootOnlyServices
  BY <1>2, SpellsByDrive
<1>3. CASE scheme \in BucketServices \cup {"azblob", "aliyun-drive"}
  BY <1>3, SpellsByAuthority
<1>4. CASE scheme \in {"dbfs", "pcloud", "webdav", "ftp", "ipfs"} \/ scheme = "http"
  BY <1>4, SpellsByEndpoint
<1>5. CASE scheme \in {"koofr", "seafile", "swift"}
  BY <1>5, SpellsBySegment
<1>6. CASE scheme = "sftp"
  BY <1>6, SpellsByHost
<1>7. CASE scheme \in {"azdls", "azfile"}
  BY <1>7, SpellsByAccount
<1>8. CASE scheme = "github"
  BY <1>8, SpellsByOwner
<1>9. CASE scheme = "lakefs"
  BY <1>9, SpellsByBranch
<1>10. CASE WholePath(scheme)
  BY <1>10, SpellsByPath
<1>11. CASE scheme \in HuggingFace
  BY <1>11, SpellsByRepository
<1> QED BY <1>2, <1>3, <1>4, <1>5, <1>6, <1>7, <1>8, <1>9, <1>10, <1>11, Services
        DEF Unaliased, BucketServices, RootOnlyServices, WholePath, HuggingFace

LEMMA Short ==
  ASSUME Typed
  PROVE  Len(Located.path) <= Len(uri.text)
<1>1. /\ uri.text \in Text /\ root \in Text /\ remainder \in Text
      /\ Cut(remainder, "/")[2] \in Text
      /\ Len(remainder) <= Len(root) /\ Len(Cut(remainder, "/")[2]) <= Len(remainder)
      /\ Len(root) <= Len(uri.text)
  BY Parts, ParseParts DEF root
<1> DEFINE short == {t \in Text : Len(t) <= Len(uri.text)}
<1>2. root \in short /\ remainder \in short /\ Cut(remainder, "/")[2] \in short
  BY <1>1, Lengths
<1>3. PathWithAuthority(Parse(uri.text)) \in short
  BY WholePathLocation
<1>4. RawPath(root) \in short
  BY <1>1, RawPathTyped
<1> HIDE DEF short
<1>5. Located.path \in {root, remainder, Cut(remainder, "/")[2], RawPath(root)}
        \cup {PathWithAuthority(Parse(uri.text))}
  BY Services, ByAuthority, ByEndpoint, BySegment, ByHost, ByAccount, ByOwner, ByBranch,
     ByDrive, ByPath, ByPage, ByRepository
     DEF Unaliased, BucketServices, RootOnlyServices, WholePath, HuggingFace
<1>6. Located.path \in short
  BY <1>2, <1>3, <1>4, <1>5
<1> QED BY <1>6 DEF short

LEMMA InvTypeOK ==
  ASSUME Typed
  PROVE  TypeOK
BY NamedOnce, Short DEF Typed, TypeOK, Once

-----------------------------------------------------------------------------
(* Pages of github.com. *)

\* Where the tokens are of two texts with a slash between them.
Joined(t, a, c) == t = a \o <<"/">> \o c

LEMMA Spread ==
  ASSUME NEW a \in Text, NEW c \in Text, NEW t, Joined(t, a, c)
  PROVE  /\ t \in Text /\ Len(t) = Len(a) + 1 + Len(c)
         /\ \A i \in 1 .. Len(a) : t[i] = a[i]
         /\ t[Len(a) + 1] = "/"
         /\ \A i \in 1 .. Len(c) : t[Len(a) + 1 + i] = c[i]
<1> DEFINE front == a \o <<"/">>
<1>1. Len(a) \in Nat /\ Len(c) \in Nat /\ <<"/">> \in Text /\ Len(<<"/">>) = 1
  BY Lengths, Slash
<1>2. /\ front \in Text /\ Len(front) = Len(a) + 1
      /\ \A i \in 1 .. Len(a) + 1 : front[i] = IF i <= Len(a) THEN a[i] ELSE <<"/">>[i - Len(a)]
  BY <1>1, ConcatProperties DEF Text
<1>3. (\A i \in 1 .. Len(a) : front[i] = a[i]) /\ front[Len(a) + 1] = "/"
  BY <1>1, <1>2
<1>0. t = front \o c
  BY DEF Joined
<1> HIDE DEF front
<1>4. /\ t \in Text /\ Len(t) = (Len(a) + 1) + Len(c)
      /\ \A i \in 1 .. (Len(a) + 1) + Len(c) :
           t[i] = IF i <= Len(a) + 1 THEN front[i] ELSE c[i - (Len(a) + 1)]
  <2>1. /\ t \in Text /\ Len(t) = Len(front) + Len(c)
        /\ \A i \in 1 .. Len(front) + Len(c) :
             t[i] = IF i <= Len(front) THEN front[i] ELSE c[i - Len(front)]
    <3>1. front \in Seq(Word) /\ c \in Seq(Word)
      BY <1>2 DEF Text
    <3> QED BY <1>0, <3>1, ConcatProperties DEF Text
  <2> QED BY <1>2, <2>1
<1>5. \A i \in 1 .. Len(c) : t[Len(a) + 1 + i] = c[i]
  <2> SUFFICES ASSUME NEW i \in 1 .. Len(c) PROVE t[Len(a) + 1 + i] = c[i]
    OBVIOUS
  <2>1. /\ Len(a) + 1 + i \in 1 .. (Len(a) + 1) + Len(c)
        /\ ~(Len(a) + 1 + i <= Len(a) + 1) /\ (Len(a) + 1 + i) - (Len(a) + 1) = i
    BY <1>1
  <2> QED BY <1>4, <2>1
<1>6. (\A i \in 1 .. Len(a) : t[i] = a[i]) /\ t[Len(a) + 1] = "/"
  BY <1>1, <1>3, <1>4
<1> QED BY <1>4, <1>5, <1>6

LEMMA SpreadTwo ==
  ASSUME NEW a \in Text, NEW g \in Text, NEW c \in Text, NEW t, NEW r,
         Joined(t, a, r), Joined(r, g, c)
  PROVE  LET p == Len(a)
             b == p + Len(g) + 2
         IN
         /\ t \in Text /\ Len(t) = b + Len(c)
         /\ \A i \in 1 .. p : t[i] = a[i]
         /\ t[p + 1] = "/"
         /\ \A i \in 1 .. Len(g) : t[p + 1 + i] = g[i]
         /\ t[b] = "/"
         /\ \A i \in 1 .. Len(c) : t[b + i] = c[i]
<1> DEFINE p == Len(a)
           q == Len(g)
           n == Len(c)
           b == p + q + 2
<1>1. /\ r \in Text /\ Len(r) = q + 1 + n
      /\ \A i \in 1 .. q : r[i] = g[i]
      /\ r[q + 1] = "/"
      /\ \A i \in 1 .. n : r[q + 1 + i] = c[i]
  BY Spread
<1>2. /\ t \in Text /\ Len(t) = p + 1 + Len(r)
      /\ \A i \in 1 .. p : t[i] = a[i]
      /\ t[p + 1] = "/"
      /\ \A i \in 1 .. Len(r) : t[p + 1 + i] = r[i]
  <2>1. r \in Text
    BY <1>1
  <2>2. Joined(t, a, r)
    OBVIOUS
  <2> QED BY <2>1, <2>2, Spread
<1>3. p \in Nat /\ q \in Nat /\ n \in Nat
  BY Lengths
<1> HIDE DEF p, q, n
<1>4. Len(t) = b + n
  BY <1>1, <1>2, <1>3
<1>5. \A i \in 1 .. q : t[p + 1 + i] = g[i]
  BY <1>1, <1>2, <1>3
<1>6. t[b] = "/"
  <2>1. q + 1 \in 1 .. Len(r) /\ p + 1 + (q + 1) = b
    BY <1>1, <1>3
  <2> QED BY <1>1, <1>2, <2>1
<1>7. ASSUME NEW i \in 1 .. n PROVE t[b + i] = c[i]
  <2>1. q + 1 + i \in 1 .. Len(r) /\ p + 1 + (q + 1 + i) = b + i
    BY <1>1, <1>3
  <2> QED BY <1>1, <1>2, <2>1
<1> QED BY <1>2, <1>4, <1>5, <1>6, <1>7 DEF p, q, n

LEMMA Pages ==
  ASSUME Typed
  PROVE  GitHubPage
<1> DEFINE page == Cut(remainder, "/")[2]
           found == segment \o <<"/">> \o repository \o <<"/", "raw", "/">>
                      \o SubSeq(page, 3, Len(page))
<1> SUFFICES ASSUME scheme = "http", RawOnGitHub(Parse(uri.text)),
                    repository # <<"blob">>, IsPrefix(<<"blob", "/">>, page)
             PROVE  Located.path = found
  BY DEF GitHubPage, scheme, root, segment, remainder, repository
<1>1. /\ segment \in Text /\ remainder \in Text /\ root \in Text
      /\ page \in Text /\ repository \in Text
  BY Parts
<1>2. /\ Len(segment) \in Nat /\ Len(repository) \in Nat /\ Len(page) \in Nat
      /\ Len(remainder) \in Nat /\ Len(root) \in Nat
  BY <1>1, Lengths
<1> HIDE DEF page
\* The page begins with "blob/".
<1>3. Len(page) >= 2 /\ page[1] = "blob" /\ page[2] = "/"
  <2> DEFINE b == <<"blob", "/">>
  <2>1. Len(b) = 2 /\ b[1] = "blob" /\ b[2] = "/" /\ IsPrefix(b, page)
    OBVIOUS
  <2> HIDE DEF b
  <2>2. Len(page) >= 2 /\ SubSeq(b, 1, 2) = SubSeq(page, 1, 2)
    BY <1>2, <2>1 DEF IsPrefix
  <2>3. \A i \in 1 .. 2 : SubSeq(b, 1, 2)[i] = b[i]
    <3>1. \A i \in 1 .. 2 : b[i] \in {b[1], b[2]}
      OBVIOUS
    <3> QED BY <3>1, SubSeqProperties
  <2>4. \A i \in 1 .. 2 : SubSeq(page, 1, 2)[i] = page[i]
    <3>1. \A i \in 1 .. 2 : page[i] \in {page[1], page[2]}
      OBVIOUS
    <3> QED BY <3>1, SubSeqProperties
  <2>5. 1 \in 1 .. 2 /\ 2 \in 1 .. 2
    OBVIOUS
  <2> QED BY <2>1, <2>2, <2>3, <2>4, <2>5
<1>4. Located.path = RawPath(root)
  BY ByPage
\* It comes after the second slash of the root.
<1>5. Contains(remainder, "/") /\ Contains(root, "/")
  <2>1. page # <<>>
    BY <1>1, <1>3, Lengths
  <2>2. Contains(remainder, "/")
    BY <1>1, <2>1, CutTyped DEF page
  <2>3. remainder # <<>>
    BY <1>1, <2>2, Lengths DEF Contains
  <2> QED BY <1>1, <2>2, <2>3, CutTyped DEF remainder
<1>6. /\ Joined(root, segment, remainder) /\ Joined(remainder, repository, page)
      /\ ~Contains(segment, "/") /\ ~Contains(repository, "/")
  BY <1>1, <1>5, CutFound DEF Joined, segment, remainder, repository, page
<1> DEFINE p == Len(segment)
           q == Len(repository)
           n == Len(page)
           b == p + q + 2
<1>11. /\ Len(root) = b + n
       /\ \A i \in 1 .. p : root[i] = segment[i]
       /\ root[p + 1] = "/"
       /\ \A i \in 1 .. q : root[p + 1 + i] = repository[i]
       /\ root[b] = "/"
       /\ \A i \in 1 .. n : root[b + i] = page[i]
  BY <1>1, <1>6, SpreadTwo
<1>9. p \in Nat /\ q \in Nat /\ n \in Nat /\ n >= 2 /\ b \in Nat
  BY <1>2, <1>3
<1>10. /\ \A i \in 1 .. p : segment[i] # "/"
       /\ \A i \in 1 .. q : repository[i] # "/"
  BY <1>6 DEF Contains
<1> HIDE DEF p, q, n
<1>12. b \in Blobs(root)
  <2>1. b \in 1 .. Len(root) - 2
    BY <1>9, <1>11
  <2>2. root[b + 1] = "blob" /\ root[b + 2] = "/"
    BY <1>3, <1>9, <1>11
  <2> QED BY <1>11, <2>1, <2>2 DEF Blobs
\* No "/blob/" comes before it.
<1>13. ASSUME NEW i \in Blobs(root), i < b PROVE FALSE
  <2>1. /\ i \in 1 .. Len(root) - 2
        /\ root[i] = "/" /\ root[i + 1] = "blob" /\ root[i + 2] = "/"
    BY DEF Blobs
  <2>2. i \in Nat /\ i >= 1
    BY <1>2, <2>1
  <2>3. CASE i <= p
    <3>1. i \in 1 .. p
      BY <1>9, <2>2, <2>3
    <3> QED BY <1>10, <1>11, <2>1, <3>1
  <2>4. CASE i = p + 1
    <3>1. CASE q = 0
      <4>1. i + 1 = b
        BY <1>9, <2>4, <3>1
      <4> QED BY <1>11, <2>1, <4>1
    <3>2. CASE q = 1
      <4>1. p + 1 + 1 = i + 1 /\ 1 \in 1 .. q
        BY <1>9, <2>4, <3>2
      <4>2. repository[1] = "blob"
        BY <1>11, <2>1, <4>1
      <4>3. repository = <<"blob">>
        <5>1. repository[1] \in Word
          BY <1>1, <4>1, ElementOfSeq DEF q, Text
        <5>2. repository = <<repository[1]>>
          BY <1>1, <3>2, <5>1, SeqEqual DEF q, Text
        <5> QED BY <4>2, <5>2
      <4> QED BY <4>3
    <3>3. CASE q >= 2
      <4>1. p + 1 + 2 = i + 2 /\ 2 \in 1 .. q
        BY <1>9, <2>4, <3>3
      <4> QED BY <1>10, <1>11, <2>1, <4>1
    <3> QED BY <1>9, <3>1, <3>2, <3>3
  <2>5. CASE p + 1 < i
    <3>1. i - (p + 1) \in 1 .. q /\ p + 1 + (i - (p + 1)) = i
      BY <1>9, <1>13, <2>2, <2>5
    <3> QED BY <1>10, <1>11, <2>1, <3>1
  <2> QED BY <1>9, <2>2, <2>3, <2>4, <2>5
<1>14. b = Min(Blobs(root))
  <2>1. /\ Min(Blobs(root)) \in Blobs(root)
        /\ \A i \in Blobs(root) : Min(Blobs(root)) <= i
    BY <1>1, <1>12, RawPathTyped
  <2>2. Min(Blobs(root)) \in Nat
    BY <2>1 DEF Blobs
  <2> QED BY <1>9, <1>12, <1>13, <2>1, <2>2
<1>15. /\ RawPath(root) \in Text /\ Len(RawPath(root)) = b + n
       /\ \A i \in 1 .. b + n : RawPath(root)[i] = IF i = b + 1 THEN "raw" ELSE root[i]
  BY <1>1, <1>11, <1>12, <1>14, RawPathTyped
\* The text that is to be found, token by token.
<1>16. PICK tail \in Text :
         /\ Len(tail) = n /\ tail[1] = "raw" /\ \A i \in 2 .. n : tail[i] = page[i]
         /\ found = segment \o <<"/">> \o (repository \o <<"/">> \o tail)
  <2> DEFINE s == <<"/">>
             raw == <<"raw", "/">>
             rest == SubSeq(page, 3, n)
             tail == raw \o rest
  <2>1. s \in Text /\ raw \in Text /\ Len(raw) = 2 /\ raw[1] = "raw" /\ raw[2] = "/"
    BY Words DEF Text
  <2>2. /\ rest \in Text /\ Len(rest) = n - 2
        /\ \A i \in 1 .. n - 2 : rest[i] = page[3 + i - 1]
    <3>1. \A i \in 3 .. n : page[i] \in Word
      BY <1>1, <1>9, ElementOfSeq DEF Text, n
    <3> QED BY <1>9, <3>1, SubSeqProperties DEF Text
  <2>3. <<"/", "raw", "/">> = s \o raw
    OBVIOUS
  <2> HIDE DEF raw, rest, s
  <2>4. /\ tail \in Text /\ Len(tail) = 2 + (n - 2)
        /\ \A i \in 1 .. 2 + (n - 2) : tail[i] = IF i <= 2 THEN raw[i] ELSE rest[i - 2]
    <3>1. raw \in Seq(Word) /\ rest \in Seq(Word)
      BY <2>1, <2>2 DEF Text
    <3>2. /\ tail \in Seq(Word) /\ Len(tail) = Len(raw) + Len(rest)
          /\ \A i \in 1 .. Len(raw) + Len(rest) :
               tail[i] = IF i <= Len(raw) THEN raw[i] ELSE rest[i - Len(raw)]
      BY <3>1, ConcatProperties
    <3>3. Len(raw) = 2 /\ Len(rest) = n - 2
      BY <2>1, <2>2
    <3> HIDE DEF tail
    <3> QED BY <3>2, <3>3 DEF Text
  <2>5. found = Cat(Cat(segment, s), Cat(Cat(repository, s), Cat(raw, rest)))
    <3>1. found = Cat(Cat(Cat(Cat(segment, s), repository), Cat(s, raw)), rest)
      BY <2>3 DEF Cat, s, rest, n
    <3>2. Cat(Cat(Cat(Cat(segment, s), repository), Cat(s, raw)), rest)
            = Cat(Cat(segment, s), Cat(Cat(repository, s), Cat(raw, rest)))
      <4> DEFINE front == Cat(segment, s)
      <4>1. front \in Text
        BY <1>1, <2>1, Associative
      <4> HIDE DEF front
      <4>2. Cat(Cat(front, repository), Cat(s, raw)) = Cat(front, Cat(Cat(repository, s), raw))
        BY <1>1, <2>1, <4>1, Associative
      <4>3. Cat(Cat(repository, s), raw) \in Text /\ Cat(repository, s) \in Text
        BY <1>1, <2>1, Associative
      <4>4. Cat(Cat(front, Cat(Cat(repository, s), raw)), rest)
              = Cat(front, Cat(Cat(Cat(repository, s), raw), rest))
        BY <2>2, <4>1, <4>3, Associative
      <4>5. Cat(Cat(Cat(repository, s), raw), rest) = Cat(Cat(repository, s), Cat(raw, rest))
        BY <2>1, <2>2, <4>3, Associative
      <4> QED BY <4>2, <4>4, <4>5 DEF front
    <3> QED BY <3>1, <3>2
  <2>6. found = segment \o <<"/">> \o (repository \o <<"/">> \o tail)
    BY <2>5 DEF Cat, s
  <2> HIDE DEF tail
  <2>7. Len(tail) = n
    BY <1>9, <2>4
  <2>8. tail[1] = "raw"
    BY <1>9, <2>1, <2>4
  <2>9. ASSUME NEW i \in 2 .. n PROVE tail[i] = page[i]
    <3>1. CASE i = 2
      BY <1>3, <1>9, <2>1, <2>4, <3>1
    <3>2. CASE i > 2
      <4>1. i - 2 \in 1 .. n - 2 /\ 3 + (i - 2) - 1 = i /\ i \in 1 .. 2 + (n - 2) /\ ~(i <= 2)
        BY <1>9, <3>2
      <4> QED BY <2>2, <2>4, <4>1
    <3> QED BY <1>9, <3>1, <3>2
  <2> QED BY <2>4, <2>6, <2>7, <2>8, <2>9
<1>17. /\ found \in Text /\ Len(found) = b + n
       /\ \A i \in 1 .. p : found[i] = segment[i]
       /\ found[p + 1] = "/"
       /\ \A i \in 1 .. q : found[p + 1 + i] = repository[i]
       /\ found[b] = "/"
       /\ \A i \in 1 .. n : found[b + i] = tail[i]
  <2> DEFINE r == repository \o <<"/">> \o tail
  <2>1. Joined(found, segment, r) /\ Joined(r, repository, tail)
    BY <1>16 DEF Joined
  <2> HIDE DEF r, found
  <2>2. segment \in Text /\ repository \in Text /\ tail \in Text
    BY <1>1
  <2> HIDE DEF b
  <2>3. /\ found \in Text /\ Len(found) = p + q + 2 + Len(tail)
        /\ \A i \in 1 .. p : found[i] = segment[i]
        /\ found[p + 1] = "/"
        /\ \A i \in 1 .. q : found[p + 1 + i] = repository[i]
        /\ found[p + q + 2] = "/"
        /\ \A i \in 1 .. Len(tail) : found[p + q + 2 + i] = tail[i]
    BY <2>1, <2>2, SpreadTwo DEF p, q
  <2>4. Len(tail) = n
    BY <1>16
  <2> QED BY <2>3, <2>4 DEF b
<1> HIDE DEF found
<1>18. ASSUME NEW i \in 1 .. b + n PROVE RawPath(root)[i] = found[i]
  <2>1. CASE i <= p
    BY <1>9, <1>11, <1>15, <1>17, <2>1
  <2>2. CASE i = p + 1
    BY <1>9, <1>11, <1>15, <1>17, <2>2
  <2>3. CASE p + 1 < i /\ i < b
    <3>1. i - (p + 1) \in 1 .. q /\ p + 1 + (i - (p + 1)) = i /\ i # b + 1
      BY <1>9, <2>3
    <3> QED BY <1>11, <1>15, <1>17, <3>1
  <2>4. CASE i = b
    BY <1>9, <1>11, <1>15, <1>17, <2>4
  <2>5. CASE i = b + 1
    <3>1. 1 \in 1 .. n /\ b + 1 \in 1 .. b + n
      BY <1>9
    <3>2. found[b + 1] = "raw"
      BY <1>16, <1>17, <3>1
    <3>3. RawPath(root)[b + 1] = "raw"
      BY <1>15, <3>1
    <3> QED BY <2>5, <3>2, <3>3
  <2>6. CASE i > b + 1
    <3>1. i - b \in 2 .. n /\ i - b \in 1 .. n /\ b + (i - b) = i /\ i # b + 1
      BY <1>9, <2>6
    <3>2. found[b + (i - b)] = tail[i - b] /\ root[b + (i - b)] = page[i - b]
      BY <1>11, <1>17, <3>1
    <3>3. tail[i - b] = page[i - b]
      BY <1>16, <3>1
    <3>4. RawPath(root)[i] = root[i]
      BY <1>15, <3>1
    <3>5. found[b + (i - b)] = found[i] /\ root[b + (i - b)] = root[i]
      BY <3>1
    <3> HIDE DEF b
    <3> QED BY <3>2, <3>3, <3>4, <3>5
  <2>7. i <= p \/ i = p + 1 \/ (p + 1 < i /\ i < b) \/ i = b \/ i = b + 1 \/ i > b + 1
    BY <1>9
  <2> QED BY <2>1, <2>2, <2>3, <2>4, <2>5, <2>6, <2>7
<1> QED BY <1>4, <1>15, <1>17, <1>18, SeqEqual DEF Text

-----------------------------------------------------------------------------
(* What the file system relies on. *)

LEMMA Typing == Spec => []Typed
<1>1. Init => Typed
  <2> SUFFICES ASSUME Init PROVE Typed
    OBVIOUS
  <2>1. uri \in Starts /\ room = MaxTokens
    BY DEF Init
  <2>2. uri \in [prefix : Registered, text : Seq(STRING)] /\ room \in 0 .. MaxTokens
    BY <2>1, UriAssumption
  <2>3. \A i \in 1 .. Len(uri.text) : uri.text[i] \in Word
    BY <2>1, <2>2, Words
  <2>4. uri.text \in Text
    BY <2>2, <2>3 DEF Text
  <2> QED BY <2>2, <2>4 DEF Typed
<1>2. Typed /\ [Next]_vars => Typed'
  <2> SUFFICES ASSUME Typed, [Next]_vars PROVE Typed'
    OBVIOUS
  <2>1. CASE UNCHANGED vars
    BY <2>1 DEF Typed, vars
  <2>2. ASSUME NEW token \in Tokens, Lengthen(token) PROVE Typed'
    <3>1. token \in Word
      BY Words
    <3>2. Append(uri.text, token) \in Text
      BY <3>1, AppendProperties DEF Typed, Text
    <3>3. uri' \in [prefix : Registered, text : Text]
      BY <2>2, <3>2 DEF Lengthen, Typed
    <3>4. room' \in 0 .. MaxTokens
      BY <2>2, UriAssumption DEF Lengthen, Typed
    <3> QED BY <3>3, <3>4 DEF Typed
  <2> QED BY <2>1, <2>2 DEF Next
<1> QED BY <1>1, <1>2, PTL DEF Spec

\* Whatever text follows a registered prefix, Apply names no option twice, and the
\* path is no longer than the text.
THEOREM LocationSound == Spec => []TypeOK
BY Typing, InvTypeOK, PTL

\* For every service but onedrive, the decoded text of an object's URI up to its query
\* can be read off its location, with the authority where it is not kept: TryParse
\* merges no two such texts in one object, and loses no slash of a directory.
THEOREM SpellsItsUri == Spec => []SpelledBack
BY Typing, AllSpelled, PTL

\* The page of a file on github.com, asked for raw, is that file's own path.
THEOREM PageIsFile == Spec => []GitHubPage
BY Typing, Pages, PTL

\* The secret type that is looked up for a prefix is one that can be created, and
\* created without a SCOPE, in capitals or not, it is for the prefixes of that type.
THEOREM SecretsReachPrefixes == Spec => []SecretFound
BY Typing, SecretsFound, PTL
=============================================================================
