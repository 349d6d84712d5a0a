----------------------------- MODULE ObjectUri -----------------------------
(***************************************************************************)
(* OpenDALPath::TryParse (opendal_path.cpp) and OpenDALUri                 *)
(* (opendal_uri.cpp): the service, the operator options and the object     *)
(* path a URI stands for, the type of the secrets it is given              *)
(* (opendal_path.cpp) and the scopes they have by default                  *)
(* (opendal_secret.cpp).                                                   *)
(*                                                                         *)
(* Prefixes are names without their "://".  What follows the prefix is a   *)
(* sequence of tokens: "/", "?", "@", ".", ":", a percent escape, and      *)
(* words, which stand for any text without these.                          *)
(***************************************************************************)
EXTENDS Naturals, Sequences, SequencesExt

CONSTANTS
  Starts,    \* [prefix, text]: how the URIs that are parsed begin
  Tokens,    \* tokens that follow
  MaxTokens  \* bound: tokens that follow

-----------------------------------------------------------------------------
(* OPENDAL_PREFIXES *)

Aliases ==
  [s3 |-> {"s3", "s3a", "s3n"}, gcs |-> {"gs", "gcs"}, azblob |-> {"az", "azblob"},
   azdls |-> {"abfs", "abfss", "azdls"}, http |-> {"http", "https"}]

\* The services with the one prefix of their name.
Unaliased ==
  {"memory", "azfile", "aliyun-drive", "b2", "cos", "dbfs", "dropbox", "ftp", "fs",
   "gdrive", "github", "hf", "huggingface", "ipfs", "koofr", "lakefs", "obs",
   "onedrive", "oss", "pcloud", "seafile", "sftp", "swift", "tos", "upyun",
   "vercel-artifacts", "vercel-blob", "webdav", "yandex-disk"}

Registered == (UNION {Aliases[s] : s \in DOMAIN Aliases}) \cup Unaliased

Scheme(prefix) ==
  IF \E s \in DOMAIN Aliases : prefix \in Aliases[s]
  THEN CHOOSE s \in DOMAIN Aliases : prefix \in Aliases[s]
  ELSE prefix

ASSUME UriAssumption ==
  /\ Starts \subseteq [prefix : Registered, text : Seq(STRING)]
  /\ MaxTokens \in Nat

-----------------------------------------------------------------------------
VARIABLES
  uri,  \* [prefix, text]: the URI that is parsed
  room  \* how many more tokens may follow

vars == <<uri, room>>

Init == uri \in Starts /\ room = MaxTokens

\* Another URI, one token longer.
Lengthen(token) ==
  /\ room > 0
  /\ room' = room - 1
  /\ uri' = [uri EXCEPT !.text = Append(@, token)]

Next == \E token \in Tokens : Lengthen(token)

Spec == Init /\ [][Next]_vars

-----------------------------------------------------------------------------
(* OpenDALSecretType, and the names of the secrets' types *)

\* OPENDAL_PREFIXES: the prefixes by secret type.
SecretPrefixes ==
  [NONE |-> {"memory", "fs"}, S3 |-> {"s3", "s3a", "s3n"}, GCS |-> {"gs", "gcs"},
   AZBLOB |-> {"az", "azblob"}, AZDLS |-> {"abfs", "abfss", "azdls"},
   AZFILE |-> {"azfile"}, HTTP |-> {"http", "https"},
   ALIYUN_DRIVE |-> {"aliyun-drive"}, B2 |-> {"b2"}, COS |-> {"cos"}, DBFS |-> {"dbfs"},
   DROPBOX |-> {"dropbox"}, FTP |-> {"ftp"}, GDRIVE |-> {"gdrive"},
   GITHUB |-> {"github"}, HF |-> {"hf"}, HUGGINGFACE |-> {"huggingface"},
   IPFS |-> {"ipfs"}, KOOFR |-> {"koofr"}, LAKEFS |-> {"lakefs"}, OBS |-> {"obs"},
   ONEDRIVE |-> {"onedrive"}, OSS |-> {"oss"}, PCLOUD |-> {"pcloud"},
   SEAFILE |-> {"seafile"}, SFTP |-> {"sftp"}, SWIFT |-> {"swift"}, TOS |-> {"tos"},
   UPYUN |-> {"upyun"}, VERCEL_ARTIFACTS |-> {"vercel-artifacts"},
   VERCEL_BLOB |-> {"vercel-blob"}, WEBDAV |-> {"webdav"},
   YANDEX_DISK |-> {"yandex-disk"}]

SecretType(prefix) ==
  CHOOSE type \in DOMAIN SecretPrefixes : prefix \in SecretPrefixes[type]

\* enum class OpenDALSecretType, in order.
OpenDALSecretType ==
  <<"NONE", "HTTP", "ALIYUN_DRIVE", "AZBLOB", "AZDLS", "AZFILE", "B2", "COS", "DBFS",
    "DROPBOX", "FTP", "GCS", "GDRIVE", "GITHUB", "HF", "HUGGINGFACE", "IPFS", "KOOFR",
    "LAKEFS", "OBS", "ONEDRIVE", "OSS", "PCLOUD", "S3", "SEAFILE", "SFTP", "SWIFT",
    "TOS", "UPYUN", "VERCEL_ARTIFACTS", "VERCEL_BLOB", "WEBDAV", "YANDEX_DISK">>

\* OPENDAL_SECRET_TYPE_NAMES, in order: the parts of each name.
SecretTypeNames ==
  <<<<>>, <<"http">>, <<"opendal_", "aliyun", "'_'", "drive">>, <<"opendal_", "azblob">>,
    <<"opendal_", "azdls">>, <<"opendal_", "azfile">>, <<"opendal_", "b2">>,
    <<"opendal_", "cos">>, <<"opendal_", "dbfs">>, <<"opendal_", "dropbox">>,
    <<"opendal_", "ftp">>, <<"opendal_", "gcs">>, <<"opendal_", "gdrive">>,
    <<"opendal_", "github">>, <<"opendal_", "hf">>, <<"opendal_", "huggingface">>,
    <<"opendal_", "ipfs">>, <<"opendal_", "koofr">>, <<"opendal_", "lakefs">>,
    <<"opendal_", "obs">>, <<"opendal_", "onedrive">>, <<"opendal_", "oss">>,
    <<"opendal_", "pcloud">>, <<"opendal_", "s3">>, <<"opendal_", "seafile">>,
    <<"opendal_", "sftp">>, <<"opendal_", "swift">>, <<"opendal_", "tos">>,
    <<"opendal_", "upyun">>, <<"opendal_", "vercel", "'_'", "artifacts">>,
    <<"opendal_", "vercel", "'_'", "blob">>, <<"opendal_", "webdav">>,
    <<"opendal_", "yandex", "'_'", "disk">>>>

\* A type is a position in both.
OpenDALSecretTypeName(type) ==
  LET index == CHOOSE i \in DOMAIN OpenDALSecretType : OpenDALSecretType[i] = type
  IN SecretTypeNames[index]

-----------------------------------------------------------------------------
(* Creating a secret *)

\* OPENDAL_SECRET_SERVICES: those whose type DuckDB knows, after "opendal_".
SecretServices ==
  {<<"aliyun", "'_'", "drive">>, <<"azblob">>, <<"azdls">>, <<"azfile">>, <<"b2">>,
   <<"cos">>, <<"dbfs">>, <<"dropbox">>, <<"ftp">>, <<"gcs">>, <<"gdrive">>,
   <<"github">>, <<"hf">>, <<"huggingface">>, <<"ipfs">>, <<"koofr">>, <<"lakefs">>,
   <<"obs">>, <<"onedrive">>, <<"oss">>, <<"pcloud">>, <<"s3">>, <<"seafile">>,
   <<"sftp">>, <<"swift">>, <<"tos">>, <<"upyun">>, <<"vercel", "'_'", "artifacts">>,
   <<"vercel", "'_'", "blob">>, <<"webdav">>, <<"yandex", "'_'", "disk">>}

RegisterOpenDALSecrets == {<<"opendal_">> \o service : service \in SecretServices}

\* A name as somebody types it.
Name(parts, capitals) == [parts |-> parts, capitals |-> capitals]

\* StringUtil::Lower
Lower(name) == Name(name.parts, FALSE)

\* Faulty variant of Dashed: the underscores stay.
Underscored(name) == name

\* std::replace
Dashed(name) ==
  Name([i \in DOMAIN name.parts |-> IF name.parts[i] = "'_'" THEN "'-'" ELSE name.parts[i]],
       name.capitals)

\* Faulty variant of DefaultScopes: every service has the one prefix of its name.
OwnScope(service) == {Dashed(service)}

\* The scopes of a secret without a SCOPE, their "://" left out.
DefaultScopes(service) ==
  CASE service = Name(<<"s3">>, FALSE) ->
         {Name(<<p>>, FALSE) : p \in {"s3", "s3a", "s3n"}}
    [] service = Name(<<"gcs">>, FALSE) -> {Name(<<p>>, FALSE) : p \in {"gcs", "gs"}}
    [] service = Name(<<"azblob">>, FALSE) ->
         {Name(<<p>>, FALSE) : p \in {"azblob", "az"}}
    [] service = Name(<<"azdls">>, FALSE) ->
         {Name(<<p>>, FALSE) : p \in {"azdls", "abfs", "abfss"}}
    [] OTHER -> {Dashed(service)}

\* CreateOpenDALSecret: the service is its type's name after "opendal_".
CreateOpenDALSecret(type) ==
  DefaultScopes(Lower(Name(Tail(type.parts), type.capitals)))

-----------------------------------------------------------------------------
(* OpenDALUri::Parse *)

\* The text before the first token, and what follows it: find and substr.
Cut(text, token) ==
  LET i == SelectInSeq(text, LAMBDA t : t = token) IN
  IF i = 0 THEN <<text, <<>>>>
  ELSE <<SubSeq(text, 1, i - 1), SubSeq(text, i + 1, Len(text))>>

\* What an escape stands for: a character that is looked for, one of a word, or the
\* "%" of another escape, which is decoded once.  Any other token stays.
Unescaped(token) ==
  CASE token = "%2F" -> "/"
    [] token = "%3F" -> "?"
    [] token = "%40" -> "@"
    [] token = "%3A" -> ":"
    [] token = "%2E" -> "."
    [] token = "%61" -> "a"
    [] token = "%62lob" -> "blob"
    [] token = "%252F" -> "%2F"
    [] OTHER -> token

\* StringUtil::URLDecode
Decode(text) == [i \in DOMAIN text |-> Unescaped(text[i])]

EndsInSlash(text) == text # <<>> /\ Last(text) = "/"

\* uri_p.back() = '/': after an empty text, it is that of the prefix.
TrailingSlash(text) == text = <<>> \/ EndsInSlash(text)

\* Faulty variant of Parse: the root is decoded before its query is cut off.
ParseDecoded(text) ==
  LET authority == Cut(text, "/")[1]
      rest == Decode(Cut(text, "/")[2])
  IN [authority |-> authority, root |-> Cut(rest, "?")[1],
      query |-> Cut(rest, "?")[2], trailing_slash |-> TrailingSlash(text)]

Parse(text) ==
  LET authority == Cut(text, "/")[1]
      rest == Cut(text, "/")[2]
  IN [authority |-> authority, root |-> Decode(Cut(rest, "?")[1]),
      query |-> Cut(rest, "?")[2], trailing_slash |-> TrailingSlash(text)]

-----------------------------------------------------------------------------
(* OpenDALUri::Apply *)

BucketServices == {"s3", "gcs", "b2", "cos", "obs", "oss", "tos", "upyun"}
RootOnlyServices == {"dropbox", "gdrive", "vercel-blob", "yandex-disk"}
HuggingFace == {"hf", "huggingface"}
HttpsServices ==
  {"dbfs", "pcloud", "webdav", "azdls", "azfile", "koofr", "lakefs", "seafile", "swift"}

\* The services whose path holds the authority, too.
WholePath(scheme) == scheme \in {"memory", "fs", "vercel-artifacts"}

\* The options the authority becomes.
AuthorityOptions(prefix, authority) ==
  LET scheme == Scheme(prefix)
      At(start) == {<<"endpoint", <<start>> \o authority>>}
  IN CASE scheme = "http" -> At(prefix)
       [] scheme \in HttpsServices \ {"azdls", "azfile"} -> At("https")
       [] scheme \in {"azdls", "azfile"} ->
            At("https") \cup {<<"account_name", Cut(authority, ".")[1]>>}
       [] scheme = "ftp" -> At("ftp")
       [] scheme = "ipfs" -> At("http")
       [] scheme = "sftp" -> {<<"endpoint", authority>>}
       [] scheme \in BucketServices -> {<<"bucket", authority>>}
       [] scheme = "azblob" -> {<<"container", authority>>}
       [] scheme = "aliyun-drive" -> {<<"drive_type", authority>>}
       [] scheme = "github" -> {<<"owner", authority>>}
       [] OTHER -> {}

\* The options the first segments of the root become, by name.
SegmentOptions(scheme) ==
  CASE scheme = "azdls" -> <<"filesystem">>
    [] scheme = "azfile" -> <<"share_name">>
    [] scheme = "github" -> <<"repo">>
    [] scheme = "koofr" -> <<"email">>
    [] scheme = "lakefs" -> <<"repository", "branch">>
    [] scheme = "seafile" -> <<"repo_name">>
    [] scheme = "swift" -> <<"container">>
    [] OTHER -> <<>>

TakeSegment(name, location) ==
  [config |-> location.config \cup {<<name, Cut(location.path, "/")[1]>>},
   path |-> Cut(location.path, "/")[2]]

\* TakeSegment for every name; no service has more than two.
TakeSegments(names, location) ==
  CASE Len(names) = 0 -> location
    [] Len(names) = 1 -> TakeSegment(names[1], location)
    [] Len(names) = 2 -> TakeSegment(names[2], TakeSegment(names[1], location))

\* A repository of a kind, its revision after an "@".
ApplyHuggingFace(u) ==
  LET owner == Cut(u.root, "/")[1]
      repo == Cut(Cut(u.root, "/")[2], "/")[1]
      type == CASE u.authority = <<"datasets">> -> "dataset"
                [] u.authority = <<"spaces">> -> "space"
                [] OTHER -> "model"
      revision == IF Contains(repo, "@") THEN {<<"revision", Cut(repo, "@")[2]>>} ELSE {}
  IN [config |-> {<<"repo_type", type>>,
                  <<"repo_id", owner \o <<"/">> \o Cut(repo, "@")[1]>>} \cup revision,
      path |-> Cut(Cut(u.root, "/")[2], "/")[2]]

\* Faulty variant of PathWithAuthority: files end in a slash, too.
PathAlwaysSlash(u) ==
  u.authority \o (IF u.root = <<>> THEN <<>> ELSE <<"/">> \o u.root) \o <<"/">>

PathWithAuthority(u) ==
  LET path == u.authority \o (IF u.root = <<>> THEN <<>> ELSE <<"/">> \o u.root)
  IN path \o (IF u.trailing_slash /\ path # <<>> /\ ~EndsInSlash(path)
              THEN <<"/">> ELSE <<>>)

\* Where a text holds "/blob/".
Blobs(text) ==
  {i \in 1 .. Len(text) - 2 : text[i] = "/" /\ text[i + 1] = "blob" /\ text[i + 2] = "/"}

\* Faulty variant of RawPath: one character too few is replaced.
RawPathDoubled(root) ==
  IF Blobs(root) = {} THEN root
  ELSE LET i == Min(Blobs(root))
       IN SubSeq(root, 1, i) \o <<"raw", "/">> \o SubSeq(root, i + 2, Len(root))

\* The page of a file on github.com becomes the file itself: the first "/blob/" is
\* replaced by "/raw/".
RawPath(root) ==
  IF Blobs(root) = {} THEN root ELSE [root EXCEPT ![Min(Blobs(root)) + 1] = "raw"]

\* github.com, with a port or without.
RawOnGitHub(u) ==
  /\ u.authority = <<"github.com">> \/ IsPrefix(<<"github.com", ":">>, u.authority)
  /\ u.query = <<"raw=true">>

Apply(prefix, u) ==
  LET scheme == Scheme(prefix)
      config == AuthorityOptions(prefix, u.authority)
  IN CASE scheme \in HuggingFace -> ApplyHuggingFace(u)
       [] WholePath(scheme) -> [config |-> config, path |-> PathWithAuthority(u)]
       [] scheme = "onedrive" -> [config |-> config, path |-> Cut(u.root, "/")[2]]
       [] scheme = "http" /\ RawOnGitHub(u) ->
            [config |-> config, path |-> RawPath(u.root)]
       [] OTHER -> TakeSegments(SegmentOptions(scheme), [config |-> config, path |-> u.root])

TryParse(prefix, text) == Apply(prefix, Parse(text))

-----------------------------------------------------------------------------
(* A reference: the URI that a location is spelled as. *)

\* The services that a URI's authority tells apart: not those with one drive for
\* each secret, and not the kind of a Hugging Face repository OpenDAL does not know.
KeepsAuthority ==
  /\ Scheme(uri.prefix) \notin RootOnlyServices
  /\ Scheme(uri.prefix) \in HuggingFace =>
       Parse(uri.text).authority \in {<<"datasets">>, <<"spaces">>, <<"models">>}

Located == TryParse(uri.prefix, uri.text)

Names == {o[1] : o \in Located.config}
Value(name) == (CHOOSE o \in Located.config : o[1] = name)[2]

\* An authority that is not kept has to be given.
SpelledAuthority ==
  CASE ~KeepsAuthority -> Parse(uri.text).authority
    [] KeepsAuthority /\ Scheme(uri.prefix) = "sftp" -> Value("endpoint")
    [] KeepsAuthority /\ "endpoint" \in Names /\ Scheme(uri.prefix) # "sftp" ->
         Tail(Value("endpoint"))
    [] KeepsAuthority /\ "repo_type" \in Names ->
         <<CASE Value("repo_type") = "dataset" -> "datasets"
             [] Value("repo_type") = "space" -> "spaces"
             [] OTHER -> "models">>
    [] OTHER -> Value(CHOOSE name \in {"bucket", "container", "drive_type", "owner"} :
                        name \in Names)

\* The segments that are options, each after its slash.
SpelledSegments ==
  LET names == SegmentOptions(Scheme(uri.prefix)) IN
  CASE "repo_id" \in Names ->
         <<"/">> \o Value("repo_id")
           \o (IF "revision" \in Names THEN <<"@">> \o Value("revision") ELSE <<>>)
    [] "repo_id" \notin Names /\ Len(names) = 0 -> <<>>
    [] "repo_id" \notin Names /\ Len(names) = 1 -> <<"/">> \o Value(names[1])
    [] "repo_id" \notin Names /\ Len(names) = 2 ->
         <<"/">> \o Value(names[1]) \o <<"/">> \o Value(names[2])

Spelled ==
  IF WholePath(Scheme(uri.prefix)) THEN Located.path
  ELSE SpelledAuthority \o SpelledSegments \o <<"/">> \o Located.path

\* The text of the URI up to its query, its root decoded.
Written ==
  IF Contains(uri.text, "/")
  THEN Cut(uri.text, "/")[1] \o <<"/">> \o Decode(Cut(Cut(uri.text, "/")[2], "?")[1])
  ELSE uri.text

HasQuery == Contains(Cut(uri.text, "/")[2], "?")

-----------------------------------------------------------------------------
\* The parts of a prefix.
Parted(prefix) ==
  CASE prefix = "aliyun-drive" -> <<"aliyun", "'-'", "drive">>
    [] prefix = "vercel-artifacts" -> <<"vercel", "'-'", "artifacts">>
    [] prefix = "vercel-blob" -> <<"vercel", "'-'", "blob">>
    [] prefix = "yandex-disk" -> <<"yandex", "'-'", "disk">>
    [] OTHER -> <<prefix>>

\* Options are named once, and a path is what is left of the URI.
TypeOK ==
  /\ room \in 0 .. MaxTokens
  /\ \A o, p \in Located.config : o[1] = p[1] => o = p
  /\ Len(Located.path) <= Len(uri.text)

\* A URI of an object stands for a location that, with the authority where it is not
\* kept, spells the URI's decoded text up to its query again: of two such texts that
\* differ in the bucket, share, branch, revision or path none becomes the other's
\* object, and a directory keeps its last slash.  Not so for onedrive, whose first
\* segment is dropped; for a page of github.com, which GitHubPage is about; and with a
\* query where the path holds the authority, as whether the slash is there is then
\* looked up at the end of the query.
SpelledBack ==
  (/\ Located.path # <<>>
   /\ Scheme(uri.prefix) # "onedrive"
   /\ ~(Scheme(uri.prefix) = "http" /\ RawOnGitHub(Parse(uri.text)))
   /\ WholePath(Scheme(uri.prefix)) => ~HasQuery) => Spelled = Written

\* The page of a file on github.com, asked for raw, is the file: the segment after
\* the repository is replaced, and no other.  (Not in a repository called "blob".)
GitHubPage ==
  LET root == Parse(uri.text).root
      owner == Cut(root, "/")[1]
      repo == Cut(Cut(root, "/")[2], "/")[1]
      page == Cut(Cut(root, "/")[2], "/")[2]
  IN (/\ Scheme(uri.prefix) = "http"
      /\ RawOnGitHub(Parse(uri.text))
      /\ repo # <<"blob">>
      /\ IsPrefix(<<"blob", "/">>, page)) =>
        Located.path = owner \o <<"/">> \o repo \o <<"/", "raw", "/">>
                         \o SubSeq(page, 3, Len(page))

\* A secret of the type that is looked up for a prefix can be made, and made without a
\* SCOPE, in capitals or not, it is for just the prefixes of that type.  (The type
\* "http" is DuckDB's own.)
SecretFound ==
  LET type == SecretType(uri.prefix)
      name == OpenDALSecretTypeName(type)
  IN name \notin {<<>>, <<"http">>} =>
       /\ name \in RegisterOpenDALSecrets
       /\ \A capitals \in BOOLEAN :
            CreateOpenDALSecret(Name(name, capitals))
              = {Name(Parted(prefix), FALSE) : prefix \in SecretPrefixes[type]}
=============================================================================
