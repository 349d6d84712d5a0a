--------------------------- MODULE OperatorConfig ---------------------------
(***************************************************************************)
(* OpenDALFileSystem::CreateOperator and CreateOperatorConfig              *)
(* (opendal_file_system.cpp): the operator a URI is given, whose options   *)
(* are the file system's own, the URI's, and those of the secret DuckDB    *)
(* finds for it, later ones first.  Pure operators, no state.              *)
(***************************************************************************)
EXTENDS Naturals

CONSTANTS
  Uris,         \* what DuckDB passes
  Parsed,       \* Uris -> what TryParse finds
  Unsupported,  \* what TryParse finds for a URI with no registered prefix
  EmptyPath,    \* the object path of a URI that names no object
  NoSecretType,     \* OpenDALSecretType::NONE
  FixedConfig,  \* the options the file system was constructed with
  Secrets,      \* [name, type, scopes, secret_map]: what users may create
  Covers,       \* scope -> the URIs it is a prefix of
  Length,       \* scope -> how long it is
  Locating      \* the options that say where objects are: bucket, endpoint, ...

ASSUME ConfigAssumption ==
  /\ DOMAIN Parsed = Uris
  /\ \A s \in Secrets, scope \in UNION {t.scopes : t \in Secrets} :
       Covers[scope] \subseteq Uris /\ Length[scope] \in Nat

\* What most operations ask of a URI: a registered prefix, and an object path.
Names(uri) == Parsed[uri] # Unsupported /\ Parsed[uri].path # EmptyPath

\* Options f, then those of g: result[key] = value for every entry of g.
Merge(f, g) ==
  [o \in DOMAIN f \cup DOMAIN g |-> IF o \in DOMAIN g THEN g[o] ELSE f[o]]

\* DuckDB's secrets for HTTP call OpenDAL's token so.
Key(key) == IF key = "bearer_token" THEN "token" ELSE key

\* The options of a secret, no two of which have one name.
SecretOptions(secret) ==
  [o \in {Key(k) : k \in DOMAIN secret.secret_map} |->
     secret.secret_map[CHOOSE k \in DOMAIN secret.secret_map : Key(k) = o]]

\* SecretManager::LookupSecret: among the visible secrets of the type, those with
\* the longest scope that is a prefix of the URI.
LookupSecret(visible, uri, type) ==
  LET of_type == {s \in visible : s.type = type}
      scopes == {k \in UNION {s.scopes : s \in of_type} : uri \in Covers[k]}
      longest == {k \in scopes : \A l \in scopes : Length[l] <= Length[k]}
  IN {s \in of_type : s.scopes \cap longest # {}}

\* Faulty variant of CreateOperatorConfig: the file system's options override the
\* URI's.
FixedConfigLast(uri, visible) ==
  LET config == Merge(Parsed[uri].config, FixedConfig)
      match == LookupSecret(visible, uri, Parsed[uri].secret_type)
  IN IF Parsed[uri].secret_type = NoSecretType \/ match = {} THEN config
     ELSE Merge(config, SecretOptions(CHOOSE s \in match : TRUE))

CreateOperatorConfig(uri, visible) ==
  LET config == Merge(FixedConfig, Parsed[uri].config)
      match == LookupSecret(visible, uri, Parsed[uri].secret_type)
  IN IF Parsed[uri].secret_type = NoSecretType \/ match = {} THEN config
     ELSE Merge(config, SecretOptions(CHOOSE s \in match : TRUE))

Located(config) == [o \in DOMAIN config \cap Locating |-> config[o]]

\* The object the operator of a URI finds at the URI's path.
ObjectAt(uri, visible) ==
  [scheme |-> Parsed[uri].scheme,
   at     |-> Located(CreateOperatorConfig(uri, visible)),
   path   |-> Parsed[uri].path]
=============================================================================
