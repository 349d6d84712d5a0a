---------------------------- MODULE MCFileSystem ----------------------------
EXTENDS FileSystem, SequencesExt

Uri == INSTANCE ObjectUri
  WITH Starts <- {}, Tokens <- {}, MaxTokens <- 0, uri <- <<>>, room <- 0

\* A directory, its file and the one of the same path in another bucket, a bucket, and
\* a URI of no service.
MCUris ==
  {[prefix |-> "s3", text |-> <<"a", "/", "d", "/">>],
   [prefix |-> "s3", text |-> <<"a", "/", "d", "/", "x">>],
   [prefix |-> "s3", text |-> <<"b", "/", "d", "/", "x">>],
   [prefix |-> "s3", text |-> <<"b">>],
   [prefix |-> "unknown", text |-> <<"b">>]}

MCParsed ==
  [u \in MCUris |->
     CASE u.prefix = "unknown" -> Unsupported
       [] u.prefix # "unknown" /\ u.text = <<"b">> ->
            [scheme |-> "s3", secret_type |-> "S3", config |-> [bucket |-> <<"b">>], path |-> <<>>]
       [] u.prefix # "unknown" /\ u.text # <<"b">> ->
            [scheme |-> "s3", secret_type |-> "S3", config |-> [bucket |-> <<u.text[1]>>],
             path |-> Tail(Tail(u.text))]]

\* That is what TryParse finds.
ASSUME ParsedAssumption ==
  \A u \in MCUris : u.prefix # "unknown" =>
    LET found == Uri!TryParse(u.prefix, u.text) IN
    MCParsed[u] =
      [scheme |-> Uri!Scheme(u.prefix),
       secret_type |-> Uri!SecretType(u.prefix),
       config |-> [name \in {o[1] : o \in found.config} |->
                     (CHOOSE o \in found.config : o[1] = name)[2]],
       path |-> found.path]

\* Scopes: a prefix of a service, or with a bucket.
MCScopes ==
  [prefix : {"s3", "s3a", "s3n"}, text : {<<>>}] \cup [prefix : {"s3"}, text : {<<"a", "/", "d", "/", "x">>}]

MCCovers ==
  [k \in MCScopes |->
     {u \in MCUris : u.prefix = k.prefix /\ IsPrefix(k.text, u.text)}]

MCLength == [k \in MCScopes |-> Len(k.text)]

\* A secret of one file that names another bucket, and one of the whole service.
MCSecrets ==
  {[name |-> "moving", type |-> "S3", scopes |-> {[prefix |-> "s3", text |-> <<"a", "/", "d", "/", "x">>]},
    secret_map |-> [bucket |-> <<"b">>]],
   [name |-> "token", type |-> "S3",
    scopes |-> {[prefix |-> scope.parts[1], text |-> <<>>] :
                  scope \in Uri!DefaultScopes(Uri!Name(<<"s3">>, FALSE))},
    secret_map |-> [bearer_token |-> <<"t">>]]}

MCEmptyPath == <<>>

MCFixedConfig == [bucket |-> <<"c">>, region |-> <<"r">>]

MCFlagSets ==
  {{"READ"}, {"READ", "NULL_IF_NOT_EXISTS"}, {"WRITE", "FILE_CREATE"},
   {"WRITE", "FILE_CREATE_NEW"}}

MCChildren == [path \in {<<"d", "/">>} |-> {<<"d", "/", "x">>, <<"d", "/", "y">>}]
=============================================================================
