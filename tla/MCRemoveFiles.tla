--------------------------- MODULE MCRemoveFiles ---------------------------
EXTENDS RemoveFiles

At(scheme, config, path) == [scheme |-> scheme, config |-> config, path |-> path]

MCLocate == [
  first_a  |-> At("s3", "first", "a"),
  first_b  |-> At("s3", "first", "b"),
  second_a |-> At("s3", "second", "a"),
  gcs_a    |-> At("gcs", "first", "a"),
  s3_root  |-> At("s3", "first", EmptyPath),
  local    |-> Unsupported]

MCUris == DOMAIN MCLocate
=============================================================================
