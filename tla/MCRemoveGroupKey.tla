-------------------------- MODULE MCRemoveGroupKey --------------------------
EXTENDS RemoveGroupKey

\* "", "1", "1:" and "1:1": strings that look like pieces of a key.
MCComponents ==
  {<<>>, <<1>>, <<1, Colon>>, <<1, Colon, 1>>}
=============================================================================
