--------------------------- MODULE MCWriteHandle ---------------------------
EXTENDS WriteHandleRefinement

CONSTANTS x, y

MCChunks == {<<x>>, <<x, y>>}
MCInitialContents == {<<y>>}
=============================================================================
