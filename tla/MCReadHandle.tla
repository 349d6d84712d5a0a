---------------------------- MODULE MCReadHandle ----------------------------
EXTENDS ReadHandle

MCContents == {<<1, 2>>, <<3>>}
=============================================================================
