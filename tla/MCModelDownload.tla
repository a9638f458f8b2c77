--------------------------- MODULE MCModelDownload ---------------------------
EXTENDS ModelDownload

CONSTANT m

HashedFiles == {<<m, "primary">>}
=============================================================================
