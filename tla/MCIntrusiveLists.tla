--------------------------- MODULE MCIntrusiveLists ---------------------------
EXTENDS IntrusiveLists
CONSTANTS sem
=============================================================================
