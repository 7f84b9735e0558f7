----------------------------- MODULE MCResources -----------------------------
EXTENDS Resources
CONSTANTS boot, t1, s1, s2, a1
OneArena == {<<s1, a1>>}
SharedArena == {<<s1, a1>>, <<s2, a1>>}
=============================================================================
