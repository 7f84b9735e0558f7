------------------------------- MODULE MCSync -------------------------------
EXTENDS Sync

\* Nothing distinguishes two mutexes before they are created.
MutexSymmetry == Permutations(Mutexes)
=============================================================================
