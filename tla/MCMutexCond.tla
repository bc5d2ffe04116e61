----------------------------- MODULE MCMutexCond -----------------------------
EXTENDS MutexCond, TLC

\* Threads are interchangeable: safety runs explore one of each permutation.
ThreadSymmetry == Permutations(Threads)
=============================================================================
