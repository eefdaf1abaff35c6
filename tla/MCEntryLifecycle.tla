-------------------------- MODULE MCEntryLifecycle --------------------------
EXTENDS EntryLifecycle, TLC

Symmetry == Permutations(Coordinators)
=============================================================================
