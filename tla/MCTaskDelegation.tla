-------------------------- MODULE MCTaskDelegation --------------------------
EXTENDS TaskDelegation, TLC

\* Attempts and requests are interchangeable; for safety runs only.
DelegationSymmetry == Permutations(Attempts) \cup Permutations(Clients)
=============================================================================
