------------------------------ MODULE MCIntake ------------------------------
EXTENDS Intake, TLC

\* Requests of a kind, replicas, numbers and contents are interchangeable.
Symmetry ==
    Permutations(Uploads) \union Permutations(Metadata) \union
    Permutations(Replicas) \union Permutations(Numbers) \union Permutations(Contents)
=============================================================================
