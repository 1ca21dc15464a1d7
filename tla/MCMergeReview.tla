---------------------------- MODULE MCMergeReview ----------------------------
EXTENDS MergeReview

CONSTANTS c1, c2

Symmetry == Permutations({c1, c2}) \cup Permutations(Payload) \cup Permutations(Choice)
=============================================================================
