---------------------------- MODULE MCRepoConfig ----------------------------
(* Which of the unused identities a new file gets makes no difference.     *)
EXTENDS RepoConfig, TLC

CONSTANTS i1, i2, i3, i4

IdSymmetry == Permutations(Ids)
=============================================================================
