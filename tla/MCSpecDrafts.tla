---------------------------- MODULE MCSpecDrafts ----------------------------
(***************************************************************************)
(* Three calls of two agents, one of them carried out up to twice, on a    *)
(* draft with rows of one key.                                             *)
(***************************************************************************)
EXTENDS SpecDrafts, TLC

CONSTANTS c1, c2, c3, t1, t2, a1, a2, k1

MCSymmetry == Permutations({c1, c2, c3}) \cup Permutations({t1, t2})
                \cup Permutations({a1, a2})
=============================================================================
