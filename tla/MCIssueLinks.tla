---------------------------- MODULE MCIssueLinks ----------------------------
(***************************************************************************)
(* Two calls, of hold_intent or of the link tools, one of them carried     *)
(* out twice; an issue, a spec of main and one the branch has a row of; a  *)
(* duration of sixteen values, in which nine days are two.                 *)
(***************************************************************************)
EXTENDS IssueLinks, TLC

CONSTANTS c1, c2, t1, t2, i1, s1, s2

MCSymmetry == Permutations({c1, c2}) \cup Permutations({t1, t2})
=============================================================================
