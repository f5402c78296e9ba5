----------------------------- MODULE MCTestRuns -----------------------------
(***************************************************************************)
(* Four calls, each carried out up to twice, at most one of them somebody  *)
(* else's; an entry with a stable id and one without.                      *)
(***************************************************************************)
EXTENDS TestRuns, TLC

CONSTANTS c1, c2, c3, c4, t1, t2, stable, loose

MCSymmetry == Permutations({c1, c2, c3, c4}) \cup Permutations({t1, t2})
=============================================================================
