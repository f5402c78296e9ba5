--------------------------- MODULE MCTraceability ---------------------------
(***************************************************************************)
(* Three specs in two components: every tree of them, every set of copies  *)
(* and of gaps, every server, with a limit of two ancestors and of one     *)
(* listed gap.                                                             *)
(***************************************************************************)
EXTENDS Traceability, TLC

CONSTANTS s1, s2, s3, d1, d2

MCSymmetry == Permutations({s1, s2, s3}) \cup Permutations({d1, d2})
=============================================================================
