--------------------------- MODULE MCJobExecutions ---------------------------
(* Instances of JobExecutions for TLC: rows are interchangeable.            *)
EXTENDS JobExecutionsRefinement, TLC

MCSymmetry == Permutations(Rows)
=============================================================================
