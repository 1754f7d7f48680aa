----------------------------- MODULE MCBatchRun -----------------------------
(***************************************************************************)
(* Small instances of BatchRun for TLC.  Processes and nodes are           *)
(* interchangeable: no definition singles one out, and CHOOSE is only      *)
(* applied where one element qualifies.                                    *)
(***************************************************************************)
EXTENDS BatchRunProperties, TLC

Symmetry == Permutations(Owner) \cup Permutations(Node)
==============================================================================
