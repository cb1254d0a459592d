--------------------------- MODULE NanoWorkflowMC ---------------------------
(***************************************************************************)
(* Instances of NanoWorkflow for TLC.  A plain creator c and an admin m who *)
(* has also the moderator's rights; in the configurations with one Nano it  *)
(* belongs to c, in those with two the second belongs to m.                 *)
(***************************************************************************)
EXTENDS NanoWorkflow, TLC

CONSTANTS n1, n2, c, m

CreatorOf == [n \in Nanos |-> IF n = n1 THEN c ELSE m]

RequestSymmetry == Permutations(Requests)
=============================================================================
