--------------------------- MODULE MCDeployments ----------------------------
(* Instances of Deployments for TLC.                                       *)
EXTENDS Deployments, TLC

(* Projects are interchangeable, and so are dashboard contents.            *)
Symmetry == Permutations(Projects) \cup Permutations(Contents)
=============================================================================
