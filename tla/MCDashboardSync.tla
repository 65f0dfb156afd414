-------------------------- MODULE MCDashboardSync ---------------------------
(* Instances of DashboardSync for TLC.                                      *)
EXTENDS DashboardSync, TLC

(* Ordinary configurations are interchangeable where every constant that   *)
(* names one of them names all of them.                                    *)
Ordinary == Contents \ (Shells \cup Malformed)

ASSUME SymmetryAssumption ==
  \A named \in {InitialLive, EditValues} :
    Ordinary \cap named \in {{}, Ordinary}

Symmetry == Permutations(Ordinary)
=============================================================================
