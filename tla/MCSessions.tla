----------------------------- MODULE MCSessions -----------------------------
(***************************************************************************)
(* Sessions on small instances: symmetry for the runs that check safety.   *)
(***************************************************************************)
EXTENDS Sessions, TLC

Symmetry == Permutations(Users) \cup Permutations(Reqs)
              \cup Permutations(Jtis) \cup Permutations(Roles)
=============================================================================
