---------------------------- MODULE MCController ----------------------------
(* Controller on a small instance; the .cfg files choose the environment. *)
EXTENDS Controller, TLC

CONSTANTS a1, a2, a3, m1, m2, m3, i1, i2, i3

\* IDs and addresses are only compared.  Hardware addresses are not symmetric:
\* the configuration names some of them.
Symmetry == Permutations(Id) \cup Permutations(IP)
=============================================================================
