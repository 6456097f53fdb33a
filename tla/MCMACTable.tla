----------------------------- MODULE MCMACTable -----------------------------
(* Instances of MACTable for TLC.                                            *)
EXTENDS MACTable, TLC

CONSTANTS m1, m2

Config == <<m2>>

\* One address is registered by requests alone, one is also in the configuration.
Lists == {<<m1, Malformed, m2>>}

\* Controllers and allocations are interchangeable.
Symmetry == Permutations(Controller) \cup Permutations(Id)
=============================================================================
