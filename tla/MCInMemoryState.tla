-------------------------- MODULE MCInMemoryState --------------------------
(* Instances of InMemoryState for TLC.                                       *)
EXTENDS InMemoryState

CONSTANTS w1, w2, a1

\* One watcher of one allocation, one of all of them.
Mixed == [w \in Watcher |-> IF w = w1 THEN {a1} ELSE Id]
=============================================================================
