----------------------------- MODULE MCWorkItem -----------------------------
(* Small instances of WorkItem for TLC. *)
EXTENDS WorkItem, TLC

(* Consumers, and work items, are interchangeable in every action and in the  *)
(* safety properties.                                                         *)
Symmetry == Permutations(Consumers) \cup Permutations(WorkItems)

(* Every instant the clock takes is covered by the windows opened before it. *)
ASSUME MCBounds == Window <= MaxTime

=============================================================================
