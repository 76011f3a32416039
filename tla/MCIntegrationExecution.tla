----------------------- MODULE MCIntegrationExecution -----------------------
(* Small instances of IntegrationExecution for TLC. *)
EXTENDS IntegrationExecution, TLC

CONSTANTS w1, j1, m1, m2, mx

(* One job.  m1 and m2 both name it: m2 is a second publication of the same   *)
(* command, or a message the outbox never sent when it is listed in Forged.   *)
(* mx is no execute command.                                                  *)
MCWorkOf == [j \in Jobs |-> w1]
MCJobOf == [m \in Messages |-> IF m = mx THEN NULL ELSE j1]

(* Consumers are interchangeable. *)
Symmetry == Permutations(Consumers)

=============================================================================
