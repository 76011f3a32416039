------------------------------ MODULE MCOutbox ------------------------------
(* Small instances of Outbox for TLC. *)
EXTENDS Outbox, TLC

CONSTANTS m1, m2, m3

(* A granted decision, a refusal and a command, in that order. *)
MCKindOf ==
    [m \in Messages |->
        CASE m = m1 -> "approval.granted"
          [] m = m2 -> "integration.execute"
          [] OTHER  -> "consent.refused"]

Symmetry == Permutations(Dispatchers)

=============================================================================
