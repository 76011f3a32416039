----------------------------- MODULE MCSession ------------------------------
(* Small instances of Session for TLC. *)
EXTENDS Session, TLC

MCTurn(sender, chars, words) ==
    [sender |-> sender, chars |-> chars, words |-> words, ack |-> FALSE, vocabulary |-> {}]

(* A request, and the agent's reply to it. *)
MCContentOf == "request" :> MCTurn("end_user", 40, 8) @@ "reply" :> MCTurn("agent", 40, 8)

(* No usable override, and a window shorter than the platform's. *)
MCOverrides == {[kind |-> "bool", value |-> 1], [kind |-> "int", value |-> 1]}

Symmetry == Permutations(Requests)

=============================================================================
