------------------------------ MODULE MCAgent -------------------------------
(* Small instances of Agent for TLC. *)
EXTENDS Agent, TLC

MCEntry(treatment, roles) == [treatment |-> treatment, roles |-> roles, elevated |-> FALSE]

MCStaffOnly == MCEntry("STAFF_APPROVAL", {"technician"})

(* A capability staff must be asked about; of its next version staff in       *)
(* another role must be asked, or the requester, or nobody.                   *)
MCFirstEntries == {MCStaffOnly}
MCLaterEntries ==
    {MCEntry("STAFF_APPROVAL", {"administrator"}), MCEntry("END_USER_APPROVAL", {}),
     MCEntry("AUTO", {})}

MCTurn(chars, words, vocabulary) ==
    [sender |-> "end_user", chars |-> chars, words |-> words, ack |-> FALSE,
     vocabulary |-> vocabulary]

(* A short question that names no subject, and an articulated IT request.     *)
MCUserTurns == {MCTurn(10, 2, {})}
MCRequestTurns == {MCTurn(40, 8, {"it"})}

(* A clear match.  Found again on the next turn it ties with itself, the      *)
(* margin is nothing and the evidence no longer grounds: both readings occur. *)
MCSearchResults == {<<90, 30>>}

(* Yes or no, by the right person for the first version: the wrong one for    *)
(* the next.                                                                  *)
MCStaffAnswers ==
    {[roles |-> {"technician"}, verdict |-> "approved"],
     [roles |-> {"technician"}, verdict |-> "rejected"]}

Symmetry == Permutations(Runs)

=============================================================================
