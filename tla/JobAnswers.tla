----------------------------- MODULE JobAnswers -----------------------------
(***************************************************************************)
(* What RagCore may rely on at the integration seam: a job is answered at  *)
(* most once, an answer never changes, and a conclusion drawn from the     *)
(* answer column agrees with it for ever.                                  *)
(***************************************************************************)
CONSTANTS Jobs, NULL

VARIABLES
    answer,     \* the result_status column of each job: NULL, "executed" or "failed"
    concluded   \* what RagCore has concluded about the job

vars == <<answer, concluded>>

Init ==
    /\ answer = [j \in Jobs |-> NULL]
    /\ concluded = [j \in Jobs |-> "pending"]

Answer(j) ==
    /\ answer[j] = NULL
    /\ \E r \in {"executed", "failed"} : answer' = [answer EXCEPT ![j] = r]
    /\ UNCHANGED concluded

Conclude(j) ==
    /\ concluded[j] = "pending"
    /\ answer[j] # NULL
    /\ concluded' = [concluded EXCEPT ![j] =
                       IF answer[j] = "executed" THEN "acted_unverified" ELSE "failed"]
    /\ UNCHANGED answer

Next == \E j \in Jobs : Answer(j) \/ Conclude(j)

Spec == Init /\ [][Next]_vars

=============================================================================
