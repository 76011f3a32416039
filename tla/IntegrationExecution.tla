------------------------ MODULE IntegrationExecution ------------------------
(***************************************************************************)
(* The integration seam: RagCore writes a job and its command, consumers   *)
(* of the Integrations Service recover the instruction from the job row,   *)
(* re-verify authority and access, call the connector and record the       *)
(* answer, and RagCore concludes from the answer columns of its own row.   *)
(*                                                                         *)
(* A work item's operation stands for the derived idempotency key: the key *)
(* is a function of organisation, work item and operation.  Every read is  *)
(* a transaction of its own, so anything may change between two of them.   *)
(***************************************************************************)
EXTENDS Integers, FiniteSets

CONSTANTS
    Works,          \* operations of work items: one derived key each
    Jobs,           \* rows of integration_job
    WorkOf,         \* the work each job carries out
    Keyed,          \* work whose binding has the DERIVED_KEY policy
    Messages,       \* messages on the command queue
    JobOf,          \* the job a message names; NULL when the body is no execute command
    Forged,         \* messages the outbox did not publish
    Consumers,      \* command consumers
    Approvals,      \* approval states of the work when it is dispatched
    WorkMoves,      \* states RagCore moves the work to meanwhile
    Window,         \* the instant the execution window closes
    MaxDelivery,    \* deliveries after which the broker dead-letters
    MaxTime,        \* bound: the last instant of the clock
    MaxChanges,     \* bound: catalogue changes, suspensions and work moves
    MaxFaults,      \* bound: exceptions and crashes
    NULL

WorkItemState ==
    {"open", "awaiting_decision", "authorized", "claimed", "executed",
     "failed", "expired", "cancelled", "escalated"}
ApprovalState == {"none", "pending", "approved", "rejected", "expired"}

Refusals ==
    {"refused_unentitled", "refused_unregistered", "refused_version", "refused_window"}
Outcomes == Refusals \cup {"succeeded", "failed", "unreachable"}

(* What the access re-check and the connector read about a capability: the    *)
(* organisation is entitled, the catalogue has an entry, the version in force *)
(* is the one the job names, a binding and a credential reference exist.      *)
Facts == {"entitled", "registered", "current", "bound", "credential"}

Phase == {"idle", "loading", "loaded", "checking", "keying", "invoking", "recording", "settling"}

(* One delivery being handled.  fit is the part of the loaded instruction     *)
(* that is_executable_at reads; answered and withdrawn are history: whether   *)
(* the work had an answer, or was withdrawn, when the delivery was received.  *)
Run == [phase     : Phase,
        msg       : Messages \cup {NULL},
        fit       : BOOLEAN,
        outcome   : Outcomes \cup {NULL},
        answered  : BOOLEAN,
        withdrawn : BOOLEAN]

Idle == [phase |-> "idle", msg |-> NULL, fit |-> FALSE, outcome |-> NULL,
         answered |-> FALSE, withdrawn |-> FALSE]

At(r, phase) ==
    [phase |-> phase, msg |-> r.msg, fit |-> r.fit, outcome |-> r.outcome,
     answered |-> r.answered, withdrawn |-> r.withdrawn]

Loaded(r, fit) ==
    [phase |-> "loaded", msg |-> r.msg, fit |-> fit, outcome |-> r.outcome,
     answered |-> r.answered, withdrawn |-> r.withdrawn]

ToRecord(r, outcome) ==
    [phase |-> "recording", msg |-> r.msg, fit |-> r.fit, outcome |-> outcome,
     answered |-> r.answered, withdrawn |-> r.withdrawn]

Message == [status : {"absent", "queued", "held", "done", "dead"}, count : Nat]

Put(message, status) == [status |-> status, count |-> message.count]

ASSUME SeamAssumption ==
    /\ WorkOf \in [Jobs -> Works]
    /\ Keyed \subseteq Works
    /\ JobOf \in [Messages -> Jobs \cup {NULL}]
    /\ Forged \subseteq Messages
    /\ \A m \in Messages : JobOf[m] = NULL => m \in Forged
    /\ Approvals \subseteq ApprovalState
    /\ WorkMoves \subseteq WorkItemState \ {"open", "awaiting_decision", "authorized", "claimed"}
ASSUME SeamNull == NULL \notin Jobs /\ NULL \notin Messages /\ NULL \notin Outcomes \cup {"executed"}
ASSUME SeamBounds ==
    /\ Window \in Nat
    /\ MaxDelivery \in Nat \ {0}
    /\ MaxTime \in Nat
    /\ MaxChanges \in Nat
    /\ MaxFaults \in Nat

VARIABLES
    clock,
    tenant,     \* the organisation's status
    state,      \* state of each work item
    approval,   \* approval_state of each work item
    facts,      \* what holds of the capability each work invokes
    dispatched, \* jobs whose row (and outbox row) is committed
    msg,        \* command messages in the broker
    run,        \* what each consumer is doing
    record,     \* execution_record: the outcome under each derived key
    result,     \* result_status of each job
    announced,  \* jobs with a row in the result outbox
    concluded,  \* what RagCore concluded
    calls,      \* history: calls that took effect at the connector
    changes,
    faults

vars == <<clock, tenant, state, approval, facts, dispatched, msg, run, record, result,
          announced, concluded, calls, changes, faults>>

authority == <<clock, tenant, state, approval, facts, changes>>
answers   == <<record, result, announced>>

Init ==
    /\ clock = 0
    /\ tenant = "active"
    /\ state = [w \in Works |-> "authorized"]
    /\ approval \in [Works -> Approvals]
    /\ facts = [w \in Works |-> Facts]
    /\ dispatched = {}
    /\ msg = [m \in Messages |-> [status |-> "absent", count |-> 0]]
    /\ run = [c \in Consumers |-> Idle]
    /\ record = [w \in Works |-> NULL]
    /\ result = [j \in Jobs |-> NULL]
    /\ announced = {}
    /\ concluded = [j \in Jobs |-> "pending"]
    /\ calls = [w \in Works |-> 0]
    /\ changes = 0
    /\ faults = 0

-----------------------------------------------------------------------------
(* What changes under the consumers. *)

Tick ==
    /\ clock < MaxTime
    /\ clock' = clock + 1
    /\ UNCHANGED <<tenant, state, approval, facts, changes, dispatched, msg, run, answers, concluded, calls, faults>>

Suspend ==
    /\ tenant = "active"
    /\ changes < MaxChanges
    /\ changes' = changes + 1
    /\ tenant' = "suspended"
    /\ UNCHANGED <<clock, state, approval, facts, dispatched, msg, run, answers, concluded, calls, faults>>

MoveWork(w, s) ==
    /\ state[w] \in {"authorized", "claimed"}
    /\ changes < MaxChanges
    /\ changes' = changes + 1
    /\ state' = [state EXCEPT ![w] = s]
    /\ UNCHANGED <<clock, tenant, approval, facts, dispatched, msg, run, answers, concluded, calls, faults>>

(* An entitlement revoked, an entry withdrawn or versioned forward, a binding *)
(* or a credential reference removed.                                         *)
LoseFact(w, f) ==
    /\ f \in facts[w]
    /\ changes < MaxChanges
    /\ changes' = changes + 1
    /\ facts' = [facts EXCEPT ![w] = @ \ {f}]
    /\ UNCHANGED <<clock, tenant, state, approval, dispatched, msg, run, answers, concluded, calls, faults>>

-----------------------------------------------------------------------------
(* RagCore dispatches; the outbox publishes, at least once.                  *)

Dispatch(j) ==
    /\ j \notin dispatched
    /\ state[WorkOf[j]] \in {"authorized", "claimed"}
    /\ dispatched' = dispatched \cup {j}
    /\ UNCHANGED <<authority, msg, run, answers, concluded, calls, faults>>

Send(m) ==
    /\ msg[m].status = "absent"
    /\ m \in Forged \/ JobOf[m] \in dispatched
    /\ msg' = [msg EXCEPT ![m] = [status |-> "queued", count |-> 0]]
    /\ UNCHANGED <<authority, dispatched, run, answers, concluded, calls, faults>>

(* The message's time to live matches the window. *)
ExpireMessage(m) ==
    /\ msg[m].status = "queued"
    /\ clock >= Window
    /\ msg' = [msg EXCEPT ![m] = Put(@, "dead")]
    /\ UNCHANGED <<authority, dispatched, run, answers, concluded, calls, faults>>

-----------------------------------------------------------------------------
(* One delivery: CommandConsumer.handle and ExecutionLeg.run.                *)

JobFor(c) == JobOf[run[c].msg]
WorkFor(c) == WorkOf[JobFor(c)]

(* The work was cancelled, expired or failed, its window closed, or its      *)
(* organisation suspended.                                                   *)
Withdrawn(w) ==
    \/ state[w] \in {"cancelled", "expired", "failed"}
    \/ clock >= Window
    \/ tenant # "active"

Receive(c, m) ==
    /\ run[c].phase = "idle"
    /\ msg[m].status = "queued"
    /\ msg' = [msg EXCEPT ![m] = [status |-> "held", count |-> @.count + 1]]
    /\ run' = [run EXCEPT ![c] =
                 [phase |-> "loading", msg |-> m, fit |-> FALSE, outcome |-> NULL,
                  answered  |-> JobOf[m] # NULL /\ record[WorkOf[JobOf[m]]] # NULL,
                  withdrawn |-> JobOf[m] # NULL /\ Withdrawn(WorkOf[JobOf[m]])]]
    /\ UNCHANGED <<authority, dispatched, answers, concluded, calls, faults>>

(* Dead-lettered: no execute envelope, or no such job. *)
Reject(c) ==
    /\ run[c].phase = "loading"
    /\ JobFor(c) \notin dispatched
    /\ msg' = [msg EXCEPT ![run[c].msg] = Put(@, "dead")]
    /\ run' = [run EXCEPT ![c] = Idle]
    /\ UNCHANGED <<authority, dispatched, answers, concluded, calls, faults>>

(* is_executable_at, without the instant: it names approval states that the  *)
(* approval_state column never holds, and a work state that does not exist.  *)
FitWhateverTheState(w) == tenant = "active" /\ approval[w] = "approved"
Fit(w) ==
    /\ tenant = "active"
    /\ state[w] \notin {"cancelled", "expired", "closed", "failed"}
    /\ approval[w] \in {"approved", "auto_authorized", "consented"}

Load(c) ==
    /\ run[c].phase = "loading"
    /\ JobFor(c) \in dispatched
    /\ run' = [run EXCEPT ![c] = Loaded(@, Fit(WorkFor(c)))]
    /\ UNCHANGED <<authority, dispatched, msg, answers, concluded, calls, faults>>

(* The clock is read after the row, so the instant is newer than the row. *)
CheckAuthorityUnrecorded(c) ==
    /\ run[c].phase = "loaded"
    /\ run' = [run EXCEPT ![c] = At(@, IF run[c].fit /\ clock < Window THEN "checking" ELSE "settling")]
    /\ UNCHANGED <<authority, dispatched, msg, answers, concluded, calls, faults>>

CheckAuthority(c) ==
    /\ run[c].phase = "loaded"
    /\ run' = [run EXCEPT ![c] = IF run[c].fit /\ clock < Window
                                   THEN At(@, "checking")
                                   ELSE ToRecord(@, "refused_window")]
    /\ UNCHANGED <<authority, dispatched, msg, answers, concluded, calls, faults>>

(* AccessPolicy.evaluate with _REFUSAL_OUTCOME: the first fact that fails, or *)
(* NULL when the call is permitted.                                           *)
RefusalOf(w) ==
    IF "entitled" \notin facts[w] THEN "refused_unentitled"
    ELSE IF "registered" \notin facts[w] THEN "refused_unregistered"
    ELSE IF "current" \notin facts[w] THEN "refused_version"
    ELSE IF "bound" \notin facts[w] THEN "refused_unregistered"
    ELSE NULL

Refuse(c) ==
    /\ run[c].phase = "checking"
    /\ RefusalOf(WorkFor(c)) # NULL
    /\ run' = [run EXCEPT ![c] = ToRecord(@, RefusalOf(WorkFor(c)))]
    /\ UNCHANGED <<authority, dispatched, msg, answers, concluded, calls, faults>>

Permit(c) ==
    /\ run[c].phase = "checking"
    /\ RefusalOf(WorkFor(c)) = NULL
    /\ run' = [run EXCEPT ![c] = At(@, IF WorkFor(c) \in Keyed THEN "keying" ELSE "invoking")]
    /\ UNCHANGED <<authority, dispatched, msg, answers, concluded, calls, faults>>

(* execution_for_key, asked before invoking. *)
KeyNeverTaken(w) == FALSE
KeyTaken(w) == record[w] # NULL

CheckKey(c) ==
    /\ run[c].phase = "keying"
    /\ run' = [run EXCEPT ![c] = At(@, IF KeyTaken(WorkFor(c)) THEN "settling" ELSE "invoking")]
    /\ UNCHANGED <<authority, dispatched, msg, answers, concluded, calls, faults>>

(* The call returns success or a failure status, or the transport or the      *)
(* boundary check raises; unless it succeeded, it may or may not have landed. *)
Invoke(c) ==
    /\ run[c].phase = "invoking"
    /\ "credential" \in facts[WorkFor(c)]
    /\ \E outcome \in {"succeeded", "failed", "unreachable"}, landed \in {0, 1} :
         /\ outcome = "succeeded" => landed = 1
         /\ calls' = [calls EXCEPT ![WorkFor(c)] = @ + landed]
         /\ run' = [run EXCEPT ![c] = ToRecord(@, outcome)]
    /\ UNCHANGED <<authority, dispatched, msg, answers, concluded, faults>>

(* The unique constraint on idempotency_key arbitrates the INSERT. *)
InsertAlwaysWins(w) == TRUE
InsertWins(w) == record[w] = NULL

(* record_result: everything but a success is a failure to RagCore. *)
StatusIsTheOutcome(outcome) == outcome
StatusUnlessRefused(outcome) == IF outcome \in Refusals THEN "failed" ELSE "executed"
ResultStatus(outcome) == IF outcome = "succeeded" THEN "executed" ELSE "failed"

(* One transaction: execution record, result outbox row, audit record and     *)
(* result columns, or nothing when the key is present.  Refusals and          *)
(* capabilities without a key policy are recorded under the derived key too.  *)
Record(c) ==
    /\ run[c].phase = "recording"
    /\ IF InsertWins(WorkFor(c))
         THEN /\ record' = [record EXCEPT ![WorkFor(c)] = run[c].outcome]
              /\ result' = [result EXCEPT ![JobFor(c)] = ResultStatus(run[c].outcome)]
              /\ announced' = announced \cup {JobFor(c)}
         ELSE UNCHANGED answers
    /\ run' = [run EXCEPT ![c] = At(@, "settling")]
    /\ UNCHANGED <<authority, dispatched, msg, concluded, calls, faults>>

(* Executed, refused or suppressed: the message completes. *)
Settle(c) ==
    /\ run[c].phase = "settling"
    /\ msg' = [msg EXCEPT ![run[c].msg] = Put(@, "done")]
    /\ run' = [run EXCEPT ![c] = Idle]
    /\ UNCHANGED <<authority, dispatched, answers, concluded, calls, faults>>

DeliveriesExhausted(count) == count >= MaxDelivery

(* The broker redelivers an abandoned message until its delivery count is up. *)
(* (AbandonAsNew: the body sent again as a new message, its count lost.)      *)
AbandonAsNew(c) ==
    /\ msg' = [msg EXCEPT ![run[c].msg] = [status |-> "queued", count |-> 0]]
    /\ run' = [run EXCEPT ![c] = Idle]
Abandon(c) ==
    /\ msg' = [msg EXCEPT ![run[c].msg] =
                 Put(@, IF DeliveriesExhausted(@.count) THEN "dead" ELSE "queued")]
    /\ run' = [run EXCEPT ![c] = Idle]

(* CredentialNotEntitledError is neither of the exceptions run() catches. *)
NoCredential(c) ==
    /\ run[c].phase = "invoking"
    /\ "credential" \notin facts[WorkFor(c)]
    /\ Abandon(c)
    /\ UNCHANGED <<authority, dispatched, answers, concluded, calls, faults>>

(* Any other exception, or the process dies and the lock runs out: also after *)
(* the call, and also between the commit and the settlement.                  *)
Fail(c) ==
    /\ run[c].phase # "idle"
    /\ faults < MaxFaults
    /\ faults' = faults + 1
    /\ Abandon(c)
    /\ UNCHANGED <<authority, dispatched, answers, concluded, calls>>

-----------------------------------------------------------------------------
(* RagCore is woken, by a result message or by anything that looks like one,  *)
(* and concludes from its own row.  No answer is ever server-confirmed here.  *)
ConcludedFrom(r) ==
    IF r = NULL THEN "pending" ELSE IF r = "executed" THEN "acted_unverified" ELSE "failed"

Conclude(j) ==
    /\ concluded' = [concluded EXCEPT ![j] = ConcludedFrom(result[j])]
    /\ UNCHANGED <<authority, dispatched, msg, run, answers, calls, faults>>

-----------------------------------------------------------------------------
ConsumerStep(c) ==
    \/ Reject(c)
    \/ Load(c)
    \/ CheckAuthority(c)
    \/ Refuse(c)
    \/ Permit(c)
    \/ CheckKey(c)
    \/ Invoke(c)
    \/ NoCredential(c)
    \/ Record(c)
    \/ Settle(c)

Environment ==
    \/ Tick
    \/ Suspend
    \/ \E w \in Works : (\E f \in Facts : LoseFact(w, f)) \/ \E s \in WorkMoves : MoveWork(w, s)

Next ==
    \/ Environment
    \/ \E j \in Jobs : Dispatch(j) \/ Conclude(j)
    \/ \E m \in Messages : Send(m) \/ ExpireMessage(m)
    \/ \E c \in Consumers : ConsumerStep(c) \/ Fail(c) \/ \E m \in Messages : Receive(c, m)

Spec == Init /\ [][Next]_vars

(* A consumer keeps receiving and finishes what it received; RagCore handles  *)
(* the result messages it is sent.                                            *)
Fairness ==
    /\ \A c \in Consumers : WF_vars(ConsumerStep(c) \/ \E m \in Messages : Receive(c, m))
    /\ \A j \in Jobs : WF_vars(j \in announced /\ Conclude(j))

FairSpec == Spec /\ Fairness

-----------------------------------------------------------------------------
(* Properties. *)

TypeOK ==
    /\ clock \in Nat
    /\ tenant \in {"active", "suspended"}
    /\ state \in [Works -> WorkItemState]
    /\ approval \in [Works -> ApprovalState]
    /\ facts \in [Works -> SUBSET Facts]
    /\ dispatched \subseteq Jobs
    /\ msg \in [Messages -> Message]
    /\ run \in [Consumers -> Run]
    /\ record \in [Works -> Outcomes \cup {NULL}]
    /\ result \in [Jobs -> {"executed", "failed", NULL}]
    /\ announced \subseteq Jobs
    /\ concluded \in [Jobs -> {"pending", "failed", "acted_unverified"}]
    /\ calls \in [Works -> Nat]
    /\ changes \in Nat
    /\ faults \in Nat

Answers == INSTANCE JobAnswers WITH answer <- result

(* executions.py and integration_result_worker.py: however often a command is *)
(* delivered, and to how many consumers at once, a job is answered at most    *)
(* once, and no late, duplicated or forged result message makes RagCore       *)
(* change a conclusion it has drawn.                                          *)
AnswersAreFinal == Answers!Spec

(* executor.py, step 4: a delivery received after the work was answered does  *)
(* not call the connector again, when the binding carries a derived key.      *)
AnsweredWorkIsNotCalledAgain ==
    \A c \in Consumers :
        run[c].phase = "invoking" /\ run[c].answered => WorkFor(c) \notin Keyed

(* jobs.py: authority is re-verified, not inherited.  Work that was withdrawn *)
(* before the delivery was received does not reach the connector.             *)
WithdrawnWorkIsNotCalled ==
    \A c \in Consumers : run[c].phase = "invoking" => ~run[c].withdrawn

(* consumer.py: a message that left the queue as handled was an executed, a   *)
(* refused or a suppressed one, and in each case the work has its durable     *)
(* answer; exceptions, crashes and redeliveries leave no gap.                 *)
HandledMeansAnswered ==
    \A m \in Messages :
        msg[m].status = "done" => JobOf[m] \in dispatched /\ record[WorkOf[JobOf[m]]] # NULL

(* integration_result_worker.py: RagCore concludes that the platform acted    *)
(* only about work whose call took effect at the connector.                   *)
ActedMeansCalled ==
    \A j \in Jobs : concluded[j] = "acted_unverified" => calls[WorkOf[j]] > 0

(* consumer.py and queues.json: every command that reaches the queue is       *)
(* handled or surfaces as a dead letter, also when handling it always raises. *)
EveryCommandEnds ==
    \A m \in Messages : msg[m].status = "queued" ~> msg[m].status \in {"done", "dead"}

(* Inductive invariant.  What a delivery being handled knows: history that    *)
(* stays true, checks passed only by work that was neither withdrawn nor, if  *)
(* keyed, answered when it was received, and a record behind a settlement.    *)
RunOK(c) ==
    run[c].phase # "idle" =>
        /\ run[c].msg \in Messages
        /\ run[c].phase # "loading" => JobFor(c) \in dispatched
        /\ JobFor(c) # NULL /\ run[c].answered => record[WorkFor(c)] # NULL
        /\ JobFor(c) # NULL /\ run[c].withdrawn => Withdrawn(WorkFor(c))
        /\ run[c].phase = "loaded" /\ run[c].fit /\ run[c].withdrawn => clock >= Window
        /\ run[c].phase \in {"checking", "keying", "invoking"} => ~run[c].withdrawn
        /\ run[c].phase = "invoking" /\ run[c].answered => WorkFor(c) \notin Keyed
        /\ run[c].phase = "recording" => run[c].outcome # NULL
        /\ run[c].phase = "recording" /\ run[c].outcome = "succeeded" => calls[WorkFor(c)] > 0
        /\ run[c].phase = "settling" => record[WorkFor(c)] # NULL

(* An answer has its record, an executed one its call, and a conclusion is    *)
(* either still open or what the answer says.                                 *)
AnswerOK(j) ==
    /\ result[j] # NULL => record[WorkOf[j]] # NULL
    /\ result[j] = "executed" => calls[WorkOf[j]] > 0
    /\ concluded[j] # "pending" => result[j] # NULL /\ concluded[j] = ConcludedFrom(result[j])

IInv ==
    /\ TypeOK
    /\ \A c \in Consumers : RunOK(c)
    /\ \A j \in Jobs : AnswerOK(j)
    /\ HandledMeansAnswered

-----------------------------------------------------------------------------
(* What the documents say, and the code does not do. *)

(* 0023_integration_execution.py: the key is unique, so at most one external  *)
(* effect occurs however many times the message arrives.                      *)
AtMostOneExternalEffect == \A w \in Keyed : calls[w] <= 1

=============================================================================
