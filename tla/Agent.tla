------------------------------- MODULE Agent --------------------------------
(***************************************************************************)
(* The agent graph of one conversation thread: its nodes, its edges, its   *)
(* two reachable interrupts, the durable checkpoint it is resumed from,    *)
(* and the durable records its gate reads (tenant registry, entitlement,   *)
(* catalogue, operation, approval and consent rows).                       *)
(*                                                                         *)
(* A node runs on the in-memory state of its run; when it returns, the     *)
(* reduced channels and the next node are checkpointed together.  Nothing  *)
(* serialises two invocations of one thread, so several runs may be under  *)
(* way: each started from the checkpoint it found.  A run that raises, is  *)
(* cancelled or dies leaves the checkpoint of its last completed node.     *)
(***************************************************************************)
EXTENDS Governance

CONSTANTS
    Runs,            \* invocation slots of the thread
    Versions,        \* catalogue versions of the one capability
    FirstEntries,    \* what version 1 of it may be
    LaterEntries,    \* what an administrator may register as a further version
    UserTurns,       \* what the end user may write
    RequestTurns,    \* bound: the turns a proposal is made about
    SearchResults,   \* the score lists one retrieval may return
    StaffAnswers,    \* verdicts staff may give, with the roles the decider holds
    Window,          \* length of the execution window, in ticks
    MaxTime,         \* bound: the last instant of the clock
    MaxInvocations,  \* bound: turns and resumes in a behaviour
    MaxChanges       \* bound: administrative changes, consents and revised operations

(* A verdict is given by a person with roles, a score is not negative, and    *)
(* catalogue versions count from the first.                                   *)
ASSUME InputAssumption ==
    /\ Versions \subseteq Nat \ {0}
    /\ FirstEntries \subseteq Entry
    /\ LaterEntries \subseteq Entry
    /\ UserTurns \subseteq Turn
    /\ RequestTurns \subseteq Turn
    /\ SearchResults \subseteq Seq(Nat)
    /\ StaffAnswers \subseteq [roles : SUBSET StaffRoles, verdict : StaffVerdicts]
    /\ Window \in Nat
ASSUME BoundAssumption ==
    /\ MaxTime \in Nat
    /\ MaxInvocations \in Nat
    /\ MaxChanges \in Nat

VARIABLES
    active,      \* tenant_mapping.status = active (suspended and offboarded read alike)
    entitled,    \* tenant_entitlement.enabled
    catalogue,   \* governance_record rows by version
    operation,   \* the catalogue version of the work item's latest operation row
    approval,    \* the approval row of the work item
    consent,     \* the latest consent row of the work item
    now,         \* the platform clock
    saved,       \* the thread's checkpoint: channels and the next node
    run,         \* the runs under way
    calls,       \* external invocations made so far, by version (the key is work:version)
    invocations, changes

records == <<active, entitled, catalogue, operation, approval, consent, now, changes>>
vars == <<records, saved, run, calls, invocations>>

Nodes == {"intake", "converse", "retrieve", "ground", "guardrail", "propose", "classify",
          "govern", "await_consent", "await_approval", "execute", "verify", "close"}

(* Where a run stands inside a node that awaits more than once. *)
Inside == {"govern_entitled", "govern_verdict", "govern_decide",
           "consent_woken", "approval_woken", "execute_record"}

SessionStates == {"conversational", "resolving", "awaiting_user", "awaiting_consent",
                  "awaiting_approval", "staff_controlled", "resolved", "escalated",
                  "closed_declined"}

(* GovernanceResult: what the gate decided, and when. *)
GateResult == [treatment : Treatments, disposition : Dispositions, reason : GateReasons,
               decided_at : Nat]

(* HumanDecisionRecord: a verdict mirrored into working state. *)
Decided == [kind : DecisionKinds, verdict : StaffVerdicts \cup ConsentVerdicts]

(* ExecutionStatus *)
ExecutionStatuses == {"executed", "failed"}

(* None is no version, no record of the gate and no status. *)
ASSUME AgentNull ==
    /\ NULL \notin Versions
    /\ NULL \notin GateResult
    /\ NULL \notin ExecutionStatuses

(* AgentState, without the identifiers and without the classification, which  *)
(* no node reads.  execution stands for the execution and verification        *)
(* channels, which one node writes together.                                  *)
Channels ==
    [session        : SessionStates \cup {NULL},
     pending        : DecisionKinds \cup {NULL},
     conversation   : Seq(Turn),
     retrieved      : Seq(Nat),
     grounding      : BOOLEAN \cup {NULL},
     proposal       : Versions \cup {NULL},
     governance     : GateResult \cup {NULL},
     decision       : Decided \cup {NULL},
     execution      : ExecutionStatuses \cup {NULL}]

Empty ==
    [session |-> NULL, pending |-> NULL, conversation |-> <<>>, retrieved |-> <<>>,
     grounding |-> NULL, proposal |-> NULL, governance |-> NULL,
     decision |-> NULL, execution |-> NULL]

(* RunContext: re-established at each invocation, never checkpointed.  work   *)
(* says whether the caller names the work item.                               *)
Context == [admitted : BOOLEAN, work : BOOLEAN]

(* StaffVerdict, as decision_for builds it. *)
Verdict == [roles : SUBSET StaffRoles, verdict : StaffVerdicts,
            expires_at : Nat, bound_to : Versions]

Run == [ctx : Context, ch : Channels, at : Nodes \cup Inside,
        entry : Entry \cup {NULL}, entitled : BOOLEAN, verdict : Verdict \cup {NULL}]

(* An approval row: its three decision columns are written together. *)
Undecided == [verdict |-> NULL, roles |-> {}, expires_at |-> NULL]

Approval == [verdict : StaffVerdicts, roles : SUBSET StaffRoles, expires_at : Nat]
                \cup {Undecided}

TypeOK ==
    /\ active \in BOOLEAN
    /\ entitled \in BOOLEAN
    /\ catalogue \in [Versions -> Entry \cup {NULL}]
    /\ operation \in Versions \cup {NULL}
    /\ approval \in Approval \cup {NULL}
    /\ consent \in ConsentVerdicts \cup {NULL}
    /\ now \in Nat
    /\ saved \in [ch : Channels, next : Nodes \cup {"start", "end"}]
    /\ run \in [Runs -> Run \cup {NULL}]
    /\ calls \in [Versions -> Nat]
    /\ invocations \in Nat
    /\ changes \in Nat

Init ==
    /\ active = TRUE
    /\ entitled = TRUE
    /\ \E entry \in FirstEntries : catalogue = [v \in Versions |-> IF v = 1 THEN entry ELSE NULL]
    /\ operation = NULL
    /\ approval = NULL
    /\ consent = NULL
    /\ now = 0
    /\ saved = [ch |-> Empty, next |-> "start"]
    /\ run = [r \in Runs |-> NULL]
    /\ calls = [v \in Versions |-> 0]
    /\ invocations = 0
    /\ changes = 0

-----------------------------------------------------------------------------
(* Invocations.  A turn starts at START on the checkpointed channels with its *)
(* input reduced in, whatever the thread was suspended on.  The message       *)
(* endpoint admits active organisations only, names no work item and seeds no *)
(* proposal; a caller that seeds one (the proposal node is a scaffold) names  *)
(* the work item.                                                             *)

Running(ctx, ch, at) ==
    [ctx |-> ctx, ch |-> ch, at |-> at, entry |-> NULL, entitled |-> FALSE, verdict |-> NULL]

Begin(r, ctx, ch, at) ==
    /\ run[r] = NULL
    /\ invocations < MaxInvocations
    /\ run' = [run EXCEPT ![r] = Running(ctx, ch, at)]
    /\ invocations' = invocations + 1
    /\ UNCHANGED <<records, calls>>

Heard(ch, turn) == [ch EXCEPT !.conversation = Append(@, turn)]

(* send_message, _run_context, _initial_state, RunHost.stream_turn *)
SendMessage(r, turn) ==
    /\ active
    /\ LET ch == Heard(saved.ch, turn)
       IN  /\ Begin(r, [admitted |-> TRUE, work |-> FALSE], ch, "intake")
           /\ saved' = [ch |-> ch, next |-> "intake"]

InvokeWithProposal(r, turn, v) ==
    LET ch == [Heard(saved.ch, turn) EXCEPT !.proposal = v]
    IN  /\ Begin(r, [admitted |-> active, work |-> TRUE], ch, "intake")
        /\ saved' = [ch |-> ch, next |-> "intake"]

(* Command(resume=...): the suspended node runs again from its first line,    *)
(* and interrupt() now returns.  Any other unfinished node is simply re-run.  *)
Woken(next) == CASE next = "await_consent"  -> "consent_woken"
                 [] next = "await_approval" -> "approval_woken"
                 [] OTHER                   -> next

Resume(r) ==
    /\ saved.next \in Nodes
    /\ Begin(r, [admitted |-> active, work |-> TRUE], saved.ch, Woken(saved.next))
    /\ UNCHANGED saved

(* The run is over: it finished, suspended, raised, was cancelled or died. *)
Stop(r) == run' = [run EXCEPT ![r] = NULL]

(* The node returned: reduce its writes, checkpoint, go on to the next node.  *)
Return(r, ch, next) ==
    /\ saved' = [ch |-> ch, next |-> next]
    /\ IF next = "end" THEN Stop(r)
       ELSE run' = [run EXCEPT ![r] = Running(run[r].ctx, ch, next)]
    /\ UNCHANGED <<records, calls, invocations>>

At(r, node) == run[r] # NULL /\ run[r].at = node

Chan(r) == run[r].ch

-----------------------------------------------------------------------------
(* Conversation and grounding nodes. *)

Intake(r) ==
    /\ At(r, "intake")
    /\ Return(r, [Chan(r) EXCEPT !.session =
                      IF CommitsWork(Chan(r).conversation) THEN "resolving"
                      ELSE "conversational"], "converse")

Converse(r) ==
    /\ At(r, "converse")
    /\ Return(r, [Chan(r) EXCEPT !.session = "resolving"], "retrieve")

(* An empty message is no query; otherwise the evidence accumulates. *)
Retrieve(r) ==
    /\ At(r, "retrieve")
    /\ LET turn == LatestUserTurn(Chan(r).conversation)
       IN  \E found \in (IF turn = NULL \/ turn.chars = 0 THEN {<<>>} ELSE SearchResults) :
               Return(r, [Chan(r) EXCEPT !.retrieved = @ \o found], "ground")

Ground(r) ==
    /\ At(r, "ground")
    /\ Return(r, [Chan(r) EXCEPT !.grounding = AssessScores(Chan(r).retrieved).confident],
              "guardrail")

(* What the guardrail makes of the channels: there is evidence, or there is   *)
(* an operation to propose.                                                   *)
ScopeOutcome(ch) ==
    ClassifyScope(LatestUserTurn(ch.conversation), ch.grounding = TRUE \/ ch.proposal # NULL)

(* The guardrail and _route_after_guardrail. *)
Guardrail(r) ==
    /\ At(r, "guardrail")
    /\ LET ch      == Chan(r)
           outcome == ScopeOutcome(ch)
           session == CASE outcome = "decline"  -> "closed_declined"
                        [] outcome = "escalate" -> "escalated"
                        [] OTHER                -> ch.session
       IN  Return(r, [ch EXCEPT !.session = session],
                  IF session \in {"closed_declined", "escalated"} THEN "close" ELSE "propose")

Propose(r) ==
    /\ At(r, "propose")
    /\ Return(r, Chan(r), "classify")

(* OperationCatalogue.lookup joins the enabled entitlement. *)
Lookup(v) == IF entitled THEN catalogue[v] ELSE NULL

(* The classify node writes a reading nothing downstream consults;            *)
(* _route_after_propose then ends a run that proposes nothing.                *)
Classify(r) ==
    /\ At(r, "classify")
    /\ Return(r, Chan(r), IF Chan(r).proposal = NULL THEN "end" ELSE "govern")

-----------------------------------------------------------------------------
(* The govern node: four awaited reads, then the gate.  The sub-steps change  *)
(* nothing durable.                                                           *)

Read(r, seen) ==
    /\ run' = [run EXCEPT ![r] = seen]
    /\ UNCHANGED <<records, saved, calls, invocations>>

GovernLookup(r) ==
    /\ At(r, "govern")
    /\ Read(r, [run[r] EXCEPT !.entry = Lookup(Chan(r).proposal), !.at = "govern_entitled"])

GovernEntitled(r) ==
    /\ At(r, "govern_entitled")
    /\ Read(r, [run[r] EXCEPT !.entitled = entitled, !.at = "govern_verdict"])

(* ApprovalRepository.decision_for: the decided row, bound to the version of  *)
(* the work item's latest operation; nothing without an operation row.        *)
DecisionForApproval ==
    IF approval = NULL \/ operation = NULL THEN NULL
    ELSE IF approval.verdict = NULL THEN NULL
    ELSE [roles |-> approval.roles, verdict |-> approval.verdict,
          expires_at |-> approval.expires_at, bound_to |-> operation]

GovernVerdict(r) ==
    /\ At(r, "govern_verdict")
    /\ Read(r, [run[r] EXCEPT !.verdict = IF run[r].ctx.work THEN DecisionForApproval ELSE NULL,
                              !.at = "govern_decide"])

(* ConsentRepository.decision_for: the latest row, with no window. *)
DecisionForConsent ==
    IF consent = NULL \/ operation = NULL THEN NULL
    ELSE [kind |-> "consent", by |-> "requester", verdict |-> consent,
          bound_to |-> operation, expires_at |-> NULL]

(* _recorded_decision: a staff verdict if there is one, else the consent. *)
RecordedDecision(r) ==
    LET v == run[r].verdict
    IN  IF v # NULL
        THEN [kind |-> "approval", roles |-> v.roles, verdict |-> v.verdict,
              bound_to |-> v.bound_to, expires_at |-> v.expires_at]
        ELSE IF run[r].ctx.work THEN DecisionForConsent ELSE NULL

(* The request make_govern hands to the gate: knowledge keeps its default. *)
Request(r) ==
    LET d == RecordedDecision(r)
    IN  [admitted |-> run[r].ctx.admitted, entry |-> run[r].entry,
         entitled |-> run[r].entitled, version |-> Chan(r).proposal,
         requester |-> "requester", now |-> now, decision |-> d,
         expires_at |-> IF d = NULL THEN NULL ELSE d.expires_at,
         knowledge |-> KnowledgeNotRequired]

(* seal_governance: the treatment may only become stricter. *)
MaySeal(existing, update) ==
    existing = NULL \/ IsNarrowing(existing.treatment, update.treatment)

RouteRefusalsToTheEnd(disposition) ==
    CASE disposition = "proceed"              -> "execute"
      [] disposition = "suspend_for_consent"  -> "await_consent"
      [] disposition = "suspend_for_approval" -> "await_approval"
      [] OTHER                                -> "end"

(* route_after_govern *)
RouteAfterGovern(disposition) ==
    CASE disposition = "proceed"              -> "execute"
      [] disposition = "suspend_for_consent"  -> "await_consent"
      [] disposition = "suspend_for_approval" -> "await_approval"
      [] OTHER                                -> "close"

GovernDecide(r) ==
    /\ At(r, "govern_decide")
    /\ LET ch      == Chan(r)
           outcome == Evaluate(Request(r))
           result  == [treatment |-> outcome.treatment, disposition |-> outcome.disposition,
                       reason |-> outcome.reason, decided_at |-> now]
       IN  IF MaySeal(ch.governance, result)
           THEN Return(r, [ch EXCEPT !.governance = result,
                                     !.pending = SuspendsOn(outcome.disposition)],
                       RouteAfterGovern(outcome.disposition))
           ELSE Stop(r) /\ UNCHANGED <<records, saved, calls, invocations>>

-----------------------------------------------------------------------------
(* The interrupts.  The first pass suspends; the run ends and the checkpoint  *)
(* keeps the node as next.  Woken, the node reads the durable row, ignores    *)
(* what it was resumed with, and goes back to the gate.                       *)

SuspendByPolling(r) ==
    /\ At(r, "await_consent") \/ At(r, "await_approval")
    /\ Return(r, Chan(r), "govern")

Suspend(r) ==
    /\ At(r, "await_consent") \/ At(r, "await_approval")
    /\ Stop(r)
    /\ UNCHANGED <<records, saved, calls, invocations>>

(* seal_human_decision keeps the first; the mirror also clears pending. *)
Mirror(ch, record) ==
    [ch EXCEPT !.decision = IF @ = NULL THEN record ELSE @, !.pending = NULL]

WakeConsent(r) ==
    /\ At(r, "consent_woken")
    /\ LET d == IF run[r].ctx.work THEN DecisionForConsent ELSE NULL
       IN  Return(r, IF d = NULL THEN [Chan(r) EXCEPT !.session = "awaiting_consent"]
                     ELSE Mirror(Chan(r), [kind |-> "consent", verdict |-> d.verdict]),
                  "govern")

WakeApproval(r) ==
    /\ At(r, "approval_woken")
    /\ LET d == IF run[r].ctx.work THEN DecisionForApproval ELSE NULL
       IN  Return(r, IF d = NULL THEN [Chan(r) EXCEPT !.session = "awaiting_approval"]
                     ELSE Mirror(Chan(r), [kind |-> "approval", verdict |-> d.verdict]),
                  "govern")

-----------------------------------------------------------------------------
(* Execution, verification, closure. *)

(* The point-of-effect check, then the port is invoked. *)
Execute(r) ==
    /\ At(r, "execute")
    /\ LET v == Chan(r).proposal
       IN  IF Chan(r).governance.disposition = "proceed" /\ v # NULL /\ run[r].ctx.work
           THEN /\ calls' = [calls EXCEPT ![v] = @ + 1]
                /\ run' = [run EXCEPT ![r] = [run[r] EXCEPT !.at = "execute_record"]]
                /\ UNCHANGED <<records, saved, invocations>>
           ELSE Stop(r) /\ UNCHANGED <<records, saved, calls, invocations>>

(* The answer comes back and is sealed: a second, differing record raises.    *)
(* The clock stamps every attempt, so a second attempt always differs.        *)
RecordExecution(r) ==
    /\ At(r, "execute_record")
    /\ \E status \in ExecutionStatuses :
           IF Chan(r).execution = NULL
           THEN Return(r, [Chan(r) EXCEPT !.execution = status],
                       "verify")
           ELSE Stop(r) /\ UNCHANGED <<records, saved, calls, invocations>>

Verify(r) ==
    /\ At(r, "verify")
    /\ Return(r, Chan(r), "end")

Close(r) ==
    /\ At(r, "close")
    /\ Return(r, [Chan(r) EXCEPT !.session = "closed_declined", !.pending = NULL], "end")

(* A port raised, the client disconnected, or the process died. *)
Abort(r) ==
    /\ run[r] # NULL
    /\ Stop(r)
    /\ UNCHANGED <<records, saved, calls, invocations>>

-----------------------------------------------------------------------------
(* The rest of the platform. *)

Aside == UNCHANGED <<saved, run, calls, invocations>>

Change ==
    /\ changes < MaxChanges
    /\ changes' = changes + 1
    /\ Aside

(* An administrator suspends or re-activates the organisation, *)
SetStatus ==
    /\ Change
    /\ active' = ~active
    /\ UNCHANGED <<entitled, catalogue, operation, approval, consent, now>>

(* or changes what it is entitled to, *)
SetEntitlement ==
    /\ Change
    /\ entitled' = ~entitled
    /\ UNCHANGED <<active, catalogue, operation, approval, consent, now>>

(* or registers an entry: rows are never edited, a change is a new version. *)
Register(v, entry) ==
    /\ Change
    /\ CanBeRecord(entry, v)
    /\ catalogue[v] = NULL
    /\ \A u \in Versions : u < v => catalogue[u] # NULL
    /\ catalogue' = [catalogue EXCEPT ![v] = entry]
    /\ UNCHANGED <<active, entitled, operation, approval, consent, now>>

(* An operation row is written for the work item, and, the first time staff   *)
(* have to be asked, the single approval row they decide (external: src reads *)
(* and decides the row, and nothing in it writes one).                        *)
RaiseOperation(v) ==
    /\ IF operation = NULL THEN Aside /\ UNCHANGED changes ELSE Change
    /\ catalogue[v] # NULL
    /\ operation # v
    /\ operation' = v
    /\ approval' = IF approval = NULL /\ catalogue[v].treatment = "STAFF_APPROVAL"
                   THEN Undecided ELSE approval
    /\ UNCHANGED <<active, entitled, catalogue, consent, now>>

RecordVerdictOverAnother(roles, verdict) ==
    /\ Aside
    /\ approval # NULL
    /\ approval' = [verdict |-> verdict, roles |-> roles, expires_at |-> now + Window]
    /\ UNCHANGED <<active, entitled, catalogue, operation, consent, now, changes>>

(* ApprovalRepository.record_verdict: claim_once on decided_at IS NULL. *)
RecordVerdict(roles, verdict) ==
    /\ Aside
    /\ approval # NULL
    /\ approval.verdict = NULL
    /\ approval' = [verdict |-> verdict, roles |-> roles, expires_at |-> now + Window]
    /\ UNCHANGED <<active, entitled, catalogue, operation, consent, now, changes>>

(* ConsentRepository.record: INSERT ... SELECT inserts for the requester      *)
(* only, and nothing limits how many rows there are.                          *)
RecordConsent(verdict) ==
    /\ Change
    /\ consent # verdict
    /\ consent' = verdict
    /\ UNCHANGED <<active, entitled, catalogue, operation, approval, now>>

Tick ==
    /\ Aside
    /\ now < MaxTime
    /\ now' = now + 1
    /\ UNCHANGED <<active, entitled, catalogue, operation, approval, consent, changes>>

-----------------------------------------------------------------------------
NodeStep(r) ==
    \/ Intake(r) \/ Converse(r) \/ Retrieve(r) \/ Ground(r) \/ Guardrail(r)
    \/ Propose(r) \/ Classify(r)
    \/ GovernLookup(r) \/ GovernEntitled(r) \/ GovernVerdict(r) \/ GovernDecide(r)
    \/ Suspend(r) \/ WakeConsent(r) \/ WakeApproval(r)
    \/ Execute(r) \/ RecordExecution(r) \/ Verify(r) \/ Close(r)

Invocation(r) ==
    \/ \E turn \in UserTurns : SendMessage(r, turn)
    \/ \E turn \in RequestTurns, v \in Versions : InvokeWithProposal(r, turn, v)
    \/ Resume(r)

Platform ==
    \/ SetStatus \/ SetEntitlement \/ Tick
    \/ \E v \in Versions, entry \in LaterEntries : Register(v, entry)
    \/ \E v \in Versions : RaiseOperation(v)
    \/ \E answer \in StaffAnswers : RecordVerdict(answer.roles, answer.verdict)
    \/ \E verdict \in ConsentVerdicts : RecordConsent(verdict)

Next == Platform \/ \E r \in Runs : Invocation(r) \/ NodeStep(r) \/ Abort(r)

Spec == Init /\ [][Next]_vars

-----------------------------------------------------------------------------
(* Properties. *)

(* The channels of the checkpoint and of every run under way. *)
AllChannels == {saved.ch} \cup {Chan(r) : r \in {q \in Runs : run[q] # NULL}}

(* What entitles a run to invoke version v: the catalogue says AUTO, or an    *)
(* accepted role approved, and the gate looked before the window closed.      *)
Authorized(v, ch) ==
    /\ catalogue[v] # NULL
    /\ \/ catalogue[v].treatment = "AUTO"
       \/ /\ catalogue[v].treatment = "STAFF_APPROVAL"
          /\ approval # NULL
          /\ approval.verdict = "approved"
          /\ approval.roles \cap catalogue[v].roles # {}
          /\ ch.governance.decided_at < approval.expires_at

(* No step invokes the external capability unless the durable records, not    *)
(* the checkpoint and not the conversation, authorize exactly that catalogue  *)
(* version: however many turns, crashes, resumes, revised proposals and       *)
(* rejected decisions came before (gate.evaluate, make_govern, make_execute). *)
SpendsOnlyStandingAuthority ==
    [][\A v \in Versions :
          calls'[v] # calls[v] =>
              \E r \in Runs : /\ At(r, "execute")
                              /\ Chan(r).proposal = v
                              /\ Authorized(v, Chan(r))]_vars

(* The guardrail declined the turn or escalated it; the gate refused it. *)
Withheld(ch) == ScopeOutcome(ch) \in {"decline", "escalate"}

Rejected(ch) == ch.governance # NULL /\ ch.governance.disposition = "refuse"

(* Where a thread rests, its checkpoint says why.  Waiting, the interrupt the *)
(* client is shown is the one the gate asked for.  Ended, nothing is still    *)
(* announced as pending, the session is closed_declined exactly when the      *)
(* guardrail withheld the turn or the gate refused it, whatever stood in the  *)
(* channels from the turns before, and any other turn proposed nothing or has *)
(* its execution on record: no request was dropped without an answer          *)
(* (route_after_govern, make_close, _route_after_propose).                    *)
(* A turn the guardrail ESCALATES is among the withheld: make_close writes    *)
(* closed_declined over the `escalated` the guardrail set, and the thread     *)
(* ends as a declined one does, where guardrail.py says the two outcomes are  *)
(* not the same and that an escalated request is picked up by a person.       *)
RestIsExplained ==
    /\ saved.next \in {"await_consent", "await_approval"} =>
          /\ saved.ch.governance # NULL
          /\ saved.ch.pending = SuspendsOn(saved.ch.governance.disposition)
          /\ RouteAfterGovern(saved.ch.governance.disposition) = saved.next
    /\ saved.next = "end" =>
          /\ saved.ch.pending = NULL
          /\ saved.ch.session = "closed_declined" <=> Withheld(saved.ch) \/ Rejected(saved.ch)
          /\ \/ Withheld(saved.ch) \/ Rejected(saved.ch)
             \/ saved.ch.proposal = NULL
             \/ saved.ch.execution # NULL

(* The verdict mirrored into working state is the verdict on the durable      *)
(* row, for every copy of the channels, whoever else tried to decide after it *)
(* (record_verdict's first-verdict-wins claim, seal_human_decision).          *)
MirrorIsTheRow ==
    \A ch \in AllChannels :
        ch.decision # NULL /\ ch.decision.kind = "approval" =>
            approval # NULL /\ ch.decision.verdict = approval.verdict

(* The order in which one run may pass through the nodes. *)
Stage(at) ==
    CASE at = "intake" -> 1        [] at = "converse" -> 2       [] at = "retrieve" -> 3
      [] at = "ground" -> 4        [] at = "guardrail" -> 5      [] at = "propose" -> 6
      [] at = "classify" -> 7      [] at = "consent_woken" -> 8  [] at = "approval_woken" -> 8
      [] at = "govern" -> 9        [] at = "govern_entitled" -> 10
      [] at = "govern_verdict" -> 11                             [] at = "govern_decide" -> 12
      [] at = "await_consent" -> 13                              [] at = "await_approval" -> 13
      [] at = "execute" -> 14      [] at = "execute_record" -> 15
      [] at = "verify" -> 16       [] OTHER -> 17

(* A run only moves forward and so ends within Stage's bound, at END, at an   *)
(* interrupt or with an error.  In particular a suspension woken with nothing *)
(* recorded suspends again: the edge from each interrupt back to the gate is  *)
(* no loop (build_graph, _still_awaiting), and one run invokes at most once.  *)
RunsOnlyAdvance ==
    [][\A r \in Runs : run[r] # NULL /\ run'[r] # NULL /\ run'[r] # run[r]
           => Stage(run[r].at) < Stage(run'[r].at)]_vars

=============================================================================
