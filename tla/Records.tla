------------------------------ MODULE Records -------------------------------
(***************************************************************************)
(* What the platform writes down about an operation: the report of an      *)
(* execution, the columns of the operation it completes, and the audit     *)
(* record of each consequential moment with the instant until which it is  *)
(* kept.  Instants and windows are in days.                                *)
(***************************************************************************)
EXTENDS Governance

(* persistence.retention.window_for: only a positive integer overrides, and a *)
(* Boolean is not one.                                                        *)
WindowFor(default, raw) ==
    IF raw.kind = "int" /\ raw.value > 0 THEN raw.value ELSE default

NotConfigured == [kind |-> "none", value |-> 0]

AUDIT_WINDOW == 365 * 7

-----------------------------------------------------------------------------
(* ragcore.execution.executor *)

(* ExecutionLeg.run: the far side's own word about the effect, carried over;  *)
(* NULL is UnauthorizedExecutionError, and nothing was invoked.               *)
RunLeg(disposition, result, tool) ==
    IF disposition # "proceed" THEN NULL
    ELSE IF ~result.succeeded
    THEN [succeeded |-> FALSE, verification |-> "client_attested", verified_by |-> NULL]
    ELSE [succeeded |-> TRUE, verification |-> result.verification, verified_by |-> tool]

(* ExecutionReport.may_report_resolution *)
ReportsResolution(report) == report.verification = "server_confirmed"

(* OperationRepository.record_outcome: unguarded, counted up. *)
RecordOutcome(operation, verification, detail) ==
    [operation EXCEPT !.verification = verification, !.status = detail,
                      !.version = operation.version + 1]

-----------------------------------------------------------------------------
(* The audit trail (application.audit, persistence AuditSink). *)

ActorChain(executed_by, method, requested_by, approved_by) ==
    [executed_by |-> executed_by, execution_method |-> method,
     requested_by |-> requested_by, approved_by |-> approved_by]

Unexecuted(requested_by, approved_by) == ActorChain("none", "none", requested_by, approved_by)

AuditFacts(kind, outcome, treatment, verification) ==
    [kind |-> kind, outcome |-> outcome, treatment |-> treatment,
     verification |-> verification]

(* AuditSink.record.  The treatment among the facts has no column.  NULL is   *)
(* the refusal of a horizon with two sources.                                 *)
AuditRow(tenant, chain, facts, now, retain_until, override) ==
    IF retain_until # NULL /\ override # NULL THEN NULL
    ELSE [tenant |-> tenant, occurred_at |-> now, action |-> facts.kind, by |-> chain,
          outcome |-> facts.outcome, verification |-> facts.verification,
          retain_until |->
              IF retain_until # NULL THEN retain_until
              ELSE now + WindowFor(AUDIT_WINDOW,
                                   IF override = NULL THEN NotConfigured ELSE override)]

(* AuditWriter._append names neither, so the organisation's override is not   *)
(* consulted.                                                                 *)
Appended(tenant, chain, facts, now) == AuditRow(tenant, chain, facts, now, NULL, NULL)

(* record_gate_outcome: whatever does not proceed is a refusal here, a        *)
(* suspension too.                                                            *)
RecordGateOutcome(tenant, outcome, requester, approver, now) ==
    Appended(tenant, Unexecuted(requester, approver),
             AuditFacts(IF outcome.disposition = "proceed" THEN "treatment.assigned"
                        ELSE "gate.refused",
                        outcome.reason, outcome.treatment, NULL), now)

RecordExecution(tenant, chain, treatment, verification, outcome, now) ==
    Appended(tenant, chain,
             AuditFacts("execution.recorded", outcome, treatment, verification), now)

RecordEscalation(tenant, requester, reason, now) ==
    Appended(tenant, Unexecuted(requester, NULL),
             AuditFacts("work.escalated", reason, NULL, NULL), now)

(* AuditSink.search: what it may answer.  Rows of one instant come in any     *)
(* order, so a limit may cut any of them.                                     *)
AuditSearch(trail, tenant, since, limit, now) ==
    LET found == {e \in trail : /\ e.tenant = tenant
                                /\ e.occurred_at >= since
                                /\ e.retain_until > now}
        size  == IF Cardinality(found) < limit THEN Cardinality(found) ELSE limit
    IN  {S \in SUBSET found : /\ Cardinality(S) = size
                              /\ \A e \in S, f \in found \ S : e.occurred_at >= f.occurred_at}

=============================================================================
