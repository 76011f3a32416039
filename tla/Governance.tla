----------------------------- MODULE Governance -----------------------------
(***************************************************************************)
(* The pure decisions of RagCore: staff roles, deterministic treatment     *)
(* policy, the control gate, the three conditions, evidence confidence,    *)
(* the scope guardrail and the triage gate.  No state, no clock, no I/O:   *)
(* every operator is a function of its arguments, as in the code.          *)
(*                                                                         *)
(* A catalogue identity is its version: one capability is modelled.        *)
(* Relevance scores are integers, in hundredths.                           *)
(***************************************************************************)
EXTENDS Values, Integers, Sequences, FiniteSets

-----------------------------------------------------------------------------
(* Roles: disjoint capabilities, compared by set intersection only. *)

StaffRoles == {"end_user", "technician", "senior_technician", "administrator", "none"}

(* domain.roles.evaluate *)
EvaluateRoles(held, accepted) ==
    IF accepted = {} THEN "operation_accepts_no_roles"
    ELSE IF held = {} THEN "principal_holds_no_roles"
    ELSE IF held \cap accepted # {} THEN "permitted"
    ELSE "empty_intersection"

-----------------------------------------------------------------------------
(* Treatments, ordered only so that a safe re-assignment can be recognised. *)

Treatments == {"AUTO", "END_USER_APPROVAL", "STAFF_APPROVAL", "NOT_ALLOWED"}

Strictness ==
    [t \in Treatments |-> CASE t = "AUTO"              -> 0
                            [] t = "END_USER_APPROVAL" -> 1
                            [] t = "STAFF_APPROVAL"    -> 2
                            [] t = "NOT_ALLOWED"       -> 3]

IsNarrowing(before, after) == Strictness[after] >= Strictness[before]

(* A validated catalogue entry (CatalogueRecord), as far as a decision reads  *)
(* it.                                                                        *)
Entry == [treatment : Treatments, roles : SUBSET StaffRoles, elevated : BOOLEAN]

TreatmentReasons == {"catalogue_default", "not_in_catalogue", "not_entitled",
                     "elevation_refused", "no_role_can_approve"}

(* CatalogueRecord.__post_init__ refuses an entry that claims elevation or a  *)
(* version below the first: such a row never becomes an entry.                *)
CanBeRecord(entry, version) == ~entry.elevated /\ version >= 1

CapabilityKinds == {"action", "read"}
RiskTiers == {"informational", "low_impact"}

(* _roles_from: no value is no role; a name that is no role is an error, not  *)
(* a smaller set.  NULL is CatalogueRecordError.                              *)
RolesFrom(raw) ==
    IF raw = NULL THEN {} ELSE IF raw \subseteq StaffRoles THEN raw ELSE NULL

(* record_from_row: the only way a stored row becomes an entry; NULL is an    *)
(* error, never "not in the catalogue".                                       *)
RecordFromRow(row) ==
    LET entry == [treatment |-> row.default_treatment, roles |-> RolesFrom(row.accepted_roles),
                  elevated |-> row.requires_elevation]
    IN  IF /\ row.default_treatment \in Treatments
           /\ entry.roles # NULL
           /\ row.kind \in CapabilityKinds /\ row.risk_tier \in RiskTiers
           /\ row.catalogue_id # "" /\ CanBeRecord(entry, row.version)
        THEN entry ELSE NULL

Refused(reason) == [treatment |-> "NOT_ALLOWED", reason |-> reason]

AssignTreatmentToNobody(entry, entitled) ==
    IF entry = NULL THEN Refused("not_in_catalogue")
    ELSE IF ~entitled THEN Refused("not_entitled")
    ELSE IF entry.elevated THEN Refused("elevation_refused")
    ELSE [treatment |-> entry.treatment, reason |-> "catalogue_default"]

(* policy.assign_treatment.  Every override is NOT_ALLOWED, the strictest     *)
(* treatment, so _narrowed never raises.                                      *)
AssignTreatment(entry, entitled) ==
    IF entry = NULL THEN Refused("not_in_catalogue")
    ELSE IF ~entitled THEN Refused("not_entitled")
    ELSE IF entry.elevated THEN Refused("elevation_refused")
    ELSE IF entry.treatment = "STAFF_APPROVAL" /\ entry.roles = {}
         THEN Refused("no_role_can_approve")
    ELSE [treatment |-> entry.treatment, reason |-> "catalogue_default"]

-----------------------------------------------------------------------------
(* Evidence confidence: an absolute score and a margin, both compared by >=.  *)

MINIMUM_TOP_SCORE == 45
MINIMUM_MARGIN == 8

ClearsThresholds(top, margin) == top >= MINIMUM_TOP_SCORE /\ margin >= MINIMUM_MARGIN

(* The best of the scores at the indices in S. *)
Best(scores, S) == CHOOSE i \in S : \A j \in S : scores[i] >= scores[j]

(* confidence.assess_scores: sorted descending here, so arrival order and     *)
(* position do not matter; duplicates do.                                     *)
AssessScores(scores) ==
    IF scores = <<>> THEN [top |-> 0, margin |-> 0, confident |-> FALSE]
    ELSE LET first  == Best(scores, DOMAIN scores)
             rest   == DOMAIN scores \ {first}
             top    == scores[first]
             margin == IF rest = {} THEN top ELSE top - scores[Best(scores, rest)]
         IN  [top |-> top, margin |-> margin, confident |-> ClearsThresholds(top, margin)]

(* KnowledgeCondition: not_required(), or assess(chunks). *)
KnowledgeNotRequired == [met |-> TRUE, required |-> FALSE]

AssessKnowledge(scores) == [met |-> AssessScores(scores).confident, required |-> TRUE]

Withholds(knowledge) == knowledge.required /\ ~knowledge.met

(* AbilityCondition.assess, and the combination of the three conditions. *)
AbilityMet(registered, entitled) == registered /\ entitled

(* ConditionSet.withheld_by *)
WithheldBy(knowledge, ability, authorized) ==
    {k \in {"knowledge", "ability", "security"} :
        \/ k = "knowledge" /\ Withholds(knowledge)
        \/ k = "ability" /\ ~ability
        \/ k = "security" /\ ~authorized}

(* ConditionSet.proceeds *)
ConditionsProceed(knowledge, ability, authorized) ==
    authorized /\ ability /\ ~Withholds(knowledge)

-----------------------------------------------------------------------------
(* The gate.  A request carries everything it may consider; a decision is a   *)
(* StaffVerdict (kind "approval") or an EndUserConsent (kind "consent").      *)

Dispositions == {"proceed", "suspend_for_consent", "suspend_for_approval", "refuse"}

GateReasons == {"tenant_not_admitted", "treatment_refuses", "knowledge_withheld",
                "auto_treatment", "awaiting_consent", "awaiting_approval",
                "consent_granted", "approval_granted", "consent_refused", "approval_rejected",
                "wrong_decision_kind", "not_the_requester", "approver_holds_no_accepted_role",
                "decision_bound_to_another_version", "authorization_expired",
                "authorization_window_missing"}

DecisionKinds == {"consent", "approval"}

(* ApprovalVerdict and ConsentVerdict: none of them is a system's. *)
StaffVerdicts == {"approved", "rejected"}
ConsentVerdicts == {"granted", "refused"}

(* None is none of these, and no instant. *)
ASSUME GateNull ==
    /\ NULL \notin GateReasons \cup DecisionKinds \cup StaffVerdicts \cup ConsentVerdicts
    /\ NULL \notin Nat

SuspendsOnDisposition(disposition) == disposition

(* GateOutcome.suspends_on *)
SuspendsOn(disposition) ==
    CASE disposition = "suspend_for_consent"  -> "consent"
      [] disposition = "suspend_for_approval" -> "approval"
      [] OTHER                                -> NULL

Outcome(t, disposition, reason) ==
    [treatment |-> t, disposition |-> disposition, reason |-> reason]

WindowRefusalLate(req) ==
    IF req.expires_at = NULL THEN "authorization_window_missing"
    ELSE IF req.now > req.expires_at THEN "authorization_expired"
    ELSE NULL

(* _window_refusal *)
WindowRefusal(req) ==
    IF req.expires_at = NULL THEN "authorization_window_missing"
    ELSE IF req.now >= req.expires_at THEN "authorization_expired"
    ELSE NULL

(* _evaluate_consent *)
EvaluateConsent(req, t) ==
    LET d == req.decision IN
    IF d = NULL THEN Outcome(t, "suspend_for_consent", "awaiting_consent")
    ELSE IF d.kind # "consent" THEN Outcome(t, "refuse", "wrong_decision_kind")
    ELSE IF d.by # req.requester THEN Outcome(t, "refuse", "not_the_requester")
    ELSE IF d.bound_to # req.version
         THEN Outcome(t, "refuse", "decision_bound_to_another_version")
    ELSE IF d.verdict = "refused" THEN Outcome(t, "refuse", "consent_refused")
    ELSE IF WindowRefusal(req) # NULL THEN Outcome(t, "refuse", WindowRefusal(req))
    ELSE Outcome(t, "proceed", "consent_granted")

EvaluateApprovalAnyRole(req, t) ==
    LET d == req.decision IN
    IF d = NULL THEN Outcome(t, "suspend_for_approval", "awaiting_approval")
    ELSE IF d.kind # "approval" THEN Outcome(t, "refuse", "wrong_decision_kind")
    ELSE IF d.bound_to # req.version
         THEN Outcome(t, "refuse", "decision_bound_to_another_version")
    ELSE IF d.verdict = "rejected" THEN Outcome(t, "refuse", "approval_rejected")
    ELSE IF WindowRefusal(req) # NULL THEN Outcome(t, "refuse", WindowRefusal(req))
    ELSE Outcome(t, "proceed", "approval_granted")

(* _evaluate_approval *)
EvaluateApproval(req, t) ==
    LET d == req.decision IN
    IF d = NULL THEN Outcome(t, "suspend_for_approval", "awaiting_approval")
    ELSE IF d.kind # "approval" THEN Outcome(t, "refuse", "wrong_decision_kind")
    ELSE IF d.bound_to # req.version
         THEN Outcome(t, "refuse", "decision_bound_to_another_version")
    ELSE IF EvaluateRoles(d.roles, req.entry.roles) # "permitted"
         THEN Outcome(t, "refuse", "approver_holds_no_accepted_role")
    ELSE IF d.verdict = "rejected" THEN Outcome(t, "refuse", "approval_rejected")
    ELSE IF WindowRefusal(req) # NULL THEN Outcome(t, "refuse", WindowRefusal(req))
    ELSE Outcome(t, "proceed", "approval_granted")

(* gate.evaluate: a sequence of refusals, then one branch per treatment. *)
Evaluate(req) ==
    LET t == AssignTreatment(req.entry, req.entitled).treatment IN
    IF ~req.admitted THEN Outcome(t, "refuse", "tenant_not_admitted")
    ELSE IF t = "NOT_ALLOWED" THEN Outcome(t, "refuse", "treatment_refuses")
    ELSE IF Withholds(req.knowledge) THEN Outcome(t, "refuse", "knowledge_withheld")
    ELSE IF t = "AUTO" THEN Outcome(t, "proceed", "auto_treatment")
    ELSE IF t = "END_USER_APPROVAL" THEN EvaluateConsent(req, t)
    ELSE EvaluateApproval(req, t)

(* The request as govern puts it to the gate once d is on record: the         *)
(* decision as its repository reads it back (decision_for), and _expiry, its  *)
(* window, which closes at w on the row of an approval and is not set on a    *)
(* consent.                                                                   *)
Resumed(req, d, w) ==
    [req EXCEPT !.decision = d,
                !.expires_at = IF d.kind = "approval" THEN w ELSE NULL]

-----------------------------------------------------------------------------
(* What a turn of conversation is, to the two word-based classifiers: who     *)
(* wrote it, how long it is, whether it is a bare acknowledgement, and which  *)
(* vocabularies it uses.                                                      *)

MINIMUM_ARTICULATED_CHARACTERS == 15
MINIMUM_ARTICULATED_WORDS == 4

Turn == [sender : {"end_user", "agent", "staff"}, chars : Nat, words : Nat,
         ack : BOOLEAN, vocabulary : SUBSET {"it", "out_of_scope"}]

(* sessions.assess_triage: TriageAssessment.commits_work *)
CommitsWork(turns) ==
    \E i \in DOMAIN turns :
        /\ turns[i].sender = "end_user"
        /\ ~turns[i].ack
        /\ turns[i].chars >= MINIMUM_ARTICULATED_CHARACTERS
        /\ turns[i].words >= MINIMUM_ARTICULATED_WORDS

(* The most recent end-user turn, or NULL. *)
LatestUserTurn(turns) ==
    LET mine == {i \in DOMAIN turns : turns[i].sender = "end_user"}
    IN  IF mine = {} THEN NULL ELSE turns[CHOOSE i \in mine : \A j \in mine : i >= j]

(* guardrail.classify_scope: IT vocabulary is looked for first. *)
ClassifyScope(turn, grounded) ==
    LET vocabulary == IF turn = NULL THEN {} ELSE turn.vocabulary
    IN  IF "it" \notin vocabulary /\ "out_of_scope" \in vocabulary THEN "decline"
        ELSE IF grounded THEN "continue"
        ELSE "escalate"

=============================================================================
