-------------------------- MODULE GovernanceProofs --------------------------
(***************************************************************************)
(* What the control gate answers, for every request: the facts about its   *)
(* operators that the proofs about the agent graph and about the decisions *)
(* rest on.                                                                *)
(***************************************************************************)
EXTENDS Governance, TLAPS

LEMMA TreatmentIsTyped ==
    ASSUME NEW entry \in Entry \cup {NULL}, NEW entitled \in BOOLEAN
    PROVE  AssignTreatment(entry, entitled).treatment \in Treatments
  BY DEF AssignTreatment, Refused, Entry, Treatments

(* A treatment other than a refusal is the catalogue's own. *)
LEMMA TreatmentIsTheCatalogues ==
    ASSUME NEW entry \in Entry \cup {NULL}, NEW entitled \in BOOLEAN,
           NEW t \in Treatments \ {"NOT_ALLOWED"}
    PROVE  AssignTreatment(entry, entitled).treatment = t
              <=> /\ entry # NULL
                  /\ entitled
                  /\ ~entry.elevated
                  /\ entry.treatment = t
                  /\ t = "STAFF_APPROVAL" => entry.roles # {}
  BY DEF AssignTreatment, Refused, Entry, Treatments

LEMMA RolesMeet ==
    ASSUME NEW held \in SUBSET StaffRoles, NEW accepted \in SUBSET StaffRoles
    PROVE  EvaluateRoles(held, accepted) = "permitted" <=> held \cap accepted # {}
  BY DEF EvaluateRoles

LEMMA WindowIsOpen ==
    ASSUME NEW req, req.now \in Nat, req.expires_at \in Nat \cup {NULL}
    PROVE  /\ WindowRefusal(req) \in GateReasons \cup {NULL}
           /\ WindowRefusal(req) = NULL <=> req.expires_at # NULL /\ req.now < req.expires_at
  <1>1. "authorization_window_missing" # NULL /\ "authorization_expired" # NULL
    BY GateNull DEF GateReasons
  <1>2. CASE req.expires_at = NULL
    BY <1>1, <1>2 DEF WindowRefusal, GateReasons
  <1>3. CASE req.expires_at # NULL
    <2>1. req.expires_at \in Nat /\ req.now \in Nat  BY <1>3
    <2>2. CASE req.now >= req.expires_at
      BY <1>1, <1>3, <2>1, <2>2 DEF WindowRefusal, GateReasons
    <2>3. CASE ~(req.now >= req.expires_at)
      BY <1>1, <1>3, <2>1, <2>3 DEF WindowRefusal, GateReasons
    <2> QED  BY <2>2, <2>3
  <1> QED  BY <1>2, <1>3

(* _evaluate_consent lets through exactly a consent of the requester, bound   *)
(* to the version, not refused, inside its window.                            *)
LEMMA ConsentGate ==
    ASSUME NEW req, NEW t \in Treatments,
           req.now \in Nat, req.expires_at \in Nat \cup {NULL}
    PROVE  /\ EvaluateConsent(req, t) \in [treatment : {t}, disposition : Dispositions,
                                           reason : GateReasons]
           /\ EvaluateConsent(req, t).disposition = "proceed"
                 <=> /\ req.decision # NULL
                     /\ req.decision.kind = "consent"
                     /\ req.decision.by = req.requester
                     /\ req.decision.bound_to = req.version
                     /\ req.decision.verdict # "refused"
                     /\ req.expires_at # NULL /\ req.now < req.expires_at
           /\ EvaluateConsent(req, t).disposition = "suspend_for_consent"
                 <=> req.decision = NULL
           /\ EvaluateConsent(req, t).disposition # "suspend_for_approval"
  <1>1. PICK w \in GateReasons \cup {NULL} : w = WindowRefusal(req)
    BY WindowIsOpen
  <1>w. (w = NULL) <=> (req.expires_at # NULL /\ req.now < req.expires_at)
    BY <1>1, WindowIsOpen
  <1>2. PICK o : o = EvaluateConsent(req, t)  OBVIOUS
  <1>3. CASE req.decision = NULL
    <2>1. o = Outcome(t, "suspend_for_consent", "awaiting_consent")
      BY <1>2, <1>3 DEF EvaluateConsent
    <2> QED  BY <1>2, <1>3, <2>1 DEF Outcome, Dispositions, GateReasons
  <1>4. CASE /\ req.decision # NULL
             /\ req.decision.kind = "consent"
             /\ req.decision.by = req.requester
             /\ req.decision.bound_to = req.version
             /\ req.decision.verdict # "refused"
             /\ w = NULL
    <2>1. WindowRefusal(req) = NULL  BY <1>1, <1>4, Zenon
    <2>2. o = Outcome(t, "proceed", "consent_granted")
      BY <1>2, <1>4, <2>1, Zenon DEF EvaluateConsent
    <2> QED  BY <1>w, <1>2, <1>4, <2>2 DEF Outcome, Dispositions, GateReasons
  <1>5. CASE /\ req.decision # NULL
             /\ \/ req.decision.kind # "consent"
                \/ req.decision.by # req.requester
                \/ req.decision.bound_to # req.version
                \/ req.decision.verdict = "refused"
                \/ w # NULL
    <2>1. \E reason \in GateReasons : o = Outcome(t, "refuse", reason)
      <3>1. {"wrong_decision_kind", "not_the_requester", "decision_bound_to_another_version",
             "consent_refused"} \subseteq GateReasons
        BY DEF GateReasons
      <3>2. w # NULL => WindowRefusal(req) \in GateReasons  BY <1>1, Zenon
      <3>3. w # NULL => WindowRefusal(req) # NULL  BY <1>1, Zenon
      <3> QED  BY <1>2, <1>5, <3>1, <3>2, <3>3, Zenon DEF EvaluateConsent
    <2> QED  BY <1>w, <1>2, <1>5, <2>1 DEF Outcome, Dispositions
  <1> QED  BY <1>3, <1>4, <1>5

(* _evaluate_approval lets through exactly a verdict of somebody with an      *)
(* accepted role, bound to the version, not a rejection, inside its window.   *)
LEMMA ApprovalGate ==
    ASSUME NEW req, NEW t \in Treatments, NEW roles \in SUBSET StaffRoles,
           req.now \in Nat, req.expires_at \in Nat \cup {NULL},
           req.entry.roles = roles,
           req.decision # NULL /\ req.decision.kind = "approval"
               => req.decision.roles \in SUBSET StaffRoles
    PROVE  /\ EvaluateApproval(req, t) \in [treatment : {t}, disposition : Dispositions,
                                            reason : GateReasons]
           /\ EvaluateApproval(req, t).disposition = "proceed"
                 <=> /\ req.decision # NULL
                     /\ req.decision.kind = "approval"
                     /\ req.decision.bound_to = req.version
                     /\ req.decision.roles \cap roles # {}
                     /\ req.decision.verdict # "rejected"
                     /\ req.expires_at # NULL /\ req.now < req.expires_at
           /\ EvaluateApproval(req, t).disposition = "suspend_for_approval"
                 <=> req.decision = NULL
           /\ EvaluateApproval(req, t).disposition # "suspend_for_consent"
  <1>1. PICK w \in GateReasons \cup {NULL} : w = WindowRefusal(req)
    BY WindowIsOpen
  <1>w. (w = NULL) <=> (req.expires_at # NULL /\ req.now < req.expires_at)
    BY <1>1, WindowIsOpen
  <1>2. PICK o : o = EvaluateApproval(req, t)  OBVIOUS
  <1>3. CASE req.decision = NULL
    <2>1. o = Outcome(t, "suspend_for_approval", "awaiting_approval")
      BY <1>2, <1>3 DEF EvaluateApproval
    <2> QED  BY <1>2, <1>3, <2>1 DEF Outcome, Dispositions, GateReasons
  <1>4. CASE /\ req.decision # NULL
             /\ req.decision.kind = "approval"
             /\ req.decision.bound_to = req.version
             /\ req.decision.roles \cap roles # {}
             /\ req.decision.verdict # "rejected"
             /\ w = NULL
    <2>1. EvaluateRoles(req.decision.roles, req.entry.roles) = "permitted"
      BY <1>4, RolesMeet
    <2>2. WindowRefusal(req) = NULL  BY <1>1, <1>4, Zenon
    <2>3. o = Outcome(t, "proceed", "approval_granted")
      BY <1>2, <1>4, <2>1, <2>2, Zenon DEF EvaluateApproval
    <2> QED  BY <1>w, <1>2, <1>4, <2>3 DEF Outcome, Dispositions, GateReasons
  <1>5. CASE /\ req.decision # NULL
             /\ \/ req.decision.kind # "approval"
                \/ req.decision.bound_to # req.version
                \/ req.decision.roles \cap roles = {}
                \/ req.decision.verdict = "rejected"
                \/ w # NULL
    <2>1. req.decision.kind = "approval" /\ req.decision.roles \cap roles = {}
             => EvaluateRoles(req.decision.roles, req.entry.roles) # "permitted"
      BY <1>5, RolesMeet
    <2>2. \E reason \in GateReasons : o = Outcome(t, "refuse", reason)
      <3>1. {"wrong_decision_kind", "decision_bound_to_another_version",
             "approver_holds_no_accepted_role", "approval_rejected"} \subseteq GateReasons
        BY DEF GateReasons
      <3>2. w # NULL => WindowRefusal(req) \in GateReasons  BY <1>1, Zenon
      <3>3. w # NULL => WindowRefusal(req) # NULL  BY <1>1, Zenon
      <3> QED  BY <1>2, <1>5, <2>1, <3>1, <3>2, <3>3, Zenon DEF EvaluateApproval
    <2> QED  BY <1>w, <1>2, <1>5, <2>2 DEF Outcome, Dispositions
  <1> QED  BY <1>3, <1>4, <1>5

(* A request as the proofs need it: the shape of the decision is left open,   *)
(* since a consent carries no roles and a verdict need not name who gave it.  *)
IsRequest(req) ==
    /\ req.entry \in Entry \cup {NULL}
    /\ req.entitled \in BOOLEAN
    /\ req.admitted \in BOOLEAN
    /\ req.now \in Nat
    /\ req.expires_at \in Nat \cup {NULL}
    /\ (req.decision # NULL /\ req.decision.kind = "approval")
           => req.decision.roles \in SUBSET StaffRoles

(* Nothing short of a decision stands in the way. *)
Unimpeded(req) ==
    /\ req.admitted
    /\ req.entry # NULL
    /\ req.entitled
    /\ ~req.entry.elevated
    /\ ~Withholds(req.knowledge)

Consented(req) ==
    /\ req.decision # NULL
    /\ req.decision.kind = "consent"
    /\ req.decision.by = req.requester
    /\ req.decision.bound_to = req.version
    /\ req.decision.verdict # "refused"
    /\ req.expires_at # NULL /\ req.now < req.expires_at

Approved(req) ==
    /\ req.decision # NULL
    /\ req.decision.kind = "approval"
    /\ req.decision.bound_to = req.version
    /\ req.decision.roles \cap req.entry.roles # {}
    /\ req.decision.verdict # "rejected"
    /\ req.expires_at # NULL /\ req.now < req.expires_at

(* Which of the four things the gate does with a request. *)
Answer(req) ==
    IF ~Unimpeded(req) THEN "refuse"
    ELSE CASE req.entry.treatment = "AUTO" -> "proceed"
           [] req.entry.treatment = "END_USER_APPROVAL" ->
                IF req.decision = NULL THEN "suspend_for_consent"
                ELSE IF Consented(req) THEN "proceed" ELSE "refuse"
           [] req.entry.treatment = "STAFF_APPROVAL" /\ req.entry.roles # {} ->
                IF req.decision = NULL THEN "suspend_for_approval"
                ELSE IF Approved(req) THEN "proceed" ELSE "refuse"
           [] OTHER -> "refuse"

(* The gate answers every request, and as Answer says: gate.evaluate, written *)
(* as a cascade of early returns, is this decision table.                     *)
THEOREM GateAnswers ==
    ASSUME NEW req, IsRequest(req)
    PROVE  /\ Evaluate(req) \in [treatment : Treatments, disposition : Dispositions,
                                 reason : GateReasons]
           /\ Evaluate(req).disposition = Answer(req)
           /\ Evaluate(req).disposition # "refuse"
                 => Evaluate(req).treatment = req.entry.treatment
  <1>1. PICK t \in Treatments : t = AssignTreatment(req.entry, req.entitled).treatment
    BY TreatmentIsTyped DEF IsRequest
  <1>2. \A u \in Treatments \ {"NOT_ALLOWED"} :
           t = u <=> /\ req.entry # NULL
                     /\ req.entitled
                     /\ ~req.entry.elevated
                     /\ req.entry.treatment = u
                     /\ u = "STAFF_APPROVAL" => req.entry.roles # {}
    BY <1>1, TreatmentIsTheCatalogues DEF IsRequest
  <1>3. PICK o : o = Evaluate(req)  OBVIOUS
  <1>4. CASE ~req.admitted \/ t = "NOT_ALLOWED" \/ Withholds(req.knowledge)
    <2>1. \E reason \in GateReasons : o = Outcome(t, "refuse", reason)
      <3>1. {"tenant_not_admitted", "treatment_refuses", "knowledge_withheld"}
               \subseteq GateReasons
        BY DEF GateReasons
      <3> QED  BY <1>1, <1>3, <1>4, <3>1, Zenon DEF Evaluate
    <2>2. Answer(req) = "refuse"
      <3>1. CASE ~req.admitted \/ Withholds(req.knowledge)
        BY <3>1 DEF Answer, Unimpeded
      <3>2. CASE t = "NOT_ALLOWED"
        <4>1. /\ req.entry = NULL \/ ~req.entitled \/ req.entry.elevated
                    \/ req.entry.treatment \notin {"AUTO", "END_USER_APPROVAL", "STAFF_APPROVAL"}
                    \/ (req.entry.treatment = "STAFF_APPROVAL" /\ req.entry.roles = {})
          BY <1>2, <3>2 DEF Treatments
        <4> QED  BY <4>1 DEF Answer, Unimpeded
      <3> QED  BY <1>4, <3>1, <3>2
    <2> QED  BY <1>3, <2>1, <2>2 DEF Outcome, Dispositions
  <1>5. CASE req.admitted /\ t # "NOT_ALLOWED" /\ ~Withholds(req.knowledge)
    <2>0. t \in {"AUTO", "END_USER_APPROVAL", "STAFF_APPROVAL"}
      BY <1>5 DEF Treatments
    <2>1. /\ Unimpeded(req)
          /\ req.entry \in Entry
          /\ req.entry.treatment = t
          /\ t = "STAFF_APPROVAL" => req.entry.roles # {}
      BY <1>2, <1>5, <2>0 DEF Unimpeded, Treatments, IsRequest
    <2>2. CASE t = "AUTO"
      <3>1. o = Outcome(t, "proceed", "auto_treatment")
        BY <1>1, <1>3, <1>5, <2>2 DEF Evaluate
      <3>2. Answer(req) = "proceed"  BY <2>1, <2>2 DEF Answer
      <3> QED  BY <1>3, <2>1, <3>1, <3>2 DEF Outcome, Dispositions, GateReasons
    <2>3. CASE t = "END_USER_APPROVAL"
      <3>1. o = EvaluateConsent(req, t)
        BY <1>1, <1>3, <1>5, <2>3 DEF Evaluate
      <3>2. /\ o \in [treatment : {t}, disposition : Dispositions, reason : GateReasons]
            /\ (o.disposition = "proceed") <=> Consented(req)
            /\ (o.disposition = "suspend_for_consent") <=> (req.decision = NULL)
            /\ o.disposition # "suspend_for_approval"
        BY <3>1, ConsentGate DEF IsRequest, Consented
      <3>3. Answer(req) = IF req.decision = NULL THEN "suspend_for_consent"
                          ELSE IF Consented(req) THEN "proceed" ELSE "refuse"
        BY <2>1, <2>3 DEF Answer
      <3> QED  BY <1>3, <2>1, <3>2, <3>3 DEF Dispositions
    <2>4. CASE t = "STAFF_APPROVAL"
      <3>1. o = EvaluateApproval(req, t)
        BY <1>1, <1>3, <1>5, <2>4 DEF Evaluate
      <3>2. /\ o \in [treatment : {t}, disposition : Dispositions, reason : GateReasons]
            /\ (o.disposition = "proceed") <=> Approved(req)
            /\ (o.disposition = "suspend_for_approval") <=> (req.decision = NULL)
            /\ o.disposition # "suspend_for_consent"
        <4>1. PICK roles \in SUBSET StaffRoles : roles = req.entry.roles
          BY <2>1 DEF Entry
        <4> QED  BY <3>1, <4>1, ApprovalGate DEF IsRequest, Approved
      <3>3. Answer(req) = IF req.decision = NULL THEN "suspend_for_approval"
                          ELSE IF Approved(req) THEN "proceed" ELSE "refuse"
        BY <2>1, <2>4 DEF Answer
      <3> QED  BY <1>3, <2>1, <3>2, <3>3 DEF Dispositions
    <2> QED  BY <2>0, <2>2, <2>3, <2>4
  <1> QED  BY <1>4, <1>5

=============================================================================
