------------------------------- MODULE Egress -------------------------------
(***************************************************************************)
(* Outbound calls of RagCore: the resilient caller with its bounded        *)
(* retries, the four kinds of call made through it (creating a case over   *)
(* the integration seam, completing and embedding through the AI gateway,  *)
(* searching the index), the content screening around a model call, and,   *)
(* on the far side of a case call, the Integrations handler up to its one  *)
(* POST to the system of record.                                           *)
(*                                                                         *)
(* A caller that times out has not stopped the far side: the exchange of   *)
(* every attempt goes on by itself, beside the attempts that follow it.    *)
(***************************************************************************)
EXTENDS Boundary

CONSTANTS
    Calls,          \* call slots
    Workloads,      \* sets of calls made together: by slot, NULL or
                    \* [purpose, session, claims, wrapped]
    Sessions,       \* sessions a case can be created for
    Tenants,        \* organisations
    TenantOf,       \* the durable session rows: owner of a session, or NULL if unknown
    Capabilities,   \* possible catalogue facts: [registered, bound]
    Version,        \* the catalogue version a case call names
    Documents,      \* documents the index may return: [tenant, content, reference]
    Values,         \* what a completion or an embedding may come back as
    Statuses,       \* HTTP statuses a far side may answer with
    MaxAttempts,    \* RetryPolicy.max_attempts
    TimeoutSeconds, \* OutboundRequest.timeout_seconds
    MaxChanges      \* bound: entitlement changes in a behaviour

ASSUME PolicyAssumption ==
    ValidPolicy(MaxAttempts) /\ ValidRequest(TimeoutSeconds, "https")

(* Only a model call is ever wrapped, only a case's parameters can name an    *)
(* organisation, and only a case may be asked of a session no row holds.      *)
ASSUME WorkloadAssumption ==
    \A w \in Workloads, c \in Calls : w[c] # NULL =>
        /\ w[c] \in [purpose : {"case", "completion", "embedding", "search"},
                     session : Sessions, claims : Tenants \cup {NULL}, wrapped : BOOLEAN]
        /\ w[c].wrapped => w[c].purpose \in {"completion", "embedding"}
        /\ w[c].purpose # "case" => w[c].claims = NULL /\ TenantOf[w[c].session] # NULL

ASSUME DurableAssumption ==
    /\ TenantOf \in [Sessions -> Tenants \cup {NULL}]
    /\ Statuses \subseteq Nat
    /\ MaxChanges \in Nat

VARIABLES
    call,        \* what each caller is doing
    exchange,    \* the far side of each attempt of each call
    entitled,    \* tenants with an enabled entitlement for the capability
    capability,  \* the capability's catalogue facts
    cases,       \* the system of record: the cases it holds
    changes

vars == <<call, exchange, entitled, capability, cases, changes>>

Purposes == {"case", "completion", "embedding", "search"}
Attempts == 1..MaxAttempts
ScreeningAnswers == {"permit", "block", "unavailable", "raise"}

Outcomes == {"succeeded", "failed", "refused", "budget", "raised", "unreadable", "blocked"}

ASSUME NullAssumption == NULL \notin Outcomes \cup ScreeningAnswers \cup {"permanent", "transient"}

(* screened holds what the screening service answered for each crossing; got  *)
(* the documents read; claims the organisation a case's parameters name, if   *)
(* they name one.                                                             *)
Call == [at       : {"idle", "screen_in", "send", "waiting", "trickling", "screen_out",
                     "done"},
         purpose  : Purposes,
         session  : Sessions,
         claims   : Tenants \cup {NULL},
         wrapped  : BOOLEAN,
         attempt  : 0..MaxAttempts,
         inbound  : ScreeningAnswers \cup {NULL},
         outbound : ScreeningAnswers \cup {NULL},
         got      : SUBSET Documents,
         outcome  : Outcomes \cup {NULL}]

(* An answer's body, as far as its reader looks at it. *)
Body == [succeeded : BOOLEAN, value : Values \cup {NULL}, documents : SUBSET Documents]

NoBody == [succeeded |-> FALSE, value |-> NULL, documents |-> {}]

(* posted: this attempt's POST reached the system of record. *)
Exchange == [stage  : {"none", "arrived", "permitted", "posting", "answered"},
             status : Nat \cup {NULL},
             body   : Body,
             posted : BOOLEAN]

Case == [key : Sessions \X (0..MaxAttempts), session : Sessions, tenant : Tenants]

TypeOK ==
    /\ call \in [Calls -> Call \cup {NULL}]
    /\ exchange \in [Calls -> [Attempts -> Exchange]]
    /\ entitled \subseteq Tenants
    /\ capability \in Capabilities
    /\ cases \subseteq Case
    /\ changes \in 0..MaxChanges

Underway(stage) == [stage |-> stage, status |-> NULL, body |-> NoBody, posted |-> FALSE]

Silent == Underway("none")

Planned(request) ==
    [at |-> "idle", purpose |-> request.purpose, session |-> request.session,
     claims |-> request.claims, wrapped |-> request.wrapped, attempt |-> 0,
     inbound |-> NULL, outbound |-> NULL, got |-> {}, outcome |-> NULL]

Init ==
    /\ \E w \in Workloads :
           call = [c \in Calls |-> IF w[c] = NULL THEN NULL ELSE Planned(w[c])]
    /\ exchange = [c \in Calls |-> [n \in Attempts |-> Silent]]
    /\ entitled = Tenants
    /\ capability \in Capabilities
    /\ cases = {}
    /\ changes = 0

-----------------------------------------------------------------------------
(* The caller. *)

At(c, stage) == call[c] # NULL /\ call[c].at = stage

(* Nothing but call[c] changes. *)
Local(c, record) ==
    /\ call' = [call EXCEPT ![c] = record]
    /\ UNCHANGED <<exchange, entitled, capability, cases, changes>>

Finish(c, outcome) == Local(c, [call[c] EXCEPT !.at = "done", !.outcome = outcome])

(* A model call made through SafeModel is screened before it leaves. *)
Begin(c) ==
    /\ At(c, "idle")
    /\ Local(c, [call[c] EXCEPT !.at = IF call[c].wrapped THEN "screen_in" ELSE "send"])

FailsOpen(answer) == IF answer = "raise" THEN "permit" ELSE answer

(* SafeModel._enforce: a screening service that raises has blocked the text. *)
Enforced(answer) == IF answer = "raise" THEN "unavailable" ELSE answer

ScreenIn(c) ==
    /\ At(c, "screen_in")
    /\ \E answer \in ScreeningAnswers :
           LET permitted == Enforced(answer) = "permit"
           IN  Local(c, [call[c] EXCEPT !.inbound = answer,
                                        !.at = IF permitted THEN "send" ELSE "done",
                                        !.outcome = IF permitted THEN NULL ELSE "blocked"])

(* One attempt leaves.  One that is lost on the way is one the far side never *)
(* acts on, which it is always free to do.                                    *)
Send(c) ==
    /\ At(c, "send")
    /\ LET n == call[c].attempt + 1
       IN  /\ call' = [call EXCEPT ![c] = [@ EXCEPT !.at = "waiting", !.attempt = n]]
           /\ exchange' = [exchange EXCEPT ![c][n] = Underway("arrived")]
    /\ UNCHANGED <<entitled, capability, cases, changes>>

RetryForever(c) == Local(c, [call[c] EXCEPT !.at = "send"])

(* A transient failure: back off and try again, or raise the last one. *)
AfterTransient(c) ==
    IF call[c].attempt < MaxAttempts
    THEN Local(c, [call[c] EXCEPT !.at = "send"])
    ELSE Finish(c, "raised")

(* What a permanent failure becomes for the maker of the call. *)
PermanentOutcome(purpose, status) ==
    IF purpose = "case" THEN "refused"
    ELSE IF purpose \in {"completion", "embedding"} /\ status = 403 THEN "budget"
    ELSE "raised"

ReadUnchecked(c, body) ==
    Local(c, [call[c] EXCEPT !.at = "done", !.outcome = "succeeded", !.got = body.documents])

(* _read of the index's answer: all of it or none. *)
ReadDocuments(c, body) ==
    LET owner == TenantOf[call[c].session]
    IN  IF ReadableEvidence(owner, body.documents)
        THEN Local(c, [call[c] EXCEPT !.at = "done", !.outcome = "succeeded",
                                      !.got = body.documents])
        ELSE Finish(c, "unreadable")

ReadByStatus(c, body) ==
    IF call[c].purpose = "search" THEN ReadDocuments(c, body) ELSE Finish(c, "succeeded")

(* A successful response is read by the maker of the call. *)
ReadAnswer(c, body) ==
    CASE call[c].purpose = "case" ->
             Finish(c, IF body.succeeded THEN "succeeded" ELSE "failed")
      [] call[c].purpose = "search" -> ReadDocuments(c, body)
      [] OTHER ->
             IF ~ReadableAnswer(call[c].purpose, body.value) THEN Finish(c, "unreadable")
             ELSE IF call[c].wrapped /\ call[c].purpose = "completion"
                  THEN Local(c, [call[c] EXCEPT !.at = "screen_out"])
             ELSE Finish(c, "succeeded")

(* An attempt is out, and bytes of it move or do not. *)
AwaitsAnswer(c) == At(c, "waiting") \/ At(c, "trickling")

(* The far side keeps taking or giving bytes, each within the limit: httpx    *)
(* reads `timeout` as a limit on each wait for the network, so as long as     *)
(* that goes on nothing ends the attempt.                                     *)
Trickle(c) ==
    /\ At(c, "waiting")
    /\ Local(c, [call[c] EXCEPT !.at = "trickling"])

(* The answer of the current attempt arrives in time. *)
Receive(c) ==
    /\ AwaitsAnswer(c)
    /\ LET e == exchange[c][call[c].attempt]
       IN  /\ e.stage = "answered"
           /\ CASE Classify(e.status) = NULL        -> ReadAnswer(c, e.body)
                [] Classify(e.status) = "permanent" ->
                       Finish(c, PermanentOutcome(call[c].purpose, e.status))
                [] OTHER                            -> AfterTransient(c)

NoTimeOut(c) ==
    /\ AwaitsAnswer(c)
    /\ exchange[c][call[c].attempt].stage = "answered"
    /\ AfterTransient(c)

(* The timeout passes, or the transport fails: the far side is not told.      *)
TimeOut(c) ==
    /\ AwaitsAnswer(c)
    /\ AfterTransient(c)

ScreenOut(c) ==
    /\ At(c, "screen_out")
    /\ \E answer \in ScreeningAnswers :
           Local(c, [call[c] EXCEPT
                        !.outbound = answer, !.at = "done",
                        !.outcome = IF Enforced(answer) = "permit" THEN "succeeded"
                                    ELSE "blocked"])

-----------------------------------------------------------------------------
(* The far side. *)

(* Attempt n of call c moves on, and no caller does. *)
Becomes(c, n, e) ==
    /\ exchange' = [exchange EXCEPT ![c][n] = e]
    /\ UNCHANGED <<call, entitled, capability, changes>>

Answered(status, body, posted) ==
    [stage |-> "answered", status |-> status, body |-> body, posted |-> posted]

Reply(c, n, status, body) == Becomes(c, n, Answered(status, body, FALSE))

Awaits(c, n, stage) == call[c] # NULL /\ exchange[c][n].stage = stage

(* The AI gateway and the index answer as they please; in front of the        *)
(* Integrations Service the edge may refuse, and never answers in its place.  *)
Answer(c, n, status, body) ==
    /\ Awaits(c, n, "arrived")
    /\ call[c].purpose = "case" => Classify(status) # NULL
    /\ body # NoBody => Classify(status) = NULL
    /\ body.documents # {} => call[c].purpose = "search"
    /\ body.value # NULL => call[c].purpose \in {"completion", "embedding"}
    /\ ~body.succeeded
    /\ Reply(c, n, status, body)
    /\ UNCHANGED cases

(* The case-operations handler: the owner of the session, then the access     *)
(* policy, both from durable state.                                           *)
Evaluate(c, n) ==
    /\ Awaits(c, n, "arrived")
    /\ call[c].purpose = "case"
    /\ LET owner == TenantOf[call[c].session]
       IN  IF owner = NULL THEN Reply(c, n, 404, NoBody)
           ELSE IF EvaluateAccess(owner \in entitled, capability.registered, Version,
                                  capability.bound) # NULL
                THEN Reply(c, n, 403, NoBody)
           ELSE Becomes(c, n, Underway("permitted"))
    /\ UNCHANGED cases

(* TenantCredentialResolver.resolve, after the policy: the view shows a       *)
(* reference only under an enabled entitlement.                               *)
Resolve(c, n) ==
    /\ Awaits(c, n, "permitted")
    /\ IF TenantOf[call[c].session] \in entitled
       THEN Becomes(c, n, Underway("posting"))
       ELSE Reply(c, n, 403, NoBody)
    /\ UNCHANGED cases

AnchorKeyPerAttempt(session, n) == <<session, n>>

(* anchor_key: derived from the session and nothing that varies between tries.*)
AnchorKey(session, n) == <<session, 0>>

(* The body of the POST: the recovered organisation is written last, over     *)
(* whatever the parameters say.                                               *)
StampedTenant(claims, owner) == owner

(* What the system of record keeps: a key it has seen is the case it has.     *)
Commit(c, n) ==
    LET session == call[c].session
        key     == AnchorKey(session, n)
    IN  IF \E k \in cases : k.key = key THEN cases
        ELSE cases \cup {[key |-> key, session |-> session,
                          tenant |-> StampedTenant(call[c].claims, TenantOf[session])]}

(* The one POST.  It is lost on its way (502); it takes effect and the        *)
(* answer is usable, unusable or lost (200, 502, 502); or it is answered      *)
(* with a failure, after the effect or without it (200, not succeeded).       *)
Post(c, n) ==
    /\ Awaits(c, n, "posting")
    /\ \E effect \in BOOLEAN, status \in {200, 502}, succeeded \in BOOLEAN :
           /\ succeeded => effect /\ status = 200
           /\ cases' = IF effect THEN Commit(c, n) ELSE cases
           /\ Becomes(c, n, Answered(status, [NoBody EXCEPT !.succeeded = succeeded], effect))

(* An administrator grants or revokes the entitlement. *)
SetEntitlement(t) ==
    /\ changes < MaxChanges
    /\ changes' = changes + 1
    /\ entitled' = IF t \in entitled THEN entitled \ {t} ELSE entitled \cup {t}
    /\ UNCHANGED <<call, exchange, capability, cases>>

-----------------------------------------------------------------------------
CallerStep(c) == Send(c) \/ Receive(c) \/ TimeOut(c)

FarSide(c, n) ==
    \/ \E status \in Statuses, body \in Body : Answer(c, n, status, body)
    \/ Evaluate(c, n) \/ Resolve(c, n) \/ Post(c, n)

Next ==
    \/ \E c \in Calls : Begin(c) \/ ScreenIn(c) \/ ScreenOut(c) \/ CallerStep(c) \/ Trickle(c)
    \/ \E c \in Calls, n \in Attempts : FarSide(c, n)
    \/ \E s \in Sessions : TenantOf[s] # NULL /\ SetEntitlement(TenantOf[s])

(* The caller's own steps are taken: a sleep ends, and so does a wait in      *)
(* which no byte moves.  Nothing is assumed of the far side, which may keep   *)
(* bytes moving for ever or stop at any of them, nor of the screening         *)
(* service, nor of the token that is acquired before a call is sent.          *)
Spec == Init /\ [][Next]_vars
             /\ \A c \in Calls : WF_vars(~At(c, "trickling") /\ CallerStep(c))

-----------------------------------------------------------------------------
(* Properties. *)

(* However many attempts time out and take effect late, and however many      *)
(* callers ask at once, a session has at most one case, and it is stamped     *)
(* with the organisation that owns the session, not the one the parameters    *)
(* name (anchor_key, ServiceNowAdapter.create_case).                          *)
OneCasePerSession ==
    /\ \A x, y \in cases : x.session = y.session => x = y
    /\ \A x \in cases : x.tenant = TenantOf[x.session]

(* An outcome can be acted on: a success is only reported when the system of  *)
(* record holds the case, a refusal of the first attempt only when nothing    *)
(* was posted, a budget refusal only when the gateway said 403, and an        *)
(* exhausted call made every attempt it was allowed                           *)
(* (IntegrationsClient.create_case, AiGatewayEgress.send).                    *)
OutcomeIsHonest ==
    \A c \in Calls : call[c] # NULL =>
        LET k == call[c] IN
        /\ k.purpose = "case" /\ k.outcome = "succeeded" =>
               \E x \in cases : x.session = k.session
        /\ k.outcome = "refused" /\ k.attempt = 1 => ~exchange[c][1].posted
        /\ k.outcome = "budget" => exchange[c][k.attempt].status = 403
        /\ k.purpose = "case" /\ k.outcome = "raised" => k.attempt = MaxAttempts

(* Text that the screening service did not let pass, or could not be asked    *)
(* about, neither leaves for the gateway, on any attempt, nor comes back to   *)
(* the maker of the call (SafeModel.complete, SafeModel.embed).               *)
BlockedTextNeverCrosses ==
    \A c \in Calls : call[c] # NULL /\ call[c].wrapped =>
        /\ (\E n \in Attempts : exchange[c][n].stage # "none") => call[c].inbound = "permit"
        /\ call[c].outcome = "succeeded" /\ call[c].purpose = "completion" =>
               call[c].outbound = "permit"

(* Evidence handed to the agent belongs to the organisation that asked,       *)
(* whatever the index returned (AzureAiSearchRetrieval._read).                *)
OnlyOwnEvidence ==
    \A c \in Calls : call[c] # NULL =>
        \A d \in call[c].got : d.tenant = TenantOf[call[c].session]

(* A call that has been allowed to leave ends, with an outcome, though the    *)
(* far side may never answer, fall silent halfway or answer too late: the     *)
(* attempts are bounded and so is each silence (RetryPolicy, OutboundRequest, *)
(* ResilientHttpCaller.send).  Only two things can hold it: the screening of  *)
(* its answer, and a far side that keeps the bytes of one attempt moving for  *)
(* ever, which the timeout does not end though http.py calls it the longest   *)
(* any single outbound call may wait.                                         *)
EveryCallEnds ==
    \A c \in Calls :
        \/ <>[]At(c, "trickling")
        \/ At(c, "send") ~> (At(c, "done") \/ At(c, "screen_out"))

(* "An adapter performing a side-effecting call reports this outward rather   *)
(* than re-firing" (TransientIntegrationError): a case is asked for once.     *)
SideEffectsAreNotRefired ==
    [][\A c \in Calls :
          call[c] # NULL /\ call[c].purpose = "case" /\ call'[c].attempt # call[c].attempt
              => call[c].attempt = 0]_vars

=============================================================================
