----------------------------- MODULE Decisions ------------------------------
(***************************************************************************)
(* Every pure decision of the platform, taken once on an input of a small  *)
(* set and compared with a definition that says what it should be; beside  *)
(* it, the transient cache, which has state of its own.                    *)
(***************************************************************************)
EXTENDS ReadService, Messages, Records, Retrieval, Cache

CONSTANTS
    GateRequests,       \* requests to the control gate
    HumanDecisions,     \* every verdict and consent a person could record
    Legs,               \* results of one retrieval leg
    Limits,             \* how many chunks are asked for
    Candidates,         \* sets of chunks offered to the reranker
    RerankerScores,     \* what a reranker may answer with
    Bodies,             \* message bodies a queue may hold
    OutboxRows,         \* rows of the outbox
    Correlations,       \* correlation identifiers a client may send
    CaseBodies,         \* bodies of a case created by the provider
    Sizes,              \* sizes of a provider response, in bytes
    AccessRequests,     \* requests to integrations.policy.checks
    HttpRequests,       \* requests to either service, as the middleware sees them
    Registries,         \* what the tenant registry may hold, NULL when there is none
    Answers,            \* what the attempts of one connector call would meet
    DirectoryTexts,     \* values of a directory profile's fields
    Tools,              \* what a server may advertise
    RecordsToEmbed,     \* records to embed
    CatalogueRows,      \* governance_record rows
    CatalogueReads,     \* requests for the capability set, with what the tables hold
    FarResults,         \* results of an invocation
    Moments,            \* sets of moments the audit writer records
    AuditReads,         \* searches of the trail
    ReadRequests,       \* requests to the read service
    Endpoints,          \* its endpoints: the roles and the filters each accepts
    Collections,        \* what successive pages find of one collection
    PageLimits,         \* page sizes a client may ask for
    Conversations,      \* sessions and messages
    Approvals           \* sessions, approvals, work items and operations

(* What the gate may be asked: a GateRequest carries an entry the catalogue   *)
(* could hold, and a decision, if any, that a person could record.            *)
ASSUME GateAssumption ==
    /\ GateRequests \subseteq
         [entry : Entry \cup {NULL}, entitled : BOOLEAN, admitted : BOOLEAN,
          knowledge : [met : BOOLEAN, required : BOOLEAN],
          decision : HumanDecisions \cup {NULL}, requester : STRING, version : Nat,
          now : Nat, expires_at : Nat \cup {NULL}]
    /\ \A req \in GateRequests : req.entry # NULL => CanBeRecord(req.entry, req.version)

(* A decision is a StaffVerdict or an EndUserConsent; a requester may consent *)
(* to what is asked, and somebody holds one of the roles an entry accepts.    *)
ASSUME PeopleAssumption ==
    /\ NULL \notin HumanDecisions
    /\ \A d \in HumanDecisions :
          \/ d.kind = "approval" /\ d.roles \in SUBSET StaffRoles /\ d.verdict \in StaffVerdicts
          \/ d.kind = "consent" /\ d.verdict \in ConsentVerdicts
    /\ \A req \in GateRequests :
          /\ \E d \in HumanDecisions :
                /\ d.kind = "consent" /\ d.by = req.requester
                /\ d.bound_to = req.version /\ d.verdict = "granted"
          /\ req.entry # NULL /\ req.entry.roles # {} =>
                \E d \in HumanDecisions :
                   /\ d.kind = "approval" /\ d.roles \cap req.entry.roles # {}
                   /\ d.bound_to = req.version /\ d.verdict = "approved"

(* The correlation identifiers a row may carry: any text. *)
AnyCorrelation == STRING \cup WellFormedCorrelation

(* What a message or an outbox row may hold: text at its keys, and no shape   *)
(* of the message types is the absent value.                                  *)
ASSUME MessageAssumption ==
    /\ \A b \in Bodies : b \in [DOMAIN b -> STRING]
    /\ \A row \in OutboxRows : row.payload \in [DOMAIN row.payload -> STRING]
    /\ NULL \notin {"triggers", "commands", "results"}
    /\ NULL \notin [subject : {"jobId", "workItemId"}, id : {"uuid"},
                    correlation_id : AnyCorrelation, kind : MessageKinds \cup TriggerKinds]
    /\ NULL \notin [queue : {"triggers", "commands"}, subject : MessageKinds \cup TriggerKinds,
                    body : [jobId : {"uuid"}, correlationId : AnyCorrelation, kind : MessageKinds]
                             \cup [workItemId : {"uuid"}, correlationId : AnyCorrelation,
                                   kind : TriggerKinds],
                    correlation_id : AnyCorrelation]
    /\ NULL \notin [job_id : {"uuid"}, correlation_id : WellFormedCorrelation, kind : MessageKinds]

(* A value of a provider's answer or of a record is NULL or has a kind and a  *)
(* length; an attempt meets a status or a transport failure.                  *)
ASSUME BoundaryAssumption ==
    LET Value == [kind : STRING, length : Nat] \cup {NULL}
    IN  /\ Sizes \subseteq Nat
        /\ DirectoryTexts \subseteq Value
        /\ \A b \in CaseBodies \cup RecordsToEmbed : b \in [DOMAIN b -> Value]
        /\ Answers \subseteq [1..MAX_ATTEMPTS -> Nat \cup {NULL}]
        /\ NULL \notin {"number", "sys_id"}
        /\ NULL \notin [field : {"symptom", "description"}, length : Nat]

(* The names of the header contract (X-Idp-Roles and the others) are not      *)
(* among those a client may not supply.                                       *)
ASSUME DoorAssumption ==
    /\ HttpRequests \subseteq
         [headers : SUBSET [folded : STRING, contract : BOOLEAN],
          query : SUBSET [folded : STRING, contract : BOOLEAN],
          tid : STRING, oid : STRING, roles : SUBSET STRING, credential : STRING,
          surface : STRING, path : STRING]
    /\ \A r \in HttpRequests : \A name \in r.headers : name.contract => ~IsForbidden(name)

(* The catalogue's version of a capability is a number. *)
ASSUME AccessAssumption ==
    /\ NULL \notin AccessRefusals
    /\ \A a \in AccessRequests : a.entitled \in BOOLEAN /\ a.version \in Nat

(* What a reader sends behind the gateway; an organisation's row is a row. *)
ASSUME ReaderAssumption ==
    /\ ReadRequests \subseteq
         [headers : {{}}, query : SUBSET STRING, tid : STRING, oid : STRING,
          roles : Seq(STRING), credential : STRING, surface : STRING, path : STRING]
    /\ \A g \in Registries \ {NULL} : \A tid \in DOMAIN g :
          g[tid] # NULL /\ [kind |-> "one", tenant |-> g[tid].id] # NULL
    /\ NULL \notin {"customer", "staff", "workload"} /\ NULL # OperatorWide

(* A message belongs to a session of its organisation (its foreign key), and  *)
(* an id is one session's (its primary key).                                  *)
ASSUME ConversationAssumption ==
    \A c \in Conversations :
       /\ \A s \in c.sessions : s.content_expires_at \in Nat \cup {NULL}
       /\ \A s, t \in c.sessions : s.id = t.id => s = t
       /\ \A m \in c.messages : \E s \in c.sessions : s.id = m.session /\ s.tenant = m.tenant

(* A capability in the catalogue has a highest version, as in any table. *)
ASSUME CatalogueAssumption ==
    /\ \A row \in CatalogueRows : row.requires_elevation \in BOOLEAN
    /\ \A q \in CatalogueReads :
          /\ q.catalogue \subseteq [id : STRING, version : Nat]
          /\ \A d \in q.catalogue : \E m \in q.catalogue :
                m.id = d.id /\ \A e \in q.catalogue : e.id = d.id => m.version >= e.version

(* A result says whether it succeeded and who looked at the effect. *)
ASSUME LegAssumption ==
    LET Looked == {"server_confirmed", "client_attested", "contradicted"}
    IN  /\ FarResults \subseteq [succeeded : BOOLEAN, verification : Looked]
        /\ NULL \notin [succeeded : BOOLEAN, verification : Looked,
                        verified_by : {NULL, "reader"}]

(* Legs, as an index returned them; candidates as a fusion leaves them, one   *)
(* to a reference.                                                            *)
ASSUME RankingAssumption ==
    /\ Legs \subseteq Seq([reference : Int, score : Int]) /\ Limits \subseteq Nat
    /\ \A c \in Candidates :
          /\ IsFiniteSet(c) /\ \A x \in c : x \in [reference : Int, score : Int]
          /\ \A x, y \in c : x.reference = y.reference => x = y
    /\ RerankerScores \subseteq Seq(Int)

(* Finitely many moments were recorded, each of a kind the writer knows. *)
ASSUME MomentAssumption ==
    /\ \A moments \in Moments :
          /\ IsFiniteSet(moments)
          /\ \A m \in moments : m.of \in {"gate", "execution", "escalation"} /\ m.at \in Nat
    /\ \A r \in AuditReads : r.since \in Nat /\ r.limit \in Nat /\ r.now \in Nat

(* What successive pages find: snapshots of a table whose rows have an id of  *)
(* their own; the client has more pages to ask for than there are rows.       *)
ASSUME CollectionAssumption ==
    /\ PageLimits \subseteq Int \cup {NULL}
    /\ NULL \notin [id : Int, key : Int \cup {NULL}]
    /\ \A at \in Collections :
          /\ at \in Seq(SUBSET [id : Int, key : Int \cup {NULL}])
          /\ \A n \in DOMAIN at :
                IsFiniteSet(at[n]) /\ \A x, y \in at[n] : x.id = y.id => x = y
          /\ Cardinality(UNION {at[n] : n \in DOMAIN at}) < Len(at)

(* The tables the dashboard reads: an approval has a verdict when it is       *)
(* decided, a work item has one approval at most, and what hangs off a work   *)
(* item carries its organisation.                                             *)
ASSUME ApprovalAssumption ==
    /\ NULL \notin [window_start : Int, window_end : Int, sessions : Nat, approvals : Nat,
                    unexecuted : Nat]
    /\ \A a \in Approvals :
          /\ IsFiniteSet(a.sessions) /\ IsFiniteSet(a.approvals) /\ IsFiniteSet(a.operations)
          /\ \A x \in a.approvals : x.decided_at = NULL <=> x.verdict = NULL
          /\ \A x, y \in a.approvals : x.work = y.work => x = y
          /\ \A v, w \in a.works : v.id = w.id => v = w
          /\ \A x \in a.approvals \cup a.operations :
                 \E w \in a.works : w.id = x.work /\ w.tenant = x.tenant
          /\ \A s \in a.sessions : s.created_at \in Nat
          /\ \A x \in a.approvals : x.requested_at \in Nat
          /\ \A o \in a.operations : o # NULL /\ o.created_at \in Nat

VARIABLE decision   \* the input and the output of the decision taken, or NULL

vars == <<decision, cacheVars>>

Init == decision = NULL /\ CacheInit

(* Nothing has been decided and the cache has not been used. *)
Fresh == decision = NULL /\ CacheInit

Decide(kind, input, output) ==
    /\ decision' = [kind |-> kind, input |-> input, output |-> output]
    /\ UNCHANGED cacheVars

DecideGate ==
    /\ Fresh
    /\ \E r \in GateRequests : Decide("gate", r, Evaluate(r))

DecideSearch ==
    /\ Fresh
    /\ \E d, s \in Legs, n \in Limits :
           Decide("search", [dense |-> d, sparse |-> s, limit |-> n], Search(d, s, n))

DecideRerank ==
    /\ Fresh
    /\ \E c \in Candidates, a \in RerankerScores :
           Decide("rerank", [chunks |-> c, scores |-> a], Rerank(c, a))

DecideEnvelope ==
    /\ Fresh
    /\ \E b \in Bodies :
           Decide("envelope", b, [q \in {"triggers", "commands", "results"} |-> VerdictAt(q, b)])

(* A row as the outbox holds it, or one a request of its own leaves behind. *)
DecidePublication ==
    /\ Fresh
    /\ \/ \E row \in OutboxRows : Decide("publication", row, Published(row))
       \/ \E kind \in TriggerKinds, raw \in Correlations, own \in {NULL, "plain"} :
              LET row == TriggerRow(kind, CorrelationFor(raw), own)
              IN  Decide("request", row, Published(row))
       \/ \E kind \in HANDLED_RESULTS, c \in WellFormedCorrelation :
              LET envelope == [job_id |-> "uuid", correlation_id |-> c, kind |-> kind]
              IN  Decide("result", envelope, PublishedResult(envelope))

DecideCase ==
    /\ Fresh
    /\ \E b \in CaseBodies, n \in Sizes :
           Decide("case", [body |-> b, size |-> n], NormalizeCaseResult(n, b))

DecideAccess ==
    /\ Fresh
    /\ \E a \in AccessRequests :
           Decide("access", a, EvaluateAccess(a.entitled, a.registered, a.version, a.bound))

DecideAdmission ==
    /\ Fresh
    /\ \E r \in HttpRequests, g \in Registries :
           Decide("admission", [request |-> r, registry |-> g],
                  [ragcore |-> Admit(r, g), integrations |-> AdmitWorkload(r)])

DecideTool ==
    /\ Fresh
    /\ \E a \in Answers, b \in CaseBodies, n \in Sizes :
           Decide("tool", [answers |-> a, body |-> b, size |-> n], InvokeTool(a, n, b))

DecideDiscovery ==
    /\ Fresh
    /\ \E a \in Answers, t \in Tools :
           Decide("discovery", [answers |-> a, tools |-> t], Discover(a, t))

DecideProfile ==
    /\ Fresh
    /\ \E a \in Answers, x, y \in DirectoryTexts, n \in Sizes :
           Decide("profile", [answers |-> a, name |-> x, mail |-> y, size |-> n],
                  LookupPrincipal(a, n, x, y))

DecideEmbedding ==
    /\ Fresh
    /\ \E r \in RecordsToEmbed : Decide("embedding", r, EmbeddableText(r))

DecideRecord ==
    /\ Fresh
    /\ \E row \in CatalogueRows : Decide("record", row, RecordFromRow(row))

DecideCatalogue ==
    /\ Fresh
    /\ \E q \in CatalogueReads, probe \in {NULL, "reached", "transient", "permanent"} :
           LET answer == ReadCatalogue(q.session, q.work, q.sessions, q.works, q.catalogue,
                                       q.entitlements)
           IN  Decide("catalogue", q,
                      [answer  |-> answer,
                       usable  |-> [c \in answer.items |-> AvailabilityOf(c.entitled, probe)],
                       probe   |-> probe,
                       ragcore |-> TenantFor(q.sessions, q.registry, q.session)])

DecideLeg ==
    /\ Fresh
    /\ \E d \in Dispositions, result \in FarResults, tool \in {NULL, "reader"} :
           LET report == RunLeg(d, result, tool)
               before == [verification |-> NULL, status |-> "proposed", version |-> 1]
           IN  Decide("leg", [disposition |-> d, result |-> result],
                      [report    |-> report,
                       operation |-> IF report = NULL THEN before
                                     ELSE RecordOutcome(before, report.verification, "done"),
                       audit     |-> IF report = NULL THEN NULL
                                     ELSE RecordExecution("a", ActorChain("workload", "workload",
                                                                          "user", NULL),
                                              "AUTO", report.verification, "done", 0)])

(* What the audit writer makes of a moment. *)
Recorded(m) ==
    CASE m.of = "gate"       -> RecordGateOutcome(m.tenant,
                                    Outcome(m.treatment, m.disposition, m.reason),
                                    m.requester, m.approver, m.at)
      [] m.of = "execution"  -> RecordExecution(m.tenant, m.chain, m.treatment, m.verification,
                                                m.reason, m.at)
      [] m.of = "escalation" -> RecordEscalation(m.tenant, m.requester, m.reason, m.at)

DecideAudit ==
    /\ Fresh
    /\ \E moments \in Moments, r \in AuditReads :
           LET trail == {Recorded(m) : m \in moments}
           IN  Decide("audit", [trail |-> trail, read |-> r],
                      AuditSearch(trail, r.tenant, r.since, r.limit, r.now))

DecideReader ==
    /\ Fresh
    /\ \E r \in ReadRequests, g \in Registries \ {NULL}, e \in Endpoints :
           Decide("reader", [request |-> r, registry |-> g, endpoint |-> e],
                  [net     |-> AdmitReader(r, g, e),
                   ragcore |-> Admit([r EXCEPT !.roles = RolesNamed(r.roles), !.query = {}], g)])

DecidePages ==
    /\ Fresh
    /\ \E at \in Collections, sort \in [descending : BOOLEAN, enum : BOOLEAN],
          n \in PageLimits :
           Decide("pages", [at |-> at, sort |-> sort, limit |-> ClampLimit(n)],
                  Walk(at, sort, ClampLimit(n)))

DecideConversation ==
    /\ Fresh
    /\ \E c \in Conversations, t \in {"a", "b"}, session \in {"s1", "s2"}, now \in 0..2 :
           LET scope == [kind |-> "one", tenant |-> t]
           IN  Decide("conversation",
                      [rows |-> c, tenant |-> t, session |-> session, now |-> now],
                      [own  |-> OwnMessages(c.messages, c.sessions, scope, "user", session, now),
                       live |-> LiveSessions(c.sessions, OperatorWide, now)])

DecideDashboard ==
    /\ Fresh
    /\ \E a \in Approvals :
           LET rollup == DashboardRollup(a.sessions, a.approvals, a.works)
           IN  Decide("dashboard", a,
                      [queue      |-> ApprovalQueue(a.approvals, a.operations),
                       unexecuted |-> ApprovalUnexecuted(a.approvals, a.works, a.operations),
                       rollup     |-> rollup,
                       platform   |-> GetPlatform(rollup)])

Next ==
    \/ DecideReader
    \/ DecidePages
    \/ DecideConversation
    \/ DecideDashboard
    \/ DecideGate
    \/ DecideSearch
    \/ DecideRerank
    \/ DecideEnvelope
    \/ DecideCase
    \/ DecideAccess
    \/ DecideAdmission
    \/ DecideTool
    \/ DecideDiscovery
    \/ DecideProfile
    \/ DecideEmbedding
    \/ DecidePublication
    \/ DecideRecord
    \/ DecideCatalogue
    \/ DecideLeg
    \/ DecideAudit
    \/ decision = NULL /\ CacheNext /\ UNCHANGED decision

Spec == Init /\ [][Next]_vars

Taken(kind) == decision # NULL /\ decision.kind = kind

-----------------------------------------------------------------------------
(* A decision of a person that authorises the request: of the kind the        *)
(* treatment asks for, on the very version, by someone who may, affirmative,  *)
(* and inside its window.                                                     *)
Authorises(d, req) ==
    /\ d # NULL
    /\ d.bound_to = req.version
    /\ req.expires_at # NULL /\ req.now < req.expires_at
    /\ \/ /\ req.entry.treatment = "END_USER_APPROVAL"
          /\ d.kind = "consent" /\ d.by = req.requester /\ d.verdict = "granted"
       \/ /\ req.entry.treatment = "STAFF_APPROVAL"
          /\ d.kind = "approval" /\ d.roles \cap req.entry.roles # {} /\ d.verdict = "approved"

(* The gate lets work proceed exactly when the organisation is admitted and   *)
(* entitled to a catalogued capability, its evidence does not withhold it,    *)
(* and nobody need be asked or the right person said yes in time; and then    *)
(* the three conditions, recorded separately, agree (gate.evaluate,           *)
(* conditions.ConditionSet).                                                  *)
ProceedsIffAuthorised ==
    Taken("gate") =>
        LET req  == decision.input
            goes == decision.output.disposition = "proceed"
        IN  /\ goes <=> /\ req.admitted /\ req.entry # NULL /\ req.entitled
                        /\ ~Withholds(req.knowledge)
                        /\ \/ req.entry.treatment = "AUTO"
                           \/ Authorises(req.decision, req)
            /\ goes => ConditionsProceed(req.knowledge,
                                         AbilityMet(req.entry # NULL, req.entitled), goes)
            /\ ConditionsProceed(req.knowledge, AbilityMet(req.entry # NULL, req.entitled), goes)
                   <=> WithheldBy(req.knowledge,
                                  AbilityMet(req.entry # NULL, req.entitled), goes) = {}

(* Work parked for staff can always go on: some person could record an        *)
(* approval that lets the very request proceed while its window is open.      *)
(* Work parked for the requester's consent never does: whatever is recorded,  *)
(* the gate refuses, a granted consent for want of a window.  The code says   *)
(* the window of a consent is "the work item's" (governance.py:126), and that *)
(* "the repository resolves it from there" (domain/decisions.py:74);          *)
(* ConsentRepository.decision_for leaves it unset.  And a decision only ever  *)
(* resolves a suspension of its own kind (gate.evaluate, govern,              *)
(* policy.assign_treatment).                                                  *)
ApprovalAloneResumes ==
    Taken("gate") =>
        LET req == decision.input
            out == decision.output
        IN  /\ SuspendsOn(out.disposition) = "approval" =>
                  \E d \in HumanDecisions :
                      /\ d.kind = "approval"
                      /\ Evaluate(Resumed(req, d, req.now + 1)).disposition = "proceed"
            /\ SuspendsOn(out.disposition) = "consent" =>
                  \A d \in HumanDecisions :
                      Evaluate(Resumed(req, d, req.now + 1)).disposition = "refuse"
            /\ out.disposition = "proceed" /\ out.treatment # "AUTO" =>
                  SuspendsOn(Evaluate([req EXCEPT !.decision = NULL]).disposition)
                      = req.decision.kind

Unique(leg) == Cardinality(References(leg)) = Len(leg)

Backwards(s) == [i \in DOMAIN s |-> s[Len(s) + 1 - i]]

(* What a document scored in a leg, zero when the leg did not return it. *)
RawScore(leg, r) ==
    IF \E i \in DOMAIN leg : leg[i].reference = r
    THEN leg[CHOOSE i \in DOMAIN leg : leg[i].reference = r].score ELSE 0

(* Fusion of legs no longer than they were asked to be drops nothing it has   *)
(* room for, never ranks a document above one that is at least as good in     *)
(* both legs unless they tie, and does not depend on the order in which a leg *)
(* returned its results (hybrid.fuse, HybridRetrieval.search).  A rerank pass *)
(* keeps every candidate once, spends itself on at most the first five and on *)
(* none below the floor, leaves what it did not re-score below what it did    *)
(* and in its old order, and refuses an answer of another length              *)
(* (rerank.rerank).                                                           *)
RankingIsFaithful ==
    /\ Taken("search") =>
         LET d   == decision.input.dense
             s   == decision.input.sparse
             out == decision.output
             found == References(d) \cup References(s)
             most  == Fetched(decision.input.limit)
         IN  Unique(d) /\ Unique(s) /\ Len(d) <= most /\ Len(s) <= most =>
               /\ Len(out) = IF Cardinality(found) < decision.input.limit
                             THEN Cardinality(found) ELSE decision.input.limit
               /\ out = Search(Backwards(d), Backwards(s), decision.input.limit)
               /\ \A i \in DOMAIN out : \A r \in found :
                    /\ RawScore(d, r) >= RawScore(d, out[i].reference)
                    /\ RawScore(s, r) >= RawScore(s, out[i].reference)
                    => \/ \E j \in 1..i : out[j].reference = r
                       \/ FusedScore(d, s, r) = out[i].score
    /\ Taken("rerank") =>
         LET c   == decision.input.chunks
             out == decision.output
             asked == {i \in DOMAIN out.chunks : out.chunks[i].was_reranked}
             before == Ranked(c)
         IN  /\ out.error <=> out.considered > 0 /\ Len(decision.input.scores) # out.considered
             /\ ~out.error =>
                  /\ Len(out.chunks) = Cardinality(c)
                  /\ {out.chunks[i].reference : i \in DOMAIN out.chunks} = {x.reference : x \in c}
                  /\ asked = 1..out.considered /\ out.considered <= RERANK_TOP_K
                  /\ \A i \in DOMAIN out.chunks : \A x \in c :
                       x.reference = out.chunks[i].reference =>
                         (i \in asked <=> /\ x.score >= MINIMUM_RERANK_SCORE
                                          /\ \E k \in 1..RERANK_TOP_K :
                                                k \in DOMAIN before /\ before[k] = x)
                  /\ \A i, j \in DOMAIN out.chunks :
                       i < j /\ (i \in asked <=> j \in asked) =>
                           Before(out.chunks[i], out.chunks[j])

(* Every message the platform publishes is acted on by the consumer of the    *)
(* queue it goes to or has no handler there, under the row it names and the   *)
(* journey it came with, and by no consumer of another queue; a row that is   *)
(* not one of ours is not published; and a message that says more than three  *)
(* things is refused on the seam, so that reading and writing it again gives  *)
(* back the same body.  A case is accepted exactly when it is small enough    *)
(* and names itself, and then carries no key outside the contract; a          *)
(* capability is usable only at the version the catalogue and the connector   *)
(* agree on.                                                                  *)
SeamContract ==
    /\ Taken("publication") =>
         LET row     == decision.input
             message == decision.output
             subject == IF row.kind \in MessageKinds THEN "jobId" ELSE "workItemId"
         IN  IF message = NULL
             THEN row.kind \notin TriggerKinds \cup {"integration.execute"}
                  \/ subject \notin DOMAIN row.payload \/ row.payload[subject] # "uuid"
                  \/ "correlationId" \notin DOMAIN row.payload
             ELSE LET verdict(q) == VerdictAt(q, message.body)
                  IN  /\ \A q \in {"triggers", "commands", "results"} \ {message.queue} :
                            verdict(q) = DeadLetter
                      /\ row.payload["correlationId"] \in WellFormedCorrelation =>
                            IF row.kind \in {"sample.flow", "integration.execute"}
                            THEN /\ verdict(message.queue).id = subject
                                 /\ verdict(message.queue).correlation_id
                                        = row.payload["correlationId"]
                            ELSE verdict(message.queue) = DeadLetter
    /\ Taken("request") =>
         /\ decision.output.correlation_id \in WellFormedCorrelation
         /\ VerdictAt("triggers", decision.output.body) = DeadLetter
                => decision.input.kind # "sample.flow"
    /\ Taken("result") =>
         /\ VerdictAt("results", decision.output.body).does = "conclude"
         /\ VerdictAt("results", decision.output.body).correlation_id
                = decision.input.correlation_id
         /\ \A q \in {"triggers", "commands"} :
                VerdictAt(q, decision.output.body) = DeadLetter
    /\ Taken("envelope") =>
         \A q \in {"commands", "results"} : decision.output[q] # DeadLetter =>
             IF q = "commands" THEN ToJson(FromJson(decision.input)) = decision.input
             ELSE DOMAIN decision.input = PERMITTED_FIELDS
    /\ Taken("case") =>
         LET body  == decision.input.body
             out   == decision.output
             named == {k \in {"number", "sys_id"} \cap DOMAIN body :
                          IsText(body[k]) /\ body[k].length > 0}
         IN  /\ out.accepted <=> decision.input.size <= MAX_PAYLOAD_BYTES /\ named # {}
             /\ out.accepted => /\ out.reference \in named
                                /\ out.payload \subseteq CASE_FIELDS \ FORBIDDEN_KEYS
    /\ Taken("access") =>
         LET a == decision.input
         IN  decision.output = NULL
                <=> a.entitled /\ a.registered = a.version /\ a.version \in a.bound

(* What a request claims besides the gateway's headers decides nothing: two   *)
(* requests the gateway describes alike are answered alike, or the one that   *)
(* claims more is refused for it, in a header as in the query.  Who is        *)
(* admitted belongs to the active organisation of its own tid, holds no staff *)
(* role on a customer surface and no role the platform does not know; and the *)
(* Integrations Service lets in only what RagCore would read as an            *)
(* application credential too.                                                *)
DoorContract ==
    Taken("admission") =>
        LET r    == decision.input.request
            g    == decision.input.registry
            rag  == decision.output.ragcore
            intg == decision.output.integrations
        IN  /\ LET bare == [r EXCEPT !.headers = {}, !.query = {}]
               IN  /\ rag.status = 400 \/ rag = Admit(bare, g)
                   /\ intg.status = 400 \/ intg = AdmitWorkload(bare)
            /\ \A name \in r.headers \cup r.query : name.folded = "tenantid" => rag.status = 400
            /\ rag.status = 200 =>
                 /\ g[r.tid].id = rag.tenant /\ g[r.tid].status = "active"
                 /\ rag.roles \subseteq StaffRoles
                 /\ r.path = "customer" => rag.roles = {"end_user"}
                 /\ r.path # "customer" => rag.roles \subseteq r.roles
            /\ intg.status = 200 => intg.tenant = NULL /\ CredentialClass(r.credential) = "app"

(* A write to a connector is sent once, a read at most as often as allowed    *)
(* and only while the far side is in trouble; an unknown principal is only    *)
(* reported on the far side's word; and nothing taken in carries a credential *)
(* or a destination, is larger than allowed, or comes from a failed call.     *)
ConnectorContract ==
    /\ Taken("tool") => decision.output.attempts = 1
    /\ \A kind \in {"tool", "discovery", "profile"} : Taken(kind) =>
         LET out  == decision.output
             last == decision.input.answers[out.attempts]
         IN  /\ \A n \in 1..(out.attempts - 1) :
                    decision.input.answers[n] \in TRANSIENT_STATUSES \cup {NULL}
             /\ out.attempts <= MAX_ATTEMPTS
             /\ out.payload # {} => last # NULL /\ Succeeded(last)
             /\ kind # "discovery" /\ out.payload # {} =>
                    /\ decision.input.size <= MAX_PAYLOAD_BYTES
                    /\ out.payload \cap FORBIDDEN_KEYS = {}
             /\ out.outcome = "unknown" => last = 404
             /\ kind = "profile" /\ out.payload # {} =>
                    /\ decision.input.name.length \in 1..256
                    /\ IsText(decision.input.mail) => decision.input.mail.length <= 320
             /\ last = NULL => out.outcome = "raised"

(* A record is embedded by its symptom whenever it has one, whatever its      *)
(* description says, and never by more than the bound.                        *)
EmbeddingContract ==
    Taken("embedding") =>
        LET r   == decision.input
            out == decision.output
        IN  /\ (out = NULL) <=> \A f \in {"symptom", "description"} \cap DOMAIN r :
                                     IsText(r[f]) => r[f].length = 0
            /\ out # NULL => /\ out.length \in 1..MAX_EMBEDDED_CHARACTERS
                             /\ out.length <= r[out.field].length
            /\ out # NULL /\ out.field = "symptom" =>
                 \A v \in {x["description"] : x \in {y \in RecordsToEmbed : "description" \in DOMAIN y}} :
                     EmbeddableText([f \in DOMAIN r \cup {"description"} |->
                                        IF f = "description" THEN v ELSE r[f]]) = out

(* An entry in force is the row that was stored and nothing more lenient: no  *)
(* role was dropped from it, none made up, and it claims no elevation.        *)
EntryContract ==
    Taken("record") =>
        LET row == decision.input
            e   == decision.output
        IN  e # NULL =>
              /\ ~row.requires_elevation
              /\ (IF row.accepted_roles = NULL THEN {} ELSE row.accepted_roles) = e.roles
              /\ AssignTreatment(e, TRUE).treatment = "AUTO" => row.default_treatment = "AUTO"

(* What an item of the capability set, and the set, say to an organisation. *)
ItemShown(tenant, q, c, usable, probe) ==
    LET refusal == EvaluateAccess(IsEntitled(q.entitlements, tenant, c.id),
                                  RegisteredVersion(q.catalogue, c.id), c.version,
                                  BoundVersions(q.bindings, c.id))
    IN  /\ c.entitled <=> [tenant |-> tenant, id |-> c.id] \in q.entitlements
        /\ ~c.entitled <=> refusal = "not_entitled"
        /\ refusal = "version_mismatch" <=>
               c.entitled /\ \E d \in q.catalogue : d.id = c.id /\ d.version > c.version
        /\ (usable[c] = "not_entitled") <=> ~c.entitled
        /\ usable[c] = "temporarily_unavailable" => probe = "transient"

ShownTo(tenant, q, items, usable, probe, ragcore) ==
    /\ q.session # NULL /\ ragcore # NULL => ragcore.id = tenant
    /\ \A c \in items : ItemShown(tenant, q, c, usable, probe)
    /\ \A d \in q.catalogue : \E c \in items : c.id = d.id /\ c.version = d.version

(* What the capability set shows an organisation is what the access policy    *)
(* would say of it, and is the owner's of the one object named; a system is   *)
(* only ever called down, or reached at all, for an organisation entitled to  *)
(* it.                                                                        *)
CatalogueContract ==
    Taken("catalogue") =>
         LET q   == decision.input
             out == decision.output
         IN  /\ (out.answer.status = 400) <=> (q.session = NULL) = (q.work = NULL)
             /\ out.answer.status = 200 =>
                  ShownTo(IF q.session # NULL THEN q.sessions[q.session] ELSE q.works[q.work],
                          q, out.answer.items, out.usable, out.probe, out.ragcore)

(* Resolution is reported only on a far side that acted and looked, and both  *)
(* records of the operation say the same of it; nothing is invoked, and       *)
(* nothing recorded as executed, without authority.                           *)
LegContract ==
    Taken("leg") =>
         LET out == decision.output
         IN  /\ (out.report = NULL) <=> decision.input.disposition # "proceed"
             /\ out.report = NULL <=> out.operation.version = 1
             /\ out.report # NULL =>
                  /\ ReportsResolution(out.report) =>
                         decision.input.result.succeeded
                         /\ decision.input.result.verification = "server_confirmed"
                  /\ out.audit.verification = out.report.verification
                  /\ out.operation.verification = out.report.verification

(* A search of the trail shows an organisation its own records only, the      *)
(* newest of them, and each for the whole of the default window after it was  *)
(* written.                                                                   *)
AuditContract ==
    Taken("audit") =>
         LET r    == decision.input.read
             mine == {e \in decision.input.trail : e.tenant = r.tenant}
         IN  /\ decision.output # {}
             /\ \A S \in decision.output :
                  /\ S \subseteq mine
                  /\ \A e \in mine \ S :
                       \/ e.occurred_at < r.since
                       \/ e.occurred_at + AUDIT_WINDOW <= r.now
                       \/ Cardinality(S) = r.limit
                          /\ \A f \in S : f.occurred_at >= e.occurred_at
                  /\ \A e \in S : e.action # "execution.recorded" =>
                                      e.by.execution_method = "none"

(* The read service never shows a customer another organisation's rows, or    *)
(* reads across organisations for anyone but staff with a role the endpoint   *)
(* accepts; where RagCore lets the same caller in, both name the same         *)
(* organisation and read the same credential, which is an application's only  *)
(* where applications call.                                                   *)
ReaderContract ==
    Taken("reader") =>
         LET r   == decision.input.request
             net == decision.output.net
             rag == decision.output.ragcore
         IN  /\ net.status = 200 /\ r.path = "customer" =>
                   /\ net.scope.kind = "one"
                   /\ rag.status = 200 => rag.tenant = net.scope.tenant
                   /\ rag.status # 200 =>
                          decision.input.registry[r.tid].status # "active"
             /\ net.status = 200 /\ net.scope.kind = "all" =>
                   /\ r.path = "staff"
                   /\ RolesNamed(r.roles) \cap decision.input.endpoint.accepted # {}
             /\ net.status = 200 /\ rag.status = 200 =>
                   /\ rag.credential = r.credential
                   /\ r.credential = "app" <=> r.path = "workload"
             /\ net.status = 200 /\ "tenantid" \in r.query => net.scope.kind = "all"
             /\ rag.status = 200 /\ net.status \notin {200, 400} =>
                   \/ r.credential # IF r.path = "workload" THEN "app" ELSE "delegated"
                   \/ TryParseRoles(r.roles) = NULL
                   \/ rag.roles \cap decision.input.endpoint.accepted = {}

(* Where the pages of a walk show a row: on which page, and at which place.   *)
PlacesOf(pages) == UNION {{<<n, i>> : i \in DOMAIN pages[n].rows} : n \in DOMAIN pages}

RowAt(pages, p) == pages[p[1]].rows[p[2]]

PlacesWith(pages, id) == {p \in PlacesOf(pages) : RowAt(pages, p).id = id}

Earlier(p, q) == p[1] < q[1] \/ (p[1] = q[1] /\ p[2] < q[2])

KeysOf(rows, id) == {r.key : r \in {x \in rows : x.id = id}}

(* The page p ended ahead of x, at a row from which x cannot be reached: a    *)
(* null where x has a value, a value where x has a null, or any enum.         *)
LeavesBehind(p, x, sort) ==
    p.next # NULL /\ Precedes(p.next, x, sort) /\ (sort.enum \/ ~Comparable(p.next, x))

ShowsFaithfully(pages, at, found, sort, limit) ==
    /\ \A x \in at[1] : (\A n \in DOMAIN at : x \in at[n]) =>
          Cardinality(PlacesWith(pages, x.id)) =
              IF \E n \in DOMAIN pages : LeavesBehind(pages[n], x, sort) THEN 0 ELSE 1
    /\ \A x \in found : Cardinality(PlacesWith(pages, x.id)) > 1 =>
                             Cardinality(KeysOf(found, x.id)) > 1
    /\ \A p, q \in PlacesOf(pages) :
          Earlier(p, q) => Precedes(RowAt(pages, p), RowAt(pages, q), sort)
    /\ \A n \in DOMAIN pages : Len(pages[n].rows) <= limit
    /\ pages[Len(pages)].next = NULL
    /\ (\E n \in DOMAIN pages : pages[n].raised) <=> (sort.enum /\ pages[1].next # NULL)

(* A client that pages to the end is shown the rows that stayed once each and *)
(* in order, whatever is added, removed or moved meanwhile, and a row twice   *)
(* only if its key was changed; but a row that stayed is never shown if some  *)
(* page ended before it among the rows with a value and it has none, or the   *)
(* other way round, and a sort by an enum fails on its second page.  That the *)
(* boundary of a page will "neither repeat a row nor skip one"                *)
(* (Keyset.cs:137) is so for the other keys only (KeysetSortKey.After,        *)
(* KeysetQuery.TakeAsync, ApprovalSortKeys).                                  *)
PagesContract ==
    Taken("pages") =>
        ShowsFaithfully(decision.output, decision.input.at,
                        UNION {decision.input.at[n] : n \in DOMAIN decision.input.at},
                        decision.input.sort, decision.input.limit)

(* A message is shown to the owner of its session, until the content of the   *)
(* session expires.                                                           *)
ConversationContract ==
    Taken("conversation") =>
         LET q     == decision.input
             owned == {s \in q.rows.sessions : s.id = q.session /\ s.tenant = q.tenant
                                                  /\ s.requester = "user"}
         IN  /\ \A m \in q.rows.messages : m \in decision.output.own <=>
                   \E s \in owned : m.session = s.id
                                       /\ (s.content_expires_at = NULL
                                              \/ q.now < s.content_expires_at)
             /\ {s \in q.rows.sessions : s.closed_at = NULL /\ s.content_expires_at = NULL}
                   \subseteq decision.output.live

(* A work item is never both to be decided and to be executed; and the        *)
(* dashboard counts every session once and every decision once, but for those *)
(* of a day on which the organisation neither opened a session nor asked for  *)
(* an approval, which it counts nowhere.                                      *)
DashboardContract ==
    Taken("dashboard") =>
         LET a   == decision.input
             out == decision.output
             counted == {x \in a.approvals :
                            /\ x.decided_at # NULL
                            /\ \/ \E s \in a.sessions : Day(s.created_at) = Day(x.decided_at)
                                                              /\ s.tenant = x.tenant
                               \/ \E y \in a.approvals : Day(y.requested_at) = Day(x.decided_at)
                                                              /\ y.tenant = x.tenant}
             waiting == {x \in a.approvals : x.verdict = "approved"
                            /\ \A w \in a.works : w.id = x.work => w.state # "executed"}
         IN  /\ {x.work : x \in out.queue} \cap {x.work : x \in out.unexecuted} = {}
             /\ out.unexecuted \subseteq waiting
             /\ \A x \in waiting \ out.unexecuted : ~\E o \in a.operations : o.work = x.work
             /\ out.platform = NULL <=> a.sessions \cup a.approvals = {}
             /\ out.platform # NULL =>
                   /\ out.platform.sessions = Cardinality(a.sessions)
                   /\ out.platform.approvals = Cardinality(counted)
                   /\ out.platform.unexecuted = Cardinality(counted \cap waiting)

(* Whatever crosses a boundary of the platform, a request, a message, a       *)
(* provider's answer, a stored row, a record to embed or one to keep, does so *)
(* by contract or not at all (api.deps, both identity middlewares, the        *)
(* publishers and consumers, policy, normalization.py, the connectors,        *)
(* catalogue.py, embedding.py, executor.py, AuditSink, the views and the read *)
(* service; its pages are PagesContract).                                     *)
ContractsHold ==
    /\ SeamContract /\ DoorContract /\ ConnectorContract /\ EmbeddingContract
    /\ EntryContract /\ CatalogueContract /\ LegContract /\ AuditContract
    /\ ReaderContract /\ ConversationContract /\ DashboardContract

(* See Cache: no organisation is served another's value, or a stale one. *)
CacheServesOnlyFreshOwn == ServesOnlyFreshOwn

=============================================================================
