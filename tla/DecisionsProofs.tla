--------------------------- MODULE DecisionsProofs --------------------------
(***************************************************************************)
(* Theorems about Decisions for every set of inputs: what the control gate *)
(* does with any request, what the transient cache serves after any        *)
(* sequence of writes, reads, invalidations, losses and evictions, what    *)
(* fusion and reranking do to any results, and the contracts of the seam,  *)
(* the two doors, the connectors, the embedding path, the execution leg,   *)
(* conversations, the capability set, the audit trail, the dashboard and   *)
(* the walk of a client over the pages of a growing collection.            *)
(***************************************************************************)
EXTENDS Decisions, GovernanceProofs, FiniteSetTheorems, FunctionTheorems, WellFoundedInduction

(* Every entry the server holds was written by an accepted put of the         *)
(* organisation and key it is stored under, and expires within MAX_TTL of it. *)
EntriesArePuts ==
    \A k \in DOMAIN redis : \E p \in puts :
        /\ k = <<p.tenant, p.key>>
        /\ p.value = redis[k].value
        /\ redis[k].expires <= p.at + MAX_TTL

CacheTyped ==
    /\ clock \in Nat
    /\ \A p \in puts : p.at \in Nat
    /\ \A k \in DOMAIN redis : redis[k].expires \in Nat

CacheIInv == CacheTyped /\ EntriesArePuts /\ ServesOnlyFreshOwn

(* What each decision on record was taken on, and by which rule. *)
MadeByGate(d) == \E req \in GateRequests :
    d = [kind |-> "gate", input |-> req, output |-> Evaluate(req)]

MadeAtTheDoor(d) == \E r \in HttpRequests, g \in Registries :
    d = [kind |-> "admission", input |-> [request |-> r, registry |-> g],
         output |-> [ragcore |-> Admit(r, g), integrations |-> AdmitWorkload(r)]]

MadeOfTool(d) == \E a \in Answers, b \in CaseBodies, n \in Sizes :
    d = [kind |-> "tool", input |-> [answers |-> a, body |-> b, size |-> n],
         output |-> InvokeTool(a, n, b)]

MadeOfDiscovery(d) == \E a \in Answers, t \in Tools :
    d = [kind |-> "discovery", input |-> [answers |-> a, tools |-> t],
         output |-> Discover(a, t)]

MadeOfProfile(d) == \E a \in Answers, x, y \in DirectoryTexts, n \in Sizes :
    d = [kind |-> "profile", input |-> [answers |-> a, name |-> x, mail |-> y, size |-> n],
         output |-> LookupPrincipal(a, n, x, y)]

MadeOfEmbedding(d) == \E r \in RecordsToEmbed :
    d = [kind |-> "embedding", input |-> r, output |-> EmbeddableText(r)]

MadeOfAccess(d) == \E a \in AccessRequests :
    d = [kind |-> "access", input |-> a,
         output |-> EvaluateAccess(a.entitled, a.registered, a.version, a.bound)]

MadeOfCase(d) == \E b \in CaseBodies, n \in Sizes :
    d = [kind |-> "case", input |-> [body |-> b, size |-> n],
         output |-> NormalizeCaseResult(n, b)]

MadeOfEnvelope(d) == \E b \in Bodies :
    d = [kind |-> "envelope", input |-> b,
         output |-> [q \in {"triggers", "commands", "results"} |-> VerdictAt(q, b)]]

MadeOfRow(d) == \E row \in OutboxRows :
    d = [kind |-> "publication", input |-> row, output |-> Published(row)]

MadeOfRequest(d) == \E kind \in TriggerKinds, c \in WellFormedCorrelation, own \in {NULL, "plain"} :
    d = [kind |-> "request", input |-> TriggerRow(kind, c, own),
         output |-> Published(TriggerRow(kind, c, own))]

MadeOfResult(d) == \E kind \in HANDLED_RESULTS, c \in WellFormedCorrelation :
    d = [kind |-> "result",
         input |-> [job_id |-> "uuid", correlation_id |-> c, kind |-> kind],
         output |-> PublishedResult([job_id |-> "uuid", correlation_id |-> c, kind |-> kind])]

MadeOfReader(d) == \E r \in ReadRequests, g \in Registries \ {NULL}, e \in Endpoints :
    d = [kind |-> "reader", input |-> [request |-> r, registry |-> g, endpoint |-> e],
         output |-> [net     |-> AdmitReader(r, g, e),
                     ragcore |-> Admit([r EXCEPT !.roles = RolesNamed(r.roles), !.query = {}], g)]]

MadeOfConversation(d) ==
    \E c \in Conversations, t \in {"a", "b"}, session \in {"s1", "s2"}, now \in 0..2 :
        d = [kind |-> "conversation",
             input |-> [rows |-> c, tenant |-> t, session |-> session, now |-> now],
             output |-> [own  |-> OwnMessages(c.messages, c.sessions,
                                              [kind |-> "one", tenant |-> t],
                                              "user", session, now),
                         live |-> LiveSessions(c.sessions, OperatorWide, now)]]

MadeOfRecord(d) == \E row \in CatalogueRows :
    d = [kind |-> "record", input |-> row, output |-> RecordFromRow(row)]

MadeOfCatalogue(d) ==
    \E q \in CatalogueReads, probe \in {NULL, "reached", "transient", "permanent"} : \E answer :
        /\ answer = ReadCatalogue(q.session, q.work, q.sessions, q.works, q.catalogue,
                                  q.entitlements)
        /\ d = [kind |-> "catalogue", input |-> q,
                output |-> [answer  |-> answer,
                            usable  |-> [c \in answer.items |->
                                             AvailabilityOf(c.entitled, probe)],
                            probe   |-> probe,
                            ragcore |-> TenantFor(q.sessions, q.registry, q.session)]]

MadeOfSearch(d) == \E x, y \in Legs, n \in Limits :
    d = [kind |-> "search", input |-> [dense |-> x, sparse |-> y, limit |-> n],
         output |-> Search(x, y, n)]

MadeOfRerank(d) == \E c \in Candidates, a \in RerankerScores :
    d = [kind |-> "rerank", input |-> [chunks |-> c, scores |-> a], output |-> Rerank(c, a)]

(* The trail that the writer left. *)
TrailOf(moments) == {Recorded(m) : m \in moments}

MadeOfTrail(d) == \E moments \in Moments, r \in AuditReads :
    d = [kind |-> "audit", input |-> [trail |-> TrailOf(moments), read |-> r],
         output |-> AuditSearch(TrailOf(moments), r.tenant, r.since, r.limit, r.now)]

(* The operation as the leg finds it. *)
Proposed == [verification |-> NULL, status |-> "proposed", version |-> 1]

MadeOfLeg(d) ==
    \E dis \in Dispositions, result \in FarResults, tool \in {NULL, "reader"} : \E report :
        /\ report = RunLeg(dis, result, tool)
        /\ d = [kind |-> "leg", input |-> [disposition |-> dis, result |-> result],
                output |->
                  [report    |-> report,
                   operation |-> IF report = NULL THEN Proposed
                                 ELSE RecordOutcome(Proposed, report.verification, "done"),
                   audit     |-> IF report = NULL THEN NULL
                                 ELSE RecordExecution("a", ActorChain("workload", "workload",
                                                                      "user", NULL),
                                          "AUTO", report.verification, "done", 0)]]

MadeOfPages(d) ==
    \E at \in Collections, sort \in [descending : BOOLEAN, enum : BOOLEAN], n \in PageLimits :
       d = [kind |-> "pages",
            input |-> [at |-> at, sort |-> sort, limit |-> ClampLimit(n)],
            output |-> Walk(at, sort, ClampLimit(n))]

(* What the two staff views, the roll-up and the tile say of the tables a. *)
Tiles(a) ==
    [queue      |-> ApprovalQueue(a.approvals, a.operations),
     unexecuted |-> ApprovalUnexecuted(a.approvals, a.works, a.operations),
     rollup     |-> DashboardRollup(a.sessions, a.approvals, a.works),
     platform   |-> GetPlatform(DashboardRollup(a.sessions, a.approvals, a.works))]

MadeOfDashboard(d) == \E a \in Approvals :
    d = [kind |-> "dashboard", input |-> a, output |-> Tiles(a)]

DecisionIsMade ==
    /\ Taken("gate")         => MadeByGate(decision)
    /\ Taken("admission")    => MadeAtTheDoor(decision)
    /\ Taken("tool")         => MadeOfTool(decision)
    /\ Taken("discovery")    => MadeOfDiscovery(decision)
    /\ Taken("profile")      => MadeOfProfile(decision)
    /\ Taken("embedding")    => MadeOfEmbedding(decision)
    /\ Taken("access")       => MadeOfAccess(decision)
    /\ Taken("case")         => MadeOfCase(decision)
    /\ Taken("envelope")     => MadeOfEnvelope(decision)
    /\ Taken("publication")  => MadeOfRow(decision)
    /\ Taken("request")      => MadeOfRequest(decision)
    /\ Taken("result")       => MadeOfResult(decision)
    /\ Taken("reader")       => MadeOfReader(decision)
    /\ Taken("conversation") => MadeOfConversation(decision)
    /\ Taken("record")       => MadeOfRecord(decision)
    /\ Taken("catalogue")    => MadeOfCatalogue(decision)
    /\ Taken("leg")          => MadeOfLeg(decision)
    /\ Taken("search")       => MadeOfSearch(decision)
    /\ Taken("rerank")       => MadeOfRerank(decision)
    /\ Taken("audit")        => MadeOfTrail(decision)
    /\ Taken("pages")        => MadeOfPages(decision)
    /\ Taken("dashboard")    => MadeOfDashboard(decision)

IInv == CacheIInv /\ DecisionIsMade

-----------------------------------------------------------------------------
LEMMA InitIInv == Init => IInv
  <1> SUFFICES ASSUME Init PROVE IInv
    OBVIOUS
  <1>1. DOMAIN redis = {}  BY DEF Init, CacheInit
  <1>2. CacheTyped /\ EntriesArePuts
    BY <1>1 DEF Init, CacheInit, CacheTyped, EntriesArePuts
  <1>3. ServesOnlyFreshOwn  BY DEF Init, CacheInit, ServesOnlyFreshOwn
  <1>4. DecisionIsMade  BY DEF Init, DecisionIsMade, Taken
  <1> QED  BY <1>2, <1>3, <1>4 DEF IInv, CacheIInv

-----------------------------------------------------------------------------
(* The cache. *)

LEMMA GetKeeps ==
    ASSUME CacheIInv, NEW t \in Tenants, NEW key \in Keys, Get(t, key)
    PROVE  CacheIInv'
  <1>1. UNCHANGED <<redis, clock, puts>>  BY DEF Get
  <1>2. CacheTyped' /\ EntriesArePuts'
    BY <1>1 DEF CacheIInv, CacheTyped, EntriesArePuts
  <1>3. ServesOnlyFreshOwn'
    <2> SUFFICES ASSUME reply' # NULL, reply'.value # NULL
                 PROVE  \E p \in puts : /\ p.tenant = reply'.tenant
                                        /\ p.key = Strip[reply'.key]
                                        /\ p.value = reply'.value
                                        /\ reply'.at < p.at + MAX_TTL
      BY <1>1 DEF ServesOnlyFreshOwn
    <2>1. PICK v : reply' = [tenant |-> t, key |-> key, at |-> clock, value |-> v]
                   /\ (v # NULL => Live(<<t, Strip[key]>>) /\ v = redis[<<t, Strip[key]>>].value)
      BY DEF Get, CacheKey
    <2>2. /\ reply'.tenant = t /\ reply'.key = key /\ reply'.at = clock /\ reply'.value = v
      BY <2>1
    <2>3. PICK k : k = <<t, Strip[key]>>  OBVIOUS
    <2>4. k \in DOMAIN redis /\ clock < redis[k].expires /\ v = redis[k].value
      BY <2>1, <2>2, <2>3 DEF Live
    <2>5. PICK p \in puts : /\ k = <<p.tenant, p.key>>
                            /\ p.value = redis[k].value
                            /\ redis[k].expires <= p.at + MAX_TTL
      BY <2>4 DEF CacheIInv, EntriesArePuts
    <2>6. p.tenant = t /\ p.key = Strip[key]  BY <2>3, <2>5
    <2>7. clock < p.at + MAX_TTL
      BY <2>4, <2>5, CacheAssumption DEF CacheIInv, CacheTyped
    <2> QED  BY <2>2, <2>4, <2>5, <2>6, <2>7
  <1> QED  BY <1>2, <1>3 DEF CacheIInv

(* Whatever is dropped, what is left was put. *)
LEMMA DropKeeps ==
    ASSUME CacheIInv, NEW kept \in SUBSET DOMAIN redis, redis' = [x \in kept |-> redis[x]],
           clock' \in Nat, UNCHANGED <<reply, puts>>
    PROVE  CacheIInv'
  BY DEF CacheIInv, CacheTyped, EntriesArePuts, ServesOnlyFreshOwn

LEMMA StayKeeps ==
    ASSUME CacheIInv, UNCHANGED <<redis, clock, reply, puts>>
    PROVE  CacheIInv'
  BY DEF CacheIInv, CacheTyped, EntriesArePuts, ServesOnlyFreshOwn

LEMMA InvalidateKeeps ==
    ASSUME CacheIInv, NEW t \in Tenants, NEW key \in Keys, Invalidate(t, key)
    PROVE  CacheIInv'
  <1>1. UNCHANGED <<clock, reply, puts>> /\ clock' \in Nat
    BY DEF Invalidate, CacheIInv, CacheTyped
  <1>2. \/ redis' = redis
        \/ \E kept \in SUBSET DOMAIN redis : redis' = [x \in kept |-> redis[x]]
    <2>1. PICK k : k = CacheKey(t, key)  OBVIOUS
    <2>2. \/ redis' = redis
          \/ redis' = [x \in DOMAIN redis \ {k} |-> redis[x]]
      BY <2>1 DEF Invalidate
    <2>3. DOMAIN redis \ {k} \in SUBSET DOMAIN redis  OBVIOUS
    <2> QED  BY <2>2, <2>3
  <1> QED  BY <1>1, <1>2, DropKeeps, StayKeeps

LEMMA PassKeeps ==
    ASSUME CacheIInv, Pass
    PROVE  CacheIInv'
  <1>1. clock' \in Nat  BY DEF Pass, CacheIInv, CacheTyped
  <1> QED  BY <1>1, DropKeeps DEF Pass

LEMMA PutKeeps ==
    ASSUME CacheIInv, NEW t \in Tenants, NEW key \in Keys, NEW v \in Entries,
           NEW ttl \in 0..(MAX_TTL + 1), Put(t, key, v, ttl)
    PROVE  CacheIInv'
  <1>1. PICK p : p = [tenant |-> t, key |-> Strip[key], value |-> v, at |-> clock]  OBVIOUS
  <1>2. p.tenant = t /\ p.key = Strip[key] /\ p.value = v /\ p.at = clock  BY <1>1
  <1>3. puts' = puts \cup {p} /\ UNCHANGED <<clock, reply>>  BY <1>1 DEF Put
  <1>4. ttl \in Nat /\ ttl <= MAX_TTL  BY CacheAssumption DEF Put, Accepts
  <1>5. PICK k : k = <<t, Strip[key]>>  OBVIOUS
  <1>6. PICK e : e = [value |-> v, expires |-> clock + ttl]  OBVIOUS
  <1>7. e.value = v /\ e.expires = clock + ttl  BY <1>6
  <1>8. \/ redis' = redis
        \/ redis' = [x \in DOMAIN redis \cup {k} |-> IF x = k THEN e ELSE redis[x]]
    BY <1>5, <1>6 DEF Put, CacheKey
  <1>9. clock \in Nat /\ MAX_TTL \in Nat  BY CacheAssumption DEF CacheIInv, CacheTyped
  <1>10. CacheTyped'
    <2>1. \A q \in puts' : q.at \in Nat  BY <1>2, <1>3, <1>9 DEF CacheIInv, CacheTyped
    <2>2. \A x \in DOMAIN redis' : redis'[x].expires \in Nat
      BY <1>4, <1>7, <1>8, <1>9 DEF CacheIInv, CacheTyped
    <2> QED  BY <1>3, <1>9, <2>1, <2>2 DEF CacheTyped
  <1>11. EntriesArePuts'
    <2> SUFFICES ASSUME NEW x \in DOMAIN redis'
                 PROVE  \E q \in puts' : /\ x = <<q.tenant, q.key>>
                                         /\ q.value = redis'[x].value
                                         /\ redis'[x].expires <= q.at + MAX_TTL
      BY DEF EntriesArePuts
    <2>1. CASE x \in DOMAIN redis /\ redis'[x] = redis[x]
      BY <1>3, <2>1 DEF CacheIInv, EntriesArePuts
    <2>2. CASE x = k /\ redis'[x] = e
      <3>1. x = <<p.tenant, p.key>>  BY <1>2, <1>5, <2>2
      <3>2. redis'[x].expires <= p.at + MAX_TTL  BY <1>2, <1>4, <1>7, <1>9, <2>2
      <3> QED  BY <1>2, <1>3, <1>7, <2>2, <3>1, <3>2
    <2> QED  BY <1>8, <2>1, <2>2
  <1>12. ServesOnlyFreshOwn'
    BY <1>3 DEF CacheIInv, ServesOnlyFreshOwn
  <1> QED  BY <1>10, <1>11, <1>12 DEF CacheIInv

LEMMA CacheNextKeeps == CacheIInv /\ CacheNext => CacheIInv'
  BY GetKeeps, InvalidateKeeps, PutKeeps, PassKeeps DEF CacheNext

-----------------------------------------------------------------------------
(* The decisions. *)

LEMMA Publications ==
    ASSUME DecidePublication
    PROVE  /\ decision'.kind \in {"publication", "request", "result"} /\ UNCHANGED cacheVars
           /\ decision'.kind = "publication" => MadeOfRow(decision')
           /\ decision'.kind = "request" => MadeOfRequest(decision')
           /\ decision'.kind = "result" => MadeOfResult(decision')
  <1>1. CASE \E row \in OutboxRows : Decide("publication", row, Published(row))
    BY <1>1 DEF Decide, MadeOfRow
  <1>2. CASE \E kind \in TriggerKinds, raw \in Correlations, own \in {NULL, "plain"} :
                Decide("request", TriggerRow(kind, CorrelationFor(raw), own),
                       Published(TriggerRow(kind, CorrelationFor(raw), own)))
    <2>1. PICK kind \in TriggerKinds, raw \in Correlations, own \in {NULL, "plain"} :
              Decide("request", TriggerRow(kind, CorrelationFor(raw), own),
                     Published(TriggerRow(kind, CorrelationFor(raw), own)))
      BY <1>2
    <2>2. PICK c \in WellFormedCorrelation : c = CorrelationFor(raw)
      BY DEF CorrelationFor, WellFormedCorrelation
    <2> QED  BY <2>1, <2>2 DEF Decide, MadeOfRequest
  <1>3. CASE \E kind \in HANDLED_RESULTS, c \in WellFormedCorrelation :
                Decide("result", [job_id |-> "uuid", correlation_id |-> c, kind |-> kind],
                       PublishedResult([job_id |-> "uuid", correlation_id |-> c, kind |-> kind]))
    BY <1>3 DEF Decide, MadeOfResult
  <1> QED  BY <1>1, <1>2, <1>3 DEF DecidePublication

(* A decision of a kind of its own, taken by its rule, is on record as made. *)
LEMMA MadeDecisions ==
    ASSUME NEW kind,
           decision'.kind = kind,
           \/ kind = "pages" /\ MadeOfPages(decision')
           \/ kind = "dashboard" /\ MadeOfDashboard(decision')
           \/ kind = "gate" /\ MadeByGate(decision')
           \/ kind = "admission" /\ MadeAtTheDoor(decision')
           \/ kind = "tool" /\ MadeOfTool(decision')
           \/ kind = "discovery" /\ MadeOfDiscovery(decision')
           \/ kind = "profile" /\ MadeOfProfile(decision')
           \/ kind = "embedding" /\ MadeOfEmbedding(decision')
           \/ kind = "access" /\ MadeOfAccess(decision')
           \/ kind = "case" /\ MadeOfCase(decision')
           \/ kind = "envelope" /\ MadeOfEnvelope(decision')
           \/ kind = "reader" /\ MadeOfReader(decision')
           \/ kind = "conversation" /\ MadeOfConversation(decision')
           \/ kind = "record" /\ MadeOfRecord(decision')
           \/ kind = "catalogue" /\ MadeOfCatalogue(decision')
           \/ kind = "leg" /\ MadeOfLeg(decision')
           \/ kind = "search" /\ MadeOfSearch(decision')
           \/ kind = "rerank" /\ MadeOfRerank(decision')
           \/ kind = "audit" /\ MadeOfTrail(decision')
           \/ kind = "publication" /\ MadeOfRow(decision')
           \/ kind = "request" /\ MadeOfRequest(decision')
           \/ kind = "result" /\ MadeOfResult(decision')
    PROVE  DecisionIsMade'
  BY DEF DecisionIsMade, Taken

LEMMA NextIInv == IInv /\ [Next]_vars => IInv'
  <1> SUFFICES ASSUME IInv, [Next]_vars PROVE IInv'
    OBVIOUS
  <1>1. ASSUME UNCHANGED cacheVars, DecisionIsMade' PROVE IInv'
    BY <1>1, StayKeeps DEF cacheVars, IInv
  <1>2. CASE DecideGate
    <2>1. decision'.kind = "gate" /\ MadeByGate(decision') /\ UNCHANGED cacheVars
      BY <1>2 DEF DecideGate, Decide, MadeByGate
    <2> QED  BY <1>1, <2>1, MadeDecisions
  <1>3. CASE DecideAdmission
    <2>1. decision'.kind = "admission" /\ MadeAtTheDoor(decision') /\ UNCHANGED cacheVars
      BY <1>3 DEF DecideAdmission, Decide, MadeAtTheDoor
    <2> QED  BY <1>1, <2>1, MadeDecisions
  <1>4. CASE DecideTool
    <2>1. decision'.kind = "tool" /\ MadeOfTool(decision') /\ UNCHANGED cacheVars
      BY <1>4 DEF DecideTool, Decide, MadeOfTool
    <2> QED  BY <1>1, <2>1, MadeDecisions
  <1>5. CASE DecideDiscovery
    <2>1. decision'.kind = "discovery" /\ MadeOfDiscovery(decision') /\ UNCHANGED cacheVars
      BY <1>5 DEF DecideDiscovery, Decide, MadeOfDiscovery
    <2> QED  BY <1>1, <2>1, MadeDecisions
  <1>6. CASE DecideProfile
    <2>1. decision'.kind = "profile" /\ MadeOfProfile(decision') /\ UNCHANGED cacheVars
      BY <1>6 DEF DecideProfile, Decide, MadeOfProfile
    <2> QED  BY <1>1, <2>1, MadeDecisions
  <1>7. CASE DecideEmbedding
    <2>1. decision'.kind = "embedding" /\ MadeOfEmbedding(decision') /\ UNCHANGED cacheVars
      BY <1>7 DEF DecideEmbedding, Decide, MadeOfEmbedding
    <2> QED  BY <1>1, <2>1, MadeDecisions
  <1>8. CASE DecideAccess
    <2>1. decision'.kind = "access" /\ MadeOfAccess(decision') /\ UNCHANGED cacheVars
      BY <1>8 DEF DecideAccess, Decide, MadeOfAccess
    <2> QED  BY <1>1, <2>1, MadeDecisions
  <1>9. CASE DecideCase
    <2>1. decision'.kind = "case" /\ MadeOfCase(decision') /\ UNCHANGED cacheVars
      BY <1>9 DEF DecideCase, Decide, MadeOfCase
    <2> QED  BY <1>1, <2>1, MadeDecisions
  <1>10. CASE DecideEnvelope
    <2>1. decision'.kind = "envelope" /\ MadeOfEnvelope(decision') /\ UNCHANGED cacheVars
      BY <1>10 DEF DecideEnvelope, Decide, MadeOfEnvelope
    <2> QED  BY <1>1, <2>1, MadeDecisions
  <1>11. CASE DecideReader
    <2>1. decision'.kind = "reader" /\ UNCHANGED cacheVars  BY <1>11 DEF DecideReader, Decide
    <2>2. MadeOfReader(decision')  BY <1>11, Zenon DEF DecideReader, Decide, MadeOfReader
    <2> QED  BY <1>1, <2>1, <2>2, MadeDecisions
  <1>12. CASE DecideConversation
    <2>1. decision'.kind = "conversation" /\ UNCHANGED cacheVars
      BY <1>12 DEF DecideConversation, Decide
    <2>2. MadeOfConversation(decision')
      BY <1>12, Zenon DEF DecideConversation, Decide, MadeOfConversation
    <2> QED  BY <1>1, <2>1, <2>2, MadeDecisions
  <1>13. CASE DecideRecord
    <2>1. decision'.kind = "record" /\ MadeOfRecord(decision') /\ UNCHANGED cacheVars
      BY <1>13 DEF DecideRecord, Decide, MadeOfRecord
    <2> QED  BY <1>1, <2>1, MadeDecisions
  <1>14. CASE DecideCatalogue
    <2>1. decision'.kind = "catalogue" /\ UNCHANGED cacheVars  BY <1>14 DEF DecideCatalogue, Decide
    <2>2. MadeOfCatalogue(decision')  BY <1>14, Zenon DEF DecideCatalogue, Decide, MadeOfCatalogue
    <2> QED  BY <1>1, <2>1, <2>2, MadeDecisions
  <1>15. CASE DecideLeg
    <2>1. decision'.kind = "leg" /\ UNCHANGED cacheVars  BY <1>15 DEF DecideLeg, Decide
    <2>2. MadeOfLeg(decision')  BY <1>15, Zenon DEF DecideLeg, Decide, MadeOfLeg, Proposed
    <2> QED  BY <1>1, <2>1, <2>2, MadeDecisions
  <1>16. CASE DecideSearch
    <2>1. decision'.kind = "search" /\ MadeOfSearch(decision') /\ UNCHANGED cacheVars
      BY <1>16 DEF DecideSearch, Decide, MadeOfSearch
    <2> QED  BY <1>1, <2>1, MadeDecisions
  <1>17. CASE DecideRerank
    <2>1. decision'.kind = "rerank" /\ MadeOfRerank(decision') /\ UNCHANGED cacheVars
      BY <1>17 DEF DecideRerank, Decide, MadeOfRerank
    <2> QED  BY <1>1, <2>1, MadeDecisions
  <1>18. CASE DecideAudit
    <2>1. decision'.kind = "audit" /\ UNCHANGED cacheVars  BY <1>18 DEF DecideAudit, Decide
    <2>2. MadeOfTrail(decision')  BY <1>18, Zenon DEF DecideAudit, Decide, MadeOfTrail, TrailOf
    <2> QED  BY <1>1, <2>1, <2>2, MadeDecisions
  <1>19. CASE DecidePublication
    BY <1>1, <1>19, Publications, MadeDecisions
  <1>20. CASE DecidePages
    <2>1. decision'.kind = "pages" /\ UNCHANGED cacheVars  BY <1>20 DEF DecidePages, Decide
    <2>2. MadeOfPages(decision')  BY <1>20, Zenon DEF DecidePages, Decide, MadeOfPages
    <2> QED  BY <1>1, <2>1, <2>2, MadeDecisions
  <1>21. CASE DecideDashboard
    <2>1. decision'.kind = "dashboard" /\ UNCHANGED cacheVars
      BY <1>21 DEF DecideDashboard, Decide
    <2>2. MadeOfDashboard(decision')
      BY <1>21, Zenon DEF DecideDashboard, Decide, MadeOfDashboard, Tiles
    <2> QED  BY <1>1, <2>1, <2>2, MadeDecisions
  <1>22. CASE CacheNext /\ UNCHANGED decision
    <2>1. CacheIInv'  BY <1>22, CacheNextKeeps DEF IInv
    <2>2. DecisionIsMade'  BY <1>22 DEF IInv, DecisionIsMade, Taken
    <2> QED  BY <2>1, <2>2 DEF IInv
  <1>23. CASE UNCHANGED vars
    <2>1. CacheIInv'  BY <1>23, StayKeeps DEF vars, cacheVars, IInv
    <2>2. DecisionIsMade'  BY <1>23 DEF vars, IInv, DecisionIsMade, Taken
    <2> QED  BY <2>1, <2>2 DEF IInv
  <1> QED
    BY <1>2, <1>3, <1>4, <1>5, <1>6, <1>7, <1>8, <1>9, <1>10, <1>11,
       <1>12, <1>13, <1>14, <1>15, <1>16, <1>17, <1>18, <1>19, <1>20, <1>21, <1>22, <1>23
    DEF Next

(* The cache holds only what was put, and every decision on record is the     *)
(* answer of its rule to an input of its set: what the theorems below rest on. *)
THEOREM DecisionsInvariant == Spec => []IInv
  BY InitIInv, NextIInv, PTL DEF Spec

(* After any sequence of operations of any organisations, on a server that    *)
(* fails, forgets and is shared, a value read back is the reader's own and    *)
(* still inside the window of the work it was cached for (cache_key,          *)
(* _validate).                                                                *)
THEOREM CacheServes == Spec => []CacheServesOnlyFreshOwn
  <1>1. IInv => CacheServesOnlyFreshOwn
    BY DEF IInv, CacheIInv, CacheServesOnlyFreshOwn
  <1> QED  BY <1>1, DecisionsInvariant, PTL

-----------------------------------------------------------------------------
(* The gate, for every request it may be asked. *)

LEMMA RequestsAreRequests ==
    ASSUME NEW req \in GateRequests
    PROVE  /\ IsRequest(req)
           /\ req.entry # NULL => ~req.entry.elevated
           /\ req.decision # NULL => req.decision \in HumanDecisions
  <1>1. /\ req.entry \in Entry \cup {NULL} /\ req.entitled \in BOOLEAN
        /\ req.admitted \in BOOLEAN /\ req.now \in Nat /\ req.expires_at \in Nat \cup {NULL}
        /\ req.decision \in HumanDecisions \cup {NULL}
    BY GateAssumption
  <1>2. (req.decision # NULL /\ req.decision.kind = "approval")
            => req.decision.roles \in SUBSET StaffRoles
    BY <1>1, PeopleAssumption
  <1>3. req.entry # NULL => ~req.entry.elevated  BY GateAssumption DEF CanBeRecord
  <1> QED  BY <1>1, <1>2, <1>3 DEF IsRequest

LEMMA ProceedIsAuthority ==
    ASSUME NEW req \in GateRequests
    PROVE  Evaluate(req).disposition = "proceed"
              <=> /\ req.admitted /\ req.entry # NULL /\ req.entitled
                  /\ ~Withholds(req.knowledge)
                  /\ \/ req.entry.treatment = "AUTO"
                     \/ Authorises(req.decision, req)
  <1>1. Evaluate(req).disposition = Answer(req)  BY RequestsAreRequests, GateAnswers
  <1>2. Unimpeded(req) <=> /\ req.admitted /\ req.entry # NULL /\ req.entitled
                          /\ ~Withholds(req.knowledge)
    BY RequestsAreRequests DEF Unimpeded
  <1>3. CASE ~Unimpeded(req)
    <2>1. Answer(req) = "refuse"  BY <1>3 DEF Answer
    <2> QED  BY <1>1, <1>2, <1>3, <2>1
  <1>4. CASE Unimpeded(req)
    <2>1. PICK e \in Entry : e = req.entry
      BY <1>4, RequestsAreRequests DEF Unimpeded, IsRequest
    <2>2. CASE e.treatment = "AUTO"
      <3>1. Answer(req) = "proceed"  BY <1>4, <2>1, <2>2 DEF Answer
      <3> QED  BY <1>1, <1>2, <1>4, <2>1, <2>2, <3>1
    <2>3. CASE e.treatment = "END_USER_APPROVAL"
      <3>1. (Answer(req) = "proceed") <=> (req.decision # NULL /\ Consented(req))
        BY <1>4, <2>1, <2>3 DEF Answer
      <3>2. Consented(req) <=> Authorises(req.decision, req)
        <4>1. (req.decision # NULL /\ req.decision.kind = "consent")
                 => ((req.decision.verdict # "refused") <=> (req.decision.verdict = "granted"))
          BY RequestsAreRequests, PeopleAssumption DEF ConsentVerdicts
        <4> QED  BY <2>1, <2>3, <4>1 DEF Consented, Authorises
      <3>3. Consented(req) => req.decision # NULL  BY DEF Consented
      <3> QED  BY <1>1, <1>2, <1>4, <2>1, <2>3, <3>1, <3>2, <3>3
    <2>4. CASE e.treatment = "STAFF_APPROVAL"
      <3>1. Approved(req) => e.roles # {} /\ req.decision # NULL  BY <2>1 DEF Approved
      <3>2. (Answer(req) = "proceed") <=> Approved(req)
        BY <1>4, <2>1, <2>4, <3>1 DEF Answer
      <3>3. Approved(req) <=> Authorises(req.decision, req)
        <4>1. (req.decision # NULL /\ req.decision.kind = "approval")
                 => ((req.decision.verdict # "rejected") <=> (req.decision.verdict = "approved"))
          BY RequestsAreRequests, PeopleAssumption DEF StaffVerdicts
        <4> QED  BY <2>1, <2>4, <4>1 DEF Approved, Authorises
      <3> QED  BY <1>1, <1>2, <1>4, <2>1, <2>4, <3>2, <3>3
    <2>5. CASE e.treatment = "NOT_ALLOWED"
      <3>1. Answer(req) = "refuse"  BY <1>4, <2>1, <2>5 DEF Answer
      <3>2. ~Authorises(req.decision, req)  BY <2>1, <2>5 DEF Authorises
      <3> QED  BY <1>1, <2>1, <2>5, <3>1, <3>2
    <2> QED  BY <2>2, <2>3, <2>4, <2>5 DEF Entry, Treatments
  <1> QED  BY <1>3, <1>4

(* Whatever the catalogue, the tenant, the evidence and the people say, the   *)
(* gate lets work proceed exactly when Authorises, written from the           *)
(* requirements and not from the cascade, says it may; and the three          *)
(* conditions agree (gate.evaluate, conditions.ConditionSet).                 *)
THEOREM GateProceeds == Spec => []ProceedsIffAuthorised
  <1>1. ASSUME IInv, Taken("gate") PROVE ProceedsIffAuthorised
    <2>1. PICK req \in GateRequests : req = decision.input /\ decision.output = Evaluate(req)
      BY <1>1 DEF IInv, DecisionIsMade, MadeByGate
    <2>2. PICK goes \in BOOLEAN : goes = (decision.output.disposition = "proceed")
      OBVIOUS
    <2>3. goes <=> /\ req.admitted /\ req.entry # NULL /\ req.entitled
                   /\ ~Withholds(req.knowledge)
                   /\ \/ req.entry.treatment = "AUTO"
                      \/ Authorises(req.decision, req)
      BY <2>1, <2>2, ProceedIsAuthority
    <2>4. goes => ConditionsProceed(req.knowledge,
                                    AbilityMet(req.entry # NULL, req.entitled), goes)
      BY <2>3 DEF ConditionsProceed, AbilityMet
    <2>5. ConditionsProceed(req.knowledge, AbilityMet(req.entry # NULL, req.entitled), goes)
              <=> WithheldBy(req.knowledge,
                             AbilityMet(req.entry # NULL, req.entitled), goes) = {}
      BY DEF ConditionsProceed, WithheldBy
    <2> QED  BY <2>1, <2>2, <2>3, <2>4, <2>5 DEF ProceedsIffAuthorised
  <1>2. IInv => ProceedsIffAuthorised  BY <1>1 DEF ProceedsIffAuthorised
  <1> QED  BY <1>2, DecisionsInvariant, PTL

(* The same request with another decision. *)
Again(req, d, w) == [req EXCEPT !.decision = d, !.expires_at = w]

LEMMA Redecided ==
    ASSUME NEW req \in GateRequests, NEW d \in HumanDecisions \cup {NULL},
           NEW w \in Nat \cup {NULL},
           NEW new, new = Again(req, d, w)
    PROVE  /\ IsRequest(new)
           /\ new.decision = d /\ new.expires_at = w
           /\ new.entry = req.entry /\ new.now = req.now
           /\ new.version = req.version /\ new.requester = req.requester
           /\ Unimpeded(new) <=> Unimpeded(req)
  <1>1. /\ new.decision = d /\ new.expires_at = w
        /\ new.entry = req.entry /\ new.now = req.now
        /\ new.version = req.version /\ new.requester = req.requester
        /\ new.knowledge = req.knowledge
    BY GateAssumption DEF Again
  <1>2. new.admitted = req.admitted /\ new.entitled = req.entitled
    BY GateAssumption DEF Again
  <1>3. IsRequest(req)  BY RequestsAreRequests
  <1>4. IsRequest(new)  BY <1>1, <1>2, <1>3, PeopleAssumption DEF IsRequest
  <1>5. Unimpeded(new) <=> Unimpeded(req)  BY <1>1, <1>2 DEF Unimpeded
  <1> QED  BY <1>1, <1>4, <1>5

LEMMA SuspensionKinds ==
    ASSUME NEW d \in Dispositions
    PROVE  /\ SuspendsOn(d) = "consent" <=> d = "suspend_for_consent"
           /\ SuspendsOn(d) = "approval" <=> d = "suspend_for_approval"
  BY GateNull DEF SuspendsOn, Dispositions, DecisionKinds

LEMMA ApprovalCanResume ==
    ASSUME NEW req \in GateRequests, Answer(req) = "suspend_for_approval"
    PROVE  \E d \in HumanDecisions :
              /\ d.kind = "approval"
              /\ Evaluate(Resumed(req, d, req.now + 1)).disposition = "proceed"
  <1>1. Unimpeded(req)  BY DEF Answer
  <1>2. PICK e \in Entry : e = req.entry
    BY <1>1, RequestsAreRequests DEF Unimpeded, IsRequest
  <1>3. req.now \in Nat  BY RequestsAreRequests DEF IsRequest
  <1>4. PICK w \in Nat : w = req.now + 1 /\ w # NULL /\ req.now < w
    BY <1>3, GateNull
  <1>5. e.treatment = "STAFF_APPROVAL" /\ e.roles # {}  BY <1>1, <1>2 DEF Answer
  <1>6. PICK d \in HumanDecisions : /\ d.kind = "approval" /\ d.roles \cap e.roles # {}
                                    /\ d.bound_to = req.version /\ d.verdict = "approved"
    BY <1>1, <1>2, <1>5, PeopleAssumption DEF Unimpeded
  <1>7. PICK new : new = Again(req, d, w)  OBVIOUS
  <1>8. /\ IsRequest(new) /\ Unimpeded(new) /\ new.entry = e
        /\ new.decision = d /\ new.expires_at = w /\ new.now = req.now
        /\ new.version = req.version
    BY <1>1, <1>2, <1>7, Redecided
  <1>9. Approved(new)  BY <1>4, <1>6, <1>8, PeopleAssumption DEF Approved
  <1>10. Answer(new) = "proceed"
    BY <1>5, <1>8, <1>9 DEF Answer, Approved
  <1>11. Evaluate(new).disposition = "proceed"  BY <1>8, <1>10, GateAnswers
  <1>12. new = Resumed(req, d, req.now + 1)  BY <1>4, <1>6, <1>7 DEF Again, Resumed
  <1> QED  BY <1>6, <1>11, <1>12

LEMMA ConsentNeverResumes ==
    ASSUME NEW req \in GateRequests, Answer(req) = "suspend_for_consent",
           NEW d \in HumanDecisions
    PROVE  Evaluate(Resumed(req, d, req.now + 1)).disposition = "refuse"
  <1>1. Unimpeded(req)  BY DEF Answer
  <1>2. PICK e \in Entry : e = req.entry
    BY <1>1, RequestsAreRequests DEF Unimpeded, IsRequest
  <1>3. req.now \in Nat /\ req.now + 1 \in Nat  BY RequestsAreRequests DEF IsRequest
  <1>4. e.treatment = "END_USER_APPROVAL"  BY <1>1, <1>2 DEF Answer
  <1>5. PICK w \in Nat \cup {NULL} : w = IF d.kind = "approval" THEN req.now + 1 ELSE NULL
    BY <1>3
  <1>6. PICK new : new = Again(req, d, w)  OBVIOUS
  <1>7. /\ IsRequest(new) /\ Unimpeded(new) /\ new.entry = e
        /\ new.decision = d /\ new.expires_at = w
    BY <1>1, <1>2, <1>6, Redecided
  <1>8. d # NULL  BY PeopleAssumption
  <1>9. ~Consented(new)  BY <1>5, <1>7 DEF Consented
  <1>10. Answer(new) = "refuse"  BY <1>4, <1>7, <1>8, <1>9 DEF Answer
  <1>11. Evaluate(new).disposition = "refuse"  BY <1>7, <1>10, GateAnswers
  <1>12. new = Resumed(req, d, req.now + 1)  BY <1>5, <1>6 DEF Again, Resumed
  <1> QED  BY <1>11, <1>12

(* A decision that let work proceed is of the kind the gate would have asked  *)
(* for.                                                                       *)
LEMMA DecisionWasAskedFor ==
    ASSUME NEW req \in GateRequests, Answer(req) = "proceed",
           req.entry.treatment # "AUTO"
    PROVE  SuspendsOn(Evaluate([req EXCEPT !.decision = NULL]).disposition) = req.decision.kind
  <1>1. Unimpeded(req)  BY DEF Answer
  <1>2. PICK e \in Entry : e = req.entry
    BY <1>1, RequestsAreRequests DEF Unimpeded, IsRequest
  <1>3. PICK new : new = [req EXCEPT !.decision = NULL]  OBVIOUS
  <1>4. /\ new.decision = NULL /\ new.entry = e /\ new.now = req.now
        /\ new.expires_at = req.expires_at /\ new.knowledge = req.knowledge
    BY <1>2, <1>3, GateAssumption
  <1>5. new.admitted = req.admitted /\ new.entitled = req.entitled
    BY <1>3, GateAssumption
  <1>6. IsRequest(new)
    BY <1>2, <1>4, <1>5, RequestsAreRequests DEF IsRequest
  <1>7. Unimpeded(new)  BY <1>1, <1>2, <1>4, <1>5 DEF Unimpeded
  <1>8. Evaluate(new).disposition = Answer(new)  BY <1>6, GateAnswers
  <1>9. CASE e.treatment = "END_USER_APPROVAL"
    <2>1. Consented(req)  BY <1>1, <1>2, <1>9 DEF Answer
    <2>2. Answer(new) = "suspend_for_consent"  BY <1>4, <1>7, <1>9 DEF Answer
    <2> QED  BY <1>3, <1>8, <2>1, <2>2 DEF Consented, SuspendsOn
  <1>10. CASE e.treatment = "STAFF_APPROVAL"
    <2>1. Approved(req) /\ e.roles # {}  BY <1>1, <1>2, <1>10 DEF Answer
    <2>2. Answer(new) = "suspend_for_approval"  BY <1>4, <1>7, <1>10, <2>1 DEF Answer
    <2> QED  BY <1>3, <1>8, <2>1, <2>2 DEF Approved, SuspendsOn
  <1>11. CASE e.treatment = "NOT_ALLOWED"
    BY <1>1, <1>2, <1>11 DEF Answer
  <1> QED  BY <1>2, <1>9, <1>10, <1>11 DEF Entry, Treatments

(* For every catalogue, request and body of people: work parked for staff has *)
(* an approval that lets it go on, because an entry that needs staff and      *)
(* accepts no role is refused and not parked (policy.assign_treatment); work  *)
(* parked for a consent has none, because a consent is read back without a    *)
(* window (ConsentRepository.decision_for); and a consent never resolves an   *)
(* approval, nor an approval a consent (gate.evaluate).                       *)
THEOREM GateSuspends == Spec => []ApprovalAloneResumes
  <1>1. ASSUME IInv, Taken("gate") PROVE ApprovalAloneResumes
    <2>1. PICK req \in GateRequests : req = decision.input /\ decision.output = Evaluate(req)
      BY <1>1 DEF IInv, DecisionIsMade, MadeByGate
    <2>2. PICK out : out = decision.output  OBVIOUS
    <2>3. /\ out.disposition = Answer(req) /\ out.disposition \in Dispositions
          /\ out.disposition # "refuse" => out.treatment = req.entry.treatment
      BY <2>1, <2>2, RequestsAreRequests, GateAnswers
    <2>4. SuspendsOn(out.disposition) = "approval" =>
            \E d \in HumanDecisions :
                /\ d.kind = "approval"
                /\ Evaluate(Resumed(req, d, req.now + 1)).disposition = "proceed"
      BY <2>3, SuspensionKinds, ApprovalCanResume
    <2>5. SuspendsOn(out.disposition) = "consent" =>
            \A d \in HumanDecisions :
                Evaluate(Resumed(req, d, req.now + 1)).disposition = "refuse"
      BY <2>3, SuspensionKinds, ConsentNeverResumes
    <2>6. out.disposition = "proceed" /\ out.treatment # "AUTO" =>
            SuspendsOn(Evaluate([req EXCEPT !.decision = NULL]).disposition) = req.decision.kind
      BY <2>3, DecisionWasAskedFor
    <2> QED  BY <2>1, <2>2, <2>4, <2>5, <2>6 DEF ApprovalAloneResumes
  <1>2. IInv => ApprovalAloneResumes  BY <1>1 DEF ApprovalAloneResumes
  <1> QED  BY <1>2, DecisionsInvariant, PTL

-----------------------------------------------------------------------------
(* The door. *)

(* The request without what the client claims besides the gateway's headers. *)
Bare(r) == [r EXCEPT !.headers = {}, !.query = {}]

LEMMA BareIsTheSame ==
    ASSUME NEW r \in HttpRequests
    PROVE  /\ Bare(r).headers = {} /\ Bare(r).query = {}
           /\ Bare(r).tid = r.tid /\ Bare(r).oid = r.oid /\ Bare(r).roles = r.roles
           /\ Bare(r).credential = r.credential /\ Bare(r).surface = r.surface
           /\ Bare(r).path = r.path
  BY DoorAssumption DEF Bare

(* What RagCore says of whom it admits, whoever asks. *)
Grant(r, t) ==
    [status |-> 200, tenant |-> t.id, principal |-> r.oid,
     roles |-> AuthorizableRoles(Audience(r.path), ParsedRoles(r.roles)),
     credential |-> CredentialClass(r.credential)]

LEMMA WhoIsAdmitted ==
    ASSUME NEW r, NEW g, Admit(r, g).status = 200
    PROVE  /\ ~SelfAsserted(r) /\ PrincipalRefusal(r) = NULL /\ g # NULL
           /\ r.tid \in DOMAIN g /\ g[r.tid].id = Admit(r, g).tenant
           /\ g[r.tid].status = "active"
           /\ Audience(r.path) = r.path /\ r.path \in {"customer", "staff", "workload"}
           /\ Admit(r, g).roles = AuthorizableRoles(r.path, ParsedRoles(r.roles))
           /\ Admit(r, g).credential = CredentialClass(r.credential)
  <1>1. ~SelfAsserted(r)  BY DEF Admit, Refusal
  <1>2. PrincipalRefusal(r) = NULL
    <2>1. PrincipalRefusal(r) \in {401, 404, NULL}  BY DEF PrincipalRefusal
    <2>2. PICK n : n = PrincipalRefusal(r)  OBVIOUS
    <2>3. n # NULL => Admit(r, g) = Refusal(n)  BY <1>1, <2>2 DEF Admit
    <2>4. Refusal(n).status = n  BY DEF Refusal
    <2> QED  BY <2>1, <2>2, <2>3, <2>4
  <1>3. g # NULL  BY <1>1, <1>2 DEF Admit, Refusal
  <1>4. PICK t : t = AdmitEndUser(g, r.tid)  OBVIOUS
  <1>5. IsAdmitted(t)  BY <1>1, <1>2, <1>3, <1>4 DEF Admit, Refusal
  <1>6. r.tid \in DOMAIN g /\ t = g[r.tid] /\ t.status = "active"
    BY <1>4, <1>5 DEF AdmitEndUser, IsAdmitted
  <1>7. Admit(r, g) = Grant(r, t)  BY <1>1, <1>2, <1>3, <1>4, <1>5 DEF Admit, Grant
  <1>8. PICK z : z = Grant(r, t)  OBVIOUS
  <1>9. /\ z.tenant = t.id /\ z.credential = CredentialClass(r.credential)
        /\ z.roles = AuthorizableRoles(Audience(r.path), ParsedRoles(r.roles))
    BY <1>8 DEF Grant
  <1>10. Audience(r.path) = r.path /\ r.path \in {"customer", "staff", "workload"}
    <2>1. 401 \in Nat /\ 404 \in Nat  OBVIOUS
    <2>2. NULL # 401 /\ NULL # 404  BY <2>1, GateNull
    <2>3. Audience(r.path) # NULL  BY <1>2, <2>2 DEF PrincipalRefusal
    <2> QED  BY <2>3 DEF Audience
  <1> QED  BY <1>1, <1>2, <1>3, <1>6, <1>7, <1>8, <1>9, <1>10

LEMMA DoorOfRagCore ==
    ASSUME NEW r \in HttpRequests, NEW g \in Registries
    PROVE  /\ Admit(r, g).status = 400 \/ Admit(r, g) = Admit(Bare(r), g)
           /\ \A name \in r.headers \cup r.query :
                  name.folded = "tenantid" => Admit(r, g).status = 400
           /\ Admit(r, g).status = 200 =>
                /\ g[r.tid].id = Admit(r, g).tenant /\ g[r.tid].status = "active"
                /\ Admit(r, g).roles \subseteq StaffRoles
                /\ r.path = "customer" => Admit(r, g).roles = {"end_user"}
                /\ r.path # "customer" => Admit(r, g).roles \subseteq r.roles
  <1>1. PICK c : c = Bare(r)  OBVIOUS
  <1>2. /\ c.headers = {} /\ c.query = {} /\ c.tid = r.tid /\ c.oid = r.oid
        /\ c.roles = r.roles /\ c.credential = r.credential /\ c.path = r.path
    BY <1>1, BareIsTheSame
  <1>3. CASE SelfAsserted(r)
    <2>1. Admit(r, g).status = 400  BY <1>3 DEF Admit, Refusal
    <2> QED  BY <2>1
  <1>4. CASE ~SelfAsserted(r)
    <2>1. ~SelfAsserted(c)  BY <1>2 DEF SelfAsserted
    <2>2. PrincipalRefusal(c) = PrincipalRefusal(r)  BY <1>2 DEF PrincipalRefusal
    <2>3. Admit(r, g) = Admit(c, g)
      BY <1>2, <1>4, <2>1, <2>2 DEF Admit
    <2>4. \A name \in r.headers \cup r.query : name.folded # "tenantid"
      BY <1>4, DoorAssumption DEF SelfAsserted, IsForbidden, FORBIDDEN_CLIENT_FIELDS
    <2>5. ASSUME Admit(r, g).status = 200
          PROVE  /\ g[r.tid].id = Admit(r, g).tenant /\ g[r.tid].status = "active"
                 /\ Admit(r, g).roles \subseteq StaffRoles
                 /\ r.path = "customer" => Admit(r, g).roles = {"end_user"}
                 /\ r.path # "customer" => Admit(r, g).roles \subseteq r.roles
      <3>1. /\ g[r.tid].id = Admit(r, g).tenant /\ g[r.tid].status = "active"
            /\ Admit(r, g).roles = AuthorizableRoles(r.path, ParsedRoles(r.roles))
        BY <2>5, WhoIsAdmitted
      <3> QED  BY <3>1 DEF AuthorizableRoles, ParsedRoles, StaffRoles
    <2> QED  BY <1>1, <2>3, <2>4, <2>5
  <1> QED  BY <1>3, <1>4

LEMMA DoorOfIntegrations ==
    ASSUME NEW r \in HttpRequests
    PROVE  /\ AdmitWorkload(r).status = 400 \/ AdmitWorkload(r) = AdmitWorkload(Bare(r))
           /\ AdmitWorkload(r).status = 200 =>
                 AdmitWorkload(r).tenant = NULL /\ CredentialClass(r.credential) = "app"
  <1>1. PICK c : c = Bare(r)  OBVIOUS
  <1>2. /\ c.query = {} /\ c.tid = r.tid /\ c.oid = r.oid
        /\ c.credential = r.credential /\ c.surface = r.surface
    BY <1>1, BareIsTheSame
  <1>3. CASE \E name \in r.query : IsForbidden(name)
    <2>1. AdmitWorkload(r).status = 400  BY <1>3 DEF AdmitWorkload, Refusal
    <2> QED  BY <2>1
  <1>4. CASE ~\E name \in r.query : IsForbidden(name)
    <2>1. AdmitWorkload(r) = AdmitWorkload(c)  BY <1>2, <1>4 DEF AdmitWorkload
    <2>2. ASSUME AdmitWorkload(r).status = 200
          PROVE  AdmitWorkload(r).tenant = NULL /\ r.credential = "app"
      <3>1. PICK f : f = Refusal(200)  OBVIOUS
      <3>2. PICK z : z = [f EXCEPT !.principal = r.oid, !.credential = "app"]  OBVIOUS
      <3>3. z.tenant = NULL  BY <3>1, <3>2 DEF Refusal
      <3>4. Refusal(401).status # 200 /\ Refusal(403).status # 200  BY DEF Refusal
      <3>5. r.credential = "app" /\ AdmitWorkload(r) = z
        BY <1>4, <2>2, <3>1, <3>2, <3>4 DEF AdmitWorkload
      <3> QED  BY <3>3, <3>5
    <2> QED  BY <1>1, <2>1, <2>2 DEF CredentialClass
  <1> QED  BY <1>3, <1>4

(* For every request and every registry: what the client claims besides the   *)
(* gateway's headers changes no answer but to a 400, and who is admitted is   *)
(* the active organisation of the tid, with no role made up (both identity    *)
(* middlewares, api.deps).                                                    *)
THEOREM DoorHolds == Spec => []DoorContract
  <1>1. ASSUME IInv, Taken("admission") PROVE DoorContract
    <2>1. PICK r \in HttpRequests, g \in Registries :
              decision = [kind |-> "admission", input |-> [request |-> r, registry |-> g],
                          output |-> [ragcore |-> Admit(r, g),
                                      integrations |-> AdmitWorkload(r)]]
      BY <1>1 DEF IInv, DecisionIsMade, MadeAtTheDoor
    <2>2. PICK rag, intg : rag = Admit(r, g) /\ intg = AdmitWorkload(r)  OBVIOUS
    <2>3. /\ decision.input.request = r /\ decision.input.registry = g
          /\ decision.output.ragcore = rag /\ decision.output.integrations = intg
      BY <2>1, <2>2
    <2>4. /\ rag.status = 400 \/ rag = Admit(Bare(r), g)
          /\ intg.status = 400 \/ intg = AdmitWorkload(Bare(r))
          /\ \A name \in r.headers \cup r.query : name.folded = "tenantid" => rag.status = 400
          /\ rag.status = 200 =>
               /\ g[r.tid].id = rag.tenant /\ g[r.tid].status = "active"
               /\ rag.roles \subseteq StaffRoles
               /\ r.path = "customer" => rag.roles = {"end_user"}
               /\ r.path # "customer" => rag.roles \subseteq r.roles
          /\ intg.status = 200 => intg.tenant = NULL /\ CredentialClass(r.credential) = "app"
      BY <2>2, DoorOfRagCore, DoorOfIntegrations
    <2> QED  BY <2>3, <2>4, Zenon DEF DoorContract, Bare
  <1>2. IInv => DoorContract  BY <1>1 DEF DoorContract
  <1> QED  BY <1>2, DecisionsInvariant, PTL

-----------------------------------------------------------------------------
(* The connectors. *)

(* ResilientCaller.send stops at the first answer that is not worth trying    *)
(* again, at the latest after MAX_ATTEMPTS.                                   *)
LEMMA SendingStops ==
    ASSUME NEW retriable \in BOOLEAN, NEW a \in Answers
    PROVE  \E n \in 1..MAX_ATTEMPTS :
              /\ Sent(retriable, a) = [attempts |-> n, status |-> a[n]]
              /\ \A i \in 1..(n - 1) : a[i] \in TRANSIENT_STATUSES \cup {NULL}
              /\ ~retriable => n = 1
  <1> DEFINE Last(n) == /\ ~TriesAgain(retriable, a[n], n)
                        /\ \A i \in 1..(n - 1) : TriesAgain(retriable, a[i], i)
  <1>1. \E n \in 1..AttemptsFor(retriable) : Last(n)
    <2>1. CASE ~retriable  BY <2>1 DEF AttemptsFor, TriesAgain
    <2>2. CASE retriable
      <3>1. AttemptsFor(retriable) = 3  BY <2>2 DEF AttemptsFor, MAX_ATTEMPTS
      <3>2. ~TriesAgain(retriable, a[3], 3)  BY <3>1 DEF TriesAgain
      <3>3. CASE ~TriesAgain(retriable, a[1], 1)  BY <3>1, <3>3
      <3>4. CASE TriesAgain(retriable, a[1], 1) /\ ~TriesAgain(retriable, a[2], 2)
        <4>1. \A i \in 1..(2 - 1) : i = 1  OBVIOUS
        <4>2. Last(2)  BY <3>4, <4>1
        <4> QED  BY <3>1, <4>2
      <3>5. CASE TriesAgain(retriable, a[1], 1) /\ TriesAgain(retriable, a[2], 2)
        <4>1. \A i \in 1..(3 - 1) : i = 1 \/ i = 2  OBVIOUS
        <4>2. Last(3)  BY <3>2, <3>5, <4>1
        <4> QED  BY <3>1, <4>2
      <3> QED  BY <3>3, <3>4, <3>5
    <2> QED  BY <2>1, <2>2
  <1>2. PICK m : m = CHOOSE n \in 1..AttemptsFor(retriable) : Last(n)  OBVIOUS
  <1>3. m \in 1..AttemptsFor(retriable) /\ Last(m)  BY <1>1, <1>2
  <1>4. Sent(retriable, a) = [attempts |-> m, status |-> a[m]]  BY <1>2 DEF Sent
  <1>5. m \in 1..MAX_ATTEMPTS /\ (~retriable => m = 1)
    BY <1>3 DEF AttemptsFor, MAX_ATTEMPTS
  <1>6. \A i \in 1..(m - 1) : a[i] \in TRANSIENT_STATUSES \cup {NULL}
    BY <1>3 DEF TriesAgain
  <1> QED  BY <1>4, <1>5, <1>6

(* What a connector may tell of n attempts that met a. *)
ToldOf(out, a, n) ==
    /\ n \in 1..MAX_ATTEMPTS /\ out.attempts = n
    /\ \A i \in 1..(n - 1) : a[i] \in TRANSIENT_STATUSES \cup {NULL}
    /\ out.payload # {} => a[n] # NULL /\ Succeeded(a[n])
    /\ out.outcome = "unknown" => a[n] = 404
    /\ a[n] = NULL => out.outcome = "raised"

LEMMA ToolIsTold ==
    ASSUME NEW a \in Answers, NEW b \in CaseBodies, NEW n \in Sizes
    PROVE  /\ ToldOf(InvokeTool(a, n, b), a, 1)
           /\ InvokeTool(a, n, b).payload # {} =>
                 /\ n <= MAX_PAYLOAD_BYTES
                 /\ InvokeTool(a, n, b).payload \cap FORBIDDEN_KEYS = {}
  <1>1. 1 \in 1..MAX_ATTEMPTS  BY DEF MAX_ATTEMPTS
  <1>2. PICK sent : sent = Sent(FALSE, a)  OBVIOUS
  <1>3. sent.attempts = 1 /\ sent.status = a[1]
    <2>1. PICK m \in 1..MAX_ATTEMPTS :
              sent = [attempts |-> m, status |-> a[m]] /\ m = 1
      BY <1>2, SendingStops, Zenon
    <2> QED  BY <2>1
  <1>4. PICK z : z = NormalizeToolResult(n, b)  OBVIOUS
  <1>5. /\ z.accepted \in BOOLEAN
        /\ z.accepted => n <= MAX_PAYLOAD_BYTES /\ z.payload \cap FORBIDDEN_KEYS = {}
    BY <1>4, BoundaryAssumption DEF NormalizeToolResult, Rejected, MAX_PAYLOAD_BYTES
  <1>6. PICK out : out = InvokeTool(a, n, b)  OBVIOUS
  <1>7. /\ out.attempts = 1
        /\ \/ a[1] = NULL /\ out.outcome = "raised" /\ out.payload = {}
           \/ a[1] # NULL /\ out.outcome \in {"raised", "failed"} /\ out.payload = {}
           \/ /\ a[1] # NULL /\ Succeeded(a[1]) /\ z.accepted
              /\ out.outcome = "succeeded" /\ out.payload = z.payload
    BY <1>2, <1>3, <1>4, <1>6 DEF InvokeTool, Told
  <1> QED  BY <1>1, <1>5, <1>6, <1>7 DEF ToldOf

LEMMA DiscoveryIsTold ==
    ASSUME NEW a \in Answers, NEW t \in Tools
    PROVE  \E n \in 1..MAX_ATTEMPTS : ToldOf(Discover(a, t), a, n)
  <1>0. PICK sent : sent = Sent(TRUE, a)  OBVIOUS
  <1>1. PICK n \in 1..MAX_ATTEMPTS :
            /\ sent = [attempts |-> n, status |-> a[n]]
            /\ \A i \in 1..(n - 1) : a[i] \in TRANSIENT_STATUSES \cup {NULL}
    BY <1>0, SendingStops
  <1>2. sent.attempts = n /\ sent.status = a[n]  BY <1>1
  <1>3. PICK out : out = Discover(a, t)  OBVIOUS
  <1>4. /\ out.attempts = n
        /\ \/ a[n] = NULL /\ out.outcome = "raised" /\ out.payload = {}
           \/ a[n] # NULL /\ out.outcome = "succeeded"
              /\ (out.payload = {} \/ Succeeded(a[n]))
    BY <1>0, <1>2, <1>3 DEF Discover, Told
  <1>5. ToldOf(out, a, n)  BY <1>1, <1>4 DEF ToldOf
  <1> QED  BY <1>3, <1>5

LEMMA ProfileIsTold ==
    ASSUME NEW a \in Answers, NEW x \in DirectoryTexts, NEW y \in DirectoryTexts, NEW n \in Sizes
    PROVE  /\ \E m \in 1..MAX_ATTEMPTS : ToldOf(LookupPrincipal(a, n, x, y), a, m)
           /\ LookupPrincipal(a, n, x, y).payload # {} =>
                 /\ n <= MAX_PAYLOAD_BYTES
                 /\ LookupPrincipal(a, n, x, y).payload \cap FORBIDDEN_KEYS = {}
                 /\ x.length \in 1..256
                 /\ IsText(y) => y.length <= 320
  <1>0. PICK sent : sent = Sent(TRUE, a)  OBVIOUS
  <1>1. PICK m \in 1..MAX_ATTEMPTS :
            /\ sent = [attempts |-> m, status |-> a[m]]
            /\ \A i \in 1..(m - 1) : a[i] \in TRANSIENT_STATUSES \cup {NULL}
    BY <1>0, SendingStops
  <1>2. sent.attempts = m /\ sent.status = a[m]  BY <1>1
  <1>3. PICK z : z = NormalizeDirectoryProfile(n, x, y)  OBVIOUS
  <1>4. /\ z.accepted \in BOOLEAN
        /\ z.accepted => /\ n <= MAX_PAYLOAD_BYTES
                         /\ z.payload = {"display_name", "mail"}
                         /\ IsText(x) /\ x.length > 0 /\ ~(x.length > 256)
                         /\ ~(IsText(y) /\ y.length > 320)
    <2>1. PICK name, address : /\ name = BoundedText(x, DISPLAY_NAME_LIMIT)
                               /\ address = BoundedText(y, MAIL_LIMIT)
      OBVIOUS
    <2>2. /\ name.present <=> IsText(x) /\ x.length > 0
          /\ name.refused <=> IsText(x) /\ x.length > 256
          /\ address.refused <=> IsText(y) /\ y.length > 320
      BY <2>1, Zenon DEF BoundedText, DISPLAY_NAME_LIMIT, MAIL_LIMIT
    <2>3. CASE n > MAX_PAYLOAD_BYTES \/ ~name.present \/ name.refused \/ address.refused
      <3>1. z = Rejected  BY <1>3, <2>1, <2>3 DEF NormalizeDirectoryProfile
      <3> QED  BY <3>1 DEF Rejected
    <2>4. CASE ~(n > MAX_PAYLOAD_BYTES \/ ~name.present \/ name.refused \/ address.refused)
      <3>1. z = [accepted |-> TRUE, payload |-> {"display_name", "mail"}, reference |-> NULL]
        BY <1>3, <2>1, <2>4 DEF NormalizeDirectoryProfile
      <3>2. n <= MAX_PAYLOAD_BYTES  BY <2>4, BoundaryAssumption DEF MAX_PAYLOAD_BYTES
      <3> QED  BY <2>2, <2>4, <3>1, <3>2
    <2> QED  BY <2>3, <2>4
  <1>5. (IsText(x) => x.length \in Nat) /\ (IsText(y) => y.length \in Nat)
    BY BoundaryAssumption DEF IsText
  <1>6. PICK out : out = LookupPrincipal(a, n, x, y)  OBVIOUS
  <1>7. /\ out.attempts = m
        /\ \/ a[m] = NULL /\ out.outcome = "raised" /\ out.payload = {}
           \/ a[m] = 404 /\ out.outcome \in {"raised", "unknown"} /\ out.payload = {}
           \/ a[m] # NULL /\ out.outcome = "raised" /\ out.payload = {}
           \/ /\ a[m] # NULL /\ Succeeded(a[m]) /\ z.accepted
              /\ out.outcome = "succeeded" /\ out.payload = z.payload
    <2>1. out = IF a[m] = NULL THEN Told("raised", sent, {})
                ELSE IF a[m] = 404 THEN Told("unknown", sent, {})
                ELSE IF ~Succeeded(a[m]) \/ ~z.accepted THEN Told("raised", sent, {})
                ELSE Told("succeeded", sent, z.payload)
      BY <1>0, <1>2, <1>3, <1>6 DEF LookupPrincipal
    <2>2. \A o, q : /\ Told(o, sent, q).attempts = m /\ Told(o, sent, q).outcome = o
                    /\ Told(o, sent, q).payload = q
      BY <1>2 DEF Told
    <2> QED  BY <2>1, <2>2
  <1>8. ToldOf(out, a, m)
    BY <1>1, <1>7, GateNull DEF ToldOf
  <1>9. {"display_name", "mail"} \cap FORBIDDEN_KEYS = {}  BY DEF FORBIDDEN_KEYS
  <1> QED  BY <1>4, <1>5, <1>6, <1>7, <1>8, <1>9

(* For every sequence of answers the far side may give: a write is sent once, *)
(* a read again only while the far side is in trouble and never more than     *)
(* MAX_ATTEMPTS times, and what is taken in comes from a successful answer    *)
(* and is within its bounds (ResilientCaller.send, McpClient,                 *)
(* MicrosoftGraphAdapter.lookup_principal, normalization.py).                 *)
THEOREM ConnectorsHold == Spec => []ConnectorContract
  <1>1. ASSUME IInv, Taken("tool") PROVE ConnectorContract
    <2>1. PICK a \in Answers, b \in CaseBodies, n \in Sizes :
              decision = [kind |-> "tool", input |-> [answers |-> a, body |-> b, size |-> n],
                          output |-> InvokeTool(a, n, b)]
      BY <1>1 DEF IInv, DecisionIsMade, MadeOfTool
    <2>2. PICK out : out = InvokeTool(a, n, b)  OBVIOUS
    <2>3. /\ decision.kind = "tool" /\ decision.output = out
          /\ decision.input.answers = a /\ decision.input.size = n
      BY <2>1, <2>2
    <2>4. /\ ToldOf(out, a, 1)
          /\ out.payload # {} => n <= MAX_PAYLOAD_BYTES /\ out.payload \cap FORBIDDEN_KEYS = {}
      BY <2>2, ToolIsTold
    <2> QED  BY <2>3, <2>4 DEF ConnectorContract, Taken, ToldOf, MAX_ATTEMPTS
  <1>2. ASSUME IInv, Taken("discovery") PROVE ConnectorContract
    <2>1. PICK a \in Answers, t \in Tools :
              decision = [kind |-> "discovery", input |-> [answers |-> a, tools |-> t],
                          output |-> Discover(a, t)]
      BY <1>2 DEF IInv, DecisionIsMade, MadeOfDiscovery
    <2>2. PICK out : out = Discover(a, t)  OBVIOUS
    <2>3. /\ decision.kind = "discovery" /\ decision.output = out
          /\ decision.input.answers = a
      BY <2>1, <2>2
    <2>4. PICK m \in 1..MAX_ATTEMPTS : ToldOf(out, a, m)  BY <2>2, DiscoveryIsTold
    <2> QED  BY <2>3, <2>4 DEF ConnectorContract, Taken, ToldOf, MAX_ATTEMPTS
  <1>3. ASSUME IInv, Taken("profile") PROVE ConnectorContract
    <2>1. PICK a \in Answers, x \in DirectoryTexts, y \in DirectoryTexts, n \in Sizes :
              decision = [kind |-> "profile",
                          input |-> [answers |-> a, name |-> x, mail |-> y, size |-> n],
                          output |-> LookupPrincipal(a, n, x, y)]
      BY <1>3 DEF IInv, DecisionIsMade, MadeOfProfile
    <2>2. PICK out : out = LookupPrincipal(a, n, x, y)  OBVIOUS
    <2>3. /\ decision.kind = "profile" /\ decision.output = out
          /\ decision.input.answers = a /\ decision.input.size = n
          /\ decision.input.name = x /\ decision.input.mail = y
      BY <2>1, <2>2
    <2>4. PICK m \in 1..MAX_ATTEMPTS : ToldOf(out, a, m)  BY <2>2, ProfileIsTold
    <2>5. out.payload # {} => /\ n <= MAX_PAYLOAD_BYTES
                              /\ out.payload \cap FORBIDDEN_KEYS = {}
                              /\ x.length \in 1..256
                              /\ IsText(y) => y.length <= 320
      BY <2>2, ProfileIsTold
    <2> QED  BY <2>3, <2>4, <2>5 DEF ConnectorContract, Taken, ToldOf, MAX_ATTEMPTS
  <1>4. IInv => ConnectorContract  BY <1>1, <1>2, <1>3 DEF ConnectorContract
  <1> QED  BY <1>4, DecisionsInvariant, PTL

-----------------------------------------------------------------------------
(* The embedding path. *)

(* A record has usable text at f. *)
Usable(r, f) == f \in DOMAIN r /\ IsText(r[f]) /\ r[f].length > 0

LEMMA EmbedsTheFirst ==
    ASSUME NEW r
    PROVE  EmbeddableText(r) =
             IF Usable(r, "symptom")
             THEN [field |-> "symptom", length |-> Truncated(r["symptom"].length)]
             ELSE IF Usable(r, "description")
             THEN [field |-> "description", length |-> Truncated(r["description"].length)]
             ELSE NULL
  <1> DEFINE usable == {i \in DOMAIN EMBEDDED_FIELDS : Usable(r, EMBEDDED_FIELDS[i])}
  <1>1. /\ DOMAIN EMBEDDED_FIELDS = {1, 2} /\ EMBEDDED_FIELDS[1] = "symptom"
        /\ EMBEDDED_FIELDS[2] = "description"
    BY DEF EMBEDDED_FIELDS
  <1>2. PICK first : first = CHOOSE i \in usable : \A j \in usable : i <= j  OBVIOUS
  <1>3. EmbeddableText(r) =
          IF usable = {} THEN NULL
          ELSE [field |-> EMBEDDED_FIELDS[first],
                length |-> Truncated(r[EMBEDDED_FIELDS[first]].length)]
    BY <1>2 DEF EmbeddableText, Usable
  <1>4. CASE Usable(r, "symptom")
    <2>1. 1 \in usable /\ \A j \in usable : 1 <= j  BY <1>1, <1>4
    <2>2. \A i \in usable : (\A j \in usable : i <= j) => i = 1  BY <1>1, <2>1
    <2>3. first = 1  BY <1>2, <2>1, <2>2
    <2> QED  BY <1>1, <1>3, <1>4, <2>1, <2>3
  <1>5. CASE ~Usable(r, "symptom") /\ Usable(r, "description")
    <2>1. usable = {2}  BY <1>1, <1>5
    <2>2. first = 2  BY <1>2, <2>1
    <2> QED  BY <1>1, <1>3, <1>5, <2>1, <2>2
  <1>6. CASE ~Usable(r, "symptom") /\ ~Usable(r, "description")
    <2>1. usable = {}  BY <1>1, <1>6
    <2> QED  BY <1>3, <1>6, <2>1
  <1> QED  BY <1>4, <1>5, <1>6

(* Every record is embedded by its symptom if it has one, whatever else it    *)
(* holds, by its description otherwise, and never by more than the bound      *)
(* (embedding.embeddable_text).                                               *)
THEOREM EmbeddingHolds == Spec => []EmbeddingContract
  <1>1. ASSUME IInv, Taken("embedding") PROVE EmbeddingContract
    <2>1. PICK r \in RecordsToEmbed :
              decision = [kind |-> "embedding", input |-> r, output |-> EmbeddableText(r)]
      BY <1>1 DEF IInv, DecisionIsMade, MadeOfEmbedding
    <2>2. PICK out : out = EmbeddableText(r)  OBVIOUS
    <2>3. decision.input = r /\ decision.output = out  BY <2>1, <2>2
    <2>4. \A f \in DOMAIN r : IsText(r[f]) => r[f].length \in Nat
      BY BoundaryAssumption DEF IsText
    <2>5. \A f \in {"symptom", "description"} : Usable(r, f) =>
             /\ Truncated(r[f].length) \in 1..MAX_EMBEDDED_CHARACTERS
             /\ Truncated(r[f].length) <= r[f].length
             /\ [field |-> f, length |-> Truncated(r[f].length)] # NULL
      <3> SUFFICES ASSUME NEW f \in {"symptom", "description"}, Usable(r, f)
                   PROVE  /\ Truncated(r[f].length) \in 1..MAX_EMBEDDED_CHARACTERS
                          /\ Truncated(r[f].length) <= r[f].length
                          /\ [field |-> f, length |-> Truncated(r[f].length)] # NULL
        OBVIOUS
      <3>1. PICK n \in Nat : n = r[f].length /\ n > 0  BY <2>4 DEF Usable
      <3>2. Truncated(n) \in 1..MAX_EMBEDDED_CHARACTERS /\ Truncated(n) <= n
        <4>1. CASE n > 8000
          <5>1. Truncated(n) = 8000  BY <4>1 DEF Truncated, MAX_EMBEDDED_CHARACTERS
          <5> QED  BY <4>1, <5>1 DEF MAX_EMBEDDED_CHARACTERS
        <4>2. CASE ~(n > 8000)
          <5>1. Truncated(n) = n  BY <4>2 DEF Truncated, MAX_EMBEDDED_CHARACTERS
          <5>2. n > 0  BY <3>1
          <5>3. n \in 1..8000 /\ n <= n  BY <4>2, <5>2
          <5> QED  BY <5>1, <5>3 DEF MAX_EMBEDDED_CHARACTERS
        <4> QED  BY <4>1, <4>2
      <3>3. PICK l \in Nat : l = Truncated(n)  BY <3>1, <3>2
      <3>4. [field |-> f, length |-> l] # NULL  BY BoundaryAssumption
      <3> QED  BY <3>1, <3>2, <3>3, <3>4
    <2>6. (out = NULL) <=> ~Usable(r, "symptom") /\ ~Usable(r, "description")
      BY <2>2, <2>5, EmbedsTheFirst
    <2>7. (out = NULL) <=> \A f \in {"symptom", "description"} \cap DOMAIN r :
                               IsText(r[f]) => r[f].length = 0
      BY <2>4, <2>6 DEF Usable
    <2>8. out # NULL => \/ Usable(r, "symptom") /\ out.field = "symptom"
                           /\ out.length = Truncated(r["symptom"].length)
                        \/ Usable(r, "description") /\ out.field = "description"
                           /\ out.length = Truncated(r["description"].length)
      BY <2>2, <2>6, EmbedsTheFirst
    <2>9. out # NULL => /\ out.length \in 1..MAX_EMBEDDED_CHARACTERS
                        /\ out.length <= r[out.field].length
      BY <2>5, <2>8
    <2>10. ASSUME out # NULL, out.field = "symptom", NEW v
           PROVE  EmbeddableText([f \in DOMAIN r \cup {"description"} |->
                                     IF f = "description" THEN v ELSE r[f]]) = out
      <3>1. Usable(r, "symptom")
            /\ out = [field |-> "symptom", length |-> Truncated(r["symptom"].length)]
        BY <2>2, <2>8, <2>10, EmbedsTheFirst
      <3>2. PICK q : q = [f \in DOMAIN r \cup {"description"} |->
                              IF f = "description" THEN v ELSE r[f]]
        OBVIOUS
      <3>3. "symptom" \in DOMAIN q /\ q["symptom"] = r["symptom"]  BY <3>1, <3>2 DEF Usable
      <3>4. Usable(q, "symptom")  BY <3>1, <3>3 DEF Usable
      <3>5. EmbeddableText(q) = out  BY <3>1, <3>3, <3>4, EmbedsTheFirst
      <3> QED  BY <3>2, <3>5
    <2> QED  BY <2>3, <2>7, <2>9, <2>10, Zenon DEF EmbeddingContract
  <1>2. IInv => EmbeddingContract  BY <1>1 DEF EmbeddingContract
  <1> QED  BY <1>2, DecisionsInvariant, PTL

-----------------------------------------------------------------------------
(* The seam. *)

CommandOf(c, k) == [jobId |-> "uuid", correlationId |-> c, kind |-> k]

TriggerOf(c, k) == [workItemId |-> "uuid", correlationId |-> c, kind |-> k]

Acts(does, id, c) == [does |-> does, id |-> id, correlation_id |-> c]

LEMMA ActsIsNotDeadLetter ==
    ASSUME NEW does \in {"resume", "run", "conclude"}, NEW id, NEW c
    PROVE  Acts(does, id, c) # DeadLetter
  <1>1. Acts(does, id, c).does = does /\ DeadLetter.does = "dead_letter"
    BY DEF Acts, DeadLetter
  <1> QED  BY <1>1

(* What the three consumers make of a message of the seam, or of its answer. *)
LEMMA VerdictsOnCommand ==
    ASSUME NEW c, NEW k \in MessageKinds
    PROVE  /\ VerdictAt("triggers", CommandOf(c, k)) = DeadLetter
           /\ k = "integration.execute" =>
                 /\ VerdictAt("results", CommandOf(c, k)) = DeadLetter
                 /\ c \in WellFormedCorrelation =>
                       VerdictAt("commands", CommandOf(c, k)) = Acts("run", "jobId", c)
           /\ k \in HANDLED_RESULTS =>
                 /\ VerdictAt("commands", CommandOf(c, k)) = DeadLetter
                 /\ VerdictAt("results", CommandOf(c, k)) = Acts("conclude", "jobId", c)
  <1>1. PICK b : b = CommandOf(c, k)  OBVIOUS
  <1>2. /\ DOMAIN b = {"jobId", "correlationId", "kind"}
        /\ b["jobId"] = "uuid" /\ b["correlationId"] = c /\ b["kind"] = k
    BY <1>1 DEF CommandOf
  <1>3. VerdictAt("triggers", b) = DeadLetter
    BY <1>2 DEF VerdictAt, ResumeVerdict, ParseMessage
  <1>4. VerdictAt("results", b) = ResultVerdict(b) /\ VerdictAt("commands", b) = CommandVerdict(b)
    BY DEF VerdictAt
  <1>5. ParseResultMessage(b) <=> k \in HANDLED_RESULTS  BY <1>2 DEF ParseResultMessage
  <1>6. k \in HANDLED_RESULTS => ResultVerdict(b) = Acts("conclude", "jobId", c)
    BY <1>2, <1>5 DEF ResultVerdict, Acts
  <1>7. k = "integration.execute" => ResultVerdict(b) = DeadLetter
    BY <1>5 DEF ResultVerdict, HANDLED_RESULTS
  <1>8. c \notin WellFormedCorrelation => CommandVerdict(b) = DeadLetter
    BY <1>2 DEF CommandVerdict, FromJson, PERMITTED_FIELDS
  <1>9. ASSUME c \in WellFormedCorrelation
        PROVE  CommandVerdict(b) = IF k = "integration.execute" THEN Acts("run", "jobId", c)
                                   ELSE DeadLetter
    <2>1. PICK e : e = [job_id |-> "uuid", correlation_id |-> c, kind |-> k]  OBVIOUS
    <2>2. e # NULL  BY <1>9, <2>1, MessageAssumption
    <2>3. FromJson(b) = e  BY <1>2, <1>9, <2>1 DEF FromJson, PERMITTED_FIELDS
    <2>4. e.kind = k /\ e.correlation_id = c  BY <2>1
    <2> QED  BY <2>2, <2>3, <2>4 DEF CommandVerdict, Acts
  <1>10. k \in HANDLED_RESULTS => k # "integration.execute"  BY DEF HANDLED_RESULTS
  <1> QED  BY <1>1, <1>3, <1>4, <1>6, <1>7, <1>8, <1>9, <1>10

(* And of a trigger. *)
LEMMA VerdictsOnTrigger ==
    ASSUME NEW c, NEW k \in TriggerKinds
    PROVE  /\ VerdictAt("commands", TriggerOf(c, k)) = DeadLetter
           /\ VerdictAt("results", TriggerOf(c, k)) = DeadLetter
           /\ VerdictAt("triggers", TriggerOf(c, k)) =
                 IF k = "sample.flow" THEN Acts("resume", "workItemId", c) ELSE DeadLetter
  <1>1. PICK b : b = TriggerOf(c, k)  OBVIOUS
  <1>2. /\ DOMAIN b = {"workItemId", "correlationId", "kind"}
        /\ b["workItemId"] = "uuid" /\ b["correlationId"] = c /\ b["kind"] = k
    BY <1>1 DEF TriggerOf
  <1>3. VerdictAt("commands", b) = DeadLetter
    BY <1>2 DEF VerdictAt, CommandVerdict, FromJson, PERMITTED_FIELDS
  <1>4. VerdictAt("results", b) = DeadLetter
    BY <1>2 DEF VerdictAt, ResultVerdict, ParseResultMessage
  <1>5. ParseMessage(b)  BY <1>2 DEF ParseMessage
  <1>6. VerdictAt("triggers", b) =
          IF k = "sample.flow" THEN Acts("resume", "workItemId", c) ELSE DeadLetter
    BY <1>2, <1>5 DEF VerdictAt, ResumeVerdict, HANDLED_TRIGGERS, Acts
  <1> QED  BY <1>1, <1>3, <1>4, <1>6

(* The message a good row becomes. *)
LEMMA TriggerIsPublished ==
    ASSUME NEW row, NEW k \in TriggerKinds, NEW c \in AnyCorrelation, row.kind = k,
           "workItemId" \in DOMAIN row.payload, row.payload["workItemId"] = "uuid",
           "correlationId" \in DOMAIN row.payload, row.payload["correlationId"] = c
    PROVE  /\ Published(row) = [queue |-> "triggers", body |-> TriggerOf(c, k), subject |-> k,
                                correlation_id |-> c]
           /\ Published(row) # NULL
  <1>1. k \notin MessageKinds  BY DEF TriggerKinds, MessageKinds
  <1>2. PICK e : e = [subject |-> "workItemId", id |-> "uuid", correlation_id |-> c, kind |-> k]
    OBVIOUS
  <1>3. EnvelopeFromRow(row) = e  BY <1>1, <1>2 DEF EnvelopeFromRow
  <1>4. e # NULL  BY <1>2, MessageAssumption
  <1>5. /\ e.subject = "workItemId" /\ e.id = "uuid" /\ e.correlation_id = c /\ e.kind = k
    BY <1>2
  <1>6. QueueFor(e) = "triggers" /\ QueueFor(e) # NULL
    BY <1>5, MessageAssumption DEF QueueFor
  <1>7. MessageBody(e) = TriggerOf(c, k)
    BY <1>5 DEF MessageBody, TriggerBody, TriggerOf
  <1>8. PICK m : m = [queue |-> "triggers", body |-> TriggerOf(c, k), subject |-> k,
                      correlation_id |-> c]
    OBVIOUS
  <1>9. Published(row) = m  BY <1>3, <1>4, <1>5, <1>6, <1>7, <1>8 DEF Published
  <1>10. m # NULL
    <2>1. TriggerOf(c, k) \in [workItemId : {"uuid"}, correlationId : AnyCorrelation,
                               kind : TriggerKinds]
      BY DEF TriggerOf
    <2> QED  BY <1>8, <2>1, MessageAssumption
  <1> QED  BY <1>8, <1>9, <1>10

LEMMA CommandIsPublished ==
    ASSUME NEW row, NEW c \in AnyCorrelation, row.kind = "integration.execute",
           "jobId" \in DOMAIN row.payload, row.payload["jobId"] = "uuid",
           "correlationId" \in DOMAIN row.payload, row.payload["correlationId"] = c
    PROVE  /\ Published(row) = [queue |-> "commands",
                                body |-> CommandOf(c, "integration.execute"),
                                subject |-> "integration.execute", correlation_id |-> c]
           /\ Published(row) # NULL
  <1> DEFINE k == "integration.execute"
  <1>1. k \in MessageKinds  BY DEF MessageKinds
  <1>2. PICK e : e = [subject |-> "jobId", id |-> "uuid", correlation_id |-> c, kind |-> k]
    OBVIOUS
  <1>3. EnvelopeFromRow(row) = e  BY <1>1, <1>2 DEF EnvelopeFromRow
  <1>4. e # NULL  BY <1>1, <1>2, MessageAssumption
  <1>5. /\ e.subject = "jobId" /\ e.id = "uuid" /\ e.correlation_id = c /\ e.kind = k
    BY <1>2
  <1>6. QueueFor(e) = "commands" /\ QueueFor(e) # NULL
    BY <1>5, MessageAssumption DEF QueueFor
  <1>7. MessageBody(e) = CommandOf(c, k)
    BY <1>5 DEF MessageBody, IntegrationCommandBody, CommandOf
  <1>8. PICK m : m = [queue |-> "commands", body |-> CommandOf(c, k), subject |-> k,
                      correlation_id |-> c]
    OBVIOUS
  <1>9. Published(row) = m  BY <1>3, <1>4, <1>5, <1>6, <1>7, <1>8 DEF Published
  <1>10. m # NULL
    <2>1. CommandOf(c, k) \in [jobId : {"uuid"}, correlationId : AnyCorrelation,
                               kind : MessageKinds]
      BY <1>1 DEF CommandOf
    <2> QED  BY <1>1, <1>8, <2>1, MessageAssumption
  <1> QED  BY <1>8, <1>9, <1>10

(* And what becomes of the others. *)
LEMMA OthersAreNotPublished ==
    ASSUME NEW row, Published(row) # NULL
    PROVE  LET subject == IF row.kind \in MessageKinds THEN "jobId" ELSE "workItemId"
           IN  /\ row.kind \in TriggerKinds \cup {"integration.execute"}
               /\ subject \in DOMAIN row.payload /\ row.payload[subject] = "uuid"
               /\ "correlationId" \in DOMAIN row.payload
  <1> DEFINE subject == IF row.kind \in MessageKinds THEN "jobId" ELSE "workItemId"
  <1>1. EnvelopeFromRow(row) # NULL  BY DEF Published
  <1>2. /\ row.kind \in MessageKinds \cup TriggerKinds
        /\ subject \in DOMAIN row.payload /\ row.payload[subject] = "uuid"
        /\ "correlationId" \in DOMAIN row.payload
    BY <1>1 DEF EnvelopeFromRow
  <1>3. ASSUME row.kind \in MessageKinds PROVE row.kind = "integration.execute"
    <2>1. PICK e : e = EnvelopeFromRow(row)  OBVIOUS
    <2>2. e.subject = "jobId" /\ e.kind = row.kind
      BY <1>2, <1>3, <2>1 DEF EnvelopeFromRow
    <2>3. QueueFor(e) # NULL  BY <1>1, <2>1 DEF Published
    <2> QED  BY <2>2, <2>3 DEF QueueFor
  <1> QED  BY <1>2, <1>3

LEMMA PublicationHolds ==
    ASSUME IInv, Taken("publication")
    PROVE  SeamContract
  <1>1. PICK row \in OutboxRows :
            decision = [kind |-> "publication", input |-> row, output |-> Published(row)]
    BY DEF IInv, DecisionIsMade, MadeOfRow
  <1>2. PICK message : message = Published(row)  OBVIOUS
  <1>3. decision.kind = "publication" /\ decision.input = row /\ decision.output = message
    BY <1>1, <1>2
  <1> DEFINE subject == IF row.kind \in MessageKinds THEN "jobId" ELSE "workItemId"
             Good == /\ row.kind \in TriggerKinds \cup {"integration.execute"}
                     /\ subject \in DOMAIN row.payload /\ row.payload[subject] = "uuid"
                     /\ "correlationId" \in DOMAIN row.payload
  <1>4. message # NULL => Good  BY <1>2, OthersAreNotPublished
  <1>5. CASE ~Good
    BY <1>3, <1>4, <1>5 DEF SeamContract, Taken
  <1>6. CASE Good
    <2>1. PICK c \in AnyCorrelation : c = row.payload["correlationId"]
      BY <1>6, MessageAssumption DEF AnyCorrelation
    <2>2. CASE row.kind = "integration.execute"
      <3>1. subject = "jobId"  BY <2>2 DEF MessageKinds
      <3>2. PICK b : b = CommandOf(c, "integration.execute")  OBVIOUS
      <3>3. /\ message = [queue |-> "commands", body |-> b, subject |-> "integration.execute",
                          correlation_id |-> c]
            /\ message # NULL
        BY <1>2, <1>6, <2>1, <2>2, <3>1, <3>2, CommandIsPublished
      <3>4. message.queue = "commands" /\ message.body = b  BY <3>3
      <3>5. "integration.execute" \in MessageKinds  BY DEF MessageKinds
      <3>6. /\ VerdictAt("triggers", b) = DeadLetter /\ VerdictAt("results", b) = DeadLetter
            /\ c \in WellFormedCorrelation => VerdictAt("commands", b) = Acts("run", "jobId", c)
        BY <3>2, <3>5, VerdictsOnCommand
      <3>7. c \in WellFormedCorrelation => /\ VerdictAt("commands", b).id = "jobId"
                                           /\ VerdictAt("commands", b).correlation_id = c
        BY <3>6 DEF Acts
      <3> QED  BY <1>3, <2>1, <2>2, <3>1, <3>3, <3>4, <3>6, <3>7 DEF SeamContract, Taken
    <2>3. CASE row.kind \in TriggerKinds
      <3>1. subject = "workItemId" /\ row.kind \notin MessageKinds
            /\ row.kind # "integration.execute"
        BY <2>3 DEF MessageKinds, TriggerKinds
      <3>2. PICK k \in TriggerKinds : k = row.kind  BY <2>3
      <3>3. PICK b : b = TriggerOf(c, k)  OBVIOUS
      <3>4. /\ message = [queue |-> "triggers", body |-> b, subject |-> k, correlation_id |-> c]
            /\ message # NULL
        BY <1>2, <1>6, <2>1, <3>1, <3>2, <3>3, TriggerIsPublished
      <3>5. message.queue = "triggers" /\ message.body = b  BY <3>4
      <3>6. /\ VerdictAt("commands", b) = DeadLetter /\ VerdictAt("results", b) = DeadLetter
            /\ k # "sample.flow" => VerdictAt("triggers", b) = DeadLetter
            /\ k = "sample.flow" => VerdictAt("triggers", b) = Acts("resume", "workItemId", c)
        BY <3>3, VerdictsOnTrigger
      <3>7. k = "sample.flow" => /\ VerdictAt("triggers", b).id = "workItemId"
                                 /\ VerdictAt("triggers", b).correlation_id = c
        BY <3>6 DEF Acts
      <3> QED  BY <1>3, <2>1, <3>1, <3>2, <3>4, <3>5, <3>6, <3>7 DEF SeamContract, Taken
    <2> QED  BY <1>6, <2>2, <2>3
  <1> QED  BY <1>5, <1>6

LEMMA RequestHolds ==
    ASSUME IInv, Taken("request")
    PROVE  SeamContract
  <1>1. PICK k \in TriggerKinds, raw \in WellFormedCorrelation, own \in {NULL, "plain"} :
            decision = [kind |-> "request", input |-> TriggerRow(k, raw, own),
                        output |-> Published(TriggerRow(k, raw, own))]
    BY DEF IInv, DecisionIsMade, MadeOfRequest
  <1>2. PICK row : row = TriggerRow(k, raw, own)  OBVIOUS
  <1>3. PICK c \in WellFormedCorrelation : c = IF own # NULL THEN own ELSE raw
    BY DEF WellFormedCorrelation
  <1>4. /\ row.kind = k /\ DOMAIN row.payload = {"workItemId", "correlationId"}
        /\ row.payload["workItemId"] = "uuid" /\ row.payload["correlationId"] = c
    BY <1>2, <1>3 DEF TriggerRow
  <1>5. PICK message : message = Published(row)  OBVIOUS
  <1>6. message = [queue |-> "triggers", body |-> TriggerOf(c, k), subject |-> k,
                   correlation_id |-> c]
    BY <1>4, <1>5, TriggerIsPublished DEF AnyCorrelation
  <1>7. message.correlation_id = c /\ message.body = TriggerOf(c, k)  BY <1>6
  <1>8. k = "sample.flow" => VerdictAt("triggers", message.body) # DeadLetter
    BY <1>7, VerdictsOnTrigger, ActsIsNotDeadLetter
  <1>9. decision.kind = "request" /\ decision.input = row /\ decision.output = message
    BY <1>1, <1>2, <1>5
  <1> QED  BY <1>4, <1>7, <1>8, <1>9 DEF SeamContract, Taken

LEMMA ResultHolds ==
    ASSUME IInv, Taken("result")
    PROVE  SeamContract
  <1>1. PICK k \in HANDLED_RESULTS, c \in WellFormedCorrelation :
            decision = [kind |-> "result",
                        input |-> [job_id |-> "uuid", correlation_id |-> c, kind |-> k],
                        output |-> PublishedResult([job_id |-> "uuid", correlation_id |-> c,
                                                    kind |-> k])]
    BY DEF IInv, DecisionIsMade, MadeOfResult
  <1>2. PICK e : e = [job_id |-> "uuid", correlation_id |-> c, kind |-> k]  OBVIOUS
  <1>3. PICK b : b = CommandOf(c, k)  OBVIOUS
  <1>4. ToJson(e) = b  BY <1>2, <1>3 DEF ToJson, CommandOf
  <1>5. PICK message : message = PublishedResult(e)  OBVIOUS
  <1>6. message.body = b  BY <1>4, <1>5 DEF PublishedResult
  <1>7. /\ decision.kind = "result" /\ decision.output = message
        /\ decision.input.correlation_id = c
    BY <1>1, <1>2, <1>5
  <1>8. k \in MessageKinds  BY DEF HANDLED_RESULTS, MessageKinds
  <1>9. /\ VerdictAt("triggers", b) = DeadLetter /\ VerdictAt("commands", b) = DeadLetter
        /\ VerdictAt("results", b) = Acts("conclude", "jobId", c)
    BY <1>3, <1>8, VerdictsOnCommand
  <1>10. /\ VerdictAt("results", b).does = "conclude"
         /\ VerdictAt("results", b).correlation_id = c
    BY <1>9 DEF Acts
  <1> QED  BY <1>6, <1>7, <1>9, <1>10 DEF SeamContract, Taken

LEMMA EnvelopeHolds ==
    ASSUME IInv, Taken("envelope")
    PROVE  SeamContract
  <1>1. PICK b \in Bodies :
            decision = [kind |-> "envelope", input |-> b,
                        output |-> [q \in {"triggers", "commands", "results"} |-> VerdictAt(q, b)]]
    BY DEF IInv, DecisionIsMade, MadeOfEnvelope
  <1>2. /\ decision.kind = "envelope" /\ decision.input = b
        /\ decision.output["commands"] = CommandVerdict(b)
        /\ decision.output["results"] = ResultVerdict(b)
    BY <1>1 DEF VerdictAt
  <1>3. ASSUME CommandVerdict(b) # DeadLetter PROVE ToJson(FromJson(b)) = b
    <2>1. FromJson(b) # NULL  BY <1>3 DEF CommandVerdict
    <2>2. DOMAIN b = {"jobId", "correlationId", "kind"}
      BY <2>1 DEF FromJson, PERMITTED_FIELDS
    <2>3. PICK e : e = [job_id |-> b["jobId"], correlation_id |-> b["correlationId"],
                        kind |-> b["kind"]]
      OBVIOUS
    <2>4. FromJson(b) = e  BY <2>1, <2>3 DEF FromJson
    <2>5. ToJson(e) = [jobId |-> b["jobId"], correlationId |-> b["correlationId"],
                       kind |-> b["kind"]]
      BY <2>3 DEF ToJson
    <2>6. b \in [DOMAIN b -> STRING]  BY MessageAssumption
    <2> QED  BY <2>2, <2>4, <2>5, <2>6
  <1>4. ResultVerdict(b) # DeadLetter => DOMAIN b = PERMITTED_FIELDS
    BY DEF ResultVerdict, ParseResultMessage, PERMITTED_FIELDS
  <1> QED  BY <1>2, <1>3, <1>4 DEF SeamContract, Taken

LEMMA AccessHolds ==
    ASSUME IInv, Taken("access")
    PROVE  SeamContract
  <1>1. PICK a \in AccessRequests :
            decision = [kind |-> "access", input |-> a,
                        output |-> EvaluateAccess(a.entitled, a.registered, a.version, a.bound)]
    BY DEF IInv, DecisionIsMade, MadeOfAccess
  <1>2. PICK out : out = EvaluateAccess(a.entitled, a.registered, a.version, a.bound)  OBVIOUS
  <1>3. decision.kind = "access" /\ decision.input = a /\ decision.output = out
    BY <1>1, <1>2
  <1>4. a.version # NULL  BY AccessAssumption, GateNull
  <1>5. out = NULL <=> a.entitled /\ a.registered = a.version /\ a.version \in a.bound
    BY <1>2, <1>4, AccessAssumption DEF EvaluateAccess, AccessRefusals
  <1> QED  BY <1>3, <1>5 DEF SeamContract, Taken

(* The keys of a body that name its case. *)
Names(body) == {k \in {"number", "sys_id"} \cap DOMAIN body : IsText(body[k]) /\ body[k].length > 0}

LEMMA ReferenceIsAName ==
    ASSUME NEW body, NEW payload,
           \A k \in {"number", "sys_id"} : k \in payload <=> k \in DOMAIN body
    PROVE  /\ ExternalReference(body, payload) = NULL <=> Names(body) = {}
           /\ Names(body) # {} => ExternalReference(body, payload) \in Names(body)
  <1> DEFINE K == EXTERNAL_REFERENCE_KEYS
             usable == {i \in DOMAIN K : K[i] \in payload /\ IsText(body[K[i]])
                                            /\ body[K[i]].length > 0}
  <1>1. DOMAIN K = {1, 2} /\ K[1] = "number" /\ K[2] = "sys_id"
    BY DEF EXTERNAL_REFERENCE_KEYS
  <1>2. PICK first : first = CHOOSE i \in usable : \A j \in usable : i <= j  OBVIOUS
  <1>3. ExternalReference(body, payload) = IF usable = {} THEN NULL ELSE K[first]
    BY <1>2 DEF ExternalReference
  <1>4. \A i \in {1, 2} : i \in usable <=> K[i] \in Names(body)
    BY <1>1 DEF Names
  <1>5. usable = {} <=> Names(body) = {}  BY <1>1, <1>4 DEF Names
  <1>6. usable # {} => first \in usable
    <2>1. CASE 1 \in usable
      <3>1. \A j \in usable : 1 <= j  BY <1>1
      <3> QED  BY <1>2, <2>1, <3>1
    <2>2. CASE 1 \notin usable /\ 2 \in usable
      <3>1. \A j \in usable : 2 <= j  BY <1>1, <2>2
      <3> QED  BY <1>2, <2>2, <3>1
    <2> QED  BY <1>1, <2>1, <2>2
  <1>7. usable # {} => K[first] \in Names(body)  BY <1>1, <1>4, <1>6
  <1>8. \A k \in Names(body) : k # NULL  BY BoundaryAssumption DEF Names
  <1> QED  BY <1>3, <1>5, <1>7, <1>8

LEMMA CaseHolds ==
    ASSUME IInv, Taken("case")
    PROVE  SeamContract
  <1>1. PICK b \in CaseBodies, n \in Sizes :
            decision = [kind |-> "case", input |-> [body |-> b, size |-> n],
                        output |-> NormalizeCaseResult(n, b)]
    BY DEF IInv, DecisionIsMade, MadeOfCase
  <1>2. PICK out : out = NormalizeCaseResult(n, b)  OBVIOUS
  <1>3. /\ decision.kind = "case" /\ decision.input.body = b /\ decision.input.size = n
        /\ decision.output = out
    BY <1>1, <1>2
  <1>4. PICK payload : payload = (DOMAIN b \cap CASE_FIELDS) \ FORBIDDEN_KEYS  OBVIOUS
  <1>5. \A k \in {"number", "sys_id"} : k \in payload <=> k \in DOMAIN b
    BY <1>4 DEF CASE_FIELDS, FORBIDDEN_KEYS
  <1>6. PICK ref : ref = ExternalReference(b, payload)  OBVIOUS
  <1>7. (ref = NULL <=> Names(b) = {}) /\ (Names(b) # {} => ref \in Names(b))
    BY <1>5, <1>6, ReferenceIsAName
  <1>8. n \in Nat  BY BoundaryAssumption
  <1>9. CASE n > MAX_PAYLOAD_BYTES \/ ref = NULL
    <2>1. out = Rejected  BY <1>2, <1>4, <1>6, <1>9 DEF NormalizeCaseResult
    <2>2. ~out.accepted  BY <2>1 DEF Rejected
    <2>3. ~(n <= MAX_PAYLOAD_BYTES /\ Names(b) # {})
      BY <1>7, <1>8, <1>9 DEF MAX_PAYLOAD_BYTES
    <2> QED  BY <1>3, <2>2, <2>3 DEF SeamContract, Taken, Names
  <1>10. CASE ~(n > MAX_PAYLOAD_BYTES \/ ref = NULL)
    <2>1. out = [accepted |-> TRUE, payload |-> payload, reference |-> ref]
      BY <1>2, <1>4, <1>6, <1>10 DEF NormalizeCaseResult
    <2>2. out.accepted /\ out.payload = payload /\ out.reference = ref  BY <2>1
    <2>3. n <= MAX_PAYLOAD_BYTES /\ Names(b) # {}
      BY <1>7, <1>8, <1>10 DEF MAX_PAYLOAD_BYTES
    <2>4. payload \subseteq CASE_FIELDS \ FORBIDDEN_KEYS  BY <1>4
    <2> QED  BY <1>3, <1>7, <2>2, <2>3, <2>4 DEF SeamContract, Taken, Names
  <1> QED  BY <1>9, <1>10

(* For every outbox row, body, provider answer and access request: a message  *)
(* is published to the one consumer that acts on it and refused by the        *)
(* others, under the row and the journey it came with; a body that is         *)
(* accepted says exactly three things; a case names itself and carries        *)
(* nothing outside its contract; and a capability is usable at the one        *)
(* version on which all agree (publisher.py, envelope.py, the three           *)
(* consumers, normalization.py, policy.checks).                               *)
THEOREM SeamHolds == Spec => []SeamContract
  <1>1. IInv => SeamContract
    BY PublicationHolds, RequestHolds, ResultHolds, EnvelopeHolds, CaseHolds, AccessHolds
       DEF SeamContract
  <1> QED  BY <1>1, DecisionsInvariant, PTL

-----------------------------------------------------------------------------
(* Stored rows and their records. *)

(* No stored row becomes an entry that is more lenient than itself            *)
(* (catalogue.record_from_row, _roles_from, CatalogueRecord.__post_init__).   *)
THEOREM EntriesHold == Spec => []EntryContract
  <1>1. ASSUME IInv, Taken("record") PROVE EntryContract
    <2>1. PICK row \in CatalogueRows :
              decision = [kind |-> "record", input |-> row, output |-> RecordFromRow(row)]
      BY <1>1 DEF IInv, DecisionIsMade, MadeOfRecord
    <2>2. PICK e : e = RecordFromRow(row)  OBVIOUS
    <2>3. decision.input = row /\ decision.output = e  BY <2>1, <2>2
    <2>4. PICK roles : roles = RolesFrom(row.accepted_roles)  OBVIOUS
    <2>5. PICK entry : entry = [treatment |-> row.default_treatment, roles |-> roles,
                                elevated |-> row.requires_elevation]
      OBVIOUS
    <2>6. /\ entry.treatment = row.default_treatment /\ entry.roles = roles
          /\ entry.elevated = row.requires_elevation
      BY <2>5
    <2>7. ASSUME e # NULL
          PROVE  e = entry /\ roles # NULL /\ ~entry.elevated
      BY <2>2, <2>4, <2>5, <2>6, <2>7 DEF RecordFromRow, CanBeRecord
    <2>8. roles # NULL =>
             roles = IF row.accepted_roles = NULL THEN {} ELSE row.accepted_roles
      BY <2>4 DEF RolesFrom
    <2>9. ASSUME e # NULL, AssignTreatment(e, TRUE).treatment = "AUTO"
          PROVE  e.treatment = "AUTO"
      BY <2>9 DEF AssignTreatment, Refused
    <2> QED  BY <2>3, <2>6, <2>7, <2>8, <2>9 DEF EntryContract
  <1>2. IInv => EntryContract  BY <1>1 DEF EntryContract
  <1> QED  BY <1>2, DecisionsInvariant, PTL

LEMMA ReportIsReport ==
    ASSUME NEW b \in BOOLEAN,
           NEW v \in {"server_confirmed", "client_attested", "contradicted"},
           NEW t \in {NULL, "reader"}
    PROVE  [succeeded |-> b, verification |-> v, verified_by |-> t] # NULL
  <1>1. [succeeded |-> b, verification |-> v, verified_by |-> t]
            \in [succeeded : BOOLEAN,
                 verification : {"server_confirmed", "client_attested", "contradicted"},
                 verified_by : {NULL, "reader"}]
    BY Zenon
  <1>2. NULL \notin [succeeded : BOOLEAN,
                     verification : {"server_confirmed", "client_attested", "contradicted"},
                     verified_by : {NULL, "reader"}]
    BY LegAssumption
  <1> QED  BY <1>1, <1>2, Zenon

(* Nothing is invoked or recorded without authority, resolution is the far    *)
(* side's confirmed word, and the operation's columns and its audit record    *)
(* say the same of the effect (ExecutionLeg.run, record_outcome,              *)
(* AuditWriter.record_execution).                                             *)
THEOREM LegsHold == Spec => []LegContract
  <1>1. ASSUME IInv, Taken("leg") PROVE LegContract
    <2>1. PICK d, result, tool, report :
              /\ d \in Dispositions /\ result \in FarResults /\ tool \in {NULL, "reader"}
              /\ report = RunLeg(d, result, tool)
              /\ decision = [kind |-> "leg", input |-> [disposition |-> d, result |-> result],
                    output |->
                      [report    |-> report,
                       operation |-> IF report = NULL THEN Proposed
                                     ELSE RecordOutcome(Proposed, report.verification, "done"),
                       audit     |-> IF report = NULL THEN NULL
                                     ELSE RecordExecution("a", ActorChain("workload", "workload",
                                                                          "user", NULL),
                                              "AUTO", report.verification, "done", 0)]]
      BY <1>1 DEF IInv, DecisionIsMade, MadeOfLeg
    <2>2. PICK op, audit :
              /\ op = IF report = NULL THEN Proposed
                      ELSE RecordOutcome(Proposed, report.verification, "done")
              /\ audit = IF report = NULL THEN NULL
                         ELSE RecordExecution("a", ActorChain("workload", "workload",
                                                              "user", NULL),
                                  "AUTO", report.verification, "done", 0)
      OBVIOUS
    <2>3. /\ decision.input.disposition = d /\ decision.input.result = result
          /\ decision.output.report = report /\ decision.output.operation = op
          /\ decision.output.audit = audit
      BY <2>1, <2>2
    <2>4. d # "proceed" => report = NULL  BY <2>1 DEF RunLeg
    <2>5. ASSUME d = "proceed"
          PROVE  /\ report # NULL
                 /\ report.verification = "server_confirmed" =>
                       result.succeeded /\ result.verification = "server_confirmed"
      <3>1. CASE ~result.succeeded
        <4>1. report = [succeeded |-> FALSE, verification |-> "client_attested",
                        verified_by |-> NULL]
          BY <2>1, <2>5, <3>1 DEF RunLeg
        <4>2. report # NULL  BY <4>1, ReportIsReport
        <4> QED  BY <4>1, <4>2
      <3>2. CASE result.succeeded
        <4>1. report = [succeeded |-> TRUE, verification |-> result.verification,
                        verified_by |-> tool]
          BY <2>1, <2>5, <3>2 DEF RunLeg
        <4>2. result.verification \in {"server_confirmed", "client_attested", "contradicted"}
          BY <2>1, LegAssumption
        <4>3. report # NULL  BY <2>1, <4>1, <4>2, ReportIsReport
        <4> QED  BY <3>2, <4>1, <4>3
      <3> QED  BY <3>1, <3>2
    <2>6. report = NULL => op.version = 1  BY <2>2 DEF Proposed
    <2>7. ASSUME report # NULL
          PROVE  op.version # 1 /\ op.verification = report.verification
      <3>1. op = RecordOutcome(Proposed, report.verification, "done")  BY <2>2, <2>7
      <3>2. op.version = 2 /\ op.verification = report.verification
        BY <3>1 DEF RecordOutcome, Proposed
      <3> QED  BY <3>2
    <2>8. ASSUME report # NULL PROVE audit.verification = report.verification
      <3>1. PICK v : v = report.verification  OBVIOUS
      <3>2. PICK chain : chain = ActorChain("workload", "workload", "user", NULL)  OBVIOUS
      <3>3. audit = RecordExecution("a", chain, "AUTO", v, "done", 0)
        BY <2>2, <2>8, <3>1, <3>2
      <3>4. PICK facts : facts = AuditFacts("execution.recorded", "done", "AUTO", v)  OBVIOUS
      <3>5. facts.verification = v  BY <3>4 DEF AuditFacts
      <3>6. audit = AuditRow("a", chain, facts, 0, NULL, NULL)
        BY <3>3, <3>4 DEF RecordExecution, Appended
      <3>7. audit.verification = facts.verification  BY <3>6 DEF AuditRow
      <3> QED  BY <3>1, <3>5, <3>7
    <2> QED  BY <2>3, <2>4, <2>5, <2>6, <2>7, <2>8 DEF LegContract, ReportsResolution
  <1>2. IInv => LegContract  BY <1>1 DEF LegContract
  <1> QED  BY <1>2, DecisionsInvariant, PTL

(* A customer is shown exactly the messages of the sessions it opened in its  *)
(* organisation, while their content is kept; and no open session is hidden   *)
(* from staff (the view session_message, ReadModelQueryFilter,                *)
(* SessionReadModel).                                                         *)
THEOREM ConversationsHold == Spec => []ConversationContract
  <1>1. ASSUME IInv, Taken("conversation") PROVE ConversationContract
    <2>1. PICK c \in Conversations, t \in {"a", "b"}, session \in {"s1", "s2"}, now \in 0..2 :
              decision =
                [kind |-> "conversation",
                 input |-> [rows |-> c, tenant |-> t, session |-> session, now |-> now],
                 output |-> [own  |-> OwnMessages(c.messages, c.sessions,
                                                  [kind |-> "one", tenant |-> t],
                                                  "user", session, now),
                             live |-> LiveSessions(c.sessions, OperatorWide, now)]]
      BY <1>1 DEF IInv, DecisionIsMade, MadeOfConversation
    <2>2. PICK scope : scope = [kind |-> "one", tenant |-> t]  OBVIOUS
    <2>3. PICK own, live :
              /\ own = OwnMessages(c.messages, c.sessions, scope, "user", session, now)
              /\ live = LiveSessions(c.sessions, OperatorWide, now)
      OBVIOUS
    <2>4. /\ decision.input.rows = c /\ decision.input.tenant = t
          /\ decision.input.session = session /\ decision.input.now = now
          /\ decision.output.own = own /\ decision.output.live = live
      BY <2>1, <2>2, <2>3
    <2>5. scope.kind = "one" /\ scope.tenant = t  BY <2>2
    <2>6. \A rows : InScope(rows, scope) = {r \in rows : r.tenant = t}
      BY <2>5 DEF InScope
    <2>7. \A s \in c.sessions : Readable(s, now) <=>
              (s.content_expires_at = NULL \/ now < s.content_expires_at)
      BY ConversationAssumption DEF Readable
    <2>8. \A m : m \in own <=>
            /\ m \in c.messages /\ m.tenant = t
            /\ \E s \in c.sessions : Readable(s, now) /\ s.id = m.session /\ s.tenant = m.tenant
            /\ \E s \in c.sessions : /\ Readable(s, now) /\ s.tenant = t /\ s.requester = "user"
                                     /\ s.id = session /\ s.id = m.session
      <3>1. PICK mine : mine = OwnSessions(c.sessions, scope, "user", now)  OBVIOUS
      <3>2. \A s : s \in mine <=> /\ s \in c.sessions /\ Readable(s, now) /\ s.tenant = t
                                 /\ s.requester = "user"
        BY <2>6, <3>1 DEF OwnSessions, SessionSummary
      <3>3. PICK shown : shown = InScope(SessionMessage(c.messages, c.sessions, now), scope)
        OBVIOUS
      <3>4. \A m : m \in shown <=>
              /\ m \in c.messages /\ m.tenant = t
              /\ \E s \in c.sessions : Readable(s, now) /\ s.id = m.session /\ s.tenant = m.tenant
        BY <2>6, <3>3 DEF SessionMessage, OfReadableSession, SessionSummary
      <3>5. own = {m \in shown : m.session \in {s.id : s \in {x \in mine : x.id = session}}}
        BY <2>3, <3>1, <3>3 DEF OwnMessages
      <3>6. \A m : m \in own <=> /\ m \in shown
                                /\ \E s \in mine : s.id = session /\ s.id = m.session
        BY <3>5
      <3> QED  BY <3>2, <3>4, <3>6
    <2>9. \A m \in c.messages : m \in own <=>
            \E s \in c.sessions : /\ s.id = session /\ s.tenant = t /\ s.requester = "user"
                                  /\ m.session = s.id /\ Readable(s, now)
      BY <2>8, ConversationAssumption
    <2>10. {s \in c.sessions : s.closed_at = NULL /\ s.content_expires_at = NULL} \subseteq live
      BY <2>3 DEF LiveSessions, InScope, SessionSummary, Readable, OperatorWide
    <2> QED  BY <2>4, <2>7, <2>9, <2>10 DEF ConversationContract
  <1>2. IInv => ConversationContract  BY <1>1 DEF ConversationContract
  <1> QED  BY <1>2, DecisionsInvariant, PTL

-----------------------------------------------------------------------------
(* The capability set. *)

LEMMA RegisteredIsHighest ==
    ASSUME NEW q \in CatalogueReads, NEW d \in q.catalogue
    PROVE  /\ RegisteredVersion(q.catalogue, d.id) \in Nat
           /\ \E e \in q.catalogue : e.id = d.id
                                        /\ e.version = RegisteredVersion(q.catalogue, d.id)
           /\ \A e \in q.catalogue : e.id = d.id =>
                                        RegisteredVersion(q.catalogue, d.id) >= e.version
  <1> DEFINE versions == {c.version : c \in {e \in q.catalogue : e.id = d.id}}
  <1>1. \A v : v \in versions <=> \E e \in q.catalogue : e.id = d.id /\ e.version = v
    OBVIOUS
  <1>2. PICK m \in q.catalogue :
            m.id = d.id /\ \A e \in q.catalogue : e.id = d.id => m.version >= e.version
    BY CatalogueAssumption
  <1>3. m.version \in versions /\ \A w \in versions : m.version >= w  BY <1>1, <1>2
  <1>4. PICK top : top = CHOOSE v \in versions : \A w \in versions : v >= w  OBVIOUS
  <1>5. top \in versions /\ \A w \in versions : top >= w  BY <1>3, <1>4
  <1>6. RegisteredVersion(q.catalogue, d.id) = top  BY <1>3, <1>4 DEF RegisteredVersion
  <1>7. versions \subseteq Nat  BY <1>1, CatalogueAssumption
  <1> QED  BY <1>1, <1>5, <1>6, <1>7

(* What the policy says of an item the capability set shows. *)
LEMMA PolicyOfItem ==
    ASSUME NEW q \in CatalogueReads, NEW tenant, NEW d \in q.catalogue,
           NEW entitled \in BOOLEAN, NEW bound
    PROVE  LET refusal == EvaluateAccess(entitled, RegisteredVersion(q.catalogue, d.id),
                                         d.version, bound)
           IN  /\ ~entitled <=> refusal = "not_entitled"
               /\ refusal = "version_mismatch" <=>
                      entitled /\ \E e \in q.catalogue : e.id = d.id /\ e.version > d.version
  <1>1. PICK top : top = RegisteredVersion(q.catalogue, d.id)  OBVIOUS
  <1>2. /\ top \in Nat /\ \E e \in q.catalogue : e.id = d.id /\ e.version = top
        /\ \A e \in q.catalogue : e.id = d.id => top >= e.version
    BY <1>1, RegisteredIsHighest
  <1>3. top # NULL  BY <1>2, GateNull
  <1>4. \A e \in q.catalogue : e.version \in Nat  BY CatalogueAssumption
  <1>5. top # d.version <=> \E e \in q.catalogue : e.id = d.id /\ e.version > d.version
    BY <1>2, <1>4
  <1>6. PICK refusal : refusal = EvaluateAccess(entitled, top, d.version, bound)  OBVIOUS
  <1>7. /\ ~entitled <=> refusal = "not_entitled"
        /\ refusal = "version_mismatch" <=> entitled /\ top # d.version
    BY <1>3, <1>6, AccessAssumption DEF EvaluateAccess, AccessRefusals
  <1> QED  BY <1>1, <1>5, <1>6, <1>7

(* What the capability set tells an organisation is the access policy's       *)
(* answer, item by item, for the owner of the one object named                *)
(* (CatalogueRepository.capabilities_for, GET /catalogue, policy.checks,      *)
(* availability_of, TenantRegistry).                                          *)
THEOREM CataloguesHold == Spec => []CatalogueContract
  <1>1. ASSUME IInv, Taken("catalogue") PROVE CatalogueContract
    <2>1. PICK q, probe, answer :
            /\ q \in CatalogueReads /\ probe \in {NULL, "reached", "transient", "permanent"}
            /\ answer = ReadCatalogue(q.session, q.work, q.sessions, q.works, q.catalogue,
                                      q.entitlements)
            /\ decision =
                 [kind |-> "catalogue", input |-> q,
                  output |-> [answer  |-> answer,
                              usable  |-> [c \in answer.items |->
                                               AvailabilityOf(c.entitled, probe)],
                              probe   |-> probe,
                              ragcore |-> TenantFor(q.sessions, q.registry, q.session)]]
      BY <1>1 DEF IInv, DecisionIsMade, MadeOfCatalogue
    <2>2. PICK usable, ragcore :
              /\ usable = [c \in answer.items |-> AvailabilityOf(c.entitled, probe)]
              /\ ragcore = TenantFor(q.sessions, q.registry, q.session)
      OBVIOUS
    <2>3. /\ decision.input = q /\ decision.output.answer = answer
          /\ decision.output.usable = usable /\ decision.output.probe = probe
          /\ decision.output.ragcore = ragcore
      BY <2>1, <2>2
    <2>4. PICK owner : owner = IF q.session # NULL THEN OwnerOf(q.sessions, q.session)
                               ELSE OwnerOf(q.works, q.work)
      OBVIOUS
    <2>5. answer = IF (q.session = NULL) = (q.work = NULL) THEN [status |-> 400, items |-> {}]
                   ELSE IF owner = NULL THEN [status |-> 404, items |-> {}]
                   ELSE [status |-> 200,
                         items |-> CapabilitiesFor(q.catalogue, q.entitlements, owner)]
      BY <2>1, <2>4 DEF ReadCatalogue
    <2>6. (answer.status = 400) <=> (q.session = NULL) = (q.work = NULL)
      BY <2>5
    <2>7. ASSUME answer.status = 200
          PROVE  ShownTo(IF q.session # NULL THEN q.sessions[q.session] ELSE q.works[q.work],
                         q, answer.items, usable, probe, ragcore)
      <3>1. owner # NULL /\ answer.items = CapabilitiesFor(q.catalogue, q.entitlements, owner)
        BY <2>5, <2>7
      <3>2. PICK tenant : tenant = IF q.session # NULL THEN q.sessions[q.session]
                                   ELSE q.works[q.work]
        OBVIOUS
      <3>3. owner = tenant  BY <2>4, <3>1, <3>2 DEF OwnerOf
      <3>4. q.session # NULL /\ ragcore # NULL => ragcore.id = tenant
        <4> SUFFICES ASSUME q.session # NULL, ragcore # NULL PROVE ragcore.id = tenant
          OBVIOUS
        <4>1. OwnerOf(q.sessions, q.session) = tenant  BY <2>4, <3>3
        <4>2. PICK mine : mine = {tid \in DOMAIN q.registry : q.registry[tid].id = tenant}
          OBVIOUS
        <4>3. mine # {} /\ ragcore = q.registry[CHOOSE tid \in mine : TRUE]
          BY <2>2, <4>1, <4>2 DEF TenantFor
        <4>4. (CHOOSE tid \in mine : TRUE) \in mine  BY <4>3
        <4> QED  BY <4>2, <4>3, <4>4
      <3>5. \A c \in answer.items : \E d \in q.catalogue :
                c = [id |-> d.id, version |-> d.version, available |-> TRUE,
                     entitled |-> IsEntitled(q.entitlements, tenant, d.id)]
        BY <3>1, <3>3, Zenon DEF CapabilitiesFor
      <3>6. \A d \in q.catalogue : \E c \in answer.items : c.id = d.id /\ c.version = d.version
        <4> SUFFICES ASSUME NEW d \in q.catalogue
                     PROVE  \E c \in answer.items : c.id = d.id /\ c.version = d.version
          OBVIOUS
        <4>1. PICK c : c = [id |-> d.id, version |-> d.version, available |-> TRUE,
                            entitled |-> IsEntitled(q.entitlements, owner, d.id)]
          OBVIOUS
        <4>2. c \in answer.items  BY <3>1, <4>1, Zenon DEF CapabilitiesFor
        <4> QED  BY <4>1, <4>2
      <3>7. ASSUME NEW c \in answer.items
            PROVE  ItemShown(tenant, q, c, usable, probe)
        <4>1. PICK d \in q.catalogue :
                  c = [id |-> d.id, version |-> d.version, available |-> TRUE,
                       entitled |-> IsEntitled(q.entitlements, tenant, d.id)]
          BY <3>5
        <4>2. PICK entitled \in BOOLEAN : entitled = IsEntitled(q.entitlements, tenant, d.id)
          <5>1. IsEntitled(q.entitlements, tenant, d.id) \in BOOLEAN  BY DEF IsEntitled
          <5> QED  BY <5>1, Zenon
        <4>3. c.id = d.id /\ c.version = d.version /\ c.entitled = entitled
          BY <4>1, <4>2
        <4>4. entitled <=> [tenant |-> tenant, id |-> d.id] \in q.entitlements
          BY <4>2 DEF IsEntitled
        <4>5. PICK bound : bound = BoundVersions(q.bindings, d.id)  OBVIOUS
        <4>6. PICK refusal : refusal = EvaluateAccess(entitled,
                                           RegisteredVersion(q.catalogue, d.id),
                                           d.version, bound)
          OBVIOUS
        <4>7. /\ ~entitled <=> refusal = "not_entitled"
              /\ refusal = "version_mismatch" <=>
                     entitled /\ \E e \in q.catalogue : e.id = d.id /\ e.version > d.version
          BY <2>1, <4>6, PolicyOfItem
        <4>8. usable[c] = AvailabilityOf(entitled, probe)  BY <2>2, <4>3
        <4>9. /\ (usable[c] = "not_entitled") <=> ~entitled
              /\ usable[c] = "temporarily_unavailable" => probe = "transient"
          BY <4>8 DEF AvailabilityOf
        <4> QED  BY <4>2, <4>3, <4>4, <4>5, <4>6, <4>7, <4>9 DEF ItemShown
      <3>8. ShownTo(tenant, q, answer.items, usable, probe, ragcore)
        BY <3>4, <3>6, <3>7 DEF ShownTo
      <3> QED  BY <3>2, <3>8
    <2> QED  BY <2>3, <2>6, <2>7 DEF CatalogueContract
  <1>2. IInv => CatalogueContract  BY <1>1 DEF CatalogueContract
  <1> QED  BY <1>2, DecisionsInvariant, PTL

-----------------------------------------------------------------------------
(* The reader, at the two services. *)

(* The same request as RagCore sees it: the roles as a set, no query. *)
AtRagCore(r) == [r EXCEPT !.roles = RolesNamed(r.roles), !.query = {}]

LEMMA SameReader ==
    ASSUME NEW r \in ReadRequests
    PROVE  /\ AtRagCore(r).headers = {} /\ AtRagCore(r).query = {}
           /\ AtRagCore(r).tid = r.tid /\ AtRagCore(r).oid = r.oid
           /\ AtRagCore(r).roles = RolesNamed(r.roles)
           /\ AtRagCore(r).credential = r.credential /\ AtRagCore(r).path = r.path
           /\ ~SelfAsserted(AtRagCore(r))
  <1>1. PICK c : c = AtRagCore(r)  OBVIOUS
  <1>2. /\ c.headers = {} /\ c.query = {} /\ c.tid = r.tid /\ c.oid = r.oid
        /\ c.roles = RolesNamed(r.roles) /\ c.credential = r.credential /\ c.path = r.path
    BY <1>1, ReaderAssumption DEF AtRagCore
  <1>3. ~SelfAsserted(c)  BY <1>2 DEF SelfAsserted
  <1> QED  BY <1>1, <1>2, <1>3

(* What the names are once all of them are roles. *)
LEMMA RolesAreHeld ==
    ASSUME NEW names \in Seq(STRING), TryParseRoles(names) # NULL
    PROVE  /\ TryParseRoles(names) = RolesNamed(names)
           /\ ParsedRoles(RolesNamed(names)) = RolesNamed(names)
  <1>1. /\ TryParseRoles(names) = RolesNamed(names)
        /\ \A i \in DOMAIN names : names[i] \in StaffRoles
    BY DEF TryParseRoles
  <1>2. RolesNamed(names) \subseteq StaffRoles  BY <1>1 DEF RolesNamed
  <1> QED  BY <1>1, <1>2 DEF ParsedRoles

(* Whom the read service answers has passed every check of it. *)
LEMMA WhoReads ==
    ASSUME NEW r, NEW g, NEW e, AdmitReader(r, g, e).status = 200
    PROVE  /\ \A name \in r.query : ~IsForbiddenParameter(name, Audience(r.path))
           /\ IsPrincipal(r) /\ ScopeOf(r, g) # NULL
           /\ Permits(AuthorizableRoles(Audience(r.path), TryParseRoles(r.roles)), e.accepted)
           /\ AdmitReader(r, g, e).scope = ScopeOf(r, g)
  BY DEF AdmitReader

(* Whom it does not answer for any reason but a parameter has failed one. *)
LEMMA WhoIsRefused ==
    ASSUME NEW r, NEW g, NEW e, AdmitReader(r, g, e).status \notin {200, 400}
    PROVE  \/ ~IsPrincipal(r) \/ ScopeOf(r, g) = NULL
           \/ ~Permits(AuthorizableRoles(Audience(r.path), TryParseRoles(r.roles)), e.accepted)
  BY DEF AdmitReader

(* A principal whose organisation is active is RagCore's too. *)
LEMMA ActiveIsAdmitted ==
    ASSUME NEW r \in ReadRequests, NEW g \in Registries \ {NULL}, IsPrincipal(r),
           r.path = "customer", r.tid \in DOMAIN g, g[r.tid].status = "active"
    PROVE  Admit(AtRagCore(r), g).status = 200
  <1>1. PICK c : c = AtRagCore(r)  OBVIOUS
  <1>2. /\ c.tid = r.tid /\ c.oid = r.oid /\ c.path = r.path /\ ~SelfAsserted(c)
    BY <1>1, SameReader
  <1>3. {c.tid, c.oid} \cap {"", "malformed"} = {}  BY <1>2 DEF IsPrincipal
  <1>4. PrincipalRefusal(c) = NULL
    BY <1>2, <1>3, ReaderAssumption DEF PrincipalRefusal, Audience
  <1>5. AdmitEndUser(g, c.tid) = g[r.tid] /\ g[r.tid] # NULL
    BY <1>2, ReaderAssumption DEF AdmitEndUser
  <1>6. IsAdmitted(AdmitEndUser(g, c.tid))  BY <1>5 DEF IsAdmitted
  <1>7. Admit(c, g) = Grant(c, AdmitEndUser(g, c.tid))
    BY <1>2, <1>4, <1>6 DEF Admit, Grant
  <1>8. Admit(c, g).status = 200  BY <1>7 DEF Grant
  <1> QED  BY <1>1, <1>8

(* The scope of whom the read service answers. *)
LEMMA ScopeIsOwn ==
    ASSUME NEW r \in ReadRequests, NEW g \in Registries \ {NULL}, ScopeOf(r, g) # NULL
    PROVE  /\ r.path = "staff" => ScopeOf(r, g) = OperatorWide
           /\ r.path # "staff" =>
                  r.tid \in DOMAIN g /\ ScopeOf(r, g) = [kind |-> "one", tenant |-> g[r.tid].id]
  <1>1. Audience(r.path) = "staff" <=> r.path = "staff"
    BY ReaderAssumption DEF Audience
  <1> QED  BY <1>1 DEF ScopeOf, AdmitEndUser

(* What RagCore says of a reader it admits. *)
LEMMA AdmittedReader ==
    ASSUME NEW r \in ReadRequests, NEW g \in Registries \ {NULL},
           Admit(AtRagCore(r), g).status = 200
    PROVE  /\ r.tid \in DOMAIN g /\ g[r.tid].id = Admit(AtRagCore(r), g).tenant
           /\ Audience(r.path) = r.path /\ r.path \in {"customer", "staff", "workload"}
           /\ {r.tid, r.oid} \cap {"", "malformed"} = {}
           /\ Admit(AtRagCore(r), g).roles =
                  AuthorizableRoles(r.path, ParsedRoles(RolesNamed(r.roles)))
           /\ Admit(AtRagCore(r), g).credential = CredentialClass(r.credential)
  <1>1. PICK c : c = AtRagCore(r)  OBVIOUS
  <1>2. /\ c.tid = r.tid /\ c.oid = r.oid /\ c.path = r.path
        /\ c.roles = RolesNamed(r.roles) /\ c.credential = r.credential
    BY <1>1, SameReader
  <1>3. PrincipalRefusal(c) = NULL  BY <1>1, WhoIsAdmitted
  <1>4. 401 \in Nat  OBVIOUS
  <1>5. NULL # 401  BY <1>4, GateNull
  <1>6. {c.tid, c.oid} \cap {"", "malformed"} = {}  BY <1>3, <1>5 DEF PrincipalRefusal
  <1> QED  BY <1>1, <1>2, <1>6, WhoIsAdmitted

(* For every request, registry and endpoint: a customer reads the organisation *)
(* RagCore admits it for and none other, only staff with an accepted role read *)
(* across organisations, a class of credential is the same at both doors, the  *)
(* organisation is a filter only of who reads them all, and whom only RagCore  *)
(* admits was refused for its credential, its roles or the endpoint's.         *)
THEOREM ReadersHold == Spec => []ReaderContract
  <1>1. ASSUME IInv, Taken("reader") PROVE ReaderContract
    <2>1. PICK r \in ReadRequests, g \in Registries \ {NULL}, e \in Endpoints :
              decision = [kind |-> "reader",
                          input |-> [request |-> r, registry |-> g, endpoint |-> e],
                          output |-> [net |-> AdmitReader(r, g, e),
                                      ragcore |-> Admit(AtRagCore(r), g)]]
      BY <1>1 DEF IInv, DecisionIsMade, MadeOfReader, AtRagCore
    <2>2. PICK net, rag : net = AdmitReader(r, g, e) /\ rag = Admit(AtRagCore(r), g)  OBVIOUS
    <2>3. /\ decision.input.request = r /\ decision.input.registry = g
          /\ decision.input.endpoint = e
          /\ decision.output.net = net /\ decision.output.ragcore = rag
      BY <2>1, <2>2
    <2>4. r.roles \in Seq(STRING)  BY ReaderAssumption
    <2>5. ASSUME net.status = 200
          PROVE  /\ IsPrincipal(r) /\ net.scope = ScopeOf(r, g) /\ ScopeOf(r, g) # NULL
                 /\ \A name \in r.query : ~IsForbiddenParameter(name, Audience(r.path))
                 /\ Permits(AuthorizableRoles(Audience(r.path), RolesNamed(r.roles)), e.accepted)
      <3>1. IsPrincipal(r)  BY <2>2, <2>5, WhoReads
      <3>2. TryParseRoles(r.roles) # NULL  BY <3>1 DEF IsPrincipal
      <3>3. TryParseRoles(r.roles) = RolesNamed(r.roles)  BY <2>4, <3>2, RolesAreHeld
      <3> QED  BY <2>2, <2>5, <3>1, <3>3, WhoReads
    <2>6. ASSUME net.status = 200, r.path = "customer"
          PROVE  /\ net.scope.kind = "one"
                 /\ rag.status = 200 => rag.tenant = net.scope.tenant
                 /\ rag.status # 200 => g[r.tid].status # "active"
      <3>1. /\ r.tid \in DOMAIN g
            /\ net.scope = [kind |-> "one", tenant |-> g[r.tid].id]
        BY <2>5, <2>6, ScopeIsOwn
      <3>2. net.scope.kind = "one" /\ net.scope.tenant = g[r.tid].id  BY <3>1
      <3>3. rag.status = 200 => rag.tenant = g[r.tid].id  BY <2>2, AdmittedReader
      <3>4. g[r.tid].status = "active" => rag.status = 200
        BY <2>2, <2>5, <2>6, <3>1, ActiveIsAdmitted
      <3> QED  BY <3>2, <3>3, <3>4
    <2>7. ASSUME net.status = 200, net.scope.kind = "all"
          PROVE  r.path = "staff" /\ RolesNamed(r.roles) \cap e.accepted # {}
      <3>1. r.path = "staff"
        <4>1. r.path # "staff" => net.scope = [kind |-> "one", tenant |-> g[r.tid].id]
          BY <2>5, <2>7, ScopeIsOwn
        <4> QED  BY <2>7, <4>1
      <3>2. AuthorizableRoles(Audience(r.path), RolesNamed(r.roles)) = RolesNamed(r.roles)
        BY <3>1 DEF AuthorizableRoles, Audience
      <3> QED  BY <2>5, <2>7, <3>1, <3>2 DEF Permits
    <2>8. ASSUME net.status = 200, rag.status = 200
          PROVE  rag.credential = r.credential /\ (r.credential = "app" <=> r.path = "workload")
      <3>1. Audience(r.path) = r.path /\ rag.credential = CredentialClass(r.credential)
        BY <2>2, <2>8, AdmittedReader
      <3>2. r.credential = IF r.path = "workload" THEN "app" ELSE "delegated"
        BY <2>5, <2>8, <3>1 DEF IsPrincipal
      <3> QED  BY <3>1, <3>2 DEF CredentialClass
    <2>9. ASSUME net.status = 200, "tenantid" \in r.query PROVE net.scope.kind = "all"
      <3>1. Audience(r.path) = "staff"
        BY <2>5, <2>9 DEF IsForbiddenParameter, FORBIDDEN_PARAMETERS
      <3>2. net.scope = OperatorWide  BY <2>5, <2>9, <3>1 DEF ScopeOf
      <3> QED  BY <3>2 DEF OperatorWide
    <2>10. ASSUME rag.status = 200, net.status \notin {200, 400},
                  r.credential = IF r.path = "workload" THEN "app" ELSE "delegated",
                  TryParseRoles(r.roles) # NULL
           PROVE  rag.roles \cap e.accepted = {}
      <3>1. /\ r.tid \in DOMAIN g /\ Audience(r.path) = r.path
            /\ {r.tid, r.oid} \cap {"", "malformed"} = {}
            /\ rag.roles = AuthorizableRoles(r.path, ParsedRoles(RolesNamed(r.roles)))
        BY <2>2, <2>10, AdmittedReader
      <3>2. IsPrincipal(r)  BY <2>10, <3>1 DEF IsPrincipal
      <3>3. ScopeOf(r, g) # NULL
        BY <3>1, ReaderAssumption DEF ScopeOf, AdmitEndUser
      <3>4. rag.roles = AuthorizableRoles(Audience(r.path), TryParseRoles(r.roles))
        BY <2>4, <2>10, <3>1, RolesAreHeld
      <3> QED  BY <2>2, <2>10, <3>2, <3>3, <3>4, WhoIsRefused DEF Permits
    <2> QED  BY <2>3, <2>6, <2>7, <2>8, <2>9, <2>10 DEF ReaderContract
  <1>2. IInv => ReaderContract  BY <1>1 DEF ReaderContract
  <1> QED  BY <1>2, DecisionsInvariant, PTL

-----------------------------------------------------------------------------
(* Ranking. *)

(* How many precede a in the strict order R. *)
Down(S, R, a) == {b \in S : <<b, a>> \in R}

IsStrictOrder(S, R) ==
    /\ \A a \in S : <<a, a>> \notin R
    /\ \A a, b \in S : a # b => <<a, b>> \in R \/ <<b, a>> \in R
    /\ \A a, b, c \in S : <<a, b>> \in R /\ <<b, c>> \in R => <<a, c>> \in R

(* Of two, the lower has fewer before it. *)
LEMMA LowerHasFewerBefore ==
    ASSUME NEW S, NEW R, IsFiniteSet(S), IsStrictOrder(S, R),
           NEW a \in S, NEW b \in S, <<a, b>> \in R
    PROVE  Cardinality(Down(S, R, a)) < Cardinality(Down(S, R, b))
  <1>1. Down(S, R, a) \subseteq Down(S, R, b)  BY DEF IsStrictOrder, Down
  <1>2. Down(S, R, a) # Down(S, R, b)  BY DEF IsStrictOrder, Down
  <1>3. IsFiniteSet(Down(S, R, b)) /\ IsFiniteSet(Down(S, R, a))
    <2>1. Down(S, R, b) \in SUBSET S /\ Down(S, R, a) \in SUBSET S  BY DEF Down
    <2> QED  BY <2>1, FS_Subset
  <1>4. /\ Cardinality(Down(S, R, a)) <= Cardinality(Down(S, R, b))
        /\ Cardinality(Down(S, R, a)) # Cardinality(Down(S, R, b))
    BY <1>1, <1>2, <1>3, FS_Subset
  <1>5. Cardinality(Down(S, R, a)) \in Nat /\ Cardinality(Down(S, R, b)) \in Nat
    BY <1>3, FS_CardinalityType
  <1> QED  BY <1>4, <1>5

(* The places of a strict order on a finite set are taken, each by one. *)
LEMMA EveryPlaceIsTaken ==
    ASSUME NEW S, NEW R, IsFiniteSet(S), IsStrictOrder(S, R)
    PROVE  /\ Cardinality(S) \in Nat
           /\ \A a \in S : Cardinality(Down(S, R, a)) \in 0..(Cardinality(S) - 1)
           /\ \A i \in 1..Cardinality(S) : \E a \in S : Cardinality(Down(S, R, a)) = i - 1
           /\ \A a, b \in S : Cardinality(Down(S, R, a)) = Cardinality(Down(S, R, b)) => a = b
           /\ \A a, b \in S : <<a, b>> \in R <=>
                                Cardinality(Down(S, R, a)) < Cardinality(Down(S, R, b))
  <1>1. PICK n : n = Cardinality(S)  OBVIOUS
  <1>2. n \in Nat  BY <1>1, FS_CardinalityType
  <1>3. ASSUME NEW a \in S PROVE Cardinality(Down(S, R, a)) \in 0..(n - 1)
    <2>1. Down(S, R, a) \in SUBSET S /\ Down(S, R, a) # S  BY DEF IsStrictOrder, Down
    <2>2. IsFiniteSet(Down(S, R, a))  BY <2>1, FS_Subset
    <2>3. Cardinality(Down(S, R, a)) \in Nat  BY <2>2, FS_CardinalityType
    <2>4. Cardinality(Down(S, R, a)) <= n /\ Cardinality(Down(S, R, a)) # n
      BY <1>1, <2>1, FS_Subset
    <2> QED  BY <1>2, <2>3, <2>4
  <1>4. \A a, b \in S : <<a, b>> \in R => Cardinality(Down(S, R, a)) < Cardinality(Down(S, R, b))
    BY LowerHasFewerBefore
  <1>5. \A a, b \in S : Cardinality(Down(S, R, a)) = Cardinality(Down(S, R, b)) => a = b
    <2> SUFFICES ASSUME NEW a \in S, NEW b \in S, a # b
                 PROVE  Cardinality(Down(S, R, a)) # Cardinality(Down(S, R, b))
      OBVIOUS
    <2>1. Cardinality(Down(S, R, a)) \in Int /\ Cardinality(Down(S, R, b)) \in Int
      BY <1>2, <1>3
    <2>2. <<a, b>> \in R \/ <<b, a>> \in R  BY DEF IsStrictOrder
    <2> QED  BY <1>4, <2>1, <2>2
  <1>6. \A a, b \in S : Cardinality(Down(S, R, a)) < Cardinality(Down(S, R, b)) => <<a, b>> \in R
    <2> SUFFICES ASSUME NEW a \in S, NEW b \in S, <<a, b>> \notin R
                 PROVE  ~(Cardinality(Down(S, R, a)) < Cardinality(Down(S, R, b)))
      OBVIOUS
    <2>1. Cardinality(Down(S, R, a)) \in Int /\ Cardinality(Down(S, R, b)) \in Int
      BY <1>2, <1>3
    <2>2. a = b \/ <<b, a>> \in R  BY DEF IsStrictOrder
    <2> QED  BY <1>4, <2>1, <2>2
  <1>7. ASSUME NEW i \in 1..n PROVE \E a \in S : Cardinality(Down(S, R, a)) = i - 1
    <2> DEFINE f == [a \in S |-> Cardinality(Down(S, R, a))]
    <2>1. f \in [S -> 0..(n - 1)]  BY <1>3
    <2>2. f \in Injection(S, 0..(n - 1))  BY <1>5, <2>1, Fun_IsInj
    <2>3. 0 \in Int /\ n - 1 \in Int  BY <1>2
    <2>4. IsFiniteSet(0..(n - 1)) /\ Cardinality(0..(n - 1)) = n
      BY <1>2, <2>3, FS_Interval
    <2>5. f \in Surjection(S, 0..(n - 1))  BY <1>1, <2>2, <2>4, FS_Injection
    <2>6. i - 1 \in 0..(n - 1)  BY <1>2
    <2>7. \E a \in S : f[a] = i - 1  BY <2>5, <2>6, Fun_IsSurj DEF Surjection
    <2> QED  BY <2>7
  <1> QED  BY <1>1, <1>2, <1>3, <1>4, <1>5, <1>6, <1>7

(* Chunks of a ranking: integer scores, one to a reference. *)
AreChunks(S) ==
    /\ IsFiniteSet(S)
    /\ \A a \in S : a.score \in Int /\ a.reference \in Int
    /\ \A a, b \in S : a.reference = b.reference => a = b

(* Ranked(S) is S, each once, in the order of Before. *)
IsRanking(q, S) ==
    /\ Cardinality(S) \in Nat
    /\ q \in [1..Cardinality(S) -> S]
    /\ \A a \in S : \E i \in 1..Cardinality(S) : q[i] = a
    /\ \A i, j \in 1..Cardinality(S) : i < j <=> Before(q[i], q[j])
    /\ \A i, j \in 1..Cardinality(S) : q[i] = q[j] => i = j

(* The operator Ranked picks such a ranking, because one exists. *)
LEMMA RankedIsRanking ==
    ASSUME NEW S, AreChunks(S)
    PROVE  IsRanking(Ranked(S), S)
  <1> DEFINE R == {p \in S \X S : Before(p[1], p[2])}
  <1>1. \A a, b \in S : <<a, b>> \in R <=> Before(a, b)  OBVIOUS
  <1>2. IsStrictOrder(S, R)
    <2> HIDE DEF R
    <2>1. \A a \in S : ~Before(a, a)  BY DEF Before, AreChunks
    <2>2. \A a, b \in S : a # b => Before(a, b) \/ Before(b, a)  BY DEF Before, AreChunks
    <2>3. \A a, b, c \in S : Before(a, b) /\ Before(b, c) => Before(a, c)
      BY DEF Before, AreChunks
    <2> QED  BY <1>1, <2>1, <2>2, <2>3 DEF IsStrictOrder
  <1>3. \A a \in S : {b \in S : Before(b, a)} = Down(S, R, a)  BY <1>1 DEF Down
  <1>4. PICK n : n = Cardinality(S)  OBVIOUS
  <1> HIDE DEF R
  <1>5. IsFiniteSet(S)  BY DEF AreChunks
  <1> DEFINE place(a) == Cardinality(Down(S, R, a))
  <1>6. /\ n \in Nat
        /\ \A a \in S : place(a) \in 0..(n - 1)
        /\ \A i \in 1..n : \E a \in S : place(a) = i - 1
        /\ \A a, b \in S : place(a) = place(b) => a = b
        /\ \A a, b \in S : <<a, b>> \in R <=> place(a) < place(b)
    BY <1>2, <1>4, <1>5, EveryPlaceIsTaken
  <1>7. PICK q : q = Ranked(S)  OBVIOUS
  <1>8. q = [i \in 1..n |-> CHOOSE a \in S : Cardinality({b \in S : Before(b, a)}) = i - 1]
    BY <1>4, <1>7 DEF Ranked
  <1>9. ASSUME NEW i \in 1..n PROVE q[i] \in S /\ place(q[i]) = i - 1
    <2>1. q[i] = CHOOSE a \in S : Cardinality({b \in S : Before(b, a)}) = i - 1  BY <1>8
    <2>2. \E a \in S : Cardinality({b \in S : Before(b, a)}) = i - 1  BY <1>3, <1>6
    <2>3. q[i] \in S /\ Cardinality({b \in S : Before(b, q[i])}) = i - 1  BY <2>1, <2>2, Zenon
    <2> QED  BY <1>3, <2>3
  <1>10. q \in [1..n -> S]  BY <1>8, <1>9
  <1> HIDE DEF place
  <1>11. ASSUME NEW a \in S PROVE \E i \in 1..n : q[i] = a
    <2>1. PICK k \in 1..n : k = place(a) + 1  BY <1>6
    <2>2. place(q[k]) = place(a) /\ q[k] \in S  BY <1>6, <1>9, <2>1
    <2> QED  BY <1>6, <2>2
  <1>12. ASSUME NEW i \in 1..n, NEW j \in 1..n PROVE i < j <=> Before(q[i], q[j])
    <2>1. place(q[i]) = i - 1 /\ place(q[j]) = j - 1 /\ q[i] \in S /\ q[j] \in S  BY <1>9
    <2>2. Before(q[i], q[j]) <=> place(q[i]) < place(q[j])  BY <1>1, <1>6, <2>1
    <2> QED  BY <1>6, <2>1, <2>2
  <1>13. ASSUME NEW i \in 1..n, NEW j \in 1..n, q[i] = q[j] PROVE i = j
    <2>1. place(q[i]) = i - 1 /\ place(q[j]) = j - 1  BY <1>9
    <2> QED  BY <1>6, <1>13, <2>1
  <1> QED  BY <1>4, <1>6, <1>7, <1>10, <1>11, <1>12, <1>13 DEF IsRanking

(* What the index returns to one query. *)
IsLeg(leg) == leg \in Seq([reference : Int, score : Int])

(* Any number greater than any other. *)
LEMMA MoreIsStrict ==
    ASSUME NEW S \in SUBSET Int, NEW R, \A a, b \in S : <<a, b>> \in R <=> a > b
    PROVE  IsStrictOrder(S, R)
  <1>1. ASSUME NEW a \in S PROVE <<a, a>> \notin R
    <2>1. a \in Int  OBVIOUS
    <2> QED  BY <2>1
  <1>2. ASSUME NEW a \in S, NEW b \in S, a # b PROVE <<a, b>> \in R \/ <<b, a>> \in R
    <2>1. a \in Int /\ b \in Int  OBVIOUS
    <2> QED  BY <1>2, <2>1
  <1>3. ASSUME NEW a \in S, NEW b \in S, NEW c \in S, <<a, b>> \in R, <<b, c>> \in R
        PROVE  <<a, c>> \in R
    <2>1. a \in Int /\ b \in Int /\ c \in Int  OBVIOUS
    <2> QED  BY <1>3, <2>1
  <1> QED  BY <1>1, <1>2, <1>3 DEF IsStrictOrder

(* What fusion counts with. *)
LEMMA UpTo ==
    ASSUME NEW n \in Nat
    PROVE  IsFiniteSet(1..n) /\ Cardinality(1..n) = n
  BY FS_Interval

(* A leg is a finite sequence of scored references. *)
LEMMA LegOf ==
    ASSUME NEW leg, IsLeg(leg)
    PROVE  /\ Len(leg) \in Nat /\ DOMAIN leg = 1..Len(leg)
           /\ \A i \in DOMAIN leg : leg[i].score \in Int /\ leg[i].reference \in Int
           /\ IsFiniteSet(DOMAIN leg) /\ Cardinality(DOMAIN leg) = Len(leg)
  <1>1. PICK C : C = [reference : Int, score : Int]  OBVIOUS
  <1>2. leg \in Seq(C)  BY <1>1 DEF IsLeg
  <1>3. Len(leg) \in Nat /\ DOMAIN leg = 1..Len(leg)  BY <1>2
  <1>4. \A i \in DOMAIN leg : leg[i] \in C  BY <1>2
  <1>5. IsFiniteSet(1..Len(leg)) /\ Cardinality(1..Len(leg)) = Len(leg)  BY <1>3, UpTo
  <1> QED  BY <1>1, <1>3, <1>4, <1>5

(* A set named by the places of a finite sequence is finite. *)
LEMMA ReferencesAreFinite ==
    ASSUME NEW leg, IsLeg(leg)
    PROVE  /\ IsFiniteSet(References(leg)) /\ References(leg) \subseteq Int
           /\ Unique(leg) => \A i, j \in DOMAIN leg :
                                leg[i].reference = leg[j].reference => i = j
  <1> DEFINE f == [i \in DOMAIN leg |-> leg[i].reference]
  <1>1. f \in Surjection(DOMAIN leg, References(leg))
    BY Fun_IsSurj DEF References
  <1>2. Len(leg) \in Nat /\ DOMAIN leg = 1..Len(leg)  BY LegOf
  <1>3. IsFiniteSet(DOMAIN leg) /\ Cardinality(DOMAIN leg) = Len(leg)
    BY LegOf
  <1> HIDE DEF f
  <1>4. IsFiniteSet(References(leg))  BY <1>1, <1>3, FS_Surjection
  <1>5. References(leg) \subseteq Int  BY LegOf DEF References
  <1>6. Unique(leg) => f \in Injection(DOMAIN leg, References(leg))
    BY <1>1, <1>3, FS_SurjSameCardinalityImpliesInj DEF Unique
  <1>7. f \in Injection(DOMAIN leg, References(leg)) =>
            \A i, j \in DOMAIN leg : f[i] = f[j] => i = j
    BY DEF Injection, IsInjective
  <1> QED  BY <1>4, <1>5, <1>6, <1>7 DEF f

(* A leg that found anything has a best score. *)
LEMMA BestIsBest ==
    ASSUME NEW leg, IsLeg(leg), leg # <<>>
    PROVE  /\ LegBest(leg) \in Int
           /\ \E i \in DOMAIN leg : leg[i].score = LegBest(leg)
           /\ \A i \in DOMAIN leg : LegBest(leg) >= leg[i].score
  <1> DEFINE S == {leg[i].score : i \in DOMAIN leg}
             R == {p \in S \X S : p[1] > p[2]}
             f == [i \in DOMAIN leg |-> leg[i].score]
  <1>1. Len(leg) \in Nat /\ DOMAIN leg = 1..Len(leg) /\ Len(leg) # 0  BY LegOf DEF IsLeg
  <1>2. IsFiniteSet(DOMAIN leg)  BY LegOf
  <1>3. f \in Surjection(DOMAIN leg, S)  BY Fun_IsSurj
  <1>4. S \subseteq Int /\ leg[1].score \in S  BY <1>1, LegOf
  <1>5. \A a, b \in S : <<a, b>> \in R <=> a > b  OBVIOUS
  <1>6. \A x : x \in S <=> \E i \in DOMAIN leg : x = leg[i].score  OBVIOUS
  <1> HIDE DEF S, R, f
  <1>7. IsFiniteSet(S)  BY <1>2, <1>3, FS_Surjection
  <1>8. IsStrictOrder(S, R)  BY <1>4, <1>5, MoreIsStrict
  <1>9. Cardinality(S) \in Nat /\ Cardinality(S) # 0
    BY <1>4, <1>7, FS_EmptySet, FS_CardinalityType
  <1>10. 1 \in 1..Cardinality(S)  BY <1>9
  <1>11. PICK a \in S : Cardinality(Down(S, R, a)) = 1 - 1
    BY <1>7, <1>8, <1>10, EveryPlaceIsTaken
  <1>12. Down(S, R, a) = {}
    <2>1. Down(S, R, a) \in SUBSET S  BY DEF Down
    <2>2. IsFiniteSet(Down(S, R, a))  BY <1>7, <2>1, FS_Subset
    <2> QED  BY <1>11, <2>2, FS_EmptySet
  <1>13. ASSUME NEW b \in S PROVE a >= b
    <2>1. a \in Int /\ b \in Int  BY <1>4
    <2>2. <<b, a>> \notin R  BY <1>12 DEF Down
    <2> QED  BY <1>5, <2>1, <2>2
  <1>14. \A i \in DOMAIN leg : a >= leg[i].score  BY <1>6, <1>13
  <1>15. LegBest(leg) = CHOOSE x \in S : \A i \in DOMAIN leg : x >= leg[i].score
    BY DEF LegBest, S
  <1>16. LegBest(leg) \in S /\ \A i \in DOMAIN leg : LegBest(leg) >= leg[i].score
    BY <1>14, <1>15, Zenon
  <1> QED  BY <1>4, <1>6, <1>16

(* The divisor of a normalised score is never zero. *)
LEMMA ScaleIsPositive ==
    ASSUME NEW leg, IsLeg(leg)
    PROVE  Scale(leg) \in Int /\ Scale(leg) > 0 /\ RanksNothing(leg) \in BOOLEAN
  <1>1. CASE RanksNothing(leg)  BY <1>1 DEF Scale, RanksNothing
  <1>2. CASE ~RanksNothing(leg)
    <2>1. LegBest(leg) \in Int  BY <1>2, BestIsBest DEF RanksNothing
    <2> QED  BY <1>2, <2>1 DEF Scale, RanksNothing
  <1> QED  BY <1>1, <1>2 DEF RanksNothing

(* A reference found once has the score it was found with. *)
LEMMA RawScoreIs ==
    ASSUME NEW leg, IsLeg(leg), Unique(leg)
    PROVE  /\ \A i \in DOMAIN leg : RawScore(leg, leg[i].reference) = leg[i].score
           /\ \A r : r \notin References(leg) => RawScore(leg, r) = 0
           /\ \A r : RawScore(leg, r) \in Int
  <1>1. \A i, j \in DOMAIN leg : leg[i].reference = leg[j].reference => i = j
    BY ReferencesAreFinite
  <1>2. ASSUME NEW i \in DOMAIN leg PROVE RawScore(leg, leg[i].reference) = leg[i].score
    <2>1. (CHOOSE j \in DOMAIN leg : leg[j].reference = leg[i].reference) = i  BY <1>1, <1>2
    <2> QED  BY <1>2, <2>1 DEF RawScore
  <1>3. ASSUME NEW r, r \notin References(leg) PROVE RawScore(leg, r) = 0
    BY <1>3 DEF RawScore, References
  <1>4. ASSUME NEW r PROVE RawScore(leg, r) \in Int
    <2>1. CASE r \notin References(leg)  BY <1>3, <2>1
    <2>2. CASE r \in References(leg)
      <3>1. PICK i \in DOMAIN leg : r = leg[i].reference  BY <2>2 DEF References
      <3> QED  BY <1>2, <3>1, LegOf
    <2> QED  BY <2>1, <2>2
  <1> QED  BY <1>2, <1>3, <1>4

(* What a leg adds for a reference. *)
LEMMA ContributionIs ==
    ASSUME NEW leg, IsLeg(leg), Unique(leg), NEW r
    PROVE  Contribution(leg, r) = IF RanksNothing(leg) THEN 0 ELSE RawScore(leg, r)
  <1>1. \A i, j \in DOMAIN leg : leg[i].reference = leg[j].reference => i = j
    BY ReferencesAreFinite
  <1>2. CASE r \notin References(leg)  BY <1>2, RawScoreIs DEF Contribution
  <1>3. CASE r \in References(leg)
    <2>1. PICK i \in DOMAIN leg : r = leg[i].reference  BY <1>3 DEF References
    <2>2. i \in Int  BY LegOf
    <2>3. (CHOOSE k \in DOMAIN leg : /\ leg[k].reference = r
                                     /\ \A j \in DOMAIN leg : leg[j].reference = r => j <= k) = i
      <3>1. leg[i].reference = r /\ \A j \in DOMAIN leg : leg[j].reference = r => j <= i
        <4>1. \A j \in DOMAIN leg : leg[j].reference = r => j = i  BY <1>1, <2>1
        <4>2. i <= i  BY <2>2
        <4> QED  BY <2>1, <4>1, <4>2
      <3> QED  BY <1>1, <2>1, <3>1
    <2>4. Normalised(leg)[r] =
              IF RanksNothing(leg) THEN 0
              ELSE leg[CHOOSE k \in DOMAIN leg :
                          /\ leg[k].reference = r
                          /\ \A j \in DOMAIN leg : leg[j].reference = r => j <= k].score
      BY <1>3, Zenon DEF Normalised
    <2> QED  BY <1>3, <2>1, <2>3, <2>4, RawScoreIs DEF Contribution
  <1> QED  BY <1>2, <1>3

(* The scale and the raw scores say all that fusion uses of a leg. *)
LEMMA BackwardsIsLeg ==
    ASSUME NEW leg, IsLeg(leg)
    PROVE  /\ IsLeg(Backwards(leg)) /\ Len(Backwards(leg)) = Len(leg)
           /\ \A i \in DOMAIN leg : /\ Len(leg) + 1 - i \in DOMAIN leg
                                    /\ Backwards(leg)[i] = leg[Len(leg) + 1 - i]
                                    /\ Backwards(leg)[Len(leg) + 1 - i] = leg[i]
           /\ DOMAIN Backwards(leg) = DOMAIN leg
  <1>1. PICK C : C = [reference : Int, score : Int]  OBVIOUS
  <1>2. PICK n \in Nat : n = Len(leg)  BY LegOf
  <1>3. PICK b : b = Backwards(leg)  OBVIOUS
  <1>4. leg \in Seq(C) /\ DOMAIN leg = 1..n  BY <1>1, <1>2 DEF IsLeg
  <1>5. b = [i \in 1..n |-> leg[n + 1 - i]]  BY <1>2, <1>3, <1>4 DEF Backwards
  <1>6. \A i \in 1..n : n + 1 - i \in 1..n /\ n + 1 - (n + 1 - i) = i  OBVIOUS
  <1>7. \A i \in 1..n : leg[i] \in C  BY <1>2, <1>4
  <1>8. \A i \in 1..n : b[i] = leg[n + 1 - i] /\ b[n + 1 - i] = leg[i]  BY <1>5, <1>6
  <1>9. b \in [1..n -> C]  BY <1>5, <1>6, <1>7
  <1>10. b \in Seq(C) /\ Len(b) = n  BY <1>9
  <1> QED  BY <1>1, <1>2, <1>3, <1>4, <1>6, <1>8, <1>9, <1>10 DEF IsLeg

(* A leg read backwards has the same references, scores and scale. *)
LEMMA BackwardsIsSame ==
    ASSUME NEW leg, IsLeg(leg), Unique(leg)
    PROVE  /\ References(Backwards(leg)) = References(leg)
           /\ Unique(Backwards(leg))
           /\ RanksNothing(Backwards(leg)) = RanksNothing(leg)
           /\ Scale(Backwards(leg)) = Scale(leg)
           /\ \A r : RawScore(Backwards(leg), r) = RawScore(leg, r)
  <1>1. PICK b : b = Backwards(leg)  OBVIOUS
  <1>2. PICK n \in Nat : n = Len(leg)  BY LegOf
  <1>3. /\ IsLeg(b) /\ Len(b) = n /\ DOMAIN b = DOMAIN leg
        /\ \A i \in DOMAIN leg : /\ n + 1 - i \in DOMAIN leg
                                 /\ b[i] = leg[n + 1 - i] /\ b[n + 1 - i] = leg[i]
    BY <1>1, <1>2, BackwardsIsLeg
  <1>4. References(b) = References(leg)
    <2>1. \A i \in DOMAIN leg : \E j \in DOMAIN b : b[j].reference = leg[i].reference  BY <1>3
    <2>2. \A i \in DOMAIN b : \E j \in DOMAIN leg : leg[j].reference = b[i].reference  BY <1>3
    <2> QED  BY <2>1, <2>2 DEF References
  <1>5. Unique(b)  BY <1>2, <1>3, <1>4 DEF Unique
  <1>6. RanksNothing(b) = RanksNothing(leg) /\ Scale(b) = Scale(leg)
    <2>1. b = <<>> <=> leg = <<>>
      <3>1. leg = <<>> <=> n = 0  BY <1>2 DEF IsLeg
      <3>2. b = <<>> <=> n = 0  BY <1>3 DEF IsLeg
      <3> QED  BY <3>1, <3>2
    <2>2. CASE leg = <<>>  BY <2>1, <2>2 DEF RanksNothing, Scale
    <2>3. CASE leg # <<>>
      <3>1. PICK x, y : x = LegBest(b) /\ y = LegBest(leg)  OBVIOUS
      <3>2. PICK i \in DOMAIN b : x \in Int /\ b[i].score = x
        BY <1>3, <2>1, <2>3, <3>1, BestIsBest
      <3>3. PICK j \in DOMAIN leg : y \in Int /\ leg[j].score = y
        BY <2>3, <3>1, BestIsBest
      <3>4. y >= leg[n + 1 - i].score  BY <1>3, <2>3, <3>1, BestIsBest
      <3>5. x >= b[n + 1 - j].score  BY <1>3, <2>1, <2>3, <3>1, BestIsBest
      <3>6. y >= x /\ x >= y  BY <1>3, <3>2, <3>3, <3>4, <3>5
      <3>7. x = y  BY <3>2, <3>3, <3>6
      <3> QED  BY <2>1, <3>1, <3>7 DEF RanksNothing, Scale
    <2> QED  BY <2>2, <2>3
  <1>7. ASSUME NEW r PROVE RawScore(b, r) = RawScore(leg, r)
    <2>1. CASE r \notin References(leg)  BY <1>3, <1>4, <1>5, <2>1, RawScoreIs
    <2>2. CASE r \in References(leg)
      <3>1. PICK i \in DOMAIN leg : r = leg[i].reference  BY <2>2 DEF References
      <3>2. PICK j \in DOMAIN b : b[j] = leg[i]  BY <1>3
      <3>3. RawScore(leg, r) = leg[i].score  BY <3>1, RawScoreIs
      <3>4. RawScore(b, b[j].reference) = b[j].score  BY <1>3, <1>5, RawScoreIs
      <3> QED  BY <3>1, <3>2, <3>3, <3>4
    <2> QED  BY <2>1, <2>2
  <1> QED  BY <1>1, <1>4, <1>5, <1>6, <1>7

(* A fused score is the weighted sum of what the two legs add. *)
LEMMA FusedScoreIs ==
    ASSUME NEW d, NEW s, IsLeg(d), IsLeg(s), Unique(d), Unique(s), NEW r
    PROVE  /\ Contribution(d, r) \in Int /\ Contribution(s, r) \in Int
           /\ FusedScore(d, s, r) \in Int
  <1>1. Contribution(d, r) \in Int /\ Contribution(s, r) \in Int
    BY ContributionIs, RawScoreIs
  <1>2. Scale(d) \in Int /\ Scale(s) \in Int  BY ScaleIsPositive
  <1> QED  BY <1>1, <1>2 DEF FusedScore, DENSE_WEIGHT, SPARSE_WEIGHT

(* Multiplying by what is not negative keeps an order. *)
LEMMA TimesKeeps ==
    ASSUME NEW a \in Int, NEW b \in Int, NEW k \in Int, k > 0, a >= b
    PROVE  a * k >= b * k
  OBVIOUS

(* What is at least as good in both legs has at least the fused score. *)
LEMMA AtLeastAsGood ==
    ASSUME NEW d, NEW s, IsLeg(d), IsLeg(s), Unique(d), Unique(s), NEW r, NEW t,
           RawScore(d, r) >= RawScore(d, t), RawScore(s, r) >= RawScore(s, t)
    PROVE  FusedScore(d, s, r) >= FusedScore(d, s, t)
  <1>1. PICK a, b, k : a = Contribution(d, r) /\ b = Contribution(d, t) /\ k = Scale(s)  OBVIOUS
  <1>2. PICK x, y, l : x = Contribution(s, r) /\ y = Contribution(s, t) /\ l = Scale(d)  OBVIOUS
  <1>3. a \in Int /\ b \in Int /\ x \in Int /\ y \in Int  BY <1>1, <1>2, FusedScoreIs
  <1>4. k \in Int /\ k > 0 /\ l \in Int /\ l > 0  BY <1>1, <1>2, ScaleIsPositive
  <1>5. a >= b
    <2>1. RanksNothing(d) => a = 0 /\ b = 0  BY <1>1, ContributionIs
    <2>2. ~RanksNothing(d) => a = RawScore(d, r) /\ b = RawScore(d, t)  BY <1>1, ContributionIs
    <2> QED  BY <2>1, <2>2
  <1>6. x >= y
    <2>1. RanksNothing(s) => x = 0 /\ y = 0  BY <1>2, ContributionIs
    <2>2. ~RanksNothing(s) => x = RawScore(s, r) /\ y = RawScore(s, t)  BY <1>2, ContributionIs
    <2> QED  BY <2>1, <2>2
  <1>7. a * k >= b * k /\ x * l >= y * l  BY <1>3, <1>4, <1>5, <1>6, TimesKeeps
  <1>8. FusedScore(d, s, r) = 6 * a * k + 4 * x * l /\ FusedScore(d, s, t) = 6 * b * k + 4 * y * l
    BY <1>1, <1>2 DEF FusedScore, DENSE_WEIGHT, SPARSE_WEIGHT
  <1>9. 6 * a * k = 6 * (a * k) /\ 4 * x * l = 4 * (x * l)
        /\ 6 * b * k = 6 * (b * k) /\ 4 * y * l = 4 * (y * l)
    BY <1>3, <1>4
  <1>10. a * k \in Int /\ b * k \in Int /\ x * l \in Int /\ y * l \in Int  BY <1>3, <1>4
  <1> QED  BY <1>7, <1>8, <1>9, <1>10

(* What fusion sorts. *)
AllFused(d, s) == {Fused(d, s, r) : r \in References(d) \cup References(s)}

(* The fields of a fused result. *)
LEMMA FusedFields ==
    ASSUME NEW d, NEW s, NEW r
    PROVE  Fused(d, s, r).reference = r /\ Fused(d, s, r).score = FusedScore(d, s, r)
  BY DEF Fused

(* There is one fused result to a reference. *)
LEMMA AllFusedAreChunks ==
    ASSUME NEW d, NEW s, IsLeg(d), IsLeg(s), Unique(d), Unique(s)
    PROVE  /\ AreChunks(AllFused(d, s))
           /\ Cardinality(AllFused(d, s)) = Cardinality(References(d) \cup References(s))
  <1>1. PICK found : found = References(d) \cup References(s)  OBVIOUS
  <1>2. IsFiniteSet(found) /\ found \subseteq Int  BY <1>1, ReferencesAreFinite, FS_Union
  <1>3. PICK F : F = AllFused(d, s)  OBVIOUS
  <1>4. \A x : x \in F <=> \E r \in found : x = Fused(d, s, r)  BY <1>1, <1>3 DEF AllFused
  <1> DEFINE f == [r \in found |-> Fused(d, s, r)]
  <1>5. f \in Surjection(found, F)
    <2>1. f \in [found -> F]  BY <1>4
    <2>2. \A x \in F : \E r \in found : f[r] = x  BY <1>4
    <2> QED  BY <2>1, <2>2, Fun_IsSurj
  <1>6. f \in Injection(found, F)
    <2>1. f \in [found -> F]  BY <1>4
    <2>2. \A r, t \in found : f[r] = f[t] => r = t
      <3>1. \A r \in found : f[r].reference = r  BY FusedFields
      <3> QED  BY <3>1
    <2> QED  BY <2>1, <2>2, Fun_IsInj
  <1> HIDE DEF f
  <1>7. IsFiniteSet(F) /\ Cardinality(F) = Cardinality(found)
    BY <1>2, <1>5, <1>6, FS_Surjection
  <1>8. \A x \in F : x.score \in Int /\ x.reference \in Int
    BY <1>2, <1>4, FusedFields, FusedScoreIs
  <1>9. \A x, y \in F : x.reference = y.reference => x = y  BY <1>4, FusedFields
  <1> QED  BY <1>1, <1>3, <1>7, <1>8, <1>9 DEF AreChunks

(* Fusion does not depend on the order of a leg. *)
LEMMA BackwardsFusesAlike ==
    ASSUME NEW d, NEW s, IsLeg(d), IsLeg(s), Unique(d), Unique(s)
    PROVE  AllFused(Backwards(d), Backwards(s)) = AllFused(d, s)
  <1>1. PICK bd, bs : bd = Backwards(d) /\ bs = Backwards(s)  OBVIOUS
  <1>2. /\ References(bd) = References(d) /\ References(bs) = References(s)
        /\ Unique(bd) /\ Unique(bs) /\ IsLeg(bd) /\ IsLeg(bs)
        /\ Scale(bd) = Scale(d) /\ Scale(bs) = Scale(s)
        /\ RanksNothing(bd) = RanksNothing(d) /\ RanksNothing(bs) = RanksNothing(s)
        /\ \A r : RawScore(bd, r) = RawScore(d, r) /\ RawScore(bs, r) = RawScore(s, r)
    BY <1>1, BackwardsIsSame, BackwardsIsLeg
  <1>3. ASSUME NEW r PROVE Fused(bd, bs, r) = Fused(d, s, r)
    <2>1. Contribution(bd, r) = Contribution(d, r)
      <3>1. Contribution(bd, r) = IF RanksNothing(bd) THEN 0 ELSE RawScore(bd, r)
        BY <1>2, ContributionIs
      <3>2. Contribution(d, r) = IF RanksNothing(d) THEN 0 ELSE RawScore(d, r)
        BY ContributionIs
      <3> QED  BY <1>2, <3>1, <3>2
    <2>2. Contribution(bs, r) = Contribution(s, r)
      <3>1. Contribution(bs, r) = IF RanksNothing(bs) THEN 0 ELSE RawScore(bs, r)
        BY <1>2, ContributionIs
      <3>2. Contribution(s, r) = IF RanksNothing(s) THEN 0 ELSE RawScore(s, r)
        BY ContributionIs
      <3> QED  BY <1>2, <3>1, <3>2
    <2>3. FusedScore(bd, bs, r) = FusedScore(d, s, r)  BY <1>2, <2>1, <2>2 DEF FusedScore
    <2> QED  BY <1>2, <2>3 DEF Fused
  <1>4. AllFused(bd, bs) = AllFused(d, s)  BY <1>2, <1>3 DEF AllFused
  <1> QED  BY <1>1, <1>4

(* Nothing is cut from a leg that is no longer than what was asked for. *)
LEMMA WholeLegIsFetched ==
    ASSUME NEW leg, IsLeg(leg), NEW m \in Int, Len(leg) <= m
    PROVE  FirstOf(leg, m) = leg
  <1>1. PICK C : C = [reference : Int, score : Int]  OBVIOUS
  <1>2. leg \in Seq(C)  BY <1>1 DEF IsLeg
  <1>3. (IF Len(leg) < m THEN Len(leg) ELSE m) = Len(leg)  BY <1>2
  <1>4. SubSeq(leg, 1, Len(leg)) = leg  BY <1>2
  <1> QED  BY <1>3, <1>4 DEF FirstOf

(* The first of a ranking, as many as there is room for. *)
LEMMA FirstOfRanking ==
    ASSUME NEW q, NEW S, IsRanking(q, S), NEW m \in Nat
    PROVE  LET k == IF Cardinality(S) < m THEN Cardinality(S) ELSE m
           IN  /\ k \in Nat /\ k <= Cardinality(S) /\ k <= m
               /\ Len(FirstOf(q, m)) = k /\ DOMAIN FirstOf(q, m) = 1..k
               /\ \A i \in 1..k : FirstOf(q, m)[i] = q[i]
  <1>1. PICK n : n = Cardinality(S)  OBVIOUS
  <1>2. n \in Nat /\ q \in [1..n -> S]  BY <1>1 DEF IsRanking
  <1>3. q \in Seq(S) /\ Len(q) = n  BY <1>2
  <1>4. PICK k : k = IF n < m THEN n ELSE m  OBVIOUS
  <1>5. k \in Nat /\ k <= n /\ k <= m  BY <1>2, <1>4
  <1>6. FirstOf(q, m) = SubSeq(q, 1, k)  BY <1>3, <1>4 DEF FirstOf
  <1>7. /\ Len(SubSeq(q, 1, k)) = k /\ DOMAIN SubSeq(q, 1, k) = 1..k
        /\ \A i \in 1..k : SubSeq(q, 1, k)[i] = q[i]
    BY <1>3, <1>5
  <1> QED  BY <1>1, <1>4, <1>5, <1>6, <1>7

(* What RankingIsFaithful says of a search. *)
IsFaithfulSearch(d, s, m, out, found) ==
    /\ Len(out) = IF Cardinality(found) < m THEN Cardinality(found) ELSE m
    /\ out = Search(Backwards(d), Backwards(s), m)
    /\ \A i \in DOMAIN out : \A r \in found :
         /\ RawScore(d, r) >= RawScore(d, out[i].reference)
         /\ RawScore(s, r) >= RawScore(s, out[i].reference)
         => \/ \E j \in 1..i : out[j].reference = r
            \/ FusedScore(d, s, r) = out[i].score

(* Every search is faithful. *)
LEMMA SearchIsFaithful ==
    ASSUME NEW d, NEW s, NEW m \in Nat, IsLeg(d), IsLeg(s), Unique(d), Unique(s),
           Len(d) <= Fetched(m), Len(s) <= Fetched(m),
           NEW out, out = Search(d, s, m),
           NEW found, found = References(d) \cup References(s)
    PROVE  IsFaithfulSearch(d, s, m, out, found)
  <1>1. PICK F : F = AllFused(d, s)  OBVIOUS
  <1>2. PICK q : q = Ranked(F)  OBVIOUS
  <1>3. PICK n : n = Cardinality(F)  OBVIOUS
  <1>4. AreChunks(F) /\ n = Cardinality(found)  BY <1>1, <1>3, AllFusedAreChunks
  <1>5. IsRanking(q, F)  BY <1>2, <1>4, RankedIsRanking
  <1>6. n \in Nat  BY <1>3, <1>5 DEF IsRanking
  <1>7. Fetched(m) \in Int  BY DEF Fetched, OVER_FETCH
  <1>8. out = FirstOf(q, m)
    <2>1. FirstOf(d, Fetched(m)) = d /\ FirstOf(s, Fetched(m)) = s  BY <1>7, WholeLegIsFetched
    <2> QED  BY <1>1, <1>2, <2>1 DEF Search, Fuse, AllFused
  <1>9. out = Search(Backwards(d), Backwards(s), m)
    <2>1. PICK bd, bs : bd = Backwards(d) /\ bs = Backwards(s)  OBVIOUS
    <2>2. IsLeg(bd) /\ IsLeg(bs) /\ Len(bd) = Len(d) /\ Len(bs) = Len(s)
      BY <2>1, BackwardsIsLeg
    <2>3. FirstOf(bd, Fetched(m)) = bd /\ FirstOf(bs, Fetched(m)) = bs
      BY <1>7, <2>2, WholeLegIsFetched
    <2>4. AllFused(bd, bs) = F  BY <1>1, <2>1, BackwardsFusesAlike
    <2>5. Search(bd, bs, m) = FirstOf(Ranked(AllFused(bd, bs)), m)
      BY <2>3 DEF Search, Fuse, AllFused
    <2> QED  BY <1>2, <1>8, <2>1, <2>4, <2>5
  <1>10. PICK k : k = IF n < m THEN n ELSE m  OBVIOUS
  <1>11. /\ k \in Nat /\ k <= n /\ Len(out) = k /\ DOMAIN out = 1..k
         /\ \A i \in 1..k : out[i] = q[i]
    BY <1>3, <1>5, <1>8, <1>10, FirstOfRanking
  <1>12. ASSUME NEW i \in 1..k, NEW r \in found,
                RawScore(d, r) >= RawScore(d, out[i].reference),
                RawScore(s, r) >= RawScore(s, out[i].reference),
                FusedScore(d, s, r) # out[i].score
         PROVE  \E j \in 1..i : out[j].reference = r
    <2>1. PICK x : x = Fused(d, s, r)  OBVIOUS
    <2>2. x \in F /\ x.reference = r /\ x.score = FusedScore(d, s, r)
      BY <1>1, <2>1, FusedFields DEF AllFused
    <2>3. i \in 1..n  BY <1>6, <1>11
    <2>4. out[i] = q[i] /\ q[i] \in F  BY <1>3, <1>5, <1>11, <2>3 DEF IsRanking
    <2>5. PICK t \in found : q[i] = Fused(d, s, t)  BY <1>1, <2>4 DEF AllFused
    <2>6. out[i].reference = t /\ out[i].score = FusedScore(d, s, t)  BY <2>4, <2>5, FusedFields
    <2>7. FusedScore(d, s, r) >= FusedScore(d, s, t)  BY <1>12, <2>6, AtLeastAsGood
    <2>8. FusedScore(d, s, r) \in Int /\ FusedScore(d, s, t) \in Int  BY FusedScoreIs
    <2>9. x.score > out[i].score  BY <1>12, <2>2, <2>6, <2>7, <2>8
    <2>10. Before(x, q[i])  BY <2>4, <2>9 DEF Before
    <2>11. PICK j \in 1..n : q[j] = x  BY <1>3, <1>5, <2>2 DEF IsRanking
    <2>12. j < i  BY <1>3, <1>5, <2>3, <2>10, <2>11 DEF IsRanking
    <2>13. j \in 1..i /\ j \in 1..k  BY <1>6, <1>11, <2>12
    <2>14. out[j] = x  BY <1>11, <2>11, <2>13
    <2> QED  BY <2>2, <2>13, <2>14
  <1> QED  BY <1>4, <1>9, <1>10, <1>11, <1>12 DEF IsFaithfulSearch

(* Some of the chunks are chunks. *)
LEMMA PartsAreChunks ==
    ASSUME NEW c, AreChunks(c), NEW S \in SUBSET c
    PROVE  AreChunks(S)
  BY FS_Subset DEF AreChunks

(* The first few, of which Eligible keeps the plausible. *)
LEMMA EligibleIs ==
    ASSUME NEW c, AreChunks(c)
    PROVE  /\ Eligible(c) \subseteq c
           /\ Cardinality(Eligible(c)) \in Nat /\ Cardinality(Eligible(c)) <= RERANK_TOP_K
           /\ Cardinality(c \ Eligible(c)) \in Nat
           /\ Cardinality(Eligible(c)) + Cardinality(c \ Eligible(c)) = Cardinality(c)
           /\ \A x \in c : x \in Eligible(c) <=>
                 /\ x.score >= MINIMUM_RERANK_SCORE
                 /\ \E k \in 1..RERANK_TOP_K : k \in DOMAIN Ranked(c) /\ Ranked(c)[k] = x
  <1>1. PICK q, n : q = Ranked(c) /\ n = Cardinality(c)  OBVIOUS
  <1>2. IsRanking(q, c)  BY <1>1, RankedIsRanking
  <1>3. n \in Nat /\ q \in [1..n -> c] /\ DOMAIN q = 1..n  BY <1>1, <1>2 DEF IsRanking
  <1>4. PICK k \in Nat : k = IF n < 5 THEN n ELSE 5  BY <1>3
  <1>5. 5 \in Nat /\ RERANK_TOP_K = 5  BY DEF RERANK_TOP_K
  <1>6. PICK first : first = FirstFew(c)  OBVIOUS
  <1>7. first = FirstOf(q, 5)  BY <1>1, <1>5, <1>6 DEF FirstFew
  <1>8. k <= n /\ k <= 5 /\ DOMAIN first = 1..k /\ \A i \in 1..k : first[i] = q[i]
    BY <1>1, <1>2, <1>4, <1>5, <1>7, FirstOfRanking
  <1>9. PICK H : H = Eligible(c)  OBVIOUS
  <1>10. \A x : x \in H <=> /\ x \in c /\ x.score >= MINIMUM_RERANK_SCORE
                            /\ \E i \in 1..k : q[i] = x
    BY <1>6, <1>8, <1>9 DEF Eligible
  <1>11. \A x \in c : (\E i \in 1..k : q[i] = x) <=> \E i \in 1..5 : i \in DOMAIN q /\ q[i] = x
    <2>1. \A i : i \in 1..k <=> i \in 1..5 /\ i \in 1..n  BY <1>3, <1>4
    <2> QED  BY <1>3, <2>1
  <1>12. IsFiniteSet(c) /\ H \in SUBSET c  BY <1>10 DEF AreChunks
  <1>13. IsFiniteSet(H) /\ Cardinality(H) \in Nat /\ Cardinality(c \ H) \in Nat
         /\ Cardinality(c \ H) = n - Cardinality(H)
    <2>1. IsFiniteSet(H)  BY <1>12, FS_Subset
    <2>2. IsFiniteSet(c \ H) /\ Cardinality(c \ H) = n - Cardinality(c \cap H)
      BY <1>1, <1>12, FS_Difference
    <2>3. c \cap H = H  BY <1>12
    <2> QED  BY <2>1, <2>2, <2>3, FS_CardinalityType
  <1>14. Cardinality(H) <= 5
    <2> DEFINE I == {i \in 1..k : q[i] \in H}
               f == [i \in I |-> q[i]]
    <2>1. f \in Surjection(I, H)
      <3>1. f \in [I -> H]  OBVIOUS
      <3>2. \A x \in H : \E i \in I : f[i] = x  BY <1>10
      <3> QED  BY <3>1, <3>2, Fun_IsSurj
    <2>2. I \in SUBSET (1..k)  OBVIOUS
    <2> HIDE DEF f, I
    <2>3. IsFiniteSet(1..k) /\ Cardinality(1..k) = k  BY UpTo
    <2>4. IsFiniteSet(I) /\ Cardinality(I) <= k  BY <2>2, <2>3, FS_Subset
    <2>5. Cardinality(H) <= Cardinality(I) /\ Cardinality(I) \in Nat
      BY <2>1, <2>4, FS_Surjection, FS_CardinalityType
    <2> QED  BY <1>8, <1>13, <2>4, <2>5
  <1> QED  BY <1>1, <1>3, <1>5, <1>9, <1>10, <1>11, <1>12, <1>13, <1>14

(* G is what f makes of the chunks in the places of q, another score at most. *)
Rescores(f, G, q, h) ==
    /\ f \in [1..h -> G] /\ \A y \in G : \E i \in 1..h : y = f[i]
    /\ \A i \in 1..h : f[i].reference = q[i].reference /\ f[i].score \in Int

(* Re-scored chunks, sorted again, are the same chunks. *)
LEMMA RescoredIs ==
    ASSUME NEW H, NEW h \in Nat, h = Cardinality(H), AreChunks(H), NEW q, IsRanking(q, H),
           NEW G, NEW f, Rescores(f, G, q, h)
    PROVE  /\ Ranked(G) \in Seq(G) /\ Len(Ranked(G)) = h
           /\ \A i \in 1..h : \E j \in 1..h : Ranked(G)[i] = f[j]
           /\ \A i \in 1..h : \E x \in H : x.reference = Ranked(G)[i].reference
           /\ \A x \in H : \E i \in 1..h : x.reference = Ranked(G)[i].reference
           /\ \A i, j \in 1..h : i < j => Before(Ranked(G)[i], Ranked(G)[j])
  <1>16. /\ f \in [1..h -> G] /\ \A y \in G : \E i \in 1..h : y = f[i]
         /\ \A i \in 1..h : f[i].reference = q[i].reference /\ f[i].score \in Int
    BY DEF Rescores
  <1>1. q \in [1..h -> H]  BY DEF IsRanking
  <1>2. \A i \in 1..h : q[i].reference \in Int  BY <1>1 DEF AreChunks
  <1>3. \A i, j \in 1..h : q[i].reference = q[j].reference => i = j
    BY <1>1 DEF IsRanking, AreChunks
  <1>4. f \in Surjection(1..h, G)  BY <1>16, Fun_IsSurj
  <1>5. f \in Injection(1..h, G)
    <2>1. \A i, j \in 1..h : f[i] = f[j] => i = j  BY <1>3, <1>16
    <2> QED  BY <1>16, <2>1, Fun_IsInj
  <1>6. IsFiniteSet(G) /\ Cardinality(G) = h
    <2>1. IsFiniteSet(1..h) /\ Cardinality(1..h) = h  BY UpTo
    <2> QED  BY <1>4, <1>5, <2>1, FS_Surjection
  <1>7. AreChunks(G)
    <2>1. \A y \in G : y.score \in Int  BY <1>16
    <2>2. \A y \in G : y.reference \in Int  BY <1>2, <1>16
    <2>3. \A y, z \in G : y.reference = z.reference => y = z  BY <1>3, <1>16
    <2> QED  BY <1>6, <2>1, <2>2, <2>3 DEF AreChunks
  <1>8. PICK g : g = Ranked(G)  OBVIOUS
  <1>9. IsRanking(g, G)  BY <1>7, <1>8, RankedIsRanking
  <1>10. g \in [1..h -> G]  BY <1>6, <1>9 DEF IsRanking
  <1>11. g \in Seq(G) /\ Len(g) = h  BY <1>10
  <1>12. \A i, j \in 1..h : i < j => Before(g[i], g[j])  BY <1>6, <1>9 DEF IsRanking
  <1>13. \A i \in 1..h : \E j \in 1..h : g[i] = f[j]  BY <1>10, <1>16
  <1>14. ASSUME NEW i \in 1..h PROVE \E x \in H : x.reference = g[i].reference
    <2>1. PICK j \in 1..h : g[i] = f[j]  BY <1>13
    <2>2. q[j] \in H /\ q[j].reference = g[i].reference  BY <1>1, <1>16, <2>1
    <2> QED  BY <2>2
  <1>15. ASSUME NEW x \in H PROVE \E i \in 1..h : x.reference = g[i].reference
    <2>1. PICK j \in 1..h : q[j] = x  BY DEF IsRanking
    <2>2. f[j] \in G /\ f[j].reference = x.reference  BY <1>16, <2>1
    <2>3. PICK i \in 1..h : g[i] = f[j]  BY <1>6, <1>9, <2>2 DEF IsRanking
    <2> QED  BY <2>2, <2>3
  <1> QED  BY <1>8, <1>11, <1>12, <1>13, <1>14, <1>15

(* The re-scored head over the tail as it was: the shape of every outcome. *)
IsReranked(chunks, H, h, t, tail) ==
    /\ DOMAIN chunks = 1..(h + t) /\ Len(chunks) = h + t
    /\ \A i \in 1..h : chunks[i].was_reranked
    /\ \A i \in 1..h : \E x \in H : x.reference = chunks[i].reference
    /\ \A x \in H : \E i \in 1..h : x.reference = chunks[i].reference
    /\ \A i, j \in 1..h : i < j => Before(chunks[i], chunks[j])
    /\ \A i \in (h + 1)..(h + t) : ~chunks[i].was_reranked
    /\ \A i \in (h + 1)..(h + t) :
          /\ i - h \in 1..t
          /\ chunks[i].reference = tail[i - h].reference /\ chunks[i].score = tail[i - h].score

(* The chunks that keep their score. *)
Kept(tail) == [i \in DOMAIN tail |-> AsReranked(tail[i], tail[i].score, FALSE)]

(* Keeping scores keeps the order. *)
LEMMA KeptIs ==
    ASSUME NEW T, NEW tail, IsRanking(tail, T), NEW t, t = Cardinality(T)
    PROVE  /\ t \in Nat /\ Len(Kept(tail)) = t /\ DOMAIN Kept(tail) = 1..t
           /\ \E C : Kept(tail) \in Seq(C)
           /\ \A i \in 1..t : /\ Kept(tail)[i].reference = tail[i].reference
                               /\ Kept(tail)[i].score = tail[i].score
           /\ \A i \in 1..t : ~Kept(tail)[i].was_reranked
  <1>1. t \in Nat /\ DOMAIN tail = 1..t  BY DEF IsRanking
  <1>2. PICK k : k = Kept(tail)  OBVIOUS
  <1>3. k = [i \in 1..t |-> AsReranked(tail[i], tail[i].score, FALSE)]
    BY <1>1, <1>2, Zenon DEF Kept
  <1>4. PICK C : k \in [1..t -> C]
    <2> DEFINE C == {k[i] : i \in 1..t}
    <2>1. DOMAIN k = 1..t /\ \A i \in 1..t : k[i] \in C  BY <1>3, Zenon
    <2>2. k \in [1..t -> C]  BY <1>3, <2>1, Zenon
    <2> QED  BY <2>2
  <1>5. k \in Seq(C) /\ Len(k) = t  BY <1>1, <1>4
  <1>6. ASSUME NEW i \in 1..t
        PROVE  k[i].reference = tail[i].reference /\ k[i].score = tail[i].score
    <2>1. k[i] = AsReranked(tail[i], tail[i].score, FALSE)  BY <1>3, Zenon
    <2> QED  BY <2>1 DEF AsReranked
  <1>7. ASSUME NEW i \in 1..t PROVE ~k[i].was_reranked
    <2>1. k[i] = AsReranked(tail[i], tail[i].score, FALSE)  BY <1>3, Zenon
    <2> QED  BY <2>1 DEF AsReranked
  <1>8. DOMAIN k = 1..t  BY <1>4
  <1> QED  BY <1>1, <1>2, <1>5, <1>6, <1>7, <1>8, Zenon

(* The re-scored head, as rerank builds it before sorting. *)
RescoredHead(head, scores) == {AsReranked(head[i], scores[i], TRUE) : i \in DOMAIN head}

RescoredAt(head, scores) == [i \in DOMAIN head |-> AsReranked(head[i], scores[i], TRUE)]

(* The re-scored head is the head with other scores. *)
LEMMA RescoredHeadIs ==
    ASSUME NEW h \in Nat, NEW q, DOMAIN q = 1..h, NEW scores \in Seq(Int), Len(scores) = h
    PROVE  /\ RescoredAt(q, scores) \in [1..h -> RescoredHead(q, scores)]
           /\ \A y \in RescoredHead(q, scores) : \E i \in 1..h : y = RescoredAt(q, scores)[i]
           /\ \A i \in 1..h : /\ RescoredAt(q, scores)[i].reference = q[i].reference
                               /\ RescoredAt(q, scores)[i].score \in Int
           /\ \A i \in 1..h : RescoredAt(q, scores)[i].was_reranked
  <1>1. PICK f, G : f = RescoredAt(q, scores) /\ G = RescoredHead(q, scores)  OBVIOUS
  <1>2. ASSUME NEW i \in 1..h PROVE f[i] = AsReranked(q[i], scores[i], TRUE)
    BY <1>1, Zenon DEF RescoredAt
  <1>3. ASSUME NEW i \in 1..h PROVE f[i].reference = q[i].reference /\ f[i].score \in Int
    <2>1. f[i] = AsReranked(q[i], scores[i], TRUE)  BY <1>2, Zenon
    <2>2. f[i].reference = q[i].reference /\ f[i].score = scores[i]  BY <2>1 DEF AsReranked
    <2>3. scores[i] \in Int  OBVIOUS
    <2> QED  BY <2>2, <2>3
  <1>4. ASSUME NEW i \in 1..h PROVE f[i].was_reranked
    <2>1. f[i] = AsReranked(q[i], scores[i], TRUE)  BY <1>2, Zenon
    <2> QED  BY <2>1 DEF AsReranked
  <1>5. G = {f[i] : i \in 1..h}  BY <1>1, <1>2, Zenon DEF RescoredHead
  <1>6. f \in [1..h -> G]
    <2>1. f = [i \in 1..h |-> f[i]]  BY <1>1, Zenon DEF RescoredAt
    <2>2. \A i \in 1..h : f[i] \in G  BY <1>5
    <2> QED  BY <2>1, <2>2
  <1>7. \A y \in G : \E i \in 1..h : y = f[i]  BY <1>5
  <1> QED  BY <1>1, <1>3, <1>4, <1>6, <1>7, Zenon

(* Where a place of a concatenation comes from. *)
LEMMA ConcatenationIs ==
    ASSUME NEW C, NEW a \in Seq(C), NEW D, NEW b \in Seq(D)
    PROVE  /\ Len(a \o b) = Len(a) + Len(b) /\ DOMAIN (a \o b) = 1..(Len(a) + Len(b))
           /\ \A i \in 1..Len(a) : (a \o b)[i] = a[i]
           /\ \A i \in (Len(a) + 1)..(Len(a) + Len(b)) :
                 i - Len(a) \in 1..Len(b) /\ (a \o b)[i] = b[i - Len(a)]
  <1>1. PICK E : E = C \cup D  OBVIOUS
  <1>2. a \in Seq(E) /\ b \in Seq(E)  BY <1>1
  <1>3. Len(a) \in Nat /\ Len(b) \in Nat  OBVIOUS
  <1> QED  BY <1>2, <1>3

(* The three ways out of rerank. *)
LEMMA RerankCases ==
    ASSUME NEW c, NEW scores
    PROVE  /\ HeadOf(c) = <<>> =>
                Rerank(c, scores) =
                    [error |-> FALSE, chunks |-> Kept(TailOf(c)), considered |-> 0]
           /\ HeadOf(c) # <<>> /\ Len(scores) # Len(HeadOf(c)) =>
                Rerank(c, scores) =
                    [error |-> TRUE, chunks |-> <<>>, considered |-> Len(HeadOf(c))]
           /\ HeadOf(c) # <<>> /\ Len(scores) = Len(HeadOf(c)) =>
                Rerank(c, scores) =
                    [error |-> FALSE,
                     chunks |-> Ranked(RescoredHead(HeadOf(c), scores)) \o Kept(TailOf(c)),
                     considered |-> Len(HeadOf(c))]
  BY Zenon DEF Rerank, RescoredHead, Kept

(* Of a head that was re-scored. *)
LEMMA RescoredShape ==
    ASSUME NEW H, NEW h \in Nat, h = Cardinality(H), AreChunks(H), NEW q, IsRanking(q, H),
           NEW T, NEW t \in Nat, t = Cardinality(T), NEW tail, IsRanking(tail, T),
           NEW scores \in Seq(Int), Len(scores) = h
    PROVE  IsReranked(Ranked(RescoredHead(q, scores)) \o Kept(tail), H, h, t, tail)
  <1>1. PICK G, f : G = RescoredHead(q, scores) /\ f = RescoredAt(q, scores)  OBVIOUS
  <1>16. DOMAIN q = 1..h  BY DEF IsRanking
  <1>17. /\ f \in [1..h -> G] /\ \A y \in G : \E i \in 1..h : y = f[i]
         /\ \A i \in 1..h : f[i].reference = q[i].reference /\ f[i].score \in Int
         /\ \A i \in 1..h : f[i].was_reranked
    <2>1. RescoredAt(q, scores) \in [1..h -> RescoredHead(q, scores)]
      BY <1>16, RescoredHeadIs
    <2>2. \A y \in RescoredHead(q, scores) : \E i \in 1..h : y = RescoredAt(q, scores)[i]
      BY <1>16, RescoredHeadIs
    <2>3. \A i \in 1..h : /\ RescoredAt(q, scores)[i].reference = q[i].reference
                          /\ RescoredAt(q, scores)[i].score \in Int
      BY <1>16, RescoredHeadIs
    <2>4. \A i \in 1..h : RescoredAt(q, scores)[i].was_reranked
      BY <1>16, RescoredHeadIs
    <2> QED  BY <1>1, <2>1, <2>2, <2>3, <2>4, Zenon
  <1>2. PICK g, k : g = Ranked(G) /\ k = Kept(tail)  OBVIOUS
  <1>3. /\ Len(k) = t /\ DOMAIN k = 1..t
        /\ \A i \in 1..t : k[i].reference = tail[i].reference /\ k[i].score = tail[i].score
    BY <1>2, KeptIs
  <1>4. \A i \in 1..t : ~k[i].was_reranked  BY <1>2, KeptIs
  <1>5. PICK D : k \in Seq(D)  BY <1>2, KeptIs
  <1>6. /\ g \in Seq(G) /\ Len(g) = h
        /\ \A i \in 1..h : \E j \in 1..h : g[i] = f[j]
        /\ \A i \in 1..h : \E x \in H : x.reference = g[i].reference
        /\ \A x \in H : \E i \in 1..h : x.reference = g[i].reference
        /\ \A i, j \in 1..h : i < j => Before(g[i], g[j])
    <2>1. Rescores(f, G, q, h)  BY <1>17 DEF Rescores
    <2>4. /\ Ranked(G) \in Seq(G) /\ Len(Ranked(G)) = h
          /\ \A i \in 1..h : \E j \in 1..h : Ranked(G)[i] = f[j]
      BY <2>1, RescoredIs
    <2>5. \A i \in 1..h : \E x \in H : x.reference = Ranked(G)[i].reference
      BY <2>1, RescoredIs
    <2>6. \A x \in H : \E i \in 1..h : x.reference = Ranked(G)[i].reference
      BY <2>1, RescoredIs
    <2>7. \A i, j \in 1..h : i < j => Before(Ranked(G)[i], Ranked(G)[j])
      BY <2>1, RescoredIs
    <2> QED  BY <1>2, <2>4, <2>5, <2>6, <2>7, Zenon
  <1>7. PICK all : all = g \o k  OBVIOUS
  <1>8. /\ Len(all) = h + t /\ DOMAIN all = 1..(h + t)
        /\ \A i \in 1..h : all[i] = g[i]
        /\ \A i \in (h + 1)..(h + t) : i - h \in 1..t /\ all[i] = k[i - h]
    <2>1. g \in Seq(G) /\ Len(g) = h  BY <1>6
    <2>2. /\ Len(all) = Len(g) + Len(k) /\ DOMAIN all = 1..(Len(g) + Len(k))
          /\ \A i \in 1..Len(g) : all[i] = g[i]
          /\ \A i \in (Len(g) + 1)..(Len(g) + Len(k)) :
                i - Len(g) \in 1..Len(k) /\ all[i] = k[i - Len(g)]
      BY <1>5, <1>7, <2>1, ConcatenationIs, Zenon
    <2>3. Len(k) = t  BY <1>3
    <2> QED  BY <2>1, <2>2, <2>3, Zenon
  <1>9. ASSUME NEW i \in 1..h PROVE all[i].was_reranked
    <2>1. PICK j \in 1..h : all[i] = f[j]
      <3>1. all[i] = g[i]  BY <1>8
      <3>2. \E j \in 1..h : g[i] = f[j]  BY <1>6
      <3> QED  BY <3>1, <3>2
    <2>2. f[j].was_reranked  BY <1>17
    <2> QED  BY <2>1, <2>2, Zenon
  <1>10. ASSUME NEW i \in (h + 1)..(h + t) PROVE ~all[i].was_reranked
    <2>1. i - h \in 1..t /\ all[i] = k[i - h]  BY <1>8
    <2> QED  BY <1>4, <2>1, Zenon
  <1>11. ASSUME NEW i \in 1..h PROVE \E x \in H : x.reference = all[i].reference
    <2>1. all[i] = g[i]  BY <1>8
    <2>2. \E x \in H : x.reference = g[i].reference  BY <1>6
    <2> QED  BY <2>1, <2>2, Zenon
  <1>12. ASSUME NEW x \in H PROVE \E i \in 1..h : x.reference = all[i].reference
    <2>1. PICK i \in 1..h : x.reference = g[i].reference  BY <1>6
    <2>2. all[i] = g[i]  BY <1>8
    <2> QED  BY <2>1, <2>2, Zenon
  <1>13. ASSUME NEW i \in 1..h, NEW j \in 1..h, i < j PROVE Before(all[i], all[j])
    <2>1. all[i] = g[i] /\ all[j] = g[j]  BY <1>8
    <2>2. Before(g[i], g[j])  BY <1>6, <1>13
    <2> QED  BY <2>1, <2>2, Zenon
  <1>14. ASSUME NEW i \in (h + 1)..(h + t)
         PROVE  /\ i - h \in 1..t
                /\ all[i].reference = tail[i - h].reference /\ all[i].score = tail[i - h].score
    <2>1. i - h \in 1..t /\ all[i] = k[i - h]  BY <1>8
    <2> QED  BY <1>3, <2>1
  <1>15. IsReranked(all, H, h, t, tail)
    BY <1>8, <1>9, <1>10, <1>11, <1>12, <1>13, <1>14, Zenon DEF IsReranked
  <1> QED  BY <1>1, <1>2, <1>7, <1>15, Zenon

(* Of a pass with nothing worth re-scoring. *)
LEMMA UnscoredShape ==
    ASSUME NEW T, NEW t \in Nat, t = Cardinality(T), NEW tail, IsRanking(tail, T)
    PROVE  IsReranked(Kept(tail), {}, 0, t, tail)
  <1>1. PICK k : k = Kept(tail)  OBVIOUS
  <1>2. /\ Len(k) = t /\ DOMAIN k = 1..t
        /\ \A i \in 1..t : k[i].reference = tail[i].reference /\ k[i].score = tail[i].score
    BY <1>1, KeptIs
  <1>3. \A i \in 1..t : ~k[i].was_reranked  BY <1>1, KeptIs
  <1>4. 0 + t = t /\ 0 + 1 = 1  OBVIOUS
  <1>5. \A i \in (0 + 1)..(0 + t) : ~k[i].was_reranked  BY <1>3, <1>4, Zenon
  <1>6. ASSUME NEW i \in (0 + 1)..(0 + t)
        PROVE  /\ i - 0 \in 1..t
               /\ k[i].reference = tail[i - 0].reference /\ k[i].score = tail[i - 0].score
    <2>1. i \in 1..t /\ i - 0 = i  OBVIOUS
    <2> QED  BY <1>2, <2>1
  <1>7. \A i : i \notin 1..0  OBVIOUS
  <1>8. DOMAIN k = 1..(0 + t) /\ Len(k) = 0 + t  BY <1>2, <1>4
  <1>9. IsReranked(k, {}, 0, t, tail)  BY <1>5, <1>6, <1>7, <1>8, Zenon DEF IsReranked
  <1> QED  BY <1>1, <1>9, Zenon

(* What every way out of rerank has in common. *)
LEMMA RerankShape ==
    ASSUME NEW c, AreChunks(c), NEW scores \in Seq(Int),
           NEW h \in Nat, h = Cardinality(Eligible(c)),
           NEW t \in Nat, t = Cardinality(c \ Eligible(c))
    PROVE  /\ Rerank(c, scores).considered = h
           /\ Rerank(c, scores).error <=> h > 0 /\ Len(scores) # h
           /\ ~Rerank(c, scores).error =>
                  IsReranked(Rerank(c, scores).chunks, Eligible(c), h, t, TailOf(c))
  <1>1. PICK H, T : H = Eligible(c) /\ T = c \ H  OBVIOUS
  <1>2. AreChunks(H) /\ AreChunks(T)  BY <1>1, EligibleIs, PartsAreChunks
  <1>3. PICK q, tail : q = HeadOf(c) /\ tail = TailOf(c)  OBVIOUS
  <1>4. IsRanking(q, H) /\ IsRanking(tail, T)
    BY <1>1, <1>2, <1>3, RankedIsRanking DEF HeadOf, TailOf
  <1>5. h = Cardinality(H) /\ t = Cardinality(T)  BY <1>1
  <1>6. Len(q) = h /\ (q = <<>> <=> h = 0)
    <2>1. q \in [1..h -> H]  BY <1>4, <1>5 DEF IsRanking
    <2>2. q \in Seq(H) /\ Len(q) = h  BY <2>1
    <2> QED  BY <2>2
  <1>7. CASE h = 0
    <2>1. Rerank(c, scores) = [error |-> FALSE, chunks |-> Kept(tail), considered |-> 0]
      BY <1>3, <1>6, <1>7, RerankCases
    <2>2. H = {}  BY <1>2, <1>5, <1>7, FS_EmptySet DEF AreChunks
    <2>3. IsReranked(Kept(tail), {}, 0, t, tail)  BY <1>4, <1>5, UnscoredShape
    <2>4. ~Rerank(c, scores).error  BY <2>1
    <2>5. Rerank(c, scores).chunks = Kept(tail) /\ Rerank(c, scores).considered = 0  BY <2>1
    <2>6. ~(h > 0)  BY <1>7
    <2> QED  BY <1>1, <1>3, <1>7, <2>2, <2>3, <2>4, <2>5, <2>6, Zenon
  <1>8. CASE h # 0 /\ Len(scores) # h
    <2>1. Rerank(c, scores) = [error |-> TRUE, chunks |-> <<>>, considered |-> h]
      BY <1>3, <1>6, <1>8, RerankCases
    <2>2. Rerank(c, scores).error  BY <2>1
    <2>3. Rerank(c, scores).considered = h  BY <2>1
    <2>4. h > 0  BY <1>8
    <2> QED  BY <1>8, <2>2, <2>3, <2>4, Zenon
  <1>9. CASE h # 0 /\ Len(scores) = h
    <2>1. Rerank(c, scores) = [error |-> FALSE,
                               chunks |-> Ranked(RescoredHead(q, scores)) \o Kept(tail),
                               considered |-> h]
      BY <1>3, <1>6, <1>9, RerankCases
    <2>2. ~Rerank(c, scores).error  BY <2>1
    <2>3. /\ Rerank(c, scores).considered = h
          /\ Rerank(c, scores).chunks = Ranked(RescoredHead(q, scores)) \o Kept(tail)
      BY <2>1
    <2>4. IsReranked(Ranked(RescoredHead(q, scores)) \o Kept(tail), H, h, t, tail)
      BY <1>2, <1>4, <1>5, <1>9, RescoredShape
    <2> QED  BY <1>1, <1>3, <1>9, <2>2, <2>3, <2>4, Zenon
  <1> QED  BY <1>7, <1>8, <1>9

(* What RankingIsFaithful says of a rerank pass that was answered. *)
IsFaithfulRerank(c, h, chunks, asked) ==
    /\ Len(chunks) = Cardinality(c)
    /\ {chunks[i].reference : i \in DOMAIN chunks} = {x.reference : x \in c}
    /\ asked = 1..h /\ h <= RERANK_TOP_K
    /\ \A i \in DOMAIN chunks : \A x \in c :
         x.reference = chunks[i].reference =>
           (i \in asked <=> /\ x.score >= MINIMUM_RERANK_SCORE
                            /\ \E k \in 1..RERANK_TOP_K :
                                  k \in DOMAIN Ranked(c) /\ Ranked(c)[k] = x)
    /\ \A i, j \in DOMAIN chunks :
         i < j /\ (i \in asked <=> j \in asked) => Before(chunks[i], chunks[j])

(* What has that shape is faithful. *)
LEMMA ShapeIsFaithful ==
    ASSUME NEW c, AreChunks(c), NEW h \in Nat, h = Cardinality(Eligible(c)),
           NEW t \in Nat, t = Cardinality(c \ Eligible(c)),
           NEW chunks, IsReranked(chunks, Eligible(c), h, t, TailOf(c)),
           NEW asked, asked = {i \in DOMAIN chunks : chunks[i].was_reranked}
    PROVE  IsFaithfulRerank(c, h, chunks, asked)
  <1>1. PICK H, T : H = Eligible(c) /\ T = c \ H  OBVIOUS
  <1>2. PICK tail : tail = TailOf(c)  OBVIOUS
  <1>3. h = Cardinality(H) /\ t = Cardinality(T)  BY <1>1
  <1>4. /\ H \subseteq c /\ h <= RERANK_TOP_K /\ h + t = Cardinality(c)
        /\ \A x \in c : x \in H <=>
              /\ x.score >= MINIMUM_RERANK_SCORE
              /\ \E k \in 1..RERANK_TOP_K : k \in DOMAIN Ranked(c) /\ Ranked(c)[k] = x
    BY <1>1, EligibleIs
  <1>5. AreChunks(T)  BY <1>1, PartsAreChunks
  <1>6. IsRanking(tail, T)  BY <1>1, <1>2, <1>5, RankedIsRanking DEF TailOf
  <1>7. /\ tail \in [1..t -> T] /\ \A x \in T : \E i \in 1..t : tail[i] = x
        /\ \A i, j \in 1..t : i < j <=> Before(tail[i], tail[j])
    BY <1>3, <1>6 DEF IsRanking
  <1>8. IsReranked(chunks, H, h, t, tail)  BY <1>1, <1>2
  <1>9. DOMAIN chunks = 1..(h + t) /\ Len(chunks) = h + t  BY <1>8 DEF IsReranked
  <1>10. \A i \in 1..h : \E x \in H : x.reference = chunks[i].reference
    BY <1>8 DEF IsReranked
  <1>11. \A x \in H : \E i \in 1..h : x.reference = chunks[i].reference
    BY <1>8 DEF IsReranked
  <1>12. \A i, j \in 1..h : i < j => Before(chunks[i], chunks[j])  BY <1>8 DEF IsReranked
  <1>13. \A i \in (h + 1)..(h + t) :
            /\ i - h \in 1..t
            /\ chunks[i].reference = tail[i - h].reference /\ chunks[i].score = tail[i - h].score
    BY <1>8 DEF IsReranked
  <1>14. asked = 1..h
    <2>1. \A i : i \in DOMAIN chunks <=> i \in 1..h \/ i \in (h + 1)..(h + t)  BY <1>9
    <2>2. \A i \in 1..h : chunks[i].was_reranked  BY <1>8, Zenon DEF IsReranked
    <2>3. \A i \in (h + 1)..(h + t) : ~chunks[i].was_reranked  BY <1>8, Zenon DEF IsReranked
    <2> QED  BY <2>1, <2>2, <2>3, Zenon
  <1>15. \A x, y \in c : x.reference = y.reference => x = y  BY DEF AreChunks
  <1>16. ASSUME NEW i \in DOMAIN chunks
         PROVE  /\ i \in 1..h => \E x \in H : x.reference = chunks[i].reference
                /\ i \notin 1..h => \E x \in T : x.reference = chunks[i].reference
    <2>1. i \in 1..h \/ i \in (h + 1)..(h + t)  BY <1>9
    <2>2. CASE i \in 1..h  BY <1>10, <2>2
    <2>3. CASE i \in (h + 1)..(h + t)
      <3>1. tail[i - h] \in T /\ tail[i - h].reference = chunks[i].reference
        BY <1>7, <1>13, <2>3
      <3>2. i \notin 1..h  BY <2>3
      <3> QED  BY <3>1, <3>2
    <2> QED  BY <2>1, <2>2, <2>3
  <1>17. ASSUME NEW x \in c PROVE \E i \in DOMAIN chunks : chunks[i].reference = x.reference
    <2>1. CASE x \in H
      <3>1. PICK i \in 1..h : x.reference = chunks[i].reference  BY <1>11, <2>1
      <3>2. i \in DOMAIN chunks  BY <1>9
      <3> QED  BY <3>1, <3>2
    <2>2. CASE x \notin H
      <3>1. x \in T  BY <1>1, <2>2
      <3>2. PICK j \in 1..t : tail[j] = x  BY <1>7, <3>1
      <3>3. j + h \in (h + 1)..(h + t) /\ (j + h) - h = j  OBVIOUS
      <3>4. chunks[j + h].reference = x.reference  BY <1>13, <3>2, <3>3
      <3>5. j + h \in DOMAIN chunks  BY <1>9, <3>3
      <3> QED  BY <3>4, <3>5
    <2> QED  BY <2>1, <2>2
  <1>18. {chunks[i].reference : i \in DOMAIN chunks} = {x.reference : x \in c}
    <2>1. \A i \in DOMAIN chunks : \E x \in c : x.reference = chunks[i].reference
      BY <1>1, <1>4, <1>16
    <2> QED  BY <1>17, <2>1
  <1>19. ASSUME NEW i \in DOMAIN chunks, NEW x \in c, x.reference = chunks[i].reference
         PROVE  i \in 1..h <=> x \in H
    <2>1. CASE i \in 1..h
      <3>1. PICK y \in H : y.reference = chunks[i].reference  BY <1>16, <2>1
      <3>2. x = y  BY <1>4, <1>15, <1>19, <3>1
      <3> QED  BY <2>1, <3>1, <3>2
    <2>2. CASE i \notin 1..h
      <3>1. PICK y \in T : y.reference = chunks[i].reference  BY <1>16, <2>2
      <3>2. y \in c /\ y \notin H  BY <1>1, <3>1
      <3>3. x = y  BY <1>15, <1>19, <3>1, <3>2
      <3> QED  BY <2>2, <3>2, <3>3
    <2> QED  BY <2>1, <2>2
  <1>20. ASSUME NEW i \in DOMAIN chunks, NEW j \in DOMAIN chunks, i < j,
                i \in 1..h <=> j \in 1..h
         PROVE  Before(chunks[i], chunks[j])
    <2>1. CASE i \in 1..h  BY <1>12, <1>20, <2>1
    <2>2. CASE i \notin 1..h
      <3>1. i \in (h + 1)..(h + t) /\ j \in (h + 1)..(h + t)  BY <1>9, <1>20, <2>2
      <3>2. PICK k, l : k = i - h /\ l = j - h  OBVIOUS
      <3>3. k \in 1..t /\ l \in 1..t /\ k < l  BY <1>13, <1>20, <3>1, <3>2
      <3>4. Before(tail[k], tail[l])  BY <1>7, <3>3
      <3>5. /\ chunks[i].reference = tail[k].reference /\ chunks[i].score = tail[k].score
            /\ chunks[j].reference = tail[l].reference /\ chunks[j].score = tail[l].score
        BY <1>13, <3>1, <3>2
      <3> QED  BY <3>4, <3>5 DEF Before
    <2> QED  BY <2>1, <2>2
  <1>21. \A i \in DOMAIN chunks : \A x \in c :
            x.reference = chunks[i].reference => (i \in asked <=> x \in H)
    BY <1>14, <1>19
  <1>22. \A i, j \in DOMAIN chunks :
            i < j /\ (i \in asked <=> j \in asked) => Before(chunks[i], chunks[j])
    BY <1>14, <1>20
  <1> QED  BY <1>4, <1>9, <1>14, <1>18, <1>21, <1>22, Zenon DEF IsFaithfulRerank

(* For all legs, candidates and scores: fusion keeps what it has room for,     *)
(* ranks nothing above what is at least as good in both legs, and does not     *)
(* depend on the order of a leg; a rerank pass keeps every candidate once,     *)
(* re-scores exactly the plausible among the first five and ranks them first   *)
(* (hybrid.fuse, HybridRetrieval.search, rerank.rerank).                       *)
THEOREM RankingHolds == Spec => []RankingIsFaithful
  <1>1. ASSUME IInv, Taken("search") PROVE RankingIsFaithful
    <2>1. PICK x \in Legs, y \in Legs, n \in Limits :
              decision = [kind |-> "search", input |-> [dense |-> x, sparse |-> y, limit |-> n],
                          output |-> Search(x, y, n)]
      BY <1>1 DEF IInv, DecisionIsMade, MadeOfSearch
    <2>2. PICK out, found : out = Search(x, y, n) /\ found = References(x) \cup References(y)
      OBVIOUS
    <2>3. /\ decision.kind = "search" /\ decision.input.dense = x /\ decision.input.sparse = y
          /\ decision.input.limit = n /\ decision.output = out
      BY <2>1, <2>2
    <2>4. IsLeg(x) /\ IsLeg(y) /\ n \in Nat  BY RankingAssumption DEF IsLeg
    <2>5. ASSUME Unique(x), Unique(y), Len(x) <= Fetched(n), Len(y) <= Fetched(n)
          PROVE  IsFaithfulSearch(x, y, n, out, found)
      BY <2>2, <2>4, <2>5, SearchIsFaithful
    <2>6. ~Taken("rerank")  BY <2>3 DEF Taken
    <2> QED  BY <2>2, <2>3, <2>5, <2>6, Zenon DEF RankingIsFaithful, IsFaithfulSearch
  <1>2. ASSUME IInv, Taken("rerank") PROVE RankingIsFaithful
    <2>1. PICK c \in Candidates, a \in RerankerScores :
              decision = [kind |-> "rerank", input |-> [chunks |-> c, scores |-> a],
                          output |-> Rerank(c, a)]
      BY <1>2 DEF IInv, DecisionIsMade, MadeOfRerank
    <2>2. PICK out : out = Rerank(c, a)  OBVIOUS
    <2>3. /\ decision.kind = "rerank" /\ decision.input.chunks = c
          /\ decision.input.scores = a /\ decision.output = out
      BY <2>1, <2>2
    <2>4. AreChunks(c) /\ a \in Seq(Int)  BY RankingAssumption DEF AreChunks
    <2>5. IsFiniteSet(Eligible(c)) /\ IsFiniteSet(c \ Eligible(c))
      BY <2>4, EligibleIs, FS_Subset DEF AreChunks
    <2>6. PICK h \in Nat, t \in Nat :
              h = Cardinality(Eligible(c)) /\ t = Cardinality(c \ Eligible(c))
      BY <2>5, FS_CardinalityType
    <2>7. PICK asked : asked = {i \in DOMAIN out.chunks : out.chunks[i].was_reranked}  OBVIOUS
    <2>8. /\ out.considered = h
          /\ out.error <=> h > 0 /\ Len(a) # h
          /\ ~out.error => IsReranked(out.chunks, Eligible(c), h, t, TailOf(c))
      BY <2>2, <2>4, <2>6, RerankShape
    <2>9. ~out.error => IsFaithfulRerank(c, h, out.chunks, asked)
      BY <2>4, <2>6, <2>7, <2>8, ShapeIsFaithful
    <2>10. ~Taken("search")  BY <2>3 DEF Taken
    <2>11. decision.output.error <=> /\ decision.output.considered > 0
                                     /\ Len(decision.input.scores) # decision.output.considered
      BY <2>3, <2>8, Zenon
    <2>12. ~decision.output.error =>
              IsFaithfulRerank(decision.input.chunks, decision.output.considered,
                  decision.output.chunks,
                  {i \in DOMAIN decision.output.chunks : decision.output.chunks[i].was_reranked})
      BY <2>3, <2>7, <2>8, <2>9, Zenon
    <2> QED  BY <2>10, <2>11, <2>12, Zenon DEF RankingIsFaithful, IsFaithfulRerank
  <1>3. IInv => RankingIsFaithful  BY <1>1, <1>2, Zenon DEF RankingIsFaithful
  <1> QED  BY <1>3, DecisionsInvariant, PTL

-----------------------------------------------------------------------------
(* The audit trail. *)

(* Of a finite set of rows, however many of one instant, the newest k exist. *)
LEMMA NewestExist ==
    ASSUME NEW F, IsFiniteSet(F), \A e \in F : e.occurred_at \in Int,
           NEW k \in Nat, k <= Cardinality(F)
    PROVE  \E S \in SUBSET F :
              /\ Cardinality(S) = k
              /\ \A e \in S, f \in F \ S : e.occurred_at >= f.occurred_at
  <1>1. PICK n : n = Cardinality(F)  OBVIOUS
  <1>2. n \in Nat  BY <1>1, FS_CardinalityType
  <1>3. PICK p \in [F -> 1..n] : \A e, f \in F : p[e] = p[f] => e = f
    <2>1. 1 \in Int /\ n \in Int  BY <1>2
    <2>2. IsFiniteSet(1..n) /\ Cardinality(1..n) = n  BY <1>2, <2>1, FS_Interval
    <2>3. ExistsBijection(F, 1..n)  BY <1>1, <2>2, FS_SameCardinalityBij
    <2>4. PICK p : p \in Bijection(F, 1..n)  BY <2>3 DEF ExistsBijection
    <2> QED  BY <2>4 DEF Bijection, Injection, IsInjective
  <1> DEFINE newer(e, f) == \/ e.occurred_at > f.occurred_at
                            \/ e.occurred_at = f.occurred_at /\ p[e] < p[f]
             R == {x \in F \X F : newer(x[1], x[2])}
  <1>4. \A e, f \in F : <<e, f>> \in R <=> newer(e, f)  OBVIOUS
  <1>5. IsStrictOrder(F, R)
    <2> HIDE DEF R
    <2>1. \A e \in F : ~newer(e, e)  BY <1>2
    <2>2. \A e, f \in F : e # f => newer(e, f) \/ newer(f, e)  BY <1>2, <1>3
    <2>3. \A e, f, g \in F : newer(e, f) /\ newer(f, g) => newer(e, g)  BY <1>2
    <2> HIDE DEF newer
    <2> QED  BY <1>4, <2>1, <2>2, <2>3 DEF IsStrictOrder
  <1>6. \A e, f \in F : <<e, f>> \in R => e.occurred_at >= f.occurred_at  BY <1>4
  <1> HIDE DEF R, newer
  <1> DEFINE place(e) == Cardinality(Down(F, R, e))
  <1>7. /\ \A e \in F : place(e) \in 0..(n - 1)
        /\ \A i \in 1..n : \E e \in F : place(e) = i - 1
        /\ \A e, f \in F : place(e) = place(f) => e = f
        /\ \A e, f \in F : <<e, f>> \in R <=> place(e) < place(f)
    BY <1>1, <1>5, EveryPlaceIsTaken
  <1> HIDE DEF place
  <1>8. PICK S \in SUBSET F : S = {e \in F : place(e) < k}  OBVIOUS
  <1>9. Cardinality(S) = k
    <2> DEFINE f == [e \in S |-> place(e)]
    <2>1. f \in [S -> 0..(k - 1)]  BY <1>2, <1>7, <1>8
    <2>2. \A e, g \in S : f[e] = f[g] => e = g  BY <1>7, <1>8
    <2>3. \A i \in 0..(k - 1) : \E e \in S : f[e] = i
      <3> SUFFICES ASSUME NEW i \in 0..(k - 1) PROVE \E e \in S : f[e] = i  OBVIOUS
      <3>1. i + 1 \in 1..n  BY <1>1, <1>2
      <3>2. PICK e \in F : place(e) = (i + 1) - 1  BY <1>7, <3>1
      <3>3. place(e) = i /\ place(e) < k  BY <3>2
      <3> QED  BY <1>8, <3>3
    <2> HIDE DEF f
    <2>4. f \in Injection(S, 0..(k - 1)) /\ f \in Surjection(S, 0..(k - 1))
      BY <2>1, <2>2, <2>3, Fun_IsInj, Fun_IsSurj
    <2>5. IsFiniteSet(S)  BY <1>8, FS_Subset
    <2>6. 0 \in Int /\ k - 1 \in Int  OBVIOUS
    <2>7. Cardinality(0..(k - 1)) = k  BY <2>6, FS_Interval
    <2> QED  BY <2>4, <2>5, <2>7, FS_Surjection
  <1>10. ASSUME NEW e \in S, NEW f \in F \ S PROVE e.occurred_at >= f.occurred_at
    <2>1. e \in F /\ place(e) < k /\ ~(place(f) < k)  BY <1>8
    <2>2. place(e) \in Int /\ place(f) \in Int  BY <1>2, <1>7, <2>1
    <2>3. place(e) < place(f)  BY <2>1, <2>2
    <2> QED  BY <1>6, <1>7, <2>1, <2>3
  <1> QED  BY <1>8, <1>9, <1>10

(* What the search of a trail returns. *)
Due(trail, tenant, since, now) ==
    {e \in trail : e.tenant = tenant /\ e.occurred_at >= since /\ e.retain_until > now}

(* The search of a trail answers, and with the newest that are due. *)
LEMMA SearchIsNewest ==
    ASSUME NEW trail, IsFiniteSet(trail), \A e \in trail : e.occurred_at \in Int,
           NEW tenant, NEW since, NEW limit \in Nat, NEW now
    PROVE  /\ AuditSearch(trail, tenant, since, limit, now) # {}
           /\ \A S \in AuditSearch(trail, tenant, since, limit, now) :
                 /\ S \subseteq Due(trail, tenant, since, now)
                 /\ \A e \in Due(trail, tenant, since, now) \ S :
                       /\ Cardinality(S) = limit
                       /\ \A f \in S : f.occurred_at >= e.occurred_at
  <1>1. PICK F : F = Due(trail, tenant, since, now)  OBVIOUS
  <1>2. F \in SUBSET trail  BY <1>1 DEF Due
  <1>3. IsFiniteSet(F)  BY <1>2, FS_Subset
  <1>4. \A e \in F : e.occurred_at \in Int  BY <1>2
  <1>5. PICK n \in Nat : n = Cardinality(F)  BY <1>3, FS_CardinalityType
  <1>6. PICK k \in Nat : k = IF n < limit THEN n ELSE limit  OBVIOUS
  <1>7. k <= n /\ (k = n \/ k = limit)  BY <1>6
  <1>8. PICK found : found = AuditSearch(trail, tenant, since, limit, now)  OBVIOUS
  <1>9. found = {S \in SUBSET F : /\ Cardinality(S) = k
                                  /\ \A e \in S, f \in F \ S : e.occurred_at >= f.occurred_at}
    BY <1>1, <1>5, <1>6, <1>8 DEF AuditSearch, Due
  <1>10. found # {}
    <2>1. \E S \in SUBSET F : /\ Cardinality(S) = k
                              /\ \A e \in S, f \in F \ S : e.occurred_at >= f.occurred_at
      BY <1>3, <1>4, <1>5, <1>7, NewestExist
    <2> QED  BY <1>9, <2>1
  <1>11. ASSUME NEW S \in found, NEW e \in F \ S
         PROVE  Cardinality(S) = limit /\ \A f \in S : f.occurred_at >= e.occurred_at
    <2>1. S \in SUBSET F /\ Cardinality(S) = k  BY <1>9
    <2>2. S # F  BY <1>11
    <2>3. Cardinality(S) # n  BY <1>3, <1>5, <2>1, <2>2, FS_Subset
    <2> QED  BY <1>7, <1>9, <2>1, <2>3
  <1>12. \A S \in found : S \subseteq F  BY <1>9
  <1> QED  BY <1>1, <1>8, <1>10, <1>11, <1>12

(* A record is of its moment, kept for the default window, and names no         *)
(* execution unless one was recorded.                                           *)
LEMMA RecordedIs ==
    ASSUME NEW m, m.of \in {"gate", "execution", "escalation"}, m.at \in Nat
    PROVE  /\ Recorded(m).occurred_at = m.at
           /\ Recorded(m).retain_until = m.at + AUDIT_WINDOW
           /\ Recorded(m).action # "execution.recorded" =>
                  Recorded(m).by.execution_method = "none"
  <1>1. WindowFor(AUDIT_WINDOW, NotConfigured) = AUDIT_WINDOW
    BY DEF WindowFor, NotConfigured
  <1>2. ASSUME NEW chain, NEW facts, NEW row, row = Appended(m.tenant, chain, facts, m.at)
        PROVE  /\ row.occurred_at = m.at /\ row.retain_until = m.at + AUDIT_WINDOW
               /\ row.action = facts.kind /\ row.by = chain
    BY <1>1, <1>2 DEF Appended, AuditRow
  <1>3. \A x, y : Unexecuted(x, y).execution_method = "none"  BY DEF Unexecuted, ActorChain
  <1>4. CASE m.of = "gate"
    <2>1. PICK facts, chain : /\ chain = Unexecuted(m.requester, m.approver)
                              /\ Recorded(m) = Appended(m.tenant, chain, facts, m.at)
      BY <1>4, Zenon DEF Recorded, RecordGateOutcome
    <2> QED  BY <1>2, <1>3, <2>1
  <1>5. CASE m.of = "execution"
    <2>1. PICK facts : /\ facts = AuditFacts("execution.recorded", m.reason, m.treatment,
                                               m.verification)
                       /\ Recorded(m) = Appended(m.tenant, m.chain, facts, m.at)
      BY <1>5 DEF Recorded, RecordExecution
    <2>2. facts.kind = "execution.recorded"  BY <2>1 DEF AuditFacts
    <2> QED  BY <1>2, <2>1, <2>2
  <1>6. CASE m.of = "escalation"
    <2>1. PICK facts, chain : /\ chain = Unexecuted(m.requester, NULL)
                              /\ Recorded(m) = Appended(m.tenant, chain, facts, m.at)
      BY <1>6, Zenon DEF Recorded, RecordEscalation
    <2> QED  BY <1>2, <1>3, <2>1
  <1> QED  BY <1>4, <1>5, <1>6

(* What the trail says of a record. *)
IsRecord(e) ==
    /\ e.occurred_at \in Nat
    /\ e.retain_until = e.occurred_at + AUDIT_WINDOW
    /\ e.action # "execution.recorded" => e.by.execution_method = "none"

(* A trail is a finite set of records. *)
LEMMA TrailIs ==
    ASSUME NEW moments \in Moments, NEW trail, trail = TrailOf(moments)
    PROVE  /\ IsFiniteSet(trail)
           /\ \A e \in trail : IsRecord(e)
  <1>1. IsFiniteSet(moments)  BY MomentAssumption
  <1>2. PICK f : f = [m \in moments |-> Recorded(m)]  OBVIOUS
  <1>3. f \in Surjection(moments, trail)  BY <1>2 DEF Surjection, TrailOf
  <1>4. IsFiniteSet(trail)  BY <1>1, <1>3, FS_Surjection
  <1>5. ASSUME NEW e \in trail
        PROVE  IsRecord(e)
    <2>1. PICK m \in moments : e = Recorded(m)  BY <1>5 DEF TrailOf
    <2>2. m.of \in {"gate", "execution", "escalation"} /\ m.at \in Nat  BY MomentAssumption
    <2> QED  BY <2>1, <2>2, RecordedIs DEF IsRecord
  <1> QED  BY <1>4, <1>5

(* For every trail the writer leaves and every read of it: the search answers  *)
(* with the reader's own records only, the newest it may show, leaves out none *)
(* that is due unless the limit is reached, and no record of a decision names  *)
(* an execution (AuditWriter, AuditSink.record, AuditSink.search).             *)
THEOREM AuditHolds == Spec => []AuditContract
  <1>1. ASSUME IInv, Taken("audit") PROVE AuditContract
    <2>1. PICK moments \in Moments, r \in AuditReads :
              decision = [kind |-> "audit", input |-> [trail |-> TrailOf(moments), read |-> r],
                          output |-> AuditSearch(TrailOf(moments), r.tenant, r.since,
                                                 r.limit, r.now)]
      BY <1>1, Zenon DEF IInv, DecisionIsMade, MadeOfTrail
    <2>2. PICK trail : trail = TrailOf(moments)  OBVIOUS
    <2>3. PICK out : out = AuditSearch(trail, r.tenant, r.since, r.limit, r.now)  OBVIOUS
    <2>4. /\ decision.input.trail = trail /\ decision.input.read = r /\ decision.output = out
      BY <2>1, <2>2, <2>3
    <2>5. PICK mine : mine = {e \in trail : e.tenant = r.tenant}  OBVIOUS
    <2>6. r.since \in Nat /\ r.limit \in Nat /\ r.now \in Nat  BY MomentAssumption
    <2>7. /\ IsFiniteSet(trail)
          /\ \A e \in trail : IsRecord(e)
      BY <2>2, TrailIs
    <2>8. AUDIT_WINDOW \in Nat  BY DEF AUDIT_WINDOW
    <2>9. PICK due : due = Due(trail, r.tenant, r.since, r.now)  OBVIOUS
    <2>10. ASSUME NEW e \in trail PROVE e.occurred_at \in Int
      <3>1. e.occurred_at \in Nat  BY <2>7, Zenon DEF IsRecord
      <3> QED  BY <3>1
    <2>11. /\ out # {}
           /\ \A S \in out :
                 /\ S \subseteq due
                 /\ \A e \in due \ S : /\ Cardinality(S) = r.limit
                                      /\ \A f \in S : f.occurred_at >= e.occurred_at
      BY <2>3, <2>6, <2>7, <2>9, <2>10, SearchIsNewest
    <2>12. due \subseteq mine /\ mine \subseteq trail  BY <2>5, <2>9 DEF Due
    <2>13. ASSUME NEW e \in mine, e \notin due
           PROVE  e.occurred_at < r.since \/ e.occurred_at + AUDIT_WINDOW <= r.now
      <3>1. e.occurred_at \in Nat /\ e.retain_until = e.occurred_at + AUDIT_WINDOW
        BY <2>7, <2>12, Zenon DEF IsRecord
      <3>2. ~(e.occurred_at >= r.since) \/ ~(e.retain_until > r.now)
        BY <2>5, <2>9, <2>13 DEF Due
      <3> QED  BY <2>6, <2>8, <3>1, <3>2
    <2>14. ASSUME NEW S \in out
           PROVE  /\ S \subseteq mine
                  /\ \A e \in mine \ S :
                       \/ e.occurred_at < r.since
                       \/ e.occurred_at + AUDIT_WINDOW <= r.now
                       \/ Cardinality(S) = r.limit
                          /\ \A f \in S : f.occurred_at >= e.occurred_at
                  /\ \A e \in S : e.action # "execution.recorded" =>
                                      e.by.execution_method = "none"
      <3>1. S \subseteq mine  BY <2>11, <2>12
      <3>2. \A e \in S : e.action # "execution.recorded" => e.by.execution_method = "none"
        BY <2>7, <2>12, <3>1, Zenon DEF IsRecord
      <3> QED  BY <2>11, <2>13, <3>1, <3>2, Zenon
    <2> QED  BY <2>4, <2>5, <2>11, <2>14, Zenon DEF AuditContract
  <1>2. IInv => AuditContract  BY <1>1 DEF AuditContract
  <1> QED  BY <1>2, DecisionsInvariant, PTL

-----------------------------------------------------------------------------
(* Counting and choosing. *)

(* What holds of zero and of every successor holds of every number. *)
LEMMA FromZeroOn ==
    ASSUME NEW T, 0 \in T, \A n \in Nat : n \in T => n + 1 \in T
    PROVE  \A n \in Nat : n \in T
  <1> SUFFICES ASSUME NEW k \in Nat, k \notin T PROVE FALSE  OBVIOUS
  <1> DEFINE R == OpToRel(<, Nat)
             Z == {n \in Nat : n \notin T}
  <1>1. IsWellFoundedOn(R, Nat)  BY NatLessThanWellFounded
  <1>2. Z \subseteq Nat /\ Z # {}  OBVIOUS
  <1> HIDE DEF R
  <1>3. PICK m \in Z : \A n \in Z : ~(<<n, m>> \in R)  BY <1>1, <1>2, WFMin
  <1>4. \A n \in Z : n < m => <<n, m>> \in R  BY <1>3 DEF R, OpToRel
  <1>5. m # 0 /\ m - 1 \in Nat /\ m - 1 < m  BY <1>3
  <1>6. m - 1 \in T  BY <1>3, <1>4, <1>5
  <1>7. (m - 1) + 1 \in T  BY <1>5, <1>6
  <1>8. (m - 1) + 1 = m  BY <1>3
  <1> QED  BY <1>3, <1>7, <1>8

Both(part, s) == UNION {part[r] : r \in s}

(* The total of the sizes of disjoint sets is the size of them all. *)
LEMMA TotalOfParts ==
    ASSUME NEW rows, IsFiniteSet(rows), NEW all, IsFiniteSet(all), NEW part, NEW column,
           \A r \in rows : part[r] \subseteq all /\ column[r] = Cardinality(part[r]),
           \A r, t \in rows : r # t => part[r] \cap part[t] = {}
    PROVE  Total(rows, column) = Cardinality(Both(part, rows))
  <1> DEFINE one(s) == CHOOSE x \in s : TRUE
             size == [s \in SUBSET rows |-> Cardinality(Both(part, s))]
             Is(it) == it = [s \in SUBSET rows |-> IF s = {} THEN 0
                                 ELSE column[one(s)] + it[s \ {one(s)}]]
  <1>1. PICK it : it = CHOOSE f : Is(f)  OBVIOUS
  <1>2. Total(rows, column) = it[rows]
    BY <1>1 DEF Total, Sets!MapThenSumSet, Sets!MapThenFoldSet
  <1>3. ASSUME NEW s \in SUBSET rows
        PROVE  size[s] = IF s = {} THEN 0 ELSE column[one(s)] + size[s \ {one(s)}]
    <2>1. CASE s = {}
      <3>1. Both(part, s) = {}  BY <2>1 DEF Both
      <3> QED  BY <2>1, <3>1, FS_EmptySet
    <2>2. CASE s # {}
      <3>1. PICK x : x = one(s)  OBVIOUS
      <3>2. x \in s  BY <2>2, <3>1
      <3>3. Both(part, s) = part[x] \cup Both(part, s \ {x})  BY <3>2 DEF Both
      <3>4. part[x] \cap Both(part, s \ {x}) = {}  BY <3>2 DEF Both
      <3>5. part[x] \subseteq all /\ Both(part, s \ {x}) \subseteq all  BY <3>2 DEF Both
      <3>6. IsFiniteSet(part[x]) /\ IsFiniteSet(Both(part, s \ {x}))  BY <3>5, FS_Subset
      <3>7. Cardinality(Both(part, s)) =
               Cardinality(part[x]) + Cardinality(Both(part, s \ {x}))
              - Cardinality(part[x] \cap Both(part, s \ {x}))
        BY <3>3, <3>6, FS_Union
      <3>8. Cardinality(part[x]) \in Nat /\ Cardinality(Both(part, s \ {x})) \in Nat
        BY <3>6, FS_CardinalityType
      <3>9. Cardinality(Both(part, s)) = Cardinality(part[x]) + Cardinality(Both(part, s \ {x}))
        <4>1. Cardinality(part[x] \cap Both(part, s \ {x})) = 0  BY <3>4, FS_EmptySet
        <4> HIDE DEF one, size
        <4> QED  BY <3>7, <3>8, <4>1
      <3>10. column[x] = Cardinality(part[x])  BY <3>2
      <3>11. size[s \ {x}] = Cardinality(Both(part, s \ {x})) /\ size[s] = Cardinality(Both(part, s))
        OBVIOUS
      <3> HIDE DEF size, one
      <3> QED  BY <2>2, <3>1, <3>9, <3>10, <3>11
    <2> QED  BY <2>1, <2>2
  <1>4. Is(size)
    <2> HIDE DEF one
    <2>1. size = [s \in SUBSET rows |-> size[s]]  OBVIOUS
    <2> HIDE DEF size
    <2> QED  BY <1>3, <2>1
  <1>5. Is(it)
    <2> HIDE DEF Is, size
    <2> QED  BY <1>1, <1>4, Zenon
  <1>6. \A s \in SUBSET rows : it[s] = IF s = {} THEN 0
                                 ELSE column[one(s)] + it[s \ {one(s)}]
    <2> HIDE DEF one
    <2> QED  BY <1>5
  <1> DEFINE T == {n \in Nat : \A s \in SUBSET rows : Cardinality(s) = n => it[s] = size[s]}
  <1>7. \A s \in SUBSET rows : IsFiniteSet(s) /\ Cardinality(s) \in Nat
    BY FS_Subset, FS_CardinalityType
  <1> HIDE DEF size, Is
  <1>8. 0 \in T
    <2> SUFFICES ASSUME NEW s \in SUBSET rows, Cardinality(s) = 0 PROVE it[s] = size[s]
      OBVIOUS
    <2>1. s = {}  BY <1>7, FS_EmptySet
    <2> QED  BY <1>3, <1>6, <2>1
  <1>9. ASSUME NEW n \in Nat, n \in T PROVE n + 1 \in T
    <2> SUFFICES ASSUME NEW s \in SUBSET rows, Cardinality(s) = n + 1 PROVE it[s] = size[s]
      OBVIOUS
    <2>1. PICK x : x = one(s)  OBVIOUS
    <2>2. s # {}  BY FS_EmptySet
    <2>3. x \in s  BY <2>1, <2>2
    <2>4. Cardinality(s \ {x}) = n  BY <1>7, <2>3, FS_RemoveElement
    <2>5. it[s \ {x}] = size[s \ {x}]  BY <1>9, <2>4
    <2> HIDE DEF one
    <2>6. it[s] = column[x] + it[s \ {x}]  BY <1>6, <2>1, <2>2
    <2>7. size[s] = column[x] + size[s \ {x}]  BY <1>3, <2>1, <2>2
    <2> QED  BY <2>5, <2>6, <2>7
  <1> HIDE DEF T
  <1>10. \A n \in Nat : n \in T  BY <1>8, <1>9, FromZeroOn
  <1>11. Cardinality(rows) \in T  BY <1>7, <1>10
  <1>12. it[rows] = size[rows]  BY <1>11 DEF T
  <1> QED  BY <1>2, <1>12 DEF size

(* A finite strict order has a first. *)
LEMMA FirstExists ==
    ASSUME NEW S, NEW R, IsFiniteSet(S), S # {}, IsStrictOrder(S, R)
    PROVE  \E a \in S : \A b \in S : b = a \/ <<a, b>> \in R
  <1>1. PICK n : n = Cardinality(S)  OBVIOUS
  <1>2. n \in Nat /\ n # 0  BY <1>1, FS_CardinalityType, FS_EmptySet
  <1>3. 1 \in 1..n /\ 1 - 1 = 0  BY <1>2
  <1>4. PICK a \in S : Cardinality(Down(S, R, a)) = 0  BY <1>1, <1>3, EveryPlaceIsTaken
  <1>5. Down(S, R, a) \in SUBSET S  BY DEF Down
  <1>6. Down(S, R, a) = {}  BY <1>4, <1>5, FS_Subset, FS_EmptySet
  <1> QED  BY <1>6 DEF IsStrictOrder, Down

LEMMA LargestExists ==
    ASSUME NEW S, IsFiniteSet(S), S # {}, S \subseteq Int
    PROVE  \E a \in S : \A b \in S : a >= b
  <1> DEFINE R == {p \in S \X S : p[1] > p[2]}
  <1>1. \A a, b \in S : <<a, b>> \in R <=> a > b  OBVIOUS
  <1> HIDE DEF R
  <1>2. IsStrictOrder(S, R)  BY <1>1 DEF IsStrictOrder
  <1>3. PICK a \in S : \A b \in S : b = a \/ <<a, b>> \in R  BY <1>2, FirstExists
  <1>4. ASSUME NEW b \in S PROVE a >= b
    <2>1. a \in Int /\ b \in Int  OBVIOUS
    <2>2. b = a \/ a > b  BY <1>1, <1>3
    <2> QED  BY <2>1, <2>2
  <1> QED  BY <1>4

LEMMA SmallestExists ==
    ASSUME NEW S, IsFiniteSet(S), S # {}, S \subseteq Int
    PROVE  \E a \in S : \A b \in S : a <= b
  <1> DEFINE R == {p \in S \X S : p[1] < p[2]}
  <1>1. \A a, b \in S : <<a, b>> \in R <=> a < b  OBVIOUS
  <1> HIDE DEF R
  <1>2. IsStrictOrder(S, R)  BY <1>1 DEF IsStrictOrder
  <1>3. PICK a \in S : \A b \in S : b = a \/ <<a, b>> \in R  BY <1>2, FirstExists
  <1>4. ASSUME NEW b \in S PROVE a <= b
    <2>1. a \in Int /\ b \in Int  OBVIOUS
    <2>2. b = a \/ a < b  BY <1>1, <1>3
    <2> QED  BY <2>1, <2>2
  <1> QED  BY <1>4

-----------------------------------------------------------------------------
(* The dashboard. *)

OpenedOn(a, r) == {s \in a.sessions : s.tenant = r.tenant /\ Day(s.created_at) = r.day}

DecidedOn(a, r) == {x \in a.approvals : x.tenant = r.tenant /\ x.decided_at # NULL
                                            /\ Day(x.decided_at) = r.day}

LeftOn(a, r) == {x \in DecidedOn(a, r) : NotExecuted(x, a.works)}

WindowsOf(a) ==
    {[tenant |-> s.tenant, day |-> Day(s.created_at)] : s \in a.sessions}
        \cup {[tenant |-> x.tenant, day |-> Day(x.requested_at)] : x \in a.approvals}

(* A row of the roll-up counts what happened on its day. *)
IsTile(a, r) ==
    /\ r.session_count = Cardinality(OpenedOn(a, r))
    /\ r.approval_count = Cardinality(DecidedOn(a, r))
    /\ r.unexecuted_approval_count = Cardinality(LeftOn(a, r))

LEMMA RollupIs ==
    ASSUME NEW a \in Approvals, NEW rollup,
           rollup = DashboardRollup(a.sessions, a.approvals, a.works)
    PROVE  /\ IsFiniteSet(rollup)
           /\ \A r \in rollup : IsTile(a, r) /\ r.day \in Int
           /\ \A r, t \in rollup : r.tenant = t.tenant /\ r.day = t.day => r = t
           /\ \A s \in a.sessions : \E r \in rollup : s \in OpenedOn(a, r)
           /\ \A x \in a.approvals : \E r \in rollup : r.tenant = x.tenant
                                                         /\ r.day = Day(x.requested_at)
           /\ \A r \in rollup :
                 \/ \E s \in a.sessions : s \in OpenedOn(a, r)
                 \/ \E x \in a.approvals : r.tenant = x.tenant /\ r.day = Day(x.requested_at)
  <1> DEFINE tile(b) == [tenant |-> b.tenant, day |-> b.day,
                         session_count |-> Cardinality(OpenedOn(a, b)),
                         approval_count |-> Cardinality(DecidedOn(a, b)),
                         unexecuted_approval_count |-> Cardinality(LeftOn(a, b))]
  <1>1. PICK W : W = WindowsOf(a)  OBVIOUS
  <1>2. rollup = {tile(b) : b \in W}
    BY <1>1, Zenon DEF DashboardRollup, WindowsOf, OpenedOn, DecidedOn, LeftOn
  <1>3. \A b \in W : tile(b).tenant = b.tenant /\ tile(b).day = b.day
    OBVIOUS
  <1>4. \A b, r : r.tenant = b.tenant /\ r.day = b.day =>
            /\ OpenedOn(a, r) = OpenedOn(a, b) /\ DecidedOn(a, r) = DecidedOn(a, b)
            /\ LeftOn(a, r) = LeftOn(a, b)
    BY DEF OpenedOn, DecidedOn, LeftOn
  <1>5. \A b \in W : IsTile(a, tile(b))
    <2> SUFFICES ASSUME NEW b \in W PROVE IsTile(a, tile(b))  OBVIOUS
    <2>1. PICK r : r = tile(b)  OBVIOUS
    <2>2. r.tenant = b.tenant /\ r.day = b.day  BY <2>1
    <2>3. /\ r.session_count = Cardinality(OpenedOn(a, b))
          /\ r.approval_count = Cardinality(DecidedOn(a, b))
          /\ r.unexecuted_approval_count = Cardinality(LeftOn(a, b))
      BY <2>1
    <2>4. /\ OpenedOn(a, r) = OpenedOn(a, b) /\ DecidedOn(a, r) = DecidedOn(a, b)
          /\ LeftOn(a, r) = LeftOn(a, b)
      BY <1>4, <2>2
    <2>5. IsTile(a, r)  BY <2>3, <2>4 DEF IsTile
    <2> QED  BY <2>1, <2>5
  <1>6. \A s \in a.sessions : s.created_at \in Nat  BY ApprovalAssumption
  <1>7. \A x \in a.approvals : x.requested_at \in Nat  BY ApprovalAssumption
  <1>8. \A b \in W : b = [tenant |-> b.tenant, day |-> b.day] /\ b.day \in Int
    BY <1>1, <1>6, <1>7 DEF WindowsOf, Day
  <1>9. /\ \A s \in a.sessions : \E b \in W : b.tenant = s.tenant /\ b.day = Day(s.created_at)
        /\ \A x \in a.approvals : \E b \in W : b.tenant = x.tenant /\ b.day = Day(x.requested_at)
        /\ \A b \in W :
              \/ \E s \in a.sessions : b.tenant = s.tenant /\ b.day = Day(s.created_at)
              \/ \E x \in a.approvals : b.tenant = x.tenant /\ b.day = Day(x.requested_at)
    <2> DEFINE at(t, i) == [tenant |-> t, day |-> Day(i)]
    <2>1. \A t, i : at(t, i).tenant = t /\ at(t, i).day = Day(i)  OBVIOUS
    <2>2. W = {at(s.tenant, s.created_at) : s \in a.sessions}
                 \cup {at(x.tenant, x.requested_at) : x \in a.approvals}
      BY <1>1 DEF WindowsOf
    <2> HIDE DEF at
    <2>3. \A s \in a.sessions : \E b \in W : b.tenant = s.tenant /\ b.day = Day(s.created_at)
      BY <2>1, <2>2
    <2>4. \A x \in a.approvals : \E b \in W : b.tenant = x.tenant /\ b.day = Day(x.requested_at)
      BY <2>1, <2>2
    <2>5. ASSUME NEW b \in W
          PROVE  \/ \E s \in a.sessions : b.tenant = s.tenant /\ b.day = Day(s.created_at)
                 \/ \E x \in a.approvals : b.tenant = x.tenant /\ b.day = Day(x.requested_at)
      BY <2>1, <2>2
    <2> QED  BY <2>3, <2>4, <2>5
  <1>10. IsFiniteSet(W)
    <2>1. IsFiniteSet(a.sessions) /\ IsFiniteSet(a.approvals)  BY ApprovalAssumption
    <2>2. PICK P : P = {[tenant |-> s.tenant, day |-> Day(s.created_at)] : s \in a.sessions}
      OBVIOUS
    <2>3. PICK Q : Q = {[tenant |-> x.tenant, day |-> Day(x.requested_at)] : x \in a.approvals}
      OBVIOUS
    <2>4. PICK f : f = [s \in a.sessions |-> [tenant |-> s.tenant, day |-> Day(s.created_at)]]
      OBVIOUS
    <2>5. PICK g : g = [x \in a.approvals |-> [tenant |-> x.tenant, day |-> Day(x.requested_at)]]
      OBVIOUS
    <2>6. f \in Surjection(a.sessions, P)  BY <2>2, <2>4 DEF Surjection
    <2>7. g \in Surjection(a.approvals, Q)  BY <2>3, <2>5 DEF Surjection
    <2>8. IsFiniteSet(P) /\ IsFiniteSet(Q)  BY <2>1, <2>6, <2>7, FS_Surjection
    <2>9. W = P \cup Q  BY <1>1, <2>2, <2>3 DEF WindowsOf
    <2> QED  BY <2>8, <2>9, FS_Union
  <1> HIDE DEF tile
  <1>11. IsFiniteSet(rollup)
    <2>1. PICK f : f = [b \in W |-> tile(b)]  OBVIOUS
    <2>2. f \in Surjection(W, rollup)  BY <1>2, <2>1 DEF Surjection
    <2> QED  BY <1>10, <2>2, FS_Surjection
  <1>12. \A r \in rollup : \E b \in W : r = tile(b) /\ r.tenant = b.tenant /\ r.day = b.day
    BY <1>2, <1>3
  <1>13. \A b \in W : \E r \in rollup : r.tenant = b.tenant /\ r.day = b.day
    BY <1>2, <1>3
  <1>14. \A r \in rollup : IsTile(a, r) /\ r.day \in Int  BY <1>5, <1>8, <1>12
  <1>15. ASSUME NEW r \in rollup, NEW t \in rollup, r.tenant = t.tenant, r.day = t.day
         PROVE  r = t
    <2>1. PICK b \in W : r = tile(b) /\ r.tenant = b.tenant /\ r.day = b.day  BY <1>12
    <2>2. PICK c \in W : t = tile(c) /\ t.tenant = c.tenant /\ t.day = c.day  BY <1>12
    <2>3. b = c  BY <1>8, <1>15, <2>1, <2>2
    <2> QED  BY <2>1, <2>2, <2>3
  <1>16. \A s \in a.sessions : \E r \in rollup : s \in OpenedOn(a, r)
    BY <1>9, <1>13 DEF OpenedOn
  <1>17. \A x \in a.approvals : \E r \in rollup : r.tenant = x.tenant /\ r.day = Day(x.requested_at)
    BY <1>9, <1>13
  <1>18. ASSUME NEW r \in rollup
         PROVE  \/ \E s \in a.sessions : s \in OpenedOn(a, r)
                \/ \E x \in a.approvals : r.tenant = x.tenant /\ r.day = Day(x.requested_at)
    BY <1>9, <1>12 DEF OpenedOn
  <1> QED  BY <1>11, <1>14, <1>15, <1>16, <1>17, <1>18

(* An approval that was given stands unexecuted while its work item, the only *)
(* one of its id, has not been executed.                                      *)
LEMMA NotExecutedIs ==
    ASSUME NEW a \in Approvals, NEW x \in a.approvals
    PROVE  NotExecuted(x, a.works) <=>
               x.verdict = "approved" /\ \A w \in a.works : w.id = x.work => w.state # "executed"
  <1>1. PICK w \in a.works : w.id = x.work /\ w.tenant = x.tenant  BY ApprovalAssumption
  <1>2. \A v \in a.works : v.id = x.work => v = w  BY <1>1, ApprovalAssumption
  <1> QED  BY <1>1, <1>2 DEF NotExecuted

(* The lateral join finds an operation of the work item when it has one. *)
LEMMA LatestIs ==
    ASSUME NEW a \in Approvals, NEW x \in a.approvals
    PROVE  /\ LatestOperation(x, a.operations) # NULL => \E o \in a.operations : o.work = x.work
           /\ LatestOperation(x, a.operations) = NULL => ~\E o \in a.operations : o.work = x.work
  <1>1. PICK mine : mine = {o \in a.operations : o.work = x.work /\ o.tenant = x.tenant}
    OBVIOUS
  <1>2. LatestOperation(x, a.operations) =
            IF mine = {} THEN NULL
            ELSE CHOOSE o \in mine : \A p \in mine : o.created_at >= p.created_at
    BY <1>1 DEF LatestOperation
  <1>3. ASSUME NEW o \in a.operations, o.work = x.work PROVE o \in mine
    <2>1. PICK w \in a.works : w.id = x.work /\ w.tenant = x.tenant  BY ApprovalAssumption
    <2>2. PICK v \in a.works : v.id = o.work /\ v.tenant = o.tenant  BY ApprovalAssumption
    <2>3. v = w  BY <1>3, <2>1, <2>2, ApprovalAssumption
    <2> QED  BY <1>1, <1>3, <2>1, <2>2, <2>3
  <1>4. ASSUME mine # {}
        PROVE  LatestOperation(x, a.operations) \in mine
    <2>1. PICK times : times = {o.created_at : o \in mine}  OBVIOUS
    <2>2. mine \in SUBSET a.operations /\ IsFiniteSet(a.operations)
      BY <1>1, ApprovalAssumption
    <2>3. IsFiniteSet(mine)  BY <2>2, FS_Subset
    <2>4. PICK f : f = [o \in mine |-> o.created_at]  OBVIOUS
    <2>5. f \in Surjection(mine, times)  BY <2>1, <2>4 DEF Surjection
    <2>6. IsFiniteSet(times)  BY <2>3, <2>5, FS_Surjection
    <2>7. \A o \in mine : o.created_at \in Nat  BY <2>2, ApprovalAssumption
    <2>8. times # {} /\ times \subseteq Int  BY <1>4, <2>1, <2>7
    <2>9. PICK t \in times : \A u \in times : t >= u  BY <2>6, <2>8, LargestExists
    <2>10. \E o \in mine : \A p \in mine : o.created_at >= p.created_at  BY <2>1, <2>9
    <2>11. PICK latest : latest = CHOOSE o \in mine : \A p \in mine : o.created_at >= p.created_at
      OBVIOUS
    <2>12. latest \in mine  BY <2>10, <2>11, Zenon
    <2> QED  BY <1>2, <1>4, <2>11, <2>12
  <1>5. \A o \in mine : o \in a.operations /\ o.work = x.work /\ o # NULL
    BY <1>1, ApprovalAssumption
  <1> QED  BY <1>2, <1>3, <1>4, <1>5

(* A decision is counted when the organisation opened a session or asked for  *)
(* an approval on its day.                                                    *)
CountedIn(a) ==
    {x \in a.approvals :
        /\ x.decided_at # NULL
        /\ \/ \E s \in a.sessions : Day(s.created_at) = Day(x.decided_at) /\ s.tenant = x.tenant
           \/ \E y \in a.approvals : Day(y.requested_at) = Day(x.decided_at)
                                         /\ y.tenant = x.tenant}

WaitingIn(a) ==
    {x \in a.approvals : /\ x.verdict = "approved"
                         /\ \A w \in a.works : w.id = x.work => w.state # "executed"}

(* A column that counts, row by row, disjoint parts of a whole. *)
CountsParts(rollup, column, part, all, whole) ==
    /\ \A r \in rollup : part[r] \subseteq all /\ column[r] = Cardinality(part[r])
    /\ \A r, t \in rollup : part[r] \cap part[t] # {} => r = t
    /\ \A x : x \in whole <=> \E r \in rollup : x \in part[r]

LEMMA ColumnAddsUp ==
    ASSUME NEW rollup, IsFiniteSet(rollup), NEW all, IsFiniteSet(all), NEW part, NEW column,
           NEW whole, CountsParts(rollup, column, part, all, whole)
    PROVE  Total(rollup, column) = Cardinality(whole) /\ Cardinality(whole) \in Nat
  <1>1. whole = Both(part, rollup)
    <2>1. \A x : x \in Both(part, rollup) <=> \E r \in rollup : x \in part[r]  BY DEF Both
    <2> QED  BY <2>1 DEF CountsParts
  <1>2. \A r, t \in rollup : r # t => part[r] \cap part[t] = {}  BY DEF CountsParts
  <1>3. Total(rollup, column) = Cardinality(Both(part, rollup))
    BY <1>2, TotalOfParts DEF CountsParts
  <1>4. whole \subseteq all  BY DEF CountsParts
  <1>5. IsFiniteSet(whole)  BY <1>4, FS_Subset
  <1> QED  BY <1>1, <1>3, <1>5, FS_CardinalityType

LEMMA PlatformAddsUp ==
    ASSUME NEW a \in Approvals, NEW rollup, rollup # {},
           rollup = DashboardRollup(a.sessions, a.approvals, a.works)
    PROVE  /\ GetPlatform(rollup) # NULL
           /\ GetPlatform(rollup).sessions = Cardinality(a.sessions)
           /\ GetPlatform(rollup).approvals = Cardinality(CountedIn(a))
           /\ GetPlatform(rollup).unexecuted = Cardinality(CountedIn(a) \cap WaitingIn(a))
  <1>1. IsFiniteSet(a.sessions) /\ IsFiniteSet(a.approvals)  BY ApprovalAssumption
  <1>2. /\ IsFiniteSet(rollup)
        /\ \A r \in rollup : IsTile(a, r) /\ r.day \in Int
        /\ \A r, t \in rollup : r.tenant = t.tenant /\ r.day = t.day => r = t
        /\ \A s \in a.sessions : \E r \in rollup : s \in OpenedOn(a, r)
        /\ \A x \in a.approvals : \E r \in rollup : r.tenant = x.tenant
                                                      /\ r.day = Day(x.requested_at)
        /\ \A r \in rollup :
              \/ \E s \in a.sessions : s \in OpenedOn(a, r)
              \/ \E x \in a.approvals : r.tenant = x.tenant /\ r.day = Day(x.requested_at)
    BY RollupIs
  <1>3. PICK c1, c2, c3 : /\ c1 = [r \in rollup |-> r.session_count]
                          /\ c2 = [r \in rollup |-> r.approval_count]
                          /\ c3 = [r \in rollup |-> r.unexecuted_approval_count]
    OBVIOUS
  <1>4. Total(rollup, c1) = Cardinality(a.sessions) /\ Cardinality(a.sessions) \in Nat
    <2>1. PICK part : part = [r \in rollup |-> OpenedOn(a, r)]  OBVIOUS
    <2>2. \A r \in rollup : part[r] \subseteq a.sessions /\ c1[r] = Cardinality(part[r])
      BY <1>2, <1>3, <2>1 DEF IsTile, OpenedOn
    <2>3. \A r, t \in rollup : part[r] \cap part[t] # {} => r = t
      BY <1>2, <2>1 DEF OpenedOn
    <2>4. \A x : x \in a.sessions <=> \E r \in rollup : x \in part[r]
      <3>1. \A x \in a.sessions : \E r \in rollup : x \in part[r]  BY <1>2, <2>1
      <3> QED  BY <2>2, <3>1
    <2>5. CountsParts(rollup, c1, part, a.sessions, a.sessions)
      BY <2>2, <2>3, <2>4, Zenon DEF CountsParts
    <2> QED  BY <1>1, <1>2, <2>5, ColumnAddsUp
  <1>5. \A r \in rollup : DecidedOn(a, r) \subseteq CountedIn(a)
    <2> SUFFICES ASSUME NEW r \in rollup, NEW x \in DecidedOn(a, r) PROVE x \in CountedIn(a)
      OBVIOUS
    <2>1. x \in a.approvals /\ x.tenant = r.tenant /\ x.decided_at # NULL /\ Day(x.decided_at) = r.day
      BY DEF DecidedOn
    <2>2. CASE \E s \in a.sessions : s \in OpenedOn(a, r)
      BY <2>1, <2>2 DEF OpenedOn, CountedIn
    <2>3. CASE \E y \in a.approvals : r.tenant = y.tenant /\ r.day = Day(y.requested_at)
      BY <2>1, <2>3 DEF CountedIn
    <2> QED  BY <1>2, <2>2, <2>3
  <1>6. \A x \in CountedIn(a) : \E r \in rollup : x \in DecidedOn(a, r)
    <2> SUFFICES ASSUME NEW x \in CountedIn(a) PROVE \E r \in rollup : x \in DecidedOn(a, r)
      OBVIOUS
    <2>1. x \in a.approvals /\ x.decided_at # NULL  BY DEF CountedIn
    <2>2. \E r \in rollup : r.tenant = x.tenant /\ r.day = Day(x.decided_at)
      <3>1. CASE \E s \in a.sessions : Day(s.created_at) = Day(x.decided_at) /\ s.tenant = x.tenant
        BY <1>2, <3>1 DEF OpenedOn
      <3>2. CASE \E y \in a.approvals : /\ Day(y.requested_at) = Day(x.decided_at)
                                       /\ y.tenant = x.tenant
        BY <1>2, <3>2
      <3> QED  BY <3>1, <3>2 DEF CountedIn
    <2> QED  BY <2>1, <2>2 DEF DecidedOn
  <1>7. \A r, t \in rollup : DecidedOn(a, r) \cap DecidedOn(a, t) # {} => r = t
    BY <1>2 DEF DecidedOn
  <1>8. \A r \in rollup : DecidedOn(a, r) \subseteq a.approvals
    BY DEF DecidedOn
  <1>9. Total(rollup, c2) = Cardinality(CountedIn(a)) /\ Cardinality(CountedIn(a)) \in Nat
    <2>1. PICK part : part = [r \in rollup |-> DecidedOn(a, r)]  OBVIOUS
    <2>2. \A r \in rollup : part[r] \subseteq a.approvals /\ c2[r] = Cardinality(part[r])
      BY <1>2, <1>3, <1>8, <2>1 DEF IsTile
    <2>3. \A r, t \in rollup : part[r] \cap part[t] # {} => r = t  BY <1>7, <2>1
    <2>4. \A x : x \in CountedIn(a) <=> \E r \in rollup : x \in part[r]  BY <1>5, <1>6, <2>1
    <2>5. CountsParts(rollup, c2, part, a.approvals, CountedIn(a))
      BY <2>2, <2>3, <2>4, Zenon DEF CountsParts
    <2> QED  BY <1>1, <1>2, <2>5, ColumnAddsUp
  <1>10. /\ Total(rollup, c3) = Cardinality(CountedIn(a) \cap WaitingIn(a))
         /\ Cardinality(CountedIn(a) \cap WaitingIn(a)) \in Nat
    <2>1. PICK part : part = [r \in rollup |-> LeftOn(a, r)]  OBVIOUS
    <2>2. \A r : LeftOn(a, r) \subseteq DecidedOn(a, r)  BY DEF LeftOn
    <2>3. \A r \in rollup : part[r] \subseteq a.approvals /\ c3[r] = Cardinality(part[r])
      BY <1>2, <1>3, <1>8, <2>1, <2>2 DEF IsTile
    <2>4. \A r, t \in rollup : part[r] \cap part[t] # {} => r = t  BY <1>7, <2>1, <2>2
    <2>5. \A x \in a.approvals : x \in WaitingIn(a) <=> NotExecuted(x, a.works)
      BY NotExecutedIs DEF WaitingIn
    <2>6. \A r \in rollup : \A x : x \in part[r] <=> x \in DecidedOn(a, r) /\ x \in WaitingIn(a)
      BY <1>8, <2>1, <2>5 DEF LeftOn
    <2>7. \A x : x \in CountedIn(a) \cap WaitingIn(a) <=> \E r \in rollup : x \in part[r]
      BY <1>5, <1>6, <2>6
    <2>8. CountsParts(rollup, c3, part, a.approvals, CountedIn(a) \cap WaitingIn(a))
      BY <2>3, <2>4, <2>7, Zenon DEF CountsParts
    <2> QED  BY <1>1, <1>2, <2>8, ColumnAddsUp
  <1>11. PICK days : days = {r.day : r \in rollup}  OBVIOUS
  <1>12. Sets!Min(days) \in Int /\ Sets!Max(days) \in Int
    <2>1. PICK f : f = [r \in rollup |-> r.day]  OBVIOUS
    <2>2. f \in Surjection(rollup, days)  BY <1>11, <2>1 DEF Surjection
    <2>3. IsFiniteSet(days)  BY <1>2, <2>2, FS_Surjection
    <2>4. days # {} /\ days \subseteq Int  BY <1>2, <1>11
    <2>5. \E x \in days : \A y \in days : x <= y  BY <2>3, <2>4, SmallestExists
    <2>6. \E x \in days : \A y \in days : x >= y  BY <2>3, <2>4, LargestExists
    <2>7. Sets!Min(days) \in days  BY <2>5 DEF Sets!Min
    <2>8. Sets!Max(days) \in days  BY <2>6 DEF Sets!Max
    <2> QED  BY <2>4, <2>7, <2>8
  <1>13. PICK p : p = GetPlatform(rollup)  OBVIOUS
  <1>14. PICK w, v, n1, n2, n3 :
            /\ w = Sets!Min(days) /\ v = Sets!Max(days)
            /\ n1 = Total(rollup, c1) /\ n2 = Total(rollup, c2) /\ n3 = Total(rollup, c3)
    OBVIOUS
  <1>15. p = [window_start |-> w, window_end |-> v + 1, sessions |-> n1, approvals |-> n2,
              unexecuted |-> n3]
    BY <1>3, <1>11, <1>13, <1>14 DEF GetPlatform
  <1>16. /\ w \in Int /\ v + 1 \in Int /\ n1 \in Nat /\ n2 \in Nat /\ n3 \in Nat
    BY <1>4, <1>9, <1>10, <1>12, <1>14
  <1>17. p # NULL
    <2>1. p \in [window_start : Int, window_end : Int, sessions : Nat, approvals : Nat,
                 unexecuted : Nat]
      BY <1>15, <1>16
    <2> QED  BY <2>1, ApprovalAssumption
  <1>18. p.sessions = n1 /\ p.approvals = n2 /\ p.unexecuted = n3  BY <1>15
  <1> QED  BY <1>4, <1>9, <1>10, <1>13, <1>14, <1>17, <1>18

(* For every content of the tables: no work item is both to be decided and to *)
(* be executed, what is to be executed is what was approved and was not       *)
(* executed, and the tile of the platform counts every session once and every *)
(* decision once, but for those of a day without a row (the views             *)
(* approval_queue, approval_unexecuted and dashboard_rollup,                  *)
(* TenantReadModel.GetPlatformAsync).                                         *)
THEOREM DashboardsHold == Spec => []DashboardContract
  <1>1. ASSUME IInv, Taken("dashboard") PROVE DashboardContract
    <2>1. PICK a \in Approvals : decision = [kind |-> "dashboard", input |-> a, output |-> Tiles(a)]
      BY <1>1, Zenon DEF IInv, DecisionIsMade, MadeOfDashboard
    <2>2. PICK queue, left, rollup, platform :
              /\ queue = ApprovalQueue(a.approvals, a.operations)
              /\ left = ApprovalUnexecuted(a.approvals, a.works, a.operations)
              /\ rollup = DashboardRollup(a.sessions, a.approvals, a.works)
              /\ platform = GetPlatform(rollup)
      OBVIOUS
    <2>3. PICK out : out = Tiles(a)  OBVIOUS
    <2>4. decision.input = a /\ decision.output = out  BY <2>1, <2>3
    <2>5. out.queue = queue /\ out.unexecuted = left /\ out.platform = platform
      BY <2>2, <2>3 DEF Tiles
    <2>6. {x.work : x \in queue} \cap {x.work : x \in left} = {}
      <3> SUFFICES ASSUME NEW x \in queue, NEW y \in left PROVE x.work # y.work  OBVIOUS
      <3>1. x \in a.approvals /\ x.decided_at = NULL  BY <2>2 DEF ApprovalQueue
      <3>2. y \in a.approvals /\ y.verdict = "approved"
        BY <2>2 DEF ApprovalUnexecuted, NotExecuted
      <3>3. "approved" # NULL  BY GateNull DEF StaffVerdicts
      <3>4. x.verdict = NULL  BY <3>1, ApprovalAssumption
      <3>5. x # y  BY <3>2, <3>3, <3>4
      <3> QED  BY <3>1, <3>2, <3>5, ApprovalAssumption
    <2>7. left \subseteq WaitingIn(a)
      BY <2>2, NotExecutedIs DEF ApprovalUnexecuted, WaitingIn
    <2>8. \A x \in WaitingIn(a) \ left : ~\E o \in a.operations : o.work = x.work
      <3> SUFFICES ASSUME NEW x \in WaitingIn(a), x \notin left
                   PROVE  ~\E o \in a.operations : o.work = x.work
        OBVIOUS
      <3>1. x \in a.approvals  BY DEF WaitingIn
      <3>2. NotExecuted(x, a.works)  BY <3>1, NotExecutedIs DEF WaitingIn
      <3>3. LatestOperation(x, a.operations) = NULL
        BY <2>2, <3>1, <3>2 DEF ApprovalUnexecuted
      <3> QED  BY <3>1, <3>3, LatestIs
    <2>9. rollup = {} <=> a.sessions \cup a.approvals = {}
      BY <2>2, RollupIs DEF OpenedOn
    <2>10. rollup = {} => platform = NULL  BY <2>2 DEF GetPlatform
    <2>11. rollup # {} => /\ platform # NULL
                          /\ platform.sessions = Cardinality(a.sessions)
                          /\ platform.approvals = Cardinality(CountedIn(a))
                          /\ platform.unexecuted = Cardinality(CountedIn(a) \cap WaitingIn(a))
      BY <2>2, PlatformAddsUp
    <2> QED
      BY <2>4, <2>5, <2>6, <2>7, <2>8, <2>9, <2>10, <2>11, Zenon
      DEF DashboardContract, CountedIn, WaitingIn
  <1>2. IInv => DashboardContract  BY <1>1 DEF DashboardContract
  <1> QED  BY <1>2, DecisionsInvariant, PTL

-----------------------------------------------------------------------------
(* Pages. *)

NoPage == [rows |-> <<>>, next |-> NULL, raised |-> FALSE]

RaisedPage == [rows |-> <<>>, next |-> NULL, raised |-> TRUE]

(* The page n of a walk whose other pages are those of f. *)
PageOf(f, n, at, sort, limit) ==
    IF n = 1 THEN TakePage(at[1], sort, NULL, limit)
    ELSE IF f[n - 1].next = NULL THEN NoPage
    ELSE TakePage(at[n], sort, f[n - 1].next, limit)

(* The walk exists: it can be built one page after another. *)
LEMMA WalkIs ==
    ASSUME NEW at, NEW L \in Nat, DOMAIN at = 1..L, NEW sort, NEW limit,
           NEW walk, walk = Walk(at, sort, limit)
    PROVE  /\ DOMAIN walk = 1..L
           /\ \A n \in 1..L : walk[n] = PageOf(walk, n, at, sort, limit)
  <1> DEFINE page(f, n) == PageOf(f, n, at, sort, limit)
             Is(f, m) == f = [n \in 1..m |-> page(f, n)]
             T == {m \in Nat : \E f : Is(f, m)}
  <1>1. walk = CHOOSE f : Is(f, L)  BY Zenon DEF Walk, PageOf, NoPage
  <1>2. \A f, g, n : n # 1 /\ f[n - 1] = g[n - 1] => page(f, n) = page(g, n)
    BY DEF PageOf
  <1>3. \A f, g : page(f, 1) = page(g, 1)  BY DEF PageOf
  <1> HIDE DEF page
  <1>4. 0 \in T
    <2>1. PICK f : f = [n \in 1..0 |-> 0]  OBVIOUS
    <2>2. f = [n \in 1..0 |-> page(f, n)]  BY <2>1
    <2> QED  BY <2>2
  <1>5. ASSUME NEW m \in Nat, m \in T PROVE m + 1 \in T
    <2>1. PICK f : f = [n \in 1..m |-> page(f, n)]  BY <1>5
    <2>2. PICK g : g = [n \in 1..(m + 1) |-> IF n = m + 1 THEN page(f, n) ELSE f[n]]
      OBVIOUS
    <2>3. \A n \in 1..m : f[n] = page(f, n)  BY <2>1
    <2>4. \A n \in 1..m : g[n] = f[n]  BY <2>2
    <2>5. ASSUME NEW n \in 1..(m + 1) PROVE g[n] = page(g, n)
      <3>1. g[n] = page(f, n)
        <4>1. CASE n = m + 1  BY <2>2, <4>1
        <4>2. CASE n # m + 1
          <5>1. n \in 1..m  BY <4>2
          <5> QED  BY <2>3, <2>4, <5>1
        <4> QED  BY <4>1, <4>2
      <3>2. CASE n = 1  BY <1>3, <3>1, <3>2
      <3>3. CASE n # 1
        <4>1. n - 1 \in 1..m  BY <3>3
        <4>2. f[n - 1] = g[n - 1]  BY <2>4, <4>1
        <4> QED  BY <1>2, <3>1, <3>3, <4>2
      <3> QED  BY <3>2, <3>3
    <2>6. g = [n \in 1..(m + 1) |-> g[n]]  BY <2>2
    <2>7. g = [n \in 1..(m + 1) |-> page(g, n)]  BY <2>5, <2>6
    <2> QED  BY <2>7
  <1> HIDE DEF T
  <1>6. L \in T  BY <1>4, <1>5, FromZeroOn
  <1>7. \E f : Is(f, L)  BY <1>6 DEF T
  <1> HIDE DEF Is
  <1>8. Is(walk, L)  BY <1>1, <1>7, Zenon
  <1>9. walk = [n \in 1..L |-> page(walk, n)]  BY <1>8 DEF Is
  <1> QED  BY <1>9 DEF page

(* The rows of a collection. *)
Keyed == Int \cup {NULL}

Rows == [id : Int, key : Keyed]

LEMMA KeyBelowIsStrict ==
    /\ \A k \in Keyed : ~KeyBelow(k, k)
    /\ \A k, l \in Keyed : k = l \/ KeyBelow(k, l) \/ KeyBelow(l, k)
    /\ \A k, l, m \in Keyed : KeyBelow(k, l) /\ KeyBelow(l, m) => KeyBelow(k, m)
  <1>1. \A k \in Keyed : ~KeyBelow(k, k)  BY DEF Keyed, KeyBelow
  <1>2. \A k, l \in Keyed : k = l \/ KeyBelow(k, l) \/ KeyBelow(l, k)
    BY DEF Keyed, KeyBelow
  <1>3. \A k, l, m \in Keyed : KeyBelow(k, l) /\ KeyBelow(l, m) => KeyBelow(k, m)
    BY DEF Keyed, KeyBelow
  <1> QED  BY <1>1, <1>2, <1>3

LEMMA PrecedesIsStrict ==
    ASSUME NEW sort
    PROVE  /\ \A a \in Rows : ~Precedes(a, a, sort)
           /\ \A a, b \in Rows : a = b \/ Precedes(a, b, sort) \/ Precedes(b, a, sort)
           /\ \A a, b, c \in Rows : Precedes(a, b, sort) /\ Precedes(b, c, sort) =>
                                        Precedes(a, c, sort)
  <1>1. \A a \in Rows : a.id \in Int /\ a.key \in Keyed /\ a = [id |-> a.id, key |-> a.key]
    BY DEF Rows
  <1>2. \A a, b \in Rows : a.id = b.id /\ a.key = b.key => a = b  BY <1>1
  <1>3. \A a \in Rows : ~Precedes(a, a, sort)
    BY <1>1, KeyBelowIsStrict DEF Precedes
  <1>4. ASSUME NEW a \in Rows, NEW b \in Rows
        PROVE  a = b \/ Precedes(a, b, sort) \/ Precedes(b, a, sort)
    <2>1. a.key = b.key \/ KeyBelow(a.key, b.key) \/ KeyBelow(b.key, a.key)
      BY <1>1, KeyBelowIsStrict
    <2>2. a.id = b.id \/ a.id < b.id \/ b.id < a.id  BY <1>1
    <2> QED  BY <1>2, <2>1, <2>2 DEF Precedes
  <1>5. ASSUME NEW a \in Rows, NEW b \in Rows, NEW c \in Rows,
               Precedes(a, b, sort), Precedes(b, c, sort)
        PROVE  Precedes(a, c, sort)
    <2>1. /\ KeyBelow(a.key, b.key) /\ KeyBelow(b.key, c.key) => KeyBelow(a.key, c.key)
          /\ KeyBelow(c.key, b.key) /\ KeyBelow(b.key, a.key) => KeyBelow(c.key, a.key)
      BY <1>1, KeyBelowIsStrict
    <2>2. /\ a.id < b.id /\ b.id < c.id => a.id < c.id
          /\ c.id < b.id /\ b.id < a.id => c.id < a.id
      BY <1>1
    <2> QED  BY <1>5, <2>1, <2>2 DEF Precedes
  <1> QED  BY <1>3, <1>4, <1>5

(* Ordered(S) is S, each once, in the order of Precedes. *)
LEMMA OrderedIs ==
    ASSUME NEW S, IsFiniteSet(S), S \subseteq Rows, NEW sort,
           NEW q, q = Ordered(S, sort), NEW n, n = Cardinality(S)
    PROVE  /\ n \in Nat
           /\ q \in [1..n -> S]
           /\ \A a \in S : \E i \in 1..n : q[i] = a
           /\ \A i, j \in 1..n : i < j => Precedes(q[i], q[j], sort)
  <1> DEFINE R == {p \in S \X S : Precedes(p[1], p[2], sort)}
  <1>1. \A a, b \in S : <<a, b>> \in R <=> Precedes(a, b, sort)  OBVIOUS
  <1> HIDE DEF R
  <1>2. IsStrictOrder(S, R)  BY <1>1, PrecedesIsStrict DEF IsStrictOrder
  <1>3. \A a \in S : {b \in S : Precedes(b, a, sort)} = Down(S, R, a)
    BY <1>1 DEF Down
  <1> DEFINE place(a) == Cardinality(Down(S, R, a))
  <1>4. /\ n \in Nat
        /\ \A a \in S : place(a) \in 0..(n - 1)
        /\ \A i \in 1..n : \E a \in S : place(a) = i - 1
        /\ \A a, b \in S : place(a) = place(b) => a = b
        /\ \A a, b \in S : <<a, b>> \in R <=> place(a) < place(b)
    BY <1>2, EveryPlaceIsTaken
  <1>5. q = [i \in 1..n |->
                 CHOOSE a \in S : Cardinality({b \in S : Precedes(b, a, sort)}) = i - 1]
    BY DEF Ordered
  <1>6. ASSUME NEW i \in 1..n PROVE q[i] \in S /\ place(q[i]) = i - 1
    <2>1. q[i] = CHOOSE a \in S : Cardinality({b \in S : Precedes(b, a, sort)}) = i - 1
      BY <1>5
    <2>2. \E a \in S : Cardinality({b \in S : Precedes(b, a, sort)}) = i - 1
      BY <1>3, <1>4
    <2>3. q[i] \in S /\ Cardinality({b \in S : Precedes(b, q[i], sort)}) = i - 1
      BY <2>1, <2>2, Zenon
    <2> QED  BY <1>3, <2>3
  <1>7. q \in [1..n -> S]  BY <1>5, <1>6
  <1> HIDE DEF place
  <1>8. ASSUME NEW a \in S PROVE \E i \in 1..n : q[i] = a
    <2>1. PICK k \in 1..n : k = place(a) + 1  BY <1>4
    <2>2. place(q[k]) = place(a) /\ q[k] \in S  BY <1>4, <1>6, <2>1
    <2> QED  BY <1>4, <2>2
  <1>9. ASSUME NEW i \in 1..n, NEW j \in 1..n, i < j PROVE Precedes(q[i], q[j], sort)
    <2>1. place(q[i]) = i - 1 /\ place(q[j]) = j - 1 /\ q[i] \in S /\ q[j] \in S  BY <1>6
    <2>2. place(q[i]) < place(q[j])  BY <1>4, <1>9, <2>1
    <2> QED  BY <1>1, <1>4, <2>1, <2>2
  <1> QED  BY <1>4, <1>7, <1>8, <1>9

(* Where a client is that resumes at the anchor: x is still to come.  The     *)
(* first page resumes nowhere.                                                *)
IsAhead(anchor, x, sort) == anchor = NULL \/ Precedes(anchor, x, sort)

Reaches(anchor, x, sort) == anchor # NULL => ~sort.enum /\ Comparable(anchor, x)

(* What one page shows of the rows S after the anchor, in order: as many as   *)
(* the limit, and where to go on when there is more.                          *)
IsPage(p, S, anchor, sort, limit) ==
    /\ Len(p.rows) \in Nat /\ Len(p.rows) <= limit /\ DOMAIN p.rows = 1..Len(p.rows)
    /\ \A i \in DOMAIN p.rows :
          /\ p.rows[i] \in S
          /\ IsAhead(anchor, p.rows[i], sort) /\ Reaches(anchor, p.rows[i], sort)
    /\ \A i, j \in DOMAIN p.rows : i < j => Precedes(p.rows[i], p.rows[j], sort)
    /\ p.next # NULL =>
          /\ \E i \in DOMAIN p.rows : p.rows[i] = p.next
          /\ \A i \in DOMAIN p.rows : p.rows[i] = p.next \/ Precedes(p.rows[i], p.next, sort)
    /\ \A x \in S : IsAhead(anchor, x, sort) /\ Reaches(anchor, x, sort) =>
          \/ \E i \in DOMAIN p.rows : p.rows[i] = x
          \/ p.next # NULL /\ Precedes(p.next, x, sort)
    /\ p.raised <=> anchor # NULL /\ sort.enum

(* TakeAsync answers with such a page. *)
LEMMA PageIs ==
    ASSUME NEW S, IsFiniteSet(S), S \subseteq Rows, NEW anchor,
           NEW sort \in [descending : BOOLEAN, enum : BOOLEAN],
           NEW limit \in Nat \ {0}, NEW p, p = TakePage(S, sort, anchor, limit)
    PROVE  IsPage(p, S, anchor, sort, limit)
  <1> SUFFICES ASSUME ~(anchor # NULL /\ sort.enum) PROVE IsPage(p, S, anchor, sort, limit)
    <2>1. CASE anchor # NULL /\ sort.enum
      <3>1. p = RaisedPage  BY <2>1 DEF TakePage, RaisedPage
      <3>2. p.rows = <<>> /\ p.next = NULL /\ p.raised  BY <3>1 DEF RaisedPage
      <3>3. Len(p.rows) = 0 /\ DOMAIN p.rows = 1..0 /\ 1..0 = {}  BY <3>2
      <3>4. \A x : ~Reaches(anchor, x, sort)  BY <2>1 DEF Reaches
      <3> QED  BY <2>1, <3>2, <3>3, <3>4 DEF IsPage
    <2> QED  BY <2>1
  <1>1. PICK query : query = IF anchor = NULL THEN S ELSE After(S, sort, anchor)
    OBVIOUS
  <1>2. /\ query \subseteq S
        /\ \A x \in S : x \in query <=> IsAhead(anchor, x, sort) /\ Reaches(anchor, x, sort)
    BY <1>1 DEF After, IsAhead, Reaches
  <1>3. IsFiniteSet(query) /\ query \subseteq Rows  BY <1>2, FS_Subset
  <1>4. PICK taken : taken = Ordered(query, sort)  OBVIOUS
  <1>5. PICK n : n = Cardinality(query)  OBVIOUS
  <1>6. /\ n \in Nat
        /\ taken \in [1..n -> query]
        /\ \A a \in query : \E i \in 1..n : taken[i] = a
        /\ \A i, j \in 1..n : i < j => Precedes(taken[i], taken[j], sort)
    BY <1>3, <1>4, <1>5, OrderedIs
  <1>7. Len(taken) = n /\ taken \in Seq(query)  BY <1>6
  <1>8. p = IF Len(taken) <= limit THEN [rows |-> taken, next |-> NULL, raised |-> FALSE]
            ELSE [rows |-> SubSeq(taken, 1, limit), next |-> taken[limit], raised |-> FALSE]
    BY <1>1, <1>4 DEF TakePage
  <1>9. ~p.raised  BY <1>8
  <1>10. CASE n <= limit
    <2>1. p.rows = taken /\ p.next = NULL  BY <1>7, <1>8, <1>10
    <2>2. DOMAIN p.rows = 1..n /\ Len(p.rows) = n  BY <1>6, <1>7, <2>1
    <2>3. \A i \in 1..n : p.rows[i] \in query  BY <1>6, <2>1
    <2>4. \A i \in 1..n : /\ p.rows[i] \in S
                          /\ IsAhead(anchor, p.rows[i], sort) /\ Reaches(anchor, p.rows[i], sort)
      BY <1>2, <2>3
    <2>5. \A x \in S : IsAhead(anchor, x, sort) /\ Reaches(anchor, x, sort) =>
              \E i \in 1..n : p.rows[i] = x
      BY <1>2, <1>6, <2>1
    <2> QED  BY <1>6, <1>9, <1>10, <2>1, <2>2, <2>4, <2>5 DEF IsPage
  <1>11. CASE ~(n <= limit)
    <2>1. p.rows = SubSeq(taken, 1, limit) /\ p.next = taken[limit]  BY <1>7, <1>8, <1>11
    <2>2. limit \in 1..n /\ limit < n  BY <1>6, <1>11
    <2>3. /\ Len(p.rows) = limit /\ DOMAIN p.rows = 1..limit
          /\ \A i \in 1..limit : p.rows[i] = taken[i]
      BY <1>7, <2>1, <2>2
    <2>4. p.next \in Rows  BY <1>3, <1>6, <2>1, <2>2
    <2>5. p.next # NULL  BY <2>4, CollectionAssumption DEF Rows, Keyed
    <2>6. \A i \in 1..limit : i \in 1..n  BY <1>6, <2>2
    <2>7. \A i \in 1..limit : p.rows[i] \in query  BY <1>6, <2>3, <2>6
    <2>8. \A i \in 1..limit :
              /\ p.rows[i] \in S
              /\ IsAhead(anchor, p.rows[i], sort) /\ Reaches(anchor, p.rows[i], sort)
      BY <1>2, <2>7
    <2>9. \A i, j \in 1..limit : i < j => Precedes(p.rows[i], p.rows[j], sort)
      BY <1>6, <2>3, <2>6
    <2>10. /\ \E i \in 1..limit : p.rows[i] = p.next
           /\ \A i \in 1..limit : p.rows[i] = p.next \/ Precedes(p.rows[i], p.next, sort)
      <3>1. limit \in 1..limit /\ p.rows[limit] = p.next  BY <2>1, <2>3
      <3>2. \A i \in 1..limit : i = limit \/ i < limit  OBVIOUS
      <3> QED  BY <2>9, <3>1, <3>2
    <2>11. ASSUME NEW x \in query
           PROVE  (\E i \in 1..limit : p.rows[i] = x) \/ Precedes(p.next, x, sort)
      <3>1. PICK i \in 1..n : taken[i] = x  BY <1>6
      <3>2. CASE i \in 1..limit  BY <2>3, <3>1, <3>2
      <3>3. CASE i \notin 1..limit
        <4>1. limit < i  BY <3>3
        <4> QED  BY <1>6, <2>1, <2>2, <3>1, <4>1
      <3> QED  BY <3>2, <3>3
    <2>12. \A x \in S : IsAhead(anchor, x, sort) /\ Reaches(anchor, x, sort) =>
              \/ \E i \in 1..limit : p.rows[i] = x
              \/ p.next # NULL /\ Precedes(p.next, x, sort)
      BY <1>2, <2>5, <2>11
    <2> QED  BY <1>9, <2>3, <2>8, <2>9, <2>10, <2>12 DEF IsPage
  <1> QED  BY <1>10, <1>11

(* A walk over L snapshots, page by page. *)
IsWalk(walk, at, L, sort, limit) ==
    /\ L \in Nat /\ DOMAIN walk = 1..L
    /\ \A n \in 1..L : IsFiniteSet(at[n]) /\ at[n] \subseteq Rows
    /\ L > 0 => IsPage(walk[1], at[1], NULL, sort, limit)
    /\ \A n \in 1..L : n + 1 \in 1..L =>
          \/ walk[n].next = NULL /\ walk[n + 1] = NoPage
          \/ walk[n].next # NULL /\ IsPage(walk[n + 1], at[n + 1], walk[n].next, sort, limit)

LEMMA WalkIsWalk ==
    ASSUME NEW at \in Collections, NEW L, L = Len(at), NEW limit \in Nat \ {0},
           NEW sort \in [descending : BOOLEAN, enum : BOOLEAN],
           NEW walk, walk = Walk(at, sort, limit)
    PROVE  IsWalk(walk, at, L, sort, limit)
  <1>1. at \in Seq(SUBSET Rows)  BY CollectionAssumption DEF Rows, Keyed
  <1>2. L \in Nat /\ DOMAIN at = 1..L  BY <1>1
  <1>3. \A n \in 1..L : IsFiniteSet(at[n])  BY <1>2, CollectionAssumption
  <1>4. \A n \in 1..L : at[n] \subseteq Rows  BY <1>1, <1>2
  <1>5. DOMAIN walk = 1..L /\ \A n \in 1..L : walk[n] = PageOf(walk, n, at, sort, limit)
    BY <1>2, WalkIs
  <1>6. ASSUME L > 0 PROVE IsPage(walk[1], at[1], NULL, sort, limit)
    <2>1. 1 \in 1..L  BY <1>2, <1>6
    <2>2. walk[1] = TakePage(at[1], sort, NULL, limit)  BY <1>5, <2>1 DEF PageOf
    <2> QED  BY <1>3, <1>4, <2>1, <2>2, PageIs
  <1>7. ASSUME NEW n \in 1..L, n + 1 \in 1..L
        PROVE  \/ walk[n].next = NULL /\ walk[n + 1] = NoPage
               \/ /\ walk[n].next # NULL
                  /\ IsPage(walk[n + 1], at[n + 1], walk[n].next, sort, limit)
    <2>1. n + 1 # 1 /\ (n + 1) - 1 = n  BY <1>2
    <2>2. walk[n + 1] = IF walk[n].next = NULL THEN NoPage
                        ELSE TakePage(at[n + 1], sort, walk[n].next, limit)
      BY <1>5, <1>7, <2>1 DEF PageOf
    <2> QED  BY <1>3, <1>4, <1>7, <2>2, PageIs
  <1> QED  BY <1>2, <1>3, <1>4, <1>5, <1>6, <1>7 DEF IsWalk

(* The rows of the page n come out of what it found. *)
LEMMA ShownIsFound ==
    ASSUME NEW walk, NEW at, NEW L, NEW sort, NEW limit \in Nat,
           IsWalk(walk, at, L, sort, limit), NEW n \in 1..L
    PROVE  /\ Len(walk[n].rows) \in Nat /\ Len(walk[n].rows) <= limit
           /\ DOMAIN walk[n].rows = 1..Len(walk[n].rows)
           /\ \A i \in DOMAIN walk[n].rows : walk[n].rows[i] \in at[n] /\ walk[n].rows[i] \in Rows
           /\ \A i, j \in DOMAIN walk[n].rows :
                 i < j => Precedes(walk[n].rows[i], walk[n].rows[j], sort)
           /\ walk[n].next # NULL =>
                 /\ \E i \in DOMAIN walk[n].rows : walk[n].rows[i] = walk[n].next
                 /\ walk[n].next \in at[n] /\ walk[n].next \in Rows
                 /\ \A i \in DOMAIN walk[n].rows :
                       \/ walk[n].rows[i] = walk[n].next
                       \/ Precedes(walk[n].rows[i], walk[n].next, sort)
  <1>1. L \in Nat /\ at[n] \subseteq Rows  BY DEF IsWalk
  <1>2. walk[n] = NoPage \/ \E a : IsPage(walk[n], at[n], a, sort, limit)
    <2>1. CASE n = 1
      <3>1. L > 0  BY <1>1, <2>1
      <3> QED  BY <2>1, <3>1 DEF IsWalk
    <2>2. CASE n # 1
      <3>1. PICK m \in 1..L : m + 1 = n
        <4>1. n - 1 \in 1..L /\ (n - 1) + 1 = n  BY <1>1, <2>2
        <4> QED  BY <4>1
      <3>2. m + 1 \in 1..L  BY <3>1
      <3> QED  BY <3>1, <3>2 DEF IsWalk
    <2> QED  BY <2>1, <2>2
  <1>3. CASE walk[n] = NoPage
    <2>1. walk[n].rows = <<>> /\ walk[n].next = NULL  BY <1>3 DEF NoPage
    <2>2. Len(walk[n].rows) = 0 /\ DOMAIN walk[n].rows = 1..0 /\ 1..0 = {}  BY <2>1
    <2> QED  BY <2>1, <2>2
  <1>4. CASE \E a : IsPage(walk[n], at[n], a, sort, limit)
    BY <1>1, <1>4 DEF IsPage
  <1> QED  BY <1>2, <1>3, <1>4

(* What was shown before the page n precedes what it shows, and where it says *)
(* to go on.                                                                  *)
SortedUpTo(walk, sort, n) ==
    /\ \A m \in 1..(n - 1) : \A i \in DOMAIN walk[m].rows, j \in DOMAIN walk[n].rows :
          Precedes(walk[m].rows[i], walk[n].rows[j], sort)
    /\ walk[n].next # NULL =>
          \A m \in 1..n : \A i \in DOMAIN walk[m].rows :
             \/ walk[m].rows[i] = walk[n].next
             \/ Precedes(walk[m].rows[i], walk[n].next, sort)

LEMMA WalkIsSorted ==
    ASSUME NEW walk, NEW at, NEW L, NEW sort, NEW limit \in Nat,
           IsWalk(walk, at, L, sort, limit)
    PROVE  \A n \in 1..L : SortedUpTo(walk, sort, n)
  <1> DEFINE T == {n \in Nat : n \in 1..L => SortedUpTo(walk, sort, n)}
  <1>1. L \in Nat  BY DEF IsWalk
  <1>2. 0 \in T  OBVIOUS
  <1>3. ASSUME NEW n \in Nat, n \in T PROVE n + 1 \in T
    <2> SUFFICES ASSUME n + 1 \in 1..L PROVE SortedUpTo(walk, sort, n + 1)
      OBVIOUS
    <2>1. PICK k : k = n + 1  OBVIOUS
    <2>2. k \in 1..L  BY <2>1
    <2>3. CASE n = 0
      <3>1. 1..(k - 1) = {} /\ 1..k = {1} /\ k = 1  BY <2>1, <2>3
      <3>2. SortedUpTo(walk, sort, k)  BY <2>2, <3>1, ShownIsFound DEF SortedUpTo
      <3> QED  BY <2>1, <3>2
    <2>4. CASE n # 0
      <3>1. n \in 1..L /\ SortedUpTo(walk, sort, n)  BY <1>1, <1>3, <2>4
      <3>2. \A m \in 1..(k - 1) : m \in 1..n /\ m \in 1..L  BY <1>1, <2>1, <3>1
      <3>3. \A m \in 1..k : m \in 1..n \/ m = k  BY <2>1
      <3>4. CASE walk[n].next = NULL /\ walk[k] = NoPage
        <4>1. walk[k].rows = <<>> /\ walk[k].next = NULL  BY <3>4 DEF NoPage
        <4>2. DOMAIN walk[k].rows = {}  BY <4>1
        <4>3. SortedUpTo(walk, sort, k)  BY <4>1, <4>2 DEF SortedUpTo
        <4> QED  BY <2>1, <4>3
      <3>5. CASE /\ walk[n].next # NULL
                 /\ IsPage(walk[k], at[k], walk[n].next, sort, limit)
        <4>1. PICK a : a = walk[n].next  OBVIOUS
        <4>2. a \in Rows  BY <3>1, <3>5, <4>1, ShownIsFound
        <4>3. \A j \in DOMAIN walk[k].rows : /\ walk[k].rows[j] \in Rows
                                            /\ Precedes(a, walk[k].rows[j], sort)
          BY <2>2, <3>5, <4>1, ShownIsFound DEF IsPage, IsAhead
        <4>4. \A m \in 1..n : \A i \in DOMAIN walk[m].rows :
                 walk[m].rows[i] = a \/ Precedes(walk[m].rows[i], a, sort)
          BY <3>1, <3>5, <4>1 DEF SortedUpTo
        <4>5. \A m \in 1..n : \A i \in DOMAIN walk[m].rows : walk[m].rows[i] \in Rows
          <5>1. \A m \in 1..n : m \in 1..L  BY <1>1, <3>1
          <5> QED  BY <5>1, ShownIsFound
        <4>6. ASSUME NEW m \in 1..n, NEW i \in DOMAIN walk[m].rows, NEW j \in DOMAIN walk[k].rows
              PROVE  Precedes(walk[m].rows[i], walk[k].rows[j], sort)
          <5>1. PICK x, y : x = walk[m].rows[i] /\ y = walk[k].rows[j]  OBVIOUS
          <5>2. /\ x \in Rows /\ y \in Rows /\ Precedes(a, y, sort)
                /\ x = a \/ Precedes(x, a, sort)
            BY <4>3, <4>4, <4>5, <5>1
          <5>3. Precedes(x, y, sort)  BY <4>2, <5>2, PrecedesIsStrict
          <5> QED  BY <5>1, <5>3
        <4>7. ASSUME walk[k].next # NULL, NEW m \in 1..k, NEW i \in DOMAIN walk[m].rows
              PROVE  \/ walk[m].rows[i] = walk[k].next
                     \/ Precedes(walk[m].rows[i], walk[k].next, sort)
          <5>1. CASE m = k  BY <2>2, <4>7, <5>1, ShownIsFound
          <5>2. CASE m \in 1..n
            <6>1. PICK j \in DOMAIN walk[k].rows : walk[k].rows[j] = walk[k].next
              BY <2>2, <4>7, ShownIsFound
            <6> QED  BY <4>6, <5>2, <6>1
          <5> QED  BY <3>3, <5>1, <5>2
        <4>8. SortedUpTo(walk, sort, k)
          <5>1. \A m \in 1..(k - 1) : \A i \in DOMAIN walk[m].rows, j \in DOMAIN walk[k].rows :
                    Precedes(walk[m].rows[i], walk[k].rows[j], sort)
            BY <3>2, <4>6
          <5> QED  BY <4>7, <5>1 DEF SortedUpTo
        <4> QED  BY <2>1, <4>8
      <3> QED  BY <2>1, <2>2, <3>1, <3>4, <3>5 DEF IsWalk
    <2> QED  BY <2>3, <2>4
  <1> HIDE DEF T
  <1>4. \A n \in Nat : n \in T  BY <1>2, <1>3, FromZeroOn
  <1>5. \A n \in 1..L : n \in Nat  BY <1>1
  <1> QED  BY <1>4, <1>5 DEF T

(* A row that every page finds is shown by one of the first n, or left behind *)
(* by one, or still to come.                                                  *)
ShownUpTo(walk, x, n) ==
    \E m \in 1..n : \E i \in DOMAIN walk[m].rows : walk[m].rows[i] = x

LeftUpTo(walk, sort, x, n) == \E m \in 1..n : LeavesBehind(walk[m], x, sort)

Comes(walk, sort, x, n) ==
    walk[n].next # NULL /\ Precedes(walk[n].next, x, sort) /\ Reaches(walk[n].next, x, sort)

LEMMA StayingIsShown ==
    ASSUME NEW walk, NEW at, NEW L, NEW sort, NEW limit \in Nat,
           IsWalk(walk, at, L, sort, limit),
           NEW x, \A n \in 1..L : x \in at[n]
    PROVE  \A n \in 1..L :
              ShownUpTo(walk, x, n) \/ LeftUpTo(walk, sort, x, n) \/ Comes(walk, sort, x, n)
  <1> DEFINE Fate(n) ==
                 ShownUpTo(walk, x, n) \/ LeftUpTo(walk, sort, x, n) \/ Comes(walk, sort, x, n)
             T == {n \in Nat : n \in 1..L => Fate(n)}
  <1>1. L \in Nat  BY DEF IsWalk
  <1>2. 0 \in T  OBVIOUS
  <1>3. ASSUME NEW k \in 1..L, NEW anchor, IsPage(walk[k], at[k], anchor, sort, limit),
               IsAhead(anchor, x, sort), Reaches(anchor, x, sort)
        PROVE  Fate(k)
    <2>1. k \in 1..k /\ x \in at[k]  BY <1>1
    <2>2. \/ \E i \in DOMAIN walk[k].rows : walk[k].rows[i] = x
          \/ walk[k].next # NULL /\ Precedes(walk[k].next, x, sort)
      BY <1>3, <2>1 DEF IsPage
    <2>3. CASE \E i \in DOMAIN walk[k].rows : walk[k].rows[i] = x
      BY <2>1, <2>3 DEF ShownUpTo
    <2>4. CASE walk[k].next # NULL /\ Precedes(walk[k].next, x, sort)
      <3>1. Reaches(walk[k].next, x, sort) \/ LeavesBehind(walk[k], x, sort)
        BY <2>4 DEF Reaches, LeavesBehind
      <3> QED  BY <2>1, <2>4, <3>1 DEF LeftUpTo, Comes
    <2> QED  BY <2>2, <2>3, <2>4
  <1>4. ASSUME NEW n \in Nat, n \in T PROVE n + 1 \in T
    <2> SUFFICES ASSUME n + 1 \in 1..L PROVE Fate(n + 1)
      OBVIOUS
    <2>1. PICK k : k = n + 1  OBVIOUS
    <2>2. k \in 1..L  BY <2>1
    <2>3. CASE n = 0
      <3>1. k = 1 /\ L > 0  BY <1>1, <2>1, <2>2, <2>3
      <3>2. IsPage(walk[k], at[k], NULL, sort, limit)  BY <3>1 DEF IsWalk
      <3>3. IsAhead(NULL, x, sort) /\ Reaches(NULL, x, sort)  BY DEF IsAhead, Reaches
      <3> HIDE DEF Fate
      <3> QED  BY <1>3, <2>1, <2>2, <3>2, <3>3
    <2>4. CASE n # 0
      <3>1. n \in 1..L /\ Fate(n)  BY <1>1, <1>4, <2>4
      <3>2. \A m \in 1..n : m \in 1..k  BY <2>1
      <3>3. CASE ShownUpTo(walk, x, n)
        <4>1. ShownUpTo(walk, x, k)  BY <3>2, <3>3 DEF ShownUpTo
        <4> QED  BY <2>1, <4>1
      <3>4. CASE LeftUpTo(walk, sort, x, n)
        <4>1. LeftUpTo(walk, sort, x, k)  BY <3>2, <3>4 DEF LeftUpTo
        <4> QED  BY <2>1, <4>1
      <3>5. CASE Comes(walk, sort, x, n)
        <4>1. IsPage(walk[k], at[k], walk[n].next, sort, limit)
          BY <2>1, <2>2, <3>1, <3>5 DEF IsWalk, Comes
        <4>2. IsAhead(walk[n].next, x, sort) /\ Reaches(walk[n].next, x, sort)
          BY <3>5 DEF Comes, IsAhead
        <4> HIDE DEF Fate
        <4> QED  BY <1>3, <2>1, <2>2, <4>1, <4>2
      <3> QED  BY <3>1, <3>3, <3>4, <3>5
    <2> QED  BY <2>3, <2>4
  <1> HIDE DEF T
  <1>5. \A n \in Nat : n \in T  BY <1>2, <1>4, FromZeroOn
  <1>6. \A n \in 1..L : n \in Nat  BY <1>1
  <1> QED  BY <1>5, <1>6 DEF T

(* What is shown after a page compares with where that page ended. *)
LEMMA LaterCompares ==
    ASSUME NEW walk, NEW at, NEW L, NEW sort, NEW limit \in Nat,
           IsWalk(walk, at, L, sort, limit),
           NEW m \in 1..L, walk[m].next # NULL
    PROVE  \A k \in (m + 1)..L : \A i \in DOMAIN walk[k].rows :
              ~sort.enum /\ Comparable(walk[m].next, walk[k].rows[i])
  <1> DEFINE Compares(k) == \A i \in DOMAIN walk[k].rows :
                                ~sort.enum /\ Comparable(walk[m].next, walk[k].rows[i])
             T == {n \in Nat : m + (n + 1) \in 1..L => Compares(m + (n + 1))}
  <1>1. L \in Nat /\ m \in Nat  BY DEF IsWalk
  <1>2. 0 \in T
    <2> SUFFICES ASSUME m + 1 \in 1..L PROVE Compares(m + 1)
      BY <1>1
    <2>1. IsPage(walk[m + 1], at[m + 1], walk[m].next, sort, limit)  BY DEF IsWalk
    <2> QED  BY <2>1 DEF IsPage, Reaches
  <1>3. ASSUME NEW n \in Nat, n \in T PROVE n + 1 \in T
    <2> SUFFICES ASSUME m + ((n + 1) + 1) \in 1..L PROVE Compares(m + ((n + 1) + 1))
      OBVIOUS
    <2>1. PICK k : k = m + (n + 1)  OBVIOUS
    <2>2. k \in 1..L /\ k + 1 \in 1..L /\ m + ((n + 1) + 1) = k + 1  BY <1>1, <2>1
    <2>3. Compares(k)  BY <1>3, <2>1, <2>2
    <2>4. CASE walk[k].next = NULL
      <3>1. walk[k + 1] = NoPage  BY <2>2, <2>4 DEF IsWalk
      <3>2. DOMAIN walk[k + 1].rows = {}  BY <3>1 DEF NoPage
      <3>3. Compares(k + 1)  BY <3>2
      <3> QED  BY <2>2, <3>3
    <2>5. CASE walk[k].next # NULL
      <3>1. IsPage(walk[k + 1], at[k + 1], walk[k].next, sort, limit)
        BY <2>2, <2>5 DEF IsWalk
      <3>2. PICK j \in DOMAIN walk[k].rows : walk[k].rows[j] = walk[k].next
        BY <2>2, <2>5, ShownIsFound
      <3>3. Comparable(walk[m].next, walk[k].next)  BY <2>3, <3>2
      <3>4. \A i \in DOMAIN walk[k + 1].rows :
                ~sort.enum /\ Comparable(walk[k].next, walk[k + 1].rows[i])
        BY <2>5, <3>1 DEF IsPage, Reaches
      <3>5. Compares(k + 1)  BY <3>3, <3>4 DEF Comparable
      <3> QED  BY <2>2, <3>5
    <2> QED  BY <2>4, <2>5
  <1> HIDE DEF T
  <1>4. \A n \in Nat : n \in T  BY <1>2, <1>3, FromZeroOn
  <1> SUFFICES ASSUME NEW k \in (m + 1)..L PROVE Compares(k)
    OBVIOUS
  <1>5. PICK n : n = k - (m + 1)  OBVIOUS
  <1>6. n \in Nat /\ k = m + (n + 1) /\ k \in 1..L  BY <1>1, <1>5
  <1>7. n \in T  BY <1>4, <1>6
  <1> HIDE DEF Compares
  <1> QED  BY <1>6, <1>7 DEF T

(* A row that a page leaves behind is on no page. *)
LEMMA LeftIsNotShown ==
    ASSUME NEW walk, NEW at, NEW L, NEW sort, NEW limit \in Nat,
           IsWalk(walk, at, L, sort, limit),
           NEW m \in 1..L, NEW x \in Rows, LeavesBehind(walk[m], x, sort),
           NEW k \in 1..L, NEW i \in DOMAIN walk[k].rows
    PROVE  walk[k].rows[i] # x
  <1>1. L \in Nat /\ m \in Int /\ k \in Int  BY DEF IsWalk
  <1>2. PICK a : a = walk[m].next  OBVIOUS
  <1>3. a # NULL /\ Precedes(a, x, sort) /\ (sort.enum \/ ~Comparable(a, x))
    BY <1>2 DEF LeavesBehind
  <1>4. a \in Rows  BY <1>2, <1>3, ShownIsFound
  <1>5. CASE k <= m
    <2>1. k \in 1..m /\ SortedUpTo(walk, sort, m)  BY <1>1, <1>5, WalkIsSorted
    <2>2. walk[k].rows[i] = a \/ Precedes(walk[k].rows[i], a, sort)
      BY <1>2, <1>3, <2>1 DEF SortedUpTo
    <2>3. ~Precedes(x, x, sort) /\ ~(Precedes(x, a, sort) /\ Precedes(a, x, sort))
      BY <1>4, PrecedesIsStrict
    <2> QED  BY <1>3, <2>2, <2>3
  <1>6. CASE ~(k <= m)
    <2>1. k \in (m + 1)..L  BY <1>1, <1>6
    <2>2. ~sort.enum /\ Comparable(a, walk[k].rows[i])
      BY <1>2, <1>3, <2>1, LaterCompares
    <2> QED  BY <1>3, <2>2
  <1> QED  BY <1>5, <1>6

(* Once there is nothing to go on with, there never is. *)
LEMMA EndedStaysEnded ==
    ASSUME NEW walk, NEW at, NEW L, NEW sort, NEW limit \in Nat,
           IsWalk(walk, at, L, sort, limit),
           NEW k \in 1..L, walk[k].next = NULL
    PROVE  \A j \in k..L : walk[j].next = NULL
  <1> DEFINE T == {n \in Nat : k + n \in 1..L => walk[k + n].next = NULL}
  <1>1. L \in Nat /\ k \in Nat  BY DEF IsWalk
  <1>2. 0 \in T
    <2>1. k + 0 = k  BY <1>1
    <2> QED  BY <2>1
  <1>3. ASSUME NEW n \in Nat, n \in T PROVE n + 1 \in T
    <2> SUFFICES ASSUME k + (n + 1) \in 1..L PROVE walk[k + (n + 1)].next = NULL
      OBVIOUS
    <2>1. PICK j : j = k + n  OBVIOUS
    <2>2. j \in 1..L /\ j + 1 \in 1..L /\ k + (n + 1) = j + 1  BY <1>1, <2>1
    <2>3. walk[j].next = NULL  BY <1>3, <2>1, <2>2
    <2>4. walk[j + 1] = NoPage  BY <2>2, <2>3 DEF IsWalk
    <2> QED  BY <2>2, <2>4 DEF NoPage
  <1> HIDE DEF T
  <1>4. \A n \in Nat : n \in T  BY <1>2, <1>3, FromZeroOn
  <1>5. ASSUME NEW j \in k..L PROVE walk[j].next = NULL
    <2>1. j - k \in Nat /\ k + (j - k) = j /\ j \in 1..L  BY <1>1
    <2>2. j - k \in T  BY <1>4, <2>1
    <2>3. k + (j - k) \in 1..L => walk[k + (j - k)].next = NULL  BY <2>2 DEF T
    <2> QED  BY <2>1, <2>3
  <1> QED  BY <1>5

(* Resuming by an enum raises, and nothing else does. *)
LEMMA RaisesByEnum ==
    ASSUME NEW walk, NEW at, NEW L, NEW sort, NEW limit \in Nat,
           IsWalk(walk, at, L, sort, limit), L > 0, walk[L].next = NULL
    PROVE  (\E n \in 1..L : walk[n].raised) <=> (sort.enum /\ walk[1].next # NULL)
  <1>1. L \in Nat /\ 1 \in 1..L  BY DEF IsWalk
  <1>2. ASSUME NEW n \in 1..L, walk[n].raised PROVE sort.enum /\ walk[1].next # NULL
    <2>1. n # 1  BY <1>1, <1>2 DEF IsWalk, IsPage
    <2>2. PICK m \in 1..L : m + 1 = n
      <3>1. n - 1 \in 1..L /\ (n - 1) + 1 = n  BY <1>1, <2>1
      <3> QED  BY <3>1
    <2>3. m + 1 \in 1..L /\ walk[m + 1] # NoPage  BY <1>2, <2>2 DEF NoPage
    <2>4. walk[m].next # NULL /\ IsPage(walk[n], at[n], walk[m].next, sort, limit)
      BY <2>2, <2>3 DEF IsWalk
    <2>5. sort.enum  BY <1>2, <2>4 DEF IsPage
    <2>6. walk[1].next # NULL  BY <1>1, <2>2, <2>4, EndedStaysEnded
    <2> QED  BY <2>5, <2>6
  <1>3. ASSUME sort.enum, walk[1].next # NULL PROVE \E n \in 1..L : walk[n].raised
    <2>1. 1 + 1 \in 1..L  BY <1>1, <1>3
    <2>2. IsPage(walk[1 + 1], at[1 + 1], walk[1].next, sort, limit)
      BY <1>1, <1>3, <2>1 DEF IsWalk
    <2>3. walk[1 + 1].raised  BY <1>3, <2>2 DEF IsPage
    <2> QED  BY <2>1, <2>3
  <1> QED  BY <1>2, <1>3

(* Every page that does not end the walk takes it past a row of its own, and  *)
(* there are fewer rows than pages.                                           *)
LEMMA WalkEnds ==
    ASSUME NEW walk, NEW at, NEW L, NEW sort, NEW limit \in Nat,
           IsWalk(walk, at, L, sort, limit), L > 0,
           NEW found, IsFiniteSet(found), Cardinality(found) < L,
           \A n \in 1..L : at[n] \subseteq found
    PROVE  walk[L].next = NULL
  <1> SUFFICES ASSUME walk[L].next # NULL PROVE FALSE  OBVIOUS
  <1>1. L \in Nat  BY DEF IsWalk
  <1>2. ASSUME NEW n \in 1..L PROVE walk[n].next # NULL
    <2>1. L \in n..L  BY <1>1
    <2> QED  BY <2>1, EndedStaysEnded
  <1> DEFINE f == [n \in 1..L |-> walk[n].next]
  <1>3. \A n \in 1..L : f[n] \in found /\ f[n] \in Rows  BY <1>2, ShownIsFound
  <1>4. f \in [1..L -> found]  BY <1>3
  <1>5. ASSUME NEW m \in 1..L, NEW n \in 1..L, m < n PROVE f[m] # f[n]
    <2>1. PICK i \in DOMAIN walk[m].rows : walk[m].rows[i] = walk[m].next
      BY <1>2, ShownIsFound
    <2>2. PICK j \in DOMAIN walk[n].rows : walk[n].rows[j] = walk[n].next
      BY <1>2, ShownIsFound
    <2>3. m \in 1..(n - 1)  BY <1>1, <1>5
    <2>4. SortedUpTo(walk, sort, n)  BY WalkIsSorted
    <2>5. Precedes(walk[m].rows[i], walk[n].rows[j], sort)
      BY <2>3, <2>4 DEF SortedUpTo
    <2>6. Precedes(f[m], f[n], sort)  BY <2>1, <2>2, <2>5
    <2> HIDE DEF f
    <2> QED  BY <1>3, <2>6, PrecedesIsStrict
  <1> HIDE DEF f
  <1>6. \A m, n \in 1..L : f[m] = f[n] => m = n
    <2> SUFFICES ASSUME NEW m \in 1..L, NEW n \in 1..L, f[m] = f[n] PROVE m = n
      OBVIOUS
    <2>1. m \in Int /\ n \in Int  BY <1>1
    <2>2. ~(m < n) /\ ~(n < m)  BY <1>5
    <2> QED  BY <2>1, <2>2
  <1>7. f \in Injection(1..L, found)  BY <1>4, <1>6, Fun_IsInj
  <1>8. Cardinality(1..L) <= Cardinality(found)  BY <1>7, FS_Injection
  <1>9. Cardinality(1..L) = L  BY <1>1, FS_Interval
  <1>10. Cardinality(found) \in Nat  BY FS_CardinalityType
  <1> QED  BY <1>1, <1>8, <1>9, <1>10

LEMMA PlacesAre ==
    ASSUME NEW walk, NEW at, NEW L, NEW sort, NEW limit \in Nat,
           IsWalk(walk, at, L, sort, limit)
    PROVE  /\ \A p \in PlacesOf(walk) :
                 /\ p = <<p[1], p[2]>> /\ p[1] \in 1..L /\ p[2] \in Nat
                 /\ p[2] \in DOMAIN walk[p[1]].rows
                 /\ RowAt(walk, p) \in at[p[1]] /\ RowAt(walk, p) \in Rows
           /\ \A n \in 1..L : \A i \in DOMAIN walk[n].rows :
                 <<n, i>> \in PlacesOf(walk) /\ RowAt(walk, <<n, i>>) = walk[n].rows[i]
  <1>1. DOMAIN walk = 1..L  BY DEF IsWalk
  <1>2. ASSUME NEW p \in PlacesOf(walk)
        PROVE  /\ p = <<p[1], p[2]>> /\ p[1] \in 1..L /\ p[2] \in Nat
               /\ p[2] \in DOMAIN walk[p[1]].rows
               /\ RowAt(walk, p) \in at[p[1]] /\ RowAt(walk, p) \in Rows
    <2>1. PICK n \in 1..L : p \in {<<n, i>> : i \in DOMAIN walk[n].rows}
      BY <1>1 DEF PlacesOf
    <2>2. PICK i \in DOMAIN walk[n].rows : p = <<n, i>>  BY <2>1
    <2>3. p[1] = n /\ p[2] = i  BY <2>2
    <2>4. i \in Nat  BY ShownIsFound
    <2> QED  BY <2>2, <2>3, <2>4, ShownIsFound DEF RowAt
  <1>3. ASSUME NEW n \in 1..L, NEW i \in DOMAIN walk[n].rows
        PROVE  <<n, i>> \in PlacesOf(walk) /\ RowAt(walk, <<n, i>>) = walk[n].rows[i]
    BY <1>1 DEF PlacesOf, RowAt
  <1> QED  BY <1>2, <1>3

LEMMA PlacesAreSorted ==
    ASSUME NEW walk, NEW at, NEW L, NEW sort, NEW limit \in Nat,
           IsWalk(walk, at, L, sort, limit)
    PROVE  /\ \A p, q \in PlacesOf(walk) :
                 Earlier(p, q) => Precedes(RowAt(walk, p), RowAt(walk, q), sort)
           /\ \A p, q \in PlacesOf(walk) : RowAt(walk, p) = RowAt(walk, q) => p = q
  <1>1. L \in Nat  BY DEF IsWalk
  <1>2. ASSUME NEW p \in PlacesOf(walk), NEW q \in PlacesOf(walk), Earlier(p, q)
        PROVE  Precedes(RowAt(walk, p), RowAt(walk, q), sort)
    <2>1. PICK m, i, n, j : m = p[1] /\ i = p[2] /\ n = q[1] /\ j = q[2]  OBVIOUS
    <2>2. /\ m \in 1..L /\ i \in DOMAIN walk[m].rows
          /\ n \in 1..L /\ j \in DOMAIN walk[n].rows
      BY <2>1, PlacesAre
    <2>3. CASE m < n
      <3>1. m \in 1..(n - 1)  BY <1>1, <2>2, <2>3
      <3>2. SortedUpTo(walk, sort, n)  BY <2>2, WalkIsSorted
      <3> QED  BY <2>1, <2>2, <3>1, <3>2 DEF SortedUpTo, RowAt
    <2>4. CASE m = n /\ i < j
      BY <2>1, <2>2, <2>4, ShownIsFound DEF RowAt
    <2> QED  BY <1>2, <2>1, <2>3, <2>4 DEF Earlier
  <1>3. ASSUME NEW p \in PlacesOf(walk), NEW q \in PlacesOf(walk),
               RowAt(walk, p) = RowAt(walk, q)
        PROVE  p = q
    <2>1. PICK x : x = RowAt(walk, p)  OBVIOUS
    <2>2. x \in Rows  BY <2>1, PlacesAre
    <2>3. ~Precedes(x, x, sort)  BY <2>2, PrecedesIsStrict
    <2>4. ~Earlier(p, q) /\ ~Earlier(q, p)  BY <1>2, <1>3, <2>1, <2>3
    <2>5. /\ p = <<p[1], p[2]>> /\ q = <<q[1], q[2]>>
          /\ p[1] \in Int /\ p[2] \in Int /\ q[1] \in Int /\ q[2] \in Int
      BY <1>1, PlacesAre
    <2>6. p[1] = q[1] /\ p[2] = q[2]  BY <2>4, <2>5 DEF Earlier
    <2> QED  BY <2>5, <2>6
  <1> QED  BY <1>2, <1>3

(* A row that stayed where it was is shown once, if no page leaves it behind. *)
LEMMA StayingIsShownOnce ==
    ASSUME NEW walk, NEW at, NEW L, NEW sort, NEW limit \in Nat,
           IsWalk(walk, at, L, sort, limit), L > 0, walk[L].next = NULL,
           \A n \in 1..L : \A x, y \in at[n] : x.id = y.id => x = y,
           NEW x, \A n \in 1..L : x \in at[n]
    PROVE  Cardinality(PlacesWith(walk, x.id)) =
               IF \E n \in 1..L : LeavesBehind(walk[n], x, sort) THEN 0 ELSE 1
  <1>1. L \in Nat /\ L \in 1..L  BY DEF IsWalk
  <1>2. ASSUME NEW q \in PlacesWith(walk, x.id)
        PROVE  q \in PlacesOf(walk) /\ RowAt(walk, q) = x
    <2>1. q \in PlacesOf(walk) /\ RowAt(walk, q).id = x.id  BY DEF PlacesWith
    <2>2. q[1] \in 1..L /\ RowAt(walk, q) \in at[q[1]]  BY <2>1, PlacesAre
    <2> QED  BY <2>1, <2>2
  <1>3. CASE \E n \in 1..L : LeavesBehind(walk[n], x, sort)
    <2>1. PICK m \in 1..L : LeavesBehind(walk[m], x, sort)  BY <1>3
    <2>2. x \in Rows  BY <1>1 DEF IsWalk
    <2>3. ASSUME NEW q \in PlacesWith(walk, x.id) PROVE FALSE
      <3>1. q \in PlacesOf(walk) /\ RowAt(walk, q) = x  BY <1>2
      <3>2. PICK k, i : k = q[1] /\ i = q[2]  OBVIOUS
      <3>3. k \in 1..L /\ i \in DOMAIN walk[k].rows  BY <3>1, <3>2, PlacesAre
      <3>4. walk[k].rows[i] = x  BY <3>1, <3>2 DEF RowAt
      <3> QED  BY <2>1, <2>2, <3>3, <3>4, LeftIsNotShown
    <2>4. PlacesWith(walk, x.id) = {}  BY <2>3
    <2> QED  BY <1>3, <2>4, FS_EmptySet
  <1>4. CASE ~\E n \in 1..L : LeavesBehind(walk[n], x, sort)
    <2>1. ShownUpTo(walk, x, L)
      BY <1>1, <1>4, StayingIsShown DEF LeftUpTo, Comes
    <2>2. PICK m \in 1..L : \E i \in DOMAIN walk[m].rows : walk[m].rows[i] = x
      BY <2>1 DEF ShownUpTo
    <2>3. PICK i \in DOMAIN walk[m].rows : walk[m].rows[i] = x  BY <2>2
    <2>4. PICK p : p = <<m, i>>  OBVIOUS
    <2>5. p \in PlacesOf(walk) /\ RowAt(walk, p) = x  BY <2>3, <2>4, PlacesAre
    <2>6. p \in PlacesWith(walk, x.id)  BY <2>5 DEF PlacesWith
    <2>7. \A q \in PlacesWith(walk, x.id) : q = p  BY <1>2, <2>5, PlacesAreSorted
    <2>8. PlacesWith(walk, x.id) = {p}  BY <2>6, <2>7
    <2> QED  BY <1>4, <2>8, FS_Singleton
  <1> QED  BY <1>3, <1>4

(* A row that is shown more than once was moved: it was found with two keys.  *)
LEMMA ShownTwiceIsMoved ==
    ASSUME NEW walk, NEW at, NEW L, NEW sort, NEW limit \in Nat,
           IsWalk(walk, at, L, sort, limit),
           NEW found, IsFiniteSet(found), \A n \in 1..L : at[n] \subseteq found,
           NEW id, Cardinality(PlacesWith(walk, id)) > 1,
           NEW keys, keys = KeysOf(found, id)
    PROVE  Cardinality(keys) > 1
  <1>1. PICK P : P = PlacesWith(walk, id)  OBVIOUS
  <1>2. P # {}
    <2>1. Cardinality({}) = 0  BY FS_EmptySet
    <2>2. Cardinality(P) > 1  BY <1>1
    <2> QED  BY <2>1, <2>2
  <1>3. PICK p \in P : TRUE  BY <1>2
  <1>4. P # {p}
    <2>1. Cardinality({p}) = 1  BY FS_Singleton
    <2> QED  BY <1>1, <2>1
  <1>5. PICK q \in P : q # p  BY <1>3, <1>4
  <1>6. PICK x, y : x = RowAt(walk, p) /\ y = RowAt(walk, q)  OBVIOUS
  <1>7. /\ p \in PlacesOf(walk) /\ q \in PlacesOf(walk) /\ x.id = id /\ y.id = id
    BY <1>1, <1>3, <1>5, <1>6 DEF PlacesWith
  <1>8. x # y  BY <1>5, <1>6, <1>7, PlacesAreSorted
  <1>9. x \in Rows /\ y \in Rows /\ x \in found /\ y \in found
    BY <1>6, <1>7, PlacesAre
  <1>10. \A a \in Rows : a = [id |-> a.id, key |-> a.key]  BY DEF Rows
  <1>11. x.key # y.key  BY <1>7, <1>8, <1>9, <1>10
  <1>12. PICK rows : rows = {r \in found : r.id = id}  OBVIOUS
  <1>13. PICK f : f = [r \in rows |-> r.key]  OBVIOUS
  <1>14. keys = {r.key : r \in rows}  BY <1>12 DEF KeysOf
  <1>15. f \in Surjection(rows, keys)  BY <1>13, <1>14 DEF Surjection
  <1>16. IsFiniteSet(rows)  BY <1>12, FS_Subset
  <1>17. IsFiniteSet(keys)  BY <1>15, <1>16, FS_Surjection
  <1>18. {x.key, y.key} \subseteq keys  BY <1>7, <1>9, <1>12, <1>14
  <1>19. Cardinality({x.key, y.key}) = 2
    <2>1. IsFiniteSet({x.key}) /\ Cardinality({x.key}) = 1  BY FS_Singleton
    <2>2. {x.key, y.key} = {x.key} \cup {y.key} /\ y.key \notin {x.key}  BY <1>11
    <2>3. Cardinality({x.key} \cup {y.key}) = 1 + 1  BY <2>1, <2>2, FS_AddElement
    <2> QED  BY <2>2, <2>3
  <1>20. Cardinality({x.key, y.key}) <= Cardinality(keys)  BY <1>17, <1>18, FS_Subset
  <1>21. Cardinality(keys) \in Nat  BY <1>17, FS_CardinalityType
  <1> QED  BY <1>19, <1>20, <1>21

LEMMA LimitIsPositive ==
    ASSUME NEW n \in PageLimits
    PROVE  ClampLimit(n) \in Nat \ {0}
  <1>1. n \in Int \/ n = NULL  BY CollectionAssumption
  <1> QED  BY <1>1 DEF ClampLimit, DefaultLimit, MaximumLimit

(* For every sequence of snapshots, every sort and every limit: a client that *)
(* pages to the end is shown the rows that stayed once each and in order, but *)
(* for those some page left behind, which it is never shown, a row twice only *)
(* when its sort key was changed in between, never more than the limit on a   *)
(* page; and a page fails exactly when it resumes by an enum                  *)
(* (KeysetQuery.TakeAsync, KeysetSortKey, PageRequest).                       *)
THEOREM PagesHold == Spec => []PagesContract
  <1>1. ASSUME IInv, Taken("pages") PROVE PagesContract
    <2>1. PICK at \in Collections, sort \in [descending : BOOLEAN, enum : BOOLEAN],
               n \in PageLimits :
              decision = [kind |-> "pages",
                          input |-> [at |-> at, sort |-> sort, limit |-> ClampLimit(n)],
                          output |-> Walk(at, sort, ClampLimit(n))]
      BY <1>1, Zenon DEF IInv, DecisionIsMade, MadeOfPages
    <2>2. PICK limit : limit = ClampLimit(n)  OBVIOUS
    <2>3. PICK walk : walk = Walk(at, sort, limit)  OBVIOUS
    <2>4. /\ decision.input.at = at /\ decision.input.sort = sort
          /\ decision.input.limit = limit /\ decision.output = walk
      BY <2>1, <2>2, <2>3
    <2>5. limit \in Nat /\ limit \in Nat \ {0}  BY <2>2, LimitIsPositive
    <2>6. PICK L : L = Len(at)  OBVIOUS
    <2>7. L \in Nat /\ DOMAIN at = 1..L
      <3>1. at \in Seq(SUBSET Rows)  BY CollectionAssumption DEF Rows, Keyed
      <3> QED  BY <2>6, <3>1
    <2>8. IsWalk(walk, at, L, sort, limit)  BY <2>3, <2>5, <2>6, WalkIsWalk
    <2>9. DOMAIN walk = 1..L /\ Len(walk) = L
      <3>1. DOMAIN walk = 1..L  BY <2>8 DEF IsWalk
      <3> QED  BY <2>7, <3>1
    <2>10. PICK found : found = UNION {at[k] : k \in DOMAIN at}  OBVIOUS
    <2>11. \A k \in 1..L : at[k] \subseteq found  BY <2>7, <2>10
    <2>12. IsFiniteSet(found)
      <3>1. PICK f : f = [k \in 1..L |-> at[k]]  OBVIOUS
      <3>2. PICK parts : parts = {at[k] : k \in DOMAIN at}  OBVIOUS
      <3>3. f \in Surjection(1..L, parts)  BY <2>7, <3>1, <3>2 DEF Surjection
      <3>4. IsFiniteSet(1..L)  BY <2>7, FS_Interval
      <3>5. IsFiniteSet(parts)  BY <3>3, <3>4, FS_Surjection
      <3>6. \A S \in parts : IsFiniteSet(S)  BY <3>2, CollectionAssumption
      <3> QED  BY <2>10, <3>2, <3>5, <3>6, FS_UNION
    <2>13. Cardinality(found) \in Nat /\ Cardinality(found) < L
      BY <2>6, <2>10, <2>12, CollectionAssumption, FS_CardinalityType
    <2>14. L > 0 /\ L \in 1..L  BY <2>7, <2>13
    <2>15. walk[L].next = NULL
      BY <2>5, <2>8, <2>11, <2>12, <2>13, <2>14, WalkEnds
    <2>16. \A k \in 1..L : \A x, y \in at[k] : x.id = y.id => x = y
      BY <2>7, CollectionAssumption
    <2>17. \A x \in at[1] : (\A k \in DOMAIN at : x \in at[k]) =>
              Cardinality(PlacesWith(walk, x.id)) =
                  IF \E k \in DOMAIN walk : LeavesBehind(walk[k], x, sort) THEN 0 ELSE 1
      BY <2>5, <2>7, <2>8, <2>9, <2>14, <2>15, <2>16, StayingIsShownOnce
    <2>18. \A x \in found : Cardinality(PlacesWith(walk, x.id)) > 1 =>
                 Cardinality(KeysOf(found, x.id)) > 1
      <3> SUFFICES ASSUME NEW x \in found, Cardinality(PlacesWith(walk, x.id)) > 1
                   PROVE  Cardinality(KeysOf(found, x.id)) > 1
        OBVIOUS
      <3>1. PICK keys : keys = KeysOf(found, x.id)  OBVIOUS
      <3>2. Cardinality(keys) > 1  BY <2>5, <2>8, <2>11, <2>12, <3>1, ShownTwiceIsMoved
      <3> QED  BY <3>1, <3>2
    <2>19. \A p, q \in PlacesOf(walk) :
              Earlier(p, q) => Precedes(RowAt(walk, p), RowAt(walk, q), sort)
      BY <2>5, <2>8, PlacesAreSorted
    <2>20. \A k \in DOMAIN walk : Len(walk[k].rows) <= limit
      BY <2>5, <2>8, <2>9, ShownIsFound
    <2>21. walk[Len(walk)].next = NULL  BY <2>9, <2>15
    <2>22. (\E k \in DOMAIN walk : walk[k].raised) <=> (sort.enum /\ walk[1].next # NULL)
      BY <2>5, <2>8, <2>9, <2>14, <2>15, RaisesByEnum
    <2>23. ShowsFaithfully(walk, at, found, sort, limit)
      BY <2>17, <2>18, <2>19, <2>20, <2>21, <2>22, Zenon DEF ShowsFaithfully
    <2> QED  BY <2>4, <2>10, <2>23, Zenon DEF PagesContract
  <1>2. IInv => PagesContract  BY <1>1 DEF PagesContract
  <1> QED  BY <1>2, DecisionsInvariant, PTL

(* Whatever crosses a boundary of the platform does so by contract or not at  *)
(* all, for every input the assumptions admit.                                *)
THEOREM ContractsStand == Spec => []ContractsHold
  BY SeamHolds, DoorHolds, ConnectorsHold, EmbeddingHolds, EntriesHold, CataloguesHold, LegsHold,
     AuditHolds, ReadersHold, ConversationsHold, DashboardsHold, PTL
  DEF ContractsHold

=============================================================================
