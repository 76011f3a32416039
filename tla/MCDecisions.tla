---------------------------- MODULE MCDecisions -----------------------------
(* Small instances of Decisions for TLC. *)
EXTENDS Decisions, TLC

MCStrip == "k" :> "k" @@ " k" :> "k" @@ " " :> ""

MCEntries ==
    {e \in [treatment : Treatments, roles : {{}, {"technician"}, {"technician", "administrator"}},
            elevated : BOOLEAN] : CanBeRecord(e, 1)}

MCHumanDecisions ==
    [kind : {"approval"}, by : {"staff"}, roles : {{}, {"technician"}, {"end_user"}},
     bound_to : {1, 2}, verdict : {"approved", "rejected"}]
    \cup
    [kind : {"consent"}, by : {"user", "another"}, roles : {{}},
     bound_to : {1, 2}, verdict : {"granted", "refused"}]

(* Windows: none, past, ending now, open. *)
MCGateRequests ==
    [entry : MCEntries \cup {NULL}, entitled : BOOLEAN, admitted : BOOLEAN,
     knowledge : {KnowledgeNotRequired} \cup {AssessKnowledge(s) : s \in {<<>>, <<50>>, <<50, 50>>}},
     decision : MCHumanDecisions \cup {NULL}, requester : {"user"}, version : {1},
     now : {2}, expires_at : {NULL, 1, 2, 3}]

MCLegs ==
    UNION {[1..n -> [reference : 1..3, score : {-1, 0, 1, 2}]] : n \in 0..2}

MCCandidates ==
    UNION {{{[reference |-> r, score |-> f[r]] : r \in 1..n} : f \in [1..n -> {10, 25, 60}]} :
               n \in {0, 2, 6}}

MCRerankerScores == {<<>>, <<1, 2>>, <<2, 2, 1, 9>>, <<9, 8, 7, 8, 9>>}

MCBodies ==
    UNION {{b \in [D -> {"uuid", "plain", "integration.execute", "other"}] :
               "extra" \in D => b["extra"] = "other"} :
           D \in SUBSET {"jobId", "correlationId", "kind", "extra"}}
    \cup [{"workItemId", "correlationId", "kind"} ->
              {"uuid", "plain", "sample.flow", "consent.granted"}]

MCOutboxRows ==
    [kind : {"integration.execute", "integration.completed", "sample.flow", "consent.granted",
             "other"},
     payload : UNION {[D -> {"uuid", "plain", "shaped"}] :
                         D \in SUBSET {"jobId", "workItemId", "correlationId"}}]

MCCaseBodies ==
    UNION {[D -> {Text(0), Text(8), [kind |-> "number", length |-> 8]}] :
           D \in SUBSET {"number", "sys_id", "state", "access_token", "note"}}

MCAccessRequests ==
    [entitled : BOOLEAN, registered : {NULL, 1, 2}, version : {1, 2}, bound : SUBSET {1, 2}]

(* A contract header, and one that claims an organisation in another spelling. *)
MCNames == {[folded |-> "idproles", contract |-> TRUE], [folded |-> "tenantid", contract |-> FALSE],
            [folded |-> "accept", contract |-> FALSE]}

MCHttpRequests ==
    [headers : SUBSET MCNames, query : {{}} \cup {{n} : n \in MCNames},
     tid : {"", "malformed", "t1", "t2", "t3"}, oid : {"", "malformed", "user"},
     roles : {{"technician", "wizard"}}, credential : {"app", "APP", ""},
     surface : {"workload", "chat"}, path : {"customer", "staff", "workload", "other"}]

MCRegistries ==
    {NULL, "t1" :> [id |-> "a", status |-> "active"] @@ "t2" :> [id |-> "b", status |-> "suspended"]}

MCAnswers == [1..3 -> {NULL, 200, 404, 503}]

MCDirectoryTexts == {NULL, Text(0), Text(8), Text(256), Text(257), Text(321)}

MCTools == {NULL, {}, {""}, {"reset", ""}}

MCRecordsToEmbed ==
    UNION {[D -> {NULL, Text(0), Text(15), Text(8000), Text(8001)}] :
               D \in SUBSET {"symptom", "description", "other"}}

MCCatalogueRows ==
    [catalogue_id : {"", "reset"}, version : {0, 1}, default_treatment : {"AUTO", "STAFF_APPROVAL", "LATER"},
     accepted_roles : {NULL, {}, {"technician"}, {"technician", "wizard"}},
     requires_elevation : BOOLEAN, kind : {"read", "other"}, risk_tier : {"low_impact", "other"}]

MCCatalogueReads ==
    [session : {NULL, "s1", "s2"}, work : {NULL, "w1"}, sessions : {"s1" :> "a", "s1" :> "b"},
     works : {"w1" :> "b"}, registry : MCRegistries \ {NULL},
     catalogue : SUBSET {[id |-> "x", version |-> 1], [id |-> "x", version |-> 2],
                         [id |-> "y", version |-> 1]},
     entitlements : SUBSET {[tenant |-> "a", id |-> "x"], [tenant |-> "b", id |-> "x"]},
     bindings : SUBSET {[id |-> "x", version |-> 2], [id |-> "y", version |-> 1]}]

MCFarResults ==
    [succeeded : BOOLEAN, verification : {"server_confirmed", "client_attested", "contradicted"}]

MCMoment(of, tenant, at) ==
    [of |-> of, tenant |-> tenant, at |-> at, requester |-> "user", approver |-> NULL,
     treatment |-> "AUTO", disposition |-> "refuse", reason |-> "no_automation",
     verification |-> "contradicted", chain |-> ActorChain("workload", "workload", "user", "staff")]

MCMoments ==
    SUBSET {MCMoment("escalation", "a", 0), MCMoment("escalation", "b", 1),
            MCMoment("execution", "a", 1), MCMoment("gate", "a", 2),
            [MCMoment("gate", "a", 2) EXCEPT !.disposition = "proceed"]}

(* Up to and past the end of the default window of the first record. *)
MCAuditReads ==
    [tenant : {"a", "b"}, since : {0, 1, 2}, limit : {1, 2, 9}, now : {2, 2554, 2555, 2556, 9999}]

(* As one request header carries them: in order or not, known or not. *)
MCReadRequests ==
    [headers : {{}}, query : SUBSET {"tenantid", "tenant_id", "sort"},
     tid : {"", "malformed", "t1", "t2", "t3"}, oid : {"", "user"},
     roles : {<<>>, <<"end_user">>, <<"technician">>, <<"administrator", "technician">>,
              <<"technician", "administrator">>, <<"end_user", "technician">>, <<"wizard">>},
     credential : {"app", "delegated", "APP", ""}, surface : {"chat"},
     path : {"customer", "staff", "workload"}]

MCEndpoints ==
    [accepted : {{}, {"end_user"}, {"technician"}}, filterable : {{}, {"tenantid"}}]

(* Up to three rows, with a key or with none, one of which is added, removed  *)
(* or moved after the first or the second page; one page more than there can  *)
(* be.                                                                        *)
MCPageRows ==
    {{[id |-> i, key |-> k[i]] : i \in D} : D \in SUBSET (1..3), k \in [1..3 -> {1, 2, NULL}]}

MCCollections ==
    {[n \in 1..5 |-> IF n <= m THEN before ELSE after] : m \in 1..2, before \in MCPageRows,
        after \in MCPageRows}

MCOneChange ==
    {at \in MCCollections : Cardinality({x.id : x \in (at[1] \ at[5]) \cup (at[5] \ at[1])}) <= 1}

MCPageLimits == {NULL, 0, 1, 2, 500}

MCConversations ==
    {c \in [sessions : SUBSET [id : {"s1"}, tenant : {"a"}, requester : {"user", "another"},
                               content_expires_at : {NULL, 1}, closed_at : {NULL, 0}]
                       \cup SUBSET [id : {"s2"}, tenant : {"b"}, requester : {"user"},
                                     content_expires_at : {2}, closed_at : {0}],
             messages : SUBSET [id : {1, 2}, session : {"s1", "s2"}, tenant : {"a", "b"}]] :
        /\ Cardinality(c.sessions) <= 2
        /\ \A s, t \in c.sessions : s.id = t.id => s = t
        /\ \A s \in c.sessions : s.closed_at = NULL => s.content_expires_at = NULL
        /\ \A m \in c.messages : \E s \in c.sessions : s.id = m.session /\ s.tenant = m.tenant}

(* What one work item and its approval may look like: undecided, decided on   *)
(* the day it was asked for or later, with and without an operation.          *)
MCWorks(w, t) ==
    {x \in [approval : {[work |-> w, tenant |-> t, requested_at |-> r, decided_at |-> d,
                         verdict |-> v] : r \in {0, 2}, d \in {NULL, 1, 3, 4},
                                          v \in {NULL, "approved", "rejected"}},
            work : [id : {w}, tenant : {t}, state : {"ready", "executed"}],
            operations : SUBSET {[work |-> w, tenant |-> t, created_at |-> 0]}] :
        /\ (x.approval.decided_at = NULL) = (x.approval.verdict = NULL)
        /\ x.approval.decided_at # NULL => x.approval.decided_at >= x.approval.requested_at
        /\ x.work.state = "executed" => x.approval.verdict = "approved" /\ x.operations # {}}

MCApprovals ==
    {[sessions |-> s, approvals |-> {x.approval : x \in X}, works |-> {x.work : x \in X},
      operations |-> UNION {x.operations : x \in X}] :
        X \in {{}} \cup {{x} : x \in MCWorks("w1", "a")}
               \cup {{x, y} : x \in MCWorks("w1", "a"), y \in MCWorks("w2", "a")}
               \cup {{x, y} : x \in MCWorks("w1", "a"), y \in MCWorks("w2", "b")},
        s \in SUBSET {[id |-> "s1", tenant |-> "a", created_at |-> 3]}}

=============================================================================
