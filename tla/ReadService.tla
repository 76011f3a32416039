----------------------------- MODULE ReadService -----------------------------
(***************************************************************************)
(* The read side: the views the platform publishes over its tables         *)
(* (ragcore.persistence.views) and the .NET service that admits a reader,  *)
(* scopes every view to an organisation and pages through it.  No state:   *)
(* an answer is a function of the request and of the rows it finds.        *)
(*                                                                         *)
(* Instants are in half days.  A row has an id whose order breaks ties.    *)
(* A parameter name is its lower-case spelling.                            *)
(***************************************************************************)
EXTENDS Admission

Sets == INSTANCE FiniteSetsExt

Day(instant) == instant \div 2

-----------------------------------------------------------------------------
(* The published views. *)

(* Null while the session is active, and an active session is readable. *)
Readable(session, now) ==
    session.content_expires_at = NULL \/ session.content_expires_at > now

SessionSummary(sessions, now) == {s \in sessions : Readable(s, now)}

(* The join on the session and its organisation. *)
OfReadableSession(rows, sessions, now) ==
    {r \in rows : \E s \in SessionSummary(sessions, now) :
                      s.id = r.session /\ s.tenant = r.tenant}

SessionMessage(messages, sessions, now) == OfReadableSession(messages, sessions, now)

SessionStep(steps, sessions, now) == OfReadableSession(steps, sessions, now)

MessageFeedback(signals, sessions, now) == OfReadableSession(signals, sessions, now)

(* The lateral join: an approval whose work item has no operation is dropped. *)
LatestOperation(approval, operations) ==
    LET mine == {o \in operations : o.work = approval.work /\ o.tenant = approval.tenant}
    IN  IF mine = {} THEN NULL
        ELSE CHOOSE o \in mine : \A p \in mine : o.created_at >= p.created_at

ApprovalQueue(approvals, operations) ==
    {a \in approvals : a.decided_at = NULL /\ LatestOperation(a, operations) # NULL}

NotExecuted(a, works) ==
    a.verdict = "approved"
        /\ \E w \in works : w.id = a.work /\ w.tenant = a.tenant /\ w.state # "executed"

ApprovalUnexecuted(approvals, works, operations) ==
    {a \in approvals : NotExecuted(a, works) /\ LatestOperation(a, operations) # NULL}

ConnectorCredentialRef(entitlements) ==
    {e \in entitlements : e.enabled /\ e.credential_reference # NULL}

(* One row for each organisation and day on which it opened a session or      *)
(* asked for an approval.  The feedback rate is left out.                     *)
DashboardRollup(sessions, approvals, works) ==
    LET windows == {[tenant |-> s.tenant, day |-> Day(s.created_at)] : s \in sessions}
                       \cup {[tenant |-> a.tenant, day |-> Day(a.requested_at)] : a \in approvals}
        decided(b) == {a \in approvals : a.tenant = b.tenant /\ a.decided_at # NULL
                                             /\ Day(a.decided_at) = b.day}
    IN  {[tenant |-> b.tenant, day |-> b.day,
          session_count |-> Cardinality({s \in sessions : s.tenant = b.tenant
                                                             /\ Day(s.created_at) = b.day}),
          approval_count |-> Cardinality(decided(b)),
          unexecuted_approval_count |->
              Cardinality({a \in decided(b) : NotExecuted(a, works)})] : b \in windows}

-----------------------------------------------------------------------------
(* Who reads, and for which organisation (PrincipalFactory, the middleware). *)

(* ForbiddenParameters: in lower case, but not without its separators. *)
FORBIDDEN_PARAMETERS == {"tenantid", "role"}

IsForbiddenParameter(name, audience) ==
    name \in FORBIDDEN_PARAMETERS /\ ~(audience = "staff" /\ name = "tenantid")

(* Ascending ordinal. *)
CANONICAL_ROLES == <<"administrator", "end_user", "none", "senior_technician", "technician">>

RoleRank(name) == CHOOSE i \in DOMAIN CANONICAL_ROLES : CANONICAL_ROLES[i] = name

(* The roles of the claim, as the set the principal holds. *)
RolesNamed(names) == {names[i] : i \in DOMAIN names}

(* TryParseRoles: NULL unless every name is a role, in canonical order,       *)
(* and a sentinel stands alone.                                               *)
TryParseRoles(names) ==
    IF /\ names # <<>>
       /\ \A i \in DOMAIN names : names[i] \in StaffRoles
       /\ \A i, j \in DOMAIN names : i < j => RoleRank(names[i]) < RoleRank(names[j])
       /\ {"end_user", "none"} \cap RolesNamed(names) # {} => Len(names) = 1
    THEN RolesNamed(names) ELSE NULL

(* TryCreate; unlike RagCore it refuses a credential class that the audience  *)
(* does not take, and does not fold its case.                                 *)
IsPrincipal(request) ==
    /\ {request.tid, request.oid} \cap {"", "malformed"} = {}
    /\ TryParseRoles(request.roles) # NULL
    /\ request.credential = IF Audience(request.path) = "workload" THEN "app" ELSE "delegated"

OperatorWide == [kind |-> "all", tenant |-> NULL]

(* TryBindScopeAsync: staff read across organisations, and an organisation in *)
(* the registry is bound whatever its status.                                 *)
ScopeOf(request, registry) ==
    IF Audience(request.path) = "staff" THEN OperatorWide
    ELSE LET row == AdmitEndUser(registry, request.tid)
         IN  IF row = NULL THEN NULL ELSE [kind |-> "one", tenant |-> row.id]

(* RoleIntersection.Evaluate: what accepts no role denies everyone. *)
Permits(held, accepted) == held \cap accepted # {}

AcceptsParameters(names, whitelist) ==
    names \ {"sort", "cursor", "limit"} \subseteq whitelist

(* The middleware, the role filter of the endpoint, the whitelist of a paged  *)
(* one; the status it refuses with and no scope, or 200 and the scope.        *)
AdmitReader(request, registry, endpoint) ==
    LET audience == Audience(request.path)
        refuse(status) == [status |-> status, scope |-> NULL]
    IN  IF \E name \in request.query : IsForbiddenParameter(name, audience) THEN refuse(400)
        ELSE IF ~IsPrincipal(request) THEN refuse(401)
        ELSE IF ScopeOf(request, registry) = NULL THEN refuse(403)
        ELSE IF ~Permits(AuthorizableRoles(audience, TryParseRoles(request.roles)),
                         endpoint.accepted) THEN refuse(403)
        ELSE IF ~AcceptsParameters(request.query, endpoint.filterable) THEN refuse(400)
        ELSE [status |-> 200, scope |-> ScopeOf(request, registry)]

(* ReadModelQueryFilter: on every organisation-owned view. *)
InScope(rows, scope) ==
    {r \in rows : (scope.kind = "one" /\ r.tenant = scope.tenant) \/ scope.kind = "all"}

(* SessionReadModel: a customer's own sessions and what hangs off them, and   *)
(* the sessions not closed for staff.                                         *)
OwnSessions(sessions, scope, requester, now) ==
    {s \in InScope(SessionSummary(sessions, now), scope) : s.requester = requester}

OwnMessages(messages, sessions, scope, requester, session, now) ==
    {m \in InScope(SessionMessage(messages, sessions, now), scope) :
        m.session \in {s.id : s \in {t \in OwnSessions(sessions, scope, requester, now) :
                                         t.id = session}}}

LiveSessions(sessions, scope, now) ==
    {s \in InScope(SessionSummary(sessions, now), scope) : s.closed_at = NULL}

(* The staff filter tenantId selects within what the scope shows already. *)
Narrowed(rows, scope, tenant) ==
    {r \in InScope(rows, scope) : tenant = NULL \/ r.tenant = tenant}

(* AuditReadModel.SearchAsync: from the lower bound, up to the upper one. *)
SearchAudit(events, scope, tenant, from, to) ==
    {e \in Narrowed(events, scope, tenant) :
        (from = NULL \/ e.occurred_at >= from) /\ (to = NULL \/ e.occurred_at < to)}

-----------------------------------------------------------------------------
(* Paging (Persistence.Paging, Api.Querying).  A row is [id, key], its key    *)
(* NULL where the column is (expiresAt of both collections of approvals); a   *)
(* sort says which way it runs and whether its key is an enum (status of a    *)
(* tenant, state of a session).                                               *)

DefaultLimit == 50
MaximumLimit == 200

(* PageRequest.ClampLimit, NULL for none. *)
ClampLimit(requested) ==
    IF requested = NULL \/ requested < 1 THEN DefaultLimit
    ELSE IF requested > MaximumLimit THEN MaximumLimit ELSE requested

(* QueryWhitelist.TryResolveSort: NULL is a field that is not sortable. *)
ResolveSort(raw, sortable, default) ==
    IF raw = NULL THEN default
    ELSE IF raw.field \in sortable THEN raw ELSE NULL

(* The database sorts a null after every value. *)
KeyBelow(k, l) == k # NULL /\ (l = NULL \/ k < l)

(* KeysetSortKey.Order: by key, then by id, both the same way. *)
Precedes(a, b, sort) ==
    IF sort.descending THEN KeyBelow(b.key, a.key) \/ (b.key = a.key /\ b.id < a.id)
    ELSE KeyBelow(a.key, b.key) \/ (a.key = b.key /\ a.id < b.id)

(* What the database compares: a null key equals a null one, and is neither   *)
(* before nor after any value.                                                *)
Comparable(a, b) == a.key = NULL <=> b.key = NULL

AfterByKey(rows, sort, anchor) ==
    {r \in rows : Comparable(anchor, r) /\ Precedes(anchor, r, sort) /\ anchor.key # r.key}

(* KeysetSortKey.After: what comes after the anchor and compares with it. *)
After(rows, sort, anchor) ==
    {r \in rows : Comparable(anchor, r) /\ Precedes(anchor, r, sort)}

(* The rows in that order. *)
Ordered(rows, sort) ==
    [i \in 1..Cardinality(rows) |->
        CHOOSE r \in rows :
            Cardinality({p \in rows : Precedes(p, r, sort)}) = i - 1]

(* KeysetQuery.TakeAsync: one row more than the limit tells whether to go on. *)
(* An enum is not an operand of GreaterThan or LessThan (Keyset.Compare), so  *)
(* resuming by one raises.                                                    *)
TakePage(rows, sort, anchor, limit) ==
    LET query == IF anchor = NULL THEN rows ELSE After(rows, sort, anchor)
        taken == Ordered(query, sort)
        page(shown, next) == [rows |-> shown, next |-> next, raised |-> FALSE]
    IN  IF anchor # NULL /\ sort.enum THEN [rows |-> <<>>, next |-> NULL, raised |-> TRUE]
        ELSE IF Len(taken) <= limit THEN page(taken, NULL)
        ELSE page(SubSeq(taken, 1, limit), taken[limit])

(* A client that goes on until there is no continuation; at[n] is what the    *)
(* n-th page finds.                                                           *)
Walk(at, sort, limit) ==
    LET page[n \in DOMAIN at] ==
            IF n = 1 THEN TakePage(at[1], sort, NULL, limit)
            ELSE IF page[n - 1].next = NULL
                 THEN [rows |-> <<>>, next |-> NULL, raised |-> FALSE]
            ELSE TakePage(at[n], sort, page[n - 1].next, limit)
    IN  page

-----------------------------------------------------------------------------
(* The sum of a column. *)
Total(rows, column) == Sets!MapThenSumSet(LAMBDA r : column[r], rows)

(* TenantReadModel.GetPlatformAsync: one row for all organisations, NULL when *)
(* there is none.                                                             *)
GetPlatform(rollup) ==
    IF rollup = {} THEN NULL
    ELSE [window_start |-> Sets!Min({r.day : r \in rollup}),
          window_end   |-> Sets!Max({r.day : r \in rollup}) + 1,
          sessions     |-> Total(rollup, [r \in rollup |-> r.session_count]),
          approvals    |-> Total(rollup, [r \in rollup |-> r.approval_count]),
          unexecuted   |-> Total(rollup, [r \in rollup |-> r.unexecuted_approval_count])]

=============================================================================
