----------------------------- MODULE Admission ------------------------------
(***************************************************************************)
(* Whom the services let in, and for which organisation: the rejection of  *)
(* self-asserted authority, the closed header contract the gateway         *)
(* derives, the registry's say, and the organisation recovered from a      *)
(* durable row.  No state: a decision is a function of the request and of  *)
(* the registry it finds.                                                  *)
(*                                                                         *)
(* A field name is its spelling after folding (case and separators gone),  *)
(* with a leading x told apart, and whether it is one of the five headers  *)
(* of the contract.  An identifier is a value, "" when absent and          *)
(* "malformed" when it is no UUID.                                         *)
(***************************************************************************)
EXTENDS Governance

(* FORBIDDEN_CLIENT_FIELDS, folded: those a request is modelled with. *)
FORBIDDEN_CLIENT_FIELDS == {"tenantid", "roles", "audience"}

(* _is_forbidden: with or without the x. *)
IsForbidden(name) == name.folded \in FORBIDDEN_CLIENT_FIELDS

(* _self_asserted_field: headers but for the contract's, and the query. *)
SelfAsserted(request) ==
    \/ \E name \in request.headers : ~name.contract /\ IsForbidden(name)
    \/ \E name \in request.query : IsForbidden(name)

Refusal(status) == [status |-> status, tenant |-> NULL, principal |-> NULL, roles |-> {},
                    credential |-> NULL]

-----------------------------------------------------------------------------
(* RagCore (api.middleware.identity, api.deps). *)

(* _audience_for: the matched route decides, NULL is a path of no audience. *)
Audience(path) == IF path \in {"customer", "staff", "workload"} THEN path ELSE NULL

(* _roles and StaffRole.parse: a name that is no role confers nothing. *)
ParsedRoles(names) == names \cap StaffRoles

(* _credential_class, in any case; whatever is not app is the narrower one. *)
CredentialClass(raw) == IF raw \in {"app", "APP"} THEN "app" ELSE "delegated"

(* AuthenticatedPrincipal.authorizable_roles *)
AuthorizableRoles(audience, roles) == IF audience = "customer" THEN {"end_user"} ELSE roles

(* TenantContext.is_admitted *)
IsAdmitted(tenant) == tenant # NULL /\ tenant.status = "active"

(* TenantRegistry.admit_end_user: the directory's tid and nothing else. *)
AdmitEndUser(registry, tid) == IF tid \in DOMAIN registry THEN registry[tid] ELSE NULL

(* get_principal; the status it refuses with, or NULL. *)
PrincipalRefusal(request) ==
    IF {request.tid, request.oid} \cap {"", "malformed"} # {} THEN 401
    ELSE IF Audience(request.path) = NULL THEN 404
    ELSE NULL

(* The middleware, then get_principal, then get_tenant.  registry is NULL     *)
(* when no registry is bound.                                                 *)
Admit(request, registry) ==
    IF SelfAsserted(request) THEN Refusal(400)
    ELSE IF PrincipalRefusal(request) # NULL THEN Refusal(PrincipalRefusal(request))
    ELSE IF registry = NULL THEN Refusal(503)
    ELSE LET tenant == AdmitEndUser(registry, request.tid)
         IN  IF ~IsAdmitted(tenant) THEN Refusal(403)
             ELSE [status |-> 200, tenant |-> tenant.id, principal |-> request.oid,
                   roles |-> AuthorizableRoles(Audience(request.path),
                                               ParsedRoles(request.roles)),
                   credential |-> CredentialClass(request.credential)]

-----------------------------------------------------------------------------
(* The Integrations Service (api.middleware.identity): query parameters are   *)
(* screened, headers are not, and only an application credential on the       *)
(* workload surface passes.  It admits no organisation: the tid is the        *)
(* operator's, and is kept for the audit.                                     *)
AdmitWorkload(request) ==
    IF \E name \in request.query : IsForbidden(name) THEN Refusal(400)
    ELSE IF request.oid = "" \/ request.tid = "" THEN Refusal(401)
    ELSE IF request.credential # "app" \/ request.surface # "workload" THEN Refusal(403)
    ELSE [Refusal(200) EXCEPT !.principal = request.oid, !.credential = "app"]

-----------------------------------------------------------------------------
(* The organisation behind an object (rows names the owner of each).         *)

(* integrations TenantResolver: the row's word, NULL without a row. *)
OwnerOf(rows, object) == IF object \in DOMAIN rows THEN rows[object] ELSE NULL

(* ragcore TenantRegistry.tenant_for_work_item and tenant_for_session: joined *)
(* to the registry for the status, so also NULL without a mapping.            *)
TenantFor(rows, registry, object) ==
    LET owner == OwnerOf(rows, object)
        mine  == {tid \in DOMAIN registry : registry[tid].id = owner}
    IN  IF owner = NULL \/ mine = {} THEN NULL ELSE registry[CHOOSE tid \in mine : TRUE]

-----------------------------------------------------------------------------
(* What the organisation may use (integrations.catalogue).  The catalogue is  *)
(* a set of [id, version]; entitlements the [tenant, id] that are enabled.    *)

IsEntitled(entitlements, tenant, id) == [tenant |-> tenant, id |-> id] \in entitlements

RegisteredVersion(catalogue, id) ==
    LET versions == {c.version : c \in {d \in catalogue : d.id = id}}
    IN  IF versions = {} THEN NULL
        ELSE CHOOSE v \in versions : \A w \in versions : v >= w

(* ConnectorRegistry.binding_for, as the versions of id that have one. *)
BoundVersions(bindings, id) == {b.version : b \in {c \in bindings : c.id = id}}

(* CatalogueRepository.capabilities_for: a left join, the unentitled and the  *)
(* versions out of force are listed too.                                      *)
CapabilitiesFor(catalogue, entitlements, tenant) ==
    {[id |-> c.id, version |-> c.version, available |-> TRUE,
      entitled |-> IsEntitled(entitlements, tenant, c.id)] : c \in catalogue}

(* GET /catalogue: exactly one of the two identifiers. *)
ReadCatalogue(session, work, sessions, works, catalogue, entitlements) ==
    LET tenant == IF session # NULL THEN OwnerOf(sessions, session) ELSE OwnerOf(works, work)
    IN  IF (session = NULL) = (work = NULL) THEN [status |-> 400, items |-> {}]
        ELSE IF tenant = NULL THEN [status |-> 404, items |-> {}]
        ELSE [status |-> 200, items |-> CapabilitiesFor(catalogue, entitlements, tenant)]

(* execution.availability.availability_of.  probe is NULL for none, or how    *)
(* reaching the system went; a permanent failure is raised to the caller.     *)
AvailabilityOf(entitled, probe) ==
    CASE ~entitled           -> "not_entitled"
      [] entitled /\ probe = "transient" -> "temporarily_unavailable"
      [] entitled /\ probe = "permanent" -> "raised"
      [] OTHER               -> "available"

=============================================================================
