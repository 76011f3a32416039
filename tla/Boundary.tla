------------------------------ MODULE Boundary ------------------------------
(***************************************************************************)
(* The pure rules of the platform's outer boundary, on both sides of the   *)
(* integration seam: which failures are worth retrying, what a provider    *)
(* response must look like to be taken in, what is left of it, which       *)
(* capability may be used, and what a message on the seam may carry.       *)
(*                                                                         *)
(* A JSON value is abstracted to its kind and its length; a body to its    *)
(* size and the values at its keys.                                        *)
(***************************************************************************)
EXTENDS Values, Integers, Sequences, FiniteSets

-----------------------------------------------------------------------------
(* Outbound calls (ragcore.egress.http). *)

MAX_TIMEOUT_SECONDS == 120

(* OutboundRequest.__post_init__ *)
ValidRequest(timeout, scheme) ==
    0 < timeout /\ timeout <= MAX_TIMEOUT_SECONDS /\ scheme = "https"

(* RetryPolicy.__post_init__ *)
ValidPolicy(max_attempts) == max_attempts \in 1..5

(* egress.http.classify; NULL is a success. *)
Classify(status) ==
    IF status < 400 THEN NULL
    ELSE IF status \in {408, 429} \/ status >= 500 THEN "transient"
    ELSE "permanent"

(* integrations.egress.http: one attempt unless the caller says it may be     *)
(* retried, and then only these statuses are.                                 *)
TRANSIENT_STATUSES == {429, 500, 502, 503, 504}

MAX_ATTEMPTS == 3

AttemptsFor(retriable) == IF retriable THEN MAX_ATTEMPTS ELSE 1

(* An answer is a status, or NULL when the transport failed. *)
TriesAgain(retriable, answer, attempt) ==
    /\ retriable
    /\ attempt < AttemptsFor(retriable)
    /\ answer = NULL \/ answer \in TRANSIENT_STATUSES

(* ResilientCaller.send, answers being what each attempt would meet: how many *)
(* were made, and the status returned, or NULL for an EgressError.            *)
Sent(retriable, answers) ==
    LET last == CHOOSE n \in 1..AttemptsFor(retriable) :
                    /\ ~TriesAgain(retriable, answers[n], n)
                    /\ \A i \in 1..(n - 1) : TriesAgain(retriable, answers[i], i)
    IN  [attempts |-> last, status |-> answers[last]]

(* OutboundResponse.succeeded *)
Succeeded(status) == 200 <= status /\ status < 300

-----------------------------------------------------------------------------
(* Provider output (ragcore.egress.validation).  A value is NULL or its kind  *)
(* and its length after stripping.                                            *)

MAX_TEXT_CHARACTERS == 32000

Text(n) == [kind |-> "text", length |-> n]

IsText(v) == v # NULL /\ v.kind = "text"

(* require_text raises unless this holds; absent and empty are both failures. *)
RequireText(v, limit) == IsText(v) /\ v.length > 0 /\ v.length <= limit

(* optional_text raises unless this holds. *)
OptionalText(v, limit) == v = NULL \/ RequireText(v, limit)

(* AiGatewayEgress._read: what makes the gateway's answer usable. *)
ReadableAnswer(purpose, body) ==
    IF purpose = "completion" THEN RequireText(body, MAX_TEXT_CHARACTERS)
    ELSE body # NULL /\ body.kind = "vector" /\ body.length > 0

(* AzureAiSearchRetrieval._read: one foreign or malformed document and the    *)
(* whole answer is discarded.                                                 *)
ReadableEvidence(tenant, documents) ==
    \A d \in documents : /\ d.tenant = tenant
                         /\ RequireText(d.content, MAX_TEXT_CHARACTERS)
                         /\ OptionalText(d.reference, MAX_TEXT_CHARACTERS)

(* embedding.embeddable_text: symptom, else description, stripped and cut. *)
EMBEDDED_FIELDS == <<"symptom", "description">>
MAX_EMBEDDED_CHARACTERS == 8000

Truncated(n) == IF n > MAX_EMBEDDED_CHARACTERS THEN MAX_EMBEDDED_CHARACTERS ELSE n

EmbeddableText(record) ==
    LET usable == {i \in DOMAIN EMBEDDED_FIELDS :
                      LET f == EMBEDDED_FIELDS[i]
                      IN  f \in DOMAIN record /\ IsText(record[f]) /\ record[f].length > 0}
    IN  IF usable = {} THEN NULL
        ELSE LET f == EMBEDDED_FIELDS[CHOOSE i \in usable : \A j \in usable : i <= j]
             IN  [field |-> f, length |-> Truncated(record[f].length)]

-----------------------------------------------------------------------------
(* Result normalization (integrations.execution.normalization). *)

MAX_PAYLOAD_BYTES == 65536
CASE_FIELDS == {"number", "sys_id", "state", "short_description", "opened_at"}
EXTERNAL_REFERENCE_KEYS == <<"number", "sys_id">>

(* Keys _FORBIDDEN_KEY matches, among those a body is modelled with. *)
FORBIDDEN_KEYS == {"access_token", "callback_url"}

Rejected == [accepted |-> FALSE, payload |-> {}, reference |-> NULL]

(* The first reference key of the payload whose value is text, not blank. *)
ExternalReference(body, payload) ==
    LET usable == {i \in DOMAIN EXTERNAL_REFERENCE_KEYS :
                      LET k == EXTERNAL_REFERENCE_KEYS[i]
                      IN  k \in payload /\ IsText(body[k]) /\ body[k].length > 0}
    IN  IF usable = {} THEN NULL
        ELSE EXTERNAL_REFERENCE_KEYS[CHOOSE i \in usable : \A j \in usable : i <= j]

(* normalize_tool_result: any key but the forbidden ones, a reference or not. *)
NormalizeToolResult(size, body) ==
    IF size > MAX_PAYLOAD_BYTES THEN Rejected
    ELSE LET payload == DOMAIN body \ FORBIDDEN_KEYS
         IN  [accepted |-> TRUE, payload |-> payload,
              reference |-> ExternalReference(body, payload)]

(* normalize_case_result: the contract's keys only, and a reference or none   *)
(* of it.                                                                     *)
NormalizeCaseResult(size, body) ==
    LET payload   == (DOMAIN body \cap CASE_FIELDS) \ FORBIDDEN_KEYS
        reference == ExternalReference(body, payload)
    IN  IF size > MAX_PAYLOAD_BYTES \/ reference = NULL THEN Rejected
        ELSE [accepted |-> TRUE, payload |-> payload, reference |-> reference]

(* _bounded_text: what is no text, or blank, is absent; what is longer than   *)
(* the limit is refused and never cut.                                        *)
BoundedText(v, limit) ==
    [present |-> IsText(v) /\ v.length > 0, refused |-> IsText(v) /\ v.length > limit]

DISPLAY_NAME_LIMIT == 256
MAIL_LIMIT == 320

(* normalize_directory_profile *)
NormalizeDirectoryProfile(size, displayName, mail) ==
    LET name    == BoundedText(displayName, DISPLAY_NAME_LIMIT)
        address == BoundedText(mail, MAIL_LIMIT)
    IN  IF size > MAX_PAYLOAD_BYTES \/ ~name.present \/ name.refused \/ address.refused
        THEN Rejected
        ELSE [accepted |-> TRUE, payload |-> {"display_name", "mail"}, reference |-> NULL]

-----------------------------------------------------------------------------
(* The connectors over them.  A result says what the caller is told: "raised" *)
(* is an EgressError or a BoundaryValidationError.                            *)

Told(outcome, sent, payload) ==
    [outcome |-> outcome, attempts |-> sent.attempts, payload |-> payload]

(* McpClient.invoke: a side effect, so sent once. *)
InvokeTool(answers, size, body) ==
    LET sent   == Sent(FALSE, answers)
        result == NormalizeToolResult(size, body)
    IN  IF sent.status = NULL THEN Told("raised", sent, {})
        ELSE IF ~Succeeded(sent.status) THEN Told("failed", sent, {})
        ELSE IF ~result.accepted THEN Told("raised", sent, {})
        ELSE Told("succeeded", sent, result.payload)

(* McpClient.discover: a read; tools is NULL when the answer holds no list,   *)
(* else the advertised names, "" for an entry without one.                    *)
Discover(answers, tools) ==
    LET sent == Sent(TRUE, answers)
    IN  IF sent.status = NULL THEN Told("raised", sent, {})
        ELSE IF ~Succeeded(sent.status) \/ tools = NULL THEN Told("succeeded", sent, {})
        ELSE Told("succeeded", sent, tools \ {""})

(* MicrosoftGraphAdapter.lookup_principal: a read, where 404 is an answer. *)
LookupPrincipal(answers, size, displayName, mail) ==
    LET sent   == Sent(TRUE, answers)
        result == NormalizeDirectoryProfile(size, displayName, mail)
    IN  IF sent.status = NULL THEN Told("raised", sent, {})
        ELSE IF sent.status = 404 THEN Told("unknown", sent, {})
        ELSE IF ~Succeeded(sent.status) \/ ~result.accepted THEN Told("raised", sent, {})
        ELSE Told("succeeded", sent, result.payload)

-----------------------------------------------------------------------------
(* Access policy (integrations.policy.checks): the first thing wrong. *)

AccessRefusals == {"not_entitled", "not_registered", "version_mismatch", "no_binding"}

(* registered is the highest version of the catalogue entry, or NULL; bound   *)
(* is the set of versions with a connector binding.  NULL permits.            *)
EvaluateAccess(entitled, registered, version, bound) ==
    IF ~entitled THEN "not_entitled"
    ELSE IF registered = NULL THEN "not_registered"
    ELSE IF registered # version THEN "version_mismatch"
    ELSE IF version \notin bound THEN "no_binding"
    ELSE NULL

-----------------------------------------------------------------------------
(* The message envelope of the seam (integrations.messaging.envelope). *)

PERMITTED_FIELDS == {"jobId", "correlationId", "kind"}
MessageKinds == {"integration.execute", "integration.completed", "integration.failed"}

(* The correlation identifiers that match the one pattern of all services:    *)
(* a caller's own, or one the edge minted.                                    *)
WellFormedCorrelation == {"plain", "minted"}

(* to_json: a message body is the values at its keys.  Identifiers are        *)
(* "uuid" or not.                                                             *)
ToJson(envelope) ==
    [jobId |-> envelope.job_id, correlationId |-> envelope.correlation_id,
     kind |-> envelope.kind]

LenientFromJson(body) ==
    IF ~(PERMITTED_FIELDS \subseteq DOMAIN body) THEN NULL
    ELSE IF body["jobId"] # "uuid" THEN NULL
    ELSE IF body["correlationId"] \notin WellFormedCorrelation THEN NULL
    ELSE IF body["kind"] \notin MessageKinds THEN NULL
    ELSE [job_id |-> body["jobId"], correlation_id |-> body["correlationId"],
          kind |-> body["kind"]]

(* from_json: NULL is an EnvelopeError, on which the caller dead-letters. *)
FromJson(body) ==
    IF DOMAIN body \ PERMITTED_FIELDS # {} \/ PERMITTED_FIELDS \ DOMAIN body # {} THEN NULL
    ELSE IF body["jobId"] # "uuid" THEN NULL
    ELSE IF body["correlationId"] \notin WellFormedCorrelation THEN NULL
    ELSE IF body["kind"] \notin MessageKinds THEN NULL
    ELSE [job_id |-> body["jobId"], correlation_id |-> body["correlationId"],
          kind |-> body["kind"]]

=============================================================================
