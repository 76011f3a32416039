------------------------------ MODULE Messages ------------------------------
(***************************************************************************)
(* What travels between the processes: from the outbox row a request       *)
(* leaves behind to the verdict of the consumer that finds the message on  *)
(* its queue.  Three consumers read three queues, and each shares a code   *)
(* base with the publisher of another.                                     *)
(***************************************************************************)
EXTENDS Boundary

(* The edge (CorrelationIdMiddleware): a caller's identifier if it matches    *)
(* the pattern, a fresh one otherwise.                                        *)
CorrelationFor(raw) == IF raw \in WellFormedCorrelation THEN raw ELSE "minted"

TriggerKinds ==
    {"approval.granted", "approval.rejected", "consent.granted", "consent.refused", "sample.flow"}

-----------------------------------------------------------------------------
(* Publishing (ragcore.messaging, workers.outbox_dispatch). *)

(* enqueue_trigger: the explicit identifier, else the ambient one. *)
TriggerRow(kind, ambient, explicit) ==
    [kind |-> kind,
     payload |-> [workItemId |-> "uuid",
                  correlationId |-> IF explicit # NULL THEN explicit ELSE ambient]]

(* envelope_from_row: the kind chooses the identifier.  NULL is a refusal,    *)
(* which the dispatcher records as a failed attempt.                          *)
EnvelopeFromRow(row) ==
    LET subject == IF row.kind \in MessageKinds THEN "jobId" ELSE "workItemId"
    IN  IF \/ row.kind \notin MessageKinds \cup TriggerKinds
           \/ {subject, "correlationId"} \ DOMAIN row.payload # {}
           \/ row.payload[subject] # "uuid"
        THEN NULL
        ELSE [subject |-> subject, id |-> row.payload[subject],
              correlation_id |-> row.payload["correlationId"], kind |-> row.kind]

TriggerBody(envelope) ==
    [workItemId |-> envelope.id, correlationId |-> envelope.correlation_id,
     kind |-> envelope.kind]

IntegrationCommandBody(envelope) ==
    [jobId |-> envelope.id, correlationId |-> envelope.correlation_id, kind |-> envelope.kind]

MessageBody(envelope) ==
    IF envelope.subject = "jobId" THEN IntegrationCommandBody(envelope) ELSE TriggerBody(envelope)

(* ServiceBusTriggerPublisher._queue_for; NULL is a refusal. *)
QueueFor(envelope) ==
    IF envelope.subject = "workItemId" THEN "triggers"
    ELSE IF envelope.kind = "integration.execute" THEN "commands"
    ELSE NULL

(* publish and build_message: the queue and the message, or nothing sent. *)
Published(row) ==
    LET envelope == EnvelopeFromRow(row)
    IN  IF envelope = NULL THEN NULL
        ELSE IF QueueFor(envelope) = NULL THEN NULL
        ELSE [queue |-> QueueFor(envelope), body |-> MessageBody(envelope),
              subject |-> envelope.kind, correlation_id |-> envelope.correlation_id]

(* ResultPublisher.publish, on the side of the Integrations Service. *)
PublishedResult(envelope) ==
    [queue |-> "results", body |-> ToJson(envelope), subject |-> envelope.kind,
     correlation_id |-> envelope.correlation_id]

-----------------------------------------------------------------------------
(* Consuming.  A verdict is what is done and under which identifier. *)

DeadLetter == [does |-> "dead_letter", id |-> NULL, correlation_id |-> NULL]

(* resume_worker.parse_message: fields besides the three are not looked at. *)
ParseMessage(body) ==
    /\ {"workItemId", "correlationId", "kind"} \subseteq DOMAIN body
    /\ body["workItemId"] = "uuid"
    /\ body["kind"] \in TriggerKinds

(* HANDLED_KINDS and refuse_unhandled_kind: four kinds have no handler yet. *)
HANDLED_TRIGGERS == {"sample.flow"}

ResumeVerdict(body) ==
    IF ParseMessage(body) /\ body["kind"] \in HANDLED_TRIGGERS
    THEN [does |-> "resume", id |-> "workItemId", correlation_id |-> body["correlationId"]]
    ELSE DeadLetter

(* CommandConsumer.handle: the envelope's contract, then only a command. *)
CommandVerdict(body) ==
    LET envelope == FromJson(body)
    IN  IF envelope = NULL THEN DeadLetter
        ELSE IF envelope.kind # "integration.execute" THEN DeadLetter
        ELSE [does |-> "run", id |-> "jobId", correlation_id |-> envelope.correlation_id]

(* integration_result_worker: a closed set of fields and of kinds; any text   *)
(* is a correlation identifier here.                                          *)
HANDLED_RESULTS == {"integration.completed", "integration.failed"}

ParseResultMessage(body) ==
    /\ DOMAIN body = {"jobId", "correlationId", "kind"}
    /\ body["kind"] \in HANDLED_RESULTS
    /\ body["jobId"] = "uuid"

ResultVerdict(body) ==
    IF ParseResultMessage(body)
    THEN [does |-> "conclude", id |-> "jobId", correlation_id |-> body["correlationId"]]
    ELSE DeadLetter

(* The consumer behind each queue. *)
VerdictAt(queue, body) ==
    CASE queue = "triggers" -> ResumeVerdict(body)
      [] queue = "commands" -> CommandVerdict(body)
      [] queue = "results"  -> ResultVerdict(body)

=============================================================================
