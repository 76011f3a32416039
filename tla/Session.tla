------------------------------ MODULE Session -------------------------------
(***************************************************************************)
(* One chat session from its first message to its removal: the legal moves *)
(* of its state, the triage gate that commits the work item, anchoring to  *)
(* a case, escalation, feedback on messages, and retention: the sweep of   *)
(* chat content and of checkpoints, and the erasure of the organisation.   *)
(*                                                                         *)
(* Requests of one conversation run side by side.  A request reads the     *)
(* session row and then takes the steps of its operation, each on its own: *)
(* it may write to the system of record, which no transaction covers, open *)
(* the work item, record an escalation, and move the session, guarded by   *)
(* the version it read.  No caller puts those steps into one unit of work, *)
(* so none is assumed: between any two of them others run, and the request *)
(* may stop.                                                               *)
(***************************************************************************)
EXTENDS Records

CONSTANTS
    Requests,       \* request slots
    Kinds,          \* what a request may be for: a turn, an anchoring, an escalation, a move
    Messages,       \* message identifiers
    ContentOf,      \* the turn each message carries (Turn)
    Signals,        \* FeedbackSignal
    Givers,         \* principals that may send feedback
    Requester,      \* the end user the session belongs to
    ChatWindow,     \* PLATFORM_DEFAULTS[CHAT_CONTENT], in ticks
    CheckpointWindow,
    Overrides,      \* what retention_overrides may hold for a class: [kind, value]
    MaxTime,        \* bound: the last instant of the clock
    MaxVersion      \* bound: row versions in a behaviour

VARIABLES
    row,         \* chat_session: [state, version, expires], or NULL once removed
    messages,    \* message rows
    feedback,    \* feedback rows, by message and giver
    work,        \* the work_item of the session: [done, updated], or NULL
    checkpoint,  \* the thread has a checkpoint
    case,        \* what the system of record knows: "none", "queued", "committed"
    audited,     \* an escalation is in audit_event
    request,     \* the requests under way
    sweep,       \* the pass of the retention sweep under way
    override,    \* tenant_mapping.retention_overrides
    now,
    closed       \* history: when the session ended and the window in force then

vars == <<row, messages, feedback, work, checkpoint, case, audited, request, sweep,
          override, now, closed>>

-----------------------------------------------------------------------------
(* domain.session_state *)

Awaiting == {"awaiting_user", "awaiting_consent", "awaiting_approval"}
Terminal == {"resolved", "escalated", "closed_declined"}
States == {"conversational", "resolving", "staff_controlled"} \cup Awaiting \cup Terminal

Legal ==
    [s \in States |->
        CASE s = "conversational"   -> {"resolving", "awaiting_user", "staff_controlled"}
                                       \cup Terminal
          [] s = "resolving"        -> {"conversational", "staff_controlled"} \cup Awaiting
                                       \cup Terminal
          [] s \in Awaiting         -> {"resolving", "staff_controlled", "escalated",
                                        "closed_declined"}
          [] s = "staff_controlled" -> Terminal
          [] OTHER                  -> {}]

CanTransition(current, requested) == requested \in Legal[current]

(* _SUSPENSION_FOR *)
SuspensionFor(kind) ==
    CASE kind = "clarification" -> "awaiting_user"
      [] kind = "consent"       -> "awaiting_consent"
      [] kind = "approval"      -> "awaiting_approval"

(* Targets a caller of transition asks for besides the triage gate and        *)
(* escalation: a suspension, a resumption, a takeover, an end.                *)
Moves == {SuspensionFor(k) : k \in {"clarification", "consent", "approval"}}
         \cup {"resolving", "conversational", "staff_controlled", "resolved",
               "closed_declined"}

ASSUME SessionAssumption ==
    /\ Requester \in Givers
    /\ Kinds \subseteq {"turn", "anchor", "escalate"} \cup Moves
    /\ ChatWindow \in Nat \ {0} /\ CheckpointWindow \in Nat \ {0}
    /\ \A o \in Overrides : o.kind = "int" => o.value \in Int
    /\ MaxTime \in Nat /\ MaxVersion \in Nat

-----------------------------------------------------------------------------
(* persistence.retention *)

StampOnlyResolved(state, at, raw) ==
    IF state = "resolved" THEN at + WindowFor(ChatWindow, raw) ELSE NULL

(* content_expiry_for *)
ContentExpiryFor(state, at, raw) ==
    IF state \in Terminal THEN at + WindowFor(ChatWindow, raw) ELSE NULL

-----------------------------------------------------------------------------
Row == [state : States, version : Nat, expires : Nat \cup {NULL}]
Work == [done : BOOLEAN, updated : Nat]
Closed == [at : Nat, window : Nat]

ASSUME NullAssumption ==
    /\ NULL \notin Nat /\ NULL \notin Row /\ NULL \notin Work /\ NULL \notin Closed

(* kind: turn, anchor, escalate or the state asked for; seen: the row read;   *)
(* receipt: of its write to the system of record; written: the row that has   *)
(* to be there before its move is, the work item of a turn or the audit       *)
(* record of an escalation, is.                                               *)
Request == [kind : Kinds,
            seen : [state : States, version : Nat, work : BOOLEAN],
            receipt : {"none", "queued", "committed"},
            written : BOOLEAN]

TypeOK ==
    /\ row \in Row \cup {NULL}
    /\ messages \subseteq Messages
    /\ feedback \in [Messages \X Givers -> Signals \cup {NULL}]
    /\ work \in Work \cup {NULL}
    /\ checkpoint \in BOOLEAN
    /\ case \in {"none", "queued", "committed"}
    /\ audited \in BOOLEAN
    /\ request \in [Requests -> Request \cup {NULL}]
    /\ sweep = NULL \/ sweep \in [content : BOOLEAN, thread : BOOLEAN]
    /\ override \in Overrides
    /\ now \in 0..MaxTime
    /\ closed \in Closed \cup {NULL}

Init ==
    /\ row = [state |-> "conversational", version |-> 1, expires |-> NULL]
    /\ messages = {}
    /\ feedback = [x \in Messages \X Givers |-> NULL]
    /\ work = NULL
    /\ checkpoint = FALSE
    /\ case = "none"
    /\ audited = FALSE
    /\ request = [r \in Requests |-> NULL]
    /\ sweep = NULL
    /\ override \in Overrides
    /\ now = 0
    /\ closed = NULL

-----------------------------------------------------------------------------
(* Conversation. *)

(* A message is stored, and the turn leaves a checkpoint of the thread. *)
AddMessage(m) ==
    /\ row # NULL
    /\ m \notin messages
    /\ messages' = messages \cup {m}
    /\ checkpoint' = TRUE
    /\ UNCHANGED <<row, feedback, work, case, audited, request, sweep, override, now, closed>>

OwnedByAnyone(m, giver) == m \in messages /\ ContentOf[m].sender = "agent"

(* FeedbackRepository._owned_message *)
OwnedMessage(m, giver) ==
    m \in messages /\ ContentOf[m].sender = "agent" /\ giver = Requester

(* The repository's one write of a giver's signal; for a message that is not  *)
(* the caller's own to judge the request is answered 404 and changes nothing. *)
SetFeedback(m, giver, signal) ==
    /\ OwnedMessage(m, giver)
    /\ feedback' = [feedback EXCEPT ![<<m, giver>>] = signal]
    /\ UNCHANGED <<row, messages, work, checkpoint, case, audited, request, sweep, override,
                   now, closed>>

(* PUT: replaces what the caller said before.  DELETE: succeeds when there is *)
(* nothing to take back, too.                                                 *)
RecordFeedback(m, giver, signal) == SetFeedback(m, giver, signal)
WithdrawFeedback(m, giver) == SetFeedback(m, giver, NULL)

-----------------------------------------------------------------------------
(* Requests. *)

Rest == <<messages, feedback, checkpoint, sweep, override, now>>

(* SessionRepository.get *)
Read(r, kind) ==
    /\ request[r] = NULL
    /\ row # NULL
    /\ request' = [request EXCEPT ![r] =
           [kind |-> kind, receipt |-> "none", written |-> FALSE,
            seen |-> [state |-> row.state, version |-> row.version, work |-> work # NULL]]]
    /\ UNCHANGED <<row, work, case, audited, closed, Rest>>

PassReceiptOn(committed, queued) ==
    IF committed THEN "committed" ELSE IF queued THEN "queued" ELSE "unknown"

(* CaseAnchoring.anchor on the receipt: whatever is not committed is queued.  *)
AnchorState(committed, queued) == IF committed THEN "committed" ELSE "queued"

(* CaseSystemPort.record_progress, for anchoring and for escalation under the *)
(* one key of the session: accepted, or held for replay.                      *)
RecordProgress(r) ==
    /\ request[r] # NULL
    /\ request[r].kind \in {"anchor", "escalate"}
    /\ request[r].receipt = "none"
    /\ \E committed, queued \in BOOLEAN :
           LET receipt == AnchorState(committed, queued)
           IN  /\ request' = [request EXCEPT ![r] =
                      [kind |-> @.kind, seen |-> @.seen, receipt |-> receipt, written |-> @.written]]
               /\ case' = IF case = "committed" THEN case ELSE receipt
    /\ UNCHANGED <<row, work, audited, closed, Rest>>

Writes(r) ==
    request' = [request EXCEPT ![r] =
        [kind |-> @.kind, seen |-> @.seen, receipt |-> @.receipt, written |-> TRUE]]

(* AuditWriter.record_escalation: with a receipt in hand, and before it is    *)
(* asked whether the session may escalate from where it is.                   *)
AuditEscalation(r) ==
    /\ request[r] # NULL
    /\ request[r].kind = "escalate"
    /\ request[r].receipt # "none"
    /\ ~request[r].written
    /\ audited' = TRUE
    /\ Writes(r)
    /\ UNCHANGED <<row, work, case, closed, Rest>>

(* The work item a committing turn opens; one session has one. *)
Opens(q) ==
    /\ q.kind = "turn"
    /\ ~q.seen.work
    /\ \E m \in messages : CommitsWork(<<ContentOf[m]>>)

(* WorkItemFactory.open_work_item, as advance calls it.                       *)
OpenWorkItem(r) ==
    /\ request[r] # NULL
    /\ Opens(request[r])
    /\ ~request[r].written
    /\ row # NULL
    /\ work = NULL
    /\ work' = [done |-> FALSE, updated |-> now]
    /\ Writes(r)
    /\ UNCHANGED <<row, case, audited, closed, Rest>>

(* What the request asks of the session.  advance and escalate name a state   *)
(* once their row is written, anchor names none; and whether a case was       *)
(* accepted has no say in who may ask for a resolution.                       *)
Target(q) ==
    CASE q.kind = "turn"     -> IF q.written THEN "resolving" ELSE NULL
      [] q.kind = "escalate" -> IF q.written THEN "escalated" ELSE NULL
      [] q.kind = "anchor"   -> NULL
      [] OTHER               -> q.kind

UpdateUnguarded(q, target) ==
    row' = [state |-> target, version |-> row.version + 1,
            expires |-> LET stamp == ContentExpiryFor(target, now, override)
                        IN  IF stamp = NULL THEN row.expires ELSE stamp]

(* SessionRepository.transition: a guarded update, and the stamp only when    *)
(* there is one.                                                              *)
Update(q, target) ==
    /\ row.version = q.seen.version
    /\ row' = [state |-> target, version |-> row.version + 1,
               expires |-> LET stamp == ContentExpiryFor(target, now, override)
                           IN  IF stamp = NULL THEN row.expires ELSE stamp]

(* domain.session_state.transition on what was read, then the repository's.   *)
Transition(r) ==
    /\ request[r] # NULL
    /\ row # NULL
    /\ row.version < MaxVersion
    /\ LET q      == request[r]
           target == Target(q)
           window == WindowFor(ChatWindow, override)
       IN  /\ target # NULL
           /\ CanTransition(q.seen.state, target)
           /\ target \in Terminal => now + window <= MaxTime
           /\ Update(q, target)
           /\ closed' = IF target \in Terminal THEN [at |-> now, window |-> window] ELSE closed
    /\ request' = [request EXCEPT ![r] = NULL]
    /\ UNCHANGED <<work, case, audited, Rest>>

(* A request ends, or stops anywhere: it has nothing more to do, the move is  *)
(* illegal, the version or the unique work item was taken by another, the row *)
(* is gone, the client left, the process died.  What is written stays.        *)
Abandon(r) ==
    /\ request[r] # NULL
    /\ request' = [request EXCEPT ![r] = NULL]
    /\ UNCHANGED <<row, work, case, audited, closed, Rest>>

-----------------------------------------------------------------------------
(* The rest of the platform. *)

Others == <<messages, feedback, audited, request, closed>>

(* A write held for replay reaches the system of record. *)
Replay ==
    /\ case = "queued"
    /\ case' = "committed"
    /\ UNCHANGED <<row, work, checkpoint, sweep, override, now, Others>>

(* The work item reaches a completed state (module WorkItem). *)
CompleteWork ==
    /\ work # NULL
    /\ ~work.done
    /\ work' = [done |-> TRUE, updated |-> now]
    /\ UNCHANGED <<row, checkpoint, case, sweep, override, now, Others>>

SetOverride(o) ==
    /\ o # override
    /\ override' = o
    /\ UNCHANGED <<row, work, checkpoint, case, sweep, now, Others>>

Tick ==
    /\ now < MaxTime
    /\ now' = now + 1
    /\ UNCHANGED <<row, work, checkpoint, case, sweep, override, Others>>

SweepByCurrentWindow ==
    row # NULL /\ row.expires # NULL /\ closed.at + WindowFor(ChatWindow, override) <= now

(* sweep_chat_content's predicate *)
ContentExpired == row # NULL /\ row.expires # NULL /\ row.expires <= now

(* eligible_checkpoint_threads' predicate *)
ThreadEligible ==
    /\ work # NULL
    /\ work.done
    /\ work.updated + WindowFor(CheckpointWindow, override) <= now

(* sweep_tenant: the deletes of the session are issued, the threads selected  *)
(* (a pass that finds neither changes nothing and is left out);               *)
SweepBegin ==
    /\ sweep = NULL
    /\ ContentExpired \/ ThreadEligible
    /\ sweep' = [content |-> ContentExpired, thread |-> ThreadEligible]
    /\ UNCHANGED <<row, work, checkpoint, case, override, now, Others>>

(* the checkpointer deletes the threads, outside the transaction; *)
Prune ==
    /\ sweep # NULL
    /\ sweep.thread
    /\ sweep' = [content |-> sweep.content, thread |-> FALSE]
    /\ checkpoint' = FALSE
    /\ UNCHANGED <<row, work, case, override, now, Others>>

(* and the transaction commits: messages and feedback go with the session; *)
SweepCommit ==
    /\ sweep # NULL
    /\ ~sweep.thread
    /\ sweep' = NULL
    /\ IF sweep.content
       THEN /\ row' = NULL
            /\ messages' = {}
            /\ feedback' = [x \in DOMAIN feedback |-> NULL]
       ELSE UNCHANGED <<row, messages, feedback>>
    /\ UNCHANGED <<work, checkpoint, case, audited, request, override, now, closed>>

(* or it does not. *)
SweepAbort ==
    /\ sweep # NULL
    /\ sweep' = NULL
    /\ UNCHANGED <<row, work, checkpoint, case, override, now, Others>>

(* erase_tenant: every table in ERASURE_ORDER in one transaction; not the     *)
(* audit, and not the checkpoints, which have their own owner.                *)
Erase ==
    /\ row # NULL \/ work # NULL
    /\ row' = NULL
    /\ messages' = {}
    /\ feedback' = [x \in DOMAIN feedback |-> NULL]
    /\ work' = NULL
    /\ UNCHANGED <<checkpoint, case, audited, request, sweep, override, now, closed>>

-----------------------------------------------------------------------------
Next ==
    \/ \E m \in Messages : AddMessage(m)
    \/ \E m \in Messages, g \in Givers, s \in Signals : RecordFeedback(m, g, s)
    \/ \E m \in Messages, g \in Givers : WithdrawFeedback(m, g)
    \/ \E r \in Requests, kind \in Kinds : Read(r, kind)
    \/ \E r \in Requests : RecordProgress(r) \/ AuditEscalation(r) \/ OpenWorkItem(r)
    \/ \E r \in Requests : Transition(r) \/ Abandon(r)
    \/ \E o \in Overrides : SetOverride(o)
    \/ Replay \/ CompleteWork \/ Tick \/ Erase
    \/ SweepBegin \/ Prune \/ SweepCommit \/ SweepAbort

Spec == Init /\ [][Next]_vars

-----------------------------------------------------------------------------
(* Properties. *)

(* A session that has ended stays as it ended, stamp and all: no request      *)
(* that read it earlier, raced with the one that ended it or came after can   *)
(* move it or restart its retention clock (transition, guarded_update).       *)
EndedIsFinal ==
    [][row # NULL /\ row.state \in Terminal => row' = row \/ row' = NULL]_vars

(* No escalation is in the audit trail that the system of record was never    *)
(* told of: the write that can be lost comes first, and what is lost between  *)
(* the two is the record, not the case (EscalationPath.escalate).             *)
EscalationIsHandedOver == audited => case # "none"

(* Feedback is only ever the requester's, on an agent's message that is still *)
(* there, however its recording fell among sweeps and erasure                 *)
(* (FeedbackRepository.record, the cascade from chat_session).                *)
FeedbackIsOwned ==
    \A m \in Messages, g \in Givers : feedback[<<m, g>>] # NULL =>
        row # NULL /\ m \in messages /\ ContentOf[m].sender = "agent" /\ g = Requester

(* Retention takes neither too much nor too early.  The conversation goes     *)
(* when it has been over for the window in force when it ended, whatever the  *)
(* override says since; a checkpoint goes when its work is completed; the     *)
(* work item goes with the organisation and never with the conversation; the  *)
(* audit record stays (sweep_tenant, erase_tenant).                           *)
RetentionIsExact ==
    [][/\ row # NULL /\ row' = NULL =>
              \/ closed # NULL /\ closed.at + closed.window <= now
              \/ work' = NULL
       /\ checkpoint /\ ~checkpoint' => work = NULL \/ work.done
       /\ work # NULL /\ work' = NULL => row' = NULL
       /\ audited => audited']_vars

(* No conversation is kept for ever and none is doomed while it goes on: the  *)
(* row carries the instant the sweep will act on exactly when the session has *)
(* ended, in whichever of the three ways, and that instant is the end plus    *)
(* the window then in force (content_expiry_for, sweep_chat_content).         *)
EndedWillExpire ==
    row # NULL =>
        IF row.state \in Terminal THEN row.expires = closed.at + closed.window
        ELSE row.expires = NULL

=============================================================================
