------------------------------- MODULE Outbox -------------------------------
(***************************************************************************)
(* The transactional outbox: writers that insert a row in the transaction  *)
(* of the state change it announces, and dispatchers that publish what is  *)
(* durable and then mark it.                                               *)
(*                                                                         *)
(* One dispatcher pass is one unit of work: the marks and the attempt      *)
(* counts it writes (marked, failed) are its row locks and become visible  *)
(* together when the pass ends, or not at all.  What the transport was     *)
(* given is not undone.                                                    *)
(***************************************************************************)
EXTENDS Integers, FiniteSets

CONSTANTS
    Messages,       \* outbox rows
    Malformed,      \* rows whose kind or payload no envelope can be rebuilt from
    Refused,        \* rows the transport never accepts
    KindOf,         \* the kind column of each row
    Dispatchers,
    BatchSize,      \* rows one pass attempts
    Ceiling,        \* attempts after which a row is undispatchable
    MaxAttempts,    \* bound: attempts are counted up to here
    MaxFaults,      \* bound: transient publish failures and crashes
    NULL

TriggerKinds ==
    {"approval.granted", "approval.rejected", "consent.granted", "consent.refused", "sample.flow"}
Kinds == TriggerKinds \cup {"integration.execute"}

ASSUME RowsAssumption ==
    /\ Malformed \subseteq Messages
    /\ Refused \subseteq Messages
    /\ KindOf \in [Messages -> Kinds]
    /\ NULL \notin Messages
ASSUME LimitAssumption ==
    /\ BatchSize \in Nat \ {0}
    /\ Ceiling \in Nat \ {0}
    /\ MaxAttempts \in Nat
    /\ MaxAttempts > Ceiling
    /\ MaxFaults \in Nat

VARIABLES
    stage,      \* the writer's transaction: absent, open, committed or rolled back
    seq,        \* the identity column, assigned by the INSERT and not by the commit
    nextSeq,
    attempts,   \* committed attempt counts
    dispatched, \* rows whose dispatched_at is committed
    sent,       \* rows the transport has accepted
    reported,   \* the severity of the dead-letter report raised for a row, if any
    open,       \* whether a dispatcher has a pass open
    todo,       \* rows of the pass not attempted yet
    cur,        \* the row being attempted
    ok,         \* whether publish returned for it
    marked,     \* uncommitted mark_dispatched writes of the pass
    failed,     \* uncommitted record_failure writes of the pass
    faults

vars == <<stage, seq, nextSeq, attempts, dispatched, sent, reported, open, todo,
          cur, ok, marked, failed, faults>>

rowVars  == <<stage, seq, nextSeq>>
passVars == <<open, todo, cur, ok, marked, failed>>

Init ==
    /\ stage = [m \in Messages |-> "absent"]
    /\ seq = [m \in Messages |-> 0]
    /\ nextSeq = 1
    /\ attempts = [m \in Messages |-> 0]
    /\ dispatched = {}
    /\ sent = {}
    /\ reported = [m \in Messages |-> "none"]
    /\ open = [d \in Dispatchers |-> FALSE]
    /\ todo = [d \in Dispatchers |-> {}]
    /\ cur = [d \in Dispatchers |-> NULL]
    /\ ok = [d \in Dispatchers |-> FALSE]
    /\ marked = [d \in Dispatchers |-> {}]
    /\ failed = [d \in Dispatchers |-> {}]
    /\ faults = 0

-----------------------------------------------------------------------------
(* Writers. *)

(* The INSERT draws the next sequence number; the row is not visible yet. *)
Enqueue(m) ==
    /\ stage[m] = "absent"
    /\ stage' = [stage EXCEPT ![m] = "open"]
    /\ seq' = [seq EXCEPT ![m] = nextSeq]
    /\ nextSeq' = nextSeq + 1
    /\ UNCHANGED <<attempts, dispatched, sent, reported, passVars, faults>>

(* The state change and the row become durable together, or neither does. *)
EndWrite(m) ==
    /\ stage[m] = "open"
    /\ \E s \in {"committed", "rolledback"} : stage' = [stage EXCEPT ![m] = s]
    /\ UNCHANGED <<seq, nextSeq, attempts, dispatched, sent, reported, passVars, faults>>

-----------------------------------------------------------------------------
(* One dispatcher pass: dispatch_once inside a unit of work.                *)

DirtyUndispatched == {m \in Messages : stage[m] \in {"open", "committed"} /\ m \notin dispatched}

UndispatchedPastCursor ==
    {m \in Messages :
        /\ stage[m] = "committed"
        /\ m \notin dispatched
        /\ \A k \in dispatched : seq[k] < seq[m]}

(* Outbox.undispatched, before ORDER BY and LIMIT: no attempts predicate. *)
Undispatched == {m \in Messages : stage[m] = "committed" /\ m \notin dispatched}

(* ORDER BY sequence LIMIT n. *)
Batch == {m \in Undispatched : Cardinality({k \in Undispatched : seq[k] < seq[m]}) < BatchSize}

IsNext(d, m) ==
    /\ open[d]
    /\ cur[d] = NULL
    /\ m \in todo[d]
    /\ \A k \in todo[d] : seq[m] <= seq[k]

BeginPass(d) ==
    /\ ~open[d]
    /\ Undispatched # {}
    /\ open' = [open EXCEPT ![d] = TRUE]
    /\ todo' = [todo EXCEPT ![d] = Batch]
    /\ UNCHANGED <<rowVars, attempts, dispatched, sent, reported, cur, ok, marked, failed, faults>>

(* publisher.publish returns, or raises.  A row that only failed in transit   *)
(* may have been accepted all the same.                                       *)
Publish(d, m) ==
    /\ IsNext(d, m)
    /\ m \notin Malformed
    /\ todo' = [todo EXCEPT ![d] = @ \ {m}]
    /\ cur' = [cur EXCEPT ![d] = m]
    /\ \/ /\ m \notin Refused
          /\ sent' = sent \cup {m}
          /\ ok' = [ok EXCEPT ![d] = TRUE]
          /\ UNCHANGED faults
       \/ /\ m \notin Refused
          /\ faults < MaxFaults
          /\ faults' = faults + 1
          /\ sent' \in {sent, sent \cup {m}}
          /\ ok' = [ok EXCEPT ![d] = FALSE]
       \/ /\ m \in Refused
          /\ ok' = [ok EXCEPT ![d] = FALSE]
          /\ UNCHANGED <<sent, faults>>
    /\ UNCHANGED <<rowVars, attempts, dispatched, reported, open, marked, failed>>

LockedByOther(d, m) == \E e \in Dispatchers \ {d} : m \in marked[e] \cup failed[e]

(* The transport accepted the row the dispatcher is at. *)
AttemptedOnly(d) == cur[d] # NULL
Accepted(d) == cur[d] # NULL /\ ok[d]

MarkDispatched(d) ==
    /\ Accepted(d)
    /\ ~LockedByOther(d, cur[d])
    /\ marked' = [marked EXCEPT ![d] = @ \cup {cur[d]}]
    /\ cur' = [cur EXCEPT ![d] = NULL]
    /\ UNCHANGED <<rowVars, attempts, dispatched, sent, reported, open, todo, ok, failed, faults>>

ExhaustedLate(n) == n > Ceiling
Exhausted(n) == n >= Ceiling

(* Counted up to MaxAttempts, which is past the ceiling: only comparisons     *)
(* with the ceiling are made of it.                                           *)
Bump(n) == IF n < MaxAttempts THEN n + 1 ELSE n

(* severity_for, and report_dead_letter's answer to a kind it does not know. *)
SeverityIsTheKind(kind) == kind
SeverityFor(kind) ==
    IF kind \in {"approval.granted", "consent.granted"} THEN "governance" ELSE "operational"

RecordFailure(d) ==
    LET m == cur[d] IN
    /\ m # NULL
    /\ ~ok[d]
    /\ ~LockedByOther(d, m)
    /\ failed' = [failed EXCEPT ![d] = @ \cup {m}]
    /\ reported' = IF Exhausted(Bump(attempts[m]))
                     THEN [reported EXCEPT ![m] = SeverityFor(KindOf[m])]
                     ELSE reported
    /\ cur' = [cur EXCEPT ![d] = NULL]
    /\ UNCHANGED <<rowVars, attempts, dispatched, sent, open, todo, ok, marked, faults>>

Rollback(d) ==
    /\ open' = [open EXCEPT ![d] = FALSE]
    /\ todo' = [todo EXCEPT ![d] = {}]
    /\ cur' = [cur EXCEPT ![d] = NULL]
    /\ ok' = [ok EXCEPT ![d] = FALSE]
    /\ marked' = [marked EXCEPT ![d] = {}]
    /\ failed' = [failed EXCEPT ![d] = {}]

(* envelope_from_row raises outside the try: the exception leaves the pass. *)
Malform(d, m) ==
    /\ IsNext(d, m)
    /\ m \in Malformed
    /\ Rollback(d)
    /\ UNCHANGED <<rowVars, attempts, dispatched, sent, reported, faults>>

EndPass(d) ==
    /\ open[d]
    /\ todo[d] = {}
    /\ cur[d] = NULL
    /\ dispatched' = dispatched \cup marked[d]
    /\ attempts' = [m \in Messages |->
                      IF m \in marked[d] \cup failed[d] THEN Bump(attempts[m]) ELSE attempts[m]]
    /\ Rollback(d)
    /\ UNCHANGED <<rowVars, sent, reported, faults>>

(* The process dies, or is cancelled, anywhere in the pass. *)
Crash(d) ==
    /\ open[d]
    /\ faults < MaxFaults
    /\ faults' = faults + 1
    /\ Rollback(d)
    /\ UNCHANGED <<rowVars, attempts, dispatched, sent, reported>>

-----------------------------------------------------------------------------
DispatcherStep(d) ==
    \/ BeginPass(d)
    \/ \E m \in todo[d] : Publish(d, m) \/ Malform(d, m)
    \/ MarkDispatched(d)
    \/ RecordFailure(d)
    \/ EndPass(d)

Next ==
    \/ \E m \in Messages : Enqueue(m) \/ EndWrite(m)
    \/ \E d \in Dispatchers : DispatcherStep(d) \/ Crash(d)

Spec == Init /\ [][Next]_vars

(* A transaction ends; a dispatcher is scheduled again and again, and an      *)
(* attempt it has begun finishes or fails.  Transient failures and crashes    *)
(* are bounded by MaxFaults, so the transport recovers.                       *)
Fairness ==
    /\ \A m \in Messages : WF_vars(EndWrite(m))
    /\ \A d \in Dispatchers : WF_vars(DispatcherStep(d))

FairSpec == Spec /\ Fairness

-----------------------------------------------------------------------------
(* Properties. *)

TypeOK ==
    /\ stage \in [Messages -> {"absent", "open", "committed", "rolledback"}]
    /\ seq \in [Messages -> Nat]
    /\ nextSeq \in Nat
    /\ attempts \in [Messages -> 0 .. MaxAttempts]
    /\ dispatched \subseteq Messages
    /\ sent \subseteq Messages
    /\ reported \in [Messages -> {"none", "governance", "operational"}]
    /\ open \in [Dispatchers -> BOOLEAN]
    /\ todo \in [Dispatchers -> SUBSET Messages]
    /\ cur \in [Dispatchers -> Messages \cup {NULL}]
    /\ ok \in [Dispatchers -> BOOLEAN]
    /\ marked \in [Dispatchers -> SUBSET Messages]
    /\ failed \in [Dispatchers -> SUBSET Messages]
    /\ faults \in Nat

(* outbox_dispatch.py: a row is marked only after the transport accepted it,  *)
(* so a crash anywhere in a pass, or a second dispatcher on the same rows,    *)
(* duplicates a trigger and never loses one.                                  *)
NeverMarkedUnsent == dispatched \subseteq sent

(* A dead-letter report was raised, at the severity the kind calls for. *)
Surfaced(m) ==
    /\ reported[m] # "none"
    /\ KindOf[m] \in {"approval.granted", "consent.granted"} => reported[m] = "governance"

(* Outbox.record_failure and deadletter.py: a row left at the ceiling has     *)
(* been surfaced, and as a governance failure when it carried a granted       *)
(* decision, even when two dispatchers count the same row's failures or a     *)
(* pass rolls its count back.                                                 *)
ExhaustedIsSurfaced ==
    \A m \in Messages : attempts[m] >= Ceiling /\ m \notin dispatched => Surfaced(m)

(* The outbox implements the channel the platform relies on. *)
Channel == INSTANCE TriggerChannel
             WITH accepted <- {m \in Messages : stage[m] = "committed"}, delivered <- sent

(* messaging/outbox.py: durability before publication.  Only what committed   *)
(* is ever handed to the transport.                                           *)
PublishesOnlyWhatCommitted == Channel!Spec

(* messaging/outbox.py: every committed trigger is published in the end,      *)
(* also one that commits after rows with higher sequence numbers were         *)
(* dispatched, and whatever crashes come in between.                          *)
EveryCommittedTriggerIsPublished == Channel!FairSpec

(* Inductive invariant.  What one pass holds: every row it read is committed, *)
(* every row it will mark was accepted, every row whose failure it will count *)
(* is surfaced if that count reaches the ceiling.                             *)
PassInv ==
    \A d \in Dispatchers :
        /\ \A m \in todo[d] : stage[m] = "committed"
        /\ cur[d] # NULL /\ ok[d] => cur[d] \in sent
        /\ marked[d] \subseteq sent
        /\ \A m \in failed[d] : Exhausted(Bump(attempts[m])) => Surfaced(m)

(* A row has one writer at a time. *)
RowLocks ==
    \A d, e \in Dispatchers :
        d # e => (marked[d] \cup failed[d]) \cap (marked[e] \cup failed[e]) = {}

IInv ==
    /\ TypeOK
    /\ PassInv
    /\ RowLocks
    /\ sent \subseteq {m \in Messages : stage[m] = "committed"}
    /\ NeverMarkedUnsent
    /\ ExhaustedIsSurfaced

=============================================================================
