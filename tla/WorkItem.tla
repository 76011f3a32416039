------------------------------ MODULE WorkItem ------------------------------
(***************************************************************************)
(* The durable authority record (platform.work_item) and everything that   *)
(* races for one row of it: resume consumers that claim and execute the    *)
(* work a trigger names, the expiry sweeper, writers that move the row     *)
(* under optimistic concurrency, and an operator who releases a claim.     *)
(*                                                                         *)
(* PostgreSQL runs at READ COMMITTED.  "rows" and "outcome" are the        *)
(* committed state.  pending[p][w] is the row that the open unit of work   *)
(* of process p has written for w and not committed: it is p's row lock,   *)
(* and another UPDATE of w waits for it.  A SELECT reads committed state.  *)
(***************************************************************************)
EXTENDS Integers, FiniteSets

CONSTANTS
    WorkItems,          \* the work items of one organisation
    Reserved,           \* those whose idempotency_record row was inserted beforehand
    Consumers,          \* resume workers
    Sweepers,           \* expiry sweepers
    Writers,            \* other callers of WorkItemRepository.transition
    TransitionTargets,  \* the states those callers ask for
    Window,             \* length of the execution window, in ticks
    SweepLimit,         \* the sweeper's bound on one pass
    MaxTime,            \* bound: the last instant of the clock
    MaxVersion,         \* bound: rows at this version are left alone by Writers
    MaxFaults,          \* bound: failures, duplicates and releases in a behaviour
    NULL                \* an absent value

WorkItemState ==
    {"open", "awaiting_decision", "authorized", "claimed", "executed",
     "failed", "expired", "cancelled", "escalated"}

Procs == Consumers \cup Sweepers

Row == [state      : WorkItemState,
        version    : Nat,
        expires_at : Nat \cup {NULL},
        claimed_at : Nat \cup {NULL}]

(* Where one consumption of a trigger stands in execute_sample_flow. *)
Phase == {"idle", "claiming", "claimed", "acting", "acted", "finishing"}

Job == [phase : Phase,
        item  : WorkItems \cup {NULL},
        now   : Nat,
        acted : BOOLEAN]

IdleJob == [phase |-> "idle", item |-> NULL, now |-> 0, acted |-> FALSE]

At(j, phase) == [phase |-> phase, item |-> j.item, now |-> j.now, acted |-> j.acted]

Candidate == [item : WorkItems, version : Nat, expires_at : Nat]

Snapshot == [item : WorkItems, version : Nat]

ASSUME NullAssumption ==
    /\ NULL \notin Nat
    /\ NULL \notin WorkItems
    /\ NULL \notin Row
    /\ NULL \notin Snapshot
ASSUME ReservedAssumption == Reserved \subseteq WorkItems
ASSUME ProcessAssumption == Consumers \cap Sweepers = {}
ASSUME TargetAssumption ==
    TransitionTargets \subseteq WorkItemState \ {"open", "authorized", "claimed", "expired"}
ASSUME BoundAssumption ==
    /\ Window \in Nat \ {0}
    /\ SweepLimit \in Nat \ {0}
    /\ MaxTime \in Nat
    /\ MaxVersion \in Nat
    /\ MaxFaults \in Nat

VARIABLES
    rows,       \* committed work_item rows
    outcome,    \* whether an idempotency_record holds the outcome of the operation
    pending,    \* uncommitted row writes of each open unit of work
    clock,      \* the time every worker's ClockPort reads
    queue,      \* trigger deliveries waiting in the broker, per work item
    job,        \* what each consumer is doing
    sweeping,   \* whether a sweeper has a pass open
    cand,       \* rows of the sweeper's list_expired read still to be moved
    snap,       \* the row a writer read last
    faults,     \* failures, duplicates and releases so far
    effects,    \* times the operation was performed, per work item
    applied,    \* performed operations whose unit of work committed
    notified    \* work.completed notifications sent

vars == <<rows, outcome, pending, clock, queue, job, sweeping, cand, snap,
          faults, effects, applied, notified>>

-----------------------------------------------------------------------------
(* Row predicates and row writes. *)

(* The WHERE clause of the atomic claim. *)
ClaimPredicateIgnoringState(row, now) ==
    /\ row.claimed_at = NULL
    /\ row.expires_at # NULL
    /\ row.expires_at > now

ClaimPredicateIgnoringWindow(row, now) ==
    /\ row.claimed_at = NULL
    /\ row.state = "authorized"
    /\ row.expires_at # NULL

ClaimPredicate(row, now) ==
    /\ row.claimed_at = NULL
    /\ row.state = "authorized"
    /\ row.expires_at # NULL
    /\ row.expires_at > now

ClaimedRow(row, now) ==
    [state      |-> "claimed",
     version    |-> row.version + 1,
     expires_at |-> row.expires_at,
     claimed_at |-> now]

(* The WHERE clause of list_expired: unclaimed authorized work past its window. *)
IsExpired(row, now) ==
    /\ row.claimed_at = NULL
    /\ row.state = "authorized"
    /\ row.expires_at # NULL
    /\ row.expires_at <= now

(* guarded_update: the write applies only at the version the caller read. *)
VersionUnchecked(row, expected) == TRUE
VersionOffByOne(row, expected) == row.version = expected + 1
VersionMatches(row, expected) == row.version = expected

Moved(row, state) ==
    [state      |-> state,
     version    |-> row.version + 1,
     expires_at |-> row.expires_at,
     claimed_at |-> row.claimed_at]

AuthorizedRow(row, expires) ==
    [state      |-> "authorized",
     version    |-> row.version + 1,
     expires_at |-> expires,
     claimed_at |-> row.claimed_at]

ReleasedToUnknownState(row) ==
    [state      |-> "released",
     version    |-> row.version,
     expires_at |-> row.expires_at,
     claimed_at |-> NULL]

ReleasedRow(row) ==
    [state      |-> "authorized",
     version    |-> row.version,
     expires_at |-> row.expires_at,
     claimed_at |-> NULL]

LockedByOther(p, w) == \E q \in Procs \ {p} : pending[q][w] # NULL
Unlocked(w) == \A q \in Procs : pending[q][w] = NULL

NoPending == [w \in WorkItems |-> NULL]

Init ==
    /\ rows = [w \in WorkItems |->
                 [state |-> "open", version |-> 1, expires_at |-> NULL, claimed_at |-> NULL]]
    /\ outcome = [w \in WorkItems |-> FALSE]
    /\ pending = [p \in Procs |-> NoPending]
    /\ clock = 0
    /\ queue = [w \in WorkItems |-> 0]
    /\ job = [c \in Consumers |-> IdleJob]
    /\ sweeping = [s \in Sweepers |-> FALSE]
    /\ cand = [s \in Sweepers |-> {}]
    /\ snap = [x \in Writers |-> NULL]
    /\ faults = 0
    /\ effects = [w \in WorkItems |-> 0]
    /\ applied = [w \in WorkItems |-> 0]
    /\ notified = [w \in WorkItems |-> 0]

-----------------------------------------------------------------------------
(* Environment. *)

Tick ==
    /\ clock < MaxTime
    /\ clock' = clock + 1
    /\ UNCHANGED <<rows, outcome, pending, queue, job, sweeping, cand, snap,
                   faults, effects, applied, notified>>

(* The decision that authorizes the work opens its window and, in the same   *)
(* transaction, enqueues the trigger that will wake a consumer.              *)
Authorize(w) ==
    /\ rows[w].state = "open"
    /\ Unlocked(w)
    /\ rows' = [rows EXCEPT ![w] = AuthorizedRow(rows[w], clock + Window)]
    /\ queue' = [queue EXCEPT ![w] = @ + 1]
    /\ UNCHANGED <<outcome, pending, clock, job, sweeping, cand, snap, faults,
                   effects, applied, notified>>

(* At-least-once delivery: the dispatcher sent twice, or the broker redelivered. *)
DuplicateDelivery(w) ==
    /\ faults < MaxFaults
    /\ faults' = faults + 1
    /\ rows[w].state # "open"
    /\ queue' = [queue EXCEPT ![w] = @ + 1]
    /\ UNCHANGED <<rows, outcome, pending, clock, job, sweeping, cand, snap,
                   effects, applied, notified>>

(* The recovery path a human drives: the claim is cleared and the row is made *)
(* authorized again by a plain UPDATE that does not touch the version.        *)
ReleaseClaim(w) ==
    /\ faults < MaxFaults
    /\ faults' = faults + 1
    /\ rows[w].claimed_at # NULL
    /\ Unlocked(w)
    /\ rows' = [rows EXCEPT ![w] = ReleasedRow(rows[w])]
    /\ UNCHANGED <<outcome, pending, clock, queue, job, sweeping, cand, snap,
                   effects, applied, notified>>

-----------------------------------------------------------------------------
(* A resume consumer: execute_sample_flow inside one unit of work.          *)

Receive(c, w) ==
    /\ job[c].phase = "idle"
    /\ queue[w] > 0
    /\ queue' = [queue EXCEPT ![w] = @ - 1]
    /\ job' = [job EXCEPT ![c] = [phase |-> "claiming", item |-> w, now |-> clock, acted |-> FALSE]]
    /\ UNCHANGED <<rows, outcome, pending, clock, sweeping, cand, snap, faults,
                   effects, applied, notified>>

ClaimWon(c) ==
    LET w == job[c].item IN
    /\ job[c].phase = "claiming"
    /\ Unlocked(w)
    /\ ClaimPredicate(rows[w], job[c].now)
    /\ pending' = [pending EXCEPT ![c][w] = ClaimedRow(rows[w], job[c].now)]
    /\ job' = [job EXCEPT ![c] = At(job[c], "claimed")]
    /\ UNCHANGED <<rows, outcome, clock, queue, sweeping, cand, snap, faults,
                   effects, applied, notified>>

(* Losing is a normal outcome: stop, complete the message, change nothing. *)
ClaimLost(c) ==
    LET w == job[c].item IN
    /\ job[c].phase = "claiming"
    /\ Unlocked(w)
    /\ ~ClaimPredicate(rows[w], job[c].now)
    /\ job' = [job EXCEPT ![c] = IdleJob]
    /\ UNCHANGED <<rows, outcome, pending, clock, queue, sweeping, cand, snap,
                   faults, effects, applied, notified>>

(* begin_effect: replay reads the committed outcome of the derived key. *)
ShouldExecuteAlways(w) == TRUE
ShouldExecute(w) == ~outcome[w]

BeginEffect(c) ==
    LET w == job[c].item IN
    /\ job[c].phase = "claimed"
    /\ job' = [job EXCEPT ![c] = At(job[c], IF ShouldExecute(w) THEN "acting" ELSE "finishing")]
    /\ UNCHANGED <<rows, outcome, pending, clock, queue, sweeping, cand, snap,
                   faults, effects, applied, notified>>

(* The operation, and the outcome written to idempotency_record by the same *)
(* unit of work (complete_effect), visible to nobody until it commits.      *)
Act(c) ==
    LET w == job[c].item IN
    /\ job[c].phase = "acting"
    /\ effects' = [effects EXCEPT ![w] = @ + 1]
    /\ job' = [job EXCEPT ![c] =
                 [phase |-> "acted", item |-> w, now |-> job[c].now, acted |-> TRUE]]
    /\ UNCHANGED <<rows, outcome, pending, clock, queue, sweeping, cand, snap,
                   faults, applied, notified>>

(* notify_user: the push leaves the process before the unit of work commits. *)
(* An unconfigured channel and a failed delivery are skipped, never raised.  *)
Notify(c) ==
    /\ job[c].phase = "acted"
    /\ \/ notified' = [notified EXCEPT ![job[c].item] = @ + 1]
       \/ UNCHANGED notified
    /\ job' = [job EXCEPT ![c] = At(job[c], "finishing")]
    /\ UNCHANGED <<rows, outcome, pending, clock, queue, sweeping, cand, snap,
                   faults, effects, applied>>

(* IdempotencyStore.remember is an UPDATE: it records only under a reserved key. *)
Remembered(c, w) == job[c].acted /\ w \in Reserved

(* UnitOfWork.__aexit__ without an exception: claim and outcome land together. *)
Commit(c) ==
    LET w == job[c].item IN
    /\ job[c].phase = "finishing"
    /\ rows' = [rows EXCEPT ![w] = pending[c][w]]
    /\ pending' = [pending EXCEPT ![c] = NoPending]
    /\ outcome' = [outcome EXCEPT ![w] = @ \/ Remembered(c, w)]
    /\ applied' = [applied EXCEPT ![w] = IF job[c].acted THEN @ + 1 ELSE @]
    /\ job' = [job EXCEPT ![c] = IdleJob]
    /\ UNCHANGED <<clock, queue, sweeping, cand, snap, faults, effects, notified>>

(* A crash, an exception or a cancellation rolls the unit of work back; the  *)
(* broker redelivers the message that was never completed.                   *)
Abort(c) ==
    /\ job[c].phase # "idle"
    /\ faults < MaxFaults
    /\ faults' = faults + 1
    /\ pending' = [pending EXCEPT ![c] = NoPending]
    /\ queue' = [queue EXCEPT ![job[c].item] = @ + 1]
    /\ job' = [job EXCEPT ![c] = IdleJob]
    /\ UNCHANGED <<rows, outcome, clock, sweeping, cand, snap, effects, applied, notified>>

-----------------------------------------------------------------------------
(* The expiry sweeper: one unit of work per pass.                           *)

Expirable ==
    {[item |-> w, version |-> rows[w].version, expires_at |-> rows[w].expires_at] :
        w \in {v \in WorkItems : IsExpired(rows[v], clock)}}

(* ORDER BY expires_at LIMIT n: the n oldest windows, ties broken arbitrarily. *)
OldestFirst(S) ==
    {T \in SUBSET S :
        /\ Cardinality(T) <= SweepLimit
        /\ T = S \/ Cardinality(T) = SweepLimit
        /\ \A x \in T, y \in S \ T : x.expires_at <= y.expires_at}

ListExpired(s) ==
    /\ ~sweeping[s]
    /\ Expirable # {}
    /\ sweeping' = [sweeping EXCEPT ![s] = TRUE]
    /\ \E T \in OldestFirst(Expirable) : cand' = [cand EXCEPT ![s] = T]
    /\ UNCHANGED <<rows, outcome, pending, clock, queue, job, snap, faults,
                   effects, applied, notified>>

(* One iteration of the loop, in list order: move the row to expired at the *)
(* version that was read, or count it contended and leave it alone.         *)
SweepRow(s, x) ==
    /\ x \in cand[s]
    /\ \A y \in cand[s] : x.expires_at <= y.expires_at
    /\ ~LockedByOther(s, x.item)
    /\ pending' = IF VersionMatches(rows[x.item], x.version)
                    THEN [pending EXCEPT ![s][x.item] = Moved(rows[x.item], "expired")]
                    ELSE pending
    /\ cand' = [cand EXCEPT ![s] = @ \ {x}]
    /\ UNCHANGED <<rows, outcome, clock, queue, job, sweeping, snap, faults,
                   effects, applied, notified>>

SweepCommit(s) ==
    /\ sweeping[s]
    /\ cand[s] = {}
    /\ rows' = [w \in WorkItems |-> IF pending[s][w] = NULL THEN rows[w] ELSE pending[s][w]]
    /\ pending' = [pending EXCEPT ![s] = NoPending]
    /\ sweeping' = [sweeping EXCEPT ![s] = FALSE]
    /\ UNCHANGED <<outcome, clock, queue, job, cand, snap, faults, effects, applied, notified>>

SweepAbort(s) ==
    /\ sweeping[s]
    /\ faults < MaxFaults
    /\ faults' = faults + 1
    /\ pending' = [pending EXCEPT ![s] = NoPending]
    /\ cand' = [cand EXCEPT ![s] = {}]
    /\ sweeping' = [sweeping EXCEPT ![s] = FALSE]
    /\ UNCHANGED <<rows, outcome, clock, queue, job, snap, effects, applied, notified>>

-----------------------------------------------------------------------------
(* Another caller of the repository: get, decide, transition.               *)

ReadRow(x, w) ==
    /\ snap[x] = NULL
    /\ rows[w].version < MaxVersion
    /\ snap' = [snap EXCEPT ![x] = [item |-> w, version |-> rows[w].version]]
    /\ UNCHANGED <<rows, outcome, pending, clock, queue, job, sweeping, cand,
                   faults, effects, applied, notified>>

Transition(x, state) ==
    /\ snap[x] # NULL
    /\ Unlocked(snap[x].item)
    /\ rows' = IF VersionMatches(rows[snap[x].item], snap[x].version)
                 THEN [rows EXCEPT ![snap[x].item] = Moved(rows[snap[x].item], state)]
                 ELSE rows
    /\ snap' = [snap EXCEPT ![x] = NULL]
    /\ UNCHANGED <<outcome, pending, clock, queue, job, sweeping, cand, faults,
                   effects, applied, notified>>

-----------------------------------------------------------------------------
ConsumerStep(c) ==
    \/ ClaimWon(c)
    \/ ClaimLost(c)
    \/ BeginEffect(c)
    \/ Act(c)
    \/ Notify(c)
    \/ Commit(c)

SweeperStep(s) ==
    \/ ListExpired(s)
    \/ \E x \in cand[s] : SweepRow(s, x)
    \/ SweepCommit(s)

Next ==
    \/ Tick
    \/ \E w \in WorkItems : Authorize(w) \/ DuplicateDelivery(w) \/ ReleaseClaim(w)
    \/ \E c \in Consumers : ConsumerStep(c) \/ Abort(c) \/ \E w \in WorkItems : Receive(c, w)
    \/ \E s \in Sweepers : SweeperStep(s) \/ SweepAbort(s)
    \/ \E x \in Writers :
         (\E w \in WorkItems : ReadRow(x, w)) \/ (\E t \in TransitionTargets : Transition(x, t))

Spec == Init /\ [][Next]_vars

(* Time passes; a worker that has begun a unit of work finishes or fails; a   *)
(* sweeper is scheduled for ever.  Nothing obliges a consumer to receive, a   *)
(* writer to write or an operator to act.                                     *)
Fairness ==
    /\ WF_vars(Tick)
    /\ \A c \in Consumers : WF_vars(ConsumerStep(c))
    /\ \A s \in Sweepers : WF_vars(SweeperStep(s))

FairSpec == Spec /\ Fairness

-----------------------------------------------------------------------------
(* Properties. *)

TypeOK ==
    /\ rows \in [WorkItems -> Row]
    /\ outcome \in [WorkItems -> BOOLEAN]
    /\ pending \in [Procs -> [WorkItems -> Row \cup {NULL}]]
    /\ clock \in Nat
    /\ queue \in [WorkItems -> Nat]
    /\ job \in [Consumers -> Job]
    /\ sweeping \in [Sweepers -> BOOLEAN]
    /\ cand \in [Sweepers -> SUBSET Candidate]
    /\ snap \in [Writers -> Snapshot \cup {NULL}]
    /\ faults \in Nat
    /\ effects \in [WorkItems -> Nat]
    /\ applied \in [WorkItems -> Nat]
    /\ notified \in [WorkItems -> Nat]

(* expiry_sweep.py: a pass that read a row before somebody claimed, released  *)
(* or moved it never forces expiry onto it.  Whatever lands between the       *)
(* sweeper's read and its commit, the row that becomes expired is still       *)
(* authorized, unclaimed and past its window at that moment.                  *)
ExpiryHitsOnlyWaitingWork ==
    [][\A w \in WorkItems :
         rows'[w].state = "expired" /\ rows[w].state # "expired"
           => IsExpired(rows[w], clock)]_vars

(* WorkItemRepository.claim: work that was cancelled, expired or otherwise    *)
(* withdrawn while a trigger was in flight is never claimed by it, even       *)
(* though the claim commits several steps after its predicate was evaluated.  *)
WithdrawnWorkIsNeverClaimed ==
    [][\A w \in WorkItems :
         rows'[w].claimed_at # NULL /\ rows[w].claimed_at = NULL
           => rows[w].state = "authorized"]_vars

(* The two idempotency boundaries together: however many times the trigger is *)
(* delivered, and even when an operator releases the claim so that boundary 1 *)
(* no longer helps, at most one committed consumption performed the operation *)
(* of a work item whose key was reserved.                                     *)
AtMostOneCommittedEffect == \A w \in Reserved : applied[w] <= 1

(* FR-EXEC-001: a committed claim was taken strictly inside the window it      *)
(* names, including by a consumer that waited for a row lock with an old now. *)
ClaimInsideWindow ==
    \A w \in WorkItems :
        rows[w].claimed_at # NULL =>
            rows[w].expires_at # NULL /\ rows[w].claimed_at < rows[w].expires_at

(* expiry_sweep.py: work that expires while nobody looks at it still becomes  *)
(* expired (or is claimed or moved by somebody): once the window has closed   *)
(* on authorized work, it does not stay authorized for ever.                  *)
ClosedWindowIsSettled ==
    \A w \in WorkItems :
        IsExpired(rows[w], clock) ~> ~IsExpired(rows[w], clock)

(* Inductive invariant, in the parts its proof goes through.  Checked by TLC  *)
(* through the properties above, proved in WorkItemProofs.                    *)

(* A row has one writer at a time: an open unit of work excludes the others.  *)
RowLocks ==
    \A p, q \in Procs, w \in WorkItems :
        p # q => pending[p][w] = NULL \/ pending[q][w] = NULL

(* A consumer past its claim holds exactly the claim of the committed row,    *)
(* which is still claimable at the instant it read; one that is performing    *)
(* or has performed the operation found no outcome, and there still is none.  *)
ConsumerInv ==
    \A c \in Consumers :
        /\ job[c].phase # "idle" => job[c].item \in WorkItems
        /\ \A w \in WorkItems :
             IF w = job[c].item /\ job[c].phase \in {"claimed", "acting", "acted", "finishing"}
               THEN /\ ClaimPredicate(rows[w], job[c].now)
                    /\ pending[c][w] = ClaimedRow(rows[w], job[c].now)
                    /\ job[c].phase = "acting" \/ job[c].acted => ~outcome[w]
               ELSE pending[c][w] = NULL
        /\ job[c].acted => job[c].phase \in {"acted", "finishing"}

(* What a sweeper has written but not committed is the expiry of a row that   *)
(* is still expired; what it has read is older than the row, or still true.   *)
SweeperInv ==
    \A s \in Sweepers :
        /\ \A w \in WorkItems :
             pending[s][w] # NULL =>
                IsExpired(rows[w], clock) /\ pending[s][w] = Moved(rows[w], "expired")
        /\ \A x \in cand[s] :
             /\ x.version <= rows[x.item].version
             /\ x.version = rows[x.item].version => IsExpired(rows[x.item], clock)

(* An applied effect has its outcome recorded under the derived key. *)
EffectInv ==
    \A w \in Reserved : applied[w] <= 1 /\ (applied[w] = 1 => outcome[w])

OpenIsUnclaimed ==
    \A w \in WorkItems : rows[w].state = "open" => rows[w].claimed_at = NULL

IInv ==
    /\ TypeOK
    /\ RowLocks
    /\ ConsumerInv
    /\ SweeperInv
    /\ EffectInv
    /\ OpenIsUnclaimed
    /\ ClaimInsideWindow

=============================================================================
