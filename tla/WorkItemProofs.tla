--------------------------- MODULE WorkItemProofs ---------------------------
(***************************************************************************)
(* Theorems about WorkItem for every number of work items, consumers,      *)
(* sweepers and writers, every window and every bound.                     *)
(***************************************************************************)
EXTENDS WorkItem, TLAPS

(* Row writes keep rows rows, and say which fields they change. *)
LEMMA ClaimedRowFields ==
    ASSUME NEW row \in Row, NEW now \in Nat
    PROVE  /\ ClaimedRow(row, now) \in Row
           /\ ClaimedRow(row, now).state = "claimed"
           /\ ClaimedRow(row, now).claimed_at = now
           /\ ClaimedRow(row, now).version = row.version + 1
           /\ ClaimedRow(row, now).expires_at = row.expires_at
  BY DEF ClaimedRow, Row, WorkItemState

LEMMA MovedFields ==
    ASSUME NEW row \in Row, NEW state \in WorkItemState
    PROVE  /\ Moved(row, state) \in Row
           /\ Moved(row, state).state = state
           /\ Moved(row, state).claimed_at = row.claimed_at
           /\ Moved(row, state).version = row.version + 1
           /\ Moved(row, state).expires_at = row.expires_at
  BY DEF Moved, Row, WorkItemState

LEMMA AuthorizedRowFields ==
    ASSUME NEW row \in Row, NEW expires \in Nat
    PROVE  /\ AuthorizedRow(row, expires) \in Row
           /\ AuthorizedRow(row, expires).state = "authorized"
           /\ AuthorizedRow(row, expires).claimed_at = row.claimed_at
           /\ AuthorizedRow(row, expires).version = row.version + 1
           /\ AuthorizedRow(row, expires).expires_at = expires
  BY DEF AuthorizedRow, Row, WorkItemState

LEMMA ReleasedRowFields ==
    ASSUME NEW row \in Row
    PROVE  /\ ReleasedRow(row) \in Row
           /\ ReleasedRow(row).state = "authorized"
           /\ ReleasedRow(row).claimed_at = NULL
           /\ ReleasedRow(row).version = row.version
           /\ ReleasedRow(row).expires_at = row.expires_at
  BY DEF ReleasedRow, Row, WorkItemState

(* The initial state: nobody has read, locked, claimed or performed anything. *)
LEMMA InitIInv == Init => IInv
  <1> SUFFICES ASSUME Init PROVE IInv
    OBVIOUS
  <1> USE NullAssumption
  <1>1. TypeOK
    BY DEF Init, TypeOK, Row, WorkItemState, Job, Phase, IdleJob, NoPending, Candidate, Snapshot
  <1>2. RowLocks
    BY DEF Init, RowLocks, NoPending
  <1>3. ConsumerInv
    BY DEF Init, ConsumerInv, IdleJob, NoPending, Procs
  <1>4. SweeperInv
    BY DEF Init, SweeperInv, NoPending, Procs
  <1>5. EffectInv /\ OpenIsUnclaimed /\ ClaimInsideWindow
    BY ReservedAssumption DEF Init, EffectInv, OpenIsUnclaimed, ClaimInsideWindow
  <1> QED
    BY <1>1, <1>2, <1>3, <1>4, <1>5 DEF IInv

(* What typing says of one row. *)
LEMMA RowFields ==
    ASSUME NEW row \in Row
    PROVE  /\ row.state \in WorkItemState
           /\ row.version \in Nat
           /\ row.expires_at \in Nat \cup {NULL}
           /\ row.claimed_at \in Nat \cup {NULL}
           /\ row # NULL
  BY NullAssumption DEF Row

(* A consumer past its claim holds the lock of its row, which is claimable. *)
LEMMA HoldsLock ==
    ASSUME IInv, NEW c \in Consumers,
           job[c].phase \in {"claimed", "acting", "acted", "finishing"}
    PROVE  /\ job[c].item \in WorkItems
           /\ ClaimPredicate(rows[job[c].item], job[c].now)
           /\ pending[c][job[c].item] = ClaimedRow(rows[job[c].item], job[c].now)
           /\ pending[c][job[c].item] # NULL
           /\ \A w \in WorkItems \ {job[c].item} : pending[c][w] = NULL
  <1>1. job[c].item \in WorkItems
    BY DEF IInv, ConsumerInv
  <1>2. rows[job[c].item] \in Row /\ job[c] \in Job /\ job[c].now \in Nat
    BY <1>1 DEF IInv, TypeOK, Job
  <1>3. ClaimedRow(rows[job[c].item], job[c].now) # NULL
    BY <1>2, ClaimedRowFields, RowFields
  <1> QED
    BY <1>1, <1>3 DEF IInv, ConsumerInv

(* A committed write to an unlocked row keeps the invariant when it advances  *)
(* the version or hits a claimed row, and when a claim it leaves in place is  *)
(* still inside its window.                                                   *)
LEMMA UnlockedWrite ==
    ASSUME IInv, NEW w \in WorkItems, Unlocked(w),
           rows' \in [WorkItems -> Row],
           \A v \in WorkItems \ {w} : rows'[v] = rows[v],
           UNCHANGED <<outcome, pending, clock, job, cand, applied>>,
           rows'[w].version >= rows[w].version,
           rows'[w].version > rows[w].version \/ rows[w].claimed_at # NULL,
           rows'[w].state # "open",
           rows'[w].claimed_at # NULL =>
               rows'[w].expires_at # NULL /\ rows'[w].claimed_at < rows'[w].expires_at
    PROVE  /\ RowLocks' /\ ConsumerInv' /\ SweeperInv'
           /\ EffectInv' /\ OpenIsUnclaimed' /\ ClaimInsideWindow'
  <1>1. rows \in [WorkItems -> Row]
    BY DEF IInv, TypeOK
  <1>2. RowLocks' /\ EffectInv'
    BY DEF IInv, RowLocks, EffectInv
  <1>3. ConsumerInv'
    <2> SUFFICES ASSUME NEW c \in Consumers, NEW v \in WorkItems,
                        v = job[c].item,
                        job[c].phase \in {"claimed", "acting", "acted", "finishing"}
                 PROVE  rows'[v] = rows[v]
      BY DEF IInv, ConsumerInv
    <2>1. pending[c][v] # NULL
      BY HoldsLock
    <2> QED
      BY <1>1, <2>1 DEF Unlocked, Procs
  <1>4. SweeperInv'
    <2>1. ASSUME NEW s \in Sweepers, NEW v \in WorkItems, pending[s][v] # NULL
          PROVE  rows'[v] = rows[v]
      BY <1>1, <2>1 DEF Unlocked, Procs
    <2>2. ASSUME NEW s \in Sweepers, NEW x \in cand[s]
          PROVE  /\ x.version <= rows'[x.item].version
                 /\ x.version = rows'[x.item].version => IsExpired(rows'[x.item], clock)
      <3>1. x \in Candidate /\ x.item \in WorkItems /\ x.version \in Nat
        BY DEF IInv, TypeOK, Candidate
      <3>2. /\ x.version <= rows[x.item].version
            /\ x.version = rows[x.item].version => IsExpired(rows[x.item], clock)
        BY DEF IInv, SweeperInv
      <3>3. CASE x.item = w
        <4>1. rows[w].version \in Nat /\ rows'[w].version \in Nat
          BY <1>1, RowFields
        <4>2. rows[w].claimed_at # NULL => x.version < rows[w].version
          BY <3>1, <3>2, <3>3, <4>1 DEF IsExpired
        <4> QED
          BY <1>1, <3>1, <3>2, <3>3, <4>1, <4>2
      <3>4. CASE x.item # w
        BY <1>1, <3>1, <3>2, <3>4
      <3> QED
        BY <3>3, <3>4
    <2>3. ASSUME NEW s \in Sweepers, NEW v \in WorkItems, pending[s][v] # NULL
          PROVE  IsExpired(rows'[v], clock) /\ pending[s][v] = Moved(rows'[v], "expired")
      BY <2>1, <2>3 DEF IInv, SweeperInv
    <2> QED
      BY <2>2, <2>3 DEF SweeperInv
  <1>5. OpenIsUnclaimed' /\ ClaimInsideWindow'
    BY <1>1 DEF IInv, OpenIsUnclaimed, ClaimInsideWindow
  <1> QED
    BY <1>1, <1>2, <1>3, <1>4, <1>5

-----------------------------------------------------------------------------
(* One lemma per action: it preserves the invariant. *)

(* Time passing only makes an expired row more expired. *)
LEMMA TickStep ==
    ASSUME IInv, Tick
    PROVE  IInv'
  <1>1. TypeOK'
    BY BoundAssumption DEF IInv, TypeOK, Tick
  <1>2. RowLocks' /\ ConsumerInv' /\ EffectInv' /\ OpenIsUnclaimed' /\ ClaimInsideWindow'
    BY DEF IInv, Tick, RowLocks, ConsumerInv, EffectInv, OpenIsUnclaimed, ClaimInsideWindow
  <1>3. SweeperInv'
    <2>1. ASSUME NEW v \in WorkItems, IsExpired(rows[v], clock)
          PROVE  IsExpired(rows'[v], clock')
      <3>1. rows[v] \in Row /\ clock \in Nat
        BY DEF IInv, TypeOK
      <3>2. rows[v].expires_at \in Nat
        BY <2>1, <3>1, RowFields DEF IsExpired
      <3> QED
        BY <2>1, <3>1, <3>2 DEF IsExpired, Tick
    <2>2. \A s \in Sweepers : \A x \in cand[s] : x.item \in WorkItems
      BY DEF IInv, TypeOK, Candidate
    <2> QED
      BY <2>1, <2>2 DEF IInv, SweeperInv, Tick
  <1> QED
    BY <1>1, <1>2, <1>3 DEF IInv

(* Authorization touches an unlocked, unclaimed row and advances its version. *)
LEMMA AuthorizeStep ==
    ASSUME IInv, NEW w \in WorkItems, Authorize(w)
    PROVE  IInv'
  <1>1. rows[w] \in Row /\ rows \in [WorkItems -> Row] /\ clock + Window \in Nat
    BY BoundAssumption DEF IInv, TypeOK
  <1>2. rows'[w] = AuthorizedRow(rows[w], clock + Window)
    BY <1>1 DEF Authorize
  <1>3. /\ rows'[w] \in Row
        /\ rows'[w].state = "authorized"
        /\ rows'[w].version = rows[w].version + 1
        /\ rows'[w].claimed_at = rows[w].claimed_at
    BY <1>1, <1>2, AuthorizedRowFields
  <1>4. rows[w].claimed_at = NULL /\ rows[w].version \in Nat
    BY <1>1, RowFields DEF IInv, OpenIsUnclaimed, Authorize
  <1>5. rows' \in [WorkItems -> Row] /\ \A v \in WorkItems \ {w} : rows'[v] = rows[v]
    BY <1>1, <1>2, <1>3 DEF Authorize
  <1>6. Unlocked(w) /\ UNCHANGED <<outcome, pending, clock, job, cand, applied>>
    BY DEF Authorize
  <1>7. /\ RowLocks' /\ ConsumerInv' /\ SweeperInv'
        /\ EffectInv' /\ OpenIsUnclaimed' /\ ClaimInsideWindow'
    BY <1>3, <1>4, <1>5, <1>6, UnlockedWrite
  <1>8. TypeOK'
    BY <1>5 DEF IInv, TypeOK, Authorize
  <1> QED
    BY <1>7, <1>8 DEF IInv

(* A duplicate delivery is a message and nothing else. *)
LEMMA DuplicateDeliveryStep ==
    ASSUME IInv, NEW w \in WorkItems, DuplicateDelivery(w)
    PROVE  IInv'
  <1>1. TypeOK'
    BY DEF IInv, TypeOK, DuplicateDelivery
  <1>2. UNCHANGED <<rows, outcome, pending, clock, job, cand, applied>>
    BY DEF DuplicateDelivery
  <1> QED
    BY <1>1, <1>2 DEF IInv, RowLocks, ConsumerInv, SweeperInv, EffectInv, OpenIsUnclaimed, ClaimInsideWindow

(* A release keeps the version, but nobody read a claimed row at its version to expire it. *)
LEMMA ReleaseClaimStep ==
    ASSUME IInv, NEW w \in WorkItems, ReleaseClaim(w)
    PROVE  IInv'
  <1>1. rows[w] \in Row /\ rows \in [WorkItems -> Row]
    BY DEF IInv, TypeOK
  <1>2. rows'[w] = ReleasedRow(rows[w])
    BY <1>1 DEF ReleaseClaim
  <1>3. /\ rows'[w] \in Row
        /\ rows'[w].state = "authorized"
        /\ rows'[w].version = rows[w].version
        /\ rows'[w].claimed_at = NULL
        /\ rows[w].version \in Nat
    BY <1>1, <1>2, ReleasedRowFields, RowFields
  <1>4. rows' \in [WorkItems -> Row] /\ \A v \in WorkItems \ {w} : rows'[v] = rows[v]
    BY <1>1, <1>2, <1>3 DEF ReleaseClaim
  <1>5. /\ Unlocked(w) /\ rows[w].claimed_at # NULL
        /\ UNCHANGED <<outcome, pending, clock, job, cand, applied>>
    BY DEF ReleaseClaim
  <1>6. /\ RowLocks' /\ ConsumerInv' /\ SweeperInv'
        /\ EffectInv' /\ OpenIsUnclaimed' /\ ClaimInsideWindow'
    BY <1>3, <1>4, <1>5, UnlockedWrite
  <1>7. TypeOK'
    BY <1>4 DEF IInv, TypeOK, ReleaseClaim
  <1> QED
    BY <1>6, <1>7 DEF IInv

(* A consumer that picks a trigger up holds nothing yet. *)
LEMMA ReceiveStep ==
    ASSUME IInv, NEW c \in Consumers, NEW w \in WorkItems, Receive(c, w)
    PROVE  IInv'
  <1>1. TypeOK'
    BY DEF IInv, TypeOK, Receive, Job, Phase
  <1>2. ConsumerInv'
    BY DEF IInv, TypeOK, ConsumerInv, Receive
  <1>3. RowLocks' /\ SweeperInv' /\ EffectInv' /\ OpenIsUnclaimed' /\ ClaimInsideWindow'
    BY DEF IInv, Receive, RowLocks, SweeperInv, EffectInv, OpenIsUnclaimed, ClaimInsideWindow
  <1> QED
    BY <1>1, <1>2, <1>3 DEF IInv

(* The claim takes the row lock on a claimable row. *)
LEMMA ClaimWonStep ==
    ASSUME IInv, NEW c \in Consumers, ClaimWon(c)
    PROVE  IInv'
  <1> DEFINE w == job[c].item
             r == ClaimedRow(rows[w], job[c].now)
  <1>1. /\ w \in WorkItems /\ rows[w] \in Row /\ job[c] \in Job
        /\ c \in Procs
    BY DEF IInv, TypeOK, ConsumerInv, ClaimWon, Procs
  <1>2. /\ job[c].now \in Nat /\ job[c].acted = FALSE
        /\ At(job[c], "claimed") \in Job
        /\ At(job[c], "claimed").phase = "claimed"
        /\ At(job[c], "claimed").item = w
        /\ At(job[c], "claimed").now = job[c].now
        /\ At(job[c], "claimed").acted = FALSE
    BY <1>1 DEF IInv, ConsumerInv, ClaimWon, Job, At, Phase
  <1>3. r \in Row /\ r # NULL
    BY <1>1, <1>2, ClaimedRowFields, RowFields
  <1>4. /\ job'[c] = At(job[c], "claimed")
        /\ \A d \in Consumers \ {c} : job'[d] = job[d]
        /\ pending'[c][w] = r
        /\ \A p \in Procs, v \in WorkItems : p # c \/ v # w => pending'[p][v] = pending[p][v]
    BY <1>1 DEF IInv, TypeOK, ClaimWon
  <1>5. TypeOK'
    BY <1>1, <1>2, <1>3 DEF IInv, TypeOK, ClaimWon
  <1>6. RowLocks'
    BY <1>1, <1>4 DEF IInv, RowLocks, ClaimWon, Unlocked
  <1>7. ConsumerInv'
    <2>1. UNCHANGED <<rows, outcome>>
      BY DEF ClaimWon
    <2>2. \A d \in Consumers \ {c}, v \in WorkItems : pending'[d][v] = pending[d][v]
      BY <1>4 DEF Procs
    <2>3. ASSUME NEW v \in WorkItems, v # w PROVE pending'[c][v] = NULL
      BY <1>1, <1>4, <2>3 DEF IInv, ConsumerInv, ClaimWon
    <2>4. ClaimPredicate(rows[w], job[c].now)
      BY DEF ClaimWon
    <2> HIDE DEF w, r
    <2>5. pending'[c][w] = ClaimedRow(rows'[w], job'[c].now)
      BY <1>2, <1>4, <2>1 DEF r
    <2>6. ASSUME NEW d \in Consumers, d # c
          PROVE  ConsumerInv!(d)'
      BY <1>4, <2>1, <2>2, <2>6 DEF IInv, ConsumerInv
    <2>7. ConsumerInv!(c)'
      BY <1>1, <1>2, <1>4, <2>1, <2>3, <2>4, <2>5
    <2> QED
      BY <2>6, <2>7 DEF ConsumerInv
  <1>8. SweeperInv'
    BY <1>4, ProcessAssumption DEF IInv, SweeperInv, ClaimWon, Procs
  <1>9. EffectInv' /\ OpenIsUnclaimed' /\ ClaimInsideWindow'
    BY DEF IInv, ClaimWon, EffectInv, OpenIsUnclaimed, ClaimInsideWindow
  <1> QED
    BY <1>5, <1>6, <1>7, <1>8, <1>9 DEF IInv

(* A lost claim changes nothing. *)
LEMMA ClaimLostStep ==
    ASSUME IInv, NEW c \in Consumers, ClaimLost(c)
    PROVE  IInv'
  <1>1. TypeOK'
    BY DEF IInv, TypeOK, ClaimLost, IdleJob, Job, Phase
  <1>2. ConsumerInv'
    BY DEF IInv, TypeOK, ConsumerInv, ClaimLost, IdleJob
  <1>3. RowLocks' /\ SweeperInv' /\ EffectInv' /\ OpenIsUnclaimed' /\ ClaimInsideWindow'
    BY DEF IInv, ClaimLost, RowLocks, SweeperInv, EffectInv, OpenIsUnclaimed, ClaimInsideWindow
  <1> QED
    BY <1>1, <1>2, <1>3 DEF IInv

(* A consumer proceeds to act only when no outcome is recorded. *)
LEMMA BeginEffectStep ==
    ASSUME IInv, NEW c \in Consumers, BeginEffect(c)
    PROVE  IInv'
  <1>1. TypeOK'
    BY DEF IInv, TypeOK, BeginEffect, At, Job, Phase
  <1>2. ConsumerInv'
    BY DEF IInv, TypeOK, ConsumerInv, BeginEffect, At, ShouldExecute, Job
  <1>3. RowLocks' /\ SweeperInv' /\ EffectInv' /\ OpenIsUnclaimed' /\ ClaimInsideWindow'
    BY DEF IInv, BeginEffect, RowLocks, SweeperInv, EffectInv, OpenIsUnclaimed, ClaimInsideWindow
  <1> QED
    BY <1>1, <1>2, <1>3 DEF IInv

(* Acting leaves the rows and the recorded outcomes alone. *)
LEMMA ActStep ==
    ASSUME IInv, NEW c \in Consumers, Act(c)
    PROVE  IInv'
  <1>1. TypeOK'
    BY DEF IInv, TypeOK, ConsumerInv, Act, Job, Phase
  <1>2. ConsumerInv'
    BY DEF IInv, TypeOK, ConsumerInv, Act, Job
  <1>3. RowLocks' /\ SweeperInv' /\ EffectInv' /\ OpenIsUnclaimed' /\ ClaimInsideWindow'
    BY DEF IInv, Act, RowLocks, SweeperInv, EffectInv, OpenIsUnclaimed, ClaimInsideWindow
  <1> QED
    BY <1>1, <1>2, <1>3 DEF IInv

(* A notification changes no durable state. *)
LEMMA NotifyStep ==
    ASSUME IInv, NEW c \in Consumers, Notify(c)
    PROVE  IInv'
  <1>1. TypeOK'
    <2>1. job' \in [Consumers -> Job]
      BY DEF IInv, TypeOK, Notify, At, Job, Phase
    <2>2. job[c].item \in WorkItems
      BY DEF IInv, ConsumerInv, Notify
    <2>3. notified' \in [WorkItems -> Nat]
      BY <2>2 DEF IInv, TypeOK, Notify
    <2> QED
      BY <2>1, <2>3 DEF IInv, TypeOK, Notify
  <1>2. ConsumerInv'
    BY DEF IInv, TypeOK, ConsumerInv, Notify, At, Job
  <1>3. RowLocks' /\ SweeperInv' /\ EffectInv' /\ OpenIsUnclaimed' /\ ClaimInsideWindow'
    BY DEF IInv, Notify, RowLocks, SweeperInv, EffectInv, OpenIsUnclaimed, ClaimInsideWindow
  <1> QED
    BY <1>1, <1>2, <1>3 DEF IInv

(* The commit lands the claim of the row it locked, with the first outcome. *)
LEMMA CommitStep ==
    ASSUME IInv, NEW c \in Consumers, Commit(c)
    PROVE  IInv'
  <1> DEFINE w == job[c].item
             r == ClaimedRow(rows[w], job[c].now)
  <1>1. /\ w \in WorkItems /\ rows[w] \in Row /\ job[c] \in Job
        /\ c \in Procs
        /\ pending[c][w] = r /\ pending[c][w] # NULL
        /\ ClaimPredicate(rows[w], job[c].now)
    BY HoldsLock DEF IInv, TypeOK, Commit, Procs
  <1>2. /\ job[c].now \in Nat /\ job[c].acted \in BOOLEAN
        /\ rows[w].version \in Nat
        /\ rows[w].expires_at \in Nat
        /\ job[c].now < rows[w].expires_at
    BY <1>1, RowFields DEF Job, ClaimPredicate
  <1>3. /\ r \in Row /\ r.state = "claimed" /\ r.claimed_at = job[c].now
        /\ r.version = rows[w].version + 1 /\ r.expires_at = rows[w].expires_at
    BY <1>1, <1>2, ClaimedRowFields
  <1>4. IdleJob \in Job /\ IdleJob.phase = "idle" /\ IdleJob.acted = FALSE
    BY DEF IdleJob, Job, Phase
  <1>5. /\ rows'[w] = r
        /\ \A v \in WorkItems \ {w} : rows'[v] = rows[v]
        /\ rows' \in [WorkItems -> Row]
    BY <1>1, <1>3 DEF IInv, TypeOK, Commit
  <1>6. /\ job'[c] = IdleJob
        /\ \A d \in Consumers \ {c} : job'[d] = job[d]
        /\ job' \in [Consumers -> Job]
    BY <1>4 DEF IInv, TypeOK, Commit
  <1>7. /\ \A v \in WorkItems : pending'[c][v] = NULL
        /\ \A p \in Procs \ {c} : pending'[p] = pending[p]
        /\ pending' \in [Procs -> [WorkItems -> Row \cup {NULL}]]
    BY <1>1 DEF IInv, TypeOK, Commit, NoPending
  <1>8. /\ \A v \in WorkItems \ {w} : outcome'[v] = outcome[v] /\ applied'[v] = applied[v]
        /\ outcome'[w] = (outcome[w] \/ Remembered(c, w))
        /\ applied'[w] = IF job[c].acted THEN applied[w] + 1 ELSE applied[w]
        /\ outcome' \in [WorkItems -> BOOLEAN] /\ applied' \in [WorkItems -> Nat]
    BY <1>1, <1>2 DEF IInv, TypeOK, Commit, Remembered
  <1>9. \A p \in Procs \ {c} : pending[p][w] = NULL
    BY <1>1 DEF IInv, RowLocks
  <1>10. TypeOK'
    BY <1>5, <1>6, <1>7, <1>8 DEF IInv, TypeOK, Commit
  <1>11. RowLocks'
    BY <1>7 DEF IInv, RowLocks
  <1>12. ConsumerInv'
    <2>1. ASSUME NEW d \in Consumers, d # c
          PROVE  ConsumerInv!(d)'
      <3>1. /\ d \in Procs \ {c} /\ job'[d] = job[d] /\ pending'[d] = pending[d]
            /\ ConsumerInv!(d)
        BY <1>6, <1>7, <2>1 DEF IInv, ConsumerInv, Procs
      <3>2. ~(job[d].item = w /\ job[d].phase \in {"claimed", "acting", "acted", "finishing"})
        BY <1>9, <3>1, HoldsLock
      <3> HIDE DEF w, r
      <3> QED
        BY <1>1, <1>5, <1>8, <1>9, <3>1, <3>2
    <2>2. ConsumerInv!(c)'
      BY <1>4, <1>6, <1>7
    <2> QED
      BY <2>1, <2>2 DEF ConsumerInv
  <1>13. SweeperInv'
    <2>1. clock' = clock /\ cand' = cand
      BY DEF Commit
    <2>2. ASSUME NEW s \in Sweepers, NEW v \in WorkItems, pending'[s][v] # NULL
          PROVE  IsExpired(rows'[v], clock) /\ pending'[s][v] = Moved(rows'[v], "expired")
      <3>1. s \in Procs \ {c}
        BY ProcessAssumption DEF Procs
      <3>2. pending[s][v] # NULL /\ pending'[s][v] = pending[s][v] /\ v # w
        BY <1>7, <1>9, <2>2, <3>1
      <3> QED
        BY <1>5, <3>2 DEF IInv, SweeperInv
    <2>3. ASSUME NEW s \in Sweepers, NEW x \in cand[s]
          PROVE  /\ x.version <= rows'[x.item].version
                 /\ x.version = rows'[x.item].version => IsExpired(rows'[x.item], clock)
      <3>1. x.item \in WorkItems /\ x.version \in Nat
        BY DEF IInv, TypeOK, Candidate
      <3>2. /\ x.version <= rows[x.item].version
            /\ x.version = rows[x.item].version => IsExpired(rows[x.item], clock)
        BY DEF IInv, SweeperInv
      <3> HIDE DEF w, r
      <3>3. CASE x.item = w
        BY <1>2, <1>3, <1>5, <3>1, <3>2, <3>3
      <3>4. CASE x.item # w
        BY <1>5, <3>1, <3>2, <3>4
      <3> QED
        BY <3>3, <3>4
    <2> QED
      BY <2>1, <2>2, <2>3 DEF SweeperInv
  <1>14. EffectInv'
    <2> SUFFICES ASSUME NEW v \in Reserved
                 PROVE  applied'[v] <= 1 /\ (applied'[v] = 1 => outcome'[v])
      BY DEF EffectInv
    <2>1. v \in WorkItems /\ applied[v] \in Nat /\ applied[v] <= 1 /\ (applied[v] = 1 => outcome[v])
      BY ReservedAssumption DEF IInv, TypeOK, EffectInv
    <2>2. job[c].acted => ~outcome[w]
      BY <1>1 DEF IInv, ConsumerInv, Commit
    <2> HIDE DEF w, r
    <2>3. CASE v = w
      BY <1>2, <1>8, <2>1, <2>2, <2>3 DEF Remembered
    <2>4. CASE v # w
      BY <1>8, <2>1, <2>4
    <2> QED
      BY <2>3, <2>4
  <1>15. OpenIsUnclaimed' /\ ClaimInsideWindow'
    <2>1. rows'[w].expires_at # NULL
      BY <1>2, <1>3, <1>5, NullAssumption
    <2> HIDE DEF w, r
    <2> QED
      BY <1>2, <1>3, <1>5, <2>1 DEF IInv, OpenIsUnclaimed, ClaimInsideWindow
  <1> QED
    BY <1>10, <1>11, <1>12, <1>13, <1>14, <1>15 DEF IInv

(* A rollback drops what was never visible. *)
LEMMA AbortStep ==
    ASSUME IInv, NEW c \in Consumers, Abort(c)
    PROVE  IInv'
  <1>1. job[c].item \in WorkItems /\ c \in Procs
    BY DEF IInv, ConsumerInv, Abort, Procs
  <1>2. IdleJob \in Job /\ IdleJob.phase = "idle" /\ IdleJob.acted = FALSE
    BY DEF IdleJob, Job, Phase
  <1>3. /\ job'[c] = IdleJob
        /\ \A d \in Consumers \ {c} : job'[d] = job[d]
        /\ job' \in [Consumers -> Job]
    BY <1>2 DEF IInv, TypeOK, Abort
  <1>4. /\ \A v \in WorkItems : pending'[c][v] = NULL
        /\ \A p \in Procs \ {c} : pending'[p] = pending[p]
        /\ pending' \in [Procs -> [WorkItems -> Row \cup {NULL}]]
    BY <1>1 DEF IInv, TypeOK, Abort, NoPending
  <1>5. UNCHANGED <<rows, outcome, clock, cand, applied>>
    BY DEF Abort
  <1>6. TypeOK'
    <2>1. queue' \in [WorkItems -> Nat] /\ faults' \in Nat
      BY <1>1 DEF IInv, TypeOK, Abort
    <2>2. UNCHANGED <<rows, outcome, clock, sweeping, cand, snap, effects, applied, notified>>
      BY DEF Abort
    <2> QED
      BY <1>3, <1>4, <2>1, <2>2 DEF IInv, TypeOK
  <1>7. RowLocks'
    BY <1>4 DEF IInv, RowLocks
  <1>8. ConsumerInv'
    BY <1>2, <1>3, <1>4, <1>5 DEF IInv, ConsumerInv, Procs
  <1>9. SweeperInv'
    BY <1>4, <1>5, ProcessAssumption DEF IInv, SweeperInv, Procs
  <1>10. EffectInv' /\ OpenIsUnclaimed' /\ ClaimInsideWindow'
    BY <1>5 DEF IInv, EffectInv, OpenIsUnclaimed, ClaimInsideWindow
  <1> QED
    BY <1>6, <1>7, <1>8, <1>9, <1>10 DEF IInv

(* What the sweeper reads is true when it reads it. *)
LEMMA ListExpiredStep ==
    ASSUME IInv, NEW s \in Sweepers, ListExpired(s)
    PROVE  IInv'
  <1>1. PICK T \in OldestFirst(Expirable) : cand' = [cand EXCEPT ![s] = T]
    BY DEF ListExpired
  <1>2. ASSUME NEW x \in T
        PROVE  \E v \in WorkItems :
                 /\ IsExpired(rows[v], clock)
                 /\ x = [item |-> v, version |-> rows[v].version, expires_at |-> rows[v].expires_at]
    BY DEF OldestFirst, Expirable
  <1>3. ASSUME NEW x \in T
        PROVE  /\ x \in Candidate
               /\ x.version = rows[x.item].version
               /\ IsExpired(rows[x.item], clock)
    <2>1. PICK v \in WorkItems :
                 /\ IsExpired(rows[v], clock)
                 /\ x = [item |-> v, version |-> rows[v].version, expires_at |-> rows[v].expires_at]
      BY <1>2
    <2>2. rows[v] \in Row
      BY DEF IInv, TypeOK
    <2>3. rows[v].version \in Nat /\ rows[v].expires_at \in Nat
      BY <2>1, <2>2, RowFields DEF IsExpired
    <2> QED
      BY <2>1, <2>3 DEF Candidate
  <1>4. /\ cand'[s] = T
        /\ \A q \in Sweepers \ {s} : cand'[q] = cand[q]
        /\ cand' \in [Sweepers -> SUBSET Candidate]
    BY <1>1, <1>3 DEF IInv, TypeOK
  <1>5. TypeOK'
    BY <1>4 DEF IInv, TypeOK, ListExpired
  <1>6. UNCHANGED <<rows, outcome, pending, clock, job, applied>>
    BY DEF ListExpired
  <1>7. SweeperInv'
    <2>1. ASSUME NEW x \in T PROVE x.version <= rows[x.item].version
      <3>1. x.version \in Nat
        BY <1>3 DEF Candidate
      <3> QED
        BY <1>3, <3>1
    <2> QED
      BY <1>3, <1>4, <1>6, <2>1 DEF IInv, SweeperInv
  <1>8. RowLocks' /\ ConsumerInv' /\ EffectInv' /\ OpenIsUnclaimed' /\ ClaimInsideWindow'
    BY <1>6 DEF IInv, RowLocks, ConsumerInv, EffectInv, OpenIsUnclaimed, ClaimInsideWindow
  <1> QED
    BY <1>5, <1>7, <1>8 DEF IInv

(* An unchanged version means the row is still the expired row that was read. *)
LEMMA SweepRowStep ==
    ASSUME IInv, NEW s \in Sweepers, NEW x \in cand[s], SweepRow(s, x)
    PROVE  IInv'
  <1> DEFINE w == x.item
             r == Moved(rows[w], "expired")
  <1>1. w \in WorkItems /\ rows[w] \in Row /\ s \in Procs
    BY DEF IInv, TypeOK, Candidate, Procs
  <1>2. r \in Row
    BY <1>1, MovedFields DEF WorkItemState
  <1>3. UNCHANGED <<rows, outcome, clock, job, applied>>
    BY DEF SweepRow
  <1>4. cand' \in [Sweepers -> SUBSET Candidate] /\ \A q \in Sweepers : cand'[q] \subseteq cand[q]
    BY DEF IInv, TypeOK, SweepRow
  <1>5. pending' \in [Procs -> [WorkItems -> Row \cup {NULL}]]
    BY <1>1, <1>2 DEF IInv, TypeOK, SweepRow
  <1>6. /\ \A p \in Procs, v \in WorkItems : p # s \/ v # w => pending'[p][v] = pending[p][v]
        /\ \/ pending'[s][w] = pending[s][w]
           \/ rows[w].version = x.version /\ pending'[s][w] = r
    <2>1. CASE rows[w].version = x.version
      <3>1. pending' = [pending EXCEPT ![s][w] = r]
        BY <2>1 DEF SweepRow, VersionMatches
      <3> HIDE DEF w, r
      <3> QED
        BY <1>1, <2>1, <3>1 DEF IInv, TypeOK
    <2>2. CASE rows[w].version # x.version
      <3>1. pending' = pending
        BY <2>2 DEF SweepRow, VersionMatches
      <3> HIDE DEF w, r
      <3> QED
        BY <3>1
    <2> QED
      BY <2>1, <2>2
  <1>7. TypeOK'
    BY <1>4, <1>5 DEF IInv, TypeOK, SweepRow
  <1>8. RowLocks'
    BY <1>1, <1>6 DEF IInv, RowLocks, SweepRow, LockedByOther
  <1>9. ConsumerInv'
    BY <1>3, <1>6, ProcessAssumption DEF IInv, ConsumerInv, Procs
  <1>10. SweeperInv'
    <2>1. rows[w].version = x.version => IsExpired(rows[w], clock)
      BY DEF IInv, SweeperInv
    <2> HIDE DEF w
    <2> QED
      BY <1>1, <1>3, <1>4, <1>6, <2>1 DEF IInv, SweeperInv, Procs
  <1>11. EffectInv' /\ OpenIsUnclaimed' /\ ClaimInsideWindow'
    BY <1>3 DEF IInv, EffectInv, OpenIsUnclaimed, ClaimInsideWindow
  <1> QED
    BY <1>7, <1>8, <1>9, <1>10, <1>11 DEF IInv

(* A pass commits expiries of rows that are still expired. *)
LEMMA SweepCommitStep ==
    ASSUME IInv, NEW s \in Sweepers, SweepCommit(s)
    PROVE  IInv'
  <1>1. s \in Procs /\ rows \in [WorkItems -> Row]
    BY DEF IInv, TypeOK, Procs
  <1>2. ASSUME NEW v \in WorkItems, pending[s][v] # NULL
        PROVE  /\ rows'[v] \in Row
               /\ rows'[v].state = "expired"
               /\ rows'[v].claimed_at = NULL
               /\ rows[v].version \in Nat
               /\ rows'[v].version = rows[v].version + 1
    <2>1. IsExpired(rows[v], clock) /\ pending[s][v] = Moved(rows[v], "expired")
      BY <1>2 DEF IInv, SweeperInv
    <2>2. rows'[v] = Moved(rows[v], "expired")
      BY <1>2, <2>1 DEF SweepCommit
    <2>3. rows[v] \in Row /\ "expired" \in WorkItemState
      BY <1>1 DEF WorkItemState
    <2> QED
      BY <2>1, <2>2, <2>3, MovedFields, RowFields DEF IsExpired
  <1>3. ASSUME NEW v \in WorkItems, pending[s][v] = NULL
        PROVE  rows'[v] = rows[v]
    BY <1>3 DEF SweepCommit
  <1>4. rows' \in [WorkItems -> Row]
    BY <1>1, <1>2, <1>3 DEF SweepCommit
  <1>5. /\ \A v \in WorkItems : pending'[s][v] = NULL
        /\ \A p \in Procs \ {s} : pending'[p] = pending[p]
        /\ pending' \in [Procs -> [WorkItems -> Row \cup {NULL}]]
    BY <1>1 DEF IInv, TypeOK, SweepCommit, NoPending
  <1>6. UNCHANGED <<outcome, clock, job, cand, applied>>
    BY DEF SweepCommit
  <1>7. \A p \in Procs \ {s}, v \in WorkItems : pending[p][v] # NULL => rows'[v] = rows[v]
    BY <1>1, <1>3 DEF IInv, RowLocks
  <1>8. TypeOK'
    BY <1>4, <1>5 DEF IInv, TypeOK, SweepCommit
  <1>9. RowLocks'
    BY <1>5 DEF IInv, RowLocks
  <1>10. ConsumerInv'
    <2> SUFFICES ASSUME NEW c \in Consumers PROVE ConsumerInv!(c)'
      BY DEF ConsumerInv
    <2>1. c \in Procs \ {s} /\ pending'[c] = pending[c] /\ ConsumerInv!(c)
      BY <1>5, ProcessAssumption DEF IInv, ConsumerInv, Procs
    <2>2. job[c].phase \in {"claimed", "acting", "acted", "finishing"}
            => rows'[job[c].item] = rows[job[c].item]
      BY <1>7, <2>1, HoldsLock
    <2> QED
      BY <1>6, <2>1, <2>2
  <1>11. SweeperInv'
    <2>1. ASSUME NEW q \in Sweepers, NEW v \in WorkItems, pending'[q][v] # NULL
          PROVE  IsExpired(rows'[v], clock) /\ pending'[q][v] = Moved(rows'[v], "expired")
      <3>1. q \in Procs \ {s} /\ pending[q][v] # NULL /\ pending'[q][v] = pending[q][v]
        BY <1>5, <2>1 DEF Procs
      <3> QED
        BY <1>7, <3>1 DEF IInv, SweeperInv
    <2>2. ASSUME NEW q \in Sweepers, NEW x \in cand[q]
          PROVE  /\ x.version <= rows'[x.item].version
                 /\ x.version = rows'[x.item].version => IsExpired(rows'[x.item], clock)
      <3>1. x.item \in WorkItems /\ x.version \in Nat
        BY DEF IInv, TypeOK, Candidate
      <3>2. /\ x.version <= rows[x.item].version
            /\ x.version = rows[x.item].version => IsExpired(rows[x.item], clock)
        BY DEF IInv, SweeperInv
      <3>3. CASE pending[s][x.item] = NULL
        BY <1>3, <3>1, <3>2, <3>3
      <3>4. CASE pending[s][x.item] # NULL
        BY <1>2, <3>1, <3>2, <3>4
      <3> QED
        BY <3>3, <3>4
    <2> QED
      BY <1>6, <2>1, <2>2 DEF SweeperInv
  <1>12. EffectInv'
    BY <1>6 DEF IInv, EffectInv
  <1>13. OpenIsUnclaimed' /\ ClaimInsideWindow'
    BY <1>2, <1>3 DEF IInv, OpenIsUnclaimed, ClaimInsideWindow
  <1> QED
    BY <1>8, <1>9, <1>10, <1>11, <1>12, <1>13 DEF IInv

(* A failed pass rolls back whole. *)
LEMMA SweepAbortStep ==
    ASSUME IInv, NEW s \in Sweepers, SweepAbort(s)
    PROVE  IInv'
  <1>1. /\ s \in Procs
        /\ cand' \in [Sweepers -> SUBSET Candidate]
        /\ \A q \in Sweepers : cand'[q] \subseteq cand[q]
    BY DEF IInv, TypeOK, SweepAbort, Procs
  <1>2. /\ \A v \in WorkItems : pending'[s][v] = NULL
        /\ \A p \in Procs \ {s} : pending'[p] = pending[p]
        /\ pending' \in [Procs -> [WorkItems -> Row \cup {NULL}]]
    BY <1>1 DEF IInv, TypeOK, SweepAbort, NoPending
  <1>3. UNCHANGED <<rows, outcome, clock, job, applied>>
    BY DEF SweepAbort
  <1>4. TypeOK'
    BY <1>1, <1>2 DEF IInv, TypeOK, SweepAbort
  <1>5. RowLocks'
    BY <1>2 DEF IInv, RowLocks
  <1>6. ConsumerInv'
    BY <1>2, <1>3, ProcessAssumption DEF IInv, ConsumerInv, Procs
  <1>7. SweeperInv'
    BY <1>1, <1>2, <1>3 DEF IInv, SweeperInv, Procs
  <1>8. EffectInv' /\ OpenIsUnclaimed' /\ ClaimInsideWindow'
    BY <1>3 DEF IInv, EffectInv, OpenIsUnclaimed, ClaimInsideWindow
  <1> QED
    BY <1>4, <1>5, <1>6, <1>7, <1>8 DEF IInv

(* A read changes nothing. *)
LEMMA ReadRowStep ==
    ASSUME IInv, NEW x \in Writers, NEW w \in WorkItems, ReadRow(x, w)
    PROVE  IInv'
  <1>1. rows[w] \in Row
    BY DEF IInv, TypeOK
  <1>2. [item |-> w, version |-> rows[w].version] \in Snapshot
    BY <1>1, RowFields DEF Snapshot
  <1>3. TypeOK'
    BY <1>2 DEF IInv, TypeOK, ReadRow
  <1>4. UNCHANGED <<rows, outcome, pending, clock, job, cand, applied>>
    BY DEF ReadRow
  <1> QED
    BY <1>3, <1>4 DEF IInv, RowLocks, ConsumerInv, SweeperInv, EffectInv, OpenIsUnclaimed, ClaimInsideWindow

(* A writer moves an unlocked row and advances its version, or changes nothing. *)
LEMMA TransitionStep ==
    ASSUME IInv, NEW x \in Writers, NEW t \in TransitionTargets, Transition(x, t)
    PROVE  IInv'
  <1>1. snap[x] \in Snapshot
    BY DEF IInv, TypeOK, Transition
  <1>2. PICK w \in WorkItems : w = snap[x].item
    BY <1>1 DEF Snapshot
  <1>3. rows[w] \in Row /\ rows \in [WorkItems -> Row] /\ t \in WorkItemState /\ t # "open"
    BY TargetAssumption DEF IInv, TypeOK
  <1>4. UNCHANGED <<outcome, pending, clock, job, cand, applied>> /\ Unlocked(w)
    BY <1>2 DEF Transition
  <1>5. CASE rows' = rows
    <2>1. TypeOK'
      BY <1>5 DEF IInv, TypeOK, Transition
    <2> QED
      BY <1>4, <1>5, <2>1 DEF IInv, RowLocks, ConsumerInv, SweeperInv, EffectInv,
                              OpenIsUnclaimed, ClaimInsideWindow
  <1>6. CASE rows' = [rows EXCEPT ![w] = Moved(rows[w], t)]
    <2>1. /\ rows'[w] \in Row
          /\ rows'[w].state = t
          /\ rows'[w].version = rows[w].version + 1
          /\ rows'[w].claimed_at = rows[w].claimed_at
          /\ rows'[w].expires_at = rows[w].expires_at
          /\ rows[w].version \in Nat
      <3>1. rows'[w] = Moved(rows[w], t)
        BY <1>3, <1>6
      <3> QED
        BY <1>3, <3>1, MovedFields, RowFields
    <2>2. rows' \in [WorkItems -> Row] /\ \A v \in WorkItems \ {w} : rows'[v] = rows[v]
      BY <1>3, <1>6, <2>1
    <2>3. rows[w].claimed_at # NULL =>
            rows[w].expires_at # NULL /\ rows[w].claimed_at < rows[w].expires_at
      BY DEF IInv, ClaimInsideWindow
    <2>4. /\ RowLocks' /\ ConsumerInv' /\ SweeperInv'
          /\ EffectInv' /\ OpenIsUnclaimed' /\ ClaimInsideWindow'
      BY <1>3, <1>4, <2>1, <2>2, <2>3, UnlockedWrite
    <2>5. TypeOK'
      BY <2>2 DEF IInv, TypeOK, Transition
    <2> QED
      BY <2>4, <2>5 DEF IInv
  <1> QED
    BY <1>2, <1>5, <1>6 DEF Transition

-----------------------------------------------------------------------------
(* Every step, stuttering included, preserves the invariant. *)
LEMMA NextIInv == IInv /\ [Next]_vars => IInv'
  <1> SUFFICES ASSUME IInv, [Next]_vars PROVE IInv'
    OBVIOUS
  <1>1. CASE UNCHANGED vars
    BY <1>1 DEF vars, IInv, TypeOK, RowLocks, ConsumerInv, SweeperInv, EffectInv,
                OpenIsUnclaimed, ClaimInsideWindow
  <1>2. CASE Tick
    BY <1>2, TickStep
  <1>3. CASE \E w \in WorkItems : Authorize(w) \/ DuplicateDelivery(w) \/ ReleaseClaim(w)
    BY <1>3, AuthorizeStep, DuplicateDeliveryStep, ReleaseClaimStep
  <1>4. ASSUME NEW c \in Consumers, ConsumerStep(c)
        PROVE  IInv'
    BY <1>4, ClaimWonStep, ClaimLostStep, BeginEffectStep, ActStep, NotifyStep, CommitStep
       DEF ConsumerStep
  <1>5. CASE \E c \in Consumers : Abort(c) \/ \E w \in WorkItems : Receive(c, w)
    BY <1>5, AbortStep, ReceiveStep
  <1>6. ASSUME NEW s \in Sweepers, SweeperStep(s)
        PROVE  IInv'
    BY <1>6, ListExpiredStep, SweepRowStep, SweepCommitStep DEF SweeperStep
  <1>7. CASE \E s \in Sweepers : SweepAbort(s)
    BY <1>7, SweepAbortStep
  <1>8. CASE \E x \in Writers, w \in WorkItems : ReadRow(x, w)
    BY <1>8, ReadRowStep
  <1>9. CASE \E x \in Writers, t \in TransitionTargets : Transition(x, t)
    BY <1>9, TransitionStep
  <1> QED
    BY <1>1, <1>2, <1>3, <1>4, <1>5, <1>6, <1>7, <1>8, <1>9 DEF Next

(* The inductive invariant holds of every behaviour. *)
LEMMA IInvAlways == Spec => []IInv
  BY InitIInv, NextIInv, PTL DEF Spec

-----------------------------------------------------------------------------
(* Every variable keeps its type, for every number of workers and rows. *)
THEOREM TypeCorrect == Spec => []TypeOK
  <1>1. IInv => TypeOK
    BY DEF IInv
  <1> QED
    BY <1>1, IInvAlways, PTL

(* claim.py, idempotency.py and sample_flow.py together: however triggers are *)
(* duplicated, workers fail and claims are released, at most one committed    *)
(* consumption of a work item performed its operation.                        *)
THEOREM AtMostOnce == Spec => []AtMostOneCommittedEffect
  <1>1. IInv => AtMostOneCommittedEffect
    BY DEF IInv, EffectInv, AtMostOneCommittedEffect
  <1> QED
    BY <1>1, IInvAlways, PTL

(* WorkItemRepository.claim: a committed claim lies strictly inside the       *)
(* execution window it names, whatever lock the consumer waited for.          *)
THEOREM ClaimsRespectTheWindow == Spec => []ClaimInsideWindow
  <1>1. IInv => ClaimInsideWindow
    BY DEF IInv
  <1> QED
    BY <1>1, IInvAlways, PTL

(* A row changes hands only through the row its writer locked or read: the    *)
(* step that changes rows[w] is one of the four kinds of committed write.     *)
LEMMA RowWrites ==
    ASSUME IInv, [Next]_vars, NEW w \in WorkItems, rows'[w] # rows[w]
    PROVE  \/ rows'[w] = AuthorizedRow(rows[w], clock + Window)
           \/ rows'[w] = ReleasedRow(rows[w])
           \/ /\ \E now \in Nat : rows'[w] = ClaimedRow(rows[w], now)
              /\ rows[w].state = "authorized"
           \/ rows'[w] = Moved(rows[w], "expired") /\ IsExpired(rows[w], clock)
           \/ \E t \in TransitionTargets : rows'[w] = Moved(rows[w], t)
  <1>1. rows \in [WorkItems -> Row]
    BY DEF IInv, TypeOK
  <1>2. CASE UNCHANGED rows
    BY <1>2
  <1>3. ASSUME NEW v \in WorkItems, Authorize(v)
        PROVE  rows'[w] = AuthorizedRow(rows[w], clock + Window)
    BY <1>1, <1>3 DEF Authorize
  <1>4. ASSUME NEW v \in WorkItems, ReleaseClaim(v)
        PROVE  rows'[w] = ReleasedRow(rows[w])
    BY <1>1, <1>4 DEF ReleaseClaim
  <1>5. ASSUME NEW c \in Consumers, Commit(c)
        PROVE  /\ \E now \in Nat : rows'[w] = ClaimedRow(rows[w], now)
               /\ rows[w].state = "authorized"
    <2>1. /\ job[c].item \in WorkItems
          /\ ClaimPredicate(rows[job[c].item], job[c].now)
          /\ pending[c][job[c].item] = ClaimedRow(rows[job[c].item], job[c].now)
      BY <1>5, HoldsLock DEF Commit
    <2>2. rows' = [rows EXCEPT ![job[c].item] = pending[c][job[c].item]]
      BY <1>5 DEF Commit
    <2>3. w = job[c].item
      BY <1>1, <2>1, <2>2
    <2>4. job[c].now \in Nat
      BY DEF IInv, TypeOK, Job
    <2> QED
      BY <1>1, <2>1, <2>2, <2>3, <2>4 DEF ClaimPredicate
  <1>6. ASSUME NEW s \in Sweepers, SweepCommit(s)
        PROVE  rows'[w] = Moved(rows[w], "expired") /\ IsExpired(rows[w], clock)
    <2>1. pending[s][w] # NULL /\ rows'[w] = pending[s][w]
      BY <1>6 DEF SweepCommit
    <2> QED
      BY <2>1 DEF IInv, SweeperInv
  <1>7. ASSUME NEW x \in Writers, NEW t \in TransitionTargets, Transition(x, t)
        PROVE  rows'[w] = Moved(rows[w], t)
    <2>1. snap[x].item \in WorkItems
      BY <1>7 DEF IInv, TypeOK, Transition, Snapshot
    <2>2. rows' = [rows EXCEPT ![snap[x].item] = Moved(rows[snap[x].item], t)]
      BY <1>7 DEF Transition
    <2> QED
      BY <1>1, <2>1, <2>2
  <1>8. \/ UNCHANGED rows
        \/ \E v \in WorkItems : Authorize(v) \/ ReleaseClaim(v)
        \/ \E c \in Consumers : Commit(c)
        \/ \E s \in Sweepers : SweepCommit(s)
        \/ \E x \in Writers, t \in TransitionTargets : Transition(x, t)
    BY DEF Next, vars, ConsumerStep, SweeperStep, Tick, DuplicateDelivery, Receive, ClaimWon,
           ClaimLost, BeginEffect, Act, Notify, Abort, ListExpired, SweepRow, SweepAbort, ReadRow
  <1> QED
    BY <1>2, <1>3, <1>4, <1>5, <1>6, <1>7, <1>8

(* expiry_sweep.py: expiry is only ever written over work that is still       *)
(* authorized, unclaimed and past its window when the pass commits.           *)
THEOREM ExpiryIsSafe == Spec => ExpiryHitsOnlyWaitingWork
  <1>1. IInv /\ [Next]_vars =>
          [\A w \in WorkItems :
             rows'[w].state = "expired" /\ rows[w].state # "expired"
               => IsExpired(rows[w], clock)]_vars
    <2> SUFFICES ASSUME IInv, [Next]_vars, NEW w \in WorkItems,
                        rows'[w].state = "expired", rows[w].state # "expired"
                 PROVE  IsExpired(rows[w], clock)
      OBVIOUS
    <2>1. rows[w] \in Row /\ clock + Window \in Nat
      BY BoundAssumption DEF IInv, TypeOK
    <2>2. /\ rows'[w] # AuthorizedRow(rows[w], clock + Window)
          /\ rows'[w] # ReleasedRow(rows[w])
      BY <2>1, AuthorizedRowFields, ReleasedRowFields
    <2>3. \A now \in Nat : rows'[w] # ClaimedRow(rows[w], now)
      BY <2>1, ClaimedRowFields
    <2>4. \A t \in TransitionTargets : rows'[w] # Moved(rows[w], t)
      BY <2>1, MovedFields, TargetAssumption
    <2> QED
      BY <2>2, <2>3, <2>4, RowWrites
  <1> QED
    BY <1>1, IInvAlways, PTL DEF Spec, ExpiryHitsOnlyWaitingWork

(* WorkItemRepository.claim: a claim only ever lands on a row that is still   *)
(* authorized when it commits, so withdrawn work is never claimed.            *)
THEOREM ClaimsHitAuthorizedWork == Spec => WithdrawnWorkIsNeverClaimed
  <1>1. IInv /\ [Next]_vars =>
          [\A w \in WorkItems :
             rows'[w].claimed_at # NULL /\ rows[w].claimed_at = NULL
               => rows[w].state = "authorized"]_vars
    <2> SUFFICES ASSUME IInv, [Next]_vars, NEW w \in WorkItems,
                        rows'[w].claimed_at # NULL, rows[w].claimed_at = NULL
                 PROVE  rows[w].state = "authorized"
      OBVIOUS
    <2>1. rows[w] \in Row /\ clock + Window \in Nat
      BY BoundAssumption DEF IInv, TypeOK
    <2>2. /\ rows'[w] # AuthorizedRow(rows[w], clock + Window)
          /\ rows'[w] # ReleasedRow(rows[w])
      BY <2>1, AuthorizedRowFields, ReleasedRowFields
    <2>3. \A t \in WorkItemState : rows'[w] # Moved(rows[w], t)
      BY <2>1, MovedFields
    <2>4. /\ \A t \in TransitionTargets : rows'[w] # Moved(rows[w], t)
          /\ rows'[w] # Moved(rows[w], "expired")
      BY <2>3, TargetAssumption DEF WorkItemState
    <2> QED
      BY <2>2, <2>4, RowWrites
  <1> QED
    BY <1>1, IInvAlways, PTL DEF Spec, WithdrawnWorkIsNeverClaimed

=============================================================================
