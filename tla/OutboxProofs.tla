---------------------------- MODULE OutboxProofs ----------------------------
(***************************************************************************)
(* Theorems about Outbox for every number of rows and dispatchers, every   *)
(* batch size and every ceiling, with any rows malformed or refused.       *)
(***************************************************************************)
EXTENDS Outbox, TLAPS

(* Raising a report never un-surfaces a row. *)
LEMMA SeveritySurfaces ==
    ASSUME NEW kind
    PROVE  /\ SeverityFor(kind) \in {"governance", "operational"}
           /\ kind \in {"approval.granted", "consent.granted"} => SeverityFor(kind) = "governance"
  BY DEF SeverityFor

LEMMA BumpType ==
    ASSUME NEW n \in 0 .. MaxAttempts
    PROVE  Bump(n) \in 0 .. MaxAttempts
  BY LimitAssumption DEF Bump

LEMMA InitIInv == Init => IInv
  <1> SUFFICES ASSUME Init PROVE IInv
    OBVIOUS
  <1>1. TypeOK
    BY LimitAssumption, RowsAssumption DEF Init, TypeOK
  <1>2. PassInv /\ RowLocks
    BY RowsAssumption DEF Init, PassInv, RowLocks
  <1>3. sent \subseteq {m \in Messages : stage[m] = "committed"} /\ NeverMarkedUnsent
    BY DEF Init, NeverMarkedUnsent
  <1>4. ExhaustedIsSurfaced
    BY LimitAssumption DEF Init, ExhaustedIsSurfaced
  <1> QED
    BY <1>1, <1>2, <1>3, <1>4 DEF IInv

-----------------------------------------------------------------------------
(* One lemma per action: it preserves the invariant. *)

(* A row being inserted was not there: nobody has read or written it. *)
LEMMA EnqueueStep ==
    ASSUME IInv, NEW m \in Messages, Enqueue(m)
    PROVE  IInv'
  <1>1. TypeOK'
    BY DEF IInv, TypeOK, Enqueue, passVars
  <1>2. /\ \A k \in Messages \ {m} : stage'[k] = stage[k]
        /\ \A k \in Messages : stage[k] = "committed" => stage'[k] = "committed"
    BY DEF IInv, TypeOK, Enqueue
  <1>3. UNCHANGED <<attempts, dispatched, sent, reported, todo, cur, ok, marked, failed>>
    BY DEF Enqueue, passVars
  <1>4. PassInv'
    BY <1>2, <1>3 DEF IInv, TypeOK, PassInv, Surfaced
  <1>5. /\ RowLocks'
        /\ (sent \subseteq {k \in Messages : stage[k] = "committed"})'
        /\ NeverMarkedUnsent' /\ ExhaustedIsSurfaced'
    BY <1>2, <1>3 DEF IInv, RowLocks, NeverMarkedUnsent, ExhaustedIsSurfaced, Surfaced
  <1> QED
    BY <1>1, <1>4, <1>5 DEF IInv

(* A transaction that ends was open: a committed row never leaves that stage. *)
LEMMA EndWriteStep ==
    ASSUME IInv, NEW m \in Messages, EndWrite(m)
    PROVE  IInv'
  <1>1. TypeOK'
    BY DEF IInv, TypeOK, EndWrite, passVars
  <1>2. \A k \in Messages : stage[k] = "committed" => stage'[k] = "committed"
    BY DEF IInv, TypeOK, EndWrite
  <1>3. UNCHANGED <<attempts, dispatched, sent, reported, todo, cur, ok, marked, failed>>
    BY DEF EndWrite, passVars
  <1>4. PassInv'
    BY <1>2, <1>3 DEF IInv, TypeOK, PassInv, Surfaced
  <1>5. /\ RowLocks'
        /\ (sent \subseteq {k \in Messages : stage[k] = "committed"})'
        /\ NeverMarkedUnsent' /\ ExhaustedIsSurfaced'
    BY <1>2, <1>3 DEF IInv, RowLocks, NeverMarkedUnsent, ExhaustedIsSurfaced, Surfaced
  <1> QED
    BY <1>1, <1>4, <1>5 DEF IInv

(* A pass reads committed rows only. *)
LEMMA BeginPassStep ==
    ASSUME IInv, NEW d \in Dispatchers, BeginPass(d)
    PROVE  IInv'
  <1>1. Batch \subseteq {m \in Messages : stage[m] = "committed"}
    BY DEF Batch, Undispatched
  <1>2. TypeOK'
    BY <1>1 DEF IInv, TypeOK, BeginPass, rowVars
  <1>3. UNCHANGED <<stage, attempts, dispatched, sent, reported, cur, ok, marked, failed>>
    BY DEF BeginPass, rowVars
  <1>4. PassInv'
    BY <1>1, <1>3 DEF IInv, TypeOK, PassInv, Surfaced, BeginPass
  <1>5. /\ RowLocks'
        /\ (sent \subseteq {k \in Messages : stage[k] = "committed"})'
        /\ NeverMarkedUnsent' /\ ExhaustedIsSurfaced'
    BY <1>3 DEF IInv, RowLocks, NeverMarkedUnsent, ExhaustedIsSurfaced, Surfaced
  <1> QED
    BY <1>2, <1>4, <1>5 DEF IInv

(* A publication is of a committed row; publish returns only when it was accepted. *)
LEMMA PublishStep ==
    ASSUME IInv, NEW d \in Dispatchers, NEW m \in todo[d], Publish(d, m)
    PROVE  IInv'
  <1>1. m \in Messages /\ stage[m] = "committed"
    BY DEF IInv, TypeOK, PassInv
  <1>2. /\ sent' \in {sent, sent \cup {m}}
        /\ ok' \in [Dispatchers -> BOOLEAN]
        /\ ok'[d] => m \in sent'
        /\ \A e \in Dispatchers \ {d} : ok'[e] = ok[e]
        /\ faults' \in Nat
    <2>1. PICK b \in BOOLEAN : ok' = [ok EXCEPT ![d] = b] /\ (b => m \in sent')
      BY DEF Publish
    <2>2. sent' \in {sent, sent \cup {m}} /\ faults' \in {faults, faults + 1}
      BY DEF Publish
    <2>3. /\ ok' \in [Dispatchers -> BOOLEAN]
          /\ ok'[d] = b
          /\ \A e \in Dispatchers \ {d} : ok'[e] = ok[e]
      BY <2>1 DEF IInv, TypeOK
    <2>4. faults' \in Nat
      BY <2>2 DEF IInv, TypeOK
    <2> QED
      BY <2>1, <2>2, <2>3, <2>4
  <1>3. /\ cur'[d] = m
        /\ \A e \in Dispatchers \ {d} : cur'[e] = cur[e]
        /\ cur' \in [Dispatchers -> Messages \cup {NULL}]
        /\ \A e \in Dispatchers : todo'[e] \subseteq todo[e]
        /\ todo' \in [Dispatchers -> SUBSET Messages]
    BY <1>1 DEF IInv, TypeOK, Publish
  <1>4. UNCHANGED <<stage, seq, nextSeq, attempts, dispatched, reported, open, marked, failed>>
    BY DEF Publish, rowVars
  <1>5. TypeOK'
    BY <1>1, <1>2, <1>3, <1>4 DEF IInv, TypeOK
  <1>6. PassInv'
    BY <1>1, <1>2, <1>3, <1>4 DEF IInv, PassInv, Surfaced
  <1>7. /\ RowLocks'
        /\ (sent \subseteq {k \in Messages : stage[k] = "committed"})'
        /\ NeverMarkedUnsent' /\ ExhaustedIsSurfaced'
    BY <1>1, <1>2, <1>4 DEF IInv, RowLocks, NeverMarkedUnsent, ExhaustedIsSurfaced, Surfaced
  <1> QED
    BY <1>5, <1>6, <1>7 DEF IInv

(* The row that is marked was accepted, and nobody else is writing it. *)
LEMMA MarkDispatchedStep ==
    ASSUME IInv, NEW d \in Dispatchers, MarkDispatched(d)
    PROVE  IInv'
  <1>1. cur[d] \in Messages /\ cur[d] # NULL /\ cur[d] \in sent
    BY DEF IInv, TypeOK, PassInv, MarkDispatched, Accepted
  <1>2. /\ marked'[d] = marked[d] \cup {cur[d]}
        /\ \A e \in Dispatchers \ {d} : marked'[e] = marked[e]
        /\ marked' \in [Dispatchers -> SUBSET Messages]
        /\ cur'[d] = NULL
        /\ \A e \in Dispatchers \ {d} : cur'[e] = cur[e]
        /\ cur' \in [Dispatchers -> Messages \cup {NULL}]
    BY <1>1 DEF IInv, TypeOK, MarkDispatched
  <1>3. UNCHANGED <<stage, seq, nextSeq, attempts, dispatched, sent, reported, open, todo, ok,
                    failed, faults>>
    BY DEF MarkDispatched, rowVars
  <1>4. TypeOK'
    BY <1>2, <1>3 DEF IInv, TypeOK
  <1>5. PassInv'
    BY <1>1, <1>2, <1>3 DEF IInv, PassInv, Surfaced
  <1>6. RowLocks'
    BY <1>2, <1>3 DEF IInv, RowLocks, MarkDispatched, LockedByOther
  <1>7. /\ (sent \subseteq {k \in Messages : stage[k] = "committed"})'
        /\ NeverMarkedUnsent' /\ ExhaustedIsSurfaced'
    BY <1>3 DEF IInv, NeverMarkedUnsent, ExhaustedIsSurfaced, Surfaced
  <1> QED
    BY <1>4, <1>5, <1>6, <1>7 DEF IInv

(* The failure that will exhaust the row raises the report itself. *)
LEMMA RecordFailureStep ==
    ASSUME IInv, NEW d \in Dispatchers, RecordFailure(d)
    PROVE  IInv'
  <1>1. PICK m \in Messages : m = cur[d]
    BY DEF IInv, TypeOK, RecordFailure
  <1>2. /\ failed'[d] = failed[d] \cup {m}
        /\ \A e \in Dispatchers \ {d} : failed'[e] = failed[e]
        /\ failed' \in [Dispatchers -> SUBSET Messages]
        /\ cur'[d] = NULL
        /\ \A e \in Dispatchers \ {d} : cur'[e] = cur[e]
        /\ cur' \in [Dispatchers -> Messages \cup {NULL}]
    BY <1>1 DEF IInv, TypeOK, RecordFailure
  <1>3. UNCHANGED <<stage, seq, nextSeq, attempts, dispatched, sent, open, todo, ok,
                    marked, faults>>
    BY DEF RecordFailure, rowVars
  <1>4. \/ reported' = [reported EXCEPT ![m] = SeverityFor(KindOf[m])]
        \/ reported' = reported /\ ~Exhausted(Bump(attempts[m]))
    BY <1>1 DEF RecordFailure
  <1>5. /\ reported' \in [Messages -> {"none", "governance", "operational"}]
        /\ Exhausted(Bump(attempts[m])) => Surfaced(m)'
        /\ \A k \in Messages : Surfaced(k) => Surfaced(k)'
    <2>1. CASE reported' = reported /\ ~Exhausted(Bump(attempts[m]))
      BY <2>1 DEF IInv, TypeOK, Surfaced
    <2>2. CASE reported' = [reported EXCEPT ![m] = SeverityFor(KindOf[m])]
      <3>1. /\ reported'[m] = SeverityFor(KindOf[m])
            /\ \A k \in Messages \ {m} : reported'[k] = reported[k]
        BY <1>1, <2>2 DEF IInv, TypeOK
      <3>2. Surfaced(m)'
        BY <3>1, SeveritySurfaces DEF Surfaced
      <3>3. reported' \in [Messages -> {"none", "governance", "operational"}]
        BY <1>1, <2>2, SeveritySurfaces DEF IInv, TypeOK
      <3> QED
        BY <3>1, <3>2, <3>3 DEF Surfaced
    <2> QED
      BY <1>4, <2>1, <2>2
  <1>6. TypeOK'
    BY <1>2, <1>3, <1>5 DEF IInv, TypeOK
  <1>7. PassInv'
    <2>1. \A e \in Dispatchers : failed[e] \subseteq Messages
      BY DEF IInv, TypeOK
    <2> QED
      BY <1>1, <1>2, <1>3, <1>5, <2>1 DEF IInv, PassInv
  <1>8. RowLocks'
    BY <1>1, <1>2, <1>3 DEF IInv, RowLocks, RecordFailure, LockedByOther
  <1>9. /\ (sent \subseteq {k \in Messages : stage[k] = "committed"})'
        /\ NeverMarkedUnsent' /\ ExhaustedIsSurfaced'
    BY <1>3, <1>5 DEF IInv, NeverMarkedUnsent, ExhaustedIsSurfaced
  <1> QED
    BY <1>6, <1>7, <1>8, <1>9 DEF IInv

(* A dispatcher that gives its pass up holds nothing. *)
LEMMA RollbackKeeps ==
    ASSUME TypeOK, RowLocks, NEW d \in Dispatchers, Rollback(d)
    PROVE  /\ open' \in [Dispatchers -> BOOLEAN]
           /\ todo' \in [Dispatchers -> SUBSET Messages]
           /\ cur' \in [Dispatchers -> Messages \cup {NULL}]
           /\ ok' \in [Dispatchers -> BOOLEAN]
           /\ marked' \in [Dispatchers -> SUBSET Messages]
           /\ failed' \in [Dispatchers -> SUBSET Messages]
           /\ todo'[d] = {} /\ cur'[d] = NULL /\ marked'[d] = {} /\ failed'[d] = {}
           /\ \A e \in Dispatchers \ {d} :
                /\ todo'[e] = todo[e] /\ cur'[e] = cur[e] /\ ok'[e] = ok[e]
                /\ marked'[e] = marked[e] /\ failed'[e] = failed[e]
           /\ RowLocks'
  <1>1. /\ open' \in [Dispatchers -> BOOLEAN]
        /\ todo' \in [Dispatchers -> SUBSET Messages]
        /\ cur' \in [Dispatchers -> Messages \cup {NULL}]
        /\ ok' \in [Dispatchers -> BOOLEAN]
        /\ marked' \in [Dispatchers -> SUBSET Messages]
        /\ failed' \in [Dispatchers -> SUBSET Messages]
    BY DEF TypeOK, Rollback
  <1>2. /\ todo'[d] = {} /\ cur'[d] = NULL /\ marked'[d] = {} /\ failed'[d] = {}
        /\ \A e \in Dispatchers \ {d} :
             /\ todo'[e] = todo[e] /\ cur'[e] = cur[e] /\ ok'[e] = ok[e]
             /\ marked'[e] = marked[e] /\ failed'[e] = failed[e]
    BY DEF TypeOK, Rollback
  <1>3. RowLocks'
    BY <1>2 DEF RowLocks
  <1> QED
    BY <1>1, <1>2, <1>3

(* A pass that is rolled back, by a malformed row or a crash, leaves no trace in the table. *)
LEMMA GiveUpStep ==
    ASSUME IInv, NEW d \in Dispatchers, Rollback(d),
           UNCHANGED <<stage, seq, nextSeq, attempts, dispatched, sent, reported>>,
           faults' \in Nat
    PROVE  IInv'
  <1>1. TypeOK'
    BY RollbackKeeps DEF IInv, TypeOK
  <1>2. PassInv'
    BY RollbackKeeps DEF IInv, PassInv, Surfaced
  <1>3. /\ RowLocks'
        /\ (sent \subseteq {k \in Messages : stage[k] = "committed"})'
        /\ NeverMarkedUnsent' /\ ExhaustedIsSurfaced'
    BY RollbackKeeps DEF IInv, NeverMarkedUnsent, ExhaustedIsSurfaced, Surfaced
  <1> QED
    BY <1>1, <1>2, <1>3 DEF IInv

(* The pass commits: marks are of accepted rows, counts of surfaced ones. *)
LEMMA EndPassStep ==
    ASSUME IInv, NEW d \in Dispatchers, EndPass(d)
    PROVE  IInv'
  <1>1. Rollback(d) /\ UNCHANGED <<stage, seq, nextSeq, sent, reported, faults>>
    BY DEF EndPass, rowVars
  <1>2. /\ marked[d] \subseteq Messages /\ failed[d] \subseteq Messages
        /\ dispatched' = dispatched \cup marked[d]
        /\ dispatched' \subseteq Messages
    BY DEF IInv, TypeOK, EndPass
  <1>3. /\ attempts' \in [Messages -> 0 .. MaxAttempts]
        /\ \A m \in Messages :
             attempts'[m] = IF m \in marked[d] \cup failed[d] THEN Bump(attempts[m]) ELSE attempts[m]
    BY BumpType DEF IInv, TypeOK, EndPass
  <1>4. TypeOK'
    BY <1>1, <1>2, <1>3, RollbackKeeps DEF IInv, TypeOK
  <1>5. PassInv'
    <2>1. ASSUME NEW e \in Dispatchers \ {d}, NEW m \in failed[e]
          PROVE  attempts'[m] = attempts[m]
      <3>1. m \in Messages /\ m \notin marked[d] \cup failed[d]
        BY DEF IInv, TypeOK, RowLocks
      <3> QED
        BY <1>3, <3>1
    <2> QED
      BY <1>1, <2>1, RollbackKeeps DEF IInv, PassInv, Surfaced
  <1>6. RowLocks'
    BY <1>1, RollbackKeeps DEF IInv
  <1>7. (sent \subseteq {k \in Messages : stage[k] = "committed"})' /\ NeverMarkedUnsent'
    BY <1>1, <1>2 DEF IInv, PassInv, NeverMarkedUnsent
  <1>8. ExhaustedIsSurfaced'
    <2> SUFFICES ASSUME NEW m \in Messages, attempts'[m] >= Ceiling, m \notin dispatched'
                 PROVE  Surfaced(m)
      BY <1>1 DEF ExhaustedIsSurfaced, Surfaced
    <2>1. CASE m \in failed[d]
      BY <1>3, <2>1 DEF IInv, PassInv, Exhausted
    <2>2. CASE m \notin failed[d]
      BY <1>2, <1>3, <2>2 DEF IInv, ExhaustedIsSurfaced
    <2> QED
      BY <2>1, <2>2
  <1> QED
    BY <1>4, <1>5, <1>6, <1>7, <1>8 DEF IInv

(* Every step, stuttering included, preserves the invariant. *)
LEMMA NextIInv == IInv /\ [Next]_vars => IInv'
  <1> SUFFICES ASSUME IInv, [Next]_vars PROVE IInv'
    OBVIOUS
  <1>1. CASE UNCHANGED vars
    BY <1>1 DEF vars, IInv, TypeOK, PassInv, RowLocks, NeverMarkedUnsent, ExhaustedIsSurfaced, Surfaced
  <1>2. CASE \E m \in Messages : Enqueue(m) \/ EndWrite(m)
    BY <1>2, EnqueueStep, EndWriteStep
  <1>3. ASSUME NEW d \in Dispatchers, NEW m \in todo[d], Malform(d, m)
        PROVE  IInv'
    <2>1. /\ Rollback(d) /\ faults' \in Nat
          /\ UNCHANGED <<stage, seq, nextSeq, attempts, dispatched, sent, reported>>
      BY <1>3 DEF Malform, rowVars, IInv, TypeOK
    <2> QED
      BY <2>1, GiveUpStep
  <1>4. ASSUME NEW d \in Dispatchers, Crash(d)
        PROVE  IInv'
    <2>1. /\ Rollback(d) /\ faults' \in Nat
          /\ UNCHANGED <<stage, seq, nextSeq, attempts, dispatched, sent, reported>>
      BY <1>4 DEF Crash, rowVars, IInv, TypeOK
    <2> QED
      BY <2>1, GiveUpStep
  <1>5. ASSUME NEW d \in Dispatchers, DispatcherStep(d)
        PROVE  IInv'
    BY <1>3, <1>5, BeginPassStep, PublishStep, MarkDispatchedStep, RecordFailureStep, EndPassStep
       DEF DispatcherStep
  <1> QED
    BY <1>1, <1>2, <1>4, <1>5 DEF Next

LEMMA IInvAlways == Spec => []IInv
  BY InitIInv, NextIInv, PTL DEF Spec

-----------------------------------------------------------------------------
(* Every variable keeps its type. *)
THEOREM TypeCorrect == Spec => []TypeOK
  <1>1. IInv => TypeOK
    BY DEF IInv
  <1> QED
    BY <1>1, IInvAlways, PTL

(* outbox_dispatch.py: no trigger is lost to a crash between send and mark,   *)
(* whatever the number of dispatchers.                                        *)
THEOREM NothingIsLost == Spec => []NeverMarkedUnsent
  <1>1. IInv => NeverMarkedUnsent
    BY DEF IInv
  <1> QED
    BY <1>1, IInvAlways, PTL

(* Outbox.record_failure and deadletter.py: a row left at the ceiling has     *)
(* been surfaced at the severity its kind calls for.                          *)
THEOREM UndispatchableIsSurfaced == Spec => []ExhaustedIsSurfaced
  <1>1. IInv => ExhaustedIsSurfaced
    BY DEF IInv
  <1> QED
    BY <1>1, IInvAlways, PTL

(* The outbox, its dispatchers, crashes and poison rows implement the channel *)
(* of TriggerChannel: what is handed to the transport was committed before.   *)
THEOREM ImplementsChannel == Spec => PublishesOnlyWhatCommitted
  <1>1. Init => Channel!Init
    BY DEF Init, Channel!Init
  <1>2. IInv /\ [Next]_vars => [Channel!Next]_(Channel!vars)
    <2> SUFFICES ASSUME IInv, [Next]_vars PROVE [Channel!Next]_(Channel!vars)
      OBVIOUS
    <2>1. ASSUME sent' = sent, stage' = stage
          PROVE  UNCHANGED Channel!vars
      BY <2>1 DEF Channel!vars
    <2>2. ASSUME NEW m \in Messages, Enqueue(m)
          PROVE  UNCHANGED Channel!vars
      <3>1. {k \in Messages : stage'[k] = "committed"} = {k \in Messages : stage[k] = "committed"}
        BY <2>2 DEF IInv, TypeOK, Enqueue
      <3> QED
        BY <2>2, <3>1 DEF Channel!vars, Enqueue
    <2>3. ASSUME NEW m \in Messages, EndWrite(m)
          PROVE  Channel!Accept(m) \/ UNCHANGED Channel!vars
      <3>1. PICK s \in {"committed", "rolledback"} : stage' = [stage EXCEPT ![m] = s]
        BY <2>3 DEF EndWrite
      <3>2. stage[m] = "open" /\ sent' = sent
        BY <2>3 DEF EndWrite
      <3>3. CASE s = "committed"
        <4>1. {k \in Messages : stage'[k] = "committed"}
                = {k \in Messages : stage[k] = "committed"} \cup {m}
          BY <3>1, <3>3 DEF IInv, TypeOK
        <4> QED
          BY <3>2, <4>1 DEF Channel!Accept
      <3>4. CASE s = "rolledback"
        <4>1. {k \in Messages : stage'[k] = "committed"} = {k \in Messages : stage[k] = "committed"}
          BY <3>1, <3>2, <3>4 DEF IInv, TypeOK
        <4> QED
          BY <3>2, <4>1 DEF Channel!vars
      <3> QED
        BY <3>3, <3>4
    <2>4. ASSUME NEW d \in Dispatchers, NEW m \in todo[d], Publish(d, m)
          PROVE  m \in Messages /\ (Channel!Deliver(m) \/ UNCHANGED Channel!vars)
      <3>1. m \in Messages /\ stage[m] = "committed"
        BY DEF IInv, TypeOK, PassInv
      <3>2. stage' = stage /\ sent' \in {sent, sent \cup {m}}
        BY <2>4 DEF Publish, rowVars
      <3> QED
        BY <3>1, <3>2 DEF Channel!Deliver, Channel!vars
    <2>5. \/ sent' = sent /\ stage' = stage
          \/ \E m \in Messages : Enqueue(m) \/ EndWrite(m)
          \/ \E d \in Dispatchers : \E m \in todo[d] : Publish(d, m)
      BY DEF Next, vars, DispatcherStep, BeginPass, Malform, MarkDispatched, RecordFailure, EndPass,
             Crash, rowVars
    <2> QED
      BY <2>1, <2>2, <2>3, <2>4, <2>5 DEF Channel!Next
  <1> QED
    BY <1>1, <1>2, IInvAlways, PTL DEF Spec, PublishesOnlyWhatCommitted, Channel!Spec

=============================================================================
