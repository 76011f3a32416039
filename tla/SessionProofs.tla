---------------------------- MODULE SessionProofs ---------------------------
(***************************************************************************)
(* Theorems about Session for every number of requests, messages and       *)
(* givers, every window, every set of overrides and every bound.           *)
(***************************************************************************)
EXTENDS Session, TLAPS

(* What a request has read is no newer than the row, and while the version    *)
(* still stands so does the state: why one guarded version is enough.         *)
ReadsAreOfThePast ==
    \A r \in Requests : request[r] # NULL /\ row # NULL =>
        /\ request[r].seen.version <= row.version
        /\ request[r].seen.version = row.version => request[r].seen.state = row.state

(* What a request was told, the system of record knows. *)
ReceiptsAreTrue ==
    \A r \in Requests : request[r] # NULL =>
        /\ request[r].receipt # "none" => case # "none"
        /\ request[r].receipt = "committed" => case = "committed"

(* A session that has ended has an end. *)
EndedIsClosed == row # NULL /\ row.state \in Terminal => closed # NULL

(* Nothing of a conversation outlives its row. *)
MessagesHaveARow == row = NULL => messages = {}

(* What a pass has selected stays due until it ends. *)
SweepIsDue ==
    sweep # NULL =>
        /\ sweep.content /\ row # NULL =>
              /\ row.state \in Terminal
              /\ closed.at + closed.window <= now
        /\ sweep.thread =>
              \/ work # NULL /\ work.done
              \/ work = NULL /\ row = NULL

IInv ==
    /\ TypeOK /\ EscalationIsHandedOver /\ FeedbackIsOwned /\ EndedWillExpire
    /\ ReadsAreOfThePast /\ ReceiptsAreTrue /\ EndedIsClosed /\ MessagesHaveARow /\ SweepIsDue

-----------------------------------------------------------------------------
(* The operators the model is built from. *)

LEMMA MovesAreStates ==
    /\ Moves \subseteq States
    /\ "turn" \notin Moves /\ "anchor" \notin Moves /\ "escalate" \notin Moves
  BY DEF Moves, States, SuspensionFor, Awaiting, Terminal

LEMMA TerminalIsFinal ==
    ASSUME NEW s \in Terminal, NEW t
    PROVE  ~CanTransition(s, t)
  BY DEF CanTransition, Legal, Terminal, Awaiting, States

LEMMA WindowIsNat ==
    ASSUME NEW o \in Overrides
    PROVE  WindowFor(ChatWindow, o) \in Nat
  BY SessionAssumption DEF WindowFor

LEMMA InitIInv == Init => IInv
  <1> SUFFICES ASSUME Init PROVE IInv
    OBVIOUS
  <1> USE SessionAssumption, NullAssumption
  <1>1. TypeOK
    <2>1. row \in Row \cup {NULL}
      BY DEF Init, Row, States
    <2>2. checkpoint \in BOOLEAN /\ audited \in BOOLEAN
      BY Zenon DEF Init
    <2>3. now \in 0..MaxTime
      BY DEF Init
    <2>4. request \in [Requests -> Request \cup {NULL}]
      BY DEF Init
    <2> QED
      BY <2>1, <2>2, <2>3, <2>4 DEF Init, TypeOK
  <1>2. EscalationIsHandedOver /\ EndedWillExpire /\ EndedIsClosed
    BY DEF Init, EscalationIsHandedOver, EndedWillExpire, EndedIsClosed, Terminal
  <1>3. FeedbackIsOwned /\ ReadsAreOfThePast /\ ReceiptsAreTrue /\ MessagesHaveARow /\ SweepIsDue
    BY DEF Init, FeedbackIsOwned, ReadsAreOfThePast, ReceiptsAreTrue, MessagesHaveARow, SweepIsDue, Row
  <1> QED
    BY <1>1, <1>2, <1>3 DEF IInv

-----------------------------------------------------------------------------
(* Steps that touch neither the row nor a request. *)

LEMMA AddMessageStep ==
    ASSUME IInv, NEW m \in Messages, AddMessage(m)
    PROVE  IInv'
  <1> USE DEF AddMessage
  <1>1. TypeOK'
    BY DEF IInv, TypeOK
  <1>2. EscalationIsHandedOver' /\ EndedWillExpire' /\ EndedIsClosed' /\ MessagesHaveARow'
    BY DEF IInv, EscalationIsHandedOver, EndedWillExpire, EndedIsClosed, MessagesHaveARow
  <1>3. FeedbackIsOwned' /\ ReadsAreOfThePast' /\ ReceiptsAreTrue'
    BY DEF IInv, FeedbackIsOwned, ReadsAreOfThePast, ReceiptsAreTrue
  <1>4. SweepIsDue'
    BY DEF IInv, SweepIsDue
  <1> QED
    BY <1>1, <1>2, <1>3, <1>4 DEF IInv

LEMMA SetFeedbackStep ==
    ASSUME IInv, NEW m \in Messages, NEW g \in Givers, NEW s \in Signals \cup {NULL},
           SetFeedback(m, g, s)
    PROVE  IInv'
  <1> USE DEF SetFeedback
  <1>1. TypeOK'
    BY DEF IInv, TypeOK
  <1>2. EscalationIsHandedOver' /\ EndedWillExpire' /\ EndedIsClosed' /\ MessagesHaveARow'
    BY DEF IInv, EscalationIsHandedOver, EndedWillExpire, EndedIsClosed, MessagesHaveARow
  <1>3. FeedbackIsOwned'
    BY DEF IInv, TypeOK, FeedbackIsOwned, OwnedMessage, MessagesHaveARow
  <1>4. ReadsAreOfThePast' /\ ReceiptsAreTrue'
    BY DEF IInv, ReadsAreOfThePast, ReceiptsAreTrue
  <1>5. SweepIsDue'
    BY DEF IInv, SweepIsDue
  <1> QED
    BY <1>1, <1>2, <1>3, <1>4, <1>5 DEF IInv

LEMMA ReadStep ==
    ASSUME IInv, NEW r \in Requests, NEW kind \in Kinds, Read(r, kind)
    PROVE  IInv'
  <1> USE DEF Read, Rest
  <1> DEFINE q == [kind |-> kind, receipt |-> "none", written |-> FALSE,
                   seen |-> [state |-> row.state, version |-> row.version, work |-> work # NULL]]
  <1>1. q \in Request /\ row \in Row
    BY DEF IInv, TypeOK, Request, Row
  <1>2. TypeOK'
    BY <1>1 DEF IInv, TypeOK
  <1>3. \A p \in Requests : request'[p] = IF p = r THEN q ELSE request[p]
    BY DEF IInv, TypeOK
  <1>4. ReadsAreOfThePast'
    BY <1>1, <1>3 DEF IInv, ReadsAreOfThePast, Row
  <1>5. ReceiptsAreTrue'
    BY <1>3 DEF IInv, ReceiptsAreTrue
  <1>6. EscalationIsHandedOver' /\ EndedWillExpire' /\ EndedIsClosed' /\ MessagesHaveARow'
        /\ FeedbackIsOwned'
    BY DEF IInv, EscalationIsHandedOver, EndedWillExpire, EndedIsClosed, MessagesHaveARow, FeedbackIsOwned
  <1>7. SweepIsDue'
    BY DEF IInv, SweepIsDue
  <1> QED
    BY <1>2, <1>4, <1>5, <1>6, <1>7 DEF IInv

LEMMA AbandonStep ==
    ASSUME IInv, NEW r \in Requests, Abandon(r)
    PROVE  IInv'
  <1> USE DEF Abandon, Rest
  <1>1. TypeOK'
    BY DEF IInv, TypeOK
  <1>2. \A p \in Requests : request'[p] = IF p = r THEN NULL ELSE request[p]
    BY DEF IInv, TypeOK
  <1>3. ReadsAreOfThePast' /\ ReceiptsAreTrue'
    BY <1>2 DEF IInv, ReadsAreOfThePast, ReceiptsAreTrue
  <1>4. EscalationIsHandedOver' /\ EndedWillExpire' /\ EndedIsClosed' /\ MessagesHaveARow'
        /\ FeedbackIsOwned'
    BY DEF IInv, EscalationIsHandedOver, EndedWillExpire, EndedIsClosed, MessagesHaveARow, FeedbackIsOwned
  <1>5. SweepIsDue'
    BY DEF IInv, SweepIsDue
  <1> QED
    BY <1>1, <1>3, <1>4, <1>5 DEF IInv

LEMMA RecordProgressStep ==
    ASSUME IInv, NEW r \in Requests, RecordProgress(r)
    PROVE  IInv'
  <1> USE DEF Rest
  <1>1. PICK c \in BOOLEAN, d \in BOOLEAN :
            /\ request' = [request EXCEPT ![r] =
                   [kind |-> @.kind, seen |-> @.seen, receipt |-> AnchorState(c, d),
                    written |-> @.written]]
            /\ case' = IF case = "committed" THEN case ELSE AnchorState(c, d)
    BY DEF RecordProgress
  <1>2. PICK receipt \in {"queued", "committed"} :
            /\ request' = [request EXCEPT ![r] =
                   [kind |-> @.kind, seen |-> @.seen, receipt |-> receipt,
                    written |-> @.written]]
            /\ case' = IF case = "committed" THEN case ELSE receipt
    BY <1>1 DEF AnchorState
  <1>3. UNCHANGED <<row, work, audited, closed, messages, feedback, checkpoint, sweep, override, now>>
        /\ request[r] # NULL
    BY DEF RecordProgress
  <1>4. PICK q \in Request : q = request[r]
    BY <1>3 DEF IInv, TypeOK
  <1>5. \A p \in Requests :
            request'[p] = IF p = r THEN [kind |-> q.kind, seen |-> q.seen, receipt |-> receipt,
                                         written |-> q.written]
                          ELSE request[p]
    BY <1>2, <1>4 DEF IInv, TypeOK
  <1>6. [kind |-> q.kind, seen |-> q.seen, receipt |-> receipt, written |-> q.written] \in Request
    BY DEF Request
  <1>7. request' \in [Requests -> Request \cup {NULL}] /\ case' \in {"none", "queued", "committed"}
    BY <1>2, <1>4, <1>6 DEF IInv, TypeOK
  <1>8. TypeOK'
    BY <1>3, <1>7 DEF IInv, TypeOK
  <1>9. ReadsAreOfThePast'
    BY <1>3, <1>4, <1>5 DEF IInv, ReadsAreOfThePast
  <1>10. ReceiptsAreTrue'
    BY <1>2, <1>5, <1>7 DEF IInv, ReceiptsAreTrue, TypeOK
  <1>11. EscalationIsHandedOver'
    BY <1>2, <1>3 DEF IInv, EscalationIsHandedOver
  <1>12. EndedWillExpire' /\ EndedIsClosed' /\ MessagesHaveARow' /\ FeedbackIsOwned'
    BY <1>3 DEF IInv, EndedWillExpire, EndedIsClosed, MessagesHaveARow, FeedbackIsOwned
  <1>13. SweepIsDue'
    BY <1>3 DEF IInv, SweepIsDue
  <1> QED
    BY <1>8, <1>9, <1>10, <1>11, <1>12, <1>13 DEF IInv

(* A request notes that its row is written, and nothing else about itself. *)
LEMMA WritesKeep ==
    ASSUME IInv, NEW r \in Requests, request[r] # NULL, Writes(r)
    PROVE  /\ request' \in [Requests -> Request \cup {NULL}]
           /\ \A p \in Requests :
                 /\ request'[p] # NULL => request[p] # NULL
                 /\ request'[p] # NULL => request'[p].seen = request[p].seen
                 /\ request'[p] # NULL => request'[p].receipt = request[p].receipt
  <1>1. PICK q \in Request : q = request[r]
    BY DEF IInv, TypeOK
  <1>2. PICK n : n = [kind |-> q.kind, seen |-> q.seen, receipt |-> q.receipt, written |-> TRUE]
    OBVIOUS
  <1>3. n \in Request /\ n.seen = q.seen /\ n.receipt = q.receipt
    BY <1>2 DEF Request
  <1>4. request' = [request EXCEPT ![r] = n]
    BY <1>1, <1>2 DEF Writes
  <1>5. \A p \in Requests : request'[p] = IF p = r THEN n ELSE request[p]
    BY <1>4 DEF IInv, TypeOK
  <1> QED
    BY <1>1, <1>3, <1>4, <1>5 DEF IInv, TypeOK

LEMMA AuditEscalationStep ==
    ASSUME IInv, NEW r \in Requests, AuditEscalation(r)
    PROVE  IInv'
  <1>1. /\ request[r] # NULL /\ request[r].receipt # "none" /\ audited' = TRUE /\ Writes(r)
        /\ UNCHANGED <<row, work, case, closed, messages, feedback, checkpoint, sweep, override, now>>
    BY DEF AuditEscalation, Rest
  <1>2. case # "none"
    BY <1>1 DEF IInv, ReceiptsAreTrue
  <1>3. TypeOK'
    BY <1>1, WritesKeep DEF IInv, TypeOK
  <1>4. ReadsAreOfThePast' /\ ReceiptsAreTrue'
    BY <1>1, WritesKeep DEF IInv, ReadsAreOfThePast, ReceiptsAreTrue
  <1>5. EscalationIsHandedOver' /\ EndedWillExpire' /\ EndedIsClosed' /\ MessagesHaveARow'
        /\ FeedbackIsOwned'
    BY <1>1, <1>2 DEF IInv, EscalationIsHandedOver, EndedWillExpire, EndedIsClosed,
       MessagesHaveARow, FeedbackIsOwned
  <1>6. SweepIsDue'
    BY <1>1 DEF IInv, SweepIsDue
  <1> QED
    BY <1>3, <1>4, <1>5, <1>6 DEF IInv

LEMMA OpenWorkItemStep ==
    ASSUME IInv, NEW r \in Requests, OpenWorkItem(r)
    PROVE  IInv'
  <1>1. /\ request[r] # NULL /\ row # NULL /\ work = NULL
        /\ work' = [done |-> FALSE, updated |-> now] /\ Writes(r)
        /\ UNCHANGED <<row, case, audited, closed, messages, feedback, checkpoint, sweep, override, now>>
    BY DEF OpenWorkItem, Rest
  <1>2. work' \in Work
    BY <1>1, SessionAssumption DEF IInv, TypeOK, Work
  <1>3. TypeOK'
    BY <1>1, <1>2, WritesKeep DEF IInv, TypeOK
  <1>4. ReadsAreOfThePast' /\ ReceiptsAreTrue'
    BY <1>1, WritesKeep DEF IInv, ReadsAreOfThePast, ReceiptsAreTrue
  <1>5. EscalationIsHandedOver' /\ EndedWillExpire' /\ EndedIsClosed' /\ MessagesHaveARow'
        /\ FeedbackIsOwned'
    BY <1>1 DEF IInv, EscalationIsHandedOver, EndedWillExpire, EndedIsClosed,
       MessagesHaveARow, FeedbackIsOwned
  <1>6. SweepIsDue'
    BY <1>1 DEF IInv, SweepIsDue
  <1> QED
    BY <1>3, <1>4, <1>5, <1>6 DEF IInv

-----------------------------------------------------------------------------
(* A move of the session. *)

LEMMA TargetIsState ==
    ASSUME NEW q \in Request
    PROVE  Target(q) = NULL \/ Target(q) \in States
  <1>1. q.kind \in {"turn", "anchor", "escalate"} \cup Moves
    BY SessionAssumption DEF Request
  <1> QED
    BY <1>1, MovesAreStates DEF Target, States, Terminal

(* What a transition does to the row: a legal move of a session that has not  *)
(* ended, stamped exactly when it ends.                                       *)
LEMMA TransitionMoves ==
    ASSUME IInv, NEW r \in Requests, Transition(r), NEW q \in Request, q = request[r]
    PROVE  /\ row \in Row /\ row.state \notin Terminal /\ row.expires = NULL
           /\ q.seen.version = row.version
           /\ \E t \in States, w \in Nat :
                 /\ row' = [state |-> t, version |-> row.version + 1,
                            expires |-> IF t \in Terminal THEN now + w ELSE NULL]
                 /\ closed' = IF t \in Terminal THEN [at |-> now, window |-> w] ELSE closed
  <1>1. PICK t : t = Target(q)
    OBVIOUS
  <1>2. t # NULL /\ row # NULL
    BY <1>1 DEF Transition
  <1>3. t \in States
    BY <1>1, <1>2, TargetIsState
  <1>4. row \in Row /\ now \in Nat /\ override \in Overrides
    BY <1>2, SessionAssumption DEF IInv, TypeOK
  <1>5. PICK w \in Nat : w = WindowFor(ChatWindow, override)
    BY <1>4, WindowIsNat
  <1>6. /\ CanTransition(q.seen.state, t)
        /\ Update(q, t)
        /\ closed' = IF t \in Terminal THEN [at |-> now, window |-> w] ELSE closed
    BY <1>1, <1>5 DEF Transition
  <1>7. q.seen.version = row.version
    BY <1>6 DEF Update
  <1>8. q.seen.state = row.state
    <2>1. request[r] # NULL
      BY DEF Transition
    <2> QED
      BY <1>2, <1>7, <2>1 DEF IInv, ReadsAreOfThePast
  <1>9. row.state \notin Terminal
    BY <1>6, <1>8, TerminalIsFinal
  <1>10. row.expires = NULL
    BY <1>2, <1>9 DEF IInv, EndedWillExpire
  <1>11. ContentExpiryFor(t, now, override) = IF t \in Terminal THEN now + w ELSE NULL
    BY <1>5 DEF ContentExpiryFor
  <1>12. now + w # NULL
    BY <1>4, NullAssumption
  <1>13. row' = [state |-> t, version |-> row.version + 1,
                 expires |-> IF t \in Terminal THEN now + w ELSE NULL]
    BY <1>6, <1>10, <1>11, <1>12 DEF Update
  <1> QED
    BY <1>3, <1>4, <1>6, <1>7, <1>9, <1>10, <1>13

LEMMA TransitionStep ==
    ASSUME IInv, NEW r \in Requests, Transition(r)
    PROVE  IInv'
  <1>1. /\ request[r] # NULL /\ row # NULL
        /\ UNCHANGED <<work, case, audited, messages, feedback, checkpoint, sweep, override, now>>
        /\ request' = [request EXCEPT ![r] = NULL]
    BY DEF Transition, Rest
  <1>2. PICK q \in Request : q = request[r]
    BY <1>1 DEF IInv, TypeOK
  <1>3. \A p \in Requests : request'[p] = IF p = r THEN NULL ELSE request[p]
    BY <1>1 DEF IInv, TypeOK
  <1>4. row \in Row /\ now \in Nat
    BY <1>1, SessionAssumption DEF IInv, TypeOK
  <1>5. request' \in [Requests -> Request \cup {NULL}]
    BY <1>1 DEF IInv, TypeOK
  <1>6. row.state \notin Terminal /\ q.seen.version = row.version
    BY <1>2, TransitionMoves
  <1>7. PICK t \in States, w \in Nat :
            /\ row' = [state |-> t, version |-> row.version + 1,
                       expires |-> IF t \in Terminal THEN now + w ELSE NULL]
            /\ closed' = IF t \in Terminal THEN [at |-> now, window |-> w] ELSE closed
    BY <1>2, TransitionMoves
  <1>8. row' \in Row /\ row' # NULL /\ row'.state = t /\ row'.version = row.version + 1
        /\ row'.expires = IF t \in Terminal THEN now + w ELSE NULL
    BY <1>4, <1>7, NullAssumption DEF Row
  <1>9. closed' \in Closed \cup {NULL}
    BY <1>4, <1>7 DEF IInv, TypeOK, Closed
  <1>10. TypeOK'
    BY <1>1, <1>5, <1>8, <1>9 DEF IInv, TypeOK
  <1>11. EscalationIsHandedOver'
    BY <1>1 DEF IInv, EscalationIsHandedOver
  <1>12. EndedWillExpire' /\ EndedIsClosed'
    <2>1. CASE t \in Terminal
      <3>1. closed' = [at |-> now, window |-> w] /\ closed' \in Closed
        BY <1>4, <1>7, <2>1 DEF Closed
      <3> QED
        BY <1>8, <2>1, <3>1, NullAssumption DEF EndedWillExpire, EndedIsClosed
    <2>2. CASE t \notin Terminal
      BY <1>8, <2>2 DEF EndedWillExpire, EndedIsClosed
    <2> QED
      BY <2>1, <2>2
  <1>13. MessagesHaveARow' /\ FeedbackIsOwned'
    BY <1>1, <1>8 DEF IInv, MessagesHaveARow, FeedbackIsOwned
  <1>14. ReadsAreOfThePast'
    <2>1. \A p \in Requests : request[p] # NULL =>
              request[p].seen.version <= row.version /\ request[p].seen.version \in Nat
      BY <1>1 DEF IInv, TypeOK, ReadsAreOfThePast, Request
    <2>2. row.version \in Nat
      BY <1>4 DEF Row
    <2> QED
      BY <1>3, <1>8, <2>1, <2>2 DEF ReadsAreOfThePast
  <1>15. ReceiptsAreTrue'
    BY <1>1, <1>3 DEF IInv, ReceiptsAreTrue
  <1>16. SweepIsDue'
    BY <1>1, <1>6, <1>8 DEF IInv, SweepIsDue
  <1> QED
    BY <1>10, <1>11, <1>12, <1>13, <1>14, <1>15, <1>16 DEF IInv

-----------------------------------------------------------------------------
(* The rest of the platform. *)

LEMMA ReplayStep ==
    ASSUME IInv, Replay
    PROVE  IInv'
  <1> USE DEF Replay, Others
  <1>1. TypeOK' /\ EscalationIsHandedOver' /\ ReceiptsAreTrue'
    BY DEF IInv, TypeOK, EscalationIsHandedOver, ReceiptsAreTrue
  <1>2. EndedWillExpire' /\ EndedIsClosed' /\ MessagesHaveARow' /\ FeedbackIsOwned'
        /\ ReadsAreOfThePast'
    BY DEF IInv, EndedWillExpire, EndedIsClosed, MessagesHaveARow, FeedbackIsOwned,
           ReadsAreOfThePast
  <1>3. SweepIsDue'
    BY DEF IInv, SweepIsDue
  <1> QED
    BY <1>1, <1>2, <1>3 DEF IInv

LEMMA CompleteWorkStep ==
    ASSUME IInv, CompleteWork
    PROVE  IInv'
  <1> USE DEF CompleteWork, Others
  <1>1. work' \in Work /\ work' # NULL /\ work'.done
    <2>1. work' = [done |-> TRUE, updated |-> now] /\ now \in Nat
      BY SessionAssumption DEF IInv, TypeOK
    <2>2. work' \in Work
      BY <2>1 DEF Work
    <2>3. work'.done
      BY <2>1
    <2> QED
      BY <2>2, <2>3, NullAssumption
  <1>2. TypeOK'
    BY <1>1 DEF IInv, TypeOK
  <1>3. EscalationIsHandedOver' /\ EndedWillExpire' /\ EndedIsClosed' /\ MessagesHaveARow'
        /\ FeedbackIsOwned' /\ ReadsAreOfThePast' /\ ReceiptsAreTrue'
    BY DEF IInv, EscalationIsHandedOver, EndedWillExpire, EndedIsClosed, MessagesHaveARow,
           FeedbackIsOwned, ReadsAreOfThePast, ReceiptsAreTrue
  <1>4. SweepIsDue'
    BY <1>1 DEF IInv, SweepIsDue
  <1> QED
    BY <1>2, <1>3, <1>4 DEF IInv

LEMMA SetOverrideStep ==
    ASSUME IInv, NEW o \in Overrides, SetOverride(o)
    PROVE  IInv'
  <1> USE DEF SetOverride, Others
  <1>1. TypeOK'
    BY DEF IInv, TypeOK
  <1>2. EscalationIsHandedOver' /\ EndedWillExpire' /\ EndedIsClosed' /\ MessagesHaveARow'
        /\ FeedbackIsOwned' /\ ReadsAreOfThePast' /\ ReceiptsAreTrue'
    BY DEF IInv, EscalationIsHandedOver, EndedWillExpire, EndedIsClosed, MessagesHaveARow,
           FeedbackIsOwned, ReadsAreOfThePast, ReceiptsAreTrue
  <1>3. SweepIsDue'
    BY DEF IInv, SweepIsDue
  <1> QED
    BY <1>1, <1>2, <1>3 DEF IInv

(* What is due stays due as time passes. *)
LEMMA TickStep ==
    ASSUME IInv, Tick
    PROVE  IInv'
  <1> USE DEF Tick, Others
  <1>1. now' \in 0..MaxTime /\ now \in Nat
    BY SessionAssumption DEF IInv, TypeOK
  <1>2. TypeOK'
    BY <1>1 DEF IInv, TypeOK
  <1>3. EscalationIsHandedOver' /\ EndedWillExpire' /\ EndedIsClosed' /\ MessagesHaveARow'
        /\ FeedbackIsOwned' /\ ReadsAreOfThePast' /\ ReceiptsAreTrue'
    BY DEF IInv, EscalationIsHandedOver, EndedWillExpire, EndedIsClosed, MessagesHaveARow,
           FeedbackIsOwned, ReadsAreOfThePast, ReceiptsAreTrue
  <1>4. SweepIsDue'
    <2> SUFFICES ASSUME sweep # NULL PROVE SweepIsDue'
      BY DEF SweepIsDue
    <2>1. ASSUME sweep.content, row # NULL
          PROVE  row.state \in Terminal /\ closed.at + closed.window <= now + 1
      <3>1. row.state \in Terminal /\ closed.at + closed.window <= now
        BY <2>1 DEF IInv, SweepIsDue
      <3>2. closed \in Closed
        BY <2>1, <3>1 DEF IInv, TypeOK, EndedIsClosed
      <3>3. closed.at \in Nat /\ closed.window \in Nat
        BY <3>2 DEF Closed
      <3> QED
        BY <1>1, <3>1, <3>3
    <2> QED
      BY <2>1 DEF IInv, SweepIsDue
  <1> QED
    BY <1>2, <1>3, <1>4 DEF IInv

-----------------------------------------------------------------------------
(* Retention. *)

(* What the sweep finds expired has ended, and its window is over. *)
LEMMA ExpiredHasEnded ==
    ASSUME IInv, ContentExpired
    PROVE  row # NULL /\ row.state \in Terminal /\ closed.at + closed.window <= now
  BY DEF ContentExpired, IInv, EndedWillExpire

LEMMA SweepBeginStep ==
    ASSUME IInv, SweepBegin
    PROVE  IInv'
  <1> USE DEF SweepBegin, Others
  <1>1. ContentExpired \in BOOLEAN /\ ThreadEligible \in BOOLEAN
    BY DEF ContentExpired, ThreadEligible, IInv, TypeOK, Work
  <1>2. sweep' = [content |-> ContentExpired, thread |-> ThreadEligible]
    OBVIOUS
  <1>3. sweep' \in [content : BOOLEAN, thread : BOOLEAN]
        /\ sweep'.content = ContentExpired /\ sweep'.thread = ThreadEligible
    BY <1>1, <1>2
  <1>4. TypeOK'
    BY <1>3 DEF IInv, TypeOK
  <1>5. EscalationIsHandedOver' /\ EndedWillExpire' /\ EndedIsClosed' /\ MessagesHaveARow'
        /\ FeedbackIsOwned' /\ ReadsAreOfThePast' /\ ReceiptsAreTrue'
    BY DEF IInv, EscalationIsHandedOver, EndedWillExpire, EndedIsClosed, MessagesHaveARow,
           FeedbackIsOwned, ReadsAreOfThePast, ReceiptsAreTrue
  <1>6. ThreadEligible => work # NULL /\ work.done
    BY DEF ThreadEligible
  <1>7. SweepIsDue'
    BY <1>3, <1>6, ExpiredHasEnded DEF SweepIsDue
  <1> QED
    BY <1>4, <1>5, <1>7 DEF IInv

LEMMA PruneStep ==
    ASSUME IInv, Prune
    PROVE  IInv'
  <1> USE DEF Prune, Others
  <1>1. sweep \in [content : BOOLEAN, thread : BOOLEAN]
    BY DEF IInv, TypeOK
  <1>2. sweep' \in [content : BOOLEAN, thread : BOOLEAN]
        /\ sweep'.content = sweep.content /\ sweep'.thread = FALSE
    BY <1>1
  <1>3. TypeOK'
    BY <1>2 DEF IInv, TypeOK
  <1>4. EscalationIsHandedOver' /\ EndedWillExpire' /\ EndedIsClosed' /\ MessagesHaveARow'
        /\ FeedbackIsOwned' /\ ReadsAreOfThePast' /\ ReceiptsAreTrue'
    BY DEF IInv, EscalationIsHandedOver, EndedWillExpire, EndedIsClosed, MessagesHaveARow,
           FeedbackIsOwned, ReadsAreOfThePast, ReceiptsAreTrue
  <1>5. SweepIsDue'
    BY <1>2 DEF IInv, SweepIsDue
  <1> QED
    BY <1>3, <1>4, <1>5 DEF IInv

LEMMA SweepAbortStep ==
    ASSUME IInv, SweepAbort
    PROVE  IInv'
  <1> USE DEF SweepAbort, Others
  <1>1. TypeOK' /\ SweepIsDue'
    BY DEF IInv, TypeOK, SweepIsDue
  <1>2. EscalationIsHandedOver' /\ EndedWillExpire' /\ EndedIsClosed' /\ MessagesHaveARow'
        /\ FeedbackIsOwned' /\ ReadsAreOfThePast' /\ ReceiptsAreTrue'
    BY DEF IInv, EscalationIsHandedOver, EndedWillExpire, EndedIsClosed, MessagesHaveARow,
           FeedbackIsOwned, ReadsAreOfThePast, ReceiptsAreTrue
  <1> QED
    BY <1>1, <1>2 DEF IInv

LEMMA SweepCommitStep ==
    ASSUME IInv, SweepCommit
    PROVE  IInv'
  <1> USE DEF SweepCommit
  <1>1. ReceiptsAreTrue' /\ SweepIsDue'
    BY DEF IInv, ReceiptsAreTrue, SweepIsDue
  <1>2. CASE sweep.content
    <2>1. feedback' \in [Messages \X Givers -> Signals \cup {NULL}]
          /\ \A m \in Messages, g \in Givers : feedback'[<<m, g>>] = NULL
      BY <1>2 DEF IInv, TypeOK
    <2>2. TypeOK'
      BY <1>2, <2>1 DEF IInv, TypeOK
    <2>3. EscalationIsHandedOver' /\ EndedWillExpire' /\ EndedIsClosed' /\ MessagesHaveARow'
          /\ FeedbackIsOwned' /\ ReadsAreOfThePast'
      BY <1>2, <2>1 DEF IInv, EscalationIsHandedOver, EndedWillExpire, EndedIsClosed,
           MessagesHaveARow,
           FeedbackIsOwned, ReadsAreOfThePast
    <2> QED
      BY <1>1, <2>2, <2>3 DEF IInv
  <1>3. CASE ~sweep.content
    <2>1. TypeOK'
      BY <1>3 DEF IInv, TypeOK
    <2>2. EscalationIsHandedOver' /\ EndedWillExpire' /\ EndedIsClosed' /\ MessagesHaveARow'
          /\ FeedbackIsOwned' /\ ReadsAreOfThePast'
      BY <1>3 DEF IInv, EscalationIsHandedOver, EndedWillExpire, EndedIsClosed, MessagesHaveARow,
           FeedbackIsOwned, ReadsAreOfThePast
    <2> QED
      BY <1>1, <2>1, <2>2 DEF IInv
  <1> QED
    BY <1>2, <1>3

LEMMA EraseStep ==
    ASSUME IInv, Erase
    PROVE  IInv'
  <1> USE DEF Erase
  <1>1. feedback' \in [Messages \X Givers -> Signals \cup {NULL}]
        /\ \A m \in Messages, g \in Givers : feedback'[<<m, g>>] = NULL
    BY DEF IInv, TypeOK
  <1>2. TypeOK'
    BY <1>1 DEF IInv, TypeOK
  <1>3. EscalationIsHandedOver' /\ EndedWillExpire' /\ EndedIsClosed' /\ MessagesHaveARow'
        /\ FeedbackIsOwned' /\ ReadsAreOfThePast' /\ SweepIsDue'
    BY <1>1 DEF IInv, EscalationIsHandedOver, EndedWillExpire, EndedIsClosed, MessagesHaveARow,
         FeedbackIsOwned, ReadsAreOfThePast, SweepIsDue
  <1>4. ReceiptsAreTrue'
    BY DEF IInv, ReceiptsAreTrue
  <1> QED
    BY <1>2, <1>3, <1>4 DEF IInv

-----------------------------------------------------------------------------
LEMMA StepIInv == IInv /\ [Next]_vars => IInv'
  <1> SUFFICES ASSUME IInv, [Next]_vars PROVE IInv'
    OBVIOUS
  <1>1. CASE UNCHANGED vars
    BY <1>1 DEF vars, IInv, TypeOK, EscalationIsHandedOver, EndedWillExpire, EndedIsClosed,
         MessagesHaveARow, FeedbackIsOwned, ReadsAreOfThePast, ReceiptsAreTrue, SweepIsDue
  <1>2. ASSUME NEW m \in Messages, AddMessage(m) PROVE IInv'
    BY <1>2, AddMessageStep
  <1>3. ASSUME NEW m \in Messages, NEW g \in Givers, NEW s \in Signals, RecordFeedback(m, g, s)
        PROVE  IInv'
    BY <1>3, SetFeedbackStep DEF RecordFeedback
  <1>4. ASSUME NEW m \in Messages, NEW g \in Givers, WithdrawFeedback(m, g) PROVE IInv'
    BY <1>4, SetFeedbackStep DEF WithdrawFeedback
  <1>5. ASSUME NEW r \in Requests, NEW kind \in Kinds, Read(r, kind) PROVE IInv'
    BY <1>5, ReadStep
  <1>6. ASSUME NEW r \in Requests,
               \/ RecordProgress(r) \/ AuditEscalation(r) \/ OpenWorkItem(r)
               \/ Transition(r) \/ Abandon(r)
        PROVE  IInv'
    BY <1>6, RecordProgressStep, AuditEscalationStep, OpenWorkItemStep, TransitionStep, AbandonStep
  <1>7. ASSUME NEW o \in Overrides, SetOverride(o) PROVE IInv'
    BY <1>7, SetOverrideStep
  <1>8. CASE Replay \/ CompleteWork \/ Tick \/ Erase
    BY <1>8, ReplayStep, CompleteWorkStep, TickStep, EraseStep
  <1>9. CASE SweepBegin \/ Prune \/ SweepCommit \/ SweepAbort
    BY <1>9, SweepBeginStep, PruneStep, SweepCommitStep, SweepAbortStep
  <1> QED
    BY <1>1, <1>2, <1>3, <1>4, <1>5, <1>6, <1>7, <1>8, <1>9 DEF Next

LEMMA Invariance == Spec => []IInv
  <1>1. Init => IInv
    BY InitIInv
  <1>2. IInv /\ [Next]_vars => IInv'
    BY StepIInv
  <1> QED
    BY <1>1, <1>2, PTL DEF Spec

(* Every variable of the session model keeps its type. *)
THEOREM TypeCorrect == Spec => []TypeOK
  <1>1. IInv => TypeOK
    BY DEF IInv
  <1> QED
    BY <1>1, Invariance, PTL

(* Of every escalation in the audit trail the system of record was told       *)
(* first, however many requests escalated, anchored, moved or stopped between *)
(* the two writes (EscalationPath.escalate).                                  *)
THEOREM EscalationsAreHandedOver == Spec => []EscalationIsHandedOver
  <1>1. IInv => EscalationIsHandedOver
    BY DEF IInv
  <1> QED
    BY <1>1, Invariance, PTL

(* Feedback is the requester's, on an agent's message that is still there     *)
(* (FeedbackRepository.record and the cascade from chat_session).             *)
THEOREM FeedbackHasAnOwner == Spec => []FeedbackIsOwned
  <1>1. IInv => FeedbackIsOwned
    BY DEF IInv
  <1> QED
    BY <1>1, Invariance, PTL

(* The row carries the sweep's instant exactly when the session has ended,    *)
(* and it is the end plus the window then in force (content_expiry_for).      *)
THEOREM ExpiryIsStamped == Spec => []EndedWillExpire
  <1>1. IInv => EndedWillExpire
    BY DEF IInv
  <1> QED
    BY <1>1, Invariance, PTL

(* What a step may do to the row of a session that has ended: nothing, or     *)
(* remove it.                                                                 *)
LEMMA EndedStays ==
    ASSUME IInv, [Next]_vars, row # NULL, row.state \in Terminal
    PROVE  row' = row \/ row' = NULL
  <1>1. ASSUME NEW r \in Requests, Transition(r) PROVE FALSE
    <2>1. PICK q \in Request : q = request[r]
      BY <1>1 DEF IInv, TypeOK, Transition
    <2> QED
      BY <1>1, <2>1, TransitionMoves
  <1>2. CASE UNCHANGED vars
    BY <1>2 DEF vars
  <1> QED
    BY <1>1, <1>2 DEF Next, AddMessage, RecordFeedback, WithdrawFeedback, SetFeedback, Read,
         RecordProgress, AuditEscalation, OpenWorkItem, Abandon, SetOverride, Replay, CompleteWork, Tick, Erase, SweepBegin,
         Prune, SweepCommit, SweepAbort

(* No request, however stale what it read, moves a session that has ended or  *)
(* restarts its retention clock (SessionRepository.transition).               *)
THEOREM EndsAreFinal == Spec => EndedIsFinal
  <1>1. IInv /\ [Next]_vars =>
            [row # NULL /\ row.state \in Terminal => row' = row \/ row' = NULL]_vars
    BY EndedStays
  <1> QED
    BY <1>1, Invariance, PTL DEF Spec, EndedIsFinal

(* Which steps remove what. *)
LEMMA RowGoes ==
    ASSUME IInv, [Next]_vars, row # NULL, row' = NULL
    PROVE  \/ closed # NULL /\ closed.at + closed.window <= now
           \/ work' = NULL
  <1>1. ASSUME NEW r \in Requests, Transition(r) PROVE FALSE
    <2>1. PICK q \in Request : q = request[r]
      BY <1>1 DEF IInv, TypeOK, Transition
    <2>2. row' \in Row
      <3>1. now \in Nat
        BY SessionAssumption DEF IInv, TypeOK
      <3> QED
        BY <1>1, <2>1, <3>1, TransitionMoves DEF Row
    <2> QED
      BY <2>2, NullAssumption
  <1>2. CASE SweepCommit
    BY <1>2 DEF SweepCommit, IInv, SweepIsDue, EndedIsClosed
  <1>3. CASE Erase
    BY <1>3 DEF Erase
  <1>4. CASE UNCHANGED vars
    BY <1>4 DEF vars
  <1> QED
    BY <1>1, <1>2, <1>3, <1>4 DEF Next, AddMessage, RecordFeedback, WithdrawFeedback, SetFeedback,
         Read, RecordProgress, AuditEscalation, OpenWorkItem, Abandon, SetOverride, Replay, CompleteWork, Tick, SweepBegin,
         Prune, SweepAbort

LEMMA CheckpointGoes ==
    ASSUME IInv, [Next]_vars, checkpoint, ~checkpoint'
    PROVE  work = NULL \/ work.done
  <1>1. CASE Prune
    BY <1>1 DEF Prune, IInv, SweepIsDue
  <1>2. ASSUME NEW m \in Messages, AddMessage(m) PROVE FALSE
    BY <1>2, Zenon DEF AddMessage
  <1>3. CASE UNCHANGED vars
    BY <1>3 DEF vars
  <1>4. ASSUME NEW r \in Requests, Transition(r) PROVE FALSE
    BY <1>4 DEF Transition, Rest
  <1> QED
    BY <1>1, <1>2, <1>3, <1>4 DEF Next, RecordFeedback, WithdrawFeedback, SetFeedback,
         Read, RecordProgress, AuditEscalation, OpenWorkItem, Abandon, SetOverride, Replay, CompleteWork, Tick, SweepBegin,
         SweepCommit, SweepAbort, Erase, Rest

LEMMA WorkGoes ==
    ASSUME IInv, [Next]_vars, work # NULL, work' = NULL
    PROVE  row' = NULL
  <1>1. ASSUME NEW r \in Requests, Transition(r) PROVE FALSE
    BY <1>1 DEF Transition
  <1>2. CASE CompleteWork
    <2>1. work' = [done |-> TRUE, updated |-> now] /\ now \in Nat
      BY <1>2, SessionAssumption DEF CompleteWork, IInv, TypeOK
    <2>2. work' \in Work
      BY <2>1 DEF Work
    <2> QED
      BY <2>2, NullAssumption
  <1>3. CASE Erase
    BY <1>3 DEF Erase
  <1>4. CASE UNCHANGED vars
    BY <1>4 DEF vars
  <1> QED
    BY <1>1, <1>2, <1>3, <1>4 DEF Next, AddMessage, RecordFeedback, WithdrawFeedback, SetFeedback,
         Read, RecordProgress, AuditEscalation, OpenWorkItem, Abandon, SetOverride, Replay, Tick, SweepBegin,
         Prune, SweepCommit, SweepAbort

LEMMA AuditStays ==
    ASSUME IInv, [Next]_vars, audited
    PROVE  audited'
  <1>1. ASSUME NEW r \in Requests, Transition(r) PROVE audited'
    BY <1>1, Zenon DEF Transition
  <1>2. CASE UNCHANGED vars
    BY <1>2 DEF vars
  <1> QED
    BY <1>1, <1>2 DEF Next, AddMessage, RecordFeedback, WithdrawFeedback, SetFeedback,
         Read, RecordProgress, AuditEscalation, OpenWorkItem, Abandon, SetOverride, Replay, CompleteWork, Tick, SweepBegin,
         Prune, SweepCommit, SweepAbort, Erase, Others

(* Retention takes neither too much nor too early, whatever the override has  *)
(* become since the end and whatever runs beside the pass (sweep_tenant,      *)
(* erase_tenant).                                                             *)
THEOREM RetentionTakesWhatIsDue == Spec => RetentionIsExact
  <1>1. IInv /\ [Next]_vars =>
            [/\ row # NULL /\ row' = NULL =>
                    \/ closed # NULL /\ closed.at + closed.window <= now
                    \/ work' = NULL
             /\ checkpoint /\ ~checkpoint' => work = NULL \/ work.done
             /\ work # NULL /\ work' = NULL => row' = NULL
             /\ audited => audited']_vars
    BY RowGoes, CheckpointGoes, WorkGoes, AuditStays
  <1> QED
    BY <1>1, Invariance, PTL DEF Spec, RetentionIsExact

=============================================================================
