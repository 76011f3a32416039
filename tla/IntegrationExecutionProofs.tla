--------------------- MODULE IntegrationExecutionProofs ---------------------
(***************************************************************************)
(* Proofs about the integration seam: the invariant IInv is inductive, and *)
(* the safety properties and the refinement of JobAnswers follow from it,  *)
(* for any number of jobs, messages and consumers and any bounds.          *)
(***************************************************************************)
EXTENDS IntegrationExecution, TLAPS

(* What every step does to the state that a delivery's knowledge rests on:    *)
(* time, dispatched jobs, records, calls and withdrawals only accumulate.     *)
Progress ==
    /\ clock \in Nat /\ clock' \in Nat /\ clock <= clock'
    /\ dispatched \subseteq dispatched'
    /\ \A w \in Works : record[w] # NULL => record'[w] # NULL
    /\ \A w \in Works : calls[w] > 0 => calls'[w] > 0
    /\ \A w \in Works : Withdrawn(w) => Withdrawn(w)'

-----------------------------------------------------------------------------
(* A delivery that a step does not touch keeps what it knows. *)
LEMMA RunKept ==
    ASSUME NEW c \in Consumers, TypeOK, Progress, run'[c] = run[c], RunOK(c)
    PROVE  RunOK(c)'
<1>1. CASE run[c].phase = "idle"
  BY <1>1 DEF RunOK
<1>2. CASE run[c].phase # "idle"
  <2>1. run[c].msg \in Messages /\ JobFor(c)' = JobFor(c) /\ WorkFor(c)' = WorkFor(c)
    BY <1>2 DEF RunOK, JobFor, WorkFor
  <2>2. JobFor(c) # NULL => WorkFor(c) \in Works
    BY <2>1, SeamAssumption DEF JobFor, WorkFor
  <2>3. run[c].phase # "loading" => JobFor(c) # NULL
    BY <1>2, SeamNull DEF RunOK, TypeOK
  <2>4. JobFor(c) # NULL /\ run[c].withdrawn => Withdrawn(WorkFor(c))'
    BY <1>2, <2>1, <2>2 DEF RunOK, Progress
  <2>5. run[c].phase = "loaded" /\ run[c].fit /\ run[c].withdrawn => clock' >= Window
    BY <1>2, SeamBounds DEF RunOK, Progress
  <2>6. JobFor(c) # NULL /\ run[c].answered => record'[WorkFor(c)] # NULL
    BY <1>2, <2>2 DEF RunOK, Progress
  <2>7. run[c].phase = "recording" /\ run[c].outcome = "succeeded" => calls'[WorkFor(c)] > 0
    BY <1>2, <2>2, <2>3 DEF RunOK, Progress
  <2>8. run[c].phase = "settling" => record'[WorkFor(c)] # NULL
    BY <1>2, <2>2, <2>3 DEF RunOK, Progress
  <2> QED
    BY <1>2, <2>1, <2>4, <2>5, <2>6, <2>7, <2>8 DEF RunOK, Progress
<1> QED
  BY <1>1, <1>2

(* A job whose answer and conclusion a step does not touch stays consistent. *)
LEMMA AnswerKept ==
    ASSUME NEW j \in Jobs, Progress, AnswerOK(j),
           result'[j] = result[j], concluded'[j] = concluded[j]
    PROVE  AnswerOK(j)'
BY SeamAssumption DEF AnswerOK, Progress, ConcludedFrom

(* A step that completes no message keeps the completed ones answered. *)
LEMMA HandledKept ==
    ASSUME TypeOK, Progress, HandledMeansAnswered,
           \A m \in Messages : msg'[m].status = "done" => msg[m].status = "done"
    PROVE  HandledMeansAnswered'
<1> SUFFICES ASSUME NEW m \in Messages, msg'[m].status = "done"
             PROVE  JobOf[m] \in dispatched' /\ record'[WorkOf[JobOf[m]]] # NULL
  BY DEF HandledMeansAnswered
<1>1. JobOf[m] \in dispatched /\ record[WorkOf[JobOf[m]]] # NULL
  BY DEF HandledMeansAnswered
<1>2. WorkOf[JobOf[m]] \in Works
  BY <1>1, SeamAssumption DEF TypeOK
<1> QED
  BY <1>1, <1>2 DEF Progress

-----------------------------------------------------------------------------
(* Environment steps. *)

LEMMA EnvironmentStep ==
    ASSUME IInv, Environment
    PROVE  IInv'
<1>1. TypeOK' /\ Progress
  <2>1. CASE Tick
    <3>1. clock \in Nat /\ clock' = clock + 1
      BY <2>1 DEF Tick, IInv, TypeOK
    <3>2. TypeOK'
      BY <2>1, <3>1 DEF Tick, IInv, TypeOK, answers
    <3>3. \A w \in Works : Withdrawn(w) => Withdrawn(w)'
      BY <2>1, <3>1, SeamBounds DEF Tick, Withdrawn
    <3> QED
      BY <2>1, <3>1, <3>2, <3>3 DEF Tick, Progress, answers
  <2>2. CASE Suspend
    <3>1. TypeOK'
      BY <2>2 DEF Suspend, IInv, TypeOK, answers
    <3>2. \A w \in Works : Withdrawn(w) => Withdrawn(w)'
      BY <2>2 DEF Suspend, Withdrawn
    <3> QED
      BY <2>2, <3>1, <3>2 DEF Suspend, Progress, answers, IInv, TypeOK
  <2>3. ASSUME NEW v \in Works, NEW f \in Facts, LoseFact(v, f)
        PROVE  TypeOK' /\ Progress
    <3>1. facts' \in [Works -> SUBSET Facts]
      BY <2>3 DEF LoseFact, IInv, TypeOK
    <3>2. TypeOK'
      BY <2>3, <3>1 DEF LoseFact, IInv, TypeOK, answers
    <3>3. \A w \in Works : Withdrawn(w) => Withdrawn(w)'
      BY <2>3 DEF LoseFact, Withdrawn
    <3> QED
      BY <2>3, <3>2, <3>3 DEF LoseFact, Progress, answers, IInv, TypeOK
  <2>4. ASSUME NEW v \in Works, NEW s \in WorkMoves, MoveWork(v, s)
        PROVE  TypeOK' /\ Progress
    <3>1. state' \in [Works -> WorkItemState]
      BY <2>4, SeamAssumption DEF MoveWork, IInv, TypeOK
    <3>2. TypeOK'
      BY <2>4, <3>1 DEF MoveWork, IInv, TypeOK, answers
    <3>3. \A w \in Works : Withdrawn(w) => Withdrawn(w)'
      BY <2>4 DEF MoveWork, Withdrawn, IInv, TypeOK
    <3> QED
      BY <2>4, <3>2, <3>3 DEF MoveWork, Progress, answers, IInv, TypeOK
  <2> QED
    BY <2>1, <2>2, <2>3, <2>4 DEF Environment
<1>2. UNCHANGED <<run, result, concluded, msg>>
  BY DEF Environment, Tick, Suspend, LoseFact, MoveWork, answers
<1>3. \A c \in Consumers : RunOK(c)'
  BY <1>1, <1>2, RunKept DEF IInv
<1>4. \A j \in Jobs : AnswerOK(j)'
  BY <1>1, <1>2, AnswerKept DEF IInv
<1>5. HandledMeansAnswered'
  BY <1>1, <1>2, HandledKept DEF IInv
<1> QED
  BY <1>1, <1>3, <1>4, <1>5 DEF IInv

LEMMA RagCoreStep ==
    ASSUME IInv, NEW j \in Jobs, Dispatch(j) \/ Conclude(j)
    PROVE  IInv'
<1>1. TypeOK'
  <2>1. CASE Dispatch(j)
    BY <2>1 DEF Dispatch, IInv, TypeOK, authority, answers
  <2>2. CASE Conclude(j)
    <3>1. result[j] \in {"executed", "failed", NULL}
      BY DEF IInv, TypeOK
    <3>2. ConcludedFrom(result[j]) \in {"pending", "failed", "acted_unverified"}
      BY <3>1, SeamNull DEF ConcludedFrom, Outcomes
    <3>3. concluded' \in [Jobs -> {"pending", "failed", "acted_unverified"}]
      BY <2>2, <3>2 DEF Conclude, IInv, TypeOK
    <3> QED
      BY <2>2, <3>3 DEF Conclude, IInv, TypeOK, authority, answers
  <2> QED
    BY <2>1, <2>2
<1>2. Progress
  BY DEF Dispatch, Conclude, Progress, authority, answers, IInv, TypeOK, Withdrawn
<1>3. \A c \in Consumers : RunOK(c)'
  BY <1>2, RunKept DEF Dispatch, Conclude, IInv
<1>4. ASSUME NEW k \in Jobs
      PROVE  AnswerOK(k)'
  <2>1. AnswerOK(k) /\ result' = result
    BY DEF IInv, Dispatch, Conclude, answers
  <2>2. CASE concluded'[k] = concluded[k]
    BY <1>2, <2>1, <2>2, AnswerKept
  <2>3. CASE concluded'[k] # concluded[k]
    <3>1. k = j /\ concluded'[k] = ConcludedFrom(result[k])
      BY <2>3 DEF Dispatch, Conclude, IInv, TypeOK
    <3>2. concluded'[k] # "pending" => result[k] # NULL
      BY <3>1 DEF ConcludedFrom
    <3>3. WorkOf[k] \in Works
      BY SeamAssumption
    <3> QED
      BY <1>2, <2>1, <3>1, <3>2, <3>3 DEF AnswerOK, Progress, ConcludedFrom
  <2> QED
    BY <2>2, <2>3
<1>5. HandledMeansAnswered'
  BY <1>2, HandledKept DEF Dispatch, Conclude, IInv
<1> QED
  BY <1>1, <1>3, <1>4, <1>5 DEF IInv

LEMMA BrokerStep ==
    ASSUME IInv, NEW m \in Messages, Send(m) \/ ExpireMessage(m)
    PROVE  IInv'
<1>1. /\ msg' \in [Messages -> Message]
      /\ \A k \in Messages : msg'[k].status = "done" => msg[k].status = "done"
  <2>1. msg \in [Messages -> Message]
    BY DEF IInv, TypeOK
  <2>2. CASE Send(m)
    BY <2>1, <2>2 DEF Send, Message
  <2>3. CASE ExpireMessage(m)
    BY <2>1, <2>3 DEF ExpireMessage, Put, Message
  <2> QED
    BY <2>2, <2>3
<1>2. TypeOK'
  BY <1>1 DEF Send, ExpireMessage, IInv, TypeOK, authority, answers
<1>3. Progress
  BY DEF Send, ExpireMessage, Progress, authority, answers, IInv, TypeOK, Withdrawn
<1>4. \A c \in Consumers : RunOK(c)'
  BY <1>3, RunKept DEF Send, ExpireMessage, IInv
<1>5. \A j \in Jobs : AnswerOK(j)'
  BY <1>3, AnswerKept DEF Send, ExpireMessage, IInv, answers
<1>6. HandledMeansAnswered'
  BY <1>1, <1>3, HandledKept DEF IInv
<1> QED
  BY <1>2, <1>4, <1>5, <1>6 DEF IInv

-----------------------------------------------------------------------------
(* Consumer steps. *)

(* A step of one consumer that answers nothing and completes nothing keeps    *)
(* the invariant if it keeps the types and what that consumer knows.          *)
LEMMA DeliveryStep ==
    ASSUME IInv, NEW c \in Consumers, TypeOK', Progress, RunOK(c)',
           \A d \in Consumers : d # c => run'[d] = run[d],
           \A m \in Messages : msg'[m].status = "done" => msg[m].status = "done",
           result' = result, concluded' = concluded
    PROVE  IInv'
<1>1. ASSUME NEW d \in Consumers
      PROVE  RunOK(d)'
  <2>1. CASE d = c
    BY <2>1
  <2>2. CASE d # c
    BY <2>2, RunKept DEF IInv
  <2> QED
    BY <2>1, <2>2
<1>2. \A j \in Jobs : AnswerOK(j)'
  BY AnswerKept DEF IInv
<1>3. HandledMeansAnswered'
  BY HandledKept DEF IInv
<1> QED
  BY <1>1, <1>2, <1>3 DEF IInv

(* A delivery past the loading phase names a dispatched job. *)
LEMMA DeliveryHasWork ==
    ASSUME IInv, NEW c \in Consumers, run[c].phase \notin {"idle", "loading"}
    PROVE  /\ run[c].msg \in Messages
           /\ JobFor(c) \in dispatched
           /\ JobFor(c) \in Jobs
           /\ JobFor(c) # NULL
           /\ WorkFor(c) \in Works
<1>1. RunOK(c) /\ dispatched \subseteq Jobs
  BY DEF IInv, TypeOK
<1>2. run[c].msg \in Messages /\ JobFor(c) \in dispatched
  BY <1>1 DEF RunOK
<1> QED
  BY <1>1, <1>2, SeamAssumption, SeamNull DEF WorkFor

LEMMA ReceiveStep ==
    ASSUME IInv, NEW c \in Consumers, NEW m \in Messages, Receive(c, m)
    PROVE  IInv'
<1>1. /\ msg' \in [Messages -> Message]
      /\ \A k \in Messages : msg'[k].status = "done" => msg[k].status = "done"
  <2>1. msg \in [Messages -> Message] /\ msg[m].count \in Nat
    BY DEF IInv, TypeOK, Message
  <2>2. msg' = [msg EXCEPT ![m] = [status |-> "held", count |-> msg[m].count + 1]]
    BY <2>1 DEF Receive
  <2>3. [status |-> "held", count |-> msg[m].count + 1] \in Message
    BY <2>1 DEF Message
  <2> QED
    BY <2>1, <2>2, <2>3
<1>2. PICK a \in BOOLEAN, b \in BOOLEAN :
        /\ a = (JobOf[m] # NULL /\ record[WorkOf[JobOf[m]]] # NULL)
        /\ b = (JobOf[m] # NULL /\ Withdrawn(WorkOf[JobOf[m]]))
  OBVIOUS
<1>3. run' = [run EXCEPT ![c] = [phase |-> "loading", msg |-> m, fit |-> FALSE, outcome |-> NULL,
                                 answered |-> a, withdrawn |-> b]]
  BY <1>2 DEF Receive
<1>4. [phase |-> "loading", msg |-> m, fit |-> FALSE, outcome |-> NULL,
       answered |-> a, withdrawn |-> b] \in Run
  BY <1>2 DEF Run, Phase
<1>5. run' \in [Consumers -> Run] /\ \A d \in Consumers : d # c => run'[d] = run[d]
  BY <1>3, <1>4 DEF IInv, TypeOK
<1>6. TypeOK'
  BY <1>1, <1>5 DEF Receive, IInv, TypeOK, authority, answers
<1>7. Progress
  BY DEF Receive, Progress, authority, answers, IInv, TypeOK, Withdrawn
<1>8. RunOK(c)'
  <2>1. run'[c] = [phase |-> "loading", msg |-> m, fit |-> FALSE, outcome |-> NULL,
                   answered |-> a, withdrawn |-> b]
    BY <1>3 DEF IInv, TypeOK
  <2>2. /\ run'[c].phase = "loading" /\ run'[c].msg = m
        /\ run'[c].answered = a /\ run'[c].withdrawn = b
    BY <2>1
  <2>3. JobFor(c)' = JobOf[m] /\ WorkFor(c)' = WorkOf[JobOf[m]]
    BY <2>2 DEF JobFor, WorkFor
  <2>4. JobFor(c)' # NULL /\ run'[c].answered => record'[WorkFor(c)'] # NULL
    BY <1>2, <2>2, <2>3 DEF Receive, answers
  <2>5. JobFor(c)' # NULL /\ run'[c].withdrawn => Withdrawn(WorkFor(c))'
    BY <1>2, <2>2, <2>3 DEF Receive, authority, Withdrawn
  <2> QED
    BY <2>2, <2>4, <2>5 DEF RunOK
<1> QED
  BY <1>1, <1>5, <1>6, <1>7, <1>8, DeliveryStep DEF Receive, answers

(* A consumer that lets go of its message without completing it. *)
LEMMA ReleaseStep ==
    ASSUME IInv, NEW c \in Consumers, run[c].phase # "idle",
           NEW s \in {"queued", "dead"},
           msg' = [msg EXCEPT ![run[c].msg] = Put(@, s)],
           run' = [run EXCEPT ![c] = Idle],
           UNCHANGED <<authority, dispatched, answers, concluded, calls>>,
           faults' \in Nat
    PROVE  IInv'
<1>1. run[c].msg \in Messages
  BY DEF IInv, RunOK
<1>2. /\ msg' \in [Messages -> Message]
      /\ \A k \in Messages : msg'[k].status = "done" => msg[k].status = "done"
  <2>1. msg \in [Messages -> Message] /\ msg[run[c].msg].count \in Nat
    BY <1>1 DEF IInv, TypeOK, Message
  <2>2. PICK k \in Messages : k = run[c].msg
    BY <1>1
  <2>3. [status |-> s, count |-> msg[k].count] \in Message
    BY <2>1, <2>2 DEF Message
  <2>4. msg' = [msg EXCEPT ![k] = [status |-> s, count |-> msg[k].count]]
    BY <2>1, <2>2 DEF Put
  <2>5. msg' \in [Messages -> Message]
    BY <2>1, <2>3, <2>4
  <2>6. msg'[k].status = s /\ \A i \in Messages : i # k => msg'[i] = msg[i]
    BY <2>1, <2>4
  <2> QED
    BY <2>5, <2>6
<1>3. Idle \in Run
  BY DEF Idle, Run, Phase
<1>4. run' \in [Consumers -> Run] /\ \A d \in Consumers : d # c => run'[d] = run[d]
  BY <1>3 DEF IInv, TypeOK
<1>5. TypeOK'
  BY <1>2, <1>4 DEF IInv, TypeOK, authority, answers
<1>6. Progress
  BY DEF Progress, authority, answers, IInv, TypeOK, Withdrawn
<1>7. RunOK(c)'
  <2>1. run'[c].phase = "idle"
    BY DEF IInv, TypeOK, Idle
  <2> QED
    BY <2>1 DEF RunOK
<1> QED
  BY <1>2, <1>4, <1>5, <1>6, <1>7, DeliveryStep DEF answers

LEMMA AbandonStep ==
    ASSUME IInv, NEW c \in Consumers, Reject(c) \/ NoCredential(c) \/ Fail(c)
    PROVE  IInv'
<1>1. faults \in Nat
  BY DEF IInv, TypeOK
<1>2. CASE Reject(c)
  BY <1>1, <1>2, ReleaseStep DEF Reject
<1>3. CASE NoCredential(c) \/ Fail(c)
  <2>1. run[c].phase # "idle" /\ faults' \in Nat /\ Abandon(c)
        /\ UNCHANGED <<authority, dispatched, answers, concluded, calls>>
    BY <1>1, <1>3 DEF NoCredential, Fail
  <2>2. PICK s \in {"queued", "dead"} :
          s = IF DeliveriesExhausted(msg[run[c].msg].count) THEN "dead" ELSE "queued"
    OBVIOUS
  <2>3. run[c].msg \in Messages /\ msg \in [Messages -> Message]
    BY <2>1 DEF IInv, RunOK, TypeOK
  <2>4. msg' = [msg EXCEPT ![run[c].msg] = Put(@, s)] /\ run' = [run EXCEPT ![c] = Idle]
    BY <2>1, <2>2, <2>3 DEF Abandon
  <2> QED
    BY <2>1, <2>4, ReleaseStep
<1> QED
  BY <1>2, <1>3

(* A consumer that goes on to another phase, touching nothing else but what   *)
(* it may call.                                                               *)
LEMMA PhaseStep ==
    ASSUME IInv, NEW c \in Consumers, run[c].phase \notin {"idle", "loading"},
           NEW r \in Run, run' = [run EXCEPT ![c] = r], r.msg = run[c].msg,
           r.answered = run[c].answered, r.withdrawn = run[c].withdrawn,
           r.phase \notin {"idle", "loading", "loaded"},
           r.phase \in {"checking", "keying", "invoking"} => ~r.withdrawn,
           r.phase = "invoking" /\ r.answered => WorkFor(c) \notin Keyed,
           r.phase = "recording" => r.outcome # NULL,
           r.phase = "recording" /\ r.outcome = "succeeded" => calls'[WorkFor(c)] > 0,
           r.phase = "settling" => record[WorkFor(c)] # NULL,
           UNCHANGED <<authority, dispatched, msg, answers, concluded, faults>>,
           calls' \in [Works -> Nat],
           \A w \in Works : calls[w] > 0 => calls'[w] > 0
    PROVE  IInv'
<1>1. run' \in [Consumers -> Run] /\ \A d \in Consumers : d # c => run'[d] = run[d]
  BY DEF IInv, TypeOK
<1>2. TypeOK'
  BY <1>1 DEF IInv, TypeOK, authority, answers
<1>3. Progress
  BY DEF Progress, authority, answers, IInv, TypeOK, Withdrawn
<1>4. RunOK(c)'
  <2>1. run'[c] = r
    BY DEF IInv, TypeOK
  <2>2. JobFor(c)' = JobFor(c) /\ WorkFor(c)' = WorkFor(c)
    BY <2>1 DEF JobFor, WorkFor
  <2>3. /\ run[c].msg \in Messages
        /\ JobFor(c) \in dispatched
        /\ JobFor(c) # NULL
        /\ WorkFor(c) \in Works
    BY DeliveryHasWork
  <2>4. run[c].answered => record[WorkFor(c)] # NULL
    BY <2>3 DEF IInv, RunOK
  <2>5. run[c].withdrawn => Withdrawn(WorkFor(c))
    BY <2>3 DEF IInv, RunOK
  <2>6. r.withdrawn => Withdrawn(WorkFor(c))'
    BY <2>2, <2>3, <2>5, <1>3 DEF Progress, Withdrawn, authority
  <2>7. dispatched' = dispatched /\ record' = record
    BY DEF answers
  <2> QED
    BY <2>1, <2>2, <2>3, <2>4, <2>6, <2>7 DEF RunOK
<1>5. \A m \in Messages : msg'[m].status = "done" => msg[m].status = "done"
  OBVIOUS
<1> QED
  BY <1>1, <1>2, <1>3, <1>4, <1>5, DeliveryStep DEF answers

LEMMA LoadStep ==
    ASSUME IInv, NEW c \in Consumers, Load(c)
    PROVE  IInv'
<1>1. RunOK(c) /\ run[c] \in Run /\ run \in [Consumers -> Run]
  BY DEF IInv, TypeOK
<1>2. /\ run[c].msg \in Messages
      /\ JobFor(c) \in dispatched
      /\ JobFor(c) # NULL
      /\ WorkFor(c) \in Works
  BY <1>1, SeamAssumption, SeamNull DEF RunOK, Load, WorkFor, IInv, TypeOK
<1>3. PICK f \in BOOLEAN : f = Fit(WorkFor(c))
  BY DEF Fit
<1>4. Loaded(run[c], f) \in Run
  BY <1>1 DEF Loaded, Run, Phase
<1>5. run' = [run EXCEPT ![c] = Loaded(run[c], f)]
  BY <1>1, <1>3 DEF Load
<1>6. run' \in [Consumers -> Run] /\ \A d \in Consumers : d # c => run'[d] = run[d]
  BY <1>1, <1>4, <1>5
<1>7. TypeOK'
  BY <1>6 DEF Load, IInv, TypeOK, authority, answers
<1>8. Progress
  BY DEF Load, Progress, authority, answers, IInv, TypeOK, Withdrawn
<1>9. RunOK(c)'
  <2>1. run'[c] = Loaded(run[c], f)
    BY <1>1, <1>5
  <2>2. /\ run'[c].phase = "loaded" /\ run'[c].msg = run[c].msg /\ run'[c].fit = f
        /\ run'[c].answered = run[c].answered /\ run'[c].withdrawn = run[c].withdrawn
    BY <2>1 DEF Loaded
  <2>3. JobFor(c)' = JobFor(c) /\ WorkFor(c)' = WorkFor(c)
    BY <2>2 DEF JobFor, WorkFor
  <2>4. (run[c].answered => record[WorkFor(c)] # NULL) /\ (run[c].withdrawn => Withdrawn(WorkFor(c)))
    BY <1>1, <1>2 DEF RunOK, Load
  <2>5. Withdrawn(WorkFor(c)) /\ f => clock >= Window
    BY <1>3 DEF Withdrawn, Fit
  <2>6. run[c].withdrawn => Withdrawn(WorkFor(c))'
    BY <1>2, <1>8, <2>3, <2>4 DEF Withdrawn, Load, authority
  <2>7. dispatched' = dispatched /\ record' = record /\ clock' = clock
    BY DEF Load, answers, authority
  <2> QED
    BY <1>2, <2>2, <2>3, <2>4, <2>5, <2>6, <2>7 DEF RunOK
<1>10. \A m \in Messages : msg'[m].status = "done" => msg[m].status = "done"
  BY DEF Load
<1> QED
  BY <1>6, <1>7, <1>8, <1>9, <1>10, DeliveryStep DEF Load, answers

(* The checks and the call.  What the delivery passes on is what PhaseStep asks. *)
LEMMA CheckStep ==
    ASSUME IInv, NEW c \in Consumers,
           CheckAuthority(c) \/ Refuse(c) \/ Permit(c) \/ CheckKey(c)
    PROVE  IInv'
<1>1. /\ run \in [Consumers -> Run] /\ run[c] \in Run
      /\ calls' = calls /\ calls \in [Works -> Nat]
      /\ clock \in Nat
      /\ RunOK(c)
  BY DEF IInv, TypeOK, CheckAuthority, Refuse, Permit, CheckKey
<1>2. run[c].phase \notin {"idle", "loading"}
  BY DEF CheckAuthority, Refuse, Permit, CheckKey
<1>3. UNCHANGED <<authority, dispatched, msg, answers, concluded, faults>>
  BY DEF CheckAuthority, Refuse, Permit, CheckKey
<1>4. CASE CheckAuthority(c)
  <2>1. CASE run[c].fit /\ clock < Window
    <3>1. PICK r \in Run : r = At(run[c], "checking")
      BY <1>1 DEF At, Run, Phase
    <3>2. run' = [run EXCEPT ![c] = r]
      BY <1>1, <1>4, <2>1, <3>1 DEF CheckAuthority
    <3>3. /\ r.phase = "checking" /\ r.msg = run[c].msg
          /\ r.answered = run[c].answered /\ r.withdrawn = run[c].withdrawn
      BY <3>1 DEF At
    <3>4. ~r.withdrawn
      BY <1>1, <1>4, <2>1, <3>3, SeamBounds DEF RunOK, CheckAuthority
    <3> QED
      BY <1>1, <1>2, <1>3, <3>2, <3>3, <3>4, PhaseStep
  <2>2. CASE ~(run[c].fit /\ clock < Window)
    <3>1. PICK r \in Run : r = ToRecord(run[c], "refused_window")
      BY <1>1 DEF ToRecord, Run, Phase, Outcomes, Refusals
    <3>2. run' = [run EXCEPT ![c] = r]
      BY <1>1, <1>4, <2>2, <3>1 DEF CheckAuthority
    <3>3. /\ r.phase = "recording" /\ r.msg = run[c].msg /\ r.outcome = "refused_window"
          /\ r.answered = run[c].answered /\ r.withdrawn = run[c].withdrawn
      BY <3>1 DEF ToRecord
    <3>4. r.outcome # NULL
      BY <3>3, SeamNull DEF Outcomes, Refusals
    <3> QED
      BY <1>1, <1>2, <1>3, <3>2, <3>3, <3>4, PhaseStep
  <2> QED
    BY <2>1, <2>2
<1>5. CASE Refuse(c)
  <2>1. RefusalOf(WorkFor(c)) \in Refusals /\ RefusalOf(WorkFor(c)) # NULL
    BY <1>5 DEF Refuse, RefusalOf, Refusals
  <2>2. PICK r \in Run : r = ToRecord(run[c], RefusalOf(WorkFor(c)))
    BY <1>1, <2>1 DEF ToRecord, Run, Phase, Outcomes
  <2>3. run' = [run EXCEPT ![c] = r]
    BY <1>1, <1>5, <2>2 DEF Refuse
  <2>4. /\ r.phase = "recording" /\ r.msg = run[c].msg /\ r.outcome = RefusalOf(WorkFor(c))
        /\ r.answered = run[c].answered /\ r.withdrawn = run[c].withdrawn
    BY <2>2 DEF ToRecord
  <2>5. r.outcome # NULL /\ r.outcome # "succeeded"
    BY <2>1, <2>4 DEF Refusals
  <2> QED
    BY <1>1, <1>2, <1>3, <2>3, <2>4, <2>5, PhaseStep
<1>6. CASE Permit(c)
  <2>1. PICK p \in {"keying", "invoking"} : p = IF WorkFor(c) \in Keyed THEN "keying" ELSE "invoking"
    OBVIOUS
  <2>2. PICK r \in Run : r = At(run[c], p)
    BY <1>1 DEF At, Run, Phase
  <2>3. run' = [run EXCEPT ![c] = r]
    BY <1>1, <1>6, <2>1, <2>2 DEF Permit
  <2>4. /\ r.phase = p /\ r.msg = run[c].msg
        /\ r.answered = run[c].answered /\ r.withdrawn = run[c].withdrawn
    BY <2>2 DEF At
  <2>5. ~r.withdrawn
    BY <1>1, <1>6, <2>4 DEF RunOK, Permit
  <2> QED
    BY <1>1, <1>2, <1>3, <2>1, <2>3, <2>4, <2>5, PhaseStep
<1>7. CASE CheckKey(c)
  <2>1. PICK p \in {"settling", "invoking"} : p = IF KeyTaken(WorkFor(c)) THEN "settling" ELSE "invoking"
    OBVIOUS
  <2>2. PICK r \in Run : r = At(run[c], p)
    BY <1>1 DEF At, Run, Phase
  <2>3. run' = [run EXCEPT ![c] = r]
    BY <1>1, <1>7, <2>1, <2>2 DEF CheckKey
  <2>4. /\ r.phase = p /\ r.msg = run[c].msg
        /\ r.answered = run[c].answered /\ r.withdrawn = run[c].withdrawn
    BY <2>2 DEF At
  <2>5. ~r.withdrawn
    BY <1>1, <1>7, <2>4 DEF RunOK, CheckKey
  <2>6. run[c].answered => record[WorkFor(c)] # NULL
    BY <1>1, <1>2, DeliveryHasWork DEF RunOK
  <2>7. r.phase = "settling" => record[WorkFor(c)] # NULL
    BY <2>1, <2>4 DEF KeyTaken
  <2>8. r.phase = "invoking" => ~r.answered
    BY <2>1, <2>4, <2>6 DEF KeyTaken
  <2> QED
    BY <1>1, <1>2, <1>3, <2>1, <2>3, <2>4, <2>5, <2>7, <2>8, PhaseStep
<1> QED
  BY <1>4, <1>5, <1>6, <1>7

LEMMA InvokeStep ==
    ASSUME IInv, NEW c \in Consumers, Invoke(c)
    PROVE  IInv'
<1>1. /\ run \in [Consumers -> Run] /\ run[c] \in Run
      /\ calls \in [Works -> Nat]
      /\ run[c].phase = "invoking"
      /\ UNCHANGED <<authority, dispatched, msg, answers, concluded, faults>>
  BY DEF IInv, TypeOK, Invoke
<1>2. WorkFor(c) \in Works
  BY <1>1, DeliveryHasWork
<1>3. PICK outcome \in {"succeeded", "failed", "unreachable"}, landed \in {0, 1} :
         /\ outcome = "succeeded" => landed = 1
         /\ calls' = [calls EXCEPT ![WorkFor(c)] = @ + landed]
         /\ run' = [run EXCEPT ![c] = ToRecord(@, outcome)]
  BY DEF Invoke
<1>4. PICK r \in Run : r = ToRecord(run[c], outcome)
  BY <1>1 DEF ToRecord, Run, Phase, Outcomes
<1>5. run' = [run EXCEPT ![c] = r]
  BY <1>1, <1>3, <1>4
<1>6. /\ r.phase = "recording" /\ r.msg = run[c].msg /\ r.outcome = outcome
      /\ r.answered = run[c].answered /\ r.withdrawn = run[c].withdrawn
  BY <1>4 DEF ToRecord
<1>7. PICK w \in Works : w = WorkFor(c)
  BY <1>2
<1>8. calls' = [calls EXCEPT ![w] = calls[w] + landed] /\ calls[w] \in Nat
  BY <1>1, <1>3, <1>7
<1>9. /\ calls' \in [Works -> Nat]
      /\ \A v \in Works : calls[v] > 0 => calls'[v] > 0
      /\ outcome = "succeeded" => calls'[w] > 0
  <2>1. calls[w] + landed \in Nat
    BY <1>3, <1>8
  <2>2. calls'[w] = calls[w] + landed /\ \A v \in Works : v # w => calls'[v] = calls[v]
    BY <1>1, <1>8
  <2>3. calls' \in [Works -> Nat]
    BY <1>1, <1>8, <2>1
  <2>4. outcome = "succeeded" => calls'[w] > 0
    BY <1>3, <1>8, <2>2
  <2>5. calls[w] > 0 => calls'[w] > 0
    BY <1>3, <1>8, <2>2
  <2> QED
    BY <2>2, <2>3, <2>4, <2>5
<1>10. r.outcome # NULL
  BY <1>6, SeamNull DEF Outcomes
<1> QED
  BY <1>1, <1>5, <1>6, <1>7, <1>9, <1>10, PhaseStep

LEMMA RecordStep ==
    ASSUME IInv, NEW c \in Consumers, Record(c)
    PROVE  IInv'
<1>1. /\ run \in [Consumers -> Run] /\ run[c] \in Run
      /\ record \in [Works -> Outcomes \cup {NULL}]
      /\ result \in [Jobs -> {"executed", "failed", NULL}]
      /\ run[c].phase = "recording" /\ RunOK(c)
      /\ UNCHANGED <<authority, dispatched, msg, concluded, calls, faults>>
  BY DEF IInv, TypeOK, Record
<1>2. /\ run[c].msg \in Messages
      /\ JobFor(c) \in dispatched /\ JobFor(c) \in Jobs /\ JobFor(c) # NULL
      /\ WorkFor(c) \in Works
  BY <1>1, DeliveryHasWork
<1>3. PICK w \in Works, j \in Jobs, o \in Outcomes :
        w = WorkFor(c) /\ j = JobFor(c) /\ w = WorkOf[j] /\ o = run[c].outcome
  <2>1. run[c].outcome \in Outcomes
    BY <1>1 DEF RunOK, Run
  <2> QED
    BY <1>2, <2>1 DEF WorkFor
<1>4. o # NULL /\ (o = "succeeded" => calls[w] > 0)
  BY <1>1, <1>3 DEF RunOK
<1>5. \/ /\ record[w] = NULL
         /\ record' = [record EXCEPT ![w] = o]
         /\ result' = [result EXCEPT ![j] = ResultStatus(o)]
         /\ announced' = announced \cup {j}
      \/ record[w] # NULL /\ record' = record /\ result' = result /\ announced' = announced
  BY <1>3 DEF Record, InsertWins, answers
<1>6. ResultStatus(o) \in {"executed", "failed"}
  BY DEF ResultStatus
<1>7. /\ record' \in [Works -> Outcomes \cup {NULL}]
      /\ result' \in [Jobs -> {"executed", "failed", NULL}]
      /\ announced' \subseteq Jobs
  BY <1>1, <1>5, <1>6 DEF IInv, TypeOK
<1>8. record'[w] # NULL /\ \A v \in Works : record[v] # NULL => record'[v] # NULL
  BY <1>1, <1>4, <1>5
<1>9. PICK r \in Run : r = At(run[c], "settling")
  BY <1>1 DEF At, Run, Phase
<1>10. run' = [run EXCEPT ![c] = r]
  BY <1>1, <1>9 DEF Record
<1>11. run' \in [Consumers -> Run] /\ run'[c] = r /\ \A d \in Consumers : d # c => run'[d] = run[d]
  BY <1>1, <1>10
<1>12. TypeOK'
  BY <1>1, <1>7, <1>11 DEF IInv, TypeOK, authority
<1>13. Progress
  BY <1>1, <1>8 DEF Progress, authority, IInv, TypeOK, Withdrawn
<1>14. RunOK(c)'
  <2>1. /\ r.phase = "settling" /\ r.msg = run[c].msg
        /\ r.answered = run[c].answered /\ r.withdrawn = run[c].withdrawn
    BY <1>9 DEF At
  <2>2. JobFor(c)' = JobFor(c) /\ WorkFor(c)' = WorkFor(c)
    BY <1>11, <2>1 DEF JobFor, WorkFor
  <2>3. r.withdrawn => Withdrawn(WorkFor(c))'
    BY <1>1, <1>2, <2>1, <2>2 DEF RunOK, Withdrawn, authority
  <2> QED
    BY <1>1, <1>2, <1>3, <1>8, <1>11, <2>1, <2>2, <2>3 DEF RunOK
<1>15. ASSUME NEW d \in Consumers
       PROVE  RunOK(d)'
  <2>1. CASE d = c
    BY <1>14, <2>1
  <2>2. CASE d # c
    BY <1>11, <1>13, <2>2, RunKept DEF IInv
  <2> QED
    BY <2>1, <2>2
<1>16. ASSUME NEW k \in Jobs
       PROVE  AnswerOK(k)'
  <2>1. AnswerOK(k) /\ concluded' = concluded
    BY <1>1 DEF IInv
  <2>2. CASE result'[k] = result[k]
    BY <1>13, <2>1, <2>2, AnswerKept
  <2>3. CASE result'[k] # result[k]
    <3>1. k = j /\ record[w] = NULL /\ result'[k] = ResultStatus(o)
      BY <1>1, <1>5, <2>3
    <3>2. result[k] = NULL /\ concluded[k] = "pending"
      BY <1>3, <2>1, <3>1 DEF AnswerOK
    <3>3. result'[k] = "executed" => calls'[WorkOf[k]] > 0
      BY <1>1, <1>3, <1>4, <3>1 DEF ResultStatus
    <3> QED
      BY <1>3, <1>8, <2>1, <3>1, <3>2, <3>3 DEF AnswerOK
  <2> QED
    BY <2>2, <2>3
<1>17. HandledMeansAnswered'
  BY <1>1, <1>13, HandledKept DEF IInv
<1> QED
  BY <1>12, <1>15, <1>16, <1>17 DEF IInv

LEMMA SettleStep ==
    ASSUME IInv, NEW c \in Consumers, Settle(c)
    PROVE  IInv'
<1>1. /\ run \in [Consumers -> Run] /\ msg \in [Messages -> Message]
      /\ run[c].phase = "settling" /\ RunOK(c)
      /\ UNCHANGED <<authority, dispatched, answers, concluded, calls, faults>>
  BY DEF IInv, TypeOK, Settle
<1>2. PICK k \in Messages : k = run[c].msg
  BY <1>1, DeliveryHasWork
<1>3. JobOf[k] \in dispatched /\ record[WorkOf[JobOf[k]]] # NULL
  BY <1>1, <1>2 DEF RunOK, JobFor, WorkFor
<1>4. msg' = [msg EXCEPT ![k] = [status |-> "done", count |-> msg[k].count]] /\ msg[k].count \in Nat
  BY <1>1, <1>2 DEF Settle, Put, Message
<1>5. msg' \in [Messages -> Message] /\ \A i \in Messages : i # k => msg'[i] = msg[i]
  <2>1. [status |-> "done", count |-> msg[k].count] \in Message
    BY <1>4 DEF Message
  <2> QED
    BY <1>1, <1>4, <2>1
<1>6. Idle \in Run
  BY DEF Idle, Run, Phase
<1>7. run' \in [Consumers -> Run] /\ run'[c] = Idle /\ \A d \in Consumers : d # c => run'[d] = run[d]
  BY <1>1, <1>6 DEF Settle
<1>8. TypeOK'
  BY <1>1, <1>5, <1>7 DEF IInv, TypeOK, authority, answers
<1>9. Progress
  BY <1>1 DEF Progress, authority, answers, IInv, TypeOK, Withdrawn
<1>10. ASSUME NEW d \in Consumers
       PROVE  RunOK(d)'
  <2>1. CASE d = c
    BY <1>7, <2>1 DEF RunOK, Idle
  <2>2. CASE d # c
    BY <1>7, <1>9, <2>2, RunKept DEF IInv
  <2> QED
    BY <2>1, <2>2
<1>11. \A j \in Jobs : AnswerOK(j)'
  BY <1>1, <1>9, AnswerKept DEF IInv, answers
<1>12. HandledMeansAnswered'
  BY <1>1, <1>3, <1>5 DEF IInv, HandledMeansAnswered, answers
<1> QED
  BY <1>8, <1>10, <1>11, <1>12 DEF IInv

-----------------------------------------------------------------------------
(* The invariant is inductive. *)

LEMMA InitIInv ==
    ASSUME Init
    PROVE  IInv
<1>1. Idle \in Run /\ Idle.phase = "idle"
  BY DEF Idle, Run, Phase
<1>2. approval \in [Works -> ApprovalState]
  BY SeamAssumption DEF Init
<1>3. TypeOK
  BY <1>1, <1>2 DEF Init, TypeOK, Message, WorkItemState
<1>4. \A c \in Consumers : RunOK(c)
  BY <1>1 DEF Init, RunOK
<1>5. \A j \in Jobs : AnswerOK(j)
  BY SeamNull DEF Init, AnswerOK
<1>6. HandledMeansAnswered
  BY DEF Init, HandledMeansAnswered
<1> QED
  BY <1>3, <1>4, <1>5, <1>6 DEF IInv

LEMMA NextIInv ==
    ASSUME IInv, [Next]_vars
    PROVE  IInv'
<1>1. CASE UNCHANGED vars
  <2>1. TypeOK'
    BY <1>1 DEF IInv, TypeOK, vars
  <2>2. Progress
    BY <1>1 DEF vars, Progress, IInv, TypeOK, Withdrawn
  <2>3. UNCHANGED <<run, msg, result, concluded>>
    BY <1>1 DEF vars
  <2>4. \A c \in Consumers : RunOK(c)'
    BY <2>2, <2>3, RunKept DEF IInv
  <2>5. \A j \in Jobs : AnswerOK(j)'
    BY <2>2, <2>3, AnswerKept DEF IInv
  <2>6. HandledMeansAnswered'
    BY <2>2, <2>3, HandledKept DEF IInv
  <2> QED
    BY <2>1, <2>4, <2>5, <2>6 DEF IInv
<1>2. CASE Environment
  BY <1>2, EnvironmentStep
<1>3. ASSUME NEW j \in Jobs, Dispatch(j) \/ Conclude(j)
      PROVE  IInv'
  BY <1>3, RagCoreStep
<1>4. ASSUME NEW m \in Messages, Send(m) \/ ExpireMessage(m)
      PROVE  IInv'
  BY <1>4, BrokerStep
<1>5. ASSUME NEW c \in Consumers, ConsumerStep(c) \/ Fail(c)
      PROVE  IInv'
  BY <1>5, AbandonStep, LoadStep, CheckStep, InvokeStep, RecordStep, SettleStep DEF ConsumerStep
<1>6. ASSUME NEW c \in Consumers, NEW m \in Messages, Receive(c, m)
      PROVE  IInv'
  BY <1>6, ReceiveStep
<1> QED
  BY <1>1, <1>2, <1>3, <1>4, <1>5, <1>6 DEF Next

LEMMA IInvAlways == Spec => []IInv
<1>1. Init => IInv
  BY InitIInv
<1>2. IInv /\ [Next]_vars => IInv'
  BY NextIInv
<1> QED
  BY <1>1, <1>2, PTL DEF Spec

-----------------------------------------------------------------------------
(* Every variable keeps its type, in particular the answer column that        *)
(* record_result writes holds only what RagCore's worker can read.            *)
THEOREM TypeCorrect == Spec => []TypeOK
<1>1. IInv => TypeOK
  BY DEF IInv
<1> QED
  BY <1>1, IInvAlways, PTL

(* A delivery received after the work was answered does not call the          *)
(* connector again, for keyed bindings: executor.py step 4, under any         *)
(* interleaving of any number of consumers.                                   *)
THEOREM NoCallAfterAnswer == Spec => []AnsweredWorkIsNotCalledAgain
<1>1. IInv => AnsweredWorkIsNotCalledAgain
  BY DEF IInv, RunOK, AnsweredWorkIsNotCalledAgain
<1> QED
  BY <1>1, IInvAlways, PTL

(* Work withdrawn before its command was received does not reach the          *)
(* connector: is_executable_at, whose row and instant are read at different   *)
(* moments.                                                                   *)
THEOREM NoCallAfterWithdrawal == Spec => []WithdrawnWorkIsNotCalled
<1>1. IInv => WithdrawnWorkIsNotCalled
  BY DEF IInv, RunOK, WithdrawnWorkIsNotCalled
<1> QED
  BY <1>1, IInvAlways, PTL

(* A message the consumer completed belongs to a job with a durable answer,   *)
(* through crashes and redeliveries: CommandConsumer.handle.                  *)
THEOREM HandledIsAnswered == Spec => []HandledMeansAnswered
<1>1. IInv => HandledMeansAnswered
  BY DEF IInv
<1> QED
  BY <1>1, IInvAlways, PTL

(* RagCore concludes that the platform acted only when a call took effect:    *)
(* concluded_from reads what _record wrote, and _record what invoke returned. *)
THEOREM ActedIsCalled == Spec => []ActedMeansCalled
<1>1. IInv => ActedMeansCalled
  <2> SUFFICES ASSUME IInv, NEW j \in Jobs, concluded[j] = "acted_unverified"
               PROVE  calls[WorkOf[j]] > 0
    BY DEF ActedMeansCalled
  <2>1. AnswerOK(j)
    BY DEF IInv
  <2>2. result[j] # NULL /\ ConcludedFrom(result[j]) = "acted_unverified"
    BY <2>1 DEF AnswerOK
  <2>3. result[j] = "executed"
    BY <2>2 DEF ConcludedFrom
  <2> QED
    BY <2>1, <2>3 DEF AnswerOK
<1> QED
  BY <1>1, IInvAlways, PTL

-----------------------------------------------------------------------------
(* Refinement of JobAnswers. *)

(* Recording an answer is an abstract answer or nothing. *)
LEMMA RecordRefines ==
    ASSUME IInv, NEW c \in Consumers, Record(c)
    PROVE  [Answers!Next]_Answers!vars
<1>1. CASE UNCHANGED answers
  BY <1>1 DEF Record, answers, Answers!vars
<1>2. CASE InsertWins(WorkFor(c))
  <2>1. run[c].phase = "recording" /\ concluded' = concluded
    BY DEF Record
  <2>2. PICK j \in Jobs : j = JobFor(c)
    BY <2>1, DeliveryHasWork
  <2>3. result[j] = NULL
    BY <1>2, <2>2 DEF IInv, AnswerOK, InsertWins, WorkFor
  <2>4. PICK s \in {"executed", "failed"} : s = ResultStatus(run[c].outcome)
    BY DEF ResultStatus
  <2>5. result' = [result EXCEPT ![j] = s]
    BY <1>2, <2>2, <2>4 DEF Record
  <2>6. Answers!Answer(j)
    BY <2>1, <2>3, <2>5 DEF Answers!Answer
  <2> QED
    BY <2>6 DEF Answers!Next
<1> QED
  BY <1>1, <1>2 DEF Record

(* Concluding is an abstract conclusion, or draws the same one again. *)
LEMMA ConcludeRefines ==
    ASSUME IInv, NEW j \in Jobs, Conclude(j)
    PROVE  [Answers!Next]_Answers!vars
<1>1. /\ concluded \in [Jobs -> {"pending", "failed", "acted_unverified"}]
      /\ AnswerOK(j) /\ result' = result
      /\ concluded' = [concluded EXCEPT ![j] = ConcludedFrom(result[j])]
  BY DEF IInv, TypeOK, Conclude, answers
<1>2. CASE concluded[j] = ConcludedFrom(result[j])
  <2>1. concluded' = concluded
    BY <1>1, <1>2
  <2> QED
    BY <1>1, <2>1 DEF Answers!vars
<1>3. CASE concluded[j] # ConcludedFrom(result[j])
  <2>1. concluded[j] = "pending" /\ result[j] # NULL
    BY <1>1, <1>3 DEF AnswerOK, ConcludedFrom
  <2>2. Answers!Conclude(j)
    BY <1>1, <2>1 DEF Answers!Conclude, ConcludedFrom
  <2> QED
    BY <2>2 DEF Answers!Next
<1> QED
  BY <1>2, <1>3

(* A job is answered at most once and its answer and RagCore's conclusion     *)
(* never change: the seam implements JobAnswers, whatever is redelivered,     *)
(* raced, forged or lost.                                                     *)
THEOREM AnsweredOnce == Spec => AnswersAreFinal
<1>1. Init => Answers!Init
  BY DEF Init, Answers!Init
<1>2. ASSUME IInv, [Next]_vars
      PROVE  [Answers!Next]_Answers!vars
  <2>1. CASE UNCHANGED <<result, concluded>>
    BY <2>1 DEF Answers!vars
  <2>2. ASSUME NEW j \in Jobs, Conclude(j)
        PROVE  [Answers!Next]_Answers!vars
    BY <1>2, <2>2, ConcludeRefines
  <2>3. ASSUME NEW c \in Consumers, Record(c)
        PROVE  [Answers!Next]_Answers!vars
    BY <1>2, <2>3, RecordRefines
  <2>4. CASE Environment
    <3>1. UNCHANGED <<result, concluded>>
      BY <2>4 DEF Environment, Tick, Suspend, LoseFact, MoveWork, answers
    <3> QED
      BY <2>1, <3>1
  <2>5. ASSUME NEW j \in Jobs, Dispatch(j)
        PROVE  UNCHANGED <<result, concluded>>
    BY <2>5 DEF Dispatch, answers
  <2>6. ASSUME NEW m \in Messages, Send(m) \/ ExpireMessage(m)
        PROVE  UNCHANGED <<result, concluded>>
    BY <2>6 DEF Send, ExpireMessage, answers
  <2>7. ASSUME NEW c \in Consumers, (ConsumerStep(c) /\ ~Record(c)) \/ Fail(c)
        PROVE  UNCHANGED <<result, concluded>>
    BY <2>7 DEF ConsumerStep, Reject, Load, CheckAuthority, Refuse, Permit, CheckKey, Invoke,
                NoCredential, Settle, Fail, answers
  <2>8. ASSUME NEW c \in Consumers, NEW m \in Messages, Receive(c, m)
        PROVE  UNCHANGED <<result, concluded>>
    BY <2>8 DEF Receive, answers
  <2>9. CASE UNCHANGED vars
    <3>1. UNCHANGED <<result, concluded>>
      BY <2>9 DEF vars
    <3> QED
      BY <2>1, <3>1
  <2> QED
    BY <1>2, <2>1, <2>2, <2>3, <2>4, <2>5, <2>6, <2>7, <2>8, <2>9 DEF Next
<1> QED
  BY <1>1, <1>2, IInvAlways, PTL DEF Spec, AnswersAreFinal, Answers!Spec

=============================================================================
