----------------------------- MODULE EgressProofs ---------------------------
(***************************************************************************)
(* Theorems about Egress for every set of calls, every workload, every     *)
(* policy of attempts and every behaviour of the far side.                 *)
(***************************************************************************)
EXTENDS Egress, TLAPS

(* The session has a case in the system of record. *)
Held(session, held) == \E x \in held : x.session = session

(* A refused exchange is answered as such and stays so. *)
Refusal(e) == e.stage = "answered" /\ e.status \in Nat /\ Classify(e.status) = "permanent"

(* A caller's record k, given the exchanges ex of its attempts and the cases. *)
Progress(k, ex) ==
    /\ k.at \in {"idle", "screen_in"} =>
          k.attempt = 0 /\ \A n \in Attempts : ex[n].stage = "none"
    /\ k.at = "send" => k.attempt < MaxAttempts
    /\ k.at \in {"waiting", "trickling"} => k.attempt \in Attempts
    /\ k.at = "screen_out" => k.wrapped /\ k.purpose = "completion"
    /\ k.at # "done" => k.outcome = NULL

Screened(k, ex) ==
    k.wrapped =>
        /\ k.purpose \in {"completion", "embedding"}
        /\ k.at \in {"send", "waiting", "trickling", "screen_out"} => k.inbound = "permit"
        /\ \A n \in Attempts : ex[n].stage # "none" => k.inbound = "permit"
        /\ k.outcome = "succeeded" /\ k.purpose = "completion" => k.outbound = "permit"

Honest(k, ex, held) ==
    /\ k.purpose = "case" /\ k.outcome = "succeeded" => Held(k.session, held)
    /\ k.outcome = "refused" => k.attempt \in Attempts /\ Refusal(ex[k.attempt])
    /\ k.outcome = "budget" => /\ k.attempt \in Attempts
                               /\ ex[k.attempt].stage = "answered"
                               /\ ex[k.attempt].status = 403
    /\ k.purpose = "case" /\ k.outcome = "raised" => k.attempt = MaxAttempts

OwnEvidence(k) == \A d \in k.got : d.tenant = TenantOf[k.session]

CallerOK(k, ex, held) ==
    Progress(k, ex) /\ Screened(k, ex) /\ Honest(k, ex, held) /\ OwnEvidence(k)

(* The far side of one attempt e of a call k: only a case with an owner gets  *)
(* past the handler, success is said of a case that is held, and what has     *)
(* been posted is not answered as a refusal.                                  *)
ExchangeOK(k, e, held) ==
    /\ e.stage \in {"permitted", "posting"} => TenantOf[k.session] # NULL
    /\ e.body.succeeded => Held(k.session, held)
    /\ e.posted => e.stage = "answered" /\ e.status \in {200, 502}
    /\ e.stage = "answered" => e.status \in Nat

(* The system of record: one case to a key, the key of its session. *)
CasesOK(held) ==
    /\ \A x \in held : x.key = <<x.session, 0>> /\ x.tenant = TenantOf[x.session]
    /\ \A x, y \in held : x.key = y.key => x = y

CallsOK ==
    \A c \in Calls : call[c] # NULL =>
        /\ CallerOK(call[c], exchange[c], cases)
        /\ \A n \in Attempts : ExchangeOK(call[c], exchange[c][n], cases)

IInv == TypeOK /\ CasesOK(cases) /\ CallsOK

-----------------------------------------------------------------------------
(* The operators the model is built from. *)

LEMMA Classification ==
    /\ \A s \in Nat : Classify(s) \in {NULL, "transient", "permanent"}
    /\ Classify(200) # "permanent" /\ Classify(502) # "permanent"
    /\ Classify(404) # NULL /\ Classify(403) # NULL
  BY NullAssumption DEF Classify

LEMMA AttemptsAreBounded == MaxAttempts \in Nat /\ MaxAttempts >= 1
  BY PolicyAssumption DEF ValidPolicy

LEMMA SilentIsExchange ==
    ASSUME NEW s \in {"none", "arrived", "permitted", "posting", "answered"}
    PROVE  /\ Underway(s) \in Exchange
           /\ Underway(s).stage = s
           /\ Underway(s).body.succeeded = FALSE /\ Underway(s).posted = FALSE
  BY DEF Underway, Exchange, Body, NoBody

LEMMA PlannedIsCall ==
    ASSUME NEW w \in Workloads, NEW c \in Calls, w[c] # NULL
    PROVE  /\ Planned(w[c]) \in Call
           /\ CallerOK(Planned(w[c]), [n \in Attempts |-> Silent], {})
  <1> DEFINE r == w[c]
  <1>1. /\ r.purpose \in Purposes /\ r.session \in Sessions
        /\ r.claims \in Tenants \cup {NULL} /\ r.wrapped \in BOOLEAN
        /\ r.wrapped => r.purpose \in {"completion", "embedding"}
    BY WorkloadAssumption DEF Purposes
  <1> HIDE DEF r
  <1>2. Planned(r) \in Call
    BY <1>1, AttemptsAreBounded DEF Planned, Call
  <1>3. \A n \in Attempts : [m \in Attempts |-> Silent][n].stage = "none"
    BY SilentIsExchange DEF Silent
  <1>4. CallerOK(Planned(r), [n \in Attempts |-> Silent], {})
    BY <1>1, <1>3, NullAssumption
    DEF CallerOK, Progress, Screened, Honest, OwnEvidence, Planned, Outcomes
  <1> QED BY <1>2, <1>4 DEF r

LEMMA CallRecords ==
    ASSUME NEW k \in Call, NEW s \in ScreeningAnswers, NEW o \in Outcomes \cup {NULL},
           NEW at \in {"send", "done"}
    PROVE  /\ [k EXCEPT !.inbound = s, !.at = at, !.outcome = o] \in Call
           /\ [k EXCEPT !.outbound = s, !.at = at, !.outcome = o] \in Call
  BY DEF Call

LEMMA FinishedRecords ==
    ASSUME NEW k \in Call, NEW o \in Outcomes
    PROVE  [k EXCEPT !.at = "done", !.outcome = o] \in Call
  BY DEF Call

LEMMA SentRecords ==
    ASSUME NEW k \in Call, NEW n \in Attempts
    PROVE  [k EXCEPT !.at = "waiting", !.attempt = n] \in Call
  <1>1. n \in 0..MaxAttempts
    BY AttemptsAreBounded DEF Attempts
  <1> QED BY <1>1 DEF Call

LEMMA InitIInv == Init => IInv
  <1> SUFFICES ASSUME Init PROVE IInv
    OBVIOUS
  <1> PICK w \in Workloads :
          call = [c \in Calls |-> IF w[c] = NULL THEN NULL ELSE Planned(w[c])]
    BY DEF Init
  <1>1. call \in [Calls -> Call \cup {NULL}]
    BY PlannedIsCall
  <1>2. exchange \in [Calls -> [Attempts -> Exchange]]
    BY SilentIsExchange DEF Init, Silent
  <1>3. TypeOK
    BY <1>1, <1>2, DurableAssumption DEF TypeOK, Init
  <1>4. CasesOK(cases)
    BY DEF Init, CasesOK
  <1>5. CallsOK
    <2> SUFFICES ASSUME NEW c \in Calls, call[c] # NULL
                 PROVE  /\ CallerOK(call[c], exchange[c], cases)
                        /\ \A n \in Attempts : ExchangeOK(call[c], exchange[c][n], cases)
      BY DEF CallsOK
    <2>1. /\ call[c] = Planned(w[c]) /\ w[c] # NULL
          /\ exchange[c] = [n \in Attempts |-> Silent] /\ cases = {}
      BY DEF Init
    <2>2. CallerOK(call[c], exchange[c], cases)
      BY <2>1, PlannedIsCall
    <2>3. \A n \in Attempts : ExchangeOK(call[c], exchange[c][n], cases)
      <3> SUFFICES ASSUME NEW n \in Attempts
                   PROVE  ExchangeOK(call[c], Underway("none"), cases)
        BY <2>1 DEF Silent
      <3> QED BY SilentIsExchange DEF ExchangeOK
    <2> QED BY <2>2, <2>3
  <1> QED BY <1>3, <1>4, <1>5 DEF IInv

-----------------------------------------------------------------------------
(* A step of one caller: its record becomes k2, for the same call. *)
LEMMA CallerMoves ==
    ASSUME IInv, NEW c \in Calls, call[c] # NULL, NEW k2 \in Call,
           k2.session = call[c].session,
           CallerOK(k2, exchange[c], cases),
           Local(c, k2)
    PROVE  IInv'
  <1>1. /\ call' = [call EXCEPT ![c] = k2]
        /\ exchange' = exchange /\ cases' = cases
        /\ entitled' = entitled /\ capability' = capability /\ changes' = changes
    BY DEF Local
  <1>2. TypeOK'
    BY <1>1 DEF IInv, TypeOK
  <1>3. CasesOK(cases')
    BY <1>1 DEF IInv, CasesOK
  <1>4. CallsOK'
    <2> SUFFICES ASSUME NEW d \in Calls, call'[d] # NULL
                 PROVE  /\ CallerOK(call'[d], exchange'[d], cases')
                        /\ \A n \in Attempts : ExchangeOK(call'[d], exchange'[d][n], cases')
      BY DEF CallsOK
    <2>1. CASE d # c
      <3>1. call'[d] = call[d] /\ exchange'[d] = exchange[d] /\ cases' = cases
        BY <1>1, <2>1 DEF IInv, TypeOK
      <3> QED BY <3>1 DEF IInv, CallsOK
    <2>2. CASE d = c
      <3>1. call'[d] = k2 /\ exchange'[d] = exchange[c] /\ cases' = cases
        BY <1>1, <2>2 DEF IInv, TypeOK
      <3>2. \A n \in Attempts : ExchangeOK(call[c], exchange[c][n], cases)
        BY DEF IInv, CallsOK
      <3>3. \A n \in Attempts : ExchangeOK(k2, exchange[c][n], cases)
        BY <3>2 DEF ExchangeOK
      <3> QED BY <3>1, <3>3
    <2> QED BY <2>1, <2>2
  <1> QED BY <1>2, <1>3, <1>4 DEF IInv

(* A step of the far side: attempt n, which is neither unsent nor answered,   *)
(* becomes e, and the system of record keeps what it has.                     *)
LEMMA FarSideMoves ==
    ASSUME IInv, NEW c \in Calls, NEW n \in Attempts, call[c] # NULL,
           exchange[c][n].stage \notin {"none", "answered"},
           NEW e \in Exchange, e.stage # "none",
           cases \subseteq cases', cases' \subseteq Case, CasesOK(cases'),
           ExchangeOK(call[c], e, cases'),
           Becomes(c, n, e)
    PROVE  IInv'
  <1>1. /\ exchange' = [exchange EXCEPT ![c][n] = e] /\ call' = call
        /\ entitled' = entitled /\ capability' = capability /\ changes' = changes
    BY DEF Becomes
  <1>2. \A d \in Calls : exchange'[d] \in [Attempts -> Exchange]
    BY <1>1 DEF IInv, TypeOK
  <1>3. exchange' \in [Calls -> [Attempts -> Exchange]]
    BY <1>1, <1>2 DEF IInv, TypeOK
  <1>4. TypeOK'
    BY <1>1, <1>3 DEF IInv, TypeOK
  <1>5. CallsOK'
    <2> SUFFICES ASSUME NEW d \in Calls, call[d] # NULL
                 PROVE  /\ CallerOK(call[d], exchange'[d], cases')
                        /\ \A m \in Attempts : ExchangeOK(call[d], exchange'[d][m], cases')
      BY <1>1 DEF CallsOK
    <2>1. /\ CallerOK(call[d], exchange[d], cases)
          /\ \A m \in Attempts : ExchangeOK(call[d], exchange[d][m], cases)
      BY DEF IInv, CallsOK
    <2>2. \A s : Held(s, cases) => Held(s, cases')
      BY DEF Held
    <2>3. \A m \in Attempts : (\/ exchange'[d][m] = exchange[d][m]
                              \/ (d = c /\ m = n /\ exchange'[d][m] = e))
      BY <1>1 DEF IInv, TypeOK
    <2>4. \A m \in Attempts : ExchangeOK(call[d], exchange'[d][m], cases')
      BY <2>1, <2>2, <2>3 DEF ExchangeOK
    <2>5. \A m \in Attempts :
             /\ exchange'[d][m].stage # "none" => exchange[d][m].stage # "none"
             /\ exchange[d][m].stage = "answered" => exchange'[d][m] = exchange[d][m]
             /\ exchange[d][m].stage = "none" => exchange'[d][m].stage = "none"
      BY <2>3
    <2>6. Progress(call[d], exchange'[d]) /\ Screened(call[d], exchange'[d])
      BY <2>1, <2>5 DEF CallerOK, Progress, Screened
    <2>7. Honest(call[d], exchange'[d], cases')
      BY <2>1, <2>2, <2>5 DEF CallerOK, Honest, Refusal
    <2> QED BY <2>1, <2>4, <2>6, <2>7 DEF CallerOK
  <1> QED BY <1>4, <1>5 DEF IInv

-----------------------------------------------------------------------------
(* The steps of a caller. *)

LEMMA BeginKeeps ==
    ASSUME IInv, NEW c \in Calls, Begin(c)
    PROVE  IInv'
  <1> PICK k \in Call : k = call[c]
    BY DEF IInv, TypeOK, Begin, At
  <1> DEFINE k2 == [k EXCEPT !.at = IF k.wrapped THEN "screen_in" ELSE "send"]
  <1>1. CallerOK(k, exchange[c], cases) /\ k.at = "idle" /\ Local(c, k2) /\ call[c] # NULL
    BY DEF IInv, CallsOK, Begin, At
  <1>2. k2 \in Call /\ k2.session = k.session
    BY DEF Call
  <1>3. CallerOK(k2, exchange[c], cases)
    BY <1>1, AttemptsAreBounded
    DEF CallerOK, Progress, Screened, Honest, OwnEvidence, Call
  <1> HIDE DEF k2
  <1> QED BY <1>1, <1>2, <1>3, CallerMoves

LEMMA ScreenInKeeps ==
    ASSUME IInv, NEW c \in Calls, ScreenIn(c)
    PROVE  IInv'
  <1> PICK k \in Call : k = call[c]
    BY DEF IInv, TypeOK, ScreenIn, At
  <1>1. PICK answer \in ScreeningAnswers :
            Local(c, [k EXCEPT !.inbound = answer,
                               !.at = IF Enforced(answer) = "permit" THEN "send" ELSE "done",
                               !.outcome = IF Enforced(answer) = "permit" THEN NULL
                                           ELSE "blocked"])
    BY DEF ScreenIn
  <1> DEFINE k2 == [k EXCEPT !.inbound = answer,
                             !.at = IF Enforced(answer) = "permit" THEN "send" ELSE "done",
                             !.outcome = IF Enforced(answer) = "permit" THEN NULL
                                         ELSE "blocked"]
  <1>2. CallerOK(k, exchange[c], cases) /\ k.at = "screen_in" /\ call[c] # NULL
    BY DEF IInv, CallsOK, ScreenIn, At
  <1>3. k2 \in Call /\ k2.session = k.session
    <2>1. k2 \in Call
      BY CallRecords DEF Outcomes
    <2> QED BY <2>1 DEF Call
  <1>4. Enforced(answer) = "permit" <=> answer = "permit"
    BY DEF Enforced, ScreeningAnswers
  <1>5. CallerOK(k2, exchange[c], cases)
    <2>1. Progress(k2, exchange[c])
      BY <1>2, AttemptsAreBounded DEF CallerOK, Progress, Call
    <2>2. Screened(k2, exchange[c])
      BY <1>2, <1>4, NullAssumption DEF CallerOK, Progress, Screened, Call, Outcomes
    <2>3. Honest(k2, exchange[c], cases)
      BY <1>2, NullAssumption DEF Honest, Call, Outcomes
    <2>4. OwnEvidence(k2)
      BY <1>2 DEF CallerOK, OwnEvidence, Call
    <2> QED BY <2>1, <2>2, <2>3, <2>4 DEF CallerOK
  <1> HIDE DEF k2
  <1> QED BY <1>1, <1>2, <1>3, <1>5, CallerMoves DEF k2

LEMMA ScreenOutKeeps ==
    ASSUME IInv, NEW c \in Calls, ScreenOut(c)
    PROVE  IInv'
  <1> PICK k \in Call : k = call[c]
    BY DEF IInv, TypeOK, ScreenOut, At
  <1>1. PICK answer \in ScreeningAnswers :
            Local(c, [k EXCEPT !.outbound = answer, !.at = "done",
                               !.outcome = IF Enforced(answer) = "permit" THEN "succeeded"
                                           ELSE "blocked"])
    BY DEF ScreenOut
  <1> DEFINE k2 == [k EXCEPT !.outbound = answer, !.at = "done",
                             !.outcome = IF Enforced(answer) = "permit" THEN "succeeded"
                                         ELSE "blocked"]
  <1>2. CallerOK(k, exchange[c], cases) /\ k.at = "screen_out" /\ call[c] # NULL
    BY DEF IInv, CallsOK, ScreenOut, At
  <1>3. k2 \in Call /\ k2.session = k.session
    <2>1. k2 \in Call
      BY CallRecords DEF Outcomes
    <2> QED BY <2>1 DEF Call
  <1>4. Enforced(answer) = "permit" <=> answer = "permit"
    BY DEF Enforced, ScreeningAnswers
  <1>5. k.purpose = "completion"
    BY <1>2 DEF CallerOK, Progress
  <1>6. CallerOK(k2, exchange[c], cases)
    <2>1. Progress(k2, exchange[c])
      BY <1>2 DEF Progress, Call
    <2>2. Screened(k2, exchange[c])
      BY <1>2, <1>4, <1>5 DEF CallerOK, Screened, Call
    <2>3. Honest(k2, exchange[c], cases)
      BY <1>2, <1>5 DEF Honest, Call
    <2>4. OwnEvidence(k2)
      BY <1>2 DEF CallerOK, OwnEvidence, Call
    <2> QED BY <2>1, <2>2, <2>3, <2>4 DEF CallerOK
  <1> HIDE DEF k2
  <1> QED BY <1>1, <1>2, <1>3, <1>6, CallerMoves DEF k2

(* A call that was waiting ends with outcome o, which must be true. *)
LEMMA FinishKeeps ==
    ASSUME IInv, NEW c \in Calls, AwaitsAnswer(c), NEW o \in Outcomes,
           NEW k \in Call, k = call[c],
           k.purpose = "case" /\ o = "succeeded" => Held(k.session, cases),
           o = "refused" => Refusal(exchange[c][k.attempt]),
           o = "budget" => /\ exchange[c][k.attempt].stage = "answered"
                           /\ exchange[c][k.attempt].status = 403,
           k.purpose = "case" /\ o = "raised" => k.attempt = MaxAttempts,
           k.wrapped /\ k.purpose = "completion" => o # "succeeded",
           Finish(c, o)
    PROVE  IInv'
  <1> DEFINE k2 == [k EXCEPT !.at = "done", !.outcome = o]
  <1>1. /\ CallerOK(k, exchange[c], cases) /\ k.at \in {"waiting", "trickling"} /\ Local(c, k2)
        /\ call[c] # NULL
    BY DEF IInv, CallsOK, At, AwaitsAnswer, Finish
  <1>2. k2 \in Call /\ k2.session = k.session
    <2>1. k2 \in Call
      BY FinishedRecords
    <2> QED BY <2>1 DEF Call
  <1>3. CallerOK(k2, exchange[c], cases)
    <2>1. Progress(k2, exchange[c])
      BY <1>1 DEF Progress, Call
    <2>2. Screened(k2, exchange[c])
      BY <1>1 DEF CallerOK, Screened, Call
    <2>3. Honest(k2, exchange[c], cases)
      BY <1>1 DEF CallerOK, Progress, Honest, Call
    <2>4. OwnEvidence(k2)
      BY <1>1 DEF CallerOK, OwnEvidence, Call
    <2> QED BY <2>1, <2>2, <2>3, <2>4 DEF CallerOK
  <1> HIDE DEF k2
  <1> QED BY <1>1, <1>2, <1>3, CallerMoves

LEMMA AfterTransientKeeps ==
    ASSUME IInv, NEW c \in Calls, AwaitsAnswer(c), AfterTransient(c)
    PROVE  IInv'
  <1> PICK k \in Call : k = call[c]
    BY DEF IInv, TypeOK, At, AwaitsAnswer
  <1>1. /\ CallerOK(k, exchange[c], cases) /\ k.at \in {"waiting", "trickling"}
        /\ call[c] # NULL
    BY DEF IInv, CallsOK, At, AwaitsAnswer
  <1>2. CASE k.attempt < MaxAttempts
    <2> DEFINE k2 == [k EXCEPT !.at = "send"]
    <2>1. Local(c, k2)
      BY <1>2 DEF AfterTransient
    <2>2. k2 \in Call /\ k2.session = k.session
      BY DEF Call
    <2>3. CallerOK(k2, exchange[c], cases)
      BY <1>1, <1>2 DEF CallerOK, Progress, Screened, Honest, OwnEvidence, Call
    <2> HIDE DEF k2
    <2> QED BY <1>1, <2>1, <2>2, <2>3, CallerMoves
  <1>3. CASE ~(k.attempt < MaxAttempts)
    <2>1. Finish(c, "raised")
      BY <1>3 DEF AfterTransient
    <2>2. k.attempt = MaxAttempts
      BY <1>3, AttemptsAreBounded DEF Call
    <2> QED BY <2>1, <2>2, FinishKeeps DEF Outcomes
  <1> QED BY <1>2, <1>3

LEMMA TrickleKeeps ==
    ASSUME IInv, NEW c \in Calls, Trickle(c)
    PROVE  IInv'
  <1> PICK k \in Call : k = call[c]
    BY DEF IInv, TypeOK, Trickle, At
  <1> DEFINE k2 == [k EXCEPT !.at = "trickling"]
  <1>1. CallerOK(k, exchange[c], cases) /\ k.at = "waiting" /\ Local(c, k2) /\ call[c] # NULL
    BY DEF IInv, CallsOK, Trickle, At
  <1>2. k2 \in Call /\ k2.session = k.session
    BY DEF Call
  <1>3. CallerOK(k2, exchange[c], cases)
    BY <1>1 DEF CallerOK, Progress, Screened, Honest, OwnEvidence, Call
  <1> HIDE DEF k2
  <1> QED BY <1>1, <1>2, <1>3, CallerMoves

LEMMA ReadDocumentsKeeps ==
    ASSUME IInv, NEW c \in Calls, AwaitsAnswer(c), call[c].purpose = "search",
           NEW body \in Body, ReadDocuments(c, body)
    PROVE  IInv'
  <1> PICK k \in Call : k = call[c]
    BY DEF IInv, TypeOK, At, AwaitsAnswer
  <1>1. /\ CallerOK(k, exchange[c], cases) /\ k.at \in {"waiting", "trickling"}
        /\ call[c] # NULL
    BY DEF IInv, CallsOK, At, AwaitsAnswer
  <1>2. CASE ReadableEvidence(TenantOf[k.session], body.documents)
    <2> PICK docs \in SUBSET Documents : docs = body.documents
      BY DEF Body
    <2> DEFINE k2 == [k EXCEPT !.at = "done", !.outcome = "succeeded", !.got = docs]
    <2>1. Local(c, k2)
      BY <1>2 DEF ReadDocuments
    <2>2. k2 \in Call
      BY DEF Call, Outcomes
    <2>3. k2.session = k.session /\ ~k2.wrapped /\ k2.purpose = "search"
      BY <1>1 DEF Call, CallerOK, Screened
    <2>4. OwnEvidence(k2)
      BY <1>2 DEF OwnEvidence, ReadableEvidence, Call
    <2>5. CallerOK(k2, exchange[c], cases)
      BY <2>3, <2>4 DEF CallerOK, Progress, Screened, Honest, Call
    <2> HIDE DEF k2
    <2> QED BY <1>1, <2>1, <2>2, <2>3, <2>5, CallerMoves
  <1>3. CASE ~ReadableEvidence(TenantOf[k.session], body.documents)
    <2>1. Finish(c, "unreadable")
      BY <1>3 DEF ReadDocuments
    <2> QED BY <2>1, FinishKeeps DEF Outcomes
  <1> QED BY <1>2, <1>3

LEMMA ReadAnswerKeeps ==
    ASSUME IInv, NEW c \in Calls, AwaitsAnswer(c), NEW body \in Body,
           body.succeeded => Held(call[c].session, cases),
           ReadAnswer(c, body)
    PROVE  IInv'
  <1> PICK k \in Call : k = call[c]
    BY DEF IInv, TypeOK, At, AwaitsAnswer
  <1>1. /\ CallerOK(k, exchange[c], cases) /\ k.at \in {"waiting", "trickling"}
        /\ call[c] # NULL
    BY DEF IInv, CallsOK, At, AwaitsAnswer
  <1>2. CASE k.purpose = "case"
    <2>1. CASE body.succeeded
      <3>1. Finish(c, "succeeded")
        BY <1>2, <2>1 DEF ReadAnswer
      <3>2. ~k.wrapped
        BY <1>1, <1>2 DEF CallerOK, Screened
      <3> QED BY <2>1, <3>1, <3>2, FinishKeeps DEF Outcomes
    <2>2. CASE ~body.succeeded
      <3>1. Finish(c, "failed")
        BY <1>2, <2>2 DEF ReadAnswer
      <3> QED BY <3>1, FinishKeeps DEF Outcomes
    <2> QED BY <2>1, <2>2
  <1>3. CASE k.purpose = "search"
    <2>1. ReadDocuments(c, body)
      BY <1>3 DEF ReadAnswer
    <2> QED BY <1>3, <2>1, ReadDocumentsKeeps
  <1>4. CASE k.purpose \notin {"case", "search"}
    <2>1. CASE ~ReadableAnswer(k.purpose, body.value)
      <3>1. Finish(c, "unreadable")
        BY <1>4, <2>1 DEF ReadAnswer
      <3> QED BY <3>1, FinishKeeps DEF Outcomes
    <2>2. CASE ReadableAnswer(k.purpose, body.value) /\ k.wrapped /\ k.purpose = "completion"
      <3> DEFINE k2 == [k EXCEPT !.at = "screen_out"]
      <3>1. Local(c, k2)
        BY <1>4, <2>2 DEF ReadAnswer
      <3>2. k2 \in Call /\ k2.session = k.session
        BY DEF Call
      <3>3. CallerOK(k2, exchange[c], cases)
        BY <1>1, <2>2 DEF CallerOK, Progress, Screened, Honest, OwnEvidence, Call
      <3> HIDE DEF k2
      <3> QED BY <1>1, <3>1, <3>2, <3>3, CallerMoves
    <2>3. CASE ReadableAnswer(k.purpose, body.value) /\ ~(k.wrapped /\ k.purpose = "completion")
      <3>1. Finish(c, "succeeded")
        BY <1>4, <2>3 DEF ReadAnswer
      <3> QED BY <1>4, <2>3, <3>1, FinishKeeps DEF Outcomes
    <2> QED BY <2>1, <2>2, <2>3
  <1> QED BY <1>2, <1>3, <1>4

LEMMA ReceiveKeeps ==
    ASSUME IInv, NEW c \in Calls, Receive(c)
    PROVE  IInv'
  <1> PICK k \in Call : k = call[c]
    BY DEF IInv, TypeOK, Receive, At, AwaitsAnswer
  <1>1. /\ CallerOK(k, exchange[c], cases) /\ k.at \in {"waiting", "trickling"}
        /\ call[c] # NULL /\ AwaitsAnswer(c)
    BY DEF IInv, CallsOK, At, AwaitsAnswer, Receive
  <1>2. k.attempt \in Attempts
    BY <1>1 DEF CallerOK, Progress
  <1> PICK e \in Exchange : e = exchange[c][k.attempt]
    BY <1>2 DEF IInv, TypeOK
  <1>3. ExchangeOK(k, e, cases) /\ e.stage = "answered" /\ e.body \in Body
    BY <1>1, <1>2 DEF IInv, CallsOK, Receive, Exchange
  <1>4. e.status \in Nat
    BY <1>3 DEF ExchangeOK
  <1>5. CASE Classify(e.status) = NULL
    <2>1. ReadAnswer(c, e.body)
      BY <1>5, NullAssumption DEF Receive
    <2>2. e.body.succeeded => Held(k.session, cases)
      BY <1>3 DEF ExchangeOK
    <2> QED BY <1>1, <1>3, <2>1, <2>2, ReadAnswerKeeps
  <1>6. CASE Classify(e.status) = "permanent"
    <2> PICK o : o = PermanentOutcome(k.purpose, e.status)
      OBVIOUS
    <2>1. Finish(c, o)
      BY <1>6, NullAssumption DEF Receive
    <2>2. Refusal(e)
      BY <1>3, <1>4, <1>6 DEF Refusal
    <2>3. /\ o \in Outcomes /\ o # "succeeded"
          /\ o = "budget" => e.status = 403
          /\ k.purpose = "case" => o # "raised"
      BY DEF PermanentOutcome, Outcomes
    <2> QED BY <1>1, <1>3, <2>1, <2>2, <2>3, FinishKeeps
  <1>7. CASE Classify(e.status) = "transient"
    <2>1. AfterTransient(c)
      BY <1>7, NullAssumption DEF Receive
    <2> QED BY <1>1, <2>1, AfterTransientKeeps
  <1> QED BY <1>4, <1>5, <1>6, <1>7, Classification

LEMMA SendKeeps ==
    ASSUME IInv, NEW c \in Calls, Send(c)
    PROVE  IInv'
  <1> PICK k \in Call : k = call[c]
    BY DEF IInv, TypeOK, Send, At
  <1>1. CallerOK(k, exchange[c], cases) /\ k.at = "send" /\ call[c] # NULL
    BY DEF IInv, CallsOK, At, Send
  <1>2. k.attempt + 1 \in Attempts
    BY <1>1, AttemptsAreBounded DEF CallerOK, Progress, Attempts, Call
  <1> PICK n \in Attempts : n = k.attempt + 1
    BY <1>2
  <1> DEFINE k2 == [k EXCEPT !.at = "waiting", !.attempt = n]
  <1> PICK e \in Exchange : e = Underway("arrived")
    BY SilentIsExchange
  <1>3. /\ call' = [call EXCEPT ![c] = k2]
        /\ exchange' = [exchange EXCEPT ![c][n] = e]
        /\ entitled' = entitled /\ capability' = capability /\ cases' = cases
        /\ changes' = changes
    BY DEF Send
  <1>4. k2 \in Call
    BY SentRecords
  <1>5. k2.session = k.session /\ k2.at = "waiting" /\ k2.attempt = n
    BY DEF Call
  <1>6. \A d \in Calls : exchange'[d] \in [Attempts -> Exchange]
    BY <1>3 DEF IInv, TypeOK
  <1>7. exchange' \in [Calls -> [Attempts -> Exchange]]
    BY <1>3, <1>6 DEF IInv, TypeOK
  <1>8. TypeOK'
    BY <1>3, <1>4, <1>7 DEF IInv, TypeOK
  <1>9. CallsOK'
    <2> SUFFICES ASSUME NEW d \in Calls, call'[d] # NULL
                 PROVE  /\ CallerOK(call'[d], exchange'[d], cases')
                        /\ \A m \in Attempts : ExchangeOK(call'[d], exchange'[d][m], cases')
      BY DEF CallsOK
    <2>1. CASE d # c
      <3>1. call'[d] = call[d] /\ exchange'[d] = exchange[d]
        BY <1>3, <2>1 DEF IInv, TypeOK
      <3> QED BY <1>3, <3>1 DEF IInv, CallsOK
    <2>2. CASE d = c
      <3>1. call'[d] = k2
        BY <1>3, <2>2 DEF IInv, TypeOK
      <3>2. \A m \in Attempts : exchange'[d][m] = IF m = n THEN e ELSE exchange[c][m]
        BY <1>3, <2>2 DEF IInv, TypeOK
      <3>3. ExchangeOK(k2, e, cases)
        BY SilentIsExchange DEF ExchangeOK
      <3>4. \A m \in Attempts : ExchangeOK(k2, exchange[c][m], cases)
        BY <1>1, <1>5 DEF IInv, CallsOK, ExchangeOK
      <3>5. k2.wrapped => k2.inbound = "permit" /\ k2.purpose \in {"completion", "embedding"}
        BY <1>1 DEF CallerOK, Screened, Call
      <3>6. k2.outcome = NULL
        BY <1>1 DEF CallerOK, Progress, Call
      <3>7. Progress(k2, exchange'[d])
        BY <1>5, <3>6 DEF Progress
      <3>8. Screened(k2, exchange'[d])
        BY <3>5, <3>6, NullAssumption DEF Screened, Outcomes
      <3>9. Honest(k2, exchange'[d], cases)
        BY <3>6, NullAssumption DEF Honest, Outcomes
      <3>10. OwnEvidence(k2)
        BY <1>1 DEF CallerOK, OwnEvidence, Call
      <3> HIDE DEF k2
      <3> QED BY <1>3, <3>1, <3>2, <3>3, <3>4, <3>7, <3>8, <3>9, <3>10 DEF CallerOK
    <2> QED BY <2>1, <2>2
  <1>10. CasesOK(cases')
    BY <1>3 DEF IInv
  <1> QED BY <1>8, <1>9, <1>10 DEF IInv

-----------------------------------------------------------------------------
(* The steps of the far side. *)

LEMMA AnsweredIsExchange ==
    ASSUME NEW s \in Nat, NEW b \in Body, NEW p \in BOOLEAN
    PROVE  /\ Answered(s, b, p) \in Exchange
           /\ Answered(s, b, p).stage = "answered" /\ Answered(s, b, p).status = s
           /\ Answered(s, b, p).body = b /\ Answered(s, b, p).posted = p
  BY DEF Answered, Exchange

LEMMA Bodies == \A b \in BOOLEAN : /\ [NoBody EXCEPT !.succeeded = b] \in Body
                                  /\ [NoBody EXCEPT !.succeeded = b].succeeded = b
  BY DEF NoBody, Body

LEMMA NoBodyIsBody ==
    /\ NoBody \in Body /\ NoBody.succeeded = FALSE
    /\ 403 \in Nat /\ 404 \in Nat
  BY DEF NoBody, Body

(* An answer that claims nothing and posted nothing. *)
LEMMA ReplyKeeps ==
    ASSUME IInv, NEW c \in Calls, NEW n \in Attempts, call[c] # NULL,
           exchange[c][n].stage \notin {"none", "answered"},
           NEW s \in Nat, NEW b \in Body, b.succeeded = FALSE,
           Reply(c, n, s, b), cases' = cases
    PROVE  IInv'
  <1> PICK e \in Exchange : e = Answered(s, b, FALSE)
    BY AnsweredIsExchange
  <1>1. e.stage = "answered" /\ e.status = s /\ e.body = b /\ e.posted = FALSE
    BY AnsweredIsExchange
  <1>2. ExchangeOK(call[c], e, cases')
    BY <1>1 DEF ExchangeOK
  <1>3. Becomes(c, n, e)
    BY DEF Reply
  <1>4. cases \subseteq cases' /\ cases' \subseteq Case /\ CasesOK(cases')
    BY DEF IInv, TypeOK
  <1> QED BY <1>1, <1>2, <1>3, <1>4, FarSideMoves

(* An attempt of a call with an owner that moves on inside the handler. *)
LEMMA UnderwayKeeps ==
    ASSUME IInv, NEW c \in Calls, NEW n \in Attempts, call[c] # NULL,
           exchange[c][n].stage \notin {"none", "answered"},
           NEW s \in {"permitted", "posting"}, TenantOf[call[c].session] # NULL,
           Becomes(c, n, Underway(s)), cases' = cases
    PROVE  IInv'
  <1> PICK e \in Exchange : e = Underway(s)
    BY SilentIsExchange
  <1>1. e.stage = s /\ e.body.succeeded = FALSE /\ e.posted = FALSE
    BY SilentIsExchange
  <1>2. ExchangeOK(call[c], e, cases')
    BY <1>1 DEF ExchangeOK
  <1>3. cases \subseteq cases' /\ cases' \subseteq Case /\ CasesOK(cases')
    BY DEF IInv, TypeOK
  <1> QED BY <1>1, <1>2, <1>3, FarSideMoves

LEMMA AnswerKeeps ==
    ASSUME IInv, NEW c \in Calls, NEW n \in Attempts,
           NEW status \in Statuses, NEW body \in Body, Answer(c, n, status, body)
    PROVE  IInv'
  <1>1. /\ call[c] # NULL /\ exchange[c][n].stage = "arrived" /\ cases' = cases
        /\ ~body.succeeded /\ Reply(c, n, status, body)
    BY DEF Answer, Awaits
  <1>2. status \in Nat
    BY DurableAssumption
  <1>3. body.succeeded = FALSE
    BY <1>1 DEF Body
  <1> QED BY <1>1, <1>2, <1>3, ReplyKeeps

LEMMA EvaluateKeeps ==
    ASSUME IInv, NEW c \in Calls, NEW n \in Attempts, Evaluate(c, n)
    PROVE  IInv'
  <1>1. /\ call[c] # NULL /\ exchange[c][n].stage = "arrived" /\ cases' = cases
        /\ \/ Reply(c, n, 404, NoBody)
           \/ Reply(c, n, 403, NoBody)
           \/ TenantOf[call[c].session] # NULL /\ Becomes(c, n, Underway("permitted"))
    BY DEF Evaluate, Awaits
  <1>2. CASE Reply(c, n, 404, NoBody)
    BY <1>1, <1>2, NoBodyIsBody, ReplyKeeps
  <1>3. CASE Reply(c, n, 403, NoBody)
    BY <1>1, <1>3, NoBodyIsBody, ReplyKeeps
  <1>4. CASE TenantOf[call[c].session] # NULL /\ Becomes(c, n, Underway("permitted"))
    BY <1>1, <1>4, UnderwayKeeps
  <1> QED BY <1>1, <1>2, <1>3, <1>4

LEMMA ResolveKeeps ==
    ASSUME IInv, NEW c \in Calls, NEW n \in Attempts, Resolve(c, n)
    PROVE  IInv'
  <1>1. /\ call[c] # NULL /\ exchange[c][n].stage = "permitted" /\ cases' = cases
        /\ Becomes(c, n, Underway("posting")) \/ Reply(c, n, 403, NoBody)
    BY DEF Resolve, Awaits
  <1>2. TenantOf[call[c].session] # NULL
    BY <1>1 DEF IInv, CallsOK, ExchangeOK
  <1>3. CASE Reply(c, n, 403, NoBody)
    BY <1>1, <1>3, NoBodyIsBody, ReplyKeeps
  <1>4. CASE Becomes(c, n, Underway("posting"))
    BY <1>1, <1>2, <1>4, UnderwayKeeps
  <1> QED BY <1>1, <1>3, <1>4

(* Whatever attempt it comes from, a POST leaves the session with its one case. *)
LEMMA CommitKeeps ==
    ASSUME IInv, NEW c \in Calls, NEW n \in Attempts, NEW k \in Call, k = call[c],
           TenantOf[k.session] # NULL, NEW after, after = Commit(c, n)
    PROVE  /\ cases \subseteq after /\ after \subseteq Case
           /\ CasesOK(after) /\ Held(k.session, after)
  <1> PICK s \in Sessions : s = k.session
    BY DEF Call
  <1>1. CASE \E x \in cases : x.key = <<s, 0>>
    <2>1. after = cases
      BY <1>1 DEF Commit, AnchorKey
    <2> PICK x \in cases : x.key = <<s, 0>>
      BY <1>1
    <2>2. x.key = <<x.session, 0>>
      BY DEF IInv, CasesOK
    <2>3. x.session = s
      BY <2>2
    <2> QED BY <2>1, <2>3 DEF IInv, TypeOK, Held
  <1>2. CASE ~\E x \in cases : x.key = <<s, 0>>
    <2> PICK t \in Tenants : t = TenantOf[s]
      BY DurableAssumption
    <2>0. <<s, 0>> \in Sessions \X (0..MaxAttempts)
      BY AttemptsAreBounded
    <2> PICK x \in Case : x = [key |-> <<s, 0>>, session |-> s, tenant |-> t]
      BY <2>0 DEF Case
    <2>1. after = cases \cup {x}
      BY <1>2 DEF Commit, AnchorKey, StampedTenant
    <2>2. x.key = <<s, 0>> /\ x.session = s /\ x.tenant = TenantOf[s]
      OBVIOUS
    <2>3. CasesOK(after)
      BY <1>2, <2>1, <2>2 DEF IInv, CasesOK
    <2> QED BY <2>1, <2>2, <2>3 DEF IInv, TypeOK, Held
  <1> QED BY <1>1, <1>2

LEMMA PostKeeps ==
    ASSUME IInv, NEW c \in Calls, NEW n \in Attempts, Post(c, n)
    PROVE  IInv'
  <1>1. call[c] # NULL /\ exchange[c][n].stage = "posting"
    BY DEF Post, Awaits
  <1> PICK k \in Call : k = call[c]
    BY <1>1 DEF IInv, TypeOK
  <1>2. TenantOf[k.session] # NULL
    BY <1>1 DEF IInv, CallsOK, ExchangeOK
  <1>3. PICK effect \in BOOLEAN, status \in {200, 502}, succeeded \in BOOLEAN :
            /\ succeeded => effect /\ status = 200
            /\ cases' = IF effect THEN Commit(c, n) ELSE cases
            /\ Becomes(c, n, Answered(status, [NoBody EXCEPT !.succeeded = succeeded], effect))
    BY DEF Post
  <1> PICK b \in Body : b = [NoBody EXCEPT !.succeeded = succeeded]
    BY Bodies
  <1>4. b.succeeded = succeeded
    BY Bodies
  <1> PICK e \in Exchange : e = Answered(status, b, effect)
    BY AnsweredIsExchange
  <1>5. e.stage = "answered" /\ e.status = status /\ e.body = b /\ e.posted = effect
    BY AnsweredIsExchange
  <1>6. CASE effect
    <2>1. /\ cases \subseteq cases' /\ cases' \subseteq Case
          /\ CasesOK(cases') /\ Held(k.session, cases')
      BY <1>2, <1>3, <1>6, CommitKeeps
    <2>2. ExchangeOK(k, e, cases')
      BY <1>5, <2>1 DEF ExchangeOK
    <2> QED BY <1>1, <1>3, <1>5, <2>1, <2>2, FarSideMoves
  <1>7. CASE ~effect
    <2>1. cases \subseteq cases' /\ cases' \subseteq Case /\ CasesOK(cases')
      BY <1>3, <1>7 DEF IInv, TypeOK
    <2>2. ~e.body.succeeded /\ ~e.posted /\ e.status \in Nat
      <3>1. ~succeeded
        BY <1>3, <1>7
      <3>2. ~e.body.succeeded
        BY <1>4, <1>5, <3>1
      <3>3. ~e.posted
        BY <1>5, <1>7
      <3>4. e.status \in Nat
        BY <1>5
      <3> QED BY <3>2, <3>3, <3>4
    <2>3. ExchangeOK(k, e, cases')
      BY <1>5, <2>2 DEF ExchangeOK
    <2> QED BY <1>1, <1>3, <1>5, <2>1, <2>3, FarSideMoves
  <1> QED BY <1>6, <1>7

LEMMA EntitlementKeeps ==
    ASSUME IInv, NEW s \in Sessions, TenantOf[s] # NULL, SetEntitlement(TenantOf[s])
    PROVE  IInv'
  <1> PICK t \in Tenants : t = TenantOf[s]
    BY DurableAssumption
  <1>1. /\ entitled' \subseteq Tenants /\ changes' \in 0..MaxChanges
        /\ call' = call /\ exchange' = exchange /\ cases' = cases /\ capability' = capability
    BY DurableAssumption DEF SetEntitlement, IInv, TypeOK
  <1>2. TypeOK'
    BY <1>1 DEF IInv, TypeOK
  <1>3. CallsOK'
    BY <1>1 DEF IInv, CallsOK
  <1> QED BY <1>1, <1>2, <1>3 DEF IInv

-----------------------------------------------------------------------------
LEMMA StepIInv == IInv /\ [Next]_vars => IInv'
  <1> SUFFICES ASSUME IInv, [Next]_vars PROVE IInv'
    OBVIOUS
  <1>1. CASE UNCHANGED vars
    BY <1>1 DEF IInv, TypeOK, CallsOK, vars
  <1>2. ASSUME NEW c \in Calls, Begin(c) \/ ScreenIn(c) \/ ScreenOut(c) \/ Trickle(c)
        PROVE  IInv'
    BY <1>2, BeginKeeps, ScreenInKeeps, ScreenOutKeeps, TrickleKeeps
  <1>3. ASSUME NEW c \in Calls, CallerStep(c)
        PROVE  IInv'
    <2>1. CASE TimeOut(c)
      BY <2>1, AfterTransientKeeps DEF TimeOut
    <2> QED BY <1>3, <2>1, SendKeeps, ReceiveKeeps DEF CallerStep
  <1>4. ASSUME NEW c \in Calls, NEW n \in Attempts, FarSide(c, n)
        PROVE  IInv'
    BY <1>4, AnswerKeeps, EvaluateKeeps, ResolveKeeps, PostKeeps DEF FarSide
  <1>5. ASSUME NEW s \in Sessions, TenantOf[s] # NULL, SetEntitlement(TenantOf[s])
        PROVE  IInv'
    BY <1>5, EntitlementKeeps
  <1> QED BY <1>1, <1>2, <1>3, <1>4, <1>5 DEF Next

LEMMA AlwaysIInv == Spec => []IInv
  <1>1. Init => IInv
    BY InitIInv
  <1>2. IInv /\ [Next]_vars => IInv'
    BY StepIInv
  <1> QED BY <1>1, <1>2, PTL DEF Spec

(* Callers, exchanges, entitlements and cases keep their types, and no call   *)
(* makes more attempts than its policy allows (ResilientHttpCaller.send).     *)
THEOREM TypeCorrect == Spec => []TypeOK
  <1>1. IInv => TypeOK
    BY DEF IInv
  <1> QED BY <1>1, AlwaysIInv, PTL

(* Whatever number of callers and of attempts, however late each takes        *)
(* effect: one case to a session, stamped with the session's owner            *)
(* (anchor_key, ServiceNowAdapter.create_case).                               *)
THEOREM CasesAreUnique == Spec => []OneCasePerSession
  <1>1. IInv => OneCasePerSession
    BY DEF IInv, CasesOK, OneCasePerSession
  <1> QED BY <1>1, AlwaysIInv, PTL

(* What a caller is told about its call is so (IntegrationsClient.create_case,*)
(* AiGatewayEgress.send).                                                     *)
THEOREM OutcomesAreHonest == Spec => []OutcomeIsHonest
  <1>1. IInv => OutcomeIsHonest
    <2> SUFFICES ASSUME IInv, NEW c \in Calls, call[c] # NULL, NEW k \in Call, k = call[c]
                 PROVE  /\ k.purpose = "case" /\ k.outcome = "succeeded" =>
                               \E x \in cases : x.session = k.session
                        /\ k.outcome = "refused" /\ k.attempt = 1 => ~exchange[c][1].posted
                        /\ k.outcome = "budget" => exchange[c][k.attempt].status = 403
                        /\ k.purpose = "case" /\ k.outcome = "raised" => k.attempt = MaxAttempts
      BY DEF IInv, TypeOK, OutcomeIsHonest
    <2>1. Honest(k, exchange[c], cases)
      BY DEF IInv, CallsOK, CallerOK
    <2>2. ASSUME k.outcome = "refused", k.attempt = 1, exchange[c][1].posted
          PROVE  FALSE
      <3>1. 1 \in Attempts /\ Refusal(exchange[c][1])
        BY <2>1, <2>2 DEF Honest
      <3>2. exchange[c][1].status \in {200, 502}
        BY <2>2, <3>1 DEF IInv, CallsOK, ExchangeOK
      <3> QED BY <3>1, <3>2, Classification DEF Refusal
    <2> QED BY <2>1, <2>2 DEF Honest, Held
  <1> QED BY <1>1, AlwaysIInv, PTL

(* What screening did not let pass crosses on no attempt, in no direction     *)
(* (SafeModel.complete, SafeModel.embed).                                     *)
THEOREM ScreeningHolds == Spec => []BlockedTextNeverCrosses
  <1>1. IInv => BlockedTextNeverCrosses
    BY DEF IInv, CallsOK, CallerOK, Screened, BlockedTextNeverCrosses
  <1> QED BY <1>1, AlwaysIInv, PTL

(* The agent is handed no document of another organisation                    *)
(* (AzureAiSearchRetrieval._read).                                            *)
THEOREM EvidenceIsOwn == Spec => []OnlyOwnEvidence
  <1>1. IInv => OnlyOwnEvidence
    BY DEF IInv, CallsOK, CallerOK, OwnEvidence, OnlyOwnEvidence
  <1> QED BY <1>1, AlwaysIInv, PTL

=============================================================================
