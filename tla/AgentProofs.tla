---------------------------- MODULE AgentProofs -----------------------------
(***************************************************************************)
(* Theorems about Agent for every number of runs and catalogue versions,   *)
(* every set of entries, turns, search results and staff answers, every    *)
(* window and every bound.                                                 *)
(*                                                                         *)
(* The thread's state exists in many copies: the checkpoint, and the       *)
(* channels of every run under way.  What has to be invariant is said of   *)
(* one copy and the node it stands at, against the durable rows; a node    *)
(* that returns makes one new copy (ReturnKeeps), and the rest of the      *)
(* platform only writes rows that no copy relies on (PlatformKeepsCopies). *)
(***************************************************************************)
EXTENDS Agent, GovernanceProofs

(* Where a run is sure to have a proposal. *)
Governed == {"govern", "govern_entitled", "govern_verdict", "govern_decide", "await_consent",
             "await_approval", "consent_woken", "approval_woken", "execute"}

(* What is announced as pending fits where the copy stands. *)
Announced(ch, at) ==
    /\ at \in {"await_consent", "await_approval"} =>
          /\ ch.governance # NULL
          /\ ch.pending = SuspendsOn(ch.governance.disposition)
          /\ RouteAfterGovern(ch.governance.disposition) = at
    /\ at \in {"execute", "execute_record", "verify", "end"} => ch.pending = NULL
    /\ ch.pending # NULL => ch.proposal # NULL

(* What has been done fits where the copy stands. *)
Answered(ch, at) ==
    /\ at \in Governed => ch.proposal # NULL
    /\ at = "verify" => ch.execution # NULL
    /\ at = "end" => \/ ch.session = "closed_declined"
                     \/ ch.proposal = NULL
                     \/ ch.execution # NULL

(* Where the guardrail has already let the turn through, and where the turn   *)
(* is being served at all.                                                    *)
Passed == Governed \cup {"propose", "classify", "execute_record", "verify"}

Served == Passed \cup {"retrieve", "ground", "guardrail"}

(* What withheld or refused the turn, if anything did, fits where the copy    *)
(* stands: what the gate answered on an earlier turn is still in the channels *)
(* and says nothing of this one before the gate has answered again.           *)
Explained(ch, at) ==
    /\ ch.governance # NULL => ch.proposal # NULL
    /\ at \in Served => ch.session \notin {"closed_declined", "escalated"}
    /\ at \in Passed => ~Withheld(ch)
    /\ at \in {"execute", "execute_record", "verify"} => ~Rejected(ch)
    /\ at = "close" => Withheld(ch) \/ Rejected(ch)
    /\ at = "end" => (ch.session = "closed_declined" <=> Withheld(ch) \/ Rejected(ch))

(* A copy about to execute rests on authority that stands. *)
Standing(ch, at) == at = "execute" => Authorized(ch.proposal, ch)

(* A mirrored verdict is the one on the row. *)
Mirrored(ch) ==
    ch.decision # NULL /\ ch.decision.kind = "approval" =>
        /\ approval # NULL
        /\ approval.verdict # NULL
        /\ ch.decision.verdict = approval.verdict

CopyOK(ch, at) ==
    /\ Announced(ch, at) /\ Answered(ch, at) /\ Explained(ch, at)
    /\ Standing(ch, at) /\ Mirrored(ch)

(* What a run has read from the rows is still what they say: an entry is      *)
(* never edited and a verdict never replaced.  (Entitlement, which can be     *)
(* taken away between the read and the gate, is not among these.)             *)
ReadsStand(k) ==
    /\ k.entry # NULL => /\ k.ch.proposal # NULL
                         /\ catalogue[k.ch.proposal] = k.entry
    /\ k.verdict # NULL => /\ approval # NULL
                           /\ approval.verdict = k.verdict.verdict
                           /\ approval.roles = k.verdict.roles
                           /\ approval.expires_at = k.verdict.expires_at

RunOK(k) == CopyOK(k.ch, k.at) /\ ReadsStand(k)

IInv ==
    /\ TypeOK
    /\ CopyOK(saved.ch, saved.next)
    /\ \A r \in Runs : run[r] # NULL => RunOK(run[r])

-----------------------------------------------------------------------------
(* What the guardrail and the gate made of two copies with the same words,    *)
(* evidence, proposal and gate record is the same.                            *)
Alike(d, c) ==
    /\ d.conversation = c.conversation
    /\ d.grounding = c.grounding
    /\ d.proposal = c.proposal

LEMMA AlikeAreWithheldAlike ==
    ASSUME NEW c, NEW d, Alike(d, c)
    PROVE  Withheld(d) <=> Withheld(c)
  <1>1. ScopeOutcome(d) = ScopeOutcome(c)  BY DEF Alike, ScopeOutcome
  <1> QED  BY <1>1 DEF Withheld

(* A copy served on as before is explained as before. *)
LEMMA ServedOn ==
    ASSUME NEW c, NEW d, NEW at, NEW next, Explained(c, at), Alike(d, c),
           d.governance = c.governance, at \in Passed, next \in Passed,
           d.session \notin {"closed_declined", "escalated"},
           next \in {"execute_record", "verify"} => at \in {"execute", "execute_record"},
           next # "execute"
    PROVE  Explained(d, next)
  <1>1. ~Withheld(d)  BY AlikeAreWithheldAlike DEF Explained
  <1>2. next \notin {"close", "end"}  BY DEF Passed, Governed
  <1>3. next \in {"execute_record", "verify"} => ~Rejected(d)
    BY DEF Explained, Rejected
  <1> QED  BY <1>1, <1>2, <1>3 DEF Explained, Alike

(* What one write leaves of a copy. *)

LEMMA SetSession ==
    ASSUME NEW ch \in Channels, NEW s \in SessionStates \cup {NULL}
    PROVE  /\ [ch EXCEPT !.session = s] \in Channels
           /\ [ch EXCEPT !.session = s].session = s
           /\ [ch EXCEPT !.session = s].pending = ch.pending
           /\ [ch EXCEPT !.session = s].proposal = ch.proposal
           /\ [ch EXCEPT !.session = s].governance = ch.governance
           /\ [ch EXCEPT !.session = s].decision = ch.decision
           /\ [ch EXCEPT !.session = s].execution = ch.execution
           /\ Alike([ch EXCEPT !.session = s], ch)
  BY DEF Channels, Alike

LEMMA SetClosed ==
    ASSUME NEW ch \in Channels, NEW s \in SessionStates
    PROVE  /\ [ch EXCEPT !.session = s, !.pending = NULL] \in Channels
           /\ [ch EXCEPT !.session = s, !.pending = NULL].session = s
           /\ [ch EXCEPT !.session = s, !.pending = NULL].pending = NULL
           /\ [ch EXCEPT !.session = s, !.pending = NULL].decision = ch.decision
           /\ [ch EXCEPT !.session = s, !.pending = NULL].governance = ch.governance
           /\ Alike([ch EXCEPT !.session = s, !.pending = NULL], ch)
  BY DEF Channels, Alike

LEMMA SetHeard ==
    ASSUME NEW ch \in Channels, NEW t \in Turn
    PROVE  /\ Heard(ch, t) \in Channels
           /\ Heard(ch, t).pending = ch.pending
           /\ Heard(ch, t).proposal = ch.proposal
           /\ Heard(ch, t).decision = ch.decision
           /\ Heard(ch, t).governance = ch.governance
  <1>1. PICK c : c = Append(ch.conversation, t)  OBVIOUS
  <1>2. c \in Seq(Turn)  BY <1>1 DEF Channels
  <1>3. Heard(ch, t) = [ch EXCEPT !.conversation = c]  BY <1>1 DEF Heard
  <1> QED  BY <1>2, <1>3 DEF Channels

LEMMA SetProposal ==
    ASSUME NEW ch \in Channels, NEW v \in Versions
    PROVE  /\ [ch EXCEPT !.proposal = v] \in Channels
           /\ [ch EXCEPT !.proposal = v].pending = ch.pending
           /\ [ch EXCEPT !.proposal = v].proposal = v
           /\ [ch EXCEPT !.proposal = v].decision = ch.decision
           /\ [ch EXCEPT !.proposal = v].governance = ch.governance
  BY DEF Channels

LEMMA SetRetrieved ==
    ASSUME NEW ch \in Channels, NEW found \in Seq(Nat)
    PROVE  /\ [ch EXCEPT !.retrieved = @ \o found] \in Channels
           /\ [ch EXCEPT !.retrieved = @ \o found].pending = ch.pending
           /\ [ch EXCEPT !.retrieved = @ \o found].proposal = ch.proposal
           /\ [ch EXCEPT !.retrieved = @ \o found].decision = ch.decision
           /\ [ch EXCEPT !.retrieved = @ \o found].governance = ch.governance
           /\ [ch EXCEPT !.retrieved = @ \o found].session = ch.session
  <1>1. PICK c : c = ch.retrieved \o found  OBVIOUS
  <1>2. c \in Seq(Nat)  BY <1>1 DEF Channels
  <1>3. [ch EXCEPT !.retrieved = @ \o found] = [ch EXCEPT !.retrieved = c]  BY <1>1
  <1> QED  BY <1>2, <1>3 DEF Channels

LEMMA SetGrounding ==
    ASSUME NEW ch \in Channels, NEW g \in BOOLEAN
    PROVE  /\ [ch EXCEPT !.grounding = g] \in Channels
           /\ [ch EXCEPT !.grounding = g].pending = ch.pending
           /\ [ch EXCEPT !.grounding = g].proposal = ch.proposal
           /\ [ch EXCEPT !.grounding = g].decision = ch.decision
           /\ [ch EXCEPT !.grounding = g].governance = ch.governance
           /\ [ch EXCEPT !.grounding = g].session = ch.session
  BY DEF Channels

LEMMA SetExecution ==
    ASSUME NEW ch \in Channels, NEW s \in ExecutionStatuses
    PROVE  /\ [ch EXCEPT !.execution = s] \in Channels
           /\ [ch EXCEPT !.execution = s].execution = s
           /\ [ch EXCEPT !.execution = s].pending = ch.pending
           /\ [ch EXCEPT !.execution = s].proposal = ch.proposal
           /\ [ch EXCEPT !.execution = s].decision = ch.decision
           /\ [ch EXCEPT !.execution = s].governance = ch.governance
           /\ [ch EXCEPT !.execution = s].session = ch.session
           /\ Alike([ch EXCEPT !.execution = s], ch)
  BY DEF Channels, Alike

(* The mirror keeps a decision it already has: it is sealed. *)
LEMMA SetMirror ==
    ASSUME NEW ch \in Channels,
           NEW record \in Decided
    PROVE  /\ Mirror(ch, record) \in Channels
           /\ Mirror(ch, record).pending = NULL
           /\ Mirror(ch, record).proposal = ch.proposal
           /\ Mirror(ch, record).decision = IF ch.decision = NULL THEN record ELSE ch.decision
           /\ Mirror(ch, record).governance = ch.governance
           /\ Mirror(ch, record).session = ch.session
           /\ Alike(Mirror(ch, record), ch)
  BY DEF Channels, Mirror, Alike

LEMMA RunningIsRun ==
    ASSUME NEW ctx \in Context, NEW ch \in Channels, NEW at \in Nodes \cup Inside
    PROVE  /\ Running(ctx, ch, at) \in Run
           /\ Running(ctx, ch, at).ch = ch
           /\ Running(ctx, ch, at).at = at
           /\ Running(ctx, ch, at).entry = NULL
           /\ Running(ctx, ch, at).verdict = NULL
  BY DEF Running, Run

-----------------------------------------------------------------------------
(* The rest of the platform. *)

LEMMA PlatformTypes == TypeOK /\ Platform => TypeOK' /\ Aside
  <1> SUFFICES ASSUME TypeOK, Platform PROVE TypeOK' /\ Aside
    OBVIOUS
  <1>1. CASE SetStatus  BY <1>1 DEF SetStatus, Change, Aside, TypeOK
  <1>2. CASE SetEntitlement  BY <1>2 DEF SetEntitlement, Change, Aside, TypeOK
  <1>3. CASE Tick  BY <1>3 DEF Tick, Aside, TypeOK
  <1>4. ASSUME NEW v \in Versions, NEW entry \in LaterEntries, Register(v, entry)
        PROVE  TypeOK' /\ Aside
    BY <1>4, InputAssumption DEF Register, Change, Aside, TypeOK
  <1>5. ASSUME NEW v \in Versions, RaiseOperation(v)
        PROVE  TypeOK' /\ Aside
    BY <1>5 DEF RaiseOperation, Change, Aside, TypeOK, Approval
  <1>6. ASSUME NEW answer \in StaffAnswers, RecordVerdict(answer.roles, answer.verdict)
        PROVE  TypeOK' /\ Aside
    <2>1. approval' \in Approval
      BY <1>6, InputAssumption DEF RecordVerdict, TypeOK, Approval
    <2> QED  BY <1>6, <2>1 DEF RecordVerdict, Aside, TypeOK
  <1>7. ASSUME NEW verdict \in ConsentVerdicts, RecordConsent(verdict)
        PROVE  TypeOK' /\ Aside
    BY <1>7 DEF RecordConsent, Change, Aside, TypeOK
  <1> QED  BY <1>1, <1>2, <1>3, <1>4, <1>5, <1>6, <1>7 DEF Platform

(* A row that says something goes on saying it: an entry is never edited, and *)
(* of two verdicts the first stands.                                          *)
LEMMA RowsStand ==
    ASSUME TypeOK, Platform
    PROVE  /\ \A v \in Versions : catalogue[v] # NULL => catalogue'[v] = catalogue[v]
           /\ (approval # NULL /\ approval.verdict # NULL) => approval' = approval
  <1>1. CASE SetStatus \/ SetEntitlement \/ Tick
    BY <1>1 DEF SetStatus, SetEntitlement, Tick
  <1>2. ASSUME NEW v \in Versions, NEW entry \in LaterEntries, Register(v, entry)
        PROVE  /\ \A u \in Versions : catalogue[u] # NULL => catalogue'[u] = catalogue[u]
               /\ approval' = approval
    BY <1>2 DEF Register, TypeOK
  <1>3. ASSUME NEW v \in Versions, RaiseOperation(v)
        PROVE  catalogue' = catalogue /\ (approval # NULL => approval' = approval)
    BY <1>3 DEF RaiseOperation
  <1>4. ASSUME NEW answer \in StaffAnswers, RecordVerdict(answer.roles, answer.verdict)
        PROVE  catalogue' = catalogue /\ approval.verdict = NULL
    BY <1>4 DEF RecordVerdict
  <1>5. ASSUME NEW verdict \in ConsentVerdicts, RecordConsent(verdict)
        PROVE  catalogue' = catalogue /\ approval' = approval
    BY <1>5 DEF RecordConsent
  <1> QED  BY <1>1, <1>2, <1>3, <1>4, <1>5 DEF Platform

LEMMA PlatformKeepsCopies ==
    ASSUME TypeOK, Platform, NEW ch \in Channels, NEW at, CopyOK(ch, at)
    PROVE  CopyOK(ch, at)'
  <1>1. Announced(ch, at)' /\ Answered(ch, at)' /\ Explained(ch, at)'
    BY DEF CopyOK, Announced, Answered, Explained, Withheld, Rejected
  <1>2. Standing(ch, at)'
    <2> SUFFICES ASSUME at = "execute" PROVE Authorized(ch.proposal, ch)'
      BY DEF Standing
    <2>1. Authorized(ch.proposal, ch) /\ ch.proposal \in Versions
      BY DEF CopyOK, Standing, Answered, Governed, Channels
    <2>2. catalogue'[ch.proposal] = catalogue[ch.proposal]
      BY <2>1, RowsStand DEF Authorized
    <2>3. (approval # NULL /\ approval.verdict = "approved") => approval' = approval
      BY RowsStand, GateNull DEF StaffVerdicts
    <2> QED  BY <2>1, <2>2, <2>3 DEF Authorized
  <1>3. Mirrored(ch)'
    BY RowsStand DEF CopyOK, Mirrored
  <1> QED  BY <1>1, <1>2, <1>3 DEF CopyOK

LEMMA PlatformKeepsReads ==
    ASSUME TypeOK, Platform, NEW k \in Run, ReadsStand(k)
    PROVE  ReadsStand(k)'
  <1>1. k.ch.proposal \in Versions \cup {NULL}  BY DEF Run, Channels
  <1>2. k.verdict # NULL => k.verdict.verdict \in StaffVerdicts  BY DEF Run, Verdict
  <1>3. k.verdict # NULL => approval' = approval
    BY <1>2, RowsStand, GateNull DEF ReadsStand
  <1> QED  BY <1>1, <1>3, RowsStand DEF ReadsStand

LEMMA PlatformKeeps == IInv /\ Platform => IInv'
  <1> SUFFICES ASSUME IInv, Platform PROVE IInv'
    OBVIOUS
  <1>1. TypeOK' /\ saved' = saved /\ run' = run  BY PlatformTypes DEF IInv, Aside
  <1>2. CopyOK(saved.ch, saved.next)'
    <2>1. PICK ch, at : ch \in Channels /\ ch = saved.ch /\ at = saved.next
      BY DEF IInv, TypeOK
    <2>2. CopyOK(ch, at)'  BY <2>1, PlatformKeepsCopies DEF IInv
    <2> QED  BY <1>1, <2>1, <2>2
  <1>3. ASSUME NEW r \in Runs, run'[r] # NULL PROVE RunOK(run[r])'
    <2>1. PICK k \in Run : k = run[r]  BY <1>1, <1>3 DEF IInv, TypeOK
    <2>2. RunOK(k)  BY <1>1, <1>3, <2>1 DEF IInv
    <2>3. k.ch \in Channels  BY DEF Run
    <2>4. CopyOK(k.ch, k.at)'  BY <2>2, <2>3, PlatformKeepsCopies DEF IInv, RunOK
    <2>5. ReadsStand(k)'  BY <2>2, PlatformKeepsReads DEF IInv, RunOK
    <2> QED  BY <1>1, <2>1, <2>4, <2>5 DEF RunOK
  <1> QED  BY <1>1, <1>2, <1>3 DEF IInv

-----------------------------------------------------------------------------
(* How a run changes the thread: it is replaced, ended or begun, and a node   *)
(* that returns checkpoints.  The rows stay as they are.                      *)

LEMMA ReplaceKeeps ==
    ASSUME IInv, NEW r \in Runs, NEW k \in Run \cup {NULL}, k # NULL => RunOK(k),
           run' = [run EXCEPT ![r] = k],
           NEW c \in Channels, NEW at \in Nodes \cup {"start", "end"}, CopyOK(c, at),
           saved' = [ch |-> c, next |-> at],
           UNCHANGED records, calls' \in [Versions -> Nat], invocations' \in Nat
    PROVE  IInv'
  <1>1. TypeOK'
    BY DEF IInv, TypeOK, records
  <1>2. CopyOK(saved.ch, saved.next)'
    BY DEF records, CopyOK, Announced, Answered, Explained, Withheld, Rejected, Standing,
           Authorized, Mirrored
  <1>3. ASSUME NEW q \in Runs, run'[q] # NULL PROVE RunOK(run[q])'
    <2>1. RunOK(run'[q])  BY <1>3 DEF IInv, TypeOK
    <2>2. PICK j : j = run'[q]  OBVIOUS
    <2>3. RunOK(j)'
      BY <2>1, <2>2 DEF records, RunOK, ReadsStand, CopyOK, Announced, Answered, Explained,
                        Withheld, Rejected, Standing, Authorized, Mirrored
    <2> QED  BY <2>2, <2>3
  <1> QED  BY <1>1, <1>2, <1>3 DEF IInv

LEMMA RunningIsOK ==
    ASSUME NEW ctx \in Context, NEW ch \in Channels, NEW at \in Nodes \cup Inside,
           CopyOK(ch, at)
    PROVE  RunOK(Running(ctx, ch, at))
  <1>1. PICK k : k = Running(ctx, ch, at)  OBVIOUS
  <1>2. k.ch = ch /\ k.at = at /\ k.entry = NULL /\ k.verdict = NULL
    BY <1>1, RunningIsRun
  <1> QED  BY <1>1, <1>2 DEF RunOK, ReadsStand

(* The checkpoint, by name. *)
LEMMA SavedCopy ==
    ASSUME IInv
    PROVE  \E c \in Channels, at \in Nodes \cup {"start", "end"} :
               /\ c = saved.ch /\ at = saved.next
               /\ saved = [ch |-> c, next |-> at]
               /\ CopyOK(c, at)
  BY DEF IInv, TypeOK

LEMMA StopKeeps ==
    ASSUME IInv, NEW r \in Runs, Stop(r), UNCHANGED <<records, saved, calls, invocations>>
    PROVE  IInv'
  <1>1. PICK c \in Channels, at \in Nodes \cup {"start", "end"} :
            saved = [ch |-> c, next |-> at] /\ CopyOK(c, at)
    BY SavedCopy
  <1>2. PICK k : k = NULL  OBVIOUS
  <1>3. /\ run' = [run EXCEPT ![r] = k] /\ saved' = [ch |-> c, next |-> at]
        /\ calls' \in [Versions -> Nat] /\ invocations' \in Nat
        /\ UNCHANGED records
    BY <1>1, <1>2 DEF Stop, IInv, TypeOK
  <1> QED  BY <1>1, <1>2, <1>3, ReplaceKeeps

LEMMA StepKeeps ==
    ASSUME IInv, NEW r \in Runs, NEW k \in Run, RunOK(k), run' = [run EXCEPT ![r] = k],
           UNCHANGED <<records, saved, invocations>>, calls' \in [Versions -> Nat]
    PROVE  IInv'
  <1>1. PICK c \in Channels, at \in Nodes \cup {"start", "end"} :
            saved = [ch |-> c, next |-> at] /\ CopyOK(c, at)
    BY SavedCopy
  <1>2. saved' = [ch |-> c, next |-> at] /\ invocations' \in Nat /\ UNCHANGED records
    BY <1>1 DEF IInv, TypeOK
  <1> QED  BY <1>1, <1>2, ReplaceKeeps

LEMMA BeginKeeps ==
    ASSUME IInv, NEW r \in Runs, NEW ctx \in Context, NEW ch \in Channels,
           NEW at \in Nodes \cup Inside, CopyOK(ch, at), Begin(r, ctx, ch, at),
           NEW c \in Channels, NEW next \in Nodes, CopyOK(c, next),
           saved' = [ch |-> c, next |-> next]
    PROVE  IInv'
  <1>1. PICK k \in Run : k = Running(ctx, ch, at) /\ RunOK(k)
    BY RunningIsRun, RunningIsOK
  <1>2. /\ run' = [run EXCEPT ![r] = k] /\ UNCHANGED records
        /\ calls' \in [Versions -> Nat] /\ invocations' \in Nat
    BY <1>1 DEF Begin, IInv, TypeOK
  <1> QED  BY <1>1, <1>2, ReplaceKeeps

LEMMA ReturnKeeps ==
    ASSUME IInv, NEW r \in Runs, run[r] # NULL, NEW ch \in Channels,
           NEW next \in Nodes \cup {"end"}, CopyOK(ch, next), Return(r, ch, next)
    PROVE  IInv'
  <1>1. /\ UNCHANGED records /\ saved' = [ch |-> ch, next |-> next]
        /\ calls' \in [Versions -> Nat] /\ invocations' \in Nat
    BY DEF Return, IInv, TypeOK
  <1>2. CASE next = "end"
    <2>1. PICK k : k = NULL  OBVIOUS
    <2>2. run' = [run EXCEPT ![r] = k]  BY <1>2, <2>1 DEF Return, Stop
    <2> QED  BY <1>1, <2>1, <2>2, ReplaceKeeps
  <1>3. CASE next # "end"
    <2>1. PICK ctx \in Context : ctx = run[r].ctx  BY DEF IInv, TypeOK, Run
    <2>2. PICK k \in Run : k = Running(ctx, ch, next) /\ RunOK(k)
      BY <1>3, RunningIsRun, RunningIsOK
    <2>3. run' = [run EXCEPT ![r] = k]  BY <1>3, <2>1, <2>2 DEF Return
    <2> QED  BY <1>1, <2>2, <2>3, ReplaceKeeps
  <1> QED  BY <1>2, <1>3

(* A run, by name. *)
LEMMA RunCopy ==
    ASSUME IInv, NEW r \in Runs, run[r] # NULL
    PROVE  \E k \in Run, c \in Channels :
               k = run[r] /\ c = k.ch /\ RunOK(k) /\ CopyOK(c, k.at) /\ ReadsStand(k)
  <1>1. PICK k \in Run : k = run[r]  BY DEF IInv, TypeOK
  <1>2. RunOK(k)  BY <1>1 DEF IInv
  <1>3. k.ch \in Channels  BY DEF Run
  <1> QED  BY <1>1, <1>2, <1>3 DEF RunOK

-----------------------------------------------------------------------------
(* The nodes before the gate, and the invocations: nothing a gate will rely   *)
(* on is touched.                                                             *)

Ungoverned == {"intake", "converse", "retrieve", "ground", "guardrail", "propose", "classify",
               "close"}

LEMMA CarriesOn ==
    ASSUME NEW c \in Channels, NEW at, CopyOK(c, at),
           NEW d \in Channels, NEW next \in Ungoverned,
           d.pending = c.pending, d.proposal = c.proposal \/ d.proposal # NULL,
           d.decision = c.decision, Explained(d, next)
    PROVE  CopyOK(d, next)
  <1>1. Announced(d, next)  BY DEF CopyOK, Announced, Ungoverned
  <1>2. Answered(d, next)  BY DEF Answered, Governed, Ungoverned
  <1>3. Standing(d, next)  BY DEF Standing, Ungoverned
  <1>4. Mirrored(d)  BY DEF CopyOK, Mirrored
  <1> QED  BY <1>1, <1>2, <1>3, <1>4 DEF CopyOK

(* A turn that begins is not yet withheld, whatever the last one came to. *)
LEMMA FreshTurn ==
    ASSUME NEW d, d.governance # NULL => d.proposal # NULL
    PROVE  Explained(d, "intake") /\ Explained(d, "converse")
  BY DEF Explained, Served, Passed, Governed

LEMMA UngovernedIsNode == Ungoverned \subseteq Nodes
  BY DEF Ungoverned, Nodes

LEMMA SendMessageKeeps ==
    ASSUME IInv, NEW r \in Runs, NEW turn \in UserTurns, SendMessage(r, turn)
    PROVE  IInv'
  <1>1. PICK c \in Channels, at \in Nodes \cup {"start", "end"} : c = saved.ch /\ CopyOK(c, at)
    BY SavedCopy
  <1>2. turn \in Turn  BY InputAssumption
  <1>3. PICK d \in Channels : /\ d = Heard(c, turn)
                              /\ d.pending = c.pending
                              /\ d.proposal = c.proposal
                              /\ d.decision = c.decision
                              /\ d.governance = c.governance
    BY <1>2, SetHeard
  <1>4. "intake" \in Ungoverned /\ "intake" \in Nodes  BY DEF Ungoverned, Nodes
  <1>5. CopyOK(d, "intake")
    <2>1. Explained(d, "intake")  BY <1>1, <1>3, FreshTurn DEF CopyOK, Explained
    <2> QED  BY <1>1, <1>3, <1>4, <2>1, CarriesOn
  <1>6. PICK ctx \in Context : ctx = [admitted |-> TRUE, work |-> FALSE]  BY DEF Context
  <1>7. Begin(r, ctx, d, "intake") /\ saved' = [ch |-> d, next |-> "intake"]
    BY <1>1, <1>3, <1>6 DEF SendMessage
  <1> QED  BY <1>4, <1>5, <1>7, BeginKeeps

LEMMA InvokeKeeps ==
    ASSUME IInv, NEW r \in Runs, NEW turn \in RequestTurns, NEW v \in Versions,
           InvokeWithProposal(r, turn, v)
    PROVE  IInv'
  <1>1. PICK c \in Channels, at \in Nodes \cup {"start", "end"} : c = saved.ch /\ CopyOK(c, at)
    BY SavedCopy
  <1>2. turn \in Turn  BY InputAssumption
  <1>3. PICK h \in Channels : /\ h = Heard(c, turn)
                              /\ h.pending = c.pending
                              /\ h.decision = c.decision
    BY <1>2, SetHeard
  <1>4. PICK d \in Channels : /\ d = [h EXCEPT !.proposal = v]
                              /\ d.pending = c.pending
                              /\ d.proposal = v
                              /\ d.decision = c.decision
    <2>1. PICK d : d = [h EXCEPT !.proposal = v]  OBVIOUS
    <2>2. /\ d \in Channels /\ d.pending = h.pending
          /\ d.proposal = v /\ d.decision = h.decision
      BY <2>1, SetProposal
    <2> QED  BY <1>3, <2>1, <2>2
  <1>5. "intake" \in Ungoverned /\ "intake" \in Nodes  BY DEF Ungoverned, Nodes
  <1>6. CopyOK(d, "intake")
    <2>1. Explained(d, "intake")  BY <1>4, FreshTurn, AgentNull
    <2> QED  BY <1>1, <1>4, <1>5, <2>1, CarriesOn, AgentNull
  <1>7. PICK ctx \in Context : ctx = [admitted |-> active, work |-> TRUE]
    BY DEF IInv, TypeOK, Context
  <1>8. Begin(r, ctx, d, "intake") /\ saved' = [ch |-> d, next |-> "intake"]
    BY <1>1, <1>3, <1>4, <1>7 DEF InvokeWithProposal
  <1> QED  BY <1>5, <1>6, <1>8, BeginKeeps

(* A suspended run wakes where it waited; any other resumes at its node. *)
LEMMA ResumeKeeps ==
    ASSUME IInv, NEW r \in Runs, Resume(r)
    PROVE  IInv'
  <1>1. PICK c \in Channels, next \in Nodes \cup {"start", "end"} :
            /\ c = saved.ch /\ next = saved.next
            /\ saved = [ch |-> c, next |-> next] /\ CopyOK(c, next)
    BY SavedCopy
  <1>2. next \in Nodes  BY <1>1 DEF Resume
  <1>3. PICK at : at = Woken(next)  OBVIOUS
  <1>4. at \in Nodes \cup Inside  BY <1>2, <1>3 DEF Woken, Inside
  <1>5. CopyOK(c, at)
    <2>1. CASE next \in {"await_consent", "await_approval"}
      <3>1. at \in {"consent_woken", "approval_woken"}  BY <1>3, <2>1 DEF Woken
      <3>2. Announced(c, at)  BY <1>1, <3>1 DEF CopyOK, Announced
      <3>3. Answered(c, at)  BY <1>1, <2>1, <3>1 DEF CopyOK, Answered, Governed
      <3>4. Standing(c, at)  BY <3>1 DEF Standing
      <3>5. Explained(c, at)
        BY <1>1, <2>1, <3>1 DEF CopyOK, Explained, Served, Passed, Governed
      <3> QED  BY <1>1, <3>2, <3>3, <3>4, <3>5 DEF CopyOK
    <2>2. CASE next \notin {"await_consent", "await_approval"}
      BY <1>1, <1>3, <2>2 DEF Woken
    <2> QED  BY <2>1, <2>2
  <1>6. PICK ctx \in Context : ctx = [admitted |-> active, work |-> TRUE]
    BY DEF IInv, TypeOK, Context
  <1>7. Begin(r, ctx, c, at) /\ saved' = [ch |-> c, next |-> next]
    BY <1>1, <1>3, <1>6 DEF Resume
  <1> QED  BY <1>1, <1>2, <1>4, <1>5, <1>7, BeginKeeps

LEMMA ConversationKeeps ==
    ASSUME IInv, NEW r \in Runs,
           Intake(r) \/ Converse(r) \/ Retrieve(r) \/ Ground(r) \/ Guardrail(r) \/ Propose(r)
    PROVE  IInv'
  <1>0. run[r] # NULL
    BY DEF Intake, Converse, Retrieve, Ground, Guardrail, Propose, At
  <1>1. PICK k \in Run, c \in Channels : k = run[r] /\ c = k.ch /\ CopyOK(c, k.at)
    BY <1>0, RunCopy
  <1>2. \E d \in Channels, next \in Ungoverned :
            /\ d.pending = c.pending /\ d.proposal = c.proposal /\ d.decision = c.decision
            /\ Explained(d, next)
            /\ Return(r, d, next)
    <2>0. Explained(c, k.at)  BY <1>1 DEF CopyOK
    <2>1. CASE Intake(r)
      <3>1. PICK s \in SessionStates : s = IF CommitsWork(c.conversation) THEN "resolving"
                                           ELSE "conversational"
        BY DEF SessionStates
      <3>2. PICK d : d = [c EXCEPT !.session = s]  OBVIOUS
      <3>3. Return(r, d, "converse")  BY <1>1, <2>1, <3>1, <3>2 DEF Intake, Chan
      <3>4. d.governance = c.governance /\ d.proposal = c.proposal  BY <3>2, SetSession
      <3>5. Explained(d, "converse")  BY <2>0, <3>4, FreshTurn DEF Explained
      <3> QED  BY <3>2, <3>3, <3>5, SetSession DEF Ungoverned
    <2>2. CASE Converse(r)
      <3>1. "resolving" \in SessionStates  BY DEF SessionStates
      <3>2. PICK d : d = [c EXCEPT !.session = "resolving"]  OBVIOUS
      <3>3. Return(r, d, "retrieve")  BY <1>1, <2>2, <3>2 DEF Converse, Chan
      <3>4. /\ d.governance = c.governance /\ d.proposal = c.proposal
            /\ d.session = "resolving"
        BY <3>1, <3>2, SetSession
      <3>5. Explained(d, "retrieve")  BY <2>0, <3>4 DEF Explained, Passed, Governed
      <3> QED  BY <3>1, <3>2, <3>3, <3>5, SetSession DEF Ungoverned
    <2>3. CASE Retrieve(r)
      <3>1. PICK found \in Seq(Nat) : Return(r, [c EXCEPT !.retrieved = @ \o found], "ground")
        <4>1. <<>> \in Seq(Nat)  OBVIOUS
        <4> QED  BY <1>1, <2>3, <4>1, InputAssumption DEF Retrieve, Chan
      <3>2. PICK d : d = [c EXCEPT !.retrieved = @ \o found]  OBVIOUS
      <3>3. /\ d.governance = c.governance /\ d.proposal = c.proposal
            /\ d.session = c.session
        BY <3>2, SetRetrieved
      <3>4. k.at = "retrieve"  BY <1>1, <2>3 DEF Retrieve, At
      <3>5. Explained(d, "ground")
        BY <2>0, <3>3, <3>4 DEF Explained, Served, Passed, Governed
      <3> QED  BY <3>1, <3>2, <3>5, SetRetrieved DEF Ungoverned
    <2>4. CASE Ground(r)
      <3>1. PICK g \in BOOLEAN : g = AssessScores(c.retrieved).confident
        <4>1. AssessScores(c.retrieved).confident \in BOOLEAN
          BY DEF AssessScores, ClearsThresholds
        <4> QED  BY <4>1
      <3>2. PICK d : d = [c EXCEPT !.grounding = g]  OBVIOUS
      <3>3. Return(r, d, "guardrail")  BY <1>1, <2>4, <3>1, <3>2 DEF Ground, Chan
      <3>4. /\ d.governance = c.governance /\ d.proposal = c.proposal
            /\ d.session = c.session
        BY <3>2, SetGrounding
      <3>5. k.at = "ground"  BY <1>1, <2>4 DEF Ground, At
      <3>6. Explained(d, "guardrail")
        BY <2>0, <3>4, <3>5 DEF Explained, Served, Passed, Governed
      <3> QED  BY <3>2, <3>3, <3>6, SetGrounding DEF Ungoverned
    <2>5. CASE Guardrail(r)
      <3>1. PICK o : o = ScopeOutcome(c)  OBVIOUS
      <3>2. PICK s \in SessionStates \cup {NULL} :
                s = CASE o = "decline"  -> "closed_declined"
                      [] o = "escalate" -> "escalated"
                      [] OTHER          -> c.session
        BY DEF SessionStates, Channels
      <3>3. PICK d : d = [c EXCEPT !.session = s]  OBVIOUS
      <3>4. Return(r, d, IF s \in {"closed_declined", "escalated"} THEN "close" ELSE "propose")
        BY <1>1, <2>5, <3>1, <3>2, <3>3 DEF Guardrail, Chan
      <3>5. /\ d.governance = c.governance /\ d.proposal = c.proposal
            /\ d.session = s /\ Alike(d, c)
        BY <3>3, SetSession
      <3>6. k.at = "guardrail"  BY <1>1, <2>5 DEF Guardrail, At
      <3>7. c.session \notin {"closed_declined", "escalated"}
        BY <2>0, <3>6 DEF Explained, Served
      <3>8. Withheld(d) <=> o \in {"decline", "escalate"}
        <4>1. Withheld(c) <=> o \in {"decline", "escalate"}  BY <3>1 DEF Withheld
        <4> QED  BY <3>5, <4>1, AlikeAreWithheldAlike
      <3>9. s \in {"closed_declined", "escalated"} <=> o \in {"decline", "escalate"}
        BY <3>2, <3>7
      <3>10. \E next \in Ungoverned : Return(r, d, next) /\ Explained(d, next)
        <4>1. CASE s \in {"closed_declined", "escalated"}
          <5>1. Explained(d, "close")
            BY <2>0, <3>5, <3>8, <3>9, <4>1 DEF Explained, Served, Passed, Governed
          <5> QED  BY <3>4, <4>1, <5>1 DEF Ungoverned
        <4>2. CASE s \notin {"closed_declined", "escalated"}
          <5>1. Explained(d, "propose")
            BY <2>0, <3>5, <3>8, <3>9, <4>2 DEF Explained
          <5> QED  BY <3>4, <4>2, <5>1 DEF Ungoverned
        <4> QED  BY <4>1, <4>2
      <3> QED  BY <3>3, <3>10, SetSession
    <2>6. CASE Propose(r)
      <3>1. k.at = "propose" /\ Return(r, c, "classify")  BY <1>1, <2>6 DEF Propose, At, Chan
      <3>2. Alike(c, c)  BY DEF Alike
      <3>3. c.session \notin {"closed_declined", "escalated"}
        BY <2>0, <3>1 DEF Explained, Served, Passed
      <3>4. Explained(c, "classify")  BY <2>0, <3>1, <3>2, <3>3, ServedOn DEF Passed
      <3> QED  BY <3>1, <3>4 DEF Ungoverned
    <2> QED  BY <2>1, <2>2, <2>3, <2>4, <2>5, <2>6
  <1>3. PICK d \in Channels, next \in Ungoverned :
            /\ d.pending = c.pending /\ d.proposal = c.proposal /\ d.decision = c.decision
            /\ Explained(d, next)
            /\ Return(r, d, next)
    BY <1>2
  <1>4. CopyOK(d, next)  BY <1>1, <1>3, CarriesOn
  <1> QED  BY <1>0, <1>3, <1>4, UngovernedIsNode, ReturnKeeps

(* A run that proposes nothing ends, and then nothing was pending. *)
LEMMA ClassifyKeeps ==
    ASSUME IInv, NEW r \in Runs, Classify(r)
    PROVE  IInv'
  <1>0. run[r] # NULL  BY DEF Classify, At
  <1>1. PICK k \in Run, c \in Channels : k = run[r] /\ c = k.ch /\ CopyOK(c, k.at)
    BY <1>0, RunCopy
  <1>2. PICK next : next = IF c.proposal = NULL THEN "end" ELSE "govern"  OBVIOUS
  <1>3. next \in Nodes \cup {"end"}  BY <1>2 DEF Nodes
  <1>4. Return(r, c, next)  BY <1>1, <1>2 DEF Classify, Chan
  <1>5. Announced(c, next)  BY <1>1, <1>2 DEF CopyOK, Announced
  <1>6. Answered(c, next)  BY <1>2 DEF Answered, Governed
  <1>7. Standing(c, next)  BY <1>2 DEF Standing
  <1>8. Explained(c, next)
    <2>1. Explained(c, "classify")  BY <1>1 DEF Classify, At, CopyOK
    <2>2. CASE c.proposal = NULL
      <3>1. next = "end"  BY <1>2, <2>2
      <3>2. ~Withheld(c) /\ ~Rejected(c) /\ c.session # "closed_declined"
        BY <2>1, <2>2 DEF Explained, Rejected, Served, Passed
      <3> QED  BY <2>1, <3>1, <3>2 DEF Explained, Served, Passed, Governed
    <2>3. CASE c.proposal # NULL
      <3>1. next = "govern"  BY <1>2, <2>3
      <3> QED  BY <2>1, <3>1 DEF Explained, Served, Passed, Governed
    <2> QED  BY <2>2, <2>3
  <1>9. CopyOK(c, next)  BY <1>1, <1>5, <1>6, <1>7, <1>8 DEF CopyOK
  <1> QED  BY <1>0, <1>3, <1>4, <1>9, ReturnKeeps

-----------------------------------------------------------------------------
(* The gate.  What a run reads, it reads from the rows; what it decides, it   *)
(* decides from what it has read, and the rows have not taken that back.      *)

(* A run that moves inside its node stays sound if what it read stands. *)
LEMMA MovesInside ==
    ASSUME NEW k \in Run, RunOK(k), k.ch.proposal # NULL,
           k.at \in {"govern", "govern_entitled", "govern_verdict"}, NEW j \in Run,
           j.ch = k.ch, j.at \in {"govern_entitled", "govern_verdict", "govern_decide"},
           ReadsStand(j)
    PROVE  RunOK(j)
  <1>1. PICK c : c = k.ch  OBVIOUS
  <1>2. CopyOK(c, k.at)  BY <1>1 DEF RunOK
  <1>3. Announced(c, j.at)  BY <1>2 DEF CopyOK, Announced
  <1>4. Answered(c, j.at)  BY <1>1 DEF Answered, Governed
  <1>5. Standing(c, j.at)  BY DEF Standing
  <1>6. Explained(c, j.at)
    BY <1>2 DEF CopyOK, Explained, Served, Passed, Governed
  <1>7. CopyOK(c, j.at)  BY <1>2, <1>3, <1>4, <1>5, <1>6 DEF CopyOK
  <1> QED  BY <1>1, <1>7 DEF RunOK

LEMMA LookupKeeps ==
    ASSUME IInv, NEW r \in Runs, GovernLookup(r)
    PROVE  IInv'
  <1>0. run[r] # NULL /\ run[r].at = "govern"  BY DEF GovernLookup, At
  <1>1. PICK k \in Run, c \in Channels : k = run[r] /\ c = k.ch /\ RunOK(k) /\ ReadsStand(k)
                                           /\ CopyOK(c, k.at)
    BY <1>0, RunCopy
  <1>2. c.proposal \in Versions
    BY <1>0, <1>1 DEF CopyOK, Answered, Governed, Channels
  <1>3. PICK e \in Entry \cup {NULL} : e = Lookup(c.proposal)
    BY <1>2 DEF Lookup, IInv, TypeOK
  <1>4. e # NULL => catalogue[c.proposal] = e  BY <1>3 DEF Lookup
  <1>5. PICK j : j = [k EXCEPT !.entry = e, !.at = "govern_entitled"]  OBVIOUS
  <1>6. /\ j \in Run /\ j.ch = k.ch /\ j.at = "govern_entitled" /\ j.entry = e
        /\ j.verdict = k.verdict
    BY <1>5 DEF Run, Inside
  <1>7. ReadsStand(j)  BY <1>1, <1>2, <1>4, <1>6, AgentNull DEF ReadsStand
  <1>8. RunOK(j)  BY <1>0, <1>1, <1>2, <1>6, <1>7, MovesInside, AgentNull
  <1>9. /\ run' = [run EXCEPT ![r] = j] /\ UNCHANGED <<records, saved, invocations>>
        /\ calls' \in [Versions -> Nat]
    BY <1>1, <1>3, <1>5 DEF GovernLookup, Read, Chan, IInv, TypeOK
  <1> QED  BY <1>6, <1>8, <1>9, StepKeeps

LEMMA EntitledKeeps ==
    ASSUME IInv, NEW r \in Runs, GovernEntitled(r)
    PROVE  IInv'
  <1>0. run[r] # NULL /\ run[r].at = "govern_entitled"  BY DEF GovernEntitled, At
  <1>1. PICK k \in Run, c \in Channels : k = run[r] /\ c = k.ch /\ RunOK(k) /\ ReadsStand(k)
                                           /\ CopyOK(c, k.at)
    BY <1>0, RunCopy
  <1>2. c.proposal # NULL  BY <1>0, <1>1 DEF CopyOK, Answered, Governed
  <1>3. PICK e \in BOOLEAN : e = entitled  BY DEF IInv, TypeOK
  <1>4. PICK j : j = [k EXCEPT !.entitled = e, !.at = "govern_verdict"]  OBVIOUS
  <1>5. /\ j \in Run /\ j.ch = k.ch /\ j.at = "govern_verdict" /\ j.entry = k.entry
        /\ j.verdict = k.verdict
    BY <1>4 DEF Run, Inside
  <1>6. ReadsStand(j)  BY <1>1, <1>5 DEF ReadsStand
  <1>7. RunOK(j)  BY <1>0, <1>1, <1>2, <1>5, <1>6, MovesInside
  <1>8. /\ run' = [run EXCEPT ![r] = j] /\ UNCHANGED <<records, saved, invocations>>
        /\ calls' \in [Versions -> Nat]
    BY <1>1, <1>3, <1>4 DEF GovernEntitled, Read, IInv, TypeOK
  <1> QED  BY <1>5, <1>7, <1>8, StepKeeps

(* decision_for reads the row as it stands. *)
LEMMA ApprovalIsRead ==
    ASSUME IInv
    PROVE  /\ DecisionForApproval \in Verdict \cup {NULL}
           /\ DecisionForApproval # NULL =>
                /\ approval # NULL
                /\ approval.verdict # NULL
                /\ approval.verdict = DecisionForApproval.verdict
                /\ approval.roles = DecisionForApproval.roles
                /\ approval.expires_at = DecisionForApproval.expires_at
  <1>1. CASE approval = NULL \/ operation = NULL
    BY <1>1 DEF DecisionForApproval
  <1>2. CASE approval # NULL /\ operation # NULL /\ approval.verdict = NULL
    BY <1>2 DEF DecisionForApproval
  <1>3. CASE approval # NULL /\ operation # NULL /\ approval.verdict # NULL
    <2>1. PICK a : a = approval  OBVIOUS
    <2>2. a \in [verdict : StaffVerdicts, roles : SUBSET StaffRoles, expires_at : Nat]
      BY <1>3, <2>1 DEF IInv, TypeOK, Approval, Undecided
    <2>3. PICK v \in Versions : v = operation  BY <1>3 DEF IInv, TypeOK
    <2>4. DecisionForApproval = [roles |-> a.roles, verdict |-> a.verdict,
                                 expires_at |-> a.expires_at, bound_to |-> v]
      BY <1>3, <2>1, <2>3 DEF DecisionForApproval
    <2> QED  BY <1>3, <2>1, <2>2, <2>3, <2>4 DEF Verdict
  <1> QED  BY <1>1, <1>2, <1>3

LEMMA VerdictKeeps ==
    ASSUME IInv, NEW r \in Runs, GovernVerdict(r)
    PROVE  IInv'
  <1>0. run[r] # NULL /\ run[r].at = "govern_verdict"  BY DEF GovernVerdict, At
  <1>1. PICK k \in Run, c \in Channels : k = run[r] /\ c = k.ch /\ RunOK(k) /\ ReadsStand(k)
                                           /\ CopyOK(c, k.at)
    BY <1>0, RunCopy
  <1>2. c.proposal # NULL  BY <1>0, <1>1 DEF CopyOK, Answered, Governed
  <1>3. PICK v \in Verdict \cup {NULL} :
            v = IF k.ctx.work THEN DecisionForApproval ELSE NULL
    BY ApprovalIsRead
  <1>4. PICK j : j = [k EXCEPT !.verdict = v, !.at = "govern_decide"]  OBVIOUS
  <1>5. /\ j \in Run /\ j.ch = k.ch /\ j.at = "govern_decide" /\ j.entry = k.entry
        /\ j.verdict = v
    BY <1>4 DEF Run, Inside
  <1>6. ReadsStand(j)
    <2>1. v # NULL => v = DecisionForApproval  BY <1>3
    <2> QED  BY <1>1, <1>5, <2>1, ApprovalIsRead DEF ReadsStand
  <1>7. RunOK(j)  BY <1>0, <1>1, <1>2, <1>5, <1>6, MovesInside
  <1>8. /\ run' = [run EXCEPT ![r] = j] /\ UNCHANGED <<records, saved, invocations>>
        /\ calls' \in [Versions -> Nat]
    BY <1>1, <1>3, <1>4 DEF GovernVerdict, Read, IInv, TypeOK
  <1> QED  BY <1>5, <1>7, <1>8, StepKeeps

(* What make_govern hands to the gate: a staff verdict as it was read, or a   *)
(* consent, which has no window.                                              *)
LEMMA RequestOfRun ==
    ASSUME IInv, NEW r \in Runs, NEW k \in Run, k = run[r], run[r] # NULL
    PROVE  \E req :
             /\ req = Request(r)
             /\ IsRequest(req)
             /\ req.entry = k.entry
             /\ req.now = now
             /\ req.decision # NULL /\ req.decision.kind = "consent" => req.expires_at = NULL
             /\ (req.decision # NULL /\ req.decision.kind = "approval") =>
                   /\ k.verdict # NULL
                   /\ req.decision.roles = k.verdict.roles
                   /\ req.decision.verdict = k.verdict.verdict
                   /\ req.expires_at = k.verdict.expires_at
             /\ req.decision # NULL => req.decision.kind \in DecisionKinds
  <1>1. PICK req : req = Request(r)  OBVIOUS
  <1>2. PICK d : d = RecordedDecision(r)  OBVIOUS
  <1>3. req = [admitted |-> k.ctx.admitted, entry |-> k.entry, entitled |-> k.entitled,
               version |-> k.ch.proposal, requester |-> "requester", now |-> now,
               decision |-> d, expires_at |-> IF d = NULL THEN NULL ELSE d.expires_at,
               knowledge |-> KnowledgeNotRequired]
    BY <1>1, <1>2 DEF Request, Chan
  <1>4. /\ req.entry = k.entry /\ req.now = now /\ req.decision = d
        /\ req.expires_at = IF d = NULL THEN NULL ELSE d.expires_at
    BY <1>3
  <1>5. req.admitted \in BOOLEAN /\ req.entitled \in BOOLEAN
    BY <1>3 DEF Run, Context
  <1>6. req.entry \in Entry \cup {NULL} /\ req.now \in Nat
    BY <1>4 DEF Run, IInv, TypeOK
  <1>7. CASE k.verdict # NULL
    <2>1. PICK v \in Verdict : v = k.verdict  BY <1>7 DEF Run
    <2>2. d = [kind |-> "approval", roles |-> v.roles, verdict |-> v.verdict,
               bound_to |-> v.bound_to, expires_at |-> v.expires_at]
      BY <1>2, <1>7, <2>1 DEF RecordedDecision
    <2>3. /\ d.kind = "approval" /\ d.roles = v.roles /\ d.verdict = v.verdict
          /\ d.expires_at = v.expires_at
      BY <2>2
    <2>4. v.roles \in SUBSET StaffRoles /\ v.expires_at \in Nat  BY DEF Verdict
    <2>5. req.expires_at \in Nat \cup {NULL}
      BY <1>4, <2>3, <2>4
    <2>6. d # NULL => req.expires_at = v.expires_at
      BY <1>4, <2>3
    <2>7. IsRequest(req)
      BY <1>4, <1>5, <1>6, <2>3, <2>4, <2>5 DEF IsRequest
    <2> QED  BY <1>1, <1>4, <1>7, <2>1, <2>3, <2>6, <2>7 DEF DecisionKinds
  <1>8. CASE k.verdict = NULL
    <2>1. \/ d = NULL
          \/ d = [kind |-> "consent", by |-> "requester", verdict |-> consent,
                  bound_to |-> operation, expires_at |-> NULL]
      BY <1>2, <1>8 DEF RecordedDecision, DecisionForConsent
    <2>2. d # NULL => d.kind = "consent" /\ d.expires_at = NULL
      BY <2>1
    <2>3. req.expires_at = NULL  BY <1>4, <2>2
    <2>4. IsRequest(req)
      BY <1>4, <1>5, <1>6, <2>2, <2>3 DEF IsRequest
    <2> QED  BY <1>1, <1>4, <2>2, <2>3, <2>4 DEF DecisionKinds
  <1> QED  BY <1>7, <1>8

(* The gate lets a run through only on what the rows still say. *)
LEMMA GateIsSound ==
    ASSUME IInv, NEW r \in Runs, NEW k \in Run, k = run[r], run[r] # NULL,
           Evaluate(Request(r)).disposition = "proceed"
    PROVE  /\ k.entry # NULL
           /\ catalogue[k.ch.proposal] = k.entry
           /\ \/ k.entry.treatment = "AUTO"
              \/ /\ k.entry.treatment = "STAFF_APPROVAL"
                 /\ approval # NULL
                 /\ approval.verdict = "approved"
                 /\ approval.roles \cap k.entry.roles # {}
                 /\ now < approval.expires_at
  <1>1. PICK req :
          /\ req = Request(r)
          /\ IsRequest(req)
          /\ req.entry = k.entry
          /\ req.now = now
          /\ req.decision # NULL /\ req.decision.kind = "consent" => req.expires_at = NULL
          /\ (req.decision # NULL /\ req.decision.kind = "approval") =>
                /\ k.verdict # NULL
                /\ req.decision.roles = k.verdict.roles
                /\ req.decision.verdict = k.verdict.verdict
                /\ req.expires_at = k.verdict.expires_at
          /\ req.decision # NULL => req.decision.kind \in DecisionKinds
    BY RequestOfRun
  <1>2. Answer(req) = "proceed"  BY <1>1, GateAnswers
  <1>3. ReadsStand(k)  BY DEF IInv, RunOK
  <1>4. Unimpeded(req)  BY <1>2 DEF Answer
  <1>5. k.entry # NULL /\ catalogue[k.ch.proposal] = k.entry
    BY <1>1, <1>3, <1>4 DEF Unimpeded, ReadsStand
  <1>6. \/ req.entry.treatment = "AUTO"
        \/ Consented(req)
        \/ req.entry.treatment = "STAFF_APPROVAL" /\ Approved(req)
    BY <1>2, <1>4 DEF Answer
  <1>7. ~Consented(req)  BY <1>1 DEF Consented
  <1>8. ASSUME Approved(req)
        PROVE  /\ approval # NULL
               /\ approval.verdict = "approved"
               /\ approval.roles \cap k.entry.roles # {}
               /\ now < approval.expires_at
    <2>1. /\ k.verdict # NULL
          /\ req.decision.roles = k.verdict.roles
          /\ req.decision.verdict = k.verdict.verdict
          /\ req.expires_at = k.verdict.expires_at
      BY <1>1, <1>8 DEF Approved
    <2>2. k.verdict.verdict \in StaffVerdicts  BY <2>1 DEF Run, Verdict
    <2>3. k.verdict.verdict = "approved"
      BY <1>8, <2>1, <2>2 DEF Approved, StaffVerdicts
    <2> QED  BY <1>1, <1>3, <1>8, <2>1, <2>3 DEF Approved, ReadsStand
  <1> QED  BY <1>1, <1>5, <1>6, <1>7, <1>8

LEMMA RouteIsNode ==
    ASSUME NEW d \in Dispositions
    PROVE  /\ RouteAfterGovern(d) \in {"execute", "await_consent", "await_approval", "close"}
           /\ SuspendsOn(d) \in DecisionKinds \cup {NULL}
           /\ RouteAfterGovern(d) = "execute" <=> d = "proceed"
           /\ RouteAfterGovern(d) = "execute" => SuspendsOn(d) = NULL
           /\ RouteAfterGovern(d) = "close" <=> d = "refuse"
  BY DEF RouteAfterGovern, SuspendsOn, Dispositions, DecisionKinds

LEMMA DecideKeeps ==
    ASSUME IInv, NEW r \in Runs, GovernDecide(r)
    PROVE  IInv'
  <1>0. run[r] # NULL /\ run[r].at = "govern_decide"  BY DEF GovernDecide, At
  <1>1. PICK k \in Run, c \in Channels : k = run[r] /\ c = k.ch /\ RunOK(k) /\ ReadsStand(k)
                                           /\ CopyOK(c, k.at)
    BY <1>0, RunCopy
  <1>2. c.proposal # NULL  BY <1>0, <1>1 DEF CopyOK, Answered, Governed
  <1>3. PICK o \in [treatment : Treatments, disposition : Dispositions, reason : GateReasons] :
            o = Evaluate(Request(r))
    <2>1. PICK req : req = Request(r) /\ IsRequest(req)  BY <1>0, <1>1, RequestOfRun
    <2> QED  BY <2>1, GateAnswers
  <1>4. PICK g : g = [treatment |-> o.treatment, disposition |-> o.disposition,
                      reason |-> o.reason, decided_at |-> now]
    OBVIOUS
  <1>5. g \in GateResult /\ g.disposition = o.disposition /\ g.decided_at = now
    <2>1. now \in Nat  BY DEF IInv, TypeOK
    <2> QED  BY <1>4, <2>1 DEF GateResult
  <1>6. PICK p \in DecisionKinds \cup {NULL} : p = SuspendsOn(o.disposition)
    BY RouteIsNode
  <1>7. PICK next \in {"execute", "await_consent", "await_approval", "close"} :
            next = RouteAfterGovern(o.disposition)
    BY RouteIsNode
  <1>8. PICK d : d = [c EXCEPT !.governance = g, !.pending = p]  OBVIOUS
  <1>9. /\ d \in Channels /\ d.governance = g /\ d.pending = p
        /\ d.proposal = c.proposal /\ d.decision = c.decision
        /\ d.session = c.session /\ Alike(d, c)
    <2>1. g \in GateResult /\ p \in DecisionKinds \cup {NULL} /\ c \in Channels  BY <1>5
    <2> QED  BY <1>8, <2>1 DEF Channels, Alike
  <1>10. CASE Stop(r) /\ UNCHANGED <<records, saved, calls, invocations>>
    BY <1>10, StopKeeps
  <1>11. CASE Return(r, d, next)
    <2>1. Announced(d, next)
      <3>1. d.governance # NULL  BY <1>5, <1>9, AgentNull
      <3>2. next = "execute" => d.pending = NULL  BY <1>6, <1>7, <1>9, RouteIsNode
      <3> QED  BY <1>2, <1>5, <1>6, <1>7, <1>9, <3>1, <3>2 DEF Announced
    <2>2. Answered(d, next)  BY <1>2, <1>7, <1>9 DEF Answered
    <2>3. Standing(d, next)
      <3> SUFFICES ASSUME next = "execute" PROVE Authorized(d.proposal, d)
        BY DEF Standing
      <3>1. Evaluate(Request(r)).disposition = "proceed"  BY <1>3, <1>7, RouteIsNode
      <3> QED  BY <1>0, <1>1, <1>5, <1>9, <3>1, GateIsSound DEF Authorized
    <2>4. Mirrored(d)  BY <1>1, <1>9 DEF CopyOK, Mirrored
    <2>5. Explained(d, next)
      <3>1. Explained(c, "govern_decide")  BY <1>0, <1>1 DEF CopyOK
      <3>2. ~Withheld(d) /\ d.session \notin {"closed_declined", "escalated"}
        BY <1>9, <3>1, AlikeAreWithheldAlike DEF Explained, Served, Passed, Governed
      <3>3. Rejected(d) <=> o.disposition = "refuse"
        BY <1>5, <1>9, AgentNull DEF Rejected
      <3>4. next = "close" <=> o.disposition = "refuse"  BY <1>7, RouteIsNode
      <3>5. d.proposal # NULL  BY <1>2, <1>9
      <3> QED  BY <1>7, <3>2, <3>3, <3>4, <3>5 DEF Explained
    <2>6. CopyOK(d, next)  BY <2>1, <2>2, <2>3, <2>4, <2>5 DEF CopyOK
    <2>7. next \in Nodes \cup {"end"}  BY <1>7 DEF Nodes
    <2> QED  BY <1>0, <1>9, <1>11, <2>6, <2>7, ReturnKeeps
  <1> QED  BY <1>1, <1>3, <1>4, <1>6, <1>7, <1>8, <1>10, <1>11 DEF GovernDecide, Chan

-----------------------------------------------------------------------------
(* The interrupts, execution and closure. *)

(* Back to the gate, with what was pending kept or cleared. *)
LEMMA BackToGate ==
    ASSUME NEW c, c.proposal # NULL, Mirrored(c), Explained(c, "govern")
    PROVE  CopyOK(c, "govern")
  BY DEF CopyOK, Announced, Answered, Standing

LEMMA WakeConsentKeeps ==
    ASSUME IInv, NEW r \in Runs, WakeConsent(r)
    PROVE  IInv'
  <1>0. run[r] # NULL /\ run[r].at = "consent_woken"  BY DEF WakeConsent, At
  <1>1. PICK k \in Run, c \in Channels : k = run[r] /\ c = k.ch /\ CopyOK(c, k.at)
    BY <1>0, RunCopy
  <1>2. c.proposal # NULL /\ Mirrored(c)
    BY <1>0, <1>1 DEF CopyOK, Answered, Governed
  <1>3. PICK d : d = IF k.ctx.work THEN DecisionForConsent ELSE NULL  OBVIOUS
  <1>4. "govern" \in Nodes \cup {"end"}  BY DEF Nodes
  <1>5. CASE d = NULL
    <2>1. PICK n : n = [c EXCEPT !.session = "awaiting_consent"]  OBVIOUS
    <2>2. "awaiting_consent" \in SessionStates \cup {NULL}  BY DEF SessionStates
    <2>3. /\ n \in Channels /\ n.proposal = c.proposal /\ n.decision = c.decision
          /\ n.session = "awaiting_consent" /\ n.governance = c.governance /\ Alike(n, c)
      BY <2>1, <2>2, SetSession
    <2>4. CopyOK(n, "govern")
      <3>1. Explained(n, "govern")  BY <1>0, <1>1, <2>3, ServedOn DEF CopyOK, Passed, Governed
      <3> QED  BY <1>2, <2>3, <3>1, BackToGate DEF Mirrored
    <2>5. Return(r, n, "govern")  BY <1>1, <1>3, <1>5, <2>1 DEF WakeConsent, Chan
    <2> QED  BY <1>0, <1>4, <2>3, <2>4, <2>5, ReturnKeeps
  <1>6. CASE d # NULL
    <2>1. d.verdict = consent /\ consent \in ConsentVerdicts
      BY <1>3, <1>6 DEF DecisionForConsent, IInv, TypeOK
    <2>2. PICK m \in Decided : m = [kind |-> "consent", verdict |-> d.verdict]
                                 /\ m.kind = "consent"
      <3>1. PICK v \in ConsentVerdicts : v = d.verdict  BY <2>1
      <3>2. [kind |-> "consent", verdict |-> v] \in Decided  BY DEF Decided, DecisionKinds
      <3> QED  BY <3>1, <3>2
    <2>3. PICK n : n = Mirror(c, m)  OBVIOUS
    <2>4. /\ n \in Channels /\ n.proposal = c.proposal
          /\ n.decision = IF c.decision = NULL THEN m ELSE c.decision
          /\ n.session = c.session /\ n.governance = c.governance /\ Alike(n, c)
      BY <2>3, SetMirror
    <2>5. Mirrored(n)  BY <1>2, <2>2, <2>4 DEF Mirrored
    <2>6. CopyOK(n, "govern")
      <3>1. Explained(c, k.at) /\ c.session \notin {"closed_declined", "escalated"}
        BY <1>0, <1>1 DEF CopyOK, Explained, Served, Passed, Governed
      <3>2. Explained(n, "govern")
        BY <1>0, <1>1, <2>4, <3>1, ServedOn DEF Passed, Governed
      <3> QED  BY <1>2, <2>4, <2>5, <3>2, BackToGate
    <2>7. Return(r, n, "govern")  BY <1>1, <1>3, <1>6, <2>2, <2>3 DEF WakeConsent, Chan
    <2> QED  BY <1>0, <1>4, <2>4, <2>6, <2>7, ReturnKeeps
  <1> QED  BY <1>5, <1>6

LEMMA WakeApprovalKeeps ==
    ASSUME IInv, NEW r \in Runs, WakeApproval(r)
    PROVE  IInv'
  <1>0. run[r] # NULL /\ run[r].at = "approval_woken"  BY DEF WakeApproval, At
  <1>1. PICK k \in Run, c \in Channels : k = run[r] /\ c = k.ch /\ CopyOK(c, k.at)
    BY <1>0, RunCopy
  <1>2. c.proposal # NULL /\ Mirrored(c)
    BY <1>0, <1>1 DEF CopyOK, Answered, Governed
  <1>3. PICK d : d = IF k.ctx.work THEN DecisionForApproval ELSE NULL  OBVIOUS
  <1>4. "govern" \in Nodes \cup {"end"}  BY DEF Nodes
  <1>5. CASE d = NULL
    <2>1. PICK n : n = [c EXCEPT !.session = "awaiting_approval"]  OBVIOUS
    <2>2. "awaiting_approval" \in SessionStates \cup {NULL}  BY DEF SessionStates
    <2>3. /\ n \in Channels /\ n.proposal = c.proposal /\ n.decision = c.decision
          /\ n.session = "awaiting_approval" /\ n.governance = c.governance /\ Alike(n, c)
      BY <2>1, <2>2, SetSession
    <2>4. CopyOK(n, "govern")
      <3>1. Explained(n, "govern")  BY <1>0, <1>1, <2>3, ServedOn DEF CopyOK, Passed, Governed
      <3> QED  BY <1>2, <2>3, <3>1, BackToGate DEF Mirrored
    <2>5. Return(r, n, "govern")  BY <1>1, <1>3, <1>5, <2>1 DEF WakeApproval, Chan
    <2> QED  BY <1>0, <1>4, <2>3, <2>4, <2>5, ReturnKeeps
  <1>6. CASE d # NULL
    <2>1. /\ d \in Verdict /\ approval # NULL /\ approval.verdict # NULL
          /\ approval.verdict = d.verdict
      BY <1>3, <1>6, ApprovalIsRead
    <2>2. PICK m \in Decided : m = [kind |-> "approval", verdict |-> d.verdict]
                                 /\ m.verdict = d.verdict
      <3>1. PICK v \in StaffVerdicts : v = d.verdict  BY <2>1 DEF Verdict
      <3>2. [kind |-> "approval", verdict |-> v] \in Decided  BY DEF Decided, DecisionKinds
      <3> QED  BY <3>1, <3>2
    <2>3. PICK n : n = Mirror(c, m)  OBVIOUS
    <2>4. /\ n \in Channels /\ n.proposal = c.proposal
          /\ n.decision = IF c.decision = NULL THEN m ELSE c.decision
          /\ n.session = c.session /\ n.governance = c.governance /\ Alike(n, c)
      BY <2>3, SetMirror
    <2>5. Mirrored(n)  BY <1>2, <2>1, <2>2, <2>4 DEF Mirrored
    <2>6. CopyOK(n, "govern")
      <3>1. Explained(c, k.at) /\ c.session \notin {"closed_declined", "escalated"}
        BY <1>0, <1>1 DEF CopyOK, Explained, Served, Passed, Governed
      <3>2. Explained(n, "govern")
        BY <1>0, <1>1, <2>4, <3>1, ServedOn DEF Passed, Governed
      <3> QED  BY <1>2, <2>4, <2>5, <3>2, BackToGate
    <2>7. Return(r, n, "govern")  BY <1>1, <1>3, <1>6, <2>2, <2>3 DEF WakeApproval, Chan
    <2> QED  BY <1>0, <1>4, <2>4, <2>6, <2>7, ReturnKeeps
  <1> QED  BY <1>5, <1>6

LEMMA ExecuteKeeps ==
    ASSUME IInv, NEW r \in Runs, Execute(r)
    PROVE  IInv'
  <1>0. run[r] # NULL /\ run[r].at = "execute"  BY DEF Execute, At
  <1>1. PICK k \in Run, c \in Channels : k = run[r] /\ c = k.ch /\ RunOK(k) /\ ReadsStand(k)
                                           /\ CopyOK(c, k.at)
    BY <1>0, RunCopy
  <1>2. CASE Stop(r) /\ UNCHANGED <<records, saved, calls, invocations>>
    BY <1>2, StopKeeps
  <1>3. CASE /\ c.proposal # NULL
             /\ calls' = [calls EXCEPT ![c.proposal] = @ + 1]
             /\ run' = [run EXCEPT ![r] = [run[r] EXCEPT !.at = "execute_record"]]
             /\ UNCHANGED <<records, saved, invocations>>
    <2>1. PICK j : j = [k EXCEPT !.at = "execute_record"]  OBVIOUS
    <2>2. /\ j \in Run /\ j.ch = k.ch /\ j.at = "execute_record" /\ j.entry = k.entry
          /\ j.verdict = k.verdict
      BY <2>1 DEF Run, Inside
    <2>3. CopyOK(c, "execute_record")
      <3>1. Announced(c, "execute_record")  BY <1>0, <1>1 DEF CopyOK, Announced
      <3>2. Answered(c, "execute_record") /\ Standing(c, "execute_record")
        BY DEF Answered, Governed, Standing
      <3>3. Explained(c, "execute_record")
        BY <1>0, <1>1 DEF CopyOK, Explained, Served, Passed, Governed
      <3> QED  BY <1>1, <3>1, <3>2, <3>3 DEF CopyOK
    <2>4. RunOK(j)  BY <1>1, <2>2, <2>3 DEF RunOK, ReadsStand
    <2>5. run' = [run EXCEPT ![r] = j]  BY <1>1, <1>3, <2>1
    <2>6. calls' \in [Versions -> Nat]
      <3>1. PICK v \in Versions : v = c.proposal  BY <1>3 DEF Channels
      <3> QED  BY <1>3, <3>1 DEF IInv, TypeOK
    <2> QED  BY <1>3, <2>2, <2>4, <2>5, <2>6, StepKeeps
  <1> QED  BY <1>1, <1>2, <1>3 DEF Execute, Chan

LEMMA RecordExecutionKeeps ==
    ASSUME IInv, NEW r \in Runs, RecordExecution(r)
    PROVE  IInv'
  <1>0. run[r] # NULL /\ run[r].at = "execute_record"  BY DEF RecordExecution, At
  <1>1. PICK k \in Run, c \in Channels : k = run[r] /\ c = k.ch /\ CopyOK(c, k.at)
    BY <1>0, RunCopy
  <1>2. PICK status \in ExecutionStatuses :
            \/ Return(r, [c EXCEPT !.execution = status], "verify")
            \/ Stop(r) /\ UNCHANGED <<records, saved, calls, invocations>>
    BY <1>1 DEF RecordExecution, Chan
  <1>3. CASE Stop(r) /\ UNCHANGED <<records, saved, calls, invocations>>
    BY <1>3, StopKeeps
  <1>4. CASE Return(r, [c EXCEPT !.execution = status], "verify")
    <2>1. PICK d : d = [c EXCEPT !.execution = status]  OBVIOUS
    <2>2. /\ d \in Channels /\ d.execution = status /\ d.pending = c.pending
          /\ d.proposal = c.proposal /\ d.decision = c.decision
          /\ d.session = c.session /\ d.governance = c.governance /\ Alike(d, c)
      BY <2>1, SetExecution
    <2>3. Announced(d, "verify")  BY <1>0, <1>1, <2>2 DEF CopyOK, Announced
    <2>4. Answered(d, "verify")  BY <2>2, AgentNull DEF Answered, Governed
    <2>5. Standing(d, "verify") /\ Mirrored(d)
      BY <1>1, <2>2 DEF Standing, CopyOK, Mirrored
    <2>6. CopyOK(d, "verify")
      <3>1. Explained(c, k.at) /\ c.session \notin {"closed_declined", "escalated"}
        BY <1>0, <1>1 DEF CopyOK, Explained, Served, Passed
      <3>2. Explained(d, "verify")  BY <1>0, <1>1, <2>2, <3>1, ServedOn DEF Passed
      <3> QED  BY <2>3, <2>4, <2>5, <3>2 DEF CopyOK
    <2>7. "verify" \in Nodes \cup {"end"}  BY DEF Nodes
    <2>8. Return(r, d, "verify")  BY <1>4, <2>1
    <2> QED  BY <1>0, <2>2, <2>6, <2>7, <2>8, ReturnKeeps
  <1> QED  BY <1>2, <1>3, <1>4

LEMMA VerifyKeeps ==
    ASSUME IInv, NEW r \in Runs, Verify(r)
    PROVE  IInv'
  <1>0. run[r] # NULL /\ run[r].at = "verify"  BY DEF Verify, At
  <1>1. PICK k \in Run, c \in Channels : k = run[r] /\ c = k.ch /\ CopyOK(c, k.at)
    BY <1>0, RunCopy
  <1>2. Announced(c, "end")  BY <1>0, <1>1 DEF CopyOK, Announced
  <1>3. Answered(c, "end")  BY <1>0, <1>1 DEF CopyOK, Answered, Governed
  <1>4. Explained(c, "end")
    BY <1>0, <1>1 DEF CopyOK, Explained, Served, Passed, Governed
  <1>5. CopyOK(c, "end")  BY <1>1, <1>2, <1>3, <1>4 DEF CopyOK, Standing
  <1>6. Return(r, c, "end")  BY <1>1 DEF Verify, Chan
  <1> QED  BY <1>0, <1>5, <1>6, ReturnKeeps

LEMMA CloseKeeps ==
    ASSUME IInv, NEW r \in Runs, Close(r)
    PROVE  IInv'
  <1>0. run[r] # NULL  BY DEF Close, At
  <1>1. PICK k \in Run, c \in Channels : k = run[r] /\ c = k.ch /\ CopyOK(c, k.at)
    BY <1>0, RunCopy
  <1>2. PICK d : d = [c EXCEPT !.session = "closed_declined", !.pending = NULL]  OBVIOUS
  <1>3. "closed_declined" \in SessionStates  BY DEF SessionStates
  <1>4. /\ d \in Channels /\ d.session = "closed_declined" /\ d.pending = NULL
        /\ d.decision = c.decision /\ d.governance = c.governance /\ Alike(d, c)
    BY <1>2, <1>3, SetClosed
  <1>5. Announced(d, "end") /\ Answered(d, "end") /\ Standing(d, "end")
    BY <1>4 DEF Announced, Answered, Governed, Standing
  <1>6. Explained(d, "end")
    <2>1. Explained(c, "close")  BY <1>1 DEF CopyOK, Close, At
    <2>2. Withheld(d) \/ Rejected(d)
      BY <1>4, <2>1, AlikeAreWithheldAlike DEF Explained, Rejected
    <2>3. d.governance # NULL => d.proposal # NULL
      BY <1>4, <2>1 DEF Explained, Alike
    <2> QED  BY <1>4, <2>2, <2>3 DEF Explained, Served, Passed, Governed
  <1>7. CopyOK(d, "end")  BY <1>1, <1>4, <1>5, <1>6 DEF CopyOK, Mirrored
  <1>8. Return(r, d, "end")  BY <1>1, <1>2 DEF Close, Chan
  <1> QED  BY <1>0, <1>4, <1>7, <1>8, ReturnKeeps

-----------------------------------------------------------------------------
LEMMA InitIInv == Init => IInv
  <1> SUFFICES ASSUME Init PROVE IInv
    OBVIOUS
  <1>1. Empty \in Channels
    BY DEF Empty, Channels
  <1>2. TypeOK
    <2>1. catalogue \in [Versions -> Entry \cup {NULL}]  BY InputAssumption DEF Init
    <2> QED  BY <1>1, <2>1 DEF Init, TypeOK
  <1>3. PICK c : c = Empty  OBVIOUS
  <1>4. c.pending = NULL /\ c.decision = NULL /\ c.governance = NULL  BY <1>3 DEF Empty
  <1>5. CopyOK(c, "start")
    BY <1>4 DEF CopyOK, Announced, Answered, Explained, Served, Passed, Governed, Standing,
                Mirrored
  <1>6. CopyOK(saved.ch, saved.next)  BY <1>3, <1>5 DEF Init
  <1> QED  BY <1>2, <1>6 DEF IInv, Init

LEMMA NextIInv == IInv /\ [Next]_vars => IInv'
  <1> SUFFICES ASSUME IInv, [Next]_vars PROVE IInv'
    OBVIOUS
  <1>1. CASE Platform  BY <1>1, PlatformKeeps
  <1>2. ASSUME NEW r \in Runs, Invocation(r) PROVE IInv'
    BY <1>2, SendMessageKeeps, InvokeKeeps, ResumeKeeps DEF Invocation
  <1>3. ASSUME NEW r \in Runs, NodeStep(r) PROVE IInv'
    <2>1. CASE Suspend(r)  BY <2>1, StopKeeps DEF Suspend
    <2> QED
      BY <1>3, <2>1, ConversationKeeps, ClassifyKeeps, LookupKeeps, EntitledKeeps, VerdictKeeps,
         DecideKeeps, WakeConsentKeeps, WakeApprovalKeeps, ExecuteKeeps,
         RecordExecutionKeeps, VerifyKeeps, CloseKeeps
      DEF NodeStep
  <1>4. ASSUME NEW r \in Runs, Abort(r) PROVE IInv'
    BY <1>4, StopKeeps DEF Abort
  <1>5. CASE UNCHANGED vars
    <2>1. /\ UNCHANGED <<active, entitled, catalogue, operation, approval, consent, now, changes>>
          /\ UNCHANGED <<saved, run, calls, invocations>>
      BY <1>5 DEF vars, records
    <2>2. TypeOK'  BY <2>1 DEF IInv, TypeOK
    <2>3. CopyOK(saved.ch, saved.next)'
      BY <2>1 DEF IInv, CopyOK, Announced, Answered, Explained, Withheld, Rejected, Standing,
                  Authorized, Mirrored
    <2>4. \A r \in Runs : run'[r] # NULL => RunOK(run[r])'
      BY <2>1 DEF IInv, RunOK, ReadsStand, CopyOK, Announced, Answered, Explained, Withheld,
                  Rejected, Standing, Authorized, Mirrored
    <2> QED  BY <2>2, <2>3, <2>4 DEF IInv
  <1> QED  BY <1>1, <1>2, <1>3, <1>4, <1>5 DEF Next

(* The checkpoint and every run's copy of it are consistent with one another  *)
(* and with the durable rows at every step of any number of runs, crashes and *)
(* resumes: what the theorems below rest on.                                  *)
THEOREM AgentInvariant == Spec => []IInv
  BY InitIInv, NextIInv, PTL DEF Spec

(* Every variable of the thread and of its records keeps its type, through    *)
(* any number of runs, turns, resumes and crashes (AgentState, the reducers). *)
THEOREM AgentTypeOK == Spec => []TypeOK
  BY AgentInvariant, PTL DEF IInv

(* A thread at rest says why it rests: make_close, route_after_govern and     *)
(* _route_after_propose leave no request without an answer, and a session is  *)
(* closed_declined exactly when the guardrail withheld it (an escalation      *)
(* among them) or the gate refused it.                                        *)
THEOREM AgentRests == Spec => []RestIsExplained
  <1>1. IInv => RestIsExplained
    BY DEF IInv, CopyOK, Announced, Answered, Explained, RestIsExplained
  <1> QED  BY <1>1, AgentInvariant, PTL

(* No copy of the thread's state remembers a verdict other than the one on    *)
(* the approval row (record_verdict, seal_human_decision).                    *)
THEOREM AgentMirrors == Spec => []MirrorIsTheRow
  <1>1. IInv => MirrorIsTheRow
    <2> SUFFICES ASSUME IInv, NEW ch \in AllChannels
                 PROVE  Mirrored(ch)
      BY DEF MirrorIsTheRow, Mirrored
    <2> QED  BY DEF AllChannels, Chan, IInv, RunOK, CopyOK
  <1> QED  BY <1>1, AgentInvariant, PTL

(* Only the execute node calls the port. *)
LEMMA OnlyExecuteCalls ==
    ASSUME IInv, [Next]_vars, calls' # calls
    PROVE  \E r \in Runs : Execute(r)
  <1>1. ~Platform  BY PlatformTypes DEF Aside, IInv
  <1>2. ASSUME NEW r \in Runs PROVE ~Invocation(r)
    BY DEF Invocation, SendMessage, InvokeWithProposal, Resume, Begin
  <1>3. ASSUME NEW r \in Runs, NodeStep(r) PROVE Execute(r)
    BY <1>3 DEF NodeStep, Intake, Converse, Retrieve, Ground, Guardrail, Propose, Classify,
                GovernLookup, GovernEntitled, GovernVerdict, GovernDecide, Read, Suspend,
                WakeConsent, WakeApproval, RecordExecution, Verify, Close, Return
  <1>4. ASSUME NEW r \in Runs PROVE ~Abort(r)  BY DEF Abort
  <1>5. Next  BY DEF vars
  <1> QED  BY <1>1, <1>2, <1>3, <1>4, <1>5 DEF Next

(* However many runs share the thread and however stale what each of them     *)
(* holds, the external capability is only ever invoked for a version the      *)
(* durable rows authorize: make_execute's check of the channel is enough,     *)
(* because nothing the gate relied on can be taken back (RowsStand).          *)
THEOREM AgentSpends == Spec => SpendsOnlyStandingAuthority
  <1>1. ASSUME IInv, [Next]_vars, NEW v \in Versions, calls'[v] # calls[v]
        PROVE  \E r \in Runs : At(r, "execute") /\ Chan(r).proposal = v /\ Authorized(v, Chan(r))
    <2>1. PICK r \in Runs : Execute(r)  BY <1>1, OnlyExecuteCalls
    <2>2. At(r, "execute")  BY <2>1 DEF Execute
    <2>3. PICK k \in Run, c \in Channels : k = run[r] /\ c = k.ch /\ CopyOK(c, k.at)
      BY <1>1, <2>2, RunCopy DEF At
    <2>4. Authorized(c.proposal, c)  BY <2>2, <2>3 DEF At, CopyOK, Standing
    <2>5. calls' = [calls EXCEPT ![c.proposal] = @ + 1]
      BY <1>1, <2>1, <2>3 DEF Execute, Chan
    <2>6. c.proposal = v  BY <1>1, <2>5 DEF IInv, TypeOK
    <2> QED  BY <2>2, <2>3, <2>4, <2>6 DEF Chan
  <1>2. IInv /\ [Next]_vars =>
          [\A v \in Versions : calls'[v] # calls[v] =>
              \E r \in Runs : /\ At(r, "execute")
                              /\ Chan(r).proposal = v
                              /\ Authorized(v, Chan(r))]_vars
    BY <1>1
  <1> QED  BY <1>2, AgentInvariant, PTL DEF Spec, SpendsOnlyStandingAuthority

-----------------------------------------------------------------------------
(* No run turns back. *)

Advances(r) == run[r] # NULL /\ run'[r] # NULL /\ run'[r] # run[r]
                   => Stage(run[r].at) < Stage(run'[r].at)

LEMMA Stages ==
    /\ Stage("intake") = 1 /\ Stage("converse") = 2 /\ Stage("retrieve") = 3
    /\ Stage("ground") = 4 /\ Stage("guardrail") = 5 /\ Stage("propose") = 6
    /\ Stage("classify") = 7 /\ Stage("consent_woken") = 8 /\ Stage("approval_woken") = 8
    /\ Stage("govern") = 9 /\ Stage("govern_entitled") = 10 /\ Stage("govern_verdict") = 11
    /\ Stage("govern_decide") = 12 /\ Stage("await_consent") = 13
    /\ Stage("await_approval") = 13 /\ Stage("execute") = 14 /\ Stage("execute_record") = 15
    /\ Stage("verify") = 16 /\ Stage("close") = 17
  BY DEF Stage

LEMMA OthersStand ==
    ASSUME TypeOK, NEW r \in Runs, NEW k, run' = [run EXCEPT ![r] = k],
           run[r] = NULL \/ k = NULL \/ Stage(run[r].at) < Stage(k.at)
    PROVE  \A q \in Runs : Advances(q)
  BY DEF TypeOK, Advances

LEMMA ReturnAdvances ==
    ASSUME TypeOK, NEW r \in Runs, NEW ch, NEW next, Return(r, ch, next),
           next = "end" \/ Stage(run[r].at) < Stage(next)
    PROVE  \A q \in Runs : Advances(q)
  <1>1. CASE next = "end"
    <2>1. PICK k : k = NULL  OBVIOUS
    <2> QED  BY <1>1, <2>1, OthersStand DEF Return, Stop
  <1>2. CASE next # "end"
    <2>1. PICK k : k = Running(run[r].ctx, ch, next)  OBVIOUS
    <2>2. k.at = next  BY <2>1 DEF Running
    <2>3. run' = [run EXCEPT ![r] = k]  BY <1>2, <2>1 DEF Return
    <2> QED  BY <1>2, <2>2, <2>3, OthersStand
  <1> QED  BY <1>1, <1>2

LEMMA StopAdvances ==
    ASSUME TypeOK, NEW r \in Runs, Stop(r)
    PROVE  \A q \in Runs : Advances(q)
  <1>1. PICK k : k = NULL  OBVIOUS
  <1> QED  BY <1>1, OthersStand DEF Stop

LEMMA ConversationAdvances ==
    ASSUME TypeOK, NEW r \in Runs,
           \/ Intake(r) \/ Converse(r) \/ Retrieve(r) \/ Ground(r) \/ Guardrail(r)
           \/ Propose(r) \/ Classify(r)
    PROVE  \A q \in Runs : Advances(q)
  <1>1. CASE Intake(r)
    <2>1. PICK ch : Return(r, ch, "converse")  BY <1>1, Zenon DEF Intake
    <2> QED  BY <1>1, <2>1, Stages, ReturnAdvances DEF Intake, At
  <1>2. CASE Converse(r)
    <2>1. PICK ch : Return(r, ch, "retrieve")  BY <1>2, Zenon DEF Converse
    <2> QED  BY <1>2, <2>1, Stages, ReturnAdvances DEF Converse, At
  <1>3. CASE Retrieve(r)
    <2>1. PICK ch : Return(r, ch, "ground")  BY <1>3, Zenon DEF Retrieve
    <2> QED  BY <1>3, <2>1, Stages, ReturnAdvances DEF Retrieve, At
  <1>4. CASE Ground(r)
    <2>1. PICK ch : Return(r, ch, "guardrail")  BY <1>4, Zenon DEF Ground
    <2> QED  BY <1>4, <2>1, Stages, ReturnAdvances DEF Ground, At
  <1>5. CASE Guardrail(r)
    <2>1. PICK ch, next : Return(r, ch, next) /\ next \in {"close", "propose"}
      <3>1. PICK ch, s : Return(r, ch, IF s \in {"closed_declined", "escalated"}
                                       THEN "close" ELSE "propose")
        BY <1>5, Zenon DEF Guardrail
      <3> QED  BY <3>1
    <2> QED  BY <1>5, <2>1, Stages, ReturnAdvances DEF Guardrail, At
  <1>6. CASE Propose(r)
    <2>1. PICK ch : Return(r, ch, "classify")  BY <1>6, Zenon DEF Propose
    <2> QED  BY <1>6, <2>1, Stages, ReturnAdvances DEF Propose, At
  <1>7. CASE Classify(r)
    <2>1. PICK ch, next : Return(r, ch, next) /\ next \in {"end", "govern"}
      <3>1. PICK ch, p : Return(r, ch, IF p = NULL THEN "end" ELSE "govern")
        BY <1>7, Zenon DEF Classify
      <3> QED  BY <3>1
    <2> QED  BY <1>7, <2>1, Stages, ReturnAdvances DEF Classify, At
  <1> QED  BY <1>1, <1>2, <1>3, <1>4, <1>5, <1>6, <1>7

LEMMA GateAdvances ==
    ASSUME IInv, NEW r \in Runs,
           GovernLookup(r) \/ GovernEntitled(r) \/ GovernVerdict(r) \/ GovernDecide(r)
    PROVE  \A q \in Runs : Advances(q)
  <1>0. run[r] # NULL
    BY DEF GovernLookup, GovernEntitled, GovernVerdict, GovernDecide, At
  <1>1. PICK k \in Run : k = run[r]  BY <1>0 DEF IInv, TypeOK
  <1>2. CASE GovernLookup(r)
    <2>1. PICK e : run' = [run EXCEPT ![r] = [k EXCEPT !.entry = e, !.at = "govern_entitled"]]
      BY <1>1, <1>2 DEF GovernLookup, Read
    <2>2. PICK j : j = [k EXCEPT !.entry = e, !.at = "govern_entitled"]  OBVIOUS
    <2>3. j.at = "govern_entitled"  BY <2>2 DEF Run
    <2>4. Stage(run[r].at) < Stage(j.at)  BY <1>2, <2>3, Stages DEF GovernLookup, At
    <2>5. run' = [run EXCEPT ![r] = j]  BY <2>1, <2>2
    <2> QED  BY <2>4, <2>5, OthersStand DEF IInv
  <1>3. CASE GovernEntitled(r)
    <2>1. PICK j : j = [k EXCEPT !.entitled = entitled, !.at = "govern_verdict"]  OBVIOUS
    <2>2. run' = [run EXCEPT ![r] = j]  BY <1>1, <1>3, <2>1 DEF GovernEntitled, Read
    <2>3. j.at = "govern_verdict"  BY <2>1 DEF Run
    <2>4. Stage(run[r].at) < Stage(j.at)  BY <1>3, <2>3, Stages DEF GovernEntitled, At
    <2> QED  BY <2>2, <2>4, OthersStand DEF IInv
  <1>4. CASE GovernVerdict(r)
    <2>1. PICK v : v = IF k.ctx.work THEN DecisionForApproval ELSE NULL  OBVIOUS
    <2>2. PICK j : j = [k EXCEPT !.verdict = v, !.at = "govern_decide"]  OBVIOUS
    <2>3. run' = [run EXCEPT ![r] = j]  BY <1>1, <1>4, <2>1, <2>2 DEF GovernVerdict, Read
    <2>4. j.at = "govern_decide"  BY <2>2 DEF Run
    <2>5. Stage(run[r].at) < Stage(j.at)  BY <1>4, <2>4, Stages DEF GovernVerdict, At
    <2> QED  BY <2>3, <2>5, OthersStand DEF IInv
  <1>5. CASE GovernDecide(r)
    <2>1. PICK d \in Dispositions : d = Evaluate(Request(r)).disposition
      <3>1. PICK req : req = Request(r) /\ IsRequest(req)  BY <1>0, <1>1, RequestOfRun
      <3> QED  BY <3>1, GateAnswers
    <2>2. Stop(r) \/ \E ch : Return(r, ch, RouteAfterGovern(d))
      BY <1>5, <2>1, Zenon DEF GovernDecide
    <2>3. CASE Stop(r)  BY <2>3, StopAdvances DEF IInv
    <2>4. CASE \E ch : Return(r, ch, RouteAfterGovern(d))
      <3>1. PICK ch, next : /\ Return(r, ch, next)
                            /\ next \in {"execute", "await_consent", "await_approval", "close"}
        BY <2>4, RouteIsNode
      <3> QED  BY <1>5, <3>1, Stages, ReturnAdvances DEF GovernDecide, At, IInv
    <2> QED  BY <2>2, <2>3, <2>4
  <1> QED  BY <1>2, <1>3, <1>4, <1>5

LEMMA EndAdvances ==
    ASSUME IInv, NEW r \in Runs,
           \/ Suspend(r) \/ WakeConsent(r) \/ WakeApproval(r) \/ Execute(r)
           \/ RecordExecution(r) \/ Verify(r) \/ Close(r) \/ Abort(r)
    PROVE  \A q \in Runs : Advances(q)
  <1>1. TypeOK  BY DEF IInv
  <1>2. CASE Suspend(r) \/ Abort(r)
    BY <1>1, <1>2, StopAdvances DEF Suspend, Abort
  <1>3. CASE WakeConsent(r)
    <2>1. PICK ch : Return(r, ch, "govern")  BY <1>3, Zenon DEF WakeConsent
    <2> QED  BY <1>1, <1>3, <2>1, Stages, ReturnAdvances DEF WakeConsent, At
  <1>4. CASE WakeApproval(r)
    <2>1. PICK ch : Return(r, ch, "govern")  BY <1>4, Zenon DEF WakeApproval
    <2> QED  BY <1>1, <1>4, <2>1, Stages, ReturnAdvances DEF WakeApproval, At
  <1>5. CASE Execute(r)
    <2>1. CASE Stop(r)  BY <1>1, <2>1, StopAdvances
    <2>2. CASE run' = [run EXCEPT ![r] = [run[r] EXCEPT !.at = "execute_record"]]
      <3>1. PICK k \in Run : k = run[r]  BY <1>1, <1>5 DEF Execute, At, TypeOK
      <3>2. PICK j : j = [k EXCEPT !.at = "execute_record"]  OBVIOUS
      <3>3. j.at = "execute_record"  BY <3>2 DEF Run
      <3>4. Stage(run[r].at) < Stage(j.at)  BY <1>5, <3>3, Stages DEF Execute, At
      <3>5. run' = [run EXCEPT ![r] = j]  BY <2>2, <3>1, <3>2
      <3> QED  BY <1>1, <3>4, <3>5, OthersStand
    <2> QED  BY <1>5, <2>1, <2>2 DEF Execute
  <1>6. CASE RecordExecution(r)
    <2>1. Stop(r) \/ \E ch : Return(r, ch, "verify")  BY <1>6, Zenon DEF RecordExecution
    <2> QED  BY <1>1, <1>6, <2>1, Stages, ReturnAdvances, StopAdvances DEF RecordExecution, At
  <1>7. CASE Verify(r) \/ Close(r)
    <2>1. PICK ch : Return(r, ch, "end")  BY <1>7, Zenon DEF Verify, Close
    <2> QED  BY <1>1, <2>1, ReturnAdvances
  <1> QED  BY <1>2, <1>3, <1>4, <1>5, <1>6, <1>7

(* A run passes each stage at most once, whatever the checkpoint and the rows *)
(* do meanwhile; so the cycle between the gate and an interrupt is never      *)
(* followed within one run, and no run invokes the port twice.                *)
THEOREM AgentAdvances == Spec => RunsOnlyAdvance
  <1>1. ASSUME IInv, [Next]_vars PROVE \A q \in Runs : Advances(q)
    <2>1. CASE Platform \/ UNCHANGED vars
      <3>1. run' = run  BY <1>1, <2>1, PlatformTypes DEF IInv, Aside, vars
      <3> QED  BY <3>1 DEF Advances
    <2>2. ASSUME NEW r \in Runs, Invocation(r) PROVE \A q \in Runs : Advances(q)
      <3>1. PICK ctx, ch, at : Begin(r, ctx, ch, at)
        BY <2>2, Zenon DEF Invocation, SendMessage, InvokeWithProposal, Resume
      <3>2. PICK k : k = Running(ctx, ch, at)  OBVIOUS
      <3> QED  BY <1>1, <3>1, <3>2, OthersStand DEF Begin, IInv
    <2>3. ASSUME NEW r \in Runs, NodeStep(r) \/ Abort(r) PROVE \A q \in Runs : Advances(q)
      BY <1>1, <2>3, ConversationAdvances, GateAdvances, EndAdvances DEF NodeStep, IInv
    <2> QED  BY <1>1, <2>1, <2>2, <2>3 DEF Next
  <1>2. IInv /\ [Next]_vars =>
          [\A r \in Runs : run[r] # NULL /\ run'[r] # NULL /\ run'[r] # run[r]
               => Stage(run[r].at) < Stage(run'[r].at)]_vars
    BY <1>1 DEF Advances
  <1> QED  BY <1>2, AgentInvariant, PTL DEF Spec, RunsOnlyAdvance

=============================================================================
