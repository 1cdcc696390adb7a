----------------------- MODULE WeightExecutionProofs -----------------------
(***************************************************************************)
(* WeightExecution is type correct and submits a plan at most once, for    *)
(* any plans, any number of process slots, any views and any ledger size.  *)
(***************************************************************************)
EXTENDS WeightExecution, TLAPS

(* A signer that owns an attempt is the only one that can block its plan;  *)
(* its attempt is open and carries the send marker exactly from "submit".  *)
OwnsAttempt(s) ==
    LET i == sg[s].idx IN
    /\ i \in 1..Len(sgLedger)
    /\ sg[s].snap \in Snapshot
    /\ sg[s].plan \in Plans
    /\ sgLedger[i].plan = sg[s].plan
    /\ sgLedger[i].status = "in_progress"
    /\ sgLedger[i].started = (sg[s].pc # "wallet")
    /\ \A j \in 1..Len(sgLedger) :
         j # i /\ sgLedger[j].plan = sg[s].plan => ~Blocks(sgLedger[j])

SignerInv ==
    \A s \in Signers :
        /\ sg[s].pc # "idle" => sgLock = s /\ sg[s].plan \in Plans
        /\ sg[s].pc \in {"read", "admit", "wallet", "submit", "sent", "respond"} =>
             sg[s].peer \in AttemptId
        /\ sg[s].pc \in {"wallet", "submit", "sent"} => OwnsAttempt(s)
        /\ sg[s].pc = "respond" => sg[s].outcome \in Verdict
        /\ sg[s].pc = "submit" => \A k \in 1..Len(xts) : xts[k].by # sg[s].idx

ExecutorInv ==
    \A e \in Executors :
        ex[e].pc # "idle" => /\ exLock = e
                             /\ ex[e].idx \in 1..Len(exLedger)
                             /\ ex[e].snap \in Snapshot

ExtrinsicInv ==
    \A k \in 1..Len(xts) :
        /\ xts[k].by \in 1..Len(sgLedger)
        /\ sgLedger[xts[k].by].started
        /\ sgLedger[xts[k].by].plan = xts[k].plan

OncePerPlan == \A j, k \in 1..Len(xts) : xts[j].plan = xts[k].plan => j = k

IInv == TypeOK /\ ExecutorInv /\ SignerInv /\ ExtrinsicInv /\ OncePerPlan

-----------------------------------------------------------------------------
(* What the ledger operations return. *)

LEMMA AppendLedger ==
    ASSUME NEW L \in Seq(AuditAttempt), NEW a \in AuditAttempt
    PROVE  /\ Append(L, a) \in Seq(AuditAttempt)
           /\ Len(Append(L, a)) = Len(L) + 1
           /\ \A j \in 1..Len(L) : Append(L, a)[j] = L[j]
           /\ Append(L, a)[Len(L) + 1] = a
    OBVIOUS

LEMMA NewAttemptIsAttempt ==
    ASSUME NEW p \in Plans, NEW snap \in Snapshot
    PROVE  /\ NewAttempt(p, snap) \in AuditAttempt
           /\ NewAttempt(p, snap).plan = p
           /\ NewAttempt(p, snap).status = "in_progress"
           /\ NewAttempt(p, snap).started = FALSE
    BY ConstantsAssumption DEF NewAttempt, AuditAttempt, Snapshot, DeriveVector, Status

LEMMA AttemptMarked ==
    ASSUME NEW a \in AuditAttempt, NEW b \in 1..MaxBlock
    PROVE  LET m == [a EXCEPT !.started = TRUE, !.sendCheck = b] IN
           m \in AuditAttempt /\ m.plan = a.plan /\ m.status = a.status /\ m.started = TRUE
  <1>1. b \in 0..MaxBlock
    BY ConstantsAssumption
  <1> QED
    BY Zenon, <1>1 DEF AuditAttempt

LEMMA AttemptFinished ==
    ASSUME NEW a \in AuditAttempt, NEW st \in Status
    PROVE  LET m == [a EXCEPT !.status = st] IN
           m \in AuditAttempt /\ m.plan = a.plan /\ m.started = a.started
    BY DEF AuditAttempt

LEMMA MarkLedger ==
    ASSUME NEW L \in Seq(AuditAttempt), NEW i \in 1..Len(L), NEW b \in 1..MaxBlock
    PROVE  LET M == MarkStarted(L, i, b) IN
           /\ M \in Seq(AuditAttempt)
           /\ Len(M) = Len(L)
           /\ \A j \in 1..Len(L) : /\ M[j].plan = L[j].plan /\ M[j].status = L[j].status
                                   /\ j # i => M[j] = L[j]
           /\ M[i].started = TRUE
  <1>1. MarkStarted(L, i, b) = [L EXCEPT ![i] = [L[i] EXCEPT !.started = TRUE, !.sendCheck = b]]
    BY Zenon DEF MarkStarted
  <1>2. L[i] \in AuditAttempt
    OBVIOUS
  <1> DEFINE a == [L[i] EXCEPT !.started = TRUE, !.sendCheck = b]
  <1>3. a \in AuditAttempt /\ a.plan = L[i].plan /\ a.status = L[i].status /\ a.started = TRUE
    BY Zenon, <1>2, AttemptMarked
  <1> HIDE DEF a
  <1> QED
    BY <1>1, <1>3 DEF a

LEMMA FinishLedger ==
    ASSUME NEW L \in Seq(AuditAttempt), NEW i \in 1..Len(L), NEW st \in Status
    PROVE  LET M == FinishAttempt(L, i, st) IN
           /\ M \in Seq(AuditAttempt)
           /\ Len(M) = Len(L)
           /\ \A j \in 1..Len(L) : /\ M[j].plan = L[j].plan /\ M[j].started = L[j].started
                                   /\ j # i => M[j] = L[j]
  <1>1. FinishAttempt(L, i, st) = [L EXCEPT ![i] = [L[i] EXCEPT !.status = st]]
    BY DEF FinishAttempt
  <1>2. L[i] \in AuditAttempt
    OBVIOUS
  <1> DEFINE a == [L[i] EXCEPT !.status = st]
  <1>3. a \in AuditAttempt /\ a.plan = L[i].plan /\ a.started = L[i].started
    BY <1>2, AttemptFinished
  <1> HIDE DEF a
  <1> QED
    BY <1>1, <1>3 DEF a

-----------------------------------------------------------------------------
(* Executor steps. *)

LEMMA SignerSideKept ==
    ASSUME SignerInv, ExtrinsicInv, OncePerPlan, UNCHANGED <<sgLedger, sgLock, sg, xts>>
    PROVE  SignerInv' /\ ExtrinsicInv' /\ OncePerPlan'
    BY DEF SignerInv, OwnsAttempt, ExtrinsicInv, OncePerPlan, Blocks

LEMMA EndExecutorInv ==
    ASSUME TypeOK, ExecutorInv, NEW e \in Executors, ex[e].pc # "idle", EndExecutor(e)
    PROVE  /\ ex' \in [Executors -> ExecutorState]
           /\ exLock' \in Executors \cup {None}
           /\ conn' \in [AttemptId -> Connection]
           /\ ExecutorInv'
  <1>1. IdleExecutor \in ExecutorState
    BY ConstantsAssumption DEF IdleExecutor, ExecutorState
  <1>2. ex' \in [Executors -> ExecutorState] /\ exLock' \in Executors \cup {None}
    BY <1>1 DEF EndExecutor, TypeOK
  <1>3. \A i \in AttemptId : [conn[i] EXCEPT !.up = FALSE] \in Connection
    BY Zenon DEF TypeOK, Connection
  <1>4. conn' \in [AttemptId -> Connection]
    BY <1>3 DEF EndExecutor, TypeOK
  <1>5. \A f \in Executors : ex'[f].pc = "idle"
    BY DEF EndExecutor, ExecutorInv, TypeOK, IdleExecutor
  <1> QED
    BY <1>2, <1>4, <1>5 DEF ExecutorInv

LEMMA ReportType ==
    ASSUME TypeOK, NEW w \in {"executor", "signer"}, NEW i \in 1..MaxAttempts,
           NEW v \in Verdict, Report(w, i, v)
    PROVE  reports' \subseteq RunReport
    BY DEF TypeOK, Report, RunReport, AttemptId

LEMMA ExecutorIdx ==
    ASSUME TypeOK, ExecutorInv, NEW e \in Executors, ex[e].pc # "idle"
    PROVE  ex[e].idx \in 1..Len(exLedger) /\ ex[e].idx \in 1..MaxAttempts
  <1>1. ex[e].idx \in 1..Len(exLedger)
    BY DEF ExecutorInv
  <1>2. Len(exLedger) \in Nat /\ Len(exLedger) <= MaxAttempts
    BY DEF TypeOK
  <1> QED
    BY <1>1, <1>2, ConstantsAssumption

(* One action at a time; the signer's side of the state does not move. *)
LEMMA ExecutorStepInv ==
    ASSUME IInv, NEW e \in Executors, ExecutorStep(e)
    PROVE  IInv'
  <1> USE DEF IInv
  <1>1. UNCHANGED <<sgLedger, sgLock, sg, socket, xts>>
    BY Zenon DEF ExecutorStep, ExecutorStart, ExecutorOpen, ExecutorPreSendFailure, ExecutorSendCheck,
           ExecutorSubmit, ExecutorFinish, ExecutorCrash
  <1>2. SignerInv' /\ ExtrinsicInv' /\ OncePerPlan'
    BY <1>1, SignerSideKept
  <1>3. SUFFICES /\ exLedger' \in Seq(AuditAttempt) /\ Len(exLedger') <= MaxAttempts
                 /\ exLock' \in Executors \cup {None}
                 /\ ex' \in [Executors -> ExecutorState]
                 /\ conn' \in [AttemptId -> Connection]
                 /\ reports' \subseteq RunReport
                 /\ ExecutorInv'
    BY <1>1, <1>2 DEF TypeOK
  <1>4. ASSUME NEW p \in Plans, NEW snap \in Snapshot, ExecutorStart(e, p, snap)
        PROVE  <1>3!1
    <2> DEFINE new == Append(exLedger, NewAttempt(p, snap))
    <2>1. /\ new \in Seq(AuditAttempt) /\ Len(new) = Len(exLedger) + 1
      BY Zenon, NewAttemptIsAttempt, AppendLedger DEF TypeOK
    <2>2. Len(exLedger) + 1 \in 0..MaxAttempts
      <3>1. Len(exLedger) < MaxAttempts /\ Len(exLedger) \in Nat
        BY <1>4 DEF ExecutorStart, CanStart, TypeOK
      <3> QED BY <3>1, ConstantsAssumption
    <2>3. PICK ok \in BOOLEAN :
             /\ exLedger' \in Persist(ok, exLedger, new)
             /\ exLock' = IF ok THEN e ELSE None
             /\ ex' = IF ok THEN [ex EXCEPT ![e] = [pc |-> "open", plan |-> p, snap |-> snap,
                                                    idx |-> Len(exLedger) + 1]]
                            ELSE ex
      BY <1>4 DEF ExecutorStart
    <2>4. exLedger' \in {exLedger, new} /\ (ok => exLedger' = new)
      BY <2>3 DEF Persist
    <2>5. \A f \in Executors : ex[f].pc = "idle"
      BY <1>4, ConstantsAssumption DEF ExecutorStart, LockFree, ExecutorInv
    <2>6. UNCHANGED <<conn, reports>>
      BY <1>4 DEF ExecutorStart
    <2>7. [pc |-> "open", plan |-> p, snap |-> snap, idx |-> Len(exLedger) + 1] \in ExecutorState
      BY <2>2 DEF ExecutorState
    <2> HIDE DEF new
    <2>8. ExecutorInv'
      <3>1. CASE ok
        BY <3>1, <2>1, <2>3, <2>4, <2>5 DEF ExecutorInv, TypeOK
      <3>2. CASE ~ok
        BY <3>2, <2>3, <2>5 DEF ExecutorInv, TypeOK
      <3> QED BY <3>1, <3>2
    <2>9. exLedger' \in Seq(AuditAttempt) /\ Len(exLedger') <= MaxAttempts
      BY <2>1, <2>2, <2>4 DEF TypeOK
    <2>10. ex' \in [Executors -> ExecutorState]
      <3>1. CASE ok
        BY <3>1, <2>3, <2>7 DEF TypeOK
      <3>2. CASE ~ok
        BY <3>2, <2>3 DEF TypeOK
      <3> QED BY <3>1, <3>2
    <2> QED
      BY <2>3, <2>6, <2>8, <2>9, <2>10 DEF TypeOK
  <1>5. CASE ExecutorOpen(e)
    <2>1. /\ ex' = [ex EXCEPT ![e].pc = "check"]
          /\ conn' = [conn EXCEPT ![ex[e].idx] =
                         [to |-> socket.listener, up |-> TRUE, req |-> FALSE, reply |-> None]]
          /\ UNCHANGED <<exLedger, exLock, reports>> /\ ex[e].pc = "open"
      BY <1>5 DEF ExecutorOpen
    <2>2. ex' \in [Executors -> ExecutorState]
      BY Zenon, <2>1 DEF TypeOK, ExecutorState
    <2>3. conn' \in [AttemptId -> Connection]
      BY Zenon, <2>1 DEF TypeOK, Connection
    <2>4. ExecutorInv'
      BY <2>1 DEF ExecutorInv, TypeOK, ExecutorState
    <2> QED
      BY <2>1, <2>2, <2>3, <2>4 DEF TypeOK
  <1>6. CASE ExecutorPreSendFailure(e)
    <2>1. ex[e].pc # "idle" /\ EndExecutor(e) /\ Report("executor", ex[e].idx, "rejected")
      BY <1>6 DEF ExecutorPreSendFailure
    <2>6. ex[e].idx \in 1..Len(exLedger) /\ ex[e].idx \in 1..MaxAttempts
      BY <2>1, ExecutorIdx
    <2>2. exLedger' \in {exLedger, FinishAttempt(exLedger, ex[e].idx, "failed")}
      BY <1>6 DEF ExecutorPreSendFailure, Persist
    <2>3. exLedger' \in Seq(AuditAttempt) /\ Len(exLedger') = Len(exLedger)
      BY <2>6, <2>2, FinishLedger DEF TypeOK, Status
    <2>4. reports' \subseteq RunReport
      BY <2>1, <2>6, ReportType DEF Verdict
    <2> QED
      BY <2>1, <2>3, <2>4, EndExecutorInv DEF TypeOK
  <1>7. ASSUME NEW snap \in Snapshot, ExecutorSendCheck(e, snap)
        PROVE  <1>3!1
    <2> DEFINE new == MarkStarted(exLedger, ex[e].idx, snap.block)
    <2>1. ex[e].pc = "check" /\ ex[e].idx \in 1..Len(exLedger) /\ ex[e].idx \in 1..MaxAttempts
      BY <1>7, ExecutorIdx DEF ExecutorSendCheck
    <2>5. snap.block \in 1..MaxBlock /\ exLedger \in Seq(AuditAttempt)
      BY <1>7 DEF Snapshot, TypeOK
    <2>2. new \in Seq(AuditAttempt) /\ Len(new) = Len(exLedger)
      BY Zenon, <2>1, <2>5, MarkLedger
    <2>3. CASE exLedger' = new /\ ex' = [ex EXCEPT ![e].pc = "submit"]
               /\ UNCHANGED <<exLock, conn, reports>>
      <3>1. ex' \in [Executors -> ExecutorState]
        BY Zenon, <2>3 DEF TypeOK, ExecutorState
      <3>2. ExecutorInv'
        BY <2>1, <2>2, <2>3 DEF ExecutorInv, TypeOK, ExecutorState
      <3> QED
        BY <3>1, <3>2, <2>2, <2>3 DEF TypeOK
    <2>4. CASE /\ exLedger' \in {exLedger, new}
               /\ Report("executor", ex[e].idx, "rejected") /\ EndExecutor(e)
      <3>1. reports' \subseteq RunReport
        BY <2>1, <2>4, ReportType DEF Verdict
      <3> QED
        BY <3>1, <2>1, <2>2, <2>4, EndExecutorInv DEF TypeOK
    <2> QED
      BY <1>7, <2>3, <2>4 DEF ExecutorSendCheck, Persist
  <1>8. CASE ExecutorSubmit(e)
    <2>1. /\ ex' = [ex EXCEPT ![e].pc = "wait"]
          /\ conn' = [conn EXCEPT ![ex[e].idx].req = TRUE]
          /\ UNCHANGED <<exLedger, exLock, reports>> /\ ex[e].pc = "submit"
      BY <1>8 DEF ExecutorSubmit
    <2>2. ex' \in [Executors -> ExecutorState]
      BY Zenon, <2>1 DEF TypeOK, ExecutorState
    <2>3. conn' \in [AttemptId -> Connection]
      BY Zenon, <2>1 DEF TypeOK, Connection
    <2>4. ExecutorInv'
      BY <2>1 DEF ExecutorInv, TypeOK, ExecutorState
    <2> QED
      BY <2>1, <2>2, <2>3, <2>4 DEF TypeOK
  <1>9. ASSUME NEW v \in Verdict, ExecutorFinish(e, v)
        PROVE  <1>3!1
    <2>1. ex[e].pc # "idle" /\ EndExecutor(e) /\ Report("executor", ex[e].idx, v)
      BY <1>9 DEF ExecutorFinish
    <2>6. ex[e].idx \in 1..Len(exLedger) /\ ex[e].idx \in 1..MaxAttempts
      BY <2>1, ExecutorIdx
    <2>2. exLedger' \in {exLedger, FinishAttempt(exLedger, ex[e].idx, LedgerStatus(v))}
      BY <1>9 DEF ExecutorFinish, Persist
    <2>3. LedgerStatus(v) \in Status
      BY DEF LedgerStatus, Verdict, Status
    <2>4. exLedger' \in Seq(AuditAttempt) /\ Len(exLedger') = Len(exLedger)
      BY <2>6, <2>2, <2>3, FinishLedger DEF TypeOK
    <2>5. reports' \subseteq RunReport
      BY <2>1, <2>6, ReportType
    <2> QED
      BY <2>1, <2>4, <2>5, EndExecutorInv DEF TypeOK
  <1>10. CASE ExecutorCrash(e)
    BY <1>10, EndExecutorInv DEF ExecutorCrash, TypeOK
  <1> QED
    BY <1>4, <1>5, <1>6, <1>7, <1>8, <1>9, <1>10 DEF ExecutorStep

-----------------------------------------------------------------------------
(* Signer steps. *)

LEMMA ExecutorSideKept ==
    ASSUME ExecutorInv, UNCHANGED <<exLedger, exLock, ex>>
    PROVE  ExecutorInv'
    BY DEF ExecutorInv

(* What the updates of a signer slot return. *)
LEMMA SignerAt ==
    ASSUME NEW a \in SignerState,
           NEW x \in {"accept", "read", "admit", "wallet", "submit", "sent", "respond"}
    PROVE  LET m == [a EXCEPT !.pc = x] IN
           /\ m \in SignerState /\ m.pc = x /\ m.plan = a.plan /\ m.peer = a.peer
           /\ m.snap = a.snap /\ m.idx = a.idx /\ m.outcome = a.outcome
    BY DEF SignerState

LEMMA SignerStarted ==
    ASSUME NEW a \in SignerState, NEW p \in Plans, NEW c \in Vectors
    PROVE  LET m == [a EXCEPT !.pc = "accept", !.plan = p, !.confirm = c] IN
           m \in SignerState /\ m.pc = "accept" /\ m.plan = p
    BY Zenon DEF SignerState

LEMMA SignerPeer ==
    ASSUME NEW a \in SignerState, NEW i \in 0..MaxAttempts
    PROVE  LET m == [a EXCEPT !.pc = "read", !.peer = i] IN
           m \in SignerState /\ m.pc = "read" /\ m.plan = a.plan /\ m.peer = i
    BY Zenon DEF SignerState

LEMMA SignerVerdict ==
    ASSUME NEW a \in SignerState, NEW v \in Verdict
    PROVE  LET m == [a EXCEPT !.pc = "respond", !.outcome = v] IN
           /\ m \in SignerState /\ m.pc = "respond" /\ m.plan = a.plan /\ m.peer = a.peer
           /\ m.outcome = v
    BY Zenon DEF SignerState

(* The ledger keeps what the extrinsics rely on: entries stay, keep their  *)
(* plan and never lose the send marker.                                    *)
LEMMA ExtrinsicsKept ==
    ASSUME TypeOK, ExtrinsicInv, OncePerPlan, UNCHANGED xts, Len(sgLedger') \in Nat,
           Len(sgLedger') >= Len(sgLedger),
           \A j \in 1..Len(sgLedger) : /\ sgLedger'[j].plan = sgLedger[j].plan
                                       /\ sgLedger[j].started => sgLedger'[j].started
    PROVE  ExtrinsicInv' /\ OncePerPlan'
  <1>1. OncePerPlan'
    BY DEF OncePerPlan
  <1>2. Len(sgLedger) \in Nat
    BY DEF TypeOK
  <1>3. ExtrinsicInv'
    BY <1>2 DEF ExtrinsicInv
  <1> QED BY <1>1, <1>3

LEMMA OnlySigner ==
    ASSUME SignerInv, NEW s \in Signers, sg[s].pc # "idle"
    PROVE  \A t \in Signers : t # s => sg[t].pc = "idle"
    BY DEF SignerInv

LEMMA NoSigner ==
    ASSUME SignerInv, sgLock = None
    PROVE  \A t \in Signers : sg[t].pc = "idle"
    BY ConstantsAssumption DEF SignerInv

LEMMA EndSignerInv ==
    ASSUME TypeOK, SignerInv, NEW s \in Signers, sg[s].pc # "idle", NEW o \in BOOLEAN,
           EndSigner(s, o)
    PROVE  /\ sg' \in [Signers -> SignerState]
           /\ sgLock' \in Signers \cup {None}
           /\ socket' \in [path : BOOLEAN, listener : Signers \cup {None}]
           /\ SignerInv'
  <1>1. IdleSigner \in SignerState
    BY ConstantsAssumption DEF IdleSigner, SignerState
  <1>2. sg' \in [Signers -> SignerState] /\ sgLock' \in Signers \cup {None}
    BY <1>1 DEF EndSigner, TypeOK
  <1>3. socket' \in [path : BOOLEAN, listener : Signers \cup {None}]
    BY DEF EndSigner, TypeOK
  <1>4. \A t \in Signers : sg'[t].pc = "idle"
    BY OnlySigner DEF EndSigner, TypeOK, IdleSigner
  <1> QED
    BY <1>2, <1>3, <1>4 DEF SignerInv

LEMMA RespondInv ==
    ASSUME TypeOK, SignerInv, NEW s \in Signers, NEW v \in Verdict,
           sg[s].pc \in {"admit", "wallet", "submit", "sent"},
           sg' = Respond(s, v), UNCHANGED sgLock
    PROVE  sg' \in [Signers -> SignerState] /\ SignerInv'
  <1>1. sg' = [sg EXCEPT ![s] = [sg[s] EXCEPT !.pc = "respond", !.outcome = v]]
    BY Zenon DEF Respond, TypeOK
  <1> DEFINE r == [sg[s] EXCEPT !.pc = "respond", !.outcome = v]
  <1>7. sg[s] \in SignerState
    BY DEF TypeOK
  <1>9. /\ r \in SignerState /\ r.pc = "respond" /\ r.outcome = v
        /\ r.plan = sg[s].plan /\ r.peer = sg[s].peer
    BY Zenon, <1>7, SignerVerdict
  <1>10. sg' = [sg EXCEPT ![s] = r]
    BY <1>1
  <1> HIDE DEF r
  <1>2. sg' \in [Signers -> SignerState]
    BY <1>9, <1>10 DEF TypeOK
  <1>3. \A t \in Signers : t # s => sg'[t].pc = "idle"
    <2>1. sg[s].pc # "idle"
      OBVIOUS
    <2>2. \A t \in Signers : t # s => sg[t].pc = "idle"
      BY <2>1, OnlySigner
    <2> QED BY <1>10, <2>2 DEF TypeOK
  <1>4. /\ sg'[s].pc = "respond" /\ sg'[s].outcome = v
        /\ sg'[s].plan = sg[s].plan /\ sg'[s].peer = sg[s].peer
    BY <1>9, <1>10 DEF TypeOK
  <1>5. sgLock' = s /\ sg[s].plan \in Plans /\ sg[s].peer \in AttemptId
    BY DEF SignerInv
  <1>6. SignerInv'
    BY <1>3, <1>4, <1>5 DEF SignerInv
  <1> QED BY <1>2, <1>6

LEMMA DisconnectedType ==
    ASSUME TypeOK, NEW s \in Signers
    PROVE  \A i \in AttemptId : Disconnected(conn[i], s) \in Connection
    BY Zenon DEF TypeOK, Disconnected, Connection

(* What a signer step has to establish: the other side does not move. *)
SignerGoal ==
    /\ sgLedger \in Seq(AuditAttempt) /\ Len(sgLedger) <= MaxAttempts
    /\ sgLock \in Signers \cup {None}
    /\ sg \in [Signers -> SignerState]
    /\ socket \in [path : BOOLEAN, listener : Signers \cup {None}]
    /\ conn \in [AttemptId -> Connection]
    /\ xts \in Seq(Extrinsic)
    /\ reports \subseteq RunReport
    /\ SignerInv /\ ExtrinsicInv /\ OncePerPlan

LEMMA SignerGoalSuffices ==
    ASSUME IInv, UNCHANGED <<exLedger, exLock, ex>>, SignerGoal'
    PROVE  IInv'
    BY ExecutorSideKept DEF IInv, TypeOK, SignerGoal

(* Starting, accepting, reading and giving up: no ledger entry is touched. *)
LEMMA SignerFrontInv ==
    ASSUME IInv, NEW s \in Signers,
           \/ \E p \in Plans, c \in Vectors : SignerStart(s, p, c)
           \/ \E i \in AttemptId : SignerAccept(s, i)
           \/ SignerRead(s) \/ SignerTimeout(s) \/ SignerCrash(s)
    PROVE  IInv'
  <1> USE DEF IInv
  <1>1. UNCHANGED <<exLedger, exLock, ex, sgLedger, xts, reports>>
    BY Zenon DEF SignerStart, SignerAccept, SignerRead, SignerTimeout, SignerCrash
  <1>2. ExtrinsicInv' /\ OncePerPlan'
    BY <1>1 DEF ExtrinsicInv, OncePerPlan
  <1>3. SUFFICES /\ sgLock' \in Signers \cup {None}
                 /\ sg' \in [Signers -> SignerState]
                 /\ socket' \in [path : BOOLEAN, listener : Signers \cup {None}]
                 /\ conn' \in [AttemptId -> Connection]
                 /\ SignerInv'
    BY <1>1, <1>2, SignerGoalSuffices DEF TypeOK, SignerGoal
  <1>4. ASSUME NEW p \in Plans, NEW c \in Vectors, SignerStart(s, p, c)
        PROVE  <1>3!1
    <2> DEFINE r == [IdleSigner EXCEPT !.pc = "accept", !.plan = p, !.confirm = c]
    <2>1. r \in SignerState /\ r.pc = "accept" /\ r.plan = p
      <3>1. IdleSigner \in SignerState
        BY ConstantsAssumption DEF IdleSigner, SignerState
      <3> QED
        BY Zenon, <3>1, SignerStarted
    <2>2. \A t \in Signers : sg[t].pc = "idle"
      BY Zenon, <1>4, NoSigner DEF SignerStart, LockFree
    <2>3. /\ sgLock' = s /\ socket' = [path |-> TRUE, listener |-> s]
          /\ sg' = [sg EXCEPT ![s] = r] /\ conn' = conn
      BY Zenon, <1>4 DEF SignerStart
    <2> HIDE DEF r
    <2>4. sg' \in [Signers -> SignerState]
      BY SMTT(30), <2>1, <2>3 DEF TypeOK
    <2>5. SignerInv'
      BY Zenon, <2>1, <2>2, <2>3 DEF SignerInv, TypeOK
    <2> QED
      BY <2>3, <2>4, <2>5 DEF TypeOK
  <1>5. ASSUME NEW i \in AttemptId, SignerAccept(s, i)
        PROVE  <1>3!1
    <2> DEFINE r == [sg[s] EXCEPT !.pc = "read", !.peer = i]
    <2>1. sg[s].pc = "accept" /\ sg' = [sg EXCEPT ![s] = r] /\ UNCHANGED <<sgLock, socket, conn>>
      BY Zenon, <1>5 DEF SignerAccept, TypeOK
    <2>2. r \in SignerState /\ r.pc = "read" /\ r.plan = sg[s].plan /\ r.peer = i
      <3>1. sg[s] \in SignerState /\ i \in 0..MaxAttempts
        BY ConstantsAssumption DEF TypeOK, AttemptId
      <3> QED
        BY Zenon, <3>1, SignerPeer
    <2>3. \A t \in Signers : t # s => sg[t].pc = "idle"
      BY <2>1, OnlySigner
    <2> HIDE DEF r
    <2>4. sg' \in [Signers -> SignerState]
      BY SMTT(30), <2>1, <2>2 DEF TypeOK
    <2>5. SignerInv'
      BY Zenon, <2>1, <2>2, <2>3 DEF SignerInv, TypeOK
    <2> QED
      BY <2>1, <2>4, <2>5 DEF TypeOK
  <1>6. CASE SignerRead(s)
    <2> DEFINE r == [sg[s] EXCEPT !.pc = "admit"]
    <2>1. /\ sg[s].pc = "read" /\ sg' = [sg EXCEPT ![s] = r] /\ UNCHANGED sgLock
          /\ socket' = [path |-> FALSE, listener |-> None]
          /\ conn' = [i \in AttemptId |-> IF i = sg[s].peer THEN conn[i]
                                          ELSE Disconnected(conn[i], s)]
      BY <1>6 DEF SignerRead, TypeOK
    <2>2. r \in SignerState /\ r.pc = "admit" /\ r.plan = sg[s].plan /\ r.peer = sg[s].peer
      BY Zenon DEF TypeOK, SignerState
    <2>3. \A t \in Signers : t # s => sg[t].pc = "idle"
      BY <2>1, OnlySigner
    <2> HIDE DEF r
    <2>4. sg' \in [Signers -> SignerState]
      BY <2>1, <2>2 DEF TypeOK
    <2>5. SignerInv'
      BY Zenon, <2>1, <2>2, <2>3 DEF SignerInv, TypeOK
    <2>6. conn' \in [AttemptId -> Connection]
      BY SMTT(30), <2>1, DisconnectedType DEF TypeOK
    <2> QED
      BY <2>1, <2>4, <2>5, <2>6 DEF TypeOK
  <1>7. CASE SignerTimeout(s) \/ SignerCrash(s)
    <2>1. PICK o \in BOOLEAN : EndSigner(s, o)
      BY Zenon, <1>7 DEF SignerTimeout, SignerCrash
    <2>2. sg[s].pc # "idle" /\ conn' = [i \in AttemptId |-> Disconnected(conn[i], s)]
      BY Zenon, <1>7 DEF SignerTimeout, SignerCrash
    <2>3. conn' \in [AttemptId -> Connection]
      BY <2>2, DisconnectedType
    <2> QED
      BY <2>1, <2>2, <2>3, EndSignerInv
  <1> QED
    BY <1>4, <1>5, <1>6, <1>7

(* The recorded attempt of a signer that owns one. *)
LEMMA SignerIdx ==
    ASSUME IInv, NEW s \in Signers, sg[s].pc \in {"wallet", "submit", "sent"}
    PROVE  /\ sg[s].idx \in 1..Len(sgLedger) /\ sg[s].idx \in AttemptId
           /\ sg[s].snap \in Snapshot /\ sg[s].plan \in Plans /\ sg[s].peer \in AttemptId
  <1>1. OwnsAttempt(s) /\ sg[s].peer \in AttemptId
    BY DEF IInv, SignerInv
  <1>2. Len(sgLedger) \in Nat /\ Len(sgLedger) <= MaxAttempts
    BY DEF IInv, TypeOK
  <1> QED
    BY <1>1, <1>2, ConstantsAssumption DEF OwnsAttempt, AttemptId

(* Steps that end in an answer, whichever ledger file is left behind. *)
LEMMA SignerAnswers ==
    ASSUME IInv, NEW s \in Signers, NEW v \in Verdict,
           sg[s].pc \in {"admit", "wallet", "submit", "sent"}, sg' = Respond(s, v),
           UNCHANGED <<exLedger, exLock, sgLock, ex, socket, conn, xts, reports>>,
           sgLedger' \in Seq(AuditAttempt), Len(sgLedger') <= MaxAttempts,
           Len(sgLedger') >= Len(sgLedger),
           \A j \in 1..Len(sgLedger) : /\ sgLedger'[j].plan = sgLedger[j].plan
                                       /\ sgLedger[j].started => sgLedger'[j].started
    PROVE  IInv'
  <1> USE DEF IInv
  <1>1. sg' \in [Signers -> SignerState] /\ SignerInv'
    BY RespondInv
  <1>2. ExtrinsicInv' /\ OncePerPlan'
    BY ExtrinsicsKept
  <1> QED
    BY <1>1, <1>2, SignerGoalSuffices DEF TypeOK, SignerGoal

(* Installing the in-progress attempt: nothing of the plan blocks before it. *)
LEMMA SignerAdmitInv ==
    ASSUME IInv, NEW s \in Signers, NEW snap \in Snapshot, SignerAdmit(s, snap)
    PROVE  IInv'
  <1> USE DEF IInv
  <1> DEFINE n == NewAttempt(sg[s].plan, snap)
             new == Append(sgLedger, n)
             r == [sg[s] EXCEPT !.pc = "wallet", !.snap = snap, !.idx = Len(new)]
  <1>1. sg[s].pc = "admit" /\ sg[s].plan \in Plans /\ sg[s].peer \in AttemptId /\ sgLock = s
    BY DEF SignerAdmit, SignerInv
  <1>2. n \in AuditAttempt /\ n.plan = sg[s].plan /\ n.status = "in_progress" /\ n.started = FALSE
    BY Zenon, <1>1, NewAttemptIsAttempt
  <1> HIDE DEF n
  <1>3. /\ new \in Seq(AuditAttempt) /\ Len(new) = Len(sgLedger) + 1
        /\ \A j \in 1..Len(sgLedger) : new[j] = sgLedger[j]
        /\ new[Len(sgLedger) + 1] = n
    BY <1>2, AppendLedger DEF TypeOK
  <1>4. Len(sgLedger) + 1 \in 0..MaxAttempts /\ Len(sgLedger) \in Nat
    <2>1. Len(sgLedger) < MaxAttempts /\ Len(sgLedger) \in Nat
      BY DEF SignerAdmit, CanStart, TypeOK
    <2> QED BY <2>1, ConstantsAssumption
  <1>5. \A j \in 1..Len(sgLedger) : sgLedger[j].plan = sg[s].plan => ~Blocks(sgLedger[j])
    BY DEF SignerAdmit, CanStart, BlockingAttempt, TypeOK
  <1> HIDE DEF new
  <1>6. CASE sgLedger' = new /\ sg' = [sg EXCEPT ![s].pc = "wallet", ![s].snap = snap,
                                                 ![s].idx = Len(new)]
             /\ UNCHANGED <<exLedger, exLock, sgLock, ex, socket, conn, xts, reports>>
    <2>1. sg' = [sg EXCEPT ![s] = r]
      BY Zenon, <1>6 DEF TypeOK
    <2>2. /\ r \in SignerState /\ r.pc = "wallet" /\ r.plan = sg[s].plan
          /\ r.peer = sg[s].peer /\ r.snap = snap /\ r.idx = Len(sgLedger) + 1
      <3>1. sg[s] \in SignerState /\ Len(new) \in 0..MaxAttempts
        BY <1>3, <1>4 DEF TypeOK
      <3> DEFINE k == Len(new)
      <3>2. k \in 0..MaxAttempts /\ k = Len(sgLedger) + 1
        BY <3>1, <1>3
      <3>3. r = [sg[s] EXCEPT !.pc = "wallet", !.snap = snap, !.idx = k]
        OBVIOUS
      <3> DEFINE a == sg[s]
      <3>4. a \in SignerState
        BY <3>1
      <3> HIDE DEF k, r, a
      <3>5. LET m == [a EXCEPT !.pc = "wallet", !.snap = snap, !.idx = k] IN
            /\ m \in SignerState /\ m.pc = "wallet" /\ m.plan = a.plan
            /\ m.peer = a.peer /\ m.snap = snap /\ m.idx = k
        BY Zenon, <3>2, <3>4 DEF SignerState
      <3> QED BY <3>2, <3>3, <3>5 DEF a
    <2> HIDE DEF r
    <2>3. sg' \in [Signers -> SignerState] /\ sg'[s] = r
      BY <2>1, <2>2 DEF TypeOK
    <2>4. \A t \in Signers : t # s => sg'[t].pc = "idle"
      BY <1>1, <2>1, OnlySigner DEF TypeOK
    <2>5. \A j \in 1..Len(new) : j # r.idx /\ new[j].plan = sg[s].plan => ~Blocks(new[j])
      BY <1>3, <1>4, <1>5, <2>2
    <2>6. OwnsAttempt(s)'
      <3>1. /\ sg'[s].idx = Len(sgLedger) + 1 /\ sg'[s].snap = snap
            /\ sg'[s].plan = sg[s].plan /\ sg'[s].pc = "wallet" /\ sgLedger' = new
        BY Zenon, <1>6, <2>2, <2>3
      <3>2. sg'[s].idx \in 1..Len(sgLedger') /\ sgLedger'[sg'[s].idx] = n
        BY <3>1, <1>3, <1>4
      <3>3. \A j \in 1..Len(sgLedger') :
               j # sg'[s].idx /\ sgLedger'[j].plan = sg'[s].plan => ~Blocks(sgLedger'[j])
        BY <3>1, <2>2, <2>5
      <3> QED
        BY Zenon, <3>1, <3>2, <3>3, <1>1, <1>2 DEF OwnsAttempt, Blocks
    <2>7. SignerInv'
      BY <1>1, <1>6, <2>2, <2>3, <2>4, <2>6 DEF SignerInv
    <2>8. ExtrinsicInv' /\ OncePerPlan'
      BY <1>3, <1>4, <1>6, ExtrinsicsKept
    <2> QED
      BY <1>3, <1>4, <1>6, <2>3, <2>7, <2>8, SignerGoalSuffices DEF TypeOK, SignerGoal
  <1>7. CASE sgLedger' \in {sgLedger, new} /\ sg' = Respond(s, "rejected")
             /\ UNCHANGED <<exLedger, exLock, sgLock, ex, socket, conn, xts, reports>>
    <2>1. /\ sgLedger' \in Seq(AuditAttempt) /\ Len(sgLedger') <= MaxAttempts
          /\ Len(sgLedger') >= Len(sgLedger)
          /\ \A j \in 1..Len(sgLedger) : sgLedger'[j] = sgLedger[j]
      BY <1>3, <1>4, <1>7 DEF TypeOK
    <2>2. "rejected" \in Verdict
      BY DEF Verdict
    <2> QED
      BY Zenon, <1>1, <1>7, <2>1, <2>2, SignerAnswers
  <1> QED
    BY <1>6, <1>7 DEF SignerAdmit, Persist, new, n

(* Installing the send marker on the owned attempt. *)
LEMMA SignerSendCheckInv ==
    ASSUME IInv, NEW s \in Signers, NEW snap \in Snapshot, SignerSendCheck(s, snap)
    PROVE  IInv'
  <1> USE DEF IInv
  <1> DEFINE i == sg[s].idx
             new == MarkStarted(sgLedger, i, snap.block)
  <1>1. sg[s].pc = "wallet" /\ OwnsAttempt(s) /\ sgLock = s /\ sg[s].peer \in AttemptId
    BY DEF SignerSendCheck, SignerInv
  <1>2. i \in 1..Len(sgLedger) /\ snap.block \in 1..MaxBlock /\ sgLedger \in Seq(AuditAttempt)
    BY <1>1 DEF OwnsAttempt, Snapshot, TypeOK
  <1>3. /\ new \in Seq(AuditAttempt) /\ Len(new) = Len(sgLedger)
        /\ \A j \in 1..Len(sgLedger) : /\ new[j].plan = sgLedger[j].plan
                                       /\ new[j].status = sgLedger[j].status
                                       /\ j # i => new[j] = sgLedger[j]
        /\ new[i].started = TRUE
    BY Zenon, <1>2, MarkLedger
  <1>4. Len(sgLedger) \in Nat /\ Len(sgLedger) <= MaxAttempts
    BY DEF TypeOK
  <1> HIDE DEF new
  <1>5. \A j \in 1..Len(sgLedger) : sgLedger[j].started => new[j].started
    BY <1>2, <1>3
  <1>6. CASE sgLedger' = new /\ sg' = [sg EXCEPT ![s].pc = "submit"]
             /\ UNCHANGED <<exLedger, exLock, sgLock, ex, socket, conn, xts, reports>>
    <2> DEFINE r == [sg[s] EXCEPT !.pc = "submit"]
    <2>1. sg' = [sg EXCEPT ![s] = r] /\ sg[s] \in SignerState
      BY <1>6 DEF TypeOK
    <2>2. /\ r \in SignerState /\ r.pc = "submit" /\ r.plan = sg[s].plan
          /\ r.peer = sg[s].peer /\ r.snap = sg[s].snap /\ r.idx = i
      BY Zenon, <2>1, SignerAt
    <2> HIDE DEF r
    <2>3. sg' \in [Signers -> SignerState] /\ sg'[s] = r
      BY <2>1, <2>2 DEF TypeOK
    <2>4. \A t \in Signers : t # s => sg'[t].pc = "idle"
      <3>1. \A t \in Signers : t # s => sg[t].pc = "idle"
        BY <1>1, OnlySigner
      <3> QED BY <3>1, <2>1 DEF TypeOK
    <2>5. OwnsAttempt(s)'
      <3>1. /\ sg'[s].idx = i /\ sg'[s].snap = sg[s].snap
            /\ sg'[s].plan = sg[s].plan /\ sg'[s].pc = "submit" /\ sgLedger' = new
        BY <1>6, <2>2, <2>3
      <3>2. \A j \in 1..Len(new) : j # i /\ new[j].plan = sg[s].plan => ~Blocks(new[j])
        BY <1>1, <1>3 DEF OwnsAttempt
      <3>3. /\ i \in 1..Len(new) /\ new[i].plan = sg[s].plan
            /\ new[i].status = "in_progress" /\ new[i].started = TRUE
        BY <1>1, <1>2, <1>3 DEF OwnsAttempt
      <3>4. sg[s].snap \in Snapshot /\ sg[s].plan \in Plans
        BY <1>1 DEF OwnsAttempt
      <3> QED
        BY Zenon, <3>1, <3>2, <3>3, <3>4 DEF OwnsAttempt, Blocks
    <2>6. \A k \in 1..Len(xts') : xts'[k].by # sg'[s].idx
      BY Zenon, <1>1, <1>6, <2>2, <2>3 DEF OwnsAttempt, ExtrinsicInv
    <2>7. sg[s].plan \in Plans
      BY <1>1 DEF OwnsAttempt
    <2>8. SignerInv'
      BY <1>1, <1>6, <2>2, <2>3, <2>4, <2>5, <2>6, <2>7 DEF SignerInv
    <2>9. ExtrinsicInv' /\ OncePerPlan'
      BY <1>3, <1>4, <1>5, <1>6, ExtrinsicsKept
    <2> QED
      BY <1>3, <1>4, <1>6, <2>3, <2>8, <2>9, SignerGoalSuffices DEF TypeOK, SignerGoal
  <1>7. CASE sgLedger' \in {sgLedger, new} /\ sg' = Respond(s, "rejected")
             /\ UNCHANGED <<exLedger, exLock, sgLock, ex, socket, conn, xts, reports>>
    <2>1. /\ sgLedger' \in Seq(AuditAttempt) /\ Len(sgLedger') = Len(sgLedger)
          /\ \A j \in 1..Len(sgLedger) : /\ sgLedger'[j].plan = sgLedger[j].plan
                                         /\ sgLedger[j].started => sgLedger'[j].started
      BY <1>2, <1>3, <1>5, <1>7
    <2>2. "rejected" \in Verdict
      BY DEF Verdict
    <2> QED
      BY <1>1, <1>4, <1>7, <2>1, <2>2, SignerAnswers
  <1> QED
    BY <1>6, <1>7 DEF SignerSendCheck, Persist, new

(* Refusing, failing before the send and recording an outcome. *)
LEMMA SignerConcludes ==
    ASSUME IInv, NEW s \in Signers,
           \/ SignerRefuse(s) \/ SignerPreSendFailure(s)
           \/ \E v \in Verdict : SignerOutcome(s, v)
    PROVE  IInv'
  <1> USE DEF IInv
  <1>1. "rejected" \in Verdict /\ "failed" \in Status
    BY DEF Verdict, Status
  <1>2. sgLedger \in Seq(AuditAttempt) /\ Len(sgLedger) \in Nat /\ Len(sgLedger) <= MaxAttempts
    BY SMTT(30) DEF TypeOK
  <1>3. CASE SignerRefuse(s)
    <2>1. /\ sg[s].pc \in {"admit", "wallet", "submit", "sent"} /\ sg' = Respond(s, "rejected")
          /\ UNCHANGED <<exLedger, exLock, sgLock, ex, socket, conn, xts, reports>>
          /\ sgLedger' = sgLedger
      BY <1>3 DEF SignerRefuse
    <2>2. /\ sgLedger' \in Seq(AuditAttempt) /\ Len(sgLedger') <= MaxAttempts
          /\ Len(sgLedger') >= Len(sgLedger)
          /\ \A j \in 1..Len(sgLedger) : sgLedger'[j] = sgLedger[j]
      BY <1>2, <2>1
    <2> QED
      BY SMTT(30), <1>1, <2>1, <2>2, SignerAnswers
  <1>4. ASSUME NEW v \in Verdict, NEW st \in Status,
               sg[s].pc \in {"wallet", "submit", "sent"}, sg' = Respond(s, v),
               sgLedger' \in {sgLedger, FinishAttempt(sgLedger, sg[s].idx, st)},
               UNCHANGED <<exLedger, exLock, sgLock, ex, socket, conn, xts, reports>>
        PROVE  IInv'
    <2> DEFINE new == FinishAttempt(sgLedger, sg[s].idx, st)
    <2>1. sg[s].idx \in 1..Len(sgLedger)
      BY <1>4, SignerIdx
    <2>2. /\ new \in Seq(AuditAttempt) /\ Len(new) = Len(sgLedger)
          /\ \A j \in 1..Len(sgLedger) : /\ new[j].plan = sgLedger[j].plan
                                         /\ new[j].started = sgLedger[j].started
      BY SMTT(30), <2>1, <1>2, FinishLedger
    <2>3. sgLedger' \in {sgLedger, new}
      BY <1>4
    <2> HIDE DEF new
    <2>4. /\ sgLedger' \in Seq(AuditAttempt) /\ Len(sgLedger') = Len(sgLedger)
          /\ \A j \in 1..Len(sgLedger) : /\ sgLedger'[j].plan = sgLedger[j].plan
                                         /\ sgLedger[j].started => sgLedger'[j].started
      BY <1>2, <2>2, <2>3
    <2>5. sg[s].pc \in {"admit", "wallet", "submit", "sent"}
      BY Zenon, <1>4
    <2> QED
      BY <1>2, <1>4, <2>4, <2>5, SignerAnswers
  <1>5. CASE SignerPreSendFailure(s)
    BY Zenon, <1>1, <1>4, <1>5 DEF SignerPreSendFailure, Persist
  <1>6. ASSUME NEW v \in Verdict, SignerOutcome(s, v) PROVE IInv'
    <2>1. LedgerStatus(v) \in Status
      BY DEF LedgerStatus, Verdict, Status
    <2>2. /\ sg[s].pc \in {"wallet", "submit", "sent"} /\ sg' = Respond(s, v)
          /\ sgLedger' \in {sgLedger, FinishAttempt(sgLedger, sg[s].idx, LedgerStatus(v))}
          /\ UNCHANGED <<exLedger, exLock, sgLock, ex, socket, conn, xts, reports>>
      BY <1>6 DEF SignerOutcome, Persist
    <2> QED
      BY <1>4, <2>1, <2>2
  <1> QED
    BY <1>3, <1>5, <1>6

(* Handing the plan to the chain.  An earlier extrinsic of the plan would   *)
(* rest on a started attempt of the plan, which blocks; the owned attempt   *)
(* is the only one that does, and no extrinsic rests on it yet.             *)
LEMMA SdkSubmitInv ==
    ASSUME IInv, NEW s \in Signers, SdkSubmit(s)
    PROVE  IInv'
  <1> USE DEF IInv
  <1> DEFINE i == sg[s].idx
             x == [plan |-> sg[s].plan, vector |-> sgLedger[i].vector, by |-> i,
                   req |-> sg[s].peer, state |-> "pool"]
             r == [sg[s] EXCEPT !.pc = "sent"]
  <1>1. /\ sg[s].pc = "submit" /\ xts' = Append(xts, x) /\ sg' = [sg EXCEPT ![s] = r]
        /\ UNCHANGED <<exLedger, sgLedger, exLock, sgLock, ex, socket, conn, reports>>
    BY DEF SdkSubmit, TypeOK
  <1>2. /\ OwnsAttempt(s) /\ sgLock = s
        /\ \A k \in 1..Len(xts) : xts[k].by # i
    BY <1>1 DEF SignerInv
  <1>3. /\ i \in 1..Len(sgLedger) /\ i \in AttemptId
        /\ sg[s].plan \in Plans /\ sg[s].peer \in AttemptId
    BY <1>1, SignerIdx
  <1>4. sgLedger[i] \in AuditAttempt /\ sg[s] \in SignerState
    BY <1>3 DEF TypeOK
  <1>5. x \in Extrinsic /\ x.plan = sg[s].plan /\ x.by = i
    BY Zenon, <1>3, <1>4 DEF Extrinsic, AuditAttempt
  <1>6. /\ r \in SignerState /\ r.pc = "sent" /\ r.plan = sg[s].plan
        /\ r.peer = sg[s].peer /\ r.snap = sg[s].snap /\ r.idx = i
    BY Zenon, <1>4, SignerAt
  <1> HIDE DEF x, r
  <1>7. /\ xts' \in Seq(Extrinsic) /\ Len(xts) \in Nat /\ Len(xts') = Len(xts) + 1
        /\ \A k \in 1..Len(xts) : xts'[k] = xts[k]
        /\ xts'[Len(xts) + 1] = x
    BY SMTT(30), <1>1, <1>5 DEF TypeOK
  <1>8. \A k \in 1..Len(xts) : xts[k].plan # sg[s].plan
    <2>1. SUFFICES ASSUME NEW k \in 1..Len(xts), xts[k].plan = sg[s].plan PROVE FALSE
      OBVIOUS
    <2> DEFINE b == xts[k].by
    <2>2. b \in 1..Len(sgLedger) /\ sgLedger[b].started /\ sgLedger[b].plan = sg[s].plan /\ b # i
      BY <1>2, <2>1 DEF ExtrinsicInv
    <2>3. ~Blocks(sgLedger[b])
      BY SMTT(30), <1>2, <2>2 DEF OwnsAttempt
    <2>4. sgLedger[b] \in AuditAttempt
      BY <2>2 DEF TypeOK
    <2> QED
      BY <2>2, <2>3, <2>4 DEF Blocks, AuditAttempt, Status
  <1>9. OncePerPlan'
    BY <1>5, <1>7, <1>8 DEF OncePerPlan
  <1>10. ExtrinsicInv'
    <2>1. sgLedger[i].started /\ sgLedger[i].plan = sg[s].plan
      BY Zenon, <1>1, <1>2 DEF OwnsAttempt
    <2>2. SUFFICES ASSUME NEW k \in 1..Len(xts')
                   PROVE  /\ xts'[k].by \in 1..Len(sgLedger)
                          /\ sgLedger[xts'[k].by].started
                          /\ sgLedger[xts'[k].by].plan = xts'[k].plan
      BY <1>1 DEF ExtrinsicInv
    <2>3. CASE k = Len(xts) + 1
      BY <1>3, <1>5, <1>7, <2>1, <2>3
    <2>4. CASE k \in 1..Len(xts)
      BY <1>7, <2>4 DEF ExtrinsicInv
    <2> QED
      BY <1>7, <2>2, <2>3, <2>4
  <1>11. sg' \in [Signers -> SignerState] /\ sg'[s] = r
    BY <1>1, <1>6 DEF TypeOK
  <1>12. \A t \in Signers : t # s => sg'[t].pc = "idle"
    <2>1. \A t \in Signers : t # s => sg[t].pc = "idle"
      BY <1>1, OnlySigner
    <2> QED BY <1>1, <2>1 DEF TypeOK
  <1>13. OwnsAttempt(s)'
    BY SMTT(30), <1>1, <1>2, <1>6, <1>11 DEF OwnsAttempt
  <1>14. SignerInv'
    BY <1>1, <1>2, <1>3, <1>6, <1>11, <1>12, <1>13 DEF SignerInv
  <1> QED
    BY Zenon, <1>1, <1>7, <1>9, <1>10, <1>11, <1>14, SignerGoalSuffices DEF TypeOK, SignerGoal

LEMMA SignerRespondInv ==
    ASSUME IInv, NEW s \in Signers, SignerRespond(s)
    PROVE  IInv'
  <1> USE DEF IInv
  <1>1. /\ sg[s].pc = "respond" /\ EndSigner(s, TRUE)
        /\ UNCHANGED <<exLedger, sgLedger, exLock, ex, xts>>
    BY Zenon DEF SignerRespond
  <1>2. sg[s].outcome \in Verdict /\ sg[s].idx \in 0..MaxAttempts
    BY <1>1 DEF SignerInv, TypeOK, SignerState
  <1>3. \A i \in AttemptId : [conn[i] EXCEPT !.to = None, !.reply = sg[s].outcome] \in Connection
    <2>1. ASSUME NEW c \in Connection, NEW v \in Verdict
          PROVE  [c EXCEPT !.to = None, !.reply = v] \in Connection
      BY Zenon DEF Connection
    <2>2. \A i \in AttemptId : conn[i] \in Connection
      BY DEF TypeOK
    <2> QED BY Zenon, <1>2, <2>1, <2>2
  <1>4. conn' \in [AttemptId -> Connection]
    BY Zenon, <1>3, DisconnectedType DEF SignerRespond
  <1>5. reports' \subseteq RunReport
    <2>1. CASE sg[s].idx = 0
      BY Zenon, <2>1 DEF SignerRespond, TypeOK
    <2>2. CASE sg[s].idx # 0
      <3>1. sg[s].idx \in 1..MaxAttempts /\ Report("signer", sg[s].idx, sg[s].outcome)
        <4>1. sg[s].idx \in 1..MaxAttempts
          BY <2>2, <1>2, ConstantsAssumption
        <4> QED BY Zenon, <2>2, <4>1 DEF SignerRespond
      <3> QED BY <3>1, <1>2, ReportType
    <2> QED BY <2>1, <2>2
  <1>6. ExtrinsicInv' /\ OncePerPlan'
    BY <1>1 DEF ExtrinsicInv, OncePerPlan
  <1>7. /\ sg' \in [Signers -> SignerState] /\ sgLock' \in Signers \cup {None}
        /\ socket' \in [path : BOOLEAN, listener : Signers \cup {None}] /\ SignerInv'
    BY Zenon, <1>1, EndSignerInv
  <1> QED
    BY <1>1, <1>4, <1>5, <1>6, <1>7, SignerGoalSuffices DEF TypeOK, SignerGoal

-----------------------------------------------------------------------------
(* The environment, and the theorems. *)

LEMMA EnvironmentInv ==
    ASSUME IInv,
           \/ RemoveStaleSocket
           \/ \E k \in DOMAIN xts, o \in {"applied", "failed"} : ChainInclude(k, o)
    PROVE  IInv'
  <1> USE DEF IInv
  <1>1. CASE RemoveStaleSocket
    <2>1. UNCHANGED <<exLedger, sgLedger, exLock, sgLock, ex, sg, conn, xts, reports>>
          /\ socket' \in [path : BOOLEAN, listener : Signers \cup {None}]
      BY Zenon, <1>1 DEF RemoveStaleSocket, TypeOK
    <2>2. SignerInv' /\ ExtrinsicInv' /\ OncePerPlan'
      BY SMTT(30), <2>1, SignerSideKept
    <2> QED
      BY <2>1, <2>2, SignerGoalSuffices DEF TypeOK, SignerGoal
  <1>2. ASSUME NEW k \in DOMAIN xts, NEW o \in {"applied", "failed"}, ChainInclude(k, o)
        PROVE  IInv'
    <2> DEFINE y == [xts[k] EXCEPT !.state = o]
    <2>1. /\ UNCHANGED <<exLedger, sgLedger, exLock, sgLock, ex, sg, socket, conn, reports>>
          /\ xts' = [xts EXCEPT ![k] = y] /\ xts \in Seq(Extrinsic) /\ k \in 1..Len(xts)
      BY <1>2 DEF ChainInclude, TypeOK
    <2>2. y \in Extrinsic /\ y.plan = xts[k].plan /\ y.by = xts[k].by
      <3>1. ASSUME NEW x \in Extrinsic
            PROVE  LET m == [x EXCEPT !.state = o] IN
                   m \in Extrinsic /\ m.plan = x.plan /\ m.by = x.by
        BY DEF Extrinsic
      <3>2. xts[k] \in Extrinsic
        BY <2>1
      <3> QED BY <3>1, <3>2
    <2> HIDE DEF y
    <2>3. /\ xts' \in Seq(Extrinsic) /\ Len(xts') = Len(xts)
          /\ \A j \in 1..Len(xts) : xts'[j].plan = xts[j].plan /\ xts'[j].by = xts[j].by
      BY SMTT(30), <2>1, <2>2
    <2>4. ExtrinsicInv' /\ OncePerPlan'
      BY SMTT(30), <2>1, <2>3 DEF ExtrinsicInv, OncePerPlan
    <2>5. SignerInv'
      <3>1. ASSUME NEW s \in Signers PROVE OwnsAttempt(s)' <=> OwnsAttempt(s)
        BY Zenon, <2>1 DEF OwnsAttempt, Blocks
      <3>2. ASSUME NEW i, \A j \in 1..Len(xts) : xts[j].by # i
            PROVE  \A j \in 1..Len(xts') : xts'[j].by # i
        BY <2>3, <3>2
      <3> QED
        BY Zenon, <2>1, <3>1, <3>2 DEF SignerInv
    <2> QED
      BY <2>1, <2>3, <2>4, <2>5, SignerGoalSuffices DEF TypeOK, SignerGoal
  <1> QED
    BY SMTT(30), <1>1, <1>2

LEMMA InitInv == Init => IInv
  <1> SUFFICES ASSUME Init PROVE IInv
    OBVIOUS
  <1>1. IdleExecutor \in ExecutorState /\ IdleSigner \in SignerState /\ NoConnection \in Connection
    BY ConstantsAssumption
    DEF IdleExecutor, ExecutorState, IdleSigner, SignerState, NoConnection, Connection
  <1>2. TypeOK
    BY <1>1, ConstantsAssumption DEF Init, TypeOK
  <1>3. ExecutorInv /\ SignerInv
    BY SMTT(30) DEF Init, ExecutorInv, SignerInv, IdleExecutor, IdleSigner
  <1>4. ExtrinsicInv /\ OncePerPlan
    BY DEF Init, ExtrinsicInv, OncePerPlan
  <1> QED BY <1>2, <1>3, <1>4 DEF IInv

LEMMA NextInv == IInv /\ [Next]_vars => IInv'
  <1> SUFFICES ASSUME IInv, [Next]_vars PROVE IInv'
    OBVIOUS
  <1>1. ASSUME NEW e \in Executors, ExecutorStep(e) PROVE IInv'
    BY <1>1, ExecutorStepInv
  <1>2. ASSUME NEW s \in Signers, SignerStep(s) PROVE IInv'
    BY <1>2, SignerFrontInv, SignerAdmitInv, SignerSendCheckInv, SignerConcludes, SdkSubmitInv,
       SignerRespondInv DEF SignerStep
  <1>3. CASE RemoveStaleSocket \/ \E k \in DOMAIN xts, o \in {"applied", "failed"} :
                                    ChainInclude(k, o)
    BY SMTT(30), <1>3, EnvironmentInv
  <1>4. CASE UNCHANGED vars
    <2>1. UNCHANGED <<exLedger, exLock, ex, sgLedger, sgLock, sg, socket, conn, xts, reports>>
      BY <1>4 DEF vars
    <2>2. SignerInv' /\ ExtrinsicInv' /\ OncePerPlan'
      BY <2>1, SignerSideKept DEF IInv
    <2> QED
      BY <2>1, <2>2, SignerGoalSuffices DEF IInv, TypeOK, SignerGoal
  <1> QED
    BY <1>1, <1>2, <1>3, <1>4 DEF Next

LEMMA InvAlways == Spec => []IInv
  BY InitInv, NextInv, PTL DEF Spec

(* Every reachable state of the submission path is well typed: the ledgers  *)
(* never outgrow MAX_AUDIT_ATTEMPTS, and slots, connections, extrinsics and *)
(* reports only name attempts that exist.                                   *)
THEOREM TypeCorrect == Spec => []TypeOK
  <1>1. IInv => TypeOK
    BY DEF IInv
  <1> QED BY <1>1, InvAlways, PTL

(* A plan is handed to the chain at most once, for any number of executor   *)
(* and signer processes, plans, views and retries: the guarantee that       *)
(* weight_signer.py's ledger and lock are there to give.                    *)
THEOREM SubmitsOnce == Spec => []AtMostOneSubmission
  <1>1. IInv => AtMostOneSubmission
    <2>1. IInv => DOMAIN xts = 1..Len(xts)
      BY DEF IInv, TypeOK
    <2> QED BY <2>1 DEF IInv, OncePerPlan, AtMostOneSubmission
  <1> QED BY <1>1, InvAlways, PTL
=============================================================================
