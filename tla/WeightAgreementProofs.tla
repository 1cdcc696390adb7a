----------------------- MODULE WeightAgreementProofs -----------------------
(***************************************************************************)
(* What leaves for the chain is what the executor asked for and the signer *)
(* recorded, for any plans, process slots, views and ledger size.  The     *)
(* invariant rests on IInv of WeightExecutionProofs.                       *)
(***************************************************************************)
EXTENDS WeightExecutionProofs

(* A ledger is in order: a send marker is not older than its preflight, and *)
(* a plan gets a later attempt only when no earlier one blocks it.          *)
Ordered(L) ==
    /\ \A i \in 1..Len(L) : L[i].started => L[i].preflight <= L[i].sendCheck
    /\ \A i, j \in 1..Len(L) : i < j /\ L[i].plan = L[j].plan => ~Blocks(L[i])

(* M is a later version of the ledger L. *)
Later(L, M) ==
    /\ Len(M) >= Len(L)
    /\ \A j \in 1..Len(L) : /\ M[j].plan = L[j].plan /\ M[j].vector = L[j].vector
                            /\ M[j].preflight = L[j].preflight
                            /\ L[j].started => M[j].started

(* A running executor owns the last attempt of its ledger. *)
ExecutorAgree ==
    \A e \in Executors : ex[e].pc # "idle" =>
        /\ ex[e].idx = Len(exLedger)
        /\ ex[e].pc \in {"open", "check"} => exLedger[ex[e].idx].preflight = ex[e].snap.block
        /\ ex[e].pc \in {"submit", "wait"} => exLedger[ex[e].idx].started

(* A request is written only after its attempt carries the send marker. *)
RequestInv ==
    \A i \in AttemptId : conn[i].req => i \in 1..Len(exLedger) /\ exLedger[i].started

(* A signer works on such a request, and past admission it agrees with it. *)
SignerAgree ==
    \A s \in Signers :
        /\ sg[s].pc \in {"admit", "wallet", "submit", "sent"} =>
             sg[s].peer \in 1..Len(exLedger) /\ exLedger[sg[s].peer].started
        /\ sg[s].pc \in {"wallet", "submit", "sent"} =>
             /\ sg[s].idx = Len(sgLedger)
             /\ exLedger[sg[s].peer].plan = sg[s].plan
             /\ exLedger[sg[s].peer].vector = sgLedger[sg[s].idx].vector
        /\ sg[s].pc = "wallet" => sgLedger[sg[s].idx].preflight = sg[s].snap.block

SentAgree ==
    \A k \in 1..Len(xts) :
        /\ xts[k].req \in 1..Len(exLedger)
        /\ LET a == exLedger[xts[k].req] IN
           a.started /\ a.plan = xts[k].plan /\ a.vector = xts[k].vector
        /\ sgLedger[xts[k].by].vector = xts[k].vector

AInv == /\ Ordered(exLedger) /\ Ordered(sgLedger)
        /\ ExecutorAgree /\ RequestInv /\ SignerAgree /\ SentAgree

-----------------------------------------------------------------------------
(* Ledger operations keep a ledger in order. *)

LEMMA SameLedger ==
    ASSUME NEW L \in Seq(AuditAttempt)
    PROVE  Later(L, L)
    BY DEF Later

LEMMA AppendOrdered ==
    ASSUME NEW L \in Seq(AuditAttempt), Ordered(L), NEW p \in Plans, NEW snap \in Snapshot,
           ~BlockingAttempt(L, p)
    PROVE  LET M == Append(L, NewAttempt(p, snap)) IN
           /\ Later(L, M) /\ Ordered(M) /\ Len(M) = Len(L) + 1
           /\ LET a == M[Len(L) + 1] IN
              a.plan = p /\ a.vector = DeriveVector(snap) /\ a.preflight = snap.block
  <1> DEFINE a == NewAttempt(p, snap)
             M == Append(L, a)
  <1>1. /\ a \in AuditAttempt /\ a.plan = p /\ a.vector = DeriveVector(snap)
        /\ a.preflight = snap.block /\ a.started = FALSE
    BY NewAttemptIsAttempt DEF NewAttempt
  <1> HIDE DEF a
  <1>2. /\ Len(M) = Len(L) + 1 /\ Len(L) \in Nat
        /\ \A j \in 1..Len(L) : M[j] = L[j]
        /\ M[Len(L) + 1] = a
    BY <1>1, AppendLedger
  <1>3. \A i \in 1..Len(L) : L[i].plan = p => ~Blocks(L[i])
    BY DEF BlockingAttempt
  <1> HIDE DEF M
  <1>4. Later(L, M)
    BY <1>2 DEF Later
  <1>5. \A i \in 1..Len(M) : M[i].started => M[i].preflight <= M[i].sendCheck
    BY <1>1, <1>2 DEF Ordered
  <1>6. ASSUME NEW i \in 1..Len(M), NEW j \in 1..Len(M), i < j, M[i].plan = M[j].plan
        PROVE  ~Blocks(M[i])
    <2>1. i \in 1..Len(L) /\ M[i] = L[i]
      BY <1>2, <1>6
    <2>2. CASE j = Len(L) + 1
      BY <1>1, <1>2, <1>3, <1>6, <2>1, <2>2
    <2>3. CASE j \in 1..Len(L)
      BY <1>2, <1>6, <2>1, <2>3 DEF Ordered
    <2> QED BY <1>2, <2>2, <2>3
  <1>7. Ordered(M)
    BY <1>5, <1>6 DEF Ordered
  <1> QED BY <1>1, <1>2, <1>4, <1>7 DEF M, a

(* Only the last attempt of a ledger is ever marked or finished. *)
LEMMA LastChanged ==
    ASSUME NEW L \in Seq(AuditAttempt), Ordered(L), NEW M \in Seq(AuditAttempt), Len(L) > 0,
           Len(M) = Len(L),
           \A j \in 1..Len(L) : j # Len(L) => M[j] = L[j],
           M[Len(L)].plan = L[Len(L)].plan, M[Len(L)].vector = L[Len(L)].vector,
           M[Len(L)].preflight = L[Len(L)].preflight, L[Len(L)].started => M[Len(L)].started,
           M[Len(L)].started => M[Len(L)].preflight <= M[Len(L)].sendCheck
    PROVE  Later(L, M) /\ Ordered(M)
  <1>1. Len(L) \in Nat
    OBVIOUS
  <1>2. Later(L, M)
    BY <1>1 DEF Later
  <1>3. \A i \in 1..Len(M) : M[i].started => M[i].preflight <= M[i].sendCheck
    BY <1>1 DEF Ordered
  <1>4. ASSUME NEW i \in 1..Len(M), NEW j \in 1..Len(M), i < j, M[i].plan = M[j].plan
        PROVE  ~Blocks(M[i])
    <2>1. i # Len(L) /\ M[i] = L[i]
      BY <1>1, <1>4
    <2>2. M[j].plan = L[j].plan
      BY <1>1
    <2> QED BY <1>1, <1>4, <2>1, <2>2 DEF Ordered
  <1> QED BY <1>2, <1>3, <1>4 DEF Ordered

LEMMA MarkOrdered ==
    ASSUME NEW L \in Seq(AuditAttempt), Ordered(L), Len(L) > 0, NEW b \in 1..MaxBlock,
           L[Len(L)].preflight <= b
    PROVE  LET M == MarkStarted(L, Len(L), b) IN
           Later(L, M) /\ Ordered(M) /\ Len(M) = Len(L) /\ M[Len(L)].started
  <1> DEFINE n == Len(L)
             a == [L[n] EXCEPT !.started = TRUE, !.sendCheck = b]
             M == MarkStarted(L, n, b)
  <1>1. n \in 1..Len(L) /\ n \in Nat
    OBVIOUS
  <1>2. L[n] \in AuditAttempt
    BY <1>1
  <1>3. M \in Seq(AuditAttempt) /\ Len(M) = Len(L) /\ \A j \in 1..Len(L) : j # n => M[j] = L[j]
    BY <1>1, MarkLedger
  <1>6. M = [L EXCEPT ![n] = a]
    BY Zenon DEF MarkStarted
  <1> HIDE DEF a, M
  <1>4. M[n] = a
    BY <1>1, <1>6
  <1> USE DEF a
  <1>5. /\ a.plan = L[n].plan /\ a.vector = L[n].vector /\ a.preflight = L[n].preflight
        /\ a.started = TRUE /\ a.sendCheck = b
    BY Zenon, <1>2 DEF AuditAttempt
  <1> HIDE DEF M, a
  <1> QED
    BY <1>1, <1>3, <1>4, <1>5, LastChanged DEF M

LEMMA FinishOrdered ==
    ASSUME NEW L \in Seq(AuditAttempt), Ordered(L), Len(L) > 0, NEW st \in Status
    PROVE  LET M == FinishAttempt(L, Len(L), st) IN
           Later(L, M) /\ Ordered(M) /\ Len(M) = Len(L)
  <1> DEFINE n == Len(L)
             a == [L[n] EXCEPT !.status = st]
             M == FinishAttempt(L, n, st)
  <1>1. n \in 1..Len(L) /\ n \in Nat
    OBVIOUS
  <1>2. L[n] \in AuditAttempt
    BY <1>1
  <1>3. M \in Seq(AuditAttempt) /\ Len(M) = Len(L) /\ \A j \in 1..Len(L) : j # n => M[j] = L[j]
    BY <1>1, FinishLedger
  <1>4. M[n] = a
    BY <1>1 DEF FinishAttempt
  <1>5. /\ a.plan = L[n].plan /\ a.vector = L[n].vector /\ a.preflight = L[n].preflight
        /\ a.started = L[n].started /\ a.sendCheck = L[n].sendCheck
    BY Zenon, <1>2 DEF AuditAttempt
  <1>6. L[n].started => L[n].preflight <= L[n].sendCheck
    BY <1>1 DEF Ordered
  <1> HIDE DEF M, a
  <1> QED
    BY <1>1, <1>3, <1>4, <1>5, <1>6, LastChanged DEF M

-----------------------------------------------------------------------------
(* Executor steps. *)

LEMMA LedgerTypes ==
    ASSUME IInv
    PROVE  /\ exLedger \in Seq(AuditAttempt) /\ Len(exLedger) \in Nat
           /\ sgLedger \in Seq(AuditAttempt) /\ Len(sgLedger) \in Nat
    BY DEF IInv, TypeOK

(* The signer's side only relies on what a later ledger keeps. *)
LEMMA ExecutorFrame ==
    ASSUME IInv, AInv, IInv', UNCHANGED <<sgLedger, sg, xts>>, Later(exLedger, exLedger'),
           Ordered(exLedger'), ExecutorAgree', RequestInv'
    PROVE  AInv'
  <1>1. Len(exLedger) \in Nat /\ Len(exLedger') \in Nat
    BY LedgerTypes DEF IInv, TypeOK
  <1>2. SignerAgree'
    BY <1>1 DEF AInv, SignerAgree, Later
  <1>3. SentAgree'
    BY <1>1 DEF AInv, SentAgree, Later
  <1>4. Ordered(exLedger)' /\ Ordered(sgLedger)'
    BY DEF AInv, Ordered, Blocks
  <1> QED BY <1>2, <1>3, <1>4 DEF AInv

(* A request stands on a started attempt, which a later ledger keeps. *)
LEMMA RequestsKept ==
    ASSUME IInv, AInv, IInv', Later(exLedger, exLedger'),
           \A i \in AttemptId : conn'[i].req => conn[i].req
    PROVE  RequestInv'
  <1>1. Len(exLedger) \in Nat /\ Len(exLedger') \in Nat
    BY DEF IInv, TypeOK
  <1> QED BY <1>1 DEF AInv, RequestInv, Later

LEMMA ExecutorEnds ==
    ASSUME IInv, AInv, IInv', NEW e \in Executors, EndExecutor(e),
           UNCHANGED <<sgLedger, sg, xts>>, Later(exLedger, exLedger'), Ordered(exLedger')
    PROVE  AInv'
  <1>1. ExecutorAgree'
    <2>1. \A f \in Executors : ex'[f].pc = "idle"
      BY ConstantsAssumption DEF EndExecutor, IInv, ExecutorInv
    <2> QED BY <2>1 DEF ExecutorAgree
  <1>2. \A i \in AttemptId : conn'[i].req = conn[i].req
    <2>1. \A i \in AttemptId : [conn[i] EXCEPT !.up = FALSE].req = conn[i].req
      BY Zenon DEF IInv, TypeOK, Connection
    <2> QED BY <2>1 DEF EndExecutor
  <1>3. RequestInv'
    BY <1>2, RequestsKept
  <1> QED BY <1>1, <1>3, ExecutorFrame

(* The running executor owns the last attempt. *)
LEMMA ExecutorOwns ==
    ASSUME IInv, AInv, NEW e \in Executors, ex[e].pc # "idle"
    PROVE  /\ ex[e].idx = Len(exLedger) /\ Len(exLedger) > 0 /\ ex[e].idx \in AttemptId
           /\ ex[e].idx \in 1..Len(exLedger)
           /\ \A f \in Executors : f # e => ex[f].pc = "idle"
  <1>1. ex[e].idx \in 1..Len(exLedger) /\ ex[e].idx \in 1..MaxAttempts
    BY ExecutorIdx DEF IInv
  <1>2. Len(exLedger) \in Nat
    BY DEF IInv, TypeOK
  <1> QED
    BY <1>1, <1>2 DEF IInv, AInv, ExecutorInv, ExecutorAgree, AttemptId

LEMMA ExecutorStartAgree ==
    ASSUME IInv, AInv, IInv', NEW e \in Executors, NEW p \in Plans, NEW snap \in Snapshot,
           ExecutorStart(e, p, snap)
    PROVE  AInv'
  <1> DEFINE new == Append(exLedger, NewAttempt(p, snap))
  <1>1. ~BlockingAttempt(exLedger, p) /\ UNCHANGED <<sgLedger, sg, conn, xts>>
    BY DEF ExecutorStart, CanStart
  <1>2. exLedger \in Seq(AuditAttempt) /\ Ordered(exLedger) /\ Len(exLedger) \in Nat
    BY DEF IInv, TypeOK, AInv
  <1>3. /\ Later(exLedger, new) /\ Ordered(new) /\ Len(new) = Len(exLedger) + 1
        /\ new[Len(exLedger) + 1].preflight = snap.block
    BY Zenon, <1>1, <1>2, AppendOrdered
  <1>4. PICK ok \in BOOLEAN :
           /\ exLedger' \in Persist(ok, exLedger, new)
           /\ ex' = IF ok THEN [ex EXCEPT ![e] = [pc |-> "open", plan |-> p, snap |-> snap,
                                                  idx |-> Len(exLedger) + 1]]
                          ELSE ex
    BY DEF ExecutorStart
  <1>5. exLedger' \in {exLedger, new} /\ (ok => exLedger' = new)
    BY <1>4 DEF Persist
  <1>6. \A f \in Executors : ex[f].pc = "idle"
    BY ConstantsAssumption DEF ExecutorStart, LockFree, IInv, ExecutorInv
  <1> HIDE DEF new
  <1>7. Later(exLedger, exLedger') /\ Ordered(exLedger')
    BY <1>2, <1>3, <1>5, SameLedger
  <1>8. ExecutorAgree'
    <2>1. CASE ok
      BY <2>1, <1>2, <1>3, <1>4, <1>5, <1>6 DEF ExecutorAgree, IInv, TypeOK
    <2>2. CASE ~ok
      BY <2>2, <1>4, <1>6 DEF ExecutorAgree
    <2> QED BY <2>1, <2>2
  <1>9. RequestInv'
    BY <1>1, <1>7, RequestsKept
  <1> QED BY <1>1, <1>7, <1>8, <1>9, ExecutorFrame

(* What a program counter update leaves of an executor slot. *)
LEMMA ExecutorAt ==
    ASSUME TypeOK, NEW e \in Executors, NEW x, ex' = [ex EXCEPT ![e].pc = x]
    PROVE  /\ ex'[e].pc = x /\ ex'[e].idx = ex[e].idx /\ ex'[e].snap = ex[e].snap
           /\ \A f \in Executors : f # e => ex'[f] = ex[f]
  <1>1. ex'[e] = [ex[e] EXCEPT !.pc = x] /\ ex[e] \in ExecutorState
    BY DEF TypeOK
  <1>2. \A f \in Executors : f # e => ex'[f] = ex[f]
    BY DEF TypeOK
  <1>3. ex'[e].pc = x /\ ex'[e].idx = ex[e].idx /\ ex'[e].snap = ex[e].snap
    BY Zenon, <1>1 DEF ExecutorState
  <1> QED BY <1>2, <1>3

LEMMA ExecutorOpenAgree ==
    ASSUME IInv, AInv, IInv', NEW e \in Executors, ExecutorOpen(e)
    PROVE  AInv'
  <1>1. /\ ex[e].pc = "open" /\ ex' = [ex EXCEPT ![e].pc = "check"]
        /\ UNCHANGED <<exLedger, sgLedger, sg, xts>>
    BY DEF ExecutorOpen
  <1>2. /\ ex[e].idx = Len(exLedger) /\ ex[e].idx \in AttemptId
        /\ \A f \in Executors : f # e => ex[f].pc = "idle"
        /\ exLedger[ex[e].idx].preflight = ex[e].snap.block
    BY <1>1, ExecutorOwns DEF AInv, ExecutorAgree
  <1>3. /\ ex'[e].pc = "check" /\ ex'[e].idx = ex[e].idx /\ ex'[e].snap = ex[e].snap
        /\ \A f \in Executors : f # e => ex'[f] = ex[f]
    BY Zenon, <1>1, ExecutorAt DEF IInv
  <1>4. ExecutorAgree'
    BY <1>1, <1>2, <1>3 DEF ExecutorAgree
  <1>5. Later(exLedger, exLedger') /\ Ordered(exLedger')
    BY <1>1, SameLedger, LedgerTypes DEF AInv
  <1>6. \A i \in AttemptId : conn'[i].req => conn[i].req
    BY <1>2 DEF ExecutorOpen, IInv, TypeOK
  <1>7. RequestInv'
    BY <1>5, <1>6, RequestsKept
  <1> QED BY <1>1, <1>4, <1>5, <1>7, ExecutorFrame

LEMMA ExecutorSendCheckAgree ==
    ASSUME IInv, AInv, IInv', NEW e \in Executors, NEW snap \in Snapshot,
           ExecutorSendCheck(e, snap)
    PROVE  AInv'
  <1> DEFINE new == MarkStarted(exLedger, ex[e].idx, snap.block)
  <1>1. ex[e].pc = "check" /\ UNCHANGED <<sgLedger, sg, xts>> /\ ex[e].snap.block <= snap.block
    BY DEF ExecutorSendCheck, FreshAgainst
  <1>2. /\ ex[e].idx = Len(exLedger) /\ Len(exLedger) > 0 /\ ex[e].idx \in AttemptId
        /\ \A f \in Executors : f # e => ex[f].pc = "idle"
        /\ exLedger[ex[e].idx].preflight = ex[e].snap.block
    BY <1>1, ExecutorOwns DEF AInv, ExecutorAgree
  <1>3. exLedger \in Seq(AuditAttempt) /\ Ordered(exLedger) /\ snap.block \in 1..MaxBlock
    BY LedgerTypes DEF AInv, Snapshot
  <1>4. Later(exLedger, new) /\ Ordered(new) /\ Len(new) = Len(exLedger) /\ new[ex[e].idx].started
    BY <1>1, <1>2, <1>3, MarkOrdered
  <1> HIDE DEF new
  <1>5. CASE /\ exLedger' = new /\ ex' = [ex EXCEPT ![e].pc = "submit"] /\ UNCHANGED conn
    <2>1. /\ ex'[e].pc = "submit" /\ ex'[e].idx = ex[e].idx
          /\ \A f \in Executors : f # e => ex'[f] = ex[f]
      BY Zenon, <1>5, ExecutorAt DEF IInv
    <2>2. ExecutorAgree'
      BY <1>2, <1>4, <1>5, <2>1 DEF ExecutorAgree
    <2>3. RequestInv'
      BY <1>4, <1>5, RequestsKept
    <2> QED BY <1>1, <1>4, <1>5, <2>2, <2>3, ExecutorFrame
  <1>6. CASE exLedger' \in {exLedger, new} /\ EndExecutor(e)
    <2>1. Later(exLedger, exLedger') /\ Ordered(exLedger')
      BY <1>3, <1>4, <1>6, SameLedger
    <2> QED BY <1>1, <1>6, <2>1, ExecutorEnds
  <1> QED BY <1>5, <1>6 DEF ExecutorSendCheck, Persist, new

LEMMA ExecutorSubmitAgree ==
    ASSUME IInv, AInv, IInv', NEW e \in Executors, ExecutorSubmit(e)
    PROVE  AInv'
  <1>1. /\ ex[e].pc = "submit" /\ ex' = [ex EXCEPT ![e].pc = "wait"]
        /\ UNCHANGED <<exLedger, sgLedger, sg, xts>>
    BY DEF ExecutorSubmit
  <1>2. /\ ex[e].idx = Len(exLedger) /\ ex[e].idx \in AttemptId /\ ex[e].idx \in 1..Len(exLedger)
        /\ \A f \in Executors : f # e => ex[f].pc = "idle"
        /\ exLedger[ex[e].idx].started
    BY <1>1, ExecutorOwns DEF AInv, ExecutorAgree
  <1>3. /\ ex'[e].pc = "wait" /\ ex'[e].idx = ex[e].idx
        /\ \A f \in Executors : f # e => ex'[f] = ex[f]
    BY Zenon, <1>1, ExecutorAt DEF IInv
  <1>4. ExecutorAgree'
    BY <1>1, <1>2, <1>3 DEF ExecutorAgree
  <1>5. Later(exLedger, exLedger') /\ Ordered(exLedger')
    BY <1>1, SameLedger, LedgerTypes DEF AInv
  <1>6. \A i \in AttemptId : i # ex[e].idx => conn'[i] = conn[i]
    BY DEF ExecutorSubmit, IInv, TypeOK
  <1>7. RequestInv'
    BY <1>1, <1>2, <1>6 DEF AInv, RequestInv
  <1> QED BY <1>1, <1>4, <1>5, <1>7, ExecutorFrame

(* Closing an attempt only changes the status of the last one. *)
LEMMA ExecutorClosesAgree ==
    ASSUME IInv, AInv, IInv', NEW e \in Executors, NEW st \in Status, ex[e].pc # "idle",
           exLedger' \in {exLedger, FinishAttempt(exLedger, ex[e].idx, st)},
           EndExecutor(e), UNCHANGED <<sgLedger, sg, xts>>
    PROVE  AInv'
  <1>1. ex[e].idx = Len(exLedger) /\ Len(exLedger) > 0
    BY ExecutorOwns
  <1>2. exLedger \in Seq(AuditAttempt) /\ Ordered(exLedger)
    BY LedgerTypes DEF AInv
  <1>3. Later(exLedger, exLedger') /\ Ordered(exLedger')
    BY <1>1, <1>2, FinishOrdered, SameLedger
  <1> QED BY <1>3, ExecutorEnds

LEMMA ExecutorAgrees ==
    ASSUME IInv, AInv, IInv', NEW e \in Executors, ExecutorStep(e)
    PROVE  AInv'
  <1>1. CASE ExecutorPreSendFailure(e)
    <2>1. /\ exLedger' \in {exLedger, FinishAttempt(exLedger, ex[e].idx, "failed")}
          /\ ex[e].pc # "idle" /\ EndExecutor(e) /\ UNCHANGED <<sgLedger, sg, xts>>
      BY <1>1 DEF ExecutorPreSendFailure, Persist
    <2>2. "failed" \in Status
      BY DEF Status
    <2> QED BY <2>1, <2>2, ExecutorClosesAgree
  <1>2. ASSUME NEW v \in Verdict, ExecutorFinish(e, v) PROVE AInv'
    <2>1. /\ exLedger' \in {exLedger, FinishAttempt(exLedger, ex[e].idx, LedgerStatus(v))}
          /\ ex[e].pc # "idle" /\ EndExecutor(e) /\ UNCHANGED <<sgLedger, sg, xts>>
      BY <1>2 DEF ExecutorFinish, Persist
    <2>2. LedgerStatus(v) \in Status
      BY DEF Verdict, Status, LedgerStatus
    <2> QED BY <2>1, <2>2, ExecutorClosesAgree
  <1>3. CASE ExecutorCrash(e)
    <2>1. EndExecutor(e) /\ UNCHANGED <<exLedger, sgLedger, sg, xts>>
      BY <1>3 DEF ExecutorCrash
    <2>2. Later(exLedger, exLedger') /\ Ordered(exLedger')
      BY <2>1, SameLedger, LedgerTypes DEF AInv
    <2> QED BY <2>1, <2>2, ExecutorEnds
  <1> QED
    BY <1>1, <1>2, <1>3, ExecutorStartAgree, ExecutorOpenAgree, ExecutorSendCheckAgree,
       ExecutorSubmitAgree DEF ExecutorStep

-----------------------------------------------------------------------------
(* Signer steps. *)

LEMMA SignerFrame ==
    ASSUME IInv, AInv, IInv', UNCHANGED <<exLedger, ex, xts>>, Later(sgLedger, sgLedger'),
           Ordered(sgLedger'), \A i \in AttemptId : conn'[i].req => conn[i].req, SignerAgree'
    PROVE  AInv'
  <1>1. Len(sgLedger) \in Nat /\ Len(sgLedger') \in Nat
    BY DEF IInv, TypeOK
  <1>2. ExecutorAgree' /\ RequestInv'
    BY DEF AInv, ExecutorAgree, RequestInv
  <1>3. SentAgree'
    <2>1. \A k \in 1..Len(xts) : xts[k].by \in 1..Len(sgLedger)
      BY DEF IInv, ExtrinsicInv
    <2> QED BY <1>1, <2>1 DEF AInv, SentAgree, Later
  <1>4. Ordered(exLedger)' /\ Ordered(sgLedger)'
    BY DEF AInv, Ordered, Blocks
  <1> QED BY <1>2, <1>3, <1>4 DEF AInv

(* One slot runs, so agreement is about that slot. *)
LEMMA SlotAgrees ==
    ASSUME IInv', NEW s \in Signers, sg'[s].pc # "idle",
           sg'[s].pc \in {"admit", "wallet", "submit", "sent"} =>
             sg'[s].peer \in 1..Len(exLedger') /\ exLedger'[sg'[s].peer].started,
           sg'[s].pc \in {"wallet", "submit", "sent"} =>
             /\ sg'[s].idx = Len(sgLedger')
             /\ exLedger'[sg'[s].peer].plan = sg'[s].plan
             /\ exLedger'[sg'[s].peer].vector = sgLedger'[sg'[s].idx].vector,
           sg'[s].pc = "wallet" => sgLedger'[sg'[s].idx].preflight = sg'[s].snap.block
    PROVE  SignerAgree'
  <1>1. \A t \in Signers : t # s => sg'[t].pc = "idle"
    BY DEF IInv, SignerInv
  <1> QED BY <1>1 DEF SignerAgree

LEMMA SignersGone ==
    ASSUME IInv', sgLock' = None
    PROVE  SignerAgree'
  <1>1. \A t \in Signers : sg'[t].pc = "idle"
    BY ConstantsAssumption DEF IInv, SignerInv
  <1> QED BY <1>1 DEF SignerAgree

LEMMA DisconnectedKeeps ==
    ASSUME TypeOK, NEW s \in Signers
    PROVE  \A i \in AttemptId : Disconnected(conn[i], s).req = conn[i].req
    BY Zenon DEF TypeOK, Disconnected, Connection

LEMMA SignerFrontAgrees ==
    ASSUME IInv, AInv, IInv', NEW s \in Signers,
           \/ \E p \in Plans, c \in Vectors : SignerStart(s, p, c)
           \/ \E i \in AttemptId : SignerAccept(s, i)
           \/ SignerRead(s) \/ SignerTimeout(s) \/ SignerCrash(s)
    PROVE  AInv'
  <1>1. UNCHANGED <<exLedger, ex, sgLedger, xts>>
    BY Zenon DEF SignerStart, SignerAccept, SignerRead, SignerTimeout, SignerCrash
  <1>2. Later(sgLedger, sgLedger') /\ Ordered(sgLedger')
    BY <1>1, SameLedger, LedgerTypes DEF AInv
  <1>3. \A i \in AttemptId : conn'[i].req => conn[i].req
    <2>1. \/ conn' = conn
          \/ conn' = [i \in AttemptId |-> Disconnected(conn[i], s)]
          \/ conn' = [i \in AttemptId |-> IF i = sg[s].peer THEN conn[i]
                                          ELSE Disconnected(conn[i], s)]
      BY Zenon DEF SignerStart, SignerAccept, SignerRead, SignerTimeout, SignerCrash
    <2>2. \A i \in AttemptId : Disconnected(conn[i], s).req = conn[i].req
      BY DisconnectedKeeps DEF IInv
    <2> QED BY <2>1, <2>2
  <1>4. SUFFICES SignerAgree'
    BY <1>1, <1>2, <1>3, SignerFrame
  <1>5. ASSUME NEW p \in Plans, NEW c \in Vectors, SignerStart(s, p, c) PROVE SignerAgree'
    <2>1. sg'[s].pc = "accept"
      BY <1>5 DEF SignerStart, IInv, TypeOK, IdleSigner
    <2> QED BY <2>1, SlotAgrees
  <1>6. ASSUME NEW i \in AttemptId, SignerAccept(s, i) PROVE SignerAgree'
    <2>1. sg'[s].pc = "read"
      <3>1. sg[s] \in SignerState /\ sg'[s] = [sg[s] EXCEPT !.pc = "read", !.peer = i]
        BY <1>6 DEF SignerAccept, IInv, TypeOK
      <3> QED BY Zenon, <3>1 DEF SignerState
    <2> QED BY <2>1, SlotAgrees
  <1>7. CASE SignerRead(s)
    <2>1. sg'[s].pc = "admit" /\ sg'[s].peer = sg[s].peer
      <3>1. sg[s] \in SignerState /\ sg'[s] = [sg[s] EXCEPT !.pc = "admit"]
        BY <1>7 DEF SignerRead, IInv, TypeOK
      <3> QED BY Zenon, <3>1 DEF SignerState
    <2>2. sg[s].peer \in AttemptId /\ conn[sg[s].peer].req
      BY <1>7 DEF SignerRead, IInv, SignerInv
    <2>3. sg[s].peer \in 1..Len(exLedger) /\ exLedger[sg[s].peer].started
      BY <2>2 DEF AInv, RequestInv
    <2> QED BY <1>1, <2>1, <2>3, SlotAgrees
  <1>8. CASE SignerTimeout(s) \/ SignerCrash(s)
    BY <1>8, SignersGone DEF SignerTimeout, SignerCrash, EndSigner
  <1> QED BY <1>5, <1>6, <1>7, <1>8

(* Steps that end in an answer. *)
LEMMA SignerAnswersAgree ==
    ASSUME IInv, AInv, IInv', NEW s \in Signers, NEW v, sg' = Respond(s, v),
           UNCHANGED <<exLedger, ex, conn, xts>>, Later(sgLedger, sgLedger'), Ordered(sgLedger')
    PROVE  AInv'
  <1>1. sg'[s].pc = "respond"
    <2>1. sg[s] \in SignerState /\ sg'[s] = [sg[s] EXCEPT !.pc = "respond", !.outcome = v]
      BY DEF Respond, IInv, TypeOK
    <2> QED BY Zenon, <2>1 DEF SignerState
  <1>2. SignerAgree'
    BY <1>1, SlotAgrees
  <1> QED BY <1>2, SignerFrame

LEMMA SignerAdmitAgrees ==
    ASSUME IInv, AInv, IInv', NEW s \in Signers, NEW snap \in Snapshot, SignerAdmit(s, snap)
    PROVE  AInv'
  <1> DEFINE new == Append(sgLedger, NewAttempt(sg[s].plan, snap))
  <1>1. /\ sg[s].pc = "admit" /\ UNCHANGED <<exLedger, ex, conn, xts>>
        /\ ~BlockingAttempt(sgLedger, sg[s].plan)
        /\ exLedger[sg[s].peer].plan = sg[s].plan
        /\ exLedger[sg[s].peer].vector = DeriveVector(snap)
    BY DEF SignerAdmit, CanStart
  <1>2. /\ sgLedger \in Seq(AuditAttempt) /\ Ordered(sgLedger) /\ Len(sgLedger) \in Nat
        /\ sg[s].plan \in Plans
    BY <1>1, LedgerTypes DEF AInv, IInv, SignerInv
  <1>3. /\ Later(sgLedger, new) /\ Ordered(new) /\ Len(new) = Len(sgLedger) + 1
        /\ new[Len(sgLedger) + 1].vector = DeriveVector(snap)
        /\ new[Len(sgLedger) + 1].preflight = snap.block
    BY Zenon, <1>1, <1>2, AppendOrdered
  <1>4. sg[s].peer \in 1..Len(exLedger) /\ exLedger[sg[s].peer].started
    BY <1>1 DEF AInv, SignerAgree
  <1> HIDE DEF new
  <1>5. CASE /\ sgLedger' = new
             /\ sg' = [sg EXCEPT ![s].pc = "wallet", ![s].snap = snap, ![s].idx = Len(new)]
    <2>1. /\ sg[s] \in SignerState
          /\ sg'[s] = [sg[s] EXCEPT !.pc = "wallet", !.snap = snap, !.idx = Len(new)]
      BY <1>5 DEF IInv, TypeOK
    <2>2. /\ sg'[s].pc = "wallet" /\ sg'[s].snap = snap /\ sg'[s].idx = Len(new)
          /\ sg'[s].peer = sg[s].peer /\ sg'[s].plan = sg[s].plan
      BY Zenon, <2>1 DEF SignerState
    <2>3. SignerAgree'
      BY <1>1, <1>3, <1>4, <1>5, <2>2, SlotAgrees
    <2> QED BY <1>1, <1>3, <1>5, <2>3, SignerFrame
  <1>6. CASE sgLedger' \in {sgLedger, new} /\ sg' = Respond(s, "rejected")
    <2>1. Later(sgLedger, sgLedger') /\ Ordered(sgLedger')
      BY <1>2, <1>3, <1>6, SameLedger
    <2> QED BY <1>1, <1>6, <2>1, SignerAnswersAgree
  <1> QED BY <1>5, <1>6 DEF SignerAdmit, Persist, new

(* A signer past admission owns the last attempt of its ledger. *)
LEMMA SignerOwns ==
    ASSUME IInv, AInv, NEW s \in Signers, sg[s].pc \in {"wallet", "submit", "sent"}
    PROVE  /\ sg[s].idx = Len(sgLedger) /\ Len(sgLedger) > 0
           /\ sgLedger \in Seq(AuditAttempt) /\ Ordered(sgLedger)
  <1>1. sg[s].idx \in 1..Len(sgLedger) /\ Len(sgLedger) \in Nat
    BY SignerIdx, LedgerTypes
  <1>2. sg[s].idx = Len(sgLedger)
    BY DEF AInv, SignerAgree
  <1> QED BY <1>1, <1>2, LedgerTypes DEF AInv

LEMMA SignerSendCheckAgrees ==
    ASSUME IInv, AInv, IInv', NEW s \in Signers, NEW snap \in Snapshot, SignerSendCheck(s, snap)
    PROVE  AInv'
  <1> DEFINE new == MarkStarted(sgLedger, sg[s].idx, snap.block)
  <1>1. /\ sg[s].pc = "wallet" /\ UNCHANGED <<exLedger, ex, conn, xts>>
        /\ sg[s].snap.block <= snap.block
    BY DEF SignerSendCheck, FreshAgainst
  <1>2. /\ sg[s].idx = Len(sgLedger) /\ Len(sgLedger) > 0
        /\ sgLedger \in Seq(AuditAttempt) /\ Ordered(sgLedger) /\ snap.block \in 1..MaxBlock
    BY <1>1, SignerOwns DEF Snapshot
  <1>3. /\ sg[s].peer \in 1..Len(exLedger) /\ exLedger[sg[s].peer].started
        /\ exLedger[sg[s].peer].plan = sg[s].plan
        /\ exLedger[sg[s].peer].vector = sgLedger[sg[s].idx].vector
        /\ sgLedger[sg[s].idx].preflight = sg[s].snap.block
    BY <1>1 DEF AInv, SignerAgree
  <1>4. Later(sgLedger, new) /\ Ordered(new) /\ Len(new) = Len(sgLedger)
    BY <1>1, <1>2, <1>3, MarkOrdered
  <1> HIDE DEF new
  <1>5. CASE sgLedger' = new /\ sg' = [sg EXCEPT ![s].pc = "submit"]
    <2>1. sg[s] \in SignerState /\ sg'[s] = [sg[s] EXCEPT !.pc = "submit"]
      BY <1>5 DEF IInv, TypeOK
    <2>2. /\ sg'[s].pc = "submit" /\ sg'[s].idx = sg[s].idx
          /\ sg'[s].peer = sg[s].peer /\ sg'[s].plan = sg[s].plan
      BY Zenon, <2>1 DEF SignerState
    <2>3. new[sg[s].idx].vector = sgLedger[sg[s].idx].vector
      BY <1>2, <1>4 DEF Later
    <2>4. SignerAgree'
      BY <1>1, <1>2, <1>3, <1>4, <1>5, <2>2, <2>3, SlotAgrees
    <2> QED BY <1>1, <1>4, <1>5, <2>4, SignerFrame
  <1>6. CASE sgLedger' \in {sgLedger, new} /\ sg' = Respond(s, "rejected")
    <2>1. Later(sgLedger, sgLedger') /\ Ordered(sgLedger')
      BY <1>2, <1>4, <1>6, SameLedger
    <2> QED BY <1>1, <1>6, <2>1, SignerAnswersAgree
  <1> QED BY <1>5, <1>6 DEF SignerSendCheck, Persist, new

LEMMA SignerConcludesAgree ==
    ASSUME IInv, AInv, IInv', NEW s \in Signers,
           \/ SignerRefuse(s) \/ SignerPreSendFailure(s)
           \/ \E v \in Verdict : SignerOutcome(s, v)
    PROVE  AInv'
  <1>1. CASE SignerRefuse(s)
    <2>1. sg' = Respond(s, "rejected") /\ UNCHANGED <<exLedger, sgLedger, ex, conn, xts>>
      BY <1>1 DEF SignerRefuse
    <2>2. Later(sgLedger, sgLedger') /\ Ordered(sgLedger')
      BY <2>1, SameLedger, LedgerTypes DEF AInv
    <2> QED BY <2>1, <2>2, SignerAnswersAgree
  <1>2. ASSUME NEW v, NEW st \in Status, sg[s].pc \in {"wallet", "submit", "sent"},
               sg' = Respond(s, v), UNCHANGED <<exLedger, ex, conn, xts>>,
               sgLedger' \in {sgLedger, FinishAttempt(sgLedger, sg[s].idx, st)}
        PROVE  AInv'
    <2>1. Later(sgLedger, sgLedger') /\ Ordered(sgLedger')
      BY <1>2, SignerOwns, FinishOrdered, SameLedger
    <2> QED BY <1>2, <2>1, SignerAnswersAgree
  <1>3. CASE SignerPreSendFailure(s)
    BY Zenon, <1>2, <1>3 DEF SignerPreSendFailure, Persist, Status
  <1>4. ASSUME NEW v \in Verdict, SignerOutcome(s, v) PROVE AInv'
    <2>1. LedgerStatus(v) \in Status
      BY DEF LedgerStatus, Verdict, Status
    <2>2. /\ sg[s].pc \in {"wallet", "submit", "sent"} /\ sg' = Respond(s, v)
          /\ sgLedger' \in {sgLedger, FinishAttempt(sgLedger, sg[s].idx, LedgerStatus(v))}
          /\ UNCHANGED <<exLedger, ex, conn, xts>>
      BY <1>4 DEF SignerOutcome, Persist
    <2> QED BY <1>2, <2>1, <2>2
  <1> QED BY <1>1, <1>3, <1>4

(* What is handed to the chain carries the vector of both attempts. *)
LEMMA SdkSubmitAgrees ==
    ASSUME IInv, AInv, IInv', NEW s \in Signers, SdkSubmit(s)
    PROVE  AInv'
  <1> DEFINE x == [plan |-> sg[s].plan, vector |-> sgLedger[sg[s].idx].vector, by |-> sg[s].idx,
                   req |-> sg[s].peer, state |-> "pool"]
  <1>1. /\ sg[s].pc = "submit" /\ xts' = Append(xts, x) /\ sg' = [sg EXCEPT ![s].pc = "sent"]
        /\ UNCHANGED <<exLedger, sgLedger, ex, conn>>
    BY DEF SdkSubmit
  <1>2. /\ sg[s].peer \in 1..Len(exLedger) /\ exLedger[sg[s].peer].started
        /\ exLedger[sg[s].peer].plan = sg[s].plan /\ sg[s].idx = Len(sgLedger)
        /\ exLedger[sg[s].peer].vector = sgLedger[sg[s].idx].vector
    BY <1>1 DEF AInv, SignerAgree
  <1>3. /\ x.plan = sg[s].plan /\ x.vector = sgLedger[sg[s].idx].vector
        /\ x.by = sg[s].idx /\ x.req = sg[s].peer
    OBVIOUS
  <1> HIDE DEF x
  <1>4. /\ Len(xts) \in Nat /\ Len(xts') = Len(xts) + 1
        /\ \A k \in 1..Len(xts) : xts'[k] = xts[k]
        /\ xts'[Len(xts) + 1] = x
    <2>1. xts \in Seq(Extrinsic)
      BY DEF IInv, TypeOK
    <2>2. \A k \in 1..Len(xts) : Append(xts, x)[k] = xts[k]
      BY <2>1
    <2>3. Len(Append(xts, x)) = Len(xts) + 1 /\ Append(xts, x)[Len(xts) + 1] = x
      BY <2>1
    <2> QED BY <1>1, <2>1, <2>2, <2>3
  <1>5. SentAgree'
    <2>1. SUFFICES ASSUME NEW k \in 1..Len(xts')
                   PROVE  /\ xts'[k].req \in 1..Len(exLedger)
                          /\ exLedger[xts'[k].req].started
                          /\ exLedger[xts'[k].req].plan = xts'[k].plan
                          /\ exLedger[xts'[k].req].vector = xts'[k].vector
                          /\ sgLedger[xts'[k].by].vector = xts'[k].vector
      BY <1>1 DEF SentAgree
    <2>2. CASE k = Len(xts) + 1
      BY <1>2, <1>3, <1>4, <2>2
    <2>3. CASE k \in 1..Len(xts)
      BY <1>4, <2>3 DEF AInv, SentAgree
    <2> QED BY <1>4, <2>2, <2>3
  <1>6. sg[s] \in SignerState /\ sg'[s] = [sg[s] EXCEPT !.pc = "sent"]
    BY <1>1 DEF IInv, TypeOK
  <1>7. /\ sg'[s].pc = "sent" /\ sg'[s].idx = sg[s].idx
        /\ sg'[s].peer = sg[s].peer /\ sg'[s].plan = sg[s].plan
    BY Zenon, <1>6 DEF SignerState
  <1>8. SignerAgree'
    BY <1>1, <1>2, <1>7, SlotAgrees
  <1>9. ExecutorAgree' /\ RequestInv'
    BY <1>1 DEF AInv, ExecutorAgree, RequestInv
  <1>10. Ordered(exLedger)' /\ Ordered(sgLedger)'
    BY <1>1 DEF AInv, Ordered, Blocks
  <1> QED BY <1>5, <1>8, <1>9, <1>10 DEF AInv

LEMMA SignerRespondAgrees ==
    ASSUME IInv, AInv, IInv', NEW s \in Signers, SignerRespond(s)
    PROVE  AInv'
  <1>1. UNCHANGED <<exLedger, sgLedger, ex, xts>> /\ sgLock' = None
    BY DEF SignerRespond, EndSigner
  <1>2. Later(sgLedger, sgLedger') /\ Ordered(sgLedger')
    BY <1>1, SameLedger, LedgerTypes DEF AInv
  <1>3. \A i \in AttemptId : conn'[i].req => conn[i].req
    <2>1. \A i \in AttemptId : [conn[i] EXCEPT !.to = None, !.reply = sg[s].outcome].req
                               = conn[i].req
      BY Zenon DEF IInv, TypeOK, Connection
    <2>2. \A i \in AttemptId : Disconnected(conn[i], s).req = conn[i].req
      BY DisconnectedKeeps DEF IInv
    <2>3. \A i \in AttemptId :
             conn'[i] \in {[conn[i] EXCEPT !.to = None, !.reply = sg[s].outcome],
                           Disconnected(conn[i], s)}
      BY DEF SignerRespond
    <2> QED BY <2>1, <2>2, <2>3
  <1> QED BY <1>1, <1>2, <1>3, SignersGone, SignerFrame

(* The chain only decides the fate of an extrinsic. *)
LEMMA EnvironmentAgrees ==
    ASSUME IInv, AInv, IInv',
           \/ RemoveStaleSocket
           \/ \E k \in DOMAIN xts, o \in {"applied", "failed"} : ChainInclude(k, o)
    PROVE  AInv'
  <1>1. UNCHANGED <<exLedger, sgLedger, ex, sg, conn>>
    BY DEF RemoveStaleSocket, ChainInclude
  <1>2. /\ Len(xts') = Len(xts)
        /\ \A j \in 1..Len(xts) : /\ xts'[j].plan = xts[j].plan /\ xts'[j].by = xts[j].by
                                  /\ xts'[j].req = xts[j].req /\ xts'[j].vector = xts[j].vector
    <2>1. CASE RemoveStaleSocket
      BY <2>1 DEF RemoveStaleSocket
    <2>2. ASSUME NEW k \in DOMAIN xts, NEW o \in {"applied", "failed"}, ChainInclude(k, o)
          PROVE  <1>2
      <3>1. /\ xts \in Seq(Extrinsic) /\ k \in 1..Len(xts)
            /\ xts' = [xts EXCEPT ![k] = [xts[k] EXCEPT !.state = o]]
        BY <2>2 DEF ChainInclude, IInv, TypeOK
      <3> DEFINE y == [xts[k] EXCEPT !.state = o]
      <3>2. /\ y.plan = xts[k].plan /\ y.by = xts[k].by /\ y.req = xts[k].req
            /\ y.vector = xts[k].vector
        <4>1. xts[k] \in Extrinsic
          BY <3>1
        <4> QED BY Zenon, <4>1 DEF Extrinsic
      <3>3. xts' = [xts EXCEPT ![k] = y]
        BY <3>1
      <3> HIDE DEF y
      <3> QED BY <3>1, <3>2, <3>3
    <2> QED BY <2>1, <2>2
  <1>3. SentAgree'
    BY <1>1, <1>2 DEF AInv, SentAgree
  <1>4. ExecutorAgree' /\ RequestInv' /\ SignerAgree'
    BY <1>1 DEF AInv, ExecutorAgree, RequestInv, SignerAgree
  <1>5. Ordered(exLedger)' /\ Ordered(sgLedger)'
    BY <1>1 DEF AInv, Ordered, Blocks
  <1> QED BY <1>3, <1>4, <1>5 DEF AInv

-----------------------------------------------------------------------------
(* The theorems. *)

LEMMA InitAgrees == Init => AInv
    BY DEF Init, AInv, Ordered, ExecutorAgree, RequestInv, SignerAgree, SentAgree,
           IdleExecutor, IdleSigner, NoConnection

LEMMA NextAgrees == IInv /\ IInv' /\ AInv /\ [Next]_vars => AInv'
  <1> SUFFICES ASSUME IInv, IInv', AInv, [Next]_vars PROVE AInv'
    OBVIOUS
  <1>1. ASSUME NEW e \in Executors, ExecutorStep(e) PROVE AInv'
    BY <1>1, ExecutorAgrees
  <1>2. ASSUME NEW s \in Signers, SignerStep(s) PROVE AInv'
    BY <1>2, SignerFrontAgrees, SignerAdmitAgrees, SignerSendCheckAgrees, SignerConcludesAgree,
       SdkSubmitAgrees, SignerRespondAgrees DEF SignerStep
  <1>3. CASE RemoveStaleSocket \/ \E k \in DOMAIN xts, o \in {"applied", "failed"} :
                                    ChainInclude(k, o)
    BY <1>3, EnvironmentAgrees
  <1>4. CASE UNCHANGED vars
    BY <1>4 DEF vars, AInv, Ordered, ExecutorAgree, RequestInv, SignerAgree, SentAgree, Blocks
  <1> QED
    BY <1>1, <1>2, <1>3, <1>4 DEF Next

LEMMA AgreementAlways == Spec => [](IInv /\ AInv)
  <1>1. Init => AInv
    BY InitAgrees
  <1>2. IInv /\ IInv' /\ AInv /\ [Next]_vars => AInv'
    BY NextAgrees
  <1> QED BY <1>1, <1>2, InvAlways, PTL DEF Spec

(* What is out is the vector the executor asked for and the signer          *)
(* recorded, after both send markers and with neither send check older than *)
(* its preflight, for any number of processes, plans, views and retries.    *)
THEOREM AgreedAtSubmission == Spec => []SubmittedAsAgreed
  <1>1. IInv /\ AInv => SubmittedAsAgreed
    <2> SUFFICES ASSUME IInv, AInv, NEW k \in DOMAIN xts,
                        NEW a \in {exLedger[xts[k].req], sgLedger[xts[k].by]}
                 PROVE  /\ a.plan = xts[k].plan /\ a.vector = xts[k].vector
                        /\ a.started /\ a.preflight <= a.sendCheck
      BY DEF SubmittedAsAgreed
    <2>1. k \in 1..Len(xts)
      BY DEF IInv, TypeOK
    <2>2. CASE a = exLedger[xts[k].req]
      BY <2>1, <2>2 DEF AInv, SentAgree, Ordered
    <2>3. CASE a = sgLedger[xts[k].by]
      BY <2>1, <2>3 DEF IInv, AInv, ExtrinsicInv, SentAgree, Ordered
    <2> QED BY <2>2, <2>3
  <1> QED BY <1>1, AgreementAlways, PTL

=============================================================================
