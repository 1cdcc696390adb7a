------------------------ MODULE WeightReportProofs ------------------------
(***************************************************************************)
(* What the executor and the signer print is true, now and later, for any  *)
(* plans, process slots, views and ledger size: the remaining steps of the *)
(* signer and of the chain preserve RInv of WeightAnswerProofs.  And no    *)
(* retry the reports advise repeats a submitted extrinsic: a ledger in     *)
(* order (AInv) advises one only when no attempt of the plan has started.  *)
(***************************************************************************)
EXTENDS WeightAnswerProofs

(* Steps between the request and the answer: the slot keeps its peer. *)
LEMMA SignerMovesReports ==
    ASSUME IInv, AInv, RInv, IInv', NEW s \in Signers,
           UNCHANGED <<exLedger, ex, socket, conn, xts, reports>>,
           Len(sgLedger') >= Len(sgLedger),
           sg[s].pc \in {"admit", "wallet", "submit", "sent"},
           sg'[s].pc \in {"wallet", "submit", "respond"}, sg'[s].peer = sg[s].peer,
           sg[s].pc = "sent" => sg'[s].pc = "respond" /\ sg'[s].idx = sg[s].idx,
           sg'[s].pc \in {"wallet", "submit"} =>
             \/ sg'[s].idx = Len(sgLedger) + 1
             \/ sg[s].pc \in {"wallet", "submit", "sent"} /\ sg'[s].idx = sg[s].idx,
           sg'[s].pc = "respond" =>
             /\ sg'[s].idx <= Len(sgLedger')
             /\ \A k \in 1..Len(xts) : xts[k].by = sg'[s].idx => xts[k].req = sg[s].peer
             /\ sg'[s].outcome = "rejected" =>
                  \A k \in 1..Len(xts) : xts[k].by = sg'[s].idx => xts[k].state = "failed"
             /\ sg'[s].outcome = "confirmed" =>
                  \E k \in 1..Len(xts) : xts[k].by = sg'[s].idx /\ xts[k].state = "applied"
    PROVE  RInv'
  <1>1. /\ \A t \in Signers : t # s => sg[t].pc = "idle" /\ sg'[t].pc = "idle"
        /\ \A i \in AttemptId : conn[i].to \in {None, s}
        /\ socket.listener = None
    <2>1. \A t \in Signers : t # s => sg'[t].pc = "idle"
      BY DEF IInv, SignerInv
    <2>2. socket.listener \in {None, s}
      BY OneServer
    <2>3. socket.listener # s
      BY ConstantsAssumption DEF RInv, ListenerRuns
    <2> QED BY <2>1, <2>2, <2>3, OneServer
  <1>2. ExecutorConn'
    BY ExecutorConnKept
  <1>3. ConnShape' /\ ListenerRuns'
    BY <1>1 DEF RInv, ConnShape, ListenerRuns
  <1>4. SignerConn'
    BY <1>1 DEF RInv, SignerConn
  <1>5. SentConn'
    BY <1>1 DEF RInv, SentConn
  <1>6. OutcomeInv'
    BY <1>1 DEF OutcomeInv, NoEffectBy, AppliedBy
  <1>7. ReplyInv'
    BY DEF RInv, ReplyInv, NoEffectFor, AppliedFor
  <1>8. ReportInv'
    <2>1. Len(sgLedger) \in Nat /\ Len(sgLedger') \in Nat /\ \A r \in reports : r.idx \in Nat
      BY AttemptBounds DEF IInv, TypeOK
    <2>2. \A r \in reports : r.who = "signer" =>
             /\ r.idx <= Len(sgLedger')
             /\ \A t \in Signers : sg'[t].pc \in {"wallet", "submit", "sent"} => sg'[t].idx # r.idx
      <3> SUFFICES ASSUME NEW r \in reports, r.who = "signer", NEW t \in Signers,
                          sg'[t].pc \in {"wallet", "submit", "sent"}
                   PROVE  sg'[t].idx # r.idx
        BY <2>1 DEF RInv, ReportInv
      <3>1. t = s
        BY <1>1
      <3>2. r.idx <= Len(sgLedger)
        BY DEF RInv, ReportInv
      <3>3. CASE sg'[s].idx = Len(sgLedger) + 1
        BY <2>1, <3>1, <3>2, <3>3
      <3>4. CASE sg[s].pc \in {"wallet", "submit", "sent"} /\ sg'[s].idx = sg[s].idx
        BY <3>1, <3>4 DEF RInv, ReportInv
      <3> QED BY <3>1, <3>3, <3>4
    <2> QED BY <2>2, VerdictsKept DEF RInv, ReportInv
  <1> QED BY Zenon, <1>2, <1>3, <1>4, <1>5, <1>6, <1>7, <1>8 DEF RInv

(* The slot of a run that has its answer. *)
LEMMA Answered ==
    ASSUME IInv, NEW s \in Signers, NEW v, sg' = Respond(s, v)
    PROVE  /\ sg'[s].pc = "respond" /\ sg'[s].outcome = v
           /\ sg'[s].idx = sg[s].idx /\ sg'[s].peer = sg[s].peer
  <1>1. sg[s] \in SignerState /\ sg'[s] = [sg[s] EXCEPT !.pc = "respond", !.outcome = v]
    BY DEF Respond, IInv, TypeOK
  <1> QED BY Zenon, <1>1 DEF SignerState

(* "rejected" before the send marker: no extrinsic rests on the attempt. *)
LEMMA SignerRefusesReports ==
    ASSUME IInv, AInv, RInv, IInv', NEW s \in Signers, sg[s].pc \in {"admit", "wallet"},
           UNCHANGED <<exLedger, ex, socket, conn, xts, reports>>,
           Len(sgLedger') >= Len(sgLedger), sg' = Respond(s, "rejected")
    PROVE  RInv'
  <1>1. /\ sg'[s].pc = "respond" /\ sg'[s].outcome = "rejected"
        /\ sg'[s].idx = sg[s].idx /\ sg'[s].peer = sg[s].peer
    BY Answered
  <1>2. Len(sgLedger) \in Nat /\ Len(sgLedger') \in Nat
    BY DEF IInv, TypeOK
  <1>3. sg[s].idx \in 0..Len(sgLedger) /\ \A k \in 1..Len(xts) : xts[k].by # sg[s].idx
    <2>1. CASE sg[s].pc = "admit"
      <3>1. sg[s].idx = 0
        BY <2>1 DEF RInv, OutcomeInv
      <3>2. \A k \in 1..Len(xts) : xts[k].by \in 1..MaxAttempts
        BY AttemptBounds DEF AttemptId
      <3> QED BY <1>2, <3>1, <3>2, ConstantsAssumption
    <2>2. CASE sg[s].pc = "wallet"
      <3>1. OwnsAttempt(s)
        BY <2>2 DEF IInv, SignerInv
      <3>2. sg[s].idx \in 1..Len(sgLedger) /\ ~sgLedger[sg[s].idx].started
        BY Zenon, <2>2, <3>1 DEF OwnsAttempt
      <3>3. \A k \in 1..Len(xts) : sgLedger[xts[k].by].started
        BY DEF IInv, ExtrinsicInv
      <3> QED BY <1>2, <3>2, <3>3
    <2> QED BY Zenon, <2>1, <2>2
  <1>4. /\ sg'[s].idx <= Len(sgLedger')
        /\ \A k \in 1..Len(xts) : xts[k].by # sg'[s].idx
    BY <1>1, <1>2, <1>3
  <1> QED BY Zenon, <1>1, <1>4, SignerMovesReports

LEMMA SignerAdmitReports ==
    ASSUME IInv, AInv, RInv, IInv', NEW s \in Signers, NEW snap \in Snapshot,
           SignerAdmit(s, snap)
    PROVE  RInv'
  <1> DEFINE new == Append(sgLedger, NewAttempt(sg[s].plan, snap))
  <1>1. sg[s].pc = "admit" /\ UNCHANGED <<exLedger, ex, socket, conn, xts, reports>>
    BY DEF SignerAdmit
  <1>2. sgLedger \in Seq(AuditAttempt) /\ Len(sgLedger) \in Nat /\ sg[s].plan \in Plans
    BY <1>1, LedgerTypes DEF IInv, SignerInv
  <1>3. Len(new) = Len(sgLedger) + 1
    BY <1>2, AppendLedger, NewAttemptIsAttempt
  <1> HIDE DEF new
  <1>4. CASE /\ sgLedger' = new
             /\ sg' = [sg EXCEPT ![s].pc = "wallet", ![s].snap = snap, ![s].idx = Len(new)]
    <2>1. /\ sg[s] \in SignerState
          /\ sg'[s] = [sg[s] EXCEPT !.pc = "wallet", !.snap = snap, !.idx = Len(new)]
      BY <1>4 DEF IInv, TypeOK
    <2>2. sg'[s].pc = "wallet" /\ sg'[s].idx = Len(new) /\ sg'[s].peer = sg[s].peer
      BY Zenon, <2>1 DEF SignerState
    <2>3. Len(sgLedger') >= Len(sgLedger)
      BY <1>2, <1>3, <1>4
    <2> QED BY <1>1, <1>3, <2>2, <2>3, SignerMovesReports
  <1>5. CASE sgLedger' \in {sgLedger, new} /\ sg' = Respond(s, "rejected")
    <2>1. Len(sgLedger') >= Len(sgLedger)
      BY <1>2, <1>3, <1>5
    <2> QED BY <1>1, <1>5, <2>1, SignerRefusesReports
  <1> QED BY <1>4, <1>5 DEF SignerAdmit, Persist, new

LEMMA SignerSendCheckReports ==
    ASSUME IInv, AInv, RInv, IInv', NEW s \in Signers, NEW snap \in Snapshot,
           SignerSendCheck(s, snap)
    PROVE  RInv'
  <1> DEFINE new == MarkStarted(sgLedger, sg[s].idx, snap.block)
  <1>1. sg[s].pc = "wallet" /\ UNCHANGED <<exLedger, ex, socket, conn, xts, reports>>
    BY DEF SignerSendCheck
  <1>2. /\ sgLedger \in Seq(AuditAttempt) /\ Len(sgLedger) \in Nat
        /\ sg[s].idx \in 1..Len(sgLedger) /\ snap.block \in 1..MaxBlock
    BY <1>1, LedgerTypes, SignerIdx DEF Snapshot
  <1>3. Len(new) = Len(sgLedger)
    BY Zenon, <1>2, MarkLedger
  <1> HIDE DEF new
  <1>4. CASE sgLedger' = new /\ sg' = [sg EXCEPT ![s].pc = "submit"]
    <2>1. sg[s] \in SignerState /\ sg'[s] = [sg[s] EXCEPT !.pc = "submit"]
      BY <1>4 DEF IInv, TypeOK
    <2>2. sg'[s].pc = "submit" /\ sg'[s].idx = sg[s].idx /\ sg'[s].peer = sg[s].peer
      BY Zenon, <2>1 DEF SignerState
    <2>3. Len(sgLedger') >= Len(sgLedger)
      BY <1>2, <1>3, <1>4
    <2> QED BY <1>1, <2>2, <2>3, SignerMovesReports
  <1>5. CASE sgLedger' \in {sgLedger, new} /\ sg' = Respond(s, "rejected")
    <2>1. Len(sgLedger') >= Len(sgLedger)
      BY <1>2, <1>3, <1>5
    <2> QED BY <1>1, <1>5, <2>1, SignerRefusesReports
  <1> QED BY <1>4, <1>5 DEF SignerSendCheck, Persist, new

(* What is concluded from the extrinsic of the attempt, of which there is   *)
(* at most one.                                                             *)
LEMMA SignerConcludesReports ==
    ASSUME IInv, AInv, RInv, IInv', NEW s \in Signers,
           \/ SignerRefuse(s) \/ SignerPreSendFailure(s)
           \/ \E v \in Verdict : SignerOutcome(s, v)
    PROVE  RInv'
  <1>1. Len(sgLedger) \in Nat /\ Len(sgLedger') \in Nat
    BY DEF IInv, TypeOK
  <1>2. ASSUME NEW st \in Status, sg[s].pc \in {"wallet", "submit", "sent"},
               sgLedger' \in {sgLedger, FinishAttempt(sgLedger, sg[s].idx, st)}
        PROVE  Len(sgLedger') >= Len(sgLedger)
    <2>1. sg[s].idx \in 1..Len(sgLedger)
      BY <1>2, SignerIdx
    <2> QED BY <1>1, <1>2, <2>1, LedgerTypes, FinishLedger
  <1>3. CASE SignerRefuse(s)
    <2>1. /\ sg[s].pc = "admit" /\ sg' = Respond(s, "rejected")
          /\ UNCHANGED <<exLedger, sgLedger, ex, socket, conn, xts, reports>>
      BY <1>3 DEF SignerRefuse
    <2>2. Len(sgLedger') >= Len(sgLedger)
      BY <1>1, <2>1
    <2> QED BY Zenon, <2>1, <2>2, SignerRefusesReports
  <1>4. CASE SignerPreSendFailure(s)
    <2>1. /\ sg[s].pc = "wallet" /\ sg' = Respond(s, "rejected")
          /\ UNCHANGED <<exLedger, ex, socket, conn, xts, reports>>
          /\ sgLedger' \in {sgLedger, FinishAttempt(sgLedger, sg[s].idx, "failed")}
      BY <1>4 DEF SignerPreSendFailure, Persist
    <2>2. Len(sgLedger') >= Len(sgLedger)
      BY <1>2, <2>1 DEF Status
    <2> QED BY <2>1, <2>2, SignerRefusesReports
  <1>5. ASSUME NEW v \in Verdict, SignerOutcome(s, v) PROVE RInv'
    <2>1. /\ sg[s].pc \in {"submit", "sent"} /\ sg' = Respond(s, v) /\ v \in Classify(s)
          /\ UNCHANGED <<exLedger, ex, socket, conn, xts, reports>>
          /\ sgLedger' \in {sgLedger, FinishAttempt(sgLedger, sg[s].idx, LedgerStatus(v))}
      BY Zenon, <1>5 DEF SignerOutcome, Persist
    <2>2. LedgerStatus(v) \in Status
      BY DEF LedgerStatus, Verdict, Status
    <2>3. Len(sgLedger') >= Len(sgLedger) /\ sg[s].idx \in 1..Len(sgLedger)
      BY Zenon, <1>2, <2>1, <2>2, SignerIdx
    <2>4. /\ sg'[s].pc = "respond" /\ sg'[s].outcome = v
          /\ sg'[s].idx = sg[s].idx /\ sg'[s].peer = sg[s].peer
      BY <2>1, Answered
    <2>5. DOMAIN xts = 1..Len(xts)
      BY DEF IInv, TypeOK
    <2>6. \A k \in 1..Len(xts) : xts[k].by = sg[s].idx => xts[k].req = sg[s].peer
      BY Zenon, <2>1 DEF IInv, SignerInv, RInv, OutcomeInv
    <2>7. ASSUME v = "rejected"
          PROVE  \A k \in 1..Len(xts) : xts[k].by = sg[s].idx => xts[k].state = "failed"
      <3>1. CASE sg[s].pc = "submit"
        BY Zenon, <3>1 DEF IInv, SignerInv
      <3>2. CASE \E j \in 1..Len(xts) : xts[j].by = sg[s].idx /\ xts[j].state = "failed"
        <4>1. PICK j \in 1..Len(xts) : xts[j].by = sg[s].idx /\ xts[j].state = "failed"
          BY <3>2
        <4>2. \A k \in 1..Len(xts) : xts[k].by = sg[s].idx => xts[k].plan = xts[j].plan
          BY <4>1 DEF IInv, ExtrinsicInv
        <4> QED BY <4>1, <4>2 DEF IInv, OncePerPlan
      <3> QED BY Zenon, <2>1, <2>5, <2>7, <3>1, <3>2 DEF Classify
    <2>8. ASSUME v = "confirmed"
          PROVE  \E k \in 1..Len(xts) : xts[k].by = sg[s].idx /\ xts[k].state = "applied"
      BY <2>1, <2>5, <2>8 DEF Classify
    <2>9. sg'[s].idx <= Len(sgLedger')
      BY <1>1, <2>3, <2>4
    <2> QED
      BY Zenon, <2>1, <2>3, <2>4, <2>6, <2>7, <2>8, <2>9, SignerMovesReports
  <1> QED BY <1>3, <1>4, <1>5

(* The extrinsic leaves for a request that has no answer yet. *)
LEMMA SdkSubmitReports ==
    ASSUME IInv, AInv, RInv, IInv', NEW s \in Signers, SdkSubmit(s)
    PROVE  RInv'
  <1> DEFINE x == [plan |-> sg[s].plan, vector |-> sgLedger[sg[s].idx].vector, by |-> sg[s].idx,
                   req |-> sg[s].peer, state |-> "pool"]
             n == Len(xts) + 1
  <1>1. /\ sg[s].pc = "submit" /\ xts' = Append(xts, x) /\ sg' = [sg EXCEPT ![s].pc = "sent"]
        /\ UNCHANGED <<exLedger, sgLedger, ex, socket, conn, reports>>
    BY DEF SdkSubmit
  <1>2. x.by = sg[s].idx /\ x.req = sg[s].peer /\ x.state = "pool"
    OBVIOUS
  <1> HIDE DEF x
  <1>3. /\ Len(xts) \in Nat /\ Len(xts') = n
        /\ \A k \in 1..Len(xts) : xts'[k] = xts[k]
        /\ xts'[n] = x
    <2>1. xts \in Seq(Extrinsic)
      BY DEF IInv, TypeOK
    <2>2. \A k \in 1..Len(xts) : Append(xts, x)[k] = xts[k]
      BY <2>1
    <2>3. Len(Append(xts, x)) = Len(xts) + 1 /\ Append(xts, x)[Len(xts) + 1] = x
      BY <2>1
    <2> QED BY <1>1, <2>1, <2>2, <2>3
  <1>4. \A k \in 1..Len(xts') : (k \in 1..Len(xts) /\ xts'[k] = xts[k]) \/ (k = n /\ xts'[k] = x)
    BY <1>3
  <1>5. 1..Len(xts) \subseteq 1..Len(xts') /\ n \in 1..Len(xts')
    BY <1>3
  <1> HIDE DEF n
  <1>6. sg[s] \in SignerState /\ sg'[s] = [sg[s] EXCEPT !.pc = "sent"]
    BY <1>1 DEF IInv, TypeOK
  <1>7. sg'[s].pc = "sent" /\ sg'[s].idx = sg[s].idx /\ sg'[s].peer = sg[s].peer
    BY Zenon, <1>6 DEF SignerState
  <1>8. /\ \A t \in Signers : t # s => sg[t].pc = "idle" /\ sg'[t].pc = "idle"
        /\ \A i \in AttemptId : conn[i].to \in {None, s}
        /\ socket.listener = None
    <2>1. \A t \in Signers : t # s => sg'[t].pc = "idle"
      BY <1>7 DEF IInv, SignerInv
    <2>2. socket.listener \in {None, s}
      BY <1>1, OneServer
    <2>3. socket.listener # s
      BY <1>1, ConstantsAssumption DEF RInv, ListenerRuns
    <2> QED BY <1>1, <2>1, <2>2, <2>3, OneServer
  <1>9. /\ sg[s].peer \in AttemptId /\ conn[sg[s].peer].to = s /\ conn[sg[s].peer].req
        /\ conn[sg[s].peer].reply = None
        /\ \A k \in 1..Len(xts) : xts[k].by # sg[s].idx
    BY <1>1, AttemptBounds, ConstantsAssumption
    DEF RInv, SignerConn, ConnShape, IInv, SignerInv
  <1>10. ExecutorConn'
    BY <1>1, ExecutorConnKept
  <1>11. ConnShape' /\ ListenerRuns'
    BY <1>1, <1>7, <1>8 DEF RInv, ConnShape, ListenerRuns
  <1>12. SignerConn'
    BY <1>1, <1>7, <1>8, <1>9 DEF SignerConn
  <1>13. SentConn'
    BY <1>1, <1>2, <1>4, <1>7, <1>9 DEF RInv, SentConn
  <1>14. OutcomeInv'
    <2>1. SUFFICES ASSUME NEW k \in 1..Len(xts'), xts'[k].by = sg'[s].idx
                   PROVE  xts'[k].req = sg'[s].peer
      BY <1>7, <1>8 DEF OutcomeInv
    <2> QED BY <1>2, <1>4, <1>7, <1>9, <2>1
  <1>15. ReplyInv'
    <2>1. SUFFICES ASSUME NEW i \in AttemptId
                   PROVE  /\ conn[i].reply = "rejected" =>
                               \A k \in 1..Len(xts') : xts'[k].req = i => xts'[k].state = "failed"
                          /\ conn[i].reply = "confirmed" =>
                               \E k \in 1..Len(xts') : xts'[k].req = i /\ xts'[k].state = "applied"
      BY <1>1 DEF ReplyInv, NoEffectFor, AppliedFor
    <2>2. conn[i].reply \in {"rejected", "confirmed"} => i # sg[s].peer
      BY <1>9, ConstantsAssumption
    <2>3. CASE conn[i].reply = "rejected"
      BY <1>2, <1>4, <2>2, <2>3 DEF RInv, ReplyInv, NoEffectFor
    <2>4. CASE conn[i].reply = "confirmed"
      BY <1>3, <1>5, <2>4 DEF RInv, ReplyInv, AppliedFor
    <2> QED BY <2>3, <2>4
  <1>16. ReportInv'
    <2>1. ASSUME NEW r \in reports, r.who = "signer"
          PROVE  /\ r.idx <= Len(sgLedger)
                 /\ \A t \in Signers : sg'[t].pc \in {"wallet", "submit", "sent"} =>
                                         sg'[t].idx # r.idx
                 /\ r.verdict = "rejected" =>
                      \A k \in 1..Len(xts') : xts'[k].by = r.idx => xts'[k].state = "failed"
                 /\ r.verdict = "confirmed" =>
                      \E k \in 1..Len(xts') : xts'[k].by = r.idx /\ xts'[k].state = "applied"
      <3>1. r.idx # sg[s].idx /\ r.idx <= Len(sgLedger)
        BY <1>1, <2>1 DEF RInv, ReportInv
      <3>2. \A t \in Signers : sg'[t].pc \in {"wallet", "submit", "sent"} => sg'[t].idx # r.idx
        BY <1>7, <1>8, <3>1
      <3>3. /\ r.verdict = "rejected" => NoEffectBy(r.idx)
            /\ r.verdict = "confirmed" => AppliedBy(r.idx)
        BY <2>1 DEF RInv, ReportInv
      <3> QED
        BY <1>2, <1>3, <1>4, <1>5, <3>1, <3>2, <3>3 DEF NoEffectBy, AppliedBy
    <2> QED
      BY <1>1, <2>1 DEF RInv, ReportInv, NoEffectBy, AppliedBy
  <1> QED BY <1>10, <1>11, <1>12, <1>13, <1>14, <1>15, <1>16 DEF RInv

(* The answer carries the verdict of the run that served the request. *)
LEMMA SignerRespondReports ==
    ASSUME IInv, AInv, RInv, IInv', NEW s \in Signers, SignerRespond(s)
    PROVE  RInv'
  <1>1. /\ sg[s].pc = "respond" /\ EndSigner(s, TRUE)
        /\ UNCHANGED <<exLedger, sgLedger, ex, xts>>
    BY Zenon DEF SignerRespond
  <1>2. PICK p \in AttemptId : p = sg[s].peer /\ conn[p].to = s /\ conn[p].req
    BY Zenon, <1>1, AttemptBounds DEF RInv, SignerConn
  <1>3. PICK v : v = sg[s].outcome
    OBVIOUS
  <1>4. PICK j : j = sg[s].idx
    OBVIOUS
  <1>5. /\ v \in Verdict /\ j \in 0..MaxAttempts /\ j <= Len(sgLedger)
        /\ v = "rejected" => NoEffectBy(j)
        /\ v = "confirmed" => AppliedBy(j)
        /\ \A k \in 1..Len(xts) : xts[k].by = j <=> xts[k].req = p
    <2>1. sg[s].idx \in 0..MaxAttempts
      BY DEF IInv, TypeOK, SignerState
    <2>2. \A k \in 1..Len(xts) : xts[k].req = p => xts[k].by = j
      BY <1>2, <1>4 DEF RInv, SentConn
    <2>3. \A k \in 1..Len(xts) : xts[k].by = j => xts[k].req = p
      BY <1>1, <1>2, <1>4 DEF RInv, OutcomeInv
    <2> QED
      BY Zenon, <1>1, <1>3, <1>4, <2>1, <2>2, <2>3 DEF RInv, OutcomeInv, IInv, SignerInv
  <1>6. \A i \in AttemptId :
           \/ i = p /\ conn'[i] = [conn[i] EXCEPT !.to = None, !.reply = v]
           \/ conn'[i] = Disconnected(conn[i], s)
    BY Zenon, <1>2, <1>3 DEF SignerRespond
  <1>7. \A i \in AttemptId : LET c == [conn[i] EXCEPT !.to = None, !.reply = v] IN
           c.to = None /\ c.req = conn[i].req /\ c.reply = v
    <2>1. ASSUME NEW c \in Connection
          PROVE  LET d == [c EXCEPT !.to = None, !.reply = v] IN
                 d.to = None /\ d.req = c.req /\ d.reply = v
      BY Zenon DEF Connection
    <2>2. \A i \in AttemptId : conn[i] \in Connection
      BY DEF IInv, TypeOK
    <2> QED BY <2>1, <2>2
  <1>8. \A i \in AttemptId : LET d == Disconnected(conn[i], s) IN
           /\ d.req = conn[i].req /\ d.reply = conn[i].reply
           /\ d.to = None
           /\ conn[i].to = None => d = conn[i]
    <2>1. ASSUME NEW c \in Connection
          PROVE  LET d == [c EXCEPT !.to = None] IN
                 d.to = None /\ d.req = c.req /\ d.reply = c.reply
      BY Zenon DEF Connection
    <2>2. \A i \in AttemptId : conn[i] \in Connection /\ conn[i].to \in {None, s}
      BY Zenon, <1>1, OneServer DEF IInv, TypeOK
    <2> QED BY <2>1, <2>2, ConstantsAssumption DEF Disconnected
  <1>9. \A i \in AttemptId : /\ conn'[i].to = None /\ conn'[i].req = conn[i].req
                             /\ conn[i].to = None => conn'[i] = conn[i]
                             /\ conn'[i].reply = conn[i].reply \/ (i = p /\ conn'[i].reply = v)
    <2> SUFFICES ASSUME NEW i \in AttemptId
                 PROVE  /\ conn'[i].to = None /\ conn'[i].req = conn[i].req
                        /\ conn[i].to = None => conn'[i] = conn[i]
                        /\ conn'[i].reply = conn[i].reply \/ (i = p /\ conn'[i].reply = v)
      OBVIOUS
    <2>1. CASE i = p /\ conn'[i] = [conn[i] EXCEPT !.to = None, !.reply = v]
      <3>1. conn[i].to # None
        BY <1>2, <2>1, ConstantsAssumption
      <3> QED BY <2>1, <3>1, <1>7
    <2>2. CASE conn'[i] = Disconnected(conn[i], s)
      BY <2>2, <1>8
    <2> QED BY Zenon, <1>6, <2>1, <2>2
  <1>10. ReplyInv'
    <2>1. v = "rejected" => NoEffectFor(p)
      BY <1>5 DEF NoEffectBy, NoEffectFor
    <2>2. v = "confirmed" => AppliedFor(p)
      BY <1>5 DEF AppliedBy, AppliedFor
    <2>3. SUFFICES ASSUME NEW i \in AttemptId
                   PROVE  /\ conn'[i].reply = "rejected" => NoEffectFor(i)
                          /\ conn'[i].reply = "confirmed" => AppliedFor(i)
      BY <1>1 DEF ReplyInv, NoEffectFor, AppliedFor
    <2> QED BY <1>9, <2>1, <2>2 DEF RInv, ReplyInv
  <1>11. \A t \in Signers : sg'[t].pc = "idle"
    BY <1>1, ConstantsAssumption DEF EndSigner, IInv, SignerInv
  <1>12. ReportInv'
    <2>1. reports' \subseteq reports \cup {[who |-> "signer", idx |-> j, verdict |-> v]}
      BY Zenon, <1>3, <1>4 DEF SignerRespond, Report
    <2>2. ASSUME NEW r \in reports', r.who = "signer"
          PROVE  /\ r.idx <= Len(sgLedger)
                 /\ r.verdict = "rejected" => NoEffectBy(r.idx)
                 /\ r.verdict = "confirmed" => AppliedBy(r.idx)
      <3>1. CASE r \in reports
        BY <2>2, <3>1 DEF RInv, ReportInv
      <3>2. CASE r = [who |-> "signer", idx |-> j, verdict |-> v]
        BY <1>5, <3>2
      <3> QED BY <2>1, <2>2, <3>1, <3>2
    <2>3. ASSUME NEW r \in reports', r.who = "executor"
          PROVE  /\ r.idx <= Len(exLedger)
                 /\ \A e \in Executors : ex[e].pc # "idle" => ex[e].idx # r.idx
                 /\ r.verdict = "rejected" => ~conn'[r.idx].req \/ conn'[r.idx].reply = "rejected"
                 /\ r.verdict = "confirmed" => conn'[r.idx].reply = "confirmed"
      <3>1. r \in reports /\ r.idx \in AttemptId
        BY <2>1, <2>3, AttemptBounds
      <3>2. conn[r.idx].reply \in {"rejected", "confirmed"} => conn[r.idx].to = None
        BY <3>1, ConstantsAssumption DEF RInv, ConnShape
      <3>3. /\ conn'[r.idx].req = conn[r.idx].req
            /\ conn[r.idx].to = None => conn'[r.idx] = conn[r.idx]
        BY <1>9, <3>1
      <3> QED BY <2>3, <3>1, <3>2, <3>3 DEF RInv, ReportInv
    <2> QED
      BY Zenon, <1>1, <1>11, <2>2, <2>3 DEF ReportInv, NoEffectBy, AppliedBy
  <1> QED BY Zenon, <1>1, <1>9, <1>10, <1>12, SignerEndsReports

(* The chain decides an extrinsic once, so what is reported of it stays. *)
LEMMA EnvironmentReports ==
    ASSUME IInv, AInv, RInv, IInv',
           \/ RemoveStaleSocket
           \/ \E k \in DOMAIN xts, o \in {"applied", "failed"} : ChainInclude(k, o)
    PROVE  RInv'
  <1>1. /\ UNCHANGED <<exLedger, sgLedger, ex, sg, conn, reports>>
        /\ socket'.listener = socket.listener
    <2>1. CASE RemoveStaleSocket
      BY <2>1 DEF RemoveStaleSocket, IInv, TypeOK
    <2> QED BY <2>1 DEF ChainInclude
  <1>2. /\ Len(xts') = Len(xts)
        /\ \A j \in 1..Len(xts) : /\ xts'[j].by = xts[j].by /\ xts'[j].req = xts[j].req
                                  /\ xts[j].state # "pool" => xts'[j].state = xts[j].state
    <2>1. CASE RemoveStaleSocket
      BY <2>1 DEF RemoveStaleSocket
    <2>2. ASSUME NEW k \in DOMAIN xts, NEW o \in {"applied", "failed"}, ChainInclude(k, o)
          PROVE  <1>2
      <3>1. /\ xts \in Seq(Extrinsic) /\ k \in 1..Len(xts) /\ xts[k].state = "pool"
            /\ xts' = [xts EXCEPT ![k] = [xts[k] EXCEPT !.state = o]]
        BY <2>2 DEF ChainInclude, IInv, TypeOK
      <3> DEFINE y == [xts[k] EXCEPT !.state = o]
      <3>2. y.by = xts[k].by /\ y.req = xts[k].req
        <4>1. xts[k] \in Extrinsic
          BY <3>1
        <4> QED BY Zenon, <4>1 DEF Extrinsic
      <3>3. xts' = [xts EXCEPT ![k] = y]
        BY <3>1
      <3> HIDE DEF y
      <3> QED BY <3>1, <3>2, <3>3
    <2> QED BY <2>1, <2>2
  <1>3. ExecutorConn' /\ ConnShape' /\ ListenerRuns' /\ SignerConn'
    BY <1>1 DEF RInv, ExecutorConn, ConnShape, ListenerRuns, SignerConn
  <1>4. SentConn'
    BY <1>1, <1>2 DEF RInv, SentConn
  <1>5. \A i : /\ NoEffectBy(i) =>
                    \A k \in 1..Len(xts') : xts'[k].by = i => xts'[k].state = "failed"
               /\ NoEffectFor(i) =>
                    \A k \in 1..Len(xts') : xts'[k].req = i => xts'[k].state = "failed"
    BY <1>2 DEF NoEffectBy, NoEffectFor
  <1>6. \A i : /\ AppliedBy(i) =>
                    \E k \in 1..Len(xts') : xts'[k].by = i /\ xts'[k].state = "applied"
               /\ AppliedFor(i) =>
                    \E k \in 1..Len(xts') : xts'[k].req = i /\ xts'[k].state = "applied"
    BY <1>2 DEF AppliedBy, AppliedFor
  <1>7. OutcomeInv'
    <2> SUFFICES ASSUME NEW s \in Signers
                 PROVE  /\ sg[s].pc \in {"accept", "read", "admit"} => sg[s].idx = 0
                        /\ sg[s].pc \in {"sent", "respond"} =>
                             \A k \in 1..Len(xts') : xts'[k].by = sg[s].idx =>
                                                       xts'[k].req = sg[s].peer
                        /\ sg[s].pc = "respond" =>
                             /\ sg[s].idx <= Len(sgLedger)
                             /\ sg[s].outcome = "rejected" =>
                                  \A k \in 1..Len(xts') : xts'[k].by = sg[s].idx =>
                                                            xts'[k].state = "failed"
                             /\ sg[s].outcome = "confirmed" =>
                                  \E k \in 1..Len(xts') : xts'[k].by = sg[s].idx
                                                          /\ xts'[k].state = "applied"
      BY <1>1 DEF OutcomeInv, NoEffectBy, AppliedBy
    <2>1. sg[s].pc \in {"sent", "respond"} =>
             \A k \in 1..Len(xts') : xts'[k].by = sg[s].idx => xts'[k].req = sg[s].peer
      BY <1>2 DEF RInv, OutcomeInv
    <2>2. /\ sg[s].pc \in {"accept", "read", "admit"} => sg[s].idx = 0
          /\ sg[s].pc = "respond" =>
               /\ sg[s].idx <= Len(sgLedger)
               /\ sg[s].outcome = "rejected" => NoEffectBy(sg[s].idx)
               /\ sg[s].outcome = "confirmed" => AppliedBy(sg[s].idx)
      BY DEF RInv, OutcomeInv
    <2>3. sg[s].pc = "respond" /\ sg[s].outcome = "rejected" =>
             \A k \in 1..Len(xts') : xts'[k].by = sg[s].idx => xts'[k].state = "failed"
      BY Zenon, <1>5, <2>2
    <2>4. sg[s].pc = "respond" /\ sg[s].outcome = "confirmed" =>
             \E k \in 1..Len(xts') : xts'[k].by = sg[s].idx /\ xts'[k].state = "applied"
      BY Zenon, <1>6, <2>2
    <2> QED BY <2>1, <2>2, <2>3, <2>4
  <1>8. ReplyInv'
    <2> SUFFICES ASSUME NEW i \in AttemptId
                 PROVE  /\ conn[i].reply = "rejected" =>
                             \A k \in 1..Len(xts') : xts'[k].req = i => xts'[k].state = "failed"
                        /\ conn[i].reply = "confirmed" =>
                             \E k \in 1..Len(xts') : xts'[k].req = i /\ xts'[k].state = "applied"
      BY <1>1 DEF ReplyInv, NoEffectFor, AppliedFor
    <2>1. /\ conn[i].reply = "rejected" => NoEffectFor(i)
          /\ conn[i].reply = "confirmed" => AppliedFor(i)
      BY DEF RInv, ReplyInv
    <2> QED BY Zenon, <1>5, <1>6, <2>1
  <1>9. ReportInv'
    <2>1. ASSUME NEW r \in reports, r.who = "signer"
          PROVE  /\ r.verdict = "rejected" =>
                      \A k \in 1..Len(xts') : xts'[k].by = r.idx => xts'[k].state = "failed"
                 /\ r.verdict = "confirmed" =>
                      \E k \in 1..Len(xts') : xts'[k].by = r.idx /\ xts'[k].state = "applied"
      BY <1>5, <1>6, <2>1 DEF RInv, ReportInv
    <2> QED BY <1>1, <2>1 DEF RInv, ReportInv, NoEffectBy, AppliedBy
  <1> QED BY <1>3, <1>4, <1>7, <1>8, <1>9 DEF RInv

-----------------------------------------------------------------------------
(* The theorem. *)

LEMMA InitReports == Init => RInv
  <1> SUFFICES ASSUME Init PROVE RInv
    OBVIOUS
  <1>1. /\ \A e \in Executors : ex[e].pc = "idle"
        /\ \A s \in Signers : sg[s].pc = "idle"
        /\ \A i \in AttemptId : conn[i].to = None /\ conn[i].reply = None
    BY DEF Init, IdleExecutor, IdleSigner, NoConnection
  <1>2. socket.listener = None /\ xts = <<>> /\ reports = {}
    BY DEF Init
  <1>3. ExecutorConn /\ ConnShape /\ ListenerRuns /\ SignerConn
    BY <1>1, <1>2 DEF ExecutorConn, ConnShape, ListenerRuns, SignerConn
  <1>4. SentConn /\ OutcomeInv
    BY <1>1, <1>2 DEF SentConn, OutcomeInv
  <1>5. ReplyInv /\ ReportInv
    BY <1>1, <1>2, ConstantsAssumption DEF ReplyInv, ReportInv
  <1> QED BY <1>3, <1>4, <1>5 DEF RInv

LEMMA NextReports == IInv /\ IInv' /\ AInv /\ RInv /\ [Next]_vars => RInv'
  <1> SUFFICES ASSUME IInv, IInv', AInv, RInv, [Next]_vars PROVE RInv'
    OBVIOUS
  <1>1. ASSUME NEW e \in Executors, ExecutorStep(e) PROVE RInv'
    BY <1>1, ExecutorStepReports
  <1>2. ASSUME NEW s \in Signers, SignerStep(s) PROVE RInv'
    BY <1>2, SignerFrontReports, SignerAdmitReports, SignerSendCheckReports,
       SignerConcludesReports, SdkSubmitReports, SignerRespondReports DEF SignerStep
  <1>3. CASE RemoveStaleSocket \/ \E k \in DOMAIN xts, o \in {"applied", "failed"} :
                                    ChainInclude(k, o)
    BY <1>3, EnvironmentReports
  <1>4. CASE UNCHANGED vars
    <2>1. UNCHANGED <<exLedger, ex, sgLedger, sg, socket, conn, xts, reports>>
      BY <1>4 DEF vars
    <2>2. ExecutorConn' /\ ReportInv'
      BY Zenon, <2>1 DEF RInv, ExecutorConn, ReportInv, NoEffectBy, AppliedBy
    <2>3. Len(exLedger') \in Nat /\ Len(exLedger') >= Len(exLedger)
      BY <2>1, LedgerTypes
    <2> QED BY <2>1, <2>2, <2>3, RequestsStay DEF RInv
  <1> QED
    BY <1>1, <1>2, <1>3, <1>4 DEF Next

LEMMA ReportsAlways == Spec => [](IInv /\ AInv /\ RInv)
  <1>1. Init => RInv
    BY InitReports
  <1>2. IInv /\ IInv' /\ AInv /\ RInv /\ [Next]_vars => RInv'
    BY NextReports
  <1> QED BY <1>1, <1>2, AgreementAlways, PTL DEF Spec

(* What the executor and the signer print is true, and stays true, for any  *)
(* number of processes, plans, views and retries: "rejected" means that     *)
(* nothing of the attempt is on chain or in the pool, "confirmed" that the  *)
(* recorded vector applied.                                                 *)
THEOREM ReportsHold == Spec => []ReportsTrue
  <1>1. IInv /\ AInv /\ RInv => ReportsTrue
    <2> SUFFICES ASSUME IInv, AInv, RInv, NEW r \in reports
                 PROVE  LET own(x) == (IF r.who = "signer" THEN x.by ELSE x.req) = r.idx IN
                        /\ r.verdict = "rejected" => \A x \in Effects : ~own(x)
                        /\ r.verdict = "confirmed" =>
                             \E x \in Applied :
                                own(x) /\ (r.who = "executor" => x.vector = exLedger[r.idx].vector)
      BY DEF ReportsTrue
    <2>1. DOMAIN xts = 1..Len(xts)
      BY DEF IInv, TypeOK
    <2>2. r.who \in {"executor", "signer"} /\ r.idx \in AttemptId
      BY DEF IInv, TypeOK, RunReport
    <2>3. ASSUME NEW i, NoEffectBy(i) PROVE \A x \in Effects : x.by # i
      BY Zenon, <2>1, <2>3 DEF Effects, NoEffectBy
    <2>4. ASSUME NEW i, NoEffectFor(i) PROVE \A x \in Effects : x.req # i
      BY <2>1, <2>4 DEF Effects, NoEffectFor
    <2>5. ASSUME NEW i, AppliedBy(i) PROVE \E x \in Applied : x.by = i
      BY <2>1, <2>5 DEF Applied, Effects, AppliedBy
    <2>6. ASSUME NEW i, AppliedFor(i)
          PROVE  \E x \in Applied : x.req = i /\ x.vector = exLedger[i].vector
      BY <2>1, <2>6 DEF Applied, Effects, AppliedFor, AInv, SentAgree
    <2>7. CASE r.who = "signer"
      BY <2>3, <2>5, <2>7 DEF RInv, ReportInv
    <2>8. CASE r.who = "executor"
      <3>1. ~conn[r.idx].req => NoEffectFor(r.idx)
        BY DEF RInv, SentConn, NoEffectFor
      <3>2. r.verdict = "rejected" => NoEffectFor(r.idx)
        BY <2>2, <2>8, <3>1 DEF RInv, ReportInv, ReplyInv
      <3>3. r.verdict = "confirmed" => AppliedFor(r.idx)
        BY <2>2, <2>8 DEF RInv, ReportInv, ReplyInv
      <3> QED BY <2>4, <2>6, <2>8, <3>2, <3>3
    <2> QED BY <2>2, <2>7, <2>8
  <1> QED BY <1>1, ReportsAlways, PTL

-----------------------------------------------------------------------------
(* Retries. *)

LOCAL INSTANCE WellFoundedInduction

(* A started attempt forbids another of its plan, whatever its status. *)
LEMMA StartedBlocks ==
    ASSUME NEW a \in AuditAttempt, a.started
    PROVE  Blocks(a)
    BY DEF AuditAttempt, Status, Blocks

(* The open attempt a report selects is the last one, hence it exists. *)
LEMMA LastOpen ==
    ASSUME NEW n \in Nat, NEW S \in SUBSET (1..n), S # {}
    PROVE  \E i \in S : \A j \in S : j <= i
  <1> DEFINE T == {n - i : i \in S}
  <1>0. \A i \in S : n - i \in Nat
    OBVIOUS
  <1>1. T \subseteq Nat /\ T # {}
    BY Zenon, <1>0
  <1>2. IsWellFoundedOn(OpToRel(<, Nat), Nat)
    BY Zenon, NatLessThanWellFounded
  <1> HIDE DEF T
  <1>3. PICK m \in T : \A y \in T : ~(<<y, m>> \in OpToRel(<, Nat))
    BY Zenon, <1>1, <1>2, WFMin
  <1>4. ASSUME NEW y \in T PROVE m <= y
    <2>1. y \in Nat /\ m \in Nat
      BY <1>1
    <2>2. y < m => <<y, m>> \in OpToRel(<, Nat)
      BY <2>1 DEF OpToRel
    <2>3. ~(y < m)
      BY Zenon, <1>3, <2>2
    <2> QED BY <2>1, <2>3
  <1>5. PICK i \in S : m = n - i
    BY DEF T
  <1>6. ASSUME NEW j \in S PROVE j <= i
    <2>1. n - j \in T
      BY DEF T
    <2> QED BY <1>4, <1>5, <2>1
  <1> QED BY <1>6

(* A ledger in order advises a retry only when no attempt of the plan has   *)
(* started: an unresolved attempt is selected first, and a resolved one     *)
(* that started would forbid the later attempt.                             *)
LEMMA AdviceIsSafe ==
    ASSUME NEW L \in Seq(AuditAttempt), Ordered(L), L # <<>>,
           EligiblePreSend(L[SelectAttempt(L)]),
           NEW i \in 1..Len(L), L[i].plan = L[SelectAttempt(L)].plan
    PROVE  ~L[i].started
  <1> DEFINE open == {j \in DOMAIN L : Unresolved(L[j])}
             c == SelectAttempt(L)
  <1>1. Len(L) \in Nat /\ DOMAIN L = 1..Len(L) /\ Len(L) \in 1..Len(L)
    OBVIOUS
  <1>2. CASE open = {}
    <2>1. c = Len(L)
      BY <1>2 DEF SelectAttempt
    <2>2. ~Unresolved(L[i]) /\ L[i] \in AuditAttempt
      BY <1>1, <1>2
    <2>3. ASSUME L[i].started PROVE FALSE
      <3>1. Blocks(L[i])
        BY <2>2, <2>3, StartedBlocks
      <3>2. ~(i < Len(L))
        BY <1>1, <2>1, <3>1 DEF Ordered
      <3>3. i = Len(L)
        <4> DEFINE n == Len(L)
        <4>1. n \in Nat /\ i \in 1..n /\ ~(i < n)
          BY <1>1, <3>2
        <4> HIDE DEF n
        <4>2. i = n
          BY <4>1
        <4> QED BY <4>2 DEF n
      <3> QED BY <2>1, <2>3, <3>3 DEF EligiblePreSend
    <2> QED BY <2>3
  <1>3. CASE open # {}
    <2>1. \E j \in open : \A k \in open : k <= j
      BY Zenon, <1>1, <1>3, LastOpen
    <2>2. c = CHOOSE j \in open : \A k \in open : k <= j
      BY <1>3 DEF SelectAttempt
    <2> HIDE DEF open, c
    <2>3. c \in open
      BY <2>1, <2>2
    <2>4. Unresolved(L[c])
      BY <2>3 DEF open
    <2> QED BY <2>4 DEF Unresolved, EligiblePreSend, c
  <1> QED BY <1>2, <1>3

(* Once an extrinsic of a plan is out, no restart of either process replays *)
(* it, and no reconciliation report advises to: RetriesSafe holds for any   *)
(* number of processes, plans, views and retries.                           *)
THEOREM NoRetryRepeats == Spec => []RetriesSafe
  <1>1. IInv /\ AInv => ReplayBlocked
    <2> SUFFICES ASSUME IInv, AInv, NEW k \in DOMAIN xts
                 PROVE  /\ BlockingAttempt(exLedger, xts[k].plan)
                        /\ BlockingAttempt(sgLedger, xts[k].plan)
      BY DEF ReplayBlocked
    <2>1. k \in 1..Len(xts)
      BY DEF IInv, TypeOK
    <2>2. /\ xts[k].req \in 1..Len(exLedger) /\ exLedger[xts[k].req].started
          /\ exLedger[xts[k].req].plan = xts[k].plan
      BY <2>1 DEF AInv, SentAgree
    <2>3. /\ xts[k].by \in 1..Len(sgLedger) /\ sgLedger[xts[k].by].started
          /\ sgLedger[xts[k].by].plan = xts[k].plan
      BY <2>1 DEF IInv, ExtrinsicInv
    <2>4. exLedger[xts[k].req] \in AuditAttempt /\ sgLedger[xts[k].by] \in AuditAttempt
      BY <2>2, <2>3, LedgerTypes
    <2> QED BY <2>2, <2>3, <2>4, StartedBlocks, LedgerTypes DEF BlockingAttempt
  <1>2. IInv /\ AInv => RetryAdviceSafe
    <2> SUFFICES ASSUME IInv, AInv, NEW L \in {exLedger, sgLedger}, L # <<>>,
                        EligiblePreSend(L[SelectAttempt(L)]),
                        NEW k \in DOMAIN xts, xts[k].plan = L[SelectAttempt(L)].plan
                 PROVE  FALSE
      BY DEF RetryAdviceSafe
    <2>1. k \in 1..Len(xts)
      BY DEF IInv, TypeOK
    <2>2. L \in Seq(AuditAttempt) /\ Ordered(L)
      BY LedgerTypes DEF AInv
    <2>3. PICK i \in 1..Len(L) : L[i].plan = xts[k].plan /\ L[i].started
      BY <2>1 DEF AInv, SentAgree, IInv, ExtrinsicInv
    <2> QED BY <2>2, <2>3, AdviceIsSafe
  <1> QED BY <1>1, <1>2, AgreementAlways, PTL DEF RetriesSafe

=============================================================================
