------------------------ MODULE WeightAnswerProofs ------------------------
(***************************************************************************)
(* What the answers of the signer rest on.  RInv follows a request: its    *)
(* connection is served by at most one signer run, that run submits at     *)
(* most one extrinsic for it, and the verdict it answers is final.  Here   *)
(* the executor's steps and the signer's up to the request preserve it.    *)
(***************************************************************************)
EXTENDS WeightAgreementProofs

(* Before the request is written there is none; before the connection is   *)
(* opened nobody serves it.                                                 *)
ExecutorConn ==
    \A e \in Executors :
        /\ ex[e].pc \in {"open", "check", "submit"} => ~conn[ex[e].idx].req
        /\ ex[e].pc = "open" => conn[ex[e].idx].to = None /\ conn[ex[e].idx].reply = None

(* An answered connection is closed; an open one belongs to a running      *)
(* signer; the connections of attempts to come are unused.                 *)
ConnShape ==
    \A i \in AttemptId :
        /\ conn[i].reply # None => conn[i].to = None
        /\ conn[i].to # None => sg[conn[i].to].pc # "idle"
        /\ i > Len(exLedger) => conn[i].to = None /\ conn[i].reply = None

ListenerRuns == socket.listener # None => sg[socket.listener].pc \in {"accept", "read"}

(* A signer keeps the connection it accepted. *)
SignerConn ==
    \A s \in Signers :
        /\ sg[s].pc \in {"read", "admit", "wallet", "submit", "sent", "respond"} =>
             conn[sg[s].peer].to = s
        /\ sg[s].pc \in {"admit", "wallet", "submit", "sent", "respond"} =>
             conn[sg[s].peer].req

(* The extrinsic of a request whose connection is open was submitted by    *)
(* the run that serves it.                                                 *)
SentConn ==
    \A k \in 1..Len(xts) :
        /\ conn[xts[k].req].req
        /\ \A s \in Signers : conn[xts[k].req].to = s =>
             /\ sg[s].pc \in {"sent", "respond"}
             /\ sg[s].peer = xts[k].req /\ sg[s].idx = xts[k].by

(* What the extrinsics of a signer attempt, or of a request, have become. *)
NoEffectBy(i) == \A k \in 1..Len(xts) : xts[k].by = i => xts[k].state = "failed"
AppliedBy(i) == \E k \in 1..Len(xts) : xts[k].by = i /\ xts[k].state = "applied"
NoEffectFor(i) == \A k \in 1..Len(xts) : xts[k].req = i => xts[k].state = "failed"
AppliedFor(i) == \E k \in 1..Len(xts) : xts[k].req = i /\ xts[k].state = "applied"

OutcomeInv ==
    \A s \in Signers :
        /\ sg[s].pc \in {"accept", "read", "admit"} => sg[s].idx = 0
        /\ sg[s].pc \in {"sent", "respond"} =>
             \A k \in 1..Len(xts) : xts[k].by = sg[s].idx => xts[k].req = sg[s].peer
        /\ sg[s].pc = "respond" =>
             /\ sg[s].idx <= Len(sgLedger)
             /\ sg[s].outcome = "rejected" => NoEffectBy(sg[s].idx)
             /\ sg[s].outcome = "confirmed" => AppliedBy(sg[s].idx)

ReplyInv ==
    \A i \in AttemptId : /\ conn[i].reply = "rejected" => NoEffectFor(i)
                         /\ conn[i].reply = "confirmed" => AppliedFor(i)

(* A reported attempt has no owner any more, and its verdict rests on the  *)
(* extrinsics or on the answer.                                            *)
ReportInv ==
    \A r \in reports :
        /\ r.who = "signer" =>
             /\ r.idx <= Len(sgLedger)
             /\ \A s \in Signers : sg[s].pc \in {"wallet", "submit", "sent"} => sg[s].idx # r.idx
             /\ r.verdict = "rejected" => NoEffectBy(r.idx)
             /\ r.verdict = "confirmed" => AppliedBy(r.idx)
        /\ r.who = "executor" =>
             /\ r.idx <= Len(exLedger)
             /\ \A e \in Executors : ex[e].pc # "idle" => ex[e].idx # r.idx
             /\ r.verdict = "rejected" => ~conn[r.idx].req \/ conn[r.idx].reply = "rejected"
             /\ r.verdict = "confirmed" => conn[r.idx].reply = "confirmed"

RInv == /\ ExecutorConn /\ ConnShape /\ ListenerRuns /\ SignerConn
        /\ SentConn /\ OutcomeInv /\ ReplyInv /\ ReportInv

-----------------------------------------------------------------------------
(* Executor steps. *)

LEMMA AttemptBounds ==
    ASSUME IInv
    PROVE  /\ Len(exLedger) \in Nat /\ Len(sgLedger) \in Nat /\ AttemptId \subseteq Nat
           /\ \A k \in 1..Len(xts) : xts[k].req \in AttemptId /\ xts[k].by \in AttemptId
           /\ \A r \in reports : r.idx \in AttemptId
           /\ \A s \in Signers :
                sg[s].pc \in {"read", "admit", "wallet", "submit", "sent", "respond"} =>
                  sg[s].peer \in AttemptId
  <1>1. \A k \in 1..Len(xts) : xts[k] \in Extrinsic
    BY DEF IInv, TypeOK
  <1>2. AttemptId \subseteq Nat
    BY ConstantsAssumption DEF AttemptId
  <1> QED
    BY <1>1, <1>2 DEF IInv, TypeOK, SignerInv, Extrinsic, RunReport

(* A step that adds no report and no extrinsic, and gives no reported       *)
(* attempt an owner again, keeps every verdict.                             *)
LEMMA VerdictsKept ==
    ASSUME ReportInv, UNCHANGED <<reports, xts>>,
           \A r \in reports : r.who = "signer" =>
             /\ r.idx <= Len(sgLedger')
             /\ \A s \in Signers : sg'[s].pc \in {"wallet", "submit", "sent"} => sg'[s].idx # r.idx,
           \A r \in reports : r.who = "executor" =>
             /\ r.idx <= Len(exLedger')
             /\ \A e \in Executors : ex'[e].pc # "idle" => ex'[e].idx # r.idx
             /\ conn'[r.idx].req = conn[r.idx].req /\ conn'[r.idx].reply = conn[r.idx].reply
    PROVE  ReportInv'
  <1>1. \A i : NoEffectBy(i) => \A k \in 1..Len(xts') : xts'[k].by = i => xts'[k].state = "failed"
    BY DEF NoEffectBy
  <1>2. \A i : AppliedBy(i) => \E k \in 1..Len(xts') : xts'[k].by = i /\ xts'[k].state = "applied"
    BY DEF AppliedBy
  <1>3. ASSUME NEW r \in reports, r.who = "signer"
        PROVE  /\ r.verdict = "rejected" =>
                    \A k \in 1..Len(xts') : xts'[k].by = r.idx => xts'[k].state = "failed"
               /\ r.verdict = "confirmed" =>
                    \E k \in 1..Len(xts') : xts'[k].by = r.idx /\ xts'[k].state = "applied"
    BY <1>1, <1>2, <1>3 DEF ReportInv
  <1>4. ASSUME NEW r \in reports, r.who = "executor"
        PROVE  /\ r.verdict = "rejected" => ~conn'[r.idx].req \/ conn'[r.idx].reply = "rejected"
               /\ r.verdict = "confirmed" => conn'[r.idx].reply = "confirmed"
    BY <1>4 DEF ReportInv
  <1> QED BY <1>3, <1>4 DEF ReportInv, NoEffectBy, AppliedBy

(* Steps that leave the requests, the answers and the serving signers. *)
LEMMA RequestsStay ==
    ASSUME IInv, RInv, UNCHANGED <<sgLedger, sg, socket, xts>>,
           Len(exLedger') \in Nat, Len(exLedger') >= Len(exLedger),
           \A i \in AttemptId : /\ conn'[i].to = conn[i].to /\ conn'[i].req = conn[i].req
                                /\ conn'[i].reply = conn[i].reply
    PROVE  ConnShape' /\ ListenerRuns' /\ SignerConn' /\ SentConn' /\ OutcomeInv' /\ ReplyInv'
  <1>1. ConnShape' /\ ListenerRuns'
    BY AttemptBounds DEF RInv, ConnShape, ListenerRuns
  <1>2. SignerConn'
    BY AttemptBounds DEF RInv, SignerConn
  <1>3. SentConn'
    <2> SUFFICES ASSUME NEW k \in 1..Len(xts)
                 PROVE  /\ conn'[xts[k].req].req
                        /\ \A s \in Signers : conn'[xts[k].req].to = s =>
                             /\ sg[s].pc \in {"sent", "respond"}
                             /\ sg[s].peer = xts[k].req /\ sg[s].idx = xts[k].by
      BY DEF SentConn
    <2>1. xts[k].req \in AttemptId
      BY AttemptBounds
    <2> QED BY <2>1 DEF RInv, SentConn
  <1>4. OutcomeInv' /\ ReplyInv'
    BY DEF RInv, OutcomeInv, ReplyInv, NoEffectBy, AppliedBy, NoEffectFor, AppliedFor
  <1> QED BY <1>1, <1>2, <1>3, <1>4

(* A report by an executor that stops: its verdict is the answer's, or      *)
(* "rejected" with no request written.                                      *)
LEMMA ExecutorReports ==
    ASSUME IInv, AInv, RInv, IInv', UNCHANGED <<sgLedger, sg, xts>>,
           Len(exLedger') >= Len(exLedger), NEW j \in 1..Len(exLedger), NEW v,
           reports' \subseteq reports \cup {[who |-> "executor", idx |-> j, verdict |-> v]},
           v = "rejected" => ~conn[j].req \/ conn[j].reply = "rejected",
           v = "confirmed" => conn[j].reply = "confirmed",
           \A e \in Executors : ex'[e].pc = "idle",
           \A i \in AttemptId : conn'[i].req = conn[i].req /\ conn'[i].reply = conn[i].reply
    PROVE  ReportInv'
  <1>1. Len(exLedger) \in Nat /\ Len(exLedger') \in Nat /\ Len(exLedger) <= MaxAttempts
    BY DEF IInv, TypeOK
  <1>2. j \in AttemptId
    BY <1>1, ConstantsAssumption DEF AttemptId
  <1>3. SUFFICES ASSUME NEW r \in reports'
                 PROVE  /\ r.who = "signer" =>
                             /\ r.idx <= Len(sgLedger)
                             /\ \A s \in Signers : sg[s].pc \in {"wallet", "submit", "sent"} =>
                                                     sg[s].idx # r.idx
                             /\ r.verdict = "rejected" => NoEffectBy(r.idx)
                             /\ r.verdict = "confirmed" => AppliedBy(r.idx)
                        /\ r.who = "executor" =>
                             /\ r.idx <= Len(exLedger')
                             /\ r.verdict = "rejected" =>
                                  ~conn[r.idx].req \/ conn[r.idx].reply = "rejected"
                             /\ r.verdict = "confirmed" => conn[r.idx].reply = "confirmed"
    <2>1. \A r \in reports' : r.idx \in AttemptId
      BY DEF IInv, TypeOK, RunReport
    <2> QED BY <1>3, <2>1 DEF ReportInv, NoEffectBy, AppliedBy
  <1>4. CASE r \in reports
    <2>1. r.idx \in Nat
      BY <1>4, AttemptBounds
    <2> QED BY <1>1, <1>4, <2>1 DEF RInv, ReportInv
  <1>5. CASE r = [who |-> "executor", idx |-> j, verdict |-> v]
    BY <1>1, <1>2, <1>5
  <1> QED BY <1>4, <1>5

(* Leaving a run. *)
LEMMA ExecutorEndsReports ==
    ASSUME IInv, AInv, RInv, IInv', NEW e \in Executors, ex[e].pc # "idle", EndExecutor(e),
           UNCHANGED <<sgLedger, sg, socket, xts>>, Len(exLedger') >= Len(exLedger), NEW v,
           reports' \subseteq reports \cup {[who |-> "executor", idx |-> ex[e].idx, verdict |-> v]},
           v = "rejected" => ~conn[ex[e].idx].req \/ conn[ex[e].idx].reply = "rejected",
           v = "confirmed" => conn[ex[e].idx].reply = "confirmed"
    PROVE  RInv'
  <1>1. \A f \in Executors : ex'[f].pc = "idle"
    BY ConstantsAssumption DEF EndExecutor, IInv, ExecutorInv
  <1>2. \A i \in AttemptId : /\ conn'[i].to = conn[i].to /\ conn'[i].req = conn[i].req
                             /\ conn'[i].reply = conn[i].reply
    <2>1. \A i \in AttemptId : LET c == [conn[i] EXCEPT !.up = FALSE] IN
             c.to = conn[i].to /\ c.req = conn[i].req /\ c.reply = conn[i].reply
      BY Zenon DEF IInv, TypeOK, Connection
    <2>2. \A i \in AttemptId : conn'[i] \in {conn[i], [conn[i] EXCEPT !.up = FALSE]}
      BY DEF EndExecutor
    <2> QED BY Zenon, <2>1, <2>2
  <1>3. Len(exLedger') \in Nat
    BY DEF IInv, TypeOK
  <1>4. ConnShape' /\ ListenerRuns' /\ SignerConn' /\ SentConn' /\ OutcomeInv' /\ ReplyInv'
    BY <1>2, <1>3, RequestsStay
  <1>5. PICK j \in 1..Len(exLedger) : j = ex[e].idx
    BY ExecutorOwns
  <1>6. ReportInv'
    BY Zenon, <1>1, <1>2, <1>5, ExecutorReports
  <1>7. ExecutorConn'
    BY <1>1 DEF ExecutorConn
  <1> QED BY <1>4, <1>6, <1>7 DEF RInv

(* A run that goes on, with the attempt it owned or a new one. *)
LEMMA ExecutorRunsReports ==
    ASSUME IInv, RInv, UNCHANGED <<sgLedger, sg, xts, reports>>,
           Len(exLedger') \in Nat, Len(exLedger') >= Len(exLedger),
           \A f \in Executors : ex'[f].pc # "idle" =>
              ex'[f].idx = Len(exLedger) + 1 \/ (ex[f].pc # "idle" /\ ex'[f].idx = ex[f].idx),
           \A r \in reports : r.who = "executor" =>
              conn'[r.idx].req = conn[r.idx].req /\ conn'[r.idx].reply = conn[r.idx].reply
    PROVE  ReportInv'
  <1>1. Len(exLedger) \in Nat /\ \A r \in reports : r.idx \in Nat
    BY AttemptBounds
  <1> QED BY <1>1 DEF RInv, ReportInv, NoEffectBy, AppliedBy

LEMMA ExecutorStartReports ==
    ASSUME IInv, AInv, RInv, IInv', NEW e \in Executors, NEW p \in Plans, NEW snap \in Snapshot,
           ExecutorStart(e, p, snap)
    PROVE  RInv'
  <1> DEFINE new == Append(exLedger, NewAttempt(p, snap))
             n == Len(exLedger) + 1
  <1>1. UNCHANGED <<sgLedger, sg, socket, conn, xts, reports>>
    BY DEF ExecutorStart
  <1>2. /\ exLedger \in Seq(AuditAttempt) /\ Len(exLedger) \in Nat
        /\ NewAttempt(p, snap) \in AuditAttempt
    BY Zenon, NewAttemptIsAttempt, LedgerTypes
  <1>3. Len(new) = n
    BY <1>2, AppendLedger
  <1>4. PICK ok \in BOOLEAN :
           /\ exLedger' \in Persist(ok, exLedger, new)
           /\ ex' = IF ok THEN [ex EXCEPT ![e] = [pc |-> "open", plan |-> p, snap |-> snap,
                                                  idx |-> n]]
                          ELSE ex
    BY DEF ExecutorStart
  <1>5. Len(exLedger') \in {Len(exLedger), n} /\ (ok => Len(exLedger') = n)
    BY <1>3, <1>4 DEF Persist
  <1>6. \A f \in Executors : ex[f].pc = "idle"
    BY ConstantsAssumption DEF ExecutorStart, LockFree, IInv, ExecutorInv
  <1>7. Len(exLedger') \in Nat /\ Len(exLedger') >= Len(exLedger)
    BY <1>2, <1>5
  <1>8. ConnShape' /\ ListenerRuns' /\ SignerConn' /\ SentConn' /\ OutcomeInv' /\ ReplyInv'
    BY <1>1, <1>7, RequestsStay
  <1>9. \A f \in Executors : ex'[f].pc # "idle" => f = e /\ ok /\ ex'[f].idx = n
    BY <1>4, <1>6 DEF IInv, TypeOK
  <1>10. ReportInv'
    BY <1>1, <1>7, <1>9, ExecutorRunsReports
  <1>11. ok => n \in AttemptId
    <2>1. ok => Len(exLedger') <= MaxAttempts
      BY DEF IInv, TypeOK
    <2> QED BY <1>2, <1>5, <2>1, ConstantsAssumption DEF AttemptId
  <1>12. ok => ~conn[n].req /\ conn[n].to = None /\ conn[n].reply = None
    BY <1>2, <1>11 DEF AInv, RequestInv, RInv, ConnShape
  <1>13. ExecutorConn'
    BY <1>1, <1>9, <1>12 DEF ExecutorConn
  <1> QED BY <1>8, <1>10, <1>13 DEF RInv

LEMMA ExecutorOpenReports ==
    ASSUME IInv, AInv, RInv, IInv', NEW e \in Executors, ExecutorOpen(e)
    PROVE  RInv'
  <1> DEFINE i == ex[e].idx
  <1>1. /\ ex[e].pc = "open" /\ ex' = [ex EXCEPT ![e].pc = "check"] /\ socket.listener # None
        /\ UNCHANGED <<exLedger, sgLedger, sg, socket, xts, reports>>
    BY DEF ExecutorOpen
  <1>2. /\ i = Len(exLedger) /\ i \in AttemptId
        /\ \A f \in Executors : f # e => ex[f].pc = "idle"
    BY <1>1, ExecutorOwns
  <1>3. ~conn[i].req /\ conn[i].to = None /\ conn[i].reply = None
    BY <1>1 DEF RInv, ExecutorConn
  <1>4. /\ ex'[e].pc = "check" /\ ex'[e].idx = i
        /\ \A f \in Executors : f # e => ex'[f] = ex[f]
    BY Zenon, <1>1, ExecutorAt DEF IInv
  <1>5. /\ conn'[i].to = socket.listener /\ ~conn'[i].req /\ conn'[i].reply = None
        /\ \A j \in AttemptId : j # i => conn'[j] = conn[j]
    BY <1>2 DEF ExecutorOpen, IInv, TypeOK
  <1>6. socket.listener \in Signers /\ sg[socket.listener].pc \in {"accept", "read"}
    BY <1>1 DEF RInv, ListenerRuns, IInv, TypeOK
  <1> HIDE DEF i
  <1>7. ExecutorConn'
    BY <1>2, <1>4, <1>5 DEF ExecutorConn
  <1>8. ConnShape' /\ ListenerRuns'
    BY <1>1, <1>2, <1>5, <1>6, AttemptBounds DEF RInv, ConnShape, ListenerRuns
  <1>9. \A s \in Signers : sg[s].pc \in {"read", "admit", "wallet", "submit", "sent", "respond"} =>
                             sg[s].peer \in AttemptId /\ sg[s].peer # i
    BY <1>3, AttemptBounds, ConstantsAssumption DEF RInv, SignerConn
  <1>10. SignerConn'
    BY <1>1, <1>5, <1>9 DEF RInv, SignerConn
  <1>11. \A k \in 1..Len(xts) : xts[k].req \in AttemptId /\ xts[k].req # i
    BY <1>3, AttemptBounds DEF RInv, SentConn
  <1>12. SentConn'
    BY <1>1, <1>5, <1>11 DEF RInv, SentConn
  <1>13. OutcomeInv'
    BY <1>1 DEF RInv, OutcomeInv, NoEffectBy, AppliedBy
  <1>14. ReplyInv'
    <2>1. \A j \in AttemptId : conn'[j].reply = conn[j].reply
      BY <1>3, <1>5
    <2> QED BY <1>1, <2>1 DEF RInv, ReplyInv, NoEffectFor, AppliedFor
  <1>15. ReportInv'
    <2>1. \A r \in reports : r.who = "executor" => r.idx # i
      BY <1>1 DEF RInv, ReportInv, i
    <2>2. \A r \in reports : r.who = "executor" => conn'[r.idx] = conn[r.idx]
      BY <2>1, <1>5, AttemptBounds
    <2>3. \A f \in Executors : ex'[f].pc # "idle" => ex[f].pc # "idle" /\ ex'[f].idx = ex[f].idx
      BY <1>1, <1>4 DEF i
    <2>4. Len(exLedger') \in Nat /\ Len(exLedger') >= Len(exLedger)
      BY <1>1, AttemptBounds
    <2> QED BY <1>1, <2>2, <2>3, <2>4, ExecutorRunsReports
  <1> QED BY <1>7, <1>8, <1>10, <1>12, <1>13, <1>14, <1>15 DEF RInv

LEMMA ExecutorSendCheckReports ==
    ASSUME IInv, AInv, RInv, IInv', NEW e \in Executors, NEW snap \in Snapshot,
           ExecutorSendCheck(e, snap)
    PROVE  RInv'
  <1> DEFINE new == MarkStarted(exLedger, ex[e].idx, snap.block)
  <1>1. ex[e].pc = "check" /\ UNCHANGED <<sgLedger, sg, socket, xts>>
    BY DEF ExecutorSendCheck
  <1>2. ex[e].idx \in 1..Len(exLedger) /\ \A f \in Executors : f # e => ex[f].pc = "idle"
    BY <1>1, ExecutorOwns
  <1>3. exLedger \in Seq(AuditAttempt) /\ snap.block \in 1..MaxBlock /\ Len(exLedger) \in Nat
    BY LedgerTypes DEF Snapshot
  <1>4. Len(new) = Len(exLedger)
    BY Zenon, <1>2, <1>3, MarkLedger
  <1>5. ~conn[ex[e].idx].req
    BY <1>1 DEF RInv, ExecutorConn
  <1> HIDE DEF new
  <1>6. CASE /\ exLedger' = new /\ ex' = [ex EXCEPT ![e].pc = "submit"]
             /\ UNCHANGED <<conn, reports>>
    <2>1. /\ ex'[e].pc = "submit" /\ ex'[e].idx = ex[e].idx
          /\ \A f \in Executors : f # e => ex'[f] = ex[f]
      BY Zenon, <1>6, ExecutorAt DEF IInv
    <2>2. Len(exLedger') \in Nat /\ Len(exLedger') >= Len(exLedger)
      BY <1>3, <1>4, <1>6
    <2>3. ConnShape' /\ ListenerRuns' /\ SignerConn' /\ SentConn' /\ OutcomeInv' /\ ReplyInv'
      BY <1>1, <1>6, <2>2, RequestsStay
    <2>4. \A f \in Executors : ex'[f].pc # "idle" => ex[f].pc # "idle" /\ ex'[f].idx = ex[f].idx
      BY <1>1, <2>1
    <2>5. ReportInv'
      BY <1>1, <1>6, <2>2, <2>4, ExecutorRunsReports
    <2>6. ExecutorConn'
      BY <1>2, <1>5, <1>6, <2>1 DEF ExecutorConn
    <2> QED BY <2>3, <2>5, <2>6 DEF RInv
  <1>7. CASE /\ exLedger' \in {exLedger, new}
             /\ Report("executor", ex[e].idx, "rejected") /\ EndExecutor(e)
    <2>1. Len(exLedger') >= Len(exLedger)
      BY <1>3, <1>4, <1>7
    <2>2. reports' \subseteq reports \cup
             {[who |-> "executor", idx |-> ex[e].idx, verdict |-> "rejected"]}
      BY <1>7 DEF Report
    <2> QED
      BY <1>1, <1>5, <1>7, <2>1, <2>2, ExecutorEndsReports
  <1> QED BY <1>6, <1>7 DEF ExecutorSendCheck, Persist, new

LEMMA ExecutorSubmitReports ==
    ASSUME IInv, AInv, RInv, IInv', NEW e \in Executors, ExecutorSubmit(e)
    PROVE  RInv'
  <1> DEFINE i == ex[e].idx
  <1>1. /\ ex[e].pc = "submit" /\ ex' = [ex EXCEPT ![e].pc = "wait"]
        /\ UNCHANGED <<exLedger, sgLedger, sg, socket, xts, reports>>
    BY DEF ExecutorSubmit
  <1>2. i \in AttemptId /\ \A f \in Executors : f # e => ex[f].pc = "idle"
    BY <1>1, ExecutorOwns
  <1>3. /\ ex'[e].pc = "wait" /\ ex'[e].idx = i
        /\ \A f \in Executors : f # e => ex'[f] = ex[f]
    BY Zenon, <1>1, ExecutorAt DEF IInv
  <1>4. conn'[i] = [conn[i] EXCEPT !.req = TRUE] /\ \A j \in AttemptId : j # i => conn'[j] = conn[j]
    BY Zenon, <1>2 DEF ExecutorSubmit, IInv, TypeOK
  <1>5. conn'[i].to = conn[i].to /\ conn'[i].req = TRUE /\ conn'[i].reply = conn[i].reply
    <2>1. conn[i] \in Connection
      BY <1>2 DEF IInv, TypeOK
    <2> QED BY Zenon, <1>4, <2>1 DEF Connection
  <1> HIDE DEF i
  <1>6. \A j \in AttemptId : /\ conn'[j].to = conn[j].to /\ conn'[j].reply = conn[j].reply
                             /\ conn[j].req => conn'[j].req
    BY Zenon, <1>4, <1>5
  <1>7. ExecutorConn'
    BY <1>2, <1>3 DEF ExecutorConn
  <1>8. ConnShape' /\ ListenerRuns'
    BY <1>1, <1>6 DEF RInv, ConnShape, ListenerRuns
  <1>9. SignerConn' /\ SentConn'
    BY <1>1, <1>6, AttemptBounds DEF RInv, SignerConn, SentConn
  <1>10. OutcomeInv' /\ ReplyInv'
    BY <1>1, <1>6 DEF RInv, OutcomeInv, ReplyInv, NoEffectBy, AppliedBy, NoEffectFor, AppliedFor
  <1>11. ReportInv'
    <2>1. \A r \in reports : r.who = "executor" => r.idx # i
      BY <1>1 DEF RInv, ReportInv, i
    <2>2. \A r \in reports : r.who = "executor" => conn'[r.idx] = conn[r.idx]
      BY <2>1, <1>4, AttemptBounds
    <2>3. \A f \in Executors : ex'[f].pc # "idle" => ex[f].pc # "idle" /\ ex'[f].idx = ex[f].idx
      BY <1>1, <1>3 DEF i
    <2>4. Len(exLedger') \in Nat /\ Len(exLedger') >= Len(exLedger)
      BY <1>1, AttemptBounds
    <2> QED BY <1>1, <2>2, <2>3, <2>4, ExecutorRunsReports
  <1> QED BY <1>7, <1>8, <1>9, <1>10, <1>11 DEF RInv

LEMMA ExecutorStepReports ==
    ASSUME IInv, AInv, RInv, IInv', NEW e \in Executors, ExecutorStep(e)
    PROVE  RInv'
  <1>1. ASSUME NEW st \in Status, ex[e].pc # "idle",
               exLedger' \in {exLedger, FinishAttempt(exLedger, ex[e].idx, st)}
        PROVE  Len(exLedger') >= Len(exLedger)
    BY <1>1, ExecutorOwns, LedgerTypes, FinishLedger
  <1>2. CASE ExecutorPreSendFailure(e)
    <2>1. /\ exLedger' \in {exLedger, FinishAttempt(exLedger, ex[e].idx, "failed")}
          /\ ex[e].pc \in {"open", "check"} /\ EndExecutor(e)
          /\ UNCHANGED <<sgLedger, sg, socket, xts>>
          /\ Report("executor", ex[e].idx, "rejected")
      BY <1>2 DEF ExecutorPreSendFailure, Persist
    <2>2. ~conn[ex[e].idx].req
      BY <2>1 DEF RInv, ExecutorConn
    <2>3. Len(exLedger') >= Len(exLedger)
      BY <1>1, <2>1 DEF Status
    <2> QED BY <2>1, <2>2, <2>3, ExecutorEndsReports DEF Report
  <1>3. ASSUME NEW v \in Verdict, ExecutorFinish(e, v) PROVE RInv'
    <2>1. /\ exLedger' \in {exLedger, FinishAttempt(exLedger, ex[e].idx, LedgerStatus(v))}
          /\ ex[e].pc \in {"submit", "wait"} /\ EndExecutor(e)
          /\ UNCHANGED <<sgLedger, sg, socket, xts>> /\ Report("executor", ex[e].idx, v)
          /\ v = "ambiguous" \/ conn[ex[e].idx].reply = v
      BY <1>3 DEF ExecutorFinish, Persist
    <2>2. LedgerStatus(v) \in Status
      BY DEF Verdict, Status, LedgerStatus
    <2>3. Len(exLedger') >= Len(exLedger)
      BY <1>1, <2>1, <2>2
    <2> QED BY Zenon, <2>1, <2>3, ExecutorEndsReports DEF Report
  <1>4. CASE ExecutorCrash(e)
    <2>1. /\ ex[e].pc # "idle" /\ EndExecutor(e)
          /\ UNCHANGED <<exLedger, sgLedger, sg, socket, xts, reports>>
      BY <1>4 DEF ExecutorCrash
    <2>2. Len(exLedger') >= Len(exLedger)
      BY <2>1, LedgerTypes
    <2>3. reports' \subseteq reports \cup
             {[who |-> "executor", idx |-> ex[e].idx, verdict |-> "ambiguous"]}
      BY <2>1
    <2> QED BY <2>1, <2>2, <2>3, ExecutorEndsReports
  <1> QED
    BY <1>2, <1>3, <1>4, ExecutorStartReports, ExecutorOpenReports, ExecutorSendCheckReports,
       ExecutorSubmitReports DEF ExecutorStep

-----------------------------------------------------------------------------
(* Signer steps. *)

(* Every open connection belongs to the one signer that runs. *)
LEMMA OneServer ==
    ASSUME IInv, RInv, NEW s \in Signers, sg[s].pc # "idle"
    PROVE  /\ \A t \in Signers : t # s => sg[t].pc = "idle"
           /\ \A i \in AttemptId : conn[i].to \in {None, s}
           /\ socket.listener \in {None, s}
  <1>1. \A t \in Signers : t # s => sg[t].pc = "idle"
    BY OnlySigner DEF IInv
  <1>2. \A i \in AttemptId : conn[i].to \in Signers \cup {None}
    BY DEF IInv, TypeOK, Connection
  <1>3. socket.listener \in Signers \cup {None}
    BY DEF IInv, TypeOK
  <1> QED BY <1>1, <1>2, <1>3 DEF RInv, ConnShape, ListenerRuns

(* The executor's side of a signer step. *)
LEMMA ExecutorConnKept ==
    ASSUME IInv, AInv, RInv, UNCHANGED <<exLedger, ex>>,
           \A i \in AttemptId : /\ conn'[i].req = conn[i].req
                                /\ conn[i].to = None => conn'[i] = conn[i]
    PROVE  ExecutorConn'
  <1>1. \A e \in Executors : ex[e].pc # "idle" => ex[e].idx \in AttemptId
    BY ExecutorOwns
  <1> QED BY <1>1 DEF RInv, ExecutorConn

(* A run that ends leaves every connection closed. *)
LEMMA SignerEndsReports ==
    ASSUME IInv, AInv, RInv, IInv', NEW s \in Signers, sg[s].pc # "idle", NEW o \in BOOLEAN,
           EndSigner(s, o), UNCHANGED <<exLedger, sgLedger, ex, xts>>,
           \A i \in AttemptId : /\ conn'[i].to = None /\ conn'[i].req = conn[i].req
                                /\ conn[i].to = None => conn'[i] = conn[i],
           ReplyInv', ReportInv'
    PROVE  RInv'
  <1>1. \A t \in Signers : sg'[t].pc = "idle"
    BY ConstantsAssumption DEF EndSigner, IInv, SignerInv
  <1>2. socket'.listener = None
    BY OneServer DEF EndSigner
  <1>3. ExecutorConn'
    BY ExecutorConnKept
  <1>4. ConnShape'
    BY DEF ConnShape, RInv
  <1>5. ListenerRuns' /\ SignerConn' /\ OutcomeInv'
    BY <1>1, <1>2 DEF ListenerRuns, SignerConn, OutcomeInv
  <1>6. SentConn'
    BY AttemptBounds, ConstantsAssumption DEF SentConn, RInv
  <1> QED BY <1>3, <1>4, <1>5, <1>6 DEF RInv

(* Starting, accepting and reading. *)
LEMMA SignerOpensReports ==
    ASSUME IInv, AInv, RInv, IInv', NEW s \in Signers,
           UNCHANGED <<exLedger, sgLedger, ex, xts, reports>>,
           sg'[s].pc \in {"accept", "read", "admit"}, sg'[s].idx = 0,
           \A t \in Signers : t # s => sg'[t].pc = "idle",
           sg[s].pc \in {"idle", "accept", "read"}, \A i \in AttemptId : conn[i].to \in {None, s},
           socket'.listener \in {None, s}, sg'[s].pc = "admit" => socket'.listener = None,
           sg'[s].pc \in {"read", "admit"} => conn'[sg'[s].peer].to = s,
           sg'[s].pc = "admit" => conn'[sg'[s].peer].req,
           \A i \in AttemptId : /\ conn'[i].req = conn[i].req /\ conn'[i].reply = conn[i].reply
                                /\ conn'[i].to \in {None, conn[i].to}
                                /\ conn[i].to = None => conn'[i] = conn[i]
    PROVE  RInv'
  <1>1. ExecutorConn'
    BY ExecutorConnKept
  <1>3. ConnShape'
    BY DEF RInv, ConnShape
  <1>4. ListenerRuns' /\ SignerConn' /\ OutcomeInv'
    <2>1. \A k \in 1..Len(xts) : xts[k].by # 0
      BY AttemptBounds, ConstantsAssumption DEF AttemptId
    <2> QED BY <2>1 DEF ListenerRuns, SignerConn, OutcomeInv
  <1>5. SentConn'
    <2>1. \A k \in 1..Len(xts) : xts[k].req \in AttemptId /\ conn[xts[k].req].to # s
      BY AttemptBounds DEF RInv, SentConn
    <2>2. \A k \in 1..Len(xts) : conn'[xts[k].req].to = None
      BY <2>1
    <2> QED BY <2>1, <2>2, ConstantsAssumption DEF RInv, SentConn
  <1>6. ReplyInv'
    BY DEF RInv, ReplyInv, NoEffectFor, AppliedFor
  <1>7. ReportInv'
    <2>1. \A r \in reports : r.idx \in AttemptId
      BY AttemptBounds
    <2> QED BY <2>1 DEF RInv, ReportInv, NoEffectBy, AppliedBy
  <1> QED BY <1>1, <1>3, <1>4, <1>5, <1>6, <1>7 DEF RInv

LEMMA SignerFrontReports ==
    ASSUME IInv, AInv, RInv, IInv', NEW s \in Signers,
           \/ \E p \in Plans, c \in Vectors : SignerStart(s, p, c)
           \/ \E i \in AttemptId : SignerAccept(s, i)
           \/ SignerRead(s) \/ SignerTimeout(s) \/ SignerCrash(s)
    PROVE  RInv'
  <1>1. UNCHANGED <<exLedger, ex, sgLedger, xts, reports>>
    BY Zenon DEF SignerStart, SignerAccept, SignerRead, SignerTimeout, SignerCrash
  <1>2. \A i \in AttemptId : LET d == Disconnected(conn[i], s) IN
           /\ d.req = conn[i].req /\ d.reply = conn[i].reply
           /\ d.to = (IF conn[i].to = s THEN None ELSE conn[i].to)
           /\ conn[i].to = None => d = conn[i]
    <2>1. ASSUME NEW c \in Connection
          PROVE  LET d == [c EXCEPT !.to = None] IN
                 d.to = None /\ d.req = c.req /\ d.reply = c.reply
      BY Zenon DEF Connection
    <2>2. \A i \in AttemptId : conn[i] \in Connection
      BY DEF IInv, TypeOK
    <2> QED BY <2>1, <2>2, ConstantsAssumption DEF Disconnected
  <1>3. ASSUME NEW p \in Plans, NEW c \in Vectors, SignerStart(s, p, c) PROVE RInv'
    <2>1. sg'[s].pc = "accept" /\ sg'[s].idx = 0
      BY Zenon, <1>3 DEF SignerStart, IInv, TypeOK, IdleSigner
    <2>2. \A t \in Signers : sg[t].pc = "idle"
      BY Zenon, <1>3, NoSigner DEF SignerStart, LockFree, IInv
    <2>3. \A i \in AttemptId : conn[i].to \in {None, s}
      BY Zenon, <2>2 DEF RInv, ConnShape, IInv, TypeOK, Connection
    <2>4. \A t \in Signers : t # s => sg'[t].pc = "idle"
      BY <2>1 DEF IInv, SignerInv
    <2>5. socket'.listener = s /\ conn' = conn
      BY Zenon, <1>3 DEF SignerStart
    <2>6. sg[s].pc \in {"idle", "accept", "read"} /\ sg'[s].pc \in {"accept", "read", "admit"}
          /\ sg'[s].pc \notin {"read", "admit"} /\ sg'[s].pc # "admit"
      BY <2>1, <2>2
    <2> QED BY <1>1, <2>1, <2>3, <2>4, <2>5, <2>6, SignerOpensReports
  <1>4. ASSUME NEW i \in AttemptId, SignerAccept(s, i) PROVE RInv'
    <2>1. sg[s].pc = "accept" /\ conn[i].to = s /\ UNCHANGED <<socket, conn>>
      BY <1>4 DEF SignerAccept
    <2>2. sg'[s].pc = "read" /\ sg'[s].peer = i /\ sg'[s].idx = sg[s].idx
      <3>1. sg[s] \in SignerState /\ sg'[s] = [sg[s] EXCEPT !.pc = "read", !.peer = i]
        BY Zenon, <1>4 DEF SignerAccept, IInv, TypeOK
      <3> QED BY Zenon, <3>1 DEF SignerState
    <2>3. sg[s].idx = 0
      BY <2>1 DEF RInv, OutcomeInv
    <2>4. /\ \A j \in AttemptId : conn[j].to \in {None, s}
          /\ socket.listener \in {None, s}
      BY <2>1, OneServer
    <2>5. \A t \in Signers : t # s => sg'[t].pc = "idle"
      BY Zenon, <2>2 DEF IInv, SignerInv
    <2>6. sg[s].pc \in {"idle", "accept", "read"} /\ sg'[s].pc \in {"accept", "read", "admit"}
          /\ sg'[s].pc # "admit"
      BY Zenon, <2>1, <2>2
    <2> QED BY <1>1, <2>1, <2>2, <2>3, <2>4, <2>5, <2>6, SignerOpensReports
  <1>5. CASE SignerRead(s)
    <2>1. /\ sg[s].pc = "read" /\ conn[sg[s].peer].req /\ socket'.listener = None
          /\ conn' = [i \in AttemptId |-> IF i = sg[s].peer THEN conn[i]
                                          ELSE Disconnected(conn[i], s)]
      BY <1>5 DEF SignerRead
    <2>2. sg'[s].pc = "admit" /\ sg'[s].peer = sg[s].peer /\ sg'[s].idx = sg[s].idx
      <3>1. sg[s] \in SignerState /\ sg'[s] = [sg[s] EXCEPT !.pc = "admit"]
        BY <1>5 DEF SignerRead, IInv, TypeOK
      <3> QED BY Zenon, <3>1 DEF SignerState
    <2>3. sg[s].idx = 0 /\ sg[s].peer \in AttemptId /\ conn[sg[s].peer].to = s
      BY Zenon, <2>1, AttemptBounds DEF RInv, OutcomeInv, SignerConn
    <2>4. \A j \in AttemptId : conn[j].to \in {None, s}
      BY <2>1, OneServer
    <2>5. \A t \in Signers : t # s => sg'[t].pc = "idle"
      BY <2>2 DEF IInv, SignerInv
    <2>6. \A i \in AttemptId : /\ conn'[i].req = conn[i].req /\ conn'[i].reply = conn[i].reply
                               /\ conn'[i].to \in {None, conn[i].to}
                               /\ conn[i].to = None => conn'[i] = conn[i]
      BY <1>2, <2>1
    <2>7. conn'[sg'[s].peer].to = s /\ conn'[sg'[s].peer].req
      BY <2>1, <2>2, <2>3
    <2>8. sg[s].pc \in {"idle", "accept", "read"} /\ sg'[s].pc \in {"accept", "read", "admit"}
      BY <2>1, <2>2
    <2> QED BY Zenon, <1>1, <2>1, <2>2, <2>3, <2>4, <2>5, <2>6, <2>7, <2>8, SignerOpensReports
  <1>6. CASE SignerTimeout(s) \/ SignerCrash(s)
    <2>1. PICK o \in BOOLEAN : EndSigner(s, o)
      BY Zenon, <1>6 DEF SignerTimeout, SignerCrash
    <2>2. sg[s].pc # "idle" /\ conn' = [i \in AttemptId |-> Disconnected(conn[i], s)]
      BY Zenon, <1>6 DEF SignerTimeout, SignerCrash
    <2>3. \A i \in AttemptId : /\ conn'[i].to = None /\ conn'[i].req = conn[i].req
                               /\ conn'[i].reply = conn[i].reply
                               /\ conn[i].to = None => conn'[i] = conn[i]
      BY <1>2, <2>2, OneServer
    <2>4. ReplyInv'
      BY <1>1, <2>3 DEF RInv, ReplyInv, NoEffectFor, AppliedFor
    <2>5. \A t \in Signers : sg'[t].pc = "idle"
      BY Zenon, <2>1, ConstantsAssumption DEF EndSigner, IInv, SignerInv
    <2>6. ReportInv'
      <3>1. \A r \in reports : r.idx \in AttemptId
        BY AttemptBounds
      <3>2. ReportInv /\ UNCHANGED <<reports, xts>> /\ UNCHANGED <<exLedger, sgLedger, ex>>
        BY <1>1 DEF RInv
      <3> QED BY Zenon, <2>3, <2>5, <3>1, <3>2, VerdictsKept DEF ReportInv
    <2> QED BY <1>1, <2>1, <2>2, <2>3, <2>4, <2>6, SignerEndsReports
  <1> QED BY <1>3, <1>4, <1>5, <1>6

=============================================================================
