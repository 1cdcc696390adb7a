-------------------------- MODULE WeightExecution --------------------------
(***************************************************************************)
(* The one-shot weight submission path: the wallet-free executor           *)
(* (weight_executor.py), the wallet-holding signer (weight_signer.py), the *)
(* Unix-socket protocol between them (weight_signer_protocol.py), the      *)
(* durable audit ledger each of them keeps and the read-only              *)
(* reconciliation report over a ledger (weight_reconciliation.py).         *)
(*                                                                         *)
(* Executors and signers are process slots: a slot that is "idle" can be   *)
(* started by an operator at any time, a running one can crash at any      *)
(* await or persist.  Chain reads return an arbitrary finalized snapshot.  *)
(* An attempt is named by its position in its ledger; the connection and   *)
(* the request of an executor run carry the run's attempt position.        *)
(***************************************************************************)
EXTENDS Integers, Sequences, FiniteSets

CONSTANTS
    Plans,        \* digests of signed weight plans
    Executors,    \* process slots that can run misscomputer-weight-executor
    Signers,      \* process slots that can run misscomputer-weight-signer
    Views,        \* finalized metagraph identities a chain read can return
    Vectors,      \* execution vectors a plan can resolve to
    VectorOf,     \* [Views -> Vectors]: hotkeys resolved in that view
    MaxBlock,     \* bound: blocks a chain read can return
    MaxAttempts,  \* MAX_AUDIT_ATTEMPTS
    None

ASSUME ConstantsAssumption ==
    /\ VectorOf \in [Views -> Vectors]
    /\ MaxBlock \in Nat \ {0}
    /\ MaxAttempts \in Nat \ {0}
    /\ None \notin Plans \cup Executors \cup Signers \cup Views \cup Vectors
    /\ None \notin {"confirmed", "rejected", "ambiguous"}
    /\ None \notin Nat

VARIABLES
    exLedger,  \* the executor's audit ledger on disk: a sequence of attempts
    sgLedger,  \* the signer's audit ledger on disk
    exLock,    \* the executor holding the flock of its ledger, or None
    sgLock,    \* the signer holding the flock of its ledger, or None
    ex,        \* per executor slot: program counter and locals
    sg,        \* per signer slot: program counter and locals
    socket,    \* the published socket name and who listens on it
    conn,      \* per executor attempt: its connection to a signer
    xts,       \* extrinsics handed to the chain, in order
    reports    \* results printed by runs that own a ledger attempt

vars == <<exLedger, sgLedger, exLock, sgLock, ex, sg, socket, conn, xts, reports>>

-----------------------------------------------------------------------------
(* Audit ledger: AuditAttempt, AuditState and AuditStateStore. *)

Status == {"in_progress", "confirmed", "failed", "ambiguous"}
Verdict == {"confirmed", "rejected", "ambiguous"}
Snapshot == [block : 1..MaxBlock, view : Views]
AttemptId == 1..MaxAttempts

AuditAttempt == [plan : Plans, vector : Vectors, preflight : 1..MaxBlock,
                 sendCheck : 0..MaxBlock, status : Status, started : BOOLEAN]

(* Planned hotkeys resolved to the UIDs of the snapshot. *)
DeriveVector(snap) == VectorOf[snap.view]

NewAttempt(p, snap) ==
    [plan |-> p, vector |-> DeriveVector(snap), preflight |-> snap.block,
     sendCheck |-> 0, status |-> "in_progress", started |-> FALSE]

(* The ledger's flock is taken without waiting. *)
LockFree(lock) == lock = None

(* An attempt that forbids another attempt of its plan. *)
Blocks(a) == \/ a.status \in {"in_progress", "confirmed", "ambiguous"}
             \/ a.status = "failed" /\ a.started

BlockingAttempt(ledger, p) ==
    \E i \in DOMAIN ledger : ledger[i].plan = p /\ Blocks(ledger[i])

(* start_attempt refuses a blocked plan and a full ledger. *)
CanStart(ledger, p) == ~BlockingAttempt(ledger, p) /\ Len(ledger) < MaxAttempts

MarkStarted(ledger, i, block) ==
    [ledger EXCEPT ![i].started = TRUE, ![i].sendCheck = block]

FinishAttempt(ledger, i, status) == [ledger EXCEPT ![i].status = status]

(* _persist either returns after the new file is installed and verified, or *)
(* raises with the old or with the new file in place.                       *)
Persist(ok, old, new) == IF ok THEN {new} ELSE {old, new}

LedgerStatus(verdict) == IF verdict = "rejected" THEN "failed" ELSE verdict

-----------------------------------------------------------------------------
(* Process slots, the socket and connections. *)

IdleExecutor == [pc |-> "idle", plan |-> None, snap |-> None, idx |-> 0]
IdleSigner == [pc |-> "idle", plan |-> None, confirm |-> None, peer |-> 0,
               snap |-> None, idx |-> 0, outcome |-> None]
NoConnection == [to |-> None, up |-> FALSE, req |-> FALSE, reply |-> None]

Report(who, i, v) == reports' = reports \cup {[who |-> who, idx |-> i, verdict |-> v]}

Init ==
    /\ exLedger = <<>> /\ sgLedger = <<>>
    /\ exLock = None /\ sgLock = None
    /\ ex = [e \in Executors |-> IdleExecutor]
    /\ sg = [s \in Signers |-> IdleSigner]
    /\ socket = [path |-> FALSE, listener |-> None]
    /\ conn = [i \in AttemptId |-> NoConnection]
    /\ xts = <<>>
    /\ reports = {}

-----------------------------------------------------------------------------
(* The executor: run_weight_executor and _execute_weight_plan. *)

(* Leaving a run closes the client and releases the ledger lock. *)
EndExecutor(e) ==
    /\ ex' = [ex EXCEPT ![e] = IdleExecutor]
    /\ exLock' = None
    /\ conn' = [i \in AttemptId |->
                   IF i = ex[e].idx THEN [conn[i] EXCEPT !.up = FALSE] ELSE conn[i]]

(* Preflight, open the ledger, install the in-progress attempt. *)
ExecutorStart(e, p, snap) ==
    /\ ex[e].pc = "idle"
    /\ LockFree(exLock)
    /\ CanStart(exLedger, p)
    /\ \E ok \in BOOLEAN :
         /\ exLedger' \in Persist(ok, exLedger, Append(exLedger, NewAttempt(p, snap)))
         /\ exLock' = IF ok THEN e ELSE None
         /\ ex' = IF ok THEN [ex EXCEPT ![e] = [pc |-> "open", plan |-> p, snap |-> snap,
                                                idx |-> Len(exLedger) + 1]]
                        ELSE ex
    /\ UNCHANGED <<sgLedger, sgLock, sg, socket, conn, xts, reports>>

(* UnixWeightSignerClient.open: connect to the published socket. *)
ExecutorOpen(e) ==
    /\ ex[e].pc = "open"
    /\ socket.listener # None
    /\ ex' = [ex EXCEPT ![e].pc = "check"]
    /\ conn' = [conn EXCEPT ![ex[e].idx] =
                   [to |-> socket.listener, up |-> TRUE, req |-> FALSE, reply |-> None]]
    /\ UNCHANGED <<exLedger, sgLedger, exLock, sgLock, sg, socket, xts, reports>>

(* Signer unavailable, chain read failed, or the send check refused. *)
ExecutorPreSendFailure(e) ==
    /\ ex[e].pc \in {"open", "check"}
    /\ \E ok \in BOOLEAN :
         exLedger' \in Persist(ok, exLedger, FinishAttempt(exLedger, ex[e].idx, "failed"))
    /\ Report("executor", ex[e].idx, "rejected")
    /\ EndExecutor(e)
    /\ UNCHANGED <<sgLedger, sgLock, sg, socket, xts>>

(* Mutant: the send check compares vectors only. *)
FreshAgainstVectorOnly(snap, later) == DeriveVector(later) = DeriveVector(snap)

(* The send check: no rollback, no same-height fork, the same vector. *)
FreshAgainst(snap, later) ==
    /\ later.block >= snap.block
    /\ later.block = snap.block => later.view = snap.view
    /\ DeriveVector(later) = DeriveVector(snap)

ExecutorSendCheck(e, snap) ==
    /\ ex[e].pc = "check"
    /\ FreshAgainst(ex[e].snap, snap)
    /\ LET new == MarkStarted(exLedger, ex[e].idx, snap.block) IN
         \/ /\ exLedger' = new
            /\ ex' = [ex EXCEPT ![e].pc = "submit"]
            /\ UNCHANGED <<exLock, conn, reports>>
         \/ /\ exLedger' \in Persist(FALSE, exLedger, new)
            /\ Report("executor", ex[e].idx, "rejected")
            /\ EndExecutor(e)
    /\ UNCHANGED <<sgLedger, sgLock, sg, socket, xts>>

(* UnixWeightSignerClient.submit: write the request. *)
ExecutorSubmit(e) ==
    /\ ex[e].pc = "submit"
    /\ ex' = [ex EXCEPT ![e].pc = "wait"]
    /\ conn' = [conn EXCEPT ![ex[e].idx].req = TRUE]
    /\ UNCHANGED <<exLedger, sgLedger, exLock, sgLock, sg, socket, xts, reports>>

(* The answer, or a timeout or lost connection at any moment, which is     *)
(* recorded as ambiguous.  The verdict is printed even when its record is  *)
(* not installed.                                                          *)
ExecutorFinish(e, v) ==
    /\ ex[e].pc \in {"submit", "wait"}
    /\ v = "ambiguous" \/ (ex[e].pc = "wait" /\ conn[ex[e].idx].reply = v)
    /\ \E ok \in BOOLEAN :
         exLedger' \in Persist(ok, exLedger,
                               FinishAttempt(exLedger, ex[e].idx, LedgerStatus(v)))
    /\ Report("executor", ex[e].idx, v)
    /\ EndExecutor(e)
    /\ UNCHANGED <<sgLedger, sgLock, sg, socket, xts>>

(* Process death or cancellation: the kernel drops the lock and the peer. *)
ExecutorCrash(e) ==
    /\ ex[e].pc # "idle"
    /\ EndExecutor(e)
    /\ UNCHANGED <<exLedger, sgLedger, sgLock, sg, socket, xts, reports>>

-----------------------------------------------------------------------------
(* The signer: run_weight_signer and _serve. *)

(* Leaving a run drops the lock, the listener and every connection to it;  *)
(* an orderly exit also removes the published name, a crash leaves it.     *)
EndSigner(s, orderly) ==
    /\ sg' = [sg EXCEPT ![s] = IdleSigner]
    /\ sgLock' = None
    /\ socket' = IF socket.listener = s
                 THEN [path |-> ~orderly, listener |-> None] ELSE socket

Disconnected(c, s) == IF c.to = s THEN [c EXCEPT !.to = None] ELSE c

(* Load the confirmed plan, lock the ledger, publish the socket. *)
SignerStart(s, p, c) ==
    /\ sg[s].pc = "idle"
    /\ LockFree(sgLock)
    /\ ~BlockingAttempt(sgLedger, p)
    /\ ~socket.path
    /\ sgLock' = s
    /\ socket' = [path |-> TRUE, listener |-> s]
    /\ sg' = [sg EXCEPT ![s] = [IdleSigner EXCEPT !.pc = "accept", !.plan = p, !.confirm = c]]
    /\ UNCHANGED <<exLedger, sgLedger, exLock, ex, conn, xts, reports>>

(* _accept_authorized: a connection of the executor's account, dead or alive. *)
SignerAccept(s, i) ==
    /\ sg[s].pc = "accept"
    /\ conn[i].to = s
    /\ sg' = [sg EXCEPT ![s].pc = "read", ![s].peer = i]
    /\ UNCHANGED <<exLedger, sgLedger, exLock, sgLock, ex, socket, conn, xts, reports>>

(* _read_request and the retirement of the one-shot listener. *)
SignerRead(s) ==
    /\ sg[s].pc = "read"
    /\ conn[sg[s].peer].req
    /\ sg' = [sg EXCEPT ![s].pc = "admit"]
    /\ socket' = [path |-> FALSE, listener |-> None]
    /\ conn' = [i \in AttemptId |-> IF i = sg[s].peer THEN conn[i]
                                    ELSE Disconnected(conn[i], s)]
    /\ UNCHANGED <<exLedger, sgLedger, exLock, sgLock, ex, xts, reports>>

(* Mutant: only the accept has a deadline, not the read. *)
SignerTimeoutAcceptOnly(s) ==
    /\ sg[s].pc = "accept"
    /\ EndSigner(s, TRUE)
    /\ conn' = [i \in AttemptId |-> Disconnected(conn[i], s)]
    /\ UNCHANGED <<exLedger, sgLedger, exLock, ex, xts, reports>>

(* Nobody connected in time, or the peer sent nothing. *)
SignerTimeout(s) ==
    /\ sg[s].pc \in {"accept", "read"}
    /\ EndSigner(s, TRUE)
    /\ conn' = [i \in AttemptId |-> Disconnected(conn[i], s)]
    /\ UNCHANGED <<exLedger, sgLedger, exLock, ex, xts, reports>>

Respond(s, v) == [sg EXCEPT ![s].pc = "respond", ![s].outcome = v]

(* The request names the signer's plan and its vector is the signer's own   *)
(* derivation and the confirmed one; then the in-progress attempt.          *)
SignerAdmit(s, snap) ==
    LET request == exLedger[sg[s].peer] IN
    /\ sg[s].pc = "admit"
    /\ request.plan = sg[s].plan
    /\ request.vector = DeriveVector(snap)
    /\ DeriveVector(snap) = sg[s].confirm
    /\ CanStart(sgLedger, sg[s].plan)
    /\ LET new == Append(sgLedger, NewAttempt(sg[s].plan, snap)) IN
         \/ /\ sgLedger' = new
            /\ sg' = [sg EXCEPT ![s].pc = "wallet", ![s].snap = snap, ![s].idx = Len(new)]
         \/ /\ sgLedger' \in Persist(FALSE, sgLedger, new)
            /\ sg' = Respond(s, "rejected")
    /\ UNCHANGED <<exLedger, exLock, sgLock, ex, socket, conn, xts, reports>>

(* Any admission check or chain read that fails. *)
SignerRefuse(s) ==
    /\ sg[s].pc = "admit"
    /\ sg' = Respond(s, "rejected")
    /\ UNCHANGED <<exLedger, sgLedger, exLock, sgLock, ex, socket, conn, xts, reports>>

(* Wallet unavailable, hotkey mismatch, chain read or send check failed. *)
SignerPreSendFailure(s) ==
    /\ sg[s].pc = "wallet"
    /\ \E ok \in BOOLEAN :
         sgLedger' \in Persist(ok, sgLedger, FinishAttempt(sgLedger, sg[s].idx, "failed"))
    /\ sg' = Respond(s, "rejected")
    /\ UNCHANGED <<exLedger, exLock, sgLock, ex, socket, conn, xts, reports>>

SignerSendCheck(s, snap) ==
    /\ sg[s].pc = "wallet"
    /\ FreshAgainst(sg[s].snap, snap)
    /\ LET new == MarkStarted(sgLedger, sg[s].idx, snap.block) IN
         \/ /\ sgLedger' = new
            /\ sg' = [sg EXCEPT ![s].pc = "submit"]
         \/ /\ sgLedger' \in Persist(FALSE, sgLedger, new)
            /\ sg' = Respond(s, "rejected")
    /\ UNCHANGED <<exLedger, exLock, sgLock, ex, socket, conn, xts, reports>>

(* Mutant: the SDK call is made with a retry budget. *)
SdkSubmitRetries(s) ==
    /\ sg[s].pc \in {"submit", "sent"}
    /\ xts' = Append(xts, [plan |-> sg[s].plan, vector |-> sgLedger[sg[s].idx].vector,
                           by |-> sg[s].idx, req |-> sg[s].peer, state |-> "pool"])
    /\ sg' = [sg EXCEPT ![s].pc = "sent"]
    /\ UNCHANGED <<exLedger, sgLedger, exLock, sgLock, ex, socket, conn, reports>>

(* The SDK enters substrate submit: from here the extrinsic is out. *)
SdkSubmit(s) ==
    /\ sg[s].pc = "submit"
    /\ xts' = Append(xts, [plan |-> sg[s].plan, vector |-> sgLedger[sg[s].idx].vector,
                           by |-> sg[s].idx, req |-> sg[s].peer, state |-> "pool"])
    /\ sg' = [sg EXCEPT ![s].pc = "sent"]
    /\ UNCHANGED <<exLedger, sgLedger, exLock, sgLock, ex, socket, conn, reports>>

(* Mutant: a failure without an inclusion reference is taken for a rejection. *)
ClassifyNotIncludedRejects(s) ==
    LET Included(how) == \E k \in DOMAIN xts : xts[k].by = sg[s].idx /\ xts[k].state = how IN
    IF Included("applied") THEN {"confirmed"} ELSE {"rejected"}

(* What BittensorWeightSubmission.submit and the submission timeout can    *)
(* conclude from the state of the extrinsic.                               *)
Classify(s) ==
    LET Included(how) == \E k \in DOMAIN xts : xts[k].by = sg[s].idx /\ xts[k].state = how IN
    {"ambiguous"}
    \cup {v \in {"rejected"} : sg[s].pc = "submit" \/ Included("failed")}
    \cup {v \in {"confirmed"} : Included("applied")}

SignerOutcome(s, v) ==
    /\ sg[s].pc \in {"submit", "sent"}
    /\ v \in Classify(s)
    /\ \E ok \in BOOLEAN :
         sgLedger' \in Persist(ok, sgLedger,
                               FinishAttempt(sgLedger, sg[s].idx, LedgerStatus(v)))
    /\ sg' = Respond(s, v)
    /\ UNCHANGED <<exLedger, exLock, sgLock, ex, socket, conn, xts, reports>>

(* The response reaches a peer that is still there, or is lost. *)
SignerRespond(s) ==
    /\ sg[s].pc = "respond"
    /\ LET peer == sg[s].peer IN
       \E delivered \in {FALSE, conn[peer].up} :
         conn' = [i \in AttemptId |->
                    IF i = peer /\ delivered
                    THEN [conn[i] EXCEPT !.to = None, !.reply = sg[s].outcome]
                    ELSE Disconnected(conn[i], s)]
    /\ IF sg[s].idx = 0 THEN UNCHANGED reports
                        ELSE Report("signer", sg[s].idx, sg[s].outcome)
    /\ EndSigner(s, TRUE)
    /\ UNCHANGED <<exLedger, sgLedger, exLock, ex, xts>>

SignerCrash(s) ==
    /\ sg[s].pc # "idle"
    /\ EndSigner(s, FALSE)
    /\ conn' = [i \in AttemptId |-> Disconnected(conn[i], s)]
    /\ UNCHANGED <<exLedger, sgLedger, exLock, ex, xts, reports>>

(* The operator removes the name a crashed signer left. *)
RemoveStaleSocket ==
    /\ socket.path /\ socket.listener = None
    /\ socket' = [socket EXCEPT !.path = FALSE]
    /\ UNCHANGED <<exLedger, sgLedger, exLock, sgLock, ex, sg, conn, xts, reports>>

(* The chain includes an extrinsic, with or without a dispatch error. *)
ChainInclude(k, outcome) ==
    /\ xts[k].state = "pool"
    /\ xts' = [xts EXCEPT ![k].state = outcome]
    /\ UNCHANGED <<exLedger, sgLedger, exLock, sgLock, ex, sg, socket, conn, reports>>

-----------------------------------------------------------------------------
ExecutorStep(e) ==
    \/ \E p \in Plans, snap \in Snapshot : ExecutorStart(e, p, snap)
    \/ ExecutorOpen(e) \/ ExecutorPreSendFailure(e)
    \/ \E snap \in Snapshot : ExecutorSendCheck(e, snap)
    \/ ExecutorSubmit(e)
    \/ \E v \in Verdict : ExecutorFinish(e, v)
    \/ ExecutorCrash(e)

SignerStep(s) ==
    \/ \E p \in Plans, c \in Vectors : SignerStart(s, p, c)
    \/ \E i \in AttemptId : SignerAccept(s, i)
    \/ SignerRead(s) \/ SignerTimeout(s)
    \/ \E snap \in Snapshot : SignerAdmit(s, snap) \/ SignerSendCheck(s, snap)
    \/ SignerRefuse(s) \/ SignerPreSendFailure(s)
    \/ SdkSubmit(s)
    \/ \E v \in Verdict : SignerOutcome(s, v)
    \/ SignerRespond(s) \/ SignerCrash(s)

Next ==
    \/ \E e \in Executors : ExecutorStep(e)
    \/ \E s \in Signers : SignerStep(s)
    \/ RemoveStaleSocket
    \/ \E k \in DOMAIN xts, o \in {"applied", "failed"} : ChainInclude(k, o)

Spec == Init /\ [][Next]_vars

(* Every await of a run has a timeout, so a run that is not crashed takes   *)
(* its next step or gives up.                                               *)
ExecutorProgress(e) ==
    \/ ExecutorOpen(e) \/ ExecutorPreSendFailure(e)
    \/ \E snap \in Snapshot : ExecutorSendCheck(e, snap)
    \/ ExecutorSubmit(e) \/ \E v \in Verdict : ExecutorFinish(e, v)
SignerProgress(s) ==
    \/ \E i \in AttemptId : SignerAccept(s, i)
    \/ SignerRead(s) \/ SignerTimeout(s)
    \/ \E snap \in Snapshot : SignerAdmit(s, snap) \/ SignerSendCheck(s, snap)
    \/ SignerRefuse(s) \/ SignerPreSendFailure(s) \/ SdkSubmit(s)
    \/ \E v \in Verdict : SignerOutcome(s, v)
    \/ SignerRespond(s)
Fairness == /\ \A e \in Executors : WF_vars(ExecutorProgress(e))
            /\ \A s \in Signers : WF_vars(SignerProgress(s))
FairSpec == Spec /\ Fairness

-----------------------------------------------------------------------------
(* Reconciliation: the attempt a report is about and whether it may retry. *)

Unresolved(a) == a.status \in {"in_progress", "ambiguous"} \/ (a.status = "failed" /\ a.started)

SelectAttempt(ledger) ==
    LET open == {i \in DOMAIN ledger : Unresolved(ledger[i])} IN
    IF open = {} THEN Len(ledger) ELSE CHOOSE i \in open : \A j \in open : j <= i

(* Mutant: every failed attempt is advised for retry. *)
EligibleIfFailed(a) == a.status = "failed"

EligiblePreSend(a) == a.status = "failed" /\ ~a.started

-----------------------------------------------------------------------------
(* Properties. *)

ExecutorState == [pc : {"idle", "open", "check", "submit", "wait"},
                  plan : Plans \cup {None}, snap : Snapshot \cup {None},
                  idx : 0..MaxAttempts]
SignerState == [pc : {"idle", "accept", "read", "admit", "wallet", "submit", "sent", "respond"},
                plan : Plans \cup {None}, confirm : Vectors \cup {None},
                peer : 0..MaxAttempts, snap : Snapshot \cup {None},
                idx : 0..MaxAttempts, outcome : Verdict \cup {None}]
Connection == [to : Signers \cup {None}, up : BOOLEAN, req : BOOLEAN,
               reply : Verdict \cup {None}]
Extrinsic == [plan : Plans, vector : Vectors, by : AttemptId, req : AttemptId,
              state : {"pool", "applied", "failed"}]
RunReport == [who : {"executor", "signer"}, idx : AttemptId, verdict : Verdict]

TypeOK ==
    /\ exLedger \in Seq(AuditAttempt) /\ Len(exLedger) <= MaxAttempts
    /\ sgLedger \in Seq(AuditAttempt) /\ Len(sgLedger) <= MaxAttempts
    /\ exLock \in Executors \cup {None} /\ sgLock \in Signers \cup {None}
    /\ ex \in [Executors -> ExecutorState]
    /\ sg \in [Signers -> SignerState]
    /\ socket \in [path : BOOLEAN, listener : Signers \cup {None}]
    /\ conn \in [AttemptId -> Connection]
    /\ xts \in Seq(Extrinsic)
    /\ reports \subseteq RunReport

(* A plan is handed to the chain at most once, whatever crashes, restarts,  *)
(* lost answers and failed ledger writes happen on either side (the signer's *)
(* "submit at most once").                                                   *)
AtMostOneSubmission ==
    \A j, k \in DOMAIN xts : xts[j].plan = xts[k].plan => j = k

(* Once an extrinsic of a plan is out, both ledgers refuse another attempt  *)
(* of the plan, so no restart of either process can replay it.              *)
ReplayBlocked ==
    \A k \in DOMAIN xts : /\ BlockingAttempt(exLedger, xts[k].plan)
                          /\ BlockingAttempt(sgLedger, xts[k].plan)

(* What is out is the vector the executor asked for and the signer recorded, *)
(* with both send markers installed before it left and neither send check   *)
(* reading an older block than its preflight.                               *)
SubmittedAsAgreed ==
    \A k \in DOMAIN xts : \A a \in {exLedger[xts[k].req], sgLedger[xts[k].by]} :
        /\ a.plan = xts[k].plan /\ a.vector = xts[k].vector
        /\ a.started /\ a.preflight <= a.sendCheck

(* The extrinsics that can still apply or have applied. *)
Effects == {xts[k] : k \in {j \in DOMAIN xts : xts[j].state # "failed"}}
Applied == {x \in Effects : x.state = "applied"}

(* What the runs print is true.  A signer run that reports "rejected" has   *)
(* nothing on chain or in the pool and never will; one that reports         *)
(* "confirmed" has its vector applied (exit status 2 and 0).  The same for  *)
(* the executor's status, which is computed from a response, a timeout or a *)
(* lost connection: "rejected" means its request has no effect now or       *)
(* later, "confirmed" that its vector applied.                              *)
ReportsTrue ==
    \A r \in reports :
        LET own(x) == (IF r.who = "signer" THEN x.by ELSE x.req) = r.idx IN
        /\ r.verdict = "rejected" => \A x \in Effects : ~own(x)
        /\ r.verdict = "confirmed" =>
             \E x \in Applied : own(x) /\ (r.who = "executor" => x.vector = exLedger[r.idx].vector)

(* A default reconciliation report that calls an attempt eligible for retry *)
(* is right: no extrinsic of that plan is out, on either ledger's evidence. *)
RetryAdviceSafe ==
    \A ledger \in {exLedger, sgLedger} : ledger # <<>> =>
        LET a == ledger[SelectAttempt(ledger)] IN
        EligiblePreSend(a) => \A k \in DOMAIN xts : xts[k].plan # a.plan

(* No retry doubles a plan: an automatic one is refused by both ledgers,    *)
(* and one a report advises starts from a plan that never left.             *)
RetriesSafe == ReplayBlocked /\ RetryAdviceSafe

(* Neither process holds its ledger lock forever: an executor and a signer  *)
(* that wait on each other, or on a peer that died, give up and release it. *)
LocksReleased == /\ exLock # None ~> exLock = None
                 /\ sgLock # None ~> sgLock = None
=============================================================================
