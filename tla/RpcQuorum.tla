----------------------------- MODULE RpcQuorum -----------------------------
(***************************************************************************)
(* FinalizedRpcQuorum (chain_quorum.py): several chain handles opened,     *)
(* closed and read as one, the agreement its reads require, and the        *)
(* MetagraphState (chain.py) a neuron's sync task installs the view in.    *)
(*                                                                         *)
(* A chain handle is taken at its word (ChainHandle): a failed or          *)
(* cancelled open leaves it closed, close leaves it closed, a read of a    *)
(* closed one fails.  As there, a task runs from one await to the next in  *)
(* one step, 0 stands for None and a refused call changes nothing.         *)
(***************************************************************************)
EXTENDS Integers, Sequences, FiniteSets, FiniteSetsExt, Functions

CONSTANTS Users,      \* tasks that use the quorum
          Syncer,     \* the one of them that syncs
          Rpcs,       \* its chains
          Honest,     \* those that answer with the chain's own view
          MaxLag,     \* max_finalized_lag
          MaxOpened,  \* bound: generations that are opened
          MaxClosed,  \* bound: close tasks
          MaxHead     \* bound: the finalized head

VARIABLES
  epoch,      \* _generation
  opened, owns, qRetiring, qOpenTask, qCloseTask,
  waiter,     \* the opening whose open() call has not returned, or 0
  openers,    \* number of openings so far
  opening,    \* per opening: [at |-> its generation, st |-> "none", "wait", "ok", "failed"]
  childOpen,  \* per chain: "none", "wait", "ok", "failed" in the latest opening
  up,         \* per chain: its handle is open
  closing,    \* sequence of close tasks: [st, owns, opening, left]
  reads,      \* tasks with an admitted read
  stopped,    \* tasks that were cancelled and have not unwound
  asked,      \* per task: what it waits for
  head,       \* the finalized head of the chain itself
  lastAgreed, \* _last_agreed_block
  state,      \* MetagraphState: [block, honest], block -1 when empty
  told        \* every weight mode and row returned was the chain's own

life == <<epoch, opened, owns, qRetiring, qOpenTask, qCloseTask, waiter>>
work == <<openers, opening, childOpen, up, closing>>
view == <<head, lastAgreed, state, told>>
qvars == <<life, work, reads, stopped, asked, view>>

Free == [op |-> "free", id |-> 0, wait |-> 0]

QuorumInit ==
  /\ epoch = 0 /\ opened = FALSE /\ owns = FALSE /\ qRetiring = FALSE
  /\ qOpenTask = 0 /\ qCloseTask = 0 /\ waiter = 0
  /\ openers = 0 /\ opening = [o \in 1..MaxOpened |-> [at |-> 0, st |-> "none"]]
  /\ childOpen = [c \in Rpcs |-> "none"] /\ up = [c \in Rpcs |-> FALSE]
  /\ closing = <<>>
  /\ reads = {} /\ stopped = {} /\ asked = [u \in Users |-> Free]
  /\ head = 0 /\ lastAgreed = -1 /\ state = [block |-> -1, honest |-> TRUE] /\ told = TRUE

Ended(o) == opening[o].st \in {"ok", "failed"}
Asks(u, a) == asked' = [asked EXCEPT ![u] = a]

(***************************************************************************)
(* Opening.                                                                *)
(***************************************************************************)
OpenQuorum(u) ==
  /\ asked[u] = Free /\ openers < MaxOpened
  /\ ~qRetiring /\ qCloseTask = 0 /\ ~owns /\ qOpenTask = 0 /\ waiter = 0
  /\ epoch' = epoch + 1 /\ owns' = TRUE
  /\ openers' = openers + 1 /\ qOpenTask' = openers' /\ waiter' = openers'
  /\ opening' = [opening EXCEPT ![openers'] = [at |-> epoch', st |-> "wait"]]
  /\ childOpen' = [c \in Rpcs |-> "wait"]
  /\ Asks(u, [op |-> "open", id |-> openers', wait |-> 0])
  /\ UNCHANGED <<opened, qRetiring, qCloseTask, up, closing, reads, stopped, view>>

\* One chain's open returns; a cancelled one fails.
OpenChain(c) ==
  /\ childOpen[c] = "wait"
  /\ \/ /\ ~up[c] /\ openers \notin stopped
        /\ up' = [up EXCEPT ![c] = TRUE]
        /\ childOpen' = [childOpen EXCEPT ![c] = "ok"]
     \/ /\ childOpen' = [childOpen EXCEPT ![c] = "failed"]
        /\ UNCHANGED up
  /\ UNCHANGED <<life, openers, opening, closing, reads, stopped, asked, view>>

(* Mutant: the opening does not look whether it was retired meanwhile. *)
OpenChainsBlind(o) ==
  /\ opening[o].st = "wait" /\ \A c \in Rpcs : childOpen[c] # "wait"
  /\ LET ok == \A c \in Rpcs : childOpen[c] = "ok" IN
       /\ opened' = (opened \/ ok)
       /\ opening' = [opening EXCEPT ![o].st = IF ok THEN "ok" ELSE "failed"]
  /\ stopped' = stopped \ {o}
  /\ UNCHANGED <<epoch, owns, qRetiring, qOpenTask, qCloseTask, waiter, openers, childOpen,
                 up, closing, reads, asked, view>>
OpenChains(o) ==
  /\ opening[o].st = "wait" /\ \A c \in Rpcs : childOpen[c] # "wait"
  /\ LET ok == /\ o \notin stopped /\ \A c \in Rpcs : childOpen[c] = "ok"
               /\ ~qRetiring /\ epoch = opening[o].at /\ owns /\ qOpenTask = o
     IN /\ opened' = (opened \/ ok)
        /\ opening' = [opening EXCEPT ![o].st = IF ok THEN "ok" ELSE "failed"]
  /\ stopped' = stopped \ {o}
  /\ UNCHANGED <<epoch, owns, qRetiring, qOpenTask, qCloseTask, waiter, openers, childOpen,
                 up, closing, reads, asked, view>>

\* open() returns the result of its opening, or, cancelled, cancels it; anything
\* but success leads to its own cleanup.
OpenEnds(u) ==
  LET o == asked[u].id IN
  /\ asked[u].op = "open" /\ (Ended(o) \/ u \in stopped)
  /\ IF u \notin stopped /\ opening[o].st = "ok"
     THEN waiter' = 0 /\ Asks(u, Free)
     ELSE Asks(u, [asked[u] EXCEPT !.op = "retire"]) /\ UNCHANGED waiter
  /\ stopped' = (stopped \ {u}) \union (IF Ended(o) THEN {} ELSE {o})
  /\ UNCHANGED <<epoch, opened, owns, qRetiring, qOpenTask, qCloseTask, work, reads, view>>

(***************************************************************************)
(* Closing.                                                                *)
(***************************************************************************)
\* Joins the close task, or publishes one; w is the open() call to wait for.
RequestClose(u, op, w) ==
  /\ Asks(u, [op |-> op, id |-> IF qCloseTask = 0 THEN Len(closing) + 1 ELSE qCloseTask,
              wait |-> w])
  /\ IF qCloseTask # 0
     THEN UNCHANGED <<epoch, opened, owns, qRetiring, qCloseTask, closing>>
     ELSE /\ closing' = Append(closing, [st |-> "begin", owns |-> owns,
                                         opening |-> qOpenTask, left |-> Rpcs])
          /\ qCloseTask' = Len(closing')
          /\ qRetiring' = TRUE /\ epoch' = epoch + 1 /\ owns' = FALSE /\ opened' = FALSE

RetireOpening(u) ==
  /\ asked[u].op = "retire" /\ Ended(asked[u].id)
  /\ RequestClose(u, "undo", 0)
  /\ UNCHANGED <<qOpenTask, waiter, openers, opening, childOpen, up, reads, stopped, view>>

CloseQuorum(u) ==
  /\ asked[u] = Free
  /\ qCloseTask # 0 \/ Len(closing) < MaxClosed
  /\ RequestClose(u, "close", waiter)
  /\ UNCHANGED <<qOpenTask, waiter, openers, opening, childOpen, up, reads, stopped, view>>

\* The close task: the reads and the opening are cancelled and the opening is
\* over before the chains are closed, each in its own time.
CloseChains(k) ==
  LET o == closing[k].opening IN
  /\ \/ /\ closing[k].st = "begin"
        /\ stopped' = stopped \union reads
             \union (IF o = 0 THEN {} ELSE IF Ended(o) THEN {} ELSE {o})
        /\ closing' = [closing EXCEPT ![k].st = "opener"]
        /\ UNCHANGED <<life, up>>
     \/ /\ closing[k].st = "opener" /\ (o # 0 => Ended(o))
        /\ closing' = [closing EXCEPT ![k].st = IF closing[k].owns THEN "chains" ELSE "drain"]
        /\ UNCHANGED <<life, up, stopped>>
     \/ /\ closing[k].st = "chains"
        /\ \E c \in closing[k].left :
             /\ up' = [up EXCEPT ![c] = FALSE]
             /\ closing' = [closing EXCEPT ![k].left = @ \ {c},
                  ![k].st = IF closing[k].left = {c} THEN "drain" ELSE @]
        /\ UNCHANGED <<life, stopped>>
     \/ /\ closing[k].st = "drain" /\ reads = {}
        /\ closing' = [closing EXCEPT ![k].st = "done"]
        /\ opened' = FALSE /\ owns' = FALSE /\ qRetiring' = FALSE
        /\ qOpenTask' = IF qOpenTask = o THEN 0 ELSE qOpenTask
        /\ UNCHANGED <<epoch, qCloseTask, waiter, up, stopped>>
  /\ UNCHANGED <<openers, opening, childOpen, reads, asked, view>>

CloseEnds(u) ==
  /\ asked[u].op \in {"close", "undo"} /\ closing[asked[u].id].st = "done"
  /\ asked[u].wait # 0 => waiter # asked[u].wait
  /\ qCloseTask' = IF qCloseTask = asked[u].id THEN 0 ELSE qCloseTask
  /\ Asks(u, IF asked[u].op = "close" THEN Free ELSE [asked[u] EXCEPT !.op = "undone"])
  /\ UNCHANGED <<epoch, opened, owns, qRetiring, qOpenTask, waiter, work, reads, stopped, view>>

OpenRaises(u) ==
  /\ asked[u].op = "undone"
  /\ waiter' = 0
  /\ Asks(u, Free)
  /\ UNCHANGED <<epoch, opened, owns, qRetiring, qOpenTask, qCloseTask, work, reads, stopped, view>>

(***************************************************************************)
(* Reads.                                                                  *)
(***************************************************************************)
Reading(u) == asked[u].op \in {"heads", "views", "row"}

\* sync, by the neuron's one sync task, or commit_reveal_enabled / validator_weights.
AdmitQuorumRead(u) ==
  /\ asked[u] = Free /\ ~qRetiring /\ qCloseTask = 0
  /\ reads' = reads \union {u}
  /\ Asks(u, [Free EXCEPT !.op = IF u = Syncer THEN "heads" ELSE "row"])
  /\ UNCHANGED <<life, work, stopped, view>>

\* A chain or the caller's cancellation fails the read.
ReadFails(u) ==
  /\ Reading(u)
  /\ reads' = reads \ {u} /\ stopped' = stopped \ {u}
  /\ Asks(u, Free)
  /\ UNCHANGED <<life, work, view>>

Answering(u) == Reading(u) /\ u \notin stopped /\ \A c \in Rpcs : up[c]

\* Any finalized height a chain may name: an honest one lags or not.
Heads == {h \in [Rpcs -> 0..MaxHead] : \A c \in Honest : h[c] <= head}

(* Mutant: the heads are compared with nothing that was agreed before. *)
AgreeHeadFresh(u) ==
  /\ asked[u].op = "heads" /\ Answering(u)
  /\ \E h \in Heads :
       LET common == Min(Range(h)) IN
       /\ Max(Range(h)) - common <= MaxLag
       /\ Asks(u, [op |-> "views", id |-> common, wait |-> 0])
  /\ UNCHANGED <<life, work, reads, stopped, view>>
AgreeHead(u) ==
  /\ asked[u].op = "heads" /\ Answering(u)
  /\ \E h \in Heads :
       LET common == Min(Range(h)) IN
       /\ Max(Range(h)) - common <= MaxLag
       /\ common >= lastAgreed
       /\ Asks(u, [op |-> "views", id |-> common, wait |-> 0])
  /\ UNCHANGED <<life, work, reads, stopped, view>>

\* What the chains answer about one block: TRUE is what the chain itself says.
Answers == {a \in [Rpcs -> BOOLEAN] : \A c \in Honest : a[c]}

\* MetagraphState.set: never back, never a second view of one block.
SetState(b, a) ==
  state' = IF b > state.block THEN [block |-> b, honest |-> a] ELSE state

AgreeView(u) ==
  /\ asked[u].op = "views" /\ Answering(u)
  /\ \E a \in Answers : \E v \in BOOLEAN :
       /\ Range(a) = {v}
       /\ SetState(asked[u].id, v)
  /\ lastAgreed' = asked[u].id
  /\ reads' = reads \ {u}
  /\ Asks(u, Free)
  /\ UNCHANGED <<life, work, stopped, head, told>>

AgreeRow(u) ==
  /\ asked[u].op = "row" /\ Answering(u)
  /\ \E a \in Answers : \E v \in BOOLEAN : Range(a) = {v} /\ told' = v
  /\ reads' = reads \ {u}
  /\ Asks(u, Free)
  /\ UNCHANGED <<life, work, stopped, head, lastAgreed, state>>

\* The chain finalizes a block; a task is cancelled from outside.
Finalize ==
  /\ head < MaxHead /\ head' = head + 1
  /\ UNCHANGED <<life, work, reads, stopped, asked, lastAgreed, state, told>>

CancelTask(u) ==
  /\ asked[u].op = "open" \/ Reading(u)
  /\ u \notin stopped /\ stopped' = stopped \union {u}
  /\ UNCHANGED <<life, work, reads, asked, view>>

QuorumNext ==
  \/ \E u \in Users :
       \/ OpenQuorum(u) \/ OpenEnds(u) \/ RetireOpening(u) \/ CloseQuorum(u)
       \/ CloseEnds(u) \/ OpenRaises(u) \/ AdmitQuorumRead(u) \/ ReadFails(u)
       \/ AgreeHead(u) \/ AgreeView(u) \/ AgreeRow(u) \/ CancelTask(u)
  \/ \E c \in Rpcs : OpenChain(c)
  \/ \E o \in 1..MaxOpened : OpenChains(o)
  \/ \E k \in DOMAIN closing : CloseChains(k)
  \/ Finalize

CloseTasks == 1..(MaxOpened + MaxClosed)

\* Ready tasks run.  A chain's open and a read may hang until they are cancelled.
QuorumFair ==
  /\ \A u \in Users :
       /\ WF_qvars(OpenEnds(u) \/ RetireOpening(u) \/ CloseEnds(u) \/ OpenRaises(u))
       /\ WF_qvars(u \in stopped /\ ReadFails(u))
  /\ \A c \in Rpcs : WF_qvars(openers \in stopped /\ OpenChain(c))
  /\ \A o \in 1..MaxOpened : WF_qvars(OpenChains(o))
  /\ \A k \in CloseTasks : WF_qvars(k \in DOMAIN closing /\ CloseChains(k))

QuorumSpec == QuorumInit /\ [][QuorumNext]_qvars /\ QuorumFair

-----------------------------------------------------------------------------
(***************************************************************************)
(* When every call has returned the quorum is open with every chain open,  *)
(* or closed with every chain closed and open() possible again: no chain   *)
(* that opened late, in an opening that failed or was cancelled or closed  *)
(* under, is left behind ("let a late successful initialization race past  *)
(* quorum cleanup").                                                       *)
(***************************************************************************)
QuorumSettled ==
  /\ opened => \A c \in Rpcs : up[c]
  /\ (\A u \in Users : asked[u] = Free) =>
       /\ ~qRetiring /\ qCloseTask = 0 /\ waiter = 0 /\ reads = {}
       /\ owns <=> opened
       /\ ~owns => qOpenTask = 0 /\ \A c \in Rpcs : ~up[c]

(***************************************************************************)
(* Agreement: what a neuron installs, and every weight row or mode it is   *)
(* told, is what the chain itself says as long as one RPC is honest; and   *)
(* the agreed height never moves back, although it is compared before the  *)
(* views are awaited and recorded after, across closes and reopenings.     *)
(***************************************************************************)
AgreedView ==
  [][ /\ lastAgreed' >= lastAgreed /\ lastAgreed' <= head'
      /\ state'.block = lastAgreed' /\ state'.honest /\ told' ]_qvars

(***************************************************************************)
(* Every close and the cleanup of every failed open returns: the cleanup   *)
(* does not wait for the open() call it is part of, and the close task     *)
(* cancels what it waits for.                                              *)
(***************************************************************************)
QuorumCloses ==
  \A u \in Users : asked[u].op \in {"retire", "undo", "undone", "close"} ~> asked[u] = Free

=============================================================================
