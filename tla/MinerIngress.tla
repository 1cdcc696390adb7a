---------------------------- MODULE MinerIngress ---------------------------
(***************************************************************************)
(* The miner neuron between its validators and its Go agent (miner.py):    *)
(* the metagraph its sync loop installs, the checks and rate windows a     *)
(* request passes, the priority gate assignments and lease documents wait  *)
(* at, the capacity of sandbox ops, and the retried bridge call (auth.py). *)
(*                                                                         *)
(* Between reading the body and the gate nothing suspends (the locks are   *)
(* never held over an await), so authentication, authorization, counting   *)
(* and identity checks are one step on one view of the metagraph; waiting  *)
(* at the gate and each bridge attempt are steps of their own.             *)
(***************************************************************************)
EXTENDS Integers, Sequences, SequencesExt, FiniteSets

CONSTANTS
  Validators, Stake,   \* hotkeys and their priority
  Inbound,             \* 1..n: the requests, numbered as they arrive
  Documents,           \* [block, from, expires, uid]: what a request binds itself to
  Views,               \* [block, permits, uid]: metagraph views; uid 0: not registered
  NoView,
  Capacity, OpsCapacity, CancelHeadroom, Retries,
  Limit, Span,         \* per rate class: requests, and the length of the window
  MaxIngressTime       \* bound: the monotonic clock

VARIABLES
  time, metagraph, ready, ownUid,
  windows,    \* per rate class and validator: the times still counted
  active, waiters, granted,   \* PriorityGate; granted: futures resolved, not yet resumed
  opsActive,  \* OpsAdmission
  requests,   \* per handler: [pc, who, kind, doc, tries]
  counted     \* every request ever counted: [class, who, at, by]

ivars == <<time, metagraph, ready, ownUid, windows, active, waiters, granted, opsActive,
           requests, counted>>

NotArrived == [pc |-> "none"]
Over == [pc |-> "over"]
Kinds == {"gated", "direct", "op", "cancel"}
Class(kind) == IF kind \in {"gated", "direct"} THEN "default" ELSE kind
Classes == {"default", "op", "cancel"}

IngressInit ==
  /\ time = 0 /\ metagraph = NoView /\ ready = FALSE /\ ownUid = 0
  /\ windows = [c \in Classes |-> [v \in Validators |-> <<>>]]
  /\ active = 0 /\ waiters = <<>> /\ granted = {} /\ opsActive = 0
  /\ requests = [r \in Inbound |-> NotArrived]
  /\ counted = {}

(***************************************************************************)
(* The sync loop.                                                          *)
(***************************************************************************)
\* MetagraphState.set refuses an older block and another view of the same one.
Installs(v) == metagraph = NoView \/ v = metagraph \/ v.block > metagraph.block

(* Mutant: a miner registered again under another UID goes on with that one. *)
SyncAdopts(v) ==
  /\ IF v.uid # 0 /\ Installs(v)
     THEN ready' = TRUE /\ metagraph' = v /\ ownUid' = v.uid
     ELSE ready' = FALSE /\ UNCHANGED <<metagraph, ownUid>>
  /\ UNCHANGED <<time, windows, active, waiters, granted, opsActive, requests, counted>>
Sync(v) ==
  /\ IF v.uid = 0 \/ ownUid \notin {0, v.uid}
     THEN ready' = FALSE /\ UNCHANGED <<metagraph, ownUid>>
     ELSE /\ ownUid' = v.uid
          /\ ready' = Installs(v)
          /\ metagraph' = IF Installs(v) THEN v ELSE metagraph
  /\ UNCHANGED <<time, windows, active, waiters, granted, opsActive, requests, counted>>

SyncFails ==
  /\ ready' = FALSE
  /\ UNCHANGED <<time, metagraph, ownUid, windows, active, waiters, granted, opsActive,
                 requests, counted>>

(***************************************************************************)
(* The gate.                                                               *)
(***************************************************************************)
Before(r, s) == Stake[requests'[r].who] >= Stake[requests'[s].who]

\* The queue with r behind everyone of at least its priority.
Queued(r) ==
  LET ahead == SelectSeq(waiters, LAMBDA s : Before(s, r))
      behind == SelectSeq(waiters, LAMBDA s : ~Before(s, r))
  IN ahead \o <<r>> \o behind

\* _release_locked: the slot passes to the first waiter, or becomes free.
Release ==
  IF waiters = <<>>
  THEN active' = active - 1 /\ UNCHANGED <<waiters, granted>>
  ELSE /\ waiters' = Tail(waiters)
       /\ granted' = granted \union {Head(waiters)}
       /\ UNCHANGED active

(***************************************************************************)
(* A request.                                                              *)
(***************************************************************************)
(* Mutant: an entry leaves its window one tick early. *)
RecentOff(class, who) ==
  SelectSeq(windows[class][who], LAMBDA t : t > time - Span[class] + 1)
Recent(class, who) ==
  SelectSeq(windows[class][who], LAMBDA t : t > time - Span[class])

\* _snapshot_for and _verify_assignment_identity.
CurrentBlock(doc) ==
  doc.block <= metagraph.block + 2 /\ metagraph.block <= doc.block + 2
Identified(doc) ==
  /\ CurrentBlock(doc)
  /\ doc.from <= doc.block /\ doc.block < doc.expires
  /\ doc.uid = ownUid /\ metagraph.block < doc.expires

Accepted(kind, doc) ==
  CASE kind = "gated"  -> Identified(doc)
    [] kind = "direct" -> CurrentBlock(doc)
    [] kind = "op"     -> Identified(doc) /\ opsActive < OpsCapacity
    [] kind = "cancel" -> Identified(doc) /\ opsActive < OpsCapacity + CancelHeadroom

Enter(r, kind) ==
  CASE kind = "gated" ->
         IF active < Capacity /\ waiters = <<>>
         THEN active' = active + 1 /\ UNCHANGED <<waiters, granted, opsActive>>
         ELSE waiters' = Queued(r) /\ UNCHANGED <<active, granted, opsActive>>
    [] kind = "direct" -> UNCHANGED <<active, waiters, granted, opsActive>>
    [] OTHER -> opsActive' = opsActive + 1 /\ UNCHANGED <<active, waiters, granted>>

\* A request is counted when its caller is identified, also when it is refused
\* afterwards; one that is not counted changes nothing but the pruned window.
Receive(r, who, kind, doc) ==
  LET recent == Recent(Class(kind), who) IN
  /\ requests[r] = NotArrived /\ \A q \in 1..(r - 1) : requests[q] # NotArrived
  /\ ready /\ who \in metagraph.permits
  /\ Len(recent) < Limit[Class(kind)]
  /\ windows' = [windows EXCEPT ![Class(kind)][who] = Append(recent, time)]
  /\ counted' = counted \union {[class |-> Class(kind), who |-> who, at |-> time, by |-> r]}
  /\ requests' = [requests EXCEPT ![r] =
       IF ~Accepted(kind, doc) THEN Over
       ELSE [pc |-> IF kind = "gated" /\ (active >= Capacity \/ waiters # <<>>)
                    THEN "queued" ELSE "bridge",
             who |-> who, kind |-> kind, doc |-> doc, tries |-> 0]]
  /\ IF Accepted(kind, doc)
     THEN Enter(r, kind)
     ELSE UNCHANGED <<active, waiters, granted, opsActive>>
  /\ UNCHANGED <<time, metagraph, ready, ownUid>>

\* The handlers differ in the documents they parse and in where they wait.
Deploy(r, who, doc) == Receive(r, who, "gated", doc)
StaticDeploy(r, who, doc) == Receive(r, who, "gated", doc)
SandboxForward(r, who, doc) == Receive(r, who, "gated", doc)
SandboxOpsForward(r, who, doc) ==
  \E kind \in {"op", "cancel"} : Receive(r, who, kind, doc)
Status(r, who, doc) == Receive(r, who, "direct", doc)
StaticStatus(r, who, doc) == Receive(r, who, "direct", doc)
Deactivate(r, who, doc) == Receive(r, who, "direct", doc)
Capabilities(r, who, doc) == Receive(r, who, "direct", doc)

Resume(r) ==
  /\ r \in granted
  /\ granted' = granted \ {r}
  /\ requests' = [requests EXCEPT ![r].pc = "bridge"]
  /\ UNCHANGED <<time, metagraph, ready, ownUid, windows, active, waiters, opsActive, counted>>

\* The client goes away while the request waits; its slot may have been granted.
(* Mutant: a cancelled waiter only leaves the queue. *)
CancelWaiterForgets(r) ==
  /\ requests[r].pc = "queued"
  /\ requests' = [requests EXCEPT ![r] = Over]
  /\ waiters' = SelectSeq(waiters, LAMBDA s : s # r)
  /\ granted' = granted \ {r}
  /\ UNCHANGED <<time, metagraph, ready, ownUid, windows, active, opsActive, counted>>
CancelWaiter(r) ==
  /\ requests[r].pc = "queued"
  /\ requests' = [requests EXCEPT ![r] = Over]
  /\ IF Contains(waiters, r)
     THEN waiters' = SelectSeq(waiters, LAMBDA s : s # r) /\ UNCHANGED <<active, granted>>
     ELSE IF waiters = <<>>
     THEN active' = active - 1 /\ granted' = granted \ {r} /\ UNCHANGED waiters
     ELSE /\ waiters' = Tail(waiters)
          /\ granted' = (granted \ {r}) \union {Head(waiters)}
          /\ UNCHANGED active
  /\ UNCHANGED <<time, metagraph, ready, ownUid, windows, opsActive, counted>>

\* The agent's answer, its refusal, the last failure, or a cancellation ends the
\* call and gives the slot back; a failed attempt before that is repeated.
EndBridge(r) ==
  /\ requests[r].pc = "bridge"
  /\ requests' = [requests EXCEPT ![r] = Over]
  /\ CASE requests[r].kind = "gated" -> Release /\ UNCHANGED opsActive
       [] requests[r].kind = "direct" -> UNCHANGED <<active, waiters, granted, opsActive>>
       [] OTHER -> opsActive' = opsActive - 1 /\ UNCHANGED <<active, waiters, granted>>
  /\ UNCHANGED <<time, metagraph, ready, ownUid, windows, counted>>

RetryBridge(r) ==
  /\ requests[r].pc = "bridge" /\ requests[r].tries < Retries
  /\ requests' = [requests EXCEPT ![r].tries = @ + 1]
  /\ UNCHANGED <<time, metagraph, ready, ownUid, windows, active, waiters, granted, opsActive,
                 counted>>

TimePasses ==
  /\ time < MaxIngressTime /\ time' = time + 1
  /\ UNCHANGED <<metagraph, ready, ownUid, windows, active, waiters, granted, opsActive,
                 requests, counted>>

IngressNext ==
  \/ \E v \in Views : Sync(v)
  \/ SyncFails \/ TimePasses
  \/ \E r \in Inbound :
       \/ \E who \in Validators, doc \in Documents :
            \/ Deploy(r, who, doc) \/ StaticDeploy(r, who, doc) \/ SandboxForward(r, who, doc)
            \/ SandboxOpsForward(r, who, doc) \/ Status(r, who, doc)
            \/ StaticStatus(r, who, doc) \/ Deactivate(r, who, doc) \/ Capabilities(r, who, doc)
       \/ Resume(r) \/ CancelWaiter(r) \/ EndBridge(r) \/ RetryBridge(r)

IngressSpec == IngressInit /\ [][IngressNext]_ivars

-----------------------------------------------------------------------------
InBridge(kinds) ==
  {r \in Inbound : requests[r].pc = "bridge"
                    /\ requests[r].kind \in kinds}

(***************************************************************************)
(* No slot of the gate is lost or handed out twice, whoever is cancelled   *)
(* while a slot is on its way to them: the count is that of the holders,   *)
(* it stays within the capacity, and nobody waits while a slot is free or  *)
(* behind a caller of lower stake.  Ops keep to their own capacity.        *)
(***************************************************************************)
GateWorks ==
  /\ active = Cardinality(InBridge({"gated"}) \union granted) /\ active <= Capacity
  /\ waiters # <<>> => active = Capacity
  /\ \A r \in Inbound : requests[r].pc = "queued" =>
       (Contains(waiters, r) <=> r \notin granted)
  /\ \A m, n \in DOMAIN waiters :
       m < n => Stake[requests[waiters[m]].who] >= Stake[requests[waiters[n]].who]
  /\ opsActive = Cardinality(InBridge({"op", "cancel"}))
  /\ opsActive <= OpsCapacity + CancelHeadroom

(***************************************************************************)
(* Within any span of the window's length no more requests of a class are  *)
(* counted for a caller than its limit, although the windows are pruned    *)
(* only when the caller returns.                                           *)
(***************************************************************************)
RateHeld ==
  \A c \in Classes, v \in Validators, t \in 0..MaxIngressTime :
    Cardinality({e \in counted : e.class = c /\ e.who = v /\ e.at <= t /\ e.at > t - Span[c]})
      <= Limit[c]

(***************************************************************************)
(* Whatever is on its way to the agent was bound to the UID this miner     *)
(* still has, also after it waited while the metagraph moved on: the UID   *)
(* is fixed by the first view, and a view with another one only takes the  *)
(* miner out of service.                                                   *)
(***************************************************************************)
BoundToThisMiner ==
  /\ \A r \in InBridge(Kinds \ {"direct"}) : requests[r].doc.uid = ownUid
  /\ ready => metagraph.uid = ownUid

=============================================================================
