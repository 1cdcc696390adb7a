------------------------- MODULE EndpointLifecycle -------------------------
(***************************************************************************)
(* Organic endpoints of one miner agent (pkg/miner/agent.go, organic.go):  *)
(* assignment, deactivation, restart recovery and status, over the SQLite  *)
(* store (pkg/durable/store.go) and the Docker runtime                     *)
(* (pkg/runtime/docker_oci.go).                                            *)
(*                                                                         *)
(* An HTTP handler is a thread; one step is one database transaction, one  *)
(* section under Agent.mu or one effect on Docker or the state directory.  *)
(* An endpoint identity is derived from the exact ticket, so it stands for *)
(* that ticket, and the validator that signed it is the only caller: any   *)
(* other one is refused.  Tickets are verified and unexpired when they     *)
(* arrive.  The runtime identity of an endpoint is deterministic.          *)
(***************************************************************************)
EXTENDS Integers, FiniteSets

CONSTANTS
    Endpoints,    \* endpoint identities
    Artifacts,    \* artifact digests
    ArtifactOf,   \* [Endpoints -> Artifacts]: the image of the ticket
    Requests,     \* kinds of requests made
    Handlers,     \* threads serving requests
    Main,         \* the thread of main, which runs RecoverCleanup
    Nobody,       \* no thread
    MaxFails,     \* bound: operations that return an error
    MaxRestarts,  \* bound: crashes and shutdowns
    MaxExits      \* bound: containers that exit by themselves

ASSUME EndpointAssumption ==
    /\ ArtifactOf \in [Endpoints -> Artifacts]
    /\ Requests \subseteq {"assign", "deactivate", "status"}
    /\ Main \notin Handlers /\ Nobody \notin Handlers \cup {Main}
    /\ {MaxFails, MaxRestarts, MaxExits} \subseteq Nat

VARIABLES
    db,         \* rows of the store, per endpoint
    mem,        \* the agent's maps, per endpoint
    container,  \* containers Docker has
    dir,        \* per-instance state directories
    image,      \* image references Docker has
    lock,       \* imageLock
    th,         \* threads
    phase,      \* of the process
    reply,      \* the answer the last step gave
    launches,   \* docker run per endpoint
    fails, restarts, exits

store == <<db, mem>>
engine == <<container, dir, image, launches>>
budget == <<fails, restarts, exits>>
vars == <<store, engine, lock, th, phase, reply, budget>>

Threads == Handlers \cup {Main}
NoInc == [present |-> FALSE, active |-> FALSE, url |-> FALSE]
NoRow == [nonce |-> FALSE, status |-> "absent", receipt |-> "none", inc |-> NoInc, fence |-> FALSE]
NoMem == [creating |-> FALSE, requested |-> FALSE, instance |-> FALSE, url |-> FALSE,
          ticket |-> FALSE]
Idle == [pc |-> "idle"]
Begun(e, pc) == [pc |-> pc, e |-> e, ret |-> "request", url |-> FALSE, creating |-> FALSE, marker |-> FALSE]
NoReply == [result |-> "none"]
NoneIdle == [t \in Threads |-> Idle]

Init ==
    /\ db = [e \in Endpoints |-> NoRow] /\ mem = [e \in Endpoints |-> NoMem]
    /\ container = [e \in Endpoints |-> FALSE] /\ dir = [e \in Endpoints |-> "none"]
    /\ image = [a \in Artifacts |-> FALSE] /\ lock = [a \in Artifacts |-> Nobody]
    /\ launches = [e \in Endpoints |-> 0]
    /\ th = NoneIdle /\ phase = "down" /\ reply = NoReply
    /\ fails = 0 /\ restarts = 0 /\ exits = 0

-----------------------------------------------------------------------------
(* Threads. *)

Silent == reply' = NoReply
At(t, pc) == th[t].pc = pc
Row(t) == db[th[t].e]
Mem(t) == mem[th[t].e]
Goto(t, pc) == th' = [th EXCEPT ![t].pc = pc]
UpdateRow(t, r) == db' = [db EXCEPT ![th[t].e] = r]
UpdateMem(t, m) == mem' = [mem EXCEPT ![th[t].e] = m]

(* A handler answers and ends. *)
Answer(t, result) ==
    /\ th' = [th EXCEPT ![t] = Idle]
    /\ reply' = [e |-> th[t].e, result |-> result]

(* The process ends: memory, threads and locks are gone. *)
ProcessEnds ==
    /\ phase' = "down" /\ th' = NoneIdle
    /\ mem' = [e \in Endpoints |-> NoMem]
    /\ lock' = [a \in Artifacts |-> Nobody]

(* RecoverCleanup between two endpoints: the ones left of the list, those   *)
(* listed with a URL, and whether this is the list of assignments only.     *)
Listed(todo, urls, pending) ==
    [pc |-> "next", todo |-> todo, urls |-> urls, pending |-> pending, ret |-> "recover"]

(* Deactivate returns to its caller: a request, the cleanup of a failed     *)
(* assignment, which ignores the error, or RecoverCleanup, which does not.  *)
Returns(t, ok) ==
    \/ /\ th[t].ret = "request"
       /\ Answer(t, IF ok THEN "deactivated" ELSE "error") /\ UNCHANGED phase
    \/ th[t].ret = "failed" /\ th' = [th EXCEPT ![t] = Begun(th[t].e, "save_failed")] /\ Silent /\ UNCHANGED phase
    \/ th[t].ret = "error" /\ Answer(t, "error") /\ UNCHANGED phase
    \/ /\ th[t].ret = "recover" /\ ok
       /\ th' = [th EXCEPT ![t] = Listed(th[t].todo, th[t].urls, th[t].pending)]
       /\ Silent /\ UNCHANGED phase

RecoverAborts(t) == th[t].ret = "recover" /\ ProcessEnds /\ Silent

-----------------------------------------------------------------------------
(* Transactions of the store. *)

Deactivated(r) == r.fence \/ r.status = "deactivated"
Cached(r) == r.status # "deactivated" /\ r.receipt # "none" /\ r.inc.present /\ r.inc.active

SaveAssignmentRow(r) == [r EXCEPT !.status = IF Deactivated(r) THEN "deactivated" ELSE "processing"]

(* Mutant: a receipt may reopen a deactivated assignment. *)
SaveReceiptAlways(r, stage) == [r EXCEPT !.status = stage, !.receipt = stage]

SaveReceipt(r, stage) ==
    [r EXCEPT !.status = IF r.status = "deactivated" THEN @ ELSE stage, !.receipt = stage]

PutEndpoint(r, url) == [r EXCEPT !.inc = [present |-> TRUE, active |-> TRUE, url |-> url]]
PutCleanupEndpoint(r) ==
    IF r.inc.present THEN r ELSE [r EXCEPT !.inc = [present |-> TRUE, active |-> TRUE, url |-> FALSE]]

FenceEndpointDeactivation(r) ==
    [r EXCEPT !.fence = TRUE, !.status = IF @ = "absent" THEN @ ELSE "deactivated"]
CompleteEndpointDeactivation(r) == [r EXCEPT !.inc.active = FALSE]

-----------------------------------------------------------------------------
(* Requests. *)

Request(t, kind) == kind \in Requests /\ t \in Handlers /\ th[t] = Idle /\ phase = "serving"
Begin(t, e, pc) == th' = [th EXCEPT ![t] = Begun(e, pc)]
Reply(e, result) == reply' = [e |-> e, result |-> result]

(* admitV4: the exact ticket of a ready endpoint gets its receipt again. *)
Assign(t, e) ==
    /\ Request(t, "assign")
    /\ LET ready == Cached(db[e]) /\ db[e].receipt = "ready"
       IN  \/ ready /\ Reply(e, "idempotent") /\ UNCHANGED th
           \/ ~ready /\ Begin(t, e, "reserve") /\ Silent
    /\ UNCHANGED <<store, engine, lock, phase, budget>>

(* Mutant: a nonce may be used again. *)
AdmitReserveAgain(t) ==
    /\ At(t, "reserve")
    /\ UpdateRow(t, [Row(t) EXCEPT !.nonce = TRUE]) /\ Goto(t, "save") /\ Silent
    /\ UNCHANGED <<mem, engine, lock, phase, budget>>

(* ReserveReplay: the assignment nonce is used once. *)
AdmitReserve(t) ==
    /\ At(t, "reserve")
    /\ \/ Row(t).nonce /\ Answer(t, "error") /\ UNCHANGED db
       \/ /\ ~Row(t).nonce /\ UpdateRow(t, [Row(t) EXCEPT !.nonce = TRUE])
          /\ Goto(t, "save") /\ Silent
    /\ UNCHANGED <<mem, engine, lock, phase, budget>>

AdmitSave(t) ==
    /\ At(t, "save")
    /\ UpdateRow(t, SaveAssignmentRow(Row(t)))
    /\ \/ Deactivated(Row(t)) /\ Answer(t, "error")
       \/ ~Deactivated(Row(t)) /\ Goto(t, "own") /\ Silent
    /\ UNCHANGED <<mem, engine, lock, phase, budget>>

(* The manifest is fetched; cleanup ownership starts before the engine can *)
(* create anything.                                                        *)
Own(t) ==
    /\ At(t, "own") /\ Goto(t, "put")
    /\ UpdateMem(t, [Mem(t) EXCEPT !.instance = TRUE, !.url = FALSE, !.creating = TRUE])
    /\ Silent /\ UNCHANGED <<db, engine, lock, phase, budget>>

Fails(t, ret) == th' = [th EXCEPT ![t].pc = "cleanup", ![t].ret = ret]

PutFirst(t) ==
    /\ At(t, "put")
    /\ \/ Deactivated(Row(t)) /\ Fails(t, "failed") /\ UNCHANGED db
       \/ ~Deactivated(Row(t)) /\ UpdateRow(t, PutEndpoint(Row(t), FALSE)) /\ Goto(t, "mkdir")
    /\ Silent /\ UNCHANGED <<mem, engine, lock, phase, budget>>

-----------------------------------------------------------------------------
(* Launch: layout, image marker, load, run.  Load to run hold imageLock.    *)

Artifact(t) == ArtifactOf[th[t].e]

Materialize(t) ==
    /\ At(t, "mkdir")
    /\ \/ dir[th[t].e] # "none" /\ Fails(t, "failed") /\ UNCHANGED dir
       \/ /\ dir[th[t].e] = "none" /\ dir' = [dir EXCEPT ![th[t].e] = "layout"]
          /\ Goto(t, "mark")
    /\ Silent /\ UNCHANGED <<store, container, image, launches, lock, phase, budget>>

(* The marker is written into the layout; a concurrent stop removes both. *)
WriteMarker(t) ==
    /\ At(t, "mark")
    /\ \/ dir[th[t].e] = "none" /\ Fails(t, "failed") /\ UNCHANGED dir
       \/ /\ dir[th[t].e] # "none" /\ dir' = [dir EXCEPT ![th[t].e] = "marked"]
          /\ Goto(t, "load")
    /\ Silent /\ UNCHANGED <<store, container, image, launches, lock, phase, budget>>

LoadStart(t) ==
    /\ At(t, "load") /\ lock[Artifact(t)] = Nobody
    /\ \/ dir[th[t].e] = "none" /\ Fails(t, "failed") /\ UNCHANGED lock
       \/ /\ dir[th[t].e] # "none" /\ lock' = [lock EXCEPT ![Artifact(t)] = t]
          /\ Goto(t, "loading")
    /\ Silent /\ UNCHANGED <<store, engine, phase, budget>>

LoadDone(t) ==
    /\ At(t, "loading") /\ Goto(t, "run")
    /\ image' = [image EXCEPT ![Artifact(t)] = TRUE]
    /\ Silent /\ UNCHANGED <<store, container, dir, launches, lock, phase, budget>>

Unlocked(t) == [a \in Artifacts |-> IF lock[a] = t THEN Nobody ELSE lock[a]]

Launched(t) ==
    /\ container' = [container EXCEPT ![th[t].e] = TRUE]
    /\ launches' = [launches EXCEPT ![th[t].e] = @ + 1]

Run(t) ==
    /\ At(t, "run") /\ lock' = Unlocked(t)
    /\ \/ image[Artifact(t)] /\ ~container[th[t].e] /\ Launched(t) /\ Goto(t, "started")
       \/ ~(image[Artifact(t)] /\ ~container[th[t].e]) /\ Fails(t, "failed") /\ UNCHANGED <<container, launches>>
    /\ Silent /\ UNCHANGED <<store, dir, image, phase, budget>>

Started(t) ==
    /\ At(t, "started") /\ Goto(t, "put_url")
    /\ UpdateMem(t, [Mem(t) EXCEPT !.url = TRUE, !.ticket = TRUE])
    /\ Silent /\ UNCHANGED <<db, engine, lock, phase, budget>>

PutSecond(t) ==
    /\ At(t, "put_url")
    /\ \/ Deactivated(Row(t)) /\ Fails(t, "failed") /\ UNCHANGED db
       \/ ~Deactivated(Row(t)) /\ UpdateRow(t, PutEndpoint(Row(t), TRUE)) /\ Goto(t, "health")
    /\ Silent /\ UNCHANGED <<mem, engine, lock, phase, budget>>

(* StartupHealth passes only against a running container. *)
Health(t) ==
    /\ At(t, "health")
    /\ \/ container[th[t].e] /\ Goto(t, "save_ready")
       \/ ~container[th[t].e] /\ Fails(t, "failed")
    /\ Silent /\ UNCHANGED <<store, engine, lock, phase, budget>>

SaveReady(t) ==
    /\ At(t, "save_ready") /\ Goto(t, "finish")
    /\ UpdateRow(t, SaveReceipt(Row(t), "ready"))
    /\ Silent /\ UNCHANGED <<mem, engine, lock, phase, budget>>

(* Mutant: a deactivation requested meanwhile is not noticed. *)
FinishUnchecked(t) ==
    /\ At(t, "finish") /\ Answer(t, "ready")
    /\ UpdateMem(t, [Mem(t) EXCEPT !.creating = FALSE])
    /\ UNCHANGED <<db, engine, lock, phase, budget>>

Finish(t) ==
    /\ At(t, "finish")
    /\ UpdateMem(t, [Mem(t) EXCEPT !.creating = FALSE])
    /\ \/ Mem(t).requested /\ Fails(t, "failed") /\ Silent
       \/ ~Mem(t).requested /\ Answer(t, "ready")
    /\ UNCHANGED <<db, engine, lock, phase, budget>>

(* cleanupEndpoint, then the failed receipt. *)
Cleanup(t) ==
    /\ At(t, "cleanup") /\ Goto(t, "deactivate")
    /\ UpdateMem(t, [Mem(t) EXCEPT !.creating = FALSE, !.requested = TRUE])
    /\ Silent /\ UNCHANGED <<db, engine, lock, phase, budget>>

SaveFailed(t) ==
    /\ At(t, "save_failed") /\ Answer(t, "failed")
    /\ UpdateRow(t, SaveReceipt(Row(t), "failed"))
    /\ UNCHANGED <<mem, engine, lock, phase, budget>>

-----------------------------------------------------------------------------
(* Deactivation. *)

(* The handler: without an assignment only the fence is recorded. *)
DeactivateRequest(t, e) ==
    /\ Request(t, "deactivate")
    /\ Begin(t, e, IF db[e].status = "absent" THEN "fence_request" ELSE "deactivate")
    /\ Silent /\ UNCHANGED <<store, engine, lock, phase, budget>>

Deactivate(t) ==
    /\ At(t, "deactivate") /\ Goto(t, "lookup")
    /\ UpdateMem(t, [Mem(t) EXCEPT !.requested = TRUE])
    /\ Silent /\ UNCHANGED <<db, engine, lock, phase, budget>>

(* The ticket and the incarnation row. *)
Lookup(t) ==
    /\ At(t, "lookup")
    /\ th' = [th EXCEPT ![t].url = Row(t).inc.url,
                        ![t].pc = IF ~Row(t).inc.present THEN "plan"
                                  ELSE IF Row(t).inc.active THEN "adopt" ELSE "refence"]
    /\ Silent /\ UNCHANGED <<store, engine, lock, phase, budget>>

Plan(t) ==
    /\ At(t, "plan") /\ Goto(t, "adopt")
    /\ UpdateRow(t, PutCleanupEndpoint(Row(t)))
    /\ Silent /\ UNCHANGED <<mem, engine, lock, phase, budget>>

(* A completed deactivation only reasserts its fence. *)
Refence(t) ==
    /\ At(t, "refence") /\ UpdateRow(t, FenceEndpointDeactivation(Row(t)))
    /\ Returns(t, TRUE)
    /\ UNCHANGED <<mem, engine, lock, budget>>

Adopted(t) == IF Mem(t).instance THEN Mem(t) ELSE [Mem(t) EXCEPT !.instance = TRUE, !.url = th[t].url]

Adopt(t) ==
    /\ At(t, "adopt") /\ th' = [th EXCEPT ![t].pc = "fence", ![t].url = FALSE]
    /\ UpdateMem(t, Adopted(t))
    /\ Silent /\ UNCHANGED <<db, engine, lock, phase, budget>>

Fence(t) ==
    /\ At(t, "fence") /\ Goto(t, "decide")
    /\ UpdateRow(t, FenceEndpointDeactivation(Row(t)))
    /\ Silent /\ UNCHANGED <<mem, engine, lock, phase, budget>>

(* The runtime identity, and whether it is still being created. *)
Decide(t) ==
    /\ At(t, "decide")
    /\ th' = [th EXCEPT ![t].creating = Mem(t).creating,
                        ![t].pc = IF Mem(t).instance THEN "marker" ELSE "complete"]
    /\ Silent /\ UNCHANGED <<store, engine, lock, phase, budget>>

(* FenceDeactivation: a deactivation that precedes its assignment. *)
FenceRequest(t) ==
    /\ At(t, "fence_request") /\ Goto(t, "fence_row")
    /\ UpdateMem(t, [Mem(t) EXCEPT !.requested = TRUE])
    /\ Silent /\ UNCHANGED <<db, engine, lock, phase, budget>>

FenceRow(t) ==
    /\ At(t, "fence_row") /\ Goto(t, "fence_lookup")
    /\ UpdateRow(t, FenceEndpointDeactivation(Row(t)))
    /\ Silent /\ UNCHANGED <<mem, engine, lock, phase, budget>>

FenceLookup(t) ==
    /\ At(t, "fence_lookup")
    /\ \/ ~Row(t).inc.present /\ Answer(t, "deactivated")
       \/ /\ Row(t).inc.present /\ Silent
          /\ th' = [th EXCEPT ![t].pc = "fence_adopt", ![t].url = Row(t).inc.url]
    /\ UNCHANGED <<store, engine, lock, phase, budget>>

FenceAdopt(t) ==
    /\ At(t, "fence_adopt")
    /\ UpdateMem(t, Adopted(t))
    /\ th' = [th EXCEPT ![t].creating = Mem(t).creating, ![t].pc = "marker", ![t].url = FALSE]
    /\ Silent /\ UNCHANGED <<db, engine, lock, phase, budget>>

-----------------------------------------------------------------------------
(* StopCleanup. *)

ReadImageMarker(t) ==
    /\ At(t, "marker")
    /\ th' = [th EXCEPT ![t].pc = "remove", ![t].marker = (dir[th[t].e] = "marked")]
    /\ Silent /\ UNCHANGED <<store, engine, lock, phase, budget>>

RemoveContainer(t) ==
    /\ At(t, "remove") /\ Goto(t, "release")
    /\ container' = [container EXCEPT ![th[t].e] = FALSE]
    /\ Silent /\ UNCHANGED <<store, dir, image, launches, lock, phase, budget>>

InUse(a) == \E e \in Endpoints : ArtifactOf[e] = a /\ container[e]

(* Under the artifact's lock: removed unless some container uses it. *)
ReleaseImage(t) ==
    /\ At(t, "release") /\ th' = [th EXCEPT ![t].pc = "rmdir", ![t].marker = FALSE]
    /\ th[t].marker => lock[Artifact(t)] = Nobody
    /\ image' = [image EXCEPT ![Artifact(t)] = @ /\ (th[t].marker => InUse(Artifact(t)))]
    /\ Silent /\ UNCHANGED <<store, container, dir, launches, lock, phase, budget>>

(* Mutant: the row is closed although the creator may still launch. *)
RemoveDirAndClose(t) ==
    /\ At(t, "rmdir") /\ dir' = [dir EXCEPT ![th[t].e] = "none"]
    /\ Goto(t, "complete") /\ Silent /\ UNCHANGED phase
    /\ UNCHANGED <<store, container, image, launches, lock, budget>>

(* A row whose creator has not finished stays open for the creator. *)
RemoveDir(t) ==
    /\ At(t, "rmdir") /\ dir' = [dir EXCEPT ![th[t].e] = "none"]
    /\ \/ th[t].creating /\ Returns(t, TRUE)
       \/ ~th[t].creating /\ Goto(t, "complete") /\ Silent /\ UNCHANGED phase
    /\ UNCHANGED <<store, container, image, launches, lock, budget>>

Complete(t) ==
    /\ At(t, "complete") /\ Goto(t, "forget")
    /\ UpdateRow(t, CompleteEndpointDeactivation(Row(t)))
    /\ Silent /\ UNCHANGED <<mem, engine, lock, phase, budget>>

Forget(t) ==
    /\ At(t, "forget") /\ Returns(t, TRUE)
    /\ UpdateMem(t, IF Mem(t).instance THEN [Mem(t) EXCEPT !.instance = FALSE, !.url = FALSE, !.ticket = FALSE]
                    ELSE Mem(t))
    /\ UNCHANGED <<db, engine, lock, budget>>

-----------------------------------------------------------------------------
(* Status: the assignment, then the cached receipt of an active endpoint. *)

StatusRequest(t, e) ==
    /\ Request(t, "status")
    /\ \/ /\ db[e].status = "absent" /\ UNCHANGED th
          /\ reply' = [e |-> e, result |-> "status", status |-> "absent", receipt |-> "none"]
       \/ /\ db[e].status # "absent" /\ Silent
          /\ th' = [th EXCEPT ![t] = [pc |-> "receipt", e |-> e, seen |-> db[e].status]]
    /\ UNCHANGED <<store, engine, lock, phase, budget>>

StatusReceipt(t) ==
    /\ At(t, "receipt") /\ th' = [th EXCEPT ![t] = Idle]
    /\ reply' = [e |-> th[t].e, result |-> "status", status |-> th[t].seen,
                 receipt |-> IF Cached(Row(t)) THEN Row(t).receipt ELSE "none"]
    /\ UNCHANGED <<store, engine, lock, phase, budget>>

-----------------------------------------------------------------------------
(* main: RecoverCleanup before serving and after the server stopped. *)

Recovering == [pc |-> "list", ret |-> "recover"]

Start ==
    /\ phase = "down" /\ phase' = "starting"
    /\ th' = [th EXCEPT ![Main] = Recovering]
    /\ Silent /\ UNCHANGED <<store, engine, lock, budget>>

(* A shutdown does not wait longer than its budget for running handlers. *)
Stop ==
    /\ phase = "serving" /\ phase' = "stopping"
    /\ restarts < MaxRestarts /\ restarts' = restarts + 1
    /\ th' = [th EXCEPT ![Main] = Recovering]
    /\ Silent /\ UNCHANGED <<store, engine, lock, fails, exits>>

(* ActiveEndpoints. *)
ListActive ==
    /\ At(Main, "list")
    /\ LET open == {e \in Endpoints : db[e].inc.active}
       IN  th' = [th EXCEPT ![Main] = Listed(open, {e \in open : db[e].inc.url}, FALSE)]
    /\ Silent /\ UNCHANGED <<store, engine, lock, phase, budget>>

(* The next endpoint of the list: its identity is restored, then retired. *)
RecoverNext(e) ==
    /\ At(Main, "next") /\ e \in th[Main].todo
    /\ th' = [th EXCEPT ![Main] = [pc |-> "deactivate", e |-> e, ret |-> "recover", url |-> FALSE, creating |-> FALSE,
                                   marker |-> FALSE, todo |-> th[Main].todo \ {e}, urls |-> th[Main].urls,
                                   pending |-> th[Main].pending]]
    /\ mem' = IF th[Main].pending THEN mem
              ELSE [mem EXCEPT ![e].instance = TRUE, ![e].url = e \in th[Main].urls]
    /\ Silent /\ UNCHANGED <<db, engine, lock, phase, budget>>

(* AssignmentsWithoutIncarnation. *)
ListPending ==
    /\ At(Main, "next") /\ th[Main].todo = {} /\ ~th[Main].pending
    /\ th' = [th EXCEPT ![Main] = Listed({e \in Endpoints : db[e].status # "absent" /\ ~db[e].inc.present}, {}, TRUE)]
    /\ Silent /\ UNCHANGED <<store, engine, lock, phase, budget>>

(* Mutant: the agent serves before it has recovered. *)
RecoveredEarly ==
    /\ At(Main, "next") /\ phase = "starting"
    /\ phase' = "serving" /\ th' = [th EXCEPT ![Main] = Idle]
    /\ Silent /\ UNCHANGED <<store, engine, lock, budget>>

Recovered ==
    /\ At(Main, "next") /\ th[Main].todo = {} /\ th[Main].pending /\ phase = "starting"
    /\ phase' = "serving" /\ th' = [th EXCEPT ![Main] = Idle]
    /\ Silent /\ UNCHANGED <<store, engine, lock, budget>>

Stopped ==
    /\ At(Main, "next") /\ th[Main].todo = {} /\ th[Main].pending /\ phase = "stopping"
    /\ ProcessEnds
    /\ Silent /\ UNCHANGED <<db, engine, budget>>

Crash ==
    /\ phase # "down" /\ restarts < MaxRestarts /\ restarts' = restarts + 1
    /\ ProcessEnds
    /\ Silent /\ UNCHANGED <<db, engine, fails, exits>>

(* A container exits; --rm removes it. *)
ContainerExit(e) ==
    /\ container[e] /\ exits < MaxExits /\ exits' = exits + 1
    /\ container' = [container EXCEPT ![e] = FALSE]
    /\ Silent /\ UNCHANGED <<store, dir, image, launches, lock, th, phase, fails, restarts>>

-----------------------------------------------------------------------------
(* Errors: a transaction or an engine command has no effect and returns an  *)
(* error, or the request's context ends.                                    *)

Error(t) == fails < MaxFails /\ fails' = fails + 1 /\ UNCHANGED <<restarts, exits>>

AssignFails(t) ==
    /\ Error(t)
    /\ \/ th[t].pc \in {"reserve", "save", "receipt"} /\ Answer(t, "error")
       \/ At(t, "own") /\ Goto(t, "save_failed") /\ Silent
       \/ At(t, "save_failed") /\ Answer(t, "failed")
       \/ th[t].pc \in {"put", "mkdir", "mark", "load", "loading", "run", "put_url", "health"}
          /\ Fails(t, "failed") /\ Silent
       \/ At(t, "save_ready") /\ Fails(t, "error") /\ Silent
    /\ lock' = Unlocked(t)
    /\ UNCHANGED <<store, engine, phase>>

(* docker run fails with the container created. *)
RunFails(t) ==
    /\ Error(t) /\ At(t, "run") /\ image[Artifact(t)] /\ ~container[th[t].e]
    /\ Launched(t) /\ Fails(t, "failed") /\ lock' = Unlocked(t)
    /\ Silent /\ UNCHANGED <<store, dir, image, phase>>

DeactivateFails(t) ==
    /\ Error(t)
    /\ th[t].pc \in {"lookup", "plan", "refence", "fence", "marker", "remove", "release", "rmdir", "complete"}
    /\ \/ Returns(t, FALSE) /\ UNCHANGED <<mem, lock>>
       \/ RecoverAborts(t)
    /\ UNCHANGED <<db, engine>>

FenceFails(t) ==
    /\ Error(t) /\ th[t].pc \in {"fence_row", "fence_lookup"}
    /\ Answer(t, "error")
    /\ UNCHANGED <<store, engine, lock, phase>>

ListFails ==
    /\ Error(Main) /\ th[Main].pc \in {"list", "next"} /\ ProcessEnds
    /\ Silent /\ UNCHANGED <<db, engine>>

-----------------------------------------------------------------------------
Creating(t) ==
    \/ AdmitReserve(t) \/ AdmitSave(t) \/ Own(t) \/ PutFirst(t)
    \/ Materialize(t) \/ WriteMarker(t) \/ LoadStart(t) \/ LoadDone(t) \/ Run(t)
    \/ Started(t) \/ PutSecond(t) \/ Health(t) \/ SaveReady(t) \/ Finish(t)
    \/ Cleanup(t) \/ SaveFailed(t)

Retiring(t) ==
    \/ Deactivate(t) \/ Lookup(t) \/ Plan(t) \/ Refence(t) \/ Adopt(t) \/ Fence(t) \/ Decide(t)
    \/ FenceRequest(t) \/ FenceRow(t) \/ FenceLookup(t) \/ FenceAdopt(t)
    \/ ReadImageMarker(t) \/ RemoveContainer(t) \/ ReleaseImage(t) \/ RemoveDir(t) \/ Complete(t) \/ Forget(t)

Step(t) == Creating(t) \/ Retiring(t) \/ StatusReceipt(t)
MainStep == ListActive \/ (\E e \in Endpoints : RecoverNext(e)) \/ ListPending \/ Recovered \/ Stopped

Next ==
    \/ \E t \in Handlers, e \in Endpoints : Assign(t, e) \/ DeactivateRequest(t, e) \/ StatusRequest(t, e)
    \/ \E t \in Threads : Step(t)
    \/ MainStep \/ Start \/ Stop \/ Crash
    \/ \E e \in Endpoints : ContainerExit(e)
    \/ \E t \in Threads : AssignFails(t) \/ RunFails(t) \/ DeactivateFails(t) \/ FenceFails(t)
    \/ ListFails

Spec == Init /\ [][Next]_vars

-----------------------------------------------------------------------------
(* Properties. *)

Works(t, e) == "e" \in DOMAIN th[t] /\ th[t].e = e
LockHeld(t) == th[t].pc \in {"loading", "run"}

(* Recoverable: a container or a state directory exists only while its      *)
(* incarnation row is active, so that RecoverCleanup finds it after any     *)
(* crash and no deactivation closes a row its creator can still fill.       *)
Recoverable ==
    \A e \in Endpoints : container[e] \/ dir[e] # "none" => db[e].inc.present /\ db[e].inc.active

(* ImageForRun: the lock of an artifact is held exactly by the thread       *)
(* between load and run, every error path of Launch gives it back, and      *)
(* before docker run the image reference is there, whatever the cleanups of *)
(* other endpoints of the same artifact do.                                 *)
ImageForRun ==
    /\ \A a \in Artifacts, t \in Threads : lock[a] = t <=> LockHeld(t) /\ Artifact(t) = a
    /\ \A t \in Threads : At(t, "run") => image[Artifact(t)]

CreatorPCs == {"save", "own", "put", "mkdir", "mark", "load", "loading", "run", "started", "put_url",
               "health", "save_ready", "finish"}

(* OneLaunch: a ticket is executed at most once, over all concurrent and    *)
(* repeated deliveries, crashes and restarts: it never has two creators and *)
(* never starts a second container.                                         *)
OneLaunch ==
    \A e \in Endpoints :
        /\ launches[e] <= 1
        /\ \A t, u \in {x \in Threads : Works(x, e) /\ th[x].pc \in CreatorPCs} : t = u

(* LaunchExclusive: a launch happens once, under its artifact's lock and    *)
(* with its image (admitV4, DockerOCIRuntime.Launch).                       *)
LaunchExclusive == OneLaunch /\ ImageForRun

(* RouteAgrees: the private route in memory agrees with the rows.  While    *)
(* the agent serves, a ready receipt that admitV4 would repeat belongs to   *)
(* an endpoint ProxyRuntime can route to; once the row is closed and no     *)
(* handler works on the endpoint, the route is gone.                        *)
RouteAgrees ==
    \A e \in Endpoints :
        /\ phase = "serving" /\ Cached(db[e]) /\ db[e].receipt = "ready" => mem[e].url /\ mem[e].ticket
        /\ db[e].inc.present /\ ~db[e].inc.active /\ (\A t \in Threads : ~Works(t, e))
           => ~(mem[e].url /\ mem[e].ticket)

(* ReadyWhileOpen: an answer "ready" is given only for an endpoint that is  *)
(* neither fenced nor deactivated and whose incarnation is active.          *)
ReadyWhileOpen ==
    [][reply'.result \in {"ready", "idempotent"} =>
         LET r == db'[reply'.e]
         IN  ~r.fence /\ r.status = "ready" /\ r.inc.active /\ r.inc.url]_vars

(* RetiredForGood: a fence stays, a deactivated assignment never gets       *)
(* another status, and a closed incarnation never becomes active again.     *)
RetiredForGood ==
    [][\A e \in Endpoints :
         /\ db[e].fence => db'[e].fence
         /\ db[e].status = "deactivated" => db'[e].status = "deactivated"
         /\ db[e].inc.present /\ ~db[e].inc.active => ~db'[e].inc.active]_vars

(* AckStops: without failed operations, a deactivation is acknowledged only *)
(* when the endpoint is fenced and its container is gone, or belongs to a   *)
(* creator that has not finished.                                           *)
AckStops ==
    [][\A e \in Endpoints :
         reply'.result = "deactivated" /\ reply'.e = e /\ fails = 0 =>
             db'[e].fence /\ (container'[e] => \E t \in Threads : Works(t, e)')]_vars

(* RetirementFinal: what was fenced or deactivated stays so, and neither a  *)
(* ready answer nor an acknowledgement contradicts it (SaveReceiptV4,       *)
(* FenceEndpointDeactivation, CompleteEndpointDeactivation).                *)
RetirementFinal == ReadyWhileOpen /\ RetiredForGood /\ AckStops

(* Retires: a fenced endpoint eventually has no container, no directory and *)
(* an inactive row or none, through crashes and restarts.                   *)
Retires ==
    \A e \in Endpoints :
        db[e].fence ~> ~container[e] /\ dir[e] = "none" /\ ~db[e].inc.active
=============================================================================
