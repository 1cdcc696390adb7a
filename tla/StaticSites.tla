---------------------------- MODULE StaticSites ----------------------------
(***************************************************************************)
(* Static sites of one miner agent (pkg/miner/static.go) over the static   *)
(* rows of the store (pkg/durable/static_v1.go) and the content-addressed  *)
(* cache of verified files (pkg/static/cache.go).                          *)
(*                                                                         *)
(* A handler is a thread; one step is one transaction, one section under   *)
(* Agent.mu or Cache.mu, or one section under the lock of a blob.  An      *)
(* endpoint identity stands for the exact ticket it is derived from, and   *)
(* its signer is the only caller.  The manifest of a ticket is fixed by    *)
(* the site digest, so its files are a constant.                           *)
(***************************************************************************)
EXTENDS Integers, FiniteSets, FiniteSetsExt

CONSTANTS
    Endpoints,    \* endpoint identities
    Blobs,        \* body digests
    BlobsOf,      \* [Endpoints -> SUBSET Blobs]: the distinct bodies of the site
    SizeOf,       \* [Blobs -> Nat]
    MaxBytes,     \* the cache quota
    Slots,        \* RequestConcurrency
    Handlers,     \* threads serving requests
    Main,         \* the thread of main
    MaxFails,     \* bound: operations that return an error
    MaxRestarts,  \* bound: crashes and shutdowns
    MaxRot        \* bound: cached bodies that change on disk

ASSUME StaticAssumption ==
    /\ BlobsOf \in [Endpoints -> SUBSET Blobs \ {{}}] /\ SizeOf \in [Blobs -> Nat]
    /\ Main \notin Handlers
    /\ {MaxBytes, Slots, MaxFails, MaxRestarts, MaxRot} \subseteq Nat

VARIABLES
    db,         \* nonce, static row and fence, per endpoint
    requested,  \* Agent.deactivationRequested
    served,     \* StaticSites.endpoints
    pin,        \* endpoints whose Site holds its references
    refs, occupancy,   \* of the cache
    file,       \* blobs on disk
    th, phase, reply,
    fails, restarts, rot

cache == <<pin, refs, occupancy, file>>
memory == <<requested, served>>
budget == <<fails, restarts, rot>>
vars == <<db, memory, cache, th, phase, reply, budget>>

Threads == Handlers \cup {Main}
NoRow == [nonce |-> FALSE, status |-> "absent", active |-> FALSE, receipt |-> "none", fence |-> FALSE]
Idle == [pc |-> "idle"]
NoReply == [result |-> "none"]
Bytes(bs) == SumFunctionOnSet(SizeOf, bs)

Init ==
    /\ db = [e \in Endpoints |-> NoRow]
    /\ requested = {} /\ served = {} /\ pin = {}
    /\ refs = [b \in Blobs |-> 0] /\ occupancy = 0 /\ file = [b \in Blobs |-> "none"]
    /\ th = [t \in Threads |-> Idle] /\ phase = "down" /\ reply = NoReply
    /\ fails = 0 /\ restarts = 0 /\ rot = 0

-----------------------------------------------------------------------------
(* Threads: e the endpoint, todo the blobs left to ensure or to remove, ret *)
(* what follows the release of a pin or a deactivation.                     *)

Thread(pc, e, todo, ret) == [pc |-> pc, e |-> e, todo |-> todo, ret |-> ret]
Listed(endpoints) == [pc |-> "next", list |-> endpoints]
At(t, pc) == th[t].pc = pc
Row(t) == db[th[t].e]
UpdateRow(t, r) == db' = [db EXCEPT ![th[t].e] = r]
Silent == reply' = NoReply
Goto(t, pc) == th' = [th EXCEPT ![t].pc = pc]
Answer(t, result) == th' = [th EXCEPT ![t] = Idle] /\ reply' = [e |-> th[t].e, result |-> result]

(* The process ends; the files of the cache and the rows stay. *)
ProcessEnds ==
    /\ phase' = "down" /\ th' = [t \in Threads |-> Idle]
    /\ requested' = {} /\ served' = {} /\ pin' = {}
    /\ refs' = [b \in Blobs |-> 0] /\ occupancy' = 0 /\ UNCHANGED file

-----------------------------------------------------------------------------
(* Transactions. *)

Deactivated(r) == r.fence \/ r.status = "deactivated"
SaveStaticAssignment(r) ==
    IF Deactivated(r) THEN [r EXCEPT !.status = "deactivated", !.active = FALSE]
    ELSE [r EXCEPT !.status = "processing"]

(* Mutant: a fence does not keep the row from being activated. *)
SaveStaticReceiptUnfenced(r, stage, activate) ==
    [r EXCEPT !.receipt = stage, !.active = activate,
              !.status = IF r.status = "deactivated" THEN @ ELSE stage]

SaveStaticReceipt(r, stage, activate) ==
    [r EXCEPT !.receipt = stage, !.active = activate /\ ~Deactivated(r),
              !.status = IF Deactivated(r) THEN "deactivated" ELSE stage]
CompleteStaticDeactivation(r) ==
    IF r.status = "absent" THEN r ELSE [r EXCEPT !.status = "deactivated", !.active = FALSE]
FenceEndpointDeactivation(r) == [r EXCEPT !.fence = TRUE]

-----------------------------------------------------------------------------
(* Assignment. *)

Request(t) == t \in Handlers /\ th[t] = Idle /\ phase = "serving"

(* admitStatic: a ready endpoint that is served gets its receipt again. *)
Assign(t, e) ==
    /\ Request(t)
    /\ LET ready == db[e].active /\ db[e].receipt = "ready" /\ e \in served
       IN  \/ ready /\ reply' = [e |-> e, result |-> "idempotent"] /\ UNCHANGED th
           \/ ~ready /\ th' = [th EXCEPT ![t] = Thread("reserve", e, {}, "none")] /\ Silent
    /\ UNCHANGED <<db, memory, cache, phase, budget>>

ReserveReplay(t) ==
    /\ At(t, "reserve")
    /\ \/ Row(t).nonce /\ Answer(t, "error") /\ UNCHANGED db
       \/ ~Row(t).nonce /\ UpdateRow(t, [Row(t) EXCEPT !.nonce = TRUE]) /\ Goto(t, "save") /\ Silent
    /\ UNCHANGED <<memory, cache, phase, budget>>

Admit(t) ==
    /\ At(t, "save") /\ UpdateRow(t, SaveStaticAssignment(Row(t)))
    /\ \/ Deactivated(Row(t)) /\ Answer(t, "error")
       \/ ~Deactivated(Row(t)) /\ Goto(t, "quota") /\ Silent
    /\ UNCHANGED <<memory, cache, phase, budget>>

Counted(e) == [b \in Blobs |-> IF b \in BlobsOf[e] THEN refs[b] + 1 ELSE refs[b]]
Added(e) == Bytes({b \in BlobsOf[e] : refs[b] = 0})

Fits(e) == occupancy + Added(e) <= MaxBytes

(* Cache.reserve. *)
ReserveQuota(t) ==
    /\ At(t, "quota") /\ Silent
    /\ \/ ~Fits(th[t].e) /\ Goto(t, "save_failed") /\ UNCHANGED cache
       \/ /\ Fits(th[t].e)
          /\ refs' = Counted(th[t].e) /\ occupancy' = occupancy + Added(th[t].e)
          /\ pin' = pin \cup {th[t].e} /\ UNCHANGED file
          /\ th' = [th EXCEPT ![t].pc = "ensure", ![t].todo = BlobsOf[th[t].e]]
    /\ UNCHANGED <<db, memory, phase, budget>>

Fail(t) == th' = [th EXCEPT ![t].pc = "release", ![t].todo = {}, ![t].ret = "failed"]

(* Cache.ensure, under the lock of the blob, by one of the workers. *)
Ensure(t, b) ==
    /\ At(t, "ensure") /\ b \in th[t].todo /\ Silent
    /\ \/ file[b] = "bad" /\ refs[b] > 1 /\ Fail(t) /\ UNCHANGED file
       \/ /\ file[b] = "bad" => refs[b] <= 1
          /\ file' = [file EXCEPT ![b] = "good"] /\ th' = [th EXCEPT ![t].todo = @ \ {b}]
    /\ UNCHANGED <<db, memory, pin, refs, occupancy, phase, budget>>

Pinned(t) ==
    /\ At(t, "ensure") /\ th[t].todo = {} /\ Goto(t, "save_ready")
    /\ Silent /\ UNCHANGED <<db, memory, cache, phase, budget>>

SaveReady(t) ==
    /\ At(t, "save_ready") /\ UpdateRow(t, SaveStaticReceipt(Row(t), "ready", TRUE)) /\ Silent
    /\ \/ Deactivated(Row(t)) /\ Fail(t)
       \/ ~Deactivated(Row(t)) /\ Goto(t, "install")
    /\ UNCHANGED <<memory, cache, phase, budget>>

(* Mutant: a deactivation requested meanwhile is not noticed. *)
InstallAlways(t) ==
    /\ At(t, "install") /\ served' = served \cup {th[t].e} /\ Answer(t, "ready")
    /\ UNCHANGED <<db, requested, cache, phase, budget>>

(* The site becomes servable unless a deactivation was requested. *)
Install(t) ==
    /\ At(t, "install")
    /\ \/ /\ th[t].e \in requested /\ Silent /\ UNCHANGED served
          /\ th' = [th EXCEPT ![t].pc = "release", ![t].ret = "complete"]
       \/ th[t].e \notin requested /\ served' = served \cup {th[t].e} /\ Answer(t, "ready")
    /\ UNCHANGED <<db, requested, cache, phase, budget>>

CompleteFailed(t) ==
    /\ At(t, "complete") /\ UpdateRow(t, CompleteStaticDeactivation(Row(t))) /\ Goto(t, "save_failed")
    /\ Silent /\ UNCHANGED <<memory, cache, phase, budget>>

SaveFailed(t) ==
    /\ At(t, "save_failed") /\ UpdateRow(t, SaveStaticReceipt(Row(t), "failed", FALSE))
    /\ Answer(t, "failed")
    /\ UNCHANGED <<memory, cache, phase, budget>>

-----------------------------------------------------------------------------
(* Site.Release: the references under Cache.mu, then every blob that lost   *)
(* its last one under its lock, if nobody has referenced it again.          *)

Uncounted(e) == [b \in Blobs |-> IF b \in BlobsOf[e] THEN refs[b] - 1 ELSE refs[b]]
LastRefs(e) == {b \in BlobsOf[e] : refs[b] <= 1}

Release(t) ==
    /\ At(t, "release") /\ Silent
    /\ refs' = Uncounted(th[t].e) /\ occupancy' = occupancy - Bytes(LastRefs(th[t].e))
    /\ pin' = pin \ {th[t].e}
    /\ th' = [th EXCEPT ![t].pc = "sweep", ![t].todo = LastRefs(th[t].e)]
    /\ UNCHANGED <<db, memory, file, phase, budget>>

(* Mutant: the blob is removed although it was referenced again. *)
RemoveBlobAnyway(t, b) ==
    /\ At(t, "sweep") /\ b \in th[t].todo
    /\ file' = [file EXCEPT ![b] = "none"]
    /\ th' = [th EXCEPT ![t].todo = @ \ {b}]
    /\ Silent /\ UNCHANGED <<db, memory, pin, refs, occupancy, phase, budget>>

RemoveBlob(t, b) ==
    /\ At(t, "sweep") /\ b \in th[t].todo
    /\ file' = [file EXCEPT ![b] = IF refs[b] > 0 THEN @ ELSE "none"]
    /\ th' = [th EXCEPT ![t].todo = @ \ {b}]
    /\ Silent /\ UNCHANGED <<db, memory, pin, refs, occupancy, phase, budget>>

Released(t) ==
    /\ At(t, "sweep") /\ th[t].todo = {}
    /\ \/ th[t].ret = "failed" /\ Goto(t, "save_failed") /\ Silent
       \/ th[t].ret = "complete" /\ Goto(t, "complete") /\ Silent
       \/ th[t].ret \in {"deactivate", "recover"} /\ Goto(t, "retired") /\ Silent
       \/ th[t].ret = "serve" /\ Answer(t, "mismatch")
    /\ UNCHANGED <<db, memory, cache, phase, budget>>

-----------------------------------------------------------------------------
(* Deactivation. *)

(* The handler looks for a static row; without one it records a fence. *)
DeactivateRequest(t, e) ==
    /\ Request(t)
    /\ th' = [th EXCEPT ![t] = Thread(IF db[e].status = "absent" THEN "fence_request" ELSE "request",
                                      e, {}, "deactivate")]
    /\ Silent /\ UNCHANGED <<db, memory, cache, phase, budget>>

Requested(t) ==
    /\ At(t, "request") /\ requested' = requested \cup {th[t].e} /\ Goto(t, "fence")
    /\ Silent /\ UNCHANGED <<db, served, cache, phase, budget>>

Fence(t) ==
    /\ At(t, "fence") /\ UpdateRow(t, FenceEndpointDeactivation(Row(t))) /\ Goto(t, "remove")
    /\ Silent /\ UNCHANGED <<memory, cache, phase, budget>>

(* StaticSites.remove. *)
RemoveSite(t) ==
    /\ At(t, "remove") /\ served' = served \ {th[t].e}
    /\ Goto(t, IF th[t].e \in served THEN "release" ELSE "retired")
    /\ Silent /\ UNCHANGED <<db, requested, cache, phase, budget>>

Retired(t) ==
    /\ At(t, "retired") /\ UpdateRow(t, CompleteStaticDeactivation(Row(t)))
    /\ \/ th[t].ret = "deactivate" /\ Answer(t, "deactivated")
       \/ th[t].ret = "recover" /\ th' = [th EXCEPT ![t] = Listed(th[t].list)] /\ Silent
    /\ UNCHANGED <<memory, cache, phase, budget>>

(* FenceDeactivation: there is no organic incarnation of a static endpoint. *)
FenceRequested(t) ==
    /\ At(t, "fence_request") /\ requested' = requested \cup {th[t].e} /\ Goto(t, "fence_only")
    /\ Silent /\ UNCHANGED <<db, served, cache, phase, budget>>

FenceOnly(t) ==
    /\ At(t, "fence_only") /\ UpdateRow(t, FenceEndpointDeactivation(Row(t))) /\ Answer(t, "fenced")
    /\ UNCHANGED <<memory, cache, phase, budget>>

-----------------------------------------------------------------------------
(* serveStatic: the entry, one of its slots, and the body, which is hashed  *)
(* while it is sent.                                                        *)

Serving(e) == {t \in Threads : th[t].pc = "serve" /\ th[t].e = e}

Serve(t, e) ==
    /\ Request(t) /\ e \in served
    /\ \/ /\ Cardinality(Serving(e)) < Slots /\ Silent
          /\ th' = [th EXCEPT ![t] = Thread("serve", e, {}, "serve")]
       \/ /\ Cardinality(Serving(e)) >= Slots
          /\ reply' = [e |-> e, result |-> "unavailable"] /\ UNCHANGED th
    /\ UNCHANGED <<db, memory, cache, phase, budget>>

(* A body that does not match, or is gone, ends the serving of the site. *)
ServeBody(t, b) ==
    /\ At(t, "serve") /\ b \in BlobsOf[th[t].e]
    /\ \/ file[b] = "good" /\ Answer(t, "ok") /\ UNCHANGED served
       \/ /\ file[b] # "good" /\ served' = served \ {th[t].e}
          /\ \/ th[t].e \in served /\ Goto(t, "release") /\ Silent
             \/ th[t].e \notin served /\ Answer(t, "mismatch")
    /\ UNCHANGED <<db, requested, cache, phase, budget>>

-----------------------------------------------------------------------------
(* main: OpenCache sweeps the directory, recoverStatic retires every row.   *)

Start ==
    /\ phase = "down" /\ phase' = "starting"
    /\ file' = [b \in Blobs |-> "none"]
    /\ th' = [th EXCEPT ![Main] = [pc |-> "list"]]
    /\ Silent /\ UNCHANGED <<db, memory, pin, refs, occupancy, budget>>

Stop ==
    /\ phase = "serving" /\ phase' = "stopping"
    /\ restarts < MaxRestarts /\ restarts' = restarts + 1
    /\ th' = [th EXCEPT ![Main] = [pc |-> "list"]]
    /\ Silent /\ UNCHANGED <<db, memory, cache, fails, rot>>

StaticAssignmentsToRecover ==
    {e \in Endpoints : db[e].active \/ db[e].status \notin {"absent", "deactivated"}}

ListStatic ==
    /\ At(Main, "list") /\ th' = [th EXCEPT ![Main] = Listed(StaticAssignmentsToRecover)]
    /\ Silent /\ UNCHANGED <<db, memory, cache, phase, budget>>

RecoverNext(e) ==
    /\ At(Main, "next") /\ e \in th[Main].list
    /\ th' = [th EXCEPT ![Main] = [pc |-> "request", e |-> e, todo |-> {}, ret |-> "recover",
                                   list |-> th[Main].list \ {e}]]
    /\ Silent /\ UNCHANGED <<db, memory, cache, phase, budget>>

Recovered ==
    /\ At(Main, "next") /\ th[Main].list = {} /\ Silent
    /\ \/ /\ phase = "starting" /\ phase' = "serving" /\ th' = [th EXCEPT ![Main] = Idle]
          /\ UNCHANGED <<memory, cache>>
       \/ phase = "stopping" /\ ProcessEnds
    /\ UNCHANGED <<db, budget>>

Crash ==
    /\ phase # "down" /\ restarts < MaxRestarts /\ restarts' = restarts + 1
    /\ ProcessEnds
    /\ Silent /\ UNCHANGED <<db, fails, rot>>

(* A cached body changes on disk. *)
Rot(b) ==
    /\ file[b] = "good" /\ rot < MaxRot /\ rot' = rot + 1
    /\ file' = [file EXCEPT ![b] = "bad"]
    /\ Silent /\ UNCHANGED <<db, memory, pin, refs, occupancy, th, phase, fails, restarts>>

-----------------------------------------------------------------------------
(* Errors: the operation has no effect and returns an error. *)

Error == fails < MaxFails /\ fails' = fails + 1 /\ UNCHANGED <<restarts, rot>>

AssignFails(t) ==
    /\ Error
    /\ \/ th[t].pc \in {"reserve", "save"} /\ Answer(t, "error")
       \/ At(t, "quota") /\ Goto(t, "save_failed") /\ Silent
       \/ At(t, "save_ready") /\ Fail(t) /\ Silent
       \/ At(t, "complete") /\ Goto(t, "save_failed") /\ Silent
       \/ At(t, "save_failed") /\ Answer(t, "failed")
    /\ UNCHANGED <<db, memory, cache, phase>>

(* A fetch fails; a body that did not match is already gone. *)
EnsureFails(t, b) ==
    /\ Error /\ At(t, "ensure") /\ b \in th[t].todo /\ Fail(t)
    /\ file' = [file EXCEPT ![b] = IF @ = "bad" /\ refs[b] <= 1 THEN "none" ELSE @]
    /\ Silent /\ UNCHANGED <<db, memory, pin, refs, occupancy, phase>>

DeactivateFails(t) ==
    /\ Error /\ th[t].pc \in {"fence", "retired", "fence_only"}
    /\ \/ th[t].ret = "deactivate" /\ Answer(t, "error") /\ UNCHANGED <<memory, cache, phase>>
       \/ th[t].ret = "recover" /\ ProcessEnds /\ Silent
    /\ UNCHANGED db

ListFails == Error /\ At(Main, "list") /\ ProcessEnds /\ Silent /\ UNCHANGED db

-----------------------------------------------------------------------------
Creating(t) ==
    \/ ReserveReplay(t) \/ Admit(t) \/ ReserveQuota(t) \/ (\E b \in Blobs : Ensure(t, b)) \/ Pinned(t)
    \/ SaveReady(t) \/ Install(t) \/ CompleteFailed(t) \/ SaveFailed(t)
    \/ Release(t) \/ (\E b \in Blobs : RemoveBlob(t, b)) \/ Released(t)

Retiring(t) ==
    Requested(t) \/ Fence(t) \/ RemoveSite(t) \/ Retired(t) \/ FenceRequested(t) \/ FenceOnly(t)

Step(t) == Creating(t) \/ Retiring(t) \/ \E b \in Blobs : ServeBody(t, b)
MainStep == ListStatic \/ (\E e \in Endpoints : RecoverNext(e)) \/ Recovered

Next ==
    \/ \E t \in Handlers, e \in Endpoints : Assign(t, e) \/ DeactivateRequest(t, e) \/ Serve(t, e)
    \/ \E t \in Threads : Step(t)
    \/ MainStep \/ Start \/ Stop \/ Crash
    \/ \E b \in Blobs : Rot(b)
    \/ \E t \in Threads : AssignFails(t) \/ (\E b \in Blobs : EnsureFails(t, b)) \/ DeactivateFails(t)
    \/ ListFails

Spec == Init /\ [][Next]_vars

-----------------------------------------------------------------------------
(* Properties. *)

Works(t, e) == "e" \in DOMAIN th[t] /\ th[t].e = e

(* QuotaHolds: the occupancy is that of the referenced blobs                *)
(* (Cache.Occupancy), and concurrent pins never take it over the quota.     *)
QuotaHolds == occupancy = Bytes({b \in Blobs : refs[b] > 0}) /\ occupancy <= MaxBytes

(* BytesKept: a site that is served has all its files on disk, whatever the *)
(* pins, failures and releases of other sites with the same files do.       *)
BytesKept == \A e \in served, b \in Blobs : b \in BlobsOf[e] => file[b] # "none"

(* NothingLeft: when no handler is at work, the pinned sites are the served *)
(* ones, each blob has one reference per site, and a blob without reference *)
(* is not on disk: no failure, cancellation or race leaks a pin or a file.  *)
NothingLeft ==
    (\A t \in Threads : th[t] = Idle) /\ phase = "serving" =>
        /\ pin = served
        /\ \A b \in Blobs : /\ refs[b] = Cardinality({e \in served : b \in BlobsOf[e]})
                              /\ refs[b] = 0 => file[b] = "none"

(* CacheAccounted: over all races for shared files and for the quota, the   *)
(* cache holds what the served sites need, leaks nothing and counts right   *)
(* (Cache.Pin, Site.Release).                                               *)
CacheAccounted == BytesKept /\ NothingLeft /\ QuotaHolds

(* ServedIsReady: a site is servable only while its row is active with a    *)
(* persisted ready receipt and its pin holds.                               *)
ServedIsReady ==
    \A e \in served : db[e].active /\ db[e].receipt = "ready" /\ e \in pin

(* RetiredOnAck: a deactivation that found the static row is acknowledged   *)
(* only when the site is fenced, not served and not active; no later step   *)
(* makes it active again.                                                   *)
RetiredOnAck ==
    [][\A e \in Endpoints :
         /\ reply'.result = "deactivated" /\ reply'.e = e => db'[e].fence /\ e \notin served' /\ ~db'[e].active
         /\ db[e].status = "deactivated" /\ ~db[e].active => ~db'[e].active]_vars

(* RestartRetires: a restarted agent serves requests only after every row   *)
(* an earlier process left was deactivated.                                 *)
RestartRetires ==
    [][phase = "starting" /\ phase' = "serving" =>
         \A e \in Endpoints : db[e].status \in {"absent", "deactivated"} /\ ~db[e].active]_vars

(* RetiredStays: retirement is final, for late receipts of the creator as   *)
(* for a restart (SaveStaticReceipt, StaticAssignmentsToRecover).           *)
RetiredStays == RetiredOnAck /\ RestartRetires

(* AckedInactive: "Active is true only between a persisted ready receipt    *)
(* and deactivation": when any deactivation is acknowledged, and no handler *)
(* works on the endpoint, it is not active and not served.                  *)
AckedInactive ==
    [][\A e \in Endpoints :
         /\ reply'.result \in {"deactivated", "fenced"} /\ reply'.e = e
         /\ \A t \in Threads : ~Works(t, e)'
         => ~db'[e].active /\ e \notin served']_vars
=============================================================================
