---------------------------- MODULE SandboxLease ----------------------------
(***************************************************************************)
(* The miner's sandbox-lease-v1 lane: pkg/miner/sandbox.go over the        *)
(* durable holds, leases and release fences of pkg/durable/sandbox_v1.go.  *)
(*                                                                         *)
(* An identity stands for (sandbox_id, generation, miner) together with    *)
(* its one exact reservation, lease and numbered renewals.  A document     *)
(* that conflicts with the recorded one, is not bound to this miner or     *)
(* fails its signature is answered with an error and changes nothing, so   *)
(* it has no action.  The database has one connection: a transaction is    *)
(* one step.  A handler reads the clock when it starts and decides with    *)
(* that reading when its transaction runs, at most MaxLag ticks later.     *)
(*                                                                         *)
(* A lease lock is held across steps only by a commit and by the start it  *)
(* launches; a teardown takes the lock, destroys and releases in one step. *)
(***************************************************************************)
EXTENDS Integers, Sequences, Functions

CONSTANTS
    Ids,         \* identities
    Size,        \* [Ids -> Nat]: requested resources, one component
    Budget,      \* the lane's budget in that component
    HoldExpires, \* [Ids -> Nat]: hold_expires_at of the reservation
    Expires,     \* [Ids -> Seq(Nat)]: lease_expires_at of the lease (1) and its renewals
    Grace,       \* sandbox.Grace
    Requests,    \* concurrent HTTP handlers
    MaxTime,     \* bound: the last clock reading
    MaxLag,      \* bound: ticks between a handler's clock reading and its transaction
    MaxStops     \* bound: crashes and orderly shutdowns

ASSUME ConstantsAssumption ==
    /\ Size \in [Ids -> Nat]
    /\ HoldExpires \in [Ids -> Nat]
    /\ Expires \in [Ids -> Seq(Nat)]
    /\ \A i \in Ids : Expires[i] # <<>>
    /\ {Budget, Grace, MaxTime, MaxLag, MaxStops} \subseteq Nat

VARIABLES
    clock,
    lane,    \* the agent process: "down", "serving", "closing" or "stopped"
    stops,   \* process ends so far
    hold,    \* sandbox_holds.status per identity
    lease,   \* sandbox_leases row per identity: status, cleanup_status, renewal_seq
    fences,  \* sandbox_release_fences
    inst,    \* identities with a sandbox in the backend
    busy,    \* identities whose lease lock is held across steps
    starts,  \* background start per identity
    req,     \* handler per request slot
    sweep,   \* what the running sweep has still to visit
    acked    \* identities whose release receipt was signed

vars == <<clock, lane, stops, hold, lease, fences, inst, busy, starts, req, sweep, acked>>

-----------------------------------------------------------------------------
Live == {"pending", "running", "cleanup"}
Terminal == {"failed", "released", "expired"}

NoLease == [status |-> "none", intent |-> "none", seq |-> 0]
NoRequest == [pc |-> "idle"]
NoSweep == [records |-> {}, instances |-> {}]

LeaseExpiry(i) == Expires[i][lease[i].seq + 1]
LiveIds == {i \in Ids : lease[i].status \in Live}

(* Capacity consumed at t: unexpired holds and every lease whose runtime   *)
(* may still exist.                                                        *)
Occupancy(t) ==
    SumFunctionOnSet(Size, {i \in Ids : hold[i] = "held" /\ HoldExpires[i] > t})
    + SumFunctionOnSet(Size, LiveIds)

Init ==
    /\ clock = 0 /\ lane = "down" /\ stops = 0
    /\ hold = [i \in Ids |-> "none"]
    /\ lease = [i \in Ids |-> NoLease]
    /\ fences = {} /\ acked = {}
    /\ inst \in SUBSET Ids      \* sandboxes of a store that was lost
    /\ busy = {} /\ starts = [i \in Ids |-> "none"]
    /\ req = [r \in Requests |-> NoRequest]
    /\ sweep = NoSweep

-----------------------------------------------------------------------------
(* Durable operations on one lease row. *)

(* A lease already in cleanup keeps its first intent. *)
BeginCleanup(row, intent) ==
    IF row.status \in {"pending", "running"}
    THEN [row EXCEPT !.status = "cleanup", !.intent = intent] ELSE row

CompleteCleanup(row) ==
    IF row.status = "cleanup" THEN [row EXCEPT !.status = row.intent] ELSE row

(* Mutant: the row is closed although the backend kept the sandbox. *)
TeardownUnchecked(i) ==
    {[inst |-> I, row |-> CompleteCleanup(lease[i])] : I \in {inst, inst \ {i}}}

(* teardown: what backend.Destroy and the closing write can leave.  The row *)
(* is closed only after Destroy returned without error.                     *)
Teardown(i) ==
    {[inst |-> I, row |-> lease[i]] : I \in {inst, inst \ {i}}}
    \cup {[inst |-> inst \ {i}, row |-> CompleteCleanup(lease[i])]}

ExpireHolds == [i \in Ids |-> IF hold[i] = "held" /\ HoldExpires[i] <= clock
                              THEN "expired" ELSE hold[i]]

(* Mutant: only leases that started are swept. *)
SweptRunning(i) ==
    IF lease[i].status = "running" /\ LeaseExpiry(i) + Grace <= clock
    THEN BeginCleanup(lease[i], "expired") ELSE lease[i]

(* SandboxLeases.Sweep on one row: past expiry plus grace. *)
Swept(i) ==
    IF lease[i].status \in {"pending", "running"} /\ LeaseExpiry(i) + Grace <= clock
    THEN BeginCleanup(lease[i], "expired") ELSE lease[i]

-----------------------------------------------------------------------------
(* Requests. *)

Free(r) == req' = [req EXCEPT ![r] = NoRequest]

(* A verified document: the handler reads the clock. *)
Arrive(r, kind, i, n) ==
    /\ lane = "serving" /\ req[r].pc = "idle"
    /\ CASE kind = "reserve" -> clock < HoldExpires[i]
         [] kind \in {"commit", "renew"} -> clock < Expires[i][n + 1]
         [] kind = "release" -> TRUE
    /\ req' = [req EXCEPT ![r] = [pc |-> kind, id |-> i, n |-> n, now |-> clock]]
    /\ UNCHANGED <<clock, lane, stops, hold, lease, fences, inst, busy, starts, sweep, acked>>

(* Cancellation, a database error or a disconnect before the transaction,  *)
(* an answer from the durable row while another caller owns the lease, or   *)
(* ErrSandboxCleanupPending when a release finds the lease busy.            *)
Abandon(r) ==
    /\ req[r].pc # "idle"
    /\ busy' = IF req[r].pc = "locked" THEN busy \ {req[r].id} ELSE busy
    /\ Free(r)
    /\ UNCHANGED <<clock, lane, stops, hold, lease, fences, inst, starts, sweep, acked>>

(* Mutant: holds are granted without looking at the leases. *)
AdmitsCountingHolds(i, t) ==
    SumFunctionOnSet(Size, {j \in Ids : hold[j] = "held" /\ HoldExpires[j] > t}) + Size[i] <= Budget

Admits(i, t) == t < HoldExpires[i] /\ Occupancy(t) + Size[i] <= Budget

(* SandboxLeases.Hold: a replay, a fenced identity and a full budget write  *)
(* nothing.  (A replay was admitted before its own hold_expires_at, so the  *)
(* branch that expires the hold is never taken.)                            *)
Hold(r) ==
    LET i == req[r].id  t == req[r].now IN
    /\ req[r].pc = "reserve"
    /\ hold' = IF i \notin fences /\ hold[i] = "none" /\ Admits(i, t)
               THEN [hold EXCEPT ![i] = "held"] ELSE hold
    /\ Free(r)
    /\ UNCHANGED <<clock, lane, stops, lease, fences, inst, busy, starts, sweep, acked>>

(* Commit up to its lock, which it waits for; it looked at the closing of   *)
(* the lane before, so it may get here after it.                            *)
CommitLock(r) ==
    /\ req[r].pc = "commit" /\ req[r].id \notin busy
    /\ busy' = busy \cup {req[r].id}
    /\ req' = [req EXCEPT ![r].pc = "locked"]
    /\ UNCHANGED <<clock, lane, stops, hold, lease, fences, inst, starts, sweep, acked>>

(* Mutant: a commit does not look for a release fence. *)
CommitsUnfenced(i, t) ==
    hold[i] \in {"held", "released"} /\ t < HoldExpires[i] /\ t < Expires[i][1]

(* The hold is live and the lease may commit it. *)
Commits(i, t) ==
    i \notin fences /\ hold[i] = "held" /\ t < HoldExpires[i] /\ t < Expires[i][1]

(* SandboxLeases.CommitLease under the lease lock, then the background     *)
(* start, which takes the lock over unless the lane closed meanwhile.      *)
CommitLease(r) ==
    LET i == req[r].id
        t == req[r].now
        fresh == lease[i].status = "none"
        first == fresh /\ Commits(i, t)
        launch == (first \/ lease[i].status = "pending") /\ lane = "serving" IN
    /\ req[r].pc = "locked"
    /\ hold' = CASE first -> [hold EXCEPT ![i] = "committed"]
                 [] fresh /\ i \notin fences /\ hold[i] = "held" /\ t >= HoldExpires[i]
                      -> [hold EXCEPT ![i] = "expired"]
                 [] OTHER -> hold
    /\ lease' = IF first THEN [lease EXCEPT ![i].status = "pending"] ELSE lease
    /\ starts' = IF launch THEN [starts EXCEPT ![i] = "create"] ELSE starts
    /\ busy' = IF launch THEN busy ELSE busy \ {i}
    /\ Free(r)
    /\ UNCHANGED <<clock, lane, stops, fences, inst, sweep, acked>>

Renews(i, n, t) ==
    /\ lease[i].status \in {"pending", "running"}
    /\ n > lease[i].seq
    /\ t < LeaseExpiry(i) /\ Expires[i][n + 1] > LeaseExpiry(i)

(* SandboxLeases.renew, decided at the handler's clock reading, or inside  *)
(* the transaction when sandbox-ops is enabled.                            *)
Renew(r) ==
    LET i == req[r].id IN
    /\ req[r].pc = "renew"
    /\ \E t \in {req[r].now, clock} :
         lease' = IF Renews(i, req[r].n, t) THEN [lease EXCEPT ![i].seq = req[r].n] ELSE lease
    /\ Free(r)
    /\ UNCHANGED <<clock, lane, stops, hold, fences, inst, busy, starts, sweep, acked>>

(* A released receipt needs every sandbox of the identity destroyed. *)
Acknowledges(i) == lease'[i].status \notin Live

(* Release: the fence transaction, ... *)
ReleaseFence(r) ==
    LET i == req[r].id IN
    /\ req[r].pc = "release"
    /\ fences' = fences \cup {i}
    /\ hold' = [hold EXCEPT ![i] = IF @ = "held" THEN "released" ELSE @]
    /\ lease' = [lease EXCEPT ![i] = BeginCleanup(@, "released")]
    /\ acked' = IF Acknowledges(i) THEN acked \cup {i} ELSE acked
    /\ IF lease'[i].status = "cleanup"
       THEN req' = [req EXCEPT ![r].pc = "destroy"] ELSE Free(r)
    /\ UNCHANGED <<clock, lane, stops, inst, busy, starts, sweep>>

(* ... then the teardown, if nobody else works on the lease. *)
ReleaseDestroy(r) ==
    LET i == req[r].id IN
    /\ req[r].pc = "destroy" /\ i \notin busy
    /\ \E out \in Teardown(i) :
         /\ inst' = out.inst /\ lease' = [lease EXCEPT ![i] = out.row]
         /\ acked' = IF Acknowledges(i) THEN acked \cup {i} ELSE acked
    /\ Free(r)
    /\ UNCHANGED <<clock, lane, stops, hold, fences, busy, starts, sweep>>

-----------------------------------------------------------------------------
(* The background start of a pending lease, under its lock. *)

EndStart(i) == starts' = [starts EXCEPT ![i] = "none"] /\ busy' = busy \ {i}

(* backend.Create succeeds, fails with or without leaving a sandbox, or is  *)
(* refused; at shutdown it may be cancelled, which is not a failed start.   *)
StartCreate(i) ==
    /\ starts[i] = "create"
    /\ \/ /\ inst' = inst \cup {i}
          /\ starts' = [starts EXCEPT ![i] = "created"] /\ UNCHANGED busy
       \/ /\ inst' \in {inst, inst \cup {i}}
          /\ starts' = [starts EXCEPT ![i] = "failed"] /\ UNCHANGED busy
       \/ /\ lane \in {"closing", "stopped"}
          /\ inst' \in {inst, inst \cup {i}}
          /\ EndStart(i)
    /\ UNCHANGED <<clock, lane, stops, hold, lease, fences, req, sweep, acked>>

(* MarkLeaseRunning: promote a live pending lease, fence an expired one. *)
Promote(i) ==
    IF lease[i].status = "pending" /\ LeaseExpiry(i) > clock
    THEN [lease[i] EXCEPT !.status = "running"]
    ELSE IF lease[i].status = "pending" THEN BeginCleanup(lease[i], "expired") ELSE lease[i]

StartMark(i) ==
    /\ starts[i] = "created"
    /\ \/ /\ lease' = [lease EXCEPT ![i] = Promote(i)]
          /\ IF lease'[i].status = "running"
             THEN EndStart(i)
             ELSE starts' = [starts EXCEPT ![i] = "teardown"] /\ UNCHANGED busy
       \/ /\ starts' = [starts EXCEPT ![i] = "failed"]     \* the write failed
          /\ UNCHANGED <<lease, busy>>
    /\ UNCHANGED <<clock, lane, stops, hold, fences, inst, req, sweep, acked>>

StartFail(i) ==
    /\ starts[i] = "failed"
    /\ \/ /\ lease' = [lease EXCEPT ![i] = BeginCleanup(@, "failed")]
          /\ starts' = [starts EXCEPT ![i] = "teardown"] /\ UNCHANGED busy
       \/ EndStart(i) /\ UNCHANGED lease                   \* the write failed
    /\ UNCHANGED <<clock, lane, stops, hold, fences, inst, req, sweep, acked>>

StartTeardown(i) ==
    /\ starts[i] = "teardown"
    /\ \E out \in Teardown(i) : inst' = out.inst /\ lease' = [lease EXCEPT ![i] = out.row]
    /\ EndStart(i)
    /\ UNCHANGED <<clock, lane, stops, hold, fences, req, sweep, acked>>

-----------------------------------------------------------------------------
(* Sweep, restart recovery and shutdown. *)

SweepBegin ==
    /\ lane = "serving" /\ sweep = NoSweep
    /\ hold' = ExpireHolds
    /\ lease' = [i \in Ids |-> Swept(i)]
    /\ sweep' = [records |-> {i \in Ids : lease'[i].status = "cleanup"}, instances |-> inst]
    /\ UNCHANGED <<clock, lane, stops, fences, inst, busy, starts, req, acked>>

(* destroyAll on one record of the transaction; a busy one is skipped. *)
SweepRecord(i) ==
    /\ i \in sweep.records
    /\ sweep' = [sweep EXCEPT !.records = @ \ {i}]
    /\ IF i \in busy THEN UNCHANGED <<inst, lease>>
       ELSE \E out \in Teardown(i) : inst' = out.inst /\ lease' = [lease EXCEPT ![i] = out.row]
    /\ UNCHANGED <<clock, lane, stops, hold, fences, busy, starts, req, acked>>

(* An instance of the listing is an orphan when, under its lock, its lease *)
(* is unknown or terminal.                                                 *)
Orphan(i) == i \notin busy /\ lease[i].status \notin Live

SweepInstance(i) ==
    /\ sweep.records = {} /\ i \in sweep.instances
    /\ sweep' = [sweep EXCEPT !.instances = @ \ {i}]
    /\ inst' \in IF Orphan(i) THEN {inst, inst \ {i}} ELSE {inst}
    /\ UNCHANGED <<clock, lane, stops, hold, lease, fences, busy, starts, req, acked>>

(* SandboxLane.Recover: every lease that may have a runtime is failed, its *)
(* sandbox and every orphan destroyed; kept is what failed to be destroyed *)
(* or recorded, or what another caller works on.                           *)
Recover(kept) ==
    LET row(i) == BeginCleanup(Swept(i), "failed") IN
    /\ hold' = ExpireHolds
    /\ lease' = [i \in Ids |-> IF i \in kept THEN row(i) ELSE CompleteCleanup(row(i))]
    /\ \E gone \in SUBSET (kept \ busy) : inst' = (inst \cap kept) \ gone

(* Startup: the agent serves only after a Recover without error. *)
Start ==
    /\ lane = "down"
    /\ \E kept \in SUBSET Ids :
         /\ Recover(kept)
         /\ lane' = IF kept = {} THEN "serving" ELSE "down"
    /\ UNCHANGED <<clock, stops, fences, busy, starts, req, sweep, acked>>

(* SIGTERM closes the lane: no commit, release or sweep begins. *)
Close ==
    /\ lane = "serving" /\ stops < MaxStops
    /\ lane' = "closing" /\ stops' = stops + 1
    /\ UNCHANGED <<clock, hold, lease, fences, inst, busy, starts, req, sweep, acked>>

(* The shutdown Recover runs once the tracked work has drained, or with    *)
(* what is left of it when the stop budget ends.                           *)
ShutdownRecover ==
    /\ lane = "closing"
    /\ \E kept \in SUBSET Ids : busy \subseteq kept /\ Recover(kept)
    /\ lane' = "stopped"
    /\ UNCHANGED <<clock, stops, fences, busy, starts, req, sweep, acked>>

(* The end of the process leaves the sandboxes; a create in flight may      *)
(* have made its own.                                                       *)
ProcessGone ==
    /\ lane' = "down"
    /\ \E made \in SUBSET {i \in Ids : starts[i] = "create"} : inst' = inst \cup made
    /\ busy' = {} /\ starts' = [i \in Ids |-> "none"]
    /\ req' = [r \in Requests |-> NoRequest] /\ sweep' = NoSweep

Exit ==
    /\ lane = "stopped"
    /\ ProcessGone
    /\ UNCHANGED <<clock, stops, hold, lease, fences, acked>>

Crash ==
    /\ lane \in {"serving", "closing"} /\ stops < MaxStops
    /\ stops' = stops + 1
    /\ ProcessGone
    /\ UNCHANGED <<clock, hold, lease, fences, acked>>

Tick ==
    /\ clock < MaxTime
    /\ \A r \in Requests : req[r].pc # "idle" => clock + 1 <= req[r].now + MaxLag
    /\ clock' = clock + 1
    /\ UNCHANGED <<lane, stops, hold, lease, fences, inst, busy, starts, req, sweep, acked>>

-----------------------------------------------------------------------------
Handle(r) == \/ Hold(r) \/ CommitLock(r) \/ CommitLease(r) \/ Renew(r)
             \/ ReleaseFence(r) \/ ReleaseDestroy(r) \/ Abandon(r)

StartStep(i) == StartCreate(i) \/ StartMark(i) \/ StartFail(i) \/ StartTeardown(i)

Next ==
    \/ \E r \in Requests, i \in Ids :
         \/ \E kind \in {"reserve", "commit", "release"} : Arrive(r, kind, i, 0)
         \/ \E n \in 1..(Len(Expires[i]) - 1) : Arrive(r, "renew", i, n)
    \/ \E r \in Requests : Handle(r)
    \/ \E i \in Ids : StartStep(i) \/ SweepRecord(i) \/ SweepInstance(i)
    \/ SweepBegin \/ Start \/ Close \/ ShutdownRecover \/ Exit \/ Crash \/ Tick

Spec == Init /\ [][Next]_vars

-----------------------------------------------------------------------------
(* Unexpired holds and leases whose runtime may exist never exceed the     *)
(* budget that Hold checks, whatever commits, renewals, crashes and failed *)
(* destroys come in between (Hold, CommitLease, sandboxOccupancyTx).       *)
WithinBudget == Occupancy(clock) <= Budget

(* While the agent runs, every sandbox of the backend belongs to a lease   *)
(* that still consumes capacity: none outlives its row, is made for a      *)
(* closed one, or survives a restart (teardown, start, Recover).           *)
RuntimeAccounted == lane # "down" => inst \subseteq LiveIds

(* A lease that answers ready has its sandbox: no sweep, orphan sweep,     *)
(* release or replayed commit destroys it first (destroyOrphans, start).   *)
RunningHasRuntime == \A i \in Ids : lease[i].status = "running" => i \in inst

(* Sandboxes and the rows that pay for them agree, in both directions.     *)
RuntimeMatches == RuntimeAccounted /\ RunningHasRuntime

(* A release fence beats every earlier or later document of its identity,  *)
(* replays and requests in flight included: it holds no capacity, and its  *)
(* lease never becomes live again (Release, Hold, CommitLease).            *)
FenceWins ==
    \A i \in fences : hold[i] # "held" /\ lease[i].status \notin {"pending", "running"}

(* A signed released receipt is final: the identity has no sandbox and     *)
(* consumes no capacity from then on (Release, destroyAll).                *)
ReleaseAckFinal == \A i \in acked : i \notin inst /\ lease[i].status \notin Live

(* A row that is old in this state may become new. *)
MovesForward(i, old, new) ==
    /\ old.status \in Terminal => new = old
    /\ old.status = "cleanup" => new.intent = old.intent /\ new.status \in {"cleanup", old.intent}
    /\ new.seq # old.seq => Expires[i][new.seq + 1] > Expires[i][old.seq + 1]
    /\ old.status = "running" /\ new.status # "running" /\ new.intent = "expired"
         => clock >= Expires[i][old.seq + 1] + Grace

(* A lease row only moves forward: a terminal answer is never revised, a   *)
(* cleanup ends in its first intent, renewals only extend, and a running   *)
(* lease expires no sooner than Grace after its latest accepted expiry     *)
(* (BeginLeaseCleanup, CompleteLeaseCleanup, renew, Sweep).                *)
LeaseForward == [][\A i \in Ids : MovesForward(i, lease[i], lease'[i])]_vars

(* What ended stays ended: a release wins over documents in flight, its    *)
(* receipt is final, and no row is revived (Release, Commit, Sweep).       *)
EndsAreFinal == [](FenceWins /\ ReleaseAckFinal) /\ LeaseForward

(* A validator that disappears cannot pin capacity: every lease ends, also *)
(* across crashes, failed starts and failed destroys (Sweep, Recover).     *)
CapacityFreed == \A i \in Ids : lease[i].status \in Live ~> lease[i].status \notin Live

=============================================================================
