------------------------- MODULE SandboxLeaseProofs -------------------------
(***************************************************************************)
(* The lease lane keeps sandboxes and rows in agreement and never revives  *)
(* what ended, for any identities, sizes, expiries, number of concurrent   *)
(* requests, budget and number of restarts.                                *)
(***************************************************************************)
EXTENDS SandboxLease, TLAPS

Open == {"pending", "running"}
LeaseRow == [status : {"none"} \cup Live \cup Terminal, intent : {"none"} \cup Terminal, seq : Nat]
RequestState ==
    {NoRequest} \cup
    [pc : {"reserve", "commit", "locked", "renew", "release", "destroy"}, id : Ids, n : Nat, now : Nat]

TypeInv ==
    /\ clock \in Nat
    /\ lane \in {"down", "serving", "closing", "stopped"}
    /\ hold \in [Ids -> {"none", "held", "committed", "expired", "released"}]
    /\ lease \in [Ids -> LeaseRow]
    /\ \A i \in Ids : /\ lease[i].seq < Len(Expires[i])
                      /\ lease[i].status = "cleanup" => lease[i].intent \in Terminal
    /\ fences \subseteq Ids /\ inst \subseteq Ids /\ busy \subseteq Ids /\ acked \subseteq fences
    /\ starts \in [Ids -> {"none", "create", "created", "failed", "teardown"}]
    /\ req \in [Requests -> RequestState]
    /\ \A r \in Requests : req[r].pc = "renew" => req[r].n < Len(Expires[req[r].id])
    /\ sweep \in [records : SUBSET Ids, instances : SUBSET Ids]

(* The lease lock: a background start holds it and its row pays for what it  *)
(* may create; a commit past its lock is alone; nothing survives the process. *)
LockInv ==
    /\ \A i \in Ids : starts[i] # "none" => i \in busy /\ lease[i].status \in Live
    /\ \A r \in Requests :
         req[r].pc = "locked" => req[r].id \in busy /\ starts[req[r].id] = "none"
    /\ \A r, s \in Requests :
         req[r].pc = "locked" /\ req[s].pc = "locked" /\ req[r].id = req[s].id => r = s
    /\ lane = "down" => busy = {} /\ \A r \in Requests : req[r] = NoRequest

(* Whoever is about to destroy a sandbox does so for a row that is over. *)
Over == {"cleanup"} \cup Terminal
DestroyInv ==
    /\ \A i \in Ids : starts[i] = "created" => i \in inst
    /\ \A i \in Ids : starts[i] = "teardown" => lease[i].status \in Over
    /\ \A r \in Requests :
         req[r].pc = "destroy" => lease[req[r].id].status \in Over /\ req[r].id \in fences
    /\ \A i \in sweep.records : lease[i].status \in Over

LeaseInv == TypeInv /\ LockInv /\ DestroyInv /\ RuntimeMatches /\ FenceWins /\ ReleaseAckFinal

-----------------------------------------------------------------------------
(* What the operations on a row return. *)

LEMMA RequestFields ==
    ASSUME TypeInv, NEW r \in Requests, req[r].pc # "idle"
    PROVE  req[r] \in [pc : {"reserve", "commit", "locked", "renew", "release", "destroy"},
                       id : Ids, n : Nat, now : Nat]
    BY DEF TypeInv, RequestState, NoRequest

LEMMA BeginCleanupRow ==
    ASSUME NEW row \in LeaseRow, NEW it \in Terminal
    PROVE  LET new == BeginCleanup(row, it) IN
           /\ new \in LeaseRow /\ new.seq = row.seq
           /\ row.status \in Open => new.status = "cleanup" /\ new.intent = it
           /\ row.status \notin Open => new = row
    BY Zenon DEF BeginCleanup, LeaseRow, Open, Live, Terminal

LEMMA CompleteCleanupRow ==
    ASSUME NEW row \in LeaseRow, row.status = "cleanup" => row.intent \in Terminal
    PROVE  LET new == CompleteCleanup(row) IN
           /\ new \in LeaseRow /\ new.seq = row.seq /\ new.intent = row.intent
           /\ row.status = "cleanup" => new.status = row.intent
           /\ row.status # "cleanup" => new = row
    BY DEF CompleteCleanup, LeaseRow, Live, Terminal

(* One step of a row towards its end. *)
Ending(old, new) ==
    \/ new = old
    \/ /\ old.status \in Open /\ new \in LeaseRow /\ new.seq = old.seq
       /\ new.status = "cleanup" /\ new.intent \in Terminal

LEMMA BeginCleanupEnds ==
    ASSUME NEW row \in LeaseRow, NEW it \in Terminal
    PROVE  Ending(row, BeginCleanup(row, it)) /\ BeginCleanup(row, it).status \notin Open
    BY BeginCleanupRow DEF Ending, Open

LEMMA SweptEnds ==
    ASSUME TypeInv, NEW i \in Ids
    PROVE  Ending(lease[i], Swept(i))
    BY BeginCleanupEnds DEF TypeInv, Swept, Ending, Terminal

LEMMA RenewedRow ==
    ASSUME NEW row \in LeaseRow, NEW n \in Nat
    PROVE  LET new == [row EXCEPT !.seq = n] IN
           new \in LeaseRow /\ new.status = row.status /\ new.intent = row.intent /\ new.seq = n
    BY DEF LeaseRow

(* What the other invariants see of a step in which rows only end. *)
RowsEnd ==
    /\ lease' \in [Ids -> LeaseRow]
    /\ \A j \in Ids :
         /\ lease'[j].seq = lease[j].seq
         /\ lease'[j].status = "cleanup" => lease'[j].intent \in Terminal
         /\ lease'[j].status \in Live <=> lease[j].status \in Live
         /\ lease'[j].status \in Open => lease'[j].status = lease[j].status
         /\ lease[j].status \in Over => lease'[j] = lease[j]

LEMMA EndingRows ==
    ASSUME TypeInv, lease' = [j \in Ids |-> lease'[j]],
           \A j \in Ids : Ending(lease[j], lease'[j])
    PROVE  RowsEnd
  <1>1. ASSUME NEW j \in Ids
        PROVE  lease[j] \in LeaseRow /\ (lease[j].status = "cleanup" => lease[j].intent \in Terminal)
    BY DEF TypeInv
  <1>2. ASSUME NEW j \in Ids
        PROVE  /\ lease'[j] \in LeaseRow
               /\ lease'[j].seq = lease[j].seq
               /\ lease'[j].status = "cleanup" => lease'[j].intent \in Terminal
               /\ lease'[j].status \in Live <=> lease[j].status \in Live
               /\ lease'[j].status \in Open => lease'[j].status = lease[j].status
               /\ lease[j].status \in Over => lease'[j] = lease[j]
    BY <1>1 DEF Ending, Live, Terminal, Open, Over
  <1> QED BY <1>2 DEF RowsEnd

LEMMA RequestIds ==
    ASSUME TypeInv
    PROVE  \A s \in Requests : req[s].pc # "idle" => req[s].id \in Ids
    BY RequestFields

LEMMA FreeRequest ==
    ASSUME TypeInv, NEW r \in Requests, Free(r)
    PROVE  /\ req' \in [Requests -> RequestState]
           /\ \A s \in Requests : req'[s] = IF s = r THEN NoRequest ELSE req[s]
    BY DEF TypeInv, RequestState, Free

TeardownResult(i) ==
    /\ lease' \in [Ids -> LeaseRow] /\ inst' \subseteq Ids
    /\ \A j \in Ids : /\ lease'[j].seq = lease[j].seq /\ lease'[j].intent = lease[j].intent
                      /\ j # i => lease'[j] = lease[j] /\ (j \in inst' <=> j \in inst)
    /\ lease'[i].status \in Over /\ (i \in inst' => i \in inst)
    /\ lease'[i].status = "cleanup" => lease[i].status = "cleanup"
    /\ lease'[i] = lease[i] \/ i \notin inst'

LEMMA TeardownRow ==
    ASSUME LeaseInv, NEW i \in Ids, lease[i].status \in Over, NEW out \in Teardown(i),
           inst' = out.inst, lease' = [lease EXCEPT ![i] = out.row]
    PROVE  TeardownResult(i)
  <1>1. lease[i] \in LeaseRow /\ (lease[i].status = "cleanup" => lease[i].intent \in Terminal)
    BY DEF LeaseInv, TypeInv
  <1> DEFINE new == CompleteCleanup(lease[i])
  <1>2. /\ new \in LeaseRow /\ new.seq = lease[i].seq /\ new.intent = lease[i].intent
        /\ lease[i].status = "cleanup" => new.status \in Terminal
        /\ lease[i].status # "cleanup" => new = lease[i]
    BY <1>1, CompleteCleanupRow
  <1> HIDE DEF new
  <1>3. /\ out.inst = inst \/ out.inst = inst \ {i}
        /\ out.row = lease[i] \/ (out.row = new /\ out.inst = inst \ {i})
    BY DEF Teardown, new
  <1> QED
    BY <1>1, <1>2, <1>3 DEF LeaseInv, TypeInv, Over, Terminal, TeardownResult

(* A step that takes no lock and starts nothing keeps the lock discipline. *)
LEMMA LockFrame ==
    ASSUME LeaseInv, UNCHANGED <<lane, busy, starts>>,
           \A s \in Requests : \/ req'[s] \in {req[s], NoRequest}
                               \/ req'[s].pc # "locked" /\ lane # "down",
           \A j \in Ids : starts[j] # "none" => lease'[j].status \in Live
    PROVE  LockInv'
  <1>1. \A s \in Requests : req'[s].pc = "locked" => req'[s] = req[s]
    BY DEF NoRequest
  <1> QED
    BY <1>1 DEF LeaseInv, LockInv

(* A row that is over stays over for those about to destroy its sandbox. *)
LEMMA DestroyFrame ==
    ASSUME LeaseInv, fences \subseteq fences', sweep'.records \subseteq sweep.records,
           \A s \in Requests : req'[s] \in {req[s], NoRequest},
           \A j \in Ids : lease[j].status \in Over => lease'[j].status \in Over,
           \A j \in Ids : /\ starts'[j] = "created" => j \in inst'
                          /\ starts'[j] = "teardown" => lease'[j].status \in Over
    PROVE  DestroyInv'
  <1>1. \A s \in Requests :
          req'[s].pc = "destroy" => lease'[req'[s].id].status \in Over /\ req'[s].id \in fences'
    <2>1. \A s \in Requests : req'[s].pc = "destroy" => req'[s] = req[s]
      BY DEF NoRequest
    <2> QED BY <2>1, RequestIds DEF LeaseInv, DestroyInv
  <1>2. \A j \in sweep'.records : lease'[j].status \in Over
    BY DEF LeaseInv, TypeInv, DestroyInv
  <1> QED
    BY <1>1, <1>2 DEF DestroyInv

-----------------------------------------------------------------------------
(* Requests. *)

LEMMA ArriveInv ==
    ASSUME LeaseInv, NEW r \in Requests, NEW i \in Ids,
           NEW kind \in {"reserve", "commit", "release", "renew"},
           NEW n \in Nat, kind = "renew" => n \in 1..(Len(Expires[i]) - 1), Arrive(r, kind, i, n)
    PROVE  LeaseInv'
  <1>1. /\ req' = [req EXCEPT ![r] = [pc |-> kind, id |-> i, n |-> n, now |-> clock]]
        /\ lane = "serving" /\ req[r].pc = "idle"
        /\ UNCHANGED <<clock, lane, stops, hold, lease, fences, inst, busy, starts, sweep, acked>>
    BY DEF Arrive
  <1>2. TypeInv'
    <2>1. req' \in [Requests -> RequestState]
      BY <1>1 DEF LeaseInv, TypeInv, RequestState
    <2>2. kind = "renew" => n < Len(Expires[i])
      BY ConstantsAssumption
    <2>3. ASSUME NEW s \in Requests, req'[s].pc = "renew"
          PROVE  req'[s].n < Len(Expires[req'[s].id])
      BY <1>1, <2>2, <2>3 DEF LeaseInv, TypeInv
    <2> QED
      BY <1>1, <2>1, <2>3 DEF LeaseInv, TypeInv
  <1>3. LockInv'
    BY <1>1 DEF LeaseInv, TypeInv, LockInv
  <1>4. DestroyInv'
    BY <1>1 DEF LeaseInv, TypeInv, DestroyInv, Over
  <1>5. RuntimeMatches' /\ FenceWins' /\ ReleaseAckFinal'
    BY <1>1
    DEF LeaseInv, RuntimeMatches, RuntimeAccounted, RunningHasRuntime, LiveIds, FenceWins,
        ReleaseAckFinal
  <1> QED BY <1>2, <1>3, <1>4, <1>5 DEF LeaseInv

LEMMA AbandonInv ==
    ASSUME LeaseInv, NEW r \in Requests, Abandon(r)
    PROVE  LeaseInv'
  <1>1. /\ req[r].pc # "idle" /\ req' = [req EXCEPT ![r] = NoRequest]
        /\ busy' = IF req[r].pc = "locked" THEN busy \ {req[r].id} ELSE busy
        /\ UNCHANGED <<clock, lane, stops, hold, lease, fences, inst, starts, sweep, acked>>
    BY DEF Abandon, Free
  <1>2. TypeInv'
    BY <1>1 DEF LeaseInv, TypeInv, RequestState, NoRequest
  <1>3. LockInv'
    BY <1>1 DEF LeaseInv, TypeInv, LockInv, NoRequest
  <1>4. DestroyInv'
    BY <1>1 DEF LeaseInv, TypeInv, DestroyInv, Over, NoRequest
  <1>5. RuntimeMatches' /\ FenceWins' /\ ReleaseAckFinal'
    BY <1>1
    DEF LeaseInv, RuntimeMatches, RuntimeAccounted, RunningHasRuntime, LiveIds, FenceWins,
        ReleaseAckFinal
  <1> QED BY <1>2, <1>3, <1>4, <1>5 DEF LeaseInv

LEMMA HoldInv ==
    ASSUME LeaseInv, NEW r \in Requests, Hold(r)
    PROVE  LeaseInv'
  <1>1. /\ req' \in [Requests -> RequestState]
        /\ \A s \in Requests : req'[s] = IF s = r THEN NoRequest ELSE req[s]
        /\ UNCHANGED <<clock, lane, stops, lease, fences, inst, busy, starts, sweep, acked>>
        /\ hold' = hold \/ (req[r].id \notin fences /\ hold' = [hold EXCEPT ![req[r].id] = "held"])
    BY FreeRequest DEF LeaseInv, Hold
  <1>2. TypeInv'
    BY <1>1 DEF LeaseInv, TypeInv, NoRequest
  <1>3. LockInv'
    BY <1>1 DEF LeaseInv, TypeInv, LockInv, NoRequest
  <1>4. DestroyInv'
    BY <1>1 DEF LeaseInv, TypeInv, DestroyInv, Over, NoRequest
  <1>5. RuntimeMatches' /\ FenceWins' /\ ReleaseAckFinal'
    BY <1>1
    DEF LeaseInv, TypeInv, RuntimeMatches, RuntimeAccounted, RunningHasRuntime, LiveIds,
        FenceWins, ReleaseAckFinal
  <1> QED BY <1>2, <1>3, <1>4, <1>5 DEF LeaseInv

LEMMA CommitLockInv ==
    ASSUME LeaseInv, NEW r \in Requests, CommitLock(r)
    PROVE  LeaseInv'
  <1>1. /\ req[r] \in [pc : {"commit"}, id : Ids, n : Nat, now : Nat]
        /\ req[r].id \notin busy
        /\ busy' = busy \cup {req[r].id}
        /\ req' = [req EXCEPT ![r].pc = "locked"]
        /\ UNCHANGED <<clock, lane, stops, hold, lease, fences, inst, starts, sweep, acked>>
    BY RequestFields DEF LeaseInv, CommitLock
  <1>a. /\ req' \in [Requests -> RequestState]
        /\ req'[r].pc = "locked" /\ req'[r].id = req[r].id
        /\ \A s \in Requests : s # r => req'[s] = req[s]
    BY <1>1 DEF LeaseInv, TypeInv, RequestState
  <1>2. TypeInv'
    BY <1>1, <1>a DEF LeaseInv, TypeInv, NoRequest
  <1>3. LockInv'
    BY <1>1, <1>a DEF LeaseInv, TypeInv, LockInv, NoRequest
  <1>4. DestroyInv'
    BY <1>1, <1>a DEF LeaseInv, TypeInv, DestroyInv, Over, NoRequest
  <1>5. RuntimeMatches' /\ FenceWins' /\ ReleaseAckFinal'
    BY <1>1
    DEF LeaseInv, TypeInv, RuntimeMatches, RuntimeAccounted, RunningHasRuntime, LiveIds,
        FenceWins, ReleaseAckFinal
  <1> QED BY <1>2, <1>3, <1>4, <1>5 DEF LeaseInv

LEMMA CommitLeaseInv ==
    ASSUME LeaseInv, NEW r \in Requests, CommitLease(r)
    PROVE  LeaseInv'
  <1>1. PICK i \in Ids : i = req[r].id
    BY RequestFields DEF LeaseInv, CommitLease
  <1>a. /\ req' \in [Requests -> RequestState]
        /\ \A s \in Requests : req'[s] = IF s = r THEN NoRequest ELSE req[s]
        /\ i \in busy /\ starts[i] = "none" /\ req[r].pc = "locked" /\ lane # "down"
        /\ UNCHANGED <<clock, lane, stops, fences, inst, sweep, acked>>
    BY <1>1, FreeRequest DEF LeaseInv, CommitLease, LockInv
  <1>b. /\ hold' \in [Ids -> {"none", "held", "committed", "expired", "released"}]
        /\ \A j \in Ids : hold'[j] = hold[j] \/ hold'[j] \in {"committed", "expired"}
    BY <1>1 DEF LeaseInv, TypeInv, CommitLease
  <1>c. /\ lease' \in [Ids -> LeaseRow]
        /\ \A j \in Ids : \/ lease'[j] = lease[j]
                          \/ /\ j = i /\ i \notin fences /\ lease[i].status = "none"
                             /\ lease'[i].status = "pending" /\ lease'[i].seq = lease[i].seq
    BY <1>1 DEF LeaseInv, TypeInv, CommitLease, Commits, LeaseRow, Live
  <1>d. \/ starts' = starts /\ busy' = busy \ {i}
        \/ starts' = [starts EXCEPT ![i] = "create"] /\ busy' = busy /\ lease'[i].status = "pending"
    BY <1>1 DEF LeaseInv, TypeInv, CommitLease, LeaseRow
  <1>2. TypeInv'
    <2>1. /\ starts' \in [Ids -> {"none", "create", "created", "failed", "teardown"}]
          /\ busy' \subseteq Ids
      BY <1>d DEF LeaseInv, TypeInv
    <2>2. \A s \in Requests : req'[s].pc = "renew" => req'[s].n < Len(Expires[req'[s].id])
      BY <1>a DEF LeaseInv, TypeInv, NoRequest
    <2>3. \A j \in Ids : /\ lease'[j].seq < Len(Expires[j])
                         /\ lease'[j].status = "cleanup" => lease'[j].intent \in Terminal
      BY <1>c DEF LeaseInv, TypeInv
    <2> QED
      BY <1>a, <1>b, <1>c, <2>1, <2>2, <2>3 DEF LeaseInv, TypeInv
  <1>3. LockInv'
    BY RequestIds, <1>1, <1>a, <1>b, <1>c, <1>d
    DEF LeaseInv, TypeInv, LockInv, NoRequest, Live, Terminal
  <1>4. DestroyInv'
    BY RequestIds, <1>1, <1>a, <1>b, <1>c, <1>d
    DEF LeaseInv, TypeInv, DestroyInv, Over, NoRequest, Terminal
  <1>5. RuntimeMatches'
    <2>1. \A j \in Ids : /\ lease[j].status \in Live => lease'[j].status \in Live
                         /\ lease'[j].status = "running" => lease[j].status = "running"
      BY <1>c DEF Live
    <2>2. RuntimeAccounted'
      BY <1>a, <2>1 DEF LeaseInv, RuntimeMatches, RuntimeAccounted, LiveIds
    <2>3. RunningHasRuntime'
      BY <1>a, <2>1 DEF LeaseInv, RuntimeMatches, RunningHasRuntime
    <2> QED BY <2>2, <2>3 DEF RuntimeMatches
  <1>6. FenceWins'
    BY <1>1, <1>a, <1>b, <1>c, <1>d DEF LeaseInv, TypeInv, FenceWins, Live, Terminal
  <1>7. ReleaseAckFinal'
    BY <1>1, <1>a, <1>b, <1>c, <1>d
    DEF LeaseInv, TypeInv, ReleaseAckFinal, RuntimeMatches, RuntimeAccounted, LiveIds, Live,
        Terminal
  <1> QED BY <1>2, <1>3, <1>4, <1>5, <1>6, <1>7 DEF LeaseInv

LEMMA RenewInv ==
    ASSUME LeaseInv, NEW r \in Requests, Renew(r)
    PROVE  LeaseInv'
  <1>1. PICK i \in Ids : i = req[r].id
    BY RequestFields DEF LeaseInv, Renew
  <1>a. /\ req' \in [Requests -> RequestState]
        /\ \A s \in Requests : req'[s] = IF s = r THEN NoRequest ELSE req[s]
        /\ req[r].n \in Nat /\ req[r].n < Len(Expires[i])
        /\ UNCHANGED <<clock, lane, stops, hold, fences, inst, busy, starts, sweep, acked>>
    BY <1>1, FreeRequest, RequestFields DEF LeaseInv, TypeInv, Renew
  <1>b. lease' = lease \/ lease' = [lease EXCEPT ![i].seq = req[r].n]
    BY <1>1 DEF Renew
  <1>c. /\ lease' \in [Ids -> LeaseRow]
        /\ \A j \in Ids : /\ lease'[j].status = lease[j].status /\ lease'[j].intent = lease[j].intent
                          /\ lease'[j].seq < Len(Expires[j])
    <2>1. CASE lease' = lease
      BY <2>1 DEF LeaseInv, TypeInv
    <2>2. CASE lease' = [lease EXCEPT ![i].seq = req[r].n]
      <3>1. lease[i] \in LeaseRow /\ lease'[i] = [lease[i] EXCEPT !.seq = req[r].n]
        BY <2>2 DEF LeaseInv, TypeInv
      <3>2. /\ lease'[i] \in LeaseRow /\ lease'[i].status = lease[i].status
            /\ lease'[i].intent = lease[i].intent /\ lease'[i].seq = req[r].n
        BY <1>a, <3>1, RenewedRow
      <3>3. lease' = [lease EXCEPT ![i] = lease'[i]]
        BY <2>2, <3>1 DEF LeaseInv, TypeInv
      <3> QED
        BY Zenon, <1>a, <3>2, <3>3 DEF LeaseInv, TypeInv
    <2> QED BY <1>b, <2>1, <2>2
  <1>2. TypeInv'
    BY <1>1, <1>a, <1>c DEF LeaseInv, TypeInv, NoRequest
  <1>3. LockInv'
    BY <1>a, <1>c, LockFrame DEF LeaseInv, LockInv
  <1>4. DestroyInv'
    BY RequestIds, <1>1, <1>a, <1>c DEF LeaseInv, TypeInv, DestroyInv, Over, NoRequest, Terminal
  <1>5. RuntimeMatches'
    BY <1>1, <1>a, <1>c DEF LeaseInv, TypeInv, RuntimeMatches, RuntimeAccounted, RunningHasRuntime,
       LiveIds, Live, Terminal
  <1>6. FenceWins'
    BY <1>1, <1>a, <1>c DEF LeaseInv, TypeInv, FenceWins, Live, Terminal
  <1>7. ReleaseAckFinal'
    BY <1>1, <1>a, <1>c
    DEF LeaseInv, TypeInv, ReleaseAckFinal, RuntimeMatches, RuntimeAccounted, LiveIds, Live,
        Terminal
  <1> QED BY <1>2, <1>3, <1>4, <1>5, <1>6, <1>7 DEF LeaseInv

LEMMA ReleaseFenceInv ==
    ASSUME LeaseInv, NEW r \in Requests, ReleaseFence(r)
    PROVE  LeaseInv'
  <1>1. PICK i \in Ids : i = req[r].id
    BY RequestFields DEF LeaseInv, ReleaseFence
  <1>a. /\ req[r] \in [pc : {"release"}, id : {i}, n : Nat, now : Nat] /\ lane # "down"
        /\ fences' = fences \cup {i}
        /\ acked' = IF lease'[i].status \notin Live THEN acked \cup {i} ELSE acked
        /\ UNCHANGED <<clock, lane, stops, inst, busy, starts, sweep>>
    BY <1>1, RequestFields DEF LeaseInv, LockInv, ReleaseFence, Acknowledges, NoRequest
  <1>b. /\ hold' \in [Ids -> {"none", "held", "committed", "expired", "released"}]
        /\ \A j \in Ids : IF j = i THEN hold'[j] # "held" ELSE hold'[j] = hold[j]
    BY <1>1 DEF LeaseInv, TypeInv, ReleaseFence
  <1>c. RowsEnd /\ lease'[i].status \notin Open /\ \A j \in Ids : j # i => lease'[j] = lease[j]
    <2>1. lease' = [lease EXCEPT ![i] = BeginCleanup(@, "released")] /\ lease[i] \in LeaseRow
      BY <1>1 DEF LeaseInv, TypeInv, ReleaseFence
    <2>2. Ending(lease[i], lease'[i]) /\ lease'[i].status \notin Open
      BY <2>1, BeginCleanupEnds DEF LeaseInv, TypeInv, Terminal
    <2> QED
      BY Zenon, <2>1, <2>2, EndingRows DEF LeaseInv, TypeInv, Ending
  <1>d. /\ req' \in [Requests -> RequestState]
        /\ \A s \in Requests : s # r => req'[s] = req[s]
        /\ \/ req'[r] = NoRequest
           \/ req'[r].pc = "destroy" /\ req'[r].id = i /\ lease'[i].status = "cleanup"
    BY <1>1, <1>a, FreeRequest DEF LeaseInv, TypeInv, ReleaseFence, RequestState
  <1>2. TypeInv'
    <2>1. \A s \in Requests : req'[s].pc = "renew" => req'[s].n < Len(Expires[req'[s].id])
      BY <1>d DEF LeaseInv, TypeInv, NoRequest
    <2> QED
      BY <1>a, <1>b, <1>c, <1>d, <2>1 DEF LeaseInv, TypeInv, RowsEnd
  <1>3. LockInv'
    <2>1. \A j \in Ids : starts[j] # "none" => lease'[j].status \in Live
      BY <1>c DEF LeaseInv, LockInv, RowsEnd
    <2> QED
      BY <1>a, <1>d, <2>1, LockFrame DEF NoRequest
  <1>4. DestroyInv'
    BY RequestIds, <1>1, <1>a, <1>b, <1>c, <1>d
    DEF LeaseInv, TypeInv, DestroyInv, Over, NoRequest, Terminal, RowsEnd, Open
  <1>5. RuntimeMatches'
    BY <1>1, <1>a, <1>b, <1>c, <1>d
    DEF LeaseInv, TypeInv, RuntimeMatches, RuntimeAccounted, RunningHasRuntime,
       LiveIds, Live, Terminal, RowsEnd, Open, Over
  <1>6. FenceWins'
    BY <1>1, <1>a, <1>b, <1>c, <1>d
    DEF LeaseInv, TypeInv, FenceWins, Live, Terminal, RowsEnd, Open, Over
  <1>7. ReleaseAckFinal'
    BY <1>1, <1>a, <1>b, <1>c, <1>d
    DEF LeaseInv, TypeInv, ReleaseAckFinal, RuntimeMatches, RuntimeAccounted, LiveIds, Live,
        Terminal, RowsEnd, Open, Over
  <1> QED BY <1>2, <1>3, <1>4, <1>5, <1>6, <1>7 DEF LeaseInv

LEMMA ReleaseDestroyInv ==
    ASSUME LeaseInv, NEW r \in Requests, ReleaseDestroy(r)
    PROVE  LeaseInv'
  <1>1. PICK i \in Ids : i = req[r].id
    BY RequestFields DEF LeaseInv, ReleaseDestroy
  <1>a. /\ req' \in [Requests -> RequestState]
        /\ \A s \in Requests : req'[s] = IF s = r THEN NoRequest ELSE req[s]
        /\ i \notin busy /\ i \in fences /\ lease[i].status \in Over /\ lane # "down"
        /\ acked' = IF lease'[i].status \notin Live THEN acked \cup {i} ELSE acked
        /\ UNCHANGED <<clock, lane, stops, hold, fences, busy, starts, sweep>>
    BY <1>1, FreeRequest
    DEF LeaseInv, LockInv, DestroyInv, ReleaseDestroy, Acknowledges, NoRequest
  <1>b. TeardownResult(i)
    <2>1. PICK out \in Teardown(i) : inst' = out.inst /\ lease' = [lease EXCEPT ![i] = out.row]
      BY Zenon, <1>1 DEF ReleaseDestroy
    <2> QED BY Zenon, <1>a, <2>1, TeardownRow
  <1>2. TypeInv'
    BY <1>1, <1>a, <1>b DEF LeaseInv, TypeInv, NoRequest, TeardownResult, Over
  <1>3. LockInv'
    <2>1. \A j \in Ids : starts[j] # "none" => lease'[j].status \in Live
      BY <1>a, <1>b DEF LeaseInv, LockInv, TeardownResult
    <2> QED
      BY <1>a, <2>1, LockFrame
  <1>4. DestroyInv'
    <2>1. \A j \in Ids : /\ starts[j] # "none" => j # i
                         /\ lease[j].status \in Over => lease'[j].status \in Over
      BY <1>a, <1>b DEF LeaseInv, LockInv, TeardownResult, Over
    <2>2. \A j \in Ids : /\ starts'[j] = "created" => j \in inst'
                         /\ starts'[j] = "teardown" => lease'[j].status \in Over
      BY <1>a, <1>b, <2>1 DEF LeaseInv, DestroyInv, TeardownResult
    <2> QED
      BY <1>a, <2>1, <2>2, DestroyFrame
  <1>5. RuntimeMatches'
    BY <1>1, <1>a, <1>b DEF LeaseInv, TypeInv, RuntimeMatches, RuntimeAccounted, RunningHasRuntime,
       LiveIds, Live, Terminal, TeardownResult, Over
  <1>6. FenceWins'
    BY <1>1, <1>a, <1>b DEF LeaseInv, TypeInv, FenceWins, Live, Terminal, TeardownResult, Over
  <1>7. ReleaseAckFinal'
    BY <1>1, <1>a, <1>b
    DEF LeaseInv, TypeInv, ReleaseAckFinal, RuntimeMatches, RuntimeAccounted, LiveIds, Live,
        Terminal, TeardownResult, Over
  <1> QED BY <1>2, <1>3, <1>4, <1>5, <1>6, <1>7 DEF LeaseInv
-----------------------------------------------------------------------------
(* The background start. *)

LEMMA StartCreateInv ==
    ASSUME LeaseInv, NEW i \in Ids, StartCreate(i)
    PROVE  LeaseInv'
  <1>1. /\ starts[i] = "create" /\ i \in busy /\ lease[i].status \in Live /\ i \notin acked
        /\ inst' \in {inst, inst \cup {i}}
        /\ \/ starts' = [starts EXCEPT ![i] = "created"] /\ busy' = busy /\ i \in inst'
           \/ starts' = [starts EXCEPT ![i] = "failed"] /\ busy' = busy
           \/ starts' = [starts EXCEPT ![i] = "none"] /\ busy' = busy \ {i}
        /\ UNCHANGED <<clock, lane, stops, hold, lease, fences, req, sweep, acked>>
    BY DEF LeaseInv, LockInv, ReleaseAckFinal, StartCreate, EndStart
  <1>2. TypeInv'
    BY <1>1 DEF LeaseInv, TypeInv
  <1>3. LockInv'
    BY RequestIds, <1>1 DEF LeaseInv, TypeInv, LockInv, Live, Terminal
  <1>4. DestroyInv'
    BY RequestIds, <1>1 DEF LeaseInv, TypeInv, DestroyInv, Over, Terminal
  <1>5. RuntimeMatches'
    BY <1>1 DEF LeaseInv, TypeInv, RuntimeMatches, RuntimeAccounted, RunningHasRuntime,
       LiveIds, Live, Terminal
  <1>6. FenceWins'
    BY <1>1 DEF LeaseInv, TypeInv, FenceWins, Live, Terminal
  <1>7. ReleaseAckFinal'
    BY <1>1 DEF LeaseInv, TypeInv, ReleaseAckFinal, RuntimeMatches, RuntimeAccounted,
       LiveIds, Live, Terminal
  <1> QED BY <1>2, <1>3, <1>4, <1>5, <1>6, <1>7 DEF LeaseInv

LEMMA PromoteRow ==
    ASSUME TypeInv, NEW i \in Ids, lease[i].status \in Live
    PROVE  LET new == Promote(i) IN
           /\ new \in LeaseRow /\ new.seq = lease[i].seq /\ new.status \in Live \ {"pending"}
           /\ new.status = "cleanup" => new.intent \in Terminal
           /\ lease[i].status \in Over => new = lease[i]
  <1>1. lease[i] \in LeaseRow /\ (lease[i].status = "cleanup" => lease[i].intent \in Terminal)
    BY DEF TypeInv
  <1>2. CASE lease[i].status = "pending" /\ LeaseExpiry(i) > clock
    <2>1. Promote(i) = [lease[i] EXCEPT !.status = "running"]
      BY <1>2 DEF Promote
    <2> QED
      BY <1>1, <1>2, <2>1 DEF LeaseRow, Live, Over, Terminal
  <1>3. CASE lease[i].status = "pending" /\ ~(LeaseExpiry(i) > clock)
    <2>1. Promote(i) = BeginCleanup(lease[i], "expired") /\ "expired" \in Terminal
      BY <1>3 DEF Promote, Terminal
    <2> QED
      BY <1>1, <1>3, <2>1, BeginCleanupRow DEF Live, Over, Open, Terminal
  <1>4. CASE lease[i].status # "pending"
    BY <1>1, <1>4 DEF Promote, Live
  <1> QED BY <1>2, <1>3, <1>4

LEMMA StartMarkInv ==
    ASSUME LeaseInv, NEW i \in Ids, StartMark(i)
    PROVE  LeaseInv'
  <1>1. /\ starts[i] = "created" /\ i \in busy /\ lease[i].status \in Live /\ i \in inst
        /\ UNCHANGED <<clock, lane, stops, hold, fences, inst, req, sweep, acked>>
    BY DEF LeaseInv, LockInv, DestroyInv, StartMark
  <1>a. /\ lease' \in [Ids -> LeaseRow] /\ \A j \in Ids : j # i => lease'[j] = lease[j]
        /\ lease'[i].seq = lease[i].seq /\ lease'[i].status \in Live
        /\ lease'[i].status = "cleanup" => lease'[i].intent \in Terminal
        /\ lease[i].status \in Over => lease'[i] = lease[i]
    BY <1>1, PromoteRow DEF LeaseInv, TypeInv, StartMark
  <1>b. \/ starts' = [starts EXCEPT ![i] = "none"] /\ busy' = busy \ {i}
        \/ /\ starts' = [starts EXCEPT ![i] = "teardown"] /\ busy' = busy
           /\ lease'[i].status \in Over
        \/ starts' = [starts EXCEPT ![i] = "failed"] /\ busy' = busy
    <2>1. CASE lease' = [lease EXCEPT ![i] = Promote(i)]
      <3>1. lease'[i].status \in Live \ {"pending"}
        BY <1>1, <2>1, PromoteRow DEF LeaseInv, TypeInv
      <3> QED
        BY <3>1 DEF StartMark, EndStart, Live, Over
    <2>2. CASE UNCHANGED lease /\ lease # [lease EXCEPT ![i] = Promote(i)]
      BY <2>2 DEF StartMark
    <2> QED BY <2>1, <2>2 DEF StartMark
  <1>2. TypeInv'
    BY <1>1, <1>a, <1>b DEF LeaseInv, TypeInv
  <1>3. LockInv'
    BY RequestIds, <1>1, <1>a, <1>b DEF LeaseInv, TypeInv, LockInv, Live, Terminal
  <1>4. DestroyInv'
    <2>1. \A j \in Ids : lease[j].status \in Over => lease'[j].status \in Over
      BY <1>a
    <2>2. \A j \in Ids : /\ starts'[j] = "created" => j \in inst'
                         /\ starts'[j] = "teardown" => lease'[j].status \in Over
      BY <1>1, <1>b, <2>1 DEF LeaseInv, TypeInv, DestroyInv
    <2> QED
      BY <1>1, <2>1, <2>2, DestroyFrame
  <1>5. RuntimeMatches'
    BY <1>1, <1>a, <1>b DEF LeaseInv, TypeInv, RuntimeMatches, RuntimeAccounted, RunningHasRuntime,
       LiveIds, Live, Terminal
  <1>6. FenceWins'
    BY <1>1, <1>a, <1>b DEF LeaseInv, TypeInv, FenceWins, Live, Over
  <1>7. ReleaseAckFinal'
    BY <1>1, <1>a, <1>b DEF LeaseInv, TypeInv, ReleaseAckFinal, RuntimeMatches, RuntimeAccounted,
       LiveIds, Live, Terminal
  <1> QED BY <1>2, <1>3, <1>4, <1>5, <1>6, <1>7 DEF LeaseInv

LEMMA StartFailInv ==
    ASSUME LeaseInv, NEW i \in Ids, StartFail(i)
    PROVE  LeaseInv'
  <1>1. /\ starts[i] = "failed" /\ i \in busy /\ lease[i].status \in Live
        /\ UNCHANGED <<clock, lane, stops, hold, fences, inst, req, sweep, acked>>
    BY DEF LeaseInv, LockInv, StartFail
  <1>a. /\ RowsEnd
        /\ \/ /\ starts' = [starts EXCEPT ![i] = "teardown"] /\ busy' = busy
              /\ lease'[i].status \in Over
           \/ starts' = [starts EXCEPT ![i] = "none"] /\ busy' = busy \ {i}
    <2>1. CASE /\ lease' = [lease EXCEPT ![i] = BeginCleanup(@, "failed")]
               /\ starts' = [starts EXCEPT ![i] = "teardown"] /\ busy' = busy
      <3>1. Ending(lease[i], lease'[i]) /\ lease'[i].status \notin Open /\ lease[i] \in LeaseRow
        BY <2>1, BeginCleanupEnds DEF LeaseInv, TypeInv, Terminal
      <3>2. RowsEnd
        BY Zenon, <2>1, <3>1, EndingRows DEF LeaseInv, TypeInv, Ending
      <3>3. lease'[i].status \in Over
        BY <1>1, <3>1 DEF Ending, Over, Live, Open
      <3> QED BY <2>1, <3>2, <3>3
    <2>2. CASE EndStart(i) /\ UNCHANGED lease
      BY <2>2, EndingRows DEF LeaseInv, TypeInv, Ending, EndStart
    <2> QED BY <2>1, <2>2 DEF StartFail
  <1>2. TypeInv'
    BY Zenon, <1>1, <1>a DEF LeaseInv, TypeInv, RowsEnd, Open, Over
  <1>3. LockInv'
    BY RequestIds, <1>1, <1>a DEF LeaseInv, TypeInv, LockInv, Live, Terminal, RowsEnd, Open, Over
  <1>4. DestroyInv'
    BY RequestIds, <1>1, <1>a DEF LeaseInv, TypeInv, DestroyInv, Over, Terminal, RowsEnd, Open
  <1>5. RuntimeMatches'
    BY <1>1, <1>a DEF LeaseInv, TypeInv, RuntimeMatches, RuntimeAccounted, RunningHasRuntime,
       LiveIds, Live, Terminal, RowsEnd, Open, Over
  <1>6. FenceWins'
    BY <1>1, <1>a DEF LeaseInv, TypeInv, FenceWins, Live, Terminal, RowsEnd, Open, Over
  <1>7. ReleaseAckFinal'
    BY <1>1, <1>a DEF LeaseInv, TypeInv, ReleaseAckFinal, RuntimeMatches, RuntimeAccounted,
       LiveIds, Live, Terminal, RowsEnd, Open, Over
  <1> QED BY <1>2, <1>3, <1>4, <1>5, <1>6, <1>7 DEF LeaseInv

LEMMA StartTeardownInv ==
    ASSUME LeaseInv, NEW i \in Ids, StartTeardown(i)
    PROVE  LeaseInv'
  <1>1. /\ starts[i] = "teardown" /\ i \in busy /\ lease[i].status \in Over
        /\ starts' = [starts EXCEPT ![i] = "none"] /\ busy' = busy \ {i}
        /\ UNCHANGED <<clock, lane, stops, hold, fences, req, sweep, acked>>
    BY DEF LeaseInv, LockInv, DestroyInv, StartTeardown, EndStart
  <1>a. TeardownResult(i)
    <2>1. PICK out \in Teardown(i) : inst' = out.inst /\ lease' = [lease EXCEPT ![i] = out.row]
      BY Zenon DEF StartTeardown
    <2> QED BY Zenon, <1>1, <2>1, TeardownRow
  <1>2. TypeInv'
    BY Zenon, <1>1, <1>a DEF LeaseInv, TypeInv, TeardownResult, Over
  <1>3. LockInv'
    BY RequestIds, <1>1, <1>a DEF LeaseInv, TypeInv, LockInv, Live, Terminal, TeardownResult, Over
  <1>4. DestroyInv'
    BY RequestIds, <1>1, <1>a DEF LeaseInv, TypeInv, DestroyInv, Over, Terminal, TeardownResult
  <1>5. RuntimeMatches'
    BY <1>1, <1>a DEF LeaseInv, TypeInv, RuntimeMatches, RuntimeAccounted, RunningHasRuntime,
       LiveIds, Live, Terminal, TeardownResult, Over
  <1>6. FenceWins'
    BY <1>1, <1>a DEF LeaseInv, TypeInv, FenceWins, Live, Terminal, TeardownResult, Over
  <1>7. ReleaseAckFinal'
    BY <1>1, <1>a DEF LeaseInv, TypeInv, ReleaseAckFinal, RuntimeMatches, RuntimeAccounted,
       LiveIds, Live, Terminal, TeardownResult, Over
  <1> QED BY <1>2, <1>3, <1>4, <1>5, <1>6, <1>7 DEF LeaseInv

-----------------------------------------------------------------------------
(* Sweep. *)

LEMMA ExpireHoldsRow ==
    ASSUME TypeInv
    PROVE  /\ ExpireHolds \in [Ids -> {"none", "held", "committed", "expired", "released"}]
           /\ \A j \in Ids : ExpireHolds[j] = hold[j] \/ ExpireHolds[j] = "expired"
    BY DEF TypeInv, ExpireHolds

LEMMA SweepBeginInv ==
    ASSUME LeaseInv, SweepBegin
    PROVE  LeaseInv'
  <1>1. /\ hold' \in [Ids -> {"none", "held", "committed", "expired", "released"}]
        /\ \A j \in Ids : hold'[j] = hold[j] \/ hold'[j] = "expired"
        /\ sweep' = [records |-> {j \in Ids : lease'[j].status = "cleanup"}, instances |-> inst]
        /\ UNCHANGED <<clock, lane, stops, fences, inst, busy, starts, req, acked>>
    BY ExpireHoldsRow DEF LeaseInv, SweepBegin
  <1>a. RowsEnd
    <2>1. lease' = [j \in Ids |-> Swept(j)]
      BY DEF SweepBegin
    <2> QED BY <2>1, SweptEnds, EndingRows DEF LeaseInv
  <1>2. TypeInv'
    BY <1>1, <1>a DEF LeaseInv, TypeInv, RowsEnd, Open, Over
  <1>3. LockInv'
    BY RequestIds, <1>1, <1>a DEF LeaseInv, TypeInv, LockInv, Live, Terminal, RowsEnd, Open, Over
  <1>4. DestroyInv'
    BY RequestIds, <1>1, <1>a DEF LeaseInv, TypeInv, DestroyInv, Over, Terminal, RowsEnd, Open
  <1>5. RuntimeMatches'
    BY <1>1, <1>a DEF LeaseInv, TypeInv, RuntimeMatches, RuntimeAccounted, RunningHasRuntime,
       LiveIds, Live, Terminal, RowsEnd, Open, Over
  <1>6. FenceWins'
    BY <1>1, <1>a DEF LeaseInv, TypeInv, FenceWins, Live, Terminal, RowsEnd, Open, Over
  <1>7. ReleaseAckFinal'
    BY <1>1, <1>a DEF LeaseInv, TypeInv, ReleaseAckFinal, RuntimeMatches, RuntimeAccounted,
       LiveIds, Live, Terminal, RowsEnd, Open, Over
  <1> QED BY <1>2, <1>3, <1>4, <1>5, <1>6, <1>7 DEF LeaseInv

LEMMA SweepRecordInv ==
    ASSUME LeaseInv, NEW i \in Ids, SweepRecord(i)
    PROVE  LeaseInv'
  <1>1. /\ lease[i].status \in Over
        /\ sweep' \in [records : SUBSET sweep.records, instances : SUBSET Ids]
        /\ UNCHANGED <<clock, lane, stops, hold, fences, busy, starts, req, acked>>
    BY DEF LeaseInv, TypeInv, DestroyInv, SweepRecord
  <1>a. IF i \in busy THEN UNCHANGED <<inst, lease>> ELSE TeardownResult(i)
    <2>1. CASE i \notin busy
      <3>1. PICK out \in Teardown(i) : inst' = out.inst /\ lease' = [lease EXCEPT ![i] = out.row]
        BY <2>1 DEF SweepRecord
      <3> QED BY Zenon, <1>1, <2>1, <3>1, TeardownRow
    <2> QED BY <2>1 DEF SweepRecord
  <1>2. TypeInv'
    BY <1>1, <1>a DEF LeaseInv, TypeInv, TeardownResult, Over
  <1>3. LockInv'
    BY RequestIds, <1>1, <1>a DEF LeaseInv, TypeInv, LockInv, Live, Terminal, TeardownResult, Over
  <1>4. DestroyInv'
    <2>1. \A j \in Ids : /\ starts[j] # "none" /\ i \notin busy => j # i
                         /\ lease[j].status \in Over => lease'[j].status \in Over
      BY <1>1, <1>a DEF LeaseInv, LockInv, TeardownResult, Over
    <2>2. \A j \in Ids : /\ starts'[j] = "created" => j \in inst'
                         /\ starts'[j] = "teardown" => lease'[j].status \in Over
      BY <1>1, <1>a, <2>1 DEF LeaseInv, DestroyInv, TeardownResult
    <2> QED
      BY <1>1, <2>1, <2>2, DestroyFrame
  <1>5. RuntimeMatches'
    BY <1>1, <1>a DEF LeaseInv, TypeInv, RuntimeMatches, RuntimeAccounted, RunningHasRuntime,
       LiveIds, Live, Terminal, TeardownResult, Over
  <1>6. FenceWins'
    BY <1>1, <1>a DEF LeaseInv, TypeInv, FenceWins, Live, Terminal, TeardownResult, Over
  <1>7. ReleaseAckFinal'
    BY <1>1, <1>a DEF LeaseInv, TypeInv, ReleaseAckFinal, RuntimeMatches, RuntimeAccounted,
       LiveIds, Live, Terminal, TeardownResult, Over
  <1> QED BY <1>2, <1>3, <1>4, <1>5, <1>6, <1>7 DEF LeaseInv

LEMMA SweepInstanceInv ==
    ASSUME LeaseInv, NEW i \in Ids, SweepInstance(i)
    PROVE  LeaseInv'
  <1>1. /\ inst' = inst \/ (inst' = inst \ {i} /\ i \notin busy /\ lease[i].status \notin Live)
        /\ sweep' = [sweep EXCEPT !.instances = @ \ {i}]
        /\ UNCHANGED <<clock, lane, stops, hold, lease, fences, busy, starts, req, acked>>
    BY DEF SweepInstance, Orphan
  <1>2. TypeInv'
    BY Zenon, <1>1 DEF LeaseInv, TypeInv
  <1>3. LockInv'
    BY RequestIds, <1>1 DEF LeaseInv, TypeInv, LockInv, Live, Terminal
  <1>4. DestroyInv'
    BY RequestIds, <1>1 DEF LeaseInv, TypeInv, DestroyInv, LockInv
  <1>5. RuntimeMatches'
    BY <1>1 DEF LeaseInv, TypeInv, RuntimeMatches, RuntimeAccounted, RunningHasRuntime,
       LiveIds, Live, Terminal
  <1>6. FenceWins'
    BY <1>1 DEF LeaseInv, TypeInv, FenceWins, Live, Terminal
  <1>7. ReleaseAckFinal'
    BY <1>1 DEF LeaseInv, TypeInv, ReleaseAckFinal, RuntimeMatches, RuntimeAccounted,
       LiveIds, Live, Terminal
  <1> QED BY <1>2, <1>3, <1>4, <1>5, <1>6, <1>7 DEF LeaseInv

-----------------------------------------------------------------------------
(* Restart recovery, shutdown and the end of the process. *)

(* What Recover leaves of a row and of its sandbox. *)
RecoverResult(kept) ==
    /\ hold' \in [Ids -> {"none", "held", "committed", "expired", "released"}]
    /\ \A j \in Ids : hold'[j] = hold[j] \/ hold'[j] = "expired"
    /\ lease' \in [Ids -> LeaseRow]
    /\ \A j \in Ids : /\ lease'[j].seq = lease[j].seq
                      /\ lease'[j].status = "cleanup" => lease'[j].intent \in Terminal
                      /\ lease'[j].status \notin Open
                      /\ lease'[j].status \in Live <=> lease[j].status \in Live /\ j \in kept
                      /\ lease[j].status \in Over => lease'[j].status \in Over
    /\ inst' \subseteq inst \cap kept /\ inst \cap kept \cap busy \subseteq inst'

LEMMA RecoverRows ==
    ASSUME LeaseInv, NEW kept \in SUBSET Ids, Recover(kept)
    PROVE  RecoverResult(kept)
  <1> DEFINE row(j) == BeginCleanup(Swept(j), "failed")
             end(j) == CompleteCleanup(row(j))
  <1>1. ASSUME NEW j \in Ids
        PROVE  /\ row(j) \in LeaseRow /\ row(j).seq = lease[j].seq
               /\ row(j).status = "cleanup" => row(j).intent \in Terminal
               /\ row(j).status \notin Open
               /\ row(j).status \in Live <=> lease[j].status \in Live
               /\ lease[j].status \in Over => row(j) = lease[j]
    <2>1. lease[j] \in LeaseRow /\ (lease[j].status = "cleanup" => lease[j].intent \in Terminal)
      BY DEF LeaseInv, TypeInv
    <2>2. Ending(lease[j], Swept(j))
      BY SweptEnds DEF LeaseInv
    <2> DEFINE mid == Swept(j)
    <2> HIDE DEF mid
    <2>3. mid \in LeaseRow /\ (mid.status = "cleanup" => mid.intent \in Terminal)
      BY <2>1, <2>2 DEF Ending, mid
    <2>4. Ending(mid, row(j)) /\ row(j).status \notin Open
      BY <2>3, BeginCleanupEnds DEF mid, Terminal
    <2> HIDE DEF row
    <2> QED
      BY <2>1, <2>2, <2>3, <2>4 DEF Ending, Live, Terminal, Open, Over, mid
  <1>2. ASSUME NEW j \in Ids
        PROVE  /\ end(j) \in LeaseRow /\ end(j).seq = lease[j].seq
               /\ end(j).status \notin Live
               /\ lease[j].status \in Over => end(j).status \in Over
    <2>1. /\ row(j) \in LeaseRow /\ row(j).status \notin Open /\ row(j).seq = lease[j].seq
          /\ row(j).status = "cleanup" => row(j).intent \in Terminal
          /\ lease[j].status \in Over => row(j).status \in Over
      BY <1>1
    <2> HIDE DEF row
    <2>2. /\ end(j) \in LeaseRow /\ end(j).seq = row(j).seq
          /\ row(j).status = "cleanup" => end(j).status \in Terminal
          /\ row(j).status # "cleanup" => end(j) = row(j)
      BY <2>1, CompleteCleanupRow
    <2> QED
      BY <2>1, <2>2 DEF Live, Terminal, Open, Over
  <1>3. \A j \in Ids : lease'[j] = IF j \in kept THEN row(j) ELSE end(j)
    BY DEF Recover
  <1>4. lease' = [j \in Ids |-> lease'[j]]
    BY DEF Recover
  <1> HIDE DEF row, end
  <1>5. lease' \in [Ids -> LeaseRow]
    BY <1>1, <1>2, <1>3, <1>4
  <1>6. ASSUME NEW j \in Ids
        PROVE  /\ lease'[j].seq = lease[j].seq
               /\ lease'[j].status = "cleanup" => lease'[j].intent \in Terminal
               /\ lease'[j].status \notin Open
               /\ lease'[j].status \in Live <=> lease[j].status \in Live /\ j \in kept
               /\ lease[j].status \in Over => lease'[j].status \in Over
    BY <1>1, <1>2, <1>3 DEF Open, Live
  <1>7. /\ hold' \in [Ids -> {"none", "held", "committed", "expired", "released"}]
        /\ \A j \in Ids : hold'[j] = hold[j] \/ hold'[j] = "expired"
    BY ExpireHoldsRow DEF LeaseInv, Recover
  <1>8. inst' \subseteq inst \cap kept /\ inst \cap kept \cap busy \subseteq inst'
    BY DEF Recover
  <1> QED
    BY <1>5, <1>6, <1>7, <1>8 DEF RecoverResult

LEMMA StartInv ==
    ASSUME LeaseInv, Start
    PROVE  LeaseInv'
  <1>1. PICK kept \in SUBSET Ids : /\ Recover(kept)
                                   /\ lane' = IF kept = {} THEN "serving" ELSE "down"
    BY DEF Start
  <1>a. /\ RecoverResult(kept) /\ busy = {} /\ \A r \in Requests : req[r] = NoRequest
        /\ \A j \in Ids : starts[j] = "none"
        /\ UNCHANGED <<clock, stops, fences, busy, starts, req, sweep, acked>>
    BY <1>1, RecoverRows DEF LeaseInv, TypeInv, LockInv, Start
  <1>2. TypeInv'
    BY <1>1, <1>a DEF LeaseInv, TypeInv, RecoverResult, Open, Over
  <1>3. LockInv'
    BY <1>a DEF LockInv, NoRequest
  <1>4. DestroyInv'
    BY RequestIds, <1>1, <1>a
    DEF LeaseInv, TypeInv, DestroyInv, NoRequest, Terminal, RecoverResult, Over
  <1>5. RuntimeMatches'
    BY <1>1, <1>a DEF LeaseInv, TypeInv, RuntimeMatches, RuntimeAccounted, RunningHasRuntime,
       LiveIds, Live, Terminal, RecoverResult, Open, Over
  <1>6. FenceWins'
    BY <1>1, <1>a DEF LeaseInv, TypeInv, FenceWins, Live, Terminal, RecoverResult, Open, Over
  <1>7. ReleaseAckFinal'
    BY <1>1, <1>a DEF LeaseInv, TypeInv, ReleaseAckFinal, RuntimeMatches, RuntimeAccounted,
       LiveIds, Live, Terminal, RecoverResult, Open, Over
  <1> QED BY <1>2, <1>3, <1>4, <1>5, <1>6, <1>7 DEF LeaseInv

LEMMA ShutdownRecoverInv ==
    ASSUME LeaseInv, ShutdownRecover
    PROVE  LeaseInv'
  <1>1. PICK kept \in SUBSET Ids : busy \subseteq kept /\ Recover(kept)
    BY DEF ShutdownRecover
  <1>a. /\ RecoverResult(kept) /\ lane = "closing" /\ lane' = "stopped"
        /\ UNCHANGED <<clock, stops, fences, busy, starts, req, sweep, acked>>
    BY <1>1, RecoverRows DEF ShutdownRecover
  <1>2. TypeInv'
    BY <1>1, <1>a DEF LeaseInv, TypeInv, RecoverResult, Open, Over
  <1>3. LockInv'
    BY RequestIds, <1>1, <1>a
    DEF LeaseInv, TypeInv, LockInv, Live, Terminal, RecoverResult, Open, Over
  <1>4. DestroyInv'
    BY RequestIds, <1>1, <1>a DEF LeaseInv, TypeInv, DestroyInv, LockInv, RecoverResult, Over
  <1>5. RuntimeMatches'
    BY <1>1, <1>a DEF LeaseInv, TypeInv, RuntimeMatches, RuntimeAccounted, RunningHasRuntime,
       LiveIds, Live, Terminal, RecoverResult, Open, Over
  <1>6. FenceWins'
    BY <1>1, <1>a DEF LeaseInv, TypeInv, FenceWins, Live, Terminal, RecoverResult, Open, Over
  <1>7. ReleaseAckFinal'
    BY <1>1, <1>a DEF LeaseInv, TypeInv, ReleaseAckFinal, RuntimeMatches, RuntimeAccounted,
       LiveIds, Live, Terminal, RecoverResult, Open, Over
  <1> QED BY <1>2, <1>3, <1>4, <1>5, <1>6, <1>7 DEF LeaseInv

LEMMA ProcessGoneInv ==
    ASSUME LeaseInv, ProcessGone, UNCHANGED <<clock, hold, lease, fences, acked>>
    PROVE  LeaseInv'
  <1>1. /\ lane' = "down" /\ busy' = {} /\ starts' = [i \in Ids |-> "none"]
        /\ req' = [r \in Requests |-> NoRequest] /\ sweep' = NoSweep
        /\ inst \subseteq inst'
        /\ \A i \in Ids : i \in inst' => i \in inst \/ lease[i].status \in Live
        /\ inst' \subseteq Ids
    BY DEF LeaseInv, TypeInv, LockInv, ProcessGone
  <1>2. TypeInv'
    BY <1>1 DEF LeaseInv, TypeInv, NoRequest, NoSweep, RequestState
  <1>3. LockInv'
    BY RequestIds, <1>1
    DEF LeaseInv, TypeInv, LockInv, Live, Terminal, NoRequest, NoSweep, RequestState
  <1>4. DestroyInv'
    BY RequestIds, <1>1
    DEF LeaseInv, TypeInv, DestroyInv, Over, Terminal, NoRequest, NoSweep, RequestState
  <1>5. RuntimeMatches'
    BY <1>1 DEF LeaseInv, TypeInv, RuntimeMatches, RuntimeAccounted, RunningHasRuntime,
       LiveIds, Live, Terminal, NoRequest, NoSweep, RequestState
  <1>6. FenceWins'
    BY <1>1 DEF LeaseInv, TypeInv, FenceWins, Live, Terminal, NoRequest, NoSweep, RequestState
  <1>7. ReleaseAckFinal'
    BY <1>1 DEF LeaseInv, TypeInv, ReleaseAckFinal, RuntimeMatches, RuntimeAccounted,
       LiveIds, Live, Terminal, NoRequest, NoSweep, RequestState
  <1> QED BY <1>2, <1>3, <1>4, <1>5, <1>6, <1>7 DEF LeaseInv

LEMMA CloseInv ==
    ASSUME LeaseInv, Close
    PROVE  LeaseInv'
  <1>1. /\ lane = "serving" /\ lane' = "closing"
        /\ UNCHANGED <<clock, hold, lease, fences, inst, busy, starts, req, sweep, acked>>
    BY DEF Close
  <1>2. TypeInv'
    BY <1>1 DEF LeaseInv, TypeInv
  <1>3. LockInv'
    BY RequestIds, <1>1 DEF LeaseInv, TypeInv, LockInv, Live, Terminal
  <1>4. DestroyInv'
    BY RequestIds, <1>1 DEF LeaseInv, TypeInv, DestroyInv, Over, Terminal
  <1>5. RuntimeMatches'
    BY <1>1 DEF LeaseInv, TypeInv, RuntimeMatches, RuntimeAccounted, RunningHasRuntime,
       LiveIds, Live, Terminal
  <1>6. FenceWins'
    BY <1>1 DEF LeaseInv, TypeInv, FenceWins, Live, Terminal
  <1>7. ReleaseAckFinal'
    BY <1>1 DEF LeaseInv, TypeInv, ReleaseAckFinal, RuntimeMatches, RuntimeAccounted,
       LiveIds, Live, Terminal
  <1> QED BY <1>2, <1>3, <1>4, <1>5, <1>6, <1>7 DEF LeaseInv

LEMMA TickInv ==
    ASSUME LeaseInv, Tick
    PROVE  LeaseInv'
  <1>1. /\ clock' = clock + 1
        /\ UNCHANGED <<lane, stops, hold, lease, fences, inst, busy, starts, req, sweep, acked>>
    BY DEF Tick
  <1>2. TypeInv'
    BY <1>1 DEF LeaseInv, TypeInv
  <1>3. LockInv'
    BY RequestIds, <1>1 DEF LeaseInv, TypeInv, LockInv, Live, Terminal
  <1>4. DestroyInv'
    BY RequestIds, <1>1 DEF LeaseInv, TypeInv, DestroyInv, Over, Terminal
  <1>5. RuntimeMatches'
    BY <1>1 DEF LeaseInv, TypeInv, RuntimeMatches, RuntimeAccounted, RunningHasRuntime,
       LiveIds, Live, Terminal
  <1>6. FenceWins'
    BY <1>1 DEF LeaseInv, TypeInv, FenceWins, Live, Terminal
  <1>7. ReleaseAckFinal'
    BY <1>1 DEF LeaseInv, TypeInv, ReleaseAckFinal, RuntimeMatches, RuntimeAccounted,
       LiveIds, Live, Terminal
  <1> QED BY <1>2, <1>3, <1>4, <1>5, <1>6, <1>7 DEF LeaseInv

-----------------------------------------------------------------------------
(* The invariant. *)

LEMMA InitLeaseInv == Init => LeaseInv
  <1> SUFFICES ASSUME Init PROVE LeaseInv
    OBVIOUS
  <1>1. \A i \in Ids : 0 < Len(Expires[i])
    BY ConstantsAssumption
  <1>2. TypeInv
    BY <1>1 DEF Init, TypeInv, NoLease, LeaseRow, NoRequest, RequestState, NoSweep
  <1>3. LockInv /\ DestroyInv
    BY DEF Init, LockInv, DestroyInv, NoRequest, NoSweep
  <1>4. RuntimeMatches /\ FenceWins /\ ReleaseAckFinal
    BY
    DEF Init, RuntimeMatches, RuntimeAccounted, RunningHasRuntime, FenceWins, ReleaseAckFinal,
        NoLease
  <1> QED BY <1>2, <1>3, <1>4 DEF LeaseInv

LEMMA NextLeaseInv == LeaseInv /\ [Next]_vars => LeaseInv'
  <1> SUFFICES ASSUME LeaseInv, [Next]_vars PROVE LeaseInv'
    OBVIOUS
  <1>1. ASSUME NEW r \in Requests, NEW i \in Ids, NEW kind \in {"reserve", "commit", "release"},
               Arrive(r, kind, i, 0)
        PROVE  LeaseInv'
    BY <1>1, ArriveInv
  <1>2. ASSUME NEW r \in Requests, NEW i \in Ids, NEW n \in 1..(Len(Expires[i]) - 1),
               Arrive(r, "renew", i, n)
        PROVE  LeaseInv'
    BY <1>2, ArriveInv
  <1>3. ASSUME NEW r \in Requests, Handle(r)
        PROVE  LeaseInv'
    BY <1>3, HoldInv, CommitLockInv, CommitLeaseInv, RenewInv, ReleaseFenceInv, ReleaseDestroyInv,
       AbandonInv DEF Handle
  <1>4. ASSUME NEW i \in Ids, StartStep(i) \/ SweepRecord(i) \/ SweepInstance(i)
        PROVE  LeaseInv'
    BY <1>4, StartCreateInv, StartMarkInv, StartFailInv, StartTeardownInv, SweepRecordInv,
       SweepInstanceInv DEF StartStep
  <1>5. CASE SweepBegin \/ Start \/ Close \/ ShutdownRecover \/ Tick
    BY <1>5, SweepBeginInv, StartInv, CloseInv, ShutdownRecoverInv, TickInv
  <1>6. CASE Exit \/ Crash
    BY <1>6, ProcessGoneInv DEF Exit, Crash
  <1>7. CASE UNCHANGED vars
    BY <1>7 DEF vars, LeaseInv, TypeInv, LockInv, DestroyInv, RuntimeMatches, RuntimeAccounted,
       RunningHasRuntime, LiveIds, FenceWins, ReleaseAckFinal
  <1> QED
    BY <1>1, <1>2, <1>3, <1>4, <1>5, <1>6, <1>7 DEF Next

(* Every reachable state satisfies the invariant. *)
THEOREM LeaseInvariant == Spec => []LeaseInv
  BY InitLeaseInv, NextLeaseInv, PTL DEF Spec

(* For any identities, expiries and requests: while the agent runs, every  *)
(* sandbox belongs to a row that still consumes capacity, and a lease that *)
(* answers ready has its sandbox (start, teardown, destroyOrphans,         *)
(* Recover).                                                               *)
THEOREM RuntimesMatchLeases == Spec => []RuntimeMatches
  BY LeaseInvariant, PTL DEF LeaseInv

-----------------------------------------------------------------------------
(* Rows only move forward. *)

LEMMA ExpiryNat ==
    ASSUME NEW i \in Ids, NEW n \in Nat, n < Len(Expires[i])
    PROVE  Expires[i][n + 1] \in Nat
  <1>1. Expires[i] \in Seq(Nat) /\ n + 1 \in 1..Len(Expires[i])
    BY ConstantsAssumption
  <1> QED BY <1>1

LEMMA SameForward ==
    ASSUME NEW i \in Ids, NEW row \in LeaseRow
    PROVE  MovesForward(i, row, row)
    BY DEF MovesForward

LEMMA BeginCleanupForward ==
    ASSUME NEW i \in Ids, NEW row \in LeaseRow, NEW it \in {"failed", "released"}
    PROVE  MovesForward(i, row, BeginCleanup(row, it))
  <1>1. it \in Terminal
    BY DEF Terminal
  <1> DEFINE new == BeginCleanup(row, it)
  <1>2. /\ new.seq = row.seq
        /\ row.status \in Open => new.intent = it
        /\ row.status \notin Open => new = row
    BY <1>1, BeginCleanupRow
  <1> HIDE DEF new
  <1> QED
    BY <1>2 DEF MovesForward, Open, Terminal, new

LEMMA CompleteCleanupForward ==
    ASSUME NEW i \in Ids, NEW row \in LeaseRow, row.status = "cleanup" => row.intent \in Terminal
    PROVE  MovesForward(i, row, CompleteCleanup(row))
  <1> DEFINE new == CompleteCleanup(row)
  <1>1. /\ new.seq = row.seq /\ new.intent = row.intent
        /\ row.status = "cleanup" => new.status = row.intent
        /\ row.status # "cleanup" => new = row
    BY CompleteCleanupRow
  <1> HIDE DEF new
  <1> QED
    BY <1>1 DEF MovesForward, Terminal, new

(* A sweep ends a row only Grace after its latest expiry. *)
LEMMA SweptForward ==
    ASSUME TypeInv, NEW i \in Ids
    PROVE  /\ MovesForward(i, lease[i], Swept(i))
           /\ Swept(i) # lease[i] => /\ lease[i].status \in Open /\ Swept(i).intent = "expired"
                                     /\ Swept(i).status = "cleanup"
                                     /\ clock >= Expires[i][lease[i].seq + 1] + Grace
  <1>1. lease[i] \in LeaseRow /\ lease[i].seq \in Nat /\ lease[i].seq < Len(Expires[i])
    BY DEF TypeInv, LeaseRow
  <1>2. Expires[i][lease[i].seq + 1] \in Nat /\ Grace \in Nat /\ clock \in Nat
    BY <1>1, ExpiryNat, ConstantsAssumption DEF TypeInv
  <1>3. CASE lease[i].status \in Open /\ LeaseExpiry(i) + Grace <= clock
    <2> DEFINE new == Swept(i)
    <2>1. new = BeginCleanup(lease[i], "expired") /\ "expired" \in Terminal
      BY <1>3 DEF Swept, Open, Terminal
    <2>2. new.seq = lease[i].seq /\ new.status = "cleanup" /\ new.intent = "expired"
      BY <1>1, <1>3, <2>1, BeginCleanupRow
    <2>3. clock >= Expires[i][lease[i].seq + 1] + Grace
      BY <1>2, <1>3 DEF LeaseExpiry
    <2> HIDE DEF new
    <2> QED
      BY Zenon, <1>3, <2>2, <2>3 DEF MovesForward, Open, Terminal, new
  <1>4. CASE ~(lease[i].status \in Open /\ LeaseExpiry(i) + Grace <= clock)
    BY <1>1, <1>4, SameForward DEF Swept, Open
  <1> QED BY <1>3, <1>4

LEMMA TeardownForward ==
    ASSUME TypeInv, NEW i \in Ids, NEW j \in Ids, NEW out \in Teardown(j),
           lease' = [lease EXCEPT ![j] = out.row]
    PROVE  MovesForward(i, lease[i], lease'[i])
  <1>1. lease[i] \in LeaseRow /\ (lease[i].status = "cleanup" => lease[i].intent \in Terminal)
    BY DEF TypeInv
  <1>2. lease'[i] \in {lease[i], CompleteCleanup(lease[i])}
    BY DEF TypeInv, Teardown
  <1> QED
    BY <1>1, <1>2, SameForward, CompleteCleanupForward

LEMMA RecoverForward ==
    ASSUME TypeInv, NEW i \in Ids, NEW kept \in SUBSET Ids, Recover(kept)
    PROVE  MovesForward(i, lease[i], lease'[i])
  <1> DEFINE mid == Swept(i)
             row == BeginCleanup(mid, "failed")
             end == CompleteCleanup(row)
  <1>1. lease[i] \in LeaseRow /\ (lease[i].status = "cleanup" => lease[i].intent \in Terminal)
    BY DEF TypeInv
  <1>2. /\ mid \in LeaseRow /\ mid.seq = lease[i].seq
        /\ mid = lease[i] \/ /\ lease[i].status \in Open /\ mid.intent = "expired" /\ mid.status = "cleanup"
                             /\ clock >= Expires[i][lease[i].seq + 1] + Grace
    BY <1>1, SweptForward, SweptEnds DEF Ending
  <1>3. lease'[i] = row \/ lease'[i] = end
    BY DEF Recover
  <1> HIDE DEF mid
  <1>4. /\ row \in LeaseRow /\ row.seq = mid.seq
        /\ mid.status \in Open => row.status = "cleanup" /\ row.intent = "failed"
        /\ mid.status \notin Open => row = mid
    BY <1>2, BeginCleanupRow DEF Terminal
  <1> HIDE DEF row
  <1>5. row.status = "cleanup" => row.intent \in Terminal
    BY <1>1, <1>2, <1>4 DEF Open, Terminal
  <1>6. /\ end.seq = row.seq /\ end.intent = row.intent
        /\ row.status = "cleanup" => end.status = row.intent
        /\ row.status # "cleanup" => end = row
    BY <1>4, <1>5, CompleteCleanupRow
  <1> HIDE DEF end
  <1>7. CASE mid = lease[i]
    BY <1>1, <1>3, <1>4, <1>6, <1>7 DEF MovesForward, Open, Terminal
  <1>8. CASE mid # lease[i]
    BY <1>1, <1>2, <1>3, <1>4, <1>6, <1>8 DEF MovesForward, Open, Terminal
  <1> QED BY <1>7, <1>8

LEMMA NextForward ==
    ASSUME LeaseInv, [Next]_vars, NEW i \in Ids
    PROVE  MovesForward(i, lease[i], lease'[i])
  <1>1. TypeInv /\ lease[i] \in LeaseRow
    BY DEF LeaseInv, TypeInv
  <1>2. CASE lease' = lease
    BY <1>1, <1>2, SameForward
  <1>3. ASSUME NEW r \in Requests, CommitLease(r)
        PROVE  MovesForward(i, lease[i], lease'[i])
    <2>1. PICK j \in Ids : j = req[r].id
      BY <1>3, RequestFields DEF LeaseInv, CommitLease
    <2>2. \/ lease'[i] = lease[i]
          \/ lease[i].status = "none" /\ lease'[i].seq = lease[i].seq
      BY <1>1, <1>3, <2>1 DEF TypeInv, CommitLease, LeaseRow
    <2> QED
      BY <1>1, <2>2, SameForward DEF MovesForward, Terminal
  <1>4. ASSUME NEW r \in Requests, Renew(r)
        PROVE  MovesForward(i, lease[i], lease'[i])
    <2>1. PICK j \in Ids : j = req[r].id
      BY <1>4, RequestFields DEF LeaseInv, Renew
    <2>2. req[r].n \in Nat
      BY <1>4, RequestFields DEF LeaseInv, Renew
    <2>3. CASE lease'[i] = lease[i]
      BY <1>1, <2>3, SameForward
    <2>4. CASE lease'[i] # lease[i]
      <3>1. /\ i = j /\ lease'[i] = [lease[i] EXCEPT !.seq = req[r].n]
            /\ lease[i].status \in Open /\ Expires[i][req[r].n + 1] > Expires[i][lease[i].seq + 1]
        BY <1>1, <1>4, <2>1, <2>4 DEF TypeInv, Renew, Renews, LeaseExpiry, Open
      <3>2. lease'[i].seq = req[r].n /\ lease'[i].status = lease[i].status
        BY <1>1, <2>2, <3>1, RenewedRow
      <3> QED
        BY <3>1, <3>2 DEF MovesForward, Open, Terminal
    <2> QED BY <2>3, <2>4
  <1>5. ASSUME NEW r \in Requests, ReleaseFence(r)
        PROVE  MovesForward(i, lease[i], lease'[i])
    <2>1. lease'[i] \in {lease[i], BeginCleanup(lease[i], "released")}
      BY <1>5 DEF LeaseInv, TypeInv, ReleaseFence
    <2> QED
      BY <1>1, <2>1, SameForward, BeginCleanupForward
  <1>6. ASSUME NEW r \in Requests, ReleaseDestroy(r)
        PROVE  MovesForward(i, lease[i], lease'[i])
    <2>1. PICK j \in Ids : j = req[r].id
      BY <1>6, RequestFields DEF LeaseInv, ReleaseDestroy
    <2>2. PICK out \in Teardown(j) : lease' = [lease EXCEPT ![j] = out.row]
      BY Zenon, <1>6, <2>1 DEF ReleaseDestroy
    <2> QED BY Zenon, <1>1, <2>2, TeardownForward
  <1>7. ASSUME NEW j \in Ids, StartMark(j)
        PROVE  MovesForward(i, lease[i], lease'[i])
    <2>1. lease[j].status \in Live
      BY <1>7 DEF LeaseInv, LockInv, StartMark
    <2>2. lease'[i] = lease[i] \/ (i = j /\ lease'[i] = Promote(i))
      BY <1>7 DEF LeaseInv, TypeInv, StartMark
    <2>3. CASE lease'[i] = lease[i]
      BY <1>1, <2>3, SameForward
    <2>4. CASE i = j /\ lease'[i] = Promote(i) /\ lease'[i] # lease[i]
      <3>1. lease'[i].seq = lease[i].seq
        BY <1>1, <2>1, <2>4, PromoteRow
      <3>2. lease[i].status = "pending"
        BY <2>4 DEF Promote
      <3> QED
        BY <3>1, <3>2 DEF MovesForward, Terminal
    <2> QED BY <2>2, <2>3, <2>4
  <1>8. ASSUME NEW j \in Ids, StartFail(j)
        PROVE  MovesForward(i, lease[i], lease'[i])
    <2>1. lease'[i] \in {lease[i], BeginCleanup(lease[i], "failed")}
      BY <1>8 DEF LeaseInv, TypeInv, StartFail
    <2> QED
      BY <1>1, <2>1, SameForward, BeginCleanupForward
  <1>9. ASSUME NEW j \in Ids, StartTeardown(j) \/ SweepRecord(j), lease' # lease
        PROVE  MovesForward(i, lease[i], lease'[i])
    <2>1. PICK out \in Teardown(j) : lease' = [lease EXCEPT ![j] = out.row]
      BY <1>9 DEF StartTeardown, SweepRecord
    <2> QED BY Zenon, <1>1, <2>1, TeardownForward
  <1>10. CASE SweepBegin
    <2>1. lease'[i] = Swept(i)
      BY <1>10 DEF SweepBegin
    <2> QED BY <1>1, <2>1, SweptForward
  <1>11. CASE Start \/ ShutdownRecover
    <2>1. PICK kept \in SUBSET Ids : Recover(kept)
      BY <1>11 DEF Start, ShutdownRecover
    <2> QED BY <1>1, <2>1, RecoverForward
  <1>12. \/ lease' = lease
         \/ \E r \in Requests : CommitLease(r) \/ Renew(r) \/ ReleaseFence(r) \/ ReleaseDestroy(r)
         \/ \E j \in Ids : StartMark(j) \/ StartFail(j) \/ StartTeardown(j) \/ SweepRecord(j)
         \/ SweepBegin \/ Start \/ ShutdownRecover
    BY DEF Next, Handle, StartStep, Arrive, Hold, CommitLock, Abandon, StartCreate, SweepInstance,
       Close, Exit, Crash, Tick, vars
  <1> QED
    BY <1>2, <1>3, <1>4, <1>5, <1>6, <1>7, <1>8, <1>9, <1>10, <1>11, <1>12

(* For any identities, expiries and requests: a release wins over every     *)
(* document in flight, its receipt is final, and a row never moves back or  *)
(* expires before its grace (Release, CommitLease, renew, Sweep, Recover).  *)
THEOREM EndsStayFinal == Spec => EndsAreFinal
  <1>1. LeaseInv => FenceWins /\ ReleaseAckFinal
    BY DEF LeaseInv
  <1>2. LeaseInv /\ [Next]_vars => [\A i \in Ids : MovesForward(i, lease[i], lease'[i])]_vars
    BY NextForward
  <1> QED
    BY <1>1, <1>2, LeaseInvariant, PTL DEF Spec, EndsAreFinal, LeaseForward

=============================================================================
