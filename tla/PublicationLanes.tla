--------------------------- MODULE PublicationLanes ---------------------------
(***************************************************************************)
(* The validator's miner-set publications (validator.py).  For every block *)
(* the validator stages one lane - the exact tuple of metagraph snapshot,  *)
(* miner handles and signed bindings - writes it to its state database,    *)
(* posts it to the Go runtime and commits it once Go acknowledges it.  Go  *)
(* signs tickets from the publication it installed last, and the validator *)
(* must resolve each ticket to that exact lane, although responses get     *)
(* lost, either process restarts, and ticket requests run concurrently     *)
(* with the block loop.                                                    *)
(*                                                                         *)
(* A lane is its block, its miners and a version: the version stands for   *)
(* the signed bindings and their expiry, so two lanes of one block and one *)
(* miner set share a publication id and may still be different tuples.     *)
(***************************************************************************)
EXTENDS Naturals, FiniteSets

CONSTANTS Miners,      \* hotkeys of the subnet's miners
          MaxLaneBlock,    \* bound on the chain's height
          Versions,    \* signed bindings a tuple can be built from
          Window,      \* Window[v]: blocks for which bindings v authorize work
          MaxHistory,  \* MAX_HISTORICAL_PUBLICATIONS
          MaxLaneCrashes,  \* bound on validator crashes
          MaxGoStarts, \* bound on restarts of the Go runtime
          LatePosts,   \* may a POST take effect after its client gave up?
          NoLane

ASSUME LaneAssumption ==
    /\ MaxLaneBlock \in Nat /\ MaxHistory \in Nat \ {0}
    /\ Window \in [Versions -> Nat \ {0}]
    /\ LatePosts \in BOOLEAN

VARIABLES
    store,       \* rows of validator_publication_lanes (durable)
    head,        \* height of the finalized chain (external)
    view,        \* block of MetagraphState, 0 before the first sync
    ready,       \* the ready event
    committed,   \* _committed_publication
    staged,      \* _staged_publication
    historical,  \* _historical_publications
    ambiguous,   \* _ambiguous_publications
    quarantined, \* _quarantined_publications
    cleanup,     \* hotkeys of _cleanup_miners
    loop,        \* where the block loop is, with its local variables
    ticket,      \* one bridge request for a ticket, with its local variables
    go,          \* the Go runtime: installed publication and posts under way
    issued,      \* history: lanes this Go process installed, so issued tickets from
    acked,       \* history: every lane Go ever installed
    laneCrashes, goStarts

lanes == <<committed, staged, historical, ambiguous, quarantined>>
memory == <<view, ready, cleanup, lanes>>
laneBounds == <<laneCrashes, goStarts>>
lvars == <<store, memory, head, loop, ticket, go, issued, acked, laneBounds>>

Lane == [block : 1..MaxLaneBlock, miners : SUBSET Miners, ver : Versions]
Id(l) == <<l.block, l.miners>>
Expires(l) == l.block + Window[l.ver]
Ids(S) == {Id(l) : l \in S}
Only(l) == IF l = NoLane THEN {} ELSE {l}

Idle == [pc |-> "idle", found |-> {}, was |-> NoLane, prior |-> NoLane, inv |-> NoLane,
         lane |-> NoLane]
NoTicket == [pc |-> "none", t |-> NoLane, lane |-> NoLane, handles |-> {}, at |-> 0,
             inv |-> NoLane]

(***************************************************************************)
(* The durable store.                                                      *)
(***************************************************************************)
RowOf(rows, l) == {r \in rows : Id(r.lane) = Id(l)}

(* Saving refuses a second tuple under a known id, a restage of a row that *)
(* was never authenticated, and a row beyond the persisted bound.          *)
SaveRefused(rows, l, commit) ==
    IF RowOf(rows, l) # {}
    THEN \E r \in RowOf(rows, l) : r.lane # l \/ (~commit /\ ~r.auth)
    ELSE Cardinality({r \in rows : commit => r.committed}) >= MaxHistory + 2

(* Mutant: the superseded rows stay current. *)
SavedUndrained(rows, l, commit, drain) ==
    LET row == [lane |-> l, committed |-> commit, drain |-> drain, auth |-> TRUE]
        others == {r \in rows : Id(r.lane) # Id(l)}
    IN IF commit THEN {row} \cup {q \in others : q.committed /\ q.auth}
       ELSE IF RowOf(rows, l) = {} THEN rows \cup {row} ELSE rows
(* A commit makes every other committed row drain-only and drops the       *)
(* uncommitted and the unauthenticated ones, all in one transaction.       *)
Saved(rows, l, commit, drain) ==
    LET row == [lane |-> l, committed |-> commit, drain |-> drain, auth |-> TRUE]
        others == {r \in rows : Id(r.lane) # Id(l)}
        drained == {[r EXCEPT !.drain = TRUE] : r \in
                        {q \in others : q.committed /\ q.auth}}
    IN IF commit THEN {row} \cup drained
       ELSE IF RowOf(rows, l) = {} THEN rows \cup {row} ELSE rows

WithoutUncommitted(rows, S) == {r \in rows : r.committed \/ Id(r.lane) \notin S}
Pruned(rows, block, protected) ==
    {r \in rows : block < Expires(r.lane) \/ Id(r.lane) \in protected}

(***************************************************************************)
(* The lanes in memory.                                                    *)
(***************************************************************************)
Live(S, block) == {l \in S : block < Expires(l)}
Protected == Ids(ambiguous \cup Only(committed) \cup Only(staged))

(* Pruning fails closed when too many unexpired lanes remain.              *)
PruneRefused(S, current, block) ==
    Cardinality(Live(S, block)) > MaxHistory + (IF current = NoLane THEN 1 ELSE 0)

CapacityRefused(l) ==
    LET kept == {h \in Live(historical, l.block) : Id(h) # Id(l)}
        more == {c \in Only(committed) : Id(c) # Id(l) /\ l.block < Expires(c)}
    IN \/ PruneRefused(historical, committed, l.block)
       \/ Cardinality(kept) + Cardinality(more) > MaxHistory

(* The lane a publication id names: the staged one shadows the committed   *)
(* one, which shadows restored and historical ones.                        *)
Named(id) ==
    LET pick(S) == {l \in S : Id(l) = id}
        tiers == <<pick(Only(staged)), pick(Only(committed)), pick(ambiguous),
                   pick(historical)>>
        first == {i \in 1..4 : tiers[i] # {} /\ \A j \in 1..(i - 1) : tiers[j] = {}}
    IN IF first = {} THEN NoLane
       ELSE CHOOSE l \in tiers[CHOOSE i \in first : TRUE] : TRUE

CommitRefused(l) ==
    \/ staged # NoLane /\ staged # l
    \/ CapacityRefused(l)
    \/ SaveRefused(Pruned(store, l.block, Protected), l, TRUE)

(* What a refused capacity check has already pruned.                       *)
Tidy(block) ==
    /\ historical' = Live(historical, block)
    /\ store' = IF PruneRefused(historical, committed, block) THEN store
                ELSE Pruned(store, block, Protected)
    /\ UNCHANGED <<committed, staged, ambiguous, quarantined>>

(* _commit_miner_view_locked: the durable commit, then memory, then a      *)
(* second pruning that no longer protects the superseded publication.      *)
CommitStore(l, drain) == Saved(Pruned(store, l.block, Protected), l, TRUE, drain)
(* Mutant: the publication that was current is not kept. *)
SupersededForgotten(l) == {h \in Live(historical, l.block) : Id(h) # Id(l)}
Superseded(l) ==
    {h \in Live(historical, l.block) : Id(h) # Id(l)}
        \cup {c \in Only(committed) : Id(c) # Id(l) /\ l.block < Expires(c)}
Commit(l, drain) ==
    /\ store' = Pruned(CommitStore(l, drain), l.block, {Id(l)})
    /\ historical' = Superseded(l)
    /\ committed' = l /\ staged' = NoLane /\ ambiguous' = {} /\ quarantined' = {}
CommitOrFail(l, drain) ==
    IF ~CommitRefused(l) THEN Commit(l, drain)
    ELSE IF staged \in {NoLane, l} THEN Tidy(l.block) ELSE UNCHANGED <<store, lanes>>

ClearStaged(l) ==
    IF staged # l THEN UNCHANGED <<store, lanes>>
    ELSE /\ staged' = NoLane
         /\ ambiguous' = ambiguous \ {l}
         /\ store' = WithoutUncommitted(store, {Id(l)})
         /\ UNCHANGED <<committed, historical, quarantined>>

(* _reconcile_committed_inventory against an inventory that names lane i.  *)
(* The last case rebuilds a lane that is in no record from the retained    *)
(* cleanup handles, only for the very block in hand.                       *)
Reconcilable(i, at) ==
    LET exact == Named(Id(i))
        legacy == {q \in quarantined : Id(q) = Id(i)}
    IN /\ i.block <= at
       /\ exact # NoLane => exact = i /\ (staged # NoLane => exact \in {staged, committed})
       /\ exact = NoLane => staged = NoLane
       /\ exact = NoLane /\ legacy # {} => i \in legacy
       /\ exact = NoLane /\ legacy = {} => i.block = at /\ i.miners \subseteq cleanup
Settled(i) == committed = i /\ staged # i
Reconcile(i, at) ==
    IF Settled(i) \/ ~Reconcilable(i, at) THEN UNCHANGED <<store, lanes>>
    ELSE CommitOrFail(i, i # staged)
Fails(i, at) == ~Settled(i) /\ Reconcilable(i, at) /\ CommitRefused(i)
Reconciles(i, at) == i.block <= at /\ (Settled(i) \/ Reconcilable(i, at)) /\ ~Fails(i, at)

(***************************************************************************)
(* The block loop.                                                         *)
(***************************************************************************)
outside == <<head, go, ticket, issued, acked, laneBounds>>
LaneAt(pc) == loop.pc = pc
LaneGoto(pc) == loop' = [loop EXCEPT !.pc = pc] /\ UNCHANGED ready

(* A failed pass keeps the committed view, or withdraws readiness when     *)
(* there is none, and starts over at the next tick.                        *)
Abandon == loop' = Idle /\ ready' = (ready /\ committed # NoLane)

(* A pass reads the chain.  A lagging RPC may answer with an older block,  *)
(* but never with one below the block already taken (MetagraphState.set).  *)
LoopSync ==
    /\ LaneAt("idle")
    /\ \E b \in ((head - 1)..(head + 1)) \cap (1..MaxLaneBlock) :
         /\ b >= view
         /\ view' = b
         /\ head' = IF b > head THEN b ELSE head
    /\ LaneGoto("synced")
    /\ UNCHANGED <<store, cleanup, lanes, go, ticket, issued, acked, laneBounds>>

(* The runtime has accepted the chain state: tickets may be resolved now,  *)
(* before this pass has discovered or published anything.                  *)
LoopReady ==
    /\ LaneAt("synced")
    /\ loop' = [loop EXCEPT !.pc = "discover"] /\ ready' = TRUE
    /\ UNCHANGED <<store, view, cleanup, lanes, outside>>

(* Discovery answers with some of the miners and keeps their handles.      *)
LoopDiscover ==
    /\ LaneAt("discover")
    /\ \E D \in SUBSET Miners :
         /\ loop' = [loop EXCEPT !.pc = "publish", !.found = D]
         /\ cleanup' = cleanup \cup D
    /\ UNCHANGED <<store, view, ready, lanes, outside>>

(* Chain, runtime or discovery errors, and inventory reads that fail.      *)
LoopError ==
    /\ loop.pc \in {"synced", "discover", "reconcile", "lost", "garbled"}
    /\ Abandon
    /\ UNCHANGED <<store, view, cleanup, lanes, outside>>

Restarted ==
    /\ staged = NoLane /\ committed = NoLane
    /\ historical \cup ambiguous \cup quarantined # {} \/ cleanup # {}

(* _reconcile_before_staging reads both lanes under the lock and then asks *)
(* Go for its inventory without holding it.                                *)
LoopPublish ==
    /\ LaneAt("publish")
    /\ loop' = IF staged = NoLane /\ ~Restarted THEN [loop EXCEPT !.pc = "stage"]
               ELSE [loop EXCEPT !.pc = "reconcile", !.was = staged, !.prior = committed]
    /\ UNCHANGED <<store, memory, outside>>

LoopInventory ==
    /\ loop.pc \in {"reconcile", "lost", "garbled"}
    /\ loop' = [loop EXCEPT !.inv = go.pub,
                            !.pc = CASE loop.pc = "reconcile" -> "apply"
                                     [] loop.pc = "lost" -> "lostApply"
                                     [] OTHER -> "garbledApply"]
    /\ UNCHANGED <<store, memory, outside>>

(* After a restart: an inventory that is not ready proves there is nothing *)
(* to preserve; a ready one must name a lane the validator can rebuild.    *)
ApplyRestart ==
    /\ LaneAt("apply") /\ loop.was = NoLane
    /\ \/ /\ loop.inv = NoLane /\ staged = NoLane
          /\ ambiguous' = {} /\ quarantined' = {}
          /\ store' = {r \in store : r.committed /\ r.auth}
          /\ LaneGoto("stage")
          /\ UNCHANGED <<committed, staged, historical>>
       \/ /\ loop.inv # NoLane /\ Reconcile(loop.inv, view)
          /\ IF Reconciles(loop.inv, view) THEN LaneGoto("stage") ELSE Abandon
    /\ UNCHANGED <<view, cleanup, outside>>

(* With a retained stage: Go installed it, or provably kept the previous   *)
(* publication, or the stage stays ambiguous and blocks the pass.          *)
ApplyRetained ==
    /\ LaneAt("apply") /\ loop.was # NoLane
    /\ \/ /\ loop.inv = loop.was /\ staged = loop.was
          /\ CommitOrFail(loop.was, FALSE)
          /\ IF CommitRefused(loop.was) THEN Abandon ELSE LaneGoto("stage")
       \/ /\ loop.inv = loop.was /\ staged # loop.was
          /\ Abandon /\ UNCHANGED <<store, lanes>>
       \/ /\ loop.inv # loop.was /\ loop.inv \in {loop.prior, NoLane}
          /\ ClearStaged(loop.was) /\ LaneGoto("stage")
       \/ /\ loop.inv \notin {loop.was, loop.prior, NoLane}
          /\ Abandon /\ UNCHANGED <<store, lanes>>
    /\ UNCHANGED <<view, cleanup, outside>>

(* _stage_publication_locked writes the lane before it is posted.          *)
StageRefused(l) ==
    \/ staged # NoLane \/ ambiguous # {} \/ quarantined # {}
    \/ CapacityRefused(l)
    \/ SaveRefused(Pruned(store, l.block, Protected), l, FALSE)
LoopStage ==
    /\ LaneAt("stage")
    /\ \E v \in Versions :
         LET l == [block |-> view, miners |-> loop.found, ver |-> v] IN
         \/ /\ ~StageRefused(l)
            /\ store' = Saved(Pruned(store, l.block, Protected), l, FALSE, FALSE)
            /\ historical' = Live(historical, l.block)
            /\ staged' = l /\ ambiguous' = {l}
            /\ loop' = [Idle EXCEPT !.pc = "post", !.lane = l]
            /\ UNCHANGED <<ready, committed, quarantined>>
         \/ /\ StageRefused(l)
            /\ IF staged = NoLane /\ ambiguous = {} /\ quarantined = {} THEN Tidy(l.block)
               ELSE UNCHANGED <<store, lanes>>
            /\ Abandon
    /\ UNCHANGED <<view, cleanup, outside>>

LoopPost ==
    /\ LaneAt("post")
    /\ go' = [go EXCEPT !.wire = @ \cup {loop.lane}, !.answer = "none"]
    /\ LaneGoto("wait")
    /\ UNCHANGED <<store, view, cleanup, lanes, head, ticket, issued, acked,
                   laneBounds>>

(* The end of a pass: commit the acknowledged stage, unless a concurrent   *)
(* ticket request has committed that very tuple already.                   *)
Acknowledged(l) ==
    \/ /\ staged = l /\ CommitOrFail(l, FALSE)
       /\ IF CommitRefused(l) THEN Abandon ELSE loop' = Idle /\ UNCHANGED ready
    \/ /\ staged # l /\ UNCHANGED <<store, lanes>>
       /\ IF committed = l THEN loop' = Idle /\ UNCHANGED ready ELSE Abandon

LoopAnswer ==
    /\ LaneAt("wait") /\ go.answer # "none"
    /\ \/ go.answer = "ok" /\ Acknowledged(loop.lane)
       \/ go.answer = "rejected" /\ ClearStaged(loop.lane) /\ Abandon
       \/ go.answer = "garbled" /\ LaneGoto("garbled") /\ UNCHANGED <<store, lanes>>
    /\ UNCHANGED <<view, cleanup, outside>>

(* The POST fails without an answer: Go may or may not have installed it,  *)
(* and with LatePosts it may still do so.                                  *)
LoopLost ==
    /\ LaneAt("wait")
    /\ LaneGoto("lost")
    /\ go' = [go EXCEPT !.wire = IF LatePosts THEN @ ELSE {}, !.answer = "none"]
    /\ UNCHANGED <<store, view, cleanup, lanes, head, ticket, issued, acked,
                   laneBounds>>

(* Mutant: whatever Go lists after a lost answer confirms the stage. *)
LostApplyTrusting ==
    /\ LaneAt("lostApply")
    /\ Acknowledged(loop.lane)
    /\ UNCHANGED <<view, cleanup, outside>>
(* Reading the inventory back after a lost answer: the prior publication   *)
(* is taken as proof that the stage was never installed.                   *)
LostApply ==
    /\ LaneAt("lostApply")
    /\ \/ loop.inv = loop.lane /\ Acknowledged(loop.lane)
       \/ /\ loop.inv # loop.lane /\ loop.inv \in {committed, NoLane}
          /\ ClearStaged(loop.lane) /\ Abandon
       \/ /\ loop.inv \notin {loop.lane, committed, NoLane}
          /\ Abandon /\ UNCHANGED <<store, lanes>>
    /\ UNCHANGED <<view, cleanup, outside>>

GarbledApply ==
    /\ LaneAt("garbledApply")
    /\ \/ loop.inv = loop.lane /\ Acknowledged(loop.lane)
       \/ loop.inv # loop.lane /\ Abandon /\ UNCHANGED <<store, lanes>>
    /\ UNCHANGED <<view, cleanup, outside>>

(***************************************************************************)
(* The Go runtime (external): what the validator relies on.                *)
(***************************************************************************)
GoInstall(l) ==
    /\ l \in go.wire
    /\ go.pub # NoLane => go.pub.block <= l.block
    /\ \E a \in {"ok", "garbled"} :
         go' = [pub |-> l, wire |-> go.wire \ {l},
                answer |-> IF LaneAt("wait") /\ loop.lane = l THEN a ELSE go.answer]
    /\ issued' = issued \cup {l} /\ acked' = acked \cup {l}
    /\ UNCHANGED <<store, memory, head, loop, ticket, laneBounds>>

GoReject(l) ==
    /\ l \in go.wire
    /\ go' = [go EXCEPT !.wire = @ \ {l},
                        !.answer = IF LaneAt("wait") /\ loop.lane = l THEN "rejected" ELSE @]
    /\ UNCHANGED <<store, memory, head, loop, ticket, issued, acked, laneBounds>>

(* A restarted runtime has installed nothing and knows no old ticket.      *)
GoRestart ==
    /\ goStarts < MaxGoStarts
    /\ goStarts' = goStarts + 1
    /\ go' = [pub |-> NoLane, wire |-> {}, answer |-> "none"]
    /\ issued' = {} /\ ticket' = NoTicket
    /\ UNCHANGED <<store, memory, head, loop, acked, laneCrashes>>

(***************************************************************************)
(* A ticket request.  A ticket names its block and its miner, so it fits   *)
(* every lane of that block that has the miner.                            *)
(***************************************************************************)
Fits(t, l) == l.block = t.block /\ Expires(l) = t.expires /\ t.miner \in l.miners
TicketOf(l, m) == [block |-> l.block, expires |-> Expires(l), miner |-> m]
inside == <<head, loop, go, issued, acked, laneBounds>>

(* The committed lane shadows a staged one of its id, and both shadow the  *)
(* historical one.                                                         *)
Handles(t) ==
    {l \in Only(committed) \cup Only(staged) \cup historical :
        t.miner \in l.miners /\ (Id(l) \in Ids(Only(committed)) => l = committed)}

TicketVerdict(t, handles, block) ==
    LET exact == {l \in handles : Fits(t, l)}
        valid == Live(exact, block)
    IN CASE exact = {} -> "refused"
         [] exact # {} /\ valid = {} -> "expired"
         [] valid # {} /\ Cardinality({l.ver : l \in valid}) > 1 -> "ambiguous"
         [] OTHER -> "resolved"

(* A restart, an ambiguous lane or a retained cleanup handle that differs  *)
(* from the published one makes a request consult Go before it decides.    *)
MustAsk(t) ==
    \/ /\ committed = NoLane
       /\ Handles(t) \cup ambiguous \cup quarantined # {} \/ t.miner \in cleanup
    \/ \E a \in ambiguous : Fits(t, a)
MayAsk(t) == MustAsk(t) \/ t.miner \in cleanup

TicketAsk ==
    /\ ready /\ ticket = NoTicket
    /\ \E l \in issued : \E m \in l.miners :
         LET t == TicketOf(l, m) IN
         \/ ~MustAsk(t) /\ UNCHANGED ticket
         \/ /\ MayAsk(t)
            /\ ticket' = [NoTicket EXCEPT !.pc = "ask", !.t = t, !.lane = l, !.at = view,
                                          !.handles = Handles(t)]
    /\ ~PruneRefused(historical, committed, view)
    /\ historical' = Live(historical, view)
    /\ store' = Pruned(store, view, Protected)
    /\ UNCHANGED <<view, ready, cleanup, committed, staged, ambiguous, quarantined>>
    /\ UNCHANGED inside

(* An unreadable inventory ends the request with the handles it has.       *)
TicketInventory ==
    /\ ticket.pc = "ask"
    /\ \/ ticket' = [ticket EXCEPT !.pc = "apply", !.inv = go.pub, !.handles = {}]
       \/ ticket' = NoTicket
    /\ UNCHANGED <<store, memory, inside>>

TicketReconcile ==
    /\ ticket.pc = "apply"
    /\ IF ticket.inv = NoLane THEN UNCHANGED <<store, lanes>>
       ELSE Reconcile(ticket.inv, ticket.at)
    /\ ticket' = IF ticket.inv # NoLane /\ Fails(ticket.inv, ticket.at) THEN NoTicket
                 ELSE [ticket EXCEPT !.pc = "reread", !.inv = NoLane]
    /\ UNCHANGED <<view, ready, cleanup, inside>>

TicketDecide ==
    /\ ticket.pc = "reread"
    /\ ticket' = NoTicket
    /\ UNCHANGED <<store, memory, inside>>

(***************************************************************************)
(* A sandbox reservation replay reads the lanes only: it resolves its lane *)
(* before and again after it has contacted the miner.                      *)
(***************************************************************************)
Uncertain == ambiguous \cup quarantined \cup Only(staged)
Acknowledgements == historical \cup Only(committed)

(* The lanes a replay may use for ticket t: only acknowledged ones, none   *)
(* while an uncertain one also fits, all of one version, and unexpired in  *)
(* a chain view that is not behind history.                                *)
ReplayLanes(t) ==
    {h \in Acknowledgements :
        /\ Fits(t, h)
        /\ \A u \in Uncertain : ~Fits(t, u)
        /\ \A k \in Acknowledgements : Fits(t, k) => k.ver = h.ver
        /\ view >= t.block /\ view < Expires(h)}

(***************************************************************************)
(* A crash of the validator, and its start from the stored rows.           *)
(***************************************************************************)
Lanes(rows) == {r.lane : r \in rows}
RestoredLanes(rows) ==
    /\ historical' = Lanes({r \in rows : r.auth /\ r.committed})
    /\ ambiguous' = Lanes({r \in rows : r.auth /\ ~r.committed})
    /\ quarantined' = Lanes({r \in rows : ~r.auth})
    /\ committed' = NoLane /\ staged' = NoLane
    /\ view' = 0 /\ ready' = FALSE /\ cleanup' = {}
    /\ loop' = Idle /\ ticket' = NoTicket

(* What the start asserts about the rows it loads.                         *)
Restorable(rows) ==
    LET durable == {r \in rows : r.auth} IN
    /\ Cardinality({r \in durable : r.committed}) <= MaxHistory + 1
    /\ Cardinality({r \in durable : ~r.committed}) <= 1
    /\ Cardinality({r \in durable : r.committed /\ ~r.drain}) <= 1
    /\ Cardinality(rows) <= MaxHistory + 2

(* A crash anywhere, or between a commit's transaction and its pruning.    *)
Crash ==
    /\ laneCrashes < MaxLaneCrashes
    /\ laneCrashes' = laneCrashes + 1
    /\ \E rows \in {store} \cup
             (IF LaneAt("wait") /\ go.answer = "ok" /\ staged = loop.lane /\ ~CommitRefused(staged)
              THEN {CommitStore(staged, FALSE)} ELSE {}) :
         store' = rows /\ Restorable(rows) /\ RestoredLanes(rows)
    /\ go' = [go EXCEPT !.wire = IF LatePosts THEN @ ELSE {}, !.answer = "none"]
    /\ UNCHANGED <<head, issued, acked, goStarts>>

(***************************************************************************)
(* The first start finds no rows, or one row an older release wrote        *)
(* without an authenticator for the lane Go has installed.                 *)
(***************************************************************************)
LaneInit ==
    /\ head = 1 /\ view = 0 /\ ready = FALSE /\ cleanup = {}
    /\ committed = NoLane /\ staged = NoLane
    /\ historical = {} /\ ambiguous = {}
    /\ \E old \in {{}} \cup {{[block |-> 1, miners |-> M, ver |-> v]} :
                                 M \in SUBSET Miners, v \in Versions} :
         /\ quarantined = old /\ issued = old /\ acked = old
         /\ store = {[lane |-> l, committed |-> TRUE, drain |-> TRUE, auth |-> FALSE] : l \in old}
         /\ go = [pub |-> IF old = {} THEN NoLane ELSE CHOOSE l \in old : TRUE,
                  wire |-> {}, answer |-> "none"]
    /\ loop = Idle /\ ticket = NoTicket
    /\ laneCrashes = 0 /\ goStarts = 0

Loop ==
    \/ LoopSync \/ LoopReady \/ LoopDiscover \/ LoopError \/ LoopPublish \/ LoopInventory
    \/ ApplyRestart \/ ApplyRetained \/ LoopStage \/ LoopPost \/ LoopAnswer \/ LoopLost
    \/ LostApply \/ GarbledApply
Requests == TicketAsk \/ TicketInventory \/ TicketReconcile \/ TicketDecide
Go == GoRestart \/ \E l \in go.wire : GoInstall(l) \/ GoReject(l)
LaneNext == Loop \/ Requests \/ Go \/ Crash
LaneSpec == LaneInit /\ [][LaneNext]_lvars

(***************************************************************************)
(* Properties.                                                             *)
(***************************************************************************)
Honoured(l, at, verdict) ==
    verdict \in {"refused", "expired"} => head >= Expires(l) \/ at < l.block

(* A ticket that the running Go process issued from an installed           *)
(* publication is never refused or called expired (_remote_for_ticket)     *)
(* while its lane is within its window and the validator's view has        *)
(* reached the lane's block: not during a republication, not after a lost  *)
(* answer, and not after a restart of the validator.                       *)
TicketsHonoured ==
    /\ ticket.pc = "reread" =>
          Honoured(ticket.lane, ticket.at, TicketVerdict(ticket.t, Handles(ticket.t), ticket.at))
    /\ ticket.pc = "ask" /\ (\E h \in ticket.handles : Fits(ticket.t, h)) =>
          Honoured(ticket.lane, ticket.at, TicketVerdict(ticket.t, ticket.handles, ticket.at))
    /\ ready => \A l \in issued : \A m \in l.miners :
          ~MustAsk(TicketOf(l, m)) =>
             Honoured(l, view, TicketVerdict(TicketOf(l, m), Handles(TicketOf(l, m)), view))

(* A stage that Go acknowledged can always be committed: the capacity that *)
(* staging checked (_ensure_historical_capacity_locked) is still there     *)
(* when the commit checks it again.                                        *)
AckedCommits == LaneAt("wait") /\ go.answer = "ok" /\ staged = loop.lane => ~CommitRefused(staged)

(* The rows on disk always pass the checks of the next start               *)
(* (_restore_durable_publications, _validate_bounds), wherever a crash     *)
(* falls: at most MaxHistory + 1 committed rows, one stage, one current.   *)
RestoreSucceeds == Restorable(store)

(* The bounds never stand in the way of what already happened: an          *)
(* acknowledged stage commits, and every start restores the rows           *)
(* (_commit_miner_view_locked, _restore_durable_publications).             *)
BoundsSuffice == AckedCommits /\ RestoreSucceeds

(* The lanes that authorize work on their own - the committed and the      *)
(* historical ones, and so those a reservation replay may use - are lanes  *)
(* Go has installed: no lost or garbled answer promotes a stage.           *)
AuthorityFromGo ==
    /\ Acknowledgements \subseteq acked
    /\ \A l \in acked : \A m \in l.miners : ReplayLanes(TicketOf(l, m)) \subseteq acked
=============================================================================
