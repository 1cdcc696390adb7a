----------------------------- MODULE ProbeEpoch -----------------------------
(* One-shot runs of the probe programs (assignment_probe_cli.py, static_probe *)
(* _cli.py, static_runtime.py) over the files they share: per channel a locked *)
(* state root with its acceptance state, a manifest archive and the sealed    *)
(* epoch records; for the static channel also the evidence journal and the    *)
(* revocation high water.                                                     *)
(*                                                                            *)
(* A run takes the organic root, the static root or both; with both, its      *)
(* static part is a second thread beside the organic probes.  A file is       *)
(* written in two steps, created ("torn") and complete, and a crash may fall  *)
(* between them.  A run refused before its first write leaves no trace, so a  *)
(* run begins with its locks held, its outputs absent and its anchors fitting. *)
(* Path, mode and option checks before that point are left out.               *)
EXTENDS OrganicScoring, SequencesExt

CONSTANTS
    Slots,          \* processes that can run at the same time
    Manifests,      \* what the publications may serve: records with a channel
    Policy,         \* the pinned trust policy
    Height,         \* the validator's finalized height
    Snapshots,      \* revocation snapshots an operator may deliver
    MaxAge, Skew,   \* how old or early a relied-on snapshot may be
    Probes,         \* probes of an endpoint in one epoch, one in each slice
    EpochTicks,     \* length of an epoch
    FireDelay,      \* how late a probe may still be sent
    Answers,        \* what an organic probe may meet
    Kinds,          \* which programs are run
    Epochs,         \* epochs they are run for
    Dawn, MaxNow,   \* the clock at the start and its bound
    MaxRuns, MaxFaults,     \* bounds on runs and on crashes and faults
    None, Torn      \* no file, and a file created but not complete

ASSUME ProbeBounds ==
    /\ {Dawn, MaxNow, MaxRuns, MaxFaults, FireDelay, MaxAge, Skew} \subseteq Nat
    /\ EpochTicks \in Nat \ {0} /\ Probes \in 1 .. EpochTicks
    /\ Kinds \subseteq {"organic", "both", "static", "handoff"}

VARIABLES
    now,        \* the clock
    seed,       \* the private schedule: offset of each probe in its slice
    roots,      \* per channel: acceptance state, install residue, lock holder
    archive,    \* per channel: manifest id -> "none", "torn" or "whole"
    outputs,    \* per channel: epoch -> None, Torn or a sealed record
    water,      \* the revocation high water file, or None
    journal,    \* the static evidence: observations, and a torn one or None
    procs,      \* the running processes
    spent       \* runs started and faults so far

pvars == <<now, seed, roots, archive, outputs, water, journal, procs, spent>>

Channels == {"organic", "static"}

Uses(kind, c) == kind = "both" \/ kind = c \/ (kind = "handoff" /\ c = "organic")

(* A thread that does not run; head is the manifest it verified, due what it  *)
(* still has to fire.                                                         *)
Resting == [pc |-> "off", head |-> None, due |-> <<>>, obs |-> {}]

Idle == [kind |-> "none", epoch |-> 0, at |-> 0, held |-> None, loaded |-> {},
         offer |-> None, threads |-> [c \in Channels |-> Resting]]

ProbeInit ==
    /\ now = Dawn
    /\ seed \in [1 .. Probes -> 0 .. (EpochTicks \div Probes) - 1]
    /\ roots = [c \in Channels |-> [state |-> None, residue |-> FALSE, lock |-> None]]
    /\ archive = [c \in Channels |-> [m \in {x.id : x \in Manifests} |-> "none"]]
    /\ outputs = [c \in Channels |-> [e \in Epochs |-> None]]
    /\ water = None
    /\ journal = [records |-> {}, torn |-> None]
    /\ procs = [s \in Slots |-> Idle]
    /\ spent = [runs |-> 0, faults |-> 0]

------------------------------------------------------------------------------
(* Time and crashes.  Publications and operators are outside: a run may be    *)
(* served any manifest and any snapshot each time it asks.                    *)

Tick ==
    /\ now < MaxNow
    /\ now' = now + 1
    /\ UNCHANGED <<seed, roots, archive, outputs, water, journal, procs, spent>>

(* The locks a process holds go with it. *)
Leave(s) ==
    /\ procs' = [procs EXCEPT ![s] = Idle]
    /\ roots' = [c \in Channels |->
                    IF roots[c].lock = s THEN [roots[c] EXCEPT !.lock = None] ELSE roots[c]]

Crash(s) ==
    /\ procs[s].kind # "none" /\ spent.faults < MaxFaults
    /\ spent' = [spent EXCEPT !.faults = @ + 1]
    /\ Leave(s)
    /\ UNCHANGED <<now, seed, archive, outputs, water, journal>>

------------------------------------------------------------------------------
(* The beginning of a run.                                                    *)

(* The operator's anchor is genesis for an empty root and the current state   *)
(* otherwise; genesis also refuses the residue of an interrupted install.     *)
AnchorFits(c) == roots[c].state = None => ~roots[c].residue

Prior(c) == IF roots[c].state = None THEN InitialState(Policy) ELSE roots[c].state

(* Mutant: the state root is entered without its lock. *)
LockFreeAlways(c) == TRUE

LockFree(c) == roots[c].lock = None

(* The epoch's output does not exist. *)
Preflight(c, epoch) == outputs[c][epoch] = None

(* An existing journal with a torn tail is refused, never repaired. *)
JournalSound == journal.torn = None

RootReady(c, epoch) ==
    /\ LockFree(c)
    /\ Preflight(c, epoch)
    /\ AnchorFits(c)
    /\ c = "static" => JournalSound

Begin(s, kind, epoch) ==
    LET mine == {c \in Channels : Uses(kind, c)}
    IN  /\ procs[s].kind = "none" /\ kind # "handoff"
        /\ spent.runs < MaxRuns
        /\ now \div EpochTicks <= epoch
        /\ \A c \in mine : RootReady(c, epoch)
        /\ procs' = [procs EXCEPT ![s] =
                        [Idle EXCEPT !.kind = kind, !.epoch = epoch, !.at = now,
                                     !.held = IF "static" \in mine THEN water ELSE None,
                                     !.threads = [c \in Channels |->
                                         [Resting EXCEPT !.pc = CASE c \notin mine -> "off"
                                                                  [] kind = "both" /\ c = "static" -> "wait"
                                                                  [] OTHER -> "load"]]]]
        /\ roots' = [c \in Channels |-> IF c \in mine THEN [roots[c] EXCEPT !.lock = s]
                                        ELSE roots[c]]
        /\ spent' = [spent EXCEPT !.runs = @ + 1]
        /\ UNCHANGED <<now, seed, archive, outputs, water, journal>>

(* persist_verified_manifest_head: a head found elsewhere is verified again   *)
(* under the lock, against the very state the finder started from.            *)
Handoff(s, m) ==
    /\ procs[s].kind = "none" /\ "handoff" \in Kinds
    /\ spent.runs < MaxRuns
    /\ m.channel = "organic" /\ LockFree("organic")
    /\ roots["organic"].state # None
    /\ Verified(m, Policy, roots["organic"].state, now, Height)
    /\ procs' = [procs EXCEPT ![s] =
                    [Idle EXCEPT !.kind = "handoff", !.at = now,
                                 !.threads["organic"].pc = "install",
                                 !.threads["organic"].head = m]]
    /\ roots' = [roots EXCEPT !["organic"].lock = s]
    /\ spent' = [spent EXCEPT !.runs = @ + 1]
    /\ UNCHANGED <<now, seed, archive, outputs, water, journal>>

------------------------------------------------------------------------------
(* The steps of a thread: load and archive, install, probe, seal.             *)

Thread(s, c) == procs[s].threads[c]

Moves(s, c, thread) == procs' = [procs EXCEPT ![s].threads[c] = thread]

(* An organic failure ends the run once the worker is through; a static one   *)
(* makes the static path abstain and leaves the organic record alone.         *)
Stops(s, c) == Moves(s, c, [Resting EXCEPT !.pc = "stopped"])

HeadVerified(p, c, m) ==
    IF roots[c].state = None THEN Anchored(m, Policy, Prior(c), p.at, Height)
    ELSE Verified(m, Policy, Prior(c), p.at, Height)

(* Nothing was served, or not a document of this channel. *)
Unusable(c, m) == m = None \/ m.channel # c

(* Mutant: an archive entry that exists is taken for the manifest. *)
RejectedUnread(p, c, m) ==
    \/ Unusable(c, m)
    \/ ~HeadVerified(p, c, m)

(* The publication cannot be loaded, is not accepted, or its archive entry is *)
(* there with other bytes.                                                    *)
Rejected(p, c, m) ==
    \/ Unusable(c, m)
    \/ ~HeadVerified(p, c, m)
    \/ archive[c][m.id] = "torn"

(* Archive before the state advances; an exact entry is left as it is. *)
Load(s, c, m) ==
    LET fresh == archive[c][m.id] = "none"
    IN  /\ Thread(s, c).pc = "load"
        /\ IF Rejected(procs[s], c, m)
           THEN Stops(s, c) /\ UNCHANGED archive
           ELSE /\ Moves(s, c, [Thread(s, c) EXCEPT !.head = m,
                                   !.pc = IF fresh THEN "archiving" ELSE "install"])
                /\ archive' = IF fresh THEN [archive EXCEPT ![c][m.id] = "torn"] ELSE archive
        /\ UNCHANGED <<now, seed, roots, outputs, water, journal, spent>>

Archived(s, c) ==
    /\ Thread(s, c).pc = "archiving"
    /\ archive' = [archive EXCEPT ![c][Thread(s, c).head.id] = "whole"]
    /\ Moves(s, c, [Thread(s, c) EXCEPT !.pc = "install"])
    /\ UNCHANGED <<now, seed, roots, outputs, water, journal, spent>>

(* The instants a replica's probes are due: one in each slice, at the offset  *)
(* the seed gives; an instant outside the horizon is left out.                *)
Planned(m, replicas, epoch) ==
    LET slice == EpochTicks \div Probes
        At(i) == epoch * EpochTicks + (i - 1) * slice + seed[i]
    IN  {[replica |-> r, index |-> i, at |-> At(i)] :
            r \in replicas, i \in {j \in 1 .. Probes : ValidAt(m, At(j))}}

(* In the order they fire: by instant, then by endpoint, then by index. *)
Schedule(m, replicas, epoch) ==
    LET Before(x, y) ==
            \/ x.at < y.at
            \/ x.at = y.at /\ x.replica.endpoint < y.replica.endpoint
            \/ x.at = y.at /\ x.replica.endpoint = y.replica.endpoint /\ x.index < y.index
    IN  SetToSortSeq(Planned(m, replicas, epoch), Before)

(* Past its install a handoff is done, an organic thread plans its probes and *)
(* lets the static worker go, a static thread meets the revocation gate.      *)
Onward(p, c) ==
    LET t == p.threads[c]
    IN  CASE p.kind = "handoff" -> [p.threads EXCEPT ![c].pc = "done"]
          [] p.kind # "handoff" /\ c = "static" -> [p.threads EXCEPT ![c].pc = "gate"]
          [] OTHER -> [p.threads EXCEPT
                         ![c].pc = "fire", ![c].due = Schedule(t.head, t.head.replicas, p.epoch),
                         !["static"].pc = IF @ = "wait" THEN "load" ELSE @]

(* A head already accepted leaves the state alone (a handoff installs it      *)
(* again); otherwise the residue is removed and a new temporary file opened.  *)
Install(s, c) ==
    LET p == procs[s]
        same == roots[c].state # None /\ Reprobe(Prior(c), Thread(s, c).head)
    IN  /\ Thread(s, c).pc = "install"
        /\ IF same /\ p.kind # "handoff"
           THEN /\ procs' = [procs EXCEPT ![s].threads = Onward(p, c)]
                /\ UNCHANGED roots
           ELSE /\ Moves(s, c, [Thread(s, c) EXCEPT !.pc = "installing"])
                /\ roots' = [roots EXCEPT ![c].residue = TRUE]
        /\ UNCHANGED <<now, seed, archive, outputs, water, journal, spent>>

(* The rename makes the temporary file the state. *)
Installed(s, c) ==
    LET head == Thread(s, c).head
    IN  /\ Thread(s, c).pc = "installing"
        /\ roots' = [roots EXCEPT ![c].residue = FALSE,
                                  ![c].state = IF @ = None THEN AnchoredState(head, Prior(c))
                                               ELSE Advanced(@, head)]
        /\ procs' = [procs EXCEPT ![s].threads = Onward(procs[s], c)]
        /\ UNCHANGED <<now, seed, archive, outputs, water, journal, spent>>

------------------------------------------------------------------------------
(* The revocation gate of the static thread.                                  *)

(* Whether a snapshot may be relied on at the run's evaluation time. *)
Early(snapshot, t) == snapshot.issued > t + Skew
Fresh(snapshot, t) == ~Early(snapshot, t) /\ t - snapshot.issued <= MaxAge


(* advance_static_site_release_revocation: the offered snapshot is later and  *)
(* cumulative; the same one again is a replay, anything else is refused.      *)
Supersedes(held, offer) ==
    \/ held = None
    \/ /\ offer.seq > held.seq /\ offer.issued >= held.issued
       /\ held.revoked \subseteq offer.revoked

Gate(s, offer) ==
    LET t == Thread(s, "static")
    IN  /\ t.pc = "gate"
        /\ CASE offer = None \/ offer = water ->
                  procs' = [procs EXCEPT ![s].threads["static"].pc = "index"]
             [] offer # None /\ offer # water /\ ~Early(offer, procs[s].at)
                /\ Supersedes(water, offer) ->
                  procs' = [procs EXCEPT ![s].threads["static"].pc = "gating",
                                         ![s].offer = offer]
             [] OTHER -> Stops(s, "static")
        /\ UNCHANGED <<now, seed, roots, archive, outputs, water, journal, spent>>

(* The high water is installed by rename; then memory follows. *)
Gated(s) ==
    /\ Thread(s, "static").pc = "gating"
    /\ water' = procs[s].offer
    /\ procs' = [procs EXCEPT ![s].held = procs[s].offer, ![s].offer = None,
                              ![s].threads["static"].pc = "index"]
    /\ UNCHANGED <<now, seed, roots, archive, outputs, journal, spent>>

(* Which of the head's sites that are not revoked yield an authenticated      *)
(* index within the budget is up to their origin.                             *)
Index(s, loaded) ==
    LET p == procs[s]
        t == Thread(s, "static")
        sites == {r.app : r \in t.head.replicas}
        usable == p.held # None /\ Fresh(p.held, p.at)
        targets == {r \in t.head.replicas : r.app \in loaded}
    IN  /\ t.pc = "index"
        /\ loaded \subseteq (IF usable THEN sites \ p.held.revoked ELSE {})
        /\ IF usable
           THEN procs' = [procs EXCEPT ![s].loaded = loaded,
                             ![s].threads["static"] =
                                 [t EXCEPT !.pc = "fire",
                                           !.due = Schedule(t.head, targets, p.epoch)]]
           ELSE Stops(s, "static")
        /\ UNCHANGED <<now, seed, roots, archive, outputs, water, journal, spent>>

------------------------------------------------------------------------------
(* Probing.                                                                   *)

(* The nonce is derived from the seed, the manifest or the site, the epoch    *)
(* and the probe: the same in every run that plans the same probe.            *)
Nonce(c, m, epoch, x) ==
    <<IF c = "organic" THEN m.id ELSE x.replica.app, epoch, x.replica.endpoint, x.index>>

(* Too late for its instant, or out of its epoch: skipped, never sent. *)
Missed(x, epoch) == now - x.at > FireDelay \/ now \div EpochTicks # epoch

Observation(s, c, x, code) ==
    [replica |-> x.replica, manifest |-> Thread(s, c).head.id, at |-> now,
     nonce |-> Nonce(c, Thread(s, c).head, procs[s].epoch, x), code |-> code]

Due(s, c) ==
    /\ Thread(s, c).pc = "fire" /\ Thread(s, c).due # <<>>
    /\ now >= Head(Thread(s, c).due).at

Skip(s, c) ==
    LET t == Thread(s, c)
    IN  /\ Due(s, c) /\ Missed(Head(t.due), procs[s].epoch)
        /\ Moves(s, c, [t EXCEPT !.due = Tail(@)])
        /\ UNCHANGED <<now, seed, roots, archive, outputs, water, journal, spent>>

Fire(s, answer) ==
    LET t == Thread(s, "organic")
    IN  /\ Due(s, "organic") /\ ~Missed(Head(t.due), procs[s].epoch)
        /\ Moves(s, "organic",
                 [t EXCEPT !.due = Tail(@),
                           !.obs = @ \cup {Observation(s, "organic", Head(t.due),
                                                       FailureCode(answer))}])
        /\ UNCHANGED <<now, seed, roots, archive, outputs, water, journal, spent>>


Journaled(o) == \E r \in journal.records : r.nonce = o.nonce

(* A static observation goes to the journal before it is kept; a nonce the    *)
(* journal has seen refuses the append, and the static path abstains.         *)
FireStatic(s) ==
    LET t == Thread(s, "static")
        o == Observation(s, "static", Head(t.due), "unjudged")
    IN  /\ Due(s, "static") /\ ~Missed(Head(t.due), procs[s].epoch)
        /\ IF Journaled(o)
           THEN Stops(s, "static") /\ UNCHANGED journal
           ELSE /\ Moves(s, "static", [t EXCEPT !.pc = "append"])
                /\ journal' = [journal EXCEPT !.torn = o]
        /\ UNCHANGED <<now, seed, roots, archive, outputs, water, spent>>

Appended(s) ==
    LET t == Thread(s, "static")
    IN  /\ t.pc = "append"
        /\ journal' = [records |-> journal.records \cup {journal.torn}, torn |-> None]
        /\ Moves(s, "static", [t EXCEPT !.pc = "fire", !.due = Tail(@),
                                        !.obs = @ \cup {journal.torn}])
        /\ UNCHANGED <<now, seed, roots, archive, outputs, water, spent>>

------------------------------------------------------------------------------
(* Sealing.                                                                   *)

(* What the scorer accepts; one bad observation refuses the epoch.  A static  *)
(* observation must be of an indexed site, but is not held to the horizon.    *)
Accepted(s, c) ==
    LET t == Thread(s, c)
    IN  IF c = "organic" THEN EpochAccepted({t.head}, t.obs, procs[s].epoch, EpochTicks)
        ELSE \A o \in t.obs : /\ o.at \div EpochTicks = procs[s].epoch
                              /\ o.replica.app \in procs[s].loaded

EpochRecord(s, c) ==
    [epoch |-> procs[s].epoch, obs |-> Thread(s, c).obs, loaded |-> procs[s].loaded,
     snapshot |-> IF c = "static" THEN procs[s].held ELSE None]

(* The static record waits for the organic one of the same run. *)
Seal(s, c) ==
    LET p == procs[s]
    IN  /\ Thread(s, c).pc = "fire" /\ Thread(s, c).due = <<>>
        /\ p.kind = "both" /\ c = "static" => p.threads["organic"].pc = "done"
        /\ IF Accepted(s, c) /\ Preflight(c, p.epoch)
           THEN /\ Moves(s, c, [Thread(s, c) EXCEPT !.pc = "sealing"])
                /\ outputs' = [outputs EXCEPT ![c][p.epoch] = Torn]
           ELSE Stops(s, c) /\ UNCHANGED outputs
        /\ UNCHANGED <<now, seed, roots, archive, water, journal, spent>>

Sealed(s, c) ==
    /\ Thread(s, c).pc = "sealing"
    /\ outputs' = [outputs EXCEPT ![c][procs[s].epoch] = EpochRecord(s, c)]
    /\ Moves(s, c, [Thread(s, c) EXCEPT !.pc = "done"])
    /\ UNCHANGED <<now, seed, roots, archive, water, journal, spent>>

(* A write or a fetch fails in a way the step does not expect. *)
Fault(s, c) ==
    /\ Thread(s, c).pc \notin {"off", "wait", "done", "stopped"}
    /\ spent.faults < MaxFaults
    /\ spent' = [spent EXCEPT !.faults = @ + 1]
    /\ Stops(s, c)
    /\ UNCHANGED <<now, seed, roots, archive, outputs, water, journal>>

(* Mutant: a failed run still waits for its static part to be sealed. *)
ThroughSealed(p) ==
    /\ p.threads["organic"].pc \in {"off", "done", "stopped"}
    /\ p.threads["static"].pc \in {"off", "done", "stopped"}

(* Every thread is through; the static part of a failed run is not sealed. *)
Through(p) ==
    LET organic == p.threads["organic"]
        static == p.threads["static"]
    IN  /\ organic.pc \in {"off", "done", "stopped"}
        /\ \/ static.pc \in {"off", "done", "stopped"}
           \/ organic.pc = "stopped" /\ static.pc = "wait"
           \/ organic.pc = "stopped" /\ static.pc = "fire" /\ static.due = <<>>

End(s) ==
    /\ procs[s].kind # "none" /\ Through(procs[s])
    /\ Leave(s)
    /\ UNCHANGED <<now, seed, archive, outputs, water, journal, spent>>

------------------------------------------------------------------------------
ThreadStep(s, c) ==
    \/ \E m \in Manifests \cup {None} : Load(s, c, m)
    \/ Archived(s, c)
    \/ Install(s, c)
    \/ Installed(s, c)
    \/ Skip(s, c)
    \/ Seal(s, c)
    \/ Sealed(s, c)

OrganicStep(s) == ThreadStep(s, "organic") \/ \E a \in Answers : Fire(s, a)

StaticStep(s) ==
    \/ ThreadStep(s, "static")
    \/ \E o \in Snapshots \cup {None} : Gate(s, o)
    \/ Gated(s)
    \/ \E loaded \in SUBSET {r.app : r \in UNION {m.replicas : m \in Manifests}} :
          Index(s, loaded)
    \/ FireStatic(s)
    \/ Appended(s)

ProgramStep(s) ==
    /\ procs[s].kind # "none"
    /\ End(s) \/ OrganicStep(s) \/ StaticStep(s)

ProbeNext ==
    \/ Tick
    \/ \E s \in Slots :
          \/ \E kind \in Kinds, epoch \in Epochs : Begin(s, kind, epoch)
          \/ \E m \in Manifests : Handoff(s, m)
          \/ ProgramStep(s)
          \/ \E c \in Channels : Fault(s, c)
          \/ Crash(s)

ProbeSpec == ProbeInit /\ [][ProbeNext]_pvars

(* A started program is scheduled, some thread of it, and time goes on. *)
ProbeFair == WF_pvars(Tick) /\ \A s \in Slots : WF_pvars(ProgramStep(s))

------------------------------------------------------------------------------
Sealings(c) == {outputs[c][e] : e \in Epochs} \ {None, Torn}

(* Every sealed epoch can be replayed from what is on disk: each manifest its *)
(* observations name is complete in the archive of its channel, whatever      *)
(* crashes, faults and handoffs came before (_archive_document runs before    *)
(* replace_state and refuses an entry with other bytes).                      *)
EpochReplayable ==
    \A c \in Channels : \A rec \in Sealings(c) : \A o \in rec.obs :
        archive[c][o.manifest] = "whole"

(* The acceptance state of a root only ever moves to a direct successor of    *)
(* the manifest it holds: no run and no handoff, however they interleave,     *)
(* rolls it back, forks it or loses an acceptance (_StateRoot._lock,          *)
(* _verify_head, persist_verified_manifest_head).                             *)
ChainExtends ==
    [][\A c \in Channels :
          LET old == roots[c].state
              new == roots'[c].state
          IN  old # None /\ new # old =>
                 /\ new # None /\ new.count = old.count + 1
                 /\ \E m \in Manifests : m.id = new.digest /\ m.prev = old.digest]_pvars

(* A static record stands on a revocation snapshot that the durable high      *)
(* water still covers, and none of its sites was revoked by it; so no later   *)
(* run can rely on less (_revocation_gate, _install_revocation_high_water,    *)
(* advance_static_site_release_revocation).                                   *)
RevocationsHeld ==
    \A rec \in Sealings("static") :
        /\ rec.snapshot # None /\ water # None
        /\ rec.snapshot.seq <= water.seq /\ rec.snapshot.revoked \subseteq water.revoked
        /\ rec.loaded \cap rec.snapshot.revoked = {}

(* Static evidence is durable before it counts and is never made twice: every *)
(* observation of a static record is in the journal, and no two entries of    *)
(* the journal share a nonce, although a rerun plans the same nonces again    *)
(* (StaticEvidenceJournal.append before run.observations.append).             *)
EvidenceJournaled ==
    /\ \A rec \in Sealings("static") : rec.obs \subseteq journal.records
    /\ \A o, p \in journal.records : o # p => o.nonce # p.nonce

(* What an epoch sealed can be audited: its manifests are archived whole and  *)
(* its static observations journaled once.                                    *)
EpochsEvidenced == EpochReplayable /\ EvidenceJournaled

(* What publishers decided is never taken back on this validator: neither the *)
(* acceptance of a manifest nor a revocation.                                 *)
AuthorityForward == ChainExtends /\ []RevocationsHeld

(* A run that starts comes to an end and frees its locks, even when its       *)
(* organic part fails while its static worker is still busy (the executor of  *)
(* _run_with_static joins the worker; the roots are closed on every path).    *)
ProbeEnds == \A s \in Slots : (procs[s].kind # "none") ~> (procs[s].kind = "none")

=============================================================================
