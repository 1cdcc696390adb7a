-------------------------- MODULE CheckpointLedger --------------------------
(***************************************************************************)
(* The signed-score checkpoint relay (score_checkpoint_relay_cli.py): one  *)
(* run opens the append-only ledger under its exclusive lock, completes an *)
(* interrupted commit, verifies one checkpoint, appends its record and     *)
(* writes four output files.                                               *)
(*                                                                         *)
(* The lock file is held from open to close and flock ends with the        *)
(* process, so at most one run is past its opening; a run that finds the   *)
(* lock taken ends without a trace.  Every file is written and fsynced     *)
(* while it has no name, so the directory operations (link, rename, fsync) *)
(* are what a kill or a power loss can separate.  A kill leaves the        *)
(* directory as the last operation left it.  A power loss leaves it as     *)
(* some operation since the last fsync left it.  A pointer file holds the  *)
(* digest of a whole history, modelled by the history itself.              *)
(***************************************************************************)
EXTENDS Integers, Sequences, FiniteSets, SequencesExt

CONSTANTS
    Checkpoints,    \* checkpoint digests
    Header,         \* [Checkpoints -> checkpoint fields and the keys that signed it]
    NoCheckpoint,   \* the null previous_checkpoint_digest_sha256
    Contexts,       \* operator inputs: evaluation epoch, bound report and metagraph, the rest
    Policy,         \* the trust policy
    Paths,          \* sets of four output paths an operator may name
    MaxRecords,     \* MAX_LEDGER_RECORDS
    MaxKills,       \* bound: runs that end early
    MaxLosses,      \* bound: power losses
    MaxRestores     \* bound: restored backups

ASSUME RelayAssumption ==
    /\ NoCheckpoint \notin Checkpoints
    /\ \A c \in Checkpoints : Header[c].prev \in Checkpoints \cup {NoCheckpoint}
    /\ \A c \in Checkpoints : {Header[c].seq, Header[c].height, Header[c].block, Header[c].epoch,
                              Header[c].issued, Header[c].expires, Header[c].report} \subseteq Nat
    /\ \A x \in Contexts : x.epoch \in Nat /\ x.bound \in BOOLEAN
    /\ {MaxRecords, MaxKills, MaxLosses, MaxRestores} \subseteq Nat

VARIABLES
    dir,       \* the state root: records, pointer files, staged pointer files
    survivors, \* the states of dir a power loss can leave
    run,       \* the run that owns the lock
    out,       \* output files per path set, in the order they are written
    retained,  \* anchors the operator retained, one per success
    backup,    \* the offline copy of the state root
    kills, losses, restores

dvars == <<dir, survivors, run, out, retained, backup, kills, losses, restores>>

Kinds == {"head", "anchor"}
Outputs == 4
NoPointer == [count |-> -1, history |-> <<>>]
Genesis == [count |-> 0, history |-> <<>>]
Both(p) == [k \in Kinds |-> p]
NoRun == [pc |-> "idle"]

LedgerInit ==
    /\ dir = [records |-> <<>>, ptr |-> Both(NoPointer), staged |-> Both(NoPointer)]
    /\ survivors = {dir}
    /\ run = NoRun
    /\ out = [p \in Paths |-> <<>>]
    /\ retained = <<Genesis>>
    /\ backup = dir
    /\ kills = 0 /\ losses = 0 /\ restores = 0

-----------------------------------------------------------------------------
(* Verification of one checkpoint against the accepted history. *)

(* _verify_trust_and_freshness at the operator's evaluation epoch. *)
Fresh(h, e) ==
    /\ Policy.from <= e /\ e < Policy.until
    /\ Policy.from <= h.issued /\ h.expires <= Policy.until
    /\ h.expires - h.issued <= Policy.lifetime
    /\ h.issued <= e + Policy.skew /\ e < h.expires
    /\ e - h.issued <= Policy.age

(* _verify_signatures: every signer is trusted and valid, enough of them,   *)
(* in every required role.                                                  *)
Signed(h, e) ==
    /\ \A key \in h.signers :
         /\ key \in DOMAIN Policy.keys
         /\ LET k == Policy.keys[key] IN
            k.from <= h.issued /\ h.expires <= k.until /\ e < k.until /\ e < k.revoked
    /\ Cardinality(h.signers) >= Policy.threshold
    /\ Policy.roles \subseteq UNION {Policy.keys[key].roles : key \in h.signers}

(* verify_checkpoint_and_build_relay without the chain rules; bound: the    *)
(* report and the metagraph the operator supplies are the checkpoint's.     *)
Verified(c, x) == Fresh(Header[c], x.epoch) /\ x.bound /\ Signed(Header[c], x.epoch)

LastCheckpoint(records) == IF records = <<>> THEN NoCheckpoint ELSE Last(records).cp

(* Two checkpoints at one finalized height must agree on everything. *)
Diverges(h, g) == \/ h.block # g.block \/ h.epoch # g.epoch \/ h.report # g.report

Advances(last, c) ==
    LET h == Header[c] IN
    IF last = NoCheckpoint
    THEN h.seq = 1 /\ h.prev = NoCheckpoint
    ELSE LET g == Header[last] IN
         /\ h.seq > g.seq /\ h.seq - g.seq <= Policy.sequence_gap
         /\ h.prev = last
         /\ h.height >= g.height /\ h.height - g.height <= Policy.height_gap
         /\ h.epoch >= g.epoch /\ h.issued >= g.issued
         /\ h.height = g.height => ~Diverges(h, g)

(* Every record is verified again, at its own evaluation epoch, each time   *)
(* the ledger is opened.                                                    *)
HistoryValid(records) ==
    \A n \in 1..Len(records) :
        /\ Verified(records[n].cp, records[n].ctx)
        /\ Advances(LastCheckpoint(SubSeq(records, 1, n - 1)), records[n].cp)

-----------------------------------------------------------------------------
(* Opening the ledger. *)

ExpectedPointer(records, n) == [count |-> n, history |-> SubSeq(records, 1, n)]
Matches(p, records) == p.count <= Len(records) /\ p = ExpectedPointer(records, p.count)

(* Mutant: an anchor the history does not contain is taken for genesis. *)
TrustedIndexLenient(d, t) ==
    IF Matches(t, d.records) THEN {t.count} ELSE {0}

(* _trusted_index: the index of the trusted anchor in the history, if the   *)
(* anchor file is at it or one record ahead; no index when it refuses.      *)
TrustedIndex(d, t) ==
    {n \in {t.count} :
        LET anchor == IF d.ptr.anchor = NoPointer THEN 0 ELSE d.ptr.anchor.count IN
        /\ Matches(t, d.records)
        /\ n <= anchor /\ anchor - n <= 1
        /\ Len(d.records) - n <= 1}

(* Mutant: an interrupted pointer install is residue. *)
NoResidue(d, k) == d.staged[k] = NoPointer

(* _complete_install accepts a staged pointer to the last record only. *)
StagedCompletes(d, k) ==
    d.staged[k] # NoPointer =>
        /\ Len(d.records) > 0
        /\ d.ptr[k].count = Len(d.records) - 1
        /\ d.staged[k] = ExpectedPointer(d.records, Len(d.records))

(* The checks of _load_and_recover on the directory it finds. *)
Opens(d, t) ==
    LET count == Len(d.records) IN
    /\ \E k \in Kinds : d.staged[k] = NoPointer
    /\ HistoryValid(d.records)
    /\ \A k \in Kinds : d.ptr[k] # NoPointer => Matches(d.ptr[k], d.records)
    /\ count > 0 => \A k \in Kinds : d.ptr[k] # NoPointer
    /\ TrustedIndex(d, t) # {}
    /\ \A k \in Kinds : StagedCompletes(d, k)
    /\ count > 0 => \A k \in Kinds : d.ptr[k].count \in {count - 1, count}

(* Directory operations of one run. *)
Sync == [op |-> "sync"]
Replace(k, p) == <<[op |-> "stage", kind |-> k, ptr |-> p], [op |-> "rename", kind |-> k], Sync>>

(* What recovery does to pointer k of the directory it finds. *)
RecoverPointer(d, k) ==
    LET count == Len(d.records)  p == ExpectedPointer(d.records, count) IN
    CASE d.staged[k] # NoPointer -> <<[op |-> "rename", kind |-> k], Sync>>
      [] d.staged[k] = NoPointer /\ d.ptr[k] = NoPointer -> <<[op |-> "link", kind |-> k, ptr |-> p], Sync>>
      [] d.staged[k] = NoPointer /\ d.ptr[k] # NoPointer /\ d.ptr[k].count < count -> Replace(k, p)
      [] OTHER -> <<>>

(* Interrupted installs are completed before pointers are replaced. *)
RecoverOps(d) ==
    IF d.staged["anchor"] # NoPointer
    THEN RecoverPointer(d, "anchor") \o RecoverPointer(d, "head")
    ELSE RecoverPointer(d, "head") \o RecoverPointer(d, "anchor")

OpenLedger(c, x, p) ==
    /\ run = NoRun
    /\ Opens(dir, Last(retained))
    /\ run' = [pc |-> "recover", todo |-> RecoverOps(dir), rec |-> [cp |-> c, ctx |-> x], path |-> p,
               index |-> CHOOSE n \in TrustedIndex(dir, Last(retained)) : TRUE, replay |-> FALSE]
    /\ UNCHANGED <<dir, survivors, out, retained, backup, kills, losses, restores>>

-----------------------------------------------------------------------------
(* One directory operation. *)

AfterOperation(d, o) ==
    CASE o.op = "record" -> [d EXCEPT !.records = Append(@, o.rec)]
      [] o.op = "link"   -> [d EXCEPT !.ptr[o.kind] = o.ptr]
      [] o.op = "stage"  -> [d EXCEPT !.staged[o.kind] = o.ptr]
      [] o.op = "rename" -> [d EXCEPT !.ptr[o.kind] = d.staged[o.kind], !.staged[o.kind] = NoPointer]
      [] o.op = "sync"   -> d

Operate ==
    /\ run # NoRun /\ run.todo # <<>>
    /\ dir' = AfterOperation(dir, Head(run.todo))
    /\ survivors' = IF Head(run.todo) = Sync THEN {dir} ELSE survivors \cup {dir'}
    /\ run' = [run EXCEPT !.todo = Tail(@)]
    /\ UNCHANGED <<out, retained, backup, kills, losses, restores>>

(* Mutant: the record is linked without a directory fsync. *)
AppendOpsUnsynced(d, r) ==
    LET p == ExpectedPointer(Append(d.records, r), Len(d.records) + 1) IN
    <<[op |-> "record", rec |-> r]>> \o SubSeq(Replace("head", p), 1, 2)
    \o SubSeq(Replace("anchor", p), 1, 2)

(* The durable order is record, head, anchor. *)
AppendOps(d, r) ==
    LET p == ExpectedPointer(Append(d.records, r), Len(d.records) + 1) IN
    <<[op |-> "record", rec |-> r], Sync>> \o Replace("head", p) \o Replace("anchor", p)

(* verification_state_for: the last record's checkpoint is replayed, and    *)
(* only that one when the trusted anchor is one record behind.              *)
Replays == dir.records # <<>> /\ Last(dir.records).cp = run.rec.cp
AnchorCurrent == Len(dir.records) = run.index

(* Mutant: an output that exists is refused also on a replay. *)
PreflightFresh(p, r, replay) == out[p] = <<>>

(* _preflight_outputs: an output that exists must be this record's own. *)
PreflightOutputs(p, r, replay) ==
    /\ out[p] # <<>> => replay
    /\ \A n \in 1..Len(out[p]) : out[p][n] = r

(* _record_name refuses an index beyond MAX_LEDGER_RECORDS. *)
Room == Len(dir.records) < MaxRecords

(* Verification, preflight and the decision of append_or_match. *)
Decide ==
    /\ run # NoRun /\ run.pc = "recover" /\ run.todo = <<>>
    /\ LET r == [rec |-> run.rec, index |-> IF Replays THEN Len(dir.records) ELSE Len(dir.records) + 1]
           verified == Verified(run.rec.cp, run.rec.ctx)
       IN  IF Replays
           THEN run' = IF verified /\ PreflightOutputs(run.path, r, TRUE) /\ Last(dir.records) = run.rec
                       THEN [run EXCEPT !.pc = "publish", !.replay = TRUE] ELSE NoRun
           ELSE run' = IF /\ AnchorCurrent /\ verified
                          /\ Advances(LastCheckpoint(dir.records), run.rec.cp)
                          /\ PreflightOutputs(run.path, r, FALSE) /\ Room
                       THEN [run EXCEPT !.pc = "publish", !.todo = AppendOps(dir, run.rec)] ELSE NoRun
    /\ UNCHANGED <<dir, survivors, out, retained, backup, kills, losses, restores>>

(* _write_output: the next of the four outputs, linked and fsynced. *)
WriteOutput ==
    LET r == [rec |-> run.rec, index |-> Len(dir.records)] IN
    /\ run # NoRun /\ run.pc = "publish" /\ run.todo = <<>>
    /\ Len(out[run.path]) < Outputs
    /\ out' = [out EXCEPT ![run.path] = Append(@, r)]
    /\ UNCHANGED <<dir, survivors, run, retained, backup, kills, losses, restores>>

(* Success: the operator retains the anchor the preparation names, and may *)
(* take an offline copy of the state root.                                 *)
Succeed ==
    /\ run # NoRun /\ run.pc = "publish" /\ run.todo = <<>>
    /\ Len(out[run.path]) = Outputs
    /\ run' = NoRun
    /\ retained' = IF Last(retained).count = Len(dir.records) THEN retained
                   ELSE Append(retained, ExpectedPointer(dir.records, Len(dir.records)))
    /\ backup' \in {backup, dir}
    /\ UNCHANGED <<dir, survivors, out, kills, losses, restores>>

-----------------------------------------------------------------------------
(* The run is killed, or an operation fails. *)
Kill ==
    /\ run # NoRun /\ kills < MaxKills
    /\ run' = NoRun /\ kills' = kills + 1
    /\ UNCHANGED <<dir, survivors, out, retained, backup, losses, restores>>

PowerLoss ==
    /\ losses < MaxLosses
    /\ losses' = losses + 1
    /\ run' = NoRun
    /\ dir' \in survivors /\ survivors' = {dir'}
    /\ UNCHANGED <<out, retained, backup, kills, restores>>

(* The operator replaces the state root by the backup. *)
Restore ==
    /\ run = NoRun /\ restores < MaxRestores
    /\ restores' = restores + 1
    /\ dir' = backup /\ survivors' = {backup}
    /\ UNCHANGED <<run, out, retained, backup, kills, losses>>

LedgerNext ==
    \/ \E c \in Checkpoints, x \in Contexts, p \in Paths : OpenLedger(c, x, p)
    \/ Operate \/ Decide \/ WriteOutput \/ Succeed
    \/ Kill \/ PowerLoss \/ Restore

LedgerSpec == LedgerInit /\ [][LedgerNext]_dvars

(* A run that is not killed goes on, and the operator repeats the last      *)
(* publication until it succeeds.                                           *)
RetryLast ==
    \E p \in Paths : /\ dir.records # <<>> /\ PreflightOutputs(p, [rec |-> Last(dir.records), index |-> Len(dir.records)], TRUE)
                     /\ OpenLedger(Last(dir.records).cp, Last(dir.records).ctx, p)

LedgerFairness == WF_dvars(Operate \/ Decide \/ WriteOutput \/ Succeed) /\ SF_dvars(RetryLast)
LedgerFairSpec == LedgerSpec /\ LedgerFairness

-----------------------------------------------------------------------------
(* Whatever an output file publishes is in the ledger at its index and     *)
(* stays there over kills and power losses: no output precedes its record  *)
(* (append_or_match, _write_output), unless an older backup was restored.  *)
PublishedInLedger ==
    restores = 0 =>
        \A p \in Paths, n \in 1..Outputs : n <= Len(out[p]) =>
            \A d \in survivors : /\ out[p][n].index <= Len(d.records)
                                 /\ d.records[out[p][n].index] = out[p][n].rec

(* The relay never takes back what it reported as published: the history   *)
(* behind the operator's anchor only grows, also when an older state root  *)
(* is restored, which the retained anchor reveals (_trusted_index).        *)
RetainedGrows == [][IsPrefix(Last(retained).history, Last(retained').history)]_dvars

(* Of all checkpoints published over time none goes back in height, and    *)
(* two at one height agree on block and report, although each is compared  *)
(* with its predecessor only (advance_checkpoint_chain_state).             *)
NoFork ==
    LET history == Last(retained).history IN
    \A m, n \in 1..Len(history) :
        LET g == Header[history[m].cp]  h == Header[history[n].cp] IN
        m < n => g.height <= h.height /\ (g.height = h.height => ~Diverges(g, h))

(* The four files at one set of paths belong to one record, although runs  *)
(* for several checkpoints may be interrupted between them                 *)
(* (_preflight_outputs, _write_output).                                    *)
OutputsMatch == \A p \in Paths : \A m, n \in 1..Len(out[p]) : out[p][m] = out[p][n]

(* What is published stays true: it is in the ledger at its index, the     *)
(* four files at one place are of one record, and the published history    *)
(* has no fork (append_or_match, _preflight_outputs,                       *)
(* advance_checkpoint_chain_state).                                        *)
PublishedHistory == PublishedInLedger /\ OutputsMatch /\ NoFork

(* A ledger no run is working on opens with the anchor the operator        *)
(* retained last: an interrupted commit never needs a repair by hand       *)
(* (_load_and_recover, _complete_install).                                 *)
OpensWithRetained == run = NoRun /\ restores = 0 => Opens(dir, Last(retained))

(* The same, and after a power loss at least with the anchor retained      *)
(* before it.                                                              *)
OpensWithRecent ==
    run = NoRun /\ restores = 0 =>
        \/ Opens(dir, Last(retained))
        \/ losses > 0 /\ Len(retained) > 1 /\ Opens(dir, retained[Len(retained) - 1])

(* An interrupted publication completes when it is repeated: every record  *)
(* of the ledger gets its four outputs (append_or_match, replay).          *)
PublicationCompletes ==
    \A n \in 1..MaxRecords :
        Len(dir.records) = n ~>
            \E p \in Paths : Len(out[p]) = Outputs /\ out[p][Outputs].index >= n

=============================================================================
