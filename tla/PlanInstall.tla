---------------------------- MODULE PlanInstall ----------------------------
(***************************************************************************)
(* The durable installation of a weight plan (write_weight_plan_atomic in  *)
(* weight_plan.py) and its loading.  A call holds the write lock, stages   *)
(* its bytes in a fresh inode, and exchanges names; when any later step    *)
(* fails it puts the previous bytes back, from the displaced inode or from *)
(* an independent copy.  Another program of the same user may replace or   *)
(* remove an entry, or write to an inode it holds open, between any two    *)
(* steps; system calls may fail; the machine may lose power.               *)
(***************************************************************************)
EXTENDS Naturals, FiniteSets, Sequences

CONSTANTS PlanFiles,       \* the canonical bytes of the plans written
          Writers,     \* cooperating writers, serialized by the write lock
          MaxCalls,    \* bound on calls
          MaxFaults,   \* bound on failing system calls
          MaxForeign,  \* bound on changes by another program
          MaxCrashes,  \* bound on power losses
          Absent

Alien == "alien"  \* bytes of another program
Odd == "odd"      \* an entry that is no private regular file
Contents == PlanFiles \cup {Alien, Odd}

VARIABLES dir,     \* what the names are linked to; 0 is an unused name
          kept,    \* inodes retired into private cleanup directories
          left,    \* inodes left under names that no call uses any more
          inodes,  \* inodes[i]: the bytes of inode i and its change count
          synced,  \* inodes the target may be after a power loss
          want,    \* plans of the writers that wait for the lock
          call,    \* the call that holds the lock, with its local variables
          load,    \* one load_weight_plan, with its local variables
          faults, foreign, crashes, calls

pvars == <<dir, kept, left, inodes, synced, want, call, load, faults, foreign, crashes, calls>>
bounds == <<foreign, crashes, calls>>

NoCall == [pc |-> "none", w |-> Absent, plan |-> Absent, ino |-> 0, ver |-> 0, bytes |-> Absent,
           tmp |-> 0, bak |-> 0, rec |-> 0, pub |-> 0, mode |-> "none", copy |-> "bak", out |-> "open"]
NoLoad == [pc |-> "none", ino |-> 0, ver |-> 0, bytes |-> Absent]

Bytes(i) == IF i = 0 THEN Absent ELSE inodes[i].bytes
Ver(i) == IF i = 0 THEN 0 ELSE inodes[i].ver
Plain(i) == Bytes(i) # Odd
Linked == ({dir[n] : n \in DOMAIN dir} \cup kept \cup left) \ {0}
New == Len(inodes) + 1

At(pc) == call.pc = pc
Goto(pc) == call' = [call EXCEPT !.pc = pc]
Fail == call' = [call EXCEPT !.pc = "clean"]
Fault == faults < MaxFaults /\ faults' = faults + 1

SameTarget == dir.target = call.ino /\ Ver(dir.target) = call.ver
Installed == dir.target = call.tmp /\ Bytes(dir.target) = call.plan
Retarget(i) == synced' = synced \cup {i}

quiet == <<inodes, want, load, bounds>>  \* what only other actions change
still == <<dir, kept, left, synced>>     \* the name space

(***************************************************************************)
(* Validation of the present target under the lock.                        *)
(***************************************************************************)
Ask ==
    /\ calls < MaxCalls /\ calls' = calls + 1
    /\ \E w \in Writers, p \in PlanFiles :
         want[w] = Absent /\ want' = [want EXCEPT ![w] = p]
    /\ UNCHANGED <<still, inodes, call, load, faults, foreign, crashes>>

Lock ==
    /\ At("none")
    /\ \E w \in Writers :
         /\ want[w] # Absent
         /\ call' = [NoCall EXCEPT !.pc = "stat", !.w = w, !.plan = want[w]]
         /\ want' = [want EXCEPT ![w] = Absent]
    /\ UNCHANGED <<still, inodes, load, faults, bounds>>

Stat ==
    /\ At("stat")
    /\ call' = IF ~Plain(dir.target) THEN [call EXCEPT !.pc = "clean"]
               ELSE [call EXCEPT !.ino = dir.target, !.ver = Ver(dir.target),
                                 !.pc = IF dir.target = 0 THEN "prepare" ELSE "read"]
    /\ UNCHANGED <<still, quiet, faults>>

Read ==
    /\ At("read")
    /\ IF dir.target = call.ino
       THEN call' = [call EXCEPT !.pc = "reread", !.bytes = Bytes(call.ino)]
       ELSE Fail
    /\ UNCHANGED <<still, quiet, faults>>

(* A plan that is installed already is verified and left alone.            *)
Reread ==
    /\ At("reread")
    /\ IF ~SameTarget THEN Fail
       ELSE Goto(IF call.bytes = call.plan THEN "verify" ELSE "prepare")
    /\ UNCHANGED <<still, quiet, faults>>

Verify ==
    /\ At("verify")
    /\ call' = [call EXCEPT !.pc = "clean"]
    /\ UNCHANGED <<still, quiet, faults>>

(* The bytes are in a synced inode before it gets a name.                  *)
Prepare ==
    /\ At("prepare")
    /\ \/ /\ inodes' = Append(inodes, [bytes |-> call.plan, ver |-> 0])
          /\ dir' = [dir EXCEPT !.tmp = New]
          /\ call' = [call EXCEPT !.pc = "recheck", !.tmp = New]
          /\ UNCHANGED faults
       \/ Fault /\ Fail /\ UNCHANGED <<inodes, dir>>
    /\ UNCHANGED <<kept, left, synced, want, load, bounds>>

Recheck ==
    /\ At("recheck")
    /\ IF SameTarget /\ dir.tmp = call.tmp
       THEN Goto(IF call.ino = 0 THEN "create" ELSE "backup") ELSE Fail
    /\ UNCHANGED <<still, quiet, faults>>

(***************************************************************************)
(* Creation, without replacing an entry.                                   *)
(***************************************************************************)
Create ==
    /\ At("create")
    /\ \/ /\ dir.target = 0 /\ dir.tmp # 0
          /\ dir' = [dir EXCEPT !.target = dir.tmp, !.tmp = 0]
          /\ Retarget(dir.tmp) /\ UNCHANGED faults
          /\ call' = [call EXCEPT !.pc = "csync", !.out = "published"]
       \/ /\ dir.target # 0 \/ dir.tmp = 0
          /\ Fail /\ UNCHANGED <<dir, synced, faults>>
       \/ Fault /\ Fail /\ UNCHANGED <<dir, synced>>
    /\ UNCHANGED <<kept, left, quiet>>

CreateSync ==
    /\ At("csync")
    /\ \/ Installed /\ synced' = {dir.target} /\ Goto("cfinal") /\ UNCHANGED faults
       \/ ~Installed /\ Goto("uncreate") /\ UNCHANGED <<synced, faults>>
       \/ Fault /\ Goto("uncreate") /\ UNCHANGED synced
    /\ UNCHANGED <<dir, kept, left, quiet>>

CreateFinal ==
    /\ At("cfinal")
    /\ call' = IF Installed THEN [call EXCEPT !.pc = "clean", !.out = "complete"]
               ELSE [call EXCEPT !.pc = "uncreate"]
    /\ UNCHANGED <<still, quiet, faults>>

(* Only the entry this call created is taken back.                         *)
Uncreate ==
    /\ At("uncreate")
    /\ \/ /\ dir.target = call.tmp /\ dir.tmp = 0
          /\ dir' = [dir EXCEPT !.target = 0, !.tmp = dir.target]
          /\ \/ synced' = {0} /\ UNCHANGED faults
             \/ Retarget(0) /\ Fault
       \/ /\ dir.target # call.tmp \/ dir.tmp # 0
          /\ UNCHANGED <<dir, synced, faults>>
    /\ Fail
    /\ UNCHANGED <<kept, left, quiet>>

(***************************************************************************)
(* Replacement by an atomic exchange of two names.                         *)
(***************************************************************************)
Backup ==
    /\ At("backup")
    /\ \/ /\ inodes' = Append(inodes, [bytes |-> call.bytes, ver |-> 0])
          /\ dir' = [dir EXCEPT !.bak = New]
          /\ call' = [call EXCEPT !.pc = "displace", !.bak = New]
          /\ UNCHANGED faults
       \/ Fault /\ Fail /\ UNCHANGED <<inodes, dir>>
    /\ UNCHANGED <<kept, left, synced, want, load, bounds>>

Displace ==
    /\ At("displace")
    /\ IF SameTarget /\ Bytes(dir.target) = call.bytes THEN Goto("exchange") ELSE Fail
    /\ UNCHANGED <<still, quiet, faults>>

Exchanged == [dir EXCEPT !.target = dir.tmp, !.tmp = dir.target]

(* Mutant: the new plan is renamed over the old one. *)
ExchangeOver ==
    /\ At("exchange") /\ dir.tmp # 0
    /\ dir' = [dir EXCEPT !.target = dir.tmp, !.tmp = 0]
    /\ Retarget(dir.tmp)
    /\ call' = [call EXCEPT !.pc = "check", !.pub = dir.tmp, !.out = "published"]
    /\ UNCHANGED <<kept, left, quiet, faults>>
Exchange ==
    /\ At("exchange")
    /\ \/ /\ dir.target # 0 /\ dir.tmp # 0
          /\ dir' = Exchanged /\ Retarget(dir.tmp)
          /\ call' = [call EXCEPT !.pc = "check", !.pub = dir.tmp, !.out = "published"]
          /\ UNCHANGED faults
       \/ /\ dir.target = 0 \/ dir.tmp = 0
          /\ Fail /\ UNCHANGED <<dir, synced, faults>>
       \/ Fault /\ Fail /\ UNCHANGED <<dir, synced>>
    /\ UNCHANGED <<kept, left, quiet>>

Check ==
    /\ At("check")
    /\ Goto(IF dir.tmp = call.ino /\ Bytes(call.ino) = call.bytes /\ Installed THEN "sync"
            ELSE "rollback")
    /\ UNCHANGED <<still, quiet, faults>>

SyncDir ==
    /\ At("sync")
    /\ \/ /\ synced' = {dir.target} /\ UNCHANGED faults
          /\ Goto(IF Installed THEN "final" ELSE "rollback")
       \/ Fault /\ Goto("rollback") /\ UNCHANGED synced
    /\ UNCHANGED <<dir, kept, left, quiet>>

(* Mutant: the installed entry is not looked at again. *)
FinalUnchecked ==
    /\ At("final")
    /\ call' = [call EXCEPT !.pc = "clean", !.out = "complete"]
    /\ UNCHANGED <<still, quiet, faults>>
Final ==
    /\ At("final")
    /\ call' = IF Installed THEN [call EXCEPT !.pc = "clean", !.out = "complete"]
               ELSE [call EXCEPT !.pc = "rollback"]
    /\ UNCHANGED <<still, quiet, faults>>

(***************************************************************************)
(* Rollback: the displaced inode goes back when it is intact and both      *)
(* names still are as this call left them, else a copy of its bytes does.  *)
(***************************************************************************)
Rollback ==
    /\ At("rollback")
    /\ call' = IF /\ Bytes(call.ino) = call.bytes /\ dir.tmp = call.ino
                  /\ dir.target = call.pub \/ (dir.target = 0 /\ call.tmp \notin Linked)
               THEN [call EXCEPT !.pc = "restore",
                                 !.mode = IF dir.target = 0 THEN "move" ELSE "swap",
                                 !.pub = IF dir.target = 0 THEN 0 ELSE @]
               ELSE [call EXCEPT !.pc = "copy"]
    /\ UNCHANGED <<still, quiet, faults>>

(* A rename of name n onto the target, of the kind mode asks for, and the  *)
(* attempt to make it durable, whose failure is only noted.                *)
Possible(n) == dir[n] # 0 /\ (call.mode = "move" <=> dir.target = 0)
PutBack(n) ==
    /\ Possible(n)
    /\ dir' = [dir EXCEPT !.target = dir[n], ![n] = dir.target]
    /\ \/ synced' = {dir[n]} /\ UNCHANGED faults
       \/ Retarget(dir[n]) /\ Fault

Restore ==
    /\ At("restore")
    /\ \/ PutBack("tmp") /\ call' = [call EXCEPT !.pc = "restored", !.pub = dir.tmp]
       \/ ~Possible("tmp") /\ Goto("copy") /\ UNCHANGED <<dir, synced, faults>>
       \/ Fault /\ Goto("copy") /\ UNCHANGED <<dir, synced>>
    /\ UNCHANGED <<kept, left, quiet>>

Restored ==
    /\ At("restored")
    /\ Goto(IF dir.target = call.ino /\ Bytes(call.ino) = call.bytes THEN "clean" ELSE "copy")
    /\ UNCHANGED <<still, quiet, faults>>

(* A copy may only displace the very entry this call published last.       *)
NextCopy == [call EXCEPT !.pc = IF call.copy = "bak" THEN "recover" ELSE "clean",
                         !.bak = IF call.copy = "bak" THEN @ ELSE 0,
                         !.rec = IF call.copy = "bak" THEN @ ELSE 0]
Copy ==
    /\ At("copy")
    /\ LET i == call[call.copy]
           usable == dir[call.copy] = i /\ Bytes(i) = call.bytes
       IN call' = IF usable /\ dir.target = 0
                  THEN [call EXCEPT !.pc = "put", !.mode = "move", !.pub = 0]
                  ELSE IF usable /\ dir.target = call.pub
                  THEN [call EXCEPT !.pc = "put", !.mode = "swap"]
                  ELSE NextCopy
    /\ UNCHANGED <<still, quiet, faults>>

Put ==
    /\ At("put")
    /\ \/ PutBack(call.copy) /\ call' = [call EXCEPT !.pc = "copied", !.pub = dir[call.copy]]
       \/ ~Possible(call.copy) /\ call' = NextCopy /\ UNCHANGED <<dir, synced, faults>>
       \/ Fault /\ call' = NextCopy /\ UNCHANGED <<dir, synced>>
    /\ UNCHANGED <<kept, left, quiet>>

Copied ==
    /\ At("copied")
    /\ call' = IF dir.target = call[call.copy] /\ Bytes(dir.target) = call.bytes
               THEN [call EXCEPT !.pc = "clean"] ELSE NextCopy
    /\ UNCHANGED <<still, quiet, faults>>

Recover ==
    /\ At("recover")
    /\ \/ /\ inodes' = Append(inodes, [bytes |-> call.bytes, ver |-> 0])
          /\ dir' = [dir EXCEPT !.rec = New]
          /\ call' = [call EXCEPT !.pc = "copy", !.copy = "rec", !.rec = New]
          /\ UNCHANGED faults
       \/ Fault /\ call' = [call EXCEPT !.pc = "clean", !.bak = 0] /\ UNCHANGED <<inodes, dir>>
    /\ UNCHANGED <<kept, left, synced, want, load, bounds>>

(***************************************************************************)
(* The retirement of the names of a call.  An entry is moved into a        *)
(* private directory, identified there, and moved back when it turns out   *)
(* not to be the call's own.                                               *)
(***************************************************************************)
Own == {call.tmp, call.bak, call.rec} \cup (IF call.out = "complete" THEN {call.ino} ELSE {})
Used == {n \in {"tmp", "bak", "rec"} : dir[n] # 0}

Clean ==
    /\ At("clean") /\ Used # {}
    /\ LET n == CHOOSE m \in Used : TRUE IN
       IF dir[n] \in Own THEN call' = [call EXCEPT !.pc = "retire", !.mode = n] /\ UNCHANGED still
       ELSE /\ dir' = [dir EXCEPT ![n] = 0] /\ left' = left \cup {dir[n]}
            /\ UNCHANGED <<kept, synced, call>>
    /\ UNCHANGED <<quiet, faults>>

Retire ==
    /\ At("retire")
    /\ \/ /\ dir' = [dir EXCEPT !.priv = dir[call.mode], ![call.mode] = 0]
          /\ Goto("identify") /\ UNCHANGED <<left, faults>>
       \/ /\ Fault /\ Goto("clean")
          /\ dir' = [dir EXCEPT ![call.mode] = 0] /\ left' = left \cup ({dir[call.mode]} \ {0})
    /\ UNCHANGED <<kept, synced, quiet>>

Identify ==
    /\ At("identify")
    /\ dir' = [dir EXCEPT !.priv = 0]
    /\ IF dir.priv \notin Own /\ dir[call.mode] = 0
       THEN left' = left \cup ({dir.priv} \ {0}) /\ UNCHANGED kept
       ELSE kept' = kept \cup ({dir.priv} \ {0}) /\ UNCHANGED left
    /\ Goto("clean")
    /\ UNCHANGED <<synced, quiet, faults>>

Unlock ==
    /\ At("clean") /\ Used = {}
    /\ call' = NoCall
    /\ UNCHANGED <<still, quiet, faults>>

(***************************************************************************)
(* load_weight_plan, which takes no lock.                                  *)
(***************************************************************************)
LoadStat ==
    /\ load.pc = "none" /\ dir.target # 0 /\ Plain(dir.target)
    /\ load' = [NoLoad EXCEPT !.pc = "read", !.ino = dir.target, !.ver = Ver(dir.target)]
    /\ UNCHANGED <<still, inodes, want, call, faults, bounds>>

LoadRead ==
    /\ load.pc = "read"
    /\ load' = IF dir.target = load.ino THEN [load EXCEPT !.pc = "restat", !.bytes = Bytes(load.ino)]
               ELSE NoLoad
    /\ UNCHANGED <<still, inodes, want, call, faults, bounds>>

LoadRestat ==
    /\ load.pc = "restat"
    /\ load' = IF dir.target = load.ino /\ Ver(load.ino) = load.ver
               THEN [load EXCEPT !.pc = "verify"] ELSE NoLoad
    /\ UNCHANGED <<still, inodes, want, call, faults, bounds>>

(* The path is opened once more: the same inode, which reads the same.     *)
LoadVerify ==
    /\ load.pc = "verify"
    /\ load' = IF dir.target = load.ino /\ Bytes(load.ino) = load.bytes
               THEN [load EXCEPT !.pc = "named", !.ver = Ver(load.ino)] ELSE NoLoad
    /\ UNCHANGED <<still, inodes, want, call, faults, bounds>>

(* Mutant: the name is looked up again, the inode is not. *)
LoadNamedOnly ==
    /\ load.pc = "named"
    /\ load' = IF dir.target = load.ino /\ load.bytes \in PlanFiles
               THEN [load EXCEPT !.pc = "parsed"] ELSE NoLoad
    /\ UNCHANGED <<still, inodes, want, call, faults, bounds>>
LoadNamed ==
    /\ load.pc = "named"
    /\ load' = IF dir.target = load.ino /\ Ver(load.ino) = load.ver /\ load.bytes \in PlanFiles
               THEN [load EXCEPT !.pc = "parsed"] ELSE NoLoad
    /\ UNCHANGED <<still, inodes, want, call, faults, bounds>>

LoadReturn ==
    /\ load.pc = "parsed" /\ load' = NoLoad
    /\ UNCHANGED <<still, inodes, want, call, faults, bounds>>

(***************************************************************************)
(* Another program of the same user, and a power loss.                     *)
(***************************************************************************)
Names == {"target", "tmp", "bak", "rec"}
Interfere ==
    /\ foreign < MaxForeign /\ foreign' = foreign + 1
    /\ \/ \E n \in Names, b \in {Alien, Odd} :
            /\ n # "target" => dir[n] # 0
            /\ inodes' = Append(inodes, [bytes |-> b, ver |-> 0])
            /\ dir' = [dir EXCEPT ![n] = New]
            /\ IF n = "target" THEN Retarget(New) ELSE UNCHANGED synced
       \/ \E n \in Names :
            /\ dir[n] # 0 /\ dir' = [dir EXCEPT ![n] = 0]
            /\ IF n = "target" THEN Retarget(0) ELSE UNCHANGED synced
            /\ UNCHANGED inodes
       \/ \E i \in {dir.target, call.ino} \ {0} :
            /\ inodes' = [inodes EXCEPT ![i] = [bytes |-> Alien, ver |-> @.ver + 1]]
            /\ UNCHANGED <<dir, synced>>
    /\ UNCHANGED <<kept, left, want, call, load, faults, crashes, calls>>

PowerLoss ==
    /\ crashes < MaxCrashes /\ crashes' = crashes + 1
    /\ \E i \in synced \cup {dir.target} :
         /\ dir' = [n \in DOMAIN dir |-> IF n = "target" THEN i ELSE 0]
         /\ synced' = {i}
         /\ left' = left \cup (Linked \ ({i} \cup kept))
    /\ call' = NoCall /\ load' = NoLoad /\ want' = [w \in Writers |-> Absent]
    /\ UNCHANGED <<kept, inodes, faults, foreign, calls>>

PlanInit ==
    /\ inodes \in {<<>>} \cup {<<[bytes |-> p, ver |-> 0]>> : p \in PlanFiles}
    /\ dir = [target |-> Len(inodes), tmp |-> 0, bak |-> 0, rec |-> 0, priv |-> 0]
    /\ kept = {} /\ left = {} /\ synced = {dir.target}
    /\ want = [w \in Writers |-> Absent] /\ call = NoCall /\ load = NoLoad
    /\ faults = 0 /\ foreign = 0 /\ crashes = 0 /\ calls = 0

Write ==
    \/ Lock \/ Stat \/ Read \/ Reread \/ Verify \/ Prepare \/ Recheck
    \/ Create \/ CreateSync \/ CreateFinal \/ Uncreate
    \/ Backup \/ Displace \/ Exchange \/ Check \/ SyncDir \/ Final
    \/ Rollback \/ Restore \/ Restored \/ Copy \/ Put \/ Copied \/ Recover
    \/ Clean \/ Retire \/ Identify \/ Unlock
Load == LoadStat \/ LoadRead \/ LoadRestat \/ LoadVerify \/ LoadNamed \/ LoadReturn
PlanNext == Ask \/ Write \/ Load \/ Interfere \/ PowerLoss
PlanSpec == PlanInit /\ [][PlanNext]_pvars

(***************************************************************************)
(* Properties.                                                             *)
(***************************************************************************)

(* No step of a writer takes the last name of an inode: what its renames   *)
(* displace - a file another program put there included - can always be    *)
(* found again.                                                            *)
NothingDestroyed == [][Write => Linked \subseteq Linked']_pvars

(* What load_weight_plan returns is, at that moment, the content of the    *)
(* configured path, however its reads interleave with a replacement, a     *)
(* rollback or a write through a descriptor.                               *)
LoadedIsTarget == [][load'.pc = "parsed" /\ load.pc # "parsed" =>
                        Bytes(dir.target) = load.bytes]_pvars

Abstract == INSTANCE PlanFile WITH
    file <- Bytes(dir.target), durable <- {Bytes(i) : i \in synced},
    phase <- IF At("none") THEN "none" ELSE call.out,
    plan <- call.plan, old <- IF call.out = "open" THEN Absent ELSE call.bytes

(* The installation implements the promise of PlanFile: the plan appears   *)
(* in one step and is durable when the call succeeds, and a call that      *)
(* fails leaves the file as it found it, even when two more system calls   *)
(* fail during its rollback.                                               *)
Installs == Abstract!Spec
=============================================================================
