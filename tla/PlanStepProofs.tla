-------------------------- MODULE PlanStepProofs ---------------------------
(***************************************************************************)
(* The inductive invariant of an installation, and that its steps up to    *)
(* the rename, and the checks after it, preserve the invariant and are     *)
(* steps of PlanFile.  PlanInstallProofs holds the other steps and the     *)
(* theorems.                                                               *)
(***************************************************************************)
EXTENDS PlanInstall, TLAPS

Inode == 0..Len(inodes)
InodeState == [bytes : Contents, ver : Nat]
DirNames == {"target", "tmp", "bak", "rec", "priv"}
CallFields == {"pc", "w", "plan", "ino", "ver", "bytes", "tmp", "bak", "rec", "pub", "mode",
               "copy", "out"}
Starting == {"none", "stat", "read", "reread", "verify", "prepare"}
Opening == {"stat", "read", "reread", "verify", "prepare", "recheck", "create", "backup",
            "displace", "exchange"}
Creating == {"csync", "cfinal", "uncreate"}
Replacing == {"check", "sync", "final", "rollback", "restore"}
Copying == {"copy", "put", "copied"}
Ending == {"clean", "retire", "identify"}

(* A step keeps the local variables of the call but those in S; most steps *)
(* change only the program counter and the outcome.                        *)
Outcome == {"pc", "pub", "mode", "out"}
Keeps(S) == \A f \in CallFields \ S : call'[f] = call[f]

CallType ==
    /\ DOMAIN call = CallFields
    /\ call.plan \in PlanFiles \cup {Absent} /\ call.bytes \in Contents \cup {Absent}
    /\ {call.ino, call.tmp, call.bak, call.rec} \subseteq Inode
    /\ call.copy \in {"bak", "rec"} /\ call.out \in {"open", "published", "complete"}

TypeOK ==
    /\ inodes \in Seq(InodeState)
    /\ dir \in [DirNames -> Inode] /\ synced \subseteq Inode
    /\ want \in [Writers -> PlanFiles \cup {Absent}]
    /\ DOMAIN load = {"pc", "ino", "ver", "bytes"} /\ load.ino \in Inode /\ load.ver \in Nat
    /\ faults \in Nat /\ foreign \in Nat

(* A name is free until the call gives it an inode. *)
NamesFree ==
    /\ call.pc \in Starting => dir.tmp = 0
    /\ call.pc \in (Starting \cup Opening \cup Creating) \ {"displace", "exchange"} => dir.bak = 0
    /\ call.pc \notin Copying \cup Ending => dir.rec = 0
    /\ call.pc \in Copying /\ call.copy = "bak" => dir.rec = 0
    /\ call.pc # "identify" => dir.priv = 0

(* What a call has done is written in its local variables. *)
CallInv ==
    /\ call.pc = "none" => call = NoCall
    /\ call.pc # "none" => call.plan \in PlanFiles
    /\ call.pc \in Opening => call.out = "open"
    /\ call.pc \in Creating \cup Replacing \cup Copying \cup {"restored", "recover"} =>
         call.out = "published"
    /\ call.pc \notin Copying \cup Ending => call.copy = "bak"
    /\ call.pc \in {"retire", "identify"} => call.mode \in {"tmp", "bak", "rec"}
    /\ call.ino = 0 \/ call.pc = "stat" => call.bytes = Absent
    /\ call.pc \in {"read", "reread", "backup", "displace", "exchange", "restored", "recover"}
                   \cup Replacing \cup Copying => call.ino # 0
    /\ call.pc \notin {"none", "stat", "read"} \cup Ending /\ call.ino # 0 => call.bytes \in Contents
    /\ call.pc \in {"create"} \cup Creating => call.ino = 0
    /\ call.pc \in {"recheck", "create", "backup", "displace", "exchange"} \cup Creating \cup Replacing
         => call.tmp # 0

(* The plan of a call that is about to succeed is the only durable file,   *)
(* unless another program took its name away.                              *)
SyncedInv == call.pc \in {"cfinal", "final"} /\ dir.target = call.tmp => synced = {call.tmp}

(* A load compares change counts: an inode with the count it saw has the   *)
(* bytes it read.                                                          *)
LoadInv ==
    load.pc = "named" =>
        /\ load.ver <= Ver(load.ino)
        /\ Ver(load.ino) = load.ver => Bytes(load.ino) = load.bytes

(* Without interference every name is as the call left it.                 *)
Staged == dir.tmp = call.tmp /\ Bytes(call.tmp) = call.plan
Created == dir.target = call.tmp /\ dir.tmp = 0 /\ Bytes(call.tmp) = call.plan
Backed == call.bak # 0 /\ dir.bak = call.bak /\ Bytes(call.bak) = call.bytes
InPlace == dir.target = call.ino /\ Bytes(call.ino) = call.bytes
Replaced ==
    /\ dir.target = call.pub /\ dir.target = call.tmp /\ Bytes(call.tmp) = call.plan
    /\ call.ino # 0 /\ dir.tmp = call.ino /\ Bytes(call.ino) = call.bytes
Published == dir.target = call.pub /\ dir.target # 0
Copyable ==
    /\ call[call.copy] # 0 /\ dir[call.copy] = call[call.copy]
    /\ Bytes(call[call.copy]) = call.bytes
CopyInPlace == dir.target = call[call.copy] /\ Bytes(dir.target) = call.bytes

(* Each way of putting the replaced bytes back that fails costs a failing  *)
(* system call, so that the last one is out of reach of three of them.     *)
Undisturbed ==
    /\ call.pc \in {"recheck", "create", "backup", "displace", "exchange"} => Staged
    /\ call.pc \in {"exchange", "restored"} => InPlace
    /\ call.pc \in Creating => Created
    /\ call.pc \in {"displace", "exchange"} \cup Replacing => Backed
    /\ call.pc \in Replacing => Replaced
    /\ call.pc \in {"rollback", "restore"} => faults >= 1
    /\ call.pc \in {"copy", "put"} => Copyable /\ faults >= (IF call.copy = "bak" THEN 2 ELSE 3)
    /\ call.pc \in {"copy", "put", "recover"} => Published
    /\ call.pc = "recover" => faults >= 3
    /\ call.pc \in {"restore", "put"} => call.mode = "swap"
    /\ call.pc = "copied" => CopyInPlace
    /\ call.pc \in Ending /\ call.out = "published" => Bytes(dir.target) = call.bytes

FaultInv == foreign = 0 /\ faults <= 3 => Undisturbed

PInv == TypeOK /\ CallType /\ NamesFree /\ CallInv /\ SyncedInv /\ LoadInv /\ FaultInv

USE DEF Starting, Opening, Creating, Replacing, Copying, Ending

Refines == [Abstract!Next]_(Abstract!vars)

(* Assigning a local variable leaves the others as they are. *)
LEMMA GotoKeeps ==
    ASSUME CallType, NEW p, Goto(p)
    PROVE  DOMAIN call' = CallFields /\ Keeps({"pc"}) /\ call'.pc = p
BY Zenon DEF CallType, CallFields, Keeps, Goto

LEMMA FailKeeps ==
    ASSUME CallType, Fail
    PROVE  DOMAIN call' = CallFields /\ Keeps({"pc"}) /\ call'.pc = "clean"
BY GotoKeeps, Zenon DEF Fail, Goto

LEMMA OutcomeFields ==
    ASSUME Keeps(Outcome)
    PROVE  /\ call'.plan = call.plan /\ call'.ino = call.ino /\ call'.bytes = call.bytes
           /\ call'.tmp = call.tmp /\ call'.bak = call.bak /\ call'.rec = call.rec
           /\ call'.copy = call.copy
BY DEF Keeps, CallFields, Outcome

LEMMA KeepsFields ==
    ASSUME Keeps({"pc"})
    PROVE  /\ Keeps(Outcome)
           /\ call'.plan = call.plan /\ call'.ino = call.ino /\ call'.bytes = call.bytes
           /\ call'.tmp = call.tmp /\ call'.bak = call.bak /\ call'.rec = call.rec
           /\ call'.pub = call.pub /\ call'.mode = call.mode
           /\ call'.copy = call.copy /\ call'.out = call.out
BY DEF Keeps, CallFields, Outcome

(* A step that touches neither a name nor an inode keeps what is known of  *)
(* the names.                                                              *)
LEMMA PiecesKept ==
    ASSUME UNCHANGED <<dir, inodes>>, Keeps({"pc"})
    PROVE  /\ Staged => Staged'
           /\ Created => Created'
           /\ Backed => Backed'
           /\ InPlace => InPlace'
           /\ Replaced => Replaced'
           /\ Published => Published'
           /\ Bytes(dir.target) = call.bytes => (Bytes(dir.target) = call.bytes)'
BY KeepsFields DEF Staged, Created, Backed, InPlace, Replaced, Published, Bytes

(* A call that changes the name space within the present inodes keeps the  *)
(* types, and what a load has read.                                        *)
LEMMA SameInodes ==
    ASSUME TypeOK, LoadInv, UNCHANGED quiet, dir' \in [DirNames -> Inode], synced' \subseteq Inode,
           UNCHANGED faults \/ Fault
    PROVE  TypeOK' /\ LoadInv' /\ Inode' = Inode
<1>1. inodes' = inodes /\ load' = load /\ want' = want /\ foreign' = foreign
  BY DEF quiet, bounds
<1>2. Inode' = Inode BY <1>1 DEF Inode
<1>3. LoadInv' BY <1>1 DEF LoadInv, Bytes, Ver
<1>4. faults' \in Nat BY DEF TypeOK, Fault
<1>5. TypeOK' BY <1>1, <1>2, <1>4, Zenon DEF TypeOK
<1> QED BY <1>2, <1>3, <1>5

LEMMA Changes ==
    ASSUME PInv, UNCHANGED quiet, dir' \in [DirNames -> Inode], synced' \subseteq Inode,
           UNCHANGED faults \/ Fault, DOMAIN call' = CallFields, Keeps(Outcome),
           call'.out \in {"published", "complete", call.out},
           NamesFree', CallInv', SyncedInv', FaultInv'
    PROVE  PInv'
<1>1. TypeOK' /\ LoadInv' /\ Inode' = Inode BY SameInodes DEF PInv
<1>2. CallType' BY <1>1, OutcomeFields DEF PInv, CallType
<1> QED BY <1>1, <1>2 DEF PInv

(* A step that leaves the file, its durable contents and the outcome of    *)
(* the call as they are is invisible to PlanFile.                          *)
LEMMA Stutters ==
    ASSUME dir'.target = dir.target, UNCHANGED <<inodes, synced, foreign>>,
           call.pc # "none", call'.pc # "none",
           call'.plan = call.plan, call'.out = call.out, call.out = "open" \/ call'.bytes = call.bytes
    PROVE  Refines
<1>1. Bytes(dir.target)' = Bytes(dir.target) BY DEF Bytes
<1>2. {Bytes(i) : i \in synced}' = {Bytes(i) : i \in synced} BY DEF Bytes
<1>3. (IF At("none") THEN "none" ELSE call.out)' = (IF At("none") THEN "none" ELSE call.out)
  BY DEF At
<1>4. UNCHANGED (IF call.out = "open" THEN Absent ELSE call.bytes) OBVIOUS
<1>5. UNCHANGED Abstract!vars BY <1>1, <1>2, <1>3, <1>4 DEF Abstract!vars
<1> QED BY <1>5 DEF Refines

(* A step that only moves the control of the call. *)
LEMMA Moves ==
    ASSUME PInv, UNCHANGED <<still, quiet>>, UNCHANGED faults \/ Fault, call.pc # "none",
           DOMAIN call' = CallFields, Keeps({"pc"}), call'.pc # "none",
           NamesFree', CallInv', SyncedInv', FaultInv'
    PROVE  PInv' /\ Refines
<1>1. UNCHANGED <<dir, synced, inodes, foreign>> BY DEF still, quiet, bounds
<1>2. dir' \in [DirNames -> Inode] /\ synced' \subseteq Inode BY <1>1 DEF PInv, TypeOK
<1>3. call'.out = call.out /\ call'.plan = call.plan /\ call'.bytes = call.bytes BY KeepsFields
<1>4. PInv' BY <1>2, <1>3, KeepsFields, Changes
<1>5. Refines BY <1>1, <1>3, Stutters
<1> QED BY <1>4, <1>5

(* A call that fails before its rename has nothing to undo. *)
LEMMA Fails ==
    ASSUME PInv, call.pc \in Opening \cup {"uncreate"}, Fail, UNCHANGED <<still, quiet>>,
           UNCHANGED faults \/ Fault,
           call.pc = "uncreate" => dir.target # call.tmp \/ dir.tmp # 0
    PROVE  PInv' /\ Refines
<1>1. UNCHANGED <<dir, synced, inodes, foreign>> BY DEF still, quiet, bounds
<1>2. DOMAIN call' = CallFields /\ Keeps({"pc"}) /\ call'.pc = "clean" BY FailKeeps DEF PInv
<1>3. NamesFree' /\ CallInv' /\ SyncedInv'
  BY <1>1, <1>2, KeepsFields DEF PInv, NamesFree, CallInv, SyncedInv
<1>4. faults \in Nat /\ (faults' <= 3 => faults <= 3) BY DEF PInv, TypeOK, Fault
<1>5. FaultInv'
  <2>1. CASE call.pc \in Opening
    <3>1. call'.out = "open" BY <1>2, <2>1, KeepsFields DEF PInv, CallInv
    <3> QED BY <1>2, <3>1 DEF FaultInv, Undisturbed
  <2>2. CASE call.pc = "uncreate"
    <3>1. ~(foreign = 0 /\ faults <= 3) BY <2>2 DEF PInv, FaultInv, Undisturbed, Created
    <3> QED BY <1>1, <1>4, <3>1 DEF FaultInv
  <2> QED BY <2>1, <2>2
<1> QED BY <1>1, <1>2, <1>3, <1>5, Moves

(***************************************************************************)
(* Validation, and the steps that only move the control of the call.       *)
(***************************************************************************)

LEMMA RereadStep == PInv /\ Reread => PInv' /\ (faults <= 3 => Refines)
<1> SUFFICES ASSUME PInv, Reread PROVE PInv' /\ (faults <= 3 => Refines)
  OBVIOUS
<1>1. call.pc = "reread" /\ UNCHANGED <<quiet, inodes, foreign>> /\ faults \in Nat
  BY DEF Reread, At, quiet, bounds, PInv, TypeOK
<1>2. CASE Fail
  <2>1. UNCHANGED <<still, faults>> BY DEF Reread
  <2> QED BY <1>1, <1>2, <2>1, Fails
<1>3. CASE Goto("verify")
  <2>1. UNCHANGED <<still, dir, synced>> /\ (UNCHANGED faults \/ Fault) BY <1>3 DEF still, Reread
  <2>2. DOMAIN call' = CallFields /\ Keeps({"pc"}) /\ call'.pc = "verify"
    BY <1>3, GotoKeeps, Zenon DEF PInv
  <2>3. NamesFree' /\ CallInv' /\ SyncedInv'
    BY <1>1, <1>3, <2>1, <2>2, KeepsFields DEF PInv, NamesFree, CallInv, SyncedInv
  <2>4. FaultInv'
    BY <1>1, <2>2 DEF FaultInv, Undisturbed
  <2> QED BY <1>1, <2>1, <2>2, <2>3, <2>4, Moves
<1>4. CASE Goto("prepare")
  <2>1. UNCHANGED <<still, dir, synced>> /\ (UNCHANGED faults \/ Fault) BY <1>4 DEF still, Reread
  <2>2. DOMAIN call' = CallFields /\ Keeps({"pc"}) /\ call'.pc = "prepare"
    BY <1>4, GotoKeeps, Zenon DEF PInv
  <2>3. NamesFree' /\ CallInv' /\ SyncedInv'
    BY <1>1, <1>4, <2>1, <2>2, KeepsFields DEF PInv, NamesFree, CallInv, SyncedInv
  <2>4. FaultInv'
    BY <1>1, <2>2 DEF FaultInv, Undisturbed
  <2> QED BY <1>1, <2>1, <2>2, <2>3, <2>4, Moves
<1> QED BY <1>2, <1>3, <1>4 DEF Reread, Goto, Fail

LEMMA VerifyStep == PInv /\ Verify => PInv' /\ (faults <= 3 => Refines)
<1> SUFFICES ASSUME PInv, Verify PROVE PInv' /\ (faults <= 3 => Refines)
  OBVIOUS
<1>1. call.pc = "verify" /\ UNCHANGED <<quiet, inodes, foreign>> /\ faults \in Nat
  BY DEF Verify, At, quiet, bounds, PInv, TypeOK
<1>2. CASE Fail
  <2>1. UNCHANGED <<still, faults>> BY DEF Verify
  <2> QED BY <1>1, <1>2, <2>1, Fails
<1> QED BY <1>2 DEF Verify, Goto, Fail

LEMMA RecheckStep == PInv /\ Recheck => PInv' /\ (faults <= 3 => Refines)
<1> SUFFICES ASSUME PInv, Recheck PROVE PInv' /\ (faults <= 3 => Refines)
  OBVIOUS
<1>1. call.pc = "recheck" /\ UNCHANGED <<quiet, inodes, foreign>> /\ faults \in Nat
  BY DEF Recheck, At, quiet, bounds, PInv, TypeOK
<1>2. CASE Fail
  <2>1. UNCHANGED <<still, faults>> BY DEF Recheck
  <2> QED BY <1>1, <1>2, <2>1, Fails
<1>3. CASE call.ino = 0 /\ Goto("create")
  <2>1. UNCHANGED <<still, dir, synced>> /\ (UNCHANGED faults \/ Fault) BY <1>3 DEF still, Recheck
  <2>2. DOMAIN call' = CallFields /\ Keeps({"pc"}) /\ call'.pc = "create"
    BY <1>3, GotoKeeps, Zenon DEF PInv
  <2>3. NamesFree' /\ CallInv' /\ SyncedInv'
    BY <1>1, <1>3, <2>1, <2>2, KeepsFields DEF PInv, NamesFree, CallInv, SyncedInv
  <2>4. FaultInv'
    <3>1. foreign = 0 /\ faults <= 3 => Undisturbed BY DEF PInv, FaultInv
    <3> QED BY <1>1, <1>3, <2>1, <2>2, <3>1, KeepsFields, PiecesKept
        DEF FaultInv, Undisturbed, Fault
  <2> QED BY <1>1, <2>1, <2>2, <2>3, <2>4, Moves
<1>4. CASE call.ino # 0 /\ Goto("backup")
  <2>1. UNCHANGED <<still, dir, synced>> /\ (UNCHANGED faults \/ Fault) BY <1>4 DEF still, Recheck
  <2>2. DOMAIN call' = CallFields /\ Keeps({"pc"}) /\ call'.pc = "backup"
    BY <1>4, GotoKeeps, Zenon DEF PInv
  <2>3. NamesFree' /\ CallInv' /\ SyncedInv'
    BY <1>1, <1>4, <2>1, <2>2, KeepsFields DEF PInv, NamesFree, CallInv, SyncedInv
  <2>4. FaultInv'
    <3>1. foreign = 0 /\ faults <= 3 => Undisturbed BY DEF PInv, FaultInv
    <3> QED BY <1>1, <1>4, <2>1, <2>2, <3>1, KeepsFields, PiecesKept
        DEF FaultInv, Undisturbed, Fault
  <2> QED BY <1>1, <2>1, <2>2, <2>3, <2>4, Moves
<1> QED BY <1>2, <1>3, <1>4 DEF Recheck, Goto, Fail

LEMMA DisplaceStep == PInv /\ Displace => PInv' /\ (faults <= 3 => Refines)
<1> SUFFICES ASSUME PInv, Displace PROVE PInv' /\ (faults <= 3 => Refines)
  OBVIOUS
<1>1. call.pc = "displace" /\ UNCHANGED <<quiet, inodes, foreign>> /\ faults \in Nat
  BY DEF Displace, At, quiet, bounds, PInv, TypeOK
<1>2. CASE Fail
  <2>1. UNCHANGED <<still, faults>> BY DEF Displace
  <2> QED BY <1>1, <1>2, <2>1, Fails
<1>3. CASE InPlace /\ Goto("exchange")
  <2>1. UNCHANGED <<still, dir, synced>> /\ (UNCHANGED faults \/ Fault) BY <1>3 DEF still, Displace
  <2>2. DOMAIN call' = CallFields /\ Keeps({"pc"}) /\ call'.pc = "exchange"
    BY <1>3, GotoKeeps, Zenon DEF PInv
  <2>3. NamesFree' /\ CallInv' /\ SyncedInv'
    BY <1>1, <1>3, <2>1, <2>2, KeepsFields DEF PInv, NamesFree, CallInv, SyncedInv
  <2>4. FaultInv'
    <3>1. foreign = 0 /\ faults <= 3 => Undisturbed BY DEF PInv, FaultInv
    <3> QED BY <1>1, <1>3, <2>1, <2>2, <3>1, KeepsFields, PiecesKept
        DEF FaultInv, Undisturbed, Fault
  <2> QED BY <1>1, <2>1, <2>2, <2>3, <2>4, Moves
<1> QED BY <1>2, <1>3 DEF Displace, Goto, Fail, SameTarget, InPlace

LEMMA CheckStep == PInv /\ Check => PInv' /\ (faults <= 3 => Refines)
<1> SUFFICES ASSUME PInv, Check PROVE PInv' /\ (faults <= 3 => Refines)
  OBVIOUS
<1>1. call.pc = "check" /\ UNCHANGED <<quiet, inodes, foreign>> /\ faults \in Nat
  BY DEF Check, At, quiet, bounds, PInv, TypeOK
<1>2. CASE Goto("sync")
  <2>1. UNCHANGED <<still, dir, synced>> /\ (UNCHANGED faults \/ Fault) BY <1>2 DEF still, Check
  <2>2. DOMAIN call' = CallFields /\ Keeps({"pc"}) /\ call'.pc = "sync"
    BY <1>2, GotoKeeps, Zenon DEF PInv
  <2>3. NamesFree' /\ CallInv' /\ SyncedInv'
    BY <1>1, <1>2, <2>1, <2>2, KeepsFields DEF PInv, NamesFree, CallInv, SyncedInv
  <2>4. FaultInv'
    <3>1. foreign = 0 /\ faults <= 3 => Undisturbed BY DEF PInv, FaultInv
    <3> QED BY <1>1, <1>2, <2>1, <2>2, <3>1, KeepsFields, PiecesKept
        DEF FaultInv, Undisturbed, Fault
  <2> QED BY <1>1, <2>1, <2>2, <2>3, <2>4, Moves
<1>3. CASE ~(dir.tmp = call.ino /\ Bytes(call.ino) = call.bytes /\ Installed) /\ Goto("rollback")
  <2>1. UNCHANGED <<still, dir, synced>> /\ (UNCHANGED faults \/ Fault) BY <1>3 DEF still, Check
  <2>2. DOMAIN call' = CallFields /\ Keeps({"pc"}) /\ call'.pc = "rollback"
    BY <1>3, GotoKeeps, Zenon DEF PInv
  <2>3. NamesFree' /\ CallInv' /\ SyncedInv'
    BY <1>1, <1>3, <2>1, <2>2, KeepsFields DEF PInv, NamesFree, CallInv, SyncedInv
  <2>4. FaultInv'
    <3>1. ~(foreign = 0 /\ faults <= 3)
      BY <1>1, <1>3 DEF PInv, FaultInv, Undisturbed, Replaced, Installed
    <3> QED BY <1>1, <2>1, <3>1 DEF FaultInv, Fault
  <2> QED BY <1>1, <2>1, <2>2, <2>3, <2>4, Moves
<1> QED BY <1>2, <1>3 DEF Check, Goto, Fail

LEMMA RestoredStep == PInv /\ Restored => PInv' /\ (faults <= 3 => Refines)
<1> SUFFICES ASSUME PInv, Restored PROVE PInv' /\ (faults <= 3 => Refines)
  OBVIOUS
<1>1. call.pc = "restored" /\ UNCHANGED <<quiet, inodes, foreign>> /\ faults \in Nat
  BY DEF Restored, At, quiet, bounds, PInv, TypeOK
<1>2. CASE InPlace /\ Fail
  <2>1. UNCHANGED <<still, dir, synced>> /\ (UNCHANGED faults \/ Fault) BY <1>2 DEF still, Restored
  <2>2. DOMAIN call' = CallFields /\ Keeps({"pc"}) /\ call'.pc = "clean"
    BY <1>2, FailKeeps, Zenon DEF PInv
  <2>3. NamesFree' /\ CallInv' /\ SyncedInv'
    BY <1>1, <1>2, <2>1, <2>2, KeepsFields DEF PInv, NamesFree, CallInv, SyncedInv
  <2>4. FaultInv'
    <3>1. foreign = 0 /\ faults <= 3 => Undisturbed BY DEF PInv, FaultInv
    <3> QED BY <1>1, <1>2, <2>1, <2>2, <3>1, KeepsFields, PiecesKept
        DEF FaultInv, Undisturbed, Fault, InPlace
  <2> QED BY <1>1, <2>1, <2>2, <2>3, <2>4, Moves
<1>3. CASE ~InPlace /\ Goto("copy")
  <2>1. UNCHANGED <<still, dir, synced>> /\ (UNCHANGED faults \/ Fault) BY <1>3 DEF still, Restored
  <2>2. DOMAIN call' = CallFields /\ Keeps({"pc"}) /\ call'.pc = "copy"
    BY <1>3, GotoKeeps, Zenon DEF PInv
  <2>3. NamesFree' /\ CallInv' /\ SyncedInv'
    BY <1>1, <1>3, <2>1, <2>2, KeepsFields DEF PInv, NamesFree, CallInv, SyncedInv
  <2>4. FaultInv'
    <3>1. ~(foreign = 0 /\ faults <= 3)
      BY <1>1, <1>3 DEF PInv, FaultInv, Undisturbed
    <3> QED BY <1>1, <2>1, <3>1 DEF FaultInv, Fault
  <2> QED BY <1>1, <2>1, <2>2, <2>3, <2>4, Moves
<1> QED BY <1>2, <1>3 DEF Restored, Goto, Fail, InPlace

(***************************************************************************)
(* The steps that PlanFile sees.                                           *)
(***************************************************************************)
LEMMA Durable ==
    ASSUME NEW i, inodes' = inodes
    PROVE  /\ synced' = synced \cup {i} =>
                {Bytes(j) : j \in synced}' = {Bytes(j) : j \in synced} \cup {Bytes(i)}
           /\ synced' = {i} => {Bytes(j) : j \in synced}' = {Bytes(i)}
BY DEF Bytes

LEMMA BytesType ==
    ASSUME TypeOK, NEW i \in Inode
    PROVE  Bytes(i) \in Contents \cup {Absent} /\ (i # 0 => Bytes(i) \in Contents)
<1>1. CASE i = 0 BY <1>1 DEF Bytes
<1>2. CASE i # 0
  <2>1. i \in 1..Len(inodes) BY <1>2 DEF Inode
  <2>2. inodes[i] \in InodeState BY <2>1 DEF TypeOK
  <2> QED BY <1>2, <2>2 DEF Bytes, InodeState
<1> QED BY <1>1, <1>2

LEMMA Publishes ==
    ASSUME TypeOK, CallType, NEW i \in Inode \ {0}, UNCHANGED <<inodes, foreign>>,
           call.pc # "none", call'.pc # "none", call.out = "open", call'.out = "published",
           call'.plan = call.plan, call'.bytes = call.bytes,
           dir'.target = i, synced' = synced \cup {i},
           foreign = 0 => Bytes(dir.target) = call.bytes /\ Bytes(i) = call.plan
    PROVE  Refines
<1>1. Bytes(dir.target)' = Bytes(i) BY DEF Bytes
<1>2. {Bytes(j) : j \in synced}' = {Bytes(j) : j \in synced} \cup {Bytes(i)} BY Durable, Zenon
<1>3. Bytes(i) \in Contents BY BytesType
<1>4. call.bytes \in Contents \cup {Absent} BY DEF CallType
<1>5. Abstract!Publish BY <1>1, <1>2, <1>3, <1>4 DEF Abstract!Publish, At
<1> QED BY <1>5 DEF Refines, Abstract!Next

LEMMA Withdraws ==
    ASSUME TypeOK, CallType, NEW i \in Inode, UNCHANGED <<inodes, foreign>>,
           call.pc # "none", call'.pc # "none", call.out = "published", call'.out = "published",
           call'.plan = call.plan, call'.bytes = call.bytes,
           dir'.target = i, synced' = synced \cup {i} \/ synced' = {i},
           foreign = 0 => Bytes(i) = call.bytes
    PROVE  Refines
<1>1. Bytes(dir.target)' = Bytes(i) BY DEF Bytes
<1>2. \/ {Bytes(j) : j \in synced}' = {Bytes(j) : j \in synced} \cup {Bytes(i)}
      \/ {Bytes(j) : j \in synced}' = {Bytes(i)}
  BY Durable, Zenon
<1>3. Bytes(i) \in Contents \cup {Absent} BY BytesType
<1>5. Abstract!Withdraw BY <1>1, <1>2, <1>3 DEF Abstract!Withdraw, At
<1> QED BY <1>5 DEF Refines, Abstract!Next

LEMMA Syncs ==
    ASSUME NEW i, dir.target = i, dir'.target = i, synced' = {i}, UNCHANGED <<inodes, foreign>>,
           call.pc # "none", call'.pc # "none",
           call'.plan = call.plan, call'.out = call.out, call'.bytes = call.bytes
    PROVE  Refines
<1>1. Bytes(dir.target)' = Bytes(dir.target) BY DEF Bytes
<1>2. {Bytes(j) : j \in synced}' = {Bytes(dir.target)} BY Durable
<1>5. Abstract!Sync BY <1>1, <1>2 DEF Abstract!Sync, At
<1> QED BY <1>5 DEF Refines, Abstract!Next

LEMMA Completes ==
    ASSUME Installed, synced = {call.tmp}, UNCHANGED <<dir, synced, inodes, foreign>>,
           call.pc # "none", call'.pc # "none", call.out = "published", call'.out = "complete",
           call'.plan = call.plan, call'.bytes = call.bytes
    PROVE  Refines
<1>1. Bytes(dir.target) = call.plan /\ Bytes(call.tmp) = call.plan BY DEF Installed
<1>2. {Bytes(j) : j \in synced} = {call.plan} BY <1>1
<1>3. Bytes(dir.target)' = Bytes(dir.target) /\ {Bytes(j) : j \in synced}' = {Bytes(j) : j \in synced}
  BY DEF Bytes
<1>5. Abstract!Complete BY <1>1, <1>2, <1>3 DEF Abstract!Complete, At
<1> QED BY <1>5 DEF Refines, Abstract!Next

LEMMA StatStep == PInv /\ Stat => PInv' /\ (faults <= 3 => Refines)
<1> SUFFICES ASSUME PInv, Stat PROVE PInv' /\ (faults <= 3 => Refines)
  OBVIOUS
<1>1. call.pc = "stat" /\ UNCHANGED <<quiet, inodes, foreign>> /\ faults \in Nat
  BY DEF Stat, At, quiet, bounds, PInv, TypeOK
<1>2. CASE ~Plain(dir.target)
  <2>1. Fail /\ UNCHANGED <<still, faults>> BY <1>2 DEF Stat, Fail
  <2> QED BY <1>1, <2>1, Fails
<1>3. CASE Plain(dir.target)
  <2>1. UNCHANGED <<dir, synced, faults>> BY DEF Stat, still
  <2>2. call' = [call EXCEPT !.ino = dir.target, !.ver = Ver(dir.target),
                              !.pc = IF dir.target = 0 THEN "prepare" ELSE "read"]
    BY <1>3 DEF Stat
  <2>3. /\ DOMAIN call' = CallFields /\ call'.pc = (IF dir.target = 0 THEN "prepare" ELSE "read")
        /\ call'.plan = call.plan /\ call'.ino = dir.target /\ call'.bytes = call.bytes
        /\ call'.tmp = call.tmp /\ call'.bak = call.bak /\ call'.rec = call.rec
        /\ call'.copy = call.copy /\ call'.out = call.out
    BY <2>2, Zenon DEF PInv, CallType, CallFields
  <2>4. dir' \in [DirNames -> Inode] /\ synced' \subseteq Inode /\ dir.target \in Inode
    BY <2>1 DEF PInv, TypeOK, DirNames
  <2>5. TypeOK' /\ LoadInv' /\ Inode' = Inode BY <1>1, <2>1, <2>4, SameInodes DEF PInv
  <2>7. CallType' BY <2>3, <2>4, <2>5 DEF PInv, CallType
  <2>8. NamesFree' /\ SyncedInv' BY <1>1, <2>1, <2>3 DEF PInv, NamesFree, SyncedInv
  <2>9. CallInv' BY <1>1, <2>3 DEF PInv, CallInv
  <2>10. FaultInv' BY <2>3 DEF FaultInv, Undisturbed
  <2>11. Refines
    <3>1. call.out = "open" BY <1>1 DEF PInv, CallInv
    <3> QED BY <1>1, <2>1, <2>3, <3>1, Stutters
  <2> QED BY <2>5, <2>7, <2>8, <2>9, <2>10, <2>11 DEF PInv
<1> QED BY <1>2, <1>3

LEMMA ReadStep == PInv /\ Read => PInv' /\ (faults <= 3 => Refines)
<1> SUFFICES ASSUME PInv, Read PROVE PInv' /\ (faults <= 3 => Refines)
  OBVIOUS
<1>1. call.pc = "read" /\ UNCHANGED <<quiet, inodes, foreign>> /\ faults \in Nat
  BY DEF Read, At, quiet, bounds, PInv, TypeOK
<1>2. CASE dir.target # call.ino
  <2>1. Fail /\ UNCHANGED <<still, faults>> BY <1>2 DEF Read, Fail
  <2> QED BY <1>1, <2>1, Fails
<1>3. CASE dir.target = call.ino
  <2>1. UNCHANGED <<dir, synced, faults>> BY DEF Read, still
  <2>2. call' = [call EXCEPT !.pc = "reread", !.bytes = Bytes(call.ino)]
    BY <1>3 DEF Read
  <2>3. /\ DOMAIN call' = CallFields /\ call'.pc = "reread"
        /\ call'.plan = call.plan /\ call'.ino = call.ino /\ call'.bytes = Bytes(call.ino)
        /\ call'.tmp = call.tmp /\ call'.bak = call.bak /\ call'.rec = call.rec
        /\ call'.copy = call.copy /\ call'.out = call.out
    BY <2>2, Zenon DEF PInv, CallType, CallFields
  <2>4. dir' \in [DirNames -> Inode] /\ synced' \subseteq Inode /\ dir.target \in Inode
    BY <2>1 DEF PInv, TypeOK, DirNames
  <2>5. TypeOK' /\ LoadInv' /\ Inode' = Inode BY <1>1, <2>1, <2>4, SameInodes DEF PInv
  <2>6. call.ino # 0 /\ Bytes(call.ino) \in Contents
    <3>1. call.ino # 0 /\ call.ino \in Inode BY <1>1 DEF PInv, CallInv, CallType
    <3> QED BY <3>1, BytesType DEF PInv
  <2>7. CallType' BY <2>3, <2>5, <2>6 DEF PInv, CallType
  <2>8. NamesFree' /\ SyncedInv' BY <1>1, <2>1, <2>3 DEF PInv, NamesFree, SyncedInv
  <2>9. CallInv' BY <1>1, <2>6, <2>3 DEF PInv, CallInv
  <2>10. FaultInv' BY <2>3 DEF FaultInv, Undisturbed
  <2>11. Refines
    <3>1. call.out = "open" BY <1>1 DEF PInv, CallInv
    <3> QED BY <1>1, <2>1, <2>3, <3>1, Stutters
  <2> QED BY <2>5, <2>7, <2>8, <2>9, <2>10, <2>11 DEF PInv
<1> QED BY <1>2, <1>3

LEMMA LockStep == PInv /\ Lock => PInv' /\ Refines
<1> SUFFICES ASSUME PInv, Lock PROVE PInv' /\ Refines
  OBVIOUS
<1>1. PICK u \in Writers :
        /\ want[u] # Absent /\ want' = [want EXCEPT ![u] = Absent]
        /\ call' = [NoCall EXCEPT !.pc = "stat", !.w = u, !.plan = want[u]]
  BY Zenon DEF Lock
<1>2. call.pc = "none" /\ UNCHANGED <<dir, synced, inodes, load, foreign, faults>>
  BY DEF Lock, At, still, bounds
<1>3. call = NoCall BY <1>2 DEF PInv, CallInv
<1>4. DOMAIN NoCall = CallFields BY Zenon DEF NoCall, CallFields
<1>5. /\ DOMAIN call' = CallFields /\ call'.pc = "stat" /\ call'.plan = want[u]
      /\ call'.ino = NoCall.ino /\ call'.bytes = NoCall.bytes /\ call'.tmp = NoCall.tmp
      /\ call'.bak = NoCall.bak /\ call'.rec = NoCall.rec /\ call'.pub = NoCall.pub
      /\ call'.mode = NoCall.mode /\ call'.copy = NoCall.copy /\ call'.out = NoCall.out
  BY <1>1, <1>4, Zenon DEF CallFields
<1>6. /\ NoCall.ino = 0 /\ NoCall.bytes = Absent /\ NoCall.tmp = 0 /\ NoCall.bak = 0
      /\ NoCall.rec = 0 /\ NoCall.copy = "bak" /\ NoCall.out = "open" /\ NoCall.plan = Absent
  BY DEF NoCall
<1>7. want[u] \in PlanFiles BY <1>1 DEF PInv, TypeOK
<1>8. Inode' = Inode /\ 0 \in Inode BY <1>2 DEF Inode, PInv, TypeOK
<1>9. TypeOK'
  <2>1. want' \in [Writers -> PlanFiles \cup {Absent}] BY <1>1 DEF PInv, TypeOK
  <2> QED BY <1>2, <1>8, <2>1 DEF PInv, TypeOK
<1>10. CallType' BY <1>5, <1>6, <1>7, <1>8 DEF CallType
<1>11. NamesFree' /\ SyncedInv' BY <1>2, <1>5, <1>6 DEF PInv, NamesFree, SyncedInv
<1>12. CallInv' BY <1>2, <1>5, <1>6, <1>7 DEF CallInv
<1>13. LoadInv' BY <1>2 DEF PInv, LoadInv, Bytes, Ver
<1>14. FaultInv' BY <1>5 DEF FaultInv, Undisturbed
<1>15. Refines
  <2>1. Bytes(dir.target)' = Bytes(dir.target) /\ {Bytes(j) : j \in synced}' = {Bytes(j) : j \in synced}
    BY <1>2 DEF Bytes
  <2>2. call.pc = "none" /\ call.out = "open" /\ call'.pc = "stat" /\ call'.out = "open"
    BY <1>2, <1>3, <1>5, <1>6
  <2>3. call'.plan \in Contents BY <1>5, <1>7 DEF Contents
  <2>4. Abstract!Begin BY <1>2, <2>1, <2>2, <2>3 DEF Abstract!Begin, At
  <2> QED BY <2>4 DEF Refines, Abstract!Next
<1> QED BY <1>9, <1>10, <1>11, <1>12, <1>13, <1>14, <1>15 DEF PInv

(***************************************************************************)
(* Steps that write an inode.                                              *)
(***************************************************************************)

(* A new inode disturbs no other, nor what a load has read. *)
LEMMA Appended ==
    ASSUME TypeOK, LoadInv, NEW b \in Contents, inodes' = Append(inodes, [bytes |-> b, ver |-> 0]),
           UNCHANGED <<want, load, faults, synced, foreign>>,
           NEW n \in DirNames, dir' = [dir EXCEPT ![n] = New]
    PROVE  /\ New \in Inode' \ {0} /\ inodes'[New].bytes = b
           /\ Inode \subseteq Inode' /\ \A i \in Inode \ {0} : inodes'[i] = inodes[i]
           /\ TypeOK' /\ LoadInv'
<1> DEFINE m == Len(inodes)
           r == [bytes |-> b, ver |-> 0]
<1>1. r \in InodeState BY DEF InodeState
<1>2. m \in Nat /\ inodes \in Seq(InodeState) BY DEF TypeOK
<1>3. /\ inodes' \in Seq(InodeState) /\ Len(inodes') = m + 1 /\ inodes'[m + 1] = r
      /\ \A i \in 1..m : inodes'[i] = inodes[i]
  BY <1>1, <1>2
<1>4. New = m + 1 /\ Inode = 0..m /\ Inode' = 0..(m + 1) BY <1>3 DEF New, Inode
<1> HIDE DEF m
<1>5. New \in Inode' \ {0} /\ Inode \subseteq Inode' /\ Inode \ {0} = 1..m BY <1>2, <1>4
<1>6. inodes'[New].bytes = b BY <1>3, <1>4
<1>7. \A i \in Inode \ {0} : inodes'[i] = inodes[i] BY <1>3, <1>5, Zenon
<1>8. dir' \in [DirNames -> Inode'] BY <1>5 DEF TypeOK
<1>9. TypeOK' BY <1>3, <1>5, <1>8 DEF TypeOK
<1>10. LoadInv'
  <2>1. load.ino \in Inode BY DEF TypeOK
  <2> QED BY <1>7, <2>1, Zenon DEF LoadInv, Bytes, Ver
<1> QED BY <1>5, <1>6, <1>7, <1>9, <1>10, Zenon

LEMMA AppendStutters ==
    ASSUME TypeOK, \A i \in Inode \ {0} : inodes'[i] = inodes[i],
           dir'.target = dir.target, UNCHANGED <<synced, foreign>>, call.pc # "none", call'.pc # "none",
           call'.plan = call.plan, call'.out = call.out, call'.bytes = call.bytes
    PROVE  Refines
<1>1. \A i \in Inode : (IF i = 0 THEN Absent ELSE inodes'[i].bytes) = Bytes(i) BY Zenon DEF Bytes
<1>2. dir.target \in Inode /\ synced \subseteq Inode BY DEF TypeOK, DirNames
<1>3. Bytes(dir.target)' = Bytes(dir.target) BY <1>1, <1>2 DEF Bytes
<1>4. {Bytes(i) : i \in synced}' = {Bytes(i) : i \in synced}
  <2>1. {Bytes(i) : i \in synced}' = {IF i = 0 THEN Absent ELSE inodes'[i].bytes : i \in synced}
    BY Zenon DEF Bytes
  <2> QED BY <1>1, <1>2, <2>1
<1>5. UNCHANGED Abstract!vars BY <1>3, <1>4 DEF Abstract!vars, At
<1> QED BY <1>5 DEF Refines

LEMMA PrepareStep == PInv /\ Prepare => PInv' /\ Refines
<1> SUFFICES ASSUME PInv, Prepare PROVE PInv' /\ Refines
  OBVIOUS
<1>1. call.pc = "prepare" /\ UNCHANGED <<kept, left, synced, want, load, bounds, foreign>>
  BY DEF Prepare, At, bounds
<1>2. CASE /\ inodes' = Append(inodes, [bytes |-> call.plan, ver |-> 0])
           /\ dir' = [dir EXCEPT !.tmp = New]
           /\ call' = [call EXCEPT !.pc = "recheck", !.tmp = New]
           /\ UNCHANGED faults
  <2>1. call.plan \in Contents BY <1>1 DEF PInv, CallInv, Contents
  <2>2. "tmp" \in DirNames BY DEF DirNames
  <2>3. /\ New \in Inode' \ {0} /\ inodes'[New].bytes = call.plan
        /\ Inode \subseteq Inode' /\ \A i \in Inode \ {0} : inodes'[i] = inodes[i]
        /\ TypeOK' /\ LoadInv'
    BY <1>1, <1>2, <2>1, <2>2, Appended, Zenon DEF PInv
  <2>4. /\ DOMAIN call' = CallFields /\ call'.pc = "recheck"
        /\ call'.plan = call.plan /\ call'.ino = call.ino /\ call'.bytes = call.bytes
        /\ call'.tmp = New /\ call'.bak = call.bak /\ call'.rec = call.rec
        /\ call'.pub = call.pub /\ call'.copy = call.copy /\ call'.out = call.out
    BY <1>2, Zenon DEF PInv, CallType, CallFields
  <2>5. /\ dir'.target = dir.target /\ dir'.tmp = New
        /\ dir'.bak = dir.bak /\ dir'.rec = dir.rec /\ dir'.priv = dir.priv
    BY <1>2 DEF PInv, TypeOK, DirNames
  <2>6. CallType' BY <2>3, <2>4 DEF PInv, CallType
  <2>7. NamesFree' /\ SyncedInv' BY <1>1, <2>4, <2>5 DEF PInv, NamesFree, CallInv, SyncedInv
  <2>8. CallInv' BY <1>1, <2>3, <2>4 DEF PInv, CallInv
  <2>9. FaultInv'
    <3>1. Staged' BY <2>3, <2>4, <2>5 DEF Bytes, Staged
    <3> QED BY <2>4, <3>1 DEF FaultInv, Undisturbed
  <2>10. Refines BY <1>1, <2>3, <2>4, <2>5, AppendStutters DEF PInv
  <2> QED BY <2>3, <2>6, <2>7, <2>8, <2>9, <2>10 DEF PInv
<1>3. CASE Fault /\ Fail /\ UNCHANGED <<inodes, dir>>
  <2>1. UNCHANGED <<still, quiet>> BY <1>1, <1>3 DEF still, quiet
  <2> QED BY <1>1, <1>3, <2>1, Fails
<1> QED BY <1>2, <1>3 DEF Prepare

LEMMA BackupStep == PInv /\ Backup => PInv' /\ Refines
<1> SUFFICES ASSUME PInv, Backup PROVE PInv' /\ Refines
  OBVIOUS
<1>1. call.pc = "backup" /\ UNCHANGED <<kept, left, synced, want, load, bounds, foreign>>
  BY DEF Backup, At, bounds
<1>2. CASE /\ inodes' = Append(inodes, [bytes |-> call.bytes, ver |-> 0])
           /\ dir' = [dir EXCEPT !.bak = New]
           /\ call' = [call EXCEPT !.pc = "displace", !.bak = New]
           /\ UNCHANGED faults
  <2>1. call.bytes \in Contents BY <1>1 DEF PInv, CallInv, Contents
  <2>2. "bak" \in DirNames BY DEF DirNames
  <2>3. /\ New \in Inode' \ {0} /\ inodes'[New].bytes = call.bytes
        /\ Inode \subseteq Inode' /\ \A i \in Inode \ {0} : inodes'[i] = inodes[i]
        /\ TypeOK' /\ LoadInv'
    BY <1>1, <1>2, <2>1, <2>2, Appended, Zenon DEF PInv
  <2>4. /\ DOMAIN call' = CallFields /\ call'.pc = "displace"
        /\ call'.plan = call.plan /\ call'.ino = call.ino /\ call'.bytes = call.bytes
        /\ call'.tmp = call.tmp /\ call'.bak = New /\ call'.rec = call.rec
        /\ call'.pub = call.pub /\ call'.copy = call.copy /\ call'.out = call.out
    BY <1>2, Zenon DEF PInv, CallType, CallFields
  <2>5. /\ dir'.target = dir.target /\ dir'.tmp = dir.tmp
        /\ dir'.bak = New /\ dir'.rec = dir.rec /\ dir'.priv = dir.priv
    BY <1>2 DEF PInv, TypeOK, DirNames
  <2>6. CallType' BY <2>3, <2>4 DEF PInv, CallType
  <2>7. NamesFree' /\ SyncedInv' BY <1>1, <2>4, <2>5 DEF PInv, NamesFree, CallInv, SyncedInv
  <2>8. CallInv' BY <1>1, <2>3, <2>4 DEF PInv, CallInv
  <2>9. FaultInv'
    <3>1. foreign = 0 /\ faults <= 3 => Staged
      BY <1>1 DEF PInv, FaultInv, Undisturbed
    <3>2. foreign = 0 /\ faults <= 3 => Staged' /\ Backed'
      BY <2>3, <2>4, <2>5, <3>1 DEF PInv, CallType, Bytes, Staged, Backed
    <3> QED BY <1>1, <1>2, <2>4, <3>1, <3>2 DEF FaultInv, Undisturbed
  <2>10. Refines BY <1>1, <2>3, <2>4, <2>5, AppendStutters DEF PInv
  <2> QED BY <2>3, <2>6, <2>7, <2>8, <2>9, <2>10 DEF PInv
<1>3. CASE Fault /\ Fail /\ UNCHANGED <<inodes, dir>>
  <2>1. UNCHANGED <<still, quiet>> BY <1>1, <1>3 DEF still, quiet
  <2> QED BY <1>1, <1>3, <2>1, Fails
<1> QED BY <1>2, <1>3 DEF Backup

LEMMA RecoverStep == PInv /\ Recover => PInv' /\ Refines
<1> SUFFICES ASSUME PInv, Recover PROVE PInv' /\ Refines
  OBVIOUS
<1>1. call.pc = "recover" /\ UNCHANGED <<kept, left, synced, want, load, bounds, foreign>>
  BY DEF Recover, At, bounds
<1>2. CASE /\ inodes' = Append(inodes, [bytes |-> call.bytes, ver |-> 0])
           /\ dir' = [dir EXCEPT !.rec = New]
           /\ call' = [call EXCEPT !.pc = "copy", !.copy = "rec", !.rec = New]
           /\ UNCHANGED faults
  <2>1. call.bytes \in Contents BY <1>1 DEF PInv, CallInv, Contents
  <2>2. "rec" \in DirNames BY DEF DirNames
  <2>3. /\ New \in Inode' \ {0} /\ inodes'[New].bytes = call.bytes
        /\ Inode \subseteq Inode' /\ \A i \in Inode \ {0} : inodes'[i] = inodes[i]
        /\ TypeOK' /\ LoadInv'
    BY <1>1, <1>2, <2>1, <2>2, Appended, Zenon DEF PInv
  <2>4. /\ DOMAIN call' = CallFields /\ call'.pc = "copy"
        /\ call'.plan = call.plan /\ call'.ino = call.ino /\ call'.bytes = call.bytes
        /\ call'.tmp = call.tmp /\ call'.bak = call.bak /\ call'.rec = New
        /\ call'.pub = call.pub /\ call'.copy = "rec" /\ call'.out = call.out
    BY <1>2, Zenon DEF PInv, CallType, CallFields
  <2>5. /\ dir'.target = dir.target /\ dir'.tmp = dir.tmp
        /\ dir'.bak = dir.bak /\ dir'.rec = New /\ dir'.priv = dir.priv
    BY <1>2 DEF PInv, TypeOK, DirNames
  <2>6. CallType' BY <2>3, <2>4 DEF PInv, CallType
  <2>7. NamesFree' /\ SyncedInv' BY <1>1, <2>4, <2>5 DEF PInv, NamesFree, CallInv, SyncedInv
  <2>8. CallInv' BY <1>1, <2>3, <2>4 DEF PInv, CallInv
  <2>9. FaultInv'
    <3>1. foreign = 0 /\ faults <= 3 => Published /\ faults >= 3
      BY <1>1 DEF PInv, FaultInv, Undisturbed
    <3>2. foreign = 0 /\ faults <= 3 => Copyable' /\ Published'
      BY <2>3, <2>4, <2>5, <3>1 DEF PInv, CallType, Bytes, Copyable, Published
    <3> QED BY <1>1, <1>2, <2>4, <3>1, <3>2 DEF FaultInv, Undisturbed
  <2>10. Refines BY <1>1, <2>3, <2>4, <2>5, AppendStutters DEF PInv
  <2> QED BY <2>3, <2>6, <2>7, <2>8, <2>9, <2>10 DEF PInv
<1>3. CASE Fault /\ call' = [call EXCEPT !.pc = "clean", !.bak = 0] /\ UNCHANGED <<inodes, dir>>
  <2>1. UNCHANGED <<still, quiet>> /\ UNCHANGED <<dir, synced, inodes, foreign>>
    BY <1>1, <1>3 DEF still, quiet, bounds
  <2>2. /\ DOMAIN call' = CallFields /\ call'.pc = "clean"
        /\ call'.plan = call.plan /\ call'.ino = call.ino /\ call'.bytes = call.bytes
        /\ call'.tmp = call.tmp /\ call'.bak = 0 /\ call'.rec = call.rec
        /\ call'.pub = call.pub /\ call'.copy = call.copy /\ call'.out = call.out
    BY <1>3, Zenon DEF PInv, CallType, CallFields
  <2>3. dir' \in [DirNames -> Inode] /\ synced' \subseteq Inode /\ 0 \in Inode
    BY <2>1 DEF PInv, TypeOK, Inode
  <2>4. TypeOK' /\ LoadInv' /\ Inode' = Inode BY <1>3, <2>1, <2>3, SameInodes DEF PInv
  <2>5. CallType' BY <2>2, <2>3, <2>4 DEF PInv, CallType
  <2>6. NamesFree' /\ SyncedInv' BY <1>1, <2>1, <2>2 DEF PInv, NamesFree, SyncedInv
  <2>7. CallInv' BY <1>1, <2>2 DEF PInv, CallInv
  <2>8. FaultInv'
    <3>1. faults \in Nat /\ faults' = faults + 1 BY <1>3 DEF PInv, TypeOK, Fault
    <3>2. foreign = 0 /\ faults <= 3 => faults >= 3 BY <1>1 DEF PInv, FaultInv, Undisturbed
    <3> QED BY <2>1, <3>1, <3>2 DEF FaultInv
  <2>9. Refines BY <1>1, <2>1, <2>2, Stutters
  <2> QED BY <2>4, <2>5, <2>6, <2>7, <2>8, <2>9 DEF PInv
<1> QED BY <1>2, <1>3 DEF Recover

(***************************************************************************)
(* Publication.                                                            *)
(***************************************************************************)

LEMMA CreateStep == PInv /\ Create => PInv' /\ (faults <= 3 => Refines)
<1> SUFFICES ASSUME PInv, Create PROVE PInv' /\ (faults <= 3 => Refines)
  OBVIOUS
<1>1. call.pc = "create" /\ UNCHANGED <<quiet, inodes, foreign>> /\ faults \in Nat
  BY DEF Create, At, quiet, bounds, PInv, TypeOK
<1>4. CASE /\ dir.target = 0 /\ dir.tmp # 0
           /\ dir' = [dir EXCEPT !.target = dir.tmp, !.tmp = 0]
           /\ synced' = synced \cup {dir.tmp} /\ UNCHANGED faults
           /\ call' = [call EXCEPT !.pc = "csync", !.out = "published"]
  <2>1. /\ DOMAIN call' = CallFields /\ Keeps(Outcome) /\ call'.pc = "csync"
        /\ call'.pub = call.pub /\ call'.mode = call.mode /\ call'.out = "published"
    BY <1>4, Zenon DEF PInv, CallType, CallFields, Keeps, Outcome
  <2>2. /\ dir'.target = dir.tmp /\ dir'.tmp = 0
        /\ dir'.bak = dir.bak /\ dir'.rec = dir.rec /\ dir'.priv = dir.priv
        /\ dir' \in [DirNames -> Inode] /\ synced' \subseteq Inode /\ (UNCHANGED faults \/ Fault)
    BY <1>4, Zenon DEF PInv, TypeOK, DirNames, Inode, still
  <2>3. NamesFree' /\ SyncedInv'
    BY <1>1, <1>4, <2>1, <2>2, OutcomeFields DEF PInv, NamesFree, SyncedInv, CallInv, Installed
  <2>4. CallInv' BY <1>1, <1>4, <2>1, OutcomeFields DEF PInv, CallInv
  <2>5. FaultInv'
    <3>1. foreign = 0 /\ faults <= 3 => Staged
      BY <1>1, <1>4 DEF PInv, FaultInv, Undisturbed
    <3>2. foreign = 0 /\ faults <= 3 => Created'
      BY <1>1, <1>4, <2>1, <2>2, <3>1, OutcomeFields DEF Bytes, PInv, CallInv, Staged, Created
    <3> QED BY <1>1, <2>1, <2>2, <3>2, OutcomeFields DEF FaultInv, Undisturbed, Fault
  <2>6. faults <= 3 => Refines
    <3>1. dir.tmp \in Inode \ {0} BY <1>4 DEF PInv, TypeOK, DirNames
    <3>2. call.out = "open" /\ call.bytes = Absent BY <1>1 DEF PInv, CallInv
    <3>3. Bytes(dir.target) = Absent BY <1>4 DEF Bytes
    <3>4. faults <= 3 /\ foreign = 0 => Bytes(dir.tmp) = call.plan
      BY <1>1 DEF PInv, FaultInv, Undisturbed, Staged
    <3> QED BY <1>1, <1>4, <2>1, <2>2, <3>1, <3>2, <3>3, <3>4, OutcomeFields, Publishes DEF PInv
  <2> QED BY <1>1, <2>1, <2>2, <2>3, <2>4, <2>5, <2>6, Changes
<1>5. CASE Fail /\ UNCHANGED <<dir, synced>> /\ (UNCHANGED faults \/ Fault)
  <2>1. UNCHANGED still BY <1>5 DEF Create, still
  <2> QED BY <1>1, <1>5, <2>1, Fails
<1> QED BY <1>4, <1>5 DEF Create, Retarget

LEMMA CreateSyncStep == PInv /\ CreateSync => PInv' /\ (faults <= 3 => Refines)
<1> SUFFICES ASSUME PInv, CreateSync PROVE PInv' /\ (faults <= 3 => Refines)
  OBVIOUS
<1>1. call.pc = "csync" /\ UNCHANGED <<quiet, inodes, foreign>> /\ faults \in Nat
  BY DEF CreateSync, At, quiet, bounds, PInv, TypeOK
<1>4. CASE /\ Installed /\ synced' = {dir.target} /\ Goto("cfinal")
           /\ UNCHANGED <<faults, dir>>
  <2>1. /\ DOMAIN call' = CallFields /\ Keeps(Outcome) /\ call'.pc = "cfinal"
        /\ call'.pub = call.pub /\ call'.mode = call.mode /\ call'.out = call.out
    BY <1>4, Zenon DEF PInv, CallType, CallFields, Keeps, Outcome, Goto
  <2>2. /\ dir' = dir
        /\ dir' \in [DirNames -> Inode] /\ synced' \subseteq Inode /\ (UNCHANGED faults \/ Fault)
    BY <1>4 DEF PInv, TypeOK, DirNames, Inode, still
  <2>3. NamesFree' /\ SyncedInv'
    BY <1>1, <1>4, <2>1, <2>2, OutcomeFields DEF PInv, NamesFree, SyncedInv, CallInv, Installed
  <2>4. CallInv' BY <1>1, <1>4, <2>1, OutcomeFields DEF PInv, CallInv
  <2>5. FaultInv'
    <3>1. foreign = 0 /\ faults <= 3 => Created
      BY <1>1, <1>4 DEF PInv, FaultInv, Undisturbed
    <3>2. foreign = 0 /\ faults <= 3 => Created'
      BY <1>1, <1>4, <2>1, <2>2, <3>1, OutcomeFields DEF Bytes, PInv, CallInv, Created
    <3> QED BY <1>1, <2>1, <2>2, <3>2, OutcomeFields DEF FaultInv, Undisturbed, Fault
  <2>6. faults <= 3 => Refines
    BY <1>1, <1>4, <2>1, <2>2, OutcomeFields, Syncs
  <2> QED BY <1>1, <2>1, <2>2, <2>3, <2>4, <2>5, <2>6, Changes
<1>5. CASE Goto("uncreate") /\ UNCHANGED synced /\ (UNCHANGED faults \/ Fault)
  <2>1. UNCHANGED <<still, dir, synced>> /\ (UNCHANGED faults \/ Fault)
    BY <1>5 DEF still, CreateSync
  <2>2. DOMAIN call' = CallFields /\ Keeps({"pc"}) /\ call'.pc = "uncreate"
    BY <1>5, GotoKeeps, Zenon DEF PInv
  <2>3. NamesFree' /\ CallInv' /\ SyncedInv'
    BY <1>1, <1>5, <2>1, <2>2, KeepsFields DEF PInv, NamesFree, CallInv, SyncedInv
  <2>4. FaultInv'
    <3>1. foreign = 0 /\ faults <= 3 => Undisturbed BY DEF PInv, FaultInv
    <3> QED BY <1>1, <1>5, <2>1, <2>2, <3>1, KeepsFields, PiecesKept
        DEF FaultInv, Undisturbed, Fault
  <2> QED BY <1>1, <2>1, <2>2, <2>3, <2>4, Moves
<1> QED BY <1>4, <1>5 DEF CreateSync

LEMMA SyncDirStep == PInv /\ SyncDir => PInv' /\ (faults <= 3 => Refines)
<1> SUFFICES ASSUME PInv, SyncDir PROVE PInv' /\ (faults <= 3 => Refines)
  OBVIOUS
<1>1. call.pc = "sync" /\ UNCHANGED <<quiet, inodes, foreign>> /\ faults \in Nat
  BY DEF SyncDir, At, quiet, bounds, PInv, TypeOK
<1>4. CASE /\ Installed /\ synced' = {dir.target} /\ Goto("final")
           /\ UNCHANGED <<faults, dir>>
  <2>1. /\ DOMAIN call' = CallFields /\ Keeps(Outcome) /\ call'.pc = "final"
        /\ call'.pub = call.pub /\ call'.mode = call.mode /\ call'.out = call.out
    BY <1>4, Zenon DEF PInv, CallType, CallFields, Keeps, Outcome, Goto
  <2>2. /\ dir' = dir
        /\ dir' \in [DirNames -> Inode] /\ synced' \subseteq Inode /\ (UNCHANGED faults \/ Fault)
    BY <1>4 DEF PInv, TypeOK, DirNames, Inode, still
  <2>3. NamesFree' /\ SyncedInv'
    BY <1>1, <1>4, <2>1, <2>2, OutcomeFields DEF PInv, NamesFree, SyncedInv, CallInv, Installed
  <2>4. CallInv' BY <1>1, <1>4, <2>1, OutcomeFields DEF PInv, CallInv
  <2>5. FaultInv'
    <3>1. foreign = 0 /\ faults <= 3 => Backed /\ Replaced
      BY <1>1, <1>4 DEF PInv, FaultInv, Undisturbed
    <3>2. foreign = 0 /\ faults <= 3 => Backed' /\ Replaced'
      BY <1>1, <1>4, <2>1, <2>2, <3>1, OutcomeFields DEF Bytes, PInv, CallInv, Backed, Replaced
    <3> QED BY <1>1, <2>1, <2>2, <3>2, OutcomeFields DEF FaultInv, Undisturbed, Fault
  <2>6. faults <= 3 => Refines
    BY <1>1, <1>4, <2>1, <2>2, OutcomeFields, Syncs
  <2> QED BY <1>1, <2>1, <2>2, <2>3, <2>4, <2>5, <2>6, Changes
<1>5. CASE /\ ~Installed /\ synced' = {dir.target} /\ Goto("rollback")
           /\ UNCHANGED <<faults, dir>>
  <2>1. /\ DOMAIN call' = CallFields /\ Keeps(Outcome) /\ call'.pc = "rollback"
        /\ call'.pub = call.pub /\ call'.mode = call.mode /\ call'.out = call.out
    BY <1>5, Zenon DEF PInv, CallType, CallFields, Keeps, Outcome, Goto
  <2>2. /\ dir' = dir
        /\ dir' \in [DirNames -> Inode] /\ synced' \subseteq Inode /\ (UNCHANGED faults \/ Fault)
    BY <1>5 DEF PInv, TypeOK, DirNames, Inode, still
  <2>3. NamesFree' /\ SyncedInv'
    BY <1>1, <1>5, <2>1, <2>2, OutcomeFields DEF PInv, NamesFree, SyncedInv, CallInv, Installed
  <2>4. CallInv' BY <1>1, <1>5, <2>1, OutcomeFields DEF PInv, CallInv
  <2>5. FaultInv'
    <3>1. ~(foreign = 0 /\ faults <= 3)
      BY <1>1, <1>5 DEF PInv, FaultInv, Undisturbed, Replaced, Installed
    <3> QED BY <1>1, <1>5, <3>1 DEF FaultInv
  <2>6. faults <= 3 => Refines
    BY <1>1, <1>5, <2>1, <2>2, OutcomeFields, Syncs
  <2> QED BY <1>1, <2>1, <2>2, <2>3, <2>4, <2>5, <2>6, Changes
<1>6. CASE Goto("rollback") /\ UNCHANGED synced /\ Fault
  <2>1. UNCHANGED <<still, dir, synced>> /\ (UNCHANGED faults \/ Fault) BY <1>6 DEF still, SyncDir
  <2>2. DOMAIN call' = CallFields /\ Keeps({"pc"}) /\ call'.pc = "rollback"
    BY <1>6, GotoKeeps, Zenon DEF PInv
  <2>3. NamesFree' /\ CallInv' /\ SyncedInv'
    BY <1>1, <1>6, <2>1, <2>2, KeepsFields DEF PInv, NamesFree, CallInv, SyncedInv
  <2>4. FaultInv'
    <3>1. foreign = 0 /\ faults <= 3 => Undisturbed BY DEF PInv, FaultInv
    <3> QED BY <1>1, <1>6, <2>1, <2>2, <3>1, KeepsFields, PiecesKept
        DEF FaultInv, Undisturbed, Fault
  <2> QED BY <1>1, <2>1, <2>2, <2>3, <2>4, Moves
<1> QED BY <1>4, <1>5, <1>6 DEF SyncDir

LEMMA CreateFinalStep == PInv /\ CreateFinal => PInv' /\ (faults <= 3 => Refines)
<1> SUFFICES ASSUME PInv, CreateFinal PROVE PInv' /\ (faults <= 3 => Refines)
  OBVIOUS
<1>1. call.pc = "cfinal" /\ UNCHANGED <<quiet, inodes, foreign>> /\ faults \in Nat
  BY DEF CreateFinal, At, quiet, bounds, PInv, TypeOK
<1>4. CASE /\ Installed /\ UNCHANGED <<still, faults>>
           /\ call' = [call EXCEPT !.pc = "clean", !.out = "complete"]
  <2>1. /\ DOMAIN call' = CallFields /\ Keeps(Outcome) /\ call'.pc = "clean"
        /\ call'.pub = call.pub /\ call'.mode = call.mode /\ call'.out = "complete"
    BY <1>4, Zenon DEF PInv, CallType, CallFields, Keeps, Outcome
  <2>2. /\ dir' = dir
        /\ dir' \in [DirNames -> Inode] /\ synced' \subseteq Inode /\ (UNCHANGED faults \/ Fault)
    BY <1>4 DEF PInv, TypeOK, DirNames, Inode, still
  <2>3. NamesFree' /\ SyncedInv'
    BY <1>1, <1>4, <2>1, <2>2, OutcomeFields DEF PInv, NamesFree, SyncedInv, CallInv, Installed
  <2>4. CallInv' BY <1>1, <1>4, <2>1, OutcomeFields DEF PInv, CallInv
  <2>5. FaultInv'
    BY <2>1 DEF FaultInv, Undisturbed
  <2>6. faults <= 3 => Refines
    <3>1. synced = {call.tmp} /\ call.out = "published"
      BY <1>1, <1>4 DEF PInv, SyncedInv, CallInv, Installed
    <3>2. UNCHANGED synced BY <1>4 DEF still
    <3> QED BY <1>1, <1>4, <2>1, <2>2, <3>1, <3>2, OutcomeFields, Completes
  <2> QED BY <1>1, <2>1, <2>2, <2>3, <2>4, <2>5, <2>6, Changes
<1>5. CASE ~Installed /\ Goto("uncreate") /\ UNCHANGED faults
  <2>1. UNCHANGED <<still, dir, synced>> /\ (UNCHANGED faults \/ Fault)
    BY <1>5 DEF still, CreateFinal
  <2>2. DOMAIN call' = CallFields /\ Keeps({"pc"}) /\ call'.pc = "uncreate"
    BY <1>5, GotoKeeps, Zenon DEF PInv
  <2>3. NamesFree' /\ CallInv' /\ SyncedInv'
    BY <1>1, <1>5, <2>1, <2>2, KeepsFields DEF PInv, NamesFree, CallInv, SyncedInv
  <2>4. FaultInv'
    <3>1. foreign = 0 /\ faults <= 3 => Undisturbed BY DEF PInv, FaultInv
    <3> QED BY <1>1, <1>5, <2>1, <2>2, <3>1, KeepsFields, PiecesKept
        DEF FaultInv, Undisturbed, Fault
  <2> QED BY <1>1, <2>1, <2>2, <2>3, <2>4, Moves
<1> QED BY <1>4, <1>5 DEF CreateFinal, Goto

LEMMA FinalStep == PInv /\ Final => PInv' /\ (faults <= 3 => Refines)
<1> SUFFICES ASSUME PInv, Final PROVE PInv' /\ (faults <= 3 => Refines)
  OBVIOUS
<1>1. call.pc = "final" /\ UNCHANGED <<quiet, inodes, foreign>> /\ faults \in Nat
  BY DEF Final, At, quiet, bounds, PInv, TypeOK
<1>4. CASE /\ Installed /\ UNCHANGED <<still, faults>>
           /\ call' = [call EXCEPT !.pc = "clean", !.out = "complete"]
  <2>1. /\ DOMAIN call' = CallFields /\ Keeps(Outcome) /\ call'.pc = "clean"
        /\ call'.pub = call.pub /\ call'.mode = call.mode /\ call'.out = "complete"
    BY <1>4, Zenon DEF PInv, CallType, CallFields, Keeps, Outcome
  <2>2. /\ dir' = dir
        /\ dir' \in [DirNames -> Inode] /\ synced' \subseteq Inode /\ (UNCHANGED faults \/ Fault)
    BY <1>4 DEF PInv, TypeOK, DirNames, Inode, still
  <2>3. NamesFree' /\ SyncedInv'
    BY <1>1, <1>4, <2>1, <2>2, OutcomeFields DEF PInv, NamesFree, SyncedInv, CallInv, Installed
  <2>4. CallInv' BY <1>1, <1>4, <2>1, OutcomeFields DEF PInv, CallInv
  <2>5. FaultInv'
    BY <2>1 DEF FaultInv, Undisturbed
  <2>6. faults <= 3 => Refines
    <3>1. synced = {call.tmp} /\ call.out = "published"
      BY <1>1, <1>4 DEF PInv, SyncedInv, CallInv, Installed
    <3>2. UNCHANGED synced BY <1>4 DEF still
    <3> QED BY <1>1, <1>4, <2>1, <2>2, <3>1, <3>2, OutcomeFields, Completes
  <2> QED BY <1>1, <2>1, <2>2, <2>3, <2>4, <2>5, <2>6, Changes
<1>5. CASE ~Installed /\ Goto("rollback") /\ UNCHANGED faults
  <2>1. UNCHANGED <<still, dir, synced>> /\ (UNCHANGED faults \/ Fault) BY <1>5 DEF still, Final
  <2>2. DOMAIN call' = CallFields /\ Keeps({"pc"}) /\ call'.pc = "rollback"
    BY <1>5, GotoKeeps, Zenon DEF PInv
  <2>3. NamesFree' /\ CallInv' /\ SyncedInv'
    BY <1>1, <1>5, <2>1, <2>2, KeepsFields DEF PInv, NamesFree, CallInv, SyncedInv
  <2>4. FaultInv'
    <3>1. ~(foreign = 0 /\ faults <= 3)
      BY <1>1, <1>5 DEF PInv, FaultInv, Undisturbed, Replaced, Installed
    <3> QED BY <1>1, <2>1, <3>1 DEF FaultInv, Fault
  <2> QED BY <1>1, <2>1, <2>2, <2>3, <2>4, Moves
<1> QED BY <1>4, <1>5 DEF Final, Goto

LEMMA UncreateStep == PInv /\ Uncreate => PInv' /\ (faults <= 3 => Refines)
<1> SUFFICES ASSUME PInv, Uncreate PROVE PInv' /\ (faults <= 3 => Refines)
  OBVIOUS
<1>1. call.pc = "uncreate" /\ UNCHANGED <<quiet, inodes, foreign>> /\ faults \in Nat
  BY DEF Uncreate, At, quiet, bounds, PInv, TypeOK
<1>4. CASE /\ dir.target = call.tmp /\ dir.tmp = 0 /\ Fail
           /\ dir' = [dir EXCEPT !.target = 0, !.tmp = dir.target]
           /\ \/ synced' = {0} /\ UNCHANGED faults
              \/ synced' = synced \cup {0} /\ Fault
  <2>1. /\ DOMAIN call' = CallFields /\ Keeps(Outcome) /\ call'.pc = "clean"
        /\ call'.pub = call.pub /\ call'.mode = call.mode /\ call'.out = call.out
    BY <1>4, Zenon DEF PInv, CallType, CallFields, Keeps, Outcome, Fail
  <2>2. /\ dir'.target = 0 /\ dir'.tmp = dir.target
        /\ dir'.bak = dir.bak /\ dir'.rec = dir.rec /\ dir'.priv = dir.priv
        /\ dir' \in [DirNames -> Inode] /\ synced' \subseteq Inode /\ (UNCHANGED faults \/ Fault)
    BY <1>4, Zenon DEF PInv, TypeOK, DirNames, Inode, still
  <2>3. NamesFree' /\ SyncedInv'
    BY <1>1, <1>4, <2>1, <2>2, OutcomeFields DEF PInv, NamesFree, SyncedInv, CallInv, Installed
  <2>4. CallInv' BY <1>1, <1>4, <2>1, OutcomeFields DEF PInv, CallInv
  <2>5. FaultInv'
    <3>1. call.bytes = Absent BY <1>1 DEF PInv, CallInv
    <3>2. (Bytes(dir.target) = call.bytes)' BY <2>1, <2>2, <3>1, OutcomeFields DEF Bytes
    <3> QED BY <2>1, <3>2 DEF FaultInv, Undisturbed
  <2>6. faults <= 3 => Refines
    <3>1. 0 \in Inode /\ Bytes(0) = Absent BY DEF Inode, PInv, TypeOK, Bytes
    <3>2. call.out = "published" /\ call.bytes = Absent BY <1>1 DEF PInv, CallInv
    <3> QED BY <1>1, <1>4, <2>1, <2>2, <3>1, <3>2, OutcomeFields, Withdraws DEF PInv
  <2> QED BY <1>1, <2>1, <2>2, <2>3, <2>4, <2>5, <2>6, Changes
<1>5. CASE Fail /\ UNCHANGED <<dir, synced, faults>> /\ (dir.target # call.tmp \/ dir.tmp # 0)
  <2>1. UNCHANGED still BY <1>5 DEF Uncreate, still
  <2> QED BY <1>1, <1>5, <2>1, Fails
<1> QED BY <1>4, <1>5 DEF Uncreate, Retarget

LEMMA ExchangeStep == PInv /\ Exchange => PInv' /\ (faults <= 3 => Refines)
<1> SUFFICES ASSUME PInv, Exchange PROVE PInv' /\ (faults <= 3 => Refines)
  OBVIOUS
<1>1. call.pc = "exchange" /\ UNCHANGED <<quiet, inodes, foreign>> /\ faults \in Nat
  BY DEF Exchange, At, quiet, bounds, PInv, TypeOK
<1>4. CASE /\ dir.target # 0 /\ dir.tmp # 0
           /\ dir' = [dir EXCEPT !.target = dir.tmp, !.tmp = dir.target]
           /\ synced' = synced \cup {dir.tmp} /\ UNCHANGED faults
           /\ call' = [call EXCEPT !.pc = "check", !.pub = dir.tmp, !.out = "published"]
  <2>1. /\ DOMAIN call' = CallFields /\ Keeps(Outcome) /\ call'.pc = "check"
        /\ call'.pub = dir.tmp /\ call'.mode = call.mode /\ call'.out = "published"
    BY <1>4, Zenon DEF PInv, CallType, CallFields, Keeps, Outcome
  <2>2. /\ dir'.target = dir.tmp /\ dir'.tmp = dir.target
        /\ dir'.bak = dir.bak /\ dir'.rec = dir.rec /\ dir'.priv = dir.priv
        /\ dir' \in [DirNames -> Inode] /\ synced' \subseteq Inode /\ (UNCHANGED faults \/ Fault)
    BY <1>4, Zenon DEF PInv, TypeOK, DirNames, Inode, still
  <2>3. NamesFree' /\ SyncedInv'
    BY <1>1, <1>4, <2>1, <2>2, OutcomeFields DEF PInv, NamesFree, SyncedInv, CallInv, Installed
  <2>4. CallInv' BY <1>1, <1>4, <2>1, OutcomeFields DEF PInv, CallInv
  <2>5. FaultInv'
    <3>1. foreign = 0 /\ faults <= 3 => Staged /\ InPlace /\ Backed
      BY <1>1, <1>4 DEF PInv, FaultInv, Undisturbed
    <3>2. foreign = 0 /\ faults <= 3 => Backed' /\ Replaced'
      BY <1>1, <1>4, <2>1, <2>2, <3>1, OutcomeFields
      DEF Bytes, PInv, CallInv, Staged, InPlace, Backed, Replaced
    <3> QED BY <1>1, <2>1, <2>2, <3>2, OutcomeFields DEF FaultInv, Undisturbed, Fault
  <2>6. faults <= 3 => Refines
    <3>1. dir.tmp \in Inode \ {0} BY <1>4 DEF PInv, TypeOK, DirNames
    <3>2. call.out = "open" BY <1>1 DEF PInv, CallInv
    <3>3. faults <= 3 /\ foreign = 0 => Bytes(dir.tmp) = call.plan /\ Bytes(dir.target) = call.bytes
      BY <1>1 DEF PInv, FaultInv, Undisturbed, Staged, InPlace
    <3> QED BY <1>1, <1>4, <2>1, <2>2, <3>1, <3>2, <3>3, OutcomeFields, Publishes DEF PInv
  <2> QED BY <1>1, <2>1, <2>2, <2>3, <2>4, <2>5, <2>6, Changes
<1>5. CASE Fail /\ UNCHANGED <<dir, synced>> /\ (UNCHANGED faults \/ Fault)
  <2>1. UNCHANGED still BY <1>5 DEF Exchange, still
  <2> QED BY <1>1, <1>5, <2>1, Fails
<1> QED BY <1>4, <1>5 DEF Exchange, Exchanged, Retarget

=============================================================================
