------------------------- MODULE PlanInstallProofs -------------------------
(***************************************************************************)
(* The installation of a plan loses no inode and implements PlanFile, and  *)
(* a load returns only what the path holds, for any plans, writers, calls, *)
(* changes by other programs and power losses.  The invariant and the      *)
(* steps up to the publication are in PlanStepProofs.                      *)
(***************************************************************************)
EXTENDS PlanStepProofs

USE DEF Starting, Opening, Creating, Replacing, Copying, Ending

(***************************************************************************)
(* Restoration of the replaced plan.                                       *)
(***************************************************************************)

LEMMA RollbackStep == PInv /\ Rollback => PInv' /\ (faults <= 3 => Refines)
<1> SUFFICES ASSUME PInv, Rollback PROVE PInv' /\ (faults <= 3 => Refines)
  OBVIOUS
<1>1. call.pc = "rollback" /\ UNCHANGED <<quiet, inodes, foreign>> /\ faults \in Nat
  BY DEF Rollback, At, quiet, bounds, PInv, TypeOK
<1> DEFINE intact == /\ Bytes(call.ino) = call.bytes /\ dir.tmp = call.ino
                     /\ dir.target = call.pub \/ (dir.target = 0 /\ call.tmp \notin Linked)
<1>4. CASE /\ UNCHANGED <<still, faults>>
           /\ call' = [call EXCEPT !.pc = "restore",
                                   !.mode = IF dir.target = 0 THEN "move" ELSE "swap",
                                   !.pub = IF dir.target = 0 THEN 0 ELSE @]
  <2>1. /\ DOMAIN call' = CallFields /\ Keeps(Outcome) /\ call'.pc = "restore"
        /\ call'.pub = (IF dir.target = 0 THEN 0 ELSE call.pub)
        /\ call'.mode = (IF dir.target = 0 THEN "move" ELSE "swap") /\ call'.out = call.out
    BY <1>4, Zenon DEF PInv, CallType, CallFields, Keeps, Outcome
  <2>2. /\ dir' = dir
        /\ dir' \in [DirNames -> Inode] /\ synced' \subseteq Inode /\ (UNCHANGED faults \/ Fault)
    BY <1>4 DEF PInv, TypeOK, DirNames, Inode, still
  <2>3. NamesFree' /\ SyncedInv'
    BY <1>1, <1>4, <2>1, <2>2, OutcomeFields DEF PInv, NamesFree, SyncedInv, CallInv, Installed
  <2>4. CallInv' BY <1>1, <1>4, <2>1, OutcomeFields DEF PInv, CallInv
  <2>5. FaultInv'
    <3>1. foreign = 0 /\ faults <= 3 => Backed /\ Replaced /\ faults >= 1
      BY <1>1, <1>4 DEF PInv, FaultInv, Undisturbed
    <3>2. foreign = 0 /\ faults <= 3 => Backed' /\ Replaced' /\ call'.mode = "swap"
      BY <1>1, <1>4, <2>1, <2>2, <3>1, OutcomeFields DEF Bytes, PInv, CallInv, Backed, Replaced
    <3> QED BY <1>1, <2>1, <2>2, <3>1, <3>2, OutcomeFields DEF FaultInv, Undisturbed, Fault
  <2>6. faults <= 3 => Refines
    <3>1. UNCHANGED synced BY <1>4 DEF still
    <3> QED BY <1>1, <2>1, <2>2, <3>1, OutcomeFields, Stutters
  <2> QED BY <1>1, <2>1, <2>2, <2>3, <2>4, <2>5, <2>6, Changes
<1>5. CASE ~intact /\ Goto("copy") /\ UNCHANGED faults
  <2>1. UNCHANGED <<still, dir, synced>> /\ (UNCHANGED faults \/ Fault) BY <1>5 DEF still, Rollback
  <2>2. DOMAIN call' = CallFields /\ Keeps({"pc"}) /\ call'.pc = "copy"
    BY <1>5, GotoKeeps, Zenon DEF PInv
  <2>3. NamesFree' /\ CallInv' /\ SyncedInv'
    BY <1>1, <1>5, <2>1, <2>2, KeepsFields DEF PInv, NamesFree, CallInv, SyncedInv
  <2>4. FaultInv'
    <3>1. ~(foreign = 0 /\ faults <= 3)
      BY <1>1, <1>5 DEF PInv, FaultInv, Undisturbed, Replaced
    <3> QED BY <1>1, <2>1, <3>1 DEF FaultInv, Fault
  <2> QED BY <1>1, <2>1, <2>2, <2>3, <2>4, Moves
<1> QED BY <1>4, <1>5 DEF Rollback, Goto

LEMMA RestoreStep == PInv /\ Restore => PInv' /\ (faults <= 3 => Refines)
<1> SUFFICES ASSUME PInv, Restore PROVE PInv' /\ (faults <= 3 => Refines)
  OBVIOUS
<1>1. call.pc = "restore" /\ UNCHANGED <<quiet, inodes, foreign>> /\ faults \in Nat
  BY DEF Restore, At, quiet, bounds, PInv, TypeOK
<1>4. CASE PutBack("tmp") /\ call' = [call EXCEPT !.pc = "restored", !.pub = dir.tmp]
  <2>1. /\ DOMAIN call' = CallFields /\ Keeps(Outcome) /\ call'.pc = "restored"
        /\ call'.pub = dir.tmp /\ call'.mode = call.mode /\ call'.out = call.out
    BY <1>4, Zenon DEF PInv, CallType, CallFields, Keeps, Outcome
  <2>2. /\ dir'.target = dir.tmp /\ dir'.tmp = dir.target
        /\ dir'.bak = dir.bak /\ dir'.rec = dir.rec /\ dir'.priv = dir.priv
        /\ dir' \in [DirNames -> Inode] /\ synced' \subseteq Inode /\ (UNCHANGED faults \/ Fault)
    BY <1>4 DEF PInv, TypeOK, DirNames, Inode, still, PutBack, Retarget
  <2>3. NamesFree' /\ SyncedInv'
    BY <1>1, <1>4, <2>1, <2>2, OutcomeFields DEF PInv, NamesFree, SyncedInv, CallInv, Installed
  <2>4. CallInv' BY <1>1, <1>4, <2>1, OutcomeFields DEF PInv, CallInv
  <2>5. FaultInv'
    <3>1. foreign = 0 /\ faults <= 3 => Replaced
      BY <1>1, <1>4 DEF PInv, FaultInv, Undisturbed
    <3>2. foreign = 0 /\ faults <= 3 => InPlace'
      BY <1>1, <1>4, <2>1, <2>2, <3>1, OutcomeFields DEF Bytes, PInv, CallInv, Replaced, InPlace
    <3> QED BY <1>1, <2>1, <2>2, <3>2, OutcomeFields DEF FaultInv, Undisturbed, Fault
  <2>6. faults <= 3 => Refines
    <3>1. dir.tmp \in Inode BY DEF PInv, TypeOK, DirNames
    <3>2. call.out = "published" BY <1>1 DEF PInv, CallInv
    <3>3. faults <= 3 /\ foreign = 0 => Bytes(dir.tmp) = call.bytes
      BY <1>1, <1>4 DEF PInv, FaultInv, Undisturbed, Replaced
    <3>4. synced' = synced \cup {dir.tmp} \/ synced' = {dir.tmp} BY <1>4 DEF PutBack, Retarget
    <3> QED BY <1>1, <2>1, <2>2, <3>1, <3>2, <3>3, <3>4, OutcomeFields, Withdraws DEF PInv
  <2> QED BY <1>1, <2>1, <2>2, <2>3, <2>4, <2>5, <2>6, Changes
<1>5. CASE ~Possible("tmp") /\ Goto("copy") /\ UNCHANGED <<dir, synced, faults>>
  <2>1. UNCHANGED <<still, dir, synced>> /\ (UNCHANGED faults \/ Fault) BY <1>5 DEF still, Restore
  <2>2. DOMAIN call' = CallFields /\ Keeps({"pc"}) /\ call'.pc = "copy"
    BY <1>5, GotoKeeps, Zenon DEF PInv
  <2>3. NamesFree' /\ CallInv' /\ SyncedInv'
    BY <1>1, <1>5, <2>1, <2>2, KeepsFields DEF PInv, NamesFree, CallInv, SyncedInv
  <2>4. FaultInv'
    <3>1. ~(foreign = 0 /\ faults <= 3)
      BY <1>1, <1>5 DEF PInv, FaultInv, Undisturbed, CallInv, Possible, Replaced
    <3> QED BY <1>1, <2>1, <3>1 DEF FaultInv, Fault
  <2> QED BY <1>1, <2>1, <2>2, <2>3, <2>4, Moves
<1>6. CASE Fault /\ Goto("copy") /\ UNCHANGED <<dir, synced>>
  <2>1. UNCHANGED <<still, dir, synced>> /\ (UNCHANGED faults \/ Fault) BY <1>6 DEF still, Restore
  <2>2. DOMAIN call' = CallFields /\ Keeps({"pc"}) /\ call'.pc = "copy"
    BY <1>6, GotoKeeps, Zenon DEF PInv
  <2>3. NamesFree' /\ CallInv' /\ SyncedInv'
    BY <1>1, <1>6, <2>1, <2>2, KeepsFields DEF PInv, NamesFree, CallInv, SyncedInv
  <2>4. FaultInv'
    <3>1. call.copy = "bak" /\ call.tmp # 0 BY <1>1 DEF PInv, CallInv
    <3>2. foreign = 0 /\ faults <= 3 => Backed /\ Replaced /\ faults >= 1
      BY <1>1 DEF PInv, FaultInv, Undisturbed
    <3>3. foreign = 0 /\ faults <= 3 => Copyable' /\ Published'
      BY <1>1, <2>1, <2>2, <3>1, <3>2, KeepsFields DEF Backed, Replaced, Copyable, Published, Bytes
    <3> QED BY <1>1, <1>6, <2>2, <3>1, <3>2, <3>3, KeepsFields DEF FaultInv, Undisturbed, Fault
  <2> QED BY <1>1, <2>1, <2>2, <2>3, <2>4, Moves
<1> QED BY <1>4, <1>5, <1>6 DEF Restore

(* A copy that cannot be used is followed by the next one; without         *)
(* interference, by then three system calls have failed.                   *)
LEMMA NextCopyStep ==
    ASSUME PInv, call.pc \in Copying, call' = NextCopy, UNCHANGED <<still, quiet>>,
           UNCHANGED faults \/ Fault,
           foreign = 0 /\ faults' <= 3 => call.copy = "bak" /\ faults' >= 3 /\ Published
    PROVE  PInv' /\ Refines
<1>1. UNCHANGED <<dir, synced, inodes, foreign>> BY DEF still, quiet, bounds
<1>2. dir' \in [DirNames -> Inode] /\ synced' \subseteq Inode /\ 0 \in Inode
  BY <1>1 DEF PInv, TypeOK, Inode
<1>3. TypeOK' /\ LoadInv' /\ Inode' = Inode BY <1>2, SameInodes DEF PInv
<1>4. /\ DOMAIN call' = CallFields /\ Keeps({"pc", "bak", "rec"})
      /\ call'.pc = (IF call.copy = "bak" THEN "recover" ELSE "clean")
      /\ call'.bak = (IF call.copy = "bak" THEN call.bak ELSE 0)
      /\ call'.rec = (IF call.copy = "bak" THEN call.rec ELSE 0)
  BY Zenon DEF PInv, CallType, CallFields, Keeps, NextCopy
<1>5. /\ call'.plan = call.plan /\ call'.ino = call.ino /\ call'.bytes = call.bytes
      /\ call'.tmp = call.tmp /\ call'.pub = call.pub /\ call'.mode = call.mode
      /\ call'.copy = call.copy /\ call'.out = call.out
  BY <1>4 DEF Keeps, CallFields
<1>6. CallType' BY <1>2, <1>3, <1>4, <1>5 DEF PInv, CallType
<1>7. NamesFree' /\ SyncedInv' BY <1>1, <1>4, <1>5 DEF PInv, NamesFree, SyncedInv
<1>8. CallInv' BY <1>4, <1>5 DEF PInv, CallInv
<1>9. FaultInv'
  <2>1. Published => Published' BY <1>1, <1>5 DEF Published
  <2> QED BY <1>1, <1>4, <1>5, <2>1 DEF FaultInv, Undisturbed
<1>10. call.pc # "none" /\ call'.pc # "none" BY <1>4
<1>11. Refines BY <1>1, <1>5, <1>10, Stutters
<1> QED BY <1>3, <1>6, <1>7, <1>8, <1>9, <1>11 DEF PInv

LEMMA CopyStep == PInv /\ Copy => PInv' /\ (faults <= 3 => Refines)
<1> SUFFICES ASSUME PInv, Copy PROVE PInv' /\ (faults <= 3 => Refines)
  OBVIOUS
<1>1. call.pc = "copy" /\ UNCHANGED <<quiet, inodes, foreign>> /\ faults \in Nat
  BY DEF Copy, At, quiet, bounds, PInv, TypeOK
<1> DEFINE usable == dir[call.copy] = call[call.copy] /\ Bytes(call[call.copy]) = call.bytes
<1>4. call.copy \in {"bak", "rec"} BY DEF PInv, CallType
<1>5. CASE /\ dir.target = 0 /\ UNCHANGED <<still, faults>>
           /\ call' = [call EXCEPT !.pc = "put", !.mode = "move", !.pub = 0]
  <2>1. /\ DOMAIN call' = CallFields /\ Keeps(Outcome) /\ call'.pc = "put"
        /\ call'.pub = 0 /\ call'.mode = "move" /\ call'.out = call.out
    BY <1>5, Zenon DEF PInv, CallType, CallFields, Keeps, Outcome
  <2>2. /\ dir' = dir
        /\ dir' \in [DirNames -> Inode] /\ synced' \subseteq Inode /\ (UNCHANGED faults \/ Fault)
    BY <1>5 DEF PInv, TypeOK, DirNames, Inode, still
  <2>3. NamesFree' /\ SyncedInv'
    BY <1>1, <1>5, <2>1, <2>2, OutcomeFields DEF PInv, NamesFree, SyncedInv, CallInv, Installed
  <2>4. CallInv' BY <1>1, <1>5, <2>1, OutcomeFields DEF PInv, CallInv
  <2>5. FaultInv'
    <3>1. ~(foreign = 0 /\ faults <= 3) BY <1>1, <1>5 DEF PInv, FaultInv, Undisturbed, Published
    <3> QED BY <1>1, <1>5, <3>1 DEF FaultInv
  <2>6. faults <= 3 => Refines
    <3>1. UNCHANGED synced BY <1>5 DEF still
    <3> QED BY <1>1, <2>1, <2>2, <3>1, OutcomeFields, Stutters
  <2> QED BY <1>1, <2>1, <2>2, <2>3, <2>4, <2>5, <2>6, Changes
<1>6. CASE /\ UNCHANGED <<still, faults>>
           /\ call' = [call EXCEPT !.pc = "put", !.mode = "swap"]
  <2>1. /\ DOMAIN call' = CallFields /\ Keeps(Outcome) /\ call'.pc = "put"
        /\ call'.pub = call.pub /\ call'.mode = "swap" /\ call'.out = call.out
    BY <1>6, Zenon DEF PInv, CallType, CallFields, Keeps, Outcome
  <2>2. /\ dir' = dir
        /\ dir' \in [DirNames -> Inode] /\ synced' \subseteq Inode /\ (UNCHANGED faults \/ Fault)
    BY <1>6 DEF PInv, TypeOK, DirNames, Inode, still
  <2>3. NamesFree' /\ SyncedInv'
    BY <1>1, <1>6, <2>1, <2>2, OutcomeFields DEF PInv, NamesFree, SyncedInv, CallInv, Installed
  <2>4. CallInv' BY <1>1, <1>6, <2>1, OutcomeFields DEF PInv, CallInv
  <2>5. FaultInv'
    <3>1. foreign = 0 /\ faults <= 3 =>
            Copyable /\ Published /\ faults >= (IF call.copy = "bak" THEN 2 ELSE 3)
      BY <1>1 DEF PInv, FaultInv, Undisturbed
    <3>2. call'[call'.copy] = call[call.copy] BY <1>4, <2>1, OutcomeFields
    <3>3. Copyable => Copyable' BY <1>1, <2>1, <2>2, <3>2, OutcomeFields DEF Copyable, Bytes
    <3>4. Published => Published' BY <2>1, <2>2 DEF Published
    <3> QED BY <1>1, <1>6, <2>1, <3>1, <3>3, <3>4, OutcomeFields DEF FaultInv, Undisturbed
  <2>6. faults <= 3 => Refines
    <3>1. UNCHANGED synced BY <1>6 DEF still
    <3> QED BY <1>1, <2>1, <2>2, <3>1, OutcomeFields, Stutters
  <2> QED BY <1>1, <2>1, <2>2, <2>3, <2>4, <2>5, <2>6, Changes
<1>7. CASE /\ call' = NextCopy /\ UNCHANGED <<still, faults>>
           /\ ~(usable /\ dir.target = call.pub)
  <2>1. ~(foreign = 0 /\ faults <= 3)
    BY <1>1, <1>7 DEF PInv, FaultInv, Undisturbed, Copyable, Published
  <2> QED BY <1>1, <1>7, <2>1, NextCopyStep
<1> QED BY <1>5, <1>6, <1>7 DEF Copy

LEMMA PutStep == PInv /\ Put => PInv' /\ (faults <= 3 => Refines)
<1> SUFFICES ASSUME PInv, Put PROVE PInv' /\ (faults <= 3 => Refines)
  OBVIOUS
<1>1. call.pc = "put" /\ UNCHANGED <<quiet, inodes, foreign>> /\ faults \in Nat
  BY DEF Put, At, quiet, bounds, PInv, TypeOK
<1>4. call.copy \in {"bak", "rec"} BY DEF PInv, CallType
<1>5. CASE /\ call.copy = "bak" /\ PutBack("bak")
           /\ call' = [call EXCEPT !.pc = "copied", !.pub = dir.bak]
  <2>1. /\ DOMAIN call' = CallFields /\ Keeps(Outcome) /\ call'.pc = "copied"
        /\ call'.pub = dir.bak /\ call'.mode = call.mode /\ call'.out = call.out
    BY <1>5, Zenon DEF PInv, CallType, CallFields, Keeps, Outcome
  <2>2. /\ dir'.target = dir.bak /\ dir'.tmp = dir.tmp
        /\ dir'.bak = dir.target /\ dir'.rec = dir.rec /\ dir'.priv = dir.priv
        /\ dir' \in [DirNames -> Inode] /\ synced' \subseteq Inode /\ (UNCHANGED faults \/ Fault)
    BY <1>5 DEF PInv, TypeOK, DirNames, Inode, still, PutBack, Retarget
  <2>3. NamesFree' /\ SyncedInv'
    BY <1>1, <1>5, <2>1, <2>2, OutcomeFields DEF PInv, NamesFree, SyncedInv, CallInv, Installed
  <2>4. CallInv' BY <1>1, <1>5, <2>1, OutcomeFields DEF PInv, CallInv
  <2>5. FaultInv'
    <3>1. foreign = 0 /\ faults <= 3 => dir.bak = call.bak /\ Bytes(call.bak) = call.bytes
      BY <1>1, <1>5 DEF PInv, FaultInv, Undisturbed, Copyable
    <3>2. call'[call'.copy] = call.bak BY <1>5, <2>1, OutcomeFields, Zenon
    <3>3. foreign = 0 /\ faults <= 3 => CopyInPlace'
      BY <1>1, <2>1, <2>2, <3>1, <3>2, OutcomeFields DEF CopyInPlace, Bytes
    <3> QED BY <1>1, <2>1, <2>2, <3>3 DEF FaultInv, Undisturbed, Fault
  <2>6. faults <= 3 => Refines
    <3>1. dir.bak \in Inode BY DEF PInv, TypeOK, DirNames
    <3>2. call.out = "published" BY <1>1 DEF PInv, CallInv
    <3>3. faults <= 3 /\ foreign = 0 => Bytes(dir.bak) = call.bytes
      BY <1>1, <1>5 DEF PInv, FaultInv, Undisturbed, Copyable
    <3>4. synced' = synced \cup {dir.bak} \/ synced' = {dir.bak} BY <1>5 DEF PutBack, Retarget
    <3> QED BY <1>1, <2>1, <2>2, <3>1, <3>2, <3>3, <3>4, OutcomeFields, Withdraws DEF PInv
  <2> QED BY <1>1, <2>1, <2>2, <2>3, <2>4, <2>5, <2>6, Changes
<1>6. CASE /\ call.copy = "rec" /\ PutBack("rec")
           /\ call' = [call EXCEPT !.pc = "copied", !.pub = dir.rec]
  <2>1. /\ DOMAIN call' = CallFields /\ Keeps(Outcome) /\ call'.pc = "copied"
        /\ call'.pub = dir.rec /\ call'.mode = call.mode /\ call'.out = call.out
    BY <1>6, Zenon DEF PInv, CallType, CallFields, Keeps, Outcome
  <2>2. /\ dir'.target = dir.rec /\ dir'.tmp = dir.tmp
        /\ dir'.bak = dir.bak /\ dir'.rec = dir.target /\ dir'.priv = dir.priv
        /\ dir' \in [DirNames -> Inode] /\ synced' \subseteq Inode /\ (UNCHANGED faults \/ Fault)
    BY <1>6 DEF PInv, TypeOK, DirNames, Inode, still, PutBack, Retarget
  <2>3. NamesFree' /\ SyncedInv'
    BY <1>1, <1>6, <2>1, <2>2, OutcomeFields DEF PInv, NamesFree, SyncedInv, CallInv, Installed
  <2>4. CallInv' BY <1>1, <1>6, <2>1, OutcomeFields DEF PInv, CallInv
  <2>5. FaultInv'
    <3>1. foreign = 0 /\ faults <= 3 => dir.rec = call.rec /\ Bytes(call.rec) = call.bytes
      BY <1>1, <1>6 DEF PInv, FaultInv, Undisturbed, Copyable
    <3>2. call'[call'.copy] = call.rec BY <1>6, <2>1, OutcomeFields, Zenon
    <3>3. foreign = 0 /\ faults <= 3 => CopyInPlace'
      BY <1>1, <2>1, <2>2, <3>1, <3>2, OutcomeFields DEF CopyInPlace, Bytes
    <3> QED BY <1>1, <2>1, <2>2, <3>3 DEF FaultInv, Undisturbed, Fault
  <2>6. faults <= 3 => Refines
    <3>1. dir.rec \in Inode BY DEF PInv, TypeOK, DirNames
    <3>2. call.out = "published" BY <1>1 DEF PInv, CallInv
    <3>3. faults <= 3 /\ foreign = 0 => Bytes(dir.rec) = call.bytes
      BY <1>1, <1>6 DEF PInv, FaultInv, Undisturbed, Copyable
    <3>4. synced' = synced \cup {dir.rec} \/ synced' = {dir.rec} BY <1>6 DEF PutBack, Retarget
    <3> QED BY <1>1, <2>1, <2>2, <3>1, <3>2, <3>3, <3>4, OutcomeFields, Withdraws DEF PInv
  <2> QED BY <1>1, <2>1, <2>2, <2>3, <2>4, <2>5, <2>6, Changes
<1>7. CASE ~Possible(call.copy) /\ call' = NextCopy /\ UNCHANGED <<dir, synced, faults>>
  <2>1. UNCHANGED still BY <1>7 DEF Put, still
  <2>2. ~(foreign = 0 /\ faults <= 3)
    BY <1>1, <1>7 DEF PInv, FaultInv, Undisturbed, Possible, Copyable, Published
  <2> QED BY <1>1, <1>7, <2>1, <2>2, NextCopyStep
<1>8. CASE Fault /\ call' = NextCopy /\ UNCHANGED <<dir, synced>>
  <2>1. UNCHANGED still BY <1>8 DEF Put, still
  <2>2. foreign = 0 /\ faults' <= 3 => call.copy = "bak" /\ faults' >= 3 /\ Published
    BY <1>1, <1>4, <1>8 DEF PInv, FaultInv, Undisturbed, Fault
  <2> QED BY <1>1, <1>8, <2>1, <2>2, NextCopyStep
<1> QED BY <1>4, <1>5, <1>6, <1>7, <1>8, Zenon DEF Put

LEMMA CopiedStep == PInv /\ Copied => PInv' /\ (faults <= 3 => Refines)
<1> SUFFICES ASSUME PInv, Copied PROVE PInv' /\ (faults <= 3 => Refines)
  OBVIOUS
<1>1. call.pc = "copied" /\ UNCHANGED <<quiet, inodes, foreign>> /\ faults \in Nat
  BY DEF Copied, At, quiet, bounds, PInv, TypeOK
<1> DEFINE back == dir.target = call[call.copy] /\ Bytes(dir.target) = call.bytes
<1>4. CASE back /\ Fail /\ UNCHANGED faults
  <2>1. UNCHANGED <<still, dir, synced>> /\ (UNCHANGED faults \/ Fault) BY <1>4 DEF still, Copied
  <2>2. DOMAIN call' = CallFields /\ Keeps({"pc"}) /\ call'.pc = "clean"
    BY <1>4, FailKeeps, Zenon DEF PInv
  <2>3. NamesFree' /\ CallInv' /\ SyncedInv'
    BY <1>1, <1>4, <2>1, <2>2, KeepsFields DEF PInv, NamesFree, CallInv, SyncedInv
  <2>4. FaultInv'
    <3>1. (Bytes(dir.target) = call.bytes)' BY <1>1, <1>4, <2>1, <2>2, KeepsFields DEF Bytes
    <3> QED BY <2>2, <3>1 DEF FaultInv, Undisturbed
  <2> QED BY <1>1, <2>1, <2>2, <2>3, <2>4, Moves
<1>5. CASE ~back /\ call' = NextCopy /\ UNCHANGED <<still, faults>>
  <2>1. ~(foreign = 0 /\ faults <= 3) BY <1>1, <1>5 DEF PInv, FaultInv, Undisturbed, CopyInPlace
  <2> QED BY <1>1, <1>5, <2>1, NextCopyStep
<1> QED BY <1>4, <1>5 DEF Copied, Fail

(***************************************************************************)
(* The retirement of the names.                                            *)
(***************************************************************************)

(* A cleaning step leaves the target alone. *)
LEMMA Cleans ==
    ASSUME PInv, call.pc \in Ending, call'.pc \in Ending, UNCHANGED <<quiet, synced>>,
           UNCHANGED faults \/ Fault, dir' \in [DirNames -> Inode], dir'.target = dir.target,
           call'.pc # "identify" => dir'.priv = 0,
           call'.pc \in {"retire", "identify"} => call'.mode \in {"tmp", "bak", "rec"},
           DOMAIN call' = CallFields, Keeps({"pc", "mode"})
    PROVE  PInv' /\ Refines
<1>1. UNCHANGED <<inodes, foreign>> BY DEF quiet, bounds
<1>2. synced' \subseteq Inode BY DEF PInv, TypeOK
<1>3. TypeOK' /\ LoadInv' /\ Inode' = Inode BY <1>2, SameInodes DEF PInv
<1>4. /\ call'.plan = call.plan /\ call'.ino = call.ino /\ call'.bytes = call.bytes
      /\ call'.tmp = call.tmp /\ call'.bak = call.bak /\ call'.rec = call.rec
      /\ call'.copy = call.copy /\ call'.out = call.out
  BY DEF Keeps, CallFields
<1>5. CallType' BY <1>3, <1>4 DEF PInv, CallType
<1>6. NamesFree' /\ SyncedInv' BY DEF NamesFree, SyncedInv
<1>7. CallInv' BY <1>4 DEF PInv, CallInv
<1>8. FaultInv'
  <2>1. faults \in Nat BY DEF PInv, TypeOK
  <2>2. foreign' = 0 /\ faults' <= 3 => foreign = 0 /\ faults <= 3 BY <1>1, <2>1 DEF Fault
  <2>3. Bytes(dir.target)' = Bytes(dir.target) BY <1>1 DEF Bytes
  <2> QED BY <1>4, <2>2, <2>3 DEF PInv, FaultInv, Undisturbed
<1>9. Refines BY <1>1, <1>4, Stutters
<1> QED BY <1>3, <1>5, <1>6, <1>7, <1>8, <1>9 DEF PInv

LEMMA CleanStep == PInv /\ Clean => PInv' /\ Refines
<1> SUFFICES ASSUME PInv, Clean PROVE PInv' /\ Refines
  OBVIOUS
<1>1. call.pc = "clean" /\ UNCHANGED <<quiet, faults, synced>> BY DEF Clean, At, still
<1>2. PICK n \in {"tmp", "bak", "rec"} :
        \/ call' = [call EXCEPT !.pc = "retire", !.mode = n] /\ UNCHANGED dir
        \/ dir' = [dir EXCEPT ![n] = 0] /\ UNCHANGED call
  <2> DEFINE m == CHOOSE k \in Used : TRUE
  <2>1. m \in {"tmp", "bak", "rec"} BY DEF Clean, Used
  <2>2. \/ call' = [call EXCEPT !.pc = "retire", !.mode = m] /\ UNCHANGED dir
        \/ dir' = [dir EXCEPT ![m] = 0] /\ UNCHANGED call
    BY DEF Clean, still
  <2> HIDE DEF m
  <2> QED BY Zenon, <2>1, <2>2
<1>3. /\ DOMAIN call' = CallFields /\ Keeps({"pc", "mode"})
      /\ call'.pc = "clean" \/ (call'.pc = "retire" /\ call'.mode = n)
  <2>1. CASE call' = [call EXCEPT !.pc = "retire", !.mode = n]
    BY <2>1, Zenon DEF PInv, CallType, CallFields, Keeps
  <2>2. CASE UNCHANGED call BY <1>1, <2>2 DEF PInv, CallType, Keeps
  <2> QED BY <1>2, <2>1, <2>2
<1>4. dir' \in [DirNames -> Inode] /\ dir'.target = dir.target /\ dir'.priv = 0
  BY <1>1, <1>2 DEF PInv, TypeOK, NamesFree, DirNames, Inode
<1> QED BY <1>1, <1>3, <1>4, Cleans

LEMMA RetireStep == PInv /\ Retire => PInv' /\ Refines
<1> SUFFICES ASSUME PInv, Retire PROVE PInv' /\ Refines
  OBVIOUS
<1>1. call.pc = "retire" /\ UNCHANGED <<quiet, synced>> /\ (UNCHANGED faults \/ Fault)
  BY DEF Retire, At
<1>2. PICK n \in {"tmp", "bak", "rec"} : call.mode = n BY <1>1 DEF PInv, CallInv
<1>3. \/ Goto("identify") /\ dir' = [dir EXCEPT !.priv = dir[n], ![n] = 0]
      \/ Goto("clean") /\ dir' = [dir EXCEPT ![n] = 0]
  BY <1>2 DEF Retire
<1>4. DOMAIN call' = CallFields /\ Keeps({"pc"}) BY <1>3, GotoKeeps, Zenon DEF PInv
<1>5. call'.pc = "identify" \/ (call'.pc = "clean" /\ dir' = [dir EXCEPT ![n] = 0])
  BY <1>3, GotoKeeps, Zenon DEF PInv
<1>6. Keeps({"pc", "mode"}) /\ call'.mode = call.mode BY <1>4, KeepsFields DEF Keeps
<1>7. dir' \in [DirNames -> Inode] /\ dir'.target = dir.target
  <2>1. 0 \in Inode BY DEF PInv, TypeOK, Inode
  <2>2. n \in DirNames /\ n # "target" /\ dir \in [DirNames -> Inode] BY DEF PInv, TypeOK, DirNames
  <2>3. CASE dir' = [dir EXCEPT ![n] = 0] BY <2>1, <2>2, <2>3 DEF DirNames
  <2>4. CASE dir' = [dir EXCEPT !.priv = dir[n], ![n] = 0]
    <3>1. dir[n] \in Inode /\ "priv" \in DirNames BY <2>2 DEF DirNames
    <3> QED BY <2>1, <2>2, <2>4, <3>1 DEF DirNames
  <2> QED BY <1>3, <2>3, <2>4
<1>8. call'.pc # "identify" => dir'.priv = 0 BY <1>1, <1>5 DEF PInv, TypeOK, NamesFree, DirNames
<1> QED BY <1>1, <1>2, <1>4, <1>5, <1>6, <1>7, <1>8, Cleans

LEMMA IdentifyStep == PInv /\ Identify => PInv' /\ Refines
<1> SUFFICES ASSUME PInv, Identify PROVE PInv' /\ Refines
  OBVIOUS
<1>1. call.pc = "identify" /\ UNCHANGED <<quiet, synced, faults>> BY DEF Identify, At
<1>2. DOMAIN call' = CallFields /\ Keeps({"pc"}) /\ call'.pc = "clean"
  BY GotoKeeps DEF PInv, Identify
<1>3. Keeps({"pc", "mode"}) BY <1>2 DEF Keeps
<1>4. dir' \in [DirNames -> Inode] /\ dir'.target = dir.target /\ dir'.priv = 0
  BY DEF Identify, PInv, TypeOK, DirNames, Inode
<1> QED BY <1>1, <1>2, <1>3, <1>4, Cleans

(* Without a call nothing is known but the free names. *)
LEMMA Idle ==
    ASSUME call' = NoCall, dir'.tmp = 0, dir'.bak = 0, dir'.rec = 0, dir'.priv = 0, TypeOK'
    PROVE  CallType' /\ NamesFree' /\ CallInv' /\ SyncedInv' /\ FaultInv'
<1>1. DOMAIN call' = CallFields BY Zenon DEF NoCall, CallFields
<1>2. /\ call'.pc = "none" /\ call'.plan = Absent /\ call'.bytes = Absent /\ call'.ino = 0
      /\ call'.tmp = 0 /\ call'.bak = 0 /\ call'.rec = 0 /\ call'.copy = "bak" /\ call'.out = "open"
  BY DEF NoCall
<1>3. 0 \in Inode' BY DEF TypeOK, Inode
<1>4. CallType' BY <1>1, <1>2, <1>3 DEF CallType
<1>5. NamesFree' /\ SyncedInv' BY <1>2 DEF NamesFree, SyncedInv
<1>6. CallInv' BY <1>2 DEF CallInv
<1>7. FaultInv' BY <1>2 DEF FaultInv, Undisturbed
<1> QED BY <1>4, <1>5, <1>6, <1>7

LEMMA UnlockStep == PInv /\ Unlock => PInv' /\ (faults <= 3 => Refines)
<1> SUFFICES ASSUME PInv, Unlock PROVE PInv' /\ (faults <= 3 => Refines)
  OBVIOUS
<1>1. call.pc = "clean" /\ call' = NoCall /\ UNCHANGED <<quiet, faults, dir, synced, inodes, foreign>>
  BY DEF Unlock, At, still, quiet, bounds
<1>2. dir.tmp = 0 /\ dir.bak = 0 /\ dir.rec = 0 /\ dir.priv = 0
  <2>1. dir.priv = 0 BY <1>1 DEF PInv, NamesFree
  <2>2. \A n \in {"tmp", "bak", "rec"} : dir[n] = 0 BY DEF Unlock, Used
  <2> QED BY <2>1, <2>2
<1>3. dir' \in [DirNames -> Inode] /\ synced' \subseteq Inode BY <1>1 DEF PInv, TypeOK
<1>4. TypeOK' /\ LoadInv' BY <1>1, <1>3, SameInodes DEF PInv
<1>5. PInv' BY <1>1, <1>2, <1>4, Idle DEF PInv
<1>6. ASSUME faults <= 3 PROVE Refines
  <2>1. Bytes(dir.target)' = Bytes(dir.target) /\ {Bytes(j) : j \in synced}' = {Bytes(j) : j \in synced}
    BY <1>1 DEF Bytes
  <2>2. foreign \in Nat /\ call.out \in {"open", "published", "complete"}
    BY DEF PInv, TypeOK, CallType
  <2>3. call.out = "published" => Bytes(dir.target) = call.bytes \/ foreign > 0
    BY <1>1, <1>6, <2>2 DEF PInv, FaultInv, Undisturbed
  <2>4. call'.pc = "none" /\ call'.plan = Absent /\ call'.out = "open" BY <1>1 DEF NoCall
  <2>5. Abstract!End BY <1>1, <2>1, <2>2, <2>3, <2>4 DEF Abstract!End, At
  <2> QED BY <2>5 DEF Refines, Abstract!Next
<1> QED BY <1>5, <1>6

(***************************************************************************)
(* The steps of the other actors.                                          *)
(***************************************************************************)

(* A step that leaves the name space, the inodes and the call alone. *)
LEMMA Others ==
    ASSUME PInv, UNCHANGED <<dir, synced, inodes, call, faults, foreign>>, TypeOK', LoadInv'
    PROVE  PInv' /\ Refines
<1>1. Inode' = Inode BY DEF Inode
<1>2. CallType' BY <1>1 DEF PInv, CallType
<1>3. NamesFree' /\ SyncedInv' /\ CallInv' BY DEF PInv, NamesFree, SyncedInv, CallInv
<1>4. FaultInv' BY DEF PInv, FaultInv, Undisturbed, Staged, Created, Backed, InPlace, Replaced,
                      Published, Copyable, CopyInPlace, Bytes
<1>5. UNCHANGED Abstract!vars BY DEF Abstract!vars, Bytes, At
<1> QED BY <1>2, <1>3, <1>4, <1>5 DEF PInv, Refines

LEMMA AskStep == PInv /\ Ask => PInv' /\ Refines
<1> SUFFICES ASSUME PInv, Ask PROVE PInv' /\ Refines
  OBVIOUS
<1>1. UNCHANGED <<dir, synced, inodes, call, load, faults, foreign>> BY DEF Ask, still
<1>2. PICK w \in Writers, p \in PlanFiles : want' = [want EXCEPT ![w] = p] BY Zenon DEF Ask
<1>3. want' \in [Writers -> PlanFiles \cup {Absent}] BY <1>2 DEF PInv, TypeOK
<1>4. Inode' = Inode BY <1>1 DEF Inode
<1>5. TypeOK' BY <1>1, <1>3, <1>4 DEF PInv, TypeOK
<1>6. LoadInv' BY <1>1 DEF PInv, LoadInv, Bytes, Ver
<1> QED BY <1>1, <1>5, <1>6, Others

LEMMA VerType ==
    ASSUME TypeOK, NEW i \in Inode
    PROVE  Ver(i) \in Nat
<1>1. CASE i = 0 BY <1>1 DEF Ver
<1>2. CASE i # 0
  <2>1. i \in 1..Len(inodes) BY <1>2 DEF Inode
  <2>2. inodes[i] \in InodeState BY <2>1 DEF TypeOK
  <2> QED BY <1>2, <2>2 DEF Ver, InodeState
<1> QED BY <1>1, <1>2

LEMMA LoadStep == PInv /\ Load => PInv' /\ Refines
<1> SUFFICES ASSUME PInv, Load PROVE PInv' /\ Refines
  OBVIOUS
<1>1. UNCHANGED <<dir, synced, inodes, want, call, faults, foreign>>
  BY DEF Load, LoadStat, LoadRead, LoadRestat, LoadVerify, LoadNamed, LoadReturn, still, bounds
<1>2. Inode' = Inode BY <1>1 DEF Inode
<1>3. /\ dir.target \in Inode /\ load.ino \in Inode /\ load.ver \in Nat /\ 0 \in Inode
      /\ DOMAIN load = {"pc", "ino", "ver", "bytes"}
  BY DEF PInv, TypeOK, DirNames, Inode
<1>4. Ver(dir.target) \in Nat /\ Ver(load.ino) \in Nat BY <1>3, VerType DEF PInv
<1>5. DOMAIN NoLoad = {"pc", "ino", "ver", "bytes"} /\ NoLoad.ino = 0 /\ NoLoad.ver = 0
  BY DEF NoLoad
<1>6. /\ DOMAIN load' = {"pc", "ino", "ver", "bytes"} /\ load'.ino \in Inode /\ load'.ver \in Nat
      /\ load'.pc = "named" => /\ load'.ver <= Ver(load'.ino)
                               /\ Ver(load'.ino) = load'.ver => Bytes(load'.ino) = load'.bytes
  <2>1. CASE load' = NoLoad BY <1>3, <1>5, <2>1 DEF NoLoad
  <2>2. CASE LoadStat
    <3>1. load' = [NoLoad EXCEPT !.pc = "read", !.ino = dir.target, !.ver = Ver(dir.target)]
      BY <2>2 DEF LoadStat
    <3>2. load'.pc = "read" /\ load'.ino = dir.target /\ load'.ver = Ver(dir.target)
      BY <1>5, <3>1
    <3>3. DOMAIN load' = {"pc", "ino", "ver", "bytes"} BY <1>5, <3>1
    <3> QED BY <1>3, <1>4, <3>2, <3>3
  <2>3. CASE LoadRead /\ load' # NoLoad
    <3>1. load' = [load EXCEPT !.pc = "restat", !.bytes = Bytes(load.ino)] BY <2>3 DEF LoadRead
    <3>2. load'.pc = "restat" /\ load'.ino = load.ino /\ load'.ver = load.ver BY <1>3, <3>1
    <3>3. DOMAIN load' = {"pc", "ino", "ver", "bytes"} BY <1>3, <3>1
    <3> QED BY <1>3, <3>2, <3>3
  <2>4. CASE LoadRestat /\ load' # NoLoad
    <3>1. load' = [load EXCEPT !.pc = "verify"] BY <2>4 DEF LoadRestat
    <3>2. load'.pc = "verify" /\ load'.ino = load.ino /\ load'.ver = load.ver BY <1>3, <3>1
    <3>3. DOMAIN load' = {"pc", "ino", "ver", "bytes"} BY <1>3, <3>1
    <3> QED BY <1>3, <3>2, <3>3
  <2>5. CASE LoadVerify /\ load' # NoLoad
    <3>1. load' = [load EXCEPT !.pc = "named", !.ver = Ver(load.ino)] /\ Bytes(load.ino) = load.bytes
      BY <2>5 DEF LoadVerify
    <3>2. /\ load'.pc = "named" /\ load'.ino = load.ino /\ load'.ver = Ver(load.ino)
          /\ load'.bytes = load.bytes
      BY <1>3, <3>1
    <3>3. DOMAIN load' = {"pc", "ino", "ver", "bytes"} BY <1>3, <3>1
    <3>4. Ver(load'.ino) = Ver(load.ino) /\ Bytes(load'.ino) = Bytes(load.ino) BY <3>2
    <3> QED BY <1>3, <1>4, <3>1, <3>2, <3>3, <3>4
  <2>6. CASE LoadNamed /\ load' # NoLoad
    <3>1. load' = [load EXCEPT !.pc = "parsed"] BY <2>6 DEF LoadNamed
    <3>2. load'.pc = "parsed" /\ load'.ino = load.ino /\ load'.ver = load.ver BY <1>3, <3>1
    <3>3. DOMAIN load' = {"pc", "ino", "ver", "bytes"} BY <1>3, <3>1
    <3> QED BY <1>3, <3>2, <3>3
  <2>7. LoadReturn => load' = NoLoad BY DEF LoadReturn
  <2> QED BY <2>1, <2>2, <2>3, <2>4, <2>5, <2>6, <2>7 DEF Load
<1>7. TypeOK' BY <1>1, <1>2, <1>6 DEF PInv, TypeOK
<1>8. LoadInv' BY <1>1, <1>6 DEF LoadInv, Bytes, Ver
<1> QED BY <1>1, <1>7, <1>8, Others

(* What the path holds, and what it may hold after a power loss, is a file *)
(* or nothing, in the next state.                                          *)
LEMMA FilesPrimed ==
    ASSUME TypeOK'
    PROVE  /\ Bytes(dir.target)' \in Contents \cup {Absent}
           /\ {Bytes(j) : j \in synced}' \subseteq Contents \cup {Absent}
<1>1. ASSUME NEW i \in Inode'
      PROVE  (IF i = 0 THEN Absent ELSE inodes'[i].bytes) \in Contents \cup {Absent}
  <2>1. CASE i = 0 BY <2>1
  <2>2. CASE i # 0
    <3>1. i \in 1..Len(inodes') BY <2>2 DEF Inode
    <3>2. inodes'[i] \in InodeState BY <3>1 DEF TypeOK
    <3> QED BY <2>2, <3>2 DEF InodeState
  <2> QED BY <2>1, <2>2
<1>2. dir'.target \in Inode' /\ synced' \subseteq Inode' BY DEF TypeOK, DirNames
<1>3. Bytes(dir.target)' \in Contents \cup {Absent} BY <1>1, <1>2 DEF Bytes
<1>4. {Bytes(j) : j \in synced}' \subseteq Contents \cup {Absent} BY <1>1, <1>2 DEF Bytes
<1> QED BY <1>3, <1>4

LEMMA InterfereStep == PInv /\ Interfere => PInv' /\ Refines
<1> SUFFICES ASSUME PInv, Interfere PROVE PInv' /\ Refines
  OBVIOUS
<1>1. foreign' = foreign + 1 /\ UNCHANGED <<want, call, load, faults>> BY DEF Interfere
<1>2. foreign \in Nat /\ 0 \in Inode /\ load.ino \in Inode BY DEF PInv, TypeOK, Inode
<1>3. /\ TypeOK' /\ LoadInv' /\ Inode \subseteq Inode'
      /\ \A n \in DirNames \ {"target"} : dir[n] = 0 => dir'[n] = 0
      /\ dir'.target = call.tmp /\ call.tmp # 0 => dir.target = call.tmp /\ UNCHANGED synced
  <2>1. CASE \E n \in Names, b \in {Alien, Odd} :
               /\ n # "target" => dir[n] # 0
               /\ inodes' = Append(inodes, [bytes |-> b, ver |-> 0])
               /\ dir' = [dir EXCEPT ![n] = New]
               /\ IF n = "target" THEN Retarget(New) ELSE UNCHANGED synced
    <3>1. PICK n \in Names, b \in {Alien, Odd} :
               /\ n # "target" => dir[n] # 0
               /\ inodes' = Append(inodes, [bytes |-> b, ver |-> 0])
               /\ dir' = [dir EXCEPT ![n] = New]
               /\ IF n = "target" THEN Retarget(New) ELSE UNCHANGED synced
      BY Zenon, <2>1
    <3> DEFINE m == Len(inodes)
               r == [bytes |-> b, ver |-> 0]
    <3>2. b \in Contents /\ n \in DirNames BY DEF Contents, Names, DirNames
    <3>3. r \in InodeState /\ inodes \in Seq(InodeState) /\ m \in Nat
      BY <3>2 DEF InodeState, PInv, TypeOK
    <3>4. /\ inodes' \in Seq(InodeState) /\ Len(inodes') = m + 1
          /\ \A i \in 1..m : inodes'[i] = inodes[i]
      BY <3>1, <3>3
    <3>5. New = m + 1 /\ Inode = 0..m /\ Inode' = 0..(m + 1) BY <3>4 DEF New, Inode
    <3> HIDE DEF m
    <3>6. New \in Inode' /\ New \notin Inode /\ Inode \subseteq Inode' /\ Inode \ {0} = 1..m
      BY <3>3, <3>5
    <3>7. dir' \in [DirNames -> Inode'] BY Zenon, <3>1, <3>6 DEF PInv, TypeOK
    <3>8. synced' \subseteq Inode' BY <3>1, <3>6 DEF PInv, TypeOK, Retarget
    <3>9. TypeOK' BY <1>1, <1>2, <3>4, <3>6, <3>7, <3>8 DEF PInv, TypeOK
    <3>10. LoadInv' BY <1>1, <1>2, <3>4, <3>6 DEF PInv, LoadInv, Bytes, Ver
    <3>11. \A k \in DirNames \ {"target"} : dir[k] = 0 => dir'[k] = 0
      BY <3>1 DEF PInv, TypeOK
    <3>12. dir'.target = call.tmp => dir.target = call.tmp /\ UNCHANGED synced
      <4>1. call.tmp \in Inode BY DEF PInv, CallType
      <4>2. CASE n = "target"
        <5>1. dir'.target = New BY <3>1, <3>2, <4>2 DEF PInv, TypeOK
        <5> QED BY <3>6, <4>1, <5>1
      <4>3. CASE n # "target" BY <3>1, <4>3 DEF PInv, TypeOK, DirNames
      <4> QED BY <4>2, <4>3
    <3> QED BY <3>6, <3>9, <3>10, <3>11, <3>12
  <2>2. CASE \E n \in Names :
               /\ dir[n] # 0 /\ dir' = [dir EXCEPT ![n] = 0]
               /\ IF n = "target" THEN Retarget(0) ELSE UNCHANGED synced
               /\ UNCHANGED inodes
    <3>1. PICK n \in Names :
               /\ dir[n] # 0 /\ dir' = [dir EXCEPT ![n] = 0]
               /\ IF n = "target" THEN Retarget(0) ELSE UNCHANGED synced
               /\ UNCHANGED inodes
      BY Zenon, <2>2
    <3>2. Inode' = Inode BY <3>1 DEF Inode
    <3>3. dir' \in [DirNames -> Inode] /\ synced' \subseteq Inode
      BY Zenon, <1>2, <3>1 DEF PInv, TypeOK, Retarget
    <3>4. TypeOK' BY <1>1, <1>2, <3>1, <3>2, <3>3 DEF PInv, TypeOK
    <3>5. LoadInv' BY <1>1, <3>1 DEF PInv, LoadInv, Bytes, Ver
    <3>6. \A k \in DirNames \ {"target"} : dir[k] = 0 => dir'[k] = 0
      BY <3>1 DEF PInv, TypeOK
    <3>7. dir'.target = call.tmp /\ call.tmp # 0 => dir.target = call.tmp /\ UNCHANGED synced
      BY <3>1 DEF PInv, TypeOK, DirNames
    <3> QED BY <3>2, <3>4, <3>5, <3>6, <3>7
  <2>3. CASE \E i \in {dir.target, call.ino} \ {0} :
               /\ inodes' = [inodes EXCEPT ![i] = [bytes |-> Alien, ver |-> @.ver + 1]]
               /\ UNCHANGED <<dir, synced>>
    <3>1. PICK i \in {dir.target, call.ino} \ {0} :
               inodes' = [inodes EXCEPT ![i] = [bytes |-> Alien, ver |-> inodes[i].ver + 1]]
      BY Zenon, <2>3
    <3>2. i \in 1..Len(inodes) BY DEF PInv, TypeOK, CallType, Inode, DirNames
    <3>3. inodes \in Seq(InodeState) /\ inodes[i] \in InodeState BY <3>2 DEF PInv, TypeOK
    <3>4. [bytes |-> Alien, ver |-> inodes[i].ver + 1] \in InodeState
      BY <3>3 DEF InodeState, Contents
    <3>5. /\ inodes' \in Seq(InodeState) /\ Len(inodes') = Len(inodes)
          /\ inodes'[i].ver = inodes[i].ver + 1
          /\ \A j \in 1..Len(inodes) : j # i => inodes'[j] = inodes[j]
      BY <3>1, <3>2, <3>3, <3>4
    <3>6. Inode' = Inode BY <3>5 DEF Inode
    <3>7. TypeOK' BY <1>1, <1>2, <2>3, <3>5, <3>6 DEF PInv, TypeOK
    <3>8. LoadInv'
      <4>1. CASE load.ino = i
        <5>1. load.ino # 0 /\ Ver(load.ino) = inodes[i].ver /\ inodes[i].ver \in Nat /\ load.ver \in Nat
          BY <3>2, <3>3, <4>1 DEF Ver, InodeState, PInv, TypeOK
        <5>2. load.pc = "named" => load.ver <= inodes[i].ver BY <5>1 DEF PInv, LoadInv
        <5>3. Ver(load.ino)' = inodes[i].ver + 1 BY <1>1, <3>5, <4>1, <5>1 DEF Ver
        <5> QED BY <1>1, <5>1, <5>2, <5>3 DEF LoadInv
      <4>2. CASE load.ino # i
        <5>1. load.ino # 0 => inodes'[load.ino] = inodes[load.ino]
          BY <1>2, <3>5, <4>2 DEF PInv, TypeOK, Inode
        <5> QED BY <1>1, <5>1 DEF PInv, LoadInv, Bytes, Ver
      <4> QED BY <4>1, <4>2
    <3> QED BY <2>3, <3>6, <3>7, <3>8
  <2> QED BY <2>1, <2>2, <2>3 DEF Interfere
<1>4. CallType' BY <1>1, <1>3 DEF PInv, CallType
<1>5. NamesFree' BY <1>1, <1>3 DEF PInv, NamesFree, DirNames
<1>6. CallInv' BY <1>1 DEF PInv, CallInv
<1>7. SyncedInv' BY <1>1, <1>3 DEF PInv, SyncedInv, CallInv
<1>8. FaultInv' BY <1>1, <1>2 DEF FaultInv
<1>9. Refines
  <2>1. Abstract!Interfere BY <1>1, <1>3, FilesPrimed DEF Abstract!Interfere, At
  <2> QED BY <2>1 DEF Refines, Abstract!Next
<1> QED BY <1>3, <1>4, <1>5, <1>6, <1>7, <1>8, <1>9 DEF PInv

LEMMA PowerLossStep == PInv /\ PowerLoss => PInv' /\ Refines
<1> SUFFICES ASSUME PInv, PowerLoss PROVE PInv' /\ Refines
  OBVIOUS
<1>1. PICK i \in synced \cup {dir.target} :
        dir' = [n \in DOMAIN dir |-> IF n = "target" THEN i ELSE 0] /\ synced' = {i}
  BY DEF PowerLoss
<1>2. /\ call' = NoCall /\ load' = NoLoad /\ want' = [w \in Writers |-> Absent]
      /\ UNCHANGED <<inodes, faults, foreign>>
  BY DEF PowerLoss
<1>3. i \in Inode /\ 0 \in Inode /\ Inode' = Inode BY <1>2 DEF PInv, TypeOK, DirNames, Inode
<1>4. /\ dir' \in [DirNames -> Inode] /\ dir'.target = i
      /\ dir'.tmp = 0 /\ dir'.bak = 0 /\ dir'.rec = 0 /\ dir'.priv = 0
  BY <1>1, <1>3 DEF PInv, TypeOK, DirNames
<1>5. /\ DOMAIN load' = {"pc", "ino", "ver", "bytes"} /\ load'.pc = "none"
      /\ load'.ino = 0 /\ load'.ver = 0
  BY <1>2 DEF NoLoad
<1>6. TypeOK' BY <1>1, <1>2, <1>3, <1>4, <1>5 DEF PInv, TypeOK
<1>7. LoadInv' BY <1>5 DEF LoadInv
<1>8. PInv' BY <1>2, <1>4, <1>6, <1>7, Idle DEF PInv
<1>9. Refines
  <2>1. Bytes(dir.target)' = Bytes(i) BY <1>2, <1>4 DEF Bytes
  <2>2. {Bytes(j) : j \in synced}' = {Bytes(i)} BY <1>1, <1>2, Durable
  <2>3. Bytes(i) \in {Bytes(j) : j \in synced} \cup {Bytes(dir.target)} OBVIOUS
  <2>4. call'.pc = "none" /\ call'.plan = Absent /\ call'.out = "open" BY <1>2 DEF NoCall
  <2>5. Abstract!PowerLoss BY <1>2, <2>1, <2>2, <2>3, <2>4 DEF Abstract!PowerLoss, At
  <2> QED BY <2>5 DEF Refines, Abstract!Next
<1> QED BY <1>8, <1>9

(***************************************************************************)
(* The theorems.                                                           *)
(***************************************************************************)
LEMMA InitPlan == PlanInit => PInv /\ Abstract!Init
<1> SUFFICES ASSUME PlanInit PROVE PInv /\ Abstract!Init
  OBVIOUS
<1>1. /\ dir = [target |-> Len(inodes), tmp |-> 0, bak |-> 0, rec |-> 0, priv |-> 0]
      /\ synced = {dir.target} /\ want = [w \in Writers |-> Absent] /\ call = NoCall
      /\ load = NoLoad /\ faults = 0 /\ foreign = 0
  BY DEF PlanInit
<1>2. inodes \in Seq(InodeState)
  <2>1. CASE inodes = <<>> BY <2>1
  <2>2. CASE inodes \in {<<[bytes |-> p, ver |-> 0]>> : p \in PlanFiles}
    <3>1. PICK p \in PlanFiles : inodes = <<[bytes |-> p, ver |-> 0]>> BY <2>2
    <3>2. [bytes |-> p, ver |-> 0] \in InodeState BY DEF InodeState, Contents
    <3> QED BY <3>1, <3>2
  <2> QED BY <2>1, <2>2 DEF PlanInit
<1>3. Len(inodes) \in Nat /\ Inode = 0..Len(inodes) BY <1>2 DEF Inode
<1>4. /\ dir \in [DirNames -> Inode] /\ dir.target = Len(inodes)
      /\ dir.tmp = 0 /\ dir.bak = 0 /\ dir.rec = 0 /\ dir.priv = 0
  BY <1>1, <1>3 DEF DirNames
<1>5. DOMAIN load = {"pc", "ino", "ver", "bytes"} /\ load.pc = "none" /\ load.ino = 0 /\ load.ver = 0
  BY <1>1 DEF NoLoad
<1>6. 0 \in Inode /\ dir.target \in Inode BY <1>3, <1>4
<1>7. TypeOK BY <1>1, <1>2, <1>4, <1>5, <1>6 DEF TypeOK
<1>8. DOMAIN call = CallFields BY <1>1, Zenon DEF NoCall, CallFields
<1>9. /\ call.pc = "none" /\ call.plan = Absent /\ call.bytes = Absent /\ call.ino = 0
      /\ call.tmp = 0 /\ call.bak = 0 /\ call.rec = 0 /\ call.copy = "bak" /\ call.out = "open"
  BY <1>1 DEF NoCall
<1>10. CallType BY <1>6, <1>8, <1>9 DEF CallType
<1>11. NamesFree /\ SyncedInv BY <1>4, <1>9 DEF NamesFree, SyncedInv
<1>12. CallInv BY <1>1, <1>9 DEF CallInv
<1>13. LoadInv BY <1>5 DEF LoadInv
<1>14. FaultInv BY <1>9 DEF FaultInv, Undisturbed
<1>15. Bytes(dir.target) \in Contents \cup {Absent} BY <1>6, <1>7, BytesType
<1>16. {Bytes(i) : i \in synced} = {Bytes(dir.target)} BY <1>1
<1>17. Abstract!Init BY <1>1, <1>9, <1>15, <1>16 DEF Abstract!Init, At
<1> QED BY <1>7, <1>10, <1>11, <1>12, <1>13, <1>14, <1>17 DEF PInv

LEMMA StutterStep == PInv /\ UNCHANGED pvars => PInv' /\ Refines
<1> SUFFICES ASSUME PInv, UNCHANGED pvars PROVE PInv' /\ Refines
  OBVIOUS
<1>1. UNCHANGED <<dir, synced, inodes, want, call, load, faults, foreign>> BY DEF pvars
<1>2. Inode' = Inode BY <1>1 DEF Inode
<1>3. TypeOK' BY <1>1, <1>2 DEF PInv, TypeOK
<1>4. LoadInv' BY <1>1 DEF PInv, LoadInv, Bytes, Ver
<1> QED BY <1>1, <1>3, <1>4, Others

LEMMA PlanStep == PInv /\ [PlanNext]_pvars => PInv' /\ (faults <= 3 => Refines)
<1>1. PInv /\ Write => PInv' /\ (faults <= 3 => Refines)
  BY LockStep, StatStep, ReadStep, RereadStep, VerifyStep, PrepareStep, RecheckStep, CreateStep,
     CreateSyncStep, CreateFinalStep, UncreateStep, BackupStep, DisplaceStep, ExchangeStep, CheckStep,
     SyncDirStep, FinalStep, RollbackStep, RestoreStep, RestoredStep, CopyStep, PutStep, CopiedStep,
     RecoverStep, CleanStep, RetireStep, IdentifyStep, UnlockStep
     DEF Write
<1> QED
  BY <1>1, AskStep, LoadStep, InterfereStep, PowerLossStep, StutterStep DEF PlanNext

(* Whatever plans, writers, failures, changes by other programs and power  *)
(* losses there are, write_weight_plan_atomic and load_weight_plan keep    *)
(* the relations between the names of the directory and their own local    *)
(* variables that the theorems below rest on.                              *)
THEOREM PlanInvariant == PlanSpec => []PInv
<1>1. PlanInit => PInv BY InitPlan
<1>2. PInv /\ [PlanNext]_pvars => PInv' BY PlanStep
<1> QED BY <1>1, <1>2, PTL DEF PlanSpec

(* Of the steps of a call each counts at most one failing system call, and *)
(* none of them touches a load.                                            *)
LEMMA WriteCounts == Write => UNCHANGED load /\ (UNCHANGED faults \/ Fault)
<1>1. Lock \/ Stat \/ Read \/ Reread \/ Verify \/ Prepare \/ Recheck \/ Create =>
        UNCHANGED load /\ (UNCHANGED faults \/ Fault)
  BY Zenon DEF Lock, Stat, Read, Reread, Verify, Prepare, Recheck, Create, quiet
<1>2. CreateSync \/ CreateFinal \/ Uncreate \/ Backup \/ Displace \/ Exchange \/ Check \/ SyncDir \/ Final =>
        UNCHANGED load /\ (UNCHANGED faults \/ Fault)
  BY DEF CreateSync, CreateFinal, Uncreate, Backup, Displace, Exchange, Check, SyncDir, Final, quiet
<1>3. Rollback \/ Restore \/ Restored \/ Copy \/ Put \/ Copied \/ Recover =>
        UNCHANGED load /\ (UNCHANGED faults \/ Fault)
  BY DEF Rollback, Restore, PutBack, Restored, Copy, Put, Copied, Recover, quiet
<1>4. Clean \/ Retire \/ Identify \/ Unlock => UNCHANGED load /\ (UNCHANGED faults \/ Fault)
  BY DEF Clean, Retire, Identify, Unlock, quiet
<1> QED BY <1>1, <1>2, <1>3, <1>4 DEF Write

LEMMA Bounded ==
    ASSUME MaxFaults \in Nat
    PROVE  PlanSpec => [](faults <= MaxFaults)
<1>1. PlanInit => faults <= MaxFaults BY DEF PlanInit
<1>2. ASSUME PInv, faults <= MaxFaults, [PlanNext]_pvars PROVE (faults <= MaxFaults)'
  <2>1. UNCHANGED faults \/ Fault
    BY <1>2, WriteCounts
       DEF PlanNext, pvars, Ask, Load, LoadStat, LoadRead, LoadRestat, LoadVerify, LoadNamed,
           LoadReturn, Interfere, PowerLoss
  <2> QED BY <1>2, <2>1 DEF Fault, PInv, TypeOK
<1> QED BY <1>1, <1>2, PlanInvariant, PTL DEF PlanSpec

(* The installation implements the promise of PlanFile as long as at most  *)
(* three system calls fail: it takes a failing durability sync, a failing  *)
(* exchange back, a failing copy from the backup and a failing recovery    *)
(* copy to leave a new plan behind that the caller is told was not         *)
(* installed.                                                              *)
THEOREM InstallsPlan ==
    ASSUME MaxFaults \in 0..3
    PROVE  PlanSpec => Installs
<1>1. PlanInit => Abstract!Init BY InitPlan
<1>2. PInv /\ faults <= MaxFaults /\ [PlanNext]_pvars => [Abstract!Next]_(Abstract!vars)
  <2>1. PInv /\ faults <= MaxFaults => faults <= 3 BY DEF PInv, TypeOK
  <2> QED BY <2>1, PlanStep DEF Refines
<1>3. PlanSpec => [](faults <= MaxFaults) BY Bounded
<1> QED BY <1>1, <1>2, <1>3, PlanInvariant, PTL DEF PlanSpec, Installs, Abstract!Spec

(* What load_weight_plan returns is what the configured path holds at that *)
(* moment: the inode it read still has the name, and its change count      *)
(* shows that nobody wrote to it since.                                    *)
THEOREM LoadsTarget == PlanSpec => LoadedIsTarget
<1>1. ASSUME PInv, [PlanNext]_pvars, load'.pc = "parsed", load.pc # "parsed"
      PROVE  Bytes(dir.target) = load.bytes
  <2>1. load' # load BY <1>1
  <2>2. Load \/ PowerLoss BY <1>1, <2>1, WriteCounts DEF PlanNext, pvars, Ask, Interfere
  <2>3. NoLoad.pc = "none" BY DEF NoLoad
  <2>4. load' # NoLoad BY <1>1, <2>3
  <2>5. DOMAIN load = {"pc", "ino", "ver", "bytes"} BY <1>1 DEF PInv, TypeOK
  <2>6. ~LoadStat
    <3>1. load' = [NoLoad EXCEPT !.pc = "read", !.ino = dir.target, !.ver = Ver(dir.target)] => load'.pc = "read"
      BY DEF NoLoad
    <3> QED BY <1>1, <3>1 DEF LoadStat
  <2>7. ~LoadRead /\ ~LoadRestat /\ ~LoadVerify
    BY Zenon, <1>1, <2>4, <2>5 DEF LoadRead, LoadRestat, LoadVerify
  <2>8. LoadNamed BY <2>2, <2>4, <2>6, <2>7 DEF Load, LoadReturn, PowerLoss
  <2>9. dir.target = load.ino /\ Ver(load.ino) = load.ver /\ load.pc = "named"
    BY <2>4, <2>8 DEF LoadNamed
  <2> QED BY <1>1, <2>9 DEF PInv, LoadInv
<1> QED BY <1>1, PlanInvariant, PTL DEF PlanSpec, LoadedIsTarget

(* The inodes that have a name, name by name. *)
LEMMA LinkedNames ==
    /\ TypeOK => Linked = ({dir.target, dir.tmp, dir.bak, dir.rec, dir.priv} \cup kept \cup left) \ {0}
    /\ TypeOK' => Linked' = ({dir'.target, dir'.tmp, dir'.bak, dir'.rec, dir'.priv}
                                 \cup kept' \cup left') \ {0}
BY DEF TypeOK, Linked, DirNames

LEMMA SameNames == UNCHANGED <<dir, kept, left>> => Linked \subseteq Linked'
BY DEF Linked

(* A step of a call that moves names takes none away: it exchanges two, or *)
(* fills one that is free, or keeps or leaves the inode elsewhere.         *)
LEMMA WriteKeepsNames ==
    ASSUME PInv, PInv', Write
    PROVE  Linked \subseteq Linked'
<1>1. TypeOK /\ TypeOK' BY DEF PInv
<1>2. CASE \/ Lock \/ Stat \/ Read \/ Reread \/ Verify \/ Recheck \/ CreateSync \/ CreateFinal \/ Displace
           \/ Check \/ SyncDir \/ Final \/ Rollback \/ Restored \/ Copy \/ Copied \/ Unlock
  BY Zenon, <1>2, SameNames
     DEF still, Lock, Stat, Read, Reread, Verify, Recheck, CreateSync, CreateFinal, Displace, Check,
         SyncDir, Final, Rollback, Restored, Copy, Copied, Unlock
<1>3. CASE Prepare \/ Backup \/ Recover
  <2>1. UNCHANGED <<kept, left>> BY <1>3 DEF Prepare, Backup, Recover
  <2>2. CASE UNCHANGED dir BY <2>1, <2>2, SameNames
  <2>3. \/ UNCHANGED dir
        \/ dir.tmp = 0 /\ dir' = [dir EXCEPT !.tmp = New]
        \/ dir.bak = 0 /\ dir' = [dir EXCEPT !.bak = New]
        \/ dir.rec = 0 /\ dir' = [dir EXCEPT !.rec = New]
    BY <1>3 DEF Prepare, Backup, Recover, At, PInv, NamesFree
  <2> QED BY <1>1, <2>1, <2>2, <2>3, LinkedNames DEF TypeOK, DirNames
<1>4. CASE Create \/ Uncreate \/ Exchange
  <2>1. UNCHANGED <<kept, left>> BY <1>4 DEF Create, Uncreate, Exchange
  <2>2. CASE UNCHANGED dir BY <2>1, <2>2, SameNames
  <2>3. \/ UNCHANGED dir
        \/ dir.target = 0 /\ dir' = [dir EXCEPT !.target = dir.tmp, !.tmp = 0]
        \/ dir.tmp = 0 /\ dir' = [dir EXCEPT !.target = 0, !.tmp = dir.target]
        \/ dir' = [dir EXCEPT !.target = dir.tmp, !.tmp = dir.target]
    BY <1>4 DEF Create, Uncreate, Exchange, Exchanged
  <2>4. CASE ~UNCHANGED dir
    <3>1. /\ {dir'.target, dir'.tmp} \cup {0} = {dir.target, dir.tmp} \cup {0}
          /\ dir'.bak = dir.bak /\ dir'.rec = dir.rec /\ dir'.priv = dir.priv
      BY Zenon, <1>1, <2>3, <2>4 DEF TypeOK, DirNames
    <3> QED BY <1>1, <2>1, <3>1, LinkedNames
  <2> QED BY <2>2, <2>4
<1>5. CASE Restore \/ Put
  <2>1. UNCHANGED <<kept, left>> BY <1>5 DEF Restore, Put
  <2>2. CASE UNCHANGED dir BY <2>1, <2>2, SameNames
  <2>3. call.copy \in {"bak", "rec"} BY DEF PInv, CallType
  <2>4. UNCHANGED dir \/ \E n \in {"tmp", "bak", "rec"} :
                           dir' = [dir EXCEPT !.target = dir[n], ![n] = dir.target]
    BY Zenon, <1>5, <2>3 DEF Restore, Put, PutBack
  <2>5. ASSUME NEW n \in {"tmp", "bak", "rec"}, dir' = [dir EXCEPT !.target = dir[n], ![n] = dir.target]
        PROVE  Linked \subseteq Linked'
    <3>1. /\ dir'.target = dir[n] /\ dir'[n] = dir.target
          /\ \A k \in DirNames \ {"target", n} : dir'[k] = dir[k]
      BY <1>1, <2>5 DEF TypeOK, DirNames
    <3> QED BY <1>1, <2>1, <3>1, LinkedNames DEF DirNames
  <2> QED BY <2>2, <2>4, <2>5
<1>6. CASE Clean
  <2>1. CASE UNCHANGED <<dir, kept, left>> BY <2>1, SameNames
  <2>2. CASE ~UNCHANGED <<dir, kept, left>>
    <3>1. PICK n \in {"tmp", "bak", "rec"} :
            dir' = [dir EXCEPT ![n] = 0] /\ left' = left \cup {dir[n]} /\ UNCHANGED kept
      <4> DEFINE m == CHOOSE k \in Used : TRUE
      <4>1. m \in {"tmp", "bak", "rec"} BY <1>6 DEF Clean, Used
      <4>2. dir' = [dir EXCEPT ![m] = 0] /\ left' = left \cup {dir[m]} /\ UNCHANGED kept
        BY <1>6, <2>2 DEF Clean, still
      <4> HIDE DEF m
      <4> QED BY Zenon, <4>1, <4>2
    <3>2. \A k \in DirNames \ {n} : dir'[k] = dir[k] BY <1>1, <3>1 DEF TypeOK, DirNames
    <3> QED BY <1>1, <3>1, <3>2, LinkedNames DEF DirNames
  <2> QED BY <2>1, <2>2
<1>7. CASE Retire
  <2>1. PICK n \in {"tmp", "bak", "rec"} : call.mode = n BY <1>7 DEF PInv, CallInv, Retire, At
  <2>2. dir.priv = 0 /\ UNCHANGED kept BY <1>7 DEF PInv, NamesFree, Retire, At
  <2>3. CASE dir' = [dir EXCEPT !.priv = dir[n], ![n] = 0] /\ UNCHANGED left
    <3>1. dir'.priv = dir[n] /\ \A k \in DirNames \ {"priv", n} : dir'[k] = dir[k]
      BY <1>1, <2>3 DEF TypeOK, DirNames
    <3> QED BY <1>1, <2>2, <2>3, <3>1, LinkedNames DEF DirNames
  <2>4. CASE dir' = [dir EXCEPT ![n] = 0] /\ left' = left \cup ({dir[n]} \ {0})
    <3>1. \A k \in DirNames \ {n} : dir'[k] = dir[k] BY <1>1, <2>4 DEF TypeOK, DirNames
    <3> QED BY <1>1, <2>2, <2>4, <3>1, LinkedNames DEF DirNames
  <2> QED BY <1>7, <2>1, <2>3, <2>4 DEF Retire
<1>8. CASE Identify
  <2>1. \A k \in DirNames \ {"priv"} : dir'[k] = dir[k] BY <1>1, <1>8 DEF Identify, TypeOK, DirNames
  <2>2. kept \cup left \cup {dir.priv} \subseteq kept' \cup left' \cup {0} BY <1>8 DEF Identify
  <2> QED BY <1>1, <2>1, <2>2, LinkedNames DEF DirNames
<1> QED BY <1>2, <1>3, <1>4, <1>5, <1>6, <1>7, <1>8 DEF Write

(* No step of write_weight_plan_atomic takes the last name of an inode:    *)
(* whatever its renames displace, a file another program put there         *)
(* included, is found again under one of its names, in a private cleanup   *)
(* directory or where it was left.                                         *)
THEOREM NothingLost == PlanSpec => NothingDestroyed
<1>1. PInv /\ PInv' /\ [PlanNext]_pvars => [Write => Linked \subseteq Linked']_pvars
  BY WriteKeepsNames
<1> QED BY <1>1, PlanInvariant, PTL DEF PlanSpec, NothingDestroyed

=============================================================================
