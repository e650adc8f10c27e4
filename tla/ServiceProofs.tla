---------------------------- MODULE ServiceProofs ----------------------------
(***************************************************************************)
(* Proofs about module Service, for any processes and versions and any     *)
(* number of crashes and edits. The lock makes the run of one process the  *)
(* only writer of the disk; Running says what that run may rely on at each *)
(* step, where a run that is rolled back, or dies, must leave the files.   *)
(***************************************************************************)
EXTENDS Service, TLAPS

Activating == {"enable", "start", "await", "installed"}
Rolling == {"rbStop", "rbExec", "rbUnit", "rbManifest", "rbStart"}
Untouched == {"idle", "check", "again", "restart", "backup", "stop", "exec"}
Removing == {"uCheck", "uStop", "uDisable", "uUnit", "uExec", "uManifest"}
Accepted == {"again", "restart", "backup", "stop", "exec", "unit", "manifest"} \cup Activating \cup Rolling
            \cup (Removing \ {"uCheck"})

Alone == \A p \in Procs : pc[p] # "idle" => lock = p

(* What a run has written, and which manifest is on the disk.                *)
Progress(p) ==
    /\ pc[p] \in Untouched \cup Removing => wrote[p] = {}
    /\ pc[p] = "unit" => "unit" \notin wrote[p]
    /\ pc[p] \in {"manifest"} \cup Activating => "unit" \in wrote[p]
    /\ pc[p] \in (Untouched \ {"idle"}) \cup {"unit", "manifest"} \cup Removing => manifest = old[p]
    /\ pc[p] \in Activating => manifest = plan[p]
    /\ pc[p] \in Rolling /\ wrote[p] = {} => manifest \in {old[p], Blank}
    /\ pc[p] \in {"unit", "manifest"} \cup Activating /\ "exec" \notin wrote[p] => old[p]["exec"] = plan[p]["exec"]

(* The files: nobody else's once they are accepted; those not replaced yet   *)
(* are what the old manifest says, those replaced are what the plan says.    *)
Unreplaced(p, f) == file[f] \in {"absent", old[p][f]}
Targets(p) ==
    /\ pc[p] \in Accepted => \A f \in File : file[f] # "foreign"
    /\ pc[p] \in Untouched \ {"idle", "check"} => \A f \in File : Unreplaced(p, f)
    /\ pc[p] \in {"unit", "manifest", "rbStop", "rbExec"} \cup Activating =>
          \A f \in File : IF f \in wrote[p] THEN file[f] = plan[p][f] ELSE Unreplaced(p, f)
    /\ pc[p] = "rbUnit" => IF "unit" \in wrote[p] THEN file["unit"] = plan[p]["unit"] ELSE Unreplaced(p, "unit")
    /\ pc[p] \in {"uStop", "uDisable", "uUnit"} => \A f \in File : file[f] = old[p][f]
    /\ pc[p] = "uExec" => file["unit"] = "absent" /\ file["exec"] = old[p]["exec"]
    /\ pc[p] = "uManifest" => \A f \in File : file[f] = "absent"

(* The backup of an update: what rollback restores is what was there.        *)
Recoverable(p, f) == file[f] \in Versions /\ f \notin lost[p] => file[f] \in backups[f]
Secured(p) ==
    /\ pc[p] \in {"stop", "exec", "unit", "manifest"} \cup Activating \cup Rolling /\ Exists(p) =>
          \A f \in File : kept[p][f] \in {"empty", old[p][f]}
    /\ pc[p] \in {"stop", "exec"} => \A f \in File : Recoverable(p, f)
    /\ pc[p] = "unit" => Recoverable(p, "unit")

(* Unless something was broken: what a run finds, and what rollback has put  *)
(* back.                                                                     *)
Owned(m, f) == file[f] \in {"absent", "empty", m[f]}
Sound(p) ==
    ~broken =>
        /\ pc[p] \in {"check", "uCheck"} => \A f \in File : Owned(manifest, f)
        /\ pc[p] = "rbUnit" => Owned(old[p], "exec")
        /\ pc[p] \in {"rbManifest", "rbStart"} => \A f \in File : Owned(old[p], f)
        /\ pc[p] = "rbStart" => manifest \in {old[p], Blank}

(* Between runs the files are the manifest's, unless it is lost.             *)
Rest == lock = Free /\ ~broken /\ manifest # Blank => \A f \in File : Owned(manifest, f)

Running(p) == Progress(p) /\ Targets(p) /\ Secured(p) /\ Sound(p)

IInv == TypeOK /\ Alone /\ Rest /\ \A p \in Procs : Running(p)

-----------------------------------------------------------------------------
LEMMA Contents ==
    /\ "exec" \in File /\ "unit" \in File /\ \A f \in File : f = "exec" \/ f = "unit"
    /\ Nothing \in [File -> {"absent"}] /\ \A f \in File : Nothing[f] = "absent"
    /\ \A v \in Versions : v \notin {"absent", "empty", "foreign", "none", "fore"}
BY VersionsAssumption DEF File, Nothing

(* The type invariant in four parts, each over sets that need no looking     *)
(* into.                                                                     *)
Manifests == [File -> Versions] \cup {Nothing}
Sources == File \cup {"manifest"}
Bytes == [File -> Versions \cup {"absent", "empty"}]

DiskTypes ==
    /\ file \in [File -> Versions \cup {"absent", "empty", "foreign"}]
    /\ manifest \in Manifests \cup {Blank}
    /\ backups \in [File -> SUBSET (Versions \cup {"empty"})]
UnitTypes == enabled \in BOOLEAN /\ active \in BOOLEAN /\ daemon \in Versions \cup {"none", "fore"}
JobTypes ==
    /\ lock \in Procs \cup {Free}
    /\ pc \in [Procs -> Steps]
    /\ plan \in [Procs -> Manifests] /\ old \in [Procs -> Manifests]
    /\ kept \in [Procs -> Bytes] /\ wrote \in [Procs -> SUBSET File]
    /\ lost \in [Procs -> SUBSET Sources]
MishapTypes == faults \in 0..MaxMishaps /\ edits \in 0..MaxMishaps /\ broken \in BOOLEAN

LEMMA TypeParts == TypeOK <=> DiskTypes /\ UnitTypes /\ JobTypes /\ MishapTypes
BY DEF TypeOK, DiskTypes, UnitTypes, JobTypes, MishapTypes, Manifests, Bytes, Sources

LEMMA NothingTypes == Nothing \in Manifests /\ Nothing \in Bytes
BY Contents DEF Manifests, Bytes

LEMMA ManifestTypes ==
    ASSUME NEW m \in Manifests
    PROVE  /\ \A f \in File : m[f] \in Versions \cup {"absent"}
           /\ m # Nothing => \A f \in File : m[f] \in Versions
BY Contents DEF Manifests

LEMMA GoesTypes ==
    ASSUME JobTypes, NEW p \in Procs, NEW from, NEW to \in Steps, Goes(p, from, to)
    PROVE  JobTypes'
BY DEF JobTypes, Goes

LEMMA LeavesTypes ==
    ASSUME JobTypes, NEW p \in Procs, NEW from, Leaves(p, from)
    PROVE  JobTypes'
BY NothingTypes DEF JobTypes, Leaves, Steps

LEMMA UnitKept ==
    ASSUME DiskTypes, UnitTypes, UNCHANGED unit \/ (enabled' \in BOOLEAN /\ (Started \/ Stopped \/ UNCHANGED <<active, daemon>>))
    PROVE  UnitTypes'
<1>1. CASE UNCHANGED unit BY <1>1 DEF UnitTypes, unit
<1>2. CASE enabled' \in BOOLEAN /\ UNCHANGED <<active, daemon>> BY <1>2 DEF UnitTypes
<1>3. CASE enabled' \in BOOLEAN /\ Started
  <2>1. active' = TRUE BY <1>3 DEF Started
  <2>2. daemon' \in Versions \cup {"none", "fore"} BY <1>3 DEF Started, Runs, UnitTypes
  <2> QED BY <1>3, <2>1, <2>2 DEF UnitTypes
<1>4. CASE enabled' \in BOOLEAN /\ Stopped
  <2>1. active' = FALSE BY <1>4 DEF Stopped
  <2>2. daemon' \in Versions \cup {"none", "fore"} BY <1>4 DEF Stopped
  <2> QED BY <1>4, <2>1, <2>2 DEF UnitTypes
<1> QED BY <1>1, <1>2, <1>3, <1>4

LEMMA NextTypeOK == IInv /\ [Next]_vars => TypeOK'
<1> SUFFICES ASSUME IInv, [Next]_vars PROVE DiskTypes' /\ UnitTypes' /\ JobTypes' /\ MishapTypes'
  BY DEF TypeOK, DiskTypes, UnitTypes, JobTypes, MishapTypes, Manifests, Bytes, Sources
<1>1. /\ DiskTypes /\ UnitTypes /\ JobTypes /\ MishapTypes
      /\ enabled \in BOOLEAN /\ \A p \in Procs : Targets(p)
  BY TypeParts DEF IInv, Running, UnitTypes
<1> USE <1>1
<1>2. ASSUME UNCHANGED <<bounds, broken>> PROVE MishapTypes' BY <1>2 DEF MishapTypes, bounds
<1>3. ASSUME UNCHANGED disk PROVE DiskTypes' BY <1>3 DEF DiskTypes, disk
<1>4. ASSUME UNCHANGED job, UNCHANGED lock PROVE JobTypes' BY <1>4 DEF JobTypes, job
<1>5. CASE Edit
  <2>1. DiskTypes' BY <1>5 DEF Edit, DiskTypes
  <2>2. MishapTypes' BY <1>5, BoundsAssumption DEF Edit, MishapTypes
  <2> QED BY <1>4, <1>5, <2>1, <2>2, UnitKept DEF Edit
<1>6. CASE DaemonExits \/ DaemonStarts
  <2>1. UnitTypes' BY <1>6 DEF DaemonExits, DaemonStarts, Runs, UnitTypes, DiskTypes
  <2> QED BY <1>2, <1>3, <1>4, <1>6, <2>1 DEF DaemonExits, DaemonStarts
<1>7. CASE UNCHANGED vars BY <1>2, <1>3, <1>4, <1>7, UnitKept DEF vars
<1>8. ASSUME NEW p \in Procs, Crash(p) PROVE DiskTypes' /\ UnitTypes' /\ JobTypes' /\ MishapTypes'
  <2>1. MishapTypes' BY <1>8, BoundsAssumption DEF Crash, Mishap, MishapTypes, HalfDone
  <2> QED BY <1>3, <1>8, <2>1, LeavesTypes, UnitKept DEF Crash
(* Steps that touch no file. *)
<1>9. ASSUME NEW p \in Procs,
             \/ Check(p) \/ Reenable(p) \/ Restart(p) \/ StopOld(p) \/ Enable(p) \/ Start(p) \/ AwaitDaemon(p)
             \/ Return(p) \/ RbStop(p) \/ RbStart(p) \/ UCheck(p) \/ UStop(p) \/ UDisable(p)
      PROVE  DiskTypes' /\ UnitTypes' /\ JobTypes' /\ MishapTypes'
  <2>1. UNCHANGED <<disk, bounds, broken>>
    BY <1>9 DEF Check, Reenable, Restart, StopOld, Enable, Start, AwaitDaemon, Return, RbStop, RbStart, UCheck,
       UStop, UDisable
  <2>2. \/ \E from : Leaves(p, from)
        \/ \E from, to : to \in Steps /\ Goes(p, from, to)
    <3> USE DEF Steps
    <3>1. CASE Check(p) \/ Reenable(p) \/ Restart(p) \/ StopOld(p) BY <3>1 DEF Check, Reenable, Restart, StopOld
    <3>2. CASE Enable(p) \/ Start(p) \/ AwaitDaemon(p) \/ Return(p) BY <3>2 DEF Enable, Start, AwaitDaemon, Return
    <3>3. CASE RbStop(p) \/ RbStart(p) BY <3>3 DEF RbStop, RbStart
    <3>4. CASE UCheck(p) \/ UStop(p) \/ UDisable(p) BY <3>4 DEF UCheck, UStop, UDisable
    <3> QED BY <1>9, <3>1, <3>2, <3>3, <3>4
  <2>3. UNCHANGED unit \/ (enabled' \in BOOLEAN /\ (Started \/ Stopped \/ UNCHANGED <<active, daemon>>))
    <3> USE DEF unit
    <3>1. CASE Check(p) \/ Reenable(p) \/ Restart(p) \/ StopOld(p) BY <3>1 DEF Check, Reenable, Restart, StopOld
    <3>2. CASE Enable(p) \/ Start(p) \/ AwaitDaemon(p) \/ Return(p) BY <3>2 DEF Enable, Start, AwaitDaemon, Return
    <3>3. CASE RbStop(p) \/ RbStart(p) BY <3>3 DEF RbStop, RbStart
    <3>4. CASE UCheck(p) \/ UStop(p) \/ UDisable(p) BY <3>4 DEF UCheck, UStop, UDisable
    <3> QED BY <1>9, <3>1, <3>2, <3>3, <3>4
  <2> QED BY <1>2, <1>3, <2>1, <2>2, <2>3, GoesTypes, LeavesTypes, UnitKept
(* Steps that do. *)
<1>10. ASSUME NEW p \in Procs, BeginInstall(p) \/ BeginUninstall(p)
       PROVE  DiskTypes' /\ UnitTypes' /\ JobTypes' /\ MishapTypes'
  <2>1. UNCHANGED <<disk, unit, bounds, broken, kept, lost, wrote>> BY <1>10 DEF BeginInstall, BeginUninstall
  <2>2. pc' \in [Procs -> Steps] /\ lock' = p /\ old' = [old EXCEPT ![p] = manifest]
    BY <1>10 DEF BeginInstall, BeginUninstall, JobTypes, Steps
  <2>3. plan' \in [Procs -> Manifests]
    <3>1. CASE BeginInstall(p) BY <3>1 DEF BeginInstall, JobTypes, Manifests
    <3>2. CASE BeginUninstall(p) BY <3>2 DEF BeginUninstall, JobTypes
    <3> QED BY <1>10, <3>1, <3>2
  <2>4. manifest \in Manifests BY <1>10 DEF BeginInstall, BeginUninstall, Readable, DiskTypes
  <2>5. JobTypes' BY <2>1, <2>2, <2>3, <2>4 DEF JobTypes
  <2> QED BY <1>2, <1>3, <2>1, <2>5, UnitKept
<1>11. ASSUME NEW p \in Procs, Backup(p) PROVE DiskTypes' /\ UnitTypes' /\ JobTypes' /\ MishapTypes'
  <2>1. pc[p] = "backup" BY <1>11 DEF Backup, Leaves
  <2>2. \A f \in File : file[f] # "foreign" BY <2>1 DEF Targets, Accepted
  <2>3. PICK L \in SUBSET Sources :
          /\ IF L = {} THEN UNCHANGED faults ELSE Mishap
          /\ \/ /\ kept' = [kept EXCEPT ![p] = Kept(L)] /\ lost' = [lost EXCEPT ![p] = L]
                /\ pc' = [pc EXCEPT ![p] = "stop"] /\ UNCHANGED <<lock, plan, old, wrote>>
                /\ backups' = Saved(L)
             \/ /\ Leaves(p, "backup")
                /\ \E S \in SUBSET File : backups' = [f \in File |-> IF f \in S THEN Saved(L)[f] ELSE backups[f]]
    BY <1>11 DEF Backup, Sources
  <2>4. Kept(L) \in [File -> Versions \cup {"empty"}] BY <2>2 DEF Kept, DiskTypes
  <2>5. Saved(L) \in [File -> SUBSET (Versions \cup {"empty"})] BY <2>4 DEF Saved, DiskTypes
  <2>6. backups' \in [File -> SUBSET (Versions \cup {"empty"})] BY <2>3, <2>5 DEF DiskTypes
  <2>7. UNCHANGED <<file, manifest, unit, edits, broken>> BY <1>11 DEF Backup
  <2>8. DiskTypes' BY <2>6, <2>7 DEF DiskTypes
  <2>9. MishapTypes' BY <2>3, <2>7, BoundsAssumption DEF Mishap, MishapTypes
  <2>10. JobTypes'
    <3>1. CASE Leaves(p, "backup") BY <3>1, LeavesTypes
    <3>2. CASE kept' = [kept EXCEPT ![p] = Kept(L)] /\ lost' = [lost EXCEPT ![p] = L]
               /\ pc' = [pc EXCEPT ![p] = "stop"] /\ UNCHANGED <<lock, plan, old, wrote>>
      <4>1. Kept(L) \in Bytes BY <2>4 DEF Bytes
      <4> QED BY <3>2, <4>1 DEF JobTypes, Steps
    <3> QED BY <2>3, <3>1, <3>2
  <2> QED BY <2>7, <2>8, <2>9, <2>10, UnitKept
<1>12. ASSUME NEW p \in Procs, WriteExec(p) \/ WriteUnit(p) \/ WriteManifest(p)
       PROVE  DiskTypes' /\ UnitTypes' /\ JobTypes' /\ MishapTypes'
  <2>1. UNCHANGED <<unit, bounds, broken, backups>> BY <1>12 DEF WriteExec, WriteUnit, WriteManifest
  <2>2. \A f \in File : plan[p][f] \in Versions \cup {"absent"} BY ManifestTypes DEF JobTypes
  <2>3. DiskTypes'
    <3>1. CASE WriteManifest(p) BY <3>1 DEF WriteManifest, DiskTypes, JobTypes
    <3>2. CASE WriteExec(p) \/ WriteUnit(p) BY <2>2, <3>2, Contents DEF WriteExec, WriteUnit, Replace, DiskTypes
    <3> QED BY <1>12, <3>1, <3>2
  <2>4. JobTypes'
    <3>1. ASSUME NEW f \in File, NEW to \in Steps, Replace(p, f, to) PROVE JobTypes'
      BY <3>1 DEF Replace, Wrote, JobTypes
    <3> QED BY <1>12, <3>1, Contents, GoesTypes DEF WriteExec, WriteUnit, WriteManifest, Steps
  <2> QED BY <1>2, <2>1, <2>3, <2>4, UnitKept
<1>13. ASSUME NEW p \in Procs, NEW f \in File, NEW from, NEW to \in Steps, RbFile(p, f, from, to)
       PROVE  DiskTypes' /\ UnitTypes' /\ JobTypes' /\ MishapTypes'
  <2>1. Restored(p, f) \in Versions \cup {"absent", "empty"} BY DEF Restored, JobTypes, Bytes
  <2>2. DiskTypes' BY <1>13, <2>1 DEF RbFile, DiskTypes
  <2>3. MishapTypes' BY <1>13 DEF RbFile, MishapTypes, bounds
  <2> QED BY <1>13, <2>2, <2>3, GoesTypes, UnitKept DEF RbFile
<1>14. ASSUME NEW p \in Procs, RbManifest(p) PROVE DiskTypes' /\ UnitTypes' /\ JobTypes' /\ MishapTypes'
  <2>1. DiskTypes' BY <1>14 DEF RbManifest, DiskTypes, JobTypes
  <2>2. MishapTypes' BY <1>14 DEF RbManifest, MishapTypes, bounds
  <2>3. "rbStart" \in Steps BY DEF Steps
  <2> QED BY <1>14, <2>1, <2>2, <2>3, GoesTypes, UnitKept DEF RbManifest
<1>15. ASSUME NEW p \in Procs, URemoveUnit(p) \/ URemoveExec(p) \/ URemoveManifest(p)
       PROVE  DiskTypes' /\ UnitTypes' /\ JobTypes' /\ MishapTypes'
  <2>1. UNCHANGED <<backups, unit, bounds, broken>> BY <1>15 DEF URemoveUnit, URemoveExec, URemoveManifest
  <2>2. DiskTypes'
    <3>1. CASE URemoveUnit(p) \/ URemoveExec(p) BY <3>1 DEF URemoveUnit, URemoveExec, DiskTypes
    <3>2. CASE URemoveManifest(p) BY <3>2, NothingTypes DEF URemoveManifest, DiskTypes
    <3> QED BY <1>15, <3>1, <3>2
  <2>3. JobTypes'
    BY <1>15, GoesTypes, LeavesTypes DEF URemoveUnit, URemoveExec, URemoveManifest, Steps
  <2> QED BY <1>2, <2>1, <2>2, <2>3, UnitKept
<1>16. "rbUnit" \in Steps /\ "rbManifest" \in Steps BY DEF Steps
<1> QED
  BY <1>5, <1>6, <1>7, <1>8, <1>9, <1>10, <1>11, <1>12, <1>13, <1>14, <1>15, <1>16, Contents
  DEF Next, Install, Uninstall

-----------------------------------------------------------------------------
(* Who is running. *)
LEMMA IdleRuns ==
    ASSUME NEW q \in Procs, pc'[q] = "idle", wrote'[q] = {}
    PROVE  Running(q)'
BY DEF Running, Progress, Targets, Secured, Sound, Untouched, Removing, Activating, Rolling, Accepted

(* The ways a step of a process ends. *)
LEMMA StepShape ==
    ASSUME NEW p \in Procs, Install(p) \/ Uninstall(p) \/ Crash(p)
    PROVE  \/ \E from, to : from # "idle" /\ to # "idle" /\ Goes(p, from, to)
           \/ \E from : from # "idle" /\ Leaves(p, from)
           \/ \E f \in File : \E to : to # "idle" /\ Replace(p, f, to)
           \/ BeginInstall(p) \/ BeginUninstall(p)
           \/ pc[p] = "backup" /\ pc' = [pc EXCEPT ![p] = "stop"] /\ UNCHANGED <<lock, wrote>>
<1> USE Contents
<1>1. CASE Check(p) \/ Reenable(p) \/ Restart(p) \/ StopOld(p) \/ Enable(p)
  BY <1>1 DEF Check, Reenable, Restart, StopOld, Enable
<1>2. CASE Start(p) \/ AwaitDaemon(p) \/ Return(p) \/ RbStop(p) \/ RbStart(p)
  BY <1>2 DEF Start, AwaitDaemon, Return, RbStop, RbStart
<1>3. CASE UCheck(p) \/ UStop(p) \/ UDisable(p) \/ URemoveUnit(p) \/ URemoveExec(p) \/ URemoveManifest(p)
  BY <1>3 DEF UCheck, UStop, UDisable, URemoveUnit, URemoveExec, URemoveManifest
<1>4. CASE WriteExec(p) \/ WriteUnit(p) \/ WriteManifest(p) BY <1>4 DEF WriteExec, WriteUnit, WriteManifest
<1>5. CASE RbFile(p, "exec", "rbExec", "rbUnit") \/ RbFile(p, "unit", "rbUnit", "rbManifest") \/ RbManifest(p)
  BY <1>5 DEF RbFile, RbManifest
<1>6. CASE Backup(p) BY <1>6 DEF Backup
<1>7. CASE Crash(p) BY <1>7 DEF Crash
<1>8. CASE BeginInstall(p) \/ BeginUninstall(p) BY <1>8
<1> QED BY <1>1, <1>2, <1>3, <1>4, <1>5, <1>6, <1>7, <1>8 DEF Install, Uninstall

(* The others are idle and stay so; the lock is the runner's until it leaves.*)
LEMMA Others ==
    ASSUME IInv, NEW p \in Procs, Install(p) \/ Uninstall(p) \/ Crash(p)
    PROVE  /\ \A q \in Procs : q # p => Running(q)'
           /\ Alone'
           /\ pc'[p] = "idle" => wrote'[p] = {}
           /\ pc'[p] # "idle" => lock' = p
<1>1. JobTypes /\ Alone /\ \A q \in Procs : pc[q] = "idle" => wrote[q] = {}
  BY TypeParts DEF IInv, Running, Progress, Untouched
<1>2. /\ \E x, y : /\ pc' = [pc EXCEPT ![p] = x] /\ wrote' = [wrote EXCEPT ![p] = y]
                   /\ x = "idle" => y = {}
                   /\ x # "idle" => lock' = p
      /\ lock = p \/ lock = Free
  <2>1. wrote = [wrote EXCEPT ![p] = wrote[p]] BY <1>1 DEF JobTypes
  <2>2. ASSUME NEW from, NEW to, from # "idle", Goes(p, from, to)
        PROVE  lock = p /\ lock' = p /\ pc' = [pc EXCEPT ![p] = to] /\ UNCHANGED wrote
    BY <1>1, <2>2 DEF Goes, Alone
  <2>3. ASSUME NEW from, from # "idle", Leaves(p, from)
        PROVE  lock = p /\ pc' = [pc EXCEPT ![p] = "idle"] /\ wrote' = [wrote EXCEPT ![p] = {}]
    BY <1>1, <2>3 DEF Leaves, Alone
  <2>4. ASSUME NEW f \in File, NEW to, Replace(p, f, to)
        PROVE  /\ lock = p /\ lock' = p /\ pc' = [pc EXCEPT ![p] = to]
               /\ wrote' = [wrote EXCEPT ![p] = Wrote(p, f)]
    BY <1>1, <2>4 DEF Replace, Alone, File
  <2>5. ASSUME BeginInstall(p) \/ BeginUninstall(p)
        PROVE  /\ lock = Free /\ lock' = p /\ UNCHANGED wrote
               /\ pc' \in {[pc EXCEPT ![p] = "check"], [pc EXCEPT ![p] = "uCheck"]}
    BY <2>5 DEF BeginInstall, BeginUninstall, Lockable
  <2>6. ASSUME pc[p] = "backup", UNCHANGED lock PROVE lock = p /\ lock' = p BY <1>1, <2>6 DEF Alone
  <2>7. CASE BeginInstall(p) \/ BeginUninstall(p)
    <3>1. PICK x \in {"check", "uCheck"} : pc' = [pc EXCEPT ![p] = x] BY <2>5, <2>7
    <3> QED BY <2>1, <2>5, <2>7, <3>1
  <2>8. CASE \E from, to : from # "idle" /\ to # "idle" /\ Goes(p, from, to) BY <2>1, <2>2, <2>8
  <2>9. CASE \E from : from # "idle" /\ Leaves(p, from) BY <2>3, <2>9
  <2>10. CASE \E f \in File : \E to : to # "idle" /\ Replace(p, f, to) BY <2>4, <2>10
  <2>11. CASE pc[p] = "backup" /\ pc' = [pc EXCEPT ![p] = "stop"] /\ UNCHANGED <<lock, wrote>>
    BY <2>1, <2>6, <2>11
  <2> QED BY <2>7, <2>8, <2>9, <2>10, <2>11, StepShape
<1>3. \A q \in Procs : q # p => pc[q] = "idle" BY <1>1, <1>2, FreeAssumption DEF Alone
<1>4. \A q \in Procs : q # p => pc'[q] = "idle" /\ wrote'[q] = {} BY <1>1, <1>2, <1>3 DEF JobTypes
<1>5. \A q \in Procs : q # p => Running(q)' BY <1>4, IdleRuns
<1>6. (pc'[p] = "idle" => wrote'[p] = {}) /\ (pc'[p] # "idle" => lock' = p) BY <1>1, <1>2 DEF JobTypes
<1>7. Alone' BY <1>4, <1>6 DEF Alone
<1> QED BY <1>5, <1>6, <1>7

-----------------------------------------------------------------------------
(* Wherever a run stops, except half way through an installation, the files  *)
(* are the manifest's.                                                       *)
LEMMA AtRest ==
    ASSUME IInv, NEW p \in Procs, pc[p] # "idle", ~broken, manifest # Blank, ~HalfDone(p), NEW f \in File
    PROVE  Owned(manifest, f)
<1>1. Progress(p) /\ Targets(p) /\ Sound(p) /\ pc[p] \in Steps BY TypeParts DEF IInv, Running, JobTypes
<1>2. f = "exec" \/ f = "unit" BY Contents
<1> USE <1>1 DEF Owned, Unreplaced
<1>3. CASE pc[p] \in {"check", "uCheck"} BY <1>3 DEF Sound, Owned
<1>4. CASE pc[p] \in Untouched \ {"idle", "check"} BY <1>4 DEF Progress, Targets
<1>5. CASE pc[p] \in {"unit", "manifest", "rbStop", "rbExec"}
  <2>1. wrote[p] = {} BY <1>5 DEF HalfDone
  <2>2. manifest = old[p] BY <1>5, <2>1 DEF Progress, Rolling
  <2> QED BY <1>5, <2>1, <2>2 DEF Targets
<1>6. CASE pc[p] \in Activating
  <2>1. manifest = plan[p] /\ "unit" \in wrote[p] BY <1>6 DEF Progress
  <2>2. CASE f \in wrote[p] BY <1>6, <2>1, <2>2 DEF Targets
  <2>3. CASE f \notin wrote[p]
    <3>1. f = "exec" /\ old[p]["exec"] = plan[p]["exec"] BY <1>2, <1>6, <2>1, <2>3 DEF Progress
    <3> QED BY <1>6, <2>1, <2>3, <3>1 DEF Targets
  <2> QED BY <2>2, <2>3
<1>7. CASE pc[p] \in {"rbUnit", "rbManifest"}
  <2>1. wrote[p] = {} BY <1>7 DEF HalfDone
  <2>2. manifest = old[p] BY <1>7, <2>1 DEF Progress, Rolling
  <2> QED BY <1>2, <1>7, <2>1, <2>2 DEF Targets, Sound
<1>8. CASE pc[p] = "rbStart" BY <1>8 DEF Sound
<1>9. CASE pc[p] \in Removing \ {"uCheck"}
  <2>1. manifest = old[p] BY <1>9 DEF Progress
  <2> QED BY <1>2, <1>9, <2>1 DEF Targets, Removing
<1> QED BY <1>3, <1>4, <1>5, <1>6, <1>7, <1>8, <1>9 DEF Steps, Untouched, Activating, Removing

(* A run that returns, or dies, without a last change to the files.          *)
LEMMA LeavesOwned ==
    ASSUME IInv, NEW p \in Procs, NEW from, from # "idle", Leaves(p, from), UNCHANGED <<file, manifest>>,
           broken' = (broken \/ HalfDone(p))
    PROVE  Rest'
<1>1. pc[p] # "idle" BY DEF Leaves
<1>2. ~broken' /\ manifest # Blank => \A f \in File : Owned(manifest, f) BY <1>1, AtRest
<1> QED BY <1>2 DEF Rest, Owned

(* The steps that change no file and rest on no condition.                   *)
SimpleMoves ==
    { <<"again", "restart">>, <<"stop", "exec">>, <<"exec", "rbStop">>, <<"unit", "rbStop">>,
      <<"manifest", "rbStop">>, <<"enable", "start">>, <<"enable", "rbStop">>, <<"start", "await">>,
      <<"start", "rbStop">>, <<"await", "installed">>, <<"await", "rbStop">>, <<"rbStop", "rbExec">>,
      <<"uStop", "uDisable">>, <<"uDisable", "uUnit">> }

LEMMA MovesKeep ==
    ASSUME IInv, NEW p \in Procs, NEW from, NEW to, Goes(p, from, to), <<from, to>> \in SimpleMoves,
           UNCHANGED <<disk, broken>>
    PROVE  Running(p)' /\ pc'[p] # "idle"
<1>1. /\ pc[p] = from /\ pc'[p] = to
      /\ UNCHANGED <<plan, old, kept, lost, wrote, file, manifest, backups, broken>>
      /\ Progress(p) /\ Targets(p) /\ Secured(p)
  BY TypeParts DEF IInv, Running, JobTypes, Goes, disk
<1> USE <1>1 DEF SimpleMoves, Untouched, Removing, Activating, Rolling
<1>2. Progress(p)' BY DEF Progress
<1>3. Targets(p)'
  <2>1. from = "exec" => wrote[p] = {} BY DEF Progress
  <2> QED BY <2>1 DEF Targets, Unreplaced, Accepted
<1>4. Secured(p)' BY DEF Secured, Recoverable, Exists
<1>5. Sound(p)' BY DEF Sound
<1> QED BY <1>2, <1>3, <1>4, <1>5 DEF Running

(* Steps that leave at a point where nothing is half done.                   *)
LEMMA ReturnsOwned ==
    ASSUME IInv, NEW p \in Procs, NEW from, Leaves(p, from), UNCHANGED <<file, manifest, broken>>,
           from \notin {"idle", "unit", "manifest", "rbStop", "rbExec", "rbUnit", "rbManifest"}
    PROVE  Rest'
<1>1. ~HalfDone(p) BY DEF Leaves, HalfDone
<1>2. broken \in BOOLEAN BY TypeParts DEF IInv, MishapTypes
<1>3. broken' = (broken \/ HalfDone(p)) BY <1>1, <1>2
<1> QED BY <1>3, LeavesOwned

(* The runner's own part of the invariant, and its types.                    *)
Mine(p) ==
    /\ Progress(p) /\ Targets(p) /\ Secured(p) /\ Sound(p)
    /\ plan[p] \in Manifests /\ old[p] \in Manifests
    /\ kept[p] \in Bytes /\ wrote[p] \in SUBSET File
    /\ manifest \in Manifests \cup {Blank}
    /\ file \in [File -> Versions \cup {"absent", "empty", "foreign"}]
    /\ backups \in [File -> SUBSET (Versions \cup {"empty"})]

LEMMA HaveMine == ASSUME IInv, NEW p \in Procs PROVE Mine(p)
BY TypeParts DEF IInv, Running, JobTypes, DiskTypes, Mine

(* A step of the runner from one place to the next.                          *)
LEMMA GoesTo ==
    ASSUME IInv, NEW p \in Procs, NEW from, NEW to, Goes(p, from, to)
    PROVE  /\ pc[p] = from /\ pc'[p] = to
           /\ UNCHANGED <<plan, old, kept, lost, wrote>>
BY TypeParts DEF IInv, JobTypes, Goes

-----------------------------------------------------------------------------
(* The first steps: what the ownership check and the backup establish.       *)
LEMMA BeginKeeps ==
    ASSUME IInv, NEW p \in Procs, BeginInstall(p) \/ BeginUninstall(p)
    PROVE  Running(p)' /\ pc'[p] # "idle"
<1>1. /\ pc[p] = "idle" /\ lock = Free
      /\ pc'[p] \in {"check", "uCheck"} /\ old'[p] = manifest
      /\ UNCHANGED <<wrote, file, manifest, broken>> /\ manifest # Blank
  BY TypeParts DEF IInv, JobTypes, BeginInstall, BeginUninstall, Lockable, Readable, disk
<1>2. wrote[p] = {} BY <1>1, HaveMine DEF Mine, Progress, Untouched
<1>3. Rest BY DEF IInv
<1> USE <1>1, <1>2 DEF Untouched, Removing, Activating, Rolling
<1>4. Progress(p)' BY DEF Progress
<1>5. Targets(p)' BY DEF Targets, Accepted
<1>6. Secured(p)' BY DEF Secured
<1>7. Sound(p)' BY <1>3 DEF Sound, Rest, Owned
<1> QED BY <1>4, <1>5, <1>6, <1>7 DEF Running

LEMMA CheckKeeps ==
    ASSUME IInv, NEW p \in Procs, Check(p), ~Leaves(p, "check")
    PROVE  Running(p)' /\ pc'[p] # "idle"
<1>1. Accepts(p) BY DEF Check
<1>2. PICK to \in {"again", "backup", "exec"} :
         Goes(p, "check", to) /\ (to = "exec" => ~Exists(p))
  BY DEF Check
<1>3. UNCHANGED <<file, manifest, backups, broken>> BY DEF Check, disk
<1>4. pc[p] = "check" /\ pc'[p] = to /\ UNCHANGED <<plan, old, kept, lost, wrote>> BY <1>2, GoesTo
<1>5. Mine(p) BY HaveMine
<1>6. wrote[p] = {} /\ manifest = old[p] BY <1>4, <1>5 DEF Mine, Progress, Untouched
<1>7. \A f \in File : old[p][f] \in Versions \cup {"absent"} BY <1>5, ManifestTypes DEF Mine
<1>8. \A f \in File : /\ Unreplaced(p, f) /\ file[f] # "foreign"
                      /\ ~Exists(p) => file[f] = "absent"
  BY <1>1, <1>7, Contents DEF Accepts, Replaceable, Unreplaced
<1> USE <1>3, <1>4 DEF Untouched, Removing, Activating, Rolling
<1>9. Progress(p)' BY <1>6 DEF Progress
<1>10. Targets(p)' BY <1>6, <1>8 DEF Targets, Accepted, Unreplaced
<1>11. Secured(p)' BY <1>2, <1>8, Contents DEF Secured, Recoverable, Exists
<1>12. Sound(p)' BY DEF Sound
<1> QED BY <1>9, <1>10, <1>11, <1>12 DEF Running

LEMMA BackupKeeps ==
    ASSUME IInv, NEW p \in Procs, Backup(p), ~Leaves(p, "backup")
    PROVE  Running(p)' /\ pc'[p] # "idle"
<1>1. Mine(p) BY HaveMine
<1>2. PICK L \in SUBSET Sources :
        /\ pc[p] = "backup" /\ pc'[p] = "stop" /\ kept'[p] = Kept(L) /\ lost'[p] = L /\ backups' = Saved(L)
        /\ UNCHANGED <<plan, old, wrote, file, manifest, broken>>
  BY TypeParts DEF IInv, JobTypes, Backup, Sources
<1>3. wrote[p] = {} /\ manifest = old[p] BY <1>1, <1>2 DEF Mine, Progress, Untouched
<1>4. \A f \in File : Unreplaced(p, f) /\ file[f] # "foreign"
  BY <1>1, <1>2 DEF Mine, Targets, Untouched, Accepted
<1>5. \A f \in File : /\ Kept(L)[f] \in {"empty", old[p][f]}
                      /\ file[f] \in Versions /\ f \notin L => Kept(L)[f] = file[f]
  BY <1>4, Contents DEF Kept, Unreplaced
<1>6. \A f \in File : Kept(L)[f] \in Saved(L)[f] BY DEF Saved
<1> USE <1>2 DEF Untouched, Removing, Activating, Rolling
<1>7. Progress(p)' BY <1>3 DEF Progress
<1>8. Targets(p)' BY <1>3, <1>4 DEF Targets, Accepted, Unreplaced
<1>9. Secured(p)' BY <1>5, <1>6 DEF Secured, Recoverable, Exists
<1>10. Sound(p)' BY DEF Sound
<1> QED BY <1>7, <1>8, <1>9, <1>10 DEF Running

-----------------------------------------------------------------------------
(* The three files. *)
LEMMA WriteExecKeeps ==
    ASSUME IInv, NEW p \in Procs, WriteExec(p)
    PROVE  Running(p)' /\ pc'[p] # "idle"
<1>1. Mine(p) BY HaveMine
<1>2. UNCHANGED <<manifest, backups, broken>> BY DEF WriteExec
<1>3. CASE Goes(p, "exec", "rbStop") /\ UNCHANGED file
  BY <1>2, <1>3, MovesKeep DEF SimpleMoves, disk
<1>4. ASSUME pc[p] = "exec"
      PROVE  /\ wrote[p] = {} /\ manifest = old[p]
             /\ \A f \in File : Unreplaced(p, f) /\ file[f] # "foreign" /\ plan[p][f] # "foreign"
             /\ Exists(p) => \A f \in File : kept[p][f] \in {"empty", old[p][f]}
             /\ \A f \in File : Recoverable(p, f)
  <2>1. \A f \in File : plan[p][f] # "foreign" BY <1>1, ManifestTypes, Contents DEF Mine
  <2>2. wrote[p] = {} /\ manifest = old[p] BY <1>1, <1>4 DEF Mine, Progress, Untouched
  <2>3. \A f \in File : Unreplaced(p, f) /\ file[f] # "foreign" BY <1>1, <1>4 DEF Mine, Targets, Untouched, Accepted
  <2> QED BY <1>1, <1>4, <2>1, <2>2, <2>3 DEF Mine, Secured
<1>5. CASE Exists(p) /\ old[p]["exec"] = plan[p]["exec"] /\ Goes(p, "exec", "unit") /\ UNCHANGED file
  <2>1. pc[p] = "exec" /\ pc'[p] = "unit" /\ UNCHANGED <<plan, old, kept, lost, wrote>> BY <1>5, GoesTo
  <2> USE <1>2, <1>5, <2>1 DEF Untouched, Removing, Activating, Rolling
  <2>2. Progress(p)' BY <1>4 DEF Progress
  <2>3. Targets(p)' BY <1>4 DEF Targets, Unreplaced
  <2>4. Secured(p)' BY <1>4, Contents DEF Secured, Recoverable, Exists
  <2>5. Sound(p)' BY DEF Sound
  <2> QED BY <2>2, <2>3, <2>4, <2>5 DEF Running
<1>6. CASE Replace(p, "exec", "unit")
  <2>1. /\ pc[p] = "exec" /\ pc'[p] = "unit" /\ UNCHANGED <<plan, old, kept, lost>> /\ wrote'[p] = wrote[p] \cup {"exec"}
        /\ file'["exec"] = plan[p]["exec"] /\ file'["unit"] = file["unit"]
    BY <1>1, <1>6, TypeParts, Contents DEF IInv, JobTypes, Replace, Wrote, Mine
  <2>2. wrote'[p] = {"exec"} /\ \A f \in File : f = "exec" \/ f = "unit" BY <1>4, <2>1, Contents
  <2> USE <1>2, <2>1, <2>2 DEF Untouched, Removing, Activating, Rolling
  <2>3. Progress(p)' BY <1>4 DEF Progress
  <2>4. Targets(p)' BY <1>4 DEF Targets, Unreplaced
  <2>5. Secured(p)' BY <1>4, Contents DEF Secured, Recoverable, Exists
  <2>6. Sound(p)' BY DEF Sound
  <2> QED BY <2>3, <2>4, <2>5, <2>6 DEF Running
<1> QED BY <1>3, <1>5, <1>6 DEF WriteExec

LEMMA WriteUnitKeeps ==
    ASSUME IInv, NEW p \in Procs, WriteUnit(p)
    PROVE  Running(p)' /\ pc'[p] # "idle"
<1>1. Mine(p) BY HaveMine
<1>2. UNCHANGED <<manifest, backups, broken>> BY DEF WriteUnit
<1>3. CASE Goes(p, "unit", "rbStop") /\ UNCHANGED file
  BY <1>2, <1>3, MovesKeep DEF SimpleMoves, disk
<1>4. CASE Replace(p, "unit", "manifest")
  <2>1. /\ pc[p] = "unit" /\ pc'[p] = "manifest" /\ UNCHANGED <<plan, old, kept, lost>> /\ wrote'[p] = wrote[p] \cup {"unit"}
        /\ file'["unit"] = plan[p]["unit"] /\ file'["exec"] = file["exec"]
        /\ \A f \in File : f = "exec" \/ f = "unit"
    BY <1>1, <1>4, TypeParts, Contents DEF IInv, JobTypes, Replace, Wrote, Mine
  <2>2. plan[p]["unit"] # "foreign" BY <1>1, ManifestTypes, Contents DEF Mine
  <2>3. manifest = old[p] /\ ("exec" \notin wrote[p] => old[p]["exec"] = plan[p]["exec"])
    BY <1>1, <2>1 DEF Mine, Progress
  <2>4. /\ IF "exec" \in wrote[p] THEN file["exec"] = plan[p]["exec"] ELSE Unreplaced(p, "exec")
        /\ file["exec"] # "foreign"
    BY <1>1, <2>1, Contents DEF Mine, Targets, Accepted
  <2>5. Exists(p) => \A f \in File : kept[p][f] \in {"empty", old[p][f]} BY <1>1, <2>1 DEF Mine, Secured
  <2> USE <1>2, <2>1 DEF Untouched, Removing, Activating, Rolling
  <2>6. Progress(p)' BY <2>3 DEF Progress
  <2>7. Targets(p)' BY <2>2, <2>4 DEF Targets, Unreplaced
  <2>8. Secured(p)' BY <2>5 DEF Secured, Recoverable, Exists
  <2>9. Sound(p)' BY DEF Sound
  <2> QED BY <2>6, <2>7, <2>8, <2>9 DEF Running
<1> QED BY <1>3, <1>4 DEF WriteUnit

LEMMA WriteManifestKeeps ==
    ASSUME IInv, NEW p \in Procs, WriteManifest(p)
    PROVE  Running(p)' /\ pc'[p] # "idle"
<1>1. Mine(p) BY HaveMine
<1>2. UNCHANGED <<file, backups, broken>> BY DEF WriteManifest
<1>3. CASE Goes(p, "manifest", "rbStop") /\ UNCHANGED manifest
  BY <1>2, <1>3, MovesKeep DEF SimpleMoves, disk
<1>4. CASE Goes(p, "manifest", "enable") /\ manifest' = plan[p]
  <2>1. pc[p] = "manifest" /\ pc'[p] = "enable" /\ UNCHANGED <<plan, old, kept, lost, wrote>> BY <1>4, GoesTo
  <2> USE <1>1, <1>2, <1>4, <2>1 DEF Mine, Untouched, Removing, Activating, Rolling
  <2>2. Progress(p)' BY DEF Progress
  <2>3. Targets(p)' BY DEF Targets, Unreplaced, Accepted
  <2>4. Secured(p)' BY DEF Secured, Recoverable, Exists
  <2>5. Sound(p)' BY DEF Sound
  <2> QED BY <2>2, <2>3, <2>4, <2>5 DEF Running
<1> QED BY <1>3, <1>4 DEF WriteManifest

-----------------------------------------------------------------------------
(* Rollback puts back the bytes that were kept, or nothing.                  *)
LEMMA RestoresOwned ==
    ASSUME NEW p \in Procs, Mine(p), pc[p] \in Rolling, NEW f \in File
    PROVE  Restored(p, f) \in {"absent", "empty", old[p][f]} /\ Restored(p, f) # "foreign"
<1>1. kept[p][f] # "foreign" BY Contents DEF Mine, Bytes
<1> QED BY <1>1 DEF Restored, Mine, Secured

LEMMA RbFileKeeps ==
    ASSUME IInv, NEW p \in Procs, RbFile(p, "exec", "rbExec", "rbUnit") \/ RbFile(p, "unit", "rbUnit", "rbManifest")
    PROVE  Running(p)' /\ pc'[p] # "idle"
<1>1. Mine(p) BY HaveMine
<1>2. \A f \in File : f = "exec" \/ f = "unit" BY Contents
<1>3. CASE RbFile(p, "exec", "rbExec", "rbUnit")
  <2>1. pc[p] = "rbExec" /\ pc'[p] = "rbUnit" /\ UNCHANGED <<plan, old, kept, lost, wrote, manifest, backups>>
    BY <1>3, GoesTo DEF RbFile
  <2>2. /\ file'["unit"] = file["unit"] /\ file'["exec"] \in {file["exec"], Restored(p, "exec")}
        /\ "exec" \in wrote[p] => broken' = TRUE \/ file'["exec"] = Restored(p, "exec")
        /\ "exec" \notin wrote[p] => UNCHANGED file
    BY <1>1, <1>3, Contents DEF RbFile, Mine
  <2>3. Restored(p, "exec") \in {"absent", "empty", old[p]["exec"]} /\ Restored(p, "exec") # "foreign"
    BY <1>1, <2>1, RestoresOwned, Contents DEF Rolling
  <2>4. /\ "exec" \notin wrote[p] => Unreplaced(p, "exec")
        /\ IF "unit" \in wrote[p] THEN file["unit"] = plan[p]["unit"] ELSE Unreplaced(p, "unit")
        /\ file["exec"] # "foreign" /\ file["unit"] # "foreign"
    BY <1>1, <2>1, Contents DEF Mine, Targets, Accepted, Rolling
  <2> USE <1>2, <2>1 DEF Untouched, Removing, Activating, Rolling
  <2>5. Progress(p)' BY <1>1 DEF Mine, Progress
  <2>6. Targets(p)' BY <2>2, <2>3, <2>4 DEF Targets, Unreplaced
  <2>7. Secured(p)' BY <1>1 DEF Mine, Secured, Recoverable, Exists
  <2>8. Sound(p)' BY <2>2, <2>3, <2>4 DEF Sound, Owned, Unreplaced
  <2> QED BY <2>5, <2>6, <2>7, <2>8 DEF Running
<1>4. CASE RbFile(p, "unit", "rbUnit", "rbManifest")
  <2>1. pc[p] = "rbUnit" /\ pc'[p] = "rbManifest" /\ UNCHANGED <<plan, old, kept, lost, wrote, manifest, backups>>
    BY <1>4, GoesTo DEF RbFile
  <2>2. /\ file'["exec"] = file["exec"] /\ file'["unit"] \in {file["unit"], Restored(p, "unit")}
        /\ "unit" \in wrote[p] => broken' = TRUE \/ file'["unit"] = Restored(p, "unit")
        /\ "unit" \notin wrote[p] => UNCHANGED file
        /\ broken' = TRUE \/ UNCHANGED broken
    BY <1>1, <1>4, Contents DEF RbFile, Mine
  <2>3. Restored(p, "unit") \in {"absent", "empty", old[p]["unit"]} /\ Restored(p, "unit") # "foreign"
    BY <1>1, <2>1, RestoresOwned, Contents DEF Rolling
  <2>4. /\ "unit" \notin wrote[p] => Unreplaced(p, "unit")
        /\ ~broken => Owned(old[p], "exec")
        /\ file["exec"] # "foreign" /\ file["unit"] # "foreign"
    BY <1>1, <2>1, Contents DEF Mine, Targets, Sound, Accepted, Rolling
  <2> USE <1>2, <2>1 DEF Untouched, Removing, Activating, Rolling
  <2>5. Progress(p)' BY <1>1 DEF Mine, Progress
  <2>6. Targets(p)' BY <2>2, <2>3, <2>4 DEF Targets
  <2>7. Secured(p)' BY <1>1 DEF Mine, Secured, Recoverable, Exists
  <2>8. Sound(p)' BY <2>2, <2>3, <2>4 DEF Sound, Owned, Unreplaced
  <2> QED BY <2>5, <2>6, <2>7, <2>8 DEF Running
<1> QED BY <1>3, <1>4

LEMMA RbManifestKeeps ==
    ASSUME IInv, NEW p \in Procs, RbManifest(p)
    PROVE  Running(p)' /\ pc'[p] # "idle"
<1>1. Mine(p) BY HaveMine
<1>2. /\ pc[p] = "rbManifest" /\ pc'[p] = "rbStart" /\ UNCHANGED <<plan, old, kept, lost, wrote, file, backups>>
      /\ \/ manifest' \in {old[p], Blank} /\ UNCHANGED broken
         \/ broken' = TRUE /\ UNCHANGED manifest
  BY GoesTo DEF RbManifest
<1> USE <1>1, <1>2 DEF Mine, Untouched, Removing, Activating, Rolling
<1>3. Progress(p)' BY DEF Progress
<1>4. Targets(p)' BY DEF Targets, Accepted
<1>5. Secured(p)' BY DEF Secured, Recoverable, Exists
<1>6. Sound(p)' BY DEF Sound, Owned
<1> QED BY <1>3, <1>4, <1>5, <1>6 DEF Running

-----------------------------------------------------------------------------
(* Uninstall: both files are the manifest's until they are removed.          *)
LEMMA UCheckKeeps ==
    ASSUME IInv, NEW p \in Procs, UCheck(p), ~Leaves(p, "uCheck")
    PROVE  Running(p)' /\ pc'[p] # "idle"
<1>1. Mine(p) BY HaveMine
<1>2. /\ Exists(p) /\ \A f \in File : file[f] = old[p][f]
      /\ Goes(p, "uCheck", "uStop") /\ UNCHANGED <<file, manifest, backups, broken>>
  BY DEF UCheck, disk
<1>3. pc[p] = "uCheck" /\ pc'[p] = "uStop" /\ UNCHANGED <<plan, old, kept, lost, wrote>> BY <1>2, GoesTo
<1>4. \A f \in File : file[f] # "foreign" BY <1>1, <1>2, ManifestTypes, Contents DEF Mine
<1> USE <1>1, <1>2, <1>3 DEF Mine, Untouched, Removing, Activating, Rolling
<1>5. Progress(p)' BY DEF Progress
<1>6. Targets(p)' BY <1>4 DEF Targets
<1>7. Secured(p)' BY DEF Secured
<1>8. Sound(p)' BY DEF Sound
<1> QED BY <1>5, <1>6, <1>7, <1>8 DEF Running

LEMMA URemoveKeeps ==
    ASSUME IInv, NEW p \in Procs, UNCHANGED <<manifest, backups, broken>>,
           \/ Goes(p, "uUnit", "uExec") /\ file' = [file EXCEPT !["unit"] = "absent"]
           \/ Goes(p, "uExec", "uManifest") /\ file' = [file EXCEPT !["exec"] = "absent"]
    PROVE  Running(p)' /\ pc'[p] # "idle"
<1>1. Mine(p) BY HaveMine
<1>2. /\ UNCHANGED <<plan, old, kept, lost, wrote>>
      /\ \/ pc[p] = "uUnit" /\ pc'[p] = "uExec" /\ file' = [file EXCEPT !["unit"] = "absent"]
         \/ pc[p] = "uExec" /\ pc'[p] = "uManifest" /\ file' = [file EXCEPT !["exec"] = "absent"]
  BY GoesTo
<1>3. \A f \in File : file[f] # "foreign" BY <1>1, <1>2 DEF Mine, Targets, Accepted, Removing
<1>4. /\ pc[p] = "uUnit" => file["exec"] = old[p]["exec"]
      /\ pc[p] = "uExec" => file["unit"] = "absent"
  BY <1>1, Contents DEF Mine, Targets
<1> USE <1>2, Contents DEF Untouched, Removing, Activating, Rolling
<1>5. Progress(p)' BY <1>1 DEF Mine, Progress
<1>6. Targets(p)'
  <2>1. CASE pc[p] = "uUnit"
    <3>1. pc'[p] = "uExec" /\ file'["unit"] = "absent" /\ file'["exec"] = file["exec"] BY <1>1, <2>1 DEF Mine
    <3> QED BY <1>3, <1>4, <2>1, <3>1 DEF Targets
  <2>2. CASE pc[p] = "uExec"
    <3>1. pc'[p] = "uManifest" /\ file'["exec"] = "absent" /\ file'["unit"] = file["unit"] BY <1>1, <2>2 DEF Mine
    <3> QED BY <1>4, <2>2, <3>1 DEF Targets
  <2> QED BY <2>1, <2>2
<1>7. Secured(p)' BY DEF Secured
<1>8. Sound(p)' BY DEF Sound
<1> QED BY <1>5, <1>6, <1>7, <1>8 DEF Running

(* A removal that fails, or the last one: what is left is still the          *)
(* manifest's, or nothing.                                                   *)
LEMMA URemoveLeaves ==
    ASSUME IInv, NEW p \in Procs, UNCHANGED broken,
           \/ Leaves(p, "uUnit") /\ file' \in {file, [file EXCEPT !["unit"] = "absent"]} /\ UNCHANGED manifest
           \/ Leaves(p, "uExec") /\ UNCHANGED <<file, manifest>>
           \/ Leaves(p, "uManifest") /\ UNCHANGED file
    PROVE  Rest'
<1>1. Mine(p) BY HaveMine
<1>2. CASE Leaves(p, "uManifest") /\ UNCHANGED file
  <2>1. \A f \in File : file[f] = "absent" BY <1>1, <1>2 DEF Leaves, Mine, Targets
  <2> QED BY <1>2, <2>1 DEF Rest, Owned
<1>3. CASE Leaves(p, "uExec") /\ UNCHANGED <<file, manifest>> BY <1>3, ReturnsOwned
<1>4. CASE Leaves(p, "uUnit") /\ file' \in {file, [file EXCEPT !["unit"] = "absent"]} /\ UNCHANGED manifest
  <2>1. pc[p] = "uUnit" /\ ~HalfDone(p) BY <1>4 DEF Leaves, HalfDone
  <2>2. ~broken /\ manifest # Blank => \A f \in File : Owned(manifest, f) BY <2>1, AtRest
  <2>3. \A f \in File : file'[f] \in {file[f], "absent"} BY <1>1, <1>4 DEF Mine
  <2> QED BY <1>4, <2>2, <2>3 DEF Rest, Owned
<1> QED BY <1>2, <1>3, <1>4

-----------------------------------------------------------------------------
(* One step of a run: it keeps what the run relies on, or it ends the run    *)
(* and leaves files the manifest owns.                                       *)
LEMMA RunKeeps ==
    ASSUME IInv, NEW p \in Procs, Install(p) \/ Uninstall(p) \/ Crash(p)
    PROVE  \/ Running(p)' /\ pc'[p] # "idle"
           \/ Rest' /\ pc'[p] = "idle"
<1>0. \A from : Leaves(p, from) => pc'[p] = "idle" BY TypeParts DEF IInv, JobTypes, Leaves
<1>1. CASE BeginInstall(p) \/ BeginUninstall(p) BY <1>1, BeginKeeps
<1>2. CASE Check(p) BY <1>0, <1>2, CheckKeeps, ReturnsOwned DEF Check, disk
<1>3. CASE Backup(p) BY <1>0, <1>3, BackupKeeps, ReturnsOwned DEF Backup
<1>4. CASE UCheck(p) BY <1>0, <1>4, UCheckKeeps, ReturnsOwned DEF UCheck, disk
<1>5. CASE WriteExec(p) \/ WriteUnit(p) \/ WriteManifest(p)
  BY <1>5, WriteExecKeeps, WriteUnitKeeps, WriteManifestKeeps
<1>6. CASE RbFile(p, "exec", "rbExec", "rbUnit") \/ RbFile(p, "unit", "rbUnit", "rbManifest") \/ RbManifest(p)
  BY <1>6, RbFileKeeps, RbManifestKeeps
<1>7. CASE URemoveUnit(p) \/ URemoveExec(p) \/ URemoveManifest(p)
  BY <1>0, <1>7, URemoveKeeps, URemoveLeaves DEF URemoveUnit, URemoveExec, URemoveManifest
<1>8. CASE Crash(p) BY <1>0, <1>8, LeavesOwned DEF Crash, disk
<1>9. CASE \/ Reenable(p) \/ Restart(p) \/ StopOld(p) \/ Enable(p) \/ Start(p) \/ AwaitDaemon(p)
           \/ Return(p) \/ RbStop(p) \/ RbStart(p) \/ UStop(p) \/ UDisable(p)
  <2>1. UNCHANGED <<file, manifest, backups, broken>>
    BY <1>9 DEF Reenable, Restart, StopOld, Enable, Start, AwaitDaemon, Return, RbStop, RbStart, UStop, UDisable, disk
  <2>2. \/ \E m \in SimpleMoves : Goes(p, m[1], m[2])
        \/ \E from \in {"again", "restart", "stop", "installed", "rbStart", "uStop", "uDisable"} : Leaves(p, from)
    <3>1. ASSUME NEW from, NEW to, Goes(p, from, to), <<from, to>> \in SimpleMoves
          PROVE  \E m \in SimpleMoves : Goes(p, m[1], m[2])
      BY <3>1
    <3>2. CASE Reenable(p) \/ Restart(p) \/ StopOld(p) BY <3>1, <3>2 DEF Reenable, Restart, StopOld, SimpleMoves
    <3>3. CASE Enable(p) \/ Start(p) \/ AwaitDaemon(p) \/ Return(p)
      BY <3>1, <3>3 DEF Enable, Start, AwaitDaemon, Return, SimpleMoves
    <3>4. CASE RbStop(p) \/ RbStart(p) BY <3>1, <3>4 DEF RbStop, RbStart, SimpleMoves
    <3>5. CASE UStop(p) \/ UDisable(p) BY <3>1, <3>5 DEF UStop, UDisable, SimpleMoves
    <3> QED BY <1>9, <3>2, <3>3, <3>4, <3>5
  <2>3. CASE \E m \in SimpleMoves : Goes(p, m[1], m[2])
    <3>1. PICK m \in SimpleMoves : Goes(p, m[1], m[2]) BY <2>3
    <3>2. <<m[1], m[2]>> = m BY DEF SimpleMoves
    <3> QED BY <2>1, <3>1, <3>2, MovesKeep DEF disk
  <2>4. CASE \E from \in {"again", "restart", "stop", "installed", "rbStart", "uStop", "uDisable"} : Leaves(p, from)
    BY <1>0, <2>1, <2>4, ReturnsOwned
  <2> QED BY <2>2, <2>3, <2>4
<1> QED BY <1>1, <1>2, <1>3, <1>4, <1>5, <1>6, <1>7, <1>8, <1>9 DEF Install, Uninstall

LEMMA NextIInv == IInv /\ [Next]_vars => IInv'
<1> SUFFICES ASSUME IInv, [Next]_vars PROVE Alone' /\ Rest' /\ \A q \in Procs : Running(q)'
  BY NextTypeOK DEF IInv
<1>1. ASSUME NEW p \in Procs, Install(p) \/ Uninstall(p) \/ Crash(p)
      PROVE  Alone' /\ Rest' /\ \A q \in Procs : Running(q)'
  <2>1. /\ \A q \in Procs : q # p => Running(q)'
        /\ Alone'
        /\ pc'[p] = "idle" => wrote'[p] = {}
        /\ pc'[p] # "idle" => lock' = p
    BY <1>1, Others
  <2>2. CASE Rest' /\ pc'[p] = "idle"
    <3>1. Running(p)' BY <2>1, <2>2, IdleRuns
    <3> QED BY <2>1, <2>2, <3>1
  <2>3. CASE Running(p)' /\ pc'[p] # "idle"
    <3>1. lock' # Free BY <2>1, <2>3, FreeAssumption
    <3>2. Rest' BY <3>1 DEF Rest
    <3> QED BY <2>1, <2>3, <3>2
  <2> QED BY <1>1, <2>2, <2>3, RunKeeps
<1>2. ASSUME UNCHANGED <<lock, job>>, Alone, Rest', \A q \in Procs : pc[q] = "idle" \/ UNCHANGED <<disk, broken>>
      PROVE  Alone' /\ Rest' /\ \A q \in Procs : Running(q)'
  <2>1. Alone' BY <1>2 DEF Alone, job
  <2>2. ASSUME NEW q \in Procs, pc[q] = "idle" PROVE Running(q)'
    <3>1. wrote[q] = {} BY <2>2, HaveMine DEF Mine, Progress, Untouched
    <3> QED BY <1>2, <2>2, <3>1, IdleRuns DEF job
  <2>3. ASSUME NEW q \in Procs, UNCHANGED <<disk, broken>> PROVE Running(q)'
    <3>1. Running(q) BY DEF IInv
    <3>2. UNCHANGED <<pc, plan, old, kept, lost, wrote, file, manifest, backups, broken>> BY <1>2, <2>3 DEF job, disk
    <3>3. Progress(q)' BY <3>1, <3>2 DEF Running, Progress
    <3>4. Targets(q)' BY <3>1, <3>2 DEF Running, Targets, Unreplaced
    <3>5. Secured(q)' BY <3>1, <3>2 DEF Running, Secured, Recoverable, Exists
    <3>6. Sound(q)' BY <3>1, <3>2 DEF Running, Sound, Owned
    <3> QED BY <3>3, <3>4, <3>5, <3>6 DEF Running
  <2> QED BY <1>2, <2>1, <2>2, <2>3
<1>3. Alone /\ Rest BY DEF IInv
<1>4. CASE DaemonExits \/ DaemonStarts \/ UNCHANGED vars
  <2>1. UNCHANGED <<lock, job, disk, broken>> BY <1>4 DEF DaemonExits, DaemonStarts, vars
  <2>2. Rest' BY <1>3, <2>1 DEF Rest, Owned, disk
  <2> QED BY <1>2, <1>3, <2>1, <2>2
<1>5. CASE Edit
  <2>1. lock = Free /\ UNCHANGED <<lock, job, manifest>> BY <1>5 DEF Edit
  <2>2. \A q \in Procs : pc[q] = "idle" BY <1>3, <2>1, FreeAssumption DEF Alone
  <2>3. Rest'
    <3>1. DiskTypes /\ MishapTypes BY TypeParts DEF IInv
    <3>2. ~broken' => ~broken /\ \A f \in File : file'[f] \in {file[f], "absent"}
      BY <1>5, <3>1 DEF Edit, DiskTypes, MishapTypes
    <3> QED BY <1>3, <2>1, <3>2 DEF Rest, Owned
  <2> QED BY <1>2, <1>3, <2>1, <2>2, <2>3
<1> QED BY <1>1, <1>4, <1>5 DEF Next

LEMMA InitIInv == Init => IInv
<1> SUFFICES ASSUME Init PROVE IInv OBVIOUS
<1>1. DiskTypes BY NothingTypes DEF Init, DiskTypes
<1>2. UnitTypes BY DEF Init, UnitTypes
<1>3. JobTypes BY NothingTypes DEF Init, JobTypes, Steps
<1>4. MishapTypes BY BoundsAssumption DEF Init, MishapTypes
<1>5. TypeOK BY <1>1, <1>2, <1>3, <1>4, TypeParts
<1>6. Alone BY DEF Init, Alone
<1>7. Rest
  <2>1. broken = (file # Nothing) BY DEF Init
  <2> QED BY <2>1, Contents DEF Rest, Owned
<1>8. ASSUME NEW p \in Procs PROVE Running(p)
  BY DEF Init, Running, Progress, Targets, Secured, Sound, Untouched, Removing, Activating, Rolling, Accepted
<1> QED BY <1>5, <1>6, <1>7, <1>8 DEF IInv

LEMMA IInvAlways == Spec => []IInv
BY InitIInv, NextIInv, PTL DEF Spec

(* The state stays well typed: in particular the manifest and the backups    *)
(* only ever hold versions this program installed, or no bytes, and none of  *)
(* them foreign ones (service.go:300-313, 343-352).                          *)
THEOREM TypeCorrect == Spec => []TypeOK
<1>1. IInv => TypeOK BY DEF IInv
<1> QED BY <1>1, IInvAlways, PTL

(* No run, whether it succeeds, fails and is rolled back, or dies, leaves a  *)
(* version of this program that the manifest does not name, and that every   *)
(* later run would take for somebody else's, unless it dies half done or     *)
(* loses the manifest; which targets are there at all is not claimed         *)
(* (service.go:240-255, 314-352, 465-478).                                   *)
THEOREM VersionsAlwaysNamed == Spec => []VersionsNamed
<1>1. IInv => VersionsNamed BY Contents DEF IInv, Rest, Owned, VersionsNamed
<1> QED BY <1>1, IInvAlways, PTL

(* The only steps that change a target: the writes, the restores and the     *)
(* removals of the one run that holds the lock.                              *)
LEMMA Changes ==
    ASSUME IInv, [Next]_vars, edits' = edits, file' # file
    PROVE  \E p \in Procs : /\ pc[p] \in {"exec", "unit", "rbExec", "rbUnit", "uUnit", "uExec"}
                            /\ Install(p) \/ Uninstall(p)
<1>1. ~Edit BY TypeParts DEF IInv, MishapTypes, Edit
<1>2. ~(DaemonExits \/ DaemonStarts \/ UNCHANGED vars) BY DEF DaemonExits, DaemonStarts, vars, disk
<1>3. PICK p \in Procs : Install(p) \/ Uninstall(p) \/ Crash(p) BY <1>1, <1>2 DEF Next
<1>4. ~Crash(p) BY DEF Crash, disk
<1>5. CASE Install(p)
  <2>1. ~(BeginInstall(p) \/ Check(p) \/ Reenable(p) \/ Restart(p) \/ Backup(p) \/ StopOld(p))
    BY DEF BeginInstall, Check, Reenable, Restart, Backup, StopOld, disk
  <2>2. ~(WriteManifest(p) \/ Enable(p) \/ Start(p) \/ AwaitDaemon(p) \/ Return(p))
    BY DEF WriteManifest, Enable, Start, AwaitDaemon, Return, disk
  <2>3. ~(RbStop(p) \/ RbManifest(p) \/ RbStart(p)) BY DEF RbStop, RbManifest, RbStart, disk
  <2>4. \/ WriteExec(p) \/ WriteUnit(p)
        \/ RbFile(p, "exec", "rbExec", "rbUnit") \/ RbFile(p, "unit", "rbUnit", "rbManifest")
    BY <1>5, <2>1, <2>2, <2>3 DEF Install
  <2>5. pc[p] \in {"exec", "unit", "rbExec", "rbUnit"}
    BY <2>4 DEF WriteExec, WriteUnit, RbFile, Replace, Goes
  <2> QED BY <1>5, <2>5
<1>6. CASE Uninstall(p)
  <2>1. ~(BeginUninstall(p) \/ UCheck(p) \/ UStop(p) \/ UDisable(p) \/ URemoveManifest(p))
    BY DEF BeginUninstall, UCheck, UStop, UDisable, URemoveManifest, disk
  <2>2. pc[p] \in {"uUnit", "uExec"} BY <1>6, <2>1 DEF Uninstall, URemoveUnit, URemoveExec, Goes, Leaves
  <2> QED BY <1>6, <2>2
<1> QED BY <1>3, <1>4, <1>5, <1>6

(* No run ever replaces or removes a file this program did not install: the  *)
(* checks of service.go:241-252 and 448-452 hold until the last write,       *)
(* because only the holder of the lock writes and a backup never holds such  *)
(* a file.                                                                   *)
THEOREM UnownedAlwaysKept == Spec => UnownedKept
<1>1. ASSUME IInv, [Next]_vars
      PROVE  [\A f \in File : file[f] = "foreign" /\ edits' = edits => file'[f] = "foreign"]_vars
  <2> SUFFICES ASSUME NEW f \in File, file[f] = "foreign", edits' = edits, file' # file PROVE FALSE
    OBVIOUS
  <2>1. PICK p \in Procs : pc[p] \in {"exec", "unit", "rbExec", "rbUnit", "uUnit", "uExec"} BY <1>1, Changes
  <2>2. file[f] # "foreign" BY <1>1, <2>1, HaveMine DEF Mine, Targets, Accepted, Rolling, Removing
  <2> QED BY <2>2
<1> QED BY <1>1, IInvAlways, PTL DEF Spec, UnownedKept

(* An update never replaces a version that is not in a backup, unless its    *)
(* reading failed (service.go:299-313): the files are read and saved before  *)
(* the first of them is written, and nobody changes them in between.         *)
THEOREM ReplacedAlwaysHasBackup == Spec => ReplacedHasBackup
<1> DEFINE Step ==
       \A f \in File, p \in Procs :
          /\ file[f] \in Versions /\ file'[f] \in Versions /\ file'[f] # file[f]
          /\ pc[p] = f /\ f \notin lost[p]
          => file[f] \in backups[f]
<1>1. ASSUME IInv PROVE Step
  <2> SUFFICES ASSUME NEW f \in File, file[f] \in Versions, NEW p \in Procs, pc[p] = f, f \notin lost[p]
               PROVE  file[f] \in backups[f]
    OBVIOUS
  <2>1. Secured(p) BY <1>1, HaveMine DEF Mine
  <2> QED BY <2>1, Contents DEF Secured, Recoverable
<1> QED BY <1>1, IInvAlways, PTL DEF ReplacedHasBackup
=============================================================================
