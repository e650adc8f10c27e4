------------------------------- MODULE Service -------------------------------
(***************************************************************************)
(* The service installer (internal/service) on Linux: install-service and  *)
(* uninstall-service by concurrent processes that may die between any two  *)
(* steps. The executable and the unit file are content versions; the       *)
(* manifest names the version of each that was installed, as its hashes    *)
(* do. systemd is external: a unit that is active and restarts a process   *)
(* that exits. Every file operation and command may fail.                  *)
(* The administrator edits the targets only between runs.                  *)
(***************************************************************************)
EXTENDS Integers

CONSTANTS Procs, Free, Versions
CONSTANT MaxMishaps     \* bound: crashes, edits and backups that cannot read, together
ASSUME FreeAssumption == Free \notin Procs
ASSUME VersionsAssumption ==
    Versions # {} /\ Versions \cap {"absent", "empty", "foreign", "none", "fore"} = {}
ASSUME BoundsAssumption == MaxMishaps \in Nat

File == {"exec", "unit"}
Nothing == [f \in File |-> "absent"]
Blank == [f \in File |-> "empty"]     \* a manifest file without bytes: no JSON

VARIABLES
    file,        \* content of each target; "empty" has no bytes, "foreign" is not ours
    manifest,    \* installation.json: the version of each file, Nothing if missing, Blank if empty
    backups,     \* contents kept in the service-backup-* directories, per file
    enabled,     \* the unit starts at boot
    active,      \* the unit is started: systemd keeps its process alive
    daemon,      \* who answers on the control socket: "none", "fore", or a version
    lock,        \* holder of installation.json.lock
    pc,          \* where each process is, and the locals of its run: the
    plan, old,   \* versions to install, the manifest it read,
    kept, lost,  \* the bytes it backed up, the files that it failed to read for that
    wrote,       \* the files it has replaced
    faults, edits,
    broken       \* history: a foreign file was put in place, or an installation
                 \* died half done or could not be rolled back

disk == <<file, manifest, backups>>
unit == <<enabled, active, daemon>>
bounds == <<faults, edits>>
job == <<pc, plan, old, kept, lost, wrote>>
vars == <<disk, unit, lock, job, bounds, broken>>

Goes(p, from, to) ==
    /\ pc[p] = from
    /\ pc' = [pc EXCEPT ![p] = to]
    /\ UNCHANGED <<lock, plan, old, kept, lost, wrote>>
(* The run returns, or dies: the lock and the locals are gone.               *)
Leaves(p, from) ==
    /\ pc[p] = from
    /\ pc' = [pc EXCEPT ![p] = "idle"]
    /\ plan' = [plan EXCEPT ![p] = Nothing] /\ old' = [old EXCEPT ![p] = Nothing]
    /\ kept' = [kept EXCEPT ![p] = Nothing] /\ lost' = [lost EXCEPT ![p] = {}]
    /\ wrote' = [wrote EXCEPT ![p] = {}]
    /\ lock' = Free

Mishap == faults + edits < MaxMishaps /\ faults' = faults + 1

(* There was a manifest when this run read it.                               *)
Exists(p) == old[p] # Nothing

-----------------------------------------------------------------------------
(* systemctl, as run() and Native() use it (external)                        *)

Loadable == file["unit"] # "absent"
(* A started unit runs the installed executable once the control socket is   *)
(* free; while another daemon holds it, it exits and is restarted.           *)
Runs == file["exec"] \in Versions /\ file["unit"] \in Versions
Started == /\ Loadable
           /\ active' = TRUE
           /\ daemon' = IF daemon = "none" /\ Runs THEN file["exec"] ELSE daemon
Stopped == /\ active' = FALSE
           /\ daemon' = IF daemon = "fore" THEN "fore" ELSE "none"
ActiveState == active /\ daemon \in Versions

-----------------------------------------------------------------------------
(* Install: lock, manifest, ownership                                        *)

Lockable == lock = Free             \* otherwise LOCK_NB fails, nothing is done
Readable == manifest # Blank        \* otherwise readManifest fails, nothing is done

BeginInstall(p) ==
    /\ pc[p] = "idle" /\ Lockable /\ Readable
    /\ lock' = p
    /\ pc' = [pc EXCEPT ![p] = "check"]
    /\ old' = [old EXCEPT ![p] = manifest]
    /\ \E versions \in [File -> Versions] : plan' = [plan EXCEPT ![p] = versions]
    /\ UNCHANGED <<kept, lost, wrote, disk, unit, bounds, broken>>

(* A target is missing, or has the hash the manifest gives it.               *)
ReplaceableIfManaged(p, f) == file[f] = "absent" \/ Exists(p)   \* Mutant: no hash check
Replaceable(p, f) ==
    file[f] = "absent" \/ (Exists(p) /\ file[f] = old[p][f])

(* A first installation is refused while any daemon answers.                 *)
Accepts(p) ==
    /\ \A f \in File : Replaceable(p, f)
    /\ Exists(p) \/ daemon = "none"

Check(p) ==
    /\ \/ /\ Accepts(p)
          /\ Goes(p, "check", IF old[p] = plan[p] THEN "again"
                              ELSE IF Exists(p) THEN "backup" ELSE "exec")
       \/ Leaves(p, "check")
    /\ UNCHANGED <<disk, unit, bounds, broken>>

(* The same installation again: enable, start and wait, without rollback.    *)
Reenable(p) ==
    /\ \/ Loadable /\ enabled' = TRUE /\ Goes(p, "again", "restart")
       \/ Leaves(p, "again") /\ UNCHANGED enabled
    /\ UNCHANGED <<disk, active, daemon, bounds, broken>>

Restart(p) ==
    /\ Leaves(p, "restart")
    /\ Started \/ UNCHANGED <<active, daemon>>
    /\ UNCHANGED <<disk, enabled, bounds, broken>>

-----------------------------------------------------------------------------
(* Install: backup, stop, the three files, activation                        *)

(* ReadFile errors are dropped: a file that is missing, or cannot be read,   *)
(* is kept as no bytes.                                                      *)
Kept(L) == [f \in File |-> IF file[f] = "absent" \/ f \in L THEN "empty" ELSE file[f]]

SavedUnitOnly(L) == [backups EXCEPT !["unit"] = @ \cup {Kept(L)["unit"]}]  \* Mutant
Saved(L) == [f \in File |-> backups[f] \cup {Kept(L)[f]}]

Backup(p) ==
    /\ \E L \in SUBSET (File \cup {"manifest"}) :
       /\ IF L = {} THEN UNCHANGED faults ELSE Mishap
       /\ \/ /\ pc[p] = "backup"
             /\ pc' = [pc EXCEPT ![p] = "stop"]
             /\ kept' = [kept EXCEPT ![p] = Kept(L)]
             /\ lost' = [lost EXCEPT ![p] = L]
             /\ backups' = Saved(L)
             /\ UNCHANGED <<lock, plan, old, wrote>>
          \/ /\ Leaves(p, "backup")
             /\ \E S \in SUBSET File :
                    backups' = [f \in File |-> IF f \in S THEN Saved(L)[f] ELSE backups[f]]
    /\ UNCHANGED <<file, manifest, unit, edits, broken>>

(* A running service is stopped; one whose status cannot be read is not.     *)
StopOld(p) ==
    /\ \/ ActiveState /\ Stopped /\ Goes(p, "stop", "exec")
       \/ Goes(p, "stop", "exec") /\ UNCHANGED <<active, daemon>>
       \/ ActiveState /\ Leaves(p, "stop") /\ UNCHANGED <<active, daemon>>
    /\ UNCHANGED <<disk, enabled, bounds, broken>>

(* wroteBin, wroteDef: what the rollback has to undo.                        *)
WroteUnit(p, f) == wrote[p] \cup ({f} \cap {"unit"})  \* Mutant: wroteBin not set
Wrote(p, f) == wrote[p] \cup {f}

Replace(p, f, next) ==
    /\ file' = [file EXCEPT ![f] = plan[p][f]]
    /\ pc[p] = f
    /\ pc' = [pc EXCEPT ![p] = next]
    /\ wrote' = [wrote EXCEPT ![p] = Wrote(p, f)]
    /\ UNCHANGED <<lock, plan, old, kept, lost>>

WriteExec(p) ==
    /\ LET same == Exists(p) /\ old[p]["exec"] = plan[p]["exec"]
       IN \/ same /\ Goes(p, "exec", "unit") /\ UNCHANGED file
          \/ ~same /\ Replace(p, "exec", "unit")
          \/ ~same /\ Goes(p, "exec", "rbStop") /\ UNCHANGED file
    /\ UNCHANGED <<manifest, backups, unit, bounds, broken>>

WriteUnit(p) ==
    /\ \/ Replace(p, "unit", "manifest")
       \/ Goes(p, "unit", "rbStop") /\ UNCHANGED file
    /\ UNCHANGED <<manifest, backups, unit, bounds, broken>>

WriteManifest(p) ==
    /\ \/ Goes(p, "manifest", "enable") /\ manifest' = plan[p]
       \/ Goes(p, "manifest", "rbStop") /\ UNCHANGED manifest
    /\ UNCHANGED <<file, backups, unit, bounds, broken>>

Enable(p) ==
    /\ \/ Goes(p, "enable", "start") /\ enabled' = TRUE
       \/ Goes(p, "enable", "rbStop") /\ UNCHANGED enabled
    /\ UNCHANGED <<disk, active, daemon, bounds, broken>>

Start(p) ==
    /\ \/ Started /\ Goes(p, "start", "await")
       \/ Goes(p, "start", "rbStop") /\ UNCHANGED <<active, daemon>>
    /\ UNCHANGED <<disk, enabled, bounds, broken>>

(* Whoever answers with this configuration's path is taken for the service;  *)
(* a degraded daemon is installed too. After 15 s without one, rollback.     *)
AwaitDaemon(p) ==
    /\ \/ daemon # "none" /\ Goes(p, "await", "installed")
       \/ Goes(p, "await", "rbStop")
    /\ UNCHANGED <<disk, unit, bounds, broken>>

Return(p) ==
    /\ Leaves(p, "installed")
    /\ UNCHANGED <<disk, unit, bounds, broken>>

-----------------------------------------------------------------------------
(* rollback: every step is tried, whatever the earlier ones did              *)

RbStop(p) ==
    /\ Goes(p, "rbStop", "rbExec")
    /\ Stopped \/ UNCHANGED <<active, daemon>>
    /\ UNCHANGED <<disk, enabled, bounds, broken>>

Restored(p, f) == IF Exists(p) THEN kept[p][f] ELSE "absent"

RbFile(p, f, from, to) ==
    /\ Goes(p, from, to)
    /\ \/ f \in wrote[p] /\ file' = [file EXCEPT ![f] = Restored(p, f)] /\ UNCHANGED broken
       \/ f \notin wrote[p] /\ UNCHANGED <<file, broken>>
       \/ f \in wrote[p] /\ broken' = TRUE /\ UNCHANGED file
    /\ UNCHANGED <<manifest, backups, unit, bounds>>

RbManifest(p) ==
    /\ Goes(p, "rbManifest", "rbStart")
    /\ \/ /\ manifest' = IF "manifest" \in lost[p] THEN Blank ELSE old[p]
          /\ UNCHANGED broken
       \/ broken' = TRUE /\ UNCHANGED manifest
    /\ UNCHANGED <<file, backups, unit, bounds>>

RbStart(p) ==
    /\ Leaves(p, "rbStart")
    /\ \/ Exists(p) /\ Started /\ UNCHANGED enabled
       \/ ~Exists(p) /\ enabled' = FALSE /\ UNCHANGED <<active, daemon>>
       \/ UNCHANGED unit
    /\ UNCHANGED <<disk, bounds, broken>>

-----------------------------------------------------------------------------
(* Uninstall: both files must be what the manifest says                      *)

BeginUninstall(p) ==
    /\ pc[p] = "idle" /\ Lockable /\ Readable
    /\ lock' = p
    /\ pc' = [pc EXCEPT ![p] = "uCheck"]
    /\ old' = [old EXCEPT ![p] = manifest]
    /\ UNCHANGED <<plan, kept, lost, wrote, disk, unit, bounds, broken>>

UCheck(p) ==
    /\ LET owned == Exists(p) /\ \A f \in File : file[f] = old[p][f]
       IN \/ owned /\ Goes(p, "uCheck", "uStop")
          \/ Leaves(p, "uCheck")
    /\ UNCHANGED <<disk, unit, bounds, broken>>

(* A failed stop matters only while a daemon still answers.                  *)
UStop(p) ==
    /\ \/ Stopped /\ Goes(p, "uStop", "uDisable")
       \/ /\ UNCHANGED <<active, daemon>>
          /\ IF daemon = "none" THEN Goes(p, "uStop", "uDisable") ELSE Leaves(p, "uStop")
    /\ UNCHANGED <<disk, enabled, bounds, broken>>

UDisable(p) ==
    /\ \/ Goes(p, "uDisable", "uUnit") /\ enabled' = FALSE
       \/ Leaves(p, "uDisable") /\ UNCHANGED enabled
    /\ UNCHANGED <<disk, active, daemon, bounds, broken>>

(* The unit file, daemon-reload, the executable, and the manifest last.      *)
URemoveUnit(p) ==
    /\ \/ Goes(p, "uUnit", "uExec") /\ file' = [file EXCEPT !["unit"] = "absent"]
       \/ Leaves(p, "uUnit") /\ file' \in {file, [file EXCEPT !["unit"] = "absent"]}
    /\ UNCHANGED <<manifest, backups, unit, bounds, broken>>

URemoveExec(p) ==
    /\ \/ Goes(p, "uExec", "uManifest") /\ file' = [file EXCEPT !["exec"] = "absent"]
       \/ Leaves(p, "uExec") /\ UNCHANGED file
    /\ UNCHANGED <<manifest, backups, unit, bounds, broken>>

URemoveManifest(p) ==
    /\ Leaves(p, "uManifest")
    /\ manifest' \in {Nothing, manifest}
    /\ UNCHANGED <<file, backups, unit, bounds, broken>>

-----------------------------------------------------------------------------
(* The environment *)

HalfDone(p) ==
    /\ wrote[p] # {}
    /\ pc[p] \in {"unit", "manifest", "rbStop", "rbExec", "rbUnit", "rbManifest"}

(* The process dies; the kernel drops its lock.                              *)
Crash(p) ==
    /\ pc[p] # "idle"
    /\ Mishap
    /\ Leaves(p, pc[p])
    /\ broken' = (broken \/ HalfDone(p))
    /\ UNCHANGED <<disk, unit, edits>>

(* The administrator removes a target or puts something else there.          *)
Edit ==
    /\ lock = Free
    /\ faults + edits < MaxMishaps
    /\ edits' = edits + 1
    /\ \E f \in File, c \in {"absent", "foreign"} :
           /\ file' = [file EXCEPT ![f] = c]
           /\ broken' = (broken \/ c = "foreign")
    /\ UNCHANGED <<manifest, backups, unit, lock, job, faults>>

(* The daemon on the control socket exits; systemd restarts its own, unless  *)
(* someone runs "utlsproxy serve" in the foreground first.                   *)
DaemonExits ==
    /\ daemon # "none"
    /\ daemon' = "none"
    /\ UNCHANGED <<disk, enabled, active, lock, job, bounds, broken>>
DaemonStarts ==
    /\ daemon = "none"
    /\ daemon' \in {"fore"} \cup (IF active /\ Runs THEN {file["exec"]} ELSE {})
    /\ UNCHANGED <<disk, enabled, active, lock, job, bounds, broken>>

Init ==
    /\ file \in [File -> {"absent", "foreign"}]
    /\ manifest = Nothing
    /\ backups = [f \in File |-> {}]
    /\ enabled = FALSE /\ active = FALSE /\ daemon = "none"
    /\ lock = Free
    /\ pc = [p \in Procs |-> "idle"] /\ plan = [p \in Procs |-> Nothing] /\ old = [p \in Procs |-> Nothing]
    /\ kept = [p \in Procs |-> Nothing] /\ lost = [p \in Procs |-> {}] /\ wrote = [p \in Procs |-> {}]
    /\ faults = 0 /\ edits = 0
    /\ broken = (file # Nothing)

Install(p) ==
    \/ BeginInstall(p) \/ Check(p) \/ Reenable(p) \/ Restart(p) \/ Backup(p) \/ StopOld(p)
    \/ WriteExec(p) \/ WriteUnit(p) \/ WriteManifest(p)
    \/ Enable(p) \/ Start(p) \/ AwaitDaemon(p) \/ Return(p)
    \/ RbStop(p) \/ RbFile(p, "exec", "rbExec", "rbUnit") \/ RbFile(p, "unit", "rbUnit", "rbManifest")
    \/ RbManifest(p) \/ RbStart(p)

Uninstall(p) ==
    \/ BeginUninstall(p) \/ UCheck(p) \/ UStop(p) \/ UDisable(p)
    \/ URemoveUnit(p) \/ URemoveExec(p) \/ URemoveManifest(p)

Next ==
    \/ Edit \/ DaemonExits \/ DaemonStarts
    \/ \E p \in Procs : Install(p) \/ Uninstall(p) \/ Crash(p)

Spec == Init /\ [][Next]_vars

-----------------------------------------------------------------------------
(* Properties *)

Steps == {"idle", "check", "again", "restart", "backup", "stop", "exec", "unit", "manifest",
          "enable", "start", "await", "installed",
          "rbStop", "rbExec", "rbUnit", "rbManifest", "rbStart",
          "uCheck", "uStop", "uDisable", "uUnit", "uExec", "uManifest"}

(* Types: in particular a manifest names a version of both files, or is      *)
(* missing or empty, and a backup holds the bytes read, none for a file that *)
(* is missing or could not be read (service.go:300-313).                     *)
TypeOK ==
    /\ file \in [File -> Versions \cup {"absent", "empty", "foreign"}]
    /\ manifest \in [File -> Versions] \cup {Nothing, Blank}
    /\ backups \in [File -> SUBSET (Versions \cup {"empty"})]
    /\ enabled \in BOOLEAN /\ active \in BOOLEAN
    /\ daemon \in Versions \cup {"none", "fore"}
    /\ lock \in Procs \cup {Free}
    /\ pc \in [Procs -> Steps]
    /\ plan \in [Procs -> [File -> Versions] \cup {Nothing}]
    /\ old \in [Procs -> [File -> Versions] \cup {Nothing}]
    /\ kept \in [Procs -> [File -> Versions \cup {"absent", "empty"}]]
    /\ lost \in [Procs -> SUBSET (File \cup {"manifest"})]
    /\ wrote \in [Procs -> SUBSET File]
    /\ faults \in 0..MaxMishaps /\ edits \in 0..MaxMishaps
    /\ broken \in BOOLEAN

(* No version that this program installed is ever orphaned: between runs a   *)
(* target that holds one holds the one the manifest names, whether the runs  *)
(* succeeded, failed and were rolled back, or died during uninstall; one     *)
(* that the manifest does not name would be taken for somebody else's by     *)
(* every later install, update and uninstall (service.go:240-255, 314-352,   *)
(* 448-478). The exceptions are an installation that died half done or could *)
(* not be rolled back, a foreign file that was put there, and a manifest     *)
(* that a rollback emptied (service.go:303). That a target is there at all   *)
(* is not promised: see RollbackSafe.                                        *)
VersionsNamed ==
    lock = Free /\ ~broken /\ manifest # Blank =>
        \A f \in File : file[f] \in Versions => file[f] = manifest[f]

(* What SPEC.md:376-377 says of a failed update: a rollback none of whose    *)
(* steps fails leaves no target other than it was, present or missing. The   *)
(* code drops the errors of the reads for the backup: a target that is       *)
(* missing or cannot be read is replaced, and restored as an empty file,     *)
(* which no later run accepts (service.go:299-313, 318-331).                 *)
RollbackSafe ==
    \A p \in Procs :
        pc[p] = "rbStart" /\ ~broken => \A f \in File : file[f] \in {"absent", old[p][f]}

(* A file this program did not install is never replaced or removed by it    *)
(* (service.go:241-252, 448-452).                                            *)
UnownedKept ==
    [][\A f \in File : file[f] = "foreign" /\ edits' = edits => file'[f] = "foreign"]_vars

(* An update replaces a version only once it is in a backup, so that it can  *)
(* be recovered whatever happens next, unless reading it has failed: that    *)
(* error is dropped, and the update goes on (service.go:299-313).            *)
ReplacedHasBackup ==
    [][\A f \in File, p \in Procs :
          /\ file[f] \in Versions /\ file'[f] \in Versions /\ file'[f] # file[f]
          /\ pc[p] = f /\ f \notin lost[p]
          => file[f] \in backups[f]]_vars
=============================================================================
