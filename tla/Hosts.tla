-------------------------------- MODULE Hosts --------------------------------
(***************************************************************************)
(* Editing the system hosts file (internal/hosts, and changeHosts of       *)
(* internal/cli): concurrent "hosts apply" and "hosts remove" processes    *)
(* against an administrator who edits the same file. The file is its       *)
(* unmanaged lines (a count of edits), its managed block and its metadata. *)
(***************************************************************************)
EXTENDS Integers

CONSTANTS
    Writers,        \* utlsproxy processes that change the file
    Dirs,           \* state directories:
    ConfigDir,      \* the one in the configuration each writer was given,
    PlatformDir,    \* the platform's, for a writer without a configuration
    Blocks, NoBlock,\* managed blocks that apply may want; none after remove
    Malformed,      \* a block that is incomplete, doubled or of another version
    Free,
    MaxEdits,       \* bound: changes by the administrator
    MaxWrites,      \* bound: changes started by writers
    EditorRaces     \* the administrator may also edit after the last check

ASSUME HostsAssumption ==
    /\ ConfigDir \in [Writers -> Dirs] /\ PlatformDir \in Dirs
    /\ Free \notin Writers
    /\ NoBlock \notin Blocks /\ Malformed \notin Blocks \cup {NoBlock}
    /\ MaxEdits \in Nat /\ MaxWrites \in Nat
    /\ EditorRaces \in BOOLEAN

VARIABLES
    lines, block,   \* content: unmanaged lines, managed block
    mode, inode,    \* metadata that Stat compares
    backups,        \* contents saved in the state directories
    locks,          \* holder of each directory's hosts.lock
    pc,
    before, want,   \* Plan.Before; the block of Plan.After
    stat,           \* metadata read by the first Stat
    edits, chmods,  \* history: what the administrator did
    writes

vars == <<lines, block, mode, inode, backups, locks, pc, before, want, stat,
          edits, chmods, writes>>
file == <<lines, block, mode, inode>>
admin == <<edits, chmods>>

Held == Blocks \cup {NoBlock, Malformed}       \* what block() can meet in the file
Content == [lines |-> lines, block |-> block]
Meta == [mode |-> mode, inode |-> inode]

(* The directory whose lock a writer takes: "hosts apply" that of its        *)
(* configuration; "hosts remove" has none.                                   *)
DirOf(w) == IF want[w] = NoBlock THEN PlatformDir ELSE ConfigDir[w]

Goes(w, from, to) == pc[w] = from /\ pc' = [pc EXCEPT ![w] = to]
(* Apply returns (or its process dies): the lock is released.                *)
Leaves(w, from) ==
    /\ Goes(w, from, "idle")
    /\ locks' = [locks EXCEPT ![DirOf(w)] = Free]

-----------------------------------------------------------------------------
BlocksFor == Blocks \cup {NoBlock}

ParsableAny == TRUE                 \* Mutant: markers are not validated
Parsable == block # Malformed

(* Prepare reads without the lock. A malformed block, a conflict or a dry    *)
(* run ends there; so does a plan that changes nothing.                      *)
Prepare(w) ==
    /\ Goes(w, "idle", "lock")
    /\ writes < MaxWrites /\ Parsable
    /\ writes' = writes + 1
    /\ before' = [before EXCEPT ![w] = Content]
    /\ \E b \in BlocksFor \ {block} : want' = [want EXCEPT ![w] = b]
    /\ UNCHANGED <<file, backups, locks, stat, admin>>

LockableAlways(w) == TRUE           \* Mutant: writers are not serialised
Lockable(w) == locks[DirOf(w)] = Free

Lock(w) ==
    /\ \/ Lockable(w) /\ Goes(w, "lock", "compare") /\ locks' = [locks EXCEPT ![DirOf(w)] = w]
       \/ ~Lockable(w) /\ Goes(w, "lock", "idle") /\ UNCHANGED locks
    /\ UNCHANGED <<file, backups, before, want, stat, admin, writes>>

(* The first comparison with Plan.Before, then the backup.                   *)
Saved(w) == backups \cup {before[w]}

Backup(w) ==
    /\ \/ /\ Goes(w, "compare", "stat") /\ before[w] = Content
          /\ backups' = Saved(w)
          /\ UNCHANGED locks
       \/ Leaves(w, "compare") /\ UNCHANGED backups
    /\ UNCHANGED <<file, before, want, stat, admin, writes>>

(* Stat, then the temporary file gets the new content and the metadata.      *)
Stage(w) ==
    /\ \/ /\ Goes(w, "stat", "recheck")
          /\ stat' = [stat EXCEPT ![w] = Meta]
          /\ UNCHANGED locks
       \/ Leaves(w, "stat") /\ UNCHANGED stat
    /\ UNCHANGED <<file, backups, before, want, admin, writes>>

SameContentAssumed(w) == TRUE       \* Mutant: the first comparison is enough
SameContent(w) == before[w] = Content
SameMeta(w) == stat[w] = Meta

Recheck(w) ==
    /\ \/ Goes(w, "recheck", "restat") /\ SameContent(w) /\ UNCHANGED locks
       \/ Leaves(w, "recheck")
    /\ UNCHANGED <<file, backups, before, want, stat, admin, writes>>

Restat(w) ==
    /\ \/ Goes(w, "restat", "rename") /\ SameMeta(w) /\ UNCHANGED locks
       \/ Leaves(w, "restat")
    /\ UNCHANGED <<file, backups, before, want, stat, admin, writes>>

(* The rename installs what Prepare computed, under a new inode.             *)
Replace(w) ==
    /\ Leaves(w, "rename")
    /\ \/ /\ lines' = before[w].lines
          /\ block' = want[w]
          /\ mode' = stat[w].mode
          /\ inode' = inode + 1
       \/ UNCHANGED file
    /\ UNCHANGED <<backups, before, want, stat, admin, writes>>

Crash(w) ==
    /\ pc[w] # "idle"
    /\ Goes(w, pc[w], "idle")
    /\ locks' = [d \in Dirs |-> IF locks[d] = w THEN Free ELSE locks[d]]
    /\ UNCHANGED <<file, backups, before, want, stat, admin, writes>>

-----------------------------------------------------------------------------
(* The administrator: edits in place or by replacement, which may damage the *)
(* markers or take the block out; changes the mode.                          *)
Uncommitted(late) == EditorRaces \/ \A w \in Writers : pc[w] \notin late

Edit ==
    /\ edits + chmods < MaxEdits
    /\ Uncommitted({"restat", "rename"})
    /\ edits' = edits + 1
    /\ lines' = lines + 1
    /\ block' \in {block, Malformed, NoBlock}
    /\ inode' \in {inode, inode + 1}
    /\ UNCHANGED <<mode, backups, locks, pc, before, want, stat, chmods, writes>>

Chmod ==
    /\ edits + chmods < MaxEdits
    /\ Uncommitted({"rename"})
    /\ chmods' = chmods + 1
    /\ mode' = mode + 1
    /\ UNCHANGED <<lines, block, inode, backups, locks, pc, before, want, stat, edits, writes>>

Init ==
    /\ lines = 0 /\ mode = 0 /\ inode = 0
    /\ block \in Held
    /\ backups = {}
    /\ locks = [d \in Dirs |-> Free]
    /\ pc = [w \in Writers |-> "idle"]
    /\ before = [w \in Writers |-> Content]
    /\ want = [w \in Writers |-> NoBlock]
    /\ stat = [w \in Writers |-> Meta]
    /\ edits = 0 /\ chmods = 0 /\ writes = 0

Step(w) == \/ Prepare(w) \/ Lock(w) \/ Backup(w) \/ Stage(w) \/ Recheck(w)
           \/ Restat(w) \/ Replace(w) \/ Crash(w)

Next == Edit \/ Chmod \/ \E w \in Writers : Step(w)

Spec == Init /\ [][Next]_vars

-----------------------------------------------------------------------------
(* Properties *)

Contents == [lines : Nat, block : Held]

(* Types: in particular what a writer puts in is a whole block or none.      *)
TypeOK ==
    /\ lines \in Nat /\ mode \in Nat /\ inode \in Nat
    /\ block \in Held
    /\ backups \in SUBSET Contents
    /\ locks \in [Dirs -> Writers \cup {Free}]
    /\ pc \in [Writers -> {"idle", "lock", "compare", "stat", "recheck", "restat", "rename"}]
    /\ before \in [Writers -> Contents]
    /\ want \in [Writers -> BlocksFor]
    /\ stat \in [Writers -> [mode : Nat, inode : Nat]]
    /\ edits \in 0..MaxEdits /\ chmods \in 0..MaxEdits
    /\ writes \in 0..MaxWrites

(* No edit of the unmanaged lines, and no change of the file's mode, is lost *)
(* to a replacement computed before it: the comparisons see every one up to  *)
(* the last check, or, if EditorRaces, every concurrent one                  *)
(* (hosts.go:197-210).                                                       *)
EditsKept == lines = edits /\ mode = chmods

Replaced(w) == pc[w] = "rename" /\ pc'[w] = "idle" /\ inode' # inode

(* A writer replaces exactly the content its plan, and the diff it printed,  *)
(* were computed from, and that content is in a backup. Of two writers that  *)
(* lock one directory neither overwrites the other's block; apply and remove *)
(* lock one only if the configured state directory is the platform's         *)
(* (hosts.go:153-168, 197-211, cli.go:639-642).                              *)
ReplacesWhatItRead ==
    [][\A w \in Writers : Replaced(w) => before[w] = Content /\ Content \in backups]_vars

(* Markers that the administrator has damaged stay as they are until the     *)
(* administrator repairs them: no writer replaces them, neither one that     *)
(* meets them nor one whose plan is older than the damage (hosts.go:31-51,   *)
(* 67-70, 197-203).                                                          *)
MalformedKept == [][block = Malformed /\ edits' = edits => block' = Malformed]_vars
=============================================================================
