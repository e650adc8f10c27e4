----------------------------- MODULE HostsProofs -----------------------------
(***************************************************************************)
(* Proofs about module Hosts, for any writers, state directories and       *)
(* blocks, and an administrator who does not come between the last check   *)
(* and the rename. The administrator's edits are kept by the comparisons   *)
(* alone, also where writers lock different state directories; that two    *)
(* writers keep each other's block takes one lock for both.                *)
(***************************************************************************)
EXTENDS Hosts, TLAPS

Locked == {"compare", "stat", "recheck", "restat", "rename"}

(* What the administrator changes is as the checks of a writer found it.     *)
Checked ==
    /\ EditsKept
    /\ \A w \in Writers : pc[w] \in {"restat", "rename"} => before[w].lines = lines
    /\ \A w \in Writers : pc[w] = "rename" => stat[w].mode = mode

(* A plan that is as new as the file was made from whole markers, or none.   *)
Intact ==
    \A w \in Writers : pc[w] # "idle" =>
        before[w].lines <= lines /\ (before[w].lines = lines => block # Malformed)

(* The lock of its directory is held by a writer from its first comparison   *)
(* on, and what it replaces is what it read and saved.                       *)
Holding == \A w \in Writers : pc[w] \in Locked => locks[DirOf(w)] = w
SavedFirst == \A w \in Writers : pc[w] \in {"stat", "recheck", "restat", "rename"} => before[w] \in backups
Current == \A w \in Writers : pc[w] \in {"restat", "rename"} => before[w] = Content

OneDirectory == \A w \in Writers : ConfigDir[w] = PlatformDir

-----------------------------------------------------------------------------
(* Facts about the records, so that the rest needs no more than these.       *)
LEMMA Records ==
    ASSUME NEW n, NEW b, NEW m, NEW k
    PROVE  /\ [lines |-> n, block |-> b].lines = n /\ [lines |-> n, block |-> b].block = b
           /\ [mode |-> m, inode |-> k].mode = m
           /\ n \in Nat /\ b \in Held => [lines |-> n, block |-> b] \in Contents
           /\ m \in Nat /\ k \in Nat => [mode |-> m, inode |-> k] \in [mode : Nat, inode : Nat]
BY DEF Contents

(* Every step of a writer: its place, the locks and nothing of the others.   *)
LEMMA WriterSteps ==
    ASSUME TypeOK, NEW w \in Writers, Step(w)
    PROVE  /\ \A v \in Writers : v # w =>
                  pc'[v] = pc[v] /\ before'[v] = before[v] /\ want'[v] = want[v] /\ stat'[v] = stat[v]
           /\ pc[w] # "idle" => want' = want
           /\ UNCHANGED admin
           /\ Replace(w) \/ UNCHANGED file
<1> USE DEF TypeOK, Goes, Leaves
<1>1. CASE Prepare(w) BY <1>1 DEF Prepare
<1>2. CASE Lock(w) BY <1>2 DEF Lock
<1>3. CASE Backup(w) BY <1>3 DEF Backup
<1>4. CASE Stage(w) BY <1>4 DEF Stage
<1>5. CASE Recheck(w) BY <1>5 DEF Recheck
<1>6. CASE Restat(w) BY <1>6 DEF Restat
<1>7. CASE Replace(w) BY <1>7 DEF Replace
<1>8. CASE Crash(w) BY <1>8 DEF Crash
<1> QED BY <1>1, <1>2, <1>3, <1>4, <1>5, <1>6, <1>7, <1>8 DEF Step

LEMMA TypesKept == TypeOK /\ [Next]_vars => TypeOK'
<1> SUFFICES ASSUME TypeOK, [Next]_vars PROVE TypeOK' OBVIOUS
<1>1. Content \in Contents /\ Meta \in [mode : Nat, inode : Nat]
  BY Records DEF TypeOK, Content, Meta
<1>2. \A c \in Contents : c.lines \in Nat BY DEF Contents
<1>3. \A s \in [mode : Nat, inode : Nat] : s.mode \in Nat OBVIOUS
<1> DEFINE MetaSet == [mode : Nat, inode : Nat]
<1>4. TypeOK /\ stat \in [Writers -> MetaSet] BY DEF TypeOK
<1> HIDE DEF MetaSet
<1>5. Content \in Contents /\ Meta \in MetaSet /\ \A s \in MetaSet : s.mode \in Nat BY <1>1, <1>3 DEF MetaSet
<1>6. ASSUME stat' \in [Writers -> MetaSet] PROVE stat' \in [Writers -> [mode : Nat, inode : Nat]]
  BY <1>6 DEF MetaSet
<1> USE <1>2, <1>4, <1>5, <1>6, HostsAssumption DEF TypeOK, Goes, Leaves, file, admin
<1>7. CASE Edit BY <1>7 DEF Edit, Held
<1>8. CASE Chmod BY <1>8 DEF Chmod
<1>9. ASSUME NEW w \in Writers, Step(w) PROVE TypeOK'
  <2>1. CASE Prepare(w) BY <2>1 DEF Prepare
  <2>2. CASE Lock(w)
    <3>1. /\ pc' \in {[pc EXCEPT ![w] = "compare"], [pc EXCEPT ![w] = "idle"]}
          /\ locks' \in {locks, [locks EXCEPT ![DirOf(w)] = w]}
          /\ UNCHANGED <<file, backups, before, want, stat, admin, writes>>
      BY <2>2 DEF Lock
    <3>2. locks' \in [Dirs -> Writers \cup {Free}] BY <3>1
    <3> QED BY <3>1, <3>2
  <2>3. CASE Backup(w) BY <2>3 DEF Backup, Saved
  <2>4. CASE Stage(w)
    <3>1. CASE Leaves(w, "stat") BY <2>4, <3>1 DEF Stage
    <3>2. CASE ~Leaves(w, "stat")
      <4>1. /\ pc' = [pc EXCEPT ![w] = "recheck"] /\ stat' = [stat EXCEPT ![w] = Meta]
            /\ UNCHANGED <<locks, file, backups, before, want, admin, writes>>
        BY <2>4, <3>2 DEF Stage
      <4>2. stat' \in [Writers -> MetaSet] BY <4>1
      <4> QED BY <4>1, <4>2
    <3> QED BY <3>1, <3>2
  <2>5. CASE Recheck(w) BY <2>5 DEF Recheck
  <2>6. CASE Restat(w) BY <2>6 DEF Restat
  <2>7. CASE Replace(w)
    <3>1. /\ lines' \in Nat /\ block' \in Held /\ mode' \in Nat /\ inode' \in Nat
      BY <2>7 DEF Replace, BlocksFor, Held
    <3>2. /\ pc' = [pc EXCEPT ![w] = "idle"] /\ locks' = [locks EXCEPT ![DirOf(w)] = Free]
          /\ UNCHANGED <<backups, before, want, stat, admin, writes>>
      BY <2>7 DEF Replace
    <3> QED BY <3>1, <3>2
  <2>8. CASE Crash(w) BY <2>8 DEF Crash
  <2> QED BY <1>9, <2>1, <2>2, <2>3, <2>4, <2>5, <2>6, <2>7, <2>8 DEF Step
<1>10. CASE UNCHANGED vars BY <1>10 DEF vars
<1> QED BY <1>7, <1>8, <1>9, <1>10 DEF Next

(* Types; what a writer puts into the file is a whole block or none.         *)
THEOREM TypeCorrect == Spec => []TypeOK
<1>1. Init => TypeOK
  <2> SUFFICES ASSUME Init PROVE TypeOK OBVIOUS
  <2>1. Content \in Contents /\ Meta \in [mode : Nat, inode : Nat]
    BY Records DEF Init, Content, Meta
  <2> QED BY <2>1, HostsAssumption DEF Init, TypeOK, BlocksFor
<1> QED BY <1>1, TypesKept, PTL DEF Spec

-----------------------------------------------------------------------------
LEMMA CheckedAlways == ASSUME ~EditorRaces PROVE Spec => []Checked
<1>1. Init => Checked BY DEF Init, Checked, EditsKept
<1>2. TypeOK /\ Checked /\ [Next]_vars => Checked'
  <2> SUFFICES ASSUME TypeOK, Checked, [Next]_vars PROVE Checked' OBVIOUS
  <2>1. CASE Edit
    <3>1. \A w \in Writers : pc[w] \notin {"restat", "rename"} BY <2>1 DEF Edit, Uncommitted
    <3> QED BY <2>1, <3>1 DEF Edit, Checked, EditsKept
  <2>2. CASE Chmod
    <3>1. \A w \in Writers : pc[w] \notin {"rename"} BY <2>2 DEF Chmod, Uncommitted
    <3> QED BY <2>2, <3>1 DEF Chmod, Checked, EditsKept
  <2>3. ASSUME NEW w \in Writers, Step(w) PROVE Checked'
    <3>1. UNCHANGED <<lines, mode, edits, chmods>>
      <4>1. CASE Replace(w) BY <4>1 DEF Replace, Leaves, Goes, Checked, file, admin
      <4> QED BY <2>3, <4>1, WriterSteps DEF file, admin
    <3>2. \A v \in Writers : v # w => pc'[v] = pc[v] /\ before'[v] = before[v] /\ stat'[v] = stat[v]
      BY <2>3, WriterSteps
    <3>3. pc'[w] \in {"restat", "rename"} => before'[w].lines = lines
      <4>1. CASE Recheck(w)
        <5>1. before'[w] = before[w] /\ (pc'[w] # "idle" => before[w] = Content)
          BY <4>1 DEF Recheck, SameContent, Leaves, Goes, TypeOK
        <5>2. pc'[w] # "idle" => before[w].lines = lines BY <5>1, Records DEF Content
        <5> QED BY <5>1, <5>2
      <4>2. CASE Restat(w) BY <4>2 DEF Restat, Leaves, Goes, TypeOK, Checked
      <4>3. CASE Prepare(w) \/ Lock(w) \/ Backup(w) \/ Stage(w) \/ Replace(w) \/ Crash(w)
        <5>1. pc'[w] \notin {"restat", "rename"}
          BY <4>3 DEF Prepare, Lock, Backup, Stage, Replace, Crash, Leaves, Goes, TypeOK
        <5> QED BY <5>1
      <4> QED BY <2>3, <4>1, <4>2, <4>3 DEF Step
    <3>4. pc'[w] = "rename" => stat'[w].mode = mode
      <4>1. CASE Restat(w)
        <5>1. stat'[w] = stat[w] /\ (pc'[w] # "idle" => stat[w] = Meta)
          BY <4>1 DEF Restat, SameMeta, Leaves, Goes, TypeOK
        <5>2. pc'[w] # "idle" => stat[w].mode = mode BY <5>1, Records DEF Meta
        <5> QED BY <5>1, <5>2
      <4>2. CASE ~Restat(w)
        <5>1. pc'[w] # "rename"
          BY <2>3, <4>2 DEF Step, Prepare, Lock, Backup, Stage, Recheck, Replace, Crash, Leaves, Goes, TypeOK
        <5> QED BY <5>1
      <4> QED BY <4>1, <4>2
    <3> QED BY <3>1, <3>2, <3>3, <3>4 DEF Checked, EditsKept
  <2>4. CASE UNCHANGED vars BY <2>4 DEF vars, Checked, EditsKept
  <2> QED BY <2>1, <2>2, <2>3, <2>4 DEF Next
<1> QED BY <1>1, <1>2, TypeCorrect, PTL DEF Spec

(* The administrator's edits and mode survive every replacement, whatever    *)
(* directories the writers lock and wherever they die (hosts.go:197-210).    *)
THEOREM EditsAlwaysKept == ASSUME ~EditorRaces PROVE Spec => []EditsKept
<1>1. Checked => EditsKept BY DEF Checked
<1> QED BY <1>1, CheckedAlways, PTL

LEMMA IntactKept == TypeOK /\ Checked /\ Intact /\ [Next]_vars => Intact'
<1> SUFFICES ASSUME TypeOK, Checked, Intact, [Next]_vars PROVE Intact' OBVIOUS
<1>1. lines \in Nat /\ \A w \in Writers : before[w].lines \in Nat BY DEF TypeOK, Contents
<1>2. CASE Edit BY <1>1, <1>2 DEF Edit, Intact
<1>3. CASE Chmod \/ UNCHANGED vars BY <1>3 DEF Chmod, vars, Intact
<1>4. ASSUME NEW w \in Writers, Step(w) PROVE Intact'
  <2>1. \A v \in Writers : v # w => pc'[v] = pc[v] /\ before'[v] = before[v] BY <1>4, WriterSteps
  <2>2. lines' = lines /\ (block # Malformed => block' # Malformed)
    <3>1. CASE Replace(w)
      <4>1. before[w].lines = lines BY <3>1 DEF Replace, Leaves, Goes, Checked
      <4>2. want[w] # Malformed BY HostsAssumption DEF TypeOK, BlocksFor
      <4> QED BY <3>1, <4>1, <4>2 DEF Replace, file
    <3> QED BY <1>4, <3>1, WriterSteps DEF file
  <2>3. pc'[w] # "idle" =>
            before'[w].lines <= lines' /\ (before'[w].lines = lines' => block' # Malformed)
    <3>1. CASE Prepare(w)
      <4>1. before'[w] = Content /\ Parsable BY <3>1 DEF Prepare, TypeOK
      <4>2. before'[w].lines = lines BY <4>1, Records DEF Content
      <4> QED BY <1>1, <2>2, <4>1, <4>2 DEF Parsable
    <3>2. CASE ~Prepare(w)
      <4>1. pc[w] # "idle" /\ before'[w] = before[w]
        BY <1>4, <3>2 DEF Step, Lock, Backup, Stage, Recheck, Restat, Replace, Crash, Leaves, Goes
      <4> QED BY <2>2, <4>1 DEF Intact
    <3> QED BY <3>1, <3>2
  <2> QED BY <1>1, <2>1, <2>2, <2>3 DEF Intact
<1> QED BY <1>2, <1>3, <1>4 DEF Next

(* No writer replaces markers the administrator has damaged, whatever        *)
(* directories the writers lock: a plan made before the damage fails the     *)
(* second comparison, and none is made after it (hosts.go:31-51, 197-203).   *)
THEOREM MalformedAlwaysKept == ASSUME ~EditorRaces PROVE Spec => MalformedKept
<1>1. Init => Intact BY DEF Init, Intact
<1>2. Spec => [](TypeOK /\ Checked /\ Intact)
  BY <1>1, TypeCorrect, CheckedAlways, IntactKept, PTL DEF Spec
<1>3. TypeOK /\ Checked /\ Intact /\ [Next]_vars =>
         [block = Malformed /\ edits' = edits => block' = Malformed]_vars
  <2> SUFFICES ASSUME TypeOK, Checked, Intact, Next, block = Malformed, edits' = edits PROVE block' = Malformed
    OBVIOUS
  <2>1. ~Edit BY DEF Edit, TypeOK
  <2>2. CASE Chmod BY <2>2 DEF Chmod
  <2>3. ASSUME NEW w \in Writers, Step(w) PROVE block' = Malformed
    <3>1. ~Replace(w)
      <4> SUFFICES ASSUME Replace(w) PROVE FALSE OBVIOUS
      <4>1. pc[w] = "rename" BY DEF Replace, Leaves, Goes
      <4> QED BY <4>1 DEF Checked, Intact
    <3> QED BY <2>3, <3>1, WriterSteps DEF file
  <2> QED BY <2>1, <2>2, <2>3 DEF Next
<1> QED BY <1>2, <1>3, PTL DEF Spec, MalformedKept

-----------------------------------------------------------------------------
LEMMA LocksKept == TypeOK /\ Holding /\ [Next]_vars => Holding'
<1> SUFFICES ASSUME TypeOK, Holding, [Next]_vars PROVE Holding' OBVIOUS
<1>1. CASE Edit \/ Chmod \/ UNCHANGED vars BY <1>1 DEF Edit, Chmod, vars, Holding, DirOf
<1>2. ASSUME NEW w \in Writers, Step(w) PROVE Holding'
  <2>1. \A v \in Writers : DirOf(v) \in Dirs BY HostsAssumption DEF DirOf
  <2>2. /\ \A v \in Writers : v # w => pc'[v] = pc[v] /\ DirOf(v)' = DirOf(v)
        /\ pc[w] # "idle" => DirOf(w)' = DirOf(w)
    BY <1>2, WriterSteps DEF DirOf
  <2> USE <2>1, <2>2 DEF TypeOK, Holding, Goes, Locked
  <2>3. CASE Prepare(w) BY <2>3 DEF Prepare
  <2>4. CASE Lock(w) BY <2>4, HostsAssumption DEF Lock, Lockable
  <2>5. CASE UNCHANGED locks /\ pc[w] \in Locked BY <2>5
  <2>6. ASSUME NEW from \in Locked, Leaves(w, from) PROVE Holding' BY <2>6 DEF Leaves
  <2>7. CASE Crash(w) BY <2>7 DEF Crash
  <2> QED BY <1>2, <2>3, <2>4, <2>5, <2>6, <2>7 DEF Step, Backup, Stage, Recheck, Restat, Replace
<1> QED BY <1>1, <1>2 DEF Next

LEMMA BackupsKept == TypeOK /\ SavedFirst /\ [Next]_vars => SavedFirst'
<1> SUFFICES ASSUME TypeOK, SavedFirst, [Next]_vars PROVE SavedFirst' OBVIOUS
<1>1. CASE Edit \/ Chmod \/ UNCHANGED vars BY <1>1 DEF Edit, Chmod, vars, SavedFirst
<1>2. ASSUME NEW w \in Writers, Step(w) PROVE SavedFirst'
  <2>1. \A v \in Writers : v # w => pc'[v] = pc[v] /\ before'[v] = before[v] BY <1>2, WriterSteps
  <2>2. backups \subseteq backups'
    BY <1>2 DEF Step, Prepare, Lock, Backup, Saved, Stage, Recheck, Restat, Replace, Crash
  <2>3. pc'[w] \in {"stat", "recheck", "restat", "rename"} => before'[w] \in backups'
    <3> USE DEF TypeOK, SavedFirst, Goes, Leaves
    <3>1. CASE Backup(w) BY <3>1 DEF Backup, Saved
    <3>2. CASE Stage(w) \/ Recheck(w) \/ Restat(w) BY <2>2, <3>2 DEF Stage, Recheck, Restat
    <3>3. CASE Prepare(w) \/ Lock(w) \/ Replace(w) \/ Crash(w) BY <3>3 DEF Prepare, Lock, Replace, Crash
    <3> QED BY <1>2, <3>1, <3>2, <3>3 DEF Step
  <2> QED BY <2>1, <2>2, <2>3 DEF SavedFirst
<1> QED BY <1>1, <1>2 DEF Next

(* Under one lock no writer replaces the file after another one's check.     *)
LEMMA CurrentKept ==
    ASSUME ~EditorRaces, OneDirectory
    PROVE  TypeOK /\ Holding /\ Current /\ [Next]_vars => Current'
<1> SUFFICES ASSUME TypeOK, Holding, Current, [Next]_vars PROVE Current' OBVIOUS
<1>1. CASE Edit
  <2>1. \A w \in Writers : pc[w] \notin {"restat", "rename"} BY <1>1 DEF Edit, Uncommitted
  <2> QED BY <1>1, <2>1 DEF Edit, Current
<1>2. CASE Chmod \/ UNCHANGED vars BY <1>2 DEF Chmod, vars, Current, Content
<1>3. ASSUME NEW w \in Writers, Step(w) PROVE Current'
  <2>1. \A v \in Writers : v # w => pc'[v] = pc[v] /\ before'[v] = before[v] BY <1>3, WriterSteps
  <2>2. CASE Replace(w)
    <3>1. pc[w] = "rename" /\ pc' = [pc EXCEPT ![w] = "idle"] BY <2>2 DEF Replace, Leaves, Goes
    <3>2. \A v \in Writers : v # w => pc[v] \notin Locked BY <3>1 DEF OneDirectory, DirOf, Holding, Locked
    <3>3. \A v \in Writers : pc'[v] \notin {"restat", "rename"} BY <2>1, <3>1, <3>2 DEF TypeOK, Locked
    <3> QED BY <3>3 DEF Current
  <2>3. CASE ~Replace(w)
    <3>1. Content' = Content BY <1>3, <2>3, WriterSteps DEF Content, file
    <3>2. pc'[w] \in {"restat", "rename"} => before'[w] = Content
      <4> USE DEF Goes, Leaves, TypeOK
      <4>1. CASE Recheck(w) BY <4>1 DEF Recheck, SameContent
      <4>2. CASE Restat(w) BY <4>2 DEF Restat, Current
      <4>3. CASE Prepare(w) \/ Lock(w) \/ Backup(w) \/ Stage(w) \/ Crash(w)
        BY <4>3 DEF Prepare, Lock, Backup, Stage, Crash
      <4> QED BY <1>3, <2>3, <4>1, <4>2, <4>3 DEF Step
    <3> QED BY <2>1, <3>1, <3>2 DEF Current
  <2> QED BY <2>2, <2>3
<1> QED BY <1>1, <1>2, <1>3 DEF Next

(* Writers that lock the same state directory never overwrite what they have *)
(* not read, and what they replace is in a backup (hosts.go:153-168,         *)
(* 197-211). With two directories this fails, and nothing here claims it.    *)
THEOREM AlwaysReplacesWhatItRead ==
    ASSUME ~EditorRaces, OneDirectory PROVE Spec => ReplacesWhatItRead
<1>1. Init => Holding /\ SavedFirst /\ Current BY DEF Init, Holding, SavedFirst, Current, Locked
<1>2. Spec => [](TypeOK /\ Holding /\ SavedFirst /\ Current)
  BY <1>1, TypeCorrect, LocksKept, BackupsKept, CurrentKept, PTL DEF Spec
<1>3. TypeOK /\ Holding /\ SavedFirst /\ Current /\ [Next]_vars =>
         [\A w \in Writers : Replaced(w) => before[w] = Content /\ Content \in backups]_vars
  BY DEF Replaced, SavedFirst, Current
<1> QED BY <1>2, <1>3, PTL DEF Spec, ReplacesWhatItRead
=============================================================================
