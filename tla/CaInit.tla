-------------------------------- MODULE CaInit --------------------------------
(***************************************************************************)
(* ca.Init (internal/ca/ca.go) with fsutil.Exclusive, and what ca.Load     *)
(* needs of its two files. Init takes no lock: two of them may run at      *)
(* once, and each step may fail or be the last one, the removals after a   *)
(* failure included: their errors are dropped.                             *)
(***************************************************************************)
EXTENDS Syscalls

CONSTANT MaxPairs             \* bound: key pairs that are generated

VARIABLES
    file,         \* ca.key and ca.crt: [pair, whole], pair 0 if it does not exist
    on,           \* the file that Exclusive writes for a process
    pair,         \* the pair a process generated last
    pairs,        \* pairs generated so far
    left          \* history: files whose removal after a failure has failed

cavars == <<file, on, pair, pairs, left>>

Names == {"key", "crt"}
NoFile == [pair |-> 0, whole |-> FALSE]
Exists(f) == file[f] # NoFile

-----------------------------------------------------------------------------
(* The pair it will write is named at the start; files that exist already    *)
(* are refused, in this order.                                               *)
InitBegins(p) ==
    /\ Goto(p, "idle", "lstatCrt") /\ NoFault
    /\ pairs < MaxPairs
    /\ pairs' = pairs + 1
    /\ pair' = [pair EXCEPT ![p] = pairs + 1]
    /\ on' = [on EXCEPT ![p] = "key"]
    /\ UNCHANGED <<file, left>>

InitLstat(p) ==
    /\ \/ Goto(p, "lstatCrt", IF Exists("crt") THEN "idle" ELSE "lstatKey")
       \/ Goto(p, "lstatKey", IF Exists("key") THEN "idle" ELSE "open")
    /\ NoFault /\ UNCHANGED cavars

(* Exclusive: O_EXCL, Write, Sync and Close, and what has been created is    *)
(* removed if one of them fails.                                             *)
OpensAny(f) == TRUE                        \* Mutant: O_TRUNC instead of O_EXCL
Opens(f) == ~Exists(f)

(* Exclusive returns to Init: without a certificate the key goes too.        *)
Fails(p, from) == Goto(p, from, IF on[p] = "crt" THEN "removeKey" ELSE "idle") /\ UNCHANGED on
Succeeds(p, from) == Goto(p, from, IF on[p] = "crt" THEN "idle" ELSE "open") /\ on' = [on EXCEPT ![p] = "crt"]
Goes(p, from, to) == Goto(p, from, to) /\ UNCHANGED on

ExclusiveOpen(p) ==
    /\ \/ /\ Opens(on[p]) /\ NoFault
          /\ Goes(p, "open", "write")
          /\ file' = [file EXCEPT ![on[p]] = [pair |-> pair[p], whole |-> FALSE]]
       \/ /\ (~Opens(on[p]) /\ NoFault) \/ Fault
          /\ Fails(p, "open")
          /\ UNCHANGED file
    /\ UNCHANGED <<pair, pairs, left>>

ExclusiveWrite(p) ==
    /\ \/ /\ Goes(p, "write", "sync") /\ NoFault
          /\ file' = [file EXCEPT ![on[p]] = [pair |-> pair[p], whole |-> TRUE]]
       \/ /\ Goes(p, "write", "undo") /\ Fault
          /\ UNCHANGED file
    /\ UNCHANGED <<pair, pairs, left>>

ExclusiveSync(p) ==
    /\ \/ Succeeds(p, "sync") /\ NoFault
       \/ Goes(p, "sync", "undo") /\ Fault
    /\ UNCHANGED <<file, pair, pairs, left>>

(* os.Remove, whose error nobody looks at.                                   *)
Removes(f) ==
    \/ NoFault /\ file' = [file EXCEPT ![f] = NoFile] /\ UNCHANGED left
    \/ Fault /\ left' = left \cup {f} /\ UNCHANGED file

ExclusiveUndo(p) == Fails(p, "undo") /\ Removes(on[p]) /\ UNCHANGED <<pair, pairs>>

RemoveKey(p) == Goes(p, "removeKey", "idle") /\ Removes("key") /\ UNCHANGED <<pair, pairs>>

InitStep(p) ==
    \/ InitLstat(p) \/ RemoveKey(p)
    \/ ExclusiveOpen(p) \/ ExclusiveWrite(p) \/ ExclusiveSync(p) \/ ExclusiveUndo(p)

(* ca.Load takes two whole files that belong together.                       *)
Loadable == file["key"].whole /\ file["crt"].whole /\ file["key"].pair = file["crt"].pair

(* No CA yet, or one made earlier.                                           *)
CaFirst ==
    /\ left = {}
    /\ pair = [p \in Proc |-> 0] /\ on = [p \in Proc |-> "key"]
    /\ \/ pairs = 0 /\ file = [f \in Names |-> NoFile]
       \/ pairs = 1 /\ file = [f \in Names |-> [pair |-> 1, whole |-> TRUE]]
=============================================================================
