-------------------------------- MODULE Trust --------------------------------
(***************************************************************************)
(* The system trust manager (internal/trust): "ca trust" and "ca untrust"  *)
(* of one CA certificate by concurrent processes that may die between any  *)
(* two steps. On Linux the store is an anchor file, and a bundle that the  *)
(* distribution's tool rebuilds from the anchors; on macOS an item of the  *)
(* system keychain, and admin trust settings for it, both changed by       *)
(* security(1). Files of the manager's directory survive a crash; "torn"   *)
(* is a file created but not yet written. Every file and tool operation    *)
(* may fail.                                                               *)
(***************************************************************************)
EXTENDS Integers

CONSTANTS Procs, Free, MaxCrashes
ASSUME FreeAssumption == Free \notin Procs
ASSUME CrashesAssumption == MaxCrashes \in Nat

VARIABLES
    receipt,         \* <sha256>.json: "absent", "torn", "pending", "installed"
    recovery,        \* <sha256>.crt: "absent", "torn", "whole"
    store,           \* "linux" or "macos"
    anchor,          \* the anchor file, or the item of the system keychain
    other,           \* the same CA is also installed by other means
    bundle,          \* the CA is in the bundle programs read, or has admin trust settings
    lock,            \* holder of trust.lock
    pc, act, owned,  \* of each process: step, action, "owned != nil"
    crashes,
    mine             \* history: the anchor was written by this program

disk == <<receipt, recovery, anchor, bundle, mine>>
vars == <<disk, other, lock, pc, act, owned, crashes, store>>

Goes(p, from, to) == pc[p] = from /\ pc' = [pc EXCEPT ![p] = to]
(* Execute returns: its deferred unlock, and the locals are gone.            *)
Leaves(p, from) ==
    /\ Goes(p, from, "idle")
    /\ lock' = Free
    /\ owned' = [owned EXCEPT ![p] = FALSE]
Stays == UNCHANGED <<other, lock, act, owned, crashes, store>>

(* What Inspect reports. On macOS other means are other trust domains.       *)
Trusted == bundle \/ (store = "macos" /\ other)

-----------------------------------------------------------------------------
(* Execute up to the point where it starts changing things *)

LockableAlways == TRUE              \* Mutant: runs are not serialised
Lockable == lock = Free

Begin(p) ==
    /\ Goes(p, "idle", "read")
    /\ Lockable                     \* otherwise LOCK_NB fails, nothing is done
    /\ lock' = p
    /\ \E a \in {"trust", "untrust"} : act' = [act EXCEPT ![p] = a]
    /\ UNCHANGED <<disk, other, owned, crashes, store>>

(* readReceipt, and the recovery certificate of an owned installation.       *)
ReadReceipt(p) ==
    /\ \/ /\ receipt \in {"pending", "installed"} /\ recovery = "whole"
          /\ Goes(p, "read", "inspect")
          /\ owned' = [owned EXCEPT ![p] = TRUE]
          /\ UNCHANGED lock
       \/ /\ receipt = "absent"
          /\ Goes(p, "read", "inspect")
          /\ UNCHANGED <<owned, lock>>
       \/ Leaves(p, "read")         \* torn or unreadable
    /\ UNCHANGED <<disk, other, act, crashes, store>>

RefusesNothing(p) == FALSE          \* Mutant: any installed anchor is used
Refuses(p) == anchor = "whole" /\ ~owned[p]

(* The first Inspect and what follows from it: nothing to do, a refusal, or  *)
(* the first step of a change.                                               *)
Decide(p) ==
    /\ \/ Leaves(p, "inspect")      \* Inspect fails, trusted already, refused
       \/ /\ act[p] = "trust" /\ anchor # "torn" /\ ~Trusted /\ ~Refuses(p)
          /\ Goes(p, "inspect", IF owned[p] THEN "add" ELSE "snapshot")
          /\ UNCHANGED <<owned, lock>>
       \/ /\ act[p] = "untrust" /\ anchor # "torn" /\ owned[p]
          /\ Goes(p, "inspect", "remove")
          /\ UNCHANGED <<owned, lock>>
    /\ UNCHANGED <<disk, other, act, crashes, store>>

-----------------------------------------------------------------------------
(* trust: recovery certificate, pending receipt, Add, verification, receipt  *)

(* fsutil.Exclusive creates (failing if the file is there), then writes,     *)
(* syncs and closes; on an error it tries to remove the file again, which by *)
(* then may be whole.                                                        *)
SnapshotCreate(p) ==
    /\ \/ /\ Goes(p, "snapshot", "snapshot2")
          /\ recovery = "absent" /\ recovery' = "torn"
          /\ UNCHANGED <<owned, lock>>
       \/ Leaves(p, "snapshot") /\ UNCHANGED recovery
    /\ UNCHANGED <<receipt, anchor, bundle, mine, other, act, crashes, store>>

SnapshotWrite(p) ==
    /\ \/ Goes(p, "snapshot2", "receipt") /\ recovery' = "whole" /\ UNCHANGED <<owned, lock>>
       \/ Leaves(p, "snapshot2") /\ recovery' \in {recovery, "whole", "absent"}
    /\ UNCHANGED <<receipt, anchor, bundle, mine, other, act, crashes, store>>

ReceiptCreate(p) ==
    /\ \/ /\ Goes(p, "receipt", "receipt2")
          /\ receipt = "absent" /\ receipt' = "torn"
          /\ UNCHANGED <<recovery, owned, lock>>
       \/ Leaves(p, "receipt") /\ recovery' \in {recovery, "absent"} /\ UNCHANGED receipt
    /\ UNCHANGED <<anchor, bundle, mine, other, act, crashes, store>>

ReceiptWrite(p) ==
    /\ \/ /\ Goes(p, "receipt2", "add") /\ receipt' = "pending"
          /\ owned' = [owned EXCEPT ![p] = TRUE]
          /\ UNCHANGED <<recovery, lock>>
       \/ /\ Leaves(p, "receipt2")
          /\ receipt' \in {receipt, "pending", "absent"} /\ recovery' \in {recovery, "absent"}
    /\ UNCHANGED <<anchor, bundle, mine, other, act, crashes, store>>

(* linuxBackend.Add: the anchor unless it is there, then the distribution's  *)
(* tool.                                                                     *)
AddAnchor(p) ==
    /\ store = "linux"
    /\ \/ Goes(p, "add", "add2") /\ anchor = "absent" /\ anchor' = "torn" /\ mine' = TRUE
       \/ Goes(p, "add", "refresh") /\ anchor = "whole" /\ UNCHANGED <<anchor, mine>>
       \/ Goes(p, "add", "remove") /\ UNCHANGED <<anchor, mine>>
    /\ UNCHANGED <<receipt, recovery, bundle>> /\ Stays

WriteAnchor(p) ==
    /\ \/ Goes(p, "add2", "refresh") /\ anchor' = "whole" /\ UNCHANGED mine
       \/ Goes(p, "add2", "remove") /\ anchor' = "absent" /\ mine' = FALSE
       \/ Goes(p, "add2", "remove") /\ anchor' \in {anchor, "whole"} /\ UNCHANGED mine
    /\ UNCHANGED <<receipt, recovery, bundle>> /\ Stays

(* macBackend.Add: one call, which may have done a part of its work when it  *)
(* fails.                                                                    *)
AddTrusted(p) ==
    /\ store = "macos"
    /\ \/ Goes(p, "add", "verify") /\ anchor' = "whole" /\ bundle' = TRUE /\ mine' = TRUE
       \/ Goes(p, "add", "remove") /\ anchor' = "whole" /\ bundle' \in {bundle, TRUE} /\ mine' = TRUE
       \/ Goes(p, "add", "remove") /\ UNCHANGED <<anchor, bundle, mine>>
    /\ UNCHANGED <<receipt, recovery>> /\ Stays

(* The distribution's tool may have rebuilt the bundle before it fails.      *)
Rebuilt == anchor = "whole" \/ other

Refresh(p) ==
    /\ \/ Goes(p, "refresh", "verify") /\ bundle' = Rebuilt
       \/ Goes(p, "refresh", "remove") /\ bundle' \in {bundle, Rebuilt}
    /\ UNCHANGED <<receipt, recovery, anchor, mine>> /\ Stays

Verify(p) ==
    /\ \/ Goes(p, "verify", "mark") /\ Trusted
       \/ Goes(p, "verify", "remove")
    /\ UNCHANGED disk /\ Stays

(* fsutil.Atomic replaces the receipt, or leaves the pending one.            *)
Marked == "installed"

Mark(p) ==
    /\ Leaves(p, "mark")
    /\ receipt' \in {receipt, Marked}
    /\ UNCHANGED <<recovery, anchor, bundle, mine, other, act, crashes, store>>

-----------------------------------------------------------------------------
(* backend.Remove, for untrust and for the rollback of a failed trust        *)

RemoveAnchor(p) ==
    /\ store = "linux"
    /\ \/ /\ Goes(p, "remove", "rebuild")
          /\ anchor # "torn" /\ anchor' = "absent" /\ mine' = FALSE
          /\ UNCHANGED <<owned, lock>>
       \/ Leaves(p, "remove") /\ UNCHANGED <<anchor, mine>>
    /\ UNCHANGED <<receipt, recovery, bundle, other, act, crashes, store>>

(* macBackend.Remove: the trust settings, then the item. Either may be       *)
(* missing already.                                                          *)
RemoveTrusted(p) ==
    /\ store = "macos"
    /\ \/ Goes(p, "remove", "delete") /\ bundle' = FALSE /\ UNCHANGED <<owned, lock>>
       \/ Leaves(p, "remove") /\ bundle' \in {bundle, FALSE}
    /\ UNCHANGED <<receipt, recovery, anchor, mine, other, act, crashes, store>>

DeleteCertificate(p) ==
    /\ \/ /\ Goes(p, "delete", "forget")
          /\ anchor' = "absent" /\ mine' = FALSE
          /\ UNCHANGED <<owned, lock>>
       \/ Leaves(p, "delete") /\ UNCHANGED <<anchor, mine>>
    /\ UNCHANGED <<receipt, recovery, bundle, other, act, crashes, store>>

(* A failed rebuild keeps the receipt. Only untrust inspects the result.     *)
AfterFailedRebuildForgets(p) == "forget"   \* Mutant: the tool's error is ignored
AfterFailedRebuild(p) == "idle"

Rebuild(p) ==
    /\ \/ Goes(p, "rebuild", "forget") /\ bundle' = Rebuilt
       \/ Goes(p, "rebuild", AfterFailedRebuild(p)) /\ bundle' \in {bundle, Rebuilt}
    /\ IF pc'[p] = "idle"
       THEN lock' = Free /\ owned' = [owned EXCEPT ![p] = FALSE]
       ELSE UNCHANGED <<lock, owned>>
    /\ UNCHANGED <<receipt, recovery, anchor, mine, other, act, crashes, store>>

(* untrust's Inspect may fail or find the anchor; then removeReceipt.        *)
Forget(p) ==
    /\ \/ /\ Goes(p, "forget", "forget2")
          /\ act[p] = "trust" \/ anchor = "absent"
          /\ receipt' = "absent"
          /\ UNCHANGED <<owned, lock>>
       \/ Leaves(p, "forget") /\ UNCHANGED receipt
    /\ UNCHANGED <<recovery, anchor, bundle, mine, other, act, crashes, store>>

ForgetRecovery(p) ==
    /\ Leaves(p, "forget2")
    /\ recovery' \in {recovery, "absent"}
    /\ UNCHANGED <<receipt, anchor, bundle, mine, other, act, crashes, store>>

-----------------------------------------------------------------------------
(* The process dies; the kernel drops its lock.                              *)
Crash(p) ==
    /\ pc[p] # "idle"
    /\ crashes < MaxCrashes
    /\ crashes' = crashes + 1
    /\ Leaves(p, pc[p])
    /\ UNCHANGED <<disk, other, act, store>>

(* The administrator installs or removes the same CA by other means.         *)
Elsewhere ==
    /\ other' = ~other
    /\ \/ store = "linux" /\ bundle' = (anchor = "whole" \/ other')
       \/ store = "macos" /\ UNCHANGED bundle
    /\ UNCHANGED <<receipt, recovery, anchor, mine, lock, pc, act, owned, crashes, store>>

Init ==
    /\ receipt = "absent" /\ recovery = "absent"
    /\ anchor \in {"absent", "whole"}      \* an anchor found here is not ours
    /\ other \in BOOLEAN /\ bundle \in BOOLEAN
    /\ \/ store = "linux" /\ (other => bundle) /\ (bundle => other \/ anchor = "whole")
       \/ store = "macos" /\ (bundle => anchor = "whole")
    /\ mine = FALSE
    /\ lock = Free
    /\ pc = [p \in Procs |-> "idle"]
    /\ act = [p \in Procs |-> "trust"]
    /\ owned = [p \in Procs |-> FALSE]
    /\ crashes = 0

Step(p) ==
    \/ Begin(p) \/ ReadReceipt(p) \/ Decide(p)
    \/ SnapshotCreate(p) \/ SnapshotWrite(p) \/ ReceiptCreate(p) \/ ReceiptWrite(p)
    \/ AddAnchor(p) \/ WriteAnchor(p) \/ AddTrusted(p) \/ Refresh(p) \/ Verify(p) \/ Mark(p)
    \/ RemoveAnchor(p) \/ RemoveTrusted(p) \/ DeleteCertificate(p) \/ Rebuild(p)
    \/ Forget(p) \/ ForgetRecovery(p)

Next == Elsewhere \/ \E p \in Procs : Step(p) \/ Crash(p)

Spec == Init /\ [][Next]_vars

-----------------------------------------------------------------------------
(* Properties *)

Locals == {"idle", "read", "inspect", "snapshot", "snapshot2", "receipt", "receipt2",
           "add", "add2", "refresh", "verify", "mark", "remove", "delete", "rebuild",
           "forget", "forget2"}

(* Types: in particular a receipt is absent, half written, pending or        *)
(* installed, the only phases readReceipt knows (trust.go:115-134).          *)
TypeOK ==
    /\ receipt \in {"absent", "torn", "pending", "installed"}
    /\ recovery \in {"absent", "torn", "whole"}
    /\ store \in {"linux", "macos"}
    /\ anchor \in {"absent", "torn", "whole"}
    /\ other \in BOOLEAN /\ bundle \in BOOLEAN /\ mine \in BOOLEAN
    /\ lock \in Procs \cup {Free}
    /\ pc \in [Procs -> Locals]
    /\ act \in [Procs -> {"trust", "untrust"}]
    /\ owned \in [Procs -> BOOLEAN]
    /\ crashes \in 0..MaxCrashes

HasReceipt == receipt \in {"pending", "installed"} /\ recovery = "whole"

(* Whatever this program put into the store can be found again: an anchor it *)
(* wrote, even half of one, always has its receipt and recovery certificate, *)
(* through crashes, failures and concurrent runs (trust.go:212-222, 270-280).*)
AnchorHasReceipt == mine => HasReceipt

(* Trust outlives the receipt only when something else grants it: while the  *)
(* bundle holds the CA on account of an anchor of this program, deleted or   *)
(* not, or admin trust settings are there, "ca untrust" still knows about it *)
(* (trust.go:236-238, platform.go:118-128, 239).                             *)
TrustHasReceipt ==
    bundle /\ ~(store = "linux" /\ other) => HasReceipt \/ (anchor = "whole" /\ ~mine)

(* An anchor that was there before is neither removed nor replaced nor taken *)
(* over (trust.go:205, 259).                                                 *)
UnmanagedKept == [][anchor = "whole" /\ ~mine => anchor' = "whole" /\ ~mine']_vars
=============================================================================
