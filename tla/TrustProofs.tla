----------------------------- MODULE TrustProofs -----------------------------
(***************************************************************************)
(* Proofs about module Trust, for any number of processes and crashes.     *)
(* None of the three properties is inductive: that a receipt is deleted    *)
(* only once the anchor is gone, or an anchor written only once there is a *)
(* receipt, is known at each step only because the steps before it ran     *)
(* under the same lock. IInv says what each step of Execute may rely on.   *)
(***************************************************************************)
EXTENDS Trust, TLAPS

(* Only the holder of trust.lock is inside Execute.                          *)
Exclusive == \A p \in Procs : pc[p] # "idle" => lock = p

(* An anchor is there only if this program wrote it.                         *)
Managed == anchor = "whole" => mine

Preparing == {"snapshot", "snapshot2", "receipt", "receipt2"}
Changing == {"add", "add2", "refresh", "verify", "mark", "remove"}
Removing == {"rebuild", "forget", "forget2"}

(* What holds when process p is about to take the step pc[p] names.          *)
Reached(p) ==
    /\ pc[p] \in {"idle", "read"} => ~owned[p]
    /\ pc[p] = "inspect" => IF owned[p] THEN HasReceipt ELSE receipt = "absent"
    /\ pc[p] \in Preparing => Managed /\ ~HasReceipt
    /\ pc[p] \in {"snapshot", "snapshot2", "receipt"} => receipt = "absent"
    /\ pc[p] = "snapshot2" => recovery = "torn"
    /\ pc[p] = "receipt" => recovery = "whole"
    /\ pc[p] = "receipt2" => receipt = "torn" /\ recovery = "whole"
    /\ pc[p] \in Changing => HasReceipt
    /\ pc[p] = "add2" => anchor = "torn" /\ mine
    /\ pc[p] \in Removing => anchor = "absent" /\ ~mine
    /\ pc[p] \in {"delete", "rebuild", "forget"} => HasReceipt
    /\ pc[p] = "delete" => ~bundle
    /\ pc[p] \in {"forget", "forget2"} => (bundle => store = "linux" /\ other)
    /\ pc[p] \in {"add2", "refresh", "rebuild"} => store = "linux"
    /\ pc[p] = "delete" => store = "macos"

IInv ==
    /\ TypeOK
    /\ Exclusive
    /\ HasReceipt => Managed
    /\ AnchorHasReceipt
    /\ TrustHasReceipt
    /\ \A p \in Procs : Reached(p)

(* The initial states, an unmanaged anchor among them, satisfy IInv.         *)
LEMMA InitIInv == Init => IInv
<1> SUFFICES ASSUME Init PROVE IInv
  OBVIOUS
<1> USE DEF Init
<1>1. TypeOK
  <2>1. bundle \in BOOLEAN OBVIOUS
  <2>2. other \in BOOLEAN /\ mine \in BOOLEAN OBVIOUS
  <2>3. crashes \in 0..MaxCrashes BY CrashesAssumption
  <2>4. /\ pc \in [Procs -> Locals] /\ owned \in [Procs -> BOOLEAN]
        /\ act \in [Procs -> {"trust", "untrust"}]
    BY DEF Locals
  <2>5. /\ receipt \in {"absent", "torn", "pending", "installed"}
        /\ recovery \in {"absent", "torn", "whole"}
        /\ anchor \in {"absent", "torn", "whole"}
        /\ store \in {"linux", "macos"}
        /\ lock \in Procs \cup {Free}
    OBVIOUS
  <2> HIDE DEF Init
  <2> QED BY <2>1, <2>2, <2>3, <2>4, <2>5 DEF TypeOK
<1>2. Exclusive /\ ~HasReceipt /\ AnchorHasReceipt
  BY DEF Exclusive, HasReceipt, AnchorHasReceipt
<1>3. TrustHasReceipt BY DEF TrustHasReceipt
<1>4. \A p \in Procs : Reached(p) BY DEF Reached, Preparing, Changing, Removing
<1> QED BY <1>1, <1>2, <1>3, <1>4 DEF IInv

(* Every step of a process keeps the types.                                  *)
LEMMA StepTypes == ASSUME TypeOK, NEW p \in Procs, Step(p) PROVE TypeOK'
<1> USE FreeAssumption DEF TypeOK, Locals, Goes, Leaves, Stays, disk
<1>1. CASE Begin(p) BY <1>1 DEF Begin, Lockable
<1>2. CASE ReadReceipt(p) BY <1>2 DEF ReadReceipt
<1>3. CASE Decide(p)
  <2>1. bundle' \in BOOLEAN /\ mine' \in BOOLEAN /\ other' \in BOOLEAN
    BY <1>3 DEF Decide, Refuses
  <2>2. /\ pc' \in [Procs -> Locals] /\ owned' \in [Procs -> BOOLEAN]
        /\ lock' \in Procs \cup {Free}
    BY <1>3 DEF Decide, Refuses
  <2> QED BY <2>1, <2>2, <1>3 DEF Decide, Refuses
<1>4. CASE SnapshotCreate(p) BY <1>4 DEF SnapshotCreate
<1>5. CASE SnapshotWrite(p) BY <1>5 DEF SnapshotWrite
<1>6. CASE ReceiptCreate(p) BY <1>6 DEF ReceiptCreate
<1>7. CASE ReceiptWrite(p) BY <1>7 DEF ReceiptWrite
<1>8. CASE AddAnchor(p) BY <1>8 DEF AddAnchor
<1>9. CASE WriteAnchor(p)
  <2>1. bundle' \in BOOLEAN /\ mine' \in BOOLEAN /\ other' \in BOOLEAN
    BY <1>9 DEF WriteAnchor
  <2>2. /\ pc' \in [Procs -> Locals] /\ owned' \in [Procs -> BOOLEAN]
        /\ lock' \in Procs \cup {Free}
    BY <1>9 DEF WriteAnchor
  <2> QED BY <2>1, <2>2, <1>9 DEF WriteAnchor
<1>10. CASE AddTrusted(p) BY <1>10 DEF AddTrusted
<1>11. CASE Refresh(p)
  <2>1. bundle' \in BOOLEAN /\ mine' \in BOOLEAN /\ other' \in BOOLEAN
    BY <1>11 DEF Refresh, Rebuilt
  <2>2. /\ pc' \in [Procs -> Locals] /\ owned' \in [Procs -> BOOLEAN]
        /\ lock' \in Procs \cup {Free}
    BY <1>11 DEF Refresh, Rebuilt
  <2> QED BY <2>1, <2>2, <1>11 DEF Refresh, Rebuilt
<1>12. CASE Verify(p) BY <1>12 DEF Verify, Trusted
<1>13. CASE Mark(p) BY <1>13 DEF Mark, Marked
<1>14. CASE RemoveAnchor(p) BY <1>14 DEF RemoveAnchor
<1>15. CASE RemoveTrusted(p) BY <1>15 DEF RemoveTrusted
<1>16. CASE DeleteCertificate(p) BY <1>16 DEF DeleteCertificate
<1>17. CASE Rebuild(p) BY <1>17 DEF Rebuild, Rebuilt, AfterFailedRebuild
<1>18. CASE Forget(p) BY <1>18 DEF Forget
<1>19. CASE ForgetRecovery(p) BY <1>19 DEF ForgetRecovery
<1> QED BY <1>1, <1>2, <1>3, <1>4, <1>5, <1>6, <1>7, <1>8, <1>9, <1>10, <1>11, <1>12,
           <1>13, <1>14, <1>15, <1>16, <1>17, <1>18, <1>19 DEF Step

(* A step of p leaves every other process where it was, and none of those is *)
(* inside Execute.                                                           *)
LEMMA StepLocal ==
    ASSUME IInv, NEW p \in Procs, Step(p)
    PROVE  /\ pc[p] # "idle" => lock = p
           /\ \A q \in Procs \ {p} :
                pc[q] = "idle" /\ pc'[q] = "idle" /\ owned'[q] = owned[q]
           /\ pc'[p] # "idle" => lock' = p
<1> USE FreeAssumption DEF IInv, TypeOK, Exclusive, Goes, Leaves, Stays
<1>1. CASE Begin(p) BY <1>1 DEF Begin, Lockable
<1>2. CASE ReadReceipt(p) BY <1>2 DEF ReadReceipt
<1>3. CASE Decide(p) BY <1>3 DEF Decide
<1>4. CASE SnapshotCreate(p) BY <1>4 DEF SnapshotCreate
<1>5. CASE SnapshotWrite(p) BY <1>5 DEF SnapshotWrite
<1>6. CASE ReceiptCreate(p) BY <1>6 DEF ReceiptCreate
<1>7. CASE ReceiptWrite(p) BY <1>7 DEF ReceiptWrite
<1>8. CASE AddAnchor(p) BY <1>8 DEF AddAnchor
<1>9. CASE WriteAnchor(p) BY <1>9 DEF WriteAnchor
<1>10. CASE AddTrusted(p) BY <1>10 DEF AddTrusted
<1>11. CASE Refresh(p) BY <1>11 DEF Refresh
<1>12. CASE Verify(p) BY <1>12 DEF Verify, Trusted
<1>13. CASE Mark(p) BY <1>13 DEF Mark
<1>14. CASE RemoveAnchor(p) BY <1>14 DEF RemoveAnchor
<1>15. CASE RemoveTrusted(p) BY <1>15 DEF RemoveTrusted
<1>16. CASE DeleteCertificate(p) BY <1>16 DEF DeleteCertificate
<1>17. CASE Rebuild(p) BY <1>17 DEF Rebuild, AfterFailedRebuild
<1>18. CASE Forget(p) BY <1>18 DEF Forget
<1>19. CASE ForgetRecovery(p) BY <1>19 DEF ForgetRecovery
<1> QED BY <1>1, <1>2, <1>3, <1>4, <1>5, <1>6, <1>7, <1>8, <1>9, <1>10, <1>11, <1>12,
           <1>13, <1>14, <1>15, <1>16, <1>17, <1>18, <1>19 DEF Step

(* The disk after a step of p, and what p may rely on next.                  *)
Kept(p) ==
    /\ HasReceipt => Managed
    /\ AnchorHasReceipt
    /\ TrustHasReceipt
    /\ Reached(p)

(* Every step of Execute leaves what the next one relies on.                 *)
LEMMA StepKept == ASSUME IInv, NEW p \in Procs, Step(p) PROVE Kept(p)'
<1> USE DEF IInv, TypeOK, Kept, HasReceipt, Managed, AnchorHasReceipt, TrustHasReceipt,
            Reached, Preparing, Changing, Removing, Goes, Leaves, Stays, disk
<1>1. CASE Begin(p) BY <1>1 DEF Begin
<1>2. CASE ReadReceipt(p) BY <1>2 DEF ReadReceipt
<1>3. CASE Decide(p) BY <1>3 DEF Decide, Refuses
<1>4. CASE SnapshotCreate(p) BY <1>4 DEF SnapshotCreate
<1>5. CASE SnapshotWrite(p) BY <1>5 DEF SnapshotWrite
<1>6. CASE ReceiptCreate(p) BY <1>6 DEF ReceiptCreate
<1>7. CASE ReceiptWrite(p) BY <1>7 DEF ReceiptWrite
<1>8. CASE AddAnchor(p) BY <1>8 DEF AddAnchor
<1>9. CASE WriteAnchor(p) BY <1>9 DEF WriteAnchor
<1>10. CASE AddTrusted(p) BY <1>10 DEF AddTrusted
<1>11. CASE Refresh(p) BY <1>11 DEF Refresh, Rebuilt
<1>12. CASE Verify(p) BY <1>12 DEF Verify, Trusted
<1>13. CASE Mark(p) BY <1>13 DEF Mark, Marked
<1>14. CASE RemoveAnchor(p) BY <1>14 DEF RemoveAnchor
<1>15. CASE RemoveTrusted(p) BY <1>15 DEF RemoveTrusted
<1>16. CASE DeleteCertificate(p) BY <1>16 DEF DeleteCertificate
<1>17. CASE Rebuild(p) BY <1>17 DEF Rebuild, Rebuilt, AfterFailedRebuild
<1>18. CASE Forget(p) BY <1>18 DEF Forget
<1>19. CASE ForgetRecovery(p) BY <1>19 DEF ForgetRecovery
<1> QED BY <1>1, <1>2, <1>3, <1>4, <1>5, <1>6, <1>7, <1>8, <1>9, <1>10, <1>11, <1>12,
           <1>13, <1>14, <1>15, <1>16, <1>17, <1>18, <1>19 DEF Step

(* IInv is inductive.                                                        *)
LEMMA NextIInv == IInv /\ [Next]_vars => IInv'
<1> SUFFICES ASSUME IInv, [Next]_vars PROVE IInv'
  OBVIOUS
<1>1. ASSUME NEW p \in Procs, Step(p) PROVE IInv'
  <2>1. TypeOK' BY <1>1, StepTypes DEF IInv
  <2>2. Exclusive' BY <1>1, StepLocal DEF Exclusive
  <2>3. Kept(p)' BY <1>1, StepKept
  <2>4. \A q \in Procs : Reached(q)'
    <3>1. ASSUME NEW q \in Procs \ {p} PROVE Reached(q)'
      <4>1. pc[q] = "idle" /\ pc'[q] = "idle" /\ owned'[q] = owned[q]
        BY <1>1, StepLocal
      <4> QED BY <4>1 DEF IInv, Reached, Preparing, Changing, Removing
    <3> QED BY <3>1, <2>3 DEF Kept
  <2> QED BY <2>1, <2>2, <2>3, <2>4 DEF IInv, Kept
<1>2. ASSUME NEW p \in Procs, Crash(p) PROVE IInv'
  <2> USE <1>2 DEF IInv, Crash, Goes, Leaves, disk
  <2>1. TypeOK' BY CrashesAssumption DEF TypeOK, Locals
  <2>2. Exclusive' BY FreeAssumption DEF TypeOK, Exclusive
  <2>3. (HasReceipt => Managed)' /\ AnchorHasReceipt' /\ TrustHasReceipt'
    BY DEF HasReceipt, Managed, AnchorHasReceipt, TrustHasReceipt
  <2>4. \A q \in Procs : Reached(q)'
    BY DEF TypeOK, Exclusive, Reached, Preparing, Changing, Removing
  <2> QED BY <2>1, <2>2, <2>3, <2>4
<1>3. CASE Elsewhere
  <2> USE <1>3 DEF IInv, Elsewhere
  <2>1. TypeOK' BY DEF TypeOK
  <2>2. Exclusive' BY DEF Exclusive
  <2>3. (HasReceipt => Managed)' /\ AnchorHasReceipt' /\ TrustHasReceipt'
    BY DEF TypeOK, HasReceipt, Managed, AnchorHasReceipt, TrustHasReceipt
  <2>4. \A q \in Procs : Reached(q)'
    BY DEF TypeOK, Reached, HasReceipt, Managed, Preparing, Changing, Removing
  <2> QED BY <2>1, <2>2, <2>3, <2>4
<1>4. CASE UNCHANGED vars
  BY <1>4 DEF IInv, vars, disk, TypeOK, Exclusive, HasReceipt, Managed, AnchorHasReceipt,
              TrustHasReceipt, Reached
<1> QED BY <1>1, <1>2, <1>3, <1>4 DEF Next

(* Trust.TypeOK holds in every reachable state.                              *)
THEOREM TypeCorrect == Spec => []TypeOK
<1>1. IInv => TypeOK BY DEF IInv
<1> QED BY <1>1, InitIInv, NextIInv, PTL DEF Spec

(* For any number of processes, crashes and failures, an anchor this program *)
(* wrote has its receipt and recovery certificate (trust.go:212-222).        *)
THEOREM AnchorAlwaysHasReceipt == Spec => []AnchorHasReceipt
<1>1. IInv => AnchorHasReceipt BY DEF IInv
<1> QED BY <1>1, InitIInv, NextIInv, PTL DEF Spec

(* Nor does trust granted by such an anchor outlive the receipt, if only in  *)
(* a bundle that was not rebuilt (trust.go:236-238).                         *)
THEOREM TrustAlwaysHasReceipt == Spec => []TrustHasReceipt
<1>1. IInv => TrustHasReceipt BY DEF IInv
<1> QED BY <1>1, InitIInv, NextIInv, PTL DEF Spec

(* An anchor this program did not write is never touched (trust.go:205, 259).*)
THEOREM UnmanagedAlwaysKept == Spec => UnmanagedKept
<1>1. IInv /\ [Next]_vars => [anchor = "whole" /\ ~mine => anchor' = "whole" /\ ~mine']_vars
  <2> SUFFICES ASSUME IInv, [Next]_vars, anchor = "whole", ~mine
               PROVE  anchor' = "whole" /\ ~mine'
    OBVIOUS
  <2>1. ~HasReceipt BY DEF IInv, Managed
  <2>2. ASSUME NEW p \in Procs, Step(p) PROVE anchor' = "whole" /\ ~mine'
    <3> USE <2>1 DEF IInv, Reached, Changing, Removing, Goes, Leaves, disk
    <3>1. CASE AddAnchor(p) BY <3>1 DEF AddAnchor
    <3>2. CASE WriteAnchor(p) BY <3>2 DEF WriteAnchor
    <3>3. CASE RemoveAnchor(p) BY <3>3 DEF RemoveAnchor
    <3>4. CASE AddTrusted(p) BY <3>4 DEF AddTrusted
    <3>5. CASE DeleteCertificate(p) BY <3>5 DEF DeleteCertificate
    <3>6. CASE ~(AddAnchor(p) \/ WriteAnchor(p) \/ RemoveAnchor(p) \/ AddTrusted(p) \/ DeleteCertificate(p))
      <4>1. UNCHANGED <<anchor, mine>>
        BY <2>2, <3>6 DEF Step, RemoveTrusted, Begin, ReadReceipt, Decide, SnapshotCreate, SnapshotWrite,
           ReceiptCreate, ReceiptWrite, Refresh, Verify, Mark, Rebuild, Forget, ForgetRecovery
      <4> QED BY <4>1
    <3> QED BY <3>1, <3>2, <3>3, <3>4, <3>5, <3>6
  <2>3. ASSUME NEW p \in Procs, Crash(p) PROVE anchor' = "whole" /\ ~mine'
    BY <2>3 DEF Crash, disk
  <2>4. CASE Elsewhere BY <2>4 DEF Elsewhere
  <2>5. CASE UNCHANGED vars BY <2>5 DEF vars, disk
  <2> QED BY <2>2, <2>3, <2>4, <2>5 DEF Next
<1> QED BY <1>1, InitIInv, NextIInv, PTL DEF Spec, UnmanagedKept

=============================================================================
