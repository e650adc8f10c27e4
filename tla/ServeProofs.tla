----------------------------- MODULE ServeProofs -----------------------------
(***************************************************************************)
(* Proofs about module Serve, for any processes, state directories, bounds *)
(* and failures. What a process may rely on at a step follows from what it *)
(* did before, under a lock (the control socket) or without one (ca init,  *)
(* where O_EXCL and the pairs' being different do the work). The log is    *)
(* the one thing a failed or interrupted step may leave half done: what    *)
(* holds of its files then is LogInv.                                      *)
(***************************************************************************)
EXTENDS Serve, FiniteSetTheorems, SequenceTheorems, TLAPS

InitSteps == {"lstatCrt", "lstatKey", "open", "write", "sync", "undo", "removeKey"}
Writing == {"write", "sync", "undo"}

Bound == {"listen", "chmod", "tcp", "running", "unlink"}
Accepting == {"chmod", "tcp", "running", "unlink", "close"}
UnderSocket == {"lstatSocket", "dial", "remove", "bind", "close", "unlockSocket"} \cup Bound
UnderDaemon == {"lockSocket", "unlockDaemon"} \cup UnderSocket

Steps == {"idle", "load", "openLog", "new", "lockDaemon", "closeLog"} \cup InitSteps \cup UnderDaemon

-----------------------------------------------------------------------------
(* The control socket. A daemon holds the locks its step needs; the path is  *)
(* its own socket from bind to the removal of the name, and its socket       *)
(* accepts from listen to close.                                             *)
Holding(p) ==
    /\ at[p] \in UnderSocket => held["socket"] = p
    /\ at[p] \in UnderDaemon => held[StateDir[p]] = p
    /\ at[p] \in Bound => path = Socket(p)
    /\ p \in listening <=> at[p] \in Accepting

ControlInv ==
    /\ at \in [Proc -> Steps]
    /\ held \in [Locks -> Proc \cup {Nobody}]
    /\ listening \subseteq Proc
    /\ \A p \in Proc : Holding(p)

(* The CA files. A process of ca init has a pair that no other one has; a    *)
(* file it is writing is its own; once it is at the certificate, the key is  *)
(* whole and its own, and the certificate is its own only while it writes it,*)
(* or if it could not remove it.                                             *)
Making(p) ==
    at[p] \in InitSteps =>
        /\ pair[p] \in 1..pairs
        /\ \A q \in Proc : at[q] \in InitSteps /\ pair[q] = pair[p] => q = p
        /\ at[p] \in Writing => file[on[p]].pair = pair[p]
        /\ at[p] = "sync" => file[on[p]].whole
        /\ on[p] = "crt" => file["key"].pair = pair[p] /\ file["key"].whole
        /\ at[p] \in {"lstatCrt", "lstatKey"} => on[p] = "key"
        /\ at[p] = "removeKey" => on[p] = "crt"
        /\ file["crt"].pair = pair[p] /\ "crt" \notin left => on[p] = "crt" /\ at[p] \in Writing

FileState == [pair : Nat, whole : BOOLEAN]

CaTypes ==
    /\ at \in [Proc -> Steps]
    /\ file \in [Names -> FileState]
    /\ on \in [Proc -> Names]
    /\ pair \in [Proc -> Nat]
    /\ pairs \in Nat
    /\ left \subseteq Names

(* A certificate, whole or not, has its whole key beside it, except one that *)
(* could not be removed.                                                     *)
KeyFirst ==
    /\ \A f \in Names : file[f].pair <= pairs /\ (file[f].whole => file[f].pair # 0)
    /\ file["crt"].pair # 0 /\ "crt" \notin left => file["key"].pair = file["crt"].pair /\ file["key"].whole

CaInv ==
    /\ CaTypes
    /\ KeyFirst
    /\ \A p \in Proc : Making(p)

-----------------------------------------------------------------------------
(* The locks and the socket *)

(* A step outside Run leaves the locks and the socket as they are.           *)
LEMMA ControlFrame ==
    ASSUME ControlInv, NEW p \in Proc, NEW to \in Steps \ UnderDaemon,
           at[p] \notin UnderDaemon, at' = [at EXCEPT ![p] = to], UNCHANGED ctlvars
    PROVE  ControlInv'
<1> USE DEF ControlInv, Holding, ctlvars, UnderDaemon, UnderSocket, Bound, Accepting, Socket
<1>1. at' \in [Proc -> Steps] OBVIOUS
<1>2. \A q \in Proc : Holding(q)' OBVIOUS
<1> QED BY <1>1, <1>2

(* The types, for every step of a daemon in Run.                             *)
LEMMA ControlTypes ==
    ASSUME ControlInv, NEW p \in Proc, ControlStep(p) \/ Stop(p)
    PROVE  /\ at' \in [Proc -> Steps]
           /\ held' \in [Locks -> Proc \cup {Nobody}]
           /\ listening' \subseteq Proc
<1> USE DEF ControlInv, Goto, NoFault, ctlvars, Steps, UnderDaemon, UnderSocket, Bound
<1>1. CASE LockDaemon(p) BY <1>1 DEF LockDaemon, TakeLock, Grants
<1>2. CASE LockSocket(p) BY <1>2 DEF LockSocket, TakeLock, Grants
<1>3. CASE LstatSocket(p) BY <1>3 DEF LstatSocket
<1>4. CASE DialSocket(p) BY <1>4 DEF DialSocket, Fault
<1>5. CASE RemoveSocket(p) BY <1>5 DEF RemoveSocket, Fault
<1>6. CASE Bind(p) BY <1>6 DEF Bind, Fault
<1>7. CASE ListenSocket(p) BY <1>7 DEF ListenSocket
<1>8. CASE Chmod(p) BY <1>8 DEF Chmod, Fault
<1>9. CASE ListenTcp(p) BY <1>9 DEF ListenTcp, Fault
<1>10. CASE Unlink(p) BY <1>10 DEF Unlink
<1>11. CASE CloseSocket(p) BY <1>11 DEF CloseSocket
<1>12. CASE UnlockSocket(p) BY <1>12 DEF UnlockSocket, FreeLock
<1>13. CASE UnlockDaemon(p) BY <1>13 DEF UnlockDaemon, FreeLock
<1>14. CASE Stop(p) BY <1>14 DEF Stop
<1> QED
  BY <1>1, <1>2, <1>3, <1>4, <1>5, <1>6, <1>7, <1>8, <1>9, <1>10, <1>11, <1>12, <1>13, <1>14
  DEF ControlStep

(* A step of a daemon in Run keeps every process in step with the locks, the *)
(* name and the socket.                                                      *)
LEMMA ControlMove ==
    ASSUME ControlInv, NEW p \in Proc, ControlStep(p) \/ Stop(p)
    PROVE  ControlInv'
<1>1. StateDir[p] \in Locks /\ "socket" \in Locks
  BY DEF Locks
<1>2. Nobody \notin Proc /\ \A q \in Proc : StateDir[q] # "socket"
  BY ServeAssumption
<1>3. SUFFICES ASSUME NEW q \in Proc PROVE Holding(q)'
  BY ControlTypes DEF ControlInv
<1>4. Holding(p) /\ Holding(q) /\ at \in [Proc -> Steps] /\ held \in [Locks -> Proc \cup {Nobody}]
  BY DEF ControlInv
<1>5. StateDir[q] \in Locks BY DEF Locks
<1> USE <1>1, <1>2, <1>4, <1>5
        DEF Goto, NoFault, ctlvars, Socket, NoPath, Holding, UnderDaemon, UnderSocket, Bound, Accepting
<1>6. CASE LockDaemon(p) BY <1>6 DEF LockDaemon, TakeLock, Grants
<1>7. CASE LockSocket(p) BY <1>7 DEF LockSocket, TakeLock, Grants
<1>8. CASE LstatSocket(p) BY <1>8 DEF LstatSocket
<1>9. CASE DialSocket(p) BY <1>9 DEF DialSocket, Fault
<1>10. CASE RemoveSocket(p) BY <1>10 DEF RemoveSocket, Fault
<1>11. CASE Bind(p) BY <1>11 DEF Bind, Fault
<1>12. CASE ListenSocket(p) BY <1>12 DEF ListenSocket
<1>13. CASE Chmod(p) BY <1>13 DEF Chmod, Fault
<1>14. CASE ListenTcp(p) BY <1>14 DEF ListenTcp, Fault
<1>15. CASE Unlink(p) BY <1>15 DEF Unlink
<1>16. CASE CloseSocket(p) BY <1>16 DEF CloseSocket
<1>17. CASE UnlockSocket(p) BY <1>17 DEF UnlockSocket, FreeLock
<1>18. CASE UnlockDaemon(p) BY <1>18 DEF UnlockDaemon, FreeLock
<1>19. CASE Stop(p) BY <1>19 DEF Stop
<1> QED
  BY <1>6, <1>7, <1>8, <1>9, <1>10, <1>11, <1>12, <1>13, <1>14, <1>15, <1>16, <1>17, <1>18, <1>19
  DEF ControlStep

(* A process that dies leaves the name of its socket, and nothing else.      *)
LEMMA ControlCrash ==
    ASSUME ControlInv, NEW p \in Proc, at' = [at EXCEPT ![p] = "idle"], ControlDies(p)
    PROVE  ControlInv'
<1> USE ServeAssumption DEF ControlInv, ControlDies, Locks, Socket
<1>1. /\ at' \in [Proc -> Steps] /\ held' \in [Locks -> Proc \cup {Nobody}]
      /\ listening' \subseteq Proc
  BY DEF Steps
<1>2. ASSUME NEW q \in Proc PROVE Holding(q)'
  BY DEF Holding, UnderDaemon, UnderSocket, Bound, Accepting
<1> QED BY <1>1, <1>2

-----------------------------------------------------------------------------
(* The CA files *)

LEMMA FileStates ==
    /\ NoFile \in FileState /\ NoFile.pair = 0 /\ ~NoFile.whole
    /\ \A s \in FileState : s.pair \in Nat
    /\ \A n \in Nat, b \in BOOLEAN : [pair |-> n, whole |-> b] \in FileState
BY DEF FileState, NoFile

(* What the process of ca init may do to its file, as a function of which.   *)
LEMMA Written ==
    ASSUME CaTypes, NEW f \in Names, NEW s \in FileState, file' = [file EXCEPT ![f] = s]
    PROVE  /\ file' \in [Names -> FileState]
           /\ file'[f] = s
           /\ \A g \in Names \ {f} : file'[g] = file[g]
BY DEF CaTypes

(* A step outside ca init leaves the files as they are, also when it is the  *)
(* death of a process inside it: what it has written stays.                  *)
LEMMA CaFrame ==
    ASSUME CaInv, NEW p \in Proc, NEW to \in Steps \ InitSteps,
           at' = [at EXCEPT ![p] = to], UNCHANGED cavars
    PROVE  CaInv'
<1> USE DEF CaInv, cavars
<1>1. CaTypes' BY DEF CaTypes
<1>2. KeyFirst' BY DEF KeyFirst
<1>3. ASSUME NEW q \in Proc PROVE Making(q)'
  BY DEF CaTypes, Making, InitSteps, Writing
<1> QED BY <1>1, <1>2, <1>3

(* A new ca init has a pair of its own.                                      *)
LEMMA CaBegins ==
    ASSUME CaInv, NEW p \in Proc, InitBegins(p)
    PROVE  CaInv'
<1> USE DEF CaInv, InitBegins, Goto, NoFault
<1>1. CaTypes'
  <2>1. at' \in [Proc -> Steps] BY DEF CaTypes, Steps, InitSteps
  <2>2. file' \in [Names -> FileState] BY DEF CaTypes
  <2>3. on' \in [Proc -> Names] BY DEF CaTypes, Names
  <2>4. pairs' \in Nat BY DEF CaTypes
  <2>5. pair' \in [Proc -> Nat] BY DEF CaTypes
  <2>6. left' \subseteq Names BY DEF CaTypes
  <2> QED BY <2>1, <2>2, <2>3, <2>4, <2>5, <2>6 DEF CaTypes
<1>2. KeyFirst' BY FileStates DEF CaTypes, KeyFirst, Names
<1>3. ASSUME NEW q \in Proc PROVE Making(q)'
  <2>1. Making(q) /\ \A r \in Proc : Making(r) OBVIOUS
  <2>2. file["crt"].pair \in Nat /\ file["crt"].pair <= pairs BY FileStates DEF CaTypes, KeyFirst, Names
  <2> QED BY <2>1, <2>2 DEF CaTypes, Making, InitSteps, Writing, Names
<1> QED BY <1>1, <1>2, <1>3

(* A step of ca init gives one file at most a new state.                     *)
LEMMA CaWrites ==
    ASSUME CaTypes, NEW p \in Proc, InitStep(p)
    PROVE  file' = file \/ \E f \in Names, s \in FileState : file' = [file EXCEPT ![f] = s]
<1>1. on[p] \in Names /\ pair[p] \in Nat BY DEF CaTypes
<1>2. [pair |-> pair[p], whole |-> TRUE] \in FileState /\ [pair |-> pair[p], whole |-> FALSE] \in FileState
  BY <1>1, FileStates
<1>3. CASE InitLstat(p) BY <1>3 DEF InitLstat, cavars
<1>4. CASE RemoveKey(p) BY <1>4, FileStates DEF RemoveKey, Removes, Names
<1>5. CASE ExclusiveOpen(p) BY <1>1, <1>2, <1>5, Zenon DEF ExclusiveOpen
<1>6. CASE ExclusiveWrite(p) BY <1>1, <1>2, <1>6, Zenon DEF ExclusiveWrite
<1>7. CASE ExclusiveSync(p) BY <1>7 DEF ExclusiveSync
<1>8. CASE ExclusiveUndo(p) BY <1>1, <1>8, FileStates, Zenon DEF ExclusiveUndo, Removes
<1> QED BY <1>3, <1>4, <1>5, <1>6, <1>7, <1>8 DEF InitStep

LEMMA CaStepTypes ==
    ASSUME CaInv, NEW p \in Proc, InitStep(p)
    PROVE  CaTypes'
<1>1. CaTypes BY DEF CaInv
<1>2. file' \in [Names -> FileState] BY <1>1, CaWrites, Written DEF CaTypes
<1>3. /\ at' \in [Proc -> Steps] /\ on' \in [Proc -> Names]
      /\ pair' = pair /\ pairs' = pairs /\ left' \subseteq Names
  <2> USE <1>1 DEF CaTypes, Removes, Goto, Goes, Fails, Succeeds, cavars, Steps, InitSteps, Names
  <2>1. CASE InitLstat(p) BY <2>1 DEF InitLstat
  <2>2. CASE RemoveKey(p) BY <2>2 DEF RemoveKey
  <2>3. CASE ExclusiveOpen(p) BY <2>3 DEF ExclusiveOpen
  <2>4. CASE ExclusiveWrite(p) BY <2>4 DEF ExclusiveWrite
  <2>5. CASE ExclusiveSync(p) BY <2>5 DEF ExclusiveSync
  <2>6. CASE ExclusiveUndo(p) BY <2>6 DEF ExclusiveUndo
  <2> QED BY <2>1, <2>2, <2>3, <2>4, <2>5, <2>6 DEF InitStep
<1> QED BY <1>1, <1>2, <1>3 DEF CaTypes

(* A step of ca init keeps every other one's files: it removes only what it  *)
(* has created, and creates only what nobody has.                            *)
LEMMA CaStep ==
    ASSUME CaInv, NEW p \in Proc, InitStep(p)
    PROVE  CaInv'
<1>1. KeyFirst /\ Making(p) /\ CaTypes BY DEF CaInv
<1>2. KeyFirst'
  <2> USE <1>1, FileStates DEF CaTypes, KeyFirst, Making, Goto, Goes, Fails, Succeeds, NoFault, Removes, cavars,
               InitSteps, Writing, Names
  <2>1. CASE InitLstat(p) BY <2>1 DEF InitLstat
  <2>2. CASE RemoveKey(p) BY <2>2 DEF RemoveKey
  <2>3. CASE ExclusiveOpen(p) BY <2>3 DEF ExclusiveOpen, Opens, Exists
  <2>4. CASE ExclusiveWrite(p) BY <2>4 DEF ExclusiveWrite
  <2>5. CASE ExclusiveSync(p) BY <2>5 DEF ExclusiveSync
  <2>6. CASE ExclusiveUndo(p) BY <2>6 DEF ExclusiveUndo
  <2> QED BY <2>1, <2>2, <2>3, <2>4, <2>5, <2>6 DEF InitStep
<1>3. ASSUME NEW q \in Proc PROVE Making(q)'
  <2>1. Making(q) BY DEF CaInv
  <2>2. pair' = pair /\ pairs' = pairs
    BY DEF InitStep, InitLstat, RemoveKey, ExclusiveOpen, ExclusiveWrite, ExclusiveSync, ExclusiveUndo, Removes, cavars
  <2>3. \A r \in Proc : at'[r] \in InitSteps => at[r] \in InitSteps
    BY <1>1 DEF CaTypes, InitStep, InitLstat, RemoveKey, ExclusiveOpen, ExclusiveWrite, ExclusiveSync,
                ExclusiveUndo, Goto, Goes, Fails, Succeeds, InitSteps
  <2> USE <1>1, <2>1, <2>2, <2>3, FileStates
          DEF CaTypes, KeyFirst, Making, Goto, Goes, Fails, Succeeds, NoFault, Removes, cavars, InitSteps, Writing, Names
  <2>4. CASE InitLstat(p) BY <2>4 DEF InitLstat
  <2>5. CASE RemoveKey(p) BY <2>5 DEF RemoveKey
  <2>6. CASE ExclusiveOpen(p) BY <2>6 DEF ExclusiveOpen, Opens, Exists
  <2>7. CASE ExclusiveWrite(p) BY <2>7 DEF ExclusiveWrite
  <2>8. CASE ExclusiveSync(p) BY <2>8 DEF ExclusiveSync
  <2>9. CASE ExclusiveUndo(p) BY <2>9 DEF ExclusiveUndo
  <2> QED BY <2>4, <2>5, <2>6, <2>7, <2>8, <2>9 DEF InitStep
<1> QED BY <1>2, <1>3, CaStepTypes DEF CaInv

-----------------------------------------------------------------------------
(* The whole program *)

LEMMA InitInv == Init => ControlInv /\ CaInv
<1> SUFFICES ASSUME Init PROVE ControlInv /\ CaInv OBVIOUS
<1>1. ControlInv
  BY DEF Init, ControlFirst, ControlInv, Holding, Steps, UnderDaemon, UnderSocket, Bound, Accepting
<1>2. CaTypes
  <2>0. [pair |-> 1, whole |-> TRUE] \in FileState BY FileStates
  <2>1. \A f \in Names : file[f] \in FileState
    BY <2>0, FileStates, Zenon DEF Init, CaFirst
  <2>2. file = [f \in Names |-> file[f]] BY DEF Init, CaFirst
  <2>3. /\ at \in [Proc -> Steps] /\ on \in [Proc -> Names] /\ pair \in [Proc -> Nat] /\ pairs \in Nat
        /\ left \subseteq Names
    BY DEF Init, CaFirst, Steps, Names
  <2> QED BY <2>1, <2>2, <2>3 DEF CaTypes
<1>3. KeyFirst BY FileStates DEF Init, CaFirst, KeyFirst, Names
<1>4. \A p \in Proc : Making(p) BY DEF Init, Making, InitSteps
<1> QED BY <1>1, <1>2, <1>3, <1>4 DEF CaInv

(* A step outside Run and ca init.                                           *)
LEMMA OutsideStep ==
    ASSUME ControlInv, CaInv, NEW p \in Proc, NEW to \in Steps \ (UnderDaemon \cup InitSteps),
           at[p] \notin UnderDaemon, at' = [at EXCEPT ![p] = to], UNCHANGED <<cavars, ctlvars>>
    PROVE  ControlInv' /\ CaInv'
<1>1. UNCHANGED ctlvars /\ UNCHANGED cavars OBVIOUS
<1> QED BY <1>1, ControlFrame, CaFrame

LEMMA NextInv == ControlInv /\ CaInv /\ [Next]_vars => ControlInv' /\ CaInv'
<1> SUFFICES ASSUME ControlInv, CaInv, [Next]_vars PROVE ControlInv' /\ CaInv'
  OBVIOUS
<1> USE DEF Steps, InitSteps, UnderDaemon, UnderSocket, Bound
<1>1. ASSUME NEW p \in Proc, StartInit(p) PROVE ControlInv' /\ CaInv'
  <2>1. InitBegins(p) /\ UNCHANGED ctlvars BY <1>1 DEF StartInit
  <2>2. at[p] = "idle" /\ at' = [at EXCEPT ![p] = "lstatCrt"] BY <2>1 DEF InitBegins, Goto
  <2> QED BY <2>1, <2>2, CaBegins, ControlFrame
<1>2. ASSUME NEW p \in Proc, StartServe(p) PROVE ControlInv' /\ CaInv'
  BY <1>2, OutsideStep DEF StartServe, Goto, others
<1>3. ASSUME NEW p \in Proc, LoadCa(p) PROVE ControlInv' /\ CaInv'
  <2>1. PICK to \in {"openLog", "idle", "lockDaemon", "closeLog"} : at' = [at EXCEPT ![p] = to]
    BY <1>3 DEF LoadCa, Goto
  <2>2. at[p] \in {"load", "new"} /\ UNCHANGED <<cavars, ctlvars>> BY <1>3 DEF LoadCa, Goto, others
  <2> QED BY <2>1, <2>2, OutsideStep
<1>4. ASSUME NEW p \in Proc, InitStep(p), UNCHANGED ctlvars PROVE ControlInv' /\ CaInv'
  <2>1. CaInv' BY <1>4, CaStep
  <2>2. at[p] \in InitSteps /\ \E to \in InitSteps \cup {"idle"} : at' = [at EXCEPT ![p] = to]
    <3> USE <1>4 DEF Goto, Goes, Fails, Succeeds
    <3>1. CASE InitLstat(p) BY <3>1 DEF InitLstat
    <3>2. CASE RemoveKey(p) BY <3>2 DEF RemoveKey
    <3>3. CASE ExclusiveOpen(p) BY <3>3 DEF ExclusiveOpen
    <3>4. CASE ExclusiveWrite(p) BY <3>4 DEF ExclusiveWrite
    <3>5. CASE ExclusiveSync(p) BY <3>5 DEF ExclusiveSync
    <3>6. CASE ExclusiveUndo(p) BY <3>6 DEF ExclusiveUndo
    <3> QED BY <3>1, <3>2, <3>3, <3>4, <3>5, <3>6 DEF InitStep
  <2>3. ControlInv' BY <1>4, <2>2, ControlFrame
  <2> QED BY <2>1, <2>3
<1>5. ASSUME NEW p \in Proc, ControlStep(p) \/ Stop(p), UNCHANGED cavars PROVE ControlInv' /\ CaInv'
  <2>1. ControlInv' BY <1>5, ControlMove
  <2>2. \E to \in Steps \ InitSteps : at' = [at EXCEPT ![p] = to]
    BY <1>5 DEF ControlStep, LockDaemon, LockSocket, TakeLock, LstatSocket, DialSocket, RemoveSocket, Bind,
                ListenSocket, Chmod, ListenTcp, Unlink, CloseSocket, UnlockSocket, UnlockDaemon, FreeLock,
                Stop, Goto
  <2>3. CaInv' BY <1>5, <2>2, CaFrame
  <2> QED BY <2>1, <2>3
<1>6. ASSUME NEW p \in Proc, OpenLog(p) \/ CloseLog(p), UNCHANGED <<cavars, ctlvars>>
      PROVE  ControlInv' /\ CaInv'
  <2>1. at[p] \in {"openLog", "closeLog"} /\ \E to \in {"new", "idle"} : at' = [at EXCEPT ![p] = to]
    BY <1>6 DEF OpenLog, CloseLog, Goto
  <2> QED BY <1>6, <2>1, OutsideStep
<1>7. ASSUME NEW p \in Proc, Dies(p) PROVE ControlInv' /\ CaInv'
  <2>1. at' = [at EXCEPT ![p] = "idle"] /\ ControlDies(p) /\ UNCHANGED cavars BY <1>7 DEF Dies
  <2> QED BY <2>1, ControlCrash, CaFrame
<1>8. ASSUME UNCHANGED <<at, cavars, ctlvars>> PROVE ControlInv' /\ CaInv'
  BY <1>8 DEF cavars, ctlvars, ControlInv, Holding, CaInv, CaTypes, KeyFirst, Making
<1>13. CASE Manage
  <2>1. CASE ManagerStarts \/ OperatorStarts
    <3>1. Unit \in Proc BY ServeAssumption
    <3>2. at[Unit] = "idle" /\ at' = [at EXCEPT ![Unit] = "load"] /\ UNCHANGED <<cavars, ctlvars>>
      BY <2>1 DEF ManagerStarts, OperatorStarts, Loads, Goto
    <3> QED BY <3>1, <3>2, OutsideStep
  <2>2. CASE ManagerGivesUp \/ IntervalEnds BY <1>8, <2>2 DEF ManagerGivesUp, IntervalEnds
  <2> QED BY <1>13, <2>1, <2>2 DEF Manage
<1>9. CASE LogStep BY <1>8, <1>9 DEF LogStep, RotatorStep
<1>10. CASE UNCHANGED vars BY <1>8, <1>10 DEF vars
<1>11. ASSUME NEW p \in Proc, ServeStep(p) PROVE ControlInv' /\ CaInv'
  BY <1>3, <1>4, <1>5, <1>6, <1>11 DEF ServeStep
<1>12. ASSUME NEW p \in Proc, StopServe(p) PROVE ControlInv' /\ CaInv'
  BY <1>5, <1>12 DEF StopServe
<1> QED BY <1>1, <1>2, <1>7, <1>9, <1>10, <1>11, <1>12, <1>13 DEF Next

LEMMA InvAlways == Spec => [](ControlInv /\ CaInv)
BY InitInv, NextInv, PTL DEF Spec

(* However many daemons start, are refused, stop, fail or die, the control   *)
(* path of a running one is its own accepting socket: control.Listen removes *)
(* a stale name under the lock beside it, so never a live one                *)
(* (control.go:23-62, server.go:172-180).                                    *)
THEOREM AlwaysReachable == Spec => []Reachable
<1>1. ControlInv => Reachable
  BY DEF ControlInv, Holding, Reachable, Bound, Accepting
<1> QED BY <1>1, InvAlways, PTL

(* However many ca inits run, fail or die at once, a whole certificate has   *)
(* its own whole key beside it, unless its own removal failed (ca.go:61-91,  *)
(* fsutil.go:35-58).                                                         *)
THEOREM CertAlwaysHasKey == Spec => []CertHasKey
<1>1. CaInv => CertHasKey
  BY FileStates DEF CaInv, CaTypes, KeyFirst, CertHasKey, Loadable, Names
<1> QED BY <1>1, InvAlways, PTL

-----------------------------------------------------------------------------
(* The bytes of a file of the log *)

(* The places that Bytes counts.                                             *)
Places(s) == UNION { {i} \X (1..s[i].len) : i \in DOMAIN s }

LEMMA LineLength == \A l \in Line : l.len \in Nat
BY DEF Line

LEMMA OnePlace ==
    ASSUME NEW i, NEW n \in Nat
    PROVE  IsFiniteSet({i} \X (1..n)) /\ Cardinality({i} \X (1..n)) = n
<1> DEFINE f == [b \in 1..n |-> <<i, b>>]
<1>1. f \in Bijection(1..n, {i} \X (1..n))
  <2>1. f \in [1..n -> {i} \X (1..n)] OBVIOUS
  <2>2. \A a, b \in 1..n : f[a] = f[b] => a = b OBVIOUS
  <2>3. \A t \in {i} \X (1..n) : t[2] \in 1..n /\ f[t[2]] = t OBVIOUS
  <2> HIDE DEF f
  <2> QED BY <2>1, <2>2, <2>3 DEF Bijection, Injection, Surjection, IsInjective
<1>2. IsFiniteSet(1..n) /\ Cardinality(1..n) = n BY FS_Interval
<1> QED BY <1>1, <1>2, FS_Bijection DEF ExistsBijection

LEMMA PlacesAre ==
    ASSUME NEW s \in Seq(Line)
    PROVE  /\ IsFiniteSet(Places(s)) /\ Bytes(s) = Cardinality(Places(s)) /\ Bytes(s) \in Nat
           /\ \A p : p \in Places(s) <=> \E i \in 1..Len(s), b \in Nat : p = <<i, b>> /\ 1 <= b /\ b <= s[i].len
<1>1. Len(s) \in Nat /\ DOMAIN s = 1..Len(s) /\ \A i \in 1..Len(s) : s[i].len \in Nat
  <2>1. \A i \in 1..Len(s) : s[i] \in Line OBVIOUS
  <2> QED BY <2>1, LineLength
<1>2. Bytes(s) = Cardinality(Places(s)) BY DEF Bytes, Places
<1> DEFINE At == [i \in 1..Len(s) |-> {i} \X (1..s[i].len)]
           All == { At[i] : i \in 1..Len(s) }
<1>3. IsFiniteSet(All)
  <2>1. IsFiniteSet(1..Len(s)) BY <1>1, FS_Interval
  <2>2. At \in Surjection(1..Len(s), All) BY DEF Surjection
  <2> QED BY <2>1, <2>2, FS_Surjection
<1>4. \A T \in All : IsFiniteSet(T)
  <2>1. \A i \in 1..Len(s) : IsFiniteSet({i} \X (1..s[i].len)) BY <1>1, OnePlace
  <2> QED BY <2>1
<1>5. IsFiniteSet(UNION All) BY <1>3, <1>4, FS_UNION
<1>6. Places(s) = UNION All BY <1>1 DEF Places
<1>7. IsFiniteSet(Places(s)) BY <1>5, <1>6
<1>8. \A p : p \in Places(s) <=> \E i \in 1..Len(s), b \in Nat : p = <<i, b>> /\ 1 <= b /\ b <= s[i].len
  BY <1>1 DEF Places
<1> QED BY <1>2, <1>7, <1>8, FS_CardinalityType

LEMMA BytesEmpty == Bytes(<<>>) = 0
<1>1. <<>> \in Seq(Line) /\ Len(<<>>) = 0 OBVIOUS
<1>2. Places(<<>>) = {} BY DEF Places
<1> QED BY <1>1, <1>2, PlacesAre, FS_EmptySet

LEMMA BytesConcat ==
    ASSUME NEW a \in Seq(Line), NEW b \in Seq(Line)
    PROVE  Bytes(a \o b) = Bytes(a) + Bytes(b)
<1> DEFINE n == Len(a)
           c == a \o b
           f == [p \in Places(b) |-> <<n + p[1], p[2]>>]
           Rest == { f[p] : p \in Places(b) }
<1>1. /\ n \in Nat /\ Len(b) \in Nat /\ c \in Seq(Line) /\ Len(c) = n + Len(b)
      /\ \A i \in 1..n : c[i] = a[i]
      /\ \A i \in 1..Len(b) : c[n + i] = b[i]
  OBVIOUS
<1> HIDE DEF n, c
<1>2. /\ \A p : p \in Places(a) <=> \E i \in 1..n, k \in Nat : p = <<i, k>> /\ 1 <= k /\ k <= a[i].len
      /\ \A p : p \in Places(b) <=> \E i \in 1..Len(b), k \in Nat : p = <<i, k>> /\ 1 <= k /\ k <= b[i].len
      /\ \A p : p \in Places(c) <=> \E i \in 1..Len(c), k \in Nat : p = <<i, k>> /\ 1 <= k /\ k <= c[i].len
  BY <1>1, PlacesAre DEF n
<1>3. f \in Bijection(Places(b), Rest)
  <2>1. f \in [Places(b) -> Rest] /\ \A q \in Rest : \E p \in Places(b) : f[p] = q OBVIOUS
  <2>2. ASSUME NEW p \in Places(b), NEW q \in Places(b), f[p] = f[q] PROVE p = q
    <3>1. PICK i \in 1..Len(b), k \in Nat : p = <<i, k>> BY <1>2
    <3>2. PICK j \in 1..Len(b), m \in Nat : q = <<j, m>> BY <1>2
    <3>3. <<n + i, k>> = <<n + j, m>> BY <2>2, <3>1, <3>2
    <3> QED BY <1>1, <3>1, <3>2, <3>3
  <2> HIDE DEF f, Rest
  <2> QED BY <2>1, <2>2 DEF Bijection, Injection, Surjection, IsInjective
<1>4. ASSUME NEW q PROVE q \in Rest <=> \E i \in 1..Len(b), k \in Nat : q = <<n + i, k>> /\ 1 <= k /\ k <= b[i].len
  <2>1. ASSUME q \in Rest PROVE \E i \in 1..Len(b), k \in Nat : q = <<n + i, k>> /\ 1 <= k /\ k <= b[i].len
    <3>1. PICK p \in Places(b) : q = <<n + p[1], p[2]>> BY <2>1
    <3>2. PICK i \in 1..Len(b), k \in Nat : p = <<i, k>> /\ 1 <= k /\ k <= b[i].len BY <1>2
    <3> QED BY <3>1, <3>2
  <2>2. ASSUME NEW i \in 1..Len(b), NEW k \in Nat, q = <<n + i, k>>, 1 <= k, k <= b[i].len PROVE q \in Rest
    <3>1. <<i, k>> \in Places(b) BY <1>2, <2>2
    <3>2. f[<<i, k>>] = q BY <2>2, <3>1
    <3> QED BY <3>1, <3>2
  <2> QED BY <2>1, <2>2
<1>5. IsFiniteSet(Rest) /\ Cardinality(Rest) = Bytes(b)
  BY <1>3, PlacesAre, FS_Bijection DEF ExistsBijection
<1> HIDE DEF f, Rest
<1>6. Places(a) \cap Rest = {} BY <1>1, <1>2, <1>4
<1>7. Places(c) = Places(a) \cup Rest
  <2>1. ASSUME NEW i \in 1..Len(c) PROVE i \in 1..n \/ \E j \in 1..Len(b) : i = n + j
    <3>1. i \in 1..n \/ i - n \in 1..Len(b) BY <1>1
    <3>2. i = n + (i - n) BY <1>1
    <3> QED BY <3>1, <3>2
  <2>2. ASSUME NEW p \in Places(c) PROVE p \in Places(a) \cup Rest
    <3>1. PICK i \in 1..Len(c), k \in Nat : p = <<i, k>> /\ 1 <= k /\ k <= c[i].len BY <1>2
    <3>2. CASE i \in 1..n BY <1>1, <1>2, <3>1, <3>2
    <3>3. ASSUME NEW j \in 1..Len(b), i = n + j PROVE p \in Rest BY <1>1, <1>4, <3>1, <3>3
    <3> QED BY <2>1, <3>2, <3>3
  <2>3. ASSUME NEW p \in Places(a) PROVE p \in Places(c)
    <3>1. PICK i \in 1..n, k \in Nat : p = <<i, k>> /\ 1 <= k /\ k <= a[i].len BY <1>2
    <3> QED BY <1>1, <1>2, <3>1
  <2>4. ASSUME NEW p \in Rest PROVE p \in Places(c)
    <3>1. PICK i \in 1..Len(b), k \in Nat : p = <<n + i, k>> /\ 1 <= k /\ k <= b[i].len BY <1>4
    <3>2. n + i \in 1..Len(c) /\ c[n + i].len = b[i].len BY <1>1
    <3> QED BY <1>2, <3>1, <3>2
  <2> QED BY <2>2, <2>3, <2>4
<1>8. IsFiniteSet(Places(a)) /\ Cardinality(Places(a)) = Bytes(a) /\ Bytes(a) \in Nat /\ Bytes(b) \in Nat
  BY PlacesAre
<1>9. Cardinality(Places(a) \cup Rest) = Bytes(a) + Bytes(b)
  <2>1. Cardinality(Places(a) \cup Rest) = Cardinality(Places(a)) + Cardinality(Rest) - Cardinality(Places(a) \cap Rest)
    BY <1>5, <1>8, FS_Union
  <2>2. Cardinality(Places(a) \cap Rest) = 0 BY <1>6, FS_EmptySet
  <2> QED BY <1>5, <1>8, <2>1, <2>2
<1> QED BY <1>1, <1>7, <1>9, PlacesAre DEF c

LEMMA BytesAppend ==
    ASSUME NEW s \in Seq(Line), NEW l \in Line
    PROVE  Bytes(Append(s, l)) = Bytes(s) + l.len
<1>1. <<l>> \in Seq(Line) /\ Len(<<l>>) = 1 /\ <<l>>[1] = l /\ l.len \in Nat BY LineLength
<1>2. Places(<<l>>) = {1} \X (1..l.len)
  <2>1. DOMAIN <<l>> = {1} BY <1>1
  <2> QED BY <1>1, <2>1 DEF Places
<1>3. Bytes(<<l>>) = l.len BY <1>1, <1>2, PlacesAre, OnePlace
<1>4. Append(s, l) = s \o <<l>> BY AppendIsConcat
<1> QED BY <1>1, <1>3, <1>4, BytesConcat

-----------------------------------------------------------------------------
(* The files of the log as one. What the recursion over the files computes   *)
(* is shown for the least file for which it might not hold.                  *)

(* Every non-empty set of naturals has a least element.                      *)
LEMMA LeastNat ==
    ASSUME NEW T, T \subseteq Nat, T # {}
    PROVE  \E n \in T : \A m \in T : n <= m
<1>1. PICK n \in T : \A m \in T : ~(<<m, n>> \in OpToRel(<, Nat))
  BY NatLessThanWellFounded, WFMin, Zenon
<1>2. \A m \in T : ~(m < n) BY <1>1 DEF OpToRel
<1> QED BY <1>2

Texts == [Files -> Seq(Line)]

(* The recursive function in Joined exists.                                  *)
Joins(f, t) == \A i \in DOMAIN f : f[i] = IF i = 0 THEN t[0] ELSE t[i] \o f[i - 1]

LEMMA JoinsExists ==
    ASSUME NEW t \in Texts
    PROVE  \A n \in Files : \E f \in [0..n -> Seq(Line)] : Joins(f, t)
<1> DEFINE Bad == { n \in Files : ~ \E f \in [0..n -> Seq(Line)] : Joins(f, t) }
<1> SUFFICES ASSUME Bad # {} PROVE FALSE OBVIOUS
<1>0. Backups \in Nat BY ServeAssumption
<1>1. Bad \subseteq Nat BY <1>0 DEF Files
<1>2. PICK n \in Bad : \A m \in Bad : n <= m BY <1>1, LeastNat
<1>3. n \in Files /\ ~ \E f \in [0..n -> Seq(Line)] : Joins(f, t) OBVIOUS
<1>4. CASE n = 0
  <2> DEFINE f == [i \in 0..n |-> t[0]]
  <2>1. f \in [0..n -> Seq(Line)] BY <1>0 DEF Texts, Files
  <2>2. Joins(f, t) BY <1>4 DEF Joins
  <2> QED BY <1>3, <2>1, <2>2
<1>5. CASE n # 0
  <2>1. n - 1 \in Files /\ n - 1 \notin Bad BY <1>0, <1>1, <1>2, <1>3, <1>5 DEF Files
  <2>2. PICK g \in [0..(n - 1) -> Seq(Line)] : Joins(g, t) BY <2>1
  <2> HIDE DEF Bad
  <2>3. n \in Nat \ {0} /\ n \in Files BY <1>0, <1>3, <1>5 DEF Files
  <2> DEFINE new == t[n] \o g[n - 1]
             f == [i \in 0..n |-> IF i = n THEN new ELSE g[i]]
  <2>4. new \in Seq(Line)
    <3>1. t[n] \in Seq(Line) /\ g[n - 1] \in Seq(Line) BY <2>2, <2>3 DEF Texts
    <3> QED BY <3>1
  <2>5. new = t[n] \o g[n - 1] OBVIOUS
  <2> HIDE DEF new
  <2>6. \A i \in 0..n : f[i] = IF i = 0 THEN t[0] ELSE t[i] \o f[i - 1]
    <3>1. f[n] = t[n] \o f[n - 1]
      <4>1. f[n] = new /\ f[n - 1] = g[n - 1] BY <2>3
      <4> QED BY <2>5, <4>1
    <3>2. \A i \in 0..(n - 1) : f[i] = g[i] BY <2>3
    <3>3. \A i \in 0..(n - 1) : g[i] = IF i = 0 THEN t[0] ELSE t[i] \o g[i - 1] BY <2>2 DEF Joins
    <3>4. \A i \in 0..(n - 1) : f[i] = IF i = 0 THEN t[0] ELSE t[i] \o f[i - 1]
      <4>1. \A i \in 0..(n - 1) : i = 0 \/ i - 1 \in 0..(n - 1) BY <2>3
      <4> HIDE DEF f
      <4> QED BY <3>2, <3>3, <4>1
    <3>5. \A i \in 0..n : i = n \/ i \in 0..(n - 1) BY <2>3
    <3> HIDE DEF f
    <3> QED BY <2>3, <3>1, <3>4, <3>5
  <2>7. Joins(f, t) BY <2>6 DEF Joins
  <2>8. f \in [0..n -> Seq(Line)] BY <2>2, <2>3, <2>4
  <2> QED BY <1>3, <2>7, <2>8
<1> QED BY <1>4, <1>5

(* What Joined is the end of.                                                *)
LEMMA JoinedIs ==
    ASSUME NEW t \in Texts
    PROVE  \E f \in Texts : Joins(f, t) /\ Joined(t) = f[Backups]
<1> DEFINE Whole(f) == f = [i \in Files |-> IF i = 0 THEN t[0] ELSE t[i] \o f[i - 1]]
<1>0. Backups \in Nat BY ServeAssumption
<1>1. \E f : Whole(f)
  <2>1. PICK f \in [Files -> Seq(Line)] : Joins(f, t) BY <1>0, JoinsExists DEF Files
  <2> QED BY <2>1 DEF Joins
<1> DEFINE g == CHOOSE f : Whole(f)
<1>2. Whole(g) BY <1>1
<1>3. Joined(t) = g[Backups] BY DEF Joined
<1> HIDE DEF g
<1>4. Joins(g, t) /\ DOMAIN g = Files BY <1>2 DEF Joins
<1> HIDE DEF Whole
<1>5. ASSUME NEW i \in Files PROVE g[i] \in Seq(Line)
  <2> DEFINE Bad == { k \in Files : g[k] \notin Seq(Line) }
  <2> SUFFICES ASSUME Bad # {} PROVE FALSE OBVIOUS
  <2>1. Bad \subseteq Nat BY <1>0 DEF Files
  <2>2. PICK n \in Bad : \A m \in Bad : n <= m BY <2>1, LeastNat
  <2>3. n \in Files /\ g[n] = IF n = 0 THEN t[0] ELSE t[n] \o g[n - 1] BY <1>4 DEF Joins
  <2>4. t[n] \in Seq(Line) /\ t[0] \in Seq(Line) BY <1>0, <2>3 DEF Texts, Files
  <2>5. CASE n = 0 BY <2>3, <2>4, <2>5
  <2>6. CASE n # 0
    <3>1. n - 1 \in Files /\ n - 1 \notin Bad BY <1>0, <2>1, <2>2, <2>3, <2>6 DEF Files
    <3>2. g[n - 1] \in Seq(Line) BY <3>1
    <3>3. t[n] \o g[n - 1] \in Seq(Line) BY <2>4, <3>2
    <3> QED BY <2>3, <2>6, <3>3
  <2> QED BY <2>5, <2>6
<1>6. g \in Texts
  <2>1. g = [i \in Files |-> g[i]] BY <1>2 DEF Whole
  <2> QED BY <1>5, <2>1 DEF Texts
<1> QED BY <1>3, <1>4, <1>6

(* From a file on which two logs agree on, they agree as long as the files   *)
(* after it do.                                                              *)
Agree(f, t, g, u, m, k) ==
    Joins(f, t) /\ Joins(g, u) /\ f[m] = g[m] /\ \A i \in Files : m < i /\ i <= k => t[i] = u[i]

LEMMA JoinsSame ==
    ASSUME NEW t \in Texts, NEW u \in Texts, NEW f \in Texts, NEW g \in Texts, NEW m \in Files, NEW k \in Files,
           Agree(f, t, g, u, m, k)
    PROVE  \A n \in m..k : f[n] = g[n]
<1> USE DEF Agree
<1> DEFINE Bad == { n \in m..k : f[n] # g[n] }
<1> SUFFICES ASSUME Bad # {} PROVE FALSE OBVIOUS
<1>0. Backups \in Nat BY ServeAssumption
<1>1. m \in Nat /\ k \in Nat /\ Bad \subseteq Nat BY <1>0 DEF Files
<1>2. PICK n \in Bad : \A j \in Bad : n <= j BY <1>1, LeastNat
<1>3. n \in m..k /\ f[n] # g[n] OBVIOUS
<1>4. n # m BY <1>3
<1>5. n - 1 \in m..k /\ n - 1 \notin Bad BY <1>1, <1>2, <1>3, <1>4
<1>6. f[n - 1] = g[n - 1] BY <1>5
<1> HIDE DEF Bad
<1>7. n \in Files /\ n # 0 /\ t[n] = u[n] BY <1>0, <1>1, <1>3, <1>4 DEF Files
<1>8. DOMAIN f = Files /\ DOMAIN g = Files BY DEF Texts
<1>9. f[n] = t[n] \o f[n - 1] /\ g[n] = u[n] \o g[n - 1] BY <1>7, <1>8 DEF Joins
<1> QED BY <1>3, <1>6, <1>7, <1>9

LEMMA AppendConcat ==
    ASSUME NEW a \in Seq(Line), NEW b \in Seq(Line), NEW l \in Line
    PROVE  a \o Append(b, l) = Append(a \o b, l)
<1>1. <<l>> \in Seq(Line) /\ a \o b \in Seq(Line) OBVIOUS
<1>2. Append(b, l) = b \o <<l>> /\ Append(a \o b, l) = (a \o b) \o <<l>> BY <1>1, AppendIsConcat
<1> QED BY <1>1, <1>2, ConcatAssociative

(* A line at the end of the current file is at the end of the log.           *)
LEMMA JoinedAppend ==
    ASSUME NEW t \in Texts, NEW l \in Line, NEW u \in Texts, u = [t EXCEPT ![0] = Append(t[0], l)]
    PROVE  Joined(t) \in Seq(Line) /\ Joined(u) = Append(Joined(t), l)
<1>0. Backups \in Nat /\ 0 \in Files /\ Backups \in Files BY ServeAssumption DEF Files
<1>1. PICK f \in Texts : Joins(f, t) /\ Joined(t) = f[Backups] BY JoinedIs
<1>2. PICK g \in Texts : Joins(g, u) /\ Joined(u) = g[Backups] BY JoinedIs
<1>3. DOMAIN f = Files /\ DOMAIN g = Files /\ \A i \in Files : f[i] \in Seq(Line) /\ t[i] \in Seq(Line) BY DEF Texts
<1>4. u[0] = Append(t[0], l) /\ \A i \in Files \ {0} : u[i] = t[i] BY <1>0 DEF Texts
<1>5. \A n \in Files : g[n] = Append(f[n], l)
  <2> DEFINE Bad == { n \in Files : g[n] # Append(f[n], l) }
  <2> SUFFICES ASSUME Bad # {} PROVE FALSE OBVIOUS
  <2>1. Bad \subseteq Nat BY <1>0 DEF Files
  <2>2. PICK n \in Bad : \A j \in Bad : n <= j BY <2>1, LeastNat
  <2>3. n \in Files /\ g[n] # Append(f[n], l) OBVIOUS
  <2>4. n # 0
    <3>1. f[0] = t[0] /\ g[0] = u[0] BY <1>0, <1>1, <1>2, <1>3 DEF Joins
    <3> QED BY <1>4, <2>3, <3>1
  <2>5. n - 1 \in Files /\ n - 1 \notin Bad BY <1>0, <2>1, <2>2, <2>3, <2>4 DEF Files
  <2>6. g[n - 1] = Append(f[n - 1], l) BY <2>5
  <2> HIDE DEF Bad
  <2>7. f[n] = t[n] \o f[n - 1] /\ g[n] = t[n] \o g[n - 1] BY <1>1, <1>2, <1>3, <1>4, <2>3, <2>4 DEF Joins
  <2>8. t[n] \in Seq(Line) /\ f[n - 1] \in Seq(Line) BY <1>3, <2>3, <2>5
  <2> QED BY <2>3, <2>6, <2>7, <2>8, AppendConcat
<1> QED BY <1>0, <1>1, <1>2, <1>3, <1>5

(* A rename onto an empty file leaves the log as it is; one onto the oldest  *)
(* file gives up that file and no more.                                      *)
LEMMA JoinedRename ==
    ASSUME NEW t \in Texts, NEW d \in 1..Backups,
           NEW u \in Texts, u = [t EXCEPT ![d] = t[d - 1], ![d - 1] = <<>>]
    PROVE  /\ t[d] = <<>> => Joined(u) = Joined(t)
           /\ d = Backups => Joined(t) = t[d] \o Joined(u)
<1>0. /\ Backups \in Nat /\ 0 \in Files /\ Backups \in Files /\ d \in Files /\ d - 1 \in Files /\ d \in Nat \ {0}
      /\ d # 1 => d - 2 \in Files
  BY ServeAssumption DEF Files
<1>1. PICK f \in Texts : Joins(f, t) /\ Joined(t) = f[Backups] BY JoinedIs
<1>2. PICK g \in Texts : Joins(g, u) /\ Joined(u) = g[Backups] BY JoinedIs
<1>3. DOMAIN f = Files /\ DOMAIN g = Files /\ \A i \in Files : f[i] \in Seq(Line) /\ t[i] \in Seq(Line) BY DEF Texts
<1>4. u[d] = t[d - 1] /\ u[d - 1] = <<>> /\ \A i \in Files \ {d, d - 1} : u[i] = t[i] BY <1>0 DEF Texts
<1>5. /\ f[0] = t[0] /\ \A i \in Files \ {0} : f[i] = t[i] \o f[i - 1]
      /\ g[0] = u[0] /\ \A i \in Files \ {0} : g[i] = u[i] \o g[i - 1]
  BY <1>0, <1>1, <1>2, <1>3 DEF Joins
<1>6. f[d] = t[d] \o f[d - 1] /\ g[d] = t[d - 1] \o g[d - 1] BY <1>0, <1>4, <1>5
<1>7. Joins(f, t) /\ Joins(g, u) /\ 0 \in Files /\ d \in Files /\ Backups \in Files BY <1>0, <1>1, <1>2
<1>8. g[d] = f[d - 1]
  <2>1. CASE d = 1
    <3>1. d - 1 = 0 BY <2>1
    <3>2. g[d - 1] = <<>> /\ f[d - 1] = t[d - 1] BY <1>4, <1>5, <3>1
    <3>3. t[d - 1] \o <<>> = t[d - 1] BY <1>0, <1>3, ConcatEmptySeq
    <3> QED BY <1>6, <3>2, <3>3
  <2>2. CASE d # 1
    <3>1. PICK e \in Files : e = d - 2 BY <1>0, <2>2
    <3>2. d - 1 \in Files \ {0} /\ (d - 1) - 1 = e /\ 0 \in Files \ {d, d - 1} BY <1>0, <2>2, <3>1
    <3>3. f[0] = g[0] BY <1>4, <1>5, <3>2
    <3>4. \A i \in Files : 0 < i /\ i <= e => t[i] = u[i]
      <4>1. \A i \in Files : i <= e => i \in Files \ {d, d - 1} BY <1>0, <3>1 DEF Files
      <4> QED BY <1>4, <4>1
    <3>5. \A n \in 0..e : f[n] = g[n]
      <4>1. Agree(f, t, g, u, 0, e) BY <1>7, <3>3, <3>4 DEF Agree
      <4> QED BY <1>7, <4>1, JoinsSame
    <3>6. e \in 0..e BY <1>0, <3>1 DEF Files
    <3>7. f[d - 1] = t[d - 1] \o f[e] /\ g[d - 1] = <<>> \o g[e] BY <1>4, <1>5, <3>2
    <3>8. g[d - 1] = f[e]
      <4>1. f[e] \in Seq(Line) BY <1>3, <3>1
      <4>2. <<>> \o f[e] = f[e] BY <4>1, ConcatEmptySeq
      <4> QED BY <3>5, <3>6, <3>7, <4>2
    <3> QED BY <1>6, <3>7, <3>8
  <2> QED BY <2>1, <2>2
<1>9. ASSUME t[d] = <<>> PROVE Joined(u) = Joined(t)
  <2>1. f[d - 1] \in Seq(Line) BY <1>0, <1>3
  <2>2. <<>> \o f[d - 1] = f[d - 1] BY <2>1, ConcatEmptySeq
  <2>3. f[d] = g[d] BY <1>6, <1>8, <1>9, <2>2
  <2>4. \A i \in Files : d < i /\ i <= Backups => t[i] = u[i]
    <3>1. \A i \in Files : d < i => i \in Files \ {d, d - 1} BY <1>0 DEF Files
    <3> QED BY <1>4, <3>1
  <2>5. \A n \in d..Backups : f[n] = g[n]
    <3>1. Agree(f, t, g, u, d, Backups) BY <1>7, <2>3, <2>4 DEF Agree
    <3> QED BY <1>7, <3>1, JoinsSame
  <2>6. Backups \in d..Backups BY <1>0 DEF Files
  <2> QED BY <1>1, <1>2, <2>5, <2>6
<1> QED BY <1>1, <1>2, <1>6, <1>8, <1>9

-----------------------------------------------------------------------------
(* The log file *)

(* Where the process with the log file is while it writes a line.            *)
Logging == {"running", "unlink", "close", "unlockSocket", "unlockDaemon", "closeLog"}

LogTypes ==
    /\ there \subseteq Files
    /\ text \in Texts
    /\ size \in Nat
    /\ turn \in 0..(Backups + 2)
    /\ lines \in 0..MaxLines

(* A line is under way only in a process that has not ended.                 *)
Pending ==
    turn # 0 => /\ at[Logger] \in Logging /\ line \in Line
                /\ \E k \in 1..MaxLines : line.len = Length[k]

(* r.size counts what the open file holds; a line goes to it that fits, or   *)
(* that has it for itself.                                                   *)
Sized ==
    /\ \A i \in Files \ there : text[i] = <<>>
    /\ open => size = Bytes(text[0]) /\ 0 \in there
    /\ turn \in 1..(Backups + 1) => ~open
    /\ turn = Backups + 2 => open /\ (size + line.len <= Limit \/ text[0] = <<>>)

(* A rotation has emptied the file it is about to rename to, except the      *)
(* oldest; the file it rotates, and so every older one, has no room for a    *)
(* line of some length.                                                      *)
Rotated ==
    /\ turn \in 2..(Backups + 1) => text[Backups + 1 - turn] = <<>>
    /\ turn \in 1..Backups => Bytes(text[0]) + line.len > Limit
    /\ \A i \in there \ {0} : \E k \in 1..MaxLines : Bytes(text[i]) + Length[k] > Limit

LogInv == LogTypes /\ Pending /\ Sized /\ Rotated /\ LogBounded

LEMMA LogConstants ==
    /\ Backups \in Nat /\ Limit \in Nat /\ MaxLines \in Nat /\ Keep \in Nat /\ Logger \in Proc
    /\ 0 \in Files /\ Backups \in Files /\ Files \subseteq Nat
    /\ \A k \in 1..MaxLines : Length[k] \in Nat
BY ServeAssumption DEF Files

LEMMA LineParts ==
    /\ \A l \in Line, n \in Nat : [l EXCEPT !.len = n] \in Line /\ [l EXCEPT !.len = n].len = n
    /\ \A k \in 1..MaxLines, n \in Nat : [id |-> k, len |-> n] \in Line /\ [id |-> k, len |-> n].len = n
<1>1. \A l \in Line, n \in Nat : [l EXCEPT !.len = n] \in Line /\ [l EXCEPT !.len = n].len = n BY Zenon DEF Line
<1>2. \A k \in 1..MaxLines, n \in Nat : [id |-> k, len |-> n] \in Line /\ [id |-> k, len |-> n].len = n BY DEF Line
<1> QED BY <1>1, <1>2, Zenon

(* A step that leaves the log alone.                                         *)
LEMMA LogFrame ==
    ASSUME LogInv, UNCHANGED logvars, at[Logger] \in Logging => at'[Logger] \in Logging
    PROVE  LogInv'
BY DEF LogInv, LogTypes, Pending, Sized, Rotated, LogBounded, logvars

(* The process starts, ends or dies.                                         *)
LEMMA LogOpens ==
    ASSUME LogInv, UNCHANGED <<there, text, size, turn, line, lines>>, turn = 0, open' => open
    PROVE  LogInv'
BY LogConstants DEF LogInv, LogTypes, Pending, Sized, Rotated, LogBounded

LEMMA LogWrites ==
    ASSUME LogInv, WriteLine, UNCHANGED at
    PROVE  LogInv'
<1>1. /\ lines + 1 \in 1..MaxLines /\ at[Logger] = "running" /\ turn = 0
      /\ lines' = lines + 1 /\ line' = [id |-> lines + 1, len |-> Length[lines + 1]]
      /\ UNCHANGED <<there, text, size>>
      /\ \/ open /\ size + Length[lines + 1] > Limit /\ ~open' /\ turn' = 1
         \/ open /\ size + Length[lines + 1] <= Limit /\ open' /\ turn' = Backups + 2
         \/ ~open /\ ~open' /\ turn' = 0
  BY LogConstants DEF WriteLine, LogInv, LogTypes
<1>2. line' \in Line /\ line'.len = Length[lines + 1] /\ Length[lines + 1] \in Nat BY <1>1, LogConstants, LineParts
<1>3. LogTypes'
  <2>1. turn' \in 0..(Backups + 2) BY <1>1, LogConstants
  <2> QED BY <1>1, <2>1, LogConstants DEF LogInv, LogTypes
<1>4. Pending' BY <1>1, <1>2 DEF Pending, Logging
<1>5. Sized' BY <1>1, <1>2, LogConstants DEF LogInv, Sized
<1>6. Rotated' BY <1>1, <1>2, LogConstants DEF LogInv, Rotated, Sized
<1>7. LogBounded' BY <1>1 DEF LogInv, LogBounded
<1> QED BY <1>3, <1>4, <1>5, <1>6, <1>7 DEF LogInv

(* A step of the rotation that fails: the file is closed for good.           *)
LEMMA LogFails ==
    ASSUME LogInv, GiveUp, UNCHANGED <<at, line, lines>>
    PROVE  LogInv'
BY LogConstants DEF GiveUp, LogInv, LogTypes, Pending, Sized, Rotated, LogBounded

(* A rename moves a file that is there one place up.                         *)
Moved(d) ==
    /\ d \in 1..Backups /\ turn = Backups + 1 - d /\ turn' = turn + 1
    /\ d - 1 \in there
    /\ there' = (there \ {d - 1}) \cup {d}
    /\ text' = [text EXCEPT ![d] = text[d - 1], ![d - 1] = <<>>]
    /\ UNCHANGED <<open, size>>

(* What a rename does.                                                       *)
LEMMA Renames ==
    ASSUME LogInv, Rename
    PROVE  /\ UNCHANGED <<line, lines>> /\ turn \in 1..Backups
           /\ \/ \E d \in 1..Backups : Moved(d)
              \/ Backups - turn \notin there /\ turn' = turn + 1 /\ UNCHANGED <<there, text, open, size>>
              \/ GiveUp
<1>1. turn \in 1..Backups /\ UNCHANGED <<line, lines>> BY DEF Rename
<1>2. PICK d \in 1..Backups : d = Order[turn] /\ d = Backups + 1 - turn /\ turn = Backups + 1 - d /\ d - 1 = Backups - turn
  <2>1. Order[turn] = Backups + 1 - turn BY <1>1 DEF Order
  <2>2. Backups + 1 - turn \in 1..Backups BY <1>1, LogConstants
  <2> QED BY <1>1, <2>1, <2>2, LogConstants
<1>3. \/ Moved(d)
      \/ d - 1 \notin there /\ turn' = turn + 1 /\ UNCHANGED <<there, text, open, size>>
      \/ GiveUp
  BY <1>2 DEF Rename, Moved
<1> QED BY <1>1, <1>2, <1>3

LEMMA LogMoved ==
    ASSUME LogInv, NEW d \in 1..Backups, Moved(d), UNCHANGED <<at, line, lines>>
    PROVE  LogInv'
<1>1. /\ d \in Files /\ d - 1 \in Files /\ d \in Nat /\ d # 0 /\ d - 1 # d /\ turn \in 1..Backups
      /\ (d - 1 = 0 <=> turn = Backups)
  BY LogConstants DEF Files, Moved
<1>2. /\ text'[d] = text[d - 1] /\ text'[d - 1] = <<>>
      /\ \A i \in Files \ {d, d - 1} : text'[i] = text[i]
  BY <1>1 DEF Moved, LogInv, LogTypes, Texts
<1>3. LogTypes'
  <2>1. text' \in Texts
    <3>1. text[d - 1] \in Seq(Line) /\ <<>> \in Seq(Line) BY <1>1 DEF LogInv, LogTypes, Texts
    <3> QED BY <3>1 DEF Moved, LogInv, LogTypes, Texts
  <2>2. turn' \in 0..(Backups + 2) BY <1>1, LogConstants DEF Moved
  <2> QED BY <1>1, <2>1, <2>2 DEF Moved, LogInv, LogTypes
<1>4. turn' = turn + 1 /\ turn # 0 /\ turn' # 0 /\ turn' \in 2..(Backups + 1) /\ Backups + 1 - turn' = d - 1
  BY <1>1, LogConstants DEF Moved
<1>5. Pending' BY <1>4 DEF LogInv, Pending
<1>6. ~open /\ ~open' BY <1>1, LogConstants DEF Moved, LogInv, Sized
<1>7. Sized'
  <2>1. \A i \in Files \ there' : text'[i] = <<>> BY <1>1, <1>2 DEF Moved, LogInv, Sized
  <2> QED BY <1>4, <1>6, <2>1, LogConstants DEF Sized
<1>8. Rotated'
  <2>1. \E k \in 1..MaxLines : Bytes(text[d - 1]) + Length[k] > Limit
    <3>1. CASE d - 1 = 0
      <4>1. Bytes(text[0]) + line.len > Limit BY <1>1 DEF LogInv, Rotated
      <4> QED BY <1>4, <3>1, <4>1 DEF LogInv, Pending
    <3>2. CASE d - 1 # 0 BY <3>2 DEF Moved, LogInv, Rotated
    <3> QED BY <3>1, <3>2
  <2>2. ASSUME NEW i \in there' \ {0} PROVE \E k \in 1..MaxLines : Bytes(text'[i]) + Length[k] > Limit
    <3>1. CASE i = d BY <1>2, <2>1, <3>1
    <3>2. CASE i # d
      <4>1. i \in there \ {0} /\ i \in Files \ {d, d - 1} BY <3>2 DEF Moved, LogInv, LogTypes
      <4> QED BY <1>2, <4>1 DEF LogInv, Rotated
    <3> QED BY <3>1, <3>2
  <2>3. text'[Backups + 1 - turn'] = <<>> BY <1>2, <1>4
  <2>4. turn' \in 1..Backups => Bytes(text'[0]) + line'.len > Limit
    <3>1. ASSUME turn' \in 1..Backups PROVE 0 \in Files \ {d, d - 1} BY <1>1, <1>4, <3>1, LogConstants
    <3>2. ASSUME turn' \in 1..Backups PROVE text'[0] = text[0] BY <1>2, <3>1, <3>2
    <3> QED BY <1>1, <3>2 DEF LogInv, Rotated
  <2> QED BY <2>2, <2>3, <2>4 DEF Rotated
<1>9. LogBounded'
  <2>1. Bytes(<<>>) <= Limit BY BytesEmpty, LogConstants
  <2>2. ASSUME NEW i \in Files PROVE Bytes(text'[i]) <= Limit \/ Len(text'[i]) <= 1
    <3>1. text'[i] = <<>> \/ \E j \in Files : text'[i] = text[j] BY <1>1, <1>2
    <3> QED BY <2>1, <3>1 DEF LogInv, LogBounded
  <2> QED BY <2>2 DEF LogBounded
<1> QED BY <1>3, <1>5, <1>7, <1>8, <1>9 DEF LogInv

LEMMA LogRenames ==
    ASSUME LogInv, Rename, UNCHANGED at
    PROVE  LogInv'
<1>1. UNCHANGED <<line, lines>> /\ turn \in 1..Backups BY Renames
<1>2. CASE \E d \in 1..Backups : Moved(d) BY <1>1, <1>2, LogMoved
<1>3. CASE GiveUp BY <1>1, <1>3, LogFails
<1>4. CASE Backups - turn \notin there /\ turn' = turn + 1 /\ UNCHANGED <<there, text, open, size>>
  <2>1. /\ turn' \in 2..(Backups + 1) /\ turn' # 0 /\ turn' # Backups + 2 /\ Backups + 1 - turn' = Backups - turn
        /\ Backups - turn \in Files /\ turn # 0
    BY <1>1, <1>4, LogConstants DEF Files
  <2>2. LogTypes' BY <1>1, <1>4, LogConstants DEF LogInv, LogTypes
  <2>3. Pending' BY <1>1, <2>1 DEF LogInv, Pending
  <2>4. text[Backups - turn] = <<>> BY <1>4, <2>1 DEF LogInv, Sized
  <2>5. Sized' BY <1>1, <1>4, <2>1, LogConstants DEF LogInv, Sized
  <2>6. Rotated' BY <1>1, <1>4, <2>1, <2>4 DEF LogInv, Rotated
  <2>7. LogBounded' BY <1>4 DEF LogInv, LogBounded
  <2> QED BY <2>2, <2>3, <2>5, <2>6, <2>7 DEF LogInv
<1> QED BY <1>2, <1>3, <1>4, Renames

LEMMA LogOpensNew ==
    ASSUME LogInv, OpenNew, UNCHANGED at
    PROVE  LogInv'
<1>1. turn = Backups + 1 /\ UNCHANGED <<line, lines>> BY DEF OpenNew
<1>2. CASE GiveUp BY <1>1, <1>2, LogFails
<1>3. CASE ~GiveUp
  <2>1. 0 \notin there /\ there' = there \cup {0} /\ open' /\ size' = 0 /\ turn' = Backups + 2 /\ UNCHANGED text
    BY <1>3 DEF OpenNew
  <2>2. text[0] = <<>> BY <2>1, LogConstants DEF LogInv, Sized
  <2>3. LogTypes' BY <1>1, <2>1, LogConstants DEF LogInv, LogTypes
  <2>4. Pending' BY <1>1, <2>1, LogConstants DEF LogInv, Pending
  <2>5. Sized' BY <2>1, <2>2, BytesEmpty, LogConstants DEF LogInv, Sized
  <2>6. Rotated' BY <2>1, LogConstants DEF LogInv, Rotated
  <2>7. LogBounded' BY <2>1 DEF LogInv, LogBounded
  <2> QED BY <2>3, <2>4, <2>5, <2>6, <2>7 DEF LogInv
<1> QED BY <1>2, <1>3

(* A line, or a part of one, at the end of the current file.                 *)
LEMMA LogPuts ==
    ASSUME LogInv, Put, UNCHANGED at
    PROVE  LogInv'
<1>1. turn = Backups + 2 /\ turn # 0 /\ turn' = 0 /\ UNCHANGED <<there, open, line, lines>> BY LogConstants DEF Put
<1>2. PICK n \in 0..line.len :
        /\ text' = IF n = 0 THEN text ELSE [text EXCEPT ![0] = Append(text[0], [line EXCEPT !.len = n])]
        /\ size' = size + n
  BY DEF Put
<1>3. line \in Line /\ line.len \in Nat /\ n \in Nat /\ n <= line.len BY <1>1, LineLength DEF LogInv, Pending
<1>4. open /\ size = Bytes(text[0]) /\ 0 \in there /\ (size + line.len <= Limit \/ text[0] = <<>>)
  BY <1>1 DEF LogInv, Sized
<1>5. text \in Texts /\ text[0] \in Seq(Line) /\ size \in Nat BY LogConstants DEF LogInv, LogTypes, Texts
<1>6. text' \in Texts /\ Bytes(text'[0]) = size + n /\ (n = 0 \/ Len(text'[0]) = Len(text[0]) + 1)
      /\ \A i \in Files \ {0} : text'[i] = text[i]
  <2>1. CASE n = 0 BY <1>2, <1>4, <1>5, <2>1
  <2>2. CASE n # 0
    <3> DEFINE l == [line EXCEPT !.len = n]
    <3>1. l \in Line /\ l.len = n BY <1>3, LineParts, Zenon
    <3>2. text' = [text EXCEPT ![0] = Append(text[0], l)] BY <1>2, <2>2
    <3> HIDE DEF l
    <3>3. Append(text[0], l) \in Seq(Line) /\ Len(Append(text[0], l)) = Len(text[0]) + 1 BY <1>5, <3>1
    <3>4. Bytes(Append(text[0], l)) = size + n BY <1>4, <1>5, <3>1, BytesAppend
    <3>5. text'[0] = Append(text[0], l) /\ \A i \in Files \ {0} : text'[i] = text[i]
      BY <1>5, <3>2, LogConstants DEF Texts
    <3>6. text' \in Texts BY <1>5, <3>2, <3>3 DEF Texts
    <3> QED BY <3>3, <3>4, <3>5, <3>6
  <2> QED BY <2>1, <2>2
<1>7. LogTypes' BY <1>1, <1>2, <1>3, <1>5, <1>6, LogConstants DEF LogInv, LogTypes
<1>8. Pending' BY <1>1 DEF Pending
<1>9. Sized' BY <1>1, <1>2, <1>4, <1>6, LogConstants DEF LogInv, Sized
<1>10. Rotated'
  <2>1. \A i \in there \ {0} : i \in Files \ {0} BY DEF LogInv, LogTypes
  <2>2. there' = there /\ turn' \notin 1..Backups /\ turn' \notin 2..(Backups + 1) BY <1>1
  <2>3. \A i \in there \ {0} : \E k \in 1..MaxLines : Bytes(text'[i]) + Length[k] > Limit
    BY <1>6, <2>1 DEF LogInv, Rotated
  <2> QED BY <2>2, <2>3 DEF Rotated
<1>11. LogBounded'
  <2>1. Bytes(text'[0]) <= Limit \/ Len(text'[0]) <= 1
    <3>1. CASE size + line.len <= Limit BY <1>3, <1>5, <1>6, <3>1, LogConstants
    <3>2. CASE text[0] = <<>> /\ n # 0 
      <4>1. Len(text[0]) = 0 BY <3>2
      <4>2. Len(text'[0]) = Len(text[0]) + 1 BY <1>6, <3>2
      <4> QED BY <4>1, <4>2
    <3>3. CASE text[0] = <<>> /\ n = 0 BY <1>4, <1>5, <1>6, <3>3, BytesEmpty, LogConstants
    <3> QED BY <1>4, <3>1, <3>2, <3>3
  <2> QED BY <1>6, <2>1 DEF LogInv, LogBounded
<1> QED BY <1>7, <1>8, <1>9, <1>10, <1>11 DEF LogInv

(* The process that has the log file leaves the places where it writes only  *)
(* by closing the file or by dying.                                          *)
LEMMA StaysLogging ==
    ASSUME ControlInv, NEW p \in Proc,
           StartInit(p) \/ StartServe(p) \/ LoadCa(p) \/ InitStep(p) \/ ControlStep(p) \/ Stop(p)
    PROVE  at[Logger] \in Logging => at'[Logger] \in Logging
<1> USE DEF Goto, Logging
<1>1. at \in [Proc -> Steps] /\ Logger \in Proc BY LogConstants DEF ControlInv
<1> USE <1>1
<1>2. CASE StartInit(p) \/ StartServe(p) BY <1>2 DEF StartInit, InitBegins, StartServe
<1>3. CASE LoadCa(p) BY <1>3 DEF LoadCa
<1>4. CASE InitStep(p)
  BY <1>4 DEF InitStep, InitLstat, RemoveKey, ExclusiveOpen, ExclusiveWrite, ExclusiveSync, ExclusiveUndo,
              Goes, Fails, Succeeds
<1>5. CASE ControlStep(p) \/ Stop(p)
  BY <1>5 DEF ControlStep, LockDaemon, LockSocket, TakeLock, LstatSocket, DialSocket, RemoveSocket, Bind,
              ListenSocket, Chmod, ListenTcp, Unlink, CloseSocket, UnlockSocket, UnlockDaemon, FreeLock, Stop
<1> QED BY <1>2, <1>3, <1>4, <1>5

LEMMA NextLogInv == ControlInv /\ LogInv /\ [Next]_vars => LogInv'
<1> SUFFICES ASSUME ControlInv, LogInv, [Next]_vars PROVE LogInv' OBVIOUS
<1>1. ASSUME NEW p \in Proc, UNCHANGED logvars,
             StartInit(p) \/ StartServe(p) \/ LoadCa(p) \/ InitStep(p) \/ ControlStep(p) \/ Stop(p)
      PROVE  LogInv'
  BY <1>1, StaysLogging, LogFrame
<1>2. ASSUME NEW p \in Proc, OpenLog(p) PROVE LogInv'
  <2>1. at[p] = "openLog" /\ at \in [Proc -> Steps] BY <1>2 DEF OpenLog, Goto, ControlInv
  <2>2. CASE p # Logger
    <3>1. UNCHANGED logvars /\ at'[Logger] = at[Logger]
      BY <1>2, <2>1, <2>2, LogConstants DEF OpenLog, Goto
    <3> QED BY <3>1, LogFrame
  <2>3. CASE p = Logger
    <3>1. turn = 0 BY <2>1, <2>3 DEF LogInv, Pending, Logging
    <3>2. CASE UNCHANGED logvars
      <4>1. UNCHANGED <<there, text, size, turn, line, lines>> /\ open' = open BY <3>2 DEF logvars
      <4> QED BY <3>1, <4>1, LogOpens
    <3>3. CASE ~UNCHANGED logvars
      <4>1. there' = there \cup {0} /\ open' /\ size' = Bytes(text[0]) /\ UNCHANGED <<text, turn, line, lines>>
        BY <1>2, <2>3, <3>3 DEF OpenLog, SizeFound
      <4>2. Bytes(text[0]) \in Nat BY LogConstants, PlacesAre DEF LogInv, LogTypes, Texts
      <4>3. LogTypes' BY <4>1, <4>2, LogConstants DEF LogInv, LogTypes
      <4>4. turn' = 0 /\ ~(turn' = Backups + 2) /\ ~(turn' \in 1..(Backups + 1)) /\ ~(turn' \in 1..Backups)
            /\ ~(turn' \in 2..(Backups + 1))
        BY <3>1, <4>1, LogConstants
      <4>5. Pending' /\ Sized' BY <4>1, <4>4 DEF LogInv, Pending, Sized
      <4>6. Rotated' BY <4>1, <4>4 DEF LogInv, Rotated
      <4>7. LogBounded' BY <4>1 DEF LogInv, LogBounded
      <4> QED BY <4>3, <4>5, <4>6, <4>7 DEF LogInv
    <3> QED BY <3>2, <3>3
  <2> QED BY <2>2, <2>3
<1>3. ASSUME NEW p \in Proc, CloseLog(p) \/ Dies(p) PROVE LogInv'
  <2>1. /\ at \in [Proc -> Steps] /\ at' = [at EXCEPT ![p] = "idle"]
        /\ UNCHANGED <<there, text, size, line, lines>>
        /\ open' = (open /\ p # Logger)
        /\ IF p = Logger THEN turn' = 0 ELSE turn' = turn
    BY <1>3 DEF CloseLog, Dies, RotatorDies, Goto, ControlInv
  <2>2. CASE p # Logger
    <3>1. /\ UNCHANGED <<there, text, size, turn, line, lines>> /\ at'[Logger] = at[Logger]
          /\ open' <=> open
      BY <2>1, <2>2, LogConstants
    <3> QED BY <3>1 DEF LogInv, LogTypes, Pending, Sized, Rotated, LogBounded
  <2>3. CASE p = Logger
    <3>1. turn' = 0 /\ ~open' /\ UNCHANGED <<there, text, size, line, lines>> BY <2>1, <2>3
    <3>2. turn' \notin 1..Backups /\ turn' \notin 1..(Backups + 1) /\ turn' \notin 2..(Backups + 1)
          /\ turn' # Backups + 2 /\ turn' \in 0..(Backups + 2)
      BY <3>1, LogConstants
    <3> QED BY <3>1, <3>2 DEF LogInv, LogTypes, Pending, Sized, Rotated, LogBounded
  <2> QED BY <2>2, <2>3
<1>4. CASE LogStep
  <2>1. UNCHANGED at /\ (WriteLine \/ Rename \/ OpenNew \/ Put) BY <1>4 DEF LogStep, RotatorStep
  <2> QED BY <2>1, LogWrites, LogRenames, LogOpensNew, LogPuts
<1>5. CASE UNCHANGED vars
  <2>1. UNCHANGED logvars /\ UNCHANGED at BY <1>5 DEF vars
  <2> QED BY <2>1, LogFrame
<1>6. ASSUME NEW p \in Proc, StartInit(p) \/ StartServe(p) \/ ServeStep(p) \/ StopServe(p) PROVE LogInv'
  <2>1. CASE StartInit(p) \/ StartServe(p) \/ StopServe(p)
    <3>1. UNCHANGED logvars BY <2>1 DEF StartInit, StartServe, StopServe, others
    <3> QED BY <1>1, <2>1, <3>1 DEF StopServe
  <2>2. CASE ServeStep(p)
    <3>1. CASE LoadCa(p) BY <1>1, <3>1 DEF LoadCa, others
    <3>2. CASE InitStep(p) /\ UNCHANGED <<ctlvars, logvars, svcvars>> BY <1>1, <3>2
    <3>3. CASE ControlStep(p) /\ UNCHANGED <<cavars, logvars, svcvars>> BY <1>1, <3>3
    <3>4. CASE OpenLog(p) \/ CloseLog(p) BY <1>2, <1>3, <3>4
    <3> QED BY <2>2, <3>1, <3>2, <3>3, <3>4 DEF ServeStep
  <2> QED BY <1>6, <2>1, <2>2
<1>7. CASE Manage
  <2>1. UNCHANGED logvars
    BY <1>7 DEF Manage, ManagerStarts, ManagerGivesUp, IntervalEnds, OperatorStarts, Loads
  <2>2. CASE ManagerStarts \/ OperatorStarts
    <3>1. Unit \in Proc /\ at \in [Proc -> Steps] BY ServeAssumption DEF ControlInv
    <3>2. at[Unit] = "idle" /\ at' = [at EXCEPT ![Unit] = "load"]
      BY <2>2 DEF ManagerStarts, OperatorStarts, Loads, Goto
    <3>3. at[Logger] \in Logging => at'[Logger] \in Logging BY <3>1, <3>2, LogConstants DEF Logging
    <3> QED BY <2>1, <3>3, LogFrame
  <2>3. CASE ManagerGivesUp \/ IntervalEnds
    BY <2>1, <2>3, LogFrame DEF ManagerGivesUp, IntervalEnds
  <2> QED BY <1>7, <2>2, <2>3 DEF Manage
<1> QED BY <1>3, <1>4, <1>5, <1>6, <1>7 DEF Next

LEMMA LogInvAlways == Spec => []LogInv
<1>1. Init => LogInv
  <2> SUFFICES ASSUME Init PROVE LogInv OBVIOUS
  <2>1. /\ there = {} /\ text = [i \in Files |-> <<>>] /\ open = FALSE /\ size = 0 /\ turn = 0 /\ lines = 0
    BY DEF Init, RotatorFirst
  <2>2. \A i \in Files : text[i] = <<>> BY <2>1
  <2>3. text \in Texts
    <3>1. <<>> \in Seq(Line) OBVIOUS
    <3> QED BY <2>1, <3>1 DEF Texts
  <2>4. LogTypes BY <2>1, <2>3, LogConstants DEF LogTypes
  <2>5. Pending /\ Sized /\ Rotated BY <2>1, <2>2, LogConstants DEF Pending, Sized, Rotated
  <2>6. LogBounded BY <2>2, BytesEmpty, LogConstants DEF LogBounded
  <2> QED BY <2>4, <2>5, <2>6 DEF LogInv
<1> QED BY <1>1, NextLogInv, InvAlways, PTL DEF Spec

(* However rotations fail and processes die and start again, no file of the  *)
(* log is longer than the limit unless it is a single line: r.size is what   *)
(* the file holds, and nothing else writes to it (rotate.go:18-63).          *)
THEOREM LogAlwaysBounded == Spec => []LogBounded
BY LogInvAlways, PTL DEF LogInv

-----------------------------------------------------------------------------
(* The log as a whole *)

(* It holds at least the current file and any one of the others.             *)
LEMMA JoinedBytes ==
    ASSUME NEW t \in Texts
    PROVE  \A i \in 1..Backups : Bytes(Joined(t)) >= Bytes(t[i]) + Bytes(t[0])
<1>1. PICK f \in Texts : Joins(f, t) /\ Joined(t) = f[Backups] BY JoinedIs
<1>2. \A i \in Files : /\ f[i] \in Seq(Line) /\ t[i] \in Seq(Line)
                       /\ Bytes(f[i]) \in Nat /\ Bytes(t[i]) \in Nat
  BY PlacesAre DEF Texts
<1>3. f[0] = t[0] /\ \A i \in Files \ {0} : f[i] = t[i] \o f[i - 1] BY <1>1, LogConstants DEF Joins, Texts
<1> DEFINE Holds(n) == /\ Bytes(f[n]) >= Bytes(t[0])
                       /\ \A i \in 1..n : Bytes(f[n]) >= Bytes(t[i]) + Bytes(t[0])
           Bad == { n \in Files : ~Holds(n) }
<1>4. Holds(0) BY <1>2, <1>3, LogConstants
<1>5. ASSUME NEW n \in Files \ {0}, Holds(n - 1) PROVE Holds(n)
  <2>1. n - 1 \in Files BY LogConstants DEF Files
  <2>2. Bytes(f[n]) = Bytes(t[n]) + Bytes(f[n - 1]) BY <1>2, <1>3, <2>1, BytesConcat
  <2>3. Bytes(t[0]) \in Nat /\ Bytes(t[n]) \in Nat /\ Bytes(f[n - 1]) \in Nat /\ \A i \in 1..n : Bytes(t[i]) \in Nat
    <3>1. \A i \in 1..n : i \in Files BY LogConstants DEF Files
    <3> QED BY <1>2, <2>1, <3>1, LogConstants
  <2>4. Bytes(f[n]) >= Bytes(t[0]) /\ Bytes(f[n]) >= Bytes(t[n]) + Bytes(t[0]) /\ Bytes(f[n]) >= Bytes(f[n - 1])
    BY <1>5, <2>2, <2>3
  <2>5. ASSUME NEW i \in 1..n PROVE Bytes(f[n]) >= Bytes(t[i]) + Bytes(t[0])
    <3>1. CASE i = n BY <2>4, <3>1
    <3>2. CASE i # n
      <4>1. i \in 1..(n - 1) BY <3>2, LogConstants
      <4>2. Bytes(f[n - 1]) >= Bytes(t[i]) + Bytes(t[0]) BY <1>5, <4>1
      <4> QED BY <2>2, <2>3, <4>2
    <3> QED BY <3>1, <3>2
  <2> QED BY <2>4, <2>5
<1>6. Bad = {}
  <2> SUFFICES ASSUME Bad # {} PROVE FALSE OBVIOUS
  <2>1. Bad \subseteq Nat BY LogConstants
  <2>2. PICK n \in Bad : \A j \in Bad : n <= j BY <2>1, LeastNat
  <2>3. n \in Files \ {0} BY <1>4, <2>2
  <2>4. n - 1 \in Files /\ n - 1 \notin Bad BY <2>1, <2>2, <2>3, LogConstants DEF Files
  <2>5. Holds(n - 1) BY <2>4
  <2> HIDE DEF Holds
  <2> QED BY <1>5, <2>2, <2>3, <2>5
<1>7. Holds(Backups)
  <2> HIDE DEF Holds
  <2> QED BY <1>6, LogConstants
<1> QED BY <1>1, <1>7

LEMMA SuffixOfConcat ==
    ASSUME NEW a \in Seq(Line), NEW b \in Seq(Line)
    PROVE  Log!IsSuffix(b, a \o b)
<1> DEFINE c == a \o b
<1>1. /\ Len(a) \in Nat /\ Len(b) \in Nat /\ Len(c) = Len(a) + Len(b) /\ c \in Seq(Line)
      /\ \A i \in 1..Len(b) : c[Len(a) + i] = b[i]
  OBVIOUS
<1> HIDE DEF c
<1> DEFINE rb == [i \in 1..Len(b) |-> b[(Len(b) - i) + 1]]
           rc == [i \in 1..Len(c) |-> c[(Len(c) - i) + 1]]
<1>2. rb \in Seq(Line) /\ Len(rb) = Len(b)
  <2>1. \A i \in 1..Len(b) : b[(Len(b) - i) + 1] \in Line BY <1>1
  <2> QED BY <1>1, <2>1
<1>3. rc \in Seq(Line) /\ Len(rc) = Len(c)
  <2>1. \A i \in 1..Len(c) : c[(Len(c) - i) + 1] \in Line BY <1>1
  <2> QED BY <1>1, <2>1
<1>4. \A i \in 1..Len(b) : rb[i] = rc[i]
  <2> SUFFICES ASSUME NEW i \in 1..Len(b) PROVE rb[i] = rc[i] OBVIOUS
  <2>1. (Len(b) - i) + 1 \in 1..Len(b) /\ (Len(c) - i) + 1 = Len(a) + ((Len(b) - i) + 1) /\ i \in 1..Len(c) BY <1>1
  <2>2. c[(Len(c) - i) + 1] = b[(Len(b) - i) + 1] BY <1>1, <2>1
  <2> QED BY <2>1, <2>2
<1>5. rb = Log!Reverse(b) /\ rc = Log!Reverse(c) BY DEF Log!Reverse
<1> HIDE DEF rb, rc
<1>6. SubSeq(rb, 1, Len(rb)) = SubSeq(rc, 1, Len(rb)) BY <1>1, <1>2, <1>3, <1>4
<1>7. Log!IsPrefix(rb, rc) BY <1>1, <1>2, <1>3, <1>6 DEF Log!IsPrefix
<1> QED BY <1>5, <1>7 DEF Log!IsSuffix, c

(* What rotation never gives up: with one backup the file that is rotated,   *)
(* with more of them two files, however many renames have failed before. A   *)
(* rotated file is short of the limit by less than some line.                *)
Guaranteed ==
    \/ Keep = 0
    \/ \A j, k \in 1..MaxLines :
         IF Backups = 1 THEN Keep + Length[j] <= Limit + 1
                        ELSE Keep + Length[j] + Length[k] <= 2 * (Limit + 1)

(* A line at the end of the current file is one at the end of the log.       *)
LEMMA PutGrows ==
    ASSUME LogInv, Put
    PROVE  Log!Grow \/ UNCHANGED Joined(text)
<1>1. PICK n \in 0..line.len :
        text' = IF n = 0 THEN text ELSE [text EXCEPT ![0] = Append(text[0], [line EXCEPT !.len = n])]
  BY DEF Put
<1>2. line \in Line /\ n \in Nat BY LineLength, LogConstants DEF Put, LogInv, Pending
<1>3. text \in Texts /\ text[0] \in Seq(Line) BY LogConstants DEF LogInv, LogTypes, Texts
<1>4. CASE n = 0
  <2>1. text' = text BY <1>1, <1>4
  <2> QED BY <2>1
<1>5. CASE n # 0
  <2> DEFINE l == [line EXCEPT !.len = n]
  <2>1. l \in Line BY <1>2, LineParts, Zenon
  <2>2. text' = [text EXCEPT ![0] = Append(text[0], l)] BY <1>1, <1>5
  <2> HIDE DEF l
  <2>3. text' \in Texts
    <3>1. Append(text[0], l) \in Seq(Line) BY <1>3, <2>1
    <3> QED BY <1>3, <2>2, <3>1 DEF Texts
  <2>4. Joined(text) \in Seq(Line) /\ Joined(text') = Append(Joined(text), l) BY <1>3, <2>1, <2>2, <2>3, JoinedAppend
  <2> DEFINE old == Joined(text)
             new == Append(old, l)
  <2> HIDE DEF old
  <2>5. old \in Seq(Line) BY <2>4 DEF old
  <2>6. Len(new) = Len(old) + 1 /\ new[Len(new)] = l /\ Len(old) <= Len(new)
        /\ SubSeq(old, 1, Len(old)) = SubSeq(new, 1, Len(old))
    BY <2>1, <2>5
  <2>7. Joined(text)' = new /\ Joined(text) = old BY <2>4 DEF old
  <2> HIDE DEF new
  <2> QED BY <2>1, <2>6, <2>7 DEF Log!Grow, Log!IsPrefix, Log!Last
<1> QED BY <1>4, <1>5

(* A rename leaves the log as it is, except that the first one of a rotation *)
(* may give up the oldest file.                                              *)
LEMMA RenameForgets ==
    ASSUME LogInv, Guaranteed, Rename
    PROVE  Log!Forget \/ UNCHANGED Joined(text)
<1>1. CASE UNCHANGED text BY <1>1
<1>2. ASSUME NEW d \in 1..Backups, Moved(d) PROVE Log!Forget \/ UNCHANGED Joined(text)
  <2>1. /\ d \in Files /\ d - 1 \in Files /\ d \in Nat \ {0} /\ turn = Backups + 1 - d /\ turn \in 1..Backups
        /\ 0 \in Files /\ Backups \in Nat /\ Limit \in Nat /\ Keep \in Nat
    BY <1>2, LogConstants DEF Files, Moved
  <2>2. text \in Texts /\ text' \in Texts /\ text' = [text EXCEPT ![d] = text[d - 1], ![d - 1] = <<>>]
    <3>1. text \in Texts BY DEF LogInv, LogTypes
    <3>2. text[d - 1] \in Seq(Line) /\ <<>> \in Seq(Line) BY <2>1, <3>1 DEF Texts
    <3> QED BY <1>2, <2>1, <3>1, <3>2 DEF Moved, Texts
  <2>3. /\ text[d] = <<>> => Joined(text') = Joined(text)
        /\ d = Backups => Joined(text) = text[d] \o Joined(text')
    BY <2>2, JoinedRename
  <2>4. CASE text[d] = <<>>
    <3>1. Joined(text') = Joined(text) BY <2>3, <2>4
    <3> QED BY <3>1
  <2>5. CASE text[d] # <<>>
    <3>1. d = Backups
      <4>1. turn \notin 2..(Backups + 1)
        <5>1. turn \in 2..(Backups + 1) => text[Backups + 1 - turn] = <<>> BY DEF LogInv, Rotated
        <5>2. Backups + 1 - turn = d BY <2>1
        <5> QED BY <2>5, <5>1, <5>2
      <4> QED BY <2>1, <4>1
    <3>2. Joined(text) = text[d] \o Joined(text') BY <2>3, <3>1
    <3>3. text[d] \in Seq(Line) /\ Joined(text') \in Seq(Line)
      <4>1. PICK f \in Texts : Joins(f, text') /\ Joined(text') = f[Backups] BY <2>2, JoinedIs
      <4>2. Backups \in Files BY LogConstants DEF Files
      <4>3. Joined(text') \in Seq(Line) BY <4>1, <4>2 DEF Texts
      <4> QED BY <2>1, <2>2, <4>3 DEF Texts
    <3>4. Len(Joined(text')) < Len(Joined(text)) BY <2>5, <3>2, <3>3
    <3>5. Log!IsSuffix(Joined(text'), Joined(text)) BY <3>2, <3>3, SuffixOfConcat
    <3>6. Bytes(Joined(text')) >= Keep
      <4>1. text'[d] = text[d - 1] /\ text'[d - 1] = <<>> /\ (d # 1 => text'[0] = text[0]) BY <2>1, <2>2 DEF Texts
      <4>2. Bytes(Joined(text')) >= Bytes(text'[d]) + Bytes(text'[0]) BY <2>2, JoinedBytes
      <4>3. Bytes(text[d - 1]) \in Nat /\ Bytes(text[0]) \in Nat /\ Bytes(Joined(text')) \in Nat
        BY <2>1, <2>2, <3>3, PlacesAre DEF Texts
      <4>4. PICK j \in 1..MaxLines : Bytes(text[0]) + Length[j] > Limit BY <2>1 DEF LogInv, Rotated, Pending
      <4>5. CASE d = 1
        <5>1. text'[d] = text[0] /\ text'[0] = <<>> BY <4>1, <4>5
        <5>2. Bytes(Joined(text')) >= Bytes(text[0]) BY <4>2, <4>3, <5>1, BytesEmpty
        <5>3. Keep = 0 \/ Keep + Length[j] <= Limit + 1 BY <3>1, <4>5 DEF Guaranteed
        <5>4. Length[j] \in Nat BY LogConstants
        <5> QED BY <2>1, <4>3, <4>4, <5>2, <5>3, <5>4
      <4>6. CASE d # 1
        <5>1. d - 1 \in there \ {0} BY <1>2, <2>1, <4>6 DEF Moved
        <5>2. PICK k \in 1..MaxLines : Bytes(text[d - 1]) + Length[k] > Limit BY <5>1 DEF LogInv, Rotated
        <5>3. Keep = 0 \/ Keep + Length[j] + Length[k] <= 2 * (Limit + 1) BY <3>1, <4>6 DEF Guaranteed
        <5>4. Length[j] \in Nat /\ Length[k] \in Nat BY LogConstants
        <5>5. Bytes(Joined(text')) >= Bytes(text[d - 1]) + Bytes(text[0]) BY <4>1, <4>2, <4>6
        <5> QED BY <2>1, <4>3, <4>4, <5>2, <5>3, <5>4, <5>5
      <4> QED BY <4>5, <4>6
    <3> QED BY <3>4, <3>5, <3>6 DEF Log!Forget
  <2> QED BY <2>4, <2>5
<1> QED BY <1>1, <1>2, Renames DEF GiveUp

(* The log only grows at its end, a line or a part of one at a time, and     *)
(* loses only its oldest lines, of which it keeps what Guaranteed says: with *)
(* the 3 backups and the 10 MiB of the code, two files however many renames  *)
(* fail and wherever the process dies (rotate.go:36-63).                     *)
THEOREM LogAlwaysAppends ==
    ASSUME Guaranteed
    PROVE  Spec => LogAppends
<1>1. Init => Log!Init
  <2> SUFFICES ASSUME Init PROVE Joined(text) = <<>> BY DEF Log!Init
  <2>1. text = [i \in Files |-> <<>>] BY DEF Init, RotatorFirst
  <2> DEFINE none == [i \in Files |-> <<>>]
  <2>2. none \in Texts /\ \A i \in Files : none[i] = <<>>
    <3>1. <<>> \in Seq(Line) OBVIOUS
    <3> QED BY <3>1 DEF Texts
  <2> HIDE DEF none
  <2>3. PICK f \in Texts : Joins(f, none) /\ Joined(none) = f[Backups] BY <2>2, JoinedIs
  <2>4. \A i \in Files : f[i] = IF i = 0 THEN none[0] ELSE none[i] \o f[i - 1] BY <2>3 DEF Joins, Texts
  <2>5. Joins(none, none)
    <3>1. <<>> \o <<>> = <<>> OBVIOUS
    <3>2. \A i \in Files : i = 0 \/ i - 1 \in Files BY LogConstants DEF Files
    <3>3. DOMAIN none = Files BY <2>2 DEF Texts
    <3> QED BY <2>2, <3>1, <3>2, <3>3, LogConstants DEF Joins
  <2>6. Agree(f, none, none, none, 0, Backups) BY <2>2, <2>3, <2>4, <2>5, LogConstants DEF Agree
  <2>7. \A n \in 0..Backups : f[n] = none[n] BY <2>2, <2>6, JoinsSame, LogConstants
  <2>8. f[Backups] = <<>> BY <2>2, <2>7, LogConstants
  <2> QED BY <2>1, <2>3, <2>8 DEF none
<1>2. LogInv /\ [Next]_vars => [Log!Grow \/ Log!Forget]_(Joined(text))
  <2> SUFFICES ASSUME LogInv, [Next]_vars PROVE Log!Grow \/ Log!Forget \/ UNCHANGED Joined(text) OBVIOUS
  <2>1. CASE UNCHANGED text BY <2>1
  <2>2. CASE LogStep
    <3>1. CASE WriteLine \/ OpenNew BY <2>1, <3>1 DEF WriteLine, OpenNew, GiveUp
    <3> QED BY <2>2, <3>1, PutGrows, RenameForgets DEF LogStep, RotatorStep
  <2>3. ASSUME NEW p \in Proc, StartInit(p) \/ StartServe(p) \/ ServeStep(p) \/ StopServe(p) \/ Dies(p)
        PROVE  UNCHANGED text
    BY <2>3 DEF StartInit, StartServe, ServeStep, StopServe, Dies, LoadCa, OpenLog, CloseLog, RotatorDies, others, logvars
  <2>4. CASE UNCHANGED vars BY <2>1, <2>4 DEF vars, logvars
  <2>5. CASE Manage
    BY <2>1, <2>5 DEF Manage, ManagerStarts, ManagerGivesUp, IntervalEnds, OperatorStarts, Loads, logvars
  <2> QED BY <2>1, <2>2, <2>3, <2>4, <2>5 DEF Next
<1> QED BY <1>1, <1>2, LogInvAlways, PTL DEF Spec, LogAppends, Log!Spec
=============================================================================
