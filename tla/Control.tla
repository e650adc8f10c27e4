------------------------------- MODULE Control -------------------------------
(***************************************************************************)
(* How a daemon takes and leaves its control socket: the locks of          *)
(* Server.Run (internal/proxy/server.go) and control.Listen                *)
(* (internal/control/control.go). Daemons with state directories of their  *)
(* own may be configured with one control socket. The operating system     *)
(* (external) frees the locks and sockets of a process that dies, and      *)
(* leaves the name of the socket behind. net.Listen binds, which creates   *)
(* the name, and then listens; Close removes the name, and then closes.    *)
(***************************************************************************)
EXTENDS Syscalls

CONSTANT StateDir             \* [Proc -> directories]

VARIABLES
    held,         \* who has each lock
    path,         \* what the control path names: [kind, by]
    listening     \* processes whose socket accepts

ctlvars == <<held, path, listening>>

Locks == { StateDir[p] : p \in Proc } \cup {"socket"}
NoPath == [kind |-> "none", by |-> Nobody]
Socket(p) == [kind |-> "socket", by |-> p]

-----------------------------------------------------------------------------
(* fsutil.Lock does not wait.                                                *)
GrantsAlways(l) == TRUE                    \* Mutant: the lock is not exclusive
Grants(l) == held[l] = Nobody

TakeLock(p, l, from, good, bad) ==
    /\ \/ Goto(p, from, good) /\ Grants(l) /\ held' = [held EXCEPT ![l] = p]
       \/ Goto(p, from, bad) /\ ~Grants(l) /\ UNCHANGED held
    /\ NoFault /\ UNCHANGED <<path, listening>>

FreeLock(p, l, from, next) ==
    /\ Goto(p, from, next)
    /\ held' = [held EXCEPT ![l] = Nobody]
    /\ NoFault /\ UNCHANGED <<path, listening>>

LockDaemon(p) == TakeLock(p, StateDir[p], "lockDaemon", "lockSocket", "closeLog")
LockSocket(p) == TakeLock(p, "socket", "lockSocket", "lstatSocket", "unlockDaemon")
UnlockSocket(p) == FreeLock(p, "socket", "unlockSocket", "unlockDaemon")
UnlockDaemon(p) == FreeLock(p, StateDir[p], "unlockDaemon", "closeLog")

LstatSocket(p) ==
    /\ \/ path.kind = "none" /\ Goto(p, "lstatSocket", "bind")
       \/ path.kind = "socket" /\ Goto(p, "lstatSocket", "dial")
       \/ path.kind \notin {"none", "socket"} /\ Goto(p, "lstatSocket", "unlockSocket")
    /\ NoFault /\ UNCHANGED ctlvars

(* Only a refused connection, or a name that is gone, proves a stale socket. *)
(* A live one may also fail to answer in time.                               *)
StaleNever == FALSE                        \* Mutant: every socket that is there is in use
Stale == path.by \notin listening

DialSocket(p) ==
    /\ \/ /\ Stale /\ NoFault
          /\ Goto(p, "dial", "remove")
       \/ /\ (~Stale /\ NoFault) \/ Fault
          /\ Goto(p, "dial", "unlockSocket")
    /\ UNCHANGED ctlvars

RemoveSocket(p) ==
    /\ \/ /\ path # NoPath /\ NoFault
          /\ Goto(p, "remove", "bind")
          /\ path' = NoPath
       \/ /\ (path = NoPath /\ NoFault) \/ Fault
          /\ Goto(p, "remove", "unlockSocket")
          /\ UNCHANGED path
    /\ UNCHANGED <<held, listening>>

Bind(p) ==
    /\ \/ /\ path = NoPath /\ NoFault
          /\ Goto(p, "bind", "listen")
          /\ path' = Socket(p)
       \/ /\ (path # NoPath /\ NoFault) \/ Fault
          /\ Goto(p, "bind", "unlockSocket")
          /\ UNCHANGED path
    /\ UNCHANGED <<held, listening>>

ListenSocket(p) ==
    /\ Goto(p, "listen", "chmod")
    /\ listening' = listening \cup {p}
    /\ NoFault /\ UNCHANGED <<held, path>>

(* Chmod, then the TCP listeners; the listener is closed if one fails.       *)
Chmod(p) ==
    /\ \/ Goto(p, "chmod", "tcp") /\ NoFault
       \/ Goto(p, "chmod", "unlink") /\ Fault
    /\ UNCHANGED ctlvars

ListenTcp(p) ==
    /\ \/ Goto(p, "tcp", "running") /\ NoFault
       \/ Goto(p, "tcp", "unlink") /\ Fault
    /\ UNCHANGED ctlvars

(* Run ends: Shutdown of the control server closes the listener, the         *)
(* deferred calls free the locks.                                            *)
Stop(p) ==
    /\ Goto(p, "running", "unlink")
    /\ NoFault /\ UNCHANGED ctlvars

Unlink(p) ==
    /\ Goto(p, "unlink", "close")
    /\ path' = NoPath
    /\ NoFault /\ UNCHANGED <<held, listening>>

CloseSocket(p) ==
    /\ Goto(p, "close", "unlockSocket")
    /\ listening' = listening \ {p}
    /\ NoFault /\ UNCHANGED <<held, path>>

(* The daemon on its way, without the operator's stop.                       *)
ControlStep(p) ==
    \/ LockDaemon(p) \/ LockSocket(p) \/ LstatSocket(p) \/ DialSocket(p) \/ RemoveSocket(p)
    \/ Bind(p) \/ ListenSocket(p) \/ Chmod(p) \/ ListenTcp(p)
    \/ Unlink(p) \/ CloseSocket(p) \/ UnlockSocket(p) \/ UnlockDaemon(p)

ControlDies(p) ==
    /\ held' = [l \in Locks |-> IF held[l] = p THEN Nobody ELSE held[l]]
    /\ listening' = listening \ {p}
    /\ UNCHANGED path

(* The path is free, or holds something that is not a socket.                *)
ControlFirst ==
    /\ held = [l \in Locks |-> Nobody]
    /\ listening = {}
    /\ path \in { NoPath, [kind |-> "other", by |-> Nobody] }
=============================================================================
