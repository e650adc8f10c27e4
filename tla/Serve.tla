-------------------------------- MODULE Serve --------------------------------
(***************************************************************************)
(* The commands `ca init` and `serve` of internal/cli/cli.go as processes: *)
(* what they do to the CA files, the locks, the control socket and the log *)
(* between start and exit, with system calls that fail and processes that  *)
(* are killed anywhere. serve loads the CA, opens its log, loads the CA    *)
(* again in proxy.New and runs the server.                                 *)
(***************************************************************************)
EXTENDS CaInit, Control, Rotator

CONSTANTS
    Unit,         \* the process that the service manager runs
    StartLimit    \* StartLimitBurst of the systemd unit: 5 in the code

VARIABLES
    manager,      \* what runs the service: "launchd" or "systemd"
    starts,       \* starts of the service in the current StartLimitIntervalSec
    givenUp       \* the service manager starts it no more by itself

svcvars == <<manager, starts, givenUp>>
vars == <<at, faults, cavars, ctlvars, logvars, svcvars>>

ASSUME ServeAssumption ==
    /\ IsFiniteSet(Proc) /\ Nobody \notin Proc /\ {Logger, Unit} \subseteq Proc
    /\ DOMAIN StateDir = Proc /\ \A p \in Proc : StateDir[p] # "socket"
    /\ {MaxFaults, MaxPairs, Backups, Limit, MaxLines, Keep, StartLimit} \subseteq Nat
    /\ Length \in [1..MaxLines -> Nat]

-----------------------------------------------------------------------------
others == <<faults, cavars, ctlvars, logvars, svcvars>>

StartInit(p) == InitBegins(p) /\ UNCHANGED <<ctlvars, logvars, svcvars>>

(* An operator's foreground daemon.                                          *)
StartServe(p) == p # Unit /\ Goto(p, "idle", "load") /\ UNCHANGED others

(* The service manager (external), as the definition that Generate writes    *)
(* sets it up: it starts the service whenever it does not run. systemd gives *)
(* up at the start that would be one too many in the interval, until the     *)
(* operator's `service start`, which resets the failure first. launchd waits *)
(* ThrottleInterval and never gives up.                                      *)
Loads(n) == Goto(Unit, "idle", "load") /\ starts' = n /\ UNCHANGED <<faults, cavars, ctlvars, logvars, manager>>

ManagerStarts ==
    /\ ~givenUp /\ UNCHANGED givenUp
    /\ \/ manager = "launchd" /\ Loads(0)
       \/ manager = "systemd" /\ starts < StartLimit /\ Loads(starts + 1)

ManagerGivesUp ==
    /\ at[Unit] = "idle" /\ ~givenUp
    /\ manager = "systemd" /\ starts = StartLimit
    /\ givenUp' = TRUE
    /\ UNCHANGED <<at, faults, cavars, ctlvars, logvars, manager, starts>>

IntervalEnds ==
    /\ starts > 0 /\ starts' = 0
    /\ UNCHANGED <<at, faults, cavars, ctlvars, logvars, manager, givenUp>>

OperatorStarts == givenUp /\ givenUp' = FALSE /\ Loads(1)

Manage == ManagerStarts \/ ManagerGivesUp \/ IntervalEnds \/ OperatorStarts

(* ca.Load of the command and of New. *)
LoadCa(p) ==
    /\ \/ Goto(p, "load", IF Loadable THEN "openLog" ELSE "idle")
       \/ Goto(p, "new", IF Loadable THEN "lockDaemon" ELSE "closeLog")
    /\ UNCHANGED others

ServeStep(p) ==
    \/ LoadCa(p)
    \/ InitStep(p) /\ UNCHANGED <<ctlvars, logvars, svcvars>>
    \/ ControlStep(p) /\ UNCHANGED <<cavars, logvars, svcvars>>
    \/ (OpenLog(p) \/ CloseLog(p)) /\ UNCHANGED <<cavars, ctlvars, svcvars>>

StopServe(p) == Stop(p) /\ UNCHANGED <<cavars, logvars, svcvars>>

LogStep == RotatorStep /\ UNCHANGED <<cavars, ctlvars, svcvars>>

Dies(p) ==
    /\ at[p] # "idle" /\ Fault
    /\ at' = [at EXCEPT ![p] = "idle"]
    /\ ControlDies(p) /\ RotatorDies(p)
    /\ UNCHANGED <<cavars, svcvars>>

Init ==
    /\ at = [p \in Proc |-> "idle"] /\ faults = 0
    /\ CaFirst /\ ControlFirst /\ RotatorFirst
    /\ manager \in {"launchd", "systemd"} /\ starts = 0 /\ givenUp = FALSE

Next ==
    \/ \E p \in Proc : StartInit(p) \/ StartServe(p) \/ ServeStep(p) \/ StopServe(p) \/ Dies(p)
    \/ LogStep
    \/ Manage

(* Running processes go on, and the service manager starts the service again *)
(* unless it has given up: KeepAlive, and Restart=always within the start    *)
(* limit. Operators owe nothing, and no interval need end in time.           *)
Fairness ==
    /\ \A p \in Proc : WF_vars(ServeStep(p))
    /\ WF_vars((Rename \/ OpenNew \/ Put) /\ LogStep)
    /\ WF_vars(ManagerStarts \/ ManagerGivesUp)

Spec == Init /\ [][Next]_vars /\ Fairness

-----------------------------------------------------------------------------
(* Properties *)

(* A whole certificate on disk always has its own whole key beside it, also  *)
(* when two inits run at once, fail or are killed: what the operator sees    *)
(* after a failure is never a CA that looks usable and is not. The exception *)
(* is a certificate that could not be removed after a failed write: Init     *)
(* does not notice and removes the key (ca.go:61-91, fsutil.go:35-58).       *)
CertHasKey == file["crt"].whole /\ "crt" \notin left => Loadable

(* The control path of a running daemon names its own, accepting socket: no  *)
(* daemon that starts, is refused, stops or dies takes it away, and no two   *)
(* daemons run with one socket (control.go:23-62, server.go:172-180).        *)
Reachable == \A p \in Proc : at[p] = "running" => path = Socket(p) /\ p \in listening

(* Once failures stop, and unless the service manager gives up for good, a   *)
(* daemon runs again and again, however the earlier ones ended: no stale     *)
(* socket, lock or log file keeps the service down. The exceptions are a CA  *)
(* that cannot be loaded and a control path that is not a socket             *)
(* (control.go:28-51, cli.go:440-513, service.go:63-94).                     *)
ServiceReturns ==
    []<>~givenUp =>
        []<>(\/ \E p \in Proc : at[p] = "running"
             \/ ~Loadable
             \/ path.kind = "other")

(* The log is a bounded log: lines go to its end, and what is lost are whole *)
(* oldest files, whatever rename fails and wherever the process dies         *)
(* (rotate.go:36-63).                                                        *)
LogAppends == Log!Spec

(* No file of the log grows beyond the limit, restarts included, unless it   *)
(* is for a single line (rotate.go:29-39).                                   *)
LogBounded == \A i \in Files : Bytes(text[i]) <= Limit \/ Len(text[i]) <= 1
=============================================================================
