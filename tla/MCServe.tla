------------------------------- MODULE MCServe -------------------------------
(* Serve with small values: a service and a foreground daemon that have one  *)
(* control socket and state directories of their own.                        *)
EXTENDS Serve

CONSTANTS service, foreground

MCStateDir == [p \in Proc |-> IF p = service THEN "one" ELSE "two"]
MCLength == <<1, 3, 2, 1>>

(* The systemd unit names no log file: nothing is written to the one here.   *)
MCSpec ==
    /\ Init
    /\ [][Next /\ (manager = "systemd" => lines' = 0)]_vars
    /\ Fairness
=============================================================================
