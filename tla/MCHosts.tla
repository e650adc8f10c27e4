------------------------------- MODULE MCHosts -------------------------------
(* Hosts with two writers whose configurations name the platform's state     *)
(* directory, the default, or another one.                                   *)
EXTENDS Hosts

CONSTANTS d1, d2

MCDefault == [w \in Writers |-> d1]
MCOther == [w \in Writers |-> d2]
=============================================================================
