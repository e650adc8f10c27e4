------------------------------ MODULE MCServer ------------------------------
(* Server with two listeners, in either of two small instances: clients      *)
(* against one reload, or reloads against each other with one client that    *)
(* moves no bytes. What is left out of an instance is never owed to fairness.*)
EXTENDS Server

CONSTANTS r1, r2
VARIABLE instance

(* A valid edit lowers the limit, one needs a restart, one is invalid.       *)
MCFiles == <<[valid |-> TRUE, fixed |-> 1, max |-> 2],
             [valid |-> TRUE, fixed |-> 1, max |-> 1],
             [valid |-> TRUE, fixed |-> 2, max |-> 1],
             [valid |-> FALSE, fixed |-> 1, max |-> 0]>>

(* Two clients, the edit that lowers the limit and one reload; the control   *)
(* server does not fail.                                                     *)
ClientsRace ==
    /\ instance = "clients"
    /\ file' <= 2 /\ reloads' <= 1 /\ rpc'[r2] = "idle"
    /\ http' = "gone" => run' = "exited"

(* Two reloads, r1 first (they are alike), every edit, one client.           *)
ReloadsRace ==
    /\ instance = "reloads"
    /\ arrived' <= 1 /\ forwarded' = 0
    /\ rpc'[r2] # "idle" => reloads' = 2

MCInit == Init /\ instance \in {"clients", "reloads"}

MCSpec ==
    /\ MCInit
    /\ [][Next /\ (ClientsRace \/ ReloadsRace) /\ UNCHANGED instance]_<<vars, instance>>
    /\ Fairness
=============================================================================
