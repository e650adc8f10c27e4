------ MODULE Syscalls ------
(* What the commands of the program have in common as processes: each is at  *)
(* some point of its code, every step is one system call or the code between *)
(* two, and a limited number of those steps fail.                            *)
EXTENDS Integers, FiniteSets

CONSTANTS MaxFaults     \* bound: failed system calls and killed processes
CONSTANTS Proc, Nobody  \* processes, each with one command at a time; none of them

VARIABLES
    at,                 \* where each process is
    faults              \* failures so far

Goto(p, from, to) == at[p] = from /\ at' = [at EXCEPT ![p] = to]

(* A step that the system fails; one that it does not.                       *)
Fault == faults < MaxFaults /\ faults' = faults + 1
NoFault == UNCHANGED faults
====
