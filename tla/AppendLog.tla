------------------------------ MODULE AppendLog ------------------------------
(* What a bounded log promises: it only grows at its end, and only its       *)
(* oldest lines are ever given up, while at least Keep bytes of newer ones   *)
(* stay.                                                                     *)
EXTENDS Integers, Sequences, SequencesExt

CONSTANTS Line, Bytes(_), Keep
VARIABLE log

Init == log = <<>>

Grow ==
    /\ Len(log') = Len(log) + 1
    /\ IsPrefix(log, log')
    /\ Last(log') \in Line

Forget ==
    /\ Len(log') < Len(log)
    /\ IsSuffix(log', log)
    /\ Bytes(log') >= Keep

Spec == Init /\ [][Grow \/ Forget]_log
=============================================================================
