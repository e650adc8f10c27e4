--------------------------------- MODULE Pipe ---------------------------------
(* What a relayed connection promises its two peers: in each direction what  *)
(* is written arrives in order and once, the end of a direction arrives      *)
(* after everything before it, and success is reported only when both        *)
(* directions have ended that way. Nothing arrives after the report.         *)
EXTENDS Integers

CONSTANT Ways
VARIABLES
    sent, ended,      \* chunks written by the peer, and its end of the direction
    got, passed,      \* chunks that have arrived, and the end that has
    report            \* none, ok or error
pvars == <<sent, ended, got, passed, report>>

Init ==
    /\ sent = [w \in Ways |-> 0] /\ ended = [w \in Ways |-> FALSE]
    /\ got = [w \in Ways |-> 0] /\ passed = [w \in Ways |-> FALSE]
    /\ report = "none"

Send(w) ==
    /\ ~ended[w]
    /\ sent' = [sent EXCEPT ![w] = @ + 1]
    /\ UNCHANGED <<ended, got, passed, report>>

End(w) ==
    /\ ~ended[w]
    /\ ended' = [ended EXCEPT ![w] = TRUE]
    /\ UNCHANGED <<sent, got, passed, report>>

Arrive(w) ==
    /\ got[w] < sent[w] /\ ~passed[w] /\ report = "none"
    /\ got' = [got EXCEPT ![w] = @ + 1]
    /\ UNCHANGED <<sent, ended, passed, report>>

Pass(w) ==
    /\ ended[w] /\ got[w] = sent[w] /\ report = "none"
    /\ passed' = [passed EXCEPT ![w] = TRUE]
    /\ UNCHANGED <<sent, ended, got, report>>

Report(r) ==
    /\ report = "none"
    /\ r = "ok" => \A w \in Ways : passed[w]
    /\ report' = r
    /\ UNCHANGED <<sent, ended, got, passed>>

Next ==
    \/ \E w \in Ways : Send(w) \/ End(w) \/ Arrive(w) \/ Pass(w)
    \/ \E r \in {"ok", "error"} : Report(r)

Spec == Init /\ [][Next]_pvars
=============================================================================
