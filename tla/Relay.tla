-------------------------------- MODULE Relay --------------------------------
(***************************************************************************)
(* relay of internal/proxy/server.go: two copying goroutines, each closing *)
(* only the write half of its destination on EOF, an idle watchdog, and    *)
(* the goroutine of handle that waits for both. The two peers and the      *)
(* shutdown of the daemon, which closes the client socket under the relay, *)
(* are the environment.                                                    *)
(***************************************************************************)
EXTENDS Integers, Sequences

CONSTANTS MaxUp, MaxDown   \* bounds: writes of the client and of the upstream
ASSUME ChunksAssumption == MaxUp \in Nat /\ MaxDown \in Nat

Ends == {"client", "upstream"}
Ways == {"up", "down"}                     \* client to upstream, and back
Src(w) == IF w = "up" THEN "client" ELSE "upstream"
Dst(w) == IF w = "up" THEN "upstream" ELSE "client"
MaxChunks(w) == IF w = "up" THEN MaxUp ELSE MaxDown

VARIABLES
    written, arrived,   \* chunks a peer has written; those not yet read here
    fin,                \* the peer has closed its write half
    broken, stalled,    \* the connection is reset; the peer stopped reading
    delivered,          \* chunks written to a peer (and counted)
    finSent,            \* CloseWrite has been done on this end
    closed,             \* this end has been closed locally
    expired,            \* the halves of an end whose deadline has passed
    pc, res,            \* of each copyStream; its error, "ok" for nil
    errs, main,         \* the channel; the waiting goroutine
    first, result,      \* its locals
    dog, idle,          \* the watchdog; no write for the idle timeout
    forced              \* the shutdown timer closed the client socket

peers == <<written, fin, broken, stalled>>
wire == <<arrived, delivered, finSent>>
wait == <<main, first, result>>
vars == <<peers, wire, closed, expired, pc, res, errs, wait, dog, idle, forced>>

Reads(w) == <<Src(w), "read">>
Writes(w) == <<Dst(w), "write">>
ReadFails(w) == closed[Src(w)] \/ broken[Src(w)] \/ Reads(w) \in expired
WriteFails(w) == closed[Dst(w)] \/ broken[Dst(w)] \/ Writes(w) \in expired

-----------------------------------------------------------------------------
(* copyStream *)

Goes(w, from, to) == pc[w] = from /\ pc' = [pc EXCEPT ![w] = to]

ConsumedNot(w) == arrived[w]               \* Mutant: a chunk is read twice
Consumed(w) == arrived[w] - 1

CopyRead(w) ==
    /\ Goes(w, "read", "write")
    /\ arrived[w] > 0
    /\ arrived' = [arrived EXCEPT ![w] = Consumed(w)]
    /\ UNCHANGED <<peers, delivered, finSent, closed, expired, res, errs, wait, dog, idle, forced>>

CopyEOF(w) ==
    /\ Goes(w, "read", "finish")
    /\ arrived[w] = 0 /\ fin[w] /\ ~ReadFails(w)
    /\ UNCHANGED <<peers, wire, closed, expired, res, errs, wait, dog, idle, forced>>

(* progressWriter counts what was written and restarts the idle timeout.     *)
CopyWrite(w) ==
    /\ Goes(w, "write", "read")
    /\ ~WriteFails(w) /\ ~stalled[Dst(w)]
    /\ delivered' = [delivered EXCEPT ![w] = @ + 1]
    /\ idle' = FALSE
    /\ UNCHANGED <<peers, arrived, finSent, closed, expired, res, errs, wait, dog, forced>>

CopyFails(w) ==
    /\ \/ Goes(w, "read", "report") /\ ReadFails(w)
       \/ Goes(w, "write", "report") /\ WriteFails(w)
    /\ res' = [res EXCEPT ![w] = "error"]
    /\ UNCHANGED <<peers, wire, closed, expired, errs, wait, dog, idle, forced>>

(* CloseWrite under a write deadline of its own, cleared afterwards: the     *)
(* watchdog's deadline on that half goes with it. A peer that has stopped    *)
(* reading, or a watchdog that comes in between, makes it fail.              *)
CopyFinish(w) ==
    /\ Goes(w, "finish", "report")
    /\ expired' = expired \ {Writes(w)}
    /\ \/ /\ ~closed[Dst(w)] /\ ~broken[Dst(w)] /\ ~stalled[Dst(w)]
          /\ finSent' = [finSent EXCEPT ![Dst(w)] = TRUE]
          /\ UNCHANGED res
       \/ /\ closed[Dst(w)] \/ broken[Dst(w)] \/ stalled[Dst(w)] \/ dog # "on"
          /\ res' = [res EXCEPT ![w] = "error"]
          /\ UNCHANGED finSent
    /\ UNCHANGED <<peers, arrived, delivered, closed, errs, wait, dog, idle, forced>>

CopyReport(w) ==
    /\ Goes(w, "report", "done")
    /\ errs' = Append(errs, res[w])
    /\ UNCHANGED <<peers, wire, closed, expired, res, wait, dog, idle, forced>>

CopyStep(w) == \/ CopyRead(w) \/ CopyEOF(w) \/ CopyWrite(w) \/ CopyFails(w)
               \/ CopyFinish(w) \/ CopyReport(w)

-----------------------------------------------------------------------------
(* The goroutine of handle: close both ends on an error, not on an EOF.      *)

CloseAlways(r) == [e \in Ends |-> TRUE]    \* Mutant: an EOF ends it all
CloseOnError(r) == [e \in Ends |-> closed[e] \/ r = "error"]

TakeFirst ==
    /\ main = "first"
    /\ errs # <<>>
    /\ first' = Head(errs)
    /\ errs' = Tail(errs)
    /\ closed' = CloseOnError(Head(errs))
    /\ main' = "second"
    /\ UNCHANGED <<peers, wire, expired, pc, res, result, dog, idle, forced>>

(* relay returns, done is closed, and handle's defers close both ends.       *)
ReturnValue == IF first = "error" THEN first ELSE Head(errs)

TakeSecond ==
    /\ main = "second"
    /\ errs # <<>>
    /\ result' = ReturnValue
    /\ errs' = Tail(errs)
    /\ main' = "returned"
    /\ closed' = [e \in Ends |-> TRUE]
    /\ UNCHANGED <<peers, wire, expired, pc, res, first, dog, idle, forced>>

-----------------------------------------------------------------------------
(* The watchdog: its tick after the timeout, the second SetDeadline, its end *)

DogFires ==
    /\ dog = "on" /\ idle /\ main # "returned"
    /\ expired' = expired \cup ({"client"} \X {"read", "write"})
    /\ dog' = "firing"
    /\ UNCHANGED <<peers, wire, closed, pc, res, errs, wait, idle, forced>>

SecondEndNone == {}                        \* Mutant: one end only
SecondEnd == {"upstream"}

DogFinishes ==
    /\ dog = "firing"
    /\ expired' = expired \cup (SecondEnd \X {"read", "write"})
    /\ dog' = "gone"
    /\ UNCHANGED <<peers, wire, closed, pc, res, errs, wait, idle, forced>>

DogDismissed ==
    /\ dog = "on" /\ main = "returned"
    /\ dog' = "gone"
    /\ UNCHANGED <<peers, wire, closed, expired, pc, res, errs, wait, idle, forced>>

-----------------------------------------------------------------------------
(* The environment *)

here == <<delivered, finSent, closed, expired, pc, res, errs, wait, dog>>

PeerWrites(w) ==
    /\ ~fin[w] /\ ~broken[Src(w)] /\ written[w] < MaxChunks(w)
    /\ written' = [written EXCEPT ![w] = @ + 1]
    /\ arrived' = [arrived EXCEPT ![w] = @ + 1]
    /\ UNCHANGED <<here, fin, broken, stalled, idle, forced>>

PeerFinishes(w) ==
    /\ ~fin[w]
    /\ fin' = [fin EXCEPT ![w] = TRUE]
    /\ UNCHANGED <<here, written, arrived, broken, stalled, idle, forced>>

PeerBreaks(e) ==
    /\ ~broken[e]
    /\ broken' = [broken EXCEPT ![e] = TRUE]
    /\ UNCHANGED <<here, written, arrived, fin, stalled, idle, forced>>

PeerStalls(e) ==
    /\ ~stalled[e]
    /\ stalled' = [stalled EXCEPT ![e] = TRUE]
    /\ UNCHANGED <<here, written, arrived, fin, broken, idle, forced>>

TimePasses ==
    /\ ~idle /\ main # "returned"
    /\ idle' = TRUE
    /\ UNCHANGED <<here, peers, arrived, forced>>

(* Server.Run after the shutdown timer: raw.Close (its cancel has no effect  *)
(* once the handshake is over).                                              *)
Shutdown ==
    /\ ~forced /\ main # "returned"
    /\ forced' = TRUE
    /\ closed' = [closed EXCEPT !["client"] = TRUE]
    /\ UNCHANGED <<peers, wire, expired, pc, res, errs, wait, dog, idle>>

-----------------------------------------------------------------------------
Init ==
    /\ written = [w \in Ways |-> 0] /\ arrived = [w \in Ways |-> 0]
    /\ fin = [w \in Ways |-> FALSE]
    /\ broken = [e \in Ends |-> FALSE] /\ stalled = [e \in Ends |-> FALSE]
    /\ delivered = [w \in Ways |-> 0]
    /\ finSent = [e \in Ends |-> FALSE] /\ closed = [e \in Ends |-> FALSE]
    /\ expired = {}
    /\ pc = [w \in Ways |-> "read"] /\ res = [w \in Ways |-> "ok"]
    /\ errs = <<>> /\ main = "first" /\ first = "ok" /\ result = "none"
    /\ dog = "on" /\ idle = FALSE /\ forced = FALSE

Next ==
    \/ \E w \in Ways : CopyStep(w) \/ PeerWrites(w) \/ PeerFinishes(w)
    \/ \E e \in Ends : PeerBreaks(e) \/ PeerStalls(e)
    \/ TakeFirst \/ TakeSecond
    \/ DogFires \/ DogFinishes \/ DogDismissed
    \/ TimePasses \/ Shutdown

Spec == Init /\ [][Next]_vars

(* Goroutines that can run do, and time passes; peers owe nothing.           *)
Fairness ==
    /\ \A w \in Ways : WF_vars(CopyStep(w))
    /\ WF_vars(TakeFirst \/ TakeSecond)
    /\ WF_vars(DogFires \/ DogFinishes)
    /\ WF_vars(TimePasses)

FairSpec == Spec /\ Fairness

-----------------------------------------------------------------------------
(* Properties *)

(* A relay is a pair of pipes (Pipe.tla): nothing is lost, repeated or       *)
(* delivered after an end, CloseWrite only follows the whole of a direction, *)
(* relay returns nil only when both directions are complete, and nothing     *)
(* moves, or is counted, after it has returned (server.go:394-457).          *)
Pipes == INSTANCE Pipe WITH sent <- written, ended <- fin, got <- delivered,
             passed <- [w \in Ways |-> finSent[Dst(w)]], report <- result
IsPipe == Pipes!Spec

(* One direction's EOF never cuts the other short: an end is closed only     *)
(* after an error, after both copies have ended, or by the shutdown          *)
(* (server.go:393, 433).                                                     *)
HalfCloseKept ==
    [][\A e \in Ends : ~closed[e] /\ closed'[e] =>
          \/ forced'
          \/ \E w \in Ways : res[w] = "error"
          \/ \A w \in Ways : pc[w] = "done"]_vars

(* A relay always ends, whatever the peers do or stop doing: the watchdog    *)
(* reaches every read and write that can block, also when its deadlines meet *)
(* those of a CloseWrite (server.go:399-418, 424-426).                       *)
RelayEnds == <>(main = "returned")

Blocked(w) ==
    \/ pc[w] = "done"
    \/ pc[w] = "read" /\ arrived[w] = 0 /\ ~fin[w] /\ ~ReadFails(w)
    \/ pc[w] = "write" /\ stalled[Dst(w)] /\ ~WriteFails(w)

(* What SPEC.md 3.2 says of a stop: after the shutdown timeout remaining     *)
(* connections are closed. A relay closed that way does not go on waiting    *)
(* for a peer.                                                               *)
ShutdownUnblocks ==
    forced /\ main # "returned" => errs # <<>> \/ \E w \in Ways : ~Blocked(w)
=============================================================================
