----------------------------- MODULE RelayProofs -----------------------------
(***************************************************************************)
(* Proofs about module Relay, for any number of chunks: relay implements a *)
(* pair of pipes, and an EOF closes nothing but a write half. What has to  *)
(* be known at each step is where the chunks are, and how the results of   *)
(* the two copies, the channel and the locals of relay hang together.      *)
(***************************************************************************)
EXTENDS Relay, TLAPS

Steps == {"read", "write", "finish", "report", "done"}
Results == {"ok", "error"}

Types ==
    /\ written \in [Ways -> Nat] /\ arrived \in [Ways -> Nat] /\ delivered \in [Ways -> Nat]
    /\ fin \in [Ways -> BOOLEAN] /\ finSent \in [Ends -> BOOLEAN] /\ closed \in [Ends -> BOOLEAN]
    /\ pc \in [Ways -> Steps] /\ res \in [Ways -> Results]
    /\ errs \in Seq(Results)
    /\ main \in {"first", "second", "returned"}
    /\ first \in Results /\ result \in Results \cup {"none"}

(* Where the chunks of a direction are. Once it has ended with an error they *)
(* may be anywhere; the end is passed on after the last one only.            *)
Flow(w) ==
    /\ pc[w] = "read" => written[w] = delivered[w] + arrived[w]
    /\ pc[w] = "write" => written[w] = delivered[w] + arrived[w] + 1
    /\ pc[w] = "finish" => fin[w] /\ written[w] = delivered[w]
    /\ finSent[Dst(w)] => pc[w] \in {"report", "done"}
    /\ pc[w] \in {"report", "done"} /\ res[w] = "ok" => finSent[Dst(w)]
    /\ pc[w] \in {"read", "write", "finish"} => res[w] = "ok"

Taken == IF main = "first" THEN 0 ELSE IF main = "second" THEN 1 ELSE 2
Ended(w) == IF pc[w] = "done" THEN 1 ELSE 0

(* Every copy that is done has put its result in the channel, from where     *)
(* relay takes it; an error is some copy's, and without one among them the   *)
(* copies that are done have none.                                           *)
Collected ==
    /\ Len(errs) + Taken = Ended("up") + Ended("down")
    /\ \A k \in DOMAIN errs : errs[k] = "error" => \E w \in Ways : res[w] = "error"
    /\ first = "error" => \E w \in Ways : res[w] = "error"
    /\ main = "first" => first = "ok"
    /\ main # "returned" /\ first = "ok" /\ (\A k \in DOMAIN errs : errs[k] = "ok") =>
          \A w \in Ways : pc[w] = "done" => res[w] = "ok"
    /\ main # "returned" <=> result = "none"
    /\ result = "ok" => \A w \in Ways : res[w] = "ok"

IInv == Types /\ Collected /\ \A w \in Ways : Flow(w)

-----------------------------------------------------------------------------
LEMMA InitIInv == Init => IInv
<1> SUFFICES ASSUME Init PROVE IInv OBVIOUS
<1>1. Types BY DEF Init, Types, Steps, Results
<1>2. Collected BY DEF Init, Collected, Taken, Ended, Ways
<1>3. ASSUME NEW w \in Ways PROVE Flow(w) BY DEF Init, Flow, Dst, Ends, Ways
<1> QED BY <1>1, <1>2, <1>3 DEF IInv

(* Steps that touch neither chunks nor results.                              *)
LEMMA Aside ==
    ASSUME IInv, UNCHANGED <<written, fin, wire, pc, res, errs, wait>>, closed' \in [Ends -> BOOLEAN]
    PROVE  IInv'
<1> USE DEF IInv, wire, wait
<1>1. Types' BY DEF Types
<1>2. Collected' BY DEF Collected, Taken, Ended
<1>3. ASSUME NEW w \in Ways PROVE Flow(w)' BY DEF Flow
<1> QED BY <1>1, <1>2, <1>3

LEMMA AsideSteps ==
    ASSUME IInv,
           \/ \E e \in Ends : PeerBreaks(e) \/ PeerStalls(e)
           \/ DogFires \/ DogFinishes \/ DogDismissed \/ TimePasses \/ Shutdown
    PROVE  IInv'
<1> USE DEF IInv, Types, wire, wait, peers, here
<1>1. ASSUME NEW e \in Ends, PeerBreaks(e) PROVE IInv' BY <1>1, Aside DEF PeerBreaks
<1>2. ASSUME NEW e \in Ends, PeerStalls(e) PROVE IInv' BY <1>2, Aside DEF PeerStalls
<1>3. CASE DogFires BY <1>3, Aside DEF DogFires
<1>4. CASE DogFinishes BY <1>4, Aside DEF DogFinishes
<1>5. CASE DogDismissed BY <1>5, Aside DEF DogDismissed
<1>6. CASE TimePasses BY <1>6, Aside DEF TimePasses
<1>7. CASE Shutdown BY <1>7, Aside DEF Shutdown
<1> QED BY <1>1, <1>2, <1>3, <1>4, <1>5, <1>6, <1>7

(* The copies and the peers: chunks move, ends are passed on.                *)
LEMMA FlowSteps ==
    ASSUME IInv, NEW w \in Ways, CopyStep(w) \/ PeerWrites(w) \/ PeerFinishes(w)
    PROVE  Types' /\ \A v \in Ways : Flow(v)'
<1>1. Types /\ Flow(w) /\ \A v \in Ways : Flow(v) BY DEF IInv
<1>2. /\ Dst(w) \in Ends /\ \A v \in Ways : Dst(v) \in Ends /\ (Dst(v) = Dst(w) => v = w)
  BY DEF Ways, Ends, Dst
<1> USE <1>1, <1>2 DEF Types, Goes, peers, wait, here, Steps, Results
<1>3. CASE CopyRead(w)
  <2>1. Types' BY <1>3 DEF CopyRead, Consumed
  <2>2. ASSUME NEW v \in Ways PROVE Flow(v)' BY <1>3 DEF CopyRead, Consumed, Flow
  <2> QED BY <2>1, <2>2
<1>4. CASE CopyEOF(w)
  <2>1. Types' BY <1>4 DEF CopyEOF, wire
  <2>2. ASSUME NEW v \in Ways PROVE Flow(v)' BY <1>4 DEF CopyEOF, wire, Flow
  <2> QED BY <2>1, <2>2
<1>5. CASE CopyWrite(w)
  <2>1. Types' BY <1>5 DEF CopyWrite
  <2>2. ASSUME NEW v \in Ways PROVE Flow(v)' BY <1>5 DEF CopyWrite, Flow
  <2> QED BY <2>1, <2>2
<1>6. CASE CopyFails(w)
  <2>1. Types' BY <1>6 DEF CopyFails, wire
  <2>2. ASSUME NEW v \in Ways PROVE Flow(v)' BY <1>6 DEF CopyFails, wire, Flow
  <2> QED BY <2>1, <2>2
<1>7. CASE CopyFinish(w)
  <2>1. Types' BY <1>7 DEF CopyFinish
  <2>2. ASSUME NEW v \in Ways PROVE Flow(v)' BY <1>7 DEF CopyFinish, Flow
  <2> QED BY <2>1, <2>2
<1>8. CASE CopyReport(w)
  <2>1. Types' BY <1>8 DEF CopyReport, wire
  <2>2. ASSUME NEW v \in Ways PROVE Flow(v)' BY <1>8 DEF CopyReport, wire, Flow
  <2> QED BY <2>1, <2>2
<1>9. CASE PeerWrites(w)
  <2>1. Types' BY <1>9 DEF PeerWrites
  <2>2. ASSUME NEW v \in Ways PROVE Flow(v)' BY <1>9 DEF PeerWrites, Flow
  <2> QED BY <2>1, <2>2
<1>10. CASE PeerFinishes(w)
  <2>1. Types' BY <1>10 DEF PeerFinishes
  <2>2. ASSUME NEW v \in Ways PROVE Flow(v)' BY <1>10 DEF PeerFinishes, Flow
  <2> QED BY <2>1, <2>2
<1> QED BY <1>3, <1>4, <1>5, <1>6, <1>7, <1>8, <1>9, <1>10 DEF CopyStep

(* What the account of results says of the copies.                           *)
LEMMA Accounts ==
    ASSUME Types, Collected
    PROVE  /\ main = "returned" => \A w \in Ways : pc[w] = "done"
           /\ main = "second" /\ errs # <<>> => Len(errs) = 1 /\ \A w \in Ways : pc[w] = "done"
<1>1. Len(errs) \in Nat BY DEF Types
<1>2. errs = <<>> \/ Len(errs) > 0 BY DEF Types
<1>3. Len(errs) + Taken = Ended("up") + Ended("down") BY DEF Collected
<1>4. CASE main = "returned" BY <1>1, <1>3, <1>4 DEF Taken, Ended, Ways
<1>5. CASE main = "second" /\ Len(errs) > 0
  <2>1. Len(errs) + 1 = Ended("up") + Ended("down") BY <1>3, <1>5 DEF Taken
  <2>2. Ended("up") \in 0..1 /\ Ended("down") \in 0..1 BY DEF Ended
  <2>3. \A n \in Nat, a, b \in 0..1 : n > 0 /\ n + 1 = a + b => n = 1 /\ a = 1 /\ b = 1 OBVIOUS
  <2>4. Len(errs) > 0 BY <1>5
  <2>5. Len(errs) = 1 /\ Ended("up") = 1 /\ Ended("down") = 1 BY <1>1, <2>1, <2>2, <2>3, <2>4
  <2>6. \A w \in Ways : pc[w] = "done" BY <2>5 DEF Ended, Ways
  <2> QED BY <1>5, <2>5, <2>6
<1> QED BY <1>2, <1>4, <1>5

(* A copy that is not done yet leaves the account of results as it is, also  *)
(* when it fails: relay has not returned then.                               *)
LEMMA AccountKept ==
    ASSUME Types, Collected, NEW w \in Ways, pc[w] # "done",
           NEW to \in Steps \ {"done"}, pc' = [pc EXCEPT ![w] = to],
           res' = res \/ res' = [res EXCEPT ![w] = "error"],
           UNCHANGED <<errs, wait>>
    PROVE  Collected'
<1> USE DEF Types, wait
<1>1. Len(errs) \in Nat OBVIOUS
<1>2. \A v \in Ways : Ended(v)' = Ended(v) BY DEF Ended, Steps
<1>3. "up" \in Ways /\ "down" \in Ways /\ (w = "up" \/ w = "down") BY DEF Ways
<1>4. main # "returned" BY Accounts
<1>5. (\E v \in Ways : res[v] = "error") => \E v \in Ways : res'[v] = "error" OBVIOUS
<1>6. \A v \in Ways : pc'[v] = "done" => pc[v] = "done" /\ res'[v] = res[v] BY DEF Steps
<1>7. (Len(errs) + Taken = Ended("up") + Ended("down"))' BY <1>2, <1>3 DEF Collected, Taken
<1> QED BY <1>4, <1>5, <1>6, <1>7 DEF Collected

LEMMA CopyCollected ==
    ASSUME IInv, NEW w \in Ways, CopyStep(w) \/ PeerWrites(w) \/ PeerFinishes(w)
    PROVE  Collected'
<1> USE DEF IInv, Goes
<1>1. CASE CopyRead(w) BY <1>1, AccountKept DEF CopyRead, Steps
<1>2. CASE CopyEOF(w) BY <1>2, AccountKept DEF CopyEOF, Steps
<1>3. CASE CopyWrite(w) BY <1>3, AccountKept DEF CopyWrite, Steps
<1>4. CASE CopyFails(w) BY <1>4, AccountKept DEF CopyFails, Steps
<1>5. CASE CopyFinish(w) BY <1>5, AccountKept DEF CopyFinish, Steps
<1>6. CASE CopyReport(w)
  <2>1. /\ pc[w] = "report" /\ pc' = [pc EXCEPT ![w] = "done"] /\ errs' = Append(errs, res[w])
        /\ UNCHANGED <<res, main, first, result>>
    BY <1>6 DEF CopyReport, wait
  <2> USE <2>1 DEF Types
  <2>2. "up" \in Ways /\ "down" \in Ways /\ (w = "up" \/ w = "down") /\ "up" # "down" BY DEF Ways
  <2>3. Len(errs) \in Nat /\ Len(errs') = Len(errs) + 1 OBVIOUS
  <2>4. Ended(w) = 0 /\ Ended(w)' = 1 /\ \A v \in Ways \ {w} : Ended(v)' = Ended(v) /\ Ended(v) \in {0, 1}
    BY DEF Ended
  <2>5. main # "returned" BY Accounts
  <2>6. (Len(errs) + Taken = Ended("up") + Ended("down"))'
    <3>1. Len(errs) + Taken = Ended("up") + Ended("down") /\ Taken' = Taken BY DEF Collected, Taken
    <3>2. CASE w = "up" BY <3>1, <3>2, <2>2, <2>3 DEF Taken, Ended
    <3>3. CASE w = "down" BY <3>1, <3>3, <2>2, <2>3 DEF Taken, Ended
    <3> QED BY <2>2, <3>2, <3>3
  <2>7. \A k \in DOMAIN errs : k \in DOMAIN errs' /\ errs'[k] = errs[k] OBVIOUS
  <2>8. \A k \in DOMAIN errs' : k \in DOMAIN errs \/ errs'[k] = res[w] OBVIOUS
  <2>9. Len(errs) + 1 \in DOMAIN errs' /\ errs'[Len(errs) + 1] = res[w] OBVIOUS
  <2>10. \A k \in DOMAIN errs' : errs'[k] = "error" => \E v \in Ways : res'[v] = "error"
    BY <2>7, <2>8 DEF Collected
  <2>11. (main # "returned" /\ first = "ok" /\ (\A k \in DOMAIN errs : errs[k] = "ok") =>
            \A v \in Ways : pc[v] = "done" => res[v] = "ok")'
    <3> SUFFICES ASSUME first = "ok", \A k \in DOMAIN errs' : errs'[k] = "ok", NEW v \in Ways, pc'[v] = "done"
                 PROVE  res[v] = "ok"
      OBVIOUS
    <3>1. CASE v = w BY <3>1, <2>9
    <3>2. CASE v # w BY <3>2, <2>5, <2>7 DEF Collected
    <3> QED BY <3>1, <3>2
  <2> QED BY <2>5, <2>6, <2>10, <2>11 DEF Collected
<1>7. CASE PeerWrites(w) BY <1>7 DEF PeerWrites, here, wait, Collected, Taken, Ended
<1>8. CASE PeerFinishes(w) BY <1>8 DEF PeerFinishes, here, wait, Collected, Taken, Ended
<1> QED BY <1>1, <1>2, <1>3, <1>4, <1>5, <1>6, <1>7, <1>8 DEF CopyStep

(* relay takes a result, and at the second one both copies are done.         *)
LEMMA TakeSteps ==
    ASSUME IInv, TakeFirst \/ TakeSecond
    PROVE  IInv' /\ (TakeSecond => \A w \in Ways : pc[w] = "done")
<1>1. /\ errs # <<>> /\ errs' = Tail(errs) /\ UNCHANGED <<written, fin, wire, pc, res>>
      /\ closed' \in [Ends -> BOOLEAN]
  BY DEF IInv, Types, TakeFirst, TakeSecond, CloseOnError, peers
<1>2. /\ errs \in Seq(Results) /\ Len(errs) \in Nat \ {0} /\ Head(errs) = errs[1] /\ Head(errs) \in Results
      /\ 1 \in DOMAIN errs
  BY <1>1 DEF IInv, Types
<1>3. /\ errs' \in Seq(Results) /\ Len(errs') = Len(errs) - 1
      /\ \A k \in DOMAIN errs' : k + 1 \in DOMAIN errs /\ errs'[k] = errs[k + 1]
      /\ \A k \in DOMAIN errs : k = 1 \/ (k - 1 \in DOMAIN errs' /\ errs'[k - 1] = errs[k])
  BY <1>1, <1>2
<1>4. Types' BY <1>1, <1>2, <1>3 DEF IInv, Types, TakeFirst, TakeSecond, ReturnValue, wire, Results
<1>5. \A w \in Ways : Flow(w)' BY <1>1 DEF IInv, Flow, wire
<1>6. \A w \in Ways : Ended(w)' = Ended(w) /\ Ended(w) \in {0, 1} BY <1>1 DEF Ended
<1>7. "up" \in Ways /\ "down" \in Ways /\ \A w \in Ways : w = "up" \/ w = "down" BY DEF Ways
<1>8. (Len(errs) + Taken = Ended("up") + Ended("down"))'
  BY <1>2, <1>3, <1>6, <1>7 DEF IInv, Collected, Taken, TakeFirst, TakeSecond
<1>9. \A k \in DOMAIN errs' : errs'[k] = "error" => \E w \in Ways : res'[w] = "error"
  BY <1>1, <1>3 DEF IInv, Collected
<1>10. CASE TakeFirst
  <2>1. first' = Head(errs) /\ main = "first" /\ main' = "second" /\ result' = result BY <1>10 DEF TakeFirst
  <2>2. first' = "error" => \E w \in Ways : res'[w] = "error" BY <2>1, <1>1, <1>2 DEF IInv, Collected
  <2>3. first' = "ok" /\ (\A k \in DOMAIN errs' : errs'[k] = "ok") => \A k \in DOMAIN errs : errs[k] = "ok"
    BY <2>1, <1>2, <1>3
  <2>4. Collected' BY <2>1, <2>2, <2>3, <1>1, <1>8, <1>9 DEF IInv, Collected, Types
  <2>5. ~TakeSecond BY <2>1 DEF TakeSecond
  <2> QED BY <2>4, <2>5, <1>4, <1>5 DEF IInv
<1>11. CASE TakeSecond
  <2>1. result' = ReturnValue /\ main = "second" /\ main' = "returned" /\ first' = first BY <1>11 DEF TakeSecond
  <2>2. Len(errs) = 1 /\ \A w \in Ways : pc[w] = "done" BY <2>1, <1>1, Accounts DEF IInv
  <2>3. \A w \in Ways : pc[w] = "done" BY <2>2
  <2>4. \A k \in DOMAIN errs : k = 1 BY <2>2, <1>2
  <2>5. result' # "none" /\ (result' = "ok" => first = "ok" /\ errs[1] = "ok")
    BY <2>1, <1>2 DEF ReturnValue, IInv, Types, Results
  <2>6. result' = "ok" => \A w \in Ways : res'[w] = "ok"
    BY <2>1, <2>3, <2>4, <2>5, <1>1 DEF IInv, Collected
  <2>7. Collected' BY <2>1, <2>5, <2>6, <1>1, <1>8, <1>9 DEF IInv, Collected
  <2> QED BY <2>3, <2>7, <1>4, <1>5 DEF IInv
<1> QED BY <1>10, <1>11

LEMMA NextIInv == IInv /\ [Next]_vars => IInv'
<1> SUFFICES ASSUME IInv, [Next]_vars PROVE IInv' OBVIOUS
<1>1. ASSUME NEW w \in Ways, CopyStep(w) \/ PeerWrites(w) \/ PeerFinishes(w) PROVE IInv'
  BY <1>1, FlowSteps, CopyCollected DEF IInv
<1>2. CASE TakeFirst \/ TakeSecond BY <1>2, TakeSteps
<1>3. CASE UNCHANGED vars
  BY <1>3, Aside DEF vars, peers, wire, wait, IInv, Types
<1> QED BY <1>1, <1>2, <1>3, AsideSteps DEF Next

LEMMA IInvAlways == Spec => []IInv
BY InitIInv, NextIInv, PTL DEF Spec

-----------------------------------------------------------------------------
(* Until both copies are done relay has not returned, and reports nothing.   *)
LEMMA Unreported ==
    ASSUME IInv, NEW w \in Ways, pc[w] # "done"
    PROVE  result = "none"
BY Accounts DEF IInv, Collected

(* Every step of relay is a step of the pair of pipes, or none of theirs.    *)
LEMMA StepIsPipe == IInv /\ [Next]_vars => [Pipes!Next]_(Pipes!pvars)
<1> SUFFICES ASSUME IInv, [Next]_vars PROVE [Pipes!Next]_(Pipes!pvars) OBVIOUS
<1>1. Types /\ Collected /\ \A w \in Ways : Flow(w) BY DEF IInv
<1>2. \A v, w \in Ways : Dst(v) \in Ends /\ (Dst(v) = Dst(w) => v = w) BY DEF Ways, Ends, Dst
<1> USE <1>1, <1>2 DEF Types, peers, wire, wait, here, Goes
<1>3. ASSUME UNCHANGED <<written, fin, delivered, finSent, result>> PROVE UNCHANGED Pipes!pvars
  <2>1. [w \in Ways |-> finSent[Dst(w)]] = [w \in Ways |-> finSent'[Dst(w)]] BY <1>3
  <2> QED BY <1>3, <2>1 DEF Pipes!pvars
<1>4. ASSUME NEW w \in Ways, CopyWrite(w) PROVE Pipes!Arrive(w)
  <2>1. pc[w] = "write" /\ result = "none" BY <1>4, Unreported DEF CopyWrite
  <2>2. written[w] = delivered[w] + arrived[w] + 1 /\ ~finSent[Dst(w)] BY <2>1 DEF Flow
  <2>3. delivered[w] < written[w] BY <2>2
  <2> QED BY <1>4, <2>1, <2>2, <2>3 DEF CopyWrite, Pipes!Arrive
<1>5. ASSUME NEW w \in Ways, CopyFinish(w) PROVE Pipes!Pass(w) \/ UNCHANGED Pipes!pvars
  <2>1. pc[w] = "finish" /\ result = "none" BY <1>5, Unreported DEF CopyFinish
  <2>2. fin[w] /\ delivered[w] = written[w] BY <2>1 DEF Flow
  <2>3. CASE finSent' = [finSent EXCEPT ![Dst(w)] = TRUE]
    <3>1. [v \in Ways |-> finSent'[Dst(v)]] = [[v \in Ways |-> finSent[Dst(v)]] EXCEPT ![w] = TRUE] BY <2>3
    <3> QED BY <1>5, <2>1, <2>2, <3>1 DEF CopyFinish, Pipes!Pass
  <2>4. CASE UNCHANGED finSent BY <1>3, <1>5, <2>4 DEF CopyFinish
  <2> QED BY <1>5, <2>3, <2>4 DEF CopyFinish
<1>6. ASSUME NEW w \in Ways, CopyRead(w) \/ CopyEOF(w) \/ CopyFails(w) \/ CopyReport(w)
      PROVE  UNCHANGED Pipes!pvars
  BY <1>3, <1>6 DEF CopyRead, CopyEOF, CopyFails, CopyReport
<1>7. ASSUME NEW w \in Ways, PeerWrites(w) PROVE Pipes!Send(w) BY <1>7 DEF PeerWrites, Pipes!Send
<1>8. ASSUME NEW w \in Ways, PeerFinishes(w) PROVE Pipes!End(w) BY <1>8 DEF PeerFinishes, Pipes!End
<1>9. ASSUME TakeSecond PROVE \E r \in Results : Pipes!Report(r)
  <2>1. main = "second" /\ result' = ReturnValue /\ UNCHANGED <<written, fin, delivered, finSent, pc, res>>
    BY <1>9 DEF TakeSecond
  <2>2. result = "none" BY <2>1 DEF Collected
  <2>3. (\A w \in Ways : pc[w] = "done") /\ IInv' BY <1>9, TakeSteps
  <2>4. result' = "ok" => \A w \in Ways : res[w] = "ok" BY <2>1, <2>3 DEF IInv, Collected
  <2>5. result' = "ok" => \A w \in Ways : finSent[Dst(w)] BY <2>3, <2>4 DEF Flow
  <2>6. result' \in Results
    <3>1. main' = "returned" BY <1>9 DEF TakeSecond
    <3>2. result' # "none" /\ result' \in Results \cup {"none"} BY <2>3, <3>1 DEF IInv, Collected
    <3> QED BY <3>2
  <2> QED BY <2>1, <2>2, <2>5, <2>6 DEF Pipes!Report
<1>10. ASSUME NEW e \in Ends, PeerBreaks(e) \/ PeerStalls(e) PROVE UNCHANGED Pipes!pvars
  BY <1>3, <1>10 DEF PeerBreaks, PeerStalls
<1>11. ASSUME TakeFirst \/ DogFires \/ DogFinishes \/ DogDismissed \/ TimePasses \/ Shutdown
       PROVE  UNCHANGED Pipes!pvars
  BY <1>3, <1>11 DEF TakeFirst, DogFires, DogFinishes, DogDismissed, TimePasses, Shutdown
<1>12. ASSUME UNCHANGED vars PROVE UNCHANGED Pipes!pvars BY <1>3, <1>12 DEF vars
<1> QED
  BY <1>4, <1>5, <1>6, <1>7, <1>8, <1>9, <1>10, <1>11, <1>12 DEF Next, CopyStep, Pipes!Next, Results

(* relay, with its watchdog, its peers and a shutdown at any moment, is a    *)
(* pair of pipes for any number of chunks: in each direction everything      *)
(* arrives once and before the end, and nil is returned only when both       *)
(* directions are complete (server.go:394-457).                              *)
THEOREM RelayIsPipe == Spec => IsPipe
<1>1. Init => Pipes!Init BY DEF Init, Pipes!Init, Dst, Ends, Ways
<1> QED BY <1>1, StepIsPipe, IInvAlways, PTL DEF Spec, IsPipe, Pipes!Spec

(* The step that closes an end has an error, two finished copies or the      *)
(* shutdown behind it; an EOF on one direction is none of them               *)
(* (server.go:393, 433).                                                     *)
THEOREM HalfCloseAlwaysKept == Spec => HalfCloseKept
<1> DEFINE Kept(e) == ~closed[e] /\ closed'[e] =>
                          \/ forced'
                          \/ \E w \in Ways : res[w] = "error"
                          \/ \A w \in Ways : pc[w] = "done"
<1>1. IInv /\ [Next]_vars => [\A e \in Ends : Kept(e)]_vars
  <2> SUFFICES ASSUME IInv, Next, NEW e \in Ends PROVE Kept(e) OBVIOUS
  <2>1. CASE TakeFirst
    <3>1. errs # <<>> /\ closed' = CloseOnError(Head(errs)) BY <2>1 DEF TakeFirst
    <3>2. 1 \in DOMAIN errs /\ Head(errs) = errs[1] BY <3>1 DEF IInv, Types
    <3>3. errs[1] = "error" => \E w \in Ways : res[w] = "error" BY <3>2 DEF IInv, Collected
    <3> QED BY <3>1, <3>2, <3>3 DEF CloseOnError
  <2>2. CASE TakeSecond BY <2>2, TakeSteps
  <2>3. CASE Shutdown BY <2>3 DEF Shutdown
  <2>4. CASE UNCHANGED closed BY <2>4
  <2> QED
    BY <2>1, <2>2, <2>3, <2>4 DEF Next, CopyStep, CopyRead, CopyEOF, CopyWrite, CopyFails, CopyFinish,
       CopyReport, PeerWrites, PeerFinishes, PeerBreaks, PeerStalls, DogFires, DogFinishes, DogDismissed,
       TimePasses, here
<1> QED BY <1>1, IInvAlways, PTL DEF Spec, HalfCloseKept
=============================================================================
