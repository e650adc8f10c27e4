---------------------------- MODULE ServerProofs ----------------------------
(***************************************************************************)
(* Proofs about module Server, for any listeners, requests and contents of *)
(* the configuration file: the limit on connections, the bytes reported,   *)
(* what a shutdown leaves behind, and the order in which reloads are       *)
(* published.                                                              *)
(***************************************************************************)
EXTENDS Server, FiniteSetTheorems, TLAPS

Admitting == { l \in Listeners : loop[l] = "admit" }
Live == { c \in Ids : st[c] \notin {"none", "done"} }
Registered == { c \in Ids : st[c] \in Handshaking \cup {"relay", "ended"} }

(* An id is handed out to a client that has arrived, and only once.          *)
Numbered ==
    /\ total + Cardinality(Admitting) <= arrived
    /\ \A c \in Ids : st[c] # "none" => c <= total

(* The map and the wait group know the goroutines of the connections.        *)
Counted ==
    /\ connections = Registered
    /\ wg = Cardinality(Live)
    /\ \A c \in Ids : raw[c] => c \in Live
    /\ \A c \in Ids : st[c] \in {"hello", "dial"} => cancel[c] # "nil"

(* What the place Run has reached says of listeners and connections.         *)
Phases ==
    /\ run \in {"begin", "bind"} => Live = {} /\ \A l \in Listeners : loop[l] = "off"
    /\ run = "begin" => open = {} /\ ~held
    /\ run \in {"closing", "draining", "forced"} => stopping
    /\ run \in {"draining", "forced", "exited"} => open = {}
    /\ run = "exited" => Live = {} /\ ~held /\ (stopping \/ \A l \in Listeners : loop[l] = "off")

(* Reloads: one at a time has loaded a file, one no older than the current.  *)
Ordered ==
    /\ current <= file
    /\ \A r \in Requests : rpc[r] # "idle" => reloadMu = r
    /\ \A r \in Requests : rpc[r] = "loaded" => current <= rver[r] /\ rver[r] <= file

IInv == TypeOK /\ Numbered /\ Counted /\ Phases /\ Ordered /\ ForcedReachesAll /\ LimitKept

-----------------------------------------------------------------------------
(* Facts about the constants and the finite sets. *)
LEMMA Constants ==
    /\ MaxFile \in Nat /\ 1 \in 1..MaxFile /\ ErrCap \in Nat
    /\ \A k \in 1..MaxFile : Files[k].max \in Nat
<1> DEFINE Content == [valid : BOOLEAN, fixed : Nat, max : Nat]
<1>1. \A f \in Content : f.max \in Nat OBVIOUS
<1>2. Files \in Seq(Content) /\ Files # <<>> BY FilesAssumption
<1> HIDE DEF Content
<1>3. Len(Files) \in Nat /\ Len(Files) # 0 /\ \A k \in 1..Len(Files) : Files[k] \in Content BY <1>2
<1>4. Cardinality(Listeners) \in Nat BY ListenersFinite, FS_CardinalityType
<1> QED BY <1>1, <1>3, <1>4 DEF MaxFile, ErrCap

LEMMA FiniteIds == \A S \in SUBSET Ids : IsFiniteSet(S) /\ Cardinality(S) \in Nat
<1>1. IsFiniteSet(Ids) BY FS_Interval, ServerBounds DEF Ids
<1> QED BY <1>1, FS_Subset, FS_CardinalityType

LEMMA FiniteAdmitting == \A S \in SUBSET Listeners : IsFiniteSet(S) /\ Cardinality(S) \in Nat
BY ListenersFinite, FS_Subset, FS_CardinalityType

(* Before an accept loop admits a client there is an id for it.              *)
LEMMA RoomForOne ==
    ASSUME TypeOK, Numbered, NEW l \in Listeners, loop[l] = "admit"
    PROVE  NextId \in Ids
<1>1. l \in Admitting /\ Admitting \in SUBSET Listeners BY DEF Admitting
<1>2. Cardinality(Admitting) \in Nat \ {0} BY <1>1, FiniteAdmitting, FS_EmptySet
<1>3. total \in Nat /\ arrived \in 0..MaxConns BY ServerBounds DEF TypeOK
<1> QED BY <1>2, <1>3, ServerBounds DEF Numbered, NextId, Ids

-----------------------------------------------------------------------------
LEMMA InitIInv == Init => IInv
<1> SUFFICES ASSUME Init PROVE IInv OBVIOUS
<1>1. TypeOK
  <2>1. \A b \in Nat : 0 \in 0..b /\ 0 \in Nat /\ 1 \in Nat OBVIOUS
  <2> QED BY <2>1, Constants, ServerBounds DEF Init, TypeOK, Handshaking
<1>2. Admitting = {} /\ Live = {} /\ Registered = {} BY DEF Init, Admitting, Live, Registered, Handshaking
<1>3. Numbered BY <1>2, FS_EmptySet DEF Init, Numbered
<1>4. Counted BY <1>2, FS_EmptySet DEF Init, Counted
<1>5. Phases BY <1>2 DEF Init, Phases
<1>6. Ordered BY DEF Init, Ordered
<1>7. ForcedReachesAll /\ LimitKept BY DEF Init, ForcedReachesAll, LimitKept
<1> QED BY <1>1, <1>3, <1>4, <1>5, <1>6, <1>7 DEF IInv

LEMMA NextTypeOK == TypeOK /\ Numbered /\ Counted /\ [Next]_vars => TypeOK'
<1> SUFFICES ASSUME TypeOK, Numbered, Counted, [Next]_vars PROVE TypeOK' OBVIOUS
<1> USE Constants, ServerBounds DEF TypeOK, life, accepts, config, conns, counters
<1>1. CASE Lock BY <1>1 DEF Lock
<1>2. CASE Bind BY <1>2 DEF Bind
<1>3. CASE Serve BY <1>3 DEF Serve
<1>4. CASE Stop BY <1>4 DEF Stop
<1>5. CASE CloseListeners BY <1>5 DEF CloseListeners
<1>6. CASE ForceClose BY <1>6 DEF ForceClose, CancelAll
<1>7. CASE Exit BY <1>7 DEF Exit
<1>8. CASE HttpFails BY <1>8 DEF HttpFails
<1>9. CASE EditFile BY <1>9 DEF EditFile
<1>10. ASSUME NEW l \in Listeners, Accept(l) PROVE TypeOK' BY <1>10 DEF Accept, Count
<1>11. ASSUME NEW l \in Listeners, AcceptFails(l) PROVE TypeOK' BY <1>11 DEF AcceptFails
<1>12. ASSUME NEW l \in Listeners, Admit(l) PROVE TypeOK'
  <2>1. NextId \in Ids BY <1>12, RoomForOne DEF Admit
  <2>2. CASE Refused(l) BY <1>12, <2>2 DEF Admit, Count
  <2>3. CASE ~Refused(l)
    <3>1. /\ total' = NextId /\ connections' = connections \cup {NextId} /\ wg' = wg + 1
          /\ st' = [st EXCEPT ![NextId] = "start"] /\ snap' = [snap EXCEPT ![NextId] = loaded[l]]
          /\ raw' = [raw EXCEPT ![NextId] = TRUE] /\ loop' = [loop EXCEPT ![l] = "accept"]
          /\ UNCHANGED <<life, loaded, arrived, config, sent, forwarded, cancel, bytes, result, failures>>
      BY <1>12, <2>3 DEF Admit
    <3>2. total' \in 0..MaxConns /\ wg' \in Nat BY <2>1, <3>1 DEF Ids
    <3> QED BY <2>1, <3>1, <3>2 DEF Handshaking
  <2> QED BY <2>2, <2>3
<1>13. ASSUME NEW c \in Ids, ConnStep(c) \/ Forward(c) PROVE TypeOK'
  <2> USE DEF Goes, ConnUnchanged, Handshaking
  <2>1. CASE SetCancel(c) BY <2>1 DEF SetCancel
  <2>2. CASE Hello(c) BY <2>2 DEF Hello
  <2>3. CASE Dialed(c) BY <2>3 DEF Dialed
  <2>4. CASE Established(c) BY <2>4 DEF Established
  <2>5. CASE Return(c) BY <2>5 DEF Return
  <2>6. CASE Settle(c) BY <2>6 DEF Settle, Settled
  <2>7. CASE Done(c)
    <3>1. Live \in SUBSET Ids /\ c \in Live BY <2>7 DEF Done, Live
    <3>2. wg - 1 \in Nat BY <3>1, FiniteIds, FS_EmptySet DEF Counted
    <3>3. failures' \in [Kinds -> Nat]
      <4>1. failures \in [Kinds -> Nat] /\ Count("connection") \in [Kinds -> Nat] BY DEF Count, Kinds
      <4> QED BY <2>7, <4>1 DEF Done
    <3>4. /\ st' = [st EXCEPT ![c] = "done"] /\ raw' = [raw EXCEPT ![c] = FALSE] /\ wg' = wg - 1
          /\ snap' = [snap EXCEPT ![c] = 1] /\ cancel' = [cancel EXCEPT ![c] = "nil"]
          /\ bytes' = [bytes EXCEPT ![c] = 0] /\ result' = [result EXCEPT ![c] = "ok"]
          /\ UNCHANGED <<life, accepts, config, total, connections, sent, forwarded>>
      BY <2>7 DEF Done
    <3> QED BY <3>2, <3>3, <3>4
  <2>8. CASE Forward(c) BY <2>8 DEF Forward
  <2> QED BY <1>13, <2>1, <2>2, <2>3, <2>4, <2>5, <2>6, <2>7, <2>8 DEF ConnStep
<1>14. ASSUME NEW r \in Requests, ReloadStep(r) PROVE TypeOK'
  <2>1. CASE ReloadLoad(r) BY <2>1 DEF ReloadLoad
  <2>2. CASE ReloadStore(r) BY <2>2 DEF ReloadStore
  <2>3. CASE ReloadDone(r) BY <2>3 DEF ReloadDone, Configured
  <2> QED BY <1>14, <2>1, <2>2, <2>3 DEF ReloadStep
<1>15. CASE UNCHANGED vars BY <1>15 DEF vars
<1> QED
  BY <1>1, <1>2, <1>3, <1>4, <1>5, <1>6, <1>7, <1>8, <1>9, <1>10, <1>11, <1>12, <1>13, <1>14, <1>15
  DEF Next, RunStep

-----------------------------------------------------------------------------
(* The steps, sorted by what of the state they leave alone.                  *)
LEMMA LifeSteps ==
    ASSUME RunStep \/ HttpFails
    PROVE  /\ UNCHANGED <<loaded, arrived, config, counters, total, connections, st, snap, bytes, result, wg>>
           /\ ForceClose \/ UNCHANGED conns
           /\ Serve \/ UNCHANGED loop
BY DEF RunStep, HttpFails, Lock, Bind, Serve, Stop, CloseListeners, ForceClose, Exit, life, accepts, conns

LEMMA ReloadSteps ==
    ASSUME EditFile \/ \E r \in Requests : ReloadStep(r)
    PROVE  UNCHANGED <<life, accepts, conns, counters>>
BY DEF EditFile, ReloadStep, ReloadLoad, ReloadStore, ReloadDone

LEMMA ConnSteps ==
    ASSUME NEW c \in Ids, ConnStep(c) \/ Forward(c), TypeOK
    PROVE  /\ UNCHANGED <<life, accepts, config, total>>
           /\ c \in Live
           /\ \A d \in Ids : st'[d] # "none" => st[d] # "none"
           /\ \A d \in Ids : d # c => st'[d] = st[d] /\ cancel'[d] = cancel[d] /\ raw'[d] = raw[d]
<1> USE DEF TypeOK, Goes, ConnUnchanged, Live, Handshaking
<1>1. CASE SetCancel(c) BY <1>1 DEF SetCancel
<1>2. CASE Hello(c) BY <1>2 DEF Hello
<1>3. CASE Dialed(c) BY <1>3 DEF Dialed
<1>4. CASE Established(c) BY <1>4 DEF Established
<1>5. CASE Return(c) BY <1>5 DEF Return
<1>6. CASE Settle(c) BY <1>6 DEF Settle
<1>7. CASE Done(c) BY <1>7 DEF Done
<1>8. CASE Forward(c) BY <1>8 DEF Forward
<1> QED BY <1>1, <1>2, <1>3, <1>4, <1>5, <1>6, <1>7, <1>8 DEF ConnStep

(* A client that is admitted gets an id that no goroutine has had, while the *)
(* daemon is not stopping and below the limit.                               *)
LEMMA Admitted ==
    ASSUME TypeOK, Numbered, NEW l \in Listeners, Admit(l), ~Refused(l)
    PROVE  /\ NextId \in Ids /\ NextId = total + 1 /\ st[NextId] = "none"
           /\ ~stopping /\ Cardinality(connections) + 1 <= Files[loaded[l]].max
           /\ connections' = connections \cup {NextId}
           /\ st' = [st EXCEPT ![NextId] = "start"]
           /\ snap' = [snap EXCEPT ![NextId] = loaded[l]]
           /\ raw' = [raw EXCEPT ![NextId] = TRUE]
           /\ wg' = wg + 1 /\ total' = NextId
           /\ UNCHANGED cancel
<1>1. /\ connections' = connections \cup {NextId} /\ st' = [st EXCEPT ![NextId] = "start"]
      /\ snap' = [snap EXCEPT ![NextId] = loaded[l]] /\ raw' = [raw EXCEPT ![NextId] = TRUE]
      /\ wg' = wg + 1 /\ total' = NextId /\ UNCHANGED cancel /\ loop[l] = "admit"
  BY DEF Admit
<1>2. NextId \in Ids /\ NextId = total + 1 /\ ~(NextId <= total) BY <1>1, RoomForOne DEF NextId, TypeOK
<1>3. st[NextId] = "none" BY <1>2 DEF Numbered
<1>4. Cardinality(connections) \in Nat /\ Files[loaded[l]].max \in Nat BY FiniteIds, Constants DEF TypeOK
<1>5. ~stopping /\ Cardinality(connections) + 1 <= Files[loaded[l]].max BY <1>4 DEF Refused
<1> QED BY <1>1, <1>2, <1>3, <1>5

(* The other things an accept loop does.                                     *)
LEMMA LoopSteps ==
    ASSUME NEW l \in Listeners, Accept(l) \/ AcceptFails(l) \/ Admit(l), TypeOK
    PROVE  /\ UNCHANGED <<run, open, held, stopping, http, config>>
           /\ loop[l] \in {"accept", "admit"} /\ \A k \in Listeners : k # l => loop'[k] = loop[k]
           /\ (Admit(l) /\ ~Refused(l)) \/ UNCHANGED conns
           /\ Accept(l) => l \in open
BY DEF Accept, AcceptFails, Admit, life, accepts, TypeOK

-----------------------------------------------------------------------------
LEMMA NextNumbered == IInv /\ [Next]_vars => Numbered'
<1> SUFFICES ASSUME IInv, [Next]_vars PROVE Numbered' OBVIOUS
<1>1. TypeOK /\ Numbered BY DEF IInv
<1> USE <1>1
<1>2. /\ Admitting \in SUBSET Listeners /\ IsFiniteSet(Admitting) /\ Cardinality(Admitting) \in Nat
      /\ total \in Nat /\ arrived \in Nat
  BY FiniteAdmitting, ServerBounds DEF Admitting, TypeOK
<1>3. ASSUME UNCHANGED <<loop, arrived, total>>, \A c \in Ids : st'[c] # "none" => st[c] # "none" PROVE Numbered'
  BY <1>3 DEF Numbered, Admitting
<1>4. CASE RunStep \/ HttpFails
  <2>1. CASE Serve
    <3>1. Admitting' = {} BY <2>1 DEF Serve, Admitting
    <3>2. UNCHANGED <<total, arrived, st>> BY <2>1 DEF Serve, conns
    <3> QED BY <1>2, <3>1, <3>2, FS_EmptySet DEF Numbered
  <2> QED BY <1>3, <1>4, <2>1, LifeSteps
<1>5. CASE EditFile \/ \E r \in Requests : ReloadStep(r) BY <1>3, <1>5, ReloadSteps DEF accepts, conns
<1>6. ASSUME NEW l \in Listeners, Accept(l) PROVE Numbered'
  <2>1. /\ loop[l] = "accept" /\ arrived' = arrived + 1 /\ UNCHANGED <<total, st>>
        /\ loop' = loop \/ loop' = [loop EXCEPT ![l] = "admit"]
    BY <1>6 DEF Accept, conns
  <2>2. Admitting' = Admitting \/ Admitting' = Admitting \cup {l} BY <2>1 DEF Admitting, TypeOK
  <2>3. Cardinality(Admitting') <= Cardinality(Admitting) + 1 /\ Cardinality(Admitting') \in Nat
    BY <1>2, <2>2, FS_AddElement
  <2> QED BY <1>2, <2>1, <2>3 DEF Numbered
<1>7. ASSUME NEW l \in Listeners, AcceptFails(l) PROVE Numbered'
  <2>1. Admitting' = Admitting BY <1>7 DEF AcceptFails, Admitting, TypeOK
  <2> QED BY <1>7, <2>1 DEF AcceptFails, Numbered, conns
<1>8. ASSUME NEW l \in Listeners, Admit(l) PROVE Numbered'
  <2>1. loop[l] = "admit" /\ loop' = [loop EXCEPT ![l] = "accept"] /\ UNCHANGED arrived BY <1>8 DEF Admit
  <2>2. Admitting' = Admitting \ {l} /\ l \in Admitting BY <2>1 DEF Admitting, TypeOK
  <2>3. Cardinality(Admitting') = Cardinality(Admitting) - 1 BY <1>2, <2>2, FS_RemoveElement
  <2>4. CASE Refused(l)
    <3>1. UNCHANGED <<total, st>> BY <1>8, <2>4 DEF Admit, conns
    <3> QED BY <1>2, <2>1, <2>3, <3>1 DEF Numbered
  <2>5. CASE ~Refused(l)
    <3>1. total' = total + 1 /\ st' = [st EXCEPT ![NextId] = "start"] /\ NextId = total + 1
      BY <1>8, <2>5, Admitted
    <3>2. \A c \in Ids : c \in Nat /\ (st'[c] # "none" => c <= total') BY <1>2, <3>1 DEF Numbered, Ids, TypeOK
    <3> QED BY <1>2, <2>1, <2>3, <3>1, <3>2 DEF Numbered
  <2> QED BY <2>4, <2>5
<1>9. ASSUME NEW c \in Ids, ConnStep(c) \/ Forward(c) PROVE Numbered' BY <1>3, <1>9, ConnSteps DEF accepts
<1>10. CASE UNCHANGED vars BY <1>3, <1>10 DEF vars, accepts, conns
<1> QED BY <1>4, <1>5, <1>6, <1>7, <1>8, <1>9, <1>10 DEF Next

LEMMA NextCounted == IInv /\ [Next]_vars => Counted'
<1> SUFFICES ASSUME IInv, [Next]_vars PROVE Counted' OBVIOUS
<1>1. TypeOK /\ Numbered /\ Counted BY DEF IInv
<1> USE <1>1
<1>2. Live \in SUBSET Ids /\ IsFiniteSet(Live) /\ Cardinality(Live) \in Nat BY FiniteIds DEF Live
<1>3. ASSUME UNCHANGED conns PROVE Counted' BY <1>3 DEF conns, Counted, Registered, Live
<1>4. CASE ForceClose
  <2>1. UNCHANGED <<connections, st, wg>> BY <1>4 DEF ForceClose
  <2>2. \A c \in Ids : (raw'[c] => raw[c]) /\ (cancel'[c] = cancel[c] \/ cancel'[c] = "called")
    BY <1>4 DEF ForceClose, CancelAll
  <2> QED BY <2>1, <2>2 DEF Counted, Registered, Live
<1>5. ASSUME NEW l \in Listeners, Admit(l), ~Refused(l) PROVE Counted'
  <2> DEFINE c == NextId
  <2>1. /\ c \in Ids /\ st[c] = "none" /\ connections' = connections \cup {c}
        /\ st' = [st EXCEPT ![c] = "start"] /\ raw' = [raw EXCEPT ![c] = TRUE]
        /\ wg' = wg + 1 /\ UNCHANGED cancel
    BY <1>5, Admitted
  <2> HIDE DEF c
  <2>2. Live' = Live \cup {c} /\ c \notin Live BY <2>1 DEF Live, TypeOK
  <2>3. Registered' = Registered \cup {c} BY <2>1 DEF Registered, TypeOK, Handshaking
  <2>4. wg' = Cardinality(Live') BY <1>2, <2>1, <2>2, FS_AddElement DEF Counted
  <2>5. \A d \in Ids : raw'[d] => d \in Live' BY <2>1, <2>2 DEF Counted, TypeOK
  <2>6. \A d \in Ids : st'[d] \in {"hello", "dial"} => cancel'[d] # "nil" BY <2>1 DEF Counted, TypeOK
  <2> QED BY <2>1, <2>3, <2>4, <2>5, <2>6 DEF Counted
<1>6. ASSUME NEW c \in Ids, ConnStep(c) \/ Forward(c) PROVE Counted'
  <2>1. CASE Settle(c)
    <3>1. /\ st[c] = "ended" /\ st' \in {[st EXCEPT ![c] = "quiet"], [st EXCEPT ![c] = "settled"]}
          /\ connections' = connections \ {c} /\ UNCHANGED <<wg, raw, cancel>>
      BY <2>1 DEF Settle, Goes
    <3>2. Live' = Live BY <3>1 DEF Live, TypeOK
    <3>3. Registered' = Registered \ {c} BY <3>1 DEF Registered, Handshaking, TypeOK
    <3> QED BY <3>1, <3>2, <3>3 DEF Counted, TypeOK
  <2>2. CASE Done(c)
    <3>1. /\ st[c] \in {"quiet", "settled"} /\ st' = [st EXCEPT ![c] = "done"]
          /\ raw' = [raw EXCEPT ![c] = FALSE] /\ wg' = wg - 1 /\ UNCHANGED connections
      BY <2>2 DEF Done
    <3>2. Live' = Live \ {c} /\ c \in Live BY <3>1 DEF Live, TypeOK
    <3>3. Registered' = Registered BY <3>1 DEF Registered, Handshaking, TypeOK
    <3>4. wg' = Cardinality(Live') BY <1>2, <3>1, <3>2, FS_RemoveElement DEF Counted
    <3>5. \A d \in Ids : raw'[d] => d \in Live' BY <3>1, <3>2 DEF Counted, TypeOK
    <3>6. \A d \in Ids : st'[d] \in {"hello", "dial"} => cancel'[d] # "nil"
      BY <2>2, <3>1, ConnSteps DEF Counted, TypeOK, ConnStep
    <3> QED BY <3>1, <3>3, <3>4, <3>5, <3>6 DEF Counted
  <2>3. CASE SetCancel(c) \/ Hello(c) \/ Dialed(c) \/ Established(c) \/ Return(c) \/ Forward(c)
    <3> USE DEF ConnUnchanged, Goes, TypeOK
    <3>1. UNCHANGED <<connections, wg, raw>>
      BY <2>3 DEF SetCancel, Hello, Dialed, Established, Return, Forward
    <3>2. Live' = Live /\ Registered' = Registered
      BY <2>3 DEF SetCancel, Hello, Dialed, Established, Return, Forward, Live, Registered, Handshaking
    <3>3. \A d \in Ids : st'[d] \in {"hello", "dial"} => cancel'[d] # "nil"
      BY <2>3 DEF SetCancel, Hello, Dialed, Established, Return, Forward, Counted
    <3> QED BY <3>1, <3>2, <3>3 DEF Counted
  <2> QED BY <1>6, <2>1, <2>2, <2>3 DEF ConnStep
<1>7. ASSUME NEW l \in Listeners, Accept(l) \/ AcceptFails(l) \/ Admit(l) PROVE Counted'
  BY <1>3, <1>5, <1>7, LoopSteps
<1>8. CASE RunStep \/ HttpFails BY <1>3, <1>4, <1>8, LifeSteps
<1>9. CASE EditFile \/ \E r \in Requests : ReloadStep(r) BY <1>3, <1>9, ReloadSteps
<1>10. CASE UNCHANGED vars BY <1>3, <1>10 DEF vars
<1> QED BY <1>6, <1>7, <1>8, <1>9, <1>10 DEF Next

LEMMA NextPhases == IInv /\ [Next]_vars => Phases'
<1> SUFFICES ASSUME IInv, [Next]_vars PROVE Phases' OBVIOUS
<1>1. TypeOK /\ Numbered /\ Counted /\ Phases BY DEF IInv
<1> USE <1>1
<1>2. ASSUME UNCHANGED st PROVE Live' = Live BY <1>2 DEF Live
<1>3. wg = 0 => Live = {}
  <2>1. IsFiniteSet(Live) BY FiniteIds DEF Live
  <2> QED BY <2>1, FS_EmptySet DEF Counted
<1>4. CASE RunStep \/ HttpFails
  <2>1. Live' = Live BY <1>2, <1>4, LifeSteps
  <2> USE DEF Phases, accepts, life
  <2>2. CASE Lock BY <2>1, <2>2 DEF Lock
  <2>3. CASE Bind BY <2>1, <2>3 DEF Bind
  <2>4. CASE Serve BY <2>1, <2>4 DEF Serve
  <2>5. CASE Stop BY <2>1, <2>5 DEF Stop
  <2>6. CASE CloseListeners BY <2>1, <2>6 DEF CloseListeners
  <2>7. CASE ForceClose BY <2>1, <2>7 DEF ForceClose
  <2>8. CASE Exit BY <1>3, <2>1, <2>8 DEF Exit
  <2>9. CASE HttpFails BY <2>1, <2>9 DEF HttpFails
  <2> QED BY <1>4, <2>2, <2>3, <2>4, <2>5, <2>6, <2>7, <2>8, <2>9 DEF RunStep
<1>5. ASSUME NEW l \in Listeners, Accept(l) \/ AcceptFails(l) \/ Admit(l) PROVE Phases'
  <2>1. UNCHANGED <<run, open, held, stopping>> /\ loop[l] # "off" BY <1>5, LoopSteps
  <2>2. run \notin {"begin", "bind"} /\ (run = "exited" => stopping) BY <2>1 DEF Phases
  <2>3. Live' = Live \/ ~stopping BY <1>2, <1>5, LoopSteps, Admitted DEF conns
  <2> QED BY <2>1, <2>2, <2>3 DEF Phases
<1>6. ASSUME NEW c \in Ids, ConnStep(c) \/ Forward(c) PROVE Phases'
  <2>1. UNCHANGED <<run, open, held, stopping, loop>> /\ Live # {} BY <1>6, ConnSteps DEF life, accepts
  <2> QED BY <2>1 DEF Phases
<1>7. CASE (EditFile \/ \E r \in Requests : ReloadStep(r)) \/ UNCHANGED vars
  <2>1. UNCHANGED <<life, accepts, conns>> BY <1>7, ReloadSteps DEF vars
  <2>2. Live' = Live BY <1>2, <2>1 DEF conns
  <2> QED BY <2>1, <2>2 DEF Phases, life, accepts
<1> QED BY <1>4, <1>5, <1>6, <1>7 DEF Next

LEMMA NextOrdered == IInv /\ [Next]_vars => Ordered'
<1> SUFFICES ASSUME IInv, [Next]_vars PROVE Ordered' OBVIOUS
<1>1. TypeOK /\ Ordered BY DEF IInv
<1>2. /\ file \in Nat /\ current \in Nat /\ \A r \in Requests : rver[r] \in Nat
      /\ rpc \in [Requests -> {"idle", "loaded", "stored"}] /\ rver \in [Requests -> 1..MaxFile]
  BY <1>1, Constants DEF TypeOK
<1> USE <1>2
<1>3. ASSUME UNCHANGED config PROVE Ordered' BY <1>1, <1>3 DEF config, Ordered
<1>4. CASE EditFile BY <1>1, <1>4 DEF EditFile, Ordered
<1>5. ASSUME NEW r \in Requests, ReloadLoad(r) PROVE Ordered'
  <2>1. \A q \in Requests : rpc[q] = "idle" BY <1>1, <1>5, NoneAssumption DEF ReloadLoad, ReloadFree, Ordered
  <2>2. /\ UNCHANGED <<file, current>> /\ rver' = [rver EXCEPT ![r] = file]
        /\ (rpc' = rpc \/ (rpc' = [rpc EXCEPT ![r] = "loaded"] /\ reloadMu' = r))
    BY <1>5 DEF ReloadLoad
  <2>3. \A q \in Requests : rpc'[q] # "idle" => q = r /\ reloadMu' = r /\ rver'[q] = file BY <2>1, <2>2
  <2> QED BY <1>1, <2>2, <2>3 DEF Ordered
<1>6. ASSUME NEW r \in Requests, ReloadStore(r) \/ ReloadDone(r) PROVE Ordered'
  <2>1. rpc[r] # "idle" BY <1>6 DEF ReloadStore, ReloadDone
  <2>2. \A q \in Requests : q # r => rpc[q] = "idle" BY <1>1, <2>1 DEF Ordered
  <2>3. /\ UNCHANGED <<file, rver>> /\ current' <= file
        /\ \/ rpc' = [rpc EXCEPT ![r] = "idle"]
           \/ rpc' = [rpc EXCEPT ![r] = "stored"] /\ UNCHANGED reloadMu
    BY <1>1, <1>6 DEF ReloadStore, ReloadDone, Ordered
  <2> QED BY <1>1, <2>1, <2>2, <2>3 DEF Ordered
<1>7. ASSUME NEW l \in Listeners, Accept(l) \/ AcceptFails(l) \/ Admit(l) PROVE Ordered'
  BY <1>1, <1>3, <1>7, LoopSteps
<1>8. ASSUME NEW c \in Ids, ConnStep(c) \/ Forward(c) PROVE Ordered' BY <1>1, <1>3, <1>8, ConnSteps
<1>9. CASE RunStep \/ HttpFails BY <1>3, <1>9, LifeSteps
<1>10. CASE UNCHANGED vars BY <1>3, <1>10 DEF vars
<1> QED BY <1>4, <1>5, <1>6, <1>7, <1>8, <1>9, <1>10 DEF Next, ReloadStep

(* The timer reaches every connection that is registered, and while the      *)
(* daemon is stopping no other is admitted; one that had not published its   *)
(* cancel function finds its socket closed and never dials.                  *)
LEMMA NextForced == IInv /\ [Next]_vars => ForcedReachesAll'
<1> SUFFICES ASSUME IInv, [Next]_vars PROVE ForcedReachesAll' OBVIOUS
<1>1. TypeOK /\ Numbered /\ Counted /\ Phases /\ ForcedReachesAll BY DEF IInv
<1> USE <1>1
<1>2. ASSUME UNCHANGED conns, run' = "forced" => run = "forced" PROVE ForcedReachesAll'
  BY <1>2 DEF conns, ForcedReachesAll
<1>3. CASE ForceClose
  <2>1. \A c \in Ids : st[c] = "dial" => cancel[c] \in {"set", "called"} BY DEF Counted, TypeOK
  <2> QED BY <1>3, <2>1 DEF ForceClose, CancelAll, ForcedReachesAll, TypeOK
<1>4. CASE RunStep \/ HttpFails
  <2>1. CASE ~ForceClose
    <3>1. run' = "forced" => run = "forced"
      BY <1>4, <2>1 DEF RunStep, HttpFails, Lock, Bind, Serve, Stop, CloseListeners, Exit
    <3> QED BY <1>2, <1>4, <2>1, <3>1, LifeSteps
  <2> QED BY <1>3, <2>1
<1>5. ASSUME NEW l \in Listeners, Accept(l) \/ AcceptFails(l) \/ Admit(l) PROVE ForcedReachesAll'
  <2>1. UNCHANGED run BY <1>5, LoopSteps
  <2>2. CASE Admit(l) /\ ~Refused(l)
    <3>1. ~stopping BY <2>2, Admitted
    <3> QED BY <2>1, <3>1 DEF Phases, ForcedReachesAll
  <2> QED BY <1>2, <1>5, <2>1, <2>2, LoopSteps
<1>6. ASSUME NEW c \in Ids, ConnStep(c) \/ Forward(c) PROVE ForcedReachesAll'
  <2>1. UNCHANGED run BY <1>6, ConnSteps DEF life
  <2>2. connections' \subseteq connections
    BY <1>6 DEF ConnStep, SetCancel, Hello, Dialed, Established, Return, Settle, Done, Forward, ConnUnchanged
  <2>3. c \in connections' => raw'[c] = raw[c] /\ (st'[c] = "dial" => (st[c] = "hello" /\ raw[c]) \/ (st[c] = "dial" /\ cancel'[c] = cancel[c]))
    <3> USE DEF TypeOK, Goes, ConnUnchanged
    <3>1. CASE Done(c)
      <4>1. c \notin connections' BY <3>1 DEF Done, Counted, Registered, Handshaking
      <4> QED BY <4>1
    <3> QED BY <1>6, <3>1 DEF ConnStep, SetCancel, Hello, Dialed, Established, Return, Settle, Forward
  <2>4. \A d \in connections' : d # c => raw'[d] = raw[d] /\ st'[d] = st[d] /\ cancel'[d] = cancel[d]
    BY <1>6, <2>2, ConnSteps DEF TypeOK
  <2> QED BY <2>1, <2>2, <2>3, <2>4 DEF ForcedReachesAll
<1>7. CASE (EditFile \/ \E r \in Requests : ReloadStep(r)) \/ UNCHANGED vars
  <2>1. UNCHANGED <<life, conns>> BY <1>7, ReloadSteps DEF vars
  <2> QED BY <1>2, <2>1 DEF life
<1> QED BY <1>4, <1>5, <1>6, <1>7 DEF Next

(* A new connection is the last in the order of ids, so that it does not     *)
(* count against those before it; whatever ends only makes room.             *)
LEMMA NextLimit == IInv /\ [Next]_vars => LimitKept'
<1> SUFFICES ASSUME IInv, [Next]_vars PROVE LimitKept' OBVIOUS
<1>1. TypeOK /\ Numbered /\ Counted /\ LimitKept BY DEF IInv
<1> USE <1>1
<1> DEFINE UpTo(c) == { d \in connections : d <= c }
<1>2. ASSUME NEW c \in Ids PROVE IsFiniteSet(UpTo(c)) /\ Cardinality(UpTo(c)) \in Nat
  BY FiniteIds DEF TypeOK
<1>3. \A k \in 1..MaxFile : Files[k].max \in Nat BY Constants
<1>4. ASSUME connections' \subseteq connections, \A c \in connections' : snap'[c] = snap[c] PROVE LimitKept'
  <2> SUFFICES ASSUME NEW c \in connections' PROVE Cardinality(UpTo(c)') <= Files[snap'[c]].max
    BY DEF LimitKept
  <2>1. c \in Ids /\ snap[c] \in 1..MaxFile /\ snap'[c] = snap[c] /\ c \in connections BY <1>4 DEF TypeOK
  <2>2. UpTo(c)' \in SUBSET UpTo(c) BY <1>4
  <2>3. /\ Cardinality(UpTo(c)') <= Cardinality(UpTo(c)) /\ Cardinality(UpTo(c)') \in Nat
        /\ Cardinality(UpTo(c)) \in Nat
    BY <1>2, <2>1, <2>2, FS_Subset, FS_CardinalityType
  <2>4. Cardinality(UpTo(c)) <= Files[snap[c]].max BY <2>1 DEF LimitKept
  <2>5. Files[snap[c]].max \in Nat BY <1>3, <2>1
  <2> HIDE DEF UpTo
  <2> QED BY <2>1, <2>3, <2>4, <2>5
<1>5. ASSUME NEW l \in Listeners, Admit(l), ~Refused(l) PROVE LimitKept'
  <2> DEFINE n == NextId
  <2>1. /\ n \in Ids /\ n = total + 1 /\ Cardinality(connections) + 1 <= Files[loaded[l]].max
        /\ connections' = connections \cup {n} /\ snap' = [snap EXCEPT ![n] = loaded[l]]
    BY <1>5, Admitted
  <2> HIDE DEF n
  <2>2. \A c \in connections : c \in Ids /\ c \in Nat /\ c <= total /\ c < n
    <3>1. Ids \subseteq Nat /\ total \in Nat BY ServerBounds DEF Ids, TypeOK
    <3>2. \A c \in connections : c \in Ids /\ st[c] # "none" BY DEF Counted, Registered, Handshaking
    <3>3. \A c \in connections : c <= total BY <3>2 DEF Numbered
    <3>4. \A c \in Nat : c <= total => c < total + 1 BY <3>1
    <3>5. n = total + 1 BY <2>1
    <3> QED BY <3>1, <3>2, <3>3, <3>4, <3>5
  <2> SUFFICES ASSUME NEW c \in connections' PROVE Cardinality(UpTo(c)') <= Files[snap'[c]].max
    BY DEF LimitKept
  <2>3. CASE c = n
    <3>1. UpTo(c)' = connections \cup {n}
      <4>1. n \in Nat /\ \A d \in connections : d \in Nat /\ d < n BY <2>1, <2>2, ServerBounds DEF Ids
      <4> QED BY <2>1, <2>3, <4>1
    <3>2. n \notin connections /\ IsFiniteSet(connections) BY <2>2, FiniteIds DEF TypeOK
    <3>3. Cardinality(UpTo(c)') = Cardinality(connections) + 1 BY <3>1, <3>2, FS_AddElement
    <3>4. snap'[c] = loaded[l] BY <2>1, <2>3 DEF TypeOK
    <3> QED BY <2>1, <3>3, <3>4
  <2>4. CASE c # n
    <3>1. c \in connections /\ snap'[c] = snap[c] BY <2>1, <2>2, <2>4 DEF TypeOK
    <3>2. UpTo(c)' = UpTo(c) BY <2>1, <2>2, <3>1 DEF Ids
    <3> QED BY <3>1, <3>2 DEF LimitKept
  <2> QED BY <2>3, <2>4
<1>6. ASSUME NEW c \in Ids, ConnStep(c) \/ Forward(c) PROVE LimitKept'
  <2>1. CASE Done(c)
    <3>1. UNCHANGED connections /\ c \notin connections /\ snap' = [snap EXCEPT ![c] = 1]
      BY <2>1 DEF Done, Counted, Registered, Handshaking
    <3> QED BY <1>4, <3>1 DEF TypeOK
  <2>2. CASE ~Done(c)
    <3>1. connections' \subseteq connections /\ UNCHANGED snap
      BY <1>6, <2>2 DEF ConnStep, SetCancel, Hello, Dialed, Established, Return, Settle, Forward, ConnUnchanged
    <3> QED BY <1>4, <3>1
  <2> QED BY <2>1, <2>2
<1>7. ASSUME NEW l \in Listeners, Accept(l) \/ AcceptFails(l) \/ Admit(l) PROVE LimitKept'
  BY <1>4, <1>5, <1>7, LoopSteps DEF conns
<1>8. CASE RunStep \/ HttpFails BY <1>4, <1>8, LifeSteps
<1>9. CASE (EditFile \/ \E r \in Requests : ReloadStep(r)) \/ UNCHANGED vars
  <2>1. UNCHANGED conns BY <1>9, ReloadSteps DEF vars
  <2> QED BY <1>4, <2>1 DEF conns
<1> QED BY <1>6, <1>7, <1>8, <1>9 DEF Next

-----------------------------------------------------------------------------
(* The bytes. A connection that has not started has relayed nothing.         *)
BytesInv ==
    /\ BytesConserved
    /\ IsFiniteSet(Active)
    /\ \A c \in Ids : st[c] = "none" => bytes[c] = 0

(* The bytes of one connection are as many as it has counted.                *)
LEMMA OwnBytes ==
    ASSUME NEW c, NEW n \in Nat
    PROVE  IsFiniteSet({c} \X (1..n)) /\ Cardinality({c} \X (1..n)) = n
<1> DEFINE f == [b \in 1..n |-> <<c, b>>]
<1>1. f \in Bijection(1..n, {c} \X (1..n))
  <2>1. f \in [1..n -> {c} \X (1..n)] OBVIOUS
  <2>2. \A a, b \in 1..n : f[a] = f[b] => a = b OBVIOUS
  <2>3. \A t \in {c} \X (1..n) : t[2] \in 1..n /\ f[t[2]] = t OBVIOUS
  <2> HIDE DEF f
  <2> QED BY <2>1, <2>2, <2>3 DEF Bijection, Injection, Surjection, IsInjective
<1>2. IsFiniteSet(1..n) /\ Cardinality(1..n) = n BY FS_Interval
<1> QED BY <1>1, <1>2, FS_Bijection DEF ExistsBijection

LEMMA NextBytes == IInv /\ BytesInv /\ [Next]_vars => BytesInv'
<1> SUFFICES ASSUME IInv, BytesInv, [Next]_vars PROVE BytesInv' OBVIOUS
<1>1. TypeOK /\ Numbered /\ Counted BY DEF IInv
<1>2. /\ connections \subseteq Ids /\ bytes \in [Ids -> 0..MaxBytes] /\ MaxBytes \in Nat
      /\ sent \in Nat /\ forwarded \in Nat
  BY <1>1, ServerBounds DEF TypeOK
<1>3. IsFiniteSet(Active) /\ Cardinality(Active) \in Nat /\ sent + Cardinality(Active) = forwarded
  BY FS_CardinalityType DEF BytesInv, BytesConserved, Reported
<1>4. ASSUME UNCHANGED <<sent, forwarded>>, Active' = Active,
             \A c \in Ids : st'[c] = "none" => st[c] = "none" /\ (bytes'[c] = bytes[c] \/ bytes'[c] = 0)
      PROVE  BytesInv'
  BY <1>4 DEF BytesInv, BytesConserved, Reported
<1>5. ASSUME UNCHANGED <<conns, sent, forwarded>> PROVE BytesInv' BY <1>4, <1>5 DEF conns, Active
<1>6. ASSUME NEW l \in Listeners, Admit(l), ~Refused(l) PROVE BytesInv'
  <2>1. /\ NextId \in Ids /\ st[NextId] = "none" /\ connections' = connections \cup {NextId}
        /\ st' = [st EXCEPT ![NextId] = "start"] /\ UNCHANGED <<bytes, sent, forwarded>>
    BY <1>1, <1>6, Admitted DEF Admit
  <2>2. bytes[NextId] = 0 BY <2>1 DEF BytesInv
  <2>3. Active' = Active BY <1>2, <2>1, <2>2 DEF Active
  <2> QED BY <1>1, <1>4, <2>1, <2>3 DEF TypeOK
<1>7. ASSUME NEW c \in Ids, Forward(c) PROVE BytesInv'
  <2>1. /\ st[c] = "relay" /\ bytes[c] < MaxBytes /\ bytes' = [bytes EXCEPT ![c] = @ + 1]
        /\ forwarded' = forwarded + 1 /\ UNCHANGED <<connections, sent, st>>
    BY <1>7 DEF Forward, ConnUnchanged
  <2>2. c \in connections BY <1>1, <2>1 DEF Counted, Registered
  <2>3. Active' = Active \cup {<<c, bytes[c] + 1>>} /\ <<c, bytes[c] + 1>> \notin Active
    BY <1>2, <2>1, <2>2 DEF Active
  <2>4. IsFiniteSet(Active') /\ Cardinality(Active') = Cardinality(Active) + 1
    BY <1>3, <2>3, FS_AddElement
  <2>5. BytesConserved'
    <3>1. forwarded' = forwarded + 1 /\ sent' = sent BY <2>1
    <3> QED BY <1>2, <1>3, <2>4, <3>1 DEF BytesConserved, Reported
  <2>6. \A d \in Ids : st'[d] = "none" => bytes'[d] = 0 BY <1>2, <2>1 DEF BytesInv
  <2> QED BY <2>4, <2>5, <2>6 DEF BytesInv
<1>8. ASSUME NEW c \in Ids, Settle(c) PROVE BytesInv'
  <2> DEFINE Own == {c} \X (1..bytes[c])
  <2>1. /\ st[c] = "ended" /\ sent' = sent + bytes[c] /\ connections' = connections \ {c}
        /\ \A d \in Ids : st'[d] = "none" => st[d] = "none"
        /\ UNCHANGED <<bytes, forwarded>>
    BY <1>1, <1>8 DEF Settle, Settled, Goes, TypeOK
  <2>2. c \in connections BY <1>1, <2>1 DEF Counted, Registered
  <2>3. Active' = Active \ Own /\ Active \cap Own = Own BY <1>2, <2>1, <2>2 DEF Active
  <2>4. bytes[c] \in Nat /\ Cardinality(Own) = bytes[c]
    <3>1. bytes[c] \in Nat BY <1>2
    <3> QED BY <3>1, OwnBytes
  <2> HIDE DEF Own
  <2>5. IsFiniteSet(Active') /\ Cardinality(Active') = Cardinality(Active) - bytes[c]
    <3>1. /\ IsFiniteSet(Active \ Own)
          /\ Cardinality(Active \ Own) = Cardinality(Active) - Cardinality(Active \cap Own)
      BY <1>3, FS_Difference
    <3> QED BY <2>3, <2>4, <3>1
  <2>6. BytesConserved' BY <1>2, <1>3, <2>1, <2>4, <2>5 DEF BytesConserved, Reported
  <2> QED BY <2>1, <2>5, <2>6 DEF BytesInv
<1>9. ASSUME NEW c \in Ids, Done(c) PROVE BytesInv'
  <2>1. /\ st[c] \in {"quiet", "settled"} /\ st' = [st EXCEPT ![c] = "done"]
        /\ bytes' = [bytes EXCEPT ![c] = 0] /\ UNCHANGED <<connections, sent, forwarded>>
    BY <1>9 DEF Done
  <2>2. c \notin connections BY <1>1, <2>1 DEF Counted, Registered, Handshaking
  <2>3. Active' = Active BY <1>2, <2>1, <2>2 DEF Active
  <2> QED BY <1>1, <1>2, <1>4, <2>1, <2>3 DEF TypeOK
<1>10. ASSUME NEW c \in Ids, ConnStep(c) \/ Forward(c) PROVE BytesInv'
  <2>1. CASE SetCancel(c) \/ Hello(c) \/ Dialed(c) \/ Established(c) \/ Return(c)
    <3>1. UNCHANGED <<connections, bytes, sent, forwarded>>
      BY <2>1 DEF SetCancel, Hello, Dialed, Established, Return, ConnUnchanged
    <3>2. Active' = Active BY <3>1 DEF Active
    <3>3. \A d \in Ids : st'[d] = "none" => st[d] = "none" 
      BY <1>1, <2>1 DEF SetCancel, Hello, Dialed, Established, Return, Goes, TypeOK
    <3> QED BY <1>4, <3>1, <3>2, <3>3
  <2> QED BY <1>7, <1>8, <1>9, <1>10, <2>1 DEF ConnStep
<1>11. ASSUME NEW l \in Listeners, Accept(l) \/ AcceptFails(l) \/ Admit(l) PROVE BytesInv'
  <2>1. UNCHANGED <<sent, forwarded>> BY <1>11 DEF Accept, AcceptFails, Admit, counters
  <2> QED BY <1>1, <1>5, <1>6, <1>11, <2>1, LoopSteps
<1>12. CASE RunStep \/ HttpFails BY <1>4, <1>12, LifeSteps DEF counters, Active
<1>13. CASE (EditFile \/ \E r \in Requests : ReloadStep(r)) \/ UNCHANGED vars
  <2>1. UNCHANGED <<conns, counters>> BY <1>13, ReloadSteps DEF vars
  <2> QED BY <1>5, <2>1 DEF counters
<1> QED BY <1>10, <1>11, <1>12, <1>13 DEF Next

-----------------------------------------------------------------------------
LEMMA IInvAlways == Spec => []IInv
<1>1. IInv /\ [Next]_vars => IInv'
  BY NextTypeOK, NextNumbered, NextCounted, NextPhases, NextOrdered, NextForced, NextLimit DEF IInv
<1> QED BY <1>1, InitIInv, PTL DEF Spec

(* Every admitted client has an id of its own within the number of clients   *)
(* that have arrived, the wait group never goes below zero, and errCh never  *)
(* holds more than its capacity (server.go:207, 262-298).                    *)
THEOREM TypeCorrect == Spec => []TypeOK
BY IInvAlways, PTL DEF IInv

(* The limit of the configuration a connection was accepted under counts all *)
(* the connections up to it, for any number of accept loops and reloads      *)
(* (server.go:262-276).                                                      *)
THEOREM LimitAlwaysKept == Spec => []LimitKept
BY IInvAlways, PTL DEF IInv

(* Whatever connections come, relay, settle and end, every byte is in the    *)
(* reported total once (server.go:122-127, 286-292).                         *)
THEOREM BytesAlwaysConserved == Spec => []BytesConserved
<1>1. Init => BytesInv
  <2> SUFFICES ASSUME Init PROVE BytesInv OBVIOUS
  <2>1. Active = {} BY DEF Init, Active
  <2> QED BY <2>1, FS_EmptySet DEF Init, BytesInv, BytesConserved, Reported
<1>2. BytesInv => BytesConserved BY DEF BytesInv
<1> QED BY <1>1, <1>2, NextBytes, IInvAlways, PTL DEF Spec

(* Run leaves nothing behind, wherever it returns from (server.go:175-259).  *)
THEOREM ExitAlwaysClean == Spec => []ExitClean
<1>1. IInv => ExitClean
  <2> SUFFICES ASSUME IInv, run = "exited"
               PROVE  /\ connections = {} /\ open = {} /\ ~held
                      /\ \A c \in Ids : st[c] \in {"none", "done"} /\ ~raw[c]
    BY DEF ExitClean
  <2>1. open = {} /\ ~held /\ Live = {} BY DEF IInv, Phases
  <2>2. Registered = {} BY <2>1 DEF Registered, Live, Handshaking
  <2>3. connections = {} BY <2>2 DEF IInv, Counted
  <2>4. \A c \in Ids : st[c] \in {"none", "done"} /\ ~raw[c] BY <2>1 DEF IInv, Counted, Live
  <2> QED BY <2>1, <2>3, <2>4
<1> QED BY <1>1, IInvAlways, PTL

(* The shutdown timer leaves no connection that could still dial under a     *)
(* context nobody cancels (server.go:245-251, 324-326).                      *)
THEOREM ForcedAlwaysReachesAll == Spec => []ForcedReachesAll
BY IInvAlways, PTL DEF IInv

(* Concurrent reloads never publish an older configuration over a newer one  *)
(* (server.go:139-170).                                                      *)
THEOREM ReloadsAlwaysForward == Spec => ReloadsForward
<1>1. IInv /\ [Next]_vars => [current' # current \/ gen' # gen => current' >= current /\ gen' = gen + 1]_vars
  <2> SUFFICES ASSUME IInv, Next PROVE current' # current \/ gen' # gen => current' >= current /\ gen' = gen + 1
    OBVIOUS
  <2>1. ASSUME NEW r \in Requests, ReloadStore(r)
        PROVE  current' # current \/ gen' # gen => current' >= current /\ gen' = gen + 1
    <3>1. rpc[r] = "loaded" /\ current <= rver[r] /\ current \in Nat /\ rver[r] \in Nat
      BY <2>1, Constants DEF ReloadStore, IInv, Ordered, TypeOK
    <3> QED BY <2>1, <3>1 DEF ReloadStore
  <2>2. CASE UNCHANGED <<current, gen>> BY <2>2
  <2>3. ASSUME NEW l \in Listeners, Accept(l) \/ AcceptFails(l) \/ Admit(l) PROVE UNCHANGED <<current, gen>>
    BY <2>3, LoopSteps DEF config, IInv
  <2>4. ASSUME NEW c \in Ids, ConnStep(c) \/ Forward(c) PROVE UNCHANGED <<current, gen>>
    BY <2>4, ConnSteps DEF config, IInv
  <2>5. CASE RunStep \/ HttpFails BY <2>2, <2>5, LifeSteps DEF config
  <2>6. CASE EditFile BY <2>2, <2>6 DEF EditFile
  <2>7. ASSUME NEW r \in Requests, ReloadLoad(r) \/ ReloadDone(r) PROVE UNCHANGED <<current, gen>>
    BY <2>7 DEF ReloadLoad, ReloadDone
  <2> QED BY <2>1, <2>2, <2>3, <2>4, <2>5, <2>6, <2>7 DEF Next, ReloadStep
<1> QED BY <1>1, IInvAlways, PTL DEF Spec, ReloadsForward
=============================================================================
