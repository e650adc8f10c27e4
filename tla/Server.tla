------------------------------- MODULE Server -------------------------------
(***************************************************************************)
(* The daemon of internal/proxy/server.go: start-up, accept loops,         *)
(* connection goroutines, live reload and shutdown. Relaying is abstracted *)
(* to bytes that move and an end (module Relay has its detail), resolving  *)
(* to the configuration the resolver was given (module Resolver).          *)
(***************************************************************************)
EXTENDS Integers, FiniteSets, Sequences

CONSTANTS
    Listeners,        \* configured listen addresses
    Requests,         \* goroutines that run Reload: control requests, SIGHUP
    Files,            \* successive contents of the configuration file:
                      \* [valid, fixed, max]; "fixed" needs a restart
    MaxConns,         \* bound: clients that connect
    MaxBytes,         \* bound: chunks relayed per connection
    MaxReloads,       \* bound: calls of Reload
    None

MaxFile == Len(Files)
Ids == 1..MaxConns

ASSUME FilesAssumption ==
    /\ Files # <<>>
    /\ Files \in Seq([valid : BOOLEAN, fixed : Nat, max : Nat])
    /\ Files[1].valid
ASSUME ServerBounds ==
    MaxConns \in Nat /\ MaxBytes \in Nat /\ MaxReloads \in Nat
ASSUME NoneAssumption == None \notin Requests
ASSUME ListenersFinite == IsFiniteSet(Listeners)

VARIABLES
    run,              \* where Run is
    open,             \* listeners that are bound
    held,             \* daemon.lock and the control socket are held
    stopping,         \* s.stopping
    errs,             \* number of errors waiting in errCh
    loop,             \* where each accept loop is, and the snapshot that the
    loaded,           \* accept of its connection has loaded
    http,             \* the control server: "off", "serving", "gone"
    file,             \* version of the configuration file on disk
    current, gen,     \* s.current: version of the file it came from, generation
    resolver,         \* version the resolver is configured from
    reloadMu, rpc,    \* its holder; where each Reload is
    rver,             \* the version a Reload has loaded
    reloads,
    arrived,          \* clients that have connected so far
    total,            \* s.total (and s.next)
    connections,      \* keys of s.connections
    st,               \* where each connection's goroutine is
    snap,             \* the snapshot it was accepted under
    cancel,           \* a.cancel: "nil", "set", "called"
    raw,              \* the client socket: TRUE while open
    bytes, result,    \* bytes it relayed; what handle returned
    wg,               \* s.wg
    sent, failures,   \* s.sent (and s.received); s.failures
    forwarded         \* history: bytes delivered in the daemon's lifetime

life == <<run, open, held, stopping, errs, http>>
accepts == <<loop, loaded, arrived>>
config == <<file, current, gen, resolver, reloadMu, rpc, rver, reloads>>
conns == <<total, connections, st, snap, cancel, raw, bytes, result, wg>>
counters == <<sent, failures, forwarded>>
vars == <<life, accepts, config, conns, counters>>

Kinds == {"client_denied", "connection_limit", "connection"}
Handshaking == {"start", "hello", "dial", "answer"}

ErrCapOne == 1                                    \* Mutant: room for one error
ErrCap == Cardinality(Listeners) + 1
Count(kind) == [failures EXCEPT ![kind] = @ + 1]

-----------------------------------------------------------------------------
(* Run: start-up. Every error path releases what is held, by its defers.     *)

Lock ==
    /\ run = "begin"
    /\ \/ run' = "bind" /\ held' = TRUE
       \/ run' = "exited" /\ held' = FALSE       \* daemon.lock or socket is taken
    /\ UNCHANGED <<open, stopping, errs, http, accepts, config, conns, counters>>

Bind ==
    /\ run = "bind"
    /\ \E l \in Listeners \ open :
         \/ open' = open \cup {l} /\ UNCHANGED <<run, held>>
         \/ open' = {} /\ run' = "exited" /\ held' = FALSE
    /\ UNCHANGED <<stopping, errs, http, accepts, config, conns, counters>>

Serve ==
    /\ run = "bind"
    /\ open = Listeners
    /\ run' = "serving"
    /\ http' = "serving"
    /\ loop' = [l \in Listeners |-> "accept"]
    /\ UNCHANGED <<open, held, stopping, errs, loaded, arrived, config, conns, counters>>

HttpFails ==
    /\ http = "serving"
    /\ errs < ErrCap
    /\ http' = "gone"
    /\ errs' = errs + 1
    /\ UNCHANGED <<run, open, held, stopping, accepts, config, conns, counters>>

(* Run: shutdown, on a signal or on the first error of a goroutine.          *)
Stop ==
    /\ run = "serving"
    /\ \/ UNCHANGED errs
       \/ errs > 0 /\ errs' = errs - 1
    /\ stopping' = TRUE
    /\ run' = "closing"
    /\ UNCHANGED <<open, held, http, accepts, config, conns, counters>>

CloseListeners ==
    /\ run = "closing"
    /\ open' = {}
    /\ run' = "draining"
    /\ UNCHANGED <<held, stopping, errs, http, accepts, config, conns, counters>>

(* The shutdown timer: cancel and close whatever is left, then wait for it.  *)
CancelNobody == cancel           \* Mutant: sockets only
CancelAll == [c \in Ids |-> IF c \in connections /\ cancel[c] = "set"
                            THEN "called" ELSE cancel[c]]

ForceClose ==
    /\ run = "draining"
    /\ wg > 0
    /\ cancel' = CancelAll
    /\ raw' = [c \in Ids |-> raw[c] /\ c \notin connections]
    /\ run' = "forced"
    /\ UNCHANGED <<open, held, stopping, errs, http, accepts, config, total,
                   connections, st, snap, bytes, result, wg, counters>>

Exit ==
    /\ run \in {"draining", "forced"}
    /\ wg = 0
    /\ run' = "exited"
    /\ http' = "gone"
    /\ held' = FALSE
    /\ UNCHANGED <<open, stopping, errs, accepts, config, conns, counters>>

-----------------------------------------------------------------------------
(* One accept loop *)

(* accept up to s.mu.Lock: the snapshot is loaded before the lock is taken.  *)
Accept(l) ==
    /\ loop[l] = "accept"
    /\ l \in open
    /\ arrived < MaxConns
    /\ arrived' = arrived + 1
    /\ \/ /\ loaded' = [loaded EXCEPT ![l] = current]
          /\ loop' = [loop EXCEPT ![l] = "admit"]
          /\ UNCHANGED failures
       \/ /\ failures' = Count("client_denied")
          /\ UNCHANGED <<loop, loaded>>
    /\ UNCHANGED <<life, config, conns, sent, forwarded>>

(* Accept fails: on a closed listener always, on an open one possibly.       *)
AcceptFails(l) ==
    /\ loop[l] = "accept"
    /\ errs < ErrCap
    /\ errs' = errs + 1
    /\ loop' = [loop EXCEPT ![l] = "gone"]
    /\ UNCHANGED <<run, open, held, stopping, http, loaded, arrived, config, conns, counters>>

RefusedLate(l) == stopping \/ Cardinality(connections) > Files[loaded[l]].max
RefusedRunning(l) == Cardinality(connections) >= Files[loaded[l]].max
(* Mutants above: one connection more; stopping is not looked at.            *)
Refused(l) == stopping \/ Cardinality(connections) >= Files[loaded[l]].max

NextId == total + 1

Admit(l) ==
    /\ loop[l] = "admit"
    /\ loop' = [loop EXCEPT ![l] = "accept"]
    /\ IF Refused(l)
       THEN /\ failures' = Count("connection_limit")
            /\ UNCHANGED conns
       ELSE LET c == NextId IN
            /\ total' = c
            /\ connections' = connections \cup {c}
            /\ st' = [st EXCEPT ![c] = "start"]
            /\ snap' = [snap EXCEPT ![c] = loaded[l]]
            /\ raw' = [raw EXCEPT ![c] = TRUE]
            /\ wg' = wg + 1
            /\ UNCHANGED <<cancel, bytes, result, failures>>
    /\ UNCHANGED <<life, loaded, arrived, config, sent, forwarded>>

-----------------------------------------------------------------------------
(* One connection's goroutine *)

ConnUnchanged == UNCHANGED <<life, accepts, config, total, connections, snap, wg, sent, failures>>
Goes(c, from, to) == st[c] = from /\ st' = [st EXCEPT ![c] = to]

(* handle publishes its cancel function, then waits for the ClientHello.     *)
SetCancel(c) ==
    /\ Goes(c, "start", "hello")
    /\ cancel' = [cancel EXCEPT ![c] = "set"]
    /\ UNCHANGED <<raw, bytes, result, forwarded>> /\ ConnUnchanged

Hello(c) ==
    /\ Goes(c, "hello", "dial")
    /\ raw[c]
    /\ UNCHANGED <<cancel, raw, bytes, result, forwarded>> /\ ConnUnchanged

Dialed(c) ==
    /\ Goes(c, "dial", "answer")
    /\ cancel[c] # "called"
    /\ UNCHANGED <<cancel, raw, bytes, result, forwarded>> /\ ConnUnchanged

Established(c) ==
    /\ Goes(c, "answer", "relay")
    /\ raw[c] /\ cancel[c] # "called"
    /\ UNCHANGED <<cancel, raw, bytes, result, forwarded>> /\ ConnUnchanged

Forward(c) ==
    /\ st[c] = "relay"
    /\ bytes[c] < MaxBytes
    /\ bytes' = [bytes EXCEPT ![c] = @ + 1]
    /\ forwarded' = forwarded + 1
    /\ UNCHANGED <<st, cancel, raw, result>> /\ ConnUnchanged

(* handle returns: a handshake that is refused, fails, runs into its         *)
(* deadline or is closed under it; or a relay that ends.                     *)
Return(c) ==
    /\ st[c] \in (Handshaking \ {"start"}) \cup {"relay"}
    /\ st' = [st EXCEPT ![c] = "ended"]
    /\ \E r \in (IF st[c] = "relay" /\ raw[c] THEN {"ok"} ELSE {}) \cup
                (IF raw[c] THEN {} ELSE {"closed"}) \cup {"failed"} :
          result' = [result EXCEPT ![c] = r]
    /\ UNCHANGED <<cancel, raw, bytes, forwarded>> /\ ConnUnchanged

(* The critical section after handle, then the failure and the defers.       *)
SettledNothing(c) == sent        \* Mutant: a closed connection's bytes are lost
Settled(c) == sent + bytes[c]

Settle(c) ==
    /\ Goes(c, "ended", IF stopping /\ result[c] = "closed" THEN "quiet" ELSE "settled")
    /\ sent' = Settled(c)
    /\ connections' = connections \ {c}
    /\ UNCHANGED <<life, accepts, config, total, snap, cancel, raw, bytes, result,
                   wg, failures, forwarded>>

Done(c) ==
    /\ st[c] \in {"quiet", "settled"}
    /\ st' = [st EXCEPT ![c] = "done"]
    /\ failures' = IF st[c] = "settled" /\ result[c] # "ok"
                   THEN Count("connection") ELSE failures
    /\ raw' = [raw EXCEPT ![c] = FALSE]
    /\ wg' = wg - 1
    /\ snap' = [snap EXCEPT ![c] = 1]              \* the connection is garbage
    /\ cancel' = [cancel EXCEPT ![c] = "nil"]
    /\ bytes' = [bytes EXCEPT ![c] = 0]
    /\ result' = [result EXCEPT ![c] = "ok"]
    /\ UNCHANGED <<life, accepts, config, total, connections, sent, forwarded>>

ConnStep(c) == \/ SetCancel(c) \/ Hello(c) \/ Dialed(c) \/ Established(c)
               \/ Return(c) \/ Settle(c) \/ Done(c)

-----------------------------------------------------------------------------
(* Reload *)

EditFile ==
    /\ file < MaxFile
    /\ file' = file + 1
    /\ UNCHANGED <<current, gen, resolver, reloadMu, rpc, rver, reloads, life,
                   accepts, conns, counters>>

ReloadFreeAlways == TRUE         \* Mutant: reloads overlap
ReloadFree == reloadMu = None

ReloadLoad(r) ==
    /\ rpc[r] = "idle"
    /\ run \in {"serving", "closing", "draining", "forced"}
    /\ reloads < MaxReloads
    /\ ReloadFree
    /\ reloads' = reloads + 1
    /\ rver' = [rver EXCEPT ![r] = file]
    /\ IF Files[file].valid
       THEN rpc' = [rpc EXCEPT ![r] = "loaded"] /\ reloadMu' = r
       ELSE UNCHANGED <<rpc, reloadMu>>
    /\ UNCHANGED <<file, current, gen, resolver, life, accepts, conns, counters>>

(* RestartRequired and ca.Load may refuse; then the snapshot is stored.      *)
RestartRequired(a, b) == Files[a].fixed # Files[b].fixed

ReloadStore(r) ==
    /\ rpc[r] = "loaded"
    /\ \/ /\ rpc' = [rpc EXCEPT ![r] = "idle"]
          /\ reloadMu' = None
          /\ UNCHANGED <<current, gen>>
       \/ /\ ~RestartRequired(current, rver[r])
          /\ rpc' = [rpc EXCEPT ![r] = "stored"]
          /\ current' = rver[r]
          /\ gen' = gen + 1
          /\ UNCHANGED reloadMu
    /\ UNCHANGED <<file, resolver, rver, reloads, life, accepts, conns, counters>>

Configured(r) == rver[r]

ReloadDone(r) ==
    /\ rpc[r] = "stored"
    /\ resolver' = Configured(r)
    /\ rpc' = [rpc EXCEPT ![r] = "idle"]
    /\ reloadMu' = None
    /\ UNCHANGED <<file, current, gen, rver, reloads, life, accepts, conns, counters>>

-----------------------------------------------------------------------------
Init ==
    /\ run = "begin" /\ open = {} /\ held = FALSE /\ stopping = FALSE
    /\ errs = 0 /\ http = "off"
    /\ loop = [l \in Listeners |-> "off"]
    /\ loaded = [l \in Listeners |-> 1]
    /\ file = 1 /\ current = 1 /\ gen = 1 /\ resolver = 1
    /\ reloadMu = None
    /\ rpc = [r \in Requests |-> "idle"]
    /\ rver = [r \in Requests |-> 1]
    /\ reloads = 0 /\ arrived = 0 /\ total = 0
    /\ connections = {}
    /\ st = [c \in Ids |-> "none"]
    /\ snap = [c \in Ids |-> 1]
    /\ cancel = [c \in Ids |-> "nil"]
    /\ raw = [c \in Ids |-> FALSE]
    /\ bytes = [c \in Ids |-> 0]
    /\ result = [c \in Ids |-> "ok"]
    /\ wg = 0 /\ sent = 0 /\ forwarded = 0
    /\ failures = [k \in Kinds |-> 0]

RunStep == Lock \/ Bind \/ Serve \/ Stop \/ CloseListeners \/ ForceClose \/ Exit
ReloadStep(r) == ReloadLoad(r) \/ ReloadStore(r) \/ ReloadDone(r)

Next ==
    \/ RunStep \/ HttpFails \/ EditFile
    \/ \E l \in Listeners : Accept(l) \/ AcceptFails(l) \/ Admit(l)
    \/ \E c \in Ids : ConnStep(c) \/ Forward(c)
    \/ \E r \in Requests : ReloadStep(r)

Spec == Init /\ [][Next]_vars

(* Go runs every goroutine that can run. A handshake has a deadline, a relay *)
(* an idle timeout and the shutdown a timer, so each ends by itself. Being   *)
(* told to stop, accepting, failing and reloading are never forced, except   *)
(* that Accept fails on a listener that is closed.                           *)
Fairness ==
    /\ WF_vars(CloseListeners) /\ WF_vars(ForceClose) /\ WF_vars(Exit)
    /\ \A l \in Listeners : WF_vars(Admit(l)) /\ WF_vars(l \notin open /\ AcceptFails(l))
    /\ \A c \in Ids : WF_vars(ConnStep(c))
    /\ \A r \in Requests : WF_vars(ReloadStore(r) \/ ReloadDone(r))

FairSpec == Spec /\ Fairness

-----------------------------------------------------------------------------
(* Properties *)

(* Types: in particular ids are handed out once per admitted client, and     *)
(* errCh never holds more than its capacity (server.go:29-92, 207, 276).     *)
TypeOK ==
    /\ run \in {"begin", "bind", "serving", "closing", "draining", "forced", "exited"}
    /\ open \in SUBSET Listeners
    /\ held \in BOOLEAN /\ stopping \in BOOLEAN
    /\ errs \in 0..ErrCap
    /\ http \in {"off", "serving", "gone"}
    /\ loop \in [Listeners -> {"off", "accept", "admit", "gone"}]
    /\ loaded \in [Listeners -> 1..MaxFile]
    /\ file \in 1..MaxFile /\ current \in 1..MaxFile /\ resolver \in 1..MaxFile
    /\ gen \in Nat
    /\ reloadMu \in Requests \cup {None}
    /\ rpc \in [Requests -> {"idle", "loaded", "stored"}]
    /\ rver \in [Requests -> 1..MaxFile]
    /\ reloads \in 0..MaxReloads
    /\ arrived \in 0..MaxConns /\ total \in 0..MaxConns
    /\ connections \in SUBSET Ids
    /\ st \in [Ids -> Handshaking \cup {"none", "relay", "ended", "quiet", "settled", "done"}]
    /\ snap \in [Ids -> 1..MaxFile]
    /\ cancel \in [Ids -> {"nil", "set", "called"}]
    /\ raw \in [Ids -> BOOLEAN]
    /\ bytes \in [Ids -> 0..MaxBytes]
    /\ result \in [Ids -> {"ok", "closed", "failed"}]
    /\ wg \in Nat /\ sent \in Nat /\ forwarded \in Nat
    /\ failures \in [Kinds -> Nat]

(* BytesSent and BytesReceived as Status reports them: what is settled and   *)
(* the bytes, one by one, of the connections in the table.                   *)
Active == { p \in connections \X (1..MaxBytes) : p[2] <= bytes[p[1]] }
Reported == sent + Cardinality(Active)

(* Every byte relayed is reported, once, at every moment: a connection's     *)
(* count moves to the total in the critical section that removes it          *)
(* (server.go:286-292), and no relay counts after handle has returned.       *)
BytesConserved == Reported = forwarded

(* The connections registered up to and including any active one were within *)
(* the limit of the configuration that one was accepted under, across        *)
(* concurrent accept loops and reloads of max_connections (server.go:270).   *)
LimitKept ==
    \A c \in connections :
        Cardinality({d \in connections : d <= c}) <= Files[snap[c]].max

(* When Run has returned, no connection is registered and none of their      *)
(* goroutines is left, no listener is bound, and the lock and control socket *)
(* are released, start-up failures included (server.go:175-187, 231-259).    *)
ExitClean ==
    run = "exited" =>
        /\ connections = {} /\ open = {} /\ ~held
        /\ \A c \in Ids : st[c] \in {"none", "done"} /\ ~raw[c]

(* After the shutdown timer no connection is still dialling under a context  *)
(* that nobody will cancel, whether or not handle had published its cancel   *)
(* function when the timer fired (server.go:245-251, 324-326).               *)
ForcedReachesAll ==
    run = "forced" => \A c \in connections : ~raw[c] /\ (st[c] = "dial" => cancel[c] = "called")

(* Configurations are published in the order they were written, each as the  *)
(* next generation: of concurrent reloads the later file content wins        *)
(* (reloadMu, server.go:142, 156).                                           *)
ReloadsForward ==
    [][current' # current \/ gen' # gen => current' >= current /\ gen' = gen + 1]_vars

(* Once told to stop, Run returns, and no accept loop is left behind, blocked *)
(* on reporting its error: errCh has room for every goroutine that writes to *)
(* it (server.go:207, 218, 239-259).                                         *)
StopsEventually == stopping ~> (run = "exited" /\ \A l \in Listeners : loop[l] = "gone")
=============================================================================
