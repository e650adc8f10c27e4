------------------------------ MODULE Resolver ------------------------------
(***************************************************************************)
(* The direct DNS resolver of internal/dns/resolver.go: discovery refresh, *)
(* reconfiguration, the generation-keyed answer cache and the coalesced    *)
(* queries, as run concurrently by connection goroutines (Lookup), by the  *)
(* refresh ticker (Run) and by a configuration reload (Configure).         *)
(*                                                                         *)
(* A step is what one goroutine does between two points where another one  *)
(* can intervene: a critical section of r.mu, a singleflight operation, a  *)
(* discovery or a DNS exchange.                                            *)
(***************************************************************************)
EXTENDS Integers, Sequences, FiniteSets

CONSTANTS
    Clients,          \* connection goroutines that call Lookup
    Ticker,           \* the goroutine of Resolver.Run
    Reloader,         \* New, then Server.Reload (one at a time: reloadMu)
    Hosts,            \* fully qualified lower-case names
    Servers,          \* DNS endpoints
    Configs,          \* validated DNS configurations, [mode, size, ...]
    NoConfig,         \* the zero config.DNS held by "applied" before New
    Discoveries,      \* values of type Discovery that have groups
    NoDiscovery,      \* a Discovery whose groups are nil
    ManualOf,         \* [Configs -> Discoveries]: manual mode's one group
    NetOf,            \* version of the machine's DNS setup -> what is found
    Route,            \* Select(groups, host), flattened in query order
    MaxDisturbances,  \* bound: calls of Configure and contexts that end, together
    MaxContextEnds,   \* bound: contexts that end while in use
    Free              \* refreshMu is not held

Actors == Clients \cup {Ticker, Reloader}
Routes == [eligible : BOOLEAN, servers : Seq(Servers)]
MaxNet == Len(NetOf)
MaxGen == 1 + MaxNet + 2 * MaxDisturbances

ASSUME ActorsDistinct ==
    Ticker \notin Clients /\ Reloader \notin Clients /\ Ticker # Reloader
        /\ Free \notin Actors
ASSUME HostsAssumption == Hosts # {}
ASSUME ConfigsAssumption ==
    /\ NoConfig \notin Configs
    /\ \A c \in Configs : c.mode \in {"auto", "manual"} /\ c.size \in Nat
ASSUME DiscoveryAssumption ==
    /\ NoDiscovery \notin Discoveries
    /\ ManualOf \in [Configs -> Discoveries]
    /\ NetOf \in Seq(Discoveries \cup {NoDiscovery})
    /\ Route \in [Discoveries -> [Hosts -> Routes]]
ASSUME BoundsAssumption == MaxDisturbances \in Nat /\ MaxContextEnds \in Nat

VARIABLES
    cfg, applied,     \* r.cfg, r.applied
    gen, disc,        \* r.state.Generation, r.state.Discovery
    lastErr,          \* r.state.LastError; "none" is the empty string
    age,              \* time since r.state.LastRefresh, see Age
    cache,            \* r.cache: a set of entries, at most one per key
    flights,          \* r.flights: the queries under way
    refreshMu,        \* its holder
    pc,               \* where each goroutine is
    ctx,              \* state of the context each goroutine's call runs under
    call,             \* Lookup's locals: the host, which pass, generation read
    snap,             \* lookup's locals s and c: generation, discovery, config
    got,              \* the result received or returned by a Lookup
    based, found,     \* Refresh's locals c and (d, e)
    net,              \* version of the machine's DNS configuration
    reloads, ends,    \* used up budgets
    began, published  \* history: generation when a Lookup began; version of
                      \* the machine's DNS setup last published

state == <<applied, gen, disc, lastErr, age, published>>
refresh == <<refreshMu, based, found>>
looks == <<call, snap, got, began>>
env == <<net, reloads, ends>>
vars == <<state, cfg, cache, flights, refresh, pc, ctx, looks, env>>

(* Age 0: under 100ms; 1: at most 1s; 2: over 1s; 3: RefreshInterval or more *)
Ages == 0..3
Fresh == 0
Pause == 2
Due == 3

Errors == {"none", "down", "context"}
Snaps == [gen : Nat, disc : Discoveries \cup {NoDiscovery}, cfg : Configs \cup {NoConfig}]
NoSnap == [gen |-> 0, disc |-> NoDiscovery, cfg |-> NoConfig]
Result(why, g, d) == [why |-> why, gen |-> g, disc |-> d]
Failure(why) == Result(why, 0, NoDiscovery)
Pending == Failure("pending")
Whys == {"pending", "ok", "unavailable", "nogroup", "nxdomain", "query",
         "canceled", "expired"}
NoCall == [host |-> CHOOSE h \in Hosts : TRUE, pass |-> 1, gen |-> 0]
NotFound == [disc |-> NoDiscovery, err |-> "none", ver |-> 0]
Entry(g, h, d) == [gen |-> g, host |-> h, disc |-> d, fresh |-> TRUE]
Booted == gen > 0

-----------------------------------------------------------------------------
(* Refresh *)

AfterRefresh(a) == IF a \in Clients THEN "recheck" ELSE "idle"

(* A refresh under 100ms old, of the same configuration, is shared.          *)
CoalescedAnyConfig == age = Fresh          \* Mutant: of any configuration
Coalesced == cfg = applied /\ age = Fresh

RefreshFreeAlways == TRUE                  \* Mutant: refreshes overlap
RefreshFree == refreshMu = Free

(* Refresh up to its first r.mu.Unlock.                                      *)
RefreshBegin(a) ==
    /\ pc[a] = "refresh"
    /\ RefreshFree
    /\ IF Coalesced
       THEN /\ pc' = [pc EXCEPT ![a] = AfterRefresh(a)]
            /\ UNCHANGED <<refreshMu, based>>
       ELSE /\ refreshMu' = a
            /\ based' = [based EXCEPT ![a] = cfg]
            /\ pc' = [pc EXCEPT ![a] = "discover"]
    /\ UNCHANGED <<found, state, cfg, cache, flights, ctx, looks, env>>

(* What r.discover may report. A context that has ended fails the native     *)
(* query (scutil, D-Bus); plain resolv.conf parsing does not look at it.     *)
Probe(a) ==
    LET reading == IF NetOf[net] = NoDiscovery
                   THEN [disc |-> NoDiscovery, err |-> "down", ver |-> net]
                   ELSE [disc |-> NetOf[net], err |-> "none", ver |-> net]
    IN  IF ctx[a] = "live" THEN {reading}
        ELSE {reading, [disc |-> NoDiscovery, err |-> "context", ver |-> net]}

Discover(a) ==
    /\ pc[a] = "discover"
    /\ \E d \in IF based[a].mode = "manual"
                THEN {[disc |-> ManualOf[based[a]], err |-> "none", ver |-> 0]}
                ELSE Probe(a) :
          found' = [found EXCEPT ![a] = d]
    /\ pc' = [pc EXCEPT ![a] = "publish"]
    /\ UNCHANGED <<refreshMu, based, state, cfg, cache, flights, ctx, looks, env>>

(* The second critical section. state.Mode always copies applied.Mode, so    *)
(* its comparison is that of the configurations.                             *)
Changed(a) == \/ based[a] # applied
              \/ found[a].disc # disc
              \/ found[a].err # lastErr

Publish(a) ==
    /\ pc[a] = "publish"
    /\ refreshMu' = Free
    /\ pc' = [pc EXCEPT ![a] = AfterRefresh(a)]
    /\ IF based[a] # cfg
       THEN UNCHANGED <<state, cache>>
       ELSE /\ gen' = IF Changed(a) THEN gen + 1 ELSE gen
            /\ cache' = IF Changed(a) THEN {} ELSE cache
            /\ applied' = based[a]
            /\ disc' = found[a].disc
            /\ lastErr' = found[a].err
            /\ age' = Fresh
            /\ published' = IF based[a].mode = "auto" THEN found[a].ver
                                                     ELSE published
    /\ based' = [based EXCEPT ![a] = NoConfig]
    /\ found' = [found EXCEPT ![a] = NotFound]
    /\ UNCHANGED <<cfg, flights, ctx, looks, env>>

(* Configure: the new configuration is visible before its Refresh starts.    *)
Configurable == Configs

Configure ==
    /\ pc[Reloader] = "idle"
    /\ Booted
    /\ reloads + ends < MaxDisturbances
    /\ \E c \in Configurable : cfg' = c
    /\ cache' = {}
    /\ reloads' = reloads + 1
    /\ pc' = [pc EXCEPT ![Reloader] = "refresh"]
    /\ ctx' = [ctx EXCEPT ![Reloader] = "live"]
    /\ UNCHANGED <<state, flights, refresh, looks, net, ends>>

(* Run: one tick of the loop that finds a refresh due, and its exit.         *)
RefreshDueHealthy == age = Due /\ lastErr = "none"  \* Mutant: no retry if degraded
RefreshDue == age = Due

TickDue ==
    /\ pc[Ticker] = "idle"
    /\ Booted
    /\ ctx[Ticker] = "live"
    /\ RefreshDue
    /\ pc' = [pc EXCEPT ![Ticker] = "refresh"]
    /\ UNCHANGED <<state, cfg, cache, flights, refresh, ctx, looks, env>>

RunExit ==
    /\ pc[Ticker] = "idle"
    /\ ctx[Ticker] # "live"
    /\ pc' = [pc EXCEPT ![Ticker] = "stopped"]
    /\ UNCHANGED <<state, cfg, cache, flights, refresh, ctx, looks, env>>

-----------------------------------------------------------------------------
(* Lookup and lookup *)

Call(p) ==
    /\ pc[p] = "idle"
    /\ Booted
    /\ \E h \in Hosts : call' = [call EXCEPT ![p] = [host |-> h, pass |-> 1, gen |-> 0]]
    /\ began' = [began EXCEPT ![p] = gen]
    /\ pc' = [pc EXCEPT ![p] = "lookup"]
    /\ UNCHANGED <<snap, got, state, cfg, cache, flights, refresh, ctx, env>>

(* lookup returns r; Lookup returns it too unless it may refresh and retry.  *)
Finish(p, r) ==
    /\ got' = [got EXCEPT ![p] = r]
    /\ snap' = [snap EXCEPT ![p] = NoSnap]
    /\ pc' = [pc EXCEPT ![p] =
                IF call[p].pass = 1 /\ r.why \notin {"ok", "canceled"}
                THEN "failed" ELSE "return"]

Hits(p) == {e \in cache : e.gen = gen /\ e.host = call[p].host}

LookupUnavailable(p) ==
    /\ pc[p] = "lookup"
    /\ lastErr # "none"
    /\ Finish(p, Failure("unavailable"))
    /\ UNCHANGED <<call, began, state, cfg, cache, flights, refresh, ctx, env>>

LookupHit(p) ==
    /\ pc[p] = "lookup"
    /\ lastErr = "none"
    /\ \E e \in Hits(p) : e.fresh /\ Finish(p, Result("ok", e.gen, e.disc))
    /\ UNCHANGED <<call, began, state, cfg, cache, flights, refresh, ctx, env>>

LookupMiss(p) ==
    /\ pc[p] = "lookup"
    /\ lastErr = "none"
    /\ \A e \in Hits(p) : ~e.fresh
    /\ cache' = cache \ Hits(p)
    /\ IF Route[disc][call[p].host].eligible
       THEN /\ snap' = [snap EXCEPT ![p] = [gen |-> gen, disc |-> disc, cfg |-> cfg]]
            /\ pc' = [pc EXCEPT ![p] = "join"]
            /\ UNCHANGED got
       ELSE Finish(p, Failure("nogroup"))
    /\ UNCHANGED <<call, began, state, cfg, flights, refresh, ctx, env>>

(* flights.DoChan: join the query under way for this key, or start one.      *)
SameHost(p) == {f \in flights : f.host = call[p].host}  \* Mutant: by name alone
SameKey(p) == {f \in flights : f.gen = snap[p].gen /\ f.host = call[p].host}

JoinedNobody(p) == SameKey(p)              \* Mutant: the waiter is not added
Joined(p) == {[f EXCEPT !.waiters = @ \cup {p}] : f \in SameKey(p)}

Join(p) ==
    /\ pc[p] = "join"
    /\ flights' =
         IF SameKey(p) # {}
         THEN (flights \ SameKey(p)) \cup Joined(p)
         ELSE flights \cup
                {[gen |-> snap[p].gen, host |-> call[p].host, disc |-> snap[p].disc,
                  size |-> snap[p].cfg.size,
                  left |-> Route[snap[p].disc][call[p].host].servers,
                  res |-> Pending, phase |-> "query", waiters |-> {p}]}
    /\ pc' = [pc EXCEPT ![p] = "wait"]
    /\ UNCHANGED <<state, cfg, cache, refresh, ctx, looks, env>>

Receive(p) ==
    /\ pc[p] = "wait"
    /\ got[p] # Pending
    /\ Finish(p, got[p])
    /\ UNCHANGED <<call, began, state, cfg, cache, flights, refresh, ctx, env>>

(* The waiter leaves; its buffered channel is abandoned with it.             *)
Abandon(p) ==
    /\ pc[p] = "wait"
    /\ ctx[p] # "live"
    /\ flights' = {[f EXCEPT !.waiters = @ \ {p}] : f \in flights}
    /\ Finish(p, Failure(ctx[p]))
    /\ UNCHANGED <<call, began, state, cfg, cache, refresh, ctx, env>>

(* Lookup after a failed first pass: refresh, and retry on a new generation. *)
LookupFailed(p) ==
    /\ pc[p] = "failed"
    /\ call' = [call EXCEPT ![p].gen = gen]
    /\ pc' = [pc EXCEPT ![p] = IF cfg.mode = "auto" /\ age >= Pause
                               THEN "refresh" ELSE "return"]
    /\ UNCHANGED <<snap, got, began, state, cfg, cache, flights, refresh, ctx, env>>

Recheck(p) ==
    /\ pc[p] = "recheck"
    /\ IF gen # call[p].gen
       THEN /\ call' = [call EXCEPT ![p].pass = 2]
            /\ got' = [got EXCEPT ![p] = Pending]
            /\ pc' = [pc EXCEPT ![p] = "lookup"]
       ELSE /\ pc' = [pc EXCEPT ![p] = "return"]
            /\ UNCHANGED <<call, got>>
    /\ UNCHANGED <<snap, began, state, cfg, cache, flights, refresh, ctx, env>>

(* The caller takes the result; the locals go out of scope.                  *)
Return(p) ==
    /\ pc[p] = "return"
    /\ pc' = [pc EXCEPT ![p] = "idle"]
    /\ call' = [call EXCEPT ![p] = NoCall]
    /\ got' = [got EXCEPT ![p] = Pending]
    /\ began' = [began EXCEPT ![p] = 0]
    /\ ctx' = [ctx EXCEPT ![p] = "live"]
    /\ UNCHANGED <<snap, state, cfg, cache, flights, refresh, env>>

-----------------------------------------------------------------------------
(* The function a flight runs: servers in order, then the cache, then its    *)
(* waiters. Only a transport or server failure moves on to the next server.  *)

Replace(f, g) == flights' = (flights \ {f}) \cup {g}

Query(f) ==
    /\ f.phase = "query"
    /\ \/ /\ f.left = <<>>
          /\ Replace(f, [f EXCEPT !.phase = "done", !.res = Failure("query")])
       \/ /\ f.left # <<>>
          /\ \/ Replace(f, [f EXCEPT !.left = Tail(@)])
             \/ Replace(f, [f EXCEPT !.phase = "done", !.res = Failure("nxdomain")])
             \/ Replace(f, [f EXCEPT !.phase = "store",
                                     !.res = Result("ok", f.gen, f.disc)])
    /\ UNCHANGED <<state, cfg, cache, refresh, pc, ctx, looks, env>>

(* One entry, any one, leaves a cache that is full.                          *)
EvictionsNone(size) == {cache}             \* Mutant: nothing leaves
Evictions(size) ==
    IF Cardinality(cache) >= size THEN {cache \ {e} : e \in cache} ELSE {cache}

(* "usable" stands for ttl > 0 and an answer that has not expired meanwhile. *)
StorableAnyGeneration(f) == f.size > 0     \* Mutant: generation not compared
Storable(f) == gen = f.gen /\ f.size > 0

Store(f) ==
    /\ f.phase = "store"
    /\ \E usable \in BOOLEAN :
         IF usable /\ Storable(f)
         THEN \E kept \in Evictions(f.size) :
                cache' = {e \in kept : ~(e.gen = f.gen /\ e.host = f.host)}
                             \cup {Entry(f.gen, f.host, f.disc)}
         ELSE UNCHANGED cache
    /\ Replace(f, [f EXCEPT !.phase = "done"])
    /\ UNCHANGED <<state, cfg, refresh, pc, ctx, looks, env>>

(* singleflight forgets the key and sends the result to every waiter.        *)
Land(f) ==
    /\ f.phase = "done"
    /\ flights' = flights \ {f}
    /\ got' = [p \in Clients |-> IF p \in f.waiters THEN f.res ELSE got[p]]
    /\ UNCHANGED <<call, snap, began, state, cfg, cache, refresh, pc, ctx, env>>

-----------------------------------------------------------------------------
(* Time and the outside *)

Pass == /\ age < Due
        /\ age' = age + 1
        /\ UNCHANGED <<applied, gen, disc, lastErr, published, cfg, cache,
                       flights, refresh, pc, ctx, looks, env>>

Expire == /\ \E e \in cache : e.fresh /\ cache' = (cache \ {e}) \cup
                                                  {[e EXCEPT !.fresh = FALSE]}
          /\ UNCHANGED <<state, cfg, flights, refresh, pc, ctx, looks, env>>

NetChange == /\ net < MaxNet
             /\ net' = net + 1
             /\ UNCHANGED <<state, cfg, cache, flights, refresh, pc, ctx, looks,
                            reloads, ends>>

(* A handshake deadline or a cancellation; for the ticker, the shutdown.     *)
ContextEnds(a) ==
    /\ ctx[a] = "live"
    /\ pc[a] # "idle" \/ a = Ticker
    /\ ends < MaxContextEnds
    /\ reloads + ends < MaxDisturbances
    /\ ends' = ends + 1
    /\ \E why \in IF a \in Clients THEN {"canceled", "expired"} ELSE {"canceled"} :
          ctx' = [ctx EXCEPT ![a] = why]
    /\ UNCHANGED <<state, cfg, cache, flights, refresh, pc, looks, net, reloads>>

-----------------------------------------------------------------------------
(* What New makes, and the first Refresh it runs before anything else can    *)
(* use the resolver.                                                         *)
Made ==
    /\ cfg \in Configs
    /\ applied = NoConfig
    /\ gen = 0
    /\ disc = NoDiscovery
    /\ lastErr = "none"
    /\ age = Due
    /\ cache = {}
    /\ flights = {}
    /\ refreshMu = Free
    /\ ctx = [a \in Actors |-> "live"]
    /\ call = [p \in Clients |-> NoCall]
    /\ snap = [p \in Clients |-> NoSnap]
    /\ got = [p \in Clients |-> Pending]
    /\ based = [a \in Actors |-> NoConfig]
    /\ found = [a \in Actors |-> NotFound]
    /\ net \in 1..MaxNet
    /\ reloads = 0
    /\ ends = 0
    /\ began = [p \in Clients |-> 0]
    /\ published = 0

Launched == [a \in Actors |-> IF a = Reloader THEN "refresh" ELSE "idle"]
Init == Made /\ pc = Launched

RefreshStep(a) == RefreshBegin(a) \/ Discover(a) \/ Publish(a)
LookupStep(p) == \/ LookupUnavailable(p) \/ LookupHit(p) \/ LookupMiss(p)
                 \/ Join(p) \/ Receive(p) \/ Abandon(p)
                 \/ LookupFailed(p) \/ Recheck(p) \/ Return(p)
FlightStep(f) == Query(f) \/ Store(f) \/ Land(f)

Next ==
    \/ \E a \in Actors : RefreshStep(a) \/ ContextEnds(a)
    \/ \E p \in Clients : Call(p) \/ LookupStep(p)
    \/ \E f \in flights : FlightStep(f)
    \/ Configure \/ TickDue \/ RunExit
    \/ Pass \/ Expire \/ NetChange

Spec == Init /\ [][Next]_vars

(* The scheduler runs every goroutine that can run; a DNS exchange ends (its *)
(* timeout is part of the code); time passes. refreshMu is granted to every  *)
(* waiter in the end (a starving sync.Mutex hands over), hence SF. Calls,    *)
(* context ends, reloads and network changes are never forced.               *)
Fairness ==
    /\ \A a \in Actors : /\ SF_vars(RefreshBegin(a))
                         /\ WF_vars(Discover(a) \/ Publish(a))
    /\ \A p \in Clients : WF_vars(LookupStep(p))
    /\ \A g \in 1..MaxGen, h \in Hosts :
          WF_vars(\E f \in flights : f.gen = g /\ f.host = h /\ FlightStep(f))
    /\ WF_vars(TickDue)
    /\ WF_vars(Pass)

FairSpec == Spec /\ Fairness

-----------------------------------------------------------------------------
(* Properties *)

Answers == [why : Whys, gen : Nat, disc : Discoveries \cup {NoDiscovery}]
Entries == [gen : Nat, host : Hosts, disc : Discoveries, fresh : BOOLEAN]
Flights ==
    [gen : Nat, host : Hosts, disc : Discoveries, size : Nat, left : Seq(Servers),
     res : Answers, phase : {"query", "store", "done"}, waiters : SUBSET Clients]

Findings == [disc : Discoveries \cup {NoDiscovery}, err : Errors, ver : 0..MaxNet]
Calls == [host : Hosts, pass : {1, 2}, gen : Nat]
Places == {"idle", "lookup", "join", "wait", "failed", "refresh", "discover",
           "publish", "recheck", "return", "stopped"}

StateOK ==
    /\ cfg \in Configs /\ applied \in Configs \cup {NoConfig}
    /\ gen \in Nat /\ age \in Ages
    /\ disc \in Discoveries \cup {NoDiscovery} /\ lastErr \in Errors
    /\ net \in 1..MaxNet /\ published \in 0..MaxNet
    /\ reloads \in 0..MaxDisturbances /\ ends \in 0..MaxContextEnds

ActorsOK ==
    /\ pc \in [Actors -> Places]
    /\ ctx \in [Actors -> {"live", "canceled", "expired"}]
    /\ refreshMu \in Actors \cup {Free}
    /\ based \in [Actors -> Configs \cup {NoConfig}]
    /\ found \in [Actors -> Findings]

LooksOK ==
    /\ call \in [Clients -> Calls] /\ snap \in [Clients -> Snaps]
    /\ got \in [Clients -> Answers] /\ began \in [Clients -> Nat]

(* Types: in particular a reload only ever installs a validated DNS section, *)
(* and a query only ever runs for a discovery that has groups                *)
(* (resolver.go:27-40, 54-57).                                               *)
TypeOK ==
    /\ StateOK
    /\ ActorsOK
    /\ LooksOK
    /\ cache \in SUBSET Entries
    /\ flights \in SUBSET Flights

(* Every cached answer belongs to the current generation and was obtained    *)
(* from the servers of the discovery now in force: a refresh that changes    *)
(* anything drops the cache, and a query that started before it can no       *)
(* longer fill it (resolver.go:112-113, 189).                                *)
CacheCurrent ==
    \A e \in cache : e.gen = gen /\ e.disc = disc /\ lastErr = "none"

(* Outside a reload the configuration in force is the one last installed:    *)
(* Configure's own Refresh is neither coalesced away nor dropped as stale,   *)
(* however it meets the ticker's and the lookups' (resolver.go:83, 103).     *)
ReloadSettles ==
    pc[Reloader] = "idle" => applied = cfg

(* Outside a reload the cache holds at most cache_size answers, whichever    *)
(* configuration the queries that filled it had read (resolver.go:189-196).  *)
CacheBounded ==
    applied = cfg => Cardinality(cache) <= cfg.size

(* An answer a Lookup returns was resolved in a generation no older than the *)
(* one in force when the Lookup began: neither the cache nor a shared query  *)
(* hands it an answer of an earlier DNS setup (resolver.go:139, 156).        *)
AnswerNotOlder ==
    \A p \in Clients : pc[p] = "return" /\ got[p].why = "ok" =>
        /\ got[p].gen >= began[p]
        /\ got[p].gen = gen => got[p].disc = disc

(* A goroutine waiting on a query is known to the query it waits for, or its *)
(* result is already in its channel: no result is lost (resolver.go:201-209).*)
WaiterKnown ==
    \A p \in Clients : pc[p] = "wait" =>
        got[p] # Pending \/ \E f \in flights : p \in f.waiters

(* Refreshes publish what they discovered in the order they discovered it:   *)
(* a slow discovery never replaces a newer one (refreshMu, resolver.go:79).  *)
DiscoveryForward == [][published' >= published]_vars

(* While a generation lasts, so do the discovery and the configuration it    *)
(* names (resolver.go:111-116): it is a sound cache and singleflight key.    *)
GenerationNamesState ==
    [][gen' = gen => disc' = disc /\ applied' = applied /\ lastErr' = lastErr]_vars

(* Every Lookup returns: no wait on refreshMu, on a shared query or on a     *)
(* retry lasts for ever, even if its context never ends.                     *)
LookupReturns == \A p \in Clients : pc[p] = "lookup" ~> pc[p] = "idle"

InForce ==
    /\ applied = cfg
    /\ CASE cfg.mode = "manual"        -> disc = ManualOf[cfg] /\ lastErr = "none"
         [] NetOf[net] = NoDiscovery   -> lastErr # "none"
         [] OTHER                      -> disc = NetOf[net] /\ lastErr = "none"

(* Once configuration and network stand still the resolver ends up with what *)
(* they say, and leaves a degraded state, unless it is being shut down.      *)
Converges == <>[](ctx[Ticker] # "live" \/ InForce)

=============================================================================
