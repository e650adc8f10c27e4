--------------------------- MODULE ResolverProofs ---------------------------
(***************************************************************************)
(* Proofs about module Resolver, for any number of lookups, names,         *)
(* configurations, reloads and changes of the network; and about module    *)
(* Cname, one query of it, for every zone and every limit.                 *)
(***************************************************************************)
EXTENDS Resolver, Cname, FiniteSetTheorems, TLAPS

Refreshing == {"discover", "publish"}

(* refreshMu is held by the one goroutine between Refresh's two critical     *)
(* sections; that goroutine has read a configuration, and what it discovered *)
(* without an error has groups.                                              *)
Locked(a) ==
    /\ pc[a] \in Refreshing => refreshMu = a /\ based[a] \in Configs
    /\ pc[a] = "publish" /\ found[a].err = "none" => found[a].disc \in Discoveries

(* A client runs only after New; one about to start a query has a discovery. *)
Running(p) ==
    /\ pc[p] # "idle" => gen > 0
    /\ pc[p] = "join" => snap[p].disc \in Discoveries /\ snap[p].cfg \in Configs

(* The part of the invariant that types need: Route is applied only to a     *)
(* discovery with groups, mode and size only to a configuration.             *)
Base ==
    /\ TypeOK
    /\ gen > 0 /\ lastErr = "none" => disc \in Discoveries
    /\ \A a \in Actors : Locked(a)
    /\ \A p \in Clients : Running(p)

(* A generation read earlier is not from the future, and if it still is the  *)
(* current one then it still names the discovery read with it.               *)
Current(g, d) == g <= gen /\ (g = gen => d = disc /\ lastErr = "none")

(* What a refresh is about to publish is not older than what is published,   *)
(* and a reload's own refresh has the configuration the reload installed.    *)
Refreshed(a) ==
    /\ pc[a] = "publish" /\ based[a].mode = "auto" =>
         published <= found[a].ver /\ found[a].ver <= net
    /\ a = Reloader /\ pc[a] \in Refreshing => based[a] = cfg

(* A query carries the key it was started under, and one result once it has  *)
(* one; there is one query per key.                                          *)
Flying(f) ==
    /\ Current(f.gen, f.disc)
    /\ f.phase = "query" => f.res = Pending
    /\ f.phase # "query" => f.res.why # "pending"
    /\ f.res.why = "ok" => f.res.gen = f.gen /\ f.res.disc = f.disc
    /\ \A g \in flights : f.gen = g.gen /\ f.host = g.host => f = g

(* What a Lookup read or received belongs to a generation not older than the *)
(* one it began in; it waits for one query at most.                          *)
Looking(p) ==
    /\ pc[p] # "idle" => began[p] <= gen
    /\ pc[p] \in {"idle", "lookup", "join"} => got[p] = Pending
    /\ pc[p] = "join" => Current(snap[p].gen, snap[p].disc) /\ began[p] <= snap[p].gen
    /\ got[p].why = "ok" => Current(got[p].gen, got[p].disc) /\ began[p] <= got[p].gen
    /\ \A f \in flights : p \in f.waiters =>
         pc[p] = "wait" /\ got[p] = Pending /\ began[p] <= f.gen
    /\ \A f, g \in flights : p \in f.waiters /\ p \in g.waiters => f = g
    /\ pc[p] = "wait" => got[p] # Pending \/ \E f \in flights : p \in f.waiters

IInv ==
    /\ Base
    /\ CacheCurrent
    /\ ReloadSettles
    /\ published <= net
    /\ \A a \in Actors : Refreshed(a)
    /\ \A f \in flights : Flying(f)
    /\ \A p \in Clients : Looking(p)

-----------------------------------------------------------------------------
(* Facts about the constants *)

(* The versions of the machine's DNS setup are what discovery may find.      *)
LEMMA NetFacts ==
    /\ MaxNet \in Nat
    /\ \A n \in 1..MaxNet : NetOf[n] \in Discoveries \cup {NoDiscovery}
<1>1. NetOf \in Seq(Discoveries \cup {NoDiscovery}) BY DiscoveryAssumption
<1> QED BY <1>1 DEF MaxNet

(* So is the present one.                                                    *)
LEMMA NetNow ==
    ASSUME StateOK
    PROVE  /\ NetOf[net] \in Discoveries \cup {NoDiscovery}
           /\ net \in 0..MaxNet /\ 0 \in 0..MaxNet
<1>1. MaxNet \in Nat /\ net \in 1..MaxNet BY NetFacts DEF StateOK
<1> QED BY <1>1, NetFacts

(* Clients, the ticker and the reloader are actors; Free is none.            *)
LEMMA ActorFacts ==
    /\ Clients \subseteq Actors /\ Ticker \in Actors /\ Reloader \in Actors
    /\ Free \notin Actors
BY ActorsDistinct DEF Actors

(* The values locals have before they are assigned are well typed.           *)
LEMMA Constants ==
    /\ NoCall \in Calls
    /\ NoSnap \in Snaps
    /\ NotFound \in Findings
    /\ \A why \in Whys : Failure(why) \in Answers
<1>1. NoCall \in Calls BY HostsAssumption DEF NoCall, Calls
<1>2. NoSnap \in Snaps BY DEF NoSnap, Snaps
<1>3. NotFound \in Findings
  <2>1. MaxNet \in Nat /\ 0 \in 0..MaxNet BY NetFacts
  <2> QED BY <2>1 DEF NotFound, Findings, Errors
<1>4. \A why \in Whys : Failure(why) \in Answers BY DEF Failure, Result, Answers
<1> QED BY <1>1, <1>2, <1>3, <1>4

-----------------------------------------------------------------------------
(* Before New's first Refresh nothing runs.                                  *)
LEMMA InitBase == Init => Base
<1> SUFFICES ASSUME Init PROVE Base
  OBVIOUS
<1> USE DEF Init, Made, Launched
<1>1. StateOK BY NetFacts, BoundsAssumption DEF StateOK, Ages, Due, Errors
<1>2. ActorsOK BY Constants DEF ActorsOK, Places
<1>3. LooksOK BY Constants DEF LooksOK, Pending, Whys
<1>4. TypeOK BY <1>1, <1>2, <1>3 DEF TypeOK
<1>5. \A a \in Actors : Locked(a) BY DEF Locked, Refreshing
<1>6. \A p \in Clients : Running(p) BY ActorsDistinct, ActorFacts DEF Running
<1> QED BY <1>4, <1>5, <1>6 DEF Base

(* Refresh keeps Base: only a discovery with groups goes without error.      *)
LEMMA RefreshBase == ASSUME Base, NEW a \in Actors, RefreshStep(a) PROVE Base'
<1> USE ActorFacts DEF Base, TypeOK
<1>1. CASE RefreshBegin(a)
  <2> USE <1>1 DEF RefreshBegin, state, looks, env, RefreshFree, AfterRefresh
  <2>1. StateOK' /\ LooksOK' BY DEF StateOK, LooksOK
  <2>2. ActorsOK' BY DEF StateOK, ActorsOK, Places
  <2>3. \A b \in Actors : Locked(b)' BY DEF StateOK, ActorsOK, Locked, Refreshing
  <2>4. \A p \in Clients : Running(p)' BY DEF ActorsOK, Running
  <2> QED BY <2>1, <2>2, <2>3, <2>4
<1>2. CASE Discover(a)
  <2> USE <1>2 DEF Discover, state, looks, env
  <2>1. based[a] \in Configs BY DEF Locked, Refreshing
  <2>2. PICK d \in IF based[a].mode = "manual"
                   THEN {[disc |-> ManualOf[based[a]], err |-> "none", ver |-> 0]}
                   ELSE Probe(a) : found' = [found EXCEPT ![a] = d]
    OBVIOUS
  <2>3. d \in Findings /\ (d.err = "none" => d.disc \in Discoveries)
    <3>1. net \in 0..MaxNet /\ 0 \in 0..MaxNet BY NetNow
    <3>2. NetOf[net] \in Discoveries \cup {NoDiscovery} BY NetNow
    <3>3. ManualOf[based[a]] \in Discoveries BY <2>1, DiscoveryAssumption
    <3> QED BY <2>2, <3>1, <3>2, <3>3 DEF Probe, Errors, Findings
  <2>4. StateOK' /\ LooksOK' BY DEF StateOK, LooksOK
  <2>5. ActorsOK' BY <2>2, <2>3 DEF ActorsOK, Places
  <2>6. \A b \in Actors : Locked(b)' BY <2>1, <2>2, <2>3 DEF ActorsOK, Locked, Refreshing
  <2>7. \A p \in Clients : Running(p)' BY DEF ActorsOK, Running
  <2> QED BY <2>4, <2>5, <2>6, <2>7
<1>3. CASE Publish(a)
  <2> USE <1>3 DEF Publish, state, looks, env, AfterRefresh
  <2>1. based[a] \in Configs /\ found[a] \in Findings BY DEF Locked, Refreshing, ActorsOK
  <2>2. StateOK' BY <2>1 DEF StateOK, Ages, Fresh, Findings
  <2>3. ActorsOK' /\ LooksOK' BY <2>1, Constants DEF ActorsOK, LooksOK, Places
  <2>4. cache' \in SUBSET Entries /\ flights' \in SUBSET Flights OBVIOUS
  <2>5. \A b \in Actors : Locked(b)' BY DEF ActorsOK, Locked, Refreshing
  <2>6. \A p \in Clients : Running(p)' BY DEF StateOK, ActorsOK, Running
  <2>7. (gen > 0 /\ lastErr = "none" => disc \in Discoveries)' BY DEF Locked, StateOK, Changed
  <2> QED BY <2>2, <2>3, <2>4, <2>5, <2>6, <2>7
<1> QED BY <1>1, <1>2, <1>3 DEF RefreshStep

(* Steps that leave the resolver's state and Refresh alone: the rest follows *)
(* from the types of what they do change.                                    *)
LEMMA ClientBase ==
    ASSUME Base, NEW p \in Clients, NEW to \in Places \ Refreshing,
           gen > 0, pc' = [pc EXCEPT ![p] = to], UNCHANGED <<state, cfg, refresh, env>>,
           LooksOK', ctx' \in [Actors -> {"live", "canceled", "expired"}],
           cache' \in SUBSET Entries, flights' \in SUBSET Flights,
           \A q \in Clients \ {p} : snap'[q] = snap[q],
           to = "join" => snap'[p].disc \in Discoveries /\ snap'[p].cfg \in Configs
    PROVE  Base'
<1> USE ActorFacts DEF Base, TypeOK, state, refresh, env
<1>1. StateOK' BY DEF StateOK
<1>2. ActorsOK' BY DEF ActorsOK
<1>3. \A b \in Actors : Locked(b)' BY DEF ActorsOK, Locked, Refreshing
<1>4. \A q \in Clients : Running(q)' BY DEF ActorsOK, Running
<1> QED BY <1>1, <1>2, <1>3, <1>4

(* Returning a result of the right type keeps Base.                          *)
LEMMA FinishBase ==
    ASSUME Base, NEW p \in Clients, NEW r \in Answers, Finish(p, r),
           gen > 0, UNCHANGED <<call, began, state, cfg, refresh, ctx, env>>,
           cache' \in SUBSET Entries, flights' \in SUBSET Flights
    PROVE  Base'
<1>1. LooksOK' BY Constants DEF Base, TypeOK, LooksOK, Finish
<1>2. ctx' \in [Actors -> {"live", "canceled", "expired"}] BY DEF Base, TypeOK, ActorsOK
<1>3. \A q \in Clients \ {p} : snap'[q] = snap[q] BY DEF Finish, Base, TypeOK, LooksOK
<1>4. PICK to \in {"failed", "return"} : pc' = [pc EXCEPT ![p] = to]
  BY DEF Finish
<1>5. to \in Places \ Refreshing /\ to # "join" BY DEF Places, Refreshing
<1> QED BY <1>1, <1>2, <1>3, <1>4, <1>5, ClientBase

(* Lookup keeps Base: a query starts from a snapshot without error.          *)
LEMMA LookupBase == ASSUME Base, NEW p \in Clients, LookupStep(p) PROVE Base'
<1> USE DEF Base, TypeOK
<1>0. p \in Actors /\ (pc[p] # "idle" => gen > 0) BY ActorFacts DEF Running
<1>1. CASE LookupUnavailable(p)
  <2>1. Failure("unavailable") \in Answers BY Constants DEF Whys
  <2> QED BY <1>0, <1>1, <2>1, FinishBase DEF LookupUnavailable
<1>2. CASE LookupHit(p)
  <2>1. PICK e \in Hits(p) : Finish(p, Result("ok", e.gen, e.disc)) BY <1>2 DEF LookupHit
  <2>2. Result("ok", e.gen, e.disc) \in Answers BY DEF Hits, Entries, Result, Answers, Whys
  <2> QED BY <1>0, <1>2, <2>1, <2>2, FinishBase DEF LookupHit
<1>3. CASE LookupMiss(p)
  <2> USE <1>3 DEF LookupMiss
  <2>1. cache' \in SUBSET Entries /\ flights' \in SUBSET Flights OBVIOUS
  <2>2. CASE Route[disc][call[p].host].eligible
    <3>1. snap' = [snap EXCEPT ![p] = [gen |-> gen, disc |-> disc, cfg |-> cfg]] BY <2>2
    <3>2. /\ disc \in Discoveries /\ cfg \in Configs /\ gen > 0 /\ pc' = [pc EXCEPT ![p] = "join"]
          /\ [gen |-> gen, disc |-> disc, cfg |-> cfg] \in Snaps
      BY <2>2, <1>0 DEF StateOK, Snaps
    <3>3. LooksOK' /\ ctx' \in [Actors -> {"live", "canceled", "expired"}]
      BY <2>2, <3>1, <3>2 DEF LooksOK, ActorsOK
    <3>4. "join" \in Places \ Refreshing BY DEF Places, Refreshing
    <3>5. snap'[p] = [gen |-> gen, disc |-> disc, cfg |-> cfg] BY <3>1 DEF LooksOK
    <3>6. \A q \in Clients \ {p} : snap'[q] = snap[q] BY <3>1 DEF LooksOK
    <3>7. /\ UNCHANGED <<state, cfg, refresh, env>>
          /\ snap'[p].disc \in Discoveries /\ snap'[p].cfg \in Configs
      BY <3>2, <3>5
    <3> HIDE <1>3 DEF LookupMiss
    <3> QED BY <3>7, <2>1, <3>2, <3>3, <3>4, <3>5, <3>6, ClientBase
  <2>3. CASE ~Route[disc][call[p].host].eligible
    <3>1. Failure("nogroup") \in Answers BY Constants DEF Whys
    <3> QED BY <1>0, <2>1, <2>3, <3>1, FinishBase
  <2> QED BY <2>2, <2>3
<1>4. CASE Join(p)
  <2> USE <1>4 DEF Join
  <2>1. /\ snap[p].disc \in Discoveries /\ snap[p].cfg \in Configs
        /\ snap[p].gen \in Nat /\ call[p].host \in Hosts
    BY DEF Running, LooksOK, Snaps, Calls
  <2>2. snap[p].cfg.size \in Nat BY <2>1, ConfigsAssumption
  <2>3. Route[snap[p].disc][call[p].host].servers \in Seq(Servers)
    BY <2>1, DiscoveryAssumption DEF Routes
  <2>4. Pending \in Answers BY Constants DEF Pending, Whys
  <2>5. flights' \in SUBSET Flights
    <3>1. Joined(p) \in SUBSET Flights
      <4>1. ASSUME NEW f \in flights PROVE [f EXCEPT !.waiters = @ \cup {p}] \in Flights
        BY DEF Flights
      <4> QED BY <4>1 DEF Joined, SameKey
    <3>2. [gen |-> snap[p].gen, host |-> call[p].host, disc |-> snap[p].disc,
           size |-> snap[p].cfg.size,
           left |-> Route[snap[p].disc][call[p].host].servers,
           res |-> Pending, phase |-> "query", waiters |-> {p}] \in Flights
      BY <2>1, <2>2, <2>3, <2>4 DEF Flights
    <3> QED BY <3>1, <3>2
  <2>6. /\ LooksOK' /\ ctx' \in [Actors -> {"live", "canceled", "expired"}]
        /\ \A q \in Clients : snap'[q] = snap[q]
    BY DEF LooksOK, ActorsOK, looks
  <2>7. "wait" \in Places \ Refreshing BY DEF Places, Refreshing
  <2> QED BY <1>0, <2>5, <2>6, <2>7, ClientBase
<1>5. CASE Receive(p)
  <2>1. got[p] \in Answers BY DEF LooksOK
  <2> QED BY <1>0, <1>5, <2>1, FinishBase DEF Receive
<1>6. CASE Abandon(p)
  <2>1. Failure(ctx[p]) \in Answers
    <3>1. ctx[p] \in Whys BY <1>0, <1>6 DEF Abandon, ActorsOK, Whys
    <3> QED BY <3>1, Constants
  <2>2. flights' \in SUBSET Flights BY <1>6 DEF Abandon, Flights
  <2> QED BY <1>0, <1>6, <2>1, <2>2, FinishBase DEF Abandon
<1>7. CASE LookupFailed(p)
  <2> USE <1>7 DEF LookupFailed
  <2>1. PICK to \in {"refresh", "return"} : pc' = [pc EXCEPT ![p] = to] OBVIOUS
  <2>2. LooksOK' /\ ctx' \in [Actors -> {"live", "canceled", "expired"}]
    BY DEF LooksOK, ActorsOK, Calls, StateOK
  <2>3. to \in Places \ Refreshing /\ to # "join" BY DEF Places, Refreshing
  <2> QED BY <1>0, <2>1, <2>2, <2>3, ClientBase
<1>8. CASE Recheck(p)
  <2> USE <1>8 DEF Recheck
  <2>1. PICK to \in {"lookup", "return"} : pc' = [pc EXCEPT ![p] = to] OBVIOUS
  <2>2. Pending \in Answers BY Constants DEF Pending, Whys
  <2>3. LooksOK' /\ ctx' \in [Actors -> {"live", "canceled", "expired"}]
    <3>1. CASE gen # call[p].gen
      <4>1. call' \in [Clients -> Calls] BY <3>1 DEF LooksOK, Calls
      <4>2. got' \in [Clients -> Answers] BY <2>2, <3>1 DEF LooksOK
      <4> QED BY <4>1, <4>2 DEF LooksOK, ActorsOK
    <3>2. CASE gen = call[p].gen BY <3>2 DEF LooksOK, ActorsOK
    <3> QED BY <3>1, <3>2
  <2>4. to \in Places \ Refreshing /\ to # "join" BY DEF Places, Refreshing
  <2> QED BY <1>0, <2>1, <2>3, <2>4, ClientBase
<1>9. CASE Return(p)
  <2> USE <1>9 DEF Return
  <2>1. Pending \in Answers BY Constants DEF Pending, Whys
  <2>2. LooksOK' /\ ctx' \in [Actors -> {"live", "canceled", "expired"}]
    BY <2>1, Constants DEF LooksOK, ActorsOK
  <2>3. "idle" \in Places \ Refreshing BY DEF Places, Refreshing
  <2> QED BY <1>0, <2>2, <2>3, ClientBase
<1> QED BY <1>1, <1>2, <1>3, <1>4, <1>5, <1>6, <1>7, <1>8, <1>9 DEF LookupStep

(* A query keeps Base, whatever it ends with.                                *)
LEMMA FlightBase == ASSUME Base, NEW f \in flights, FlightStep(f) PROVE Base'
<1> USE DEF Base, TypeOK
<1>0. f \in Flights OBVIOUS
<1>1. CASE Query(f)
  <2>1. UNCHANGED <<state, cfg, cache, refresh, pc, ctx, looks, env>> BY <1>1 DEF Query
  <2>2. flights' \in SUBSET Flights
    <3>1. Failure("query") \in Answers /\ Failure("nxdomain") \in Answers
      BY Constants DEF Whys
    <3>2. Result("ok", f.gen, f.disc) \in Answers BY <1>0 DEF Result, Answers, Whys, Flights
    <3>3. f.left # <<>> => Tail(f.left) \in Seq(Servers)
      <4>1. f.left \in Seq(Servers) BY <1>0 DEF Flights
      <4> QED BY <4>1
    <3>4. /\ f.left # <<>> => [f EXCEPT !.left = Tail(@)] \in Flights
          /\ [f EXCEPT !.phase = "done", !.res = Failure("query")] \in Flights
          /\ [f EXCEPT !.phase = "done", !.res = Failure("nxdomain")] \in Flights
          /\ [f EXCEPT !.phase = "store", !.res = Result("ok", f.gen, f.disc)] \in Flights
      BY <1>0, <3>1, <3>2, <3>3 DEF Flights
    <3> QED BY <1>1, <3>4 DEF Query, Replace
  <2> QED BY <2>1, <2>2 DEF StateOK, ActorsOK, LooksOK, Locked, Running, state, refresh, looks, env
<1>2. CASE Store(f)
  <2>1. UNCHANGED <<state, cfg, refresh, pc, ctx, looks, env>> BY <1>2 DEF Store
  <2>2. flights' \in SUBSET Flights
    <3>1. [f EXCEPT !.phase = "done"] \in Flights BY <1>0 DEF Flights
    <3> QED BY <1>2, <3>1 DEF Store, Replace
  <2>3. cache' \in SUBSET Entries
    <3>1. Entry(f.gen, f.host, f.disc) \in Entries BY <1>0 DEF Entry, Entries, Flights
    <3>2. \A kept \in Evictions(f.size) : kept \subseteq cache BY DEF Evictions
    <3> QED BY <1>2, <3>1, <3>2 DEF Store
  <2> QED BY <2>1, <2>2, <2>3 DEF StateOK, ActorsOK, LooksOK, Locked, Running, state, refresh, looks, env
<1>3. CASE Land(f)
  <2>1. UNCHANGED <<call, snap, began, state, cfg, cache, refresh, pc, ctx, env>> BY <1>3 DEF Land
  <2>2. flights' \in SUBSET Flights BY <1>3 DEF Land
  <2>3. LooksOK' BY <1>0, <1>3, <2>1 DEF Land, LooksOK, Flights
  <2> QED BY <2>1, <2>2, <2>3 DEF StateOK, ActorsOK, Locked, Running, state, refresh, env
<1> QED BY <1>1, <1>2, <1>3 DEF FlightStep

(* A new Lookup keeps Base.                                                  *)
LEMMA CallBase == ASSUME Base, NEW p \in Clients, Call(p) PROVE Base'
<1> USE DEF Base, TypeOK, Call, Booted
<1>1. PICK h \in Hosts : call' = [call EXCEPT ![p] = [host |-> h, pass |-> 1, gen |-> 0]]
  OBVIOUS
<1>2. LooksOK' BY <1>1 DEF LooksOK, Calls, StateOK
<1>3. ctx' \in [Actors -> {"live", "canceled", "expired"}] BY DEF ActorsOK
<1>4. "lookup" \in Places \ Refreshing BY DEF Places, Refreshing
<1> QED BY <1>2, <1>3, <1>4, ClientBase

(* Configure, Run, and the steps of time and the outside.                    *)
LEMMA OtherBase ==
    ASSUME Base,
           \/ Configure \/ TickDue \/ RunExit \/ Pass \/ Expire \/ NetChange
           \/ \E a \in Actors : ContextEnds(a)
    PROVE  Base'
<1> USE ActorFacts, ActorsDistinct
    DEF Base, TypeOK, state, refresh, looks, env
<1>1. CASE Configure
  <2> USE <1>1 DEF Configure
  <2>1. StateOK' BY BoundsAssumption DEF StateOK, Configurable
  <2>2. ActorsOK' /\ LooksOK' BY DEF ActorsOK, LooksOK, Places
  <2>3. \A b \in Actors : Locked(b)' BY DEF ActorsOK, Locked, Refreshing
  <2>4. \A q \in Clients : Running(q)' BY DEF ActorsOK, Running
  <2> QED BY <2>1, <2>2, <2>3, <2>4
<1>2. CASE TickDue \/ RunExit
  <2> USE <1>2 DEF TickDue, RunExit
  <2>1. StateOK' /\ LooksOK' BY DEF StateOK, LooksOK
  <2>2. ActorsOK' BY DEF ActorsOK, Places
  <2>3. \A b \in Actors : Locked(b)' BY DEF ActorsOK, Locked, Refreshing
  <2>4. \A q \in Clients : Running(q)' BY DEF ActorsOK, Running
  <2> QED BY <2>1, <2>2, <2>3, <2>4
<1>3. CASE Pass \/ NetChange
  <2> USE <1>3 DEF Pass, NetChange
  <2>1. StateOK' BY NetFacts DEF StateOK, Ages, Due
  <2>2. ActorsOK' /\ LooksOK' BY DEF ActorsOK, LooksOK
  <2>3. \A b \in Actors : Locked(b)' BY DEF Locked
  <2>4. \A q \in Clients : Running(q)' BY DEF Running
  <2> QED BY <2>1, <2>2, <2>3, <2>4
<1>4. CASE Expire
  <2> USE <1>4 DEF Expire
  <2>1. StateOK' /\ ActorsOK' /\ LooksOK' BY DEF StateOK, ActorsOK, LooksOK
  <2>2. cache' \in SUBSET Entries
    <3>1. ASSUME NEW e \in cache PROVE [e EXCEPT !.fresh = FALSE] \in Entries
      BY DEF Entries
    <3> QED BY <3>1
  <2>3. \A b \in Actors : Locked(b)' BY DEF Locked
  <2>4. \A q \in Clients : Running(q)' BY DEF Running
  <2> QED BY <2>1, <2>2, <2>3, <2>4
<1>5. ASSUME NEW a \in Actors, ContextEnds(a) PROVE Base'
  <2> USE <1>5 DEF ContextEnds
  <2>1. StateOK' /\ LooksOK' BY BoundsAssumption DEF StateOK, LooksOK
  <2>2. ActorsOK' BY DEF ActorsOK
  <2>3. \A b \in Actors : Locked(b)' BY DEF Locked
  <2>4. \A q \in Clients : Running(q)' BY DEF Running
  <2> QED BY <2>1, <2>2, <2>3, <2>4
<1> QED BY <1>1, <1>2, <1>3, <1>4, <1>5

(* Base is inductive.                                                        *)
LEMMA NextBase == Base /\ [Next]_vars => Base'
<1> SUFFICES ASSUME Base, [Next]_vars PROVE Base'
  OBVIOUS
<1>1. CASE UNCHANGED vars
  BY <1>1 DEF vars, state, refresh, looks, env, Base, TypeOK, StateOK, ActorsOK, LooksOK,
              Locked, Running
<1> QED BY <1>1, RefreshBase, LookupBase, FlightBase, CallBase, OtherBase DEF Next

(* Resolver.TypeOK holds in every reachable state: in particular Select runs *)
(* only on discovered groups, never on the nil groups of an outage.          *)
THEOREM TypeCorrect == Spec => []TypeOK
<1>1. Base => TypeOK BY DEF Base
<1> QED BY <1>1, InitBase, NextBase, PTL DEF Spec

-----------------------------------------------------------------------------
(* Generations only grow, and only a publication changes what one names.     *)
LEMMA GenerationStep ==
    ASSUME Base, [Next]_vars
    PROVE  /\ gen \in Nat /\ gen' \in Nat /\ gen' >= gen
           /\ gen' = gen => disc' = disc /\ applied' = applied /\ lastErr' = lastErr
<1>0. gen \in Nat BY DEF Base, TypeOK, StateOK
<1>1. ASSUME NEW a \in Actors, Publish(a)
      PROVE  /\ gen' \in Nat /\ gen' >= gen
             /\ gen' = gen => disc' = disc /\ applied' = applied /\ lastErr' = lastErr
  BY <1>0, <1>1 DEF Publish, Changed, state
<1>2. CASE \A a \in Actors : ~Publish(a)
  <2>1. UNCHANGED <<gen, disc, applied, lastErr>>
    BY <1>2 DEF Next, vars, state, RefreshStep, RefreshBegin, Discover, ContextEnds, Call,
       LookupStep, LookupUnavailable, LookupHit, LookupMiss, Join, Receive, Abandon,
       LookupFailed, Recheck, Return, FlightStep, Query, Store, Land, Configure, TickDue,
       RunExit, Pass, Expire, NetChange
  <2> QED BY <1>0, <2>1
<1> QED BY <1>0, <1>1, <1>2

(* GenerationNamesState, for every instance (resolver.go:111-116).           *)
THEOREM GenerationAlwaysNamesState == Spec => GenerationNamesState
<1>1. Base /\ [Next]_vars =>
        [gen' = gen => disc' = disc /\ applied' = applied /\ lastErr' = lastErr]_vars
  BY GenerationStep
<1> QED BY <1>1, InitBase, NextBase, PTL DEF Spec, GenerationNamesState

(* What was read with a generation stays current or becomes outdated.        *)
LEMMA CurrentStep ==
    ASSUME Base, [Next]_vars, NEW g \in Nat, NEW d, Current(g, d)
    PROVE  Current(g, d)'
BY GenerationStep DEF Current

-----------------------------------------------------------------------------
(* The invariant *)

(* IInv holds initially.                                                     *)
LEMMA InitIInv == Init => IInv
<1> SUFFICES ASSUME Init PROVE IInv
  OBVIOUS
<1>1. Base BY InitBase
<1>2. CacheCurrent /\ ReloadSettles
  BY ActorFacts DEF Init, Made, Launched, CacheCurrent, ReloadSettles
<1>3. \A a \in Actors : Refreshed(a) BY DEF Init, Made, Launched, Refreshed, Refreshing
<1>4. \A p \in Clients : Looking(p)
  BY ActorFacts, ActorsDistinct DEF Init, Made, Launched, Looking, Pending, Failure, Result
<1>5. published <= net BY NetFacts DEF Init, Made, Launched
<1> QED BY <1>1, <1>2, <1>3, <1>4, <1>5 DEF IInv, Init, Made, Launched

(* A step that leaves queries and lookups alone keeps what is known of them. *)
LEMMA LooksKept ==
    ASSUME IInv, [Next]_vars, UNCHANGED <<flights, got, snap, began>>,
           \A p \in Clients : \/ pc'[p] = pc[p]
                              \/ /\ pc[p] # "idle" /\ pc[p] # "wait"
                                 /\ pc'[p] \in {"discover", "publish", "recheck", "failed", "return"}
    PROVE  (\A f \in flights : Flying(f))' /\ (\A p \in Clients : Looking(p))'
<1>1. gen' >= gen /\ gen \in Nat /\ gen' \in Nat BY GenerationStep DEF IInv
<1>2. ASSUME NEW f \in flights PROVE Flying(f)'
  <2>1. f.gen \in Nat BY DEF IInv, Base, TypeOK, Flights
  <2>2. Current(f.gen, f.disc)' BY <2>1, CurrentStep DEF IInv, Flying
  <2> QED BY <2>2 DEF IInv, Flying
<1>3. ASSUME NEW p \in Clients PROVE Looking(p)'
  <2>1. got[p].gen \in Nat /\ snap[p].gen \in Nat /\ began[p] \in Nat
    BY DEF IInv, Base, TypeOK, LooksOK, Answers, Snaps
  <2>2. got[p].why = "ok" => Current(got[p].gen, got[p].disc)'
    BY <2>1, CurrentStep DEF IInv, Looking
  <2>3. pc[p] = "join" => Current(snap[p].gen, snap[p].disc)'
    BY <2>1, CurrentStep DEF IInv, Looking
  <2> QED BY <1>1, <2>1, <2>2, <2>3 DEF IInv, Looking
<1> QED BY <1>2, <1>3

(* Refresh keeps IInv: a change empties the cache under a new generation.    *)
LEMMA RefreshIInv == ASSUME IInv, NEW a \in Actors, RefreshStep(a) PROVE IInv'
<1>1. [Next]_vars BY DEF Next
<1>2. Base' BY RefreshBase DEF IInv
<1>3. /\ UNCHANGED <<flights, got, snap, began, net, cfg>>
      /\ \A p \in Clients : \/ pc'[p] = pc[p]
                            \/ /\ pc[p] \in {"refresh", "discover", "publish"}
                               /\ pc'[p] \in {"discover", "publish", "recheck"}
  BY ActorFacts DEF IInv, Base, TypeOK, ActorsOK, RefreshStep, RefreshBegin, Discover,
     Publish, AfterRefresh, looks, env
<1>4. (\A f \in flights : Flying(f))' /\ (\A p \in Clients : Looking(p))'
  BY <1>1, <1>3, LooksKept
<1>5. CASE RefreshBegin(a)
  <2> USE <1>5 DEF RefreshBegin, IInv, Base, TypeOK, state, env, Coalesced
  <2>1. CacheCurrent' /\ (published <= net)' BY DEF CacheCurrent
  <2>2. ReloadSettles' BY ActorFacts DEF ReloadSettles, ActorsOK
  <2>3. \A b \in Actors : Refreshed(b)'
    BY ActorFacts, ActorsDistinct DEF Refreshed, ActorsOK, Refreshing, AfterRefresh
  <2> QED BY <1>2, <1>4, <2>1, <2>2, <2>3
<1>6. CASE Discover(a)
  <2> USE <1>6 DEF Discover, IInv, Base, TypeOK, state, env
  <2>1. CacheCurrent' /\ (published <= net)' BY DEF CacheCurrent
  <2>2. ReloadSettles' BY ActorFacts DEF ReloadSettles, ActorsOK
  <2>3. \A b \in Actors : Refreshed(b)'
    <3>1. based[a].mode = "auto" => found'[a].ver = net BY DEF Probe, ActorsOK
    <3>2. net \in Nat BY NetFacts DEF StateOK
    <3> QED BY <3>1, <3>2, ActorFacts DEF Refreshed, ActorsOK, Refreshing
  <2> QED BY <1>2, <1>4, <2>1, <2>2, <2>3
<1>7. CASE Publish(a)
  <2> USE <1>7 DEF Publish, IInv, Base, TypeOK, state, env, AfterRefresh
  <2>1. based[a] \in Configs /\ \A b \in Actors \ {a} : pc[b] \notin Refreshing
    BY DEF Locked, Refreshing
  <2>2. CacheCurrent' BY DEF CacheCurrent, Changed
  <2>3. ReloadSettles' BY ActorFacts DEF ReloadSettles, Refreshed, Refreshing, ActorsOK
  <2>4. (published <= net)' BY DEF Refreshed
  <2>5. \A b \in Actors : Refreshed(b)'
    BY <2>1, ActorFacts DEF Refreshed, ActorsOK, Refreshing
  <2> QED BY <1>2, <1>4, <2>2, <2>3, <2>4, <2>5
<1> QED BY <1>5, <1>6, <1>7 DEF RefreshStep

(* A step of a client outside Refresh leaves the refreshes alone.            *)
LEMMA RefreshesKept ==
    ASSUME IInv, NEW p \in Clients, NEW to \in Places \ Refreshing,
           pc' = [pc EXCEPT ![p] = to], UNCHANGED <<state, cfg, refresh, env>>
    PROVE  ReloadSettles' /\ (published <= net)' /\ (\A a \in Actors : Refreshed(a))'
BY ActorFacts, ActorsDistinct
   DEF IInv, Base, TypeOK, ActorsOK, state, refresh, env, ReloadSettles, Refreshed, Refreshing

(* A client that waits for no query before or after its step: what is known  *)
(* of queries and of the other clients stays.                                *)
LEMMA ClientIInv ==
    ASSUME IInv, Base', NEW p \in Clients, NEW to \in Places \ Refreshing,
           pc' = [pc EXCEPT ![p] = to], UNCHANGED <<state, cfg, refresh, env, flights>>,
           CacheCurrent', Looking(p)',
           \A q \in Clients \ {p} : /\ snap'[q] = snap[q] /\ got'[q] = got[q]
                                    /\ began'[q] = began[q]
    PROVE  IInv'
<1>1. ReloadSettles' /\ (published <= net)' /\ (\A a \in Actors : Refreshed(a))'
  BY RefreshesKept
<1>2. (\A f \in flights : Flying(f))' BY DEF IInv, Flying, Current, state
<1>3. ASSUME NEW q \in Clients \ {p} PROVE Looking(q)'
  <2>1. pc'[q] = pc[q] BY ActorFacts DEF IInv, Base, TypeOK, ActorsOK
  <2> QED BY <2>1 DEF IInv, Looking, Current, state
<1> QED BY <1>1, <1>2, <1>3 DEF IInv

(* lookup returns r, and no query holds its caller as a waiter.              *)
LEMMA FinishIInv ==
    ASSUME IInv, Base', NEW p \in Clients, NEW r, Finish(p, r),
           UNCHANGED <<began, state, cfg, refresh, env, flights>>, CacheCurrent',
           pc[p] # "idle", \A f \in flights : p \notin f.waiters,
           r.why = "ok" => Current(r.gen, r.disc) /\ began[p] <= r.gen
    PROVE  IInv'
<1>1. PICK to \in {"failed", "return"} : pc' = [pc EXCEPT ![p] = to] BY DEF Finish
<1>2. to \in Places \ Refreshing BY DEF Places, Refreshing
<1>3. pc'[p] = to /\ got'[p] = r
  BY <1>1, ActorFacts DEF IInv, Base, TypeOK, ActorsOK, LooksOK, Finish
<1>4. Looking(p)' BY <1>3 DEF IInv, Looking, Current, state
<1>5. \A q \in Clients \ {p} : snap'[q] = snap[q] /\ got'[q] = got[q] /\ began'[q] = began[q]
  BY DEF IInv, Base, TypeOK, LooksOK, Finish
<1> QED BY <1>1, <1>2, <1>4, <1>5, ClientIInv

(* A query is replaced by one under the same key.                            *)
LEMMA ReplaceFlying ==
    ASSUME IInv, NEW k \in flights, NEW n, flights' = (flights \ {k}) \cup {n},
           UNCHANGED state, n.gen = k.gen, n.host = k.host, n.disc = k.disc,
           n.phase = "query" => n.res = Pending,
           n.phase # "query" => n.res.why # "pending",
           n.res.why = "ok" => n.res.gen = n.gen /\ n.res.disc = n.disc
    PROVE  (\A f \in flights : Flying(f))'
BY DEF IInv, Flying, Current, state

(* Lookup keeps IInv, joining and leaving shared queries.                    *)
LEMMA LookupIInv == ASSUME IInv, NEW p \in Clients, LookupStep(p) PROVE IInv'
<1>0. Base' BY LookupBase DEF IInv
<1>1. Looking(p) /\ Base BY DEF IInv
<1>2. ASSUME pc[p] = "lookup" PROVE \A f \in flights : p \notin f.waiters
  BY <1>1, <1>2 DEF Looking
<1>3. CASE LookupUnavailable(p)
  <2>1. CacheCurrent' /\ pc[p] # "idle" BY <1>3 DEF LookupUnavailable, IInv, CacheCurrent, state
  <2>2. Failure("unavailable").why # "ok" BY DEF Failure, Result
  <2> QED BY <1>0, <1>2, <1>3, <2>1, <2>2, FinishIInv DEF LookupUnavailable
<1>4. CASE LookupHit(p)
  <2>1. PICK e \in Hits(p) : Finish(p, Result("ok", e.gen, e.disc)) BY <1>4 DEF LookupHit
  <2>2. CacheCurrent' /\ pc[p] = "lookup" BY <1>4 DEF LookupHit, IInv, CacheCurrent, state
  <2>3. e.gen = gen /\ e.disc = disc /\ lastErr = "none" /\ gen \in Nat
    BY <1>1 DEF Hits, IInv, CacheCurrent, Base, TypeOK, StateOK
  <2>4. Current(e.gen, e.disc) /\ began[p] <= e.gen BY <1>1, <2>2, <2>3 DEF Current, Looking
  <2>5. Current(Result("ok", e.gen, e.disc).gen, Result("ok", e.gen, e.disc).disc)
        /\ began[p] <= Result("ok", e.gen, e.disc).gen
    BY <2>4 DEF Result
  <2> QED BY <1>0, <1>2, <1>4, <2>1, <2>2, <2>5, FinishIInv DEF LookupHit
<1>5. CASE LookupMiss(p)
  <2>0. CacheCurrent' /\ pc[p] = "lookup" /\ lastErr = "none"
    BY <1>5 DEF LookupMiss, IInv, CacheCurrent, state
  <2>1. CASE Route[disc][call[p].host].eligible
    <3>1. /\ snap' = [snap EXCEPT ![p] = [gen |-> gen, disc |-> disc, cfg |-> cfg]]
          /\ pc' = [pc EXCEPT ![p] = "join"]
          /\ UNCHANGED <<got, began, flights, state, cfg, refresh, env>>
      BY <1>5, <2>1 DEF LookupMiss
    <3>2. snap'[p].gen = gen /\ snap'[p].disc = disc /\ pc'[p] = "join" /\ gen \in Nat
      BY <1>1, <3>1, ActorFacts DEF Base, TypeOK, LooksOK, ActorsOK, StateOK
    <3>3. Looking(p)'
      BY <1>1, <1>2, <2>0, <3>1, <3>2 DEF Looking, Current, state, Pending, Failure, Result
    <3>4. "join" \in Places \ Refreshing BY DEF Places, Refreshing
    <3>5. \A q \in Clients \ {p} : snap'[q] = snap[q] BY <1>1, <3>1 DEF Base, TypeOK, LooksOK
    <3> QED BY <1>0, <2>0, <3>1, <3>3, <3>4, <3>5, ClientIInv
  <2>2. CASE ~Route[disc][call[p].host].eligible
    <3>1. Failure("nogroup").why # "ok" BY DEF Failure, Result
    <3>2. Finish(p, Failure("nogroup")) /\ UNCHANGED <<began, state, cfg, refresh, env, flights>>
      BY <1>5, <2>2 DEF LookupMiss
    <3> QED BY <1>0, <1>2, <2>0, <3>1, <3>2, FinishIInv
  <2> QED BY <2>1, <2>2
<1>6. CASE Receive(p)
  <2>1. CacheCurrent' /\ pc[p] # "idle" BY <1>6 DEF Receive, IInv, CacheCurrent, state
  <2>2. \A f \in flights : p \notin f.waiters BY <1>1, <1>6 DEF Receive, Looking
  <2>3. got[p].why = "ok" => Current(got[p].gen, got[p].disc) /\ began[p] <= got[p].gen
    BY <1>1 DEF Looking
  <2> QED BY <1>0, <1>6, <2>1, <2>2, <2>3, FinishIInv DEF Receive
<1>7. CASE LookupFailed(p)
  <2> USE <1>7 DEF LookupFailed
  <2>1. PICK to \in {"refresh", "return"} : pc' = [pc EXCEPT ![p] = to] OBVIOUS
  <2>2. to \in Places \ Refreshing /\ pc'[p] = to
    BY <1>1, <2>1, ActorFacts DEF Places, Refreshing, Base, TypeOK, ActorsOK
  <2>3. CacheCurrent' BY DEF IInv, CacheCurrent, state
  <2>4. Looking(p)' BY <1>1, <2>1, <2>2 DEF Looking, Current, state
  <2> QED BY <1>0, <2>1, <2>2, <2>3, <2>4, ClientIInv
<1>8. CASE Recheck(p)
  <2> USE <1>8 DEF Recheck
  <2>1. PICK to \in {"lookup", "return"} : pc' = [pc EXCEPT ![p] = to]
                                          /\ (to = "lookup" => got' = [got EXCEPT ![p] = Pending])
                                          /\ (to = "return" => got' = got)
    OBVIOUS
  <2>2. to \in Places \ Refreshing /\ pc'[p] = to
    BY <1>1, <2>1, ActorFacts DEF Places, Refreshing, Base, TypeOK, ActorsOK
  <2>3. CacheCurrent' BY DEF IInv, CacheCurrent, state
  <2>4. /\ to = "lookup" => got'[p] = Pending
        /\ \A q \in Clients \ {p} : got'[q] = got[q]
    BY <1>1, <2>1 DEF Base, TypeOK, LooksOK
  <2>5. Pending.why # "ok" BY DEF Pending, Failure, Result
  <2>6. Looking(p)' BY <1>1, <2>1, <2>2, <2>4, <2>5 DEF Looking, Current, state
  <2> QED BY <1>0, <2>1, <2>2, <2>3, <2>4, <2>6, ClientIInv
<1>9. CASE Return(p)
  <2> USE <1>9 DEF Return
  <2>1. "idle" \in Places \ Refreshing BY DEF Places, Refreshing
  <2>2. /\ pc'[p] = "idle" /\ got'[p] = Pending
        /\ \A q \in Clients \ {p} : got'[q] = got[q] /\ began'[q] = began[q]
    BY <1>1, ActorFacts DEF Base, TypeOK, ActorsOK, LooksOK
  <2>3. CacheCurrent' BY DEF IInv, CacheCurrent, state
  <2>4. Pending.why # "ok" BY DEF Pending, Failure, Result
  <2>5. Looking(p)' BY <1>1, <2>2, <2>4 DEF Looking
  <2> QED BY <1>0, <2>1, <2>2, <2>3, <2>5, ClientIInv
<1>10. CASE Join(p)
  <2>1. /\ pc[p] = "join" /\ pc' = [pc EXCEPT ![p] = "wait"]
        /\ UNCHANGED <<state, cfg, cache, refresh, got, began, snap, env>>
    BY <1>10 DEF Join, looks
  <2>2. "wait" \in Places \ Refreshing BY DEF Places, Refreshing
  <2>3. ReloadSettles' /\ (published <= net)' /\ (\A a \in Actors : Refreshed(a))'
    BY <2>1, <2>2, RefreshesKept
  <2>4. CacheCurrent' BY <2>1 DEF IInv, CacheCurrent, state
  <2>5. pc'[p] = "wait" /\ \A q \in Clients \ {p} : pc'[q] = pc[q]
    BY <1>1, <2>1, ActorFacts DEF Base, TypeOK, ActorsOK
  <2>6. /\ got[p] = Pending /\ Current(snap[p].gen, snap[p].disc) /\ began[p] <= snap[p].gen
        /\ \A f \in flights : p \notin f.waiters
    BY <1>1, <2>1 DEF Looking
  <2>7. Pending.why = "pending" BY DEF Pending, Failure, Result
  <2>8. CASE SameKey(p) = {}
    <3> DEFINE n == [gen |-> snap[p].gen, host |-> call[p].host, disc |-> snap[p].disc,
                     size |-> snap[p].cfg.size,
                     left |-> Route[snap[p].disc][call[p].host].servers,
                     res |-> Pending, phase |-> "query", waiters |-> {p}]
    <3>1. /\ flights' = flights \cup {n}
          /\ n.gen = snap[p].gen /\ n.host = call[p].host /\ n.disc = snap[p].disc
          /\ n.res = Pending /\ n.phase = "query" /\ n.waiters = {p}
      BY <1>10, <2>8 DEF Join
    <3> HIDE DEF n
    <3>2. \A f \in flights : ~(f.gen = n.gen /\ f.host = n.host) BY <2>8, <3>1 DEF SameKey
    <3>3. (\A f \in flights : Flying(f))'
      BY <2>1, <2>6, <2>7, <3>1, <3>2 DEF IInv, Flying, Current, state
    <3>4. ASSUME NEW q \in Clients PROVE Looking(q)'
      BY <2>1, <2>5, <2>6, <2>7, <3>1 DEF IInv, Looking, Current, state
    <3> QED BY <1>0, <2>3, <2>4, <3>3, <3>4 DEF IInv
  <2>9. CASE SameKey(p) # {}
    <3>1. PICK f \in SameKey(p) : SameKey(p) = {f}
      BY <2>9 DEF SameKey, IInv, Flying
    <3>2. f \in Flights /\ f \in flights /\ f.gen = snap[p].gen
      BY <1>1, <3>1 DEF SameKey, Base, TypeOK
    <3> DEFINE n == [f EXCEPT !.waiters = @ \cup {p}]
    <3>3. flights' = (flights \ {f}) \cup {n}
      BY <1>10, <3>1 DEF Join, Joined
    <3>4. /\ n.gen = f.gen /\ n.host = f.host /\ n.disc = f.disc /\ n.res = f.res
          /\ n.phase = f.phase /\ n.waiters = f.waiters \cup {p}
      BY <3>2 DEF Flights
    <3> HIDE DEF n
    <3>5. (\A g \in flights : Flying(g))'
      BY <2>1, <3>2, <3>3, <3>4, ReplaceFlying DEF IInv, Flying
    <3>6. ASSUME NEW q \in Clients PROVE Looking(q)'
      BY <2>1, <2>5, <2>6, <2>7, <3>2, <3>3, <3>4 DEF IInv, Looking, Current, state
    <3> QED BY <1>0, <2>3, <2>4, <3>5, <3>6 DEF IInv
  <2> QED BY <2>8, <2>9
<1>11. CASE Abandon(p)
  <2>1. /\ pc[p] = "wait" /\ Finish(p, Failure(ctx[p])) /\ ctx[p] # "live"
        /\ UNCHANGED <<began, state, cfg, cache, refresh, env>>
    BY <1>11 DEF Abandon
  <2>2. Failure(ctx[p]).why # "ok"
    BY <1>1, <2>1, ActorFacts DEF Failure, Result, Base, TypeOK, ActorsOK
  <2>3. PICK to \in {"failed", "return"} : pc' = [pc EXCEPT ![p] = to] BY <2>1 DEF Finish
  <2>4. to \in Places \ Refreshing BY DEF Places, Refreshing
  <2>5. ReloadSettles' /\ (published <= net)' /\ (\A a \in Actors : Refreshed(a))'
    BY <2>1, <2>3, <2>4, RefreshesKept
  <2>6. CacheCurrent' BY <2>1 DEF IInv, CacheCurrent, state
  <2>7. /\ pc'[p] = to /\ got'[p] = Failure(ctx[p])
        /\ \A q \in Clients \ {p} : pc'[q] = pc[q] /\ got'[q] = got[q] /\ snap'[q] = snap[q]
    BY <1>1, <2>1, <2>3, ActorFacts DEF Base, TypeOK, ActorsOK, LooksOK, Finish
  <2> DEFINE Left(f) == [f EXCEPT !.waiters = @ \ {p}]
  <2>8. flights' = {Left(f) : f \in flights} BY <1>11 DEF Abandon
  <2>9. \A f \in flights :
          /\ Left(f).gen = f.gen /\ Left(f).host = f.host /\ Left(f).disc = f.disc
          /\ Left(f).res = f.res /\ Left(f).phase = f.phase
          /\ Left(f).waiters = f.waiters \ {p}
    BY <1>1 DEF Base, TypeOK, Flights
  <2> HIDE DEF Left
  <2>10. (\A f \in flights : Flying(f))'
    BY <2>1, <2>8, <2>9 DEF IInv, Flying, Current, state
  <2>11. Looking(p)'
    BY <1>1, <2>1, <2>2, <2>7, <2>8, <2>9 DEF Looking, Current, state
  <2>12. ASSUME NEW q \in Clients \ {p} PROVE Looking(q)'
    BY <2>1, <2>7, <2>8, <2>9 DEF IInv, Looking, Current, state
  <2> QED BY <1>0, <2>5, <2>6, <2>10, <2>11, <2>12 DEF IInv
<1> QED BY <1>3, <1>4, <1>5, <1>6, <1>7, <1>8, <1>9, <1>10, <1>11 DEF LookupStep

(* The query f becomes n, with the same key and the same waiters.            *)
Evolved(f, n) ==
    /\ flights' = (flights \ {f}) \cup {n}
    /\ n.gen = f.gen /\ n.host = f.host /\ n.disc = f.disc /\ n.waiters = f.waiters
    /\ n.phase = "query" => n.res = Pending
    /\ n.phase # "query" => n.res.why # "pending"
    /\ n.res.why = "ok" => n.res.gen = n.gen /\ n.res.disc = n.disc

(* A query keeps IInv: it fills the cache only in its own generation.        *)
LEMMA FlightIInv == ASSUME IInv, NEW f \in flights, FlightStep(f) PROVE IInv'
<1>0. Base' BY FlightBase DEF IInv
<1>1. f \in Flights /\ Flying(f) /\ Base BY DEF IInv, Base, TypeOK
<1>2. UNCHANGED <<state, cfg, refresh, pc, snap, began, env>>
  BY DEF FlightStep, Query, Store, Land, looks
<1>3. ReloadSettles' /\ (published <= net)' /\ (\A a \in Actors : Refreshed(a))'
  BY <1>2 DEF IInv, state, refresh, env, ReloadSettles, Refreshed
<1>4. ASSUME NEW n, flights' = (flights \ {f}) \cup {n}, n.gen = f.gen, n.waiters = f.waiters,
             UNCHANGED got, NEW q \in Clients
      PROVE  Looking(q)'
  BY <1>2, <1>4 DEF IInv, Looking, Current, state
<1>5. CASE Query(f)
  <2>1. UNCHANGED <<cache, got>> BY <1>5 DEF Query, looks
  <2>2. PICK n : Evolved(f, n)
    <3>1. f.phase = "query" /\ f.res = Pending BY <1>1, <1>5 DEF Query, Flying
    <3>2. CASE Replace(f, [f EXCEPT !.left = Tail(@)])
      <4> WITNESS [f EXCEPT !.left = Tail(@)]
      <4> QED BY <1>1, <3>1, <3>2 DEF Evolved, Replace, Flights, Pending, Failure, Result
    <3>3. ASSUME NEW why \in {"query", "nxdomain"},
                 Replace(f, [f EXCEPT !.phase = "done", !.res = Failure(why)])
          PROVE  \E n : Evolved(f, n)
      <4> WITNESS [f EXCEPT !.phase = "done", !.res = Failure(why)]
      <4> QED BY <1>1, <3>3 DEF Evolved, Replace, Flights, Failure, Result
    <3>4. CASE Replace(f, [f EXCEPT !.phase = "store", !.res = Result("ok", f.gen, f.disc)])
      <4> WITNESS [f EXCEPT !.phase = "store", !.res = Result("ok", f.gen, f.disc)]
      <4> QED BY <1>1, <3>4 DEF Evolved, Replace, Flights, Result
    <3> QED BY <1>5, <3>2, <3>3, <3>4 DEF Query
  <2>3. CacheCurrent' BY <1>2, <2>1 DEF IInv, CacheCurrent, state
  <2>4. (\A g \in flights : Flying(g))' BY <1>2, <2>2, ReplaceFlying DEF Evolved
  <2>5. \A q \in Clients : Looking(q)' BY <1>4, <2>1, <2>2 DEF Evolved
  <2> QED BY <1>0, <1>3, <2>3, <2>4, <2>5 DEF IInv
<1>6. CASE Store(f)
  <2> DEFINE n == [f EXCEPT !.phase = "done"]
  <2>1. UNCHANGED got /\ flights' = (flights \ {f}) \cup {n} BY <1>6 DEF Store, Replace, looks
  <2>2. /\ n.gen = f.gen /\ n.host = f.host /\ n.disc = f.disc /\ n.waiters = f.waiters
        /\ n.res = f.res /\ n.phase = "done"
    BY <1>1 DEF Flights
  <2> HIDE DEF n
  <2>3. CacheCurrent'
    <3>1. CASE UNCHANGED cache BY <1>2, <3>1 DEF IInv, CacheCurrent, state
    <3>2. CASE Storable(f) /\ \E kept \in Evictions(f.size) :
                 cache' = {e \in kept : ~(e.gen = f.gen /\ e.host = f.host)}
                            \cup {Entry(f.gen, f.host, f.disc)}
      <4>1. gen = f.gen /\ f.disc = disc /\ lastErr = "none"
        BY <1>1, <3>2 DEF Storable, Flying, Current
      <4>2. \A kept \in Evictions(f.size) : kept \subseteq cache BY DEF Evictions
      <4> QED BY <1>2, <3>2, <4>1, <4>2 DEF IInv, CacheCurrent, Entry, state
    <3> QED BY <1>6, <3>1, <3>2 DEF Store
  <2>4. (\A g \in flights : Flying(g))'
    BY <1>1, <1>2, <1>6, <2>1, <2>2, ReplaceFlying DEF Store, Flying
  <2>5. \A q \in Clients : Looking(q)' BY <1>4, <2>1, <2>2
  <2> QED BY <1>0, <1>3, <2>3, <2>4, <2>5 DEF IInv
<1>7. CASE Land(f)
  <2>1. /\ flights' = flights \ {f} /\ UNCHANGED cache /\ f.phase = "done"
        /\ \A q \in Clients : got'[q] = IF q \in f.waiters THEN f.res ELSE got[q]
    BY <1>7 DEF Land
  <2>2. CacheCurrent' BY <1>2, <2>1 DEF IInv, CacheCurrent, state
  <2>3. (\A g \in flights : Flying(g))' BY <1>2, <2>1 DEF IInv, Flying, Current, state
  <2>4. Pending.why = "pending" BY DEF Pending, Failure, Result
  <2>5. ASSUME NEW q \in Clients PROVE Looking(q)'
    BY <1>1, <1>2, <2>1, <2>4 DEF IInv, Looking, Flying, Current, state
  <2> QED BY <1>0, <1>3, <2>2, <2>3, <2>5 DEF IInv
<1> QED BY <1>5, <1>6, <1>7 DEF FlightStep

(* A new Lookup keeps IInv.                                                  *)
LEMMA CallIInv == ASSUME IInv, NEW p \in Clients, Call(p) PROVE IInv'
<1>1. Base' /\ Base /\ Looking(p) BY CallBase DEF IInv
<1>2. "lookup" \in Places \ Refreshing BY DEF Places, Refreshing
<1>3. CacheCurrent' BY DEF IInv, CacheCurrent, Call, state
<1>4. /\ pc[p] = "idle" /\ pc'[p] = "lookup" /\ began'[p] = gen /\ gen \in Nat
      /\ \A q \in Clients \ {p} : began'[q] = began[q]
  BY <1>1, ActorFacts DEF Call, Base, TypeOK, StateOK, ActorsOK, LooksOK
<1>5. Looking(p)'
  BY <1>1, <1>4 DEF Call, Looking, Current, state, Pending, Failure, Result
<1> QED BY <1>1, <1>2, <1>3, <1>4, <1>5, ClientIInv DEF Call

(* Configure, Run, time and the outside keep IInv.                           *)
LEMMA OtherIInv ==
    ASSUME IInv,
           \/ Configure \/ TickDue \/ RunExit \/ Pass \/ Expire \/ NetChange
           \/ \E a \in Actors : ContextEnds(a)
    PROVE  IInv'
<1>0. Base' /\ Base BY OtherBase DEF IInv
<1>1. [Next]_vars BY DEF Next
<1>2. UNCHANGED <<flights, got, snap, began>> /\ \A p \in Clients : pc'[p] = pc[p]
  BY <1>0, ActorFacts, ActorsDistinct
     DEF Base, TypeOK, ActorsOK, Configure, TickDue, RunExit, Pass, Expire, NetChange,
         ContextEnds, looks
<1>3. (\A f \in flights : Flying(f))' /\ (\A p \in Clients : Looking(p))'
  BY <1>1, <1>2, LooksKept
<1> USE DEF state, refresh, env
<1>4. CacheCurrent'
  <2>1. CASE Expire
    <3>1. \A e \in cache : [e EXCEPT !.fresh = FALSE].gen = e.gen
                           /\ [e EXCEPT !.fresh = FALSE].disc = e.disc
      BY <1>0 DEF Base, TypeOK, Entries
    <3> QED BY <2>1, <3>1 DEF Expire, IInv, CacheCurrent
  <2> QED BY <2>1 DEF IInv, CacheCurrent, Configure, TickDue, RunExit, Pass, NetChange, ContextEnds
<1>5. ReloadSettles'
  BY <1>0, ActorFacts, ActorsDistinct DEF IInv, Base, TypeOK, ActorsOK, ReloadSettles, Configure,
     TickDue, RunExit, Pass, Expire, NetChange, ContextEnds
<1>6. net \in Nat /\ published \in Nat /\ \A a \in Actors : found[a].ver \in Nat
  BY <1>0, NetFacts DEF Base, TypeOK, StateOK, ActorsOK, Findings
<1>7. (published <= net)'
  BY <1>6 DEF IInv, Configure, TickDue, RunExit, Pass, Expire, NetChange, ContextEnds
<1>8. \A a \in Actors : Refreshed(a)'
  BY <1>0, <1>6, ActorFacts, ActorsDistinct
     DEF IInv, Base, TypeOK, ActorsOK, Refreshed, Refreshing, Configure, TickDue, RunExit, Pass,
         Expire, NetChange, ContextEnds
<1> QED BY <1>0, <1>3, <1>4, <1>5, <1>7, <1>8 DEF IInv

(* IInv is inductive.                                                        *)
LEMMA NextIInv == IInv /\ [Next]_vars => IInv'
<1> SUFFICES ASSUME IInv, [Next]_vars PROVE IInv'
  OBVIOUS
<1>1. CASE UNCHANGED vars
  <2>1. Base' BY NextBase DEF IInv
  <2> QED BY <1>1, <2>1 DEF vars, state, refresh, looks, env, IInv, CacheCurrent, ReloadSettles,
             Refreshed, Flying, Looking, Current
<1> QED BY <1>1, RefreshIInv, LookupIInv, FlightIInv, CallIInv, OtherIInv DEF Next

-----------------------------------------------------------------------------
(* The cache never holds an answer of another generation or discovery, for   *)
(* any number of lookups, refreshes and reloads (resolver.go:112-113, 189).  *)
THEOREM CacheAlwaysCurrent == Spec => []CacheCurrent
<1>1. IInv => CacheCurrent BY DEF IInv
<1> QED BY <1>1, InitIInv, NextIInv, PTL DEF Spec

(* A reload that has returned is in force (resolver.go:83, 103).             *)
THEOREM ReloadAlwaysSettles == Spec => []ReloadSettles
<1>1. IInv => ReloadSettles BY DEF IInv
<1> QED BY <1>1, InitIInv, NextIInv, PTL DEF Spec

(* No Lookup returns an answer from before it began, and one of the current  *)
(* generation comes from the current discovery (resolver.go:139, 156, 189).  *)
THEOREM AnswerNeverOlder == Spec => []AnswerNotOlder
<1>1. IInv => AnswerNotOlder
  BY DEF IInv, Base, TypeOK, LooksOK, Answers, Looking, Current, AnswerNotOlder
<1> QED BY <1>1, InitIInv, NextIInv, PTL DEF Spec

(* Every waiting Lookup is known to its query or has its result already: no  *)
(* result is lost, nor sent to a caller that has gone (resolver.go:201-209). *)
THEOREM WaiterAlwaysKnown == Spec => []WaiterKnown
<1>1. IInv => WaiterKnown BY DEF IInv, Looking, WaiterKnown
<1> QED BY <1>1, InitIInv, NextIInv, PTL DEF Spec

(* What is published never goes back to an older state of the machine's DNS  *)
(* setup (refreshMu, resolver.go:79).                                        *)
THEOREM DiscoveryAlwaysForward == Spec => DiscoveryForward
<1>1. IInv /\ [Next]_vars => [published' >= published]_vars
  <2> SUFFICES ASSUME IInv, [Next]_vars PROVE published' >= published
    OBVIOUS
  <2>1. published \in Nat /\ \A a \in Actors : found[a].ver \in Nat
    BY NetFacts DEF IInv, Base, TypeOK, StateOK, ActorsOK, Findings
  <2>2. ASSUME NEW a \in Actors, Publish(a) PROVE published' >= published
    BY <2>1, <2>2 DEF Publish, state, IInv, Refreshed
  <2>3. CASE \A a \in Actors : ~Publish(a)
    <3>1. UNCHANGED published
      BY <2>3 DEF Next, vars, state, RefreshStep, RefreshBegin, Discover, ContextEnds, Call,
         LookupStep, LookupUnavailable, LookupHit, LookupMiss, Join, Receive, Abandon,
         LookupFailed, Recheck, Return, FlightStep, Query, Store, Land, Configure, TickDue,
         RunExit, Pass, Expire, NetChange
    <3> QED BY <2>1, <3>1
  <2> QED BY <2>2, <2>3
<1> QED BY <1>1, InitIInv, NextIInv, PTL DEF Spec, DiscoveryForward


-----------------------------------------------------------------------------
(* A query puts its answer in the cache under the size it was started with,  *)
(* which by then may be another configuration's: while the configuration in  *)
(* force is the installed one, every query that may still store, and every   *)
(* Lookup about to start one, has its size.                                  *)
ReadInForce(p) == pc[p] = "join" /\ snap[p].gen = gen => snap[p].cfg = cfg
Sized ==
    /\ IsFiniteSet(cache)
    /\ applied = cfg =>
          /\ Cardinality(cache) <= cfg.size
          /\ \A f \in flights : f.gen = gen => f.size = cfg.size
          /\ \A p \in Clients : ReadInForce(p)

(* What keeps it, in a step that publishes nothing.                          *)
LEMMA SizedKept ==
    ASSUME Sized, UNCHANGED <<applied, cfg, gen>>,
           IsFiniteSet(cache'), applied = cfg => Cardinality(cache') <= cfg.size,
           \A g \in flights' : \/ \E f \in flights : g.gen = f.gen /\ g.size = f.size
                               \/ applied = cfg /\ g.gen = gen => g.size = cfg.size,
           \A p \in Clients : pc'[p] = "join" =>
               snap'[p].cfg = cfg \/ (pc[p] = "join" /\ snap'[p] = snap[p])
    PROVE  Sized'
BY DEF Sized, ReadInForce

(* An answer is stored in the place of one that leaves if there is no room.  *)
LEMMA StoreBounded ==
    ASSUME IsFiniteSet(cache), NEW size \in Nat, size > 0, Cardinality(cache) <= size,
           NEW kept \in Evictions(size), NEW new, NEW left \in SUBSET kept
    PROVE  Cardinality(left \cup {new}) <= size
<1>1. Cardinality(cache) \in Nat BY FS_CardinalityType
<1>2. IsFiniteSet(kept) /\ Cardinality(kept) \in Nat /\ Cardinality(kept) < size
  <2>1. CASE kept = cache /\ ~(Cardinality(cache) >= size) BY <1>1, <2>1
  <2>2. ASSUME NEW e \in cache, kept = cache \ {e} PROVE IsFiniteSet(kept) /\ Cardinality(kept) \in Nat /\ Cardinality(kept) < size
    <3>1. IsFiniteSet(kept) /\ Cardinality(kept) = Cardinality(cache) - 1 BY <2>2, FS_RemoveElement
    <3>2. Cardinality(kept) \in Nat BY <3>1, FS_CardinalityType
    <3> QED BY <1>1, <3>1, <3>2
  <2> QED BY <2>1, <2>2 DEF Evictions
<1>3. IsFiniteSet(left) /\ Cardinality(left) <= Cardinality(kept) BY <1>2, FS_Subset
<1>4. Cardinality(left) \in Nat BY <1>3, FS_CardinalityType
<1>5. Cardinality(left \cup {new}) = IF new \in left THEN Cardinality(left) ELSE Cardinality(left) + 1
  BY <1>3, FS_AddElement
<1> QED BY <1>2, <1>3, <1>4, <1>5

LEMMA NextSized ==
    ASSUME IInv, Sized, [Next]_vars
    PROVE  Sized'
<1>1. Base /\ ReloadSettles BY DEF IInv
<1>2. /\ gen \in Nat /\ cfg \in Configs /\ cfg.size \in Nat /\ cache \in SUBSET Entries /\ flights \in SUBSET Flights
      /\ \A f \in flights : f.gen \in Nat /\ f.gen <= gen
      /\ \A p \in Clients : snap[p].gen \in Nat /\ (pc[p] = "join" => snap[p].gen <= gen)
  BY <1>1, ConfigsAssumption
  DEF IInv, Base, TypeOK, StateOK, LooksOK, Flights, Snaps, Flying, Looking, Current
<1>3. IsFiniteSet({}) /\ Cardinality({}) = 0 BY FS_EmptySet
<1>4. IsFiniteSet(cache) /\ (applied = cfg => Cardinality(cache) <= cfg.size) BY DEF Sized
<1>5. ASSUME NEW a \in Actors, Publish(a) PROVE Sized'
  <2>1. UNCHANGED <<cfg, flights, snap>> /\ \A p \in Clients : pc'[p] = "join" => pc[p] = "join"
    BY <1>1, <1>5, ActorFacts DEF Publish, looks, Base, TypeOK, ActorsOK, AfterRefresh
  <2>2. CASE based[a] # cfg \/ ~Changed(a)
    <3>1. UNCHANGED <<gen, cache, applied>> BY <1>5, <2>2 DEF Publish, Changed, state
    <3> QED BY <1>4, <2>1, <3>1, SizedKept
  <2>3. CASE based[a] = cfg /\ Changed(a)
    <3>1. gen' = gen + 1 /\ cache' = {} BY <1>5, <2>3 DEF Publish
    <3>2. \A f \in flights : f.gen # gen' BY <1>2, <3>1
    <3>3. \A p \in Clients : ReadInForce(p)' BY <1>2, <2>1, <3>1 DEF ReadInForce
    <3> QED BY <1>2, <1>3, <2>1, <3>1, <3>2, <3>3 DEF Sized
  <2> QED BY <2>2, <2>3
<1>6. CASE Configure
  <2>1. /\ applied = cfg /\ cache' = {} /\ UNCHANGED <<applied, gen, flights, snap>> /\ cfg' \in Configs
        /\ \A p \in Clients : pc'[p] = pc[p]
    BY <1>1, <1>6, ActorsDistinct, ActorFacts DEF Configure, Configurable, ReloadSettles, state, looks, Base, TypeOK, ActorsOK
  <2>2. cfg'.size \in Nat BY <2>1, ConfigsAssumption
  <2> QED BY <1>3, <2>1, <2>2 DEF Sized, ReadInForce
<1>7. ASSUME NEW p \in Clients, LookupMiss(p) PROVE Sized'
  <2>1. UNCHANGED <<applied, cfg, gen, flights>> /\ cache' \in SUBSET cache BY <1>7 DEF LookupMiss, state
  <2>2. IsFiniteSet(cache') /\ Cardinality(cache') <= Cardinality(cache) BY <1>4, <2>1, FS_Subset
  <2>3. Cardinality(cache') \in Nat /\ Cardinality(cache) \in Nat BY <1>4, <2>2, FS_CardinalityType
  <2>4. applied = cfg => Cardinality(cache') <= cfg.size BY <1>2, <1>4, <2>2, <2>3
  <2>5. \A q \in Clients : pc'[q] = "join" => snap'[q].cfg = cfg \/ (pc[q] = "join" /\ snap'[q] = snap[q])
    <3>1. \A q \in Clients \ {p} : pc'[q] = pc[q] /\ snap'[q] = snap[q]
      BY <1>1, <1>7, ActorFacts DEF LookupMiss, Finish, Base, TypeOK, ActorsOK, LooksOK
    <3>2. pc'[p] = "join" => snap'[p].cfg = cfg
      BY <1>1, <1>7, ActorFacts DEF LookupMiss, Finish, Base, TypeOK, ActorsOK, LooksOK
    <3> QED BY <3>1, <3>2
  <2> QED BY <2>1, <2>2, <2>4, <2>5, SizedKept
<1>8. ASSUME NEW p \in Clients, Join(p) PROVE Sized'
  <2>1. /\ UNCHANGED <<applied, cfg, gen, cache, snap>> /\ pc[p] = "join"
        /\ \A q \in Clients : pc'[q] = "join" => pc[q] = "join"
    BY <1>1, <1>8, ActorFacts DEF Join, state, looks, Base, TypeOK, ActorsOK
  <2>2. \A g \in flights' : \/ \E f \in flights : g.gen = f.gen /\ g.size = f.size
                            \/ applied = cfg /\ g.gen = gen => g.size = cfg.size
    <3>1. CASE SameKey(p) # {}
      <4>1. \A f \in flights : [f EXCEPT !.waiters = @ \cup {p}].gen = f.gen /\ [f EXCEPT !.waiters = @ \cup {p}].size = f.size
        BY <1>2 DEF Flights
      <4> QED BY <1>8, <3>1, <4>1 DEF Join, Joined, SameKey
    <3>2. CASE SameKey(p) = {}
      <4>1. ReadInForce(p) \/ applied # cfg BY DEF Sized
      <4> QED BY <1>8, <2>1, <3>2, <4>1 DEF Join, ReadInForce
    <3> QED BY <3>1, <3>2
  <2> QED BY <1>4, <2>1, <2>2, SizedKept
<1>9. ASSUME NEW p \in Clients, Abandon(p) PROVE Sized'
  <2>1. UNCHANGED <<applied, cfg, gen, cache>> BY <1>9 DEF Abandon, state
  <2>2. \A q \in Clients : pc'[q] = "join" => pc[q] = "join" /\ snap'[q] = snap[q]
    BY <1>1, <1>9, ActorFacts DEF Abandon, Finish, Base, TypeOK, ActorsOK, LooksOK
  <2>3. \A f \in flights : [f EXCEPT !.waiters = @ \ {p}].gen = f.gen /\ [f EXCEPT !.waiters = @ \ {p}].size = f.size
    BY <1>2 DEF Flights
  <2>4. \A g \in flights' : \E f \in flights : g.gen = f.gen /\ g.size = f.size BY <1>9, <2>3 DEF Abandon
  <2> QED BY <1>4, <2>1, <2>2, <2>4, SizedKept
<1>10. ASSUME NEW f \in flights, FlightStep(f) PROVE Sized'
  <2>1. UNCHANGED <<applied, cfg, gen, pc, snap>> BY <1>10 DEF FlightStep, Query, Store, Land, state, looks
  <2>2. \A g \in flights' : \E h \in flights : g.gen = h.gen /\ g.size = h.size
    <3>1. CASE Land(f) BY <3>1 DEF Land
    <3>2. ASSUME NEW n, Replace(f, n), n.gen = f.gen, n.size = f.size
          PROVE  \A g \in flights' : \E h \in flights : g.gen = h.gen /\ g.size = h.size
      BY <3>2 DEF Replace
    <3>3. CASE Store(f)
      <4>1. [f EXCEPT !.phase = "done"].gen = f.gen /\ [f EXCEPT !.phase = "done"].size = f.size BY <1>2 DEF Flights
      <4> QED BY <3>2, <3>3, <4>1 DEF Store
    <3>4. CASE Query(f)
      <4>1. f \in Flights BY <1>2
      <4>2. CASE Replace(f, [f EXCEPT !.left = Tail(@)]) BY <3>2, <4>1, <4>2 DEF Flights
      <4>3. ASSUME NEW why, Replace(f, [f EXCEPT !.phase = "done", !.res = Failure(why)])
            PROVE  \A g \in flights' : \E h \in flights : g.gen = h.gen /\ g.size = h.size
        BY <3>2, <4>1, <4>3 DEF Flights
      <4>4. CASE Replace(f, [f EXCEPT !.phase = "store", !.res = Result("ok", f.gen, f.disc)])
        BY <3>2, <4>1, <4>4 DEF Flights
      <4> QED BY <3>4, <4>2, <4>3, <4>4 DEF Query
    <3> QED BY <1>10, <3>1, <3>3, <3>4 DEF FlightStep
  <2>3. IsFiniteSet(cache') /\ (applied = cfg => Cardinality(cache') <= cfg.size)
    <3>1. CASE UNCHANGED cache BY <1>4, <3>1
    <3>2. ASSUME NEW kept \in Evictions(f.size), Storable(f),
                 cache' = {e \in kept : ~(e.gen = f.gen /\ e.host = f.host)} \cup {Entry(f.gen, f.host, f.disc)}
          PROVE  IsFiniteSet(cache') /\ (applied = cfg => Cardinality(cache') <= cfg.size)
      <4> DEFINE left == {e \in kept : ~(e.gen = f.gen /\ e.host = f.host)}
      <4>1. left \in SUBSET kept /\ left \in SUBSET cache BY DEF Evictions
      <4>2. cache' = left \cup {Entry(f.gen, f.host, f.disc)} BY <3>2
      <4> HIDE DEF left
      <4>3. IsFiniteSet(cache') BY <1>4, <4>1, <4>2, FS_Subset, FS_AddElement
      <4>4. ASSUME applied = cfg PROVE f.size = cfg.size /\ f.size \in Nat /\ f.size > 0
        BY <1>2, <3>2, <4>4 DEF Sized, Storable
      <4>5. ASSUME applied = cfg PROVE Cardinality(cache') <= cfg.size
        BY <1>4, <3>2, <4>1, <4>2, <4>4, <4>5, StoreBounded
      <4> QED BY <4>3, <4>5
    <3> QED BY <1>10, <3>1, <3>2 DEF FlightStep, Query, Store, Land
  <2> QED BY <2>1, <2>2, <2>3, SizedKept
<1>11. CASE Expire
  <2>1. UNCHANGED <<applied, cfg, gen, flights, pc, snap>> BY <1>11 DEF Expire, state, looks
  <2>2. PICK e \in cache : cache' = (cache \ {e}) \cup {[e EXCEPT !.fresh = FALSE]} BY <1>11 DEF Expire
  <2> DEFINE old == [e EXCEPT !.fresh = FALSE]
  <2> HIDE DEF old
  <2>3. IsFiniteSet(cache \ {e}) /\ Cardinality(cache \ {e}) = Cardinality(cache) - 1 BY <1>4, FS_RemoveElement
  <2>4. /\ IsFiniteSet((cache \ {e}) \cup {old})
        /\ Cardinality((cache \ {e}) \cup {old}) =
              IF old \in cache \ {e} THEN Cardinality(cache \ {e}) ELSE Cardinality(cache \ {e}) + 1
    BY <2>3, FS_AddElement
  <2>5. Cardinality(cache) \in Nat BY <1>4, FS_CardinalityType
  <2>6. cache' = (cache \ {e}) \cup {old} BY <2>2 DEF old
  <2>7. IsFiniteSet(cache') /\ Cardinality(cache') \in Nat /\ Cardinality(cache') <= Cardinality(cache)
    BY <2>3, <2>4, <2>5, <2>6, FS_CardinalityType
  <2>8. applied = cfg => Cardinality(cache') <= cfg.size BY <1>2, <1>4, <2>5, <2>7
  <2> QED BY <2>1, <2>7, <2>8, SizedKept
(* Steps of a Lookup that leave the cache and the queries alone.             *)
<1>12. ASSUME NEW p \in Clients,
              \/ Call(p) \/ LookupUnavailable(p) \/ LookupHit(p) \/ Receive(p)
              \/ LookupFailed(p) \/ Recheck(p) \/ Return(p)
       PROVE  Sized'
  <2>1. UNCHANGED <<applied, cfg, gen, cache, flights>>
    BY <1>12 DEF Call, LookupUnavailable, LookupHit, Receive, LookupFailed, Recheck, Return, state
  <2>2. \A q \in Clients : pc'[q] = "join" => pc[q] = "join" /\ snap'[q] = snap[q]
    BY <1>1, <1>12, ActorFacts DEF Call, LookupUnavailable, LookupHit, Receive, LookupFailed, Recheck, Return, Finish,
       Base, TypeOK, ActorsOK, LooksOK
  <2> QED BY <1>4, <2>1, <2>2, SizedKept
<1>13. ASSUME \/ \E a \in Actors : RefreshBegin(a) \/ Discover(a) \/ ContextEnds(a)
              \/ TickDue \/ RunExit \/ Pass \/ NetChange \/ UNCHANGED vars
       PROVE  Sized'
  <2>1. UNCHANGED <<applied, cfg, gen, cache, flights, snap>>
    BY <1>13 DEF RefreshBegin, Discover, ContextEnds, TickDue, RunExit, Pass, NetChange, vars, state, looks
  <2>2. \A q \in Clients : pc'[q] = "join" => pc[q] = "join"
    BY <1>1, <1>13, ActorFacts DEF RefreshBegin, Discover, ContextEnds, TickDue, RunExit, Pass, NetChange, vars,
       AfterRefresh, Base, TypeOK, ActorsOK
  <2> QED BY <1>4, <2>1, <2>2, SizedKept
<1> QED BY <1>5, <1>6, <1>7, <1>8, <1>9, <1>10, <1>11, <1>12, <1>13 DEF Next, RefreshStep, LookupStep

(* Outside a reload the cache never outgrows cache_size, for any number of   *)
(* lookups and any sequence of reloads that shrink it (resolver.go:189-196): *)
(* a query that started under a larger size finds its generation gone.       *)
THEOREM CacheAlwaysBounded == Spec => []CacheBounded
<1>1. Init => Sized
  <2>1. IsFiniteSet({}) BY FS_EmptySet
  <2> QED BY <2>1, ConfigsAssumption DEF Init, Made, Launched, Sized
<1>2. IInv /\ Sized /\ [Next]_vars => Sized' BY NextSized
<1>3. Sized => CacheBounded BY DEF Sized, CacheBounded
<1> QED BY <1>1, <1>2, <1>3, InitIInv, NextIInv, PTL DEF Spec

-----------------------------------------------------------------------------
(* resolve, which Query(f) takes for one step: the proofs about module Cname *)

(* Names and numbers, and the aliases that lead to what is asked for.        *)
Record == [owner : Names, kind : {"A", "CNAME", "other"}, target : Names \cup {NoName}, ttl : 0..MaxTtl]

ChainInv ==
    /\ zone \in Zones
    /\ seen \subseteq Names
    /\ answer \subseteq Record /\ used \subseteq Record
    /\ name \in LedTo /\ owner \in LedTo
    /\ ttl \in Nat /\ \A r \in used : ttl <= r.ttl

(* A set of natural numbers has a least element.                             *)
LEMMA LeastNat ==
    ASSUME NEW T, T \subseteq Nat, T # {}
    PROVE  \E n \in T : \A m \in T : n <= m
<1>1. PICK n \in T : \A m \in T : ~(<<m, n>> \in OpToRel(<, Nat))
  BY NatLessThanWellFounded, WFMin, Zenon
<1>2. \A m \in T : ~(m < n) BY <1>1 DEF OpToRel
<1> QED BY <1>2

(* What Min takes from a set of numbers.                                     *)
LEMMA MinIs ==
    ASSUME NEW T, T \subseteq Nat, T # {}
    PROVE  Min(T) \in T /\ \A m \in T : Min(T) <= m
BY LeastNat DEF Min

LEMMA NoZoneIs == NoZone \in Zones
BY LimitAssumption DEF NoZone, Zones

LEMMA RecordsAre ==
    ASSUME NEW z \in Zones, NEW n
    PROVE  RecordsAt(z, n) \subseteq Record
BY DEF Zones, RecordsAt, Record

(* Every answer is a set of records, an honest one or not.                   *)
LEMMA AnswersAre ==
    ASSUME zone \in Zones, NEW a \in Responses
    PROVE  a \subseteq Record
<1>1. CASE world = "lying"
  <2>1. Pool \subseteq Record BY LimitAssumption DEF Pool, Record
  <2>2. a \in AnyAnswers BY <1>1 DEF Responses
  <2> QED BY <2>1, <2>2 DEF AnyAnswers
<1>2. CASE world # "lying"
  <2>1. a \in HonestAnswers(name) BY <1>2 DEF Responses
  <2>2. \A m \in Names : Other(m) \in Record
    BY LimitAssumption DEF Other, Record
  <2> QED BY <2>1, <2>2, RecordsAre DEF HonestAnswers
<1> QED BY <1>1, <1>2

(* The host is led to, and so is what an alias of such a name names.         *)
LEMMA LedFrom ==
    /\ Host \in LedTo /\ LedTo \subseteq Names
    /\ \A r \in used : r.kind = "CNAME" /\ r.owner \in LedTo /\ r.target \in Names => r.target \in LedTo
BY NamesAssumption DEF LedTo, Closed

LEMMA LedGrows ==
    ASSUME used \subseteq used'
    PROVE  LedTo \subseteq LedTo'
BY DEF LedTo, Closed

LEMMA QueryChain ==
    ASSUME ChainInv, Exchange
    PROVE  ChainInv'
<1>1. UNCHANGED <<world, zone, name, hop, ttl, used>> BY DEF Exchange
<1>2. LedTo' = LedTo BY <1>1 DEF LedTo, Closed
<1>3. owner' \in {owner, name} BY DEF Exchange
<1>4. seen' \subseteq Names BY LedFrom DEF ChainInv, Exchange, NextSeen
<1>5. answer' \subseteq Record BY AnswersAre DEF ChainInv, Exchange
<1> QED BY <1>1, <1>2, <1>3, <1>4, <1>5 DEF ChainInv

LEMMA ScanChain ==
    ASSUME ChainInv, Scan
    PROVE  ChainInv'
<1>1. UNCHANGED <<world, zone>> /\ used' = used \cup { r \in answer : r.owner = owner /\ r.kind # "other" }
      /\ ttl' = Lower(ttl)
  BY DEF Scan
<1>2. LedTo \subseteq LedTo' BY <1>1, LedGrows
<1>3. used' \subseteq Record BY <1>1 DEF ChainInv
<1>4. ttl' \in Nat /\ \A r \in used' : ttl' <= r.ttl
  <2> DEFINE T == {ttl} \cup { r.ttl : r \in { r \in Owned : r.kind # "other" } }
  <2>1. T \subseteq Nat /\ T # {}
    BY LimitAssumption DEF ChainInv, Record, Owned
  <2>2. ttl' = Min(T) BY <1>1 DEF Lower
  <2> HIDE DEF T
  <2>3. ttl' \in T /\ \A m \in T : ttl' <= m BY <2>1, <2>2, MinIs
  <2>4. ttl \in T /\ \A r \in answer : r.owner = owner /\ r.kind # "other" => r.ttl \in T BY DEF T, Owned
  <2>5. ttl' \in Nat /\ ttl' <= ttl BY <2>1, <2>3, <2>4
  <2>6. \A r \in used : ttl <= r.ttl /\ r.ttl \in Nat /\ ttl \in Nat BY LimitAssumption DEF ChainInv, Record
  <2>7. \A r \in used : ttl' <= r.ttl BY <2>5, <2>6
  <2>8. \A r \in used' \ used : ttl' <= r.ttl BY <1>1, <2>3, <2>4
  <2> QED BY <2>5, <2>7, <2>8
<1>5. answer' \subseteq answer
  BY DEF Scan, Returns, Ask
<1>6. \A n \in Names : Aliases = {n} => n \in LedTo'
  <2> SUFFICES ASSUME NEW n \in Names, Aliases = {n} PROVE n \in LedTo' OBVIOUS
  <2>1. PICK r \in answer : r.owner = owner /\ r.kind = "CNAME" /\ r.target = n BY DEF Aliases, Owned
  <2>2. r \in used' BY <1>1, <2>1
  <2>3. owner \in LedTo' BY <1>2 DEF ChainInv
  <2> QED BY <2>1, <2>2, <2>3 DEF LedTo, Closed
<1>7. name' \in LedTo' /\ owner' \in LedTo'
  <2>1. {name, owner} \subseteq LedTo' BY <1>2 DEF ChainInv
  <2> QED BY <1>6, <2>1 DEF Scan, Returns, Ask
<1>8. seen' \subseteq Names BY DEF ChainInv, Scan, Returns, Ask, Followed
<1> QED BY <1>1, <1>3, <1>4, <1>5, <1>7, <1>8 DEF ChainInv

LEMMA NextChain ==
    ASSUME ChainInv, [ResolveNext]_rvars
    PROVE  ChainInv'
<1>1. CASE Exchange BY <1>1, QueryChain
<1>2. CASE Scan BY <1>2, ScanChain
<1>3. CASE UNCHANGED rvars
  <2>1. UNCHANGED <<zone, seen, answer, used, name, owner, ttl>> BY <1>3 DEF rvars
  <2>2. LedTo' = LedTo BY <2>1 DEF LedTo, Closed
  <2> QED BY <2>1, <2>2 DEF ChainInv
<1> QED BY <1>1, <1>2, <1>3 DEF ResolveNext, Done

LEMMA ChainAlways ==
    ResolveSpec => []ChainInv
<1>1. ResolveInit => ChainInv
  <2> SUFFICES ASSUME ResolveInit PROVE ChainInv OBVIOUS
  <2>1. zone \in Zones BY NoZoneIs DEF ResolveInit
  <2>2. ttl \in Nat BY LimitAssumption DEF ResolveInit
  <2> QED BY <2>1, <2>2, LedFrom DEF ResolveInit, ChainInv
<1> QED BY <1>1, NextChain, PTL DEF ResolveSpec

(* The TTL that decides how long an address stays in the cache is no longer  *)
(* than that of any record resolve followed to it, whatever the answers      *)
(* (resolver.go:216, 264, 272).                                              *)
THEOREM TtlAlwaysBounded ==
    ResolveSpec => []TtlBounded
<1>1. ChainInv => TtlBounded BY DEF ChainInv, TtlBounded
<1> QED BY <1>1, ChainAlways, PTL

(* Whatever a server sends, the addresses resolve returns are those of a     *)
(* name that the aliases it followed lead to (resolver.go:252-260).          *)
THEOREM AlwaysLinked ==
    ResolveSpec => []Linked
<1>1. ChainInv => Linked BY DEF ChainInv, Linked, Addresses, Owned
<1> QED BY <1>1, ChainAlways, PTL

-----------------------------------------------------------------------------
(* The chain of a zone *)

Chains == 0..Cardinality(Names)
Links == Names \cup {NoName}
After(z, n) == IF n = NoName THEN NoName ELSE z.alias[n]
Follows(c, z, n) == \A k \in DOMAIN c : c[k] = IF k = 0 THEN n ELSE After(z, c[k - 1])

LEMMA NamesCount ==
    Cardinality(Names) \in Nat /\ IsFiniteSet(Names) /\ 0 \in Chains /\ Chains \subseteq Nat
    /\ Host \in Names /\ NoName \notin Names /\ Limit \in Nat
<1>1. Cardinality(Names) \in Nat BY NamesAssumption, FS_CardinalityType
<1> QED BY <1>1, NamesAssumption, LimitAssumption DEF Chains

LEMMA AfterIs == ASSUME NEW z \in Zones, NEW n \in Links PROVE After(z, n) \in Links
BY DEF Zones, Links, After

(* The recursive function in ChainOf exists.                                 *)
LEMMA ChainExists ==
    ASSUME NEW z \in Zones, NEW n \in Links
    PROVE  \A k \in Chains : \E c \in [0..k -> Links] : Follows(c, z, n)
<1> DEFINE Bad == { k \in Chains : ~ \E c \in [0..k -> Links] : Follows(c, z, n) }
<1> SUFFICES ASSUME Bad # {} PROVE FALSE OBVIOUS
<1>1. Bad \subseteq Nat BY NamesCount
<1>2. PICK k \in Bad : \A m \in Bad : k <= m BY <1>1, LeastNat
<1>3. k \in Chains /\ ~ \E c \in [0..k -> Links] : Follows(c, z, n) OBVIOUS
<1>4. CASE k = 0
  <2> DEFINE c == [i \in 0..k |-> n]
  <2>1. c \in [0..k -> Links] /\ Follows(c, z, n) BY <1>4 DEF Follows
  <2> QED BY <1>3, <2>1
<1>5. CASE k # 0
  <2>1. k - 1 \in Chains /\ k - 1 \notin Bad BY <1>1, <1>2, <1>3, <1>5, NamesCount DEF Chains
  <2>2. PICK b \in [0..(k - 1) -> Links] : Follows(b, z, n) BY <2>1
  <2> HIDE DEF Bad
  <2>3. k \in Nat \ {0} BY <1>3, <1>5, NamesCount
  <2> DEFINE new == After(z, b[k - 1])
             c == [i \in 0..k |-> IF i = k THEN new ELSE b[i]]
  <2>4. new \in Links BY <2>2, <2>3, AfterIs
  <2>5. new = After(z, b[k - 1]) OBVIOUS
  <2> HIDE DEF new
  <2>6. c \in [0..k -> Links] BY <2>2, <2>3, <2>4
  <2>7. c[k] = new /\ \A i \in 0..(k - 1) : c[i] = b[i] BY <2>3
  <2>8. \A i \in 0..(k - 1) : b[i] = IF i = 0 THEN n ELSE After(z, b[i - 1]) BY <2>2 DEF Follows
  <2>9. \A i \in 0..k : i = k \/ (i \in 0..(k - 1) /\ (i = 0 \/ i - 1 \in 0..(k - 1))) BY <2>3
  <2>10. k - 1 \in 0..(k - 1) /\ DOMAIN c = 0..k BY <2>3
  <2> HIDE DEF c
  <2>11. Follows(c, z, n) BY <2>3, <2>5, <2>7, <2>8, <2>9, <2>10 DEF Follows
  <2> QED BY <1>3, <2>6, <2>11
<1> QED BY <1>4, <1>5

LEMMA ChainIs ==
    ASSUME NEW z \in Zones, NEW n \in Links
    PROVE  /\ ChainOf(z, n) \in [Chains -> Links]
           /\ Follows(ChainOf(z, n), z, n)
<1> DEFINE Whole(c) == c = [k \in Chains |-> IF k = 0 THEN n
                                             ELSE IF c[k-1] = NoName THEN NoName ELSE z.alias[c[k-1]]]
<1>1. \E c : Whole(c)
  <2>1. Cardinality(Names) \in Chains /\ Chains = 0..Cardinality(Names) BY NamesCount DEF Chains
  <2>2. PICK c \in [Chains -> Links] : Follows(c, z, n) BY <2>1, ChainExists
  <2>3. Whole(c) BY <2>2 DEF Follows, After
  <2> QED BY <2>3
<1>2. ChainOf(z, n) = CHOOSE c : Whole(c)
  BY DEF ChainOf, Chains
<1>3. PICK c : c = ChainOf(z, n) OBVIOUS
<1>4. Whole(c) BY <1>1, <1>2, <1>3
<1>5. DOMAIN c = Chains /\ Follows(c, z, n) BY <1>4 DEF Follows, After
<1>6. \A k \in Chains : c[k] \in Links
  <2> DEFINE Bad == { k \in Chains : c[k] \notin Links }
  <2> SUFFICES ASSUME Bad # {} PROVE FALSE OBVIOUS
  <2>1. Bad \subseteq Nat BY NamesCount
  <2>2. PICK k \in Bad : \A m \in Bad : k <= m BY <2>1, LeastNat
  <2>3. k \in Chains /\ c[k] \notin Links OBVIOUS
  <2>4. k # 0 BY <1>5, <2>3 DEF Follows
  <2>5. k - 1 \in Chains /\ k - 1 \notin Bad BY <2>1, <2>2, <2>3, <2>4, NamesCount DEF Chains
  <2>6. c[k] = After(z, c[k - 1]) /\ c[k - 1] \in Links BY <1>5, <2>3, <2>4, <2>5 DEF Follows
  <2> QED BY <2>3, <2>6, AfterIs
<1>7. c = [k \in Chains |-> c[k]] BY <1>4
<1> QED BY <1>3, <1>5, <1>6, <1>7

(* A name has one record or none, and its owner is that name.                *)
LEMMA OneRecord ==
    ASSUME NEW z \in Zones, NEW n
    PROVE  /\ \A r, s \in RecordsAt(z, n) : r = s /\ r.owner = n
           /\ n \notin Names => RecordsAt(z, n) = {}
BY DEF Zones, RecordsAt

(* An honest answer has the record of the name asked for, and no record that *)
(* is not the zone's.                                                        *)
LEMMA HonestAre ==
    ASSUME world = "honest", zone \in Zones, name \in Names,
           NEW a \in Responses
    PROVE  /\ \A r \in a : r \in RecordsAt(zone, r.owner)
           /\ RecordsAt(zone, name) \subseteq a
<1> DEFINE c == ChainOf(zone, name)
           rest == UNION { RecordsAt(zone, m) : m \in zone.addr \ { c[i] : i \in DOMAIN c } }
<1>1. a \in HonestAnswers(name) BY DEF Responses
<1>2. PICK k \in DOMAIN c, extra \in {{}, rest} :
        a = (UNION { RecordsAt(zone, c[i]) : i \in 0..k }) \cup extra
  <2>1. \E k \in DOMAIN c, extra \in {{}, rest}, other \in {{}} :
          a = (UNION { RecordsAt(zone, c[i]) : i \in 0..k }) \cup extra \cup other
    BY <1>1 DEF HonestAnswers
  <2> HIDE DEF c, rest
  <2> QED BY <2>1
<1>3. c \in [Chains -> Links] /\ Follows(c, zone, name)
  <2>1. name \in Links BY DEF Links
  <2> QED BY <2>1, ChainIs
<1>4. c[0] = name /\ 0 \in 0..k
  <2> HIDE DEF c, rest
  <2>1. DOMAIN c = Chains BY <1>3
  <2>2. k \in Nat BY <1>2, <2>1, NamesCount
  <2> QED BY <1>3, <2>1, <2>2, NamesCount DEF Follows
<1>5. \A r \in a : \E n : r \in RecordsAt(zone, n) BY <1>2
<1> HIDE DEF c
<1> QED BY <1>2, <1>4, <1>5, OneRecord

(* The names walked: those the query has seen are the first k of the chain   *)
(* that the zone has for the host, all different.                            *)
Chain == ChainOf(zone, Host)
First(k) == { Chain[i] : i \in 0..(k - 1) }

Asking(k) ==
    /\ k <= Limit /\ hop \in 0..k
    /\ name = Chain[k] /\ name \in Names /\ name \notin seen
    /\ seen = First(k) /\ Cardinality(seen) = k

Scanning(k) ==
    /\ k <= Limit /\ hop \in 0..k
    /\ owner = Chain[k] /\ owner \in Names
    /\ seen = First(k + 1) /\ Cardinality(seen) = k + 1
    /\ Owned = RecordsAt(zone, owner)
    /\ owner # name => Owned # {}

ExactInv ==
    /\ world \in Worlds
    /\ world = "honest" =>
         /\ name \in Names
         /\ \A r \in answer : r \in RecordsAt(zone, r.owner)
         /\ stage = "query" => out = "none" /\ \E k \in Chains : Asking(k)
         /\ stage = "scan" => out = "none" /\ \E k \in Chains : Scanning(k)
         /\ Exact

LEMMA ChainSteps ==
    ASSUME zone \in Zones
    PROVE  /\ Chain \in [Chains -> Links] /\ Chain[0] = Host
           /\ \A k \in Chains : k # 0 => k - 1 \in Chains /\ Chain[k] = After(zone, Chain[k - 1])
<1>1. Chain \in [Chains -> Links] /\ Follows(Chain, zone, Host) BY ChainIs, NamesCount DEF Chain, Links
<1> QED BY <1>1, NamesCount DEF Follows, Chains

LEMMA ChainStep ==
    ASSUME zone \in Zones, NEW k \in Chains, k + 1 \in Chains, Chain[k] \in Names
    PROVE  Chain[k + 1] = zone.alias[Chain[k]]
<1>1. Chain[k + 1] = After(zone, Chain[k])
  <2>1. PICK j \in Chains : j = k + 1 OBVIOUS
  <2>2. j # 0 /\ j - 1 = k BY <2>1, NamesCount
  <2> QED BY <2>1, <2>2, ChainSteps
<1> QED BY <1>1, NamesCount DEF After

LEMMA FirstNext ==
    ASSUME NEW k \in Nat
    PROVE  First(k + 1) = First(k) \cup {Chain[k]}
<1>1. 0..((k + 1) - 1) = (0..(k - 1)) \cup {k} OBVIOUS
<1> QED BY <1>1 DEF First

(* Where the chain ends within the limit, that is Target.                    *)
LEMMA TargetIs ==
    ASSUME zone \in Zones, NEW k \in Chains, k <= Limit, Chain[k] \in Names,
           zone.alias[Chain[k]] = NoName, First(k) \subseteq Names
    PROVE  Target = Chain[k]
<1> DEFINE stops == { j \in DOMAIN Chain : j <= Limit /\ Chain[j] # NoName /\ zone.alias[Chain[j]] = NoName }
<1>1. DOMAIN Chain = Chains BY ChainSteps
<1>2. k \in stops /\ stops \subseteq Nat BY <1>1, NamesCount
<1>3. Target = Chain[Min(stops)] BY <1>2 DEF Target, Chain
<1>4. PICK m : m = Min(stops) OBVIOUS
<1>5. m \in stops /\ m <= k BY <1>2, <1>4, MinIs
<1>6. CASE m = k BY <1>3, <1>4, <1>6
<1>7. CASE m # k
  <2>1. m \in Chains /\ m \in Nat /\ k \in Nat /\ m < k /\ zone.alias[Chain[m]] = NoName BY <1>1, <1>2, <1>5, <1>7
  <2>2. m + 1 \in Chains BY <2>1, NamesCount DEF Chains
  <2>3. Chain[m] \in Names BY <2>1 DEF First
  <2>4. Chain[m + 1] = NoName BY <2>1, <2>2, <2>3, ChainStep
  <2>5. CASE m + 1 = k BY <2>4, <2>5, NamesCount
  <2>6. CASE m + 1 # k
    <3>1. m + 1 \in 0..(k - 1) BY <2>1, <2>6
    <3> QED BY <2>4, <3>1, NamesCount DEF First
  <2> QED BY <2>5, <2>6
<1> QED BY <1>6, <1>7

(* Where every name of the chain within the limit has an alias, there is no  *)
(* Target.                                                                   *)
LEMMA TargetNone ==
    ASSUME zone \in Zones,
           \A j \in Chains : j <= Limit /\ Chain[j] # NoName => zone.alias[Chain[j]] # NoName
    PROVE  Target = NoName
<1>1. DOMAIN Chain = Chains BY ChainSteps
<1>2. { j \in DOMAIN Chain : j <= Limit /\ Chain[j] # NoName /\ zone.alias[Chain[j]] = NoName } = {} BY <1>1
<1> QED BY <1>2 DEF Target, Chain

(* A chain that comes back to a name, or is longer than the limit, has none. *)
LEMMA CycleIs ==
    ASSUME ChainInv, NEW k \in Chains, Scanning(k),
           zone.alias[owner] \in Names, zone.alias[owner] \in seen \/ Cardinality(seen) > Limit
    PROVE  Target = NoName
<1>0. zone \in Zones /\ seen \subseteq Names /\ k \in Nat /\ Limit \in Nat /\ NoName \notin Names
  BY NamesCount DEF ChainInv
<1>1. \A j \in 0..k : Chain[j] \in seen /\ Chain[j] \in Names
  BY <1>0 DEF Scanning, First
<1>2. \A j \in 0..k : j # k => j \in Chains /\ j + 1 \in Chains /\ j + 1 \in 0..k BY <1>0, NamesCount DEF Chains
<1>3. \A j \in 0..k : j # k => zone.alias[Chain[j]] = Chain[j + 1] BY <1>0, <1>1, <1>2, ChainStep
<1>4. \A j \in 0..k : zone.alias[Chain[j]] \in Names BY <1>1, <1>2, <1>3 DEF Scanning
<1>5. CASE Cardinality(seen) > Limit
  <2>1. \A j \in Chains : j <= Limit => j \in 0..k BY <1>0, <1>5, NamesCount DEF Scanning
  <2> QED BY <1>0, <1>4, <2>1, TargetNone
<1>6. CASE zone.alias[owner] \in seen
  <2>1. \A x \in seen : \E j \in 0..k : x = Chain[j] BY <1>0 DEF Scanning, First
  <2>2. \A x \in seen : zone.alias[x] \in seen BY <1>1, <1>2, <1>3, <1>6, <2>1 DEF Scanning
  <2> DEFINE Bad == { j \in Chains : Chain[j] \notin seen }
  <2>3. Bad = {}
    <3> SUFFICES ASSUME Bad # {} PROVE FALSE OBVIOUS
    <3>1. Bad \subseteq Nat BY NamesCount
    <3>2. PICK j \in Bad : \A m \in Bad : j <= m BY <3>1, LeastNat
    <3>3. j \in Chains /\ Chain[j] \notin seen /\ j # 0 BY <1>0, <1>1
    <3>4. j - 1 \in Chains /\ j - 1 \notin Bad BY <3>1, <3>2, <3>3, NamesCount DEF Chains
    <3>5. Chain[j] = After(zone, Chain[j - 1]) /\ Chain[j - 1] \in seen BY <1>0, <3>3, <3>4, ChainSteps
    <3> QED BY <1>0, <2>2, <3>3, <3>5 DEF After
  <2>4. \A j \in Chains : zone.alias[Chain[j]] \in Names BY <1>0, <2>2, <2>3
  <2> QED BY <1>0, <2>4, TargetNone
<1> QED BY <1>5, <1>6

(* A query to an honest server is not refused, and gets the name's record.   *)
LEMMA QueryExact ==
    ASSUME ChainInv, ExactInv, Exchange, world = "honest"
    PROVE  ExactInv'
<1>1. UNCHANGED <<world, zone, name, hop, ttl, used>> /\ stage = "query" BY DEF Exchange
<1>2. PICK k \in Chains : Asking(k) BY <1>1 DEF ExactInv
<1>3. k \in Nat /\ Limit \in Nat /\ zone \in Zones /\ name \in Names BY <1>2, NamesCount DEF ChainInv, Asking
<1>4. ~Refused BY <1>2, <1>3 DEF Asking, Refused
<1>5. CASE out' = "failed" /\ stage' = "done" /\ UNCHANGED <<owner, answer>>
  <2>1. \A r \in answer' : r \in RecordsAt(zone', r.owner) BY <1>1, <1>5 DEF ExactInv
  <2>2. Exact' BY <1>5 DEF Exact
  <2> QED BY <1>1, <1>3, <1>5, <2>1, <2>2 DEF ExactInv
<1>6. CASE seen' = seen \cup {name} /\ answer' \in Responses /\ owner' = name /\ stage' = "scan" /\ out' = out
  <2>1. /\ \A r \in answer' : r \in RecordsAt(zone, r.owner)
        /\ RecordsAt(zone, name) \subseteq answer'
    BY <1>3, <1>6, HonestAre
  <2>2. Owned' = RecordsAt(zone, name)
    <3>1. Owned' = { r \in answer' : r.owner = name } BY <1>6 DEF Owned
    <3> QED BY <1>3, <2>1, <3>1, OneRecord
  <2>3. seen' = First(k + 1) BY <1>2, <1>3, <1>6, FirstNext DEF Asking
  <2>4. Cardinality(seen') = k + 1
    <3>1. IsFiniteSet(seen) BY NamesCount, FS_Subset DEF ChainInv
    <3>2. name \notin seen /\ Cardinality(seen) = k BY <1>2 DEF Asking
    <3> QED BY <1>6, <3>1, <3>2, FS_AddElement
  <2>5. Scanning(k)'
    <3>1. Chain' = Chain /\ First(k + 1)' = First(k + 1) BY <1>1 DEF Chain, First
    <3>2. (Owned = RecordsAt(zone, owner))' BY <1>1, <1>6, <2>2
    <3> QED BY <1>1, <1>2, <1>3, <1>6, <2>3, <2>4, <3>1, <3>2 DEF Asking, Scanning
  <2>6. Exact' BY <1>1, <1>6 DEF ExactInv, Exact
  <2>7. \A r \in answer' : r \in RecordsAt(zone', r.owner) BY <1>1, <2>1
  <2> QED BY <1>1, <1>3, <1>6, <2>5, <2>6, <2>7 DEF ExactInv
<1> QED BY <1>4, <1>5, <1>6 DEF Exchange, Returns, NextSeen

(* What resolve reads at a name of an honest zone.                           *)
LEMMA ReadsZone ==
    ASSUME ChainInv, NEW k \in Chains, Scanning(k)
    PROVE  /\ Aliases = {zone.alias[owner]} \ {NoName}
           /\ (Addresses # {}) <=> (owner \in zone.addr)
           /\ owner \in zone.addr => zone.alias[owner] = NoName
           /\ zone.alias[owner] \in Links
           /\ ~(Cardinality(Aliases) > 1)
<1>1. zone \in Zones /\ owner \in Names BY DEF ChainInv, Scanning
<1> DEFINE address == [owner |-> owner, kind |-> "A", target |-> NoName, ttl |-> zone.ttl[owner]]
           alias == [owner |-> owner, kind |-> "CNAME", target |-> zone.alias[owner], ttl |-> zone.ttl[owner]]
<1>2. Owned = { r \in {address} : owner \in zone.addr } \cup { r \in {alias} : zone.alias[owner] # NoName }
  <2>1. { address : x \in zone.addr \cap {owner} } = { r \in {address} : owner \in zone.addr }
    <3> HIDE DEF address
    <3> QED OBVIOUS
  <2>2. {[owner |-> owner, kind |-> "CNAME", target |-> t, ttl |-> zone.ttl[owner]] :
             t \in {zone.alias[owner]} \ {NoName}} = { r \in {alias} : zone.alias[owner] # NoName }
    <3>1. CASE zone.alias[owner] = NoName BY <3>1
    <3>2. CASE zone.alias[owner] # NoName
      <4>1. {zone.alias[owner]} \ {NoName} = {zone.alias[owner]} BY <3>2
      <4> QED BY <3>2, <4>1, Zenon
    <3> QED BY <3>1, <3>2
  <2> QED BY <1>1, <2>1, <2>2, Zenon DEF Scanning, RecordsAt
<1>3. address.kind = "A" /\ alias.kind = "CNAME" /\ alias.target = zone.alias[owner] OBVIOUS
<1> HIDE DEF address, alias
<1>4. Aliases = {zone.alias[owner]} \ {NoName}
  <2>1. { r \in Owned : r.kind = "CNAME" } = { r \in {alias} : zone.alias[owner] # NoName } BY <1>2, <1>3
  <2> QED BY <1>3, <2>1 DEF Aliases
<1>5. (Addresses # {}) <=> (owner \in zone.addr) BY <1>2, <1>3 DEF Addresses
<1>6. (owner \in zone.addr => zone.alias[owner] = NoName) /\ zone.alias[owner] \in Links BY <1>1 DEF Zones, Links
<1>7. Cardinality(Aliases) <= 1
  <2>1. Aliases \subseteq {zone.alias[owner]} BY <1>4
  <2>2. IsFiniteSet({zone.alias[owner]}) /\ Cardinality({zone.alias[owner]}) = 1 BY FS_Singleton
  <2> QED BY <2>1, <2>2, FS_Subset, FS_CardinalityType
<1>8. Cardinality(Aliases) \in Nat
  <2>1. Aliases \subseteq {zone.alias[owner]} /\ IsFiniteSet({zone.alias[owner]}) BY <1>4, FS_Singleton
  <2>2. IsFiniteSet(Aliases) BY <2>1, FS_Subset
  <2> QED BY <2>2, FS_CardinalityType
<1> QED BY <1>4, <1>5, <1>6, <1>7, <1>8

(* Where the scan goes on, to the next name of the chain.                    *)
LEMMA ScanAdvances ==
    ASSUME ChainInv, NEW k \in Chains, Scanning(k),
           NEW n \in Names, zone.alias[owner] = n, n \notin seen, ~Limited
    PROVE  /\ k + 1 \in Chains /\ k + 1 <= Limit /\ k \in Nat
           /\ n = Chain[k + 1] /\ First(k + 2) = seen \cup {n}
           /\ Cardinality(seen \cup {n}) = k + 2
<1>1. k \in Nat /\ Limit \in Nat /\ zone \in Zones /\ seen \subseteq Names /\ Cardinality(seen) = k + 1
  BY NamesCount DEF ChainInv, Scanning
<1>2. k + 1 <= Limit BY <1>1 DEF Limited
<1>3. IsFiniteSet(seen) /\ Cardinality(seen) <= Cardinality(Names) BY <1>1, NamesCount, FS_Subset
<1>4. k + 1 \in Chains BY <1>1, <1>3, NamesCount DEF Chains
<1>5. n = Chain[k + 1] BY <1>1, <1>4, ChainStep DEF Scanning
<1>6. First(k + 2) = seen \cup {n}
  <2>1. k + 1 \in Nat /\ (k + 1) + 1 = k + 2 BY <1>1
  <2> QED BY <1>5, <2>1, FirstNext DEF Scanning
<1>7. Cardinality(seen \cup {n}) = k + 2
  <2>1. Cardinality(seen \cup {n}) = Cardinality(seen) + 1 BY <1>3, FS_AddElement
  <2> QED BY <1>1, <2>1
<1> QED BY <1>1, <1>2, <1>4, <1>5, <1>6, <1>7

LEMMA ScanExact ==
    ASSUME ChainInv, ExactInv, Scan, world = "honest"
    PROVE  ExactInv'
<1>1. UNCHANGED <<world, zone>> /\ stage = "scan" /\ out = "none" BY DEF Scan, ExactInv
<1>2. PICK k \in Chains : Scanning(k) BY <1>1 DEF ExactInv
<1>3. /\ zone \in Zones /\ seen \subseteq Names /\ k \in Nat /\ Limit \in Nat /\ NoName \notin Names
      /\ owner = Chain[k] /\ owner \in Names /\ name \in Names
  BY <1>2, NamesCount DEF ChainInv, Scanning, ExactInv
<1>4. /\ Aliases = {zone.alias[owner]} \ {NoName}
      /\ (Addresses # {}) <=> (owner \in zone.addr)
      /\ owner \in zone.addr => zone.alias[owner] = NoName
      /\ zone.alias[owner] \in Links
      /\ ~(Cardinality(Aliases) > 1)
  BY <1>2, ReadsZone
<1>5. First(k) \subseteq Names
  <2>1. First(k) \subseteq seen BY <1>2, <1>3, FirstNext DEF Scanning
  <2> QED BY <1>3, <2>1
<1>6. Aliases = {} => zone.alias[owner] = NoName /\ Target = owner
  BY <1>2, <1>3, <1>4, <1>5, TargetIs DEF Scanning
<1>7. Target' = Target BY <1>1 DEF Target
<1>8. Chain' = Chain BY <1>1 DEF Chain
<1>9. ASSUME stage' = "done", UNCHANGED <<name, owner, answer>>, Exact' PROVE ExactInv'
  <2>1. \A r \in answer' : r \in RecordsAt(zone', r.owner) BY <1>1, <1>9 DEF ExactInv
  <2> QED BY <1>1, <1>3, <1>9, <2>1 DEF ExactInv
<1>10. CASE Addresses # {} /\ Aliases = {} /\ Returns("found") /\ UNCHANGED <<name, owner, answer>>
  <2>1. Exact' BY <1>1, <1>4, <1>6, <1>7, <1>10 DEF Exact, Returns
  <2> QED BY <1>9, <1>10, <2>1 DEF Returns
<1>11. CASE Addresses = {} /\ Aliases = {} /\ Returns("nodata") /\ UNCHANGED <<name, owner, answer>>
  <2>1. Exact' BY <1>1, <1>3, <1>4, <1>6, <1>7, <1>11 DEF Exact, Returns
  <2> QED BY <1>9, <1>11, <2>1 DEF Returns
<1>12. ASSUME Addresses = {}, Aliases = {}, owner # name PROVE FALSE
  <2>1. Owned # {} BY <1>2, <1>12 DEF Scanning
  <2>2. owner \notin zone.addr /\ zone.alias[owner] = NoName BY <1>4, <1>6, <1>12
  <2> QED BY <1>2, <2>1, <2>2 DEF Scanning, RecordsAt
<1>13. ASSUME NEW n \in Names, Aliases = {n} PROVE zone.alias[owner] = n BY <1>4, <1>13
<1>14. ASSUME NEW n \in Names, Aliases = {n}, n \in seen \/ Limited,
              Returns("cycle"), UNCHANGED <<name, owner, answer>>
       PROVE  ExactInv'
  <2>1. Target = NoName
    <3>1. Limited => Cardinality(seen) > Limit BY DEF Limited
    <3> QED BY <1>2, <1>13, <1>14, <3>1, CycleIs
  <2>2. Exact' BY <1>7, <1>14, <2>1 DEF Exact, Returns
  <2> QED BY <1>9, <1>14, <2>2 DEF Returns
<1>15. ASSUME NEW n \in Names, Aliases = {n}, n \notin seen, ~Limited, Ask(n)
       PROVE  ExactInv'
  <2>1. /\ k + 1 \in Chains /\ k + 1 <= Limit /\ n = Chain[k + 1] BY <1>2, <1>13, <1>15, ScanAdvances
  <2>2. name' = n /\ hop' = hop + 1 /\ stage' = "query" /\ answer' = {} /\ UNCHANGED <<owner, seen, out>>
    BY <1>15 DEF Ask
  <2>3. First(k + 1)' = First(k + 1) BY <1>8 DEF First
  <2>4. Asking(k + 1)' BY <1>2, <1>3, <1>8, <1>15, <2>1, <2>2, <2>3 DEF Asking, Scanning
  <2>5. Exact' BY <1>1, <2>2 DEF Exact
  <2>6. \E j \in Chains : Asking(j)' BY <2>1, <2>4
  <2> QED BY <1>1, <1>3, <1>15, <2>2, <2>5, <2>6 DEF ExactInv
<1>16. ASSUME NEW n \in Names, Aliases = {n}, n \notin seen, ~Limited,
              \E r \in answer : r.owner = n, seen' = seen \cup {n}, owner' = n,
              UNCHANGED <<name, hop, stage, out, answer>>
       PROVE  ExactInv'
  <2>1. /\ k + 1 \in Chains /\ k + 1 <= Limit /\ n = Chain[k + 1]
        /\ First(k + 2) = seen \cup {n} /\ Cardinality(seen \cup {n}) = k + 2
    BY <1>2, <1>13, <1>16, ScanAdvances
  <2>2. PICK j \in Chains : j = k + 1 BY <2>1
  <2>3. j + 1 = k + 2 BY <1>3, <2>2
  <2>4. seen' = First(j + 1)' /\ Cardinality(seen') = j + 1 BY <1>8, <1>16, <2>1, <2>3 DEF First
  <2>5. Owned' = RecordsAt(zone', owner') /\ Owned' # {}
    <3>1. Owned' = { r \in answer : r.owner = n } BY <1>16 DEF Owned
    <3>2. \A r \in answer : r \in RecordsAt(zone, r.owner) BY DEF ExactInv
    <3>3. PICK r \in answer : r.owner = n BY <1>16
    <3> QED BY <1>1, <1>3, <1>16, <3>1, <3>2, <3>3, OneRecord
  <2>6. Scanning(j)' BY <1>2, <1>3, <1>8, <1>16, <2>1, <2>2, <2>4, <2>5 DEF Scanning
  <2>7. Exact' BY <1>1, <1>16 DEF Exact
  <2>8. \A r \in answer' : r \in RecordsAt(zone', r.owner) BY <1>1, <1>16 DEF ExactInv
  <2>9. \E i \in Chains : Scanning(i)' BY <2>6
  <2> QED BY <1>1, <1>3, <1>16, <2>7, <2>8, <2>9 DEF ExactInv
<1>17. ~(Aliases # {} /\ Addresses # {}) BY <1>4
<1> QED BY <1>4, <1>10, <1>11, <1>12, <1>14, <1>15, <1>16, <1>17 DEF Scan, Followed

(* For every zone, and whatever part of its chain an honest server puts into *)
(* each answer, resolve returns what the zone says: the address at the end   *)
(* of at most Limit aliases, no address, or a chain too long or cyclic       *)
(* (resolver.go:252-300). Without the records of other types that can make   *)
(* resolve ask for a name again (resolver.go:279).                           *)
THEOREM AlwaysExact ==
    ASSUME "others" \notin Worlds
    PROVE  ResolveSpec => []Exact
<1>1. ResolveInit => ExactInv
  <2> SUFFICES ASSUME ResolveInit PROVE ExactInv OBVIOUS
  <2>1. zone \in Zones BY NoZoneIs DEF ResolveInit
  <2>2. Asking(0)
    <3>1. First(0) = {} BY DEF First
    <3>2. Chain[0] = Host BY <2>1, ChainSteps
    <3> QED BY <3>1, <3>2, NamesCount, FS_EmptySet DEF ResolveInit, Asking
  <2> QED BY <2>2, NamesCount DEF ResolveInit, ExactInv, Exact
<1>2. ChainInv /\ ExactInv /\ [ResolveNext]_rvars => ExactInv'
  <2> SUFFICES ASSUME ChainInv, ExactInv, [ResolveNext]_rvars PROVE ExactInv' OBVIOUS
  <2>1. CASE UNCHANGED rvars
    <3>1. UNCHANGED <<world, zone, name, owner, seen, hop, answer, stage, out>> BY <2>1 DEF rvars
    <3>2. Exact' = Exact BY <3>1 DEF Exact, Target
    <3> QED BY <3>1, <3>2 DEF ExactInv, Asking, Scanning, First, Chain, Owned
  <2>2. CASE world # "honest"
    <3>1. world' = world BY <2>1 DEF ResolveNext, Exchange, Scan, Done, rvars
    <3> QED BY <2>2, <3>1 DEF ExactInv
  <2> QED BY <2>1, <2>2, QueryExact, ScanExact DEF ResolveNext, Done
<1>3. ExactInv => Exact
  BY WorldsAssumption DEF ExactInv, Exact
<1> QED BY <1>1, <1>2, <1>3, ChainAlways, PTL DEF ResolveSpec

-----------------------------------------------------------------------------
(* The limits of resolve *)

(* Every exchange has added a name to seen, and so has every alias followed  *)
(* inside an answer; seen exceeds the limit by one at the most, and then the *)
(* next name to be asked for is in it.                                       *)
Hops ==
    /\ hop \in Nat /\ hop <= Limit
    /\ stage = "query" => hop <= Cardinality(seen) /\ (name \in seen \/ Cardinality(seen) <= Limit)
    /\ stage = "scan" =>
         /\ name \in seen /\ owner \in seen
         /\ hop + 1 <= Cardinality(seen) /\ Cardinality(seen) <= Limit + 1
         /\ owner # name => hop + 2 <= Cardinality(seen)

TypeInv == ChainInv /\ Hops /\ ResolveTypeOK

LEMMA SeenCount ==
    ASSUME seen \subseteq Names
    PROVE  /\ IsFiniteSet(seen) /\ Cardinality(seen) \in Nat
           /\ \A n : n \notin seen => Cardinality(seen \cup {n}) = Cardinality(seen) + 1
<1>1. IsFiniteSet(seen) BY NamesAssumption, FS_Subset
<1> QED BY <1>1, FS_CardinalityType, FS_AddElement

LEMMA ExchangeTyped ==
    ASSUME TypeInv, Exchange
    PROVE  Hops' /\ ResolveTypeOK'
<1>1. UNCHANGED <<world, zone, name, hop, ttl, used>> /\ stage = "query" BY DEF Exchange
<1>2. /\ hop \in Nat /\ Limit \in Nat /\ hop <= Limit /\ hop <= Cardinality(seen) /\ Cardinality(seen) \in Nat
      /\ name \in seen \/ Cardinality(seen) <= Limit
  BY <1>1, SeenCount, LimitAssumption DEF TypeInv, ChainInv, Hops
<1>3. ASSUME stage' = "scan", seen' = seen \cup {name}, owner' = name, name \notin seen PROVE Hops'
  <2>1. Cardinality(seen') = Cardinality(seen) + 1 BY <1>3, SeenCount DEF TypeInv, ChainInv
  <2>2. hop + 1 <= Cardinality(seen') /\ Cardinality(seen') <= Limit + 1 BY <1>2, <1>3, <2>1
  <2> QED BY <1>1, <1>2, <1>3, <2>2 DEF Hops
<1>4. stage' = "done" => Hops' BY <1>1, <1>2 DEF Hops
<1>5. Hops' BY <1>3, <1>4 DEF Exchange, Returns, Refused, NextSeen
<1> QED BY <1>1, <1>5 DEF Exchange, Returns, NextSeen, TypeInv, ResolveTypeOK

LEMMA ScanTyped ==
    ASSUME TypeInv, Scan
    PROVE  Hops' /\ ResolveTypeOK'
<1>1. UNCHANGED <<world, zone>> /\ stage = "scan" /\ ttl' = Lower(ttl) BY DEF Scan
<1>2. /\ hop \in Nat /\ Limit \in Nat /\ hop <= Limit /\ Cardinality(seen) \in Nat /\ name \in seen /\ owner \in seen
      /\ hop + 1 <= Cardinality(seen) /\ Cardinality(seen) <= Limit + 1
      /\ owner # name => hop + 2 <= Cardinality(seen)
  BY <1>1, SeenCount, LimitAssumption DEF TypeInv, ChainInv, Hops
<1>3. ttl' \in 0..(MaxTtl + 1)
  <2> DEFINE T == {ttl} \cup { r.ttl : r \in { r \in Owned : r.kind # "other" } }
  <2>1. T \subseteq Nat /\ T # {} BY LimitAssumption DEF TypeInv, ChainInv, Record, Owned
  <2>2. ttl' = Min(T) /\ ttl \in T BY <1>1 DEF Lower
  <2> HIDE DEF T
  <2>3. ttl' \in Nat /\ ttl' <= ttl BY <2>1, <2>2, MinIs
  <2> QED BY <2>3, LimitAssumption DEF TypeInv, ResolveTypeOK
<1>4. stage' = "done" /\ hop' = hop => Hops' BY <1>2 DEF Hops
<1>5. ASSUME NEW n, Ask(n), (owner # name /\ n = owner) \/ (n \notin seen /\ ~Limited) PROVE Hops'
  <2>1. name' = n /\ hop' = hop + 1 /\ stage' = "query" /\ seen' = seen BY <1>5 DEF Ask
  <2>2. hop + 1 <= Limit /\ hop + 1 <= Cardinality(seen) /\ (n \in seen \/ Cardinality(seen) <= Limit)
    BY <1>2, <1>5 DEF Limited
  <2> QED BY <1>2, <2>1, <2>2 DEF Hops
<1>6. ASSUME NEW n, seen' = seen \cup {n}, owner' = n, UNCHANGED <<name, hop, stage>>, n \notin seen, ~Limited
      PROVE  Hops'
  <2>1. Cardinality(seen') = Cardinality(seen) + 1 BY <1>6, SeenCount DEF TypeInv, ChainInv
  <2>2. Cardinality(seen) <= Limit BY <1>2 , <1>6 DEF Limited
  <2>3. hop + 2 <= Cardinality(seen') /\ hop + 1 <= Cardinality(seen') /\ Cardinality(seen') <= Limit + 1
    BY <1>2, <2>1, <2>2
  <2> QED BY <1>1, <1>2, <1>6, <2>3 DEF Hops
<1>7. Hops' BY <1>4, <1>5, <1>6 DEF Scan, Returns, Followed
<1>8. hop' \in 0..Limit BY <1>2, <1>7 DEF Hops
<1>9. /\ name' \in Names /\ owner' \in Names /\ seen' \subseteq Names /\ stage' \in {"query", "scan", "done"}
      /\ out' \in {"none", "failed", "conflict", "found", "nodata", "cycle"}
  BY DEF Scan, Returns, Ask, Followed, TypeInv, ResolveTypeOK
<1> QED BY <1>1, <1>3, <1>7, <1>8, <1>9 DEF TypeInv, ResolveTypeOK

(* Types, and that resolve never reaches the error after its loop over hops: *)
(* whatever a server sends, the names seen are at their limit before the     *)
(* hops are (resolver.go:218, 284, 304).                                     *)
THEOREM ResolveTypeCorrect == ResolveSpec => []ResolveTypeOK
<1>1. ResolveInit => Hops /\ ResolveTypeOK
  <2> SUFFICES ASSUME ResolveInit PROVE Hops /\ ResolveTypeOK OBVIOUS
  <2>1. Cardinality(seen) = 0 BY FS_EmptySet DEF ResolveInit
  <2> QED BY <2>1, NamesAssumption, LimitAssumption DEF ResolveInit, Hops, ResolveTypeOK
<1>2. ChainInv /\ Hops /\ ResolveTypeOK /\ [ResolveNext]_rvars => Hops' /\ ResolveTypeOK'
  <2> SUFFICES ASSUME TypeInv, [ResolveNext]_rvars PROVE Hops' /\ ResolveTypeOK' BY DEF TypeInv
  <2>1. CASE UNCHANGED rvars BY <2>1 DEF rvars, TypeInv, Hops, ResolveTypeOK
  <2> QED BY <2>1, ExchangeTyped, ScanTyped DEF ResolveNext, Done
<1> QED BY <1>1, <1>2, ChainAlways, PTL DEF ResolveSpec
=============================================================================
