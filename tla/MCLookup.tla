------------------------------ MODULE MCLookup ------------------------------
(* The two sides of a lookup, one after the other: resolve with a zone and a *)
(* server (Cname), then the resolver around it (Resolver), which leaves open *)
(* what a query returns, and so starts afresh.                               *)
EXTENDS MCResolver, Cname

AnyConfig == CHOOSE c \in Configs : TRUE

(* The resolver is not yet launched: nothing in it can run, and its fairness *)
(* asks for nothing, while resolve is at work.                               *)
LookupInit ==
    /\ Made /\ pc = [a \in Actors |-> "idle"]
    /\ cfg = AnyConfig /\ net = 1
    /\ ResolveInit

Resolves == (Exchange \/ Scan) /\ UNCHANGED vars

(* From here on the resolver has any of its own initial states.              *)
Begins ==
    /\ stage = "done" /\ out # "none"
    /\ out' = "none" /\ zone' = NoZone /\ world' = "honest"
    /\ name' = Host /\ owner' = Host /\ hop' = 0 /\ ttl' = 0
    /\ seen' = {} /\ answer' = {} /\ used' = {}
    /\ cfg' \in Configs /\ net' \in 1..MaxNet
    /\ pc' = Launched
    /\ UNCHANGED <<stage, state, cache, flights, refresh, ctx, looks, reloads, ends>>

Resolved == stage = "done" /\ out = "none"

LookupSpec ==
    /\ LookupInit
    /\ [][Resolves \/ Begins \/ (Resolved /\ Next /\ UNCHANGED rvars)]_<<vars, rvars>>
    /\ WF_<<vars, rvars>>(Resolves \/ Begins) /\ Fairness
=============================================================================
