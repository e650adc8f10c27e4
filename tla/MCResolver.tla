----------------------------- MODULE MCResolver -----------------------------
(* Resolver on small instances.                                              *)
EXTENDS Resolver, TLC

CONSTANTS dA, dB, dM, sA, sB

MCDiscoveries == {dA, dB, dM}
MCMixed == {[mode |-> "auto", size |-> 1], [mode |-> "manual", size |-> 1]}
MCSizes == {[mode |-> "auto", size |-> 2], [mode |-> "manual", size |-> 1]}
MCManualOf == [c \in Configs |-> dM]
MCNetChange == <<dA, dB>>
MCNetOutage == <<NoDiscovery, dB>>
MCNetStill == <<dA>>
(* dA has two servers; dB has one, and no group for any name but one         *)
MCRoute ==
    [d \in MCDiscoveries |-> [h \in Hosts |->
        CASE d = dM -> [eligible |-> TRUE, servers |-> <<sB>>]
          [] d = dA -> [eligible |-> TRUE, servers |-> <<sA, sB>>]
          [] OTHER  -> [eligible |-> h = NoCall.host, servers |-> <<sB>>]]]

(* A bound: once a context has ended, only the first generation is followed, *)
(* on the later network, with nothing cached.                                *)
EndsEarly == ends > 0 => net = MaxNet /\ gen <= 1 /\ cache = {}

Symmetry == Permutations(Clients)
=============================================================================
