------------------------------ MODULE MCConnect ------------------------------
(* Connect with small values. *)
EXTENDS Connect, TLC

MCOffers == { {}, {"h2"}, {"http/1.1"}, {"h2", "http/1.1"}, {"h3"} }
MCSymmetry == Permutations(Hosts)

MCName == <<"com", "x">>
MCDomains == { {}, {<<>>}, {<<"com">>}, {<<"com", "x">>}, {<<"org">>}, {<<>>, <<"com", "x">>} }
MCServers == { <<>>, <<"a">>, <<"self", "b">>, <<"v6">> }

MCLinks ==
    [kind : {"group"}, servers : MCServers, domains : MCDomains, default : BOOLEAN]
    \cup [kind : {"gone", "error", "dot"}, servers : {<<"a">>}, domains : {{}}, default : {TRUE}]

MCManagers ==
    [kind : {"group"}, servers : {<<>>, <<"c">>}, domains : {{}, {<<>>}, {<<"com", "x">>}}, default : {FALSE}]
    \cup [kind : {"error", "dot"}, servers : {<<>>}, domains : {{}}, default : {FALSE}]

MCLinux ==
    [os : {"linux"}, owner : {TRUE}, known : {TRUE}, file : {<<"f">>}, manager : MCManagers,
     links : UNION { [1..n -> MCLinks] : n \in 0..2 }]
    \cup
    [os : {"linux"}, owner : {FALSE}, known : BOOLEAN, file : {<<>>, <<"f">>, <<"self", "f">>, <<"v6">>},
     manager : MCManagers, links : {<<>>}]

Line(k, v) == [key |-> k, value |-> v]
MCLines ==
    { Line("server", "a"), Line("server", "self"), Line("server", "v6"), Line("domain", <<"com">>),
      Line("domain", <<"com", "x">>), Line("domain", <<"org">>), Line("port", 54), Line("order", 1),
      Line("mdns", 0), Line("bad", 0) }
MCBlocks == { <<Line("resolver", 0)>> \o t : t \in UNION { [1..n -> MCLines] : n \in 0..2 } }
MCOneResolver == { <<Line("resolver", 0)>> \o t : t \in [1..4 -> MCLines] }
MCTexts ==
    MCOneResolver
    \cup { b1 \o b2 : b1, b2 \in MCBlocks }
    \cup { b1 \o <<Line("scoped", 0)>> \o b2 : b1, b2 \in MCBlocks }
    \cup { <<Line("server", "a")>> \o b : b \in MCBlocks }

MCSetups == MCLinux \cup [os : {"darwin"}, lines : MCTexts]

MCFields == [f \in {"domains", "listen", "dns"} |-> IF f = "dns" THEN {"mode", "servers"} ELSE {}]
MCDefault ==
    <<"domains", "-">> :> <<"d">> @@ <<"listen", "-">> :> <<"l">>
    @@ <<"dns", "mode">> :> <<"auto">> @@ <<"dns", "servers">> :> <<>>
MCSpelling == "d" :> "d" @@ "D." :> "d" @@ "e" :> "e" @@ "E" :> "e"
MCAllowed ==
    <<"domains", "-">> :> UNION { [1..n -> DOMAIN MCSpelling] : n \in 1..2 }
    @@ <<"listen", "-">> :> {<<"l">>, <<"m">>}
    @@ <<"dns", "mode">> :> {<<"auto">>, <<"manual">>} @@ <<"dns", "servers">> :> {<<>>, <<"s">>, <<"t">>}

Member(n, e, v) == [name |-> n, exact |-> e, kind |-> "plain", value |-> <<v>>]
Null(n) == [name |-> n, exact |-> TRUE, kind |-> "null"]
Inner ==
    { Member("mode", TRUE, "auto"), Member("mode", TRUE, "manual"), Member("mode", FALSE, "manual"),
      Null("mode"), [name |-> "mode", exact |-> TRUE, kind |-> "object", of |-> <<>>], Member("servers", TRUE, "s"), Member("listen", TRUE, "m") }
Objects == UNION { [1..n -> Inner] : n \in 0..2 }
Outer ==
    [name : {"dns"}, exact : BOOLEAN, kind : {"object"}, of : Objects]
    \cup { Member("domains", TRUE, "E"),
           [name |-> "domains", exact |-> TRUE, kind |-> "plain", value |-> <<"d", "D.">>],
           Member("listen", TRUE, "m"), Member("listen", TRUE, "bad"), Member("listen", FALSE, "m"),
           Member("mode", TRUE, "auto"), Member("dns", TRUE, "auto"), Null("listen") }
MCDocs == UNION { [1..n -> Outer] : n \in 0..2 }
MCFlags == [listen : {"unset", "l"}, dns : {"unset", "auto", "t"}]
MCMachine == [os |-> "linux", owner |-> FALSE, known |-> FALSE, file |-> <<"f">>,
              manager |-> [kind |-> "error", servers |-> <<>>, domains |-> {}, default |-> FALSE], links |-> <<>>]

MCInputs ==
    [doc : {<<>>}, flags : {NoFlags}, setup : MCSetups]
    \cup [doc : MCDocs, flags : MCFlags, setup : {MCMachine}]
=============================================================================
