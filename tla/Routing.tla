------------------------------- MODULE Routing -------------------------------
(***************************************************************************)
(* Which DNS servers a name is sent to (internal/dns/discovery*.go,        *)
(* resolved_properties.go): reading the machine's setup, dropping servers  *)
(* that cannot be used, choosing groups. These are functions of the setup, *)
(* checked against a reference that reads the setup directly.              *)
(*                                                                         *)
(* A domain is the sequence of its labels from the root, lower-cased and   *)
(* without "~" and the final dot; the root is <<>>. A server is an address *)
(* with its port.                                                          *)
(***************************************************************************)
EXTENDS Integers, SequencesExt, FiniteSetsExt

CONSTANTS
    Name,      \* the name to be resolved, as a domain
    V6,        \* addresses that are not IPv4
    Self       \* IPv4 addresses that are loopback, unspecified, multicast or of this machine

MaxInt == 1000000            \* int(^uint(0) >> 1)

Failed == [ok |-> FALSE, groups |-> <<>>]
Found(gs) == [ok |-> TRUE, groups |-> gs]

-----------------------------------------------------------------------------
(* Select: the groups whose best matching domain is the longest and, among   *)
(* those, of the lowest priority; without a match, the default groups.       *)

Score(g) == Max({-1} \cup { Len(d) : d \in { d \in g.domains : IsPrefix(d, Name) } })

BetterLower(acc, g) == Score(g) > acc.best \/ g.priority < acc.priority   \* Mutant: priority beats the domain
Better(acc, g) == Score(g) > acc.best \/ (Score(g) = acc.best /\ g.priority < acc.priority)

Kept(acc, g, here) ==
    IF here THEN [acc EXCEPT !.matched = Append(@, g)] ELSE acc

MatchStep(acc, g) ==
    LET a == IF Better(acc, g)
             THEN [best |-> Score(g), priority |-> g.priority, matched |-> <<>>]
             ELSE acc
    IN IF Score(g) < 0 THEN acc
       ELSE Kept(a, g, Score(g) = a.best /\ g.priority = a.priority)

DefaultStep(acc, g) ==
    LET a == IF g.priority < acc.priority
             THEN [acc EXCEPT !.priority = g.priority, !.matched = <<>>]
             ELSE acc
    IN IF ~g.default THEN acc ELSE Kept(a, g, g.priority = a.priority)

Select(groups) ==
    LET none == [best |-> -1, priority |-> MaxInt, matched |-> <<>>]
        matching == FoldLeft(MatchStep, none, groups)
    IN IF matching.best >= 0 THEN matching.matched
       ELSE FoldLeft(DefaultStep, matching, groups).matched

-----------------------------------------------------------------------------
(* usable: a group keeps its place when it has no server left, so that its   *)
(* domains still claim their names; no server at all is an error.            *)

Usable(groups) ==
    LET kept == [i \in DOMAIN groups |->
                    [groups[i] EXCEPT !.servers = SelectSeq(@, LAMBDA s : s[1] \notin V6 \cup Self)]]
    IN IF \E i \in DOMAIN kept : kept[i].servers # <<>> THEN Found(kept) ELSE Failed

V4Only(addresses) == SelectSeq(addresses, LAMBDA a : a \notin V6)
At(addresses, port) == [i \in DOMAIN addresses |-> <<addresses[i], port>>]   \* net.JoinHostPort

(* Linux: systemd-resolved over D-Bus. A link is [kind, servers, domains,    *)
(* default]; its kind is "group", "gone" (NoSuchLink), "error" (any other    *)
(* failure to read it) or "dot" (DNS over TLS required). DNSEx may name      *)
(* another port than 53; the model's links do not.                           *)
LinkGroup(l) ==
    [servers |-> At(V4Only(l.servers), 53), domains |-> l.domains, priority |-> 0, default |-> l.default]

(* The manager's properties list the servers and domains of every link too,  *)
(* each with its interface; 0 marks the manager's own.                       *)
Listed(m) ==
    LET of(i) == [k \in DOMAIN m.links[i].servers |-> <<i, m.links[i].servers[k]>>]
    IN [k \in DOMAIN m.manager.servers |-> <<0, m.manager.servers[k]>>]
       \o FlattenSeq([i \in DOMAIN m.links |-> of(i)])

ManagerGroup(m) ==
    LET own == SelectSeq(Listed(m), LAMBDA e : e[1] = 0)
    IN [servers |-> At(V4Only([k \in DOMAIN own |-> own[k][2]]), 53),
        domains |-> m.manager.domains, priority |-> 0, default |-> TRUE]

Unreadable(l) == l.kind \in {"error", "dot"}

Says(g) == g.servers # <<>> \/ g.domains # {}

ResolvedDiscovery(m) ==
    LET tracked == SelectSeq(m.links, LAMBDA l : l.kind = "group")
        groups == <<ManagerGroup(m)>> \o [i \in DOMAIN tracked |-> LinkGroup(tracked[i])]
    IN IF \E i \in DOMAIN m.links : Unreadable(m.links[i]) THEN Failed
       ELSE IF Unreadable(m.manager) THEN Failed
       ELSE Found(SelectSeq(groups, Says))

(* Without systemd-resolved, and only where the machine shows no sign of it, *)
(* /etc/resolv.conf: one default group.                                      *)
DiscoverLinux(m) ==
    LET d == ResolvedDiscovery(m)
        flat == [servers |-> At(V4Only(m.file), 53), domains |-> {}, priority |-> 0, default |-> TRUE]
    IN IF m.owner THEN (IF d.ok THEN Usable(d.groups) ELSE Failed)
       ELSE IF m.known THEN Failed
       ELSE Usable(<<flat>>)

(* macOS: the lines of scutil --dns, as [key, value]: "resolver", "server",  *)
(* "domain", "port", "order", "mdns", "scoped", or "bad" for a value that is *)
(* refused. A port holds for all servers of its resolver, before it or after.*)
Blank == [servers |-> <<>>, domains |-> {}, priority |-> 0, default |-> FALSE]

Flush(acc) ==
    LET g == [acc.g EXCEPT !.servers = At(@, acc.port), !.default = (acc.g.domains = {})]
    IN [acc EXCEPT !.open = FALSE, !.mdns = FALSE, !.port = 53,
                   !.groups = IF acc.open /\ ~acc.mdns THEN Append(@, g) ELSE @]

ScutilStep(acc, line) ==
    IF acc.stop \/ (~acc.open /\ line.key \notin {"scoped", "resolver"}) THEN acc
    ELSE CASE line.key = "scoped"   -> [acc EXCEPT !.stop = TRUE]
           [] line.key = "resolver" -> [Flush(acc) EXCEPT !.open = TRUE, !.g = Blank]
           [] line.key = "server"   -> [acc EXCEPT !.g.servers = @ \o V4Only(<<line.value>>)]
           [] line.key = "domain"   -> [acc EXCEPT !.g.domains = @ \cup {line.value}]
           [] line.key = "port"     -> [acc EXCEPT !.port = line.value]
           [] line.key = "order"    -> [acc EXCEPT !.g.priority = line.value]
           [] line.key = "mdns"     -> [acc EXCEPT !.mdns = TRUE]
           [] line.key = "bad"      -> [acc EXCEPT !.stop = TRUE, !.bad = TRUE]

ParseScutil(lines) ==
    LET start == [open |-> FALSE, mdns |-> FALSE, stop |-> FALSE, bad |-> FALSE, port |-> 53,
                  g |-> Blank, groups |-> <<>>]
        read == FoldLeft(ScutilStep, start, lines)
        last == Flush(read)
    IN IF read.bad \/ last.groups = <<>> THEN Failed ELSE Found(last.groups)

DiscoverDarwin(m) ==
    LET d == ParseScutil(m.lines) IN IF d.ok THEN Usable(d.groups) ELSE Failed

Discover(m) == IF m.os = "linux" THEN DiscoverLinux(m) ELSE DiscoverDarwin(m)

(* lookup asks the servers of the selected groups, group by group.           *)
Asked(m) ==
    LET d == Discover(m)
        chosen == Select(d.groups)
    IN IF d.ok THEN UNION { ToSet(chosen[i].servers) : i \in DOMAIN chosen } ELSE {}

-----------------------------------------------------------------------------
(* The reference: the entries of a setup, and whom they name for Name.       *)

DarwinEntries(m) ==
    LET end == Min({Len(m.lines) + 1} \cup { i \in DOMAIN m.lines : m.lines[i].key = "scoped" })
        heads == { i \in 1..(end - 1) : m.lines[i].key = "resolver" }
        part(h) == { i \in h..(end - 1) : \A k \in heads : k > h => i < k }
        values(h, key) == { m.lines[i].value : i \in { i \in part(h) : m.lines[i].key = key } }
        last(h, key, otherwise) ==
            LET set == { i \in part(h) : m.lines[i].key = key }
            IN IF set = {} THEN otherwise ELSE m.lines[Max(set)].value
    IN { [servers |-> values(h, "server") \X {last(h, "port", 53)}, domains |-> values(h, "domain"),
          default |-> values(h, "domain") = {}, priority |-> last(h, "order", 0)] :
         h \in { h \in heads : \A i \in part(h) : m.lines[i].key # "mdns" } }

LinuxEntries(m) ==
    { [servers |-> ToSet(l.servers) \X {53}, domains |-> l.domains, default |-> l.default, priority |-> 0] :
      l \in {[m.manager EXCEPT !.default = TRUE]} \cup { l \in ToSet(m.links) : l.kind = "group" } }

Opaque(m) ==       \* the setup, or a part of it, cannot be known
    IF m.os = "linux"
    THEN IF m.owner THEN \E l \in {m.manager} \cup ToSet(m.links) : Unreadable(l) ELSE m.known
    ELSE \E i \in DOMAIN m.lines :
             /\ m.lines[i].key = "bad"
             /\ \E h \in 1..i : m.lines[h].key = "resolver"
             /\ \A k \in 1..i : m.lines[k].key # "scoped"

Entries(m) ==
    IF m.os = "darwin" THEN DarwinEntries(m)
    ELSE IF m.owner THEN LinuxEntries(m)
    ELSE {[servers |-> ToSet(m.file) \X {53}, domains |-> {}, default |-> TRUE, priority |-> 0]}

Named(entries) ==
    LET labels(e) == { Len(d) : d \in { d \in e.domains : IsPrefix(d, Name) } }
        claims == { e \in entries : labels(e) # {} }
        longest == { e \in claims : \A f \in claims : Max(labels(e)) >= Max(labels(f)) }
        eligible == IF claims # {} THEN longest ELSE { e \in entries : e.default }
    IN UNION { e.servers : e \in { e \in eligible : \A f \in eligible : e.priority <= f.priority } }
       \ ((V6 \cup Self) \X Int)

Reference(m) == IF Opaque(m) THEN {} ELSE Named(Entries(m))
=============================================================================
