------------------------------- MODULE Connect -------------------------------
(***************************************************************************)
(* One connection from accept to relay: handle's GetConfigForClient        *)
(* (internal/proxy/server.go), DialUpstream and handshakeUpstream          *)
(* (upstream.go), and what profiles.New and Compatible (profiles.go) do to *)
(* the application protocols. Each leg negotiates its own protocol, with   *)
(* crypto/tls towards the client. The leaf comes from an Authority, which  *)
(* is shared with other connections and replaced by reloads. Whom the      *)
(* daemon may ask for addresses is Routing's matter.                       *)
(*                                                                         *)
(* The upstream's addresses come from Resolver.Lookup. How a server there  *)
(* behaves (external) is one of:                                           *)
(*   barred   CheckDestination refuses it: an address of this machine,     *)
(*            loopback, redirect or invalid, or the machine's addresses    *)
(*            could not be listed when its turn came                       *)
(*   refuses  the connection fails       breaks   the TLS handshake fails  *)
(*   none     ignores ALPN               h1       speaks http/1.1 only     *)
(*   h2       prefers h2, has http/1.1   alps     h2 with ALPS settings    *)
(***************************************************************************)
EXTENDS Authority, Routing, Configuration

CONSTANTS
    Inputs,       \* what a start of the daemon finds: [doc, flags, setup]
    Offers,       \* sets of protocols that clients offer
    MaxAddresses,
    Alps          \* the profile asks for ALPS (chrome-133)
ASSUME ConnectAssumption == Alps \in BOOLEAN /\ MaxAddresses \in Nat
ASSUME InputsAssumption == \A x \in Inputs : IsDocument(x.doc)
ASSUME OffersAssumption ==         \* "none" and "alert" are what Picks says, no protocols
    \A o \in Offers : "none" \notin o /\ "alert" \notin o

VARIABLES
    input,        \* configuration, flags and DNS setup of the machine; not kept once read
    dns,          \* somebody may be asked for the name
    conn,         \* [snap, mode, offered, leaf, since]: snapshot and time of accept, ClientHello, leaf
    addrs,        \* what Lookup returned
    i,            \* DialUpstream's index in addrs
    open,         \* upstream sockets that are open, by index
    proto,        \* what the upstream leg negotiated
    clientProto,  \* what the client leg negotiated
    ended,        \* the handshake's context has ended
    pc
vars == <<avars, input, dns, conn, addrs, i, open, proto, clientProto, ended, pc>>
cvars == <<input, dns, conn, addrs, i, open, proto, clientProto, ended, pc>>

Behaviours == {"barred", "refuses", "breaks", "none", "h1", "h2", "alps"}
Profile == <<"h2", "http/1.1">>           \* the ALPN list of both profiles
Modes == {"strict", "compatible"}

Accepted(snap, since) == [snap |-> snap, mode |-> "strict", offered |-> {}, leaf |-> NoLeaf, since |-> since]
NoConn == Accepted(1, 0)

-----------------------------------------------------------------------------
(* The configuration is loaded, then New: ca.Load, and the first discovery;  *)
(* a failed one does not stop the daemon. A configuration that is refused    *)
(* does, until the operator has corrected it.                                *)
Read == [doc |-> <<>>, flags |-> NoFlags, setup |-> [os |-> "none"]]

Start ==
    /\ pc = "start"
    /\ Accepts(input.doc, input.flags)
    /\ Load
    /\ dns' = (Asked(input.setup) # {})
    /\ input' = Read
    /\ pc' = "idle"
    /\ UNCHANGED <<conn, addrs, i, open, proto, clientProto, ended>>

Correct ==
    /\ pc = "start" /\ ~Accepts(input.doc, input.flags)
    /\ input' = [doc |-> <<>>, flags |-> NoFlags, setup |-> input.setup]
    /\ UNCHANGED <<avars, dns, conn, addrs, i, open, proto, clientProto, ended, pc>>

(* accept takes the snapshot that is current, and the connection keeps it.   *)
Accept ==
    /\ pc = "idle"
    /\ conn' = Accepted(cur, now)
    /\ pc' = "hello"
    /\ UNCHANGED <<avars, input, dns, addrs, i, open, proto, clientProto, ended>>

(* The callback up to the lookup. A connection without a whole ClientHello,  *)
(* without SNI, for a domain that is not configured or under a CA that has   *)
(* expired since, ends here.                                                 *)
Hello ==
    /\ pc = "hello"
    /\ \/ \E h \in Hosts, o \in Offers, m \in Modes, leaf \in Leaves :
          /\ Certificate(conn.snap, h, leaf)
          /\ conn' = [snap |-> conn.snap, mode |-> m, offered |-> o, leaf |-> leaf, since |-> conn.since]
          /\ pc' = "lookup"
       \/ pc' = "failed" /\ UNCHANGED <<auth, conn>>
    /\ UNCHANGED <<now, cur, input, dns, addrs, i, open, proto, clientProto, ended>>

Lookup ==
    /\ pc = "lookup"
    /\ \/ /\ ~ended /\ dns
          /\ addrs' \in UNION { [1..n -> Behaviours] : n \in 1..MaxAddresses }
          /\ i' = 1 /\ pc' = "dial"
       \/ pc' = "failed" /\ UNCHANGED <<addrs, i>>
    /\ UNCHANGED <<avars, input, dns, conn, open, proto, clientProto, ended>>

(* The loop of DialUpstream. *)
Skip == i' = i + 1 /\ pc' = "dial"

CheckDestination(b) == b # "barred"

Dial ==
    /\ pc = "dial"
    /\ \/ /\ i > Len(addrs)
          /\ pc' = "unreached"
          /\ UNCHANGED <<i, open>>
       \/ /\ i <= Len(addrs)
          /\ ~CheckDestination(addrs[i]) \/ addrs[i] = "refuses" \/ ended
          /\ Skip
          /\ UNCHANGED open
       \/ /\ i <= Len(addrs)
          /\ CheckDestination(addrs[i]) /\ addrs[i] # "refuses" /\ ~ended
          /\ open' = open \cup {i}
          /\ pc' = "tls"
          /\ UNCHANGED i
    /\ UNCHANGED <<avars, input, dns, conn, addrs, proto, clientProto, ended>>

(* profiles.New: compatible mode keeps the client's protocols only, and      *)
(* drops the ALPN extension with the last of them; strict mode keeps all.    *)
Restricted(c) == SelectSeq(Profile, LAMBDA p : p \in c.offered)
Advertised(c) == IF c.mode = "compatible" THEN Restricted(c) ELSE Profile
NoCommon(c) == c.mode = "compatible" /\ c.offered # {} /\ Restricted(c) = <<>>

Has(c, p) == \E k \in DOMAIN Advertised(c) : Advertised(c)[k] = p

(* What the upstream negotiates (external); "alert" refuses the handshake.   *)
Picks(c, b) ==
    CASE b = "breaks" -> "alert"
      [] b = "none" -> "none"
      [] b = "h1" -> IF Has(c, "http/1.1") THEN "http/1.1" ELSE IF Advertised(c) = <<>> THEN "none" ELSE "alert"
      [] b \in {"h2", "alps"} -> IF Has(c, "h2") THEN "h2" ELSE IF Has(c, "http/1.1") THEN "http/1.1" ELSE "none"

(* ALPS is asked for with h2 only, and filtered like ALPN.                   *)
SendsSettings(c, b) == b = "alps" /\ Alps /\ Has(c, "h2")

Compatible(p, offered) ==
    IF p = "none" THEN offered = {} \/ "http/1.1" \in offered
    ELSE p \in offered /\ p \in {"h2", "http/1.1"}

FailedOpen == open                   \* Mutant: the socket of a failed handshake stays open
ClosedAfterFailure == open \ {i}

AfterFailureGivesUp == i' = i /\ pc' = "unreached"     \* Mutant: the first failed handshake decides
AfterFailure == Skip

Handshake ==
    /\ pc = "tls"
    /\ LET p == Picks(conn, addrs[i])
           good == /\ ~NoCommon(conn) /\ p # "alert"
                   /\ Compatible(p, conn.offered) /\ ~SendsSettings(conn, addrs[i])
       IN \/ /\ good /\ ~ended
             /\ proto' = p
             /\ pc' = "client"
             /\ UNCHANGED <<i, open>>
          \/ /\ ~good \/ ended
             /\ open' = ClosedAfterFailure
             /\ AfterFailure
             /\ UNCHANGED proto
    /\ UNCHANGED <<avars, input, dns, conn, addrs, clientProto, ended>>

(* The client is offered the upstream's protocol, or no ALPN.                *)
NextProtosProfile == Profile        \* Mutant: the client may pick another one than the upstream did
NextProtos == IF proto = "none" THEN <<>> ELSE <<proto>>

(* How crypto/tls negotiates with a client (external): the first protocol of *)
(* the server that the client offers; no ALPN if either side names none, or  *)
(* for an http/1.1 client of an h2 server; else the handshake is refused.    *)
Negotiated(protocols, offered) ==
    LET common == { k \in DOMAIN protocols : protocols[k] \in offered }
    IN IF protocols = <<>> \/ offered = {} THEN "none"
       ELSE IF common # {} THEN protocols[Min(common)]
       ELSE IF "http/1.1" \in offered /\ Contains(protocols, "h2") THEN "none" ELSE "alert"

Closes == open' = {}                   \* the deferred upstream.Close

(* The client's handshake, with the leaf and the protocol of the upstream.   *)
Client ==
    /\ pc = "client"
    /\ \/ /\ Negotiated(NextProtos, conn.offered) # "alert" /\ ~ended
          /\ clientProto' = Negotiated(NextProtos, conn.offered)
          /\ pc' = "verify"
          /\ UNCHANGED open
       \/ Closes /\ pc' = "failed" /\ UNCHANGED clientProto
    /\ UNCHANGED <<avars, input, dns, conn, addrs, i, proto, ended>>

(* Both handshakes are done; their protocols are compared once more.         *)
Verify ==
    /\ pc = "verify"
    /\ IF clientProto = proto THEN pc' = "relaying" /\ UNCHANGED open ELSE pc' = "failed" /\ Closes
    /\ UNCHANGED <<avars, input, dns, conn, addrs, i, proto, clientProto, ended>>

(* relay has returned, or handle with an error; the next connection.         *)
Finish ==
    /\ pc \in {"relaying", "failed", "unreached"}
    /\ pc' = "idle"
    /\ open' = IF pc = "relaying" THEN {} ELSE open
    /\ conn' = NoConn /\ addrs' = <<>> /\ i' = 1 /\ ended' = FALSE
    /\ proto' = "none" /\ clientProto' = "none"
    /\ UNCHANGED <<avars, input, dns>>

-----------------------------------------------------------------------------
(* The environment: the handshake deadline or a shutdown; time. A handshake  *)
(* takes a day at the most, its timeout being far shorter.                   *)
InHandshake == pc \in {"hello", "lookup", "dial", "tls", "client"}

ContextEnds ==
    /\ InHandshake /\ ~ended
    /\ ended' = TRUE
    /\ UNCHANGED <<avars, input, dns, conn, addrs, i, open, proto, clientProto, pc>>

Tick ==
    /\ now < Days /\ pc # "start"
    /\ InHandshake => now = conn.since
    /\ now' = now + 1
    /\ UNCHANGED <<auth, cur, cvars>>

Reload == pc # "start" /\ Load /\ UNCHANGED cvars

Init ==
    /\ AuthorityInit
    /\ input \in Inputs /\ dns = FALSE
    /\ conn = NoConn /\ addrs = <<>> /\ i = 1 /\ open = {} /\ ended = FALSE /\ pc = "start"
    /\ proto = "none" /\ clientProto = "none"

Next ==
    \/ Start \/ Correct \/ Accept \/ Hello \/ Lookup \/ Dial \/ Handshake \/ Client \/ Verify \/ Finish
    \/ ContextEnds \/ Tick \/ Reload

Spec == Init /\ [][Next]_vars

-----------------------------------------------------------------------------
(* Properties *)

(* For every setup of the machine, a name goes to exactly the usable IPv4    *)
(* servers that the setup names for it: those of the longest domain that     *)
(* covers it (also when that leaves nobody to ask), else of the default      *)
(* entries. A setup that is only partly readable names nobody, and           *)
(* resolv.conf is not read where systemd-resolved is in charge               *)
(* (discovery.go:40-191, discovery_linux.go:19-172).                         *)
RouteExact == pc = "start" => Asked(input.setup) = Reference(input.setup)

(* The configuration in force is what a reader takes the file to say, under  *)
(* the flags: a file that says a field twice, in two spellings, as null or   *)
(* in the wrong place is refused, at both levels, and never half read        *)
(* (config.go:106-220, cli.go:374-396).                                      *)
LoadExact ==
    pc = "start" /\ Accepts(input.doc, input.flags) =>
        Unambiguous(input.doc) /\ Loaded(input.doc, input.flags) = Meaning(input.doc, input.flags)

(* A client is never shown a leaf of another CA than its snapshot's, nor one *)
(* that outlives that CA, nor one that expires before the handshake is over, *)
(* however old the cached leaf and whatever reloads came in between          *)
(* (ca.go:133-177, server.go:351).                                           *)
LeafGood ==
    pc \in {"client", "verify", "relaying"} /\ now <= conn.since + 1 =>
        /\ conn.leaf.by = conn.snap
        /\ conn.leaf.till <= auth[conn.snap].end
        /\ now < conn.leaf.till \/ ~Valid(conn.snap)

(* Once both handshakes are done, the two legs have negotiated the same      *)
(* protocol, one that the client offered; no ALPN on either leg, only with a *)
(* client that can do without. So Compatible, which must foresee what        *)
(* crypto/tls will do, lets no client through to an answer that handle then  *)
(* takes back: the comparison after the client's handshake never fails       *)
(* (server.go:364-379, profiles.go:104-109).                                 *)
AlpnAgreed ==
    pc \in {"verify", "relaying"} =>
        /\ clientProto = proto
        /\ \/ proto \in conn.offered \cap {"h2", "http/1.1"}
           \/ proto = "none" /\ (conn.offered = {} \/ "http/1.1" \in conn.offered)

(* No upstream socket outlives its use: one while the connection uses it,    *)
(* none once handle has returned, whichever attempt failed where             *)
(* (upstream.go:48-53, server.go:329-333).                                   *)
NoSocketLeft ==
    /\ pc \in {"start", "idle", "hello", "lookup", "dial", "failed", "unreached"} => open = {}
    /\ pc \in {"tls", "client", "verify", "relaying"} => open = {i}

Serves(c, b) ==
    /\ b \notin {"barred", "refuses"}
    /\ ~NoCommon(c)
    /\ LET p == Picks(c, b)
       IN \/ p \in c.offered
          \/ p = "none" /\ (c.offered = {} \/ "http/1.1" \in c.offered)
    /\ ~SendsSettings(c, b)

(* DialUpstream gives up only when no address of the name would have done:   *)
(* an address that loops, refuses, fails its handshake or speaks the wrong   *)
(* protocol never hides a good one behind it (upstream.go:34-59).            *)
ServedIfAny ==
    pc = "unreached" /\ ~ended => \A k \in DOMAIN addrs : ~Serves(conn, addrs[k])
=============================================================================
