---------------------------- MODULE ConnectProofs ----------------------------
(***************************************************************************)
(* Proofs about module Connect, its Authority and its Configuration, for   *)
(* any hosts, offers, addresses, lifetimes, reloads and documents:         *)
(* sockets, protocols, the loop over the addresses, the leaf a client is   *)
(* shown, and the configuration in force.                                  *)
(***************************************************************************)
EXTENDS Connect, FiniteSetTheorems, TLAPS

Steps == {"start", "idle", "hello", "lookup", "dial", "tls", "client", "verify", "relaying", "failed", "unreached"}
Shaking == {"lookup", "dial", "tls", "client", "verify", "relaying"}

(* Sockets and protocols. *)
SocketInv == pc \in Steps /\ NoSocketLeft

Agreed(p, o) ==
    \/ p \in o \cap {"h2", "http/1.1"}
    \/ p = "none" /\ (o = {} \/ "http/1.1" \in o)

AlpnInv ==
    /\ conn.offered \in Offers \cup {{}}
    /\ pc \in {"client", "verify", "relaying"} => Agreed(proto, conn.offered)
    /\ pc \in {"verify", "relaying"} => clientProto = proto

(* The loop of DialUpstream has passed no address that would have done.      *)
TriedInv ==
    /\ conn.offered \in Offers \cup {{}}
    /\ pc \in {"dial", "tls", "unreached"} =>
          /\ i \in Nat \ {0} /\ Len(addrs) \in Nat /\ addrs \in [1..Len(addrs) -> Behaviours]
          /\ ~ended => \A k \in 1..Len(addrs) : k < i => ~Serves(conn, addrs[k])
    /\ pc = "tls" => i <= Len(addrs)
    /\ pc = "unreached" => i > Len(addrs)

(* A cached leaf is its Authority's own and does not outlive it. The leaf of *)
(* a connection moreover lasted, when it was taken, longer than the margin   *)
(* or as long as its CA.                                                     *)
Leaf == [by : Nat, till : Nat]
CaState == [end : Nat, cache : [Hosts -> Leaf]]

AuthTypes == now \in Nat /\ auth \in Seq(CaState) /\ cur \in 0..Len(auth)

OwnLeaf(f, a) == f.by = a /\ f.till <= auth[a].end
Caches == \A a \in 1..Len(auth), h \in Hosts : auth[a].cache[h] = NoLeaf \/ OwnLeaf(auth[a].cache[h], a)

Shown ==
    /\ conn.snap \in 1..Len(auth) /\ conn.since \in Nat /\ conn.since <= now /\ conn.leaf \in Leaf
    /\ OwnLeaf(conn.leaf, conn.snap)
    /\ conn.leaf.till > conn.since + Margin \/ conn.leaf.till = auth[conn.snap].end

LeafInv ==
    /\ AuthTypes /\ Caches
    /\ pc # "start" => cur # 0
    /\ pc = "hello" => conn.snap \in 1..Len(auth) /\ conn.since \in Nat /\ conn.since <= now
    /\ pc \in Shaking => Shown

-----------------------------------------------------------------------------
(* What the handshakes leave alone: time, reloads and the deadline.          *)
LEMMA Outside ==
    ASSUME ContextEnds \/ Tick \/ Reload \/ UNCHANGED vars
    PROVE  UNCHANGED <<conn, addrs, i, open, proto, clientProto, pc>> /\ (ended => ended')
BY DEF ContextEnds, Tick, Reload, vars, cvars

LEMMA SocketsClosed == Spec => []SocketInv
<1>1. Init => SocketInv BY DEF Init, SocketInv, NoSocketLeft, Steps
<1>2. SocketInv /\ [Next]_vars => SocketInv'
  <2> SUFFICES ASSUME SocketInv, [Next]_vars PROVE SocketInv' OBVIOUS
  <2> USE DEF SocketInv, NoSocketLeft, Steps
  <2>1. CASE Start BY <2>1 DEF Start
  <2>2. CASE Correct BY <2>2 DEF Correct
  <2>3. CASE Accept \/ Hello BY <2>3 DEF Accept, Hello
  <2>4. CASE Lookup BY <2>4 DEF Lookup
  <2>5. CASE Dial BY <2>5 DEF Dial, Skip
  <2>6. CASE Handshake BY <2>6 DEF Handshake, AfterFailure, ClosedAfterFailure, Skip
  <2>7. CASE Client \/ Verify BY <2>7 DEF Client, Verify, Closes
  <2>8. CASE Finish BY <2>8 DEF Finish
  <2>9. CASE ContextEnds \/ Tick \/ Reload \/ UNCHANGED vars BY <2>9, Outside
  <2> QED BY <2>1, <2>2, <2>3, <2>4, <2>5, <2>6, <2>7, <2>8, <2>9 DEF Next
<1> QED BY <1>1, <1>2, PTL DEF Spec

(* DialUpstream and handle close every upstream socket they open, and only   *)
(* one is open at a time, whichever attempt fails where                      *)
(* (upstream.go:48-53, server.go:329-333).                                   *)
THEOREM NoSocketEverLeft == Spec => []NoSocketLeft
BY SocketsClosed, PTL DEF SocketInv

(* What Compatible lets through, crypto/tls then negotiates with the client. *)
LEMMA Foreseen ==
    ASSUME NEW o, "none" \notin o, Agreed(proto, o)
    PROVE  Negotiated(NextProtos, o) = proto
<1>1. CASE proto = "none"
  <2>1. NextProtos = <<>> BY <1>1 DEF NextProtos
  <2> QED BY <1>1, <2>1 DEF Negotiated
<1>2. CASE proto # "none"
  <2> DEFINE common == { k \in DOMAIN NextProtos : NextProtos[k] \in o }
  <2>1. NextProtos = <<proto>> /\ proto \in o BY <1>2 DEF NextProtos, Agreed
  <2>2. NextProtos # <<>> /\ o # {} /\ common = {1} /\ NextProtos[1] = proto BY <2>1
  <2>3. Min({1}) = 1 BY DEF Min
  <2> QED BY <2>1, <2>2, <2>3 DEF Negotiated
<1> QED BY <1>1, <1>2

(* Whatever protocols clients offer and upstreams pick, the client's leg     *)
(* negotiates what the upstream's did, so that no client is turned away      *)
(* after both handshakes, and no ALPN stands only with a client that can do  *)
(* without (server.go:364-379, profiles.go:104-109).                         *)
THEOREM AlpnAlwaysAgreed == Spec => []AlpnAgreed
<1>1. Init => AlpnInv BY DEF Init, AlpnInv, NoConn, Accepted
<1>2. AlpnInv /\ [Next]_vars => AlpnInv'
  <2> SUFFICES ASSUME AlpnInv, [Next]_vars PROVE AlpnInv' OBVIOUS
  <2> USE DEF AlpnInv
  <2>1. CASE Start \/ Correct \/ Accept \/ Hello \/ Lookup \/ Dial \/ Finish
    <3>1. pc' \notin {"client", "verify", "relaying"}
      BY <2>1 DEF Start, Correct, Accept, Hello, Lookup, Dial, Skip, Finish
    <3>2. conn'.offered \in Offers \cup {{}}
      BY <2>1 DEF Start, Correct, Accept, Hello, Lookup, Dial, Finish, NoConn, Accepted
    <3> QED BY <3>1, <3>2
  <2>2. CASE Handshake
    <3>1. UNCHANGED conn BY <2>2 DEF Handshake
    <3>2. /\ pc' \notin {"verify", "relaying"}
          /\ pc' = "client" => \E p : proto' = p /\ Compatible(p, conn.offered)
      BY <2>2 DEF Handshake, AfterFailure, Skip
    <3> QED BY <3>1, <3>2 DEF Compatible, Agreed
  <2>3. CASE Client
    <3>1. UNCHANGED <<conn, proto>> /\ Agreed(proto, conn.offered) BY <2>3 DEF Client
    <3>2. "none" \notin conn.offered BY OffersAssumption
    <3>3. pc' = "failed" \/ (pc' = "verify" /\ clientProto' = proto) BY <2>3, <3>1, <3>2, Foreseen DEF Client
    <3> QED BY <3>1, <3>3
  <2>4. CASE Verify BY <2>4 DEF Verify
  <2>5. CASE ContextEnds \/ Tick \/ Reload \/ UNCHANGED vars BY <2>5, Outside
  <2> QED BY <2>1, <2>2, <2>3, <2>4, <2>5 DEF Next
<1>3. AlpnInv => AlpnAgreed BY DEF AlpnInv, AlpnAgreed, Agreed
<1> QED BY <1>1, <1>2, <1>3, PTL DEF Spec

-----------------------------------------------------------------------------
LEMMA PicksOne ==
    ASSUME NEW c, NEW b \in Behaviours, b \notin {"barred", "refuses"}
    PROVE  Picks(c, b) \in {"alert", "none", "h2", "http/1.1"}
<1>1. CASE b = "breaks" BY <1>1, Zenon DEF Picks
<1>2. CASE b = "none" BY <1>2, Zenon DEF Picks
<1>3. CASE b = "h1" BY <1>3, Zenon DEF Picks
<1>4. CASE b = "h2" BY <1>4, Zenon DEF Picks
<1>5. CASE b = "alps" BY <1>5, Zenon DEF Picks
<1> QED BY <1>1, <1>2, <1>3, <1>4, <1>5 DEF Behaviours

(* The checks of handshakeUpstream refuse only what would not have served.   *)
LEMMA RefusedNotServing ==
    ASSUME NEW b \in Behaviours, conn.offered \in Offers \cup {{}},
           ~( /\ ~NoCommon(conn) /\ Picks(conn, b) # "alert"
              /\ Compatible(Picks(conn, b), conn.offered) /\ ~SendsSettings(conn, b) )
    PROVE  ~Serves(conn, b)
<1> SUFFICES ASSUME Serves(conn, b) PROVE FALSE OBVIOUS
<1> DEFINE p == Picks(conn, b)
<1>1. /\ b \notin {"barred", "refuses"} /\ ~NoCommon(conn) /\ ~SendsSettings(conn, b)
      /\ p \in conn.offered \/ (p = "none" /\ (conn.offered = {} \/ "http/1.1" \in conn.offered))
  BY DEF Serves
<1>2. p \in {"alert", "none", "h2", "http/1.1"} BY <1>1, PicksOne
<1>3. "none" \notin conn.offered /\ "alert" \notin conn.offered BY OffersAssumption
<1> HIDE DEF p
<1>4. p # "alert" /\ Compatible(p, conn.offered) BY <1>1, <1>2, <1>3 DEF Compatible
<1> QED BY <1>1, <1>4 DEF p

LEMMA NextTried == TriedInv /\ [Next]_vars => TriedInv'
<1> SUFFICES ASSUME TriedInv, [Next]_vars PROVE TriedInv' OBVIOUS
<1> USE DEF TriedInv
<1>1. CASE Start \/ Correct BY <1>1 DEF Start, Correct
<1>2. CASE Accept \/ Hello
  <2>1. conn'.offered \in Offers \cup {{}} BY <1>2 DEF Accept, Hello, NoConn, Accepted
  <2>2. pc' \in {"hello", "lookup", "failed"} BY <1>2 DEF Accept, Hello
  <2> QED BY <2>1, <2>2
<1>3. CASE Lookup
  <2>1. UNCHANGED conn BY <1>3 DEF Lookup
  <2>2. CASE pc' = "dial"
    <3>1. i' = 1 /\ addrs' \in UNION { [1..n -> Behaviours] : n \in 1..MaxAddresses } BY <1>3, <2>2 DEF Lookup
    <3>2. PICK n \in 1..MaxAddresses : addrs' \in [1..n -> Behaviours] BY <3>1
    <3>3. Len(addrs') = n /\ n \in Nat BY <3>2, ConnectAssumption
    <3> QED BY <2>1, <2>2, <3>1, <3>2, <3>3
  <2>3. CASE pc' = "failed" BY <2>1, <2>3
  <2> QED BY <1>3, <2>2, <2>3 DEF Lookup
<1>4. CASE Dial
  <2>1. pc = "dial" /\ UNCHANGED <<conn, addrs, ended>> BY <1>4 DEF Dial
  <2>2. CASE i' = i BY <1>4, <2>1, <2>2 DEF Dial, Skip
  <2>3. CASE i' = i + 1 /\ i <= Len(addrs) /\ pc' = "dial"
        /\ (~CheckDestination(addrs[i]) \/ addrs[i] = "refuses" \/ ended)
    <3>1. ~ended => ~Serves(conn, addrs[i]) BY <2>3 DEF Serves, CheckDestination
    <3>2. \A k \in 1..Len(addrs) : k < i + 1 => k < i \/ k = i BY <2>1
    <3> QED BY <2>1, <2>3, <3>1, <3>2
  <2> QED BY <1>4, <2>2, <2>3 DEF Dial, Skip
<1>5. CASE Handshake
  <2>1. pc = "tls" /\ UNCHANGED <<conn, addrs, ended>> /\ addrs[i] \in Behaviours BY <1>5 DEF Handshake
  <2>2. CASE pc' = "client" BY <2>1, <2>2
  <2>3. CASE pc' = "dial"
    <3>1. i' = i + 1 BY <1>5, <2>3 DEF Handshake, AfterFailure, Skip
    <3>2. ~ended => ~Serves(conn, addrs[i])
      BY <1>5, <2>1, <2>3, RefusedNotServing DEF Handshake
    <3>3. \A k \in 1..Len(addrs) : k < i + 1 => k < i \/ k = i BY <2>1
    <3> QED BY <2>1, <2>3, <3>1, <3>2, <3>3
  <2> QED BY <1>5, <2>2, <2>3 DEF Handshake, AfterFailure, Skip
<1>6. CASE Client \/ Verify BY <1>6 DEF Client, Verify
<1>7. CASE Finish BY <1>7 DEF Finish, NoConn, Accepted
<1>8. CASE ContextEnds \/ Tick \/ Reload \/ UNCHANGED vars BY <1>8, Outside
<1> QED BY <1>1, <1>2, <1>3, <1>4, <1>5, <1>6, <1>7, <1>8 DEF Next

(* No failed address hides a good one behind it, for any list of addresses   *)
(* (upstream.go:34-59).                                                      *)
THEOREM AlwaysServedIfAny == Spec => []ServedIfAny
<1>1. Init => TriedInv BY DEF Init, TriedInv, NoConn, Accepted
<1>2. TriedInv => ServedIfAny
  <2> SUFFICES ASSUME TriedInv, pc = "unreached", ~ended, NEW k \in DOMAIN addrs PROVE ~Serves(conn, addrs[k])
    BY DEF ServedIfAny
  <2>1. k \in 1..Len(addrs) /\ k < i BY DEF TriedInv
  <2> QED BY <2>1 DEF TriedInv
<1> QED BY <1>1, <1>2, NextTried, PTL DEF Spec

-----------------------------------------------------------------------------
LEMMA MinOfTwo ==
    ASSUME NEW a \in Nat, NEW b \in Nat
    PROVE  Min({a, b}) \in {a, b} /\ Min({a, b}) <= a /\ Min({a, b}) <= b
<1>1. \E x \in {a, b} : \A y \in {a, b} : x <= y OBVIOUS
<1> QED BY <1>1 DEF Min

(* The two steps of an Authority. Neither touches the end of one.            *)
LEMMA LoadKeeps ==
    ASSUME AuthTypes, Caches, Load
    PROVE  /\ AuthTypes' /\ Caches' /\ cur' # 0 /\ UNCHANGED now
           /\ Len(auth') = Len(auth) + 1 /\ \A a \in 1..Len(auth) : auth'[a] = auth[a]
<1>1. PICK end \in (now + 1)..(Days + 1) : auth' = Append(auth, [end |-> end, cache |-> Empty])
  BY DEF Load, FirstCache
<1> DEFINE new == [end |-> end, cache |-> Empty]
<1>2. new \in CaState /\ new.cache = Empty /\ end \in Nat
  BY LeafAssumption DEF CaState, Leaf, Empty, NoLeaf, AuthTypes
<1>3. auth' = Append(auth, new) BY <1>1
<1> HIDE DEF new
<1>4. /\ auth \in Seq(CaState) /\ Len(auth) \in Nat /\ auth' \in Seq(CaState) /\ Len(auth') = Len(auth) + 1
      /\ auth'[Len(auth) + 1] = new /\ \A a \in 1..Len(auth) : auth'[a] = auth[a]
  BY <1>2, <1>3 DEF AuthTypes
<1>5. AuthTypes' /\ cur' # 0 /\ UNCHANGED now BY <1>4 DEF AuthTypes, Load
<1>6. Caches'
  <2> SUFFICES ASSUME NEW a \in 1..Len(auth'), NEW h \in Hosts
               PROVE  auth'[a].cache[h] = NoLeaf \/ OwnLeaf(auth[a].cache[h], a)'
    BY DEF Caches
  <2>1. CASE a \in 1..Len(auth) BY <2>1, <1>4 DEF Caches, OwnLeaf
  <2>2. CASE a = Len(auth) + 1 BY <2>2, <1>2, <1>4 DEF Empty
  <2> QED BY <1>4, <2>1, <2>2
<1> QED BY <1>4, <1>5, <1>6

(* Whatever is evicted, the leaves that stay are the Authority's own, and so *)
(* is the leaf that is returned, which lasts.                                *)
LEMMA CertificateKeeps ==
    ASSUME AuthTypes, Caches, NEW a \in 1..Len(auth), NEW h \in Hosts, NEW leaf, Certificate(a, h, leaf)
    PROVE  /\ auth' \in Seq(CaState) /\ Len(auth') = Len(auth)
           /\ \A b \in 1..Len(auth) : auth'[b].end = auth[b].end
           /\ Caches'
           /\ leaf \in Leaf /\ OwnLeaf(leaf, a)
           /\ leaf.till > now + Margin \/ leaf.till = auth[a].end
<1>1. /\ auth \in Seq(CaState) /\ Len(auth) \in Nat /\ auth[a] \in CaState /\ now \in Nat
      /\ auth[a].end \in Nat /\ auth[a].cache \in [Hosts -> Leaf]
  <2>1. auth \in Seq(CaState) /\ Len(auth) \in Nat /\ auth[a] \in CaState /\ now \in Nat BY DEF AuthTypes
  <2>2. \A r \in CaState : r.end \in Nat /\ r.cache \in [Hosts -> Leaf] BY DEF CaState
  <2> QED BY <2>1, <2>2
<1>2. CASE auth[a].cache[h] # NoLeaf /\ Lasts(auth[a].cache[h])
  <2>1. leaf = auth[a].cache[h] /\ UNCHANGED auth BY <1>2 DEF Certificate
  <2>2. leaf \in Leaf /\ OwnLeaf(leaf, a) BY <1>1, <1>2, <2>1 DEF Caches
  <2>3. leaf.till > now + Margin BY <1>2, <2>1 DEF Lasts
  <2>4. Caches' BY <2>1 DEF Caches, OwnLeaf
  <2> QED BY <1>1, <2>1, <2>2, <2>3, <2>4
<1>3. CASE ~(auth[a].cache[h] # NoLeaf /\ Lasts(auth[a].cache[h]))
  <2>1. leaf = Issued(a) BY <1>3 DEF Certificate
  <2>2. PICK c \in Evictions(a) :
          auth' = [auth EXCEPT ![a] = [end |-> auth[a].end, cache |-> [c EXCEPT ![h] = leaf]]]
    BY <1>3 DEF Certificate
  <2>3. /\ leaf.by = a /\ leaf \in Leaf /\ leaf.till <= auth[a].end
        /\ leaf.till = now + Life \/ leaf.till = auth[a].end
    <3> DEFINE m == Min({now + Life, auth[a].end})
    <3>1. now + Life \in Nat BY <1>1, LeafAssumption
    <3>2. m \in {now + Life, auth[a].end} /\ m <= auth[a].end BY <1>1, <3>1, MinOfTwo
    <3>3. a \in Nat /\ m \in Nat BY <1>1, <3>1, <3>2
    <3>4. leaf = [by |-> a, till |-> m] BY <2>1 DEF Issued
    <3> HIDE DEF m
    <3>5. leaf.by = a /\ leaf.till = m /\ leaf \in Leaf BY <3>3, <3>4 DEF Leaf
    <3> QED BY <3>2, <3>5
  <2>4. leaf.till > now + Margin \/ leaf.till = auth[a].end BY <1>1, <2>3, LeafAssumption
  <2>5. c \in [Hosts -> Leaf] /\ \A g \in Hosts : c[g] = NoLeaf \/ c[g] = auth[a].cache[g]
    <3>1. NoLeaf \in Leaf BY DEF NoLeaf, Leaf
    <3>2. CASE c = auth[a].cache BY <1>1, <3>2
    <3>3. CASE \E g \in Cached(a) : c = [auth[a].cache EXCEPT ![g] = NoLeaf] BY <1>1, <3>1, <3>3
    <3> QED BY <3>2, <3>3 DEF Evictions
  <2> DEFINE new == [c EXCEPT ![h] = leaf]
             rec == [end |-> auth[a].end, cache |-> new]
  <2>6. new \in [Hosts -> Leaf] /\ \A g \in Hosts : new[g] = NoLeaf \/ new[g] = auth[a].cache[g] \/ new[g] = leaf
    BY <2>3, <2>5
  <2>7. auth' = [auth EXCEPT ![a] = rec] BY <2>2
  <2>8. rec \in CaState /\ rec.end = auth[a].end /\ rec.cache = new BY <1>1, <2>6 DEF CaState
  <2> HIDE DEF new, rec
  <2>9. /\ auth' \in Seq(CaState) /\ Len(auth') = Len(auth) /\ auth'[a] = rec
         /\ \A b \in 1..Len(auth) : b # a => auth'[b] = auth[b]
    BY <1>1, <2>7, <2>8
  <2>10. \A b \in 1..Len(auth) : auth'[b].end = auth[b].end BY <2>8, <2>9
  <2>11. OwnLeaf(leaf, a) BY <2>3 DEF OwnLeaf
  <2>12. ASSUME NEW b \in 1..Len(auth), NEW f, OwnLeaf(f, b) PROVE OwnLeaf(f, b)' BY <2>10, <2>12 DEF OwnLeaf
  <2>13. Caches'
    <3> SUFFICES ASSUME NEW b \in 1..Len(auth), NEW g \in Hosts
                 PROVE  auth'[b].cache[g] = NoLeaf \/ OwnLeaf(auth[b].cache[g], b)'
      BY <2>9 DEF Caches
    <3>1. CASE b = a
      <4>1. auth'[b].cache[g] = new[g] BY <2>8, <2>9, <3>1
      <4>2. new[g] = NoLeaf \/ OwnLeaf(new[g], a) BY <2>6, <2>11 DEF Caches
      <4> QED BY <2>10, <3>1, <4>1, <4>2 DEF OwnLeaf
    <3>2. CASE b # a
      <4>1. auth'[b] = auth[b] BY <2>9, <3>2
      <4> QED BY <4>1 DEF Caches, OwnLeaf
    <3> QED BY <3>1, <3>2
  <2> QED BY <2>3, <2>4, <2>9, <2>10, <2>11, <2>13
<1> QED BY <1>2, <1>3

(* What a connection was shown stays as good while Authorities come and time *)
(* passes.                                                                   *)
LEMMA ShownStays ==
    ASSUME AuthTypes, Shown, UNCHANGED conn, now' \in Nat, now <= now', Len(auth') \in Nat, Len(auth) <= Len(auth'),
           \A a \in 1..Len(auth) : auth'[a].end = auth[a].end
    PROVE  Shown'
<1>1. conn.snap \in 1..Len(auth) /\ conn.snap \in 1..Len(auth') BY DEF AuthTypes, Shown
<1>2. auth'[conn.snap].end = auth[conn.snap].end BY <1>1
<1> QED BY <1>1, <1>2 DEF AuthTypes, Shown, OwnLeaf

LEMMA NextLeafInv == LeafInv /\ [Next]_vars => LeafInv'
<1> SUFFICES ASSUME LeafInv, [Next]_vars PROVE LeafInv' OBVIOUS
<1>1. AuthTypes /\ Caches /\ now \in Nat /\ Len(auth) \in Nat BY DEF LeafInv, AuthTypes
<1>2. ASSUME UNCHANGED <<avars, conn>>, pc' = "hello" => pc = "hello",
             pc' \in Shaking => pc \in Shaking, pc = "start" => pc' = "start"
      PROVE  LeafInv'
  <2>1. UNCHANGED <<now, auth, cur, conn>> BY <1>2 DEF avars
  <2>2. AuthTypes' /\ Caches' BY <1>1, <2>1 DEF AuthTypes, Caches, OwnLeaf
  <2>3. pc' \in Shaking => Shown' BY <1>2, <2>1 DEF LeafInv, Shown, OwnLeaf
  <2> QED BY <1>2, <2>1, <2>2, <2>3 DEF LeafInv
<1>3. CASE Start
  <2>1. Load /\ pc' = "idle" BY <1>3 DEF Start
  <2> QED BY <1>1, <2>1, LoadKeeps DEF LeafInv, Shaking
<1>4. CASE Correct
  <2>1. UNCHANGED <<avars, conn, pc>> BY <1>4 DEF Correct
  <2> QED BY <1>2, <2>1
<1>4a. CASE Accept
  <2>1. pc = "idle" /\ pc' = "hello" /\ UNCHANGED <<now, auth, cur>> BY <1>4a DEF Accept, avars
  <2>2. conn'.snap = cur /\ conn'.since = now BY <1>4a DEF Accept, NoConn, Accepted
  <2>3. cur \in 1..Len(auth) BY <1>1, <2>1 DEF LeafInv, AuthTypes
  <2>4. AuthTypes' /\ Caches' BY <1>1, <2>1 DEF AuthTypes, Caches, OwnLeaf
  <2> QED BY <1>1, <2>1, <2>2, <2>3, <2>4 DEF LeafInv, Shaking
<1>5. CASE Hello
  <2> DEFINE a == conn.snap
  <2>1. pc = "hello" /\ UNCHANGED <<now, cur>> BY <1>5 DEF Hello
  <2>2. a \in 1..Len(auth) /\ conn.since \in Nat /\ conn.since <= now BY <2>1 DEF LeafInv
  <2>3. CASE UNCHANGED <<auth, conn>> /\ pc' = "failed"
    BY <1>2, <2>1, <2>3 DEF avars, Shaking
  <2>4. CASE \E h \in Hosts, o \in Offers, m \in Modes, leaf \in Leaves :
               /\ Certificate(a, h, leaf)
               /\ conn' = [snap |-> conn.snap, mode |-> m, offered |-> o, leaf |-> leaf, since |-> conn.since]
               /\ pc' = "lookup"
    <3>1. PICK h \in Hosts, o \in Offers, m \in Modes, leaf \in Leaves :
               /\ Certificate(a, h, leaf)
               /\ conn' = [snap |-> conn.snap, mode |-> m, offered |-> o, leaf |-> leaf, since |-> conn.since]
               /\ pc' = "lookup"
      BY <2>4
    <3>2. /\ auth' \in Seq(CaState) /\ Len(auth') = Len(auth)
          /\ \A b \in 1..Len(auth) : auth'[b].end = auth[b].end
          /\ Caches' /\ leaf \in Leaf /\ OwnLeaf(leaf, a)
          /\ leaf.till > now + Margin \/ leaf.till = auth[a].end
      BY <1>1, <2>2, <3>1, CertificateKeeps
    <3>3. conn'.snap = a /\ conn'.since = conn.since /\ conn'.leaf = leaf BY <3>1
    <3>4. auth'[a].end = auth[a].end BY <2>2, <3>2
    <3>5. OwnLeaf(conn.leaf, conn.snap)' BY <3>2, <3>3, <3>4 DEF OwnLeaf
    <3>6. leaf.till > conn.since + Margin \/ leaf.till = auth[a].end
      BY <1>1, <2>2, <3>2, LeafAssumption DEF Leaf
    <3>7. Shown' BY <1>1, <2>1, <2>2, <3>2, <3>3, <3>4, <3>5, <3>6 DEF Shown
    <3>8. AuthTypes' BY <1>1, <2>1, <3>2 DEF AuthTypes, LeafInv
    <3> QED BY <2>1, <3>1, <3>2, <3>7, <3>8 DEF LeafInv
  <2> QED BY <1>5, <2>3, <2>4 DEF Hello
<1>6. CASE Lookup \/ Dial \/ Handshake \/ Client \/ Verify
  <2>1. UNCHANGED <<avars, conn>> /\ pc \in Shaking /\ pc' # "hello"
    BY <1>6 DEF Lookup, Dial, Skip, Handshake, AfterFailure, Client, Verify, Shaking
  <2>2. pc # "start" BY <2>1 DEF Shaking
  <2> QED BY <1>2, <2>1, <2>2
<1>7. CASE Finish
  <2>1. UNCHANGED <<now, auth, cur>> /\ pc' = "idle" /\ pc # "start" BY <1>7 DEF Finish, avars
  <2>2. AuthTypes' /\ Caches' BY <1>1, <2>1 DEF AuthTypes, Caches, OwnLeaf
  <2> QED BY <2>1, <2>2 DEF LeafInv, Shaking
<1>8. CASE ContextEnds \/ UNCHANGED vars
  <2>1. UNCHANGED <<avars, conn, pc>> BY <1>8 DEF ContextEnds, vars
  <2> QED BY <1>2, <2>1
<1>9. CASE Tick
  <2>1. now' = now + 1 /\ UNCHANGED <<auth, cur, conn, pc>> BY <1>9 DEF Tick, cvars
  <2>2. AuthTypes' /\ Caches' BY <1>1, <2>1 DEF AuthTypes, Caches, OwnLeaf
  <2>3. pc' \in Shaking => Shown' BY <1>1, <2>1, ShownStays DEF LeafInv
  <2> QED BY <1>1, <2>1, <2>2, <2>3 DEF LeafInv
<1>10. CASE Reload
  <2>1. Load /\ UNCHANGED <<conn, pc>> BY <1>10 DEF Reload, cvars
  <2>2. /\ AuthTypes' /\ Caches' /\ cur' # 0 /\ UNCHANGED now
        /\ Len(auth') = Len(auth) + 1 /\ \A a \in 1..Len(auth) : auth'[a] = auth[a]
    BY <1>1, <2>1, LoadKeeps
  <2>3. pc' \in Shaking => Shown' BY <1>1, <2>1, <2>2, ShownStays DEF LeafInv
  <2> QED BY <2>1, <2>2, <2>3 DEF LeafInv
<1> QED BY <1>3, <1>4, <1>4a, <1>5, <1>6, <1>7, <1>8, <1>9, <1>10 DEF Next

(* No client is shown a foreign, outliving or expiring leaf, whatever the    *)
(* cache holds and whatever is evicted or reloaded; the margin must be a day *)
(* at least, the time a handshake is given here (ca.go:133-177).             *)
THEOREM LeafAlwaysGood == Spec => []LeafGood
<1>1. Init => LeafInv
  <2> SUFFICES ASSUME Init PROVE LeafInv OBVIOUS
  <2>1. now = 0 /\ auth = <<>> /\ cur = 0 /\ pc = "start" BY DEF Init, AuthorityInit
  <2>2. Len(auth) = 0 /\ auth \in Seq(CaState) BY <2>1
  <2> QED BY <2>1, <2>2 DEF LeafInv, AuthTypes, Caches, Shaking
<1>2. LeafInv => LeafGood
  <2> SUFFICES ASSUME LeafInv, pc \in {"client", "verify", "relaying"}, now <= conn.since + 1
               PROVE  /\ conn.leaf.by = conn.snap
                      /\ conn.leaf.till <= auth[conn.snap].end
                      /\ now < conn.leaf.till \/ ~Valid(conn.snap)
    BY DEF LeafGood
  <2>1. Shown /\ now \in Nat BY DEF LeafInv, Shaking, AuthTypes
  <2>2. conn.leaf.till \in Nat /\ conn.since \in Nat BY <2>1 DEF Shown, Leaf
  <2>3. OwnLeaf(conn.leaf, conn.snap) BY <2>1 DEF Shown
  <2>4. CASE conn.leaf.till > conn.since + Margin BY <2>1, <2>2, <2>3, <2>4, LeafAssumption DEF OwnLeaf
  <2>5. CASE conn.leaf.till = auth[conn.snap].end BY <2>3, <2>5 DEF OwnLeaf, Valid
  <2> QED BY <2>1, <2>4, <2>5 DEF Shown
<1> QED BY <1>1, <1>2, NextLeafInv, PTL DEF Spec

-----------------------------------------------------------------------------
(* The configuration in force *)

Domains == <<"domains", "-">>

(* What Accepts asks of a document, field by field.                          *)
Checked(doc) == IsDocument(doc) /\ CheckJSON(doc) /\ exactFields(doc) /\ Decodes(doc)

(* No object of an accepted document has two members of one name.            *)
LEMMA OncePerName ==
    ASSUME NEW object, IsObject(object), Distinct(Keys(object)), \A k \in DOMAIN object : object[k].exact
    PROVE  \A a, b \in DOMAIN object : object[a].name = object[b].name => a = b
<1> SUFFICES ASSUME NEW a \in DOMAIN object, NEW b \in DOMAIN object, object[a].name = object[b].name PROVE a = b OBVIOUS
<1>1. object[a].exact = TRUE /\ object[b].exact = TRUE BY DEF IsObject
<1>2. Keys(object)[a] = Keys(object)[b] /\ DOMAIN Keys(object) = DOMAIN object BY <1>1 DEF Keys
<1> QED BY <1>2 DEF Distinct

(* An accepted document gives a plain field at most once, as a value.        *)
LEMMA PlainOnce ==
    ASSUME NEW doc, Checked(doc), NEW f \in DOMAIN Fields, Fields[f] = {}
    PROVE  \/ Said(doc, <<f, "-">>) = {} /\ Members(doc, <<f, "-">>) = {}
           \/ \E k \in DOMAIN doc :
                 /\ Said(doc, <<f, "-">>) = {doc[k]} /\ Members(doc, <<f, "-">>) = {<<k, 0>>}
                 /\ k \in Nat /\ doc[k].exact /\ doc[k].kind = "plain"
<1> DEFINE K == { k \in DOMAIN doc : doc[k].name = f }
<1>1. \A a, b \in K : a = b BY OncePerName DEF Checked, IsDocument, CheckJSON, exactFields
<1>2. \A k \in K : doc[k].kind = "plain" /\ doc[k].exact /\ k \in Nat
  BY DEF Checked, IsDocument, IsObject, CheckJSON, exactFields, Decodes, Nested
<1>3. Said(doc, <<f, "-">>) = { doc[k] : k \in K } BY DEF Said
<1>4. Members(doc, <<f, "-">>) = K \X {0} BY <1>2 DEF Members
<1>5. CASE K = {} BY <1>3, <1>4, <1>5
<1>6. CASE K # {}
  <2>1. PICK k \in K : K = {k} BY <1>1, <1>6
  <2>2. { doc[j] : j \in K } = {doc[k]} /\ K \X {0} = {<<k, 0>>} BY <2>1
  <2> QED BY <1>2, <1>3, <1>4, <2>1, <2>2
<1> QED BY <1>5, <1>6

(* And a field of an object.                                                 *)
LEMMA NestedOnce ==
    ASSUME NEW doc, Checked(doc), NEW f \in DOMAIN Fields, NEW g \in Fields[f]
    PROVE  \/ Said(doc, <<f, g>>) = {} /\ Members(doc, <<f, g>>) = {}
           \/ \E k \in DOMAIN doc : \E j \in DOMAIN doc[k].of :
                 /\ Said(doc, <<f, g>>) = {doc[k].of[j]} /\ Members(doc, <<f, g>>) = {<<k, j>>}
                 /\ k \in Nat /\ j \in Nat \ {0} /\ doc[k].of[j].exact /\ doc[k].of[j].kind = "plain"
<1> DEFINE K == { k \in DOMAIN doc : doc[k].name = f /\ Nested(doc[k]) }
           J(k) == { j \in DOMAIN doc[k].of : doc[k].of[j].name = g }
<1>0. g # "-" BY FieldsAssumption
<1>1. \A a, b \in K : a = b BY OncePerName DEF Checked, IsDocument, CheckJSON, exactFields
<1>2. ASSUME NEW k \in K
      PROVE  /\ k \in Nat
             /\ \A a, b \in J(k) : a = b
             /\ \A j \in J(k) : j \in Nat \ {0} /\ doc[k].of[j].exact /\ doc[k].of[j].kind = "plain"
  <2>1. IsObject(doc[k].of) /\ Distinct(Keys(doc[k].of)) /\ k \in Nat
    BY DEF Checked, IsDocument, IsObject, CheckJSON
  <2>2. \A j \in DOMAIN doc[k].of : doc[k].of[j].exact /\ doc[k].of[j].kind # "null" /\ doc[k].of[j].kind # "object"
    BY DEF Checked, CheckJSON, exactFields, Decodes, Nested
  <2> QED BY <2>1, <2>2, OncePerName DEF IsObject
<1>3. Said(doc, <<f, g>>) = UNION { { doc[k].of[j] : j \in J(k) } : k \in K }
  BY <1>0 DEF Said
<1>4. Members(doc, <<f, g>>) = UNION { {k} \X J(k) : k \in K }
  BY <1>0, <1>2 DEF Members
<1>5. CASE K = {} BY <1>3, <1>4, <1>5
<1>6. CASE K # {}
  <2>1. PICK k \in K : K = {k} BY <1>1, <1>6
  <2>2. Said(doc, <<f, g>>) = { doc[k].of[j] : j \in J(k) } /\ Members(doc, <<f, g>>) = {k} \X J(k)
    BY <1>3, <1>4, <2>1
  <2>3. CASE J(k) = {} BY <2>2, <2>3
  <2>4. CASE J(k) # {}
    <3>1. PICK j \in J(k) : J(k) = {j} BY <1>2, <2>1, <2>4
    <3>2. { doc[k].of[x] : x \in J(k) } = {doc[k].of[j]} /\ {k} \X J(k) = {<<k, j>>} BY <3>1
    <3> QED BY <1>2, <2>1, <2>2, <3>1, <3>2
  <2> QED BY <2>3, <2>4
<1> QED BY <1>5, <1>6

LEMMA LatestOne == ASSUME NEW k \in Nat, NEW j \in Nat PROVE Latest({<<k, j>>}) = <<k, j>>
BY DEF Latest

Base(doc) == [p \in Paths |-> IF Said(doc, p) = {} THEN Default[p] ELSE (CHOOSE m \in Said(doc, p) : TRUE).value]

(* So the decoder reads what is said.                                        *)
LEMMA DecodeExact ==
    ASSUME NEW doc, Checked(doc)
    PROVE  Decode(doc) = Base(doc) /\ Unambiguous(doc)
<1>1. ASSUME NEW p \in Paths
      PROVE  /\ Decode(doc)[p] = Base(doc)[p]
             /\ Cardinality(Said(doc, p)) <= 1
             /\ \A m \in Said(doc, p) : m.exact /\ m.kind = "plain"
  <2>1. \/ Said(doc, p) = {} /\ Members(doc, p) = {}
        \/ \E q, m : /\ Said(doc, p) = {m} /\ Members(doc, p) = {q}
                     /\ Latest({q}) = q /\ MemberAt(doc, q) = m /\ m.exact /\ m.kind = "plain"
    <3>1. PICK f \in DOMAIN Fields : p \in IF Fields[f] = {} THEN {<<f, "-">>} ELSE {f} \X Fields[f] BY DEF Paths
    <3>2. CASE Fields[f] = {}
      <4>1. p = <<f, "-">> BY <3>1, <3>2
      <4>2. CASE Said(doc, p) = {} /\ Members(doc, p) = {} BY <4>2
      <4>3. ASSUME NEW k \in DOMAIN doc, Said(doc, p) = {doc[k]}, Members(doc, p) = {<<k, 0>>},
                   k \in Nat, doc[k].exact, doc[k].kind = "plain"
            PROVE  \E q, m : /\ Said(doc, p) = {m} /\ Members(doc, p) = {q}
                             /\ Latest({q}) = q /\ MemberAt(doc, q) = m /\ m.exact /\ m.kind = "plain"
        <5>1. Latest({<<k, 0>>}) = <<k, 0>> BY <4>3, LatestOne
        <5>2. MemberAt(doc, <<k, 0>>) = doc[k] BY DEF MemberAt
        <5> QED BY <4>3, <5>1, <5>2
      <4> QED BY <3>2, <4>1, <4>2, <4>3, PlainOnce
    <3>3. CASE Fields[f] # {}
      <4>1. PICK g \in Fields[f] : p = <<f, g>> BY <3>1, <3>3
      <4>2. CASE Said(doc, p) = {} /\ Members(doc, p) = {} BY <4>2
      <4>3. ASSUME NEW k \in DOMAIN doc, NEW j \in DOMAIN doc[k].of, Said(doc, p) = {doc[k].of[j]}, Members(doc, p) = {<<k, j>>},
                   k \in Nat, j \in Nat \ {0}, doc[k].of[j].exact, doc[k].of[j].kind = "plain"
            PROVE  \E q, m : /\ Said(doc, p) = {m} /\ Members(doc, p) = {q}
                             /\ Latest({q}) = q /\ MemberAt(doc, q) = m /\ m.exact /\ m.kind = "plain"
        <5>1. Latest({<<k, j>>}) = <<k, j>> BY <4>3, LatestOne
        <5>2. MemberAt(doc, <<k, j>>) = doc[k].of[j] BY <4>3 DEF MemberAt
        <5> QED BY <4>3, <5>1, <5>2
      <4>4. \/ Said(doc, p) = {} /\ Members(doc, p) = {}
            \/ \E k \in DOMAIN doc : \E j \in DOMAIN doc[k].of :
                  /\ Said(doc, p) = {doc[k].of[j]} /\ Members(doc, p) = {<<k, j>>}
                  /\ k \in Nat /\ j \in Nat \ {0} /\ doc[k].of[j].exact /\ doc[k].of[j].kind = "plain"
        BY <4>1, NestedOnce, Zenon
      <4> QED BY <4>2, <4>3, <4>4, Zenon
    <3> QED BY <3>2, <3>3
  <2>2. CASE Said(doc, p) = {} /\ Members(doc, p) = {}
    BY <2>2, FS_EmptySet DEF Decode, Base
  <2>3. ASSUME NEW q, NEW m, Said(doc, p) = {m}, Members(doc, p) = {q}, Latest({q}) = q,
               MemberAt(doc, q) = m, m.exact, m.kind = "plain"
        PROVE  /\ Decode(doc)[p] = Base(doc)[p]
               /\ Cardinality(Said(doc, p)) <= 1
               /\ \A n \in Said(doc, p) : n.exact /\ n.kind = "plain"
    <3>1. Cardinality({m}) = 1 BY FS_Singleton
    <3>2. Decode(doc)[p] = m.value BY <2>3 DEF Decode
    <3>3. Base(doc)[p] = m.value BY <2>3 DEF Base
    <3> QED BY <2>3, <3>1, <3>2, <3>3
  <2> QED BY <2>1, <2>2, <2>3
<1>2. Decode(doc) = [p \in Paths |-> Decode(doc)[p]] BY DEF Decode
<1>3. Base(doc) = [p \in Paths |-> Base(doc)[p]] BY DEF Base
<1> QED BY <1>1, <1>2, <1>3 DEF Unambiguous

(* Normalising the domains before the flags as well changes nothing.         *)
LEMMA NormalTwice ==
    ASSUME NEW c, DOMAIN c = Paths, c[Domains] \in Allowed[Domains], NEW flags
    PROVE  Normal(Flagged(Normal(c), flags)) = Normal(Flagged(c, flags))
<1>1. Domains \in Paths BY FieldsAssumption DEF Paths, Domains
<1> DEFINE n == Normal(c)
           a == Flagged(n, flags)
           b == Flagged(c, flags)
<1>2. DOMAIN n = Paths /\ n[Domains] = [k \in DOMAIN c[Domains] |-> Spelling[c[Domains][k]]]
      /\ \A p \in Paths \ {Domains} : n[p] = c[p]
  BY <1>1 DEF Normal, Domain, Domains
<1>3. DOMAIN a = Paths /\ DOMAIN b = Paths BY DEF Flagged
<1>4. a[Domains] = n[Domains] /\ b[Domains] = c[Domains]
  <2>1. Domains # <<"listen", "-">> /\ Domains # <<"dns", "mode">> /\ Domains # <<"dns", "servers">> BY DEF Domains
  <2> HIDE DEF n
  <2> QED BY <1>1, <2>1 DEF Flagged
<1>5. \A p \in Paths \ {Domains} : a[p] = b[p]
  <2> HIDE DEF n
  <2> QED BY <1>2 DEF Flagged
<1> HIDE DEF n, a, b
<1>6. \A k \in DOMAIN c[Domains] : Spelling[Spelling[c[Domains][k]]] = Spelling[c[Domains][k]]
  BY SpellingAssumption DEF Domains
<1>7. [k \in DOMAIN a[Domains] |-> Spelling[a[Domains][k]]] = [k \in DOMAIN b[Domains] |-> Spelling[b[Domains][k]]]
  BY <1>2, <1>4, <1>6
<1>8. Normal(a) = Normal(b) BY <1>1, <1>3, <1>5, <1>7 DEF Normal, Domain, Domains
<1> QED BY <1>8 DEF n, a, b

LEMMA LoadIs ==
    ASSUME NEW doc, NEW flags, IsDocument(doc), Accepts(doc, flags)
    PROVE  Unambiguous(doc) /\ Loaded(doc, flags) = Meaning(doc, flags)
<1>1. Checked(doc) BY DEF Checked, Accepts
<1>2. Decode(doc) = Base(doc) /\ Unambiguous(doc) BY <1>1, DecodeExact
<1>3. DOMAIN Decode(doc) = Paths BY DEF Decode
<1>4. Decode(doc)[Domains] \in Allowed[Domains]
  <2>1. Domains \in Paths BY FieldsAssumption DEF Paths, Domains
  <2> QED BY <2>1 DEF Accepts, Validate
<1>5. Normal(Flagged(Normal(Decode(doc)), flags)) = Normal(Flagged(Decode(doc), flags)) BY <1>3, <1>4, NormalTwice
<1>6. Meaning(doc, flags) = Normal(Flagged(Base(doc), flags)) BY DEF Meaning, Base
<1> QED BY <1>2, <1>5, <1>6 DEF Loaded

(* What is still to be read is a document.                                   *)
DocInv == pc = "start" => IsDocument(input.doc)

(* The configuration in force is what a reader takes the file to say, under  *)
(* the flags, for every document of two levels: no field is said twice, in   *)
(* another case, as null or in the wrong place (config.go:106-220,           *)
(* cli.go:374-396).                                                          *)
THEOREM AlwaysLoadExact == Spec => []LoadExact
<1>1. Init => DocInv BY InputsAssumption DEF Init, DocInv
<1>2. DocInv /\ [Next]_vars => DocInv'
  <2> SUFFICES ASSUME DocInv, [Next]_vars, pc' = "start" PROVE IsDocument(input'.doc) BY DEF DocInv
  <2>1. CASE Correct
    <3>1. IsDocument(<<>>) BY DEF IsDocument, IsObject
    <3> QED BY <2>1, <3>1 DEF Correct
  <2>2. CASE UNCHANGED <<input, pc>> BY <2>2 DEF DocInv
  <2> QED BY <2>1, <2>2
      DEF Next, Start, Accept, Hello, Lookup, Dial, Skip, Handshake, AfterFailure, Client, Verify, Finish,
          ContextEnds, Tick, Reload, cvars, vars
<1>3. DocInv => LoadExact BY LoadIs DEF DocInv, LoadExact
<1> QED BY <1>1, <1>2, <1>3, PTL DEF Spec
=============================================================================
