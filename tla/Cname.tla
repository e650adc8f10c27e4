-------------------------------- MODULE Cname --------------------------------
(***************************************************************************)
(* resolve (internal/dns/resolver.go): the A query to one server, with the *)
(* aliases it follows inside an answer and from answer to answer. Names    *)
(* are compared after lower-casing, so a name is a model value. The world  *)
(* is a zone, and the answers a server may give from it (external): the    *)
(* first aliases of the chain and records nobody asked for, where it is    *)
(* honest, or anything, where it lies. Limit is the code's 8.              *)
(***************************************************************************)
EXTENDS Integers, FiniteSets, FiniteSetsExt

CONSTANTS Names, Host, NoName, Limit, MaxTtl, Worlds
ASSUME NamesAssumption == IsFiniteSet(Names) /\ Host \in Names /\ NoName \notin Names
ASSUME LimitAssumption == Limit \in Nat /\ MaxTtl \in Nat
(* "others": honest, with records of other types as well.                   *)
ASSUME WorldsAssumption == Worlds \subseteq {"honest", "others", "lying"}

VARIABLES
    world,     \* the kind of server
    zone,      \* [alias: the CNAME of a name or NoName, addr: names with an A, ttl]
    name,      \* the name asked for
    owner,     \* where the answer's chain has been followed to
    seen, hop, ttl,
    answer,    \* the records received: [owner, kind, target, ttl]
    stage,
    out,       \* "none" until resolve returns
    used       \* history: the records of the chain followed so far

rvars == <<world, zone, name, owner, seen, hop, ttl, answer, stage, out, used>>

Zones ==
    { z \in [alias : [Names -> Names \cup {NoName}], addr : SUBSET Names, ttl : [Names -> 0..MaxTtl]] :
          \A n \in z.addr : z.alias[n] = NoName }

NoZone == [alias |-> [n \in Names |-> NoName], addr |-> {}, ttl |-> [n \in Names |-> 0]]

-----------------------------------------------------------------------------
(* What a server answers (external)                                          *)

ChainOf(z, n) ==
    LET c[k \in 0..Cardinality(Names)] ==
            IF k = 0 THEN n
            ELSE IF c[k-1] = NoName THEN NoName ELSE z.alias[c[k-1]]
    IN c

RecordsAt(z, n) ==
    IF n \notin Names THEN {}
    ELSE {[owner |-> n, kind |-> "A", target |-> NoName, ttl |-> z.ttl[n]] : x \in z.addr \cap {n}}
         \cup {[owner |-> n, kind |-> "CNAME", target |-> t, ttl |-> z.ttl[n]] : t \in {z.alias[n]} \ {NoName}}

Other(n) == [owner |-> n, kind |-> "other", target |-> NoName, ttl |-> 0]

(* A prefix of the chain, and addresses of unrelated names; "others" adds a  *)
(* record of another type at the name after the prefix.                      *)
HonestAnswers(n) ==
    LET c == ChainOf(zone, n)
        part(k) == UNION { RecordsAt(zone, c[i]) : i \in 0..k }
        rest == UNION { RecordsAt(zone, m) : m \in zone.addr \ { c[i] : i \in DOMAIN c } }
    IN { part(k) \cup extra \cup other :
             k \in DOMAIN c, extra \in {{}, rest},
             other \in {{}} \cup (IF world = "others" THEN {{Other(m)} : m \in Names} ELSE {}) }

Pool == [owner : Names, kind : {"CNAME"}, target : Names, ttl : {0}]
        \cup [owner : Names, kind : {"A", "other"}, target : {NoName}, ttl : {0}]
AnyAnswers == {{}} \cup { {r1, r2, r3} : r1, r2, r3 \in Pool }

Responses == IF world = "lying" THEN AnyAnswers ELSE HonestAnswers(name)

-----------------------------------------------------------------------------
(* resolve *)

Returns(result) == out' = result /\ stage' = "done"

(* The head of the loop over hops, one exchange, and the checks on the       *)
(* response; a truncated one is fetched again over TCP.                      *)
Refused == hop > Limit \/ name \in seen

NextSeen == seen \cup {name}

Exchange ==
    /\ stage = "query"
    /\ \/ /\ Refused
          /\ Returns("cycle")       \* or dns_cname_limit
          /\ UNCHANGED <<seen, owner, answer>>
       \/ /\ ~Refused
          /\ Returns("failed")      \* exchange, malformed response, rcode
          /\ seen' = NextSeen
          /\ UNCHANGED <<owner, answer>>
       \/ /\ ~Refused
          /\ seen' = NextSeen
          /\ answer' \in Responses
          /\ owner' = name
          /\ stage' = "scan"
          /\ UNCHANGED out
    /\ UNCHANGED <<world, zone, name, hop, ttl, used>>

OwnedAnyAddress == { r \in answer : r.owner = owner \/ r.kind = "A" }  \* Mutant
Owned == { r \in answer : r.owner = owner }

Aliases == { r.target : r \in { r \in Owned : r.kind = "CNAME" } }
Addresses == { r \in Owned : r.kind = "A" }

(* min over the records of the owner, and all those before it.               *)
LowerOfLast(t) == Min({MaxTtl + 1} \cup { r.ttl : r \in { r \in Owned : r.kind # "other" } })  \* Mutant
Lower(t) == Min({t} \cup { r.ttl : r \in { r \in Owned : r.kind # "other" } })

LimitedEarly == Cardinality(seen) >= Limit   \* Mutant: one alias fewer
Limited == Cardinality(seen) > Limit

Ask(n) ==
    /\ name' = n /\ hop' = hop + 1 /\ stage' = "query" /\ answer' = {}
    /\ UNCHANGED <<owner, seen, out>>

FollowedSame(n) == seen             \* Mutant: an alias inside an answer is not recorded
Followed(n) == seen \cup {n}

(* One turn of the loop over the owners of an answer.                        *)
Scan ==
    /\ stage = "scan"
    /\ ttl' = Lower(ttl)
    /\ used' = used \cup { r \in answer : r.owner = owner /\ r.kind # "other" }
    /\ \/ /\ Cardinality(Aliases) > 1 \/ (Aliases # {} /\ Addresses # {})
          /\ Returns("conflict")
          /\ UNCHANGED <<name, owner, seen, hop, answer>>
       \/ /\ Addresses # {} /\ Aliases = {}
          /\ Returns("found")
          /\ UNCHANGED <<name, owner, seen, hop, answer>>
       \/ /\ Addresses = {} /\ Aliases = {} /\ owner = name
          /\ Returns("nodata")
          /\ UNCHANGED <<name, owner, seen, hop, answer>>
       \/ /\ Addresses = {} /\ Aliases = {} /\ owner # name
          /\ Ask(owner)
       \/ \E next \in Names :
          /\ Addresses = {} /\ Aliases = {next}
          /\ \/ /\ next \in seen \/ Limited
                /\ Returns("cycle")
                /\ UNCHANGED <<name, owner, seen, hop, answer>>
             \/ /\ next \notin seen /\ ~Limited
                /\ \A r \in answer : r.owner # next
                /\ Ask(next)
             \/ /\ next \notin seen /\ ~Limited
                /\ \E r \in answer : r.owner = next
                /\ seen' = Followed(next)
                /\ owner' = next
                /\ UNCHANGED <<name, hop, stage, out, answer>>
    /\ UNCHANGED <<world, zone>>

Done == stage = "done" /\ UNCHANGED rvars

ResolveInit ==
    /\ world \in Worlds
    /\ zone \in IF world = "lying" THEN {NoZone} ELSE Zones
    /\ name = Host /\ owner = Host
    /\ seen = {} /\ hop = 0 /\ ttl = MaxTtl + 1     \* ^uint32(0)
    /\ answer = {} /\ stage = "query" /\ out = "none" /\ used = {}

ResolveNext == Exchange \/ Scan \/ Done

ResolveSpec == ResolveInit /\ [][ResolveNext]_rvars
ResolveFairSpec == ResolveSpec /\ WF_rvars(Exchange \/ Scan)

-----------------------------------------------------------------------------
(* Properties *)

(* Types. The bound on hop leaves no room for dns_cname_limit: the set of    *)
(* names seen is at its limit before the loop over hops is                   *)
(* (resolver.go:218, 284, 304).                                              *)
ResolveTypeOK ==
    /\ world \in Worlds /\ name \in Names /\ owner \in Names /\ seen \subseteq Names
    /\ hop \in 0..Limit /\ ttl \in 0..(MaxTtl + 1)
    /\ stage \in {"query", "scan", "done"}
    /\ out \in {"none", "failed", "conflict", "found", "nodata", "cycle"}

(* The reference: the chain of the zone, Limit aliases long at the most.     *)
Target == LET c == ChainOf(zone, Host)
              ends == { k \in DOMAIN c : k <= Limit /\ c[k] # NoName /\ zone.alias[c[k]] = NoName }
          IN IF ends = {} THEN NoName ELSE c[Min(ends)]

(* resolve finds what the zone says, however a server splits the chain over  *)
(* its answers and whatever else they hold: the addresses at the end of a    *)
(* chain of at most Limit aliases, no address there, or a chain that is      *)
(* longer or has a cycle (resolver.go:252-300).                              *)
Exact ==
    world # "lying" =>
        /\ out = "found" => owner = Target /\ Target \in zone.addr
        /\ out = "nodata" => Target # NoName /\ Target \notin zone.addr
        /\ out = "cycle" => Target = NoName
        /\ out # "conflict"

(* The TTL returned, and so the time in the cache, is no longer than that of *)
(* any record on the way from the host to its addresses, over all the        *)
(* answers (resolver.go:216, 264, 272).                                      *)
TtlBounded == out = "found" => \A r \in used : ttl <= r.ttl

(* The least set with the host that the aliases followed do not lead out of. *)
Closed(S) == \A r \in used : r.kind = "CNAME" /\ r.owner \in S => r.target \in S
LedTo == { n \in Names : \A S \in SUBSET Names : Host \in S /\ Closed(S) => n \in S }

(* Whatever a server sends, resolve accepts only addresses of a name that the*)
(* aliases of the answers lead to from the host (resolver.go:252-260).       *)
Linked == out = "found" => owner \in LedTo /\ \A r \in Addresses : r.owner = owner

(* Whatever a server sends, resolve returns (resolver.go:218, 284-303).      *)
Terminates == <>(stage = "done")
=============================================================================
