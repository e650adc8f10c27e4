------------------------------ MODULE Authority ------------------------------
(***************************************************************************)
(* The CA of the daemon and its leaf certificates (internal/ca/ca.go):     *)
(* Load makes an Authority with an empty cache, Certificate returns the    *)
(* leaf of a host, a cached one where it lasts long enough. Certificate    *)
(* runs under a.mu and is one step. Times are in days; a reload replaces   *)
(* the daemon's Authority, connections keep the one they were accepted     *)
(* with. Keys and signatures are abstracted to who issued what.            *)
(***************************************************************************)
EXTENDS Integers, Sequences, FiniteSets, FiniteSetsExt

CONSTANTS
    Hosts,        \* configured domains
    Days,         \* 0..Days is the time observed
    Life,         \* 30 days in the code
    Margin,       \* a cached leaf is used while it lasts longer than this: 24 hours
    MaxLeaves,    \* the cache's size: 4096 in the code
    MaxLoads      \* loads observed
ASSUME LeafAssumption ==
    Days \in Nat /\ Life \in Nat /\ Margin \in Nat \ {0} /\ Margin < Life /\ MaxLeaves \in Nat \ {0} /\ MaxLoads \in Nat

VARIABLES
    now,
    auth,         \* the Authorities loaded so far: [end: NotAfter of the CA, cache]
    cur           \* the one of the current snapshot

avars == <<now, auth, cur>>

NoLeaf == [by |-> 0, till |-> 0]
Empty == [h \in Hosts |-> NoLeaf]
Cached(a) == { h \in Hosts : auth[a].cache[h] # NoLeaf }

-----------------------------------------------------------------------------
(* ca.Load, by New and by Reload: refused unless key and certificate match,  *)
(* may sign, and are valid now; the files may hold a new CA.                 *)
FirstCacheKept == IF cur = 0 THEN Empty ELSE auth[cur].cache      \* Mutant: leaves survive a reload
FirstCache == Empty

Load ==
    /\ Len(auth) < MaxLoads
    /\ \E end \in (now + 1)..(Days + 1) :
           auth' = Append(auth, [end |-> end, cache |-> FirstCache])
    /\ cur' = Len(auth')
    /\ UNCHANGED now

Valid(a) == now < auth[a].end

Lasts(leaf) == leaf.till > now + Margin

(* A leaf ends with its CA at the latest.                                    *)
Issued(a) == [by |-> a, till |-> Min({now + Life, auth[a].end})]

(* A full cache loses some entry first, whichever the map's order gives,     *)
(* even where the host has one that is about to be replaced.                 *)
Evictions(a) ==
    IF Cardinality(Cached(a)) >= MaxLeaves
    THEN { [auth[a].cache EXCEPT ![h] = NoLeaf] : h \in Cached(a) }
    ELSE { auth[a].cache }

(* Certificate(host) of Authority a returns leaf.                            *)
Certificate(a, h, leaf) ==
    /\ Valid(a)
    /\ \/ /\ auth[a].cache[h] # NoLeaf /\ Lasts(auth[a].cache[h])
          /\ leaf = auth[a].cache[h]
          /\ UNCHANGED auth
       \/ /\ ~(auth[a].cache[h] # NoLeaf /\ Lasts(auth[a].cache[h]))
          /\ leaf = Issued(a)
          /\ \E c \in Evictions(a) :
                 auth' = [auth EXCEPT ![a] = [end |-> @.end, cache |-> [c EXCEPT ![h] = leaf]]]

Leaves == [by : 0..MaxLoads, till : 0..(Days + 1)]

AuthorityInit ==
    /\ now = 0 /\ auth = <<>> /\ cur = 0
=============================================================================
