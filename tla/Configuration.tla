---------------------------- MODULE Configuration ----------------------------
(***************************************************************************)
(* Reading the configuration: config.Load with CheckJSON, exactFields and  *)
(* Validate (internal/config/config.go), and the load of the command,      *)
(* which lays its flags over the file (internal/cli/cli.go). A document is *)
(* a JSON object as the sequence of its members; a member's key is a field *)
(* name, spelled exactly or in another case; its value is null, a plain    *)
(* value as a sequence (of one for a scalar), or an object. The            *)
(* configuration type has two levels.                                      *)
(***************************************************************************)
EXTENDS Integers, FiniteSets

CONSTANTS
    Fields,       \* [top-level field -> set of its fields; {} for a plain one]
    Default,      \* [paths -> value]
    Allowed,      \* [paths -> values that Validate accepts by themselves]
    Spelling      \* [domains as they are written -> the lower-case name without a final dot]

ASSUME FieldsAssumption ==
    /\ "domains" \in DOMAIN Fields /\ Fields["domains"] = {}
    /\ \A f \in DOMAIN Fields : "-" \notin Fields[f]
(* A name in normal form is its own.                                         *)
ASSUME SpellingAssumption ==
    /\ \A d \in DOMAIN Spelling : Spelling[d] \in DOMAIN Spelling /\ Spelling[Spelling[d]] = Spelling[d]
    /\ \A s \in Allowed[<<"domains", "-">>] : \A k \in DOMAIN s : s[k] \in DOMAIN Spelling

(* A path is a field and a field within it, "-" for a plain field.           *)
Paths == UNION { IF Fields[f] = {} THEN {<<f, "-">>} ELSE {f} \X Fields[f] : f \in DOMAIN Fields }

Keys(object) == [k \in DOMAIN object |-> <<object[k].name, object[k].exact>>]
Distinct(s) == \A a, b \in DOMAIN s : s[a] = s[b] => a = b

Nested(m) == m.kind = "object"

IsObject(object) ==
    /\ DOMAIN object \subseteq Nat \ {0}
    /\ \A k \in DOMAIN object : object[k].exact \in BOOLEAN /\ object[k].kind \in {"plain", "null", "object"}
IsDocument(doc) == IsObject(doc) /\ \A k \in DOMAIN doc : Nested(doc[k]) => IsObject(doc[k].of)

-----------------------------------------------------------------------------
(* CheckJSON: no null and no key twice in an object, at any depth.           *)
CheckTop(doc) == Distinct(Keys(doc)) /\ \A k \in DOMAIN doc : doc[k].kind # "null"   \* Mutant: no look inside
CheckJSON(doc) ==
    /\ Distinct(Keys(doc))
    /\ \A k \in DOMAIN doc : doc[k].kind # "null"
    /\ \A k \in DOMAIN doc : Nested(doc[k]) =>
          Distinct(Keys(doc[k].of)) /\ \A j \in DOMAIN doc[k].of : doc[k].of[j].kind # "null"

(* exactFields: keys are field names, spelled like them, at both levels.     *)
exactFields(doc) ==
    \A k \in DOMAIN doc :
        /\ doc[k].exact /\ doc[k].name \in DOMAIN Fields
        /\ Fields[doc[k].name] # {} =>
              /\ Nested(doc[k])
              /\ \A j \in DOMAIN doc[k].of : doc[k].of[j].exact /\ doc[k].of[j].name \in Fields[doc[k].name]

(* The decoder (external) knows no case, ignores null, refuses values of the *)
(* wrong type and fields it does not know, and lets the last member win.     *)
Decodes(doc) ==
    \A k \in DOMAIN doc :
        /\ doc[k].name \in DOMAIN Fields
        /\ Nested(doc[k]) =>
              /\ Fields[doc[k].name] # {}
              /\ \A j \in DOMAIN doc[k].of : doc[k].of[j].name \in Fields[doc[k].name] /\ ~Nested(doc[k].of[j])
        /\ doc[k].kind = "plain" => Fields[doc[k].name] = {}

(* The places of the values given for a path, 0 in the second part at the    *)
(* top, and the one that is read last.                                       *)
Members(doc, p) ==
    IF p[2] = "-"
    THEN { k \in DOMAIN doc : doc[k].name = p[1] /\ doc[k].kind = "plain" } \X {0}
    ELSE UNION { {k} \X { j \in DOMAIN doc[k].of : doc[k].of[j].name = p[2] /\ doc[k].of[j].kind = "plain" } :
                 k \in { k \in DOMAIN doc : doc[k].name = p[1] /\ Nested(doc[k]) } }
Latest(S) == CHOOSE q \in S : \A r \in S : r[1] < q[1] \/ (r[1] = q[1] /\ r[2] <= q[2])
MemberAt(doc, q) == IF q[2] = 0 THEN doc[q[1]] ELSE doc[q[1]].of[q[2]]

Decode(doc) ==
    [p \in Paths |-> LET given == Members(doc, p)
                     IN IF given = {} THEN Default[p] ELSE MemberAt(doc, Latest(given)).value]

(* Validate: every value by itself; domains are normalised, and distinct     *)
(* then; automatic DNS has no servers, manual DNS has some.                  *)
Domain(d) == Spelling[d]
Normal(c) == [c EXCEPT ![<<"domains", "-">>] = [k \in DOMAIN @ |-> Domain(@[k])]]

Validate(c) ==
    /\ \A p \in Paths : c[p] \in Allowed[p]
    /\ Distinct(Normal(c)[<<"domains", "-">>])
    /\ (c[<<"dns", "mode">>] = <<"auto">>) = (c[<<"dns", "servers">>] = <<>>)

(* load: the flags that are given, over the file.                            *)
Flagged(c, flags) ==
    [p \in Paths |->
        CASE p = <<"listen", "-">> /\ flags.listen # "unset" -> <<flags.listen>>
          [] p = <<"dns", "mode">> /\ flags.dns # "unset" -> IF flags.dns = "auto" THEN <<"auto">> ELSE <<"manual">>
          [] p = <<"dns", "servers">> /\ flags.dns # "unset" -> IF flags.dns = "auto" THEN <<>> ELSE <<flags.dns>>
          [] OTHER -> c[p]]

NoFlags == [listen |-> "unset", dns |-> "unset"]

Accepts(doc, flags) ==
    /\ CheckJSON(doc) /\ exactFields(doc) /\ Decodes(doc)
    /\ Validate(Decode(doc))
    /\ Validate(Flagged(Normal(Decode(doc)), flags))
Loaded(doc, flags) == Normal(Flagged(Normal(Decode(doc)), flags))

-----------------------------------------------------------------------------
(* Reference: what a reader takes a document to say of a field, under any    *)
(* spelling and in any place.                                                *)
Said(doc, p) ==
    LET inner == UNION { { doc[k].of[j] : j \in DOMAIN doc[k].of } : k \in { k \in DOMAIN doc : doc[k].name = p[1] /\ Nested(doc[k]) } }
        outer == { k \in DOMAIN doc : doc[k].name = p[1] }
    IN IF p[2] = "-" THEN { doc[k] : k \in outer } ELSE { m \in inner : m.name = p[2] }

(* Each field is said once at the most, exactly, as a value.                 *)
Unambiguous(doc) ==
    \A p \in Paths :
        /\ Cardinality(Said(doc, p)) <= 1
        /\ \A m \in Said(doc, p) : m.exact /\ m.kind = "plain"

Meaning(doc, flags) ==
    Normal(Flagged([p \in Paths |-> IF Said(doc, p) = {} THEN Default[p] ELSE (CHOOSE m \in Said(doc, p) : TRUE).value],
                   flags))
=============================================================================
