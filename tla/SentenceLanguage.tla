-------------------------- MODULE SentenceLanguage --------------------------
(***************************************************************************)
(* The sentence language (cermet-lang/src/sentence.rs, contract.rs,        *)
(* sets.rs) and the rule commands that write a corpus in it                *)
(* (cermet-cli/src/rule_cli.rs).                                           *)
(*                                                                         *)
(* A corpus is a sequence of rules; a rule is an effect, a selector (one   *)
(* verb, or a set pinned to one immutable expansion), conjuncts over       *)
(* declared fields and at most one budget or rate clause.  A scalar is its *)
(* kind and a number; a string is known by its number only.  The digest of *)
(* a set expansion is the expansion itself: nothing else has that digest.  *)
(* A corpus is text that parses to it, so a rule is written as the value   *)
(* it parses to, and the one string the line grammar cannot spell (it      *)
(* holds a newline) is Unspellable.  The open contract of the development  *)
(* mock provider is left out: every contract here is a closed schema.      *)
(***************************************************************************)
EXTENDS Integers, Sequences, FiniteSets, SequencesExt

CONSTANTS
    Builds,       \* builds of the product, each with its own catalogue
    Catalogue,    \* build -> set name -> [members, include, history]
    Contracts,    \* verb -> its contract
    MinInt, MaxInt,
    Unspellable,  \* the number of the string no sentence can spell
    NoAggregate, NoVerdict, NoHint, NoQuery

IntV(n) == [kind |-> "int", n |-> n]
StrV(n) == [kind |-> "str", n |-> n]

FieldOf(p) == p.field
FieldsIn(rule) == {FieldOf(rule.conj[i]) : i \in DOMAIN rule.conj}

-----------------------------------------------------------------------------
(* ActionContract: the declarations of a verb's fields. *)
Known(verb) == verb \in DOMAIN Contracts
Declares(verb, f) == f \in DOMAIN Contracts[verb].schema
Decl(verb, f) == Contracts[verb].schema[f]
IsSecret(verb, f) == Known(verb) /\ Declares(verb, f) /\ Decl(verb, f).class = "secret"

(* check_consistent, what ratification demands of a contract. *)
BindingFits(d) ==
    CASE d.class = "identity" -> d.binding \in {"pin", "list"}
      [] d.class = "side_effect" -> d.binding = "pin" \/ (d.binding = "bounded" /\ d.kind = "int")
      [] d.class \in {"free", "secret", "filter"} -> d.binding = "unbound"
      [] OTHER -> FALSE

Consistent(c) ==
    /\ c.targets \subseteq DOMAIN c.schema
    /\ \A f \in DOMAIN c.schema : BindingFits(c.schema[f])

ASSUME ContractsAssumption ==
    \A v \in DOMAIN Contracts : Consistent(Contracts[v]) /\ IsFiniteSet(Contracts[v].targets)

(* has_fully_pinned_execution_targets. *)
FullyPinned(verb) ==
    LET c == Contracts[verb] IN
    c.targets # {} /\ \A f \in c.targets : c.schema[f].binding = "pin"

(* from_stored: the resource is one the closed schema admits. *)
Canonical(verb, res) ==
    LET c == Contracts[verb] IN
    /\ DOMAIN res \subseteq DOMAIN c.schema
    /\ \A f \in DOMAIN res : res[f].kind = c.schema[f].kind
    /\ \A f \in DOMAIN c.schema : c.schema[f].required => f \in DOMAIN res

-----------------------------------------------------------------------------
(* The vendored set catalogue.  expand follows includes and yields nothing *)
(* on a cycle or an unknown set: the expansion, as a set of at most one.   *)
Expand(b, name) ==
    LET cat == Catalogue[b]
        e[n \in DOMAIN cat, visiting \in SUBSET DOMAIN cat] ==
            LET inc == cat[n].include IN
            IF n \in visiting \/ ~(inc \subseteq DOMAIN cat) THEN [ok |-> FALSE, m |-> {}]
            ELSE LET parts == {e[i, visiting \cup {n}] : i \in inc} IN
                 [ok |-> \A x \in parts : x.ok,
                  m |-> cat[n].members \cup UNION {x.m : x \in parts}]
    IN  {x.m : x \in {y \in {e[n, {}] : n \in {name} \cap DOMAIN cat} : y.ok}}

Digest(name, members) == <<name, members>>

(* current_snapshot: an empty or a broken expansion is no snapshot. *)
Current(b, name) == {Digest(name, m) : m \in Expand(b, name) \ {{}}}

(* snapshot_from_catalog: the digest is the current expansion's or that of *)
(* one the catalogue's history keeps.                                      *)
History(b, name) ==
    UNION {{Digest(n, h) : h \in Catalogue[b][n].history \ {{}}} : n \in {name} \cap DOMAIN Catalogue[b]}
Resolves(b, sel) == sel.digest \in Current(b, sel.name) \cup History(b, sel.name)

Members(sel) == sel.digest[2]

-----------------------------------------------------------------------------
(* Matching is by kind, without coercion. *)
PredMatches(p, v) ==
    CASE p.op = "eq"  -> v = p.value
      [] p.op = "in"  -> v \in p.values
      [] p.op = "lte" -> v.kind = "int" /\ v.n <= p.value.n
      [] p.op = "gte" -> v.kind = "int" /\ v.n >= p.value.n

(* pred_resolves_for_decl: can this literal bind this field at all? *)
PredResolves(p, d) ==
    CASE p.op = "eq" -> p.value.kind = d.kind
      [] p.op = "in" -> p.values # {} /\ \A v \in p.values : v.kind = d.kind
      [] OTHER -> d.kind = "int"

ConjunctsResolve(preds, verb) ==
    \A p \in preds : Declares(verb, FieldOf(p)) /\ PredResolves(p, Decl(verb, FieldOf(p)))

(* validate_rule_structure: `budget' and `rate' head a clause and are      *)
(* never a field.                                                          *)
ValidField(f) == f \notin {"budget", "rate"}

RuleIsValid(rule) ==
    /\ \A f \in FieldsIn(rule) : ValidField(f)
    /\ \A i \in DOMAIN rule.conj : rule.conj[i].op = "in" => rule.conj[i].values # {}
    /\ rule.agg # NoAggregate => rule.effect = "allow" /\ rule.agg.limit > 0

Literals(p) == IF p.op = "in" THEN p.values ELSE {p.value}

(* quote_string and tokenize_string: a quoted string is itself whatever it *)
(* holds, but the grammar reads line by line.                              *)
Spellable(v) == v # StrV(Unspellable)

(* rule_codec_round_trips: everything spellable prints and parses back. *)
RoundTrips(rule) == \A i \in DOMAIN rule.conj : \A v \in Literals(rule.conj[i]) : Spellable(v)

(* parse_rule accepts no more than the structure admits. *)
Parses(rule) == RuleIsValid(rule) /\ RoundTrips(rule)

-----------------------------------------------------------------------------
(* SentenceEvaluator.  Defect: a set selector read as the set's current    *)
(* expansion.                                                              *)
Covers_CurrentSet(b, rule, verb) ==
    LET s == rule.sel IN
    CASE s.type = "verb" -> s.name = verb
      [] s.type = "set"  -> \E m \in Expand(b, s.name) : verb \in m

Covers(b, rule, verb) ==
    LET s == rule.sel IN
    CASE s.type = "verb" -> s.name = verb
      [] s.type = "set"  -> /\ Resolves(b, s) /\ verb \in Members(s)
                            /\ s.provider = Contracts[verb].provider

(* A set of this verb's provider that no longer resolves: it covers        *)
(* nothing, and selector_may_cover lets it cover anything.                 *)
Stale(b, rule, verb) ==
    /\ rule.sel.type = "set" /\ rule.sel.provider = Contracts[verb].provider
    /\ ~Resolves(b, rule.sel)
MayCover(b, rule, verb) == Covers(b, rule, verb) \/ Stale(b, rule, verb)

(* project_rule: the positions of the conjuncts that reach this member, or *)
(* {0} when a conjunct names a field no member of the set accepts.         *)
Project(b, rule, verb) ==
    IF rule.sel.type = "verb" THEN DOMAIN rule.conj
    ELSE IF \A f \in FieldsIn(rule) : \E m \in Members(rule.sel) : Known(m) /\ Declares(m, f)
         THEN {i \in DOMAIN rule.conj : Declares(verb, FieldOf(rule.conj[i]))}
         ELSE {0}

At(rule, places) == {rule.conj[i] : i \in places}

(* evaluate_conjuncts: where the resource lacks the field or fails. *)
FailsAt(rule, places, res) ==
    {i \in places : LET p == rule.conj[i] IN
                    FieldOf(p) \in DOMAIN res => ~PredMatches(p, res[FieldOf(p)])}

Deny(why, i) == [allow |-> FALSE, why |-> why, rule |-> i]
Allow(i) == [allow |-> TRUE, why |-> "rule", rule |-> i]

(* What one rule says of a request: nothing, a refusal on the spot, or a   *)
(* match or a mismatch to remember.                                        *)
RuleSays(b, rule, verb, res) ==
    LET deny == rule.effect = "deny"
        places == Project(b, rule, verb)
        fails == FailsAt(rule, places, res)
    IN  IF ~RuleIsValid(rule) THEN IF deny /\ MayCover(b, rule, verb) THEN "unresolved" ELSE "silent"
        ELSE IF deny /\ Stale(b, rule, verb) THEN "unresolved"
        ELSE IF ~Covers(b, rule, verb) THEN "silent"
        ELSE IF 0 \in places THEN IF deny THEN "unresolved" ELSE "silent"
        ELSE IF deny /\ ~ConjunctsResolve(At(rule, places), verb) THEN "unresolved"
        ELSE IF fails = {} THEN IF deny THEN "denied" ELSE "admits"
        ELSE IF FieldOf(rule.conj[Min(fails)]) \in DOMAIN res THEN "mismatch" ELSE "missing"

(* evaluate: the first refusal returns, so it hides every allow; otherwise *)
(* the first match governs, and the first mismatch explains.               *)
First(says, answers) == Min({i \in DOMAIN says : says[i] \in answers} \cup {Len(says) + 1})

(* Defect: the first rule that speaks decides, a deny or an allow. *)
Judge_FirstMatch(says) ==
    LET i == First(says, {"unresolved", "denied", "admits"})
    IN  IF i > Len(says) THEN Deny("no_rule", 0)
        ELSE IF says[i] = "admits" THEN Allow(i) ELSE Deny(says[i], i)

Judge(says) ==
    LET no  == First(says, {"unresolved", "denied"})
        yes == First(says, {"admits"})
        out == First(says, {"mismatch", "missing"})
    IN  IF no <= Len(says) THEN Deny(says[no], no)
        ELSE IF yes <= Len(says) THEN Allow(yes)
        ELSE IF out <= Len(says) THEN Deny(says[out], out)
        ELSE Deny("no_rule", 0)

Evaluate(b, rules, verb, res) ==
    IF Known(verb) THEN Judge([i \in DOMAIN rules |-> RuleSays(b, rules[i], verb, res)])
    ELSE Deny("unknown", 0)

-----------------------------------------------------------------------------
(* Symbolic discovery: the atoms of a field partition its values so that   *)
(* no predicate of the corpus can tell two values of one atom apart, and a *)
(* region gives each field a set of atoms.                                 *)
Absent == [t |-> "absent", kind |-> "none", lo |-> 0, hi |-> 0]

(* The values of field f that the conjuncts or the request name. *)
Points(preds, f, known, kind) ==
    {v.n : v \in {w \in UNION {Literals(p) : p \in {x \in preds : FieldOf(x) = f}}
                       \cup {known[g] : g \in {f} \cap DOMAIN known} : w.kind = kind}}

Atom(t, kind, lo, hi) == [t |-> t, kind |-> kind, lo |-> lo, hi |-> hi]

(* Defect: no cut after a point, so a point stands for the gap above it. *)
Atoms_Uncut(kind, points) ==
    {Absent} \cup
    CASE kind = "str" -> {Atom("str", kind, n, n) : n \in points} \cup {Atom("other", kind, 0, 0)}
      [] kind = "int" ->
            LET cuts == {MinInt} \cup points
            IN  {Atom("range", kind, r[1], r[2]) : r \in
                   {x \in cuts \X (MinInt..MaxInt) :
                        /\ x[1] <= x[2]
                        /\ \A c \in cuts : ~(x[1] < c /\ c <= x[2])
                        /\ x[2] = MaxInt \/ x[2] + 1 \in cuts}}
      [] OTHER -> {}

(* VariableSpec::atoms: integers fall into the points named and the gaps   *)
(* between them, strings into the ones named and all the others.           *)
Atoms(kind, points) ==
    {Absent} \cup
    CASE kind = "str" -> {Atom("str", kind, n, n) : n \in points} \cup {Atom("other", kind, 0, 0)}
      [] kind = "int" ->
            LET cuts == {MinInt} \cup points \cup {n + 1 : n \in points \ {MaxInt}}
            IN  {Atom("range", kind, r[1], r[2]) : r \in
                   {x \in cuts \X (MinInt..MaxInt) :
                        /\ x[1] <= x[2]
                        /\ \A c \in cuts : ~(x[1] < c /\ c <= x[2])
                        /\ x[2] = MaxInt \/ x[2] + 1 \in cuts}}
      [] OTHER -> {}

(* symbolic_atom_matches_pred judges a gap by its lowest value. *)
AtomMatches(a, p) ==
    CASE a.t = "str" -> p.op \in {"eq", "in"} /\ StrV(a.lo) \in Literals(p)
      [] a.t = "range" -> PredMatches(p, IntV(a.lo))
      [] OTHER -> FALSE

HoldsAtom(a, v) ==
    CASE a.t = "str" -> v = StrV(a.lo)
      [] a.t = "range" -> v.kind = "int" /\ a.lo <= v.n /\ v.n <= a.hi
      [] OTHER -> FALSE

RuleRegion(base, preds) ==
    [f \in DOMAIN base |-> {a \in base[f] : \A p \in preds : FieldOf(p) = f => AtomMatches(a, p)}]
Empty(region) == \E f \in DOMAIN region : region[f] = {}
Meet(r, s) == [f \in DOMAIN r |-> r[f] \cap s[f]]

(* subtract_symbolic_region: the pieces of r outside s, field by field;    *)
(* each later piece lies inside s on the earlier fields.                   *)
Subtract(r, s) ==
    IF Empty(Meet(r, s)) THEN {r}
    ELSE LET order == SetToSeq(DOMAIN r)
             piece(k) == [f \in DOMAIN r |->
                 CASE \E j \in 1..(k-1) : order[j] = f -> r[f] \cap s[f]
                   [] f = order[k] -> r[f] \ s[f]
                   [] OTHER -> r[f]]
         IN  {piece(k) : k \in {i \in DOMAIN order : ~Empty(piece(i))}}

(* What of r is left; the order of the denies does not matter to it. *)
Residual(r, denies) ==
    FoldSet(LAMBDA d, left : UNION {Subtract(x, d) : x \in left}, {r}, denies)

(* projected_discovery_rules: every rule that may cover the verb must      *)
(* project and resolve, or nothing is discoverable.  A rule is known by    *)
(* its place, and kept as the conjuncts that reach the verb.               *)
DiscoveryRules(b, rules, verb) ==
    [i \in {k \in DOMAIN rules : MayCover(b, rules[k], verb)} |->
        At(rules[i], Project(b, rules[i], verb))]
DiscoveryResolves(b, rules, verb) ==
    /\ Known(verb)
    /\ \A i \in DOMAIN rules : RuleIsValid(rules[i])
    /\ \A i \in DOMAIN rules : MayCover(b, rules[i], verb) =>
        /\ Covers(b, rules[i], verb) /\ 0 \notin Project(b, rules[i], verb)
        /\ ConjunctsResolve(At(rules[i], Project(b, rules[i], verb)), verb)

(* present_field_is_valid: the provider canonicalizes the value, which for *)
(* the fields here is that it has the declared kind.                       *)
PresentFieldIsValid(verb, f, v) == v.kind = Decl(verb, f).kind

(* The fields a shape is judged over and the atoms each may take: exactly  *)
(* the known value, or nothing when the provider would not take it; any    *)
(* value to come (absent too, unless the contract or the shape makes it    *)
(* certain); and absence for the rest.                                     *)
Base(preds, verb, known, unknown, present) ==
    [f \in DOMAIN known \cup unknown \cup {FieldOf(p) : p \in preds} |->
        {a \in Atoms(Decl(verb, f).kind, Points(preds, f, known, Decl(verb, f).kind)) :
            CASE f \in DOMAIN known -> HoldsAtom(a, known[f]) /\ PresentFieldIsValid(verb, f, known[f])
              [] f \in unknown \ DOMAIN known ->
                    a = Absent => ~(Decl(verb, f).required \/ f \in present)
              [] OTHER -> a = Absent}]

(* symbolic_shapes_are_discoverable for the one shape its callers pass:    *)
(* known fields exact, unknown fields to come, those in `present' certain  *)
(* to come.  Some allow region outlives every deny region.                 *)
Discoverable(b, rules, verb, known, unknown, present) ==
    /\ DiscoveryResolves(b, rules, verb)
    /\ DOMAIN known \cup unknown \subseteq DOMAIN Contracts[verb].schema
    /\ present \subseteq unknown
    /\ \A f \in DOMAIN Contracts[verb].schema :
        Decl(verb, f).required => f \in DOMAIN known \cup unknown
    /\ \A f \in DOMAIN known : known[f].kind = Decl(verb, f).kind
    /\ LET reach == DiscoveryRules(b, rules, verb)
           base == Base(UNION {reach[i] : i \in DOMAIN reach}, verb, known, unknown, present)
           region == [i \in DOMAIN reach |-> RuleRegion(base, reach[i])]
           denies == {region[i] : i \in {k \in DOMAIN reach : rules[k].effect = "deny"}}
       IN  \E i \in DOMAIN reach : /\ rules[i].effect = "allow" /\ ~Empty(region[i])
                                   /\ Residual(region[i], denies) # {}

(* shape_has_possible_allow: the preflight a request passes before the     *)
(* broker spends a credential to learn the fields it lacks.                *)
Preflight(b, rules, verb, res, unknown) ==
    Discoverable(b, rules, verb, [f \in DOMAIN res \ unknown |-> res[f]], unknown, unknown)

ActionIsDiscoverable(b, rules, verb) ==
    /\ Known(verb)
    /\ Discoverable(b, rules, verb, <<>>, DOMAIN Contracts[verb].schema, {})
=============================================================================
