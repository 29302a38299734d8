----------------------------- MODULE RuleCorpus -----------------------------
(***************************************************************************)
(* The life of a rule corpus: prepare_sentence_authority, the one gate     *)
(* every candidate corpus passes; the commands that write one (rules       *)
(* allow, revoke, refresh); a request judged by it and the suggestion its  *)
(* refusal carries; and a product update that ships another set catalogue  *)
(* under the stored corpus.                                                *)
(***************************************************************************)
EXTENDS SentenceLanguage

CONSTANTS
    RulePool,     \* the rules an operator may write
    Requests,     \* requests: a verb and a canonical resource
    Probes,       \* preflight shapes: a request and the fields unknown to it
    Temporal,     \* language_temporal_clauses
    MaxRules,     \* bound: rules of a corpus
    MaxEdits      \* bound: corpus changes of a behaviour

VARIABLES
    build,      \* the build that is installed
    corpus,     \* the standing rules
    approved,   \* ghost: the build they were committed under
    query, verdict, hint,   \* the last request, its judgement and its suggestion
    adopted,    \* the suggestion was committed and the request judged again
    edits

(* A Rule has one of two effects, a selector of one of two kinds, and      *)
(* conjuncts that each name a field.                                       *)
IsRule(r) ==
    /\ {"effect", "sel", "conj"} \subseteq DOMAIN r /\ r.effect \in {"allow", "deny"}
    /\ "type" \in DOMAIN r.sel /\ r.sel.type \in {"verb", "set"}
    /\ \A i \in DOMAIN r.conj : "field" \in DOMAIN r.conj[i]

ASSUME RulesAssumption == \A r \in RulePool : IsRule(r)

vars == <<build, corpus, approved, query, verdict, hint, adopted, edits>>

-----------------------------------------------------------------------------
(* prepare_sentence_authority, in its order. *)
Covered(b, sel) == IF sel.type = "verb" THEN {sel.name} ELSE Members(sel)

(* pin_set_references: the exact expansion still resolves. *)
Pinned(b, rules) ==
    \A i \in DOMAIN rules : rules[i].sel.type = "set" => Resolves(b, rules[i].sel)

BudgetFields(rule) ==
    IF rule.agg # NoAggregate /\ rule.agg.kind = "budget" THEN {rule.agg.field} ELSE {}

(* reject_secret_conjuncts. *)
NoSecrets(b, rules) ==
    \A i \in DOMAIN rules : \A v \in Covered(b, rules[i].sel) :
        \A f \in FieldsIn(rules[i]) \cup BudgetFields(rules[i]) : ~IsSecret(v, f)

(* validate_references. *)
ReferencesResolve(b, rules) ==
    \A i \in DOMAIN rules :
        /\ \A v \in Covered(b, rules[i].sel) : Known(v)
        /\ \A f \in FieldsIn(rules[i]) \cup BudgetFields(rules[i]) :
            \E v \in Covered(b, rules[i].sel) : Declares(v, f)

(* validate_aggregate_shadowing: only an identical rule, which drains the  *)
(* same counter (aggregate_id), may stand before a metered one it overlaps.*)
Unshadowed(b, rules) ==
    \A j \in DOMAIN rules : rules[j].effect = "allow" /\ rules[j].agg # NoAggregate =>
        \A i \in 1..(j-1) :
            \/ rules[i].effect # "allow"
            \/ rules[i] = rules[j]
            \/ Covered(b, rules[i].sel) \cap Covered(b, rules[j].sel) = {}

MoneyFields == {"account", "mode", "currency"}

(* Defect: any predicate on the three fields passes for a pin. *)
MoneyPinned_AnyPredicate(b, rules) ==
    \A i \in DOMAIN rules : rules[i].effect = "allow" =>
        \A v \in Covered(b, rules[i].sel) : Contracts[v].money =>
            MoneyFields \subseteq FieldsIn(rules[i])
(* validate_money_authority: one exact pin of each of the three. *)
MoneyPinned(b, rules) ==
    \A i \in DOMAIN rules : rules[i].effect = "allow" =>
        \A v \in Covered(b, rules[i].sel) : Contracts[v].money =>
            /\ 0 \notin Project(b, rules[i], v)
            /\ \A f \in MoneyFields :
                LET on == {k \in Project(b, rules[i], v) : FieldOf(rules[i].conj[k]) = f}
                IN  Cardinality(on) = 1 /\ \A k \in on : rules[i].conj[k].op = "eq"

Prepared(b, rules) ==
    /\ \A i \in DOMAIN rules : Parses(rules[i])
    /\ Temporal \/ \A i \in DOMAIN rules : rules[i].agg = NoAggregate
    /\ Pinned(b, rules)
    /\ NoSecrets(b, rules)
    /\ ReferencesResolve(b, rules)
    /\ Unshadowed(b, rules)
    /\ MoneyPinned(b, rules)

-----------------------------------------------------------------------------
(* widen_rule_for_request relaxes each conjunct the request spoke to and   *)
(* failed, and carries verbatim the ones over fields it omitted.           *)
WidenPred(p, res) ==
    LET v == res[FieldOf(p)] IN
    CASE p.op = "eq" /\ ~PredMatches(p, v) ->
            [op |-> "in", field |-> p.field, values |-> {p.value, v}]
      [] p.op = "in" /\ ~PredMatches(p, v) -> [p EXCEPT !.values = @ \cup {v}]
      [] p.op = "lte" /\ v.kind = "int" /\ v.n > p.value.n -> [p EXCEPT !.value = v]
      [] p.op = "gte" /\ v.kind = "int" /\ v.n < p.value.n -> [p EXCEPT !.value = v]
      [] OTHER -> p

(* pred_implies, between a conjunct and what it became. *)
PredImplies(narrow, wide, verb) ==
    /\ FieldOf(narrow) = FieldOf(wide)
    /\ CASE narrow.op = "lte" /\ wide.op = "lte" -> narrow.value.n <= wide.value.n
         [] narrow.op = "gte" /\ wide.op = "gte" -> narrow.value.n >= wide.value.n
         [] narrow.op \in {"eq", "in"} /\ wide.op \in {"eq", "in"} ->
                Literals(narrow) \subseteq Literals(wide)
         [] narrow.op \in {"eq", "in"} /\ wide.op \in {"lte", "gte"} ->
                /\ Declares(verb, FieldOf(wide)) /\ Decl(verb, FieldOf(wide)).kind = "int"
                /\ \A v \in Literals(narrow) : PredMatches(wide, v)
         [] OTHER -> FALSE

(* The rule with the conjuncts at places widened; the others, which do not *)
(* reach this verb, keep their place.                                      *)
Widened(rule, places, res) ==
    [rule EXCEPT !.conj =
        [i \in DOMAIN rule.conj |->
            IF i \in places /\ FieldOf(rule.conj[i]) \in DOMAIN res
            THEN WidenPred(rule.conj[i], res) ELSE rule.conj[i]]]
Omitted(rule, places, res) == {FieldOf(p) : p \in At(rule, places)} \ DOMAIN res

(* The widened rule contains the old one, is one that can be written, and  *)
(* admits the request as far as the request speaks.                        *)
MatchesResource(preds, verb, res) ==
    ConjunctsResolve(preds, verb) /\ \A p \in preds : PredMatches(p, res[FieldOf(p)])
Implies(narrow, wide, verb) == \A p \in wide : \E o \in narrow : PredImplies(o, p, verb)
Admits(rule, wide, places, verb, res) ==
    /\ Implies(At(rule, places), At(wide, places), verb)
    /\ wide # rule \/ Omitted(rule, places, res) # {}
    /\ MatchesResource({p \in At(wide, places) : FieldOf(p) \in DOMAIN res}, verb, res)
    /\ RuleIsValid(wide) /\ RoundTrips(wide)

(* Can this rule be widened for a refused request? *)
Widens(b, rule, verb, res) ==
    /\ rule.effect = "allow" /\ rule.agg = NoAggregate
    /\ RuleIsValid(rule) /\ Covers(b, rule, verb) /\ 0 \notin Project(b, rule, verb)
    /\ \A v \in Covered(b, rule.sel) : \A f \in FieldsIn(rule) : ~IsSecret(v, f)
    /\ LET places == Project(b, rule, verb) IN
       /\ \A p \in At(rule, places) :
            /\ Declares(verb, FieldOf(p))
            /\ p.op \in {"lte", "gte"} /\ FieldOf(p) \in DOMAIN res => res[FieldOf(p)].kind = "int"
       /\ Admits(rule, Widened(rule, places, res), places, verb, res)

(* widen_hint_for_request: the first rule that can be widened; a rule that *)
(* comes back unchanged names the omitted field and proposes no rule.      *)
Hint(i, rule, places, res) ==
    [from |-> i, command |-> Widened(rule, places, res) # rule,
     rule |-> Widened(rule, places, res), omitted |-> Omitted(rule, places, res)]
WidenHint(b, rules, verb, res) ==
    LET at == {i \in DOMAIN rules : Widens(b, rules[i], verb, res)}
    IN  IF at = {} THEN NoHint
        ELSE CHOOSE h \in {Hint(i, rules[i], Project(b, rules[i], verb), res) : i \in at} :
                h.from = Min(at)

(* unruled_allow_hint: the first rule for a verb no rule mentions. *)
UnruledHint(verb, res) ==
    LET c == Contracts[verb]
        pins == IF FullyPinned(verb) THEN SetToSeq(c.targets \cap DOMAIN res) ELSE <<>>
        rule == [effect |-> "allow", sel |-> [type |-> "verb", name |-> verb],
                 conj |-> [i \in DOMAIN pins |->
                              [op |-> "eq", field |-> pins[i], value |-> res[pins[i]]]],
                 agg |-> NoAggregate]
    IN  IF \/ FullyPinned(verb) /\ \E f \in c.targets : IsSecret(verb, f)
           \/ FullyPinned(verb) /\ \E f \in c.targets \ DOMAIN res : c.schema[f].required
           \/ ~RuleIsValid(rule) \/ ~RoundTrips(rule)
        THEN NoHint
        ELSE [from |-> 0, command |-> TRUE, rule |-> rule, omitted |-> {}]

(* evaluate_with_widen_hint. *)
HintFor(b, rules, verb, res, v) ==
    CASE ~v.allow /\ v.why \in {"mismatch", "missing"} -> WidenHint(b, rules, verb, res)
      [] ~v.allow /\ v.why = "no_rule" -> UnruledHint(verb, res)
      [] OTHER -> NoHint

-----------------------------------------------------------------------------
Init ==
    /\ build \in Builds /\ approved = build /\ corpus = <<>> /\ query = NoQuery /\ verdict = NoVerdict
    /\ hint = NoHint /\ adopted = FALSE /\ edits = 0

(* compare_and_swap_rules_with_presence: the daemon prepares the whole     *)
(* corpus a command sends, and a refusal leaves the standing one.          *)
Write(rules) ==
    /\ edits < MaxEdits /\ edits' = edits + 1
    /\ Len(rules) <= MaxRules /\ Prepared(build, rules)
    /\ corpus' = rules /\ approved' = build
    /\ UNCHANGED build

Settle == query' = NoQuery /\ verdict' = NoVerdict /\ hint' = NoHint /\ adopted' = FALSE

(* run_allow. *)
AllowRule(rule) ==
    /\ query = NoQuery
    /\ Write(Append(corpus, rule)) /\ Settle

(* run_revoke: a one-based number. *)
Revoke(n) ==
    /\ query = NoQuery
    /\ n \in DOMAIN corpus /\ Write(RemoveAt(corpus, n)) /\ Settle

(* run_refresh rebinds one set selector to the current expansion. *)
Refresh(n) ==
    /\ query = NoQuery
    /\ n \in DOMAIN corpus /\ corpus[n].sel.type = "set"
    /\ Resolves(build, corpus[n].sel)
    /\ \E digest \in Current(build, corpus[n].sel.name) :
        /\ corpus[n].sel.digest # digest
        /\ Write([corpus EXCEPT ![n].sel.digest = digest])
    /\ Settle

(* An update ships another catalogue; the stored corpus stays as it is. *)
Update(b) ==
    /\ query = NoQuery /\ b # build /\ build' = b /\ UNCHANGED <<corpus, approved, edits>> /\ Settle

(* A request is judged (evaluate_match_value, SentencePolicy::evaluate). *)
Ask(q) ==
    /\ query = NoQuery
    /\ query' = q /\ adopted' = FALSE
    /\ verdict' = IF Known(q.verb) /\ ~Canonical(q.verb, q.res) THEN Deny("not_canonical", 0)
                  ELSE Evaluate(build, corpus, q.verb, q.res)
    /\ hint' = HintFor(build, corpus, q.verb, q.res, verdict')
    /\ UNCHANGED <<build, corpus, approved, edits>>

(* The operator runs the suggested command and the request comes again.    *)
Adopt ==
    /\ hint # NoHint /\ hint.command /\ ~adopted
    /\ Write(Append(corpus, hint.rule))
    /\ verdict' = Evaluate(build, corpus', query.verb, query.res)
    /\ adopted' = TRUE /\ UNCHANGED <<query, hint>>

Done == query # NoQuery /\ UNCHANGED <<build, corpus, approved, edits>> /\ Settle

Next ==
    \/ \E r \in RulePool : AllowRule(r)
    \/ \E n \in 1..MaxRules : Revoke(n) \/ Refresh(n)
    \/ \E b \in Builds : Update(b)
    \/ \E q \in Requests : Ask(q)
    \/ Adopt
    \/ Done

Spec == Init /\ [][Next]_vars

-----------------------------------------------------------------------------
TypeOK ==
    /\ {build, approved} \subseteq Builds /\ Len(corpus) <= MaxRules /\ edits \in 0..MaxEdits
    /\ adopted \in BOOLEAN
    /\ (query = NoQuery) = (verdict = NoVerdict)

Allowed(rules, q) == Evaluate(build, rules, q.verb, q.res).allow

(* A deny wins wherever it stands: no reordering of the corpus turns an    *)
(* allow into a refusal or a refusal into an allow (evaluate scans in      *)
(* order and returns from inside the loop).                                *)
VerdictIgnoresOrder ==
    query # NoQuery =>
        \A p \in [DOMAIN corpus -> DOMAIN corpus] :
            (\A i, j \in DOMAIN corpus : p[i] = p[j] => i = j) =>
                Allowed([i \in DOMAIN corpus |-> corpus[p[i]]], query) = Allowed(corpus, query)

(* The preflight asked before a credential is spent (and the catalogue's   *)
(* sentence_denied mark) says yes only when some completion of the request *)
(* would be admitted, and exactly then while every rule that may cover the *)
(* action resolves.  Beside one that does not, it says no though another   *)
(* rule admits a completion: it refuses too much, where the comment on     *)
(* resource_shape_is_discoverable calls the decision complete.             *)
Completes(s, q) ==
    /\ q.verb = s.verb
    /\ \A f \in DOMAIN s.res \ s.unknown : f \in DOMAIN q.res /\ q.res[f] = s.res[f]
    /\ s.unknown \subseteq DOMAIN q.res
    /\ DOMAIN q.res \subseteq DOMAIN s.res \cup s.unknown
PreflightExact ==
    query = NoQuery =>
        /\ \A s \in Probes :
            Preflight(build, corpus, s.verb, s.res, s.unknown)
                <=> /\ DiscoveryResolves(build, corpus, s.verb)
                    /\ \E q \in Requests : Completes(s, q) /\ Allowed(corpus, q)
        /\ \A v \in DOMAIN Contracts :
            ActionIsDiscoverable(build, corpus, v)
                <=> /\ DiscoveryResolves(build, corpus, v)
                    /\ \E q \in Requests : q.verb = v /\ Allowed(corpus, q)

(* Overlapping caps never add up: whichever rule admits a request, every   *)
(* metered rule that also matches it drains the very same counter, across  *)
(* every edit of the corpus and every update of the catalogue.             *)
MeteredByOneCounter ==
    query # NoQuery /\ verdict.allow =>
        \A j \in DOMAIN corpus :
            corpus[j].agg # NoAggregate
            /\ RuleSays(build, corpus[j], query.verb, query.res) = "admits"
                => corpus[j] = corpus[verdict.rule]

(* Two money requests one rule admits go to the same account, in the same  *)
(* mode and currency, whether the rule names the verb or a set holding it. *)
MoneyStaysPut ==
    query # NoQuery /\ verdict.allow /\ Contracts[query.verb].money =>
        \A q \in Requests :
            q.verb = query.verb
            /\ RuleSays(build, corpus[verdict.rule], q.verb, q.res) = "admits"
                => \A f \in MoneyFields : q.res[f] = query.res[f]

(* A suggestion never loosens what the request did not speak to: whatever  *)
(* the suggested rule admits still satisfies every conjunct the widened    *)
(* rule put on a field the request omitted or its verb does not declare.   *)
(* And a suggestion that names no omitted field is worth running: once it  *)
(* is committed the refused request is admitted.                           *)
HintIsHonest ==
    /\ hint # NoHint /\ ~adopted /\ hint.from # 0 =>
        \A q \in Requests :
            RuleSays(build, hint.rule, q.verb, q.res) = "admits" =>
                \A i \in DOMAIN corpus[hint.from].conj :
                    LET p == corpus[hint.from].conj[i] IN
                    FieldOf(p) \notin DOMAIN query.res /\ Declares(q.verb, FieldOf(p)) =>
                        FieldOf(p) \in DOMAIN q.res /\ PredMatches(p, q.res[FieldOf(p)])
    /\ adopted /\ hint.omitted = {} => verdict.allow

(* No build ever reads more authority into a stored corpus than the        *)
(* operator approved: what it admits under the installed catalogue it      *)
(* admitted under the catalogue it was committed with.                     *)
NeverMoreThanApproved ==
    query = NoQuery =>
        \A q \in Requests : Allowed(corpus, q)
                            => Evaluate(approved, corpus, q.verb, q.res).allow
=============================================================================
