------------------------------ MODULE MCRequests ------------------------------
(* Small instances of Pipeline. *)
EXTENDS Pipeline, TemplatePool, TLC

CONSTANTS r1, r2

(* A creation and a payout freeze what the agent supplied, as a refund     *)
(* does; a cancellation and an invoice payment what the provider resolved, *)
(* as a confirmation: they add no state.                                   *)
MCVerbs == {"confirm", "capture", "refund", "deploy"}

Object(status, amount, left) ==
    [status |-> status, amount |-> amount, left |-> left, owner |-> "us", holder |-> "us",
     inert |-> TRUE, teams |-> {"t1"}]

MCWorlds ==
    [v \in MCVerbs |->
        CASE v = "confirm" -> Object("confirmable", 2, 2)
          [] v = "capture" -> Object("capturable", 2, 2)
          [] OTHER -> Object("paid", 2, 2)]

MCAggregate == <<"a", "none">>

-----------------------------------------------------------------------------
(* The rules part.                                                         *)
(* A provider p with a read (fetch), a bounded mutation with an optional   *)
(* scope (tweak), a deletion (purge) and a money verb (refund), and a      *)
(* provider q with one verb (ping) and no set.  The new build's catalogue  *)
(* grows the set ops, keeps its old expansion as history, and forgets that *)
(* of reads.                                                               *)
D(kind, required, class, binding) ==
    [kind |-> kind, required |-> required, class |-> class, binding |-> binding]
MCContracts ==
    "fetch" :> [provider |-> "p", money |-> FALSE, targets |-> {"id"},
                schema |-> "id" :> D("str", TRUE, "identity", "pin")]
    @@ "tweak" :> [provider |-> "p", money |-> FALSE, targets |-> {"team"},
                schema |-> "amount" :> D("int", TRUE, "side_effect", "bounded")
                           @@ "team" :> D("str", FALSE, "identity", "pin")
                           @@ "key" :> D("str", FALSE, "secret", "unbound")]
    @@ "purge" :> [provider |-> "p", money |-> FALSE, targets |-> {"id", "team"},
                schema |-> "id" :> D("str", TRUE, "identity", "pin")
                           @@ "team" :> D("str", FALSE, "identity", "pin")]
    @@ "refund" :> [provider |-> "p", money |-> TRUE, targets |-> {"account"},
                schema |-> [f \in {"account", "mode", "currency"} |->
                               D("str", TRUE, "identity", "pin")]
                           @@ "amount" :> D("int", TRUE, "side_effect", "bounded")]
    @@ "ping" :> [provider |-> "q", money |-> FALSE, targets |-> {}, schema |-> <<>>]

MCCatalogue ==
    "old" :> ("ops" :> [members |-> {"tweak"}, include |-> {"reads"}, history |-> {}]
              @@ "reads" :> [members |-> {"fetch"}, include |-> {}, history |-> {}]
              @@ "loop" :> [members |-> {"purge"}, include |-> {"loop"}, history |-> {}]
              @@ "pay" :> [members |-> {"refund", "fetch"}, include |-> {}, history |-> {}])
    @@ "new" :> ("ops" :> [members |-> {"tweak"}, include |-> {"reads"},
                           history |-> {{"tweak", "fetch"}}]
              @@ "reads" :> [members |-> {"fetch", "purge"}, include |-> {}, history |-> {}]
              @@ "pay" :> [members |-> {"refund", "fetch"}, include |-> {}, history |-> {}])

Verb(v) == [type |-> "verb", name |-> v]
SetSel(name, members) ==
    [type |-> "set", name |-> name, provider |-> "p", digest |-> Digest(name, members)]
Eq(f, v) == [op |-> "eq", field |-> f, value |-> v]
InSet(f, vs) == [op |-> "in", field |-> f, values |-> vs]
Lte(f, n) == [op |-> "lte", field |-> f, value |-> IntV(n)]
Gte(f, n) == [op |-> "gte", field |-> f, value |-> IntV(n)]
Rule(e, sel, c) == [effect |-> e, sel |-> sel, conj |-> c, agg |-> NoAggregate]
Metered(sel, c, n) == [effect |-> "allow", sel |-> sel, conj |-> c,
                     agg |-> [kind |-> "budget", field |-> "amount", limit |-> n]]
Ops == SetSel("ops", {"tweak", "fetch"})
Reads == SetSel("reads", {"fetch"})
Pay == SetSel("pay", {"refund", "fetch"})
Pins(a) == <<Eq("account", StrV(a)), Eq("mode", StrV(1)), Eq("currency", StrV(1))>>

MCRulePool ==
    {Rule("allow", Verb("fetch"), <<Eq("id", StrV(1))>>),
     Rule("deny", Verb("fetch"), <<InSet("id", {StrV(1), StrV(2)})>>),
     Rule("allow", Verb("tweak"), <<Lte("amount", 1), Eq("team", StrV(1))>>),
     Rule("allow", Verb("tweak"), <<Gte("amount", 2)>>),
     Rule("allow", Verb("tweak"), <<Eq("amount", StrV(1))>>),
     Rule("allow", Verb("tweak"), <<Eq("key", StrV(1))>>),
     Rule("deny", Verb("tweak"), <<Lte("amount", 2)>>),
     Rule("deny", Verb("tweak"), <<Eq("team", IntV(1))>>),
     Rule("allow", Ops, <<Lte("amount", 2)>>),
     Rule("allow", Ops, <<Lte("amount", 1), Eq("id", StrV(1))>>),
     Rule("deny", Reads, <<>>),
     Rule("allow", Reads, <<>>),
     Rule("allow", Pay, Pins(1)),
     Rule("allow", Verb("refund"), <<InSet("account", {StrV(1), StrV(2)}), Eq("mode", StrV(1)),
                                     Eq("currency", StrV(1))>>),
     Metered(Verb("refund"), Pins(1), 5),
     Metered(Verb("refund"), Append(Pins(1), Lte("amount", 1)), 5),
     Metered(Ops, <<Lte("amount", 2)>>, 5),
     Metered(Ops, <<Lte("amount", 2)>>, 0),
     Rule("allow", Verb("fetch"), <<InSet("id", {})>>),
     Rule("allow", Verb("fetch"), <<Eq("rate", IntV(1))>>),
     Rule("allow", Verb("gone"), <<>>)}

F(f, v) == f :> v
MCAsked ==
    {[verb |-> "fetch", res |-> F("id", StrV(i))] : i \in 1..4}
    \cup {[verb |-> "tweak", res |-> F("amount", IntV(n)) @@ t] :
             n \in 0..3, t \in {<<>>, F("team", StrV(1)), F("team", StrV(2))}}
    \cup {[verb |-> "purge", res |-> F("id", StrV(i)) @@ t] :
             i \in 1..2, t \in {<<>>, F("team", StrV(1))}}
    \cup {[verb |-> "refund", res |-> F("account", StrV(a)) @@ F("mode", StrV(1))
                                     @@ F("currency", StrV(c)) @@ F("amount", IntV(n))] :
             a \in 1..2, c \in 1..2, n \in {1, 2}}
    \cup {[verb |-> "ping", res |-> <<>>], [verb |-> "gone", res |-> <<>>],
          [verb |-> "fetch", res |-> F("id", IntV(1))]}

MCProbes ==
    {[verb |-> "tweak", res |-> F("team", StrV(t)), unknown |-> {"amount"}] : t \in 1..2}
    \cup {[verb |-> "tweak", res |-> F("amount", IntV(n)), unknown |-> {"team"}] : n \in 0..3}
    \cup {[verb |-> "refund", res |-> F("amount", IntV(1)),
           unknown |-> {"account", "mode", "currency"}],
          [verb |-> "fetch", res |-> <<>>, unknown |-> {"id"}]}

-----------------------------------------------------------------------------
Sym == Permutations({r1, r2})

(* The parts that stand still start in one state.  Crashes are left to the *)
(* refund, the verb whose approval may be spent in several effects.        *)
SmallInit ==
    /\ PartInit
    /\ part # "rules" => build = "old"
    /\ part # "template" => doc = Cancel
    /\ part # "money" => verb = "refund"
    /\ env = 0 /\ crashes = IF verb = "refund" THEN 0 ELSE MaxCrashes
    /\ part # "install" => pkg = None /\ accounts = "absent" /\ ~conf.present

SmallSpec == SmallInit /\ [][PartNext]_partVars
=============================================================================
