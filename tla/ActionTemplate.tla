--------------------------- MODULE ActionTemplate ---------------------------
(***************************************************************************)
(* The action template grammar (cermet-core/src/templates.rs): what a      *)
(* document must satisfy before the registry lets a provider credential    *)
(* ride it.  A template declares fields, names the execution targets a     *)
(* rule must pin, and lists HTTP steps, one git step or a relay predicate. *)
(* A step's strings are kept as the set of placeholders they hold, since a *)
(* placeholder is the only place where a value enters a request.           *)
(*                                                                         *)
(*   ph    [n |-> name, opt |-> {n?}, tf |-> transform, whole |-> BOOLEAN] *)
(*   step  [method, gql, path, query, body, cap, rescap, tol, eq, lit,     *)
(*          req, hdr, poll, codes, keep]                                   *)
(*   t     [kind, setup, account, decl, targets, consumes, steps, git,     *)
(*          rules]                                                         *)
(***************************************************************************)
EXTENDS Naturals, Sequences, FiniteSets

CONSTANTS Attempts   \* poll attempts a reconciliation read may declare

Declared(t, n) == n \in DOMAIN t.decl

(* A field the sentence must pin exactly: it addresses the effect. *)
PinnedTarget(t, n, classes) ==
    /\ Declared(t, n) /\ n \in t.targets
    /\ t.decl[n].class \in classes /\ t.decl[n].binding = "exact"

Secrets(t) == {n \in DOMAIN t.decl : t.decl[n].class = "secret"}

-----------------------------------------------------------------------------
(* Fields, setup vocabulary, consistency and scope (rules 3, 5 and 6). *)
FieldsOK(t) ==
    /\ t.setup => Secrets(t) = {}
    /\ \A n \in DOMAIN t.decl :
          t.decl[n].fixed => t.decl[n].type = "str" /\ t.decl[n].req

BindingFits(d) ==
    CASE d.class = "identity"    -> d.binding = "exact"
      [] d.class = "side_effect" -> d.binding = "exact" \/ (d.binding = "bounded" /\ d.type = "int")
      [] OTHER                   -> d.binding = "unbound"

Consistent(t) ==
    /\ t.consumes \cup t.targets \subseteq DOMAIN t.decl
    /\ \A n \in DOMAIN t.decl : BindingFits(t.decl[n])

(* A GET, or a POST whose frozen document is a GraphQL query. *)
IsRead(s) == s.method = "GET" \/ s.gql = "query"

Last(t) == Len(t.steps)
Steps(t) == 1 .. Last(t)
MaxSteps == 8   \* MAX_STEPS

(* scope: account is earned by boundedness. *)
AccountScopeOK(t) ==
    /\ t.kind = "http"
    /\ \A n \in DOMAIN t.decl : t.decl[n].class = "read_filter"
    /\ \A i \in Steps(t) :
          LET s == t.steps[i] IN
          /\ IsRead(s) /\ (s.method = "GET" => s.body = {} /\ s.gql = "none")
          /\ s.codes # "any"
          /\ \A p \in s.query : p.whole \/ p.tf = "query_literal"

ScopeOK(t) ==
    IF t.targets = {} THEN t.account /\ AccountScopeOK(t) ELSE ~t.account

-----------------------------------------------------------------------------
(* Steps.  Captures are the response values an earlier step hands to a     *)
(* later one.                                                              *)
MutationsBefore(t, i) == {j \in 1 .. i - 1 : ~IsRead(t.steps[j])}

CapturesOf(t, I) == UNION {t.steps[j].cap : j \in I}

AllCaptures(t) == CapturesOf(t, Steps(t))

QueryNames(s) == {p.n : p \in s.query}

(* The one read that may follow a mutation: a setup action's last step,    *)
(* after exactly one mutation.                                             *)
SetupReconciles(t, i) ==
    t.setup /\ i = Last(t) /\ Cardinality(MutationsBefore(t, i)) = 1

ReadsLead(t) ==
    \A i \in Steps(t) :
        IsRead(t.steps[i]) /\ MutationsBefore(t, i) # {} =>
            /\ SetupReconciles(t, i)
            /\ (t.steps[i].path \cup QueryNames(t.steps[i]))
                  \cap CapturesOf(t, MutationsBefore(t, i)) # {}

CapturesOK(t) ==
    /\ t.steps[Last(t)].cap = {}
    /\ AllCaptures(t) \cap DOMAIN t.decl = {}
    /\ \A i, j \in Steps(t) : i # j => t.steps[i].cap \cap t.steps[j].cap = {}

ResultCapturesOK(t, i) ==
    LET s == t.steps[i] IN
    s.rescap # {} => i = Last(t) /\ t.setup /\ s.rescap \subseteq CapturesOf(t, 1 .. i - 1)

(* The frozen-query rule: a document is a literal, POSTed, with a proof    *)
(* path; only its variables are rendered.                                  *)
GraphqlOK(s) == s.gql # "none" => s.method = "POST" /\ s.req

PollOK(t, i) ==
    LET s == t.steps[i] IN
    s.poll => /\ t.setup /\ i = Last(t) /\ s.method = "GET" /\ s.gql = "none" /\ s.eq = {}
              /\ QueryNames(s) \cap AllCaptures(t) # {}
              /\ Attempts >= 2

StatusesOK(s) == s.codes # "error"

PathOK(t, s) ==
    \A n \in s.path :
        /\ n \notin AllCaptures(t)
        /\ PinnedTarget(t, n, {"identity"}) /\ t.decl[n].req /\ t.decl[n].type = "str"

(* A query value is steered by the provider only in the reconciliation,    *)
(* which reads back what the one mutation before it captured.              *)
QueryOK(t, i) ==
    \A p \in t.steps[i].query :
        /\ p.tf = "none" \/ (p.tf = "query_literal" /\ t.account)
        /\ p.opt => p.whole
        /\ \/ /\ p.n \in CapturesOf(t, MutationsBefore(t, i))
              /\ SetupReconciles(t, i) /\ IsRead(t.steps[i])
           \/ /\ p.n \notin AllCaptures(t) /\ Declared(t, p.n)
              /\ IF t.account
                 THEN t.decl[p.n].type = "str" /\ t.decl[p.n].class = "read_filter"
                 ELSE PinnedTarget(t, p.n, {"identity", "side_effect"})

(* check_body_value: transforms are whole-value, and each has one place. *)
TransformOK(t, p) ==
    LET d == t.decl[p.n] IN
    /\ p.whole /\ Declared(t, p.n)
    /\ CASE p.tf = "negative" -> d.type = "int" /\ d.class = "side_effect"
         [] p.tf = "default"  -> d.type = "str" /\ ~d.req
         [] p.tf = "omit"     -> d.type = "str" /\ d.req /\ PinnedTarget(t, p.n, {"identity"})
         [] p.tf = "base64"   -> d.type = "str"
         [] OTHER             -> FALSE

BodyOK(t, i) ==
    \A p \in t.steps[i].body :
        /\ p.opt => p.whole
        /\ IF p.tf # "none" THEN Declared(t, p.n) /\ TransformOK(t, p)
           ELSE Declared(t, p.n) \/ p.n \in CapturesOf(t, 1 .. i - 1)

(* A tolerated rejection skips the step's checks, so a step that guards    *)
(* something tolerates none.                                               *)
OptionalOK(t, i) == t.steps[i].tol => i # Last(t)

ExpectEqOK(t, i) ==
    LET s == t.steps[i] IN
    s.eq # {} =>
        /\ (i = Last(t) \/ IsRead(s)) /\ ~s.tol
        /\ \A n \in s.eq : PinnedTarget(t, n, {"identity"}) /\ t.decl[n].req /\ t.decl[n].type = "str"

ExpectLiteralOK(t, i) ==
    LET s == t.steps[i] IN
    s.lit => (i = Last(t) \/ IsRead(s)) /\ (i # Last(t) => ~s.tol)

UsedFields(t) ==
    UNION {LET s == t.steps[i] IN s.path \cup QueryNames(s) \cup {p.n : p \in s.body} \cup s.eq :
             i \in Steps(t)} \cap DOMAIN t.decl

(* Defect: a consumed field no step uses goes unnoticed. *)
Honest_OnlyDeclares(t) == UsedFields(t) \subseteq t.consumes

(* Rule 15: what a template says it consumes is what its steps use. *)
Honest(t) == t.consumes = UsedFields(t)

StepOK(t, i) ==
    LET s == t.steps[i] IN
    /\ ResultCapturesOK(t, i) /\ GraphqlOK(s) /\ PollOK(t, i) /\ StatusesOK(s)
    /\ PathOK(t, s) /\ QueryOK(t, i) /\ BodyOK(t, i)
    /\ OptionalOK(t, i) /\ ExpectEqOK(t, i) /\ ExpectLiteralOK(t, i)

HttpOK(t) ==
    /\ Last(t) \in 1 .. MaxSteps
    /\ ReadsLead(t) /\ CapturesOK(t)
    /\ \A i \in Steps(t) : StepOK(t, i)
    /\ Honest(t)

-----------------------------------------------------------------------------
(* One git step: t.git = [push, path, branch, oid, old]. *)
GitFields(t) == (t.git.path \cup {t.git.branch, t.git.oid, t.git.old}) \ {""}

GitOK(t) ==
    /\ \A n \in t.git.path : /\ Declared(t, n)
                             /\ t.decl[n].class = "identity" /\ t.decl[n].binding = "exact"
                             /\ t.decl[n].req /\ t.decl[n].type = "str"
    /\ t.git.push =>
          \A n \in {t.git.branch, t.git.oid} \cup ({t.git.old} \ {""}) :
             /\ Declared(t, n) /\ t.decl[n].type = "str"
             /\ t.decl[n].class = "identity" /\ t.decl[n].binding = "exact"
             /\ t.decl[n].req = (n # t.git.old)
    /\ t.consumes = GitFields(t) /\ DOMAIN t.decl = GitFields(t)

(* A relay predicate: t.rules is a set of [once, read, star, query, body,  *)
(* bind, cap, assert], bind a set of [at, key, n, omit].                   *)
Comparable(t, n) ==
    /\ Declared(t, n) /\ t.decl[n].type = "str"
    /\ t.decl[n].class \in {"identity", "side_effect"}
    /\ n \in t.targets \/ t.decl[n].fixed

BindOK(t, r, b) ==
    CASE b.at = "path"  -> /\ ~r.once /\ r.star /\ ~b.omit
                           /\ b.n \in UNION {q.cap : q \in {x \in t.rules : x.once}}
      [] b.at = "query" -> /\ b.key \in r.query /\ Comparable(t, b.n)
                           /\ b.omit => t.decl[b.n].req
      [] b.at = "body"  -> /\ ~r.read /\ b.key \notin r.body /\ Comparable(t, b.n)
                           /\ b.omit => t.decl[b.n].req

RelayOK(t) ==
    /\ Cardinality({r \in t.rules : r.once}) = 1
    /\ \A r \in t.rules :
          /\ r.cap \cup r.assert # {} => r.once
          /\ \A n \in r.assert : Comparable(t, n) /\ t.decl[n].req
          /\ \A b \in r.bind : BindOK(t, r, b)
    /\ t.consumes = UNION {{b.n : b \in {c \in r.bind : c.at # "path"}} \cup r.assert : r \in t.rules}

-----------------------------------------------------------------------------
(* The whole of validate, for the ceiling the provider's descriptor sets. *)
Validate(t, ceiling) ==
    /\ FieldsOK(t) /\ Consistent(t) /\ ScopeOK(t)
    /\ CASE t.kind = "http"  -> ceiling # "none" /\ HttpOK(t)
         [] t.kind = "git"   -> ceiling = "http_git" /\ GitOK(t)
         [] t.kind = "relay" -> ceiling # "none" /\ RelayOK(t)
=============================================================================
