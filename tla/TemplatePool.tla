--------------------------- MODULE TemplatePool ---------------------------
(* Documents in the shape of the shipped templates, and the edits an author *)
(* may make to one of them.                                                 *)
EXTENDS Naturals

Ph(n) == [n |-> n, opt |-> FALSE, tf |-> "none", whole |-> TRUE]
Opt(n) == [Ph(n) EXCEPT !.opt = TRUE]
Tf(n, tf) == [Ph(n) EXCEPT !.tf = tf]

Field(class, binding, req) ==
    [type |-> "str", class |-> class, binding |-> binding, req |-> req, fixed |-> FALSE]

Plain == [method |-> "GET", gql |-> "none", path |-> {}, query |-> {}, body |-> {}, cap |-> {},
          rescap |-> {}, tol |-> FALSE, eq |-> {}, lit |-> FALSE, req |-> FALSE, hdr |-> FALSE,
          poll |-> FALSE, codes |-> "any", keep |-> FALSE]

IdOnly == [id |-> Field("identity", "exact", TRUE)]
WithNote == [id |-> Field("identity", "exact", TRUE), note |-> Field("free_payload", "unbound", FALSE)]
WithSecret == [id |-> Field("identity", "exact", TRUE), sec |-> Field("secret", "unbound", TRUE)]

Http(decl, consumes, steps) ==
    [kind |-> "http", setup |-> FALSE, account |-> FALSE, decl |-> decl, targets |-> {"id"},
     consumes |-> consumes, steps |-> steps, git |-> [push |-> FALSE], rules |-> {}]

(* github.request_workflow_cancel: a guarded read, then the effect. *)
Cancel == Http(IdOnly, {"id"}, <<[Plain EXCEPT !.path = {"id"}, !.eq = {"id"}, !.lit = TRUE],
                                 [Plain EXCEPT !.method = "POST", !.path = {"id"}]>>)
(* A two-step write: the read tolerates a miss and its capture is optional. *)
TwoStep == Http(WithNote, {"id", "note"},
                <<[Plain EXCEPT !.path = {"id"}, !.tol = TRUE, !.cap = {"cap"}],
                  [Plain EXCEPT !.method = "POST", !.path = {"id"}, !.body = {Opt("note"), Opt("cap")}]>>)
(* vercel.set_env_var: one mutation that carries a secret. *)
SetEnv == Http(WithSecret, {"id", "sec"},
               <<[Plain EXCEPT !.method = "POST", !.path = {"id"}, !.body = {Tf("sec", "base64")},
                               !.req = TRUE, !.keep = TRUE]>>)
(* stripe.fixture_dispute_charge_create: read, mutate, reconcile. *)
Dispute == [Http(IdOnly, {"id"},
                 <<[Plain EXCEPT !.eq = {"id"}],
                   [Plain EXCEPT !.method = "POST", !.cap = {"cap"}, !.req = TRUE],
                   [Plain EXCEPT !.query = {Ph("cap")}, !.poll = TRUE, !.rescap = {"cap"}, !.lit = TRUE]>>)
            EXCEPT !.setup = TRUE]
(* An account-scoped search. *)
Search == [Http([filter |-> Field("read_filter", "unbound", FALSE)], {"filter"},
                <<[Plain EXCEPT !.query = {Opt("filter")}, !.codes = "two_hundred"]>>)
           EXCEPT !.account = TRUE, !.targets = {}]
(* A frozen GraphQL mutation. *)
Graphql == Http(IdOnly, {"id"},
                <<[Plain EXCEPT !.method = "POST", !.gql = "mutation", !.body = {Ph("id")}, !.req = TRUE]>>)

Push == [Http([id |-> Field("identity", "exact", TRUE), branch |-> Field("identity", "exact", TRUE),
               old |-> Field("identity", "exact", FALSE)], {"id", "branch", "old"}, << >>)
         EXCEPT !.kind = "git",
                !.git = [push |-> TRUE, path |-> {"id"}, branch |-> "branch", oid |-> "branch", old |-> "old"]]

Shape == [once |-> FALSE, read |-> TRUE, star |-> FALSE, query |-> {}, body |-> {}, bind |-> {},
          cap |-> {}, assert |-> {}]
Deploy == [Http(IdOnly, {"id"}, << >>)
           EXCEPT !.kind = "relay",
                  !.rules = {[Shape EXCEPT !.once = TRUE, !.read = FALSE, !.cap = {"cap"}, !.assert = {"id"},
                                 !.bind = {[at |-> "body", key |-> "k", n |-> "id", omit |-> FALSE]}],
                             [Shape EXCEPT !.star = TRUE,
                                 !.bind = {[at |-> "path", key |-> "*", n |-> "cap", omit |-> FALSE]}]}]

MCBases == {Cancel, TwoStep, SetEnv, Dispute, Search, Graphql, Push, Deploy}

Flip(S, x) == IF x \in S THEN S \ {x} ELSE S \cup {x}

StepEdits(s) ==
    {[s EXCEPT !.method = m] : m \in {"GET", "POST"}}
    \cup {[s EXCEPT !.gql = g] : g \in {"none", "query", "mutation"}}
    \cup {[s EXCEPT !.path = Flip(@, n)] : n \in {"id", "note", "cap"}}
    \cup {[s EXCEPT !.query = Flip(@, Ph(n))] : n \in {"id", "note", "cap", "filter"}}
    \cup {[s EXCEPT !.body = Flip(@, p)] : p \in {Ph("sec"), Ph("cap"), Tf("id", "omit"), Tf("note", "default"),
                                                  Tf("id", "negative"), Tf("sec", "base64")}}
    \cup {[s EXCEPT !.cap = Flip(@, "cap")], [s EXCEPT !.rescap = Flip(@, "cap")],
          [s EXCEPT !.tol = ~@], [s EXCEPT !.eq = Flip(@, "id")], [s EXCEPT !.lit = ~@],
          [s EXCEPT !.req = ~@], [s EXCEPT !.hdr = ~@], [s EXCEPT !.poll = ~@]}
    \cup {[s EXCEPT !.codes = c] : c \in {"any", "two_hundred", "error"}}

RuleEdits(r) ==
    {[r EXCEPT !.once = ~@], [r EXCEPT !.cap = Flip(@, "cap")], [r EXCEPT !.assert = Flip(@, "id")],
     [r EXCEPT !.bind = Flip(@, [at |-> "query", key |-> "q", n |-> "id", omit |-> TRUE])],
     [r EXCEPT !.query = Flip(@, "q")]}

MCEdits(t) ==
    UNION {{[t EXCEPT !.steps[i] = s] : s \in StepEdits(t.steps[i])} : i \in DOMAIN t.steps}
    \cup UNION {{[t EXCEPT !.rules = (@ \ {r}) \cup {q}] : q \in RuleEdits(r)} : r \in t.rules}
    \cup {[t EXCEPT !.setup = ~@], [t EXCEPT !.account = ~@]}
    \cup {[t EXCEPT !.targets = Flip(@, n)] : n \in {"id", "note"}}
    \cup {[t EXCEPT !.consumes = Flip(@, n)] : n \in {"id", "note", "sec", "filter"}}
    \cup {[t EXCEPT !.decl[n].class = c] : n \in DOMAIN t.decl, c \in {"side_effect", "read_filter", "free_payload"}}
    \cup {[t EXCEPT !.decl[n].req = ~@] : n \in DOMAIN t.decl}
    \cup {[t EXCEPT !.decl[n].binding = "unbound"] : n \in DOMAIN t.decl}
=============================================================================
