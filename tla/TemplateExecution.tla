-------------------------- MODULE TemplateExecution -------------------------
(***************************************************************************)
(* The declarative executor (cermet-core/src/provider.rs): a ratified      *)
(* template is loaded into the registry and an approved, frozen resource   *)
(* is driven through its steps, one provider hop after another.  A value   *)
(* is kept as its provenance: the field or capture it comes from and the   *)
(* form it takes on the wire.  The document is written by its author one   *)
(* edit at a time, so what loads is whatever the grammar lets through, not *)
(* a list of templates known to be good.                                   *)
(***************************************************************************)
EXTENDS ActionTemplate

CONSTANTS Bases,      \* documents an author starts from
          Edits(_),   \* the documents one edit away
          MaxEdits    \* edits an author makes

VARIABLES doc, edits, ceiling, loaded,
          present,    \* fields the frozen resource holds
          at,         \* the step being driven
          polls,      \* repeats of the current step
          caps,       \* captures taken so far
          sent,       \* hops that left the box: [at, wire, guarded]
          passed,     \* steps answered with every assertion holding
          tolerated,  \* steps whose rejection was tolerated
          scrub,      \* secret forms the scrub set knows
          result

vars == <<doc, edits, ceiling, loaded, present, at, polls, caps, sent, passed, tolerated, scrub, result>>
run == <<at, polls, caps, sent, passed, tolerated, scrub, result>>

(* Nothing has been returned yet. *)
NoResult == [ok |-> FALSE, class |-> "none", word |-> "none", leaks |-> {}]

-----------------------------------------------------------------------------
(* Authoring, and the registry: check_load is load without the insert, and *)
(* a loaded action is never silently replaced.                             *)
Edit == /\ ~loaded /\ edits < MaxEdits
        /\ \E d \in Edits(doc) : doc' = d
        /\ edits' = edits + 1
        /\ UNCHANGED <<ceiling, loaded, present, run>>

AddProvider == /\ ~loaded /\ ceiling = "none"
               /\ ceiling' \in {"http", "http_git"}
               /\ UNCHANGED <<doc, edits, loaded, present, run>>

(* SecretScrub::new: the raw form of every secret the resource holds. *)
RawSecrets == [n : Secrets(doc) \cap present', form : {"raw"}]

(* load, then an approved request whose required fields are all frozen. *)
Load == /\ ~loaded /\ Validate(doc, ceiling)
        /\ loaded' = TRUE
        /\ \E opt \in SUBSET {n \in DOMAIN doc.decl : ~doc.decl[n].req} :
              present' = opt \cup {n \in DOMAIN doc.decl : doc.decl[n].req}
        /\ scrub' = RawSecrets
        /\ at' = 1
        /\ UNCHANGED <<doc, edits, ceiling, polls, caps, sent, passed, tolerated, result>>

-----------------------------------------------------------------------------
(* Rendering.  A placeholder takes a field before a capture; an absent     *)
(* optional one is left out and an absent required one stops the step.     *)
Step == doc.steps[at]

Valued(p) == p.n \in present \/ p.n \in caps

FieldForm(p, form) == [n |-> p.n, form |-> form, from |-> IF p.n \in present THEN "field" ELSE "capture"]

QueryRenders(s) == \A p \in s.query : Valued(p) \/ p.opt

QueryWire(s) == {FieldForm(p, "raw") : p \in {q \in s.query : Valued(q)}}

BodyRenders(s) ==
    \A p \in s.body :
        CASE p.tf \in {"base64", "omit", "negative"} -> p.n \in present
          [] p.tf = "default" -> TRUE
          [] OTHER -> Valued(p) \/ p.opt

(* The omit transform drops the key when the field holds its literal. *)
BodyWire(s, dropped) ==
    {FieldForm(p, IF p.tf = "base64" THEN "base64" ELSE "raw") :
        p \in {q \in s.body : Valued(q) /\ ~(q.tf = "omit" /\ dropped)}}

(* The renderer adds to the scrub set the transformed form it emits. *)
Emitted(s) == {[n |-> p.n, form |-> "base64"] :
                 p \in {q \in s.body : q.tf = "base64" /\ q.n \in Secrets(doc)}}

Renders(s) == s.path \subseteq present /\ QueryRenders(s) /\ BodyRenders(s)

Wire(s, dropped) ==
    [path |-> s.path, query |-> QueryWire(s), body |-> BodyWire(s, dropped)]

(* Past this point the effect has landed, and a mismatch contradicts it. *)
Crossed == at = Last(doc) /\ ~IsRead(Step)

-----------------------------------------------------------------------------
(* What a hop can come back with.  EffectFailureClass::of.                 *)
ClassOf(status) ==
    CASE status \in {"auth"} -> "provider_auth_refused"
      [] status = "input"    -> "provider_input_refused"
      [] status = "server"   -> "provider_transient"
      [] OTHER               -> "failed"

Statuses == {"auth", "input", "server", "missing"}

Failure(class, word) == [ok |-> FALSE, class |-> class, word |-> word, leaks |-> {}]

(* The secret forms the provider can echo: those the request carried. *)
Echo == {[n |-> x.n, form |-> x.form] :
            x \in {y \in UNION {h.wire.body : h \in sent'} : y.n \in Secrets(doc)}}

Scrubbed == Echo \ scrub'

Return(class, word) == result' = [ok |-> FALSE, class |-> class, word |-> word, leaks |-> Scrubbed]

(* A parsed success, by which of the step's own declarations it satisfies. *)
Answers(s) ==
    [errors : IF s.gql = "none" THEN {FALSE} ELSE BOOLEAN,
     eq : IF s.eq = {} THEN {TRUE} ELSE BOOLEAN, lit : IF s.lit THEN BOOLEAN ELSE {TRUE},
     req : IF s.req THEN BOOLEAN ELSE {TRUE}, hdr : IF s.hdr THEN BOOLEAN ELSE {TRUE},
     cap : IF s.cap = {} THEN {TRUE} ELSE BOOLEAN, empty : IF s.poll THEN BOOLEAN ELSE {FALSE}]

Holds(a) == ~a.errors /\ a.eq /\ a.lit /\ a.req /\ a.hdr /\ a.cap

(* The final reconciliation read may be repeated while its list is empty. *)
ShouldPoll(a) == Step.poll /\ polls + 1 < Attempts /\ a.lit /\ a.req /\ a.empty

Guarded == \A j \in 1 .. at - 1 : j \in passed \/ (j \in tolerated /\ doc.steps[j].eq = {} /\ ~doc.steps[j].lit)

Put(w) == sent' = sent \cup {[at |-> at, wire |-> w, guarded |-> Guarded]}

Running == loaded /\ result = NoResult /\ doc.kind = "http"

(* Every frozen value a required placeholder needs, or nothing is sent. *)
RenderFails ==
    /\ Running
    /\ \/ ~Renders(Step)
       \/ \E p \in Step.query : p.n \in caps \ present   \* the capture is not a string
    /\ result' = Failure("failed", "render")
    /\ UNCHANGED <<doc, edits, ceiling, loaded, present, at, polls, caps, sent, passed, tolerated, scrub>>

(* http_call_with_status: refused before the connection, or lost after it. *)
NeverSent ==
    /\ Running /\ Renders(Step)
    /\ result' = Failure("transport_pre_send", "transport")
    /\ scrub' = scrub \cup Emitted(Step)
    /\ UNCHANGED <<doc, edits, ceiling, loaded, present, at, polls, caps, sent, passed, tolerated>>

NoAnswer ==
    /\ Running /\ Renders(Step)
    /\ \E d \in BOOLEAN : Put(Wire(Step, d))
    /\ result' = Failure("transport_no_response", "transport")
    /\ scrub' = scrub \cup Emitted(Step)
    /\ UNCHANGED <<doc, edits, ceiling, loaded, present, at, polls, caps, passed, tolerated>>

(* A success whose body cannot be read or parsed is an error, never a      *)
(* success; so is a rejection whose body does not parse.                   *)
Unreadable ==
    /\ Running /\ Renders(Step)
    /\ \E d \in BOOLEAN : Put(Wire(Step, d))
    /\ result' = Failure("failed", "unreadable")
    /\ scrub' = scrub \cup Emitted(Step)
    /\ UNCHANGED <<doc, edits, ceiling, loaded, present, at, polls, caps, passed, tolerated>>

(* A delivered rejection: tolerated when the step lists its status and     *)
(* guards nothing, otherwise returned with the provider's own body.        *)
Tolerates(s, status) ==
    /\ s.tol /\ status = "missing"
    /\ s.eq = {} /\ ~(at # Last(doc) /\ s.lit)

Rejected(status) ==
    /\ Running /\ Renders(Step)
    /\ \E d \in BOOLEAN : Put(Wire(Step, d))
    /\ scrub' = scrub \cup Emitted(Step)
    /\ IF Tolerates(Step, status)
       THEN tolerated' = tolerated \cup {at} /\ at' = at + 1 /\ polls' = 0 /\ UNCHANGED result
       ELSE Return(ClassOf(status), "status") /\ UNCHANGED <<tolerated, at, polls>>
    /\ UNCHANGED <<doc, edits, ceiling, loaded, present, caps, passed>>

(* Defect: only a crossed effect's assertions are looked at. *)
Verdict_SkipsReads(a) ==
    CASE a.errors -> Return("failed", "graphql")
      [] ~(a.eq /\ a.lit) /\ Crossed -> Return("postcondition_mismatch", "postcondition_failed")
      [] ~a.req -> Return("protocol_drift", "missing_proof_path")
      [] ~a.hdr -> Return("protocol_drift", "missing_retained_header")
      [] ~a.cap -> Return("failed", "capture")
      [] OTHER -> IF at = Last(doc)
                  THEN result' = [ok |-> TRUE, class |-> "none", word |-> "done", leaks |-> Scrubbed]
                  ELSE UNCHANGED result

(* A readable success: the GraphQL error surface, then the frozen-value    *)
(* and literal assertions, then the proof paths and headers, then the      *)
(* captures; and the last step's body is returned, scrubbed.               *)
Verdict(a) ==
    CASE a.errors -> Return("failed", "graphql")
      [] ~(a.eq /\ a.lit) ->
            IF Crossed THEN Return("postcondition_mismatch", "postcondition_failed")
            ELSE Return("failed", "precondition_failed")
      [] ~a.req -> Return("protocol_drift", "missing_proof_path")
      [] ~a.hdr -> Return("protocol_drift", "missing_retained_header")
      [] ~a.cap -> Return("failed", "capture")
      [] OTHER -> IF at = Last(doc)
                  THEN result' = [ok |-> TRUE, class |-> "none", word |-> "done", leaks |-> Scrubbed]
                  ELSE UNCHANGED result

Answered(a) ==
    /\ Running /\ Renders(Step)
    /\ \E d \in BOOLEAN : Put(Wire(Step, d))
    /\ scrub' = scrub \cup Emitted(Step)
    /\ IF ShouldPoll(a)
       THEN polls' = polls + 1 /\ UNCHANGED <<at, caps, passed, result>>
       ELSE /\ Verdict(a) /\ polls' = 0
            /\ passed' = IF Holds(a) THEN passed \cup {at} ELSE passed
            /\ caps' = IF Holds(a) THEN caps \cup Step.cap ELSE caps
            /\ at' = IF result' = NoResult THEN at + 1 ELSE at
    /\ UNCHANGED <<doc, edits, ceiling, loaded, present, tolerated>>

-----------------------------------------------------------------------------
(* The other two execution kinds.  A git verb carries an authorised ref    *)
(* update to a remote path built from its pins; a relay forwards the       *)
(* native tool's own hop when every bind of the matching shape holds.      *)
ExecuteGit ==
    /\ loaded /\ result = NoResult /\ doc.kind = "git"
    /\ LET fields == GitFields(doc) \cap present
           w == [path |-> doc.git.path, query |-> {},
                 body |-> {[n |-> n, form |-> "raw", from |-> "field"] : n \in fields \ doc.git.path}]
       IN  sent' = {[at |-> 1, wire |-> w, guarded |-> TRUE]}
    /\ \/ result' = [ok |-> TRUE, class |-> "none", word |-> "done", leaks |-> {}]
       \/ result' = Failure("failed", "status")
    /\ UNCHANGED <<doc, edits, ceiling, loaded, present, at, polls, caps, passed, tolerated, scrub>>

(* What a bind demands: nothing when the field froze as absence. *)
BindHolds(b, offered) ==
    IF b.at = "path" THEN b.n \in caps
    ELSE b.n \in present => offered = (IF b.omit THEN "absent" ELSE "frozen")

(* A hop names one shape and offers something at each bound position.  A   *)
(* wildcard segment no bind pins is the tool's own and carries no value.   *)
RelayHop(r) ==
    /\ loaded /\ result = NoResult /\ doc.kind = "relay"
    /\ \E offer \in [r.bind -> {"frozen", "other", "absent"}] :
          IF \A b \in r.bind : BindHolds(b, offer[b])
          THEN /\ sent' = sent \cup {[at |-> IF r.once THEN 1 ELSE 2, guarded |-> TRUE,
                     wire |-> [path |-> {b.n : b \in {c \in r.bind : c.at = "path"}}, query |-> {},
                               body |-> {[n |-> b.n, form |-> offer[b], from |-> "field"] : b \in
                                           {c \in r.bind : c.at # "path"}}]]}
               /\ \/ r.once /\ caps' = caps \cup r.cap /\ UNCHANGED result
                  \/ result' = [ok |-> TRUE, class |-> "none", word |-> "done", leaks |-> {}]
                       /\ UNCHANGED caps
                  \/ /\ r.once /\ r.assert # {} /\ UNCHANGED caps
                     /\ result' = Failure("postcondition_mismatch", "outcome_mismatch")
          ELSE result' = Failure("failed", "bind") /\ UNCHANGED <<sent, caps>>
    /\ UNCHANGED <<doc, edits, ceiling, loaded, present, at, polls, passed, tolerated, scrub>>

-----------------------------------------------------------------------------
Init == /\ doc \in Bases /\ edits = 0 /\ ceiling = "none" /\ loaded = FALSE
        /\ present = {} /\ at = 1 /\ polls = 0 /\ caps = {} /\ sent = {}
        /\ passed = {} /\ tolerated = {} /\ scrub = {} /\ result = NoResult

Next == \/ Edit \/ AddProvider \/ Load
        \/ RenderFails \/ NeverSent \/ NoAnswer \/ Unreadable
        \/ \E s \in Statuses : Rejected(s)
        \/ (Running /\ \E a \in Answers(Step) : Answered(a))
        \/ ExecuteGit
        \/ (doc.kind = "relay" /\ \E r \in doc.rules : RelayHop(r))

Spec == Init /\ [][Next]_vars

-----------------------------------------------------------------------------
Mutating(h) == doc.kind # "http" \/ ~IsRead(doc.steps[h.at])

(* Where a credentialed request goes is decided by the approval alone:     *)
(* every value in a path or a query is a field some rule pins, a read      *)
(* filter of an account-scoped read, or what the provider itself answered  *)
(* to the one mutation a setup action reconciles (or a relay polls).       *)
ApprovalSteersUrl ==
    \A h \in sent :
        LET steering == h.wire.path \cup {x.n : x \in h.wire.query} IN
        \A n \in steering :
            \/ Declared(doc, n) /\ (n \in doc.targets \/ doc.kind = "git")
                 /\ doc.decl[n].class \in {"identity", "side_effect"}
            \/ Declared(doc, n) /\ doc.decl[n].class = "read_filter" /\ IsRead(doc.steps[h.at])
            \/ n \in caps /\ ~Mutating(h) /\ doc.setup
            \/ n \in caps /\ doc.kind = "relay" /\ h.at = 2

(* No mutation leaves before every earlier step has either answered with   *)
(* all its assertions holding or been excused without guarding anything.   *)
EffectIsGuarded == \A h \in sent : Mutating(h) => h.guarded

(* "Retry freely" and "precondition failed" are told only of an execution  *)
(* whose last step mutated nothing: of a template that mutates there and   *)
(* nowhere else, only when nothing happened.  The code says as much of     *)
(* every template ("before it nothing happened", execute_steps), and of    *)
(* one that mutates earlier it is false: the shipped                       *)
(* stripe.fixture_dispute_charge_create answers precondition_failed from   *)
(* its last read, after its charge landed.                                 *)
NoEffectIsTrue ==
    result # NoResult /\ doc.kind = "http"
        /\ (result.class = "transport_pre_send" \/ result.word \in {"precondition_failed", "render"})
    => \A h \in sent : Mutating(h) => h.at # Last(doc)

(* A secret the agent submitted comes back in no form it went out in. *)
SecretsStayOut == result # NoResult => result.leaks = {}

(* A success means the approved value took effect: every consumed field    *)
(* that was frozen went out on some hop, was left out by its own literal,  *)
(* or was compared with what the provider holds.                           *)
ApprovedReachesWire ==
    result # NoResult /\ result.ok /\ doc.kind \in {"http", "git"} =>
        \A n \in doc.consumes \cap present :
            \/ \E h \in sent : n \in h.wire.path \cup {x.n : x \in h.wire.query \cup h.wire.body}
            \/ \E i \in passed : n \in doc.steps[i].eq
            \/ \E i \in Steps(doc) : \E p \in doc.steps[i].body : p.n = n /\ p.tf = "omit"
=============================================================================
