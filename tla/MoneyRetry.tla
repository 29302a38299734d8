------------------------------ MODULE MoneyRetry ------------------------------
(***************************************************************************)
(* A money request from the agent's call to the provider's answer, and the *)
(* referenced retry of an effect whose outcome is unknown.                 *)
(*                                                                         *)
(* The broker is one thread: a request (req) or an execution (run) is in   *)
(* progress, never both.  Around it the clock, the sentence authority, the *)
(* credential, the provider's objects and other processes move on between  *)
(* any two of its durable writes, and a crash may end it at any of them.   *)
(*                                                                         *)
(* A grant is what the row, its HMAC-bound money metadata and its audit    *)
(* events say together: start is capability_effect_starting, term the      *)
(* terminal provider_action_* event.                                       *)
(***************************************************************************)
EXTENDS MoneyProvider, FiniteSetsExt

CONSTANTS
    Verbs,        \* the verbs under study; one per behaviour
    Worlds,       \* initial provider object of each verb
    Amounts,      \* amounts an agent may ask for
    Fingerprints, \* sentence authorities, in the order the operator commits them
    Aggregate,    \* budget aggregate the admitting rule names, "none" without one
    EvidenceTTL,  \* EVIDENCE_TTL_SECS
    GrantTTL,     \* GRANT_TTL_SECS
    LeaseTTL,     \* runtime bound plus LEASE_REPORT_GRACE_SECS
    MaxFresh,     \* bound on requests that name no prior effect
    MaxGrants, MaxNow, MaxEnv, MaxCrashes

MoneyAssumption ==
    /\ MaxGrants \in Nat /\ MaxFresh \in Nat /\ MaxNow \in Nat /\ MaxEnv \in Nat
    /\ MaxCrashes \in Nat
    /\ EvidenceTTL \in Nat /\ GrantTTL \in Nat /\ LeaseTTL \in Nat

VARIABLES
    verb, world,        \* the provider's object
    ledger,             \* what the provider did under each idempotency key
    now, gen, fp, build,\* clock, credential generation, authority, template and descriptor hashes
    grants, mint,       \* grant rows and the budget mint named after each
    used,               \* grant ids given out so far
    req, run,           \* the request or the execution in progress
    env, crashes        \* bounds on the environment

vars == <<verb, world, ledger, now, gen, fp, build, grants, mint, used,
          req, run, env, crashes>>

Ids == 1 .. MaxGrants
NoTerm == [shape |-> "none"]
NoGrant == [status |-> "absent"]
Idle == [stage |-> "idle"]
NoKey == [landed |-> 0]

-----------------------------------------------------------------------------
(* The retry lineage *)

Effect(i) == IF grants[i].status = "absent" THEN 0 ELSE grants[i].effect
Lineage(e) == {i \in Ids : e # 0 /\ Effect(i) = e}
IsRetry(i) == grants[i].status # "absent" /\ grants[i].parent # 0

\* validate_money_terminal: the closed table of terminals a money grant may carry.
TerminalState(t) ==
    CASE t.shape = "error" /\ t.invoked /\ t.effect = "ambiguous" -> "ambiguous"
      [] t.shape = "error" /\ ~t.invoked /\ t.effect = "definitely_pre_effect" -> "pre_effect"
      [] t.shape = "ok" /\ t.invoked /\ t.effect = "succeeded" -> "final"
      [] t.shape = "failed" /\ t.invoked /\ t.effect = "ambiguous" -> "ambiguous"
      [] t.shape = "failed" /\ t.invoked /\ t.effect = "definitely_failed" -> "final"
      [] t.shape = "bare" /\ ~t.invoked /\ t.effect = "definitely_pre_effect" -> "pre_effect"
      [] OTHER -> "integrity"

\* An adapter that was entered, or that failed in entering, was announced first.
SequenceOK(g) == g.start \/ (g.term.shape = "bare" /\ ~g.term.invoked)

\* authenticated_retry_state.
RetryState(i) ==
    LET g == grants[i] IN
    IF g.term # NoTerm
    THEN IF SequenceOK(g) THEN TerminalState(g.term) ELSE "integrity"
    ELSE IF g.start /\ g.status \in {"executing", "expired"} THEN "ambiguous" ELSE "unavailable"

\* load_retry_node: a node answers only inside the deadline and under the hashes it froze.
Loads(i) == now <= grants[i].deadline /\ grants[i].build = build

\* An attempt and the attempts it retries, back to the original grant.
Ancestry(i) ==
    LET closed == {S \in SUBSET Ids : i \in S /\ \A j \in S : IsRetry(j) => grants[j].parent \in S}
    IN  {j \in Ids : \A S \in closed : j \in S}

\* The original mutation grant owns the reservation, however many retries follow.
Owner(i) == CHOOSE j \in Ancestry(i) : ~IsRetry(j)

\* A parent is older than its retries, so the nearest ancestor is the newest; 0 is none.
Nearest(S) == IF S = {} THEN 0 ELSE Max(S)

\* The walk from the newest grant of the effect past attempts that never began, to
\* the first that does not load or answers otherwise.
Walk(e) ==
    LET line == IF Lineage(e) = {} THEN {} ELSE Ancestry(Max(Lineage(e)))
        stop == Nearest({i \in line : ~Loads(i) \/ RetryState(i) # "pre_effect"})
        loads == stop # 0 /\ Loads(stop)
    IN  [visited |-> {i \in line : i > stop \/ (i = stop /\ loads)},
         parent |-> IF loads /\ RetryState(stop) = "ambiguous" THEN stop ELSE 0]

\* verified_logical_money_effect_outcome: what every status and log surface says of the effect.
Disposition_OwnOnly(i) ==
    LET g == grants[i] IN
    IF g.term # NoTerm THEN g.term.effect
    ELSE IF g.abandoned /\ g.start THEN "ambiguous" ELSE "none"

\* Defect: a retry that never began answers for the whole effect.
Disposition_Bug(i) == Disposition_OwnOnly(i)

Disposition(i) ==
    LET began == {j \in Ancestry(i) : Disposition_OwnOnly(j) # "definitely_pre_effect"}
    IN  IF began = {} THEN "definitely_pre_effect" ELSE Disposition_OwnOnly(Max(began))

-----------------------------------------------------------------------------
(* Grants and their budget mint *)

Released(m, i) == IF m[i].state = "held" THEN [m EXCEPT ![i].state = "released"] ELSE m

\* reconcile_terminal_execution, on every node an authentication visits.
Reconciled(i) ==
    IF grants[i].status = "executing" /\ grants[i].term # NoTerm
    THEN [grants[i] EXCEPT !.status = "executed"] ELSE grants[i]

ReconcileAll(S) ==
    /\ grants' = [i \in Ids |-> IF i \in S THEN Reconciled(i) ELSE grants[i]]
    /\ mint' = [i \in Ids |->
                  IF /\ i \in S /\ grants[i].term # NoTerm
                     /\ grants[i].term.effect = "definitely_pre_effect" /\ mint[i].state = "held"
                  THEN [mint[i] EXCEPT !.state = "released"] ELSE mint[i]]

\* retry_budget_substitution: the one unreleased mint of the lineage, under the
\* same aggregate, stands for the retry too.
Substitutes(parent) ==
    LET mints == {i \in Ancestry(parent) : mint[i].state # "none"} IN
    \/ Aggregate[fp] = "none" /\ mints = {}
    \/ /\ Aggregate[fp] # "none"
       /\ mints = {Owner(parent)}
       /\ mint[Owner(parent)].state = "held"
       /\ mint[Owner(parent)].agg = Aggregate[fp]

-----------------------------------------------------------------------------
(* The request *)

Quiet == req = Idle /\ run = Idle

Init ==
    /\ verb \in {v \in Verbs : ProfileFits(v)}
    /\ world = Worlds[verb]
    /\ ledger = [k \in Ids |-> NoKey]
    /\ now = 0 /\ gen = 1 /\ fp = 1 /\ build = 1
    /\ grants = [i \in Ids |-> NoGrant]
    /\ mint = [i \in Ids |-> [state |-> "none"]]
    /\ used = 0
    /\ req = Idle /\ run = Idle
    /\ env \in 0..MaxEnv /\ crashes \in 0..MaxCrashes

\* Nothing is opened for a request no rule could admit, whatever the provider says.
Feasible == Aggregate[fp] # "deny"

\* The agent asks, naming a prior effect or none.  The lineage is authenticated
\* first, then the symbolic verdict, and only then the credential is opened; the
\* evidence clock starts before the read.
Ask(amount, e) ==
    LET walk == Walk(e) IN
    /\ Quiet /\ used < MaxGrants
    /\ IF e = 0 THEN used < MaxFresh ELSE e \in {Effect(i) : i \in Ids}
    /\ ReconcileAll(walk.visited)
    /\ req' = IF Feasible /\ (e # 0 => walk.parent # 0)
              THEN [stage |-> "resolving", amount |-> amount, parent |-> walk.parent,
                    gen |-> gen, fp |-> fp, deadline |-> now + EvidenceTTL]
              ELSE Idle
    /\ <<grants', req'>> # <<grants, req>>
    /\ UNCHANGED <<verb, world, ledger, now, gen, fp, build, used, run, env, crashes>>

Current == now <= req.deadline /\ gen = req.gen

\* What the provider's objects say, beside what the agent supplied: one frozen
\* resource, or none.
ResolvedEvidence ==
    IF Resolvable(verb, world, req.amount) THEN {Frozen(verb, world, req.amount)} ELSE {}
CanonicalRequest == {[team |-> t] : t \in Canonical(world)}

\* A retry must freeze exactly what the attempt it names froze.
SameRequest(frozen) == req.parent # 0 => grants[req.parent].frozen = frozen

Refuse ==
    /\ req' = Idle
    /\ UNCHANGED <<grants, mint, used>>

\* The credential is opened and the objects are read; the reading is dropped when
\* it outlived the evidence deadline or the credential it was made with.
Resolve ==
    /\ req.stage = "resolving"
    /\ LET read == IF verb = "deploy" THEN CanonicalRequest ELSE ResolvedEvidence
           good == {f \in read : Current /\ SameRequest(f)}
       IN  \/ good = {} /\ Refuse
           \/ \E f \in good :
                /\ req' = [stage |-> "resolved", amount |-> req.amount, parent |-> req.parent,
                           gen |-> req.gen, fp |-> req.fp, deadline |-> req.deadline, frozen |-> f]
                /\ UNCHANGED <<grants, mint, used>>
    /\ UNCHANGED <<verb, world, ledger, now, gen, fp, build, run, env, crashes>>

\* The authority read before the resolution still stands, and a retry stays inside
\* its deadline and on its owner's reservation.
Admits ==
    /\ Current /\ fp = req.fp
    /\ req.parent # 0 => now <= grants[req.parent].deadline /\ Substitutes(req.parent)

\* The sentence judges the frozen resource under the authority read before the
\* resolution, which must still stand; a fresh debit is durable before the grant.
Judge ==
    /\ req.stage = "resolved"
    /\ \/ ~Admits /\ Refuse
       \/ /\ Admits
          /\ used' = used + 1
          /\ mint' = IF req.parent = 0 /\ Aggregate[fp] # "none"
                     THEN [mint EXCEPT ![used + 1] = [state |-> "held", agg |-> Aggregate[fp],
                                                      expires |-> now + GrantTTL]]
                     ELSE mint
          /\ req' = [req EXCEPT !.stage = "debited"]
          /\ UNCHANGED grants
    /\ UNCHANGED <<verb, world, ledger, now, gen, fp, build, run, env, crashes>>

Expiry(i) == IF mint[i].state = "held" THEN mint[i].expires ELSE now + GrantTTL

\* The money metadata: a fresh effect and key, or the parent's carried over.
Money_FreshKey(i) ==
    IF req.parent = 0
    THEN [effect |-> i, key |-> i, parent |-> 0, deadline |-> Expiry(i)]
    ELSE [effect |-> grants[req.parent].effect, key |-> i,
          parent |-> req.parent, deadline |-> grants[req.parent].deadline]

\* Defect: a retry mints an idempotency key of its own.
Money_Bug(i) == Money_FreshKey(i)

Money(i) ==
    [Money_FreshKey(i) EXCEPT !.key = IF req.parent = 0 THEN i ELSE grants[req.parent].key]

\* The insertion boundary: evidence and retry deadline once more, then the row.
Insert ==
    /\ req.stage = "debited"
    /\ LET i == used
           late == req.parent # 0 /\ now > grants[req.parent].deadline
       IN
       \/ /\ ~Current
          /\ mint' = Released(mint, i)
          /\ UNCHANGED grants
       \/ /\ Current /\ late
          /\ UNCHANGED <<grants, mint>>
       \/ /\ Current /\ ~late
          /\ LET m == IF verb \in MoneyVerbs THEN Money(i)
                      ELSE [effect |-> 0, key |-> i, parent |-> 0, deadline |-> Expiry(i)]
             IN grants' = [grants EXCEPT ![i] =
                    [status |-> "approved", effect |-> m.effect, key |-> m.key, parent |-> m.parent,
                     deadline |-> m.deadline,
                     expiry |-> IF req.parent = 0 THEN Expiry(i) ELSE m.deadline,
                     frozen |-> req.frozen, evidence |-> req.deadline, gen |-> req.gen, fp |-> req.fp,
                     build |-> build, lease |-> -1, start |-> FALSE, term |-> NoTerm, abandoned |-> FALSE]]
          /\ UNCHANGED mint
    /\ req' = Idle
    /\ UNCHANGED <<verb, world, ledger, now, gen, fp, build, used, run, env, crashes>>

-----------------------------------------------------------------------------
(* The execution *)

\* verify_grant_evidence, and every bracket the claim re-reads.
Claimable(g) ==
    /\ g.status = "approved"
    /\ now <= g.expiry /\ now <= g.deadline
    /\ g.fp = fp /\ g.build = build
    /\ now <= g.evidence /\ g.gen = gen

Claim(i) ==
    /\ Quiet /\ Claimable(grants[i])
    /\ grants' = [grants EXCEPT ![i].status = "executing", ![i].lease = now + LeaseTTL]
    /\ run' = [stage |-> "claimed", id |-> i]
    /\ UNCHANGED <<verb, world, ledger, now, gen, fp, build, mint, used, req, env, crashes>>

Terminate(i, t) ==
    /\ grants' = [grants EXCEPT ![i].term = t]
    /\ run' = [stage |-> "recorded", id |-> i]

PreEffect(shape) == [shape |-> shape, invoked |-> FALSE, effect |-> "definitely_pre_effect"]

\* Lockdown, a rotated credential, or a precondition that no longer holds.
CheckFails ==
    /\ run.stage = "claimed"
    /\ Terminate(run.id, PreEffect("bare"))
    /\ UNCHANGED <<verb, world, ledger, now, gen, fp, build, mint, used, req, env, crashes>>

\* The preconditions hold on the live object, and the effect is announced.
StartEffect ==
    /\ run.stage = "claimed"
    /\ gen = grants[run.id].gen
    /\ verb \in MoneyVerbs => PreconditionsHold(verb, world, grants[run.id].frozen)
    /\ grants' = [grants EXCEPT ![run.id].start = TRUE]
    /\ run' = [stage |-> "started", id |-> run.id]
    /\ UNCHANGED <<verb, world, ledger, now, gen, fp, build, mint, used, req, env, crashes>>

\* The credential of the frozen generation no longer opens, or lockdown engaged:
\* the adapter is never entered.
NotInvoked ==
    /\ run.stage = "started"
    /\ Terminate(run.id, PreEffect("error"))
    /\ UNCHANGED <<verb, world, ledger, now, gen, fp, build, mint, used, req, env, crashes>>

Answer(kind, body) ==
    run' = [stage |-> "answered", id |-> run.id, kind |-> kind, body |-> body]

Land(g) ==
    /\ ledger' = [ledger EXCEPT ![g.key] =
                    [landed |-> 1, frozen |-> g.frozen, body |-> Body(verb, world, g.frozen)]]
    /\ world' = After(verb, world, g.frozen)

\* The request leaves, or does not.  The provider replays a key it has processed,
\* refuses at its edge without looking at the key, or processes the request; an
\* answer may be lost on the way back, or be one the success contract cannot read
\* or finds in another status than it asserts.
Invoke ==
    /\ run.stage = "started" /\ gen = grants[run.id].gen
    /\ LET g == grants[run.id]
           known == ledger[g.key].landed = 1
           replay == known /\ ledger[g.key].frozen = g.frozen
       IN
       \/ Answer("unsent", {}) /\ UNCHANGED <<ledger, world>>
       \/ Answer("lost", {}) /\ UNCHANGED <<ledger, world>>
       \/ Answer("refused", {}) /\ UNCHANGED <<ledger, world>>
       \/ Answer("unclear", {}) /\ UNCHANGED <<ledger, world>>
       \/ replay /\ Answer("body", ledger[g.key].body) /\ UNCHANGED <<ledger, world>>
       \/ /\ ~known /\ Accepts(verb, world, g.frozen)
          /\ Land(g)
          /\ \/ Answer("body", Body(verb, world, g.frozen))
             \/ Answer("lost", {})
             \/ Answer("unclear", {})
    /\ UNCHANGED <<verb, now, gen, fp, build, grants, mint, used, req, env, crashes>>

\* What the answer proves, and the disposition derived from it in one place.
TerminalOf(kind, proved) ==
    CASE kind = "unsent"  -> [shape |-> "error", invoked |-> TRUE, effect |-> "ambiguous"]
      [] kind = "lost"    -> [shape |-> "error", invoked |-> TRUE, effect |-> "ambiguous"]
      [] kind = "refused" -> [shape |-> "failed", invoked |-> TRUE, effect |-> "definitely_failed"]
      [] kind = "body" /\ proved -> [shape |-> "ok", invoked |-> TRUE, effect |-> "succeeded"]
      [] OTHER -> [shape |-> "failed", invoked |-> TRUE, effect |-> "ambiguous"]

Record ==
    /\ run.stage = "answered"
    /\ Terminate(run.id, TerminalOf(run.kind,
                    run.kind = "body" /\ Proves(verb, grants[run.id].frozen, run.body)))
    /\ UNCHANGED <<verb, world, ledger, now, gen, fp, build, mint, used, req, env, crashes>>

\* The row follows its terminal event; a debit that moved nothing is given back.
Finish ==
    /\ run.stage = "recorded"
    /\ grants' = [grants EXCEPT ![run.id].status = "executed"]
    /\ mint' = IF grants[run.id].term.invoked THEN mint ELSE Released(mint, run.id)
    /\ run' = Idle
    /\ UNCHANGED <<verb, world, ledger, now, gen, fp, build, used, req, env, crashes>>

-----------------------------------------------------------------------------
(* Expiry, abandonment and the sweep of mints *)

Expire(i) ==
    /\ Quiet /\ grants[i].status = "approved" /\ now > grants[i].expiry
    /\ grants' = [grants EXCEPT ![i].status = "expired"]
    /\ mint' = Released(mint, i)
    /\ UNCHANGED <<verb, world, ledger, now, gen, fp, build, used, req, run, env, crashes>>

Abandon(i) ==
    /\ Quiet /\ grants[i].status = "executing" /\ grants[i].term = NoTerm
    /\ now > grants[i].lease
    /\ grants' = [grants EXCEPT ![i].status = "expired", ![i].abandoned = TRUE]
    /\ UNCHANGED <<verb, world, ledger, now, gen, fp, build, mint, used, req, run, env, crashes>>

PreInvocationFact(g) == g.term # NoTerm /\ ~g.term.invoked

\* budget_grant_releasable: absence or a proven lapse of an unclaimed grant, or the
\* durable fact that no adapter was entered.
Releasable(i) ==
    LET g == grants[i] IN
    CASE g.status = "absent" -> TRUE
      [] g.status = "approved" -> g.expiry = mint[i].expires
      [] g.status = "expired" /\ g.lease = -1 -> g.expiry = mint[i].expires
      [] OTHER -> PreInvocationFact(g)

Sweep(i) ==
    /\ Quiet /\ mint[i].state = "held" /\ now > mint[i].expires /\ Releasable(i)
    /\ mint' = Released(mint, i)
    /\ UNCHANGED <<verb, world, ledger, now, gen, fp, build, grants, used, req, run, env, crashes>>

-----------------------------------------------------------------------------
(* The rest of the world *)

Tick ==
    /\ now < MaxNow /\ now' = now + 1
    /\ UNCHANGED <<verb, world, ledger, gen, fp, build, grants, mint, used, req, run, env, crashes>>

\* Somebody else moves the object, where the verb's profile would notice.
Drift ==
    IF verb = "deploy" THEN {[world EXCEPT !.teams = {"t1", "t2"}]}
    ELSE {[world EXCEPT !.left = l - 1] : l \in {world.left} \ {0}}
         \cup {[world EXCEPT !.inert = FALSE], [world EXCEPT !.holder = "other"]}

Disturb ==
    /\ env < MaxEnv /\ env' = env + 1
    /\ \/ gen' = gen + 1 /\ UNCHANGED <<fp, world>>
       \/ fp + 1 \in Fingerprints /\ fp' = fp + 1 /\ UNCHANGED <<gen, world>>
       \/ world' \in Drift /\ UNCHANGED <<gen, fp>>
    /\ UNCHANGED <<verb, ledger, now, build, grants, mint, used, req, run, crashes>>

\* The daemon dies; what it had not written is gone.  It may return as another build.
Crash ==
    /\ crashes < MaxCrashes /\ crashes' = crashes + 1
    /\ req' = Idle /\ run' = Idle
    /\ \/ ~Quiet /\ UNCHANGED build
       \/ env < MaxEnv /\ build' = build + 1
    /\ env' = IF build' = build THEN env ELSE env + 1
    /\ UNCHANGED <<verb, world, ledger, now, gen, fp, grants, mint, used>>

Next ==
    \/ \E a \in IF "amount" \in Inputs(verb) THEN Amounts ELSE {0}, e \in {0} \cup Ids : Ask(a, e)
    \/ Resolve \/ Judge \/ Insert
    \/ \E i \in Ids : Claim(i) \/ Expire(i) \/ Abandon(i) \/ Sweep(i)
    \/ CheckFails \/ StartEffect \/ NotInvoked \/ Invoke \/ Record \/ Finish
    \/ Tick \/ Disturb \/ Crash

Spec == Init /\ [][Next]_vars

-----------------------------------------------------------------------------
(* Properties *)

Landed(e) == {grants[i].key : i \in {j \in Lineage(e) : ledger[grants[j].key].landed = 1}}

\* However often an effect is retried, and across crashes, rotations and rule
\* changes, the provider performs it at most once, and every attempt under its key
\* carries the request the first one froze.
LandedOnce ==
    \A i \in Ids : Effect(i) # 0 =>
        /\ \A k, l \in Landed(Effect(i)) : k = l
        /\ \A j \in Lineage(Effect(i)) : grants[j].frozen = grants[i].frozen

\* Money that moved stays counted: an effect that landed under a budgeted rule
\* keeps its owner's mint, and no retry ever takes a second one.
LandedIsCounted ==
    \A i \in Ids : Effect(i) # 0 =>
        /\ Landed(Effect(i)) # {} => mint[Owner(i)].state # "released"
        /\ IsRetry(i) => mint[i].state = "none"

\* Every terminal an execution writes is one the lineage authenticates: the writer
\* in execute and the closed table in mint never disagree.
TerminalsAuthenticate ==
    \A i \in Ids : Effect(i) # 0 => RetryState(i) # "integrity"

\* A settled effect is closed: no grant is minted for it after an attempt proved
\* success or was refused, and no two attempts are ever open at once.
FinalIsLast ==
    \A i, j \in Ids : Effect(i) # 0 /\ Effect(i) = Effect(j) /\ i < j =>
        /\ RetryState(i) # "final"
        /\ grants[i].status \in {"executing", "executed", "expired"}

\* What the status and log surfaces say of an effect is true of the provider:
\* `succeeded` landed, `definitely_pre_effect` did not.
DispositionTrue ==
    \A i \in Ids : Effect(i) # 0 => \A told \in {Disposition(i)} :
        /\ told = "succeeded" => Landed(Effect(i)) # {}
        /\ told = "definitely_pre_effect" => Landed(Effect(i)) = {}

\* docs/FIELDS.md says of `definitely_failed`, the disposition every status and log
\* surface shows: "The effect did not land, and that is known."
FailedDidNotLand ==
    \A i \in Ids : Effect(i) # 0 /\ Disposition(i) = "definitely_failed" => Landed(Effect(i)) = {}

=============================================================================
