--------------------------- MODULE GrantExecution ---------------------------
(***************************************************************************)
(* The life of a single-use grant: minted under a metered sentence,        *)
(* claimed, executed against a provider, and settled in two durable stores *)
(* that share no transaction.                                              *)
(*                                                                         *)
(*   state.db   status, expiry, lease and frozen: one row per grant        *)
(*   audit.db   log: the append-only events some code path reads back      *)
(*                                                                         *)
(* One broker thread runs every call to completion (cermet-broker-actor),  *)
(* so calls never overlap; the thread is (pc, cur) plus its locals, and a  *)
(* step of it is one durable write or one read of state that others        *)
(* change.  Others are the owner's lockdown latch, the custody of the      *)
(* sentence authority, the provider and the clock.  Crash stops the        *)
(* process between any two steps; Fault is an Err returned by a write,     *)
(* which ends the call and leaves the daemon up.                           *)
(***************************************************************************)
EXTENDS AggregateBudget

CONSTANTS
    Grants,       \* grant ids; each id is minted at most once
    NoGrant,      \* cur between calls
    Legacy,       \* rows a pre-sentence daemon left in state.db
    LegacyLog,    \* the budget mints that daemon left in audit.db
    EvidenceBacked, \* grants of verbs with a request-evidence profile
    Debit,        \* what each grant debits its aggregate; 0 when unmetered
    Limit,        \* the limit of the aggregate
    Period,       \* its calendar window, in clock units
    TTL,          \* GRANT_TTL_SECS
    LeaseTerm,    \* DEFAULT_MAX_RUNTIME_SECS + LEASE_REPORT_GRACE_SECS
    MaxTime,      \* bound: the clock stops here
    CallHorizon,  \* bound: calls begin up to here, and past it the clock waits for them
    MaxVersion,   \* bound: commits of the sentence authority
    MaxMishaps,   \* bound: crashes, write faults and clock steps in one behaviour
    ClockMayStepBack \* whether the wall clock can be set back

ASSUME GrantsAssumption ==
    /\ NoGrant \notin Grants
    /\ Legacy \subseteq Grants
    /\ EvidenceBacked \subseteq Grants
    /\ Debit \in [Grants -> Nat]

ASSUME NumbersAssumption ==
    /\ Limit \in Nat /\ MaxVersion \in Nat /\ MaxMishaps \in Nat
    /\ MaxTime \in Nat /\ CallHorizon \in Nat
    /\ ClockMayStepBack \in BOOLEAN
    /\ Period \in Nat \ {0} /\ TTL \in Nat \ {0} /\ LeaseTerm \in Nat \ {0}

VARIABLES
    status, expiry, lease, frozen,  \* state.db, table grants
    log,                            \* audit.db
    effects,                        \* the provider: effects per grant
    now,                            \* the wall clock
    version, readable,              \* the sentence authority and whether it reads
    locked,                         \* the owner's lockdown latch
    booting, pass, todo,            \* the running sweep and the ids it selected
    pc, cur,                        \* the broker thread
    invoked, unclaimed, snap, decidedAt,  \* locals of the call in progress
    mishaps,                        \* crashes and faults so far
    claimedUnder, inflight, lockEffects   \* history, read by no action

stateDb == <<status, expiry, lease, frozen>>
locals == <<invoked, unclaimed, snap, decidedAt>>
world == <<now, version, readable, locked, mishaps>>
sweep == <<booting, pass, todo>>
history == <<claimedUnder, inflight, lockEffects>>
vars == <<stateDb, log, effects, world, sweep, pc, cur, locals, history>>

-----------------------------------------------------------------------------
(* The audit log.  An event carries what its readers use: the trusted      *)
(* invocation classification of a terminal event, the decision epoch of a  *)
(* mint, the mint a release tombstones.                                    *)

Kinds == {"budget_mint", "budget_release", "capability_effect_starting",
          "provider_action", "lease_abandoned", "grant_expired",
          "authority_cutover_terminalized"}

Events == [kind : Kinds, grant : Grants, invoked : BOOLEAN, ts : Nat, mint : Nat]

Event(k, g) ==
    [kind |-> k, grant |-> g, invoked |-> FALSE, ts |-> 0, mint |-> 0]
MintEvent(g, at) ==
    [kind |-> "budget_mint", grant |-> g, invoked |-> FALSE, ts |-> at, mint |-> 0]

ReleaseEvent(g, m) ==
    [kind |-> "budget_release", grant |-> g, invoked |-> FALSE, ts |-> 0, mint |-> m]
TerminalEvent(g, inv) ==
    [kind |-> "provider_action", grant |-> g, invoked |-> inv, ts |-> 0, mint |-> 0]

(* Whether a log holds an event of kind k for g; a terminal event of g     *)
(* with this invocation classification; a mint of g that lapsed before t.  *)
HasIn(l, k, g) == \E i \in DOMAIN l : l[i].kind = k /\ l[i].grant = g
TerminatedIn(l, g, inv) ==
    \E i \in DOMAIN l : /\ l[i].kind = "provider_action"
                        /\ l[i].grant = g
                        /\ l[i].invoked = inv
LapsedIn(l, g, t) ==
    \E i \in DOMAIN l : /\ l[i].kind = "budget_mint"
                        /\ l[i].grant = g
                        /\ l[i].ts + TTL < t

Of(k, g) == {i \in DOMAIN log : log[i].kind = k /\ log[i].grant = g}
Has(k, g) == HasIn(log, k, g)
Terminated(g, inv) == TerminatedIn(log, g, inv)
Unreported(g) == ~Terminated(g, TRUE) /\ ~Terminated(g, FALSE)

Record(e) == log' = Append(log, e)

(* release_budget_for_grant: no mint or an existing release is a no-op. *)
Releasable(g) == Has("budget_mint", g) /\ ~Has("budget_release", g)
ReleaseBudget(g) ==
    IF Releasable(g)
    THEN \E m \in Of("budget_mint", g) : Record(ReleaseEvent(g, m))
    ELSE UNCHANGED log

(* load_evidence: the aggregate's own events, up to the newest row. *)
Evidence ==
    [i \in DOMAIN log |->
        [kind |-> log[i].kind, id |-> i, grant |-> log[i].grant, mint |-> log[i].mint,
         ts |-> log[i].ts, debit |-> Debit[log[i].grant], digest |-> "resolution"]]
Aggregate == [meter |-> "budget", limit |-> Limit, period |-> Period,
              digest |-> "resolution"]

-----------------------------------------------------------------------------
(* The broker thread. *)

Idle == pc = "idle"
Ready == Idle /\ ~booting /\ pass = "none"

Enter(g, l) == cur' = g /\ pc' = l
Goto(l) == pc' = l /\ UNCHANGED cur
Return == /\ pc' = "idle" /\ cur' = NoGrant
          /\ invoked' = FALSE /\ unclaimed' = FALSE /\ snap' = 0 /\ decidedAt' = 0

Set(f, g, v) == [f EXCEPT ![g] = v]

(* What a pre-sentence daemon left behind: at most one mint per row. *)
ASSUME LegacyLogAssumption ==
    /\ LegacyLog \in Seq(Events)
    /\ \A i \in DOMAIN LegacyLog :
         LegacyLog[i].kind = "budget_mint" /\ LegacyLog[i].grant \in Legacy
    /\ \A i, j \in DOMAIN LegacyLog : LegacyLog[i].grant = LegacyLog[j].grant => i = j

Init ==
    /\ status \in {s \in [Grants -> {"absent", "requested", "approved"}] :
                     \A g \in Grants : s[g] = "absent" <=> g \notin Legacy}
    /\ expiry = [g \in Grants |-> IF g \in Legacy THEN TTL ELSE 0]
    /\ lease = [g \in Grants |-> 0]
    /\ frozen = [g \in Grants |-> 0]
    /\ log = LegacyLog
    /\ effects = [g \in Grants |-> 0]
    /\ now = 0 /\ version = 0 /\ readable = TRUE /\ locked = FALSE /\ mishaps = 0
    /\ booting = TRUE /\ pass = "none" /\ todo = {}
    /\ pc = "idle" /\ cur = NoGrant
    /\ invoked = FALSE /\ unclaimed = FALSE /\ snap = 0 /\ decidedAt = 0
    /\ claimedUnder = [g \in Grants |-> 0] /\ inflight = FALSE /\ lockEffects = 0

-----------------------------------------------------------------------------
(* Minting: request_capability_for_principal_owned_with_source.  The       *)
(* sentence has allowed the request; a deny mints nothing.                 *)

RequestBegin(g) ==
    /\ Ready /\ now <= CallHorizon /\ ~locked /\ readable
    /\ g \notin Legacy /\ status[g] = "absent" /\ ~Has("budget_mint", g)
    /\ Enter(g, "m_gate")
    /\ snap' = version
    /\ UNCHANGED <<stateDb, log, effects, world, sweep, invoked, unclaimed, decidedAt, history>>

(* An evidence-backed request re-reads the authority after the credentialed *)
(* resolution; then the aggregate is decided at one captured epoch.         *)
BudgetGate ==
    /\ pc = "m_gate"
    /\ LET unchanged == cur \in EvidenceBacked => readable /\ version = snap
           admitted == \/ Debit[cur] = 0
                       \/ DecideAggregate(Aggregate, Debit[cur], Evidence, now) = "Allow"
       IN IF unchanged /\ admitted
          THEN /\ Goto(IF Debit[cur] = 0 THEN "m_recheck" ELSE "m_debit")
               /\ decidedAt' = now
               /\ UNCHANGED <<invoked, unclaimed, snap>>
          ELSE Return
    /\ UNCHANGED <<stateDb, log, effects, world, sweep, history>>

RecordBudgetMint ==
    /\ pc = "m_debit"
    /\ Record(MintEvent(cur, decidedAt))
    /\ Goto("m_recheck")
    /\ UNCHANGED <<stateDb, effects, world, sweep, locals, history>>

(* Evidence that went stale behind the budget write is a deny that voids   *)
(* the debit it had just taken.                                            *)
EvidenceRecheck ==
    /\ pc = "m_recheck"
    /\ \/ Goto("m_insert") /\ UNCHANGED locals
       \/ cur \in EvidenceBacked /\ Debit[cur] > 0 /\ Goto("m_void") /\ UNCHANGED locals
       \/ cur \in EvidenceBacked /\ Debit[cur] = 0 /\ Return
    /\ UNCHANGED <<stateDb, log, effects, world, sweep, history>>

VoidMint ==
    /\ pc = "m_void"
    /\ ReleaseBudget(cur)
    /\ Return
    /\ UNCHANGED <<stateDb, effects, world, sweep, history>>

(* A metered grant expires with its mint, an unmetered one TTL from now. *)
InsertGrant ==
    /\ pc = "m_insert"
    /\ status' = Set(status, cur, "approved")
    /\ expiry' = Set(expiry, cur, (IF Debit[cur] > 0 THEN decidedAt ELSE now) + TTL)
    /\ frozen' = Set(frozen, cur, snap)
    /\ Return
    /\ UNCHANGED <<lease, log, effects, world, sweep, history>>

-----------------------------------------------------------------------------
(* Executing: claim_and_run. *)

(* Lockdown, the status class, the expiry and the provenance of the row. *)
ExecuteBegin(g) ==
    /\ Ready /\ now <= CallHorizon /\ ~locked /\ status[g] = "approved"
    /\ \/ /\ now > expiry[g]
          /\ Enter(g, "e_flip")
          /\ unclaimed' = TRUE
       \/ /\ now <= expiry[g] /\ g \notin Legacy
          /\ Enter(g, "x_authority")
          /\ UNCHANGED unclaimed
    /\ UNCHANGED <<stateDb, log, effects, world, sweep, invoked, snap, decidedAt, history>>

AuthorityInForce(g) == readable /\ version = frozen[g]

(* The first bracket of the claim, and the template, descriptor and       *)
(* evidence checks behind it, which may refuse on their own.               *)
CheckAuthority ==
    /\ pc = "x_authority"
    /\ \/ AuthorityInForce(cur) /\ Goto("x_claim") /\ UNCHANGED locals
       \/ Return
    /\ UNCHANGED <<stateDb, log, effects, world, sweep, history>>

(* The compare-and-swap approved -> executing stamps the lease. *)
Claim ==
    /\ pc = "x_claim"
    /\ IF status[cur] = "approved"
       THEN /\ status' = Set(status, cur, "executing")
            /\ lease' = Set(lease, cur, now + LeaseTerm)
            /\ claimedUnder' = Set(claimedUnder, cur, version)
            /\ Goto("x_lock") /\ UNCHANGED locals
       ELSE Return /\ UNCHANGED <<status, lease, claimedUnder>>
    /\ UNCHANGED <<expiry, frozen, log, effects, world, sweep, inflight, lockEffects>>

PostClaimLockdown ==
    /\ pc = "x_lock"
    /\ Goto(IF locked THEN "x_terminal" ELSE "x_source")
    /\ UNCHANGED <<stateDb, log, effects, world, sweep, locals, history>>

PostClaimAuthority_Skipped ==
    /\ pc = "x_source" /\ Goto("x_pre")
    /\ UNCHANGED <<stateDb, log, effects, world, sweep, locals, history>>

(* The second bracket of the claim. *)
PostClaimAuthority ==
    /\ pc = "x_source"
    /\ Goto(IF AuthorityInForce(cur) THEN "x_pre" ELSE "x_terminal")
    /\ UNCHANGED <<stateDb, log, effects, world, sweep, locals, history>>

Preconditions ==
    /\ pc = "x_pre"
    /\ \E holds \in BOOLEAN : Goto(IF holds THEN "x_start" ELSE "x_terminal")
    /\ UNCHANGED <<stateDb, log, effects, world, sweep, locals, history>>

EffectStarting_Silent ==
    /\ pc = "x_start" /\ Goto("x_egress")
    /\ UNCHANGED <<stateDb, log, effects, world, sweep, locals, history>>

EffectStarting ==
    /\ pc = "x_start"
    /\ Record(Event("capability_effect_starting", cur))
    /\ Goto("x_egress")
    /\ UNCHANGED <<stateDb, effects, world, sweep, locals, history>>

Egress_FlagAfterCall ==
    /\ pc = "x_egress"
    /\ \E opened \in BOOLEAN :
         Goto(IF opened /\ ~locked THEN "x_call" ELSE "x_terminal")
    /\ UNCHANGED <<stateDb, log, effects, world, sweep, locals, history>>

Egress_Unlatched ==
    /\ pc = "x_egress"
    /\ invoked' = TRUE /\ Goto("x_call")
    /\ UNCHANGED <<stateDb, log, effects, world, sweep, unclaimed, snap, decidedAt, history>>

(* The vault may not open and the latch may have engaged: neither invokes. *)
Egress ==
    /\ pc = "x_egress"
    /\ \E opened \in BOOLEAN :
         IF opened /\ ~locked
         THEN invoked' = TRUE /\ Goto("x_call")
         ELSE invoked' = FALSE /\ Goto("x_terminal")
    /\ UNCHANGED <<stateDb, log, effects, world, sweep, unclaimed, snap, decidedAt, history>>

(* The provider does it or not; whether it answers changes nothing below. *)
ProviderCall ==
    /\ pc = "x_call"
    /\ \E done \in {0, 1} :
         /\ effects' = Set(effects, cur, effects[cur] + done)
         /\ lockEffects' = IF locked THEN lockEffects + done ELSE lockEffects
    /\ Goto("x_terminal")
    /\ UNCHANGED <<stateDb, log, world, sweep, locals, claimedUnder, inflight>>

(* Audit first: the terminal event, then the flip, then the release of a   *)
(* debit whose grant was never invoked.                                    *)
RecordTerminal ==
    /\ pc = "x_terminal"
    /\ Record(TerminalEvent(cur, invoked))
    /\ Goto("x_flip")
    /\ UNCHANGED <<stateDb, effects, world, sweep, locals, history>>

FlipExecuted ==
    /\ pc = "x_flip"
    /\ status' = IF status[cur] = "executing" THEN Set(status, cur, "executed") ELSE status
    /\ IF invoked THEN Return ELSE Goto("x_release") /\ UNCHANGED locals
    /\ UNCHANGED <<expiry, lease, frozen, log, effects, world, sweep, history>>

ReleaseUninvoked ==
    /\ pc = "x_release"
    /\ ReleaseBudget(cur)
    /\ Return
    /\ UNCHANGED <<stateDb, effects, world, sweep, history>>

-----------------------------------------------------------------------------
(* expire_grant: state first, then the record, then the release, which an  *)
(* executing lease never gets.                                             *)

ExpireFlip_UnknownStatus ==
    /\ pc = "e_flip"
    /\ status' = Set(status, cur, "lapsed")
    /\ Goto("e_log")
    /\ UNCHANGED <<expiry, lease, frozen, log, effects, world, sweep, locals, history>>

ExpireFlip ==
    /\ pc = "e_flip"
    /\ status' = Set(status, cur, "expired")
    /\ Goto("e_log")
    /\ UNCHANGED <<expiry, lease, frozen, log, effects, world, sweep, locals, history>>

ExpireLog_AlwaysReleases ==
    /\ pc = "e_log"
    /\ Record(Event("grant_expired", cur))
    /\ Goto("e_release")
    /\ UNCHANGED <<stateDb, effects, world, sweep, locals, history>>

ExpireLog ==
    /\ pc = "e_log"
    /\ Record(Event("grant_expired", cur))
    /\ IF unclaimed THEN Goto("e_release") /\ UNCHANGED locals ELSE Return
    /\ UNCHANGED <<stateDb, effects, world, sweep, history>>

ExpireRelease ==
    /\ pc = "e_release"
    /\ ReleaseBudget(cur)
    /\ Return
    /\ UNCHANGED <<stateDb, effects, world, sweep, history>>

-----------------------------------------------------------------------------
(* Sweeps.  A pass selects its ids once and then takes them one by one.    *)

Unclaimed(g) == status[g] \in {"requested", "approved"}

(* expired_unreleased_budget_mints *)
LapsedMints == {g \in Grants : Releasable(g) /\ LapsedIn(log, g, now)}

Selection_RequestedOnly(p) ==
    CASE p = "cutover"   -> {g \in Legacy : status[g] = "requested"}
      [] p = "reconcile" -> {g \in Grants : status[g] = "executing"}
      [] p = "overdue"   -> {g \in Grants : status[g] = "executing" /\ lease[g] < now}
      [] p = "budget"    -> LapsedMints
      [] p = "none"      -> {}

Selection(p) ==
    CASE p = "cutover"   -> {g \in Legacy : Unclaimed(g)}
      [] p = "reconcile" -> {g \in Grants : status[g] = "executing"}
      [] p = "overdue"   -> {g \in Grants : status[g] = "executing" /\ lease[g] < now}
      [] p = "budget"    -> LapsedMints
      [] p = "none"      -> {}

Start(p) == pass' = p /\ todo' = Selection(p)

(* Boot runs the passes in this order before it serves; housekeeping runs *)
(* the last two again, each as a call of its own.                         *)
Boot ==
    /\ booting /\ Idle /\ pass = "none"
    /\ Start("cutover")
    /\ UNCHANGED <<stateDb, log, effects, world, booting, pc, cur, locals, history>>

Housekeeping(p) ==
    /\ Ready
    /\ Start(p)
    /\ UNCHANGED <<stateDb, log, effects, world, booting, pc, cur, locals, history>>

NextPass == [cutover |-> "reconcile", reconcile |-> "overdue",
             overdue |-> "budget", budget |-> "none"]

PassDone ==
    /\ Idle /\ pass # "none" /\ todo = {}
    /\ Start(IF booting THEN NextPass[pass] ELSE "none")
    /\ booting' = (booting /\ pass # "budget")
    /\ UNCHANGED <<stateDb, log, effects, world, pc, cur, locals, history>>

Take(g, p) == Idle /\ pass = p /\ g \in todo /\ todo' = todo \ {g}

(* terminalize_pre_sentence_grants_on_boot *)
CutoverTake(g) ==
    /\ Take(g, "cutover")
    /\ Enter(g, "c_log")
    /\ UNCHANGED <<stateDb, log, effects, world, booting, pass, locals, history>>

CutoverLog ==
    /\ pc = "c_log"
    /\ IF Has("authority_cutover_terminalized", cur) THEN UNCHANGED log
       ELSE Record(Event("authority_cutover_terminalized", cur))
    /\ Goto("c_flip")
    /\ UNCHANGED <<stateDb, effects, world, sweep, locals, history>>

CutoverFlip ==
    /\ pc = "c_flip"
    /\ IF Unclaimed(cur)
       THEN status' = Set(status, cur, "expired") /\ Goto("c_release") /\ UNCHANGED locals
       ELSE UNCHANGED status /\ Return
    /\ UNCHANGED <<expiry, lease, frozen, log, effects, world, sweep, history>>

CutoverRelease ==
    /\ pc = "c_release"
    /\ ReleaseBudget(cur)
    /\ Return
    /\ UNCHANGED <<stateDb, effects, world, sweep, history>>

(* reconcile_terminal_execution finishes the state half of an audit-first *)
(* write; without a terminal event there is nothing to finish.            *)
Reconcile(g) ==
    /\ Terminated(g, TRUE) \/ Terminated(g, FALSE)
    /\ Enter(g, "x_flip")
    /\ invoked' = ~Terminated(g, FALSE)
    /\ UNCHANGED <<unclaimed, snap, decidedAt>>

ReconcileTake(g) ==
    /\ Take(g, "reconcile")
    /\ \/ Reconcile(g)
       \/ Unreported(g) /\ UNCHANGED <<pc, cur, locals>>
    /\ UNCHANGED <<stateDb, log, effects, world, booting, pass, history>>

OverdueTake_ReportedOnly(g) ==
    /\ Take(g, "overdue")
    /\ \/ Reconcile(g)
       \/ Unreported(g) /\ UNCHANGED <<pc, cur, locals>>
    /\ UNCHANGED <<stateDb, log, effects, world, booting, pass, history>>

(* sweep_overdue_leases: terminal evidence wins over abandonment. *)
OverdueTake(g) ==
    /\ Take(g, "overdue")
    /\ \/ Reconcile(g)
       \/ Unreported(g) /\ Enter(g, "a_log") /\ UNCHANGED locals
    /\ UNCHANGED <<stateDb, log, effects, world, booting, pass, history>>

(* terminalize_abandoned_lease *)
AbandonLog ==
    /\ pc = "a_log"
    /\ IF Has("lease_abandoned", cur) THEN UNCHANGED log
       ELSE Record(Event("lease_abandoned", cur))
    /\ Goto("e_flip")
    /\ UNCHANGED <<stateDb, effects, world, sweep, locals, history>>

(* budget_grant_releasable: the row is proven absent; it was never claimed *)
(* and its own expiry is the mint's, which the pass selected as lapsed; or *)
(* its terminal event says the provider was never invoked.                 *)
ExpiryProven(g) == \E i \in Of("budget_mint", g) : expiry[g] = log[i].ts + TTL

BudgetGrantReleasable_AnyExpired(g) ==
    status[g] \in {"absent", "requested", "approved", "expired"} \/ Terminated(g, FALSE)

BudgetGrantReleasable(g) ==
    \/ status[g] = "absent"
    \/ Unclaimed(g) /\ ExpiryProven(g)
    \/ status[g] = "expired" /\ lease[g] = 0 /\ ExpiryProven(g)
    \/ /\ status[g] = "executed" \/ status[g] = "executing" \/ lease[g] # 0
       /\ Terminated(g, FALSE)

(* sweep_expired_budget_mints *)
BudgetTake(g) ==
    /\ Take(g, "budget")
    /\ IF BudgetGrantReleasable(g) THEN ReleaseBudget(g) ELSE UNCHANGED log
    /\ UNCHANGED <<stateDb, effects, world, booting, pass, pc, cur, locals, history>>

-----------------------------------------------------------------------------
(* Failure. *)

(* The points at which the code returns Err and leaves the grant as it is: *)
(* the write there failed, or a check behind the claim found no profile.   *)
FaultPoints == {"m_debit", "m_recheck", "m_void", "m_insert", "x_claim", "x_pre",
                "x_start", "x_terminal", "x_flip", "x_release", "e_flip", "e_log",
                "e_release", "a_log", "c_log", "c_flip", "c_release"}

Stop == booting' = TRUE /\ pass' = "none" /\ todo' = {}

(* An Err while the cutover pass runs fails the boot; in any other pass    *)
(* the sweep goes on with its next id.                                     *)
Fault ==
    /\ mishaps < MaxMishaps
    /\ mishaps' = mishaps + 1
    /\ \/ pc \in FaultPoints /\ pass # "cutover" /\ Return /\ UNCHANGED sweep
       \/ pc \in FaultPoints /\ pass = "cutover" /\ Return /\ Stop
       \/ /\ Idle /\ pass \in {"reconcile", "overdue", "budget"} /\ todo # {}
          /\ \E g \in todo : todo' = todo \ {g}
          /\ UNCHANGED <<booting, pass, pc, cur, locals>>
    /\ UNCHANGED <<stateDb, log, effects, now, version, readable, locked, history>>

Crash ==
    /\ mishaps < MaxMishaps
    /\ mishaps' = mishaps + 1
    /\ ~(booting /\ pass = "none")
    /\ Return /\ Stop
    /\ UNCHANGED <<stateDb, log, effects, now, version, readable, locked, history>>

-----------------------------------------------------------------------------
(* The environment. *)

Tick ==
    /\ now < MaxTime
    /\ now < CallHorizon \/ Idle
    /\ now' = now + 1
    /\ UNCHANGED <<stateDb, log, effects, version, readable, locked, mishaps, sweep,
                   pc, cur, locals, history>>

(* The operator or NTP sets the clock back: now_epoch is SystemTime. *)
ClockBack ==
    /\ ClockMayStepBack /\ mishaps < MaxMishaps /\ now > 0
    /\ now' = now - 1 /\ mishaps' = mishaps + 1
    /\ UNCHANGED <<stateDb, log, effects, version, readable, locked, sweep,
                   pc, cur, locals, history>>

(* Custody commits a new authority; the authority is unreadable while its  *)
(* record and its index disagree.                                          *)
CommitAuthority ==
    /\ version < MaxVersion
    /\ version' = version + 1
    /\ UNCHANGED <<stateDb, log, effects, now, readable, locked, mishaps, sweep,
                   pc, cur, locals, history>>

AuthorityReadable ==
    /\ readable' = ~readable
    /\ UNCHANGED <<stateDb, log, effects, now, version, locked, mishaps, sweep,
                   pc, cur, locals, history>>

Engage ==
    /\ ~locked
    /\ locked' = TRUE /\ inflight' = (pc = "x_call") /\ lockEffects' = 0
    /\ UNCHANGED <<stateDb, log, effects, now, version, readable, mishaps, sweep,
                   pc, cur, locals, claimedUnder>>

Unlock ==
    /\ locked
    /\ locked' = FALSE
    /\ UNCHANGED <<stateDb, log, effects, now, version, readable, mishaps, sweep,
                   pc, cur, locals, history>>

-----------------------------------------------------------------------------
(* The calls an agent or an operator starts, the sweeps the daemon starts, *)
(* and every further step of the broker thread.                            *)
Begin == \E g \in Grants : RequestBegin(g) \/ ExecuteBegin(g)
MintStep ==
    \/ BudgetGate \/ RecordBudgetMint \/ EvidenceRecheck \/ VoidMint \/ InsertGrant
ExecuteStep ==
    \/ CheckAuthority \/ Claim \/ PostClaimLockdown \/ PostClaimAuthority
    \/ Preconditions \/ EffectStarting \/ Egress \/ ProviderCall
SettleStep ==
    \/ RecordTerminal \/ FlipExecuted \/ ReleaseUninvoked
    \/ ExpireFlip \/ ExpireLog \/ ExpireRelease
SweepStep ==
    \/ Boot \/ PassDone
    \/ \E g \in Grants : \/ CutoverTake(g) \/ ReconcileTake(g)
                         \/ OverdueTake(g) \/ BudgetTake(g)
    \/ CutoverLog \/ CutoverFlip \/ CutoverRelease \/ AbandonLog
Work == MintStep \/ ExecuteStep \/ SettleStep \/ SweepStep
Environment ==
    Tick \/ CommitAuthority \/ AuthorityReadable \/ Engage \/ Unlock

SteadyNext ==
    \/ Begin \/ Work
    \/ \E p \in {"overdue", "budget"} : Housekeeping(p)
    \/ Fault \/ Crash \/ Environment
Next == SteadyNext \/ ClockBack

Spec == Init /\ [][Next]_vars

(* The same while the clock does not go back (SteadyClock in               *)
(* GrantExecutionProofs).                                                  *)
SteadySpec == Init /\ [][SteadyNext]_vars

(* The thread runs a call it has taken to its end and time passes; the     *)
(* mailbox is first-in first-out, so a sweep the 30-second tick submits is *)
(* served however many calls are queued.  Tick is strongly fair because    *)
(* only the bound CallHorizon ever makes the clock wait for a call.        *)
Fairness ==
    /\ WF_vars(Work) /\ SF_vars(Tick)
    /\ \A p \in {"overdue", "budget"} : SF_vars(Housekeeping(p))
FairSpec == Spec /\ Fairness

-----------------------------------------------------------------------------
(* Properties. *)

Labels == FaultPoints \cup {"idle", "m_gate", "x_authority", "x_lock", "x_source",
                            "x_egress", "x_call"}
Statuses == {"absent", "requested", "approved", "executing", "executed", "expired"}

StoresOK ==
    /\ status \in [Grants -> Statuses]
    /\ expiry \in [Grants -> Nat] /\ lease \in [Grants -> Nat]
    /\ frozen \in [Grants -> Nat]
    /\ log \in Seq(Events)
    /\ effects \in [Grants -> Nat]
WorldOK ==
    /\ now \in Nat /\ version \in Nat /\ mishaps \in Nat
    /\ readable \in BOOLEAN /\ locked \in BOOLEAN
SweepOK ==
    /\ booting \in BOOLEAN /\ pass \in {"none"} \cup DOMAIN NextPass
    /\ todo \in SUBSET Grants
ThreadOK ==
    /\ pc \in Labels /\ cur \in Grants \cup {NoGrant} /\ (cur = NoGrant <=> Idle)
    /\ snap \in Nat /\ decidedAt \in Nat
    /\ invoked \in BOOLEAN /\ unclaimed \in BOOLEAN
HistoryOK ==
    /\ claimedUnder \in [Grants -> Nat] /\ lockEffects \in Nat
    /\ inflight \in BOOLEAN

(* Every variable keeps its type, and cur names a grant exactly while a    *)
(* call of claim_and_run, the mint or a sweep is in progress.              *)
TypeOK == StoresOK /\ WorldOK /\ SweepOK /\ ThreadOK /\ HistoryOK

(* A grant is single-use across crashes, write faults and sweeps: the      *)
(* provider performs at most one effect for it (the claim CAS and the      *)
(* revoke-only sweeps of claim_and_run and sweep_overdue_leases).          *)
SingleEffect == \A g \in Grants : effects[g] <= 1

(* No effect is dark: an effect's grant has its capability_effect_starting *)
(* event, and once the grant is off the executing state the log says what  *)
(* became of it: invoked, or abandoned unreported.                         *)
NoDarkEffect ==
    \A g \in Grants : effects[g] > 0 =>
        /\ Has("capability_effect_starting", g)
        /\ status[g] = "executing" \/ Terminated(g, TRUE) \/ Has("lease_abandoned", g)

(* mutation_invoked:false never lies: it is the only fact that earns a     *)
(* claimed grant its release, so it must imply that nothing happened.      *)
PreInvocationFactTrue ==
    \A g \in Grants : Terminated(g, FALSE) => effects[g] = 0 /\ ~Terminated(g, TRUE)

(* Audit-first settlement: a row is executed only behind its terminal      *)
(* event, and a lease is reclaimed to expired only behind its              *)
(* lease_abandoned event.                                                  *)
SettledBehindRecord ==
    \A g \in Grants :
        /\ status[g] = "executed" => Terminated(g, TRUE) \/ Terminated(g, FALSE)
        /\ status[g] = "expired" /\ lease[g] # 0 => Has("lease_abandoned", g)

(* The ledger stays coherent: no history of crashes and re-run sweeps can  *)
(* make decide_aggregate refuse its own evidence and wedge the budget.     *)
LedgerCoherent ==
    \A evidence \in {Evidence} :
        DecideAggregate(Aggregate, 1, evidence, now) \in {"Allow", "DenyExceeded"}

(* A spent debit is never handed back: a grant whose effect happened, or   *)
(* may still happen, holds the mint it was admitted under.                 *)
MayStillAct(g) ==
    \/ effects[g] > 0
    \/ status[g] = "approved" /\ g \notin Legacy /\ now <= expiry[g]
    \/ cur = g /\ pc \in {"x_authority", "x_claim", "x_lock", "x_source", "x_pre",
                          "x_start", "x_egress", "x_call"}
DebitCoversEffect ==
    \A g \in Grants : MayStillAct(g) /\ Debit[g] > 0 =>
        Has("budget_mint", g) /\ ~Has("budget_release", g)

(* No window is overspent: the effects of the grants admitted in a window  *)
(* never sum to more than the limit, whatever was released in between.     *)
SpentIn(start) ==
    MapThenSumSet(LAMBDA g : Debit[g] * effects[g],
                  {g \in Grants : \E i \in Of("budget_mint", g) :
                                       WindowStart(Period, log[i].ts) = start})
NoOverspend == \A start \in {WindowStart(Period, t) : t \in 0..now} : SpentIn(start) <= Limit

(* A commit of the sentence authority revokes every unclaimed grant: an    *)
(* effect belongs to a grant that was claimed while the authority it froze *)
(* was in force (the two reads that bracket the claim).                    *)
ClaimedUnderFrozen == \A g \in Grants : effects[g] > 0 => claimedUnder[g] = frozen[g]

(* An engaged latch stops everything but a provider call already past its  *)
(* last check.                                                             *)
LockdownStopsEgress == locked => lockEffects <= (IF inflight THEN 1 ELSE 0)

(* Once the daemon serves, no pre-sentence grant is left to claim, and     *)
(* none was ever executed (the cutover pass that fails the boot).          *)
CutoverComplete ==
    /\ ~booting => \A g \in Legacy : ~Unclaimed(g)
    /\ \A g \in Legacy : effects[g] = 0

(* A settled row never moves again and a claimed one only settles.         *)
StatusOrder ==
    [absent |-> {"approved"}, requested |-> {"expired"},
     approved |-> {"executing", "expired"}, executing |-> {"executed", "expired"},
     executed |-> {}, expired |-> {}]
StatusMonotone ==
    [][\A g \in Grants : status'[g] # status[g] => status'[g] \in StatusOrder[status[g]]]_vars

(* The stores, the calls and the crashes implement the promise of          *)
(* ReservedEffects: reserved and released are read off the audit log,      *)
(* spent off the provider.                                                 *)
Reserved == {g \in Grants : Has("budget_mint", g)}
Released == {g \in Grants : Has("budget_release", g)}
Spent == {g \in Grants : effects[g] > 0}

Promise == INSTANCE ReservedEffects
    WITH Metered <- {g \in Grants : Debit[g] > 0},
         reserved <- Reserved, released <- Released, spent <- Spent
ImplementsPromise == Promise!ESpec
=============================================================================
