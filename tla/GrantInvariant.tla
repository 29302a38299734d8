--------------------------- MODULE GrantInvariant ---------------------------
(***************************************************************************)
(* The inductive invariant of GrantExecution.  Its parts say what a row    *)
(* and the log agree on between calls (Rows, Facts, Ledger), what the      *)
(* broker thread may rely on at each of its steps (Thread), and what a     *)
(* pass still knows of the ids it selected (Passes).                       *)
(***************************************************************************)
EXTENDS GrantExecution

Opening == {"m_gate", "m_debit"}
Reserving == {"m_recheck", "m_void", "m_insert"}
Unclaimable == {"x_authority", "x_claim"}
Uninvoked == {"x_lock", "x_source", "x_pre", "x_start", "x_egress"}
Claimed == Uninvoked \cup {"x_call", "x_terminal"}

(* Between calls: an unclaimed row has no lease, no effect and no event of *)
(* an execution; every other row carries what its status promises.         *)
Untouched(g) ==
    /\ lease[g] = 0 /\ effects[g] = 0 /\ Unreported(g)
    /\ ~Has("capability_effect_starting", g) /\ ~Has("lease_abandoned", g)
Row(g) ==
    /\ status[g] \in {"absent", "requested", "approved"} => Untouched(g)
    /\ status[g] = "expired" /\ lease[g] = 0 => Untouched(g)
    /\ status[g] \in {"executing", "executed"} => lease[g] # 0
    /\ status[g] = "executed" => ~Unreported(g)
    /\ status[g] = "expired" /\ lease[g] # 0 => Has("lease_abandoned", g)
    /\ status[g] = "requested" => g \in Legacy
    /\ status[g] = "absent" => g \notin Legacy
Rows == \A g \in Grants : Row(g)

(* What the log says of an execution is true of the provider. *)
Fact(g) ==
    /\ effects[g] <= 1
    /\ effects[g] > 0 => Has("capability_effect_starting", g)
    /\ Terminated(g, FALSE) => effects[g] = 0 /\ ~Terminated(g, TRUE)
    /\ Has("lease_abandoned", g) => Unreported(g)
Facts == \A g \in Grants : Fact(g)

(* A reservation is minted before its row, and released only when no      *)
(* effect happened and none can.                                           *)
Closed(g) ==
    \/ status[g] = "absent"
    \/ Unclaimed(g) /\ (g \in Legacy \/ now > expiry[g])
    \/ status[g] = "expired" /\ lease[g] = 0
    \/ Terminated(g, FALSE)
Booked(g) ==
    /\ Has("budget_release", g) => Has("budget_mint", g) /\ effects[g] = 0 /\ Closed(g)
    /\ Debit[g] > 0 /\ g \notin Legacy /\ status[g] # "absent" => Has("budget_mint", g)
OneMintIn(l) ==
    \A i, j \in DOMAIN l :
        /\ l[i].kind = "budget_mint" /\ l[j].kind = "budget_mint"
        /\ l[i].grant = l[j].grant
        => i = j
Holding == Reserving \cup Unclaimable \cup Claimed
Ledger ==
    /\ OneMintIn(log)
    /\ \A g \in Grants : Booked(g)
    /\ pc \in Holding => ~Has("budget_release", cur)

(* What the broker thread relies on, step by step. *)
Thread ==
    /\ invoked => pc \in {"x_call", "x_terminal", "x_flip"}
    /\ unclaimed => pc \in {"e_flip", "e_log", "e_release"}
    /\ pc \in Opening =>
         /\ status[cur] = "absent" /\ cur \notin Legacy
         /\ ~Has("budget_mint", cur)
    /\ pc \in Reserving =>
         /\ status[cur] = "absent" /\ cur \notin Legacy
         /\ Debit[cur] > 0 => Has("budget_mint", cur)
    /\ pc \in Unclaimable => status[cur] = "approved" /\ cur \notin Legacy
    /\ pc \in Claimed =>
         /\ status[cur] = "executing" /\ Unreported(cur) /\ cur \notin Legacy
         /\ ~Has("lease_abandoned", cur)
    /\ pc \in Uninvoked => effects[cur] = 0
    /\ pc = "x_call" => invoked /\ effects[cur] = 0
    /\ pc \in {"x_egress", "x_call"} => Has("capability_effect_starting", cur)
    /\ pc = "x_terminal" /\ ~invoked => effects[cur] = 0
    /\ pc = "x_flip" => status[cur] = "executing" /\ Terminated(cur, invoked)
    /\ pc = "x_release" => status[cur] = "executed" /\ Terminated(cur, FALSE)
    /\ pc = "a_log" => status[cur] = "executing" /\ Unreported(cur)
    /\ pc = "e_flip" =>
         \/ unclaimed /\ status[cur] = "approved"
         \/ ~unclaimed /\ status[cur] = "executing" /\ Has("lease_abandoned", cur)
    /\ pc \in {"e_log", "e_release"} => status[cur] = "expired"
    /\ (pc = "e_log" /\ unclaimed) \/ pc = "e_release" => lease[cur] = 0
    /\ pc \in {"c_log", "c_flip"} => cur \in Legacy /\ Unclaimed(cur)
    /\ pc = "c_release" => status[cur] = "expired" /\ lease[cur] = 0

(* What a pass still knows of the ids it has to take. *)
Passes ==
    /\ cur \notin todo
    /\ pc \in {"c_log", "c_flip", "c_release"} <=> pass = "cutover" /\ ~Idle
    /\ pass = "none" => todo = {}
    /\ pass = "cutover" => \A g \in todo : g \in Legacy /\ Unclaimed(g)
    /\ pass \in {"reconcile", "overdue"} => \A g \in todo : status[g] = "executing"
    /\ pass = "budget" =>
         Idle /\ \A g \in todo : Releasable(g) /\ (~ClockMayStepBack => LapsedIn(log, g, now))

(* Behind the cutover pass no pre-sentence row can be claimed, and the     *)
(* pass itself still has every one that can.                               *)
Cutover ==
    /\ pass = "cutover" => booting
    /\ ~booting \/ pass \notin {"none", "cutover"} => \A g \in Legacy : ~Unclaimed(g)
    /\ pass = "cutover" =>
         \A g \in Legacy : Unclaimed(g) =>
             g \in todo \/ (g = cur /\ pc \in {"c_log", "c_flip"})

(* The authority a grant froze, the one its claim read and the one in      *)
(* force: the two reads around the claim squeeze the middle one.           *)
Bracketed == {"x_pre", "x_start", "x_egress", "x_call"}
Revocation ==
    /\ snap <= version
    /\ \A g \in Grants : effects[g] > 0 => claimedUnder[g] = frozen[g] /\ g \notin Legacy
    /\ \A g \in Grants : frozen[g] <= version /\ claimedUnder[g] <= version
    /\ pc \in {"x_lock", "x_source"} => frozen[cur] <= claimedUnder[cur]
    /\ pc \in Bracketed => claimedUnder[cur] = frozen[cur]

(* While the latch is engaged only a call it found in flight may land. *)
Latch ==
    locked => /\ lockEffects <= (IF inflight THEN 1 ELSE 0)
              /\ pc = "x_call" => inflight /\ lockEffects = 0

(* Without a clock that goes back, the ledger half holds as well. *)
Inv ==
    /\ TypeOK /\ Rows /\ Facts /\ Thread /\ Passes
    /\ Cutover /\ Revocation /\ Latch
    /\ ~ClockMayStepBack => Ledger
=============================================================================
