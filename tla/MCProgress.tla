------------------------------ MODULE MCProgress ------------------------------
(***************************************************************************)
(* What must eventually happen to a call and to the grant behind it, in    *)
(* small instances: the calls of a bridge (part "calls") and one grant on  *)
(* a clock that may step back (part "grant").  They share no state here:   *)
(* one of them moves in a behaviour and the other stays as it started.     *)
(***************************************************************************)
EXTENDS McpBridge

CONSTANTS c1, c2, q1, g1, NoGrant

VARIABLES
    part,
    status, expiry, lease, frozen, log, spent, now, version, readable, locked, booting,
    pass, todo, at, cur, invoked, unclaimed, snap, decidedAt, faults, claimedUnder,
    inflight, lockEffects

Grant == INSTANCE GrantExecution WITH
    Grants <- {g1}, Legacy <- {}, LegacyLog <- << >>, EvidenceBacked <- {g1},
    Debit <- [g \in {g1} |-> 1], Limit <- 1, Period <- 3, TTL <- 1, LeaseTerm <- 1,
    MaxTime <- 4, CallHorizon <- 2, MaxVersion <- 0, MaxMishaps <- 2,
    ClockMayStepBack <- TRUE, MaxI64 <- 100,
    effects <- spent, pc <- at, mishaps <- faults

grantState == <<status, expiry, lease, frozen, log, spent, now, version, readable, locked,
                booting, pass, todo, at, cur, invoked, unclaimed, snap, decidedAt, faults,
                claimedUnder, inflight, lockEffects>>
all == <<part, vars, grantState>>

PartInit ==
    /\ part \in {"calls", "grant"}
    /\ Init /\ mishaps = 0 /\ Grant!Init
    /\ part # "calls" => grant[q1] = "none"

CallsPart(A) == part = "calls" /\ A /\ UNCHANGED <<part, grantState>>
GrantPart(A) == part = "grant" /\ A /\ UNCHANGED <<part, vars>>

PartNext == CallsPart(Next) \/ GrantPart(Grant!Next)

(* Fairness and Grant!Fairness, each in its part. *)
PartSpec ==
    /\ PartInit /\ [][PartNext]_all
    /\ \A c \in Calls : WF_all(CallsPart(CallStep(c)))
    /\ \A r \in Runs : WF_all(CallsPart(RunStep(r)))
    /\ \A t \in Threads : WF_all(CallsPart(WireStep(t)))
    /\ \A c \in Conns : WF_all(CallsPart(ServeStep(c) /\ UNCHANGED bridge))
    /\ WF_all(CallsPart((\E c \in Conns : ActorStep(c)) /\ UNCHANGED bridge) \/ GrantPart(Grant!Work))
    /\ SF_all(GrantPart(Grant!Tick))
    /\ \A p \in {"overdue", "budget"} : SF_all(GrantPart(Grant!Housekeeping(p)))
-----------------------------------------------------------------------------
(* Every lease settles and no reservation is stranded, whatever crash,     *)
(* fault or step of the clock interrupted the call: again and again no     *)
(* grant is executing and every mint is released, spent or abandoned       *)
(* (sweep_overdue_leases and the budget pass).                             *)
GrantsSettle ==
    []<>(/\ status[g1] # "executing"
         /\ Grant!Has("budget_mint", g1) =>
              \/ Grant!Has("budget_release", g1) \/ Grant!Terminated(g1, TRUE)
              \/ Grant!Has("lease_abandoned", g1))
=============================================================================
