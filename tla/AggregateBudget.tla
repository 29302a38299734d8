-------------------------- MODULE AggregateBudget --------------------------
(***************************************************************************)
(* The pure budget/rate decision of cermet-core/src/budget.rs.             *)
(*                                                                         *)
(* The evidence is the bounded prefix of the audit log that belongs to one *)
(* aggregate: a sequence of budget_mint and budget_release events.  A mint *)
(* carries the grant it debits, the debit, the resolution digest it was    *)
(* metered under and the epoch of its decision; a release tombstones one   *)
(* mint by event id.  i64 arithmetic is checked arithmetic bounded by      *)
(* MaxI64.                                                                 *)
(***************************************************************************)
EXTENDS Integers, Sequences, FiniteSets, FiniteSetsExt

CONSTANT MaxI64     \* i64::MAX; TLC uses a small value to reach overflow

ASSUME MaxI64Assumption == MaxI64 \in Nat

IsMint(ev) == ev.kind = "budget_mint"
IsRelease(ev) == ev.kind = "budget_release"

MintsOf(evidence) == {i \in DOMAIN evidence : IsMint(evidence[i])}
ReleasesOf(evidence) == {i \in DOMAIN evidence : IsRelease(evidence[i])}

(* The event a loop over the evidence meets first. *)
First(S) == CHOOSE i \in S : \A j \in S : i <= j

-----------------------------------------------------------------------------
(* The fixed calendar bucket [start, end) that contains now; div_euclid is *)
(* TLA+'s \div.  The bounds overflow when end leaves the i64 range.        *)
WindowStart(period, now) == (now \div period) * period
WindowEnd(period, now) == WindowStart(period, now) + period
WindowOverflows(period, now) == WindowEnd(period, now) > MaxI64

InWindow(ev, period, now) ==
    WindowStart(period, now) <= ev.ts /\ ev.ts < WindowEnd(period, now)

(* What is wrong with the i-th event, a release: it names no mint, the     *)
(* mint of another grant, or a mint an earlier release already tombstoned. *)
ReleaseFault(evidence, i) ==
    LET named == {m \in MintsOf(evidence) : evidence[m].id = evidence[i].mint}
        repeated == \E j \in ReleasesOf(evidence) :
                        j < i /\ evidence[j].mint = evidence[i].mint
    IN IF named = {} THEN "OrphanRelease"
       ELSE IF \A m \in named : evidence[m].grant # evidence[i].grant
            THEN "ReleaseGrantMismatch"
       ELSE IF repeated THEN "DuplicateRelease" ELSE "none"

Tombstoned(evidence, i) ==
    \E r \in ReleasesOf(evidence) : evidence[r].mint = evidence[i].id

(* The in-window mints up to index i that no release tombstones, and what *)
(* they debit together.                                                    *)
LiveUpTo(agg, evidence, now, i) ==
    {m \in MintsOf(evidence) : /\ m <= i
                               /\ InWindow(evidence[m], agg.period, now)
                               /\ ~Tombstoned(evidence, m)}
SumUpTo(agg, evidence, now, i) ==
    MapThenSumSet(LAMBDA m : evidence[m].debit, LiveUpTo(agg, evidence, now, i))

(* The shape of a debit this aggregate could have authored. *)
DebitShape(agg, debit) ==
    IF agg.meter = "rate" THEN debit = 1 ELSE 1 <= debit /\ debit <= agg.limit

(* What is wrong with the i-th event, an in-window mint. *)
MintFault(agg, evidence, now, i) ==
    IF evidence[i].digest # agg.digest THEN "AmbiguousResolution"
    ELSE IF ~DebitShape(agg, evidence[i].debit) THEN "HistoricalMintInvalid"
    ELSE IF SumUpTo(agg, evidence, now, i) > MaxI64 THEN "Overflow" ELSE "none"

Consumed(agg, evidence, now) == SumUpTo(agg, evidence, now, Len(evidence))

(* decide_aggregate: validate the debit, the window, every release and     *)
(* every in-window mint, in this order, then compare.                      *)
DecideAggregate(agg, debit, evidence, now) ==
    LET badReleases == {i \in ReleasesOf(evidence) : ReleaseFault(evidence, i) # "none"}
        inWindow == {i \in MintsOf(evidence) : InWindow(evidence[i], agg.period, now)}
        badMints == {i \in inWindow : MintFault(agg, evidence, now, i) # "none"}
        projected == Consumed(agg, evidence, now) + debit
    IN IF debit <= 0 THEN "DebitInvalid"
       ELSE IF agg.meter = "rate" /\ debit # 1 THEN "RateDebitNotOne"
       ELSE IF WindowOverflows(agg.period, now) THEN "WindowOverflow"
       ELSE IF badReleases # {} THEN ReleaseFault(evidence, First(badReleases))
       ELSE IF badMints # {} THEN MintFault(agg, evidence, now, First(badMints))
       ELSE IF projected > MaxI64 THEN "Overflow"
       ELSE IF projected <= agg.limit THEN "Allow" ELSE "DenyExceeded"
=============================================================================
