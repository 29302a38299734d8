------------------------ MODULE GrantExecutionProofs ------------------------
(***************************************************************************)
(* The inductive invariant of GrantExecution and what follows from it, for *)
(* every value of the constants: what the audit log says after an append,  *)
(* the type invariant, then Inv, each part of which is kept by every step; *)
(* a lemma per part names the actions that disturb it and shows that the   *)
(* others leave alone what it reads.                                       *)
(***************************************************************************)
EXTENDS GrantInvariant, TLAPS

-----------------------------------------------------------------------------
(* Lemmas about the audit log. *)

(* The events the broker appends are events, with the fields they name. *)
LEMMA EventFacts ==
    ASSUME NEW g \in Grants
    PROVE  /\ \A k \in Kinds : /\ Event(k, g) \in Events
                              /\ Event(k, g).kind = k /\ Event(k, g).grant = g
           /\ \A n \in Nat : /\ MintEvent(g, n) \in Events
                            /\ MintEvent(g, n).kind = "budget_mint"
                            /\ MintEvent(g, n).grant = g
           /\ \A n \in Nat : /\ ReleaseEvent(g, n) \in Events
                            /\ ReleaseEvent(g, n).kind = "budget_release"
                            /\ ReleaseEvent(g, n).grant = g
           /\ \A b \in BOOLEAN : /\ TerminalEvent(g, b) \in Events
                                /\ TerminalEvent(g, b).kind = "provider_action"
                                /\ TerminalEvent(g, b).grant = g
                                /\ TerminalEvent(g, b).invoked = b
  BY DEF Event, MintEvent, ReleaseEvent, TerminalEvent, Events, Kinds

(* Appending an event adds exactly that event to what a log says. *)
LEMMA AppendFacts ==
    ASSUME NEW l \in Seq(Events), NEW e \in Events
    PROVE  /\ Append(l, e) \in Seq(Events)
           /\ \A k, g : HasIn(Append(l, e), k, g) <=>
                          HasIn(l, k, g) \/ (e.kind = k /\ e.grant = g)
           /\ \A g, b : TerminatedIn(Append(l, e), g, b) <=>
                          \/ TerminatedIn(l, g, b)
                          \/ e.kind = "provider_action" /\ e.grant = g /\ e.invoked = b
           /\ \A g, t : LapsedIn(l, g, t) => LapsedIn(Append(l, e), g, t)
           /\ /\ OneMintIn(l)
              /\ e.kind = "budget_mint" => ~HasIn(l, "budget_mint", e.grant)
              => OneMintIn(Append(l, e))
<1>1. /\ Append(l, e) \in Seq(Events)
      /\ DOMAIN l = 1..Len(l) /\ Len(l) \in Nat
      /\ DOMAIN Append(l, e) = 1..(Len(l) + 1)
      /\ \A i \in DOMAIN l : Append(l, e)[i] = l[i] /\ i \in DOMAIN Append(l, e)
      /\ Append(l, e)[Len(l) + 1] = e
  OBVIOUS
<1>2. \A i \in DOMAIN Append(l, e) : i \in DOMAIN l \/ i = Len(l) + 1
  BY <1>1
<1>3. \A k, g : HasIn(Append(l, e), k, g) <=>
                  HasIn(l, k, g) \/ (e.kind = k /\ e.grant = g)
  BY <1>1, <1>2 DEF HasIn
<1>4. \A g, b : TerminatedIn(Append(l, e), g, b) <=>
                  \/ TerminatedIn(l, g, b)
                  \/ e.kind = "provider_action" /\ e.grant = g /\ e.invoked = b
  BY <1>1, <1>2 DEF TerminatedIn
<1>5. \A g, t : LapsedIn(l, g, t) => LapsedIn(Append(l, e), g, t)
  BY <1>1 DEF LapsedIn
<1>6. ASSUME OneMintIn(l), e.kind = "budget_mint" => ~HasIn(l, "budget_mint", e.grant)
      PROVE  OneMintIn(Append(l, e))
  BY <1>1, <1>2, <1>6 DEF OneMintIn, HasIn
<1>7. QED
  BY <1>1, <1>3, <1>4, <1>5, <1>6

(* What a log that grew by an event of kind K for grant g says, when the   *)
(* event is no terminal event.                                             *)
Grown(K, g) ==
    /\ \A k, h : HasIn(log', k, h) <=> HasIn(log, k, h) \/ (k = K /\ h = g)
    /\ \A h, b : TerminatedIn(log', h, b) <=> TerminatedIn(log, h, b)
    /\ \A h, t : LapsedIn(log, h, t) => LapsedIn(log', h, t)
    /\ /\ OneMintIn(log)
       /\ K = "budget_mint" => ~HasIn(log, "budget_mint", g)
       => OneMintIn(log')

(* An appended event that is no terminal event grows the log by its kind and grant. *)
LEMMA LogGrows ==
    ASSUME log \in Seq(Events), NEW e \in Events, log' = Append(log, e),
           NEW K \in Kinds \ {"provider_action"}, NEW g \in Grants,
           e.kind = K, e.grant = g
    PROVE  log' \in Seq(Events) /\ Grown(K, g)
  BY AppendFacts DEF Grown

(* The records without a payload grow the log by their kind. *)
LEMMA PlainEventGrows ==
    ASSUME log \in Seq(Events), NEW g \in Grants, NEW k \in Kinds \ {"provider_action"},
           Record(Event(k, g))
    PROVE  log' \in Seq(Events) /\ Grown(k, g)
<1>1. Event(k, g) \in Events /\ Event(k, g).kind = k /\ Event(k, g).grant = g
  BY EventFacts
<1>2. QED
  BY <1>1, LogGrows DEF Record, Kinds

(* A budget_mint grows the log by a mint of its grant. *)
LEMMA MintGrows ==
    ASSUME log \in Seq(Events), NEW g \in Grants, NEW n \in Nat, Record(MintEvent(g, n))
    PROVE  log' \in Seq(Events) /\ Grown("budget_mint", g)
<1>1. /\ MintEvent(g, n) \in Events /\ MintEvent(g, n).kind = "budget_mint"
      /\ MintEvent(g, n).grant = g
  BY EventFacts
<1>2. QED
  BY <1>1, LogGrows DEF Record, Kinds

(* A release is a no-op or grows the log by the release of a mint. *)
LEMMA ReleaseGrows ==
    ASSUME log \in Seq(Events), NEW g \in Grants, ReleaseBudget(g)
    PROVE  /\ log' \in Seq(Events)
           /\ log' = log \/ (Releasable(g) /\ Grown("budget_release", g))
<1>1. CASE ~Releasable(g)
  BY <1>1 DEF ReleaseBudget
<1>2. CASE Releasable(g)
  <2>1. PICK m \in Of("budget_mint", g) : log' = Append(log, ReleaseEvent(g, m))
    BY <1>2 DEF ReleaseBudget, Record
  <2>2. m \in Nat
    BY DEF Of
  <2>3. /\ ReleaseEvent(g, m) \in Events /\ ReleaseEvent(g, m).kind = "budget_release"
        /\ ReleaseEvent(g, m).grant = g
    BY <2>2, EventFacts
  <2>4. QED
    BY <1>2, <2>1, <2>3, LogGrows DEF Kinds
<1>3. QED
  BY <1>1, <1>2

(* The terminal event of an execution says this of its grant and nothing   *)
(* of any other.                                                           *)
LEMMA TerminalGrows ==
    ASSUME log \in Seq(Events), NEW g \in Grants, NEW inv \in BOOLEAN,
           Record(TerminalEvent(g, inv))
    PROVE  /\ log' \in Seq(Events)
           /\ \A k, h : HasIn(log', k, h) <=>
                HasIn(log, k, h) \/ (k = "provider_action" /\ h = g)
           /\ \A h, b : TerminatedIn(log', h, b) <=>
                TerminatedIn(log, h, b) \/ (h = g /\ b = inv)
           /\ OneMintIn(log) => OneMintIn(log')
<1>1. /\ TerminalEvent(g, inv) \in Events /\ TerminalEvent(g, inv).kind = "provider_action"
      /\ TerminalEvent(g, inv).grant = g /\ TerminalEvent(g, inv).invoked = inv
  BY EventFacts
<1>2. QED
  BY <1>1, AppendFacts DEF Record

-----------------------------------------------------------------------------
(* The type invariant. *)

(* A call that returns leaves the thread idle; one that goes on keeps its  *)
(* grant.                                                                  *)
LEMMA ReturnType == ASSUME Return PROVE ThreadOK'
  BY DEF Return, ThreadOK, Idle, Labels

(* A call that goes on stays well typed. *)
LEMMA GotoType ==
    ASSUME ThreadOK, ~Idle, NEW l \in Labels \ {"idle"}, Goto(l), UNCHANGED locals
    PROVE  ThreadOK'
  BY DEF Goto, ThreadOK, Idle, locals

(* A call in progress works on a grant. *)
LEMMA CurType == ASSUME ThreadOK, pc # "idle" PROVE cur \in Grants
  BY DEF ThreadOK, Idle

(* A pass selects grants. *)
LEMMA SelectionType == ASSUME NEW p \in {"none"} \cup DOMAIN NextPass
                       PROVE  Selection(p) \in SUBSET Grants
  BY GrantsAssumption DEF Selection, LapsedMints, NextPass

(* The initial states are well typed. *)
LEMMA TypeInit == ASSUME Init PROVE TypeOK
<1>1. StoresOK
  BY GrantsAssumption, NumbersAssumption, LegacyLogAssumption DEF Init, StoresOK, Statuses
<1>2. WorldOK /\ SweepOK /\ ThreadOK /\ HistoryOK
  BY DEF Init, WorldOK, SweepOK, ThreadOK, HistoryOK, Idle, Labels
<1>3. QED
  BY <1>1, <1>2 DEF TypeOK

(* Every step keeps every part of the type invariant. *)
LEMMA StoresType == ASSUME TypeOK, [Next]_vars PROVE StoresOK'
<1> USE DEF TypeOK, stateDb
<1>1. cur \in Grants \/ Idle
  BY CurType DEF Idle
<1>2. \A k \in Kinds \ {"provider_action"} :
        pc # "idle" /\ Record(Event(k, cur)) => log' \in Seq(Events)
  BY <1>1, PlainEventGrows DEF StoresOK, Idle
<1>3. \A g \in Grants : ReleaseBudget(g) => log' \in Seq(Events)
  BY ReleaseGrows DEF StoresOK
<1>4. CASE RecordBudgetMint
  BY <1>4, MintGrows, <1>1 DEF RecordBudgetMint, StoresOK, ThreadOK, Idle
<1>5. CASE VoidMint
  BY <1>5, <1>1, <1>3 DEF VoidMint, StoresOK, Idle
<1>6. CASE InsertGrant
  <2>1. cur \in Grants
    BY <1>6, <1>1 DEF InsertGrant, Idle
  <2>2. status' \in [Grants -> Statuses] /\ frozen' \in [Grants -> Nat]
    BY <1>6, <2>1 DEF InsertGrant, StoresOK, ThreadOK, Set, Statuses
  <2>3. expiry' \in [Grants -> Nat]
    BY <1>6, <2>1, NumbersAssumption DEF InsertGrant, StoresOK, ThreadOK, WorldOK, Set
  <2>4. QED
    BY <1>6, <2>2, <2>3 DEF InsertGrant, StoresOK
<1>7. CASE Claim
  <2>1. cur \in Grants
    BY <1>7, <1>1 DEF Claim, Idle
  <2>2. status' \in [Grants -> Statuses]
    BY <1>7, <2>1, ZenonT(60) DEF Claim, StoresOK, Set, Statuses
  <2>3. now + LeaseTerm \in Nat
    BY NumbersAssumption DEF WorldOK
  <2>4. lease' \in [Grants -> Nat]
    BY <1>7, <2>1, <2>3 DEF Claim, StoresOK, Set
  <2>5. QED
    BY <1>7, <2>2, <2>4 DEF Claim, StoresOK
<1>8. CASE EffectStarting
  BY <1>8, <1>2 DEF EffectStarting, StoresOK, Kinds
<1>9. CASE ProviderCall
  BY <1>9, <1>1 DEF ProviderCall, StoresOK, Statuses, Set, Idle
<1>10. CASE RecordTerminal
  BY <1>10, TerminalGrows, <1>1 DEF RecordTerminal, StoresOK, ThreadOK, Idle
<1>11. CASE FlipExecuted
  BY <1>11, <1>1 DEF FlipExecuted, StoresOK, Statuses, Set, Idle
<1>12. CASE ReleaseUninvoked
  BY <1>12, <1>1, <1>3 DEF ReleaseUninvoked, StoresOK, Idle
<1>13. CASE ExpireFlip
  BY <1>13, <1>1 DEF ExpireFlip, StoresOK, Statuses, Set, Idle
<1>14. CASE ExpireLog
  BY <1>14, <1>2 DEF ExpireLog, StoresOK, Kinds
<1>15. CASE ExpireRelease
  BY <1>15, <1>1, <1>3 DEF ExpireRelease, StoresOK, Idle
<1>16. ASSUME NEW g \in Grants, BudgetTake(g) PROVE StoresOK'
  BY <1>16, <1>3 DEF BudgetTake, StoresOK
<1>17. CASE CutoverLog
  BY <1>17, <1>2 DEF CutoverLog, StoresOK, Kinds
<1>18. CASE CutoverFlip
  BY <1>18, <1>1 DEF CutoverFlip, StoresOK, Statuses, Set, Idle
<1>19. CASE CutoverRelease
  BY <1>19, <1>1, <1>3 DEF CutoverRelease, StoresOK, Idle
<1>20. CASE AbandonLog
  BY <1>20, <1>2 DEF AbandonLog, StoresOK, Kinds
<1>21. CASE UNCHANGED <<stateDb, log, effects>>
  BY <1>21 DEF StoresOK
<1>22. QED
  BY <1>4, <1>5, <1>6, <1>7, <1>8, <1>9, <1>10, <1>11, <1>12, <1>13, <1>14, <1>15, <1>16,
     <1>17, <1>18, <1>19, <1>20, <1>21
  DEF Next, SteadyNext, Begin, Work, MintStep, ExecuteStep, SettleStep, SweepStep, Environment, vars,
      RequestBegin, ExecuteBegin, BudgetGate, EvidenceRecheck, CheckAuthority,
      PostClaimLockdown, PostClaimAuthority, Preconditions, Egress, Boot, PassDone,
      CutoverTake, ReconcileTake, OverdueTake, Housekeeping, Fault, Crash, Tick,
      ClockBack, CommitAuthority, AuthorityReadable, Engage, Unlock

(* Every step keeps the clock, the authority and the latch well typed. *)
LEMMA WorldType == ASSUME TypeOK, [Next]_vars PROVE WorldOK'
<1> USE DEF TypeOK, world
<1>1. CASE Fault
  BY <1>1 DEF Fault, WorldOK
<1>2. CASE Crash
  BY <1>2 DEF Crash, WorldOK
<1>3. CASE Tick
  BY <1>3 DEF Tick, WorldOK
<1>4. CASE ClockBack
  BY <1>4 DEF ClockBack, WorldOK
<1>5. CASE CommitAuthority
  BY <1>5 DEF CommitAuthority, WorldOK
<1>6. CASE AuthorityReadable
  BY <1>6 DEF AuthorityReadable, WorldOK
<1>7. CASE Engage
  BY <1>7 DEF Engage, WorldOK
<1>8. CASE Unlock
  BY <1>8, Zenon DEF Unlock, WorldOK
<1>9. CASE UNCHANGED world
  BY <1>9 DEF WorldOK
<1>10. QED
  BY <1>1, <1>2, <1>3, <1>4, <1>5, <1>6, <1>7, <1>8, <1>9
  DEF Next, SteadyNext, Begin, Work, MintStep, ExecuteStep, SettleStep, SweepStep, Environment,
      vars, RequestBegin, ExecuteBegin, BudgetGate, RecordBudgetMint, EvidenceRecheck,
      VoidMint, InsertGrant, CheckAuthority, Claim, PostClaimLockdown,
      PostClaimAuthority, Preconditions, EffectStarting, Egress, ProviderCall,
      RecordTerminal, FlipExecuted, ReleaseUninvoked, ExpireFlip, ExpireLog,
      ExpireRelease, Boot, PassDone, CutoverTake, ReconcileTake, OverdueTake,
      BudgetTake, CutoverLog, CutoverFlip, CutoverRelease, AbandonLog, Housekeeping

(* Every step keeps the running sweep well typed. *)
LEMMA SweepType == ASSUME TypeOK, [Next]_vars PROVE SweepOK'
<1> USE DEF TypeOK, sweep, NextPass
<1>1. CASE Boot
  BY <1>1, SelectionType DEF Boot, Start, SweepOK
<1>2. CASE PassDone
  BY <1>2, SelectionType DEF PassDone, Start, SweepOK
<1>3. ASSUME NEW p \in {"overdue", "budget"}, Housekeeping(p) PROVE SweepOK'
  BY <1>3, SelectionType DEF Housekeeping, Start, SweepOK
<1>4. ASSUME NEW g \in Grants, CutoverTake(g) PROVE SweepOK'
  BY <1>4 DEF CutoverTake, Take, SweepOK
<1>5. ASSUME NEW g \in Grants, ReconcileTake(g) PROVE SweepOK'
  BY <1>5 DEF ReconcileTake, Take, SweepOK
<1>6. ASSUME NEW g \in Grants, OverdueTake(g) PROVE SweepOK'
  BY <1>6 DEF OverdueTake, Take, SweepOK
<1>7. ASSUME NEW g \in Grants, BudgetTake(g) PROVE SweepOK'
  BY <1>7 DEF BudgetTake, Take, SweepOK
<1>8. CASE Fault
  BY <1>8 DEF Fault, Stop, SweepOK
<1>9. CASE Crash
  BY <1>9 DEF Crash, Stop, SweepOK
<1>10. CASE UNCHANGED sweep
  BY <1>10 DEF SweepOK
<1>11. QED
  BY <1>1, <1>2, <1>3, <1>4, <1>5, <1>6, <1>7, <1>8, <1>9, <1>10
  DEF Next, SteadyNext, Begin, Work, MintStep, ExecuteStep, SettleStep, SweepStep, Environment,
      vars, RequestBegin, ExecuteBegin, BudgetGate, RecordBudgetMint, EvidenceRecheck,
      VoidMint, InsertGrant, CheckAuthority, Claim, PostClaimLockdown,
      PostClaimAuthority, Preconditions, EffectStarting, Egress, ProviderCall,
      RecordTerminal, FlipExecuted, ReleaseUninvoked, ExpireFlip, ExpireLog,
      ExpireRelease, CutoverLog, CutoverFlip, CutoverRelease, AbandonLog, Tick,
      ClockBack, CommitAuthority, AuthorityReadable, Engage, Unlock

(* Every step keeps the broker thread well typed. *)
LEMMA ThreadType == ASSUME TypeOK, [Next]_vars PROVE ThreadOK'
<1> USE DEF TypeOK, locals
<1>1. ASSUME NEW g \in Grants, RequestBegin(g) PROVE ThreadOK'
  BY <1>1, GrantsAssumption DEF RequestBegin, Ready, Enter, WorldOK, ThreadOK, Idle,
     Labels, FaultPoints
<1>2. ASSUME NEW g \in Grants, ExecuteBegin(g) PROVE ThreadOK'
  BY <1>2, GrantsAssumption DEF ExecuteBegin, Ready, Enter, WorldOK, ThreadOK, Idle,
     Labels, FaultPoints
<1>3. CASE BudgetGate
  <2>1. CASE Return
    BY <2>1, ReturnType
  <2>2. CASE /\ Goto(IF Debit[cur] = 0 THEN "m_recheck" ELSE "m_debit")
             /\ decidedAt' = now /\ UNCHANGED <<invoked, unclaimed, snap>>
    BY <1>3, <2>2 DEF Goto, BudgetGate, ThreadOK, WorldOK, Idle, Labels, FaultPoints
  <2>3. QED
    BY <1>3, <2>1, <2>2 DEF BudgetGate
<1>4. CASE RecordBudgetMint
  BY <1>4, ReturnType, GotoType DEF RecordBudgetMint, Idle, Labels, FaultPoints
<1>5. CASE EvidenceRecheck
  BY <1>5, ReturnType, GotoType DEF EvidenceRecheck, Idle, Labels, FaultPoints
<1>6. CASE VoidMint
  BY <1>6, ReturnType, GotoType DEF VoidMint, Idle, Labels, FaultPoints
<1>7. CASE InsertGrant
  BY <1>7, ReturnType, GotoType DEF InsertGrant, Idle, Labels, FaultPoints
<1>8. CASE CheckAuthority
  BY <1>8, ReturnType, GotoType DEF CheckAuthority, Idle, Labels, FaultPoints
<1>9. CASE Claim
  BY <1>9, ReturnType, GotoType DEF Claim, Idle, Labels, FaultPoints
<1>10. CASE PostClaimLockdown
  BY <1>10, ReturnType, GotoType DEF PostClaimLockdown, Idle, Labels, FaultPoints
<1>11. CASE PostClaimAuthority
  BY <1>11, ReturnType, GotoType DEF PostClaimAuthority, Idle, Labels, FaultPoints
<1>12. CASE Preconditions
  BY <1>12, ReturnType, GotoType DEF Preconditions, Idle, Labels, FaultPoints
<1>13. CASE EffectStarting
  BY <1>13, ReturnType, GotoType DEF EffectStarting, Idle, Labels, FaultPoints
<1>14. CASE Egress
  BY <1>14 DEF Egress, Goto, ThreadOK, Idle, Labels, FaultPoints
<1>15. CASE ProviderCall
  BY <1>15, ReturnType, GotoType DEF ProviderCall, Idle, Labels, FaultPoints
<1>16. CASE RecordTerminal
  BY <1>16, ReturnType, GotoType DEF RecordTerminal, Idle, Labels, FaultPoints
<1>17. CASE FlipExecuted
  BY <1>17, ReturnType, GotoType DEF FlipExecuted, Idle, Labels, FaultPoints
<1>18. CASE ReleaseUninvoked
  BY <1>18, ReturnType, GotoType DEF ReleaseUninvoked, Idle, Labels, FaultPoints
<1>19. CASE ExpireFlip
  BY <1>19, ReturnType, GotoType DEF ExpireFlip, Idle, Labels, FaultPoints
<1>20. CASE ExpireLog
  BY <1>20, ReturnType, GotoType DEF ExpireLog, Idle, Labels, FaultPoints
<1>21. CASE ExpireRelease
  BY <1>21, ReturnType, GotoType DEF ExpireRelease, Idle, Labels, FaultPoints
<1>22. ASSUME NEW g \in Grants, CutoverTake(g) PROVE ThreadOK'
  BY <1>22, GrantsAssumption DEF CutoverTake, Take, Enter, WorldOK, ThreadOK, Idle,
     Labels, FaultPoints
<1>23. ASSUME NEW g \in Grants, ReconcileTake(g) PROVE ThreadOK'
  BY <1>23, GrantsAssumption DEF ReconcileTake, Take, Reconcile, Enter, WorldOK, ThreadOK,
     Idle, Labels, FaultPoints
<1>24. ASSUME NEW g \in Grants, OverdueTake(g) PROVE ThreadOK'
  BY <1>24, GrantsAssumption DEF OverdueTake, Take, Reconcile, Enter, WorldOK, ThreadOK,
     Idle, Labels, FaultPoints
<1>25. CASE CutoverLog
  BY <1>25, ReturnType, GotoType DEF CutoverLog, Idle, Labels, FaultPoints
<1>26. CASE CutoverFlip
  BY <1>26, ReturnType, GotoType DEF CutoverFlip, Idle, Labels, FaultPoints
<1>27. CASE CutoverRelease
  BY <1>27, ReturnType, GotoType DEF CutoverRelease, Idle, Labels, FaultPoints
<1>28. CASE AbandonLog
  BY <1>28, ReturnType, GotoType DEF AbandonLog, Idle, Labels, FaultPoints
<1>29. CASE Fault
  BY <1>29, ReturnType DEF Fault, ThreadOK, Idle
<1>30. CASE Crash
  BY <1>30, ReturnType DEF Crash
<1>31. CASE UNCHANGED <<pc, cur, locals>>
  BY <1>31 DEF ThreadOK, Idle
<1>32. QED
  BY <1>1, <1>2, <1>3, <1>4, <1>5, <1>6, <1>7, <1>8, <1>9, <1>10, <1>11, <1>12, <1>13,
     <1>14, <1>15, <1>16, <1>17, <1>18, <1>19, <1>20, <1>21, <1>22, <1>23, <1>24,
     <1>25, <1>26, <1>27, <1>28, <1>29, <1>30, <1>31
  DEF Next, SteadyNext, Begin, Work, MintStep, ExecuteStep, SettleStep, SweepStep, Environment,
      vars, Boot, PassDone, BudgetTake, Housekeeping, Tick, ClockBack,
      CommitAuthority, AuthorityReadable, Engage, Unlock

(* Every step keeps the history variables well typed. *)
LEMMA HistoryType == ASSUME TypeOK, [Next]_vars PROVE HistoryOK'
<1> USE DEF TypeOK, history
<1>1. CASE Claim
  BY <1>1, CurType DEF Claim, WorldOK, HistoryOK, Set
<1>2. CASE ProviderCall
  BY <1>2 DEF ProviderCall, HistoryOK
<1>3. CASE Engage
  BY <1>3 DEF Engage, HistoryOK
<1>4. CASE UNCHANGED history
  BY <1>4 DEF HistoryOK
<1>5. QED
  BY <1>1, <1>2, <1>3, <1>4
  DEF Next, SteadyNext, Begin, Work, MintStep, ExecuteStep, SettleStep, SweepStep, Environment,
      vars, RequestBegin, ExecuteBegin, BudgetGate, RecordBudgetMint, EvidenceRecheck,
      VoidMint, InsertGrant, CheckAuthority, PostClaimLockdown, PostClaimAuthority,
      Preconditions, EffectStarting, Egress, RecordTerminal, FlipExecuted,
      ReleaseUninvoked, ExpireFlip, ExpireLog, ExpireRelease, Boot, PassDone,
      CutoverTake, ReconcileTake, OverdueTake, BudgetTake, CutoverLog, CutoverFlip,
      CutoverRelease, AbandonLog, Housekeeping, Fault, Crash, Tick, ClockBack,
      CommitAuthority, AuthorityReadable, Unlock

(* Every step keeps the type invariant. *)
LEMMA TypeStep == ASSUME TypeOK, [Next]_vars PROVE TypeOK'
  BY StoresType, WorldType, SweepType, ThreadType, HistoryType DEF TypeOK

(* The type invariant, for every set of grants, every budget and clock,    *)
(* and any number of crashes, faults and commits.                          *)
THEOREM TypeCorrect == Spec => []TypeOK
<1>1. Init => TypeOK
  BY TypeInit
<1>2. TypeOK /\ [Next]_vars => TypeOK'
  BY TypeStep
<1>3. QED
  BY <1>1, <1>2, PTL DEF Spec

-----------------------------------------------------------------------------
(* The parts of the invariant. *)

(* No step but these reaches the provider or says anything of an execution. *)
Quiet ==
    /\ UNCHANGED <<stateDb, effects>>
    /\ \A h \in Grants :
         /\ Has("capability_effect_starting", h)' <=> Has("capability_effect_starting", h)
         /\ Has("lease_abandoned", h)' <=> Has("lease_abandoned", h)
         /\ Terminated(h, TRUE)' <=> Terminated(h, TRUE)
         /\ Terminated(h, FALSE)' <=> Terminated(h, FALSE)

(* A record of any other kind says nothing of an execution. *)
LEMMA QuietLog ==
    ASSUME NEW g, NEW k,
           Grown(k, g), k \notin {"capability_effect_starting", "lease_abandoned"},
           UNCHANGED <<stateDb, effects>>
    PROVE  Quiet
  BY DEF Quiet, Grown, Has, Terminated

(* A step that leaves the stores alone is quiet. *)
LEMMA QuietStill == ASSUME UNCHANGED <<stateDb, log, effects>> PROVE Quiet
  BY DEF Quiet, Has, Terminated

(* A quiet step keeps what the rows promise. *)
LEMMA QuietRows == ASSUME Quiet, Rows PROVE Rows'
  BY DEF Quiet, Rows, Row, Untouched, Unreported, stateDb

(* A quiet step keeps what the log says true. *)
LEMMA QuietFacts == ASSUME Quiet, Facts PROVE Facts'
  BY DEF Quiet, Facts, Fact, Unreported

(* A release is quiet. *)
LEMMA QuietRelease ==
    ASSUME TypeOK, NEW g \in Grants, ReleaseBudget(g), UNCHANGED <<stateDb, effects>>
    PROVE  Quiet
<1>1. CASE log' = log
  BY <1>1, QuietStill
<1>2. CASE Grown("budget_release", g)
  BY <1>2, QuietLog
<1>3. QED
  BY <1>1, <1>2, ReleaseGrows DEF TypeOK, StoresOK

(* The steps that record a mint, a release, an expiry or a cutover. *)
LEMMA QuietRecords ==
    ASSUME TypeOK,
           \/ RecordBudgetMint \/ VoidMint \/ ReleaseUninvoked \/ ExpireLog \/ ExpireRelease
           \/ CutoverLog \/ CutoverRelease \/ \E g \in Grants : BudgetTake(g)
    PROVE  Quiet
<1> USE DEF TypeOK, StoresOK
<1>1. cur \in Grants \/ Idle
  BY CurType DEF Idle
<1>2. CASE RecordBudgetMint
  BY <1>1, <1>2, MintGrows, QuietLog DEF RecordBudgetMint, ThreadOK, Idle
<1>3. CASE VoidMint \/ ReleaseUninvoked \/ ExpireRelease \/ CutoverRelease
  BY <1>1, <1>3, QuietRelease DEF VoidMint, ReleaseUninvoked, ExpireRelease,
     CutoverRelease, Idle
<1>4. CASE ExpireLog
  BY <1>1, <1>4, PlainEventGrows, QuietLog DEF ExpireLog, Kinds, Idle
<1>5. CASE CutoverLog
  BY <1>1, <1>5, PlainEventGrows, QuietLog, QuietStill DEF CutoverLog, Kinds, Idle
<1>6. ASSUME NEW g \in Grants, BudgetTake(g) PROVE Quiet
  BY <1>6, QuietRelease, QuietStill DEF BudgetTake
<1>7. QED
  BY <1>2, <1>3, <1>4, <1>5, <1>6

(* The steps of an execution that its log records. *)
LEMMA ExecutionRecords ==
    ASSUME TypeOK
    PROVE  /\ EffectStarting => cur \in Grants /\ Grown("capability_effect_starting", cur)
           /\ AbandonLog => /\ cur \in Grants
                            /\ \/ log' = log /\ Has("lease_abandoned", cur)
                               \/ Grown("lease_abandoned", cur)
           /\ RecordTerminal =>
                /\ cur \in Grants
                /\ \A k, h : HasIn(log', k, h) <=>
                     HasIn(log, k, h) \/ (k = "provider_action" /\ h = cur)
                /\ \A h : TerminatedIn(log', h, TRUE) <=>
                     TerminatedIn(log, h, TRUE) \/ (h = cur /\ invoked)
                /\ \A h : TerminatedIn(log', h, FALSE) <=>
                     TerminatedIn(log, h, FALSE) \/ (h = cur /\ ~invoked)
<1> USE CurType DEF TypeOK, StoresOK
<1>1. ASSUME EffectStarting
      PROVE  cur \in Grants /\ Grown("capability_effect_starting", cur)
  BY <1>1, PlainEventGrows DEF EffectStarting, Kinds
<1>2. ASSUME AbandonLog
      PROVE  /\ cur \in Grants
             /\ \/ log' = log /\ Has("lease_abandoned", cur)
                \/ Grown("lease_abandoned", cur)
  BY <1>2, PlainEventGrows DEF AbandonLog, Kinds
<1>3. ASSUME RecordTerminal
      PROVE  /\ cur \in Grants
             /\ \A k, h : HasIn(log', k, h) <=>
                  HasIn(log, k, h) \/ (k = "provider_action" /\ h = cur)
             /\ \A h : TerminatedIn(log', h, TRUE) <=>
                  TerminatedIn(log, h, TRUE) \/ (h = cur /\ invoked)
             /\ \A h : TerminatedIn(log', h, FALSE) <=>
                  TerminatedIn(log, h, FALSE) \/ (h = cur /\ ~invoked)
  <2>1. cur \in Grants /\ invoked \in BOOLEAN
    BY <1>3 DEF RecordTerminal, ThreadOK
  <2>2. CASE invoked = TRUE
    BY <1>3, <2>1, <2>2, TerminalGrows DEF RecordTerminal
  <2>3. CASE invoked = FALSE
    BY <1>3, <2>1, <2>3, TerminalGrows DEF RecordTerminal
  <2>4. QED
    BY <2>1, <2>2, <2>3
<1>4. QED
  BY <1>1, <1>2, <1>3

(* What a row promises between calls. *)
LEMMA RowsStep == ASSUME TypeOK, Rows, Facts, Thread, [Next]_vars PROVE Rows'
<1> USE DEF TypeOK, stateDb, Idle
<1>1. cur \in Grants \/ Idle
  BY CurType DEF Idle
<1>2. CASE InsertGrant
  BY <1>2, <1>1 DEF InsertGrant, Set, StoresOK, Rows, Row, Untouched, Unreported,
     Unclaimed, Thread, Has, Terminated, Reserving, Claimed
<1>3. CASE Claim
  <2>1. now + LeaseTerm # 0
    BY NumbersAssumption DEF WorldOK
  <2>2. \/ /\ status[cur] = "approved" /\ status' = [status EXCEPT ![cur] = "executing"]
           /\ lease' = [lease EXCEPT ![cur] = now + LeaseTerm]
        \/ UNCHANGED <<status, lease>>
    BY <1>3 DEF Claim, Set
  <2>3. cur \in Grants /\ UNCHANGED <<log, effects>>
    BY <1>3, <1>1 DEF Claim
  <2>4. ASSUME NEW g \in Grants PROVE Row(g)'
    <3>1. CASE status'[g] = status[g] /\ lease'[g] = lease[g]
      BY <2>3, <3>1 DEF Rows, Row, Untouched, Unreported, Has, Terminated
    <3>2. CASE status'[g] = "executing" /\ lease'[g] # 0
      BY <3>2 DEF Row
    <3>3. QED
      BY <2>1, <2>2, <2>3, <3>1, <3>2 DEF StoresOK
  <2>5. QED
    BY <2>4 DEF Rows
<1>4. CASE FlipExecuted
  <2>1. cur \in Grants /\ ~Unreported(cur)
    <3>1. cur \in Grants /\ Terminated(cur, invoked) /\ invoked \in BOOLEAN
      BY <1>4, <1>1 DEF FlipExecuted, Thread, ThreadOK
    <3>2. CASE invoked = TRUE
      BY <3>1, <3>2 DEF Unreported
    <3>3. CASE invoked = FALSE
      BY <3>1, <3>3 DEF Unreported
    <3>4. QED
      BY <3>1, <3>2, <3>3
  <2>2. /\ status[cur] = "executing" /\ status' = [status EXCEPT ![cur] = "executed"]
        /\ UNCHANGED <<lease, log, effects>>
    BY <1>4 DEF FlipExecuted, Thread, Set
  <2>3. QED
    BY <2>1, <2>2 DEF StoresOK, Rows, Row, Untouched, Unreported, Has, Terminated
<1>5. CASE ExpireFlip
  BY <1>5, <1>1, ZenonT(60) DEF ExpireFlip, Set, StoresOK, Rows, Row, Untouched, Unreported,
     Unclaimed, Thread, Has, Terminated, Reserving, Claimed
<1>6. CASE CutoverFlip
  BY <1>6, <1>1, ZenonT(60) DEF CutoverFlip, Set, StoresOK, Rows, Row, Untouched, Unreported,
     Unclaimed, Thread, Has, Terminated, Reserving, Claimed
<1>7. CASE ProviderCall
  BY <1>7, <1>1, ZenonT(60) DEF ProviderCall, Set, StoresOK, Rows, Row, Untouched, Unreported,
     Unclaimed, Thread, Has, Terminated, Reserving, Claimed
<1>8. CASE EffectStarting
  BY <1>8, ExecutionRecords, ZenonT(60) DEF EffectStarting, Set, StoresOK, Rows, Row, Untouched,
     Unreported, Unclaimed, Thread, Has, Terminated, Reserving, Claimed, Grown,
     Uninvoked
<1>9. CASE AbandonLog
  BY <1>9, ExecutionRecords, ZenonT(60) DEF AbandonLog, Set, StoresOK, Rows, Row, Untouched,
     Unreported, Unclaimed, Thread, Has, Terminated, Reserving, Claimed, Grown
<1>10. CASE RecordTerminal
  BY <1>10, ExecutionRecords, ZenonT(60) DEF RecordTerminal, Set, StoresOK, Rows, Row, Untouched,
     Unreported, Unclaimed, Thread, Has, Terminated, Reserving, Claimed
<1>11. CASE \/ UNCHANGED <<stateDb, log, effects>>
           \/ RecordBudgetMint \/ VoidMint \/ ReleaseUninvoked \/ ExpireLog \/ ExpireRelease
           \/ CutoverLog \/ CutoverRelease \/ \E g \in Grants : BudgetTake(g)
  BY <1>11, QuietRecords, QuietStill, QuietRows
<1>12. QED
  BY <1>2, <1>3, <1>4, <1>5, <1>6, <1>7, <1>8, <1>9, <1>10, <1>11
  DEF Next, SteadyNext, Begin, Work, MintStep, ExecuteStep, SettleStep, SweepStep, Environment,
      vars, RequestBegin, ExecuteBegin, BudgetGate, EvidenceRecheck,
      CheckAuthority, PostClaimLockdown, PostClaimAuthority, Preconditions,
      Egress, Boot, PassDone, CutoverTake,
      ReconcileTake, OverdueTake, CutoverRelease,
      Housekeeping, Fault, Crash, Tick, ClockBack, CommitAuthority, AuthorityReadable,
      Engage, Unlock

(* What the log says of an execution is true of the provider. *)
LEMMA FactsStep == ASSUME TypeOK, Rows, Facts, Thread, [Next]_vars PROVE Facts'
<1> USE DEF TypeOK, stateDb, Idle
<1>1. cur \in Grants \/ Idle
  BY CurType DEF Idle
<1>2. CASE InsertGrant
  BY <1>2 DEF InsertGrant, Facts, Fact, Unreported, Has, Terminated
<1>3. CASE Claim
  BY <1>3 DEF Claim, Facts, Fact, Unreported, Has, Terminated
<1>4. CASE FlipExecuted
  BY <1>4 DEF FlipExecuted, Facts, Fact, Unreported, Has, Terminated
<1>5. CASE ExpireFlip
  BY <1>5 DEF ExpireFlip, Facts, Fact, Unreported, Has, Terminated
<1>6. CASE CutoverFlip
  BY <1>6 DEF CutoverFlip, Facts, Fact, Unreported, Has, Terminated
<1>7. CASE ProviderCall
  <2>1. /\ cur \in Grants /\ effects[cur] = 0 /\ Unreported(cur)
        /\ Has("capability_effect_starting", cur)
    BY <1>7, <1>1 DEF ProviderCall, Thread, Claimed
  <2>2. PICK done \in {0, 1} : effects' = [effects EXCEPT ![cur] = effects[cur] + done]
    BY <1>7 DEF ProviderCall, Set
  <2>3. UNCHANGED log
    BY <1>7 DEF ProviderCall
  <2>4. \A g \in Grants : effects'[g] = effects[g] \/ (g = cur /\ effects'[g] \in {0, 1})
    BY <2>1, <2>2 DEF StoresOK
  <2>5. ASSUME NEW g \in Grants PROVE Fact(g)'
    <3>1. /\ Has("capability_effect_starting", g)' <=> Has("capability_effect_starting", g)
          /\ Has("lease_abandoned", g)' <=> Has("lease_abandoned", g)
          /\ Unreported(g)' <=> Unreported(g)
          /\ Terminated(g, TRUE)' <=> Terminated(g, TRUE)
          /\ Terminated(g, FALSE)' <=> Terminated(g, FALSE)
      BY <2>3 DEF Unreported, Has, Terminated
    <3>2. CASE effects'[g] = effects[g]
      BY <3>1, <3>2 DEF Facts, Fact
    <3>3. CASE g = cur /\ effects'[g] \in {0, 1}
      <4>1. effects'[g] <= 1
        BY <3>3
      <4>2. Has("capability_effect_starting", g)'
        BY <2>1, <3>1, <3>3 DEF Has
      <4>3. ~Terminated(g, FALSE)' /\ Unreported(g)'
        BY <2>1, <3>1, <3>3 DEF Unreported, Terminated
      <4>4. QED
        BY <4>1, <4>2, <4>3 DEF Fact
    <3>4. QED
      BY <2>4, <3>2, <3>3
  <2>6. QED
    BY <2>5 DEF Facts
<1>8. CASE EffectStarting
  BY <1>8, ExecutionRecords DEF EffectStarting, Facts, Fact, Unreported, Has,
     Terminated, Grown
<1>9. CASE AbandonLog
  BY <1>9, ExecutionRecords DEF AbandonLog, Facts, Fact, Thread, Unreported, Has,
     Terminated, Grown
<1>10. CASE RecordTerminal
  <2>1. /\ cur \in Grants /\ ~Terminated(cur, TRUE) /\ ~Terminated(cur, FALSE)
        /\ ~Has("lease_abandoned", cur)
        /\ invoked \/ effects[cur] = 0
        /\ UNCHANGED effects
    BY <1>10, <1>1 DEF RecordTerminal, Thread, Claimed, Unreported
  <2>2. ASSUME NEW g \in Grants PROVE Fact(g)'
    <3>1. CASE g = cur
      <4>1. effects'[g] <= 1
        BY <2>1 DEF Facts, Fact
      <4>2. effects'[g] > 0 => Has("capability_effect_starting", g)'
        BY <1>10, <2>1, <3>1, ExecutionRecords DEF Facts, Fact, Has
      <4>3. Terminated(g, FALSE)' => effects'[g] = 0 /\ ~Terminated(g, TRUE)'
        BY <1>10, <2>1, <3>1, ExecutionRecords DEF Terminated
      <4>4. ~Has("lease_abandoned", g)'
        BY <1>10, <2>1, <3>1, ExecutionRecords DEF Has
      <4>5. QED
        BY <4>1, <4>2, <4>3, <4>4 DEF Fact
    <3>2. CASE g # cur
      BY <1>10, <2>1, <3>2, ExecutionRecords DEF Facts, Fact, Unreported, Has, Terminated
    <3>3. QED
      BY <3>1, <3>2
  <2>3. QED
    BY <2>2 DEF Facts
<1>11. CASE \/ UNCHANGED <<stateDb, log, effects>>
           \/ RecordBudgetMint \/ VoidMint \/ ReleaseUninvoked \/ ExpireLog \/ ExpireRelease
           \/ CutoverLog \/ CutoverRelease \/ \E g \in Grants : BudgetTake(g)
  BY <1>11, QuietRecords, QuietStill, QuietFacts
<1>12. QED
  BY <1>2, <1>3, <1>4, <1>5, <1>6, <1>7, <1>8, <1>9, <1>10, <1>11
  DEF Next, SteadyNext, Begin, Work, MintStep, ExecuteStep, SettleStep, SweepStep, Environment,
      vars, RequestBegin, ExecuteBegin, BudgetGate, EvidenceRecheck,
      CheckAuthority, PostClaimLockdown, PostClaimAuthority, Preconditions,
      Egress, Boot, PassDone, CutoverTake,
      ReconcileTake, OverdueTake, CutoverRelease,
      Housekeeping, Fault, Crash, Tick, ClockBack, CommitAuthority, AuthorityReadable,
      Engage, Unlock

(* Between calls the thread relies on nothing. *)
LEMMA IdleThread ==
    ASSUME Return PROVE Thread'
  BY DEF Return, Thread, Opening, Reserving, Unclaimable, Uninvoked, Claimed

(* What the broker thread relies on at each of its steps. *)
LEMMA ThreadStep == ASSUME TypeOK, Rows, Facts, Thread, Passes, [Next]_vars PROVE Thread'
<1> USE DEF TypeOK, stateDb, locals, Idle
<1>1. cur \in Grants \/ Idle
  BY CurType DEF Idle
<1>2. ASSUME NEW g \in Grants, RequestBegin(g) PROVE Thread'
  BY <1>2 DEF RequestBegin, Ready, Enter, Passes, SweepOK, Thread, Rows, Row,
     Untouched, Unclaimed, Has, Terminated, Unreported, Opening, Reserving,
     Unclaimable, Uninvoked, Claimed
<1>3. ASSUME NEW g \in Grants, ExecuteBegin(g) PROVE Thread'
  <2>1. CASE Enter(g, "e_flip") /\ unclaimed' = TRUE
    BY <1>3, <2>1 DEF ExecuteBegin, Ready, Enter, Thread, Opening, Reserving, Unclaimable,
       Uninvoked,
       Claimed
  <2>2. CASE g \notin Legacy /\ Enter(g, "x_authority") /\ UNCHANGED unclaimed
    BY <1>3, <2>2 DEF ExecuteBegin, Ready, Enter, Thread, Opening, Reserving, Unclaimable,
       Uninvoked,
       Claimed
  <2>3. QED
    BY <1>3, <2>1, <2>2 DEF ExecuteBegin
<1>4. CASE BudgetGate
  <2>1. CASE Return
    BY <2>1, IdleThread
  <2>2. CASE Goto("m_recheck") /\ Debit[cur] = 0 /\ UNCHANGED <<invoked, unclaimed>>
    BY <1>4, <1>1, <2>2, GrantsAssumption DEF BudgetGate, Goto, Thread, Has, Opening,
       Reserving, Unclaimable,
       Uninvoked, Claimed
  <2>3. CASE Goto("m_debit") /\ UNCHANGED <<invoked, unclaimed>>
    BY <1>4, <2>3 DEF BudgetGate, Goto, Thread, Has, Opening, Reserving, Unclaimable,
       Uninvoked,
       Claimed
  <2>4. QED
    BY <1>4, <2>1, <2>2, <2>3 DEF BudgetGate
<1>5. CASE RecordBudgetMint
  BY <1>5, <1>1, MintGrows DEF RecordBudgetMint, Goto, StoresOK, ThreadOK, Thread,
     Has, Grown, Opening, Reserving, Unclaimable, Uninvoked, Claimed
<1>6. CASE EvidenceRecheck
  <2>1. CASE Return
    BY <2>1, IdleThread
  <2>2. CASE Goto("m_insert") /\ UNCHANGED locals
    BY <1>6, <2>2 DEF EvidenceRecheck, Goto, Thread, Has, Terminated, Unreported, Opening,
       Reserving,
       Unclaimable, Uninvoked, Claimed
  <2>3. CASE Goto("m_void") /\ UNCHANGED locals
    BY <1>6, <2>3 DEF EvidenceRecheck, Goto, Thread, Has, Terminated, Unreported, Opening,
       Reserving,
       Unclaimable, Uninvoked, Claimed
  <2>4. QED
    BY <1>6, <2>1, <2>2, <2>3 DEF EvidenceRecheck
<1>7. CASE VoidMint
  BY <1>7, IdleThread DEF VoidMint
<1>8. CASE InsertGrant
  BY <1>8, IdleThread DEF InsertGrant
<1>9. CASE CheckAuthority
  <2>1. CASE Return
    BY <2>1, IdleThread
  <2>2. CASE Goto("x_claim") /\ UNCHANGED locals
    BY <1>9, <2>2 DEF CheckAuthority, Goto, Thread, Has, Terminated, Unreported, Opening,
       Reserving,
       Unclaimable, Uninvoked, Claimed
  <2>3. QED
    BY <1>9, <2>1, <2>2 DEF CheckAuthority
<1>10. CASE Claim
  <2>1. CASE Return
    BY <2>1, IdleThread
  <2>2. CASE /\ status[cur] = "approved" /\ status' = [status EXCEPT ![cur] = "executing"]
             /\ Goto("x_lock") /\ UNCHANGED locals
    <3>1. /\ cur \in Grants /\ cur \notin Legacy /\ Untouched(cur)
          /\ UNCHANGED <<log, effects>>
      BY <1>10, <1>1, <2>2 DEF Claim, Thread, Unclaimable, Rows, Row
    <3>2. QED
      BY <1>10, <2>2, <3>1 DEF Claim, Goto, StoresOK, Thread, Untouched, Has, Terminated,
         Unreported,
         Opening, Reserving, Unclaimable, Uninvoked, Claimed
  <2>3. QED
    BY <1>10, <2>1, <2>2 DEF Claim, Set
<1>11. CASE PostClaimLockdown
  BY <1>11 DEF PostClaimLockdown, Goto, Thread, Has, Terminated, Unreported, Opening,
     Reserving, Unclaimable, Uninvoked, Claimed
<1>12. CASE PostClaimAuthority
  BY <1>12 DEF PostClaimAuthority, Goto, Thread, Has, Terminated, Unreported, Opening,
     Reserving, Unclaimable, Uninvoked, Claimed
<1>13. CASE Preconditions
  BY <1>13 DEF Preconditions, Goto, Thread, Has, Terminated, Unreported, Opening,
     Reserving, Unclaimable, Uninvoked, Claimed
<1>14. CASE EffectStarting
  BY <1>14, ExecutionRecords DEF EffectStarting, Goto, Thread, Has, Terminated,
     Unreported, Grown, Opening, Reserving, Unclaimable, Uninvoked, Claimed
<1>15. CASE Egress
  BY <1>15 DEF Egress, Goto, Thread, Has, Terminated, Unreported, Opening, Reserving,
     Unclaimable, Uninvoked, Claimed
<1>16. CASE ProviderCall
  BY <1>16, <1>1 DEF ProviderCall, Goto, Set, StoresOK, Thread, Has, Terminated,
     Unreported, Opening, Reserving, Unclaimable, Uninvoked, Claimed
<1>17. CASE RecordTerminal
  BY <1>17, ExecutionRecords, TerminalGrows DEF RecordTerminal, Goto, StoresOK,
     ThreadOK, Thread, Has, Terminated, Unreported, Opening, Reserving, Unclaimable,
     Uninvoked, Claimed
<1>18. CASE FlipExecuted
  <2>1. CASE Return
    BY <2>1, IdleThread
  <2>2. CASE ~invoked /\ Goto("x_release") /\ UNCHANGED locals
    <3>1. Terminated(cur, FALSE) /\ cur \in Grants
      <4>1. invoked \in BOOLEAN /\ Terminated(cur, invoked) /\ cur \in Grants
        BY <1>18, <1>1 DEF FlipExecuted, Thread, ThreadOK
      <4>2. invoked = FALSE
        BY <2>2, <4>1
      <4>3. QED
        BY <4>1, <4>2
    <3>2. status'[cur] = "executed"
      BY <1>18, <3>1 DEF FlipExecuted, Thread, Set, StoresOK
    <3>3. QED
      BY <1>18, <2>2, <3>1, <3>2 DEF FlipExecuted, Goto, Thread, Terminated, Opening,
         Reserving,
         Unclaimable, Uninvoked, Claimed
  <2>3. QED
    BY <1>18, <2>1, <2>2 DEF FlipExecuted
<1>19. CASE ReleaseUninvoked
  BY <1>19, IdleThread DEF ReleaseUninvoked
<1>20. CASE ExpireFlip
  BY <1>20, <1>1 DEF ExpireFlip, Goto, Set, StoresOK, Thread, Rows, Row, Untouched,
     Unclaimed, Has, Terminated, Unreported, Opening, Reserving, Unclaimable,
     Uninvoked, Claimed
<1>21. CASE ExpireLog
  BY <1>21, IdleThread DEF ExpireLog, Goto, Thread, Has, Terminated, Unreported,
     Opening, Reserving, Unclaimable, Uninvoked, Claimed
<1>22. CASE ExpireRelease
  BY <1>22, IdleThread DEF ExpireRelease
<1>23. ASSUME NEW g \in Grants, CutoverTake(g) PROVE Thread'
  BY <1>23 DEF CutoverTake, Take, Enter, Passes, SweepOK, Thread, Rows, Row,
     Untouched, Unclaimed, Has, Terminated, Unreported, Opening, Reserving,
     Unclaimable, Uninvoked, Claimed
<1>24. ASSUME NEW g \in Grants, ReconcileTake(g) PROVE Thread'
  <2>1. status[g] = "executing"
    BY <1>24 DEF ReconcileTake, Take, Passes
  <2>2. CASE Reconcile(g)
    <3>1. pc' = "x_flip" /\ cur' = g /\ ~unclaimed'
      BY <1>24, <2>2 DEF ReconcileTake, Take, Reconcile, Enter, Thread
    <3>2. Terminated(g, invoked')
      <4>1. CASE Terminated(g, FALSE)
        <5>1. invoked' = FALSE
          BY <2>2, <4>1 DEF Reconcile
        <5>2. QED
          BY <4>1, <5>1
      <4>2. CASE ~Terminated(g, FALSE)
        <5>1. invoked' = TRUE /\ Terminated(g, TRUE)
          BY <2>2, <4>2 DEF Reconcile
        <5>2. QED
          BY <5>1
      <4>3. QED
        BY <4>1, <4>2
    <3>3. QED
      BY <1>24, <2>1, <3>1, <3>2 DEF ReconcileTake, Thread, Terminated, Opening, Reserving,
         Unclaimable, Uninvoked, Claimed
  <2>3. CASE Unreported(g) /\ UNCHANGED <<pc, cur, locals>>
    BY <1>24, <2>3 DEF ReconcileTake, Take, Thread, Opening, Reserving, Unclaimable,
       Uninvoked, Claimed
  <2>4. QED
    BY <1>24, <2>2, <2>3 DEF ReconcileTake
<1>25. ASSUME NEW g \in Grants, OverdueTake(g) PROVE Thread'
  <2>1. status[g] = "executing"
    BY <1>25 DEF OverdueTake, Take, Passes
  <2>2. CASE Reconcile(g)
    <3>1. pc' = "x_flip" /\ cur' = g /\ ~unclaimed'
      BY <1>25, <2>2 DEF OverdueTake, Take, Reconcile, Enter, Thread
    <3>2. Terminated(g, invoked')
      <4>1. CASE Terminated(g, FALSE)
        <5>1. invoked' = FALSE
          BY <2>2, <4>1 DEF Reconcile
        <5>2. QED
          BY <4>1, <5>1
      <4>2. CASE ~Terminated(g, FALSE)
        <5>1. invoked' = TRUE /\ Terminated(g, TRUE)
          BY <2>2, <4>2 DEF Reconcile
        <5>2. QED
          BY <5>1
      <4>3. QED
        BY <4>1, <4>2
    <3>3. QED
      BY <1>25, <2>1, <3>1, <3>2 DEF OverdueTake, Thread, Terminated, Opening, Reserving,
         Unclaimable, Uninvoked, Claimed
  <2>3. CASE Unreported(g) /\ Enter(g, "a_log") /\ UNCHANGED locals
    BY <1>25, <2>1, <2>3 DEF OverdueTake, Take, Enter, Thread, Terminated, Unreported,
       Opening,
       Reserving, Unclaimable, Uninvoked, Claimed
  <2>4. QED
    BY <1>25, <2>2, <2>3 DEF OverdueTake
<1>26. ASSUME NEW g \in Grants, BudgetTake(g) PROVE Thread'
  BY <1>26 DEF BudgetTake, Take, Thread, Opening, Reserving, Unclaimable, Uninvoked,
     Claimed
<1>27. CASE CutoverLog
  BY <1>27, <1>1 DEF CutoverLog, Goto, Thread, Unclaimed, Opening, Reserving,
     Unclaimable, Uninvoked, Claimed
<1>28. CASE CutoverFlip
  BY <1>28, <1>1, IdleThread DEF CutoverFlip, Goto, Set, StoresOK, Thread, Rows, Row,
     Untouched, Unclaimed, Has, Terminated, Unreported, Opening, Reserving,
     Unclaimable, Uninvoked, Claimed
<1>29. CASE CutoverRelease
  BY <1>29, IdleThread DEF CutoverRelease
<1>30. CASE AbandonLog
  BY <1>30, ExecutionRecords DEF AbandonLog, Goto, Thread, Facts, Fact, Has,
     Terminated, Unreported, Grown, Opening, Reserving, Unclaimable, Uninvoked,
     Claimed
<1>31. CASE Fault
  <2>1. CASE Return
    BY <2>1, IdleThread
  <2>2. CASE Idle /\ UNCHANGED <<pc, cur, locals>>
    BY <2>2 DEF Thread, Opening, Reserving, Unclaimable, Uninvoked, Claimed
  <2>3. QED
    BY <1>31, <2>1, <2>2 DEF Fault
<1>32. CASE Crash
  BY <1>32, IdleThread DEF Crash
<1>33. CASE UNCHANGED <<stateDb, log, effects, pc, cur, locals>>
  BY <1>33 DEF Thread, Has, Terminated, Unreported, Unclaimed, Opening, Reserving,
     Unclaimable, Uninvoked, Claimed
<1>34. QED
  BY <1>2, <1>3, <1>4, <1>5, <1>6, <1>7, <1>8, <1>9, <1>10, <1>11, <1>12, <1>13,
     <1>14, <1>15, <1>16, <1>17, <1>18, <1>19, <1>20, <1>21, <1>22, <1>23, <1>24,
     <1>25, <1>26, <1>27, <1>28, <1>29, <1>30, <1>31, <1>32, <1>33
  DEF Next, SteadyNext, Begin, Work, MintStep, ExecuteStep, SettleStep, SweepStep, Environment,
      vars, Boot, PassDone, Housekeeping, Tick, ClockBack, CommitAuthority,
      AuthorityReadable, Engage, Unlock, world, sweep

(* A lapsed mint stays lapsed. *)
LEMMA LapsedLater ==
    ASSUME log \in Seq(Events), NEW g \in Grants, NEW t \in Nat, NEW u \in Nat, t <= u,
    LapsedIn(log, g, t)
    PROVE  LapsedIn(log, g, u)
<1>1. PICK i \in DOMAIN log : /\ log[i].kind = "budget_mint" /\ log[i].grant = g
                              /\ log[i].ts + TTL < t
  BY DEF LapsedIn
<1>2. log[i] \in Events
  BY <1>1
<1>3. log[i].ts + TTL < u
  BY <1>1, <1>2, NumbersAssumption DEF Events
<1>4. QED
  BY <1>1, <1>3 DEF LapsedIn

(* A step inside a call keeps what the pass knows if it moves no row that  *)
(* the pass has still to take.                                             *)
LEMMA PassesKept ==
    ASSUME SweepOK, Passes, ~Idle, UNCHANGED sweep, cur' = cur \/ cur' = NoGrant,
           \A g \in todo : status'[g] = status[g],
           pc' \in {"c_log", "c_flip", "c_release"} <=> pass = "cutover" /\ pc' # "idle"
    PROVE  Passes'
  BY GrantsAssumption DEF SweepOK, Passes, Unclaimed, Idle, sweep

(* A pass that starts knows what it selected. *)
LEMMA PassesStart ==
    ASSUME ThreadOK, Idle, UNCHANGED <<stateDb, log, now, pc, cur>>,
           NEW p \in {"none"} \cup DOMAIN NextPass, Start(p)
    PROVE  Passes'
<1> USE GrantsAssumption DEF ThreadOK, Idle, stateDb, Start, Selection, Passes, Unclaimed
<1>1. CASE p \in {"none", "cutover"}
  BY <1>1
<1>2. CASE p \in {"reconcile", "overdue"}
  BY <1>2
<1>3. CASE p = "budget"
  BY <1>3 DEF LapsedMints, Releasable, Has
<1>4. QED
  BY <1>1, <1>2, <1>3 DEF NextPass

(* What a pass still knows of the ids it selected. *)
LEMMA PassesStep == ASSUME TypeOK, Rows, Thread, Passes, [Next]_vars PROVE Passes'
<1> USE DEF TypeOK, stateDb, sweep, locals, Idle
<1>1. cur \in Grants \/ Idle
  BY CurType DEF Idle
<1>2. cur \notin todo /\ todo \in SUBSET Grants
  BY DEF Passes, SweepOK
<1>3. ASSUME NEW g \in Grants, RequestBegin(g) PROVE Passes'
  BY <1>3 DEF RequestBegin, Ready, Enter, Passes
<1>4. ASSUME NEW g \in Grants, ExecuteBegin(g) PROVE Passes'
  BY <1>4 DEF ExecuteBegin, Ready, Enter, Passes
<1>5. CASE BudgetGate
  BY <1>5, PassesKept DEF BudgetGate, Goto, Return, Passes
<1>6. CASE RecordBudgetMint
  BY <1>6, PassesKept DEF RecordBudgetMint, Goto, Return, Passes
<1>7. CASE EvidenceRecheck
  BY <1>7, PassesKept DEF EvidenceRecheck, Goto, Return, Passes
<1>8. CASE VoidMint
  BY <1>8, PassesKept DEF VoidMint, Goto, Return, Passes
<1>9. CASE InsertGrant
  BY <1>9, PassesKept, <1>1, <1>2 DEF InsertGrant, Goto, Return, Set, StoresOK,
     SweepOK, Passes
<1>10. CASE CheckAuthority
  BY <1>10, PassesKept DEF CheckAuthority, Goto, Return, Passes
<1>11. CASE Claim
  BY <1>11, PassesKept, <1>1, <1>2 DEF Claim, Goto, Return, Set, StoresOK, SweepOK,
     Passes
<1>12. CASE PostClaimLockdown
  BY <1>12, PassesKept DEF PostClaimLockdown, Goto, Return, Passes
<1>13. CASE PostClaimAuthority
  BY <1>13, PassesKept DEF PostClaimAuthority, Goto, Return, Passes
<1>14. CASE Preconditions
  BY <1>14, PassesKept DEF Preconditions, Goto, Return, Passes
<1>15. CASE EffectStarting
  BY <1>15, PassesKept DEF EffectStarting, Goto, Return, Passes
<1>16. CASE Egress
  BY <1>16, PassesKept DEF Egress, Goto, Return, Passes
<1>17. CASE ProviderCall
  BY <1>17, PassesKept DEF ProviderCall, Goto, Return, Passes
<1>18. CASE RecordTerminal
  BY <1>18, PassesKept DEF RecordTerminal, Goto, Return, Passes
<1>19. CASE FlipExecuted
  BY <1>19, PassesKept, <1>1, <1>2 DEF FlipExecuted, Goto, Return, Set, StoresOK,
     SweepOK, Passes
<1>20. CASE ReleaseUninvoked
  BY <1>20, PassesKept DEF ReleaseUninvoked, Goto, Return, Passes
<1>21. CASE ExpireFlip
  BY <1>21, PassesKept, <1>1, <1>2 DEF ExpireFlip, Goto, Return, Set, StoresOK,
     SweepOK, Passes
<1>22. CASE ExpireLog
  BY <1>22, PassesKept DEF ExpireLog, Goto, Return, Passes
<1>23. CASE ExpireRelease
  BY <1>23, PassesKept DEF ExpireRelease, Goto, Return, Passes
<1>24. CASE Boot
  <2>1. "cutover" \in {"none"} \cup DOMAIN NextPass
    BY DEF NextPass
  <2>2. Idle /\ UNCHANGED <<stateDb, log, now, pc, cur>> /\ Start("cutover")
    BY <1>24 DEF Boot, world
  <2>3. QED
    BY <2>1, <2>2, PassesStart
<1>25. CASE PassDone
  <2> DEFINE next == IF booting THEN NextPass[pass] ELSE "none"
  <2>1. next \in {"none"} \cup DOMAIN NextPass
    BY <1>25 DEF PassDone, NextPass, SweepOK
  <2>2. Idle /\ UNCHANGED <<stateDb, log, now, pc, cur>> /\ Start(next)
    BY <1>25 DEF PassDone, world
  <2> HIDE DEF next
  <2>3. QED
    BY <2>1, <2>2, PassesStart
<1>26. ASSUME NEW g \in Grants, CutoverTake(g) PROVE Passes'
  BY <1>26, <1>2 DEF CutoverTake, Take, Enter, Passes, Unclaimed, SweepOK
<1>27. ASSUME NEW g \in Grants, ReconcileTake(g) PROVE Passes'
  BY <1>27 DEF ReconcileTake, Take, Reconcile, Enter, Passes
<1>28. ASSUME NEW g \in Grants, OverdueTake(g) PROVE Passes'
  BY <1>28 DEF OverdueTake, Take, Reconcile, Enter, Passes
<1>29. ASSUME NEW g \in Grants, BudgetTake(g) PROVE Passes'
  <2>1. /\ Idle /\ pass = "budget" /\ g \in todo /\ todo' = todo \ {g}
        /\ UNCHANGED <<stateDb, world, pass, pc, cur>>
    BY <1>29 DEF BudgetTake, Take
  <2>2. log' = log \/ Grown("budget_release", g)
    BY <1>29, ReleaseGrows DEF BudgetTake, StoresOK
  <2>3. ASSUME NEW h \in todo'
        PROVE  Releasable(h)' /\ (~ClockMayStepBack => LapsedIn(log', h, now'))
    <3>1. h \in todo /\ h # g
      BY <2>1
    <3>2. Releasable(h) /\ (~ClockMayStepBack => LapsedIn(log, h, now)) /\ now' = now
      BY <2>1, <3>1 DEF Passes, world
    <3>3. QED
      BY <2>2, <3>1, <3>2 DEF Releasable, Has, Grown
  <2>4. QED
    BY <1>2, <2>1, <2>3 DEF Passes
<1>30. CASE CutoverLog
  BY <1>30, PassesKept DEF CutoverLog, Goto, Return, Passes
<1>31. CASE CutoverFlip
  BY <1>31, PassesKept, <1>1, <1>2 DEF CutoverFlip, Goto, Return, Set, StoresOK,
     SweepOK, Passes
<1>32. CASE CutoverRelease
  BY <1>32, PassesKept DEF CutoverRelease, Goto, Return, Passes
<1>33. CASE AbandonLog
  BY <1>33, PassesKept DEF AbandonLog, Goto, Return, Passes
<1>34. ASSUME NEW p \in {"overdue", "budget"}, Housekeeping(p) PROVE Passes'
  <2>1. p \in {"none"} \cup DOMAIN NextPass
    BY DEF NextPass
  <2>2. Idle /\ UNCHANGED <<stateDb, log, now, pc, cur>> /\ Start(p)
    BY <1>34 DEF Housekeeping, Ready, world
  <2>3. QED
    BY <2>1, <2>2, PassesStart
<1>35. CASE Fault
  BY <1>35, GrantsAssumption DEF Fault, Return, Stop, SweepOK, Passes, ThreadOK,
     Unclaimed, Releasable, Has
<1>36. CASE Crash
  BY <1>36, GrantsAssumption DEF Crash, Return, Stop, SweepOK, Passes, ThreadOK,
     Unclaimed, Releasable, Has
<1>37. CASE Tick
  <2>1. /\ now' \in Nat /\ now <= now' /\ now \in Nat
        /\ UNCHANGED <<stateDb, log, sweep, pc, cur>>
    BY <1>37 DEF Tick, WorldOK
  <2>2. \A g \in todo : LapsedIn(log, g, now) => LapsedIn(log', g, now')
    BY <1>2, <2>1, LapsedLater DEF StoresOK
  <2>3. QED
    BY <2>1, <2>2 DEF Passes, Releasable, Unclaimed, Has
<1>38. CASE ClockBack
  BY <1>38 DEF ClockBack, Passes, Releasable, Unclaimed, Has
<1>39. CASE UNCHANGED <<stateDb, log, effects, now, sweep, pc, cur>>
  BY <1>39 DEF Passes, Releasable, Unclaimed, Has
<1>40. QED
  BY <1>3, <1>4, <1>5, <1>6, <1>7, <1>8, <1>9, <1>10, <1>11, <1>12, <1>13, <1>14,
     <1>15, <1>16, <1>17, <1>18, <1>19, <1>20, <1>21, <1>22, <1>23, <1>24, <1>25,
     <1>26, <1>27, <1>28, <1>29, <1>30, <1>31, <1>32, <1>33, <1>34, <1>35, <1>36,
     <1>37, <1>38, <1>39
  DEF Next, SteadyNext, Begin, Work, MintStep, ExecuteStep, SettleStep, SweepStep, Environment,
      vars, CommitAuthority, AuthorityReadable, Engage, Unlock, world

-----------------------------------------------------------------------------
(* The ledger, while the clock does not go back. *)

(* A step keeps a grant's booking if it leaves its row and its effects     *)
(* alone, releases nothing of it and takes nothing off the log.            *)
Standing(g) ==
    /\ status'[g] = status[g] /\ expiry'[g] = expiry[g] /\ lease'[g] = lease[g]
    /\ effects'[g] = effects[g]
    /\ Has("budget_release", g)' => Has("budget_release", g)
    /\ Has("budget_mint", g) => Has("budget_mint", g)'
    /\ Terminated(g, FALSE) => Terminated(g, FALSE)'

(* A standing grant stays booked while the clock does not go back. *)
LEMMA BookedKept ==
    ASSUME NEW g \in Grants, StoresOK, Booked(g), Standing(g),
           now \in Nat, now' \in Nat, now <= now'
    PROVE  Booked(g)'
<1>1. Closed(g) => Closed(g)'
  <2>1. expiry[g] \in Nat
    BY DEF StoresOK
  <2>2. CASE Unclaimed(g) /\ (g \in Legacy \/ now > expiry[g])
    <3>1. now > expiry[g] => now' > expiry'[g]
      BY <2>1 DEF Standing
    <3>2. Unclaimed(g)'
      BY <2>2 DEF Standing, Unclaimed
    <3>3. QED
      BY <2>2, <3>1, <3>2 DEF Closed
  <2>3. QED
    BY <2>2 DEF Standing, Closed
<1>2. QED
  BY <1>1 DEF Standing, Booked

(* A step that leaves the rows alone and records anything but a release. *)
LEMMA StandingStill ==
    ASSUME NEW g \in Grants, UNCHANGED <<stateDb, log, effects>>
    PROVE  Standing(g)
  BY DEF Standing, Has, Terminated, stateDb

(* So does a record of any other grant or kind. *)
LEMMA StandingGrown ==
    ASSUME NEW g \in Grants, NEW h, NEW K, Grown(K, h), K # "budget_release" \/ g # h,
           UNCHANGED <<stateDb, effects>>
    PROVE  Standing(g)
<1>1. /\ status'[g] = status[g] /\ expiry'[g] = expiry[g] /\ lease'[g] = lease[g]
      /\ effects'[g] = effects[g]
  BY DEF stateDb
<1>2. /\ Has("budget_release", g)' => Has("budget_release", g)
      /\ Has("budget_mint", g) => Has("budget_mint", g)'
  BY DEF Grown, Has
<1>3. Terminated(g, FALSE) => Terminated(g, FALSE)'
  BY DEF Grown, Terminated
<1>4. QED
  BY <1>1, <1>2, <1>3 DEF Standing

(* An approved grant that has not expired has its debit. *)
LEMMA NotReleased ==
    ASSUME Rows, Ledger, NEW g \in Grants, status[g] = "approved", g \notin Legacy,
           now <= expiry[g], StoresOK, WorldOK
    PROVE  ~Has("budget_release", g)
<1>1. ~Terminated(g, FALSE) /\ expiry[g] \in Nat /\ now \in Nat
  BY DEF Rows, Row, Untouched, Unreported, StoresOK, WorldOK
<1>2. ~(now > expiry[g])
  BY <1>1
<1>3. ~Closed(g)
  BY <1>1, <1>2 DEF Closed, Unclaimed
<1>4. QED
  BY <1>3 DEF Ledger, Booked

(* The budget sweep takes a lapsed mint, so the expiry it proves is past.  *)
LEMMA SweptIsClosed ==
    ASSUME TypeOK, Rows, Facts, Ledger, NEW g \in Grants, LapsedIn(log, g, now),
           BudgetGrantReleasable(g)
    PROVE  effects[g] = 0 /\ Closed(g)
<1> USE DEF TypeOK, StoresOK, WorldOK
<1>1. CASE status[g] = "absent"
  BY <1>1 DEF Rows, Row, Untouched, Closed
<1>2. CASE Unclaimed(g) /\ ExpiryProven(g)
  <2>1. PICK i \in DOMAIN log : /\ log[i].kind = "budget_mint" /\ log[i].grant = g
                                /\ expiry[g] = log[i].ts + TTL
    BY <1>2 DEF ExpiryProven, Of
  <2>2. PICK j \in DOMAIN log : /\ log[j].kind = "budget_mint" /\ log[j].grant = g
                                /\ log[j].ts + TTL < now
    BY DEF LapsedIn
  <2>3. i = j
    BY <2>1, <2>2 DEF Ledger, OneMintIn
  <2>4. now > expiry[g]
    BY <2>1, <2>2, <2>3
  <2>5. QED
    BY <1>2, <2>4 DEF Unclaimed, Rows, Row, Untouched, Closed
<1>3. CASE status[g] = "expired" /\ lease[g] = 0
  BY <1>3 DEF Rows, Row, Untouched, Closed
<1>4. CASE Terminated(g, FALSE)
  BY <1>4 DEF Facts, Fact, Closed
<1>5. QED
  BY <1>1, <1>2, <1>3, <1>4 DEF BudgetGrantReleasable

(* A release of a closed grant keeps the ledger when the call is over.     *)
LEMMA LedgerRelease ==
    ASSUME TypeOK, Ledger, NEW g \in Grants, ReleaseBudget(g), effects[g] = 0, Closed(g),
           UNCHANGED <<stateDb, effects, now>>, pc' = "idle"
    PROVE  Ledger'
<1>1. log' = log \/ (Releasable(g) /\ Grown("budget_release", g))
  BY ReleaseGrows DEF TypeOK, StoresOK
<1>2. OneMintIn(log')
  BY <1>1 DEF Ledger, Grown
<1>3. ASSUME NEW h \in Grants PROVE Booked(h)'
  <2>1. CASE h # g \/ log' = log
    <3>1. Standing(h)
      BY <1>1, <2>1, StandingGrown, StandingStill
    <3>2. QED
      BY <3>1, BookedKept DEF Ledger, TypeOK, WorldOK
  <2>2. CASE h = g /\ Releasable(g) /\ Grown("budget_release", g)
    <3>1. Has("budget_mint", g)' /\ Closed(g)' /\ effects'[g] = 0
      BY <2>2 DEF Releasable, Grown, Has, Closed, Unclaimed, Terminated, stateDb
    <3>2. QED
      BY <2>2, <3>1 DEF Booked
  <2>3. QED
    BY <1>1, <2>1, <2>2
<1>4. QED
  BY <1>2, <1>3 DEF Ledger, Holding, Reserving, Unclaimable, Claimed, Uninvoked

(* Every step keeps the ledger. *)
LEMMA LedgerStep ==
    ASSUME ~ClockMayStepBack, TypeOK, Rows, Facts, Thread, Passes, Ledger, [Next]_vars
    PROVE  Ledger'
<1> USE DEF TypeOK, stateDb, locals, Idle
<1>1. cur \in Grants \/ Idle
  BY CurType DEF Idle
<1>2. UNCHANGED <<stateDb, log, effects>> /\ now' \in Nat /\ now <= now' =>
        OneMintIn(log') /\ \A g \in Grants : Booked(g)'
  <2>1. SUFFICES ASSUME UNCHANGED <<stateDb, log, effects>>, now' \in Nat, now <= now'
                 PROVE  OneMintIn(log') /\ \A g \in Grants : Booked(g)'
    OBVIOUS
  <2>2. OneMintIn(log')
    BY <2>1 DEF Ledger
  <2>3. \A g \in Grants : Standing(g)
    BY <2>1 DEF Standing, Has, Terminated
  <2>4. QED
    BY <2>1, <2>2, <2>3, BookedKept DEF Ledger, WorldOK
<1>3. ASSUME NEW g \in Grants, RequestBegin(g) PROVE Ledger'
  <2>1. UNCHANGED <<stateDb, log, effects, now>> /\ pc' = "m_gate"
    BY <1>3 DEF RequestBegin, Enter, world
  <2>2. QED
    BY <1>2, <2>1 DEF Ledger, WorldOK, Holding, Reserving, Unclaimable, Claimed, Uninvoked
<1>4. ASSUME NEW g \in Grants, ExecuteBegin(g) PROVE Ledger'
  <2>1. UNCHANGED <<stateDb, log, effects, now>>
    BY <1>4 DEF ExecuteBegin, world
  <2>2. CASE Enter(g, "e_flip")
    BY <1>2, <2>1, <2>2 DEF Enter, Ledger, Holding, Reserving, Unclaimable, Claimed,
       Uninvoked, WorldOK
  <2>3. CASE now <= expiry[g] /\ g \notin Legacy /\ Enter(g, "x_authority")
    <3>1. ~Has("budget_release", g)
      BY <1>4, <2>3, NotReleased DEF ExecuteBegin
    <3>2. ~Has("budget_release", cur)'
      BY <2>1, <2>3, <3>1 DEF Enter, Has
    <3>3. QED
      BY <1>2, <2>1, <3>2 DEF Ledger, WorldOK
  <2>4. QED
    BY <1>4, <2>2, <2>3 DEF ExecuteBegin
<1>5. CASE BudgetGate
  <2>1. UNCHANGED <<stateDb, log, effects, now>>
    BY <1>5 DEF BudgetGate, world
  <2>2. cur \in Grants /\ ~Has("budget_mint", cur)
    BY <1>5, <1>1 DEF BudgetGate, Thread, Opening
  <2>3. ~Has("budget_release", cur)
    BY <2>2 DEF Ledger, Booked
  <2>4. pc' = "idle" \/ ~Has("budget_release", cur)'
    BY <1>5, <2>1, <2>3 DEF BudgetGate, Goto, Return, Has
  <2>5. QED
    BY <1>2, <2>1, <2>4 DEF Ledger, WorldOK, Holding, Reserving, Unclaimable, Claimed,
       Uninvoked
<1>6. CASE RecordBudgetMint
  <2>1. cur \in Grants /\ ~Has("budget_mint", cur)
    BY <1>6, <1>1 DEF RecordBudgetMint, Thread, Opening
  <2>2. Grown("budget_mint", cur)
    BY <1>6, <2>1, MintGrows DEF RecordBudgetMint, StoresOK, ThreadOK
  <2>3. OneMintIn(log')
    BY <2>1, <2>2 DEF Ledger, Grown, Has
  <2>4. UNCHANGED <<stateDb, effects, now, cur>>
    BY <1>6 DEF RecordBudgetMint, Goto, world
  <2>5. \A g \in Grants : Standing(g)
    BY <2>2, <2>4, StandingGrown
  <2>6. ~Has("budget_release", cur)'
    BY <2>1, <2>2, <2>4 DEF Ledger, Booked, Grown, Has
  <2>7. QED
    BY <2>3, <2>4, <2>5, <2>6, BookedKept DEF Ledger, WorldOK
<1>7. CASE EvidenceRecheck
  BY <1>7, <1>2 DEF EvidenceRecheck, Goto, Return, world, WorldOK, Ledger, Has,
     Holding, Opening, Reserving, Unclaimable, Claimed, Uninvoked
<1>8. CASE VoidMint
  <2>1. cur \in Grants /\ status[cur] = "absent" /\ effects[cur] = 0
    BY <1>8, <1>1 DEF VoidMint, Thread, Reserving, Rows, Row, Untouched
  <2>2. QED
    BY <1>8, <2>1, LedgerRelease DEF VoidMint, Return, Closed, world
<1>9. CASE InsertGrant
  <2>1. cur \in Grants /\ UNCHANGED <<log, effects, now>>
    BY <1>9, <1>1 DEF InsertGrant, world
  <2>2. ~Has("budget_release", cur) /\ (Debit[cur] > 0 => Has("budget_mint", cur))
    BY <1>9 DEF InsertGrant, Thread, Ledger, Holding, Reserving
  <2>3. ASSUME NEW g \in Grants PROVE Booked(g)'
    <3>1. CASE g # cur
      <4>1. Standing(g)
        BY <1>9, <2>1, <3>1 DEF InsertGrant, Set, StoresOK, Standing, Has, Terminated
      <4>2. QED
        BY <2>1, <4>1, BookedKept DEF Ledger, WorldOK
    <3>2. CASE g = cur
      BY <2>1, <2>2, <3>2 DEF Booked, Has
    <3>3. QED
      BY <3>1, <3>2
  <2>4. QED
    BY <1>9, <2>1, <2>3 DEF InsertGrant, Return, Ledger, Has, Holding, Reserving,
       Unclaimable, Claimed, Uninvoked
<1>10. CASE CheckAuthority
  BY <1>10, <1>2 DEF CheckAuthority, Goto, Return, world, WorldOK, Ledger, Has,
     Holding, Opening, Reserving, Unclaimable, Claimed, Uninvoked
<1>11. CASE Claim
  <2>1. cur \in Grants /\ UNCHANGED <<log, effects, now>>
    BY <1>11, <1>1 DEF Claim, world
  <2>2. /\ ~Has("budget_release", cur) /\ status[cur] = "approved"
        /\ Debit[cur] > 0 /\ cur \notin Legacy => Has("budget_mint", cur)
    BY <1>11, <2>1 DEF Claim, Thread, Ledger, Booked, Holding, Unclaimable
  <2>3. ASSUME NEW g \in Grants PROVE Booked(g)'
    <3>1. CASE g # cur
      <4>1. Standing(g)
        BY <1>11, <2>1, <3>1 DEF Claim, Set, StoresOK, Standing, Has, Terminated
      <4>2. QED
        BY <2>1, <4>1, BookedKept DEF Ledger, WorldOK
    <3>2. CASE g = cur
      BY <2>1, <2>2, <3>2 DEF Booked, Has
    <3>3. QED
      BY <3>1, <3>2
  <2>4. QED
    BY <1>11, <2>1, <2>3 DEF Claim, Goto, Return, Ledger, Has, Holding, Reserving,
       Unclaimable, Claimed, Uninvoked
<1>12. CASE PostClaimLockdown
  BY <1>12, <1>2 DEF PostClaimLockdown, Goto, Return, world, WorldOK, Ledger, Has,
     Holding, Opening, Reserving, Unclaimable, Claimed, Uninvoked
<1>13. CASE PostClaimAuthority
  BY <1>13, <1>2 DEF PostClaimAuthority, Goto, Return, world, WorldOK, Ledger, Has,
     Holding, Opening, Reserving, Unclaimable, Claimed, Uninvoked
<1>14. CASE Preconditions
  BY <1>14, <1>2 DEF Preconditions, Goto, Return, world, WorldOK, Ledger, Has,
     Holding, Opening, Reserving, Unclaimable, Claimed, Uninvoked
<1>15. CASE EffectStarting
  <2>1. /\ UNCHANGED <<stateDb, effects, now>> /\ cur \in Grants
        /\ log' = log \/ Grown("capability_effect_starting", cur)
    BY <1>15, <1>1, ExecutionRecords DEF EffectStarting, world, StoresOK, Kinds
  <2>2. OneMintIn(log') /\ \A g \in Grants : Standing(g)
    BY <2>1, StandingGrown, StandingStill DEF Ledger, Grown
  <2>3. pc' \in Holding => ~Has("budget_release", cur)'
    BY <1>15, <2>1 DEF EffectStarting, Goto, Return, Ledger, Grown, Has, Holding,
       Reserving, Unclaimable,
       Claimed, Uninvoked
  <2>4. QED
    BY <2>1, <2>2, <2>3, BookedKept DEF Ledger, WorldOK
<1>16. CASE Egress
  BY <1>16, <1>2 DEF Egress, Goto, Return, world, WorldOK, Ledger, Has, Holding,
     Opening, Reserving, Unclaimable, Claimed, Uninvoked
<1>17. CASE ProviderCall
  <2>1. /\ cur \in Grants /\ ~Has("budget_release", cur) /\ cur' = cur
        /\ UNCHANGED <<stateDb, log, now>>
    BY <1>17, <1>1 DEF ProviderCall, Goto, Ledger, Holding, Claimed, world
  <2>2. ASSUME NEW g \in Grants PROVE Booked(g)'
    <3>1. CASE g # cur
      <4>1. Standing(g)
        BY <1>17, <2>1, <3>1 DEF ProviderCall, Set, StoresOK, Standing, Has, Terminated
      <4>2. QED
        BY <2>1, <4>1, BookedKept DEF Ledger, WorldOK
    <3>2. CASE g = cur
      BY <2>1, <3>2 DEF Ledger, Booked, Has
    <3>3. QED
      BY <3>1, <3>2
  <2>3. QED
    BY <2>1, <2>2 DEF Ledger, Has
<1>18. CASE RecordTerminal
  <2>1. /\ UNCHANGED <<stateDb, effects, now, cur>> /\ cur \in Grants /\ pc' = "x_flip"
        /\ OneMintIn(log')
    BY <1>18, <1>1, TerminalGrows DEF RecordTerminal, Goto, world, Ledger, StoresOK,
       ThreadOK
  <2>2. ASSUME NEW g \in Grants PROVE Standing(g)
    <3>1. /\ status'[g] = status[g] /\ expiry'[g] = expiry[g] /\ lease'[g] = lease[g]
          /\ effects'[g] = effects[g]
      BY <2>1
    <3>2. /\ Has("budget_release", g)' => Has("budget_release", g)
          /\ Has("budget_mint", g) => Has("budget_mint", g)'
      BY <1>18, ExecutionRecords DEF Has
    <3>3. Terminated(g, FALSE) => Terminated(g, FALSE)'
      BY <1>18, ExecutionRecords DEF Terminated
    <3>4. QED
      BY <3>1, <3>2, <3>3 DEF Standing
  <2>3. QED
    BY <2>1, <2>2, BookedKept DEF Ledger, WorldOK, Holding, Reserving, Unclaimable,
       Claimed, Uninvoked
<1>19. CASE FlipExecuted
  <2>1. cur \in Grants /\ UNCHANGED <<log, effects, now>>
    BY <1>19, <1>1 DEF FlipExecuted, world
  <2>2. /\ Has("budget_release", cur) => Terminated(cur, FALSE)
        /\ status[cur] = "executing" /\ Booked(cur)
    BY <1>19, <2>1 DEF FlipExecuted, Thread, Ledger, Booked, Closed, Unclaimed
  <2>3. ASSUME NEW g \in Grants PROVE Booked(g)'
    <3>1. CASE g # cur
      <4>1. Standing(g)
        BY <1>19, <2>1, <3>1 DEF FlipExecuted, Set, StoresOK, Standing, Has, Terminated
      <4>2. QED
        BY <2>1, <4>1, BookedKept DEF Ledger, WorldOK
    <3>2. CASE g = cur
      BY <2>1, <2>2, <3>2 DEF Booked, Closed, Has, Terminated
    <3>3. QED
      BY <3>1, <3>2
  <2>4. QED
    BY <1>19, <2>1, <2>3 DEF FlipExecuted, Goto, Return, Ledger, Has, Holding, Reserving,
       Unclaimable, Claimed, Uninvoked
<1>20. CASE ReleaseUninvoked
  <2>1. cur \in Grants /\ Terminated(cur, FALSE) /\ effects[cur] = 0
    BY <1>20, <1>1 DEF ReleaseUninvoked, Thread, Facts, Fact
  <2>2. QED
    BY <1>20, <2>1, LedgerRelease DEF ReleaseUninvoked, Return, Closed, world
<1>21. CASE ExpireFlip
  <2>1. cur \in Grants /\ UNCHANGED <<log, effects, now>>
    BY <1>21, <1>1 DEF ExpireFlip, world
  <2>2. /\ Has("budget_release", cur) => Terminated(cur, FALSE) \/ lease[cur] = 0
        /\ status[cur] # "absent" /\ Booked(cur) /\ UNCHANGED lease
    BY <1>21, <2>1 DEF ExpireFlip, Thread, Ledger, Booked, Closed, Unclaimed, Rows, Row,
       Untouched
  <2>3. ASSUME NEW g \in Grants PROVE Booked(g)'
    <3>1. CASE g # cur
      <4>1. Standing(g)
        BY <1>21, <2>1, <3>1 DEF ExpireFlip, Set, StoresOK, Standing, Has, Terminated
      <4>2. QED
        BY <2>1, <4>1, BookedKept DEF Ledger, WorldOK
    <3>2. CASE g = cur
      <4>1. status'[g] = "expired"
        BY <1>21, <2>1, <3>2 DEF ExpireFlip, Set, StoresOK
      <4>2. QED
        BY <2>1, <2>2, <3>2, <4>1 DEF Booked, Closed, Has, Terminated
    <3>3. QED
      BY <3>1, <3>2
  <2>4. QED
    BY <1>21, <2>1, <2>3 DEF ExpireFlip, Goto, Ledger, Has, Holding, Reserving,
       Unclaimable, Claimed, Uninvoked
<1>22. CASE ExpireLog
  <2>1. /\ UNCHANGED <<stateDb, effects, now>> /\ cur \in Grants
        /\ log' = log \/ Grown("grant_expired", cur)
    BY <1>22, <1>1, PlainEventGrows DEF ExpireLog, world, StoresOK, Kinds
  <2>2. OneMintIn(log') /\ \A g \in Grants : Standing(g)
    BY <2>1, StandingGrown, StandingStill DEF Ledger, Grown
  <2>3. pc' \in Holding => ~Has("budget_release", cur)'
    BY <1>22, <2>1 DEF ExpireLog, Goto, Return, Ledger, Grown, Has, Holding, Reserving,
       Unclaimable,
       Claimed, Uninvoked
  <2>4. QED
    BY <2>1, <2>2, <2>3, BookedKept DEF Ledger, WorldOK
<1>23. CASE ExpireRelease
  <2>1. cur \in Grants /\ status[cur] = "expired" /\ lease[cur] = 0 /\ effects[cur] = 0
    BY <1>23, <1>1 DEF ExpireRelease, Thread, Rows, Row, Untouched
  <2>2. QED
    BY <1>23, <2>1, LedgerRelease DEF ExpireRelease, Return, Closed, world
<1>24. ASSUME NEW g \in Grants, CutoverTake(g) PROVE Ledger'
  <2>1. /\ UNCHANGED <<stateDb, log, effects, now>>
        /\ pc' \in {"idle", "c_log", "x_flip", "a_log"}
    BY <1>24 DEF CutoverTake, Take, Enter, world
  <2>2. QED
    BY <1>2, <2>1 DEF Ledger, WorldOK, Holding, Reserving, Unclaimable, Claimed, Uninvoked
<1>25. ASSUME NEW g \in Grants, ReconcileTake(g) PROVE Ledger'
  <2>1. /\ UNCHANGED <<stateDb, log, effects, now>>
        /\ pc' \in {"idle", "c_log", "x_flip", "a_log"}
    BY <1>25 DEF ReconcileTake, Take, Reconcile, Enter, world
  <2>2. QED
    BY <1>2, <2>1 DEF Ledger, WorldOK, Holding, Reserving, Unclaimable, Claimed, Uninvoked
<1>26. ASSUME NEW g \in Grants, OverdueTake(g) PROVE Ledger'
  <2>1. /\ UNCHANGED <<stateDb, log, effects, now>>
        /\ pc' \in {"idle", "c_log", "x_flip", "a_log"}
    BY <1>26 DEF OverdueTake, Take, Reconcile, Enter, world
  <2>2. QED
    BY <1>2, <2>1 DEF Ledger, WorldOK, Holding, Reserving, Unclaimable, Claimed, Uninvoked
<1>27. ASSUME NEW g \in Grants, BudgetTake(g) PROVE Ledger'
  <2>1. Idle /\ LapsedIn(log, g, now) /\ pc' = "idle" /\ UNCHANGED <<stateDb, effects, now>>
    BY <1>27 DEF BudgetTake, Take, Passes, world
  <2>2. CASE BudgetGrantReleasable(g)
    BY <1>27, <2>1, <2>2, SweptIsClosed, LedgerRelease DEF BudgetTake
  <2>3. CASE log' = log
    BY <1>2, <2>1, <2>3 DEF Ledger, WorldOK, Holding, Reserving, Unclaimable, Claimed,
       Uninvoked
  <2>4. QED
    BY <1>27, <2>2, <2>3 DEF BudgetTake
<1>28. CASE CutoverLog
  <2>1. /\ UNCHANGED <<stateDb, effects, now>> /\ cur \in Grants
        /\ log' = log \/ Grown("authority_cutover_terminalized", cur)
    BY <1>28, <1>1, PlainEventGrows DEF CutoverLog, world, StoresOK, Kinds
  <2>2. OneMintIn(log') /\ \A g \in Grants : Standing(g)
    BY <2>1, StandingGrown, StandingStill DEF Ledger, Grown
  <2>3. pc' \in Holding => ~Has("budget_release", cur)'
    BY <1>28, <2>1 DEF CutoverLog, Goto, Return, Ledger, Grown, Has, Holding, Reserving,
       Unclaimable,
       Claimed, Uninvoked
  <2>4. QED
    BY <2>1, <2>2, <2>3, BookedKept DEF Ledger, WorldOK
<1>29. CASE CutoverFlip
  <2>1. cur \in Grants /\ UNCHANGED <<log, effects, now>>
    BY <1>29, <1>1 DEF CutoverFlip, world
  <2>2. Unclaimed(cur) /\ lease[cur] = 0 /\ Booked(cur) /\ UNCHANGED lease
    BY <1>29, <2>1 DEF CutoverFlip, Thread, Ledger, Unclaimed, Rows, Row, Untouched
  <2>3. ASSUME NEW g \in Grants PROVE Booked(g)'
    <3>1. CASE g # cur
      <4>1. Standing(g)
        BY <1>29, <2>1, <3>1 DEF CutoverFlip, Set, StoresOK, Standing, Has, Terminated
      <4>2. QED
        BY <2>1, <4>1, BookedKept DEF Ledger, WorldOK
    <3>2. CASE g = cur
      <4>1. status'[g] = "expired" /\ lease'[g] = 0 /\ status[g] # "absent"
        BY <1>29, <2>1, <2>2, <3>2 DEF CutoverFlip, Set, StoresOK, Unclaimed
      <4>2. QED
        BY <2>1, <2>2, <3>2, <4>1 DEF Booked, Closed, Has
    <3>3. QED
      BY <3>1, <3>2
  <2>4. QED
    BY <1>29, <2>1, <2>3 DEF CutoverFlip, Goto, Return, Ledger, Has, Holding, Reserving,
       Unclaimable, Claimed, Uninvoked
<1>30. CASE CutoverRelease
  <2>1. cur \in Grants /\ status[cur] = "expired" /\ lease[cur] = 0 /\ effects[cur] = 0
    BY <1>30, <1>1 DEF CutoverRelease, Thread, Rows, Row, Untouched
  <2>2. QED
    BY <1>30, <2>1, LedgerRelease DEF CutoverRelease, Return, Closed, world
<1>31. CASE AbandonLog
  <2>1. /\ UNCHANGED <<stateDb, effects, now>> /\ cur \in Grants
        /\ log' = log \/ Grown("lease_abandoned", cur)
    BY <1>31, <1>1, ExecutionRecords DEF AbandonLog, world, StoresOK, Kinds
  <2>2. OneMintIn(log') /\ \A g \in Grants : Standing(g)
    BY <2>1, StandingGrown, StandingStill DEF Ledger, Grown
  <2>3. pc' \in Holding => ~Has("budget_release", cur)'
    BY <1>31, <2>1 DEF AbandonLog, Goto, Return, Ledger, Grown, Has, Holding, Reserving,
       Unclaimable,
       Claimed, Uninvoked
  <2>4. QED
    BY <2>1, <2>2, <2>3, BookedKept DEF Ledger, WorldOK
<1>32. CASE Fault
  BY <1>32, <1>2 DEF Fault, Return, world, WorldOK, Ledger, Holding, Opening,
     Reserving, Unclaimable, Claimed, Uninvoked
<1>33. CASE Crash
  BY <1>33, <1>2 DEF Crash, Return, world, WorldOK, Ledger, Holding, Opening,
     Reserving, Unclaimable, Claimed, Uninvoked
<1>34. CASE Tick
  BY <1>34, <1>2 DEF Tick, WorldOK, Ledger, Has
<1>35. CASE ClockBack
  BY <1>35 DEF ClockBack
<1>36. CASE UNCHANGED <<stateDb, log, effects, now, pc, cur>>
  BY <1>36, <1>2 DEF Ledger, Has, WorldOK
<1>37. QED
  BY <1>3, <1>4, <1>5, <1>6, <1>7, <1>8, <1>9, <1>10, <1>11, <1>12, <1>13, <1>14,
     <1>15, <1>16, <1>17, <1>18, <1>19, <1>20, <1>21, <1>22, <1>23, <1>24, <1>25,
     <1>26, <1>27, <1>28, <1>29, <1>30, <1>31, <1>32, <1>33, <1>34, <1>35, <1>36
  DEF Next, SteadyNext, Begin, Work, MintStep, ExecuteStep, SettleStep, SweepStep, Environment,
      vars, Boot, PassDone, Housekeeping, CommitAuthority, AuthorityReadable, Engage,
      Unlock, world, sweep

-----------------------------------------------------------------------------
(* The cutover, the revocation and the latch. *)

(* A step inside a call that is not the cutover's own. *)
LEMMA CutoverKept ==
    ASSUME Passes, Cutover, ~Idle, pc \notin {"c_log", "c_flip", "c_release"}, UNCHANGED
    sweep,
           \A g \in Legacy : Unclaimed(g)' => Unclaimed(g)
    PROVE  Cutover'
  BY DEF Passes, Cutover, Idle, sweep

(* Every step keeps the cutover complete, or pending in its pass. *)
LEMMA CutoverStep == ASSUME TypeOK, Rows, Thread, Passes, Cutover, [Next]_vars PROVE Cutover'
<1> USE DEF TypeOK, stateDb, sweep, locals, Idle
<1>1. cur \in Grants \/ Idle
  BY CurType DEF Idle
<1>2. ASSUME NEW g \in Grants, RequestBegin(g) PROVE Cutover'
  BY <1>2 DEF RequestBegin, Ready, Cutover, Unclaimed
<1>3. ASSUME NEW g \in Grants, ExecuteBegin(g) PROVE Cutover'
  BY <1>3 DEF ExecuteBegin, Ready, Cutover, Unclaimed
<1>4. CASE BudgetGate
  BY <1>4, CutoverKept DEF BudgetGate, Unclaimed
<1>5. CASE RecordBudgetMint
  BY <1>5, CutoverKept DEF RecordBudgetMint, Unclaimed
<1>6. CASE EvidenceRecheck
  BY <1>6, CutoverKept DEF EvidenceRecheck, Unclaimed
<1>7. CASE VoidMint
  BY <1>7, CutoverKept DEF VoidMint, Unclaimed
<1>8. CASE InsertGrant
  BY <1>8, <1>1, CutoverKept, GrantsAssumption DEF InsertGrant, Set, StoresOK,
     Unclaimed, Thread, Reserving
<1>9. CASE CheckAuthority
  BY <1>9, CutoverKept DEF CheckAuthority, Unclaimed
<1>10. CASE Claim
  BY <1>10, <1>1, CutoverKept, GrantsAssumption DEF Claim, Set, StoresOK, Unclaimed,
     Thread, Reserving
<1>11. CASE PostClaimLockdown
  BY <1>11, CutoverKept DEF PostClaimLockdown, Unclaimed
<1>12. CASE PostClaimAuthority
  BY <1>12, CutoverKept DEF PostClaimAuthority, Unclaimed
<1>13. CASE Preconditions
  BY <1>13, CutoverKept DEF Preconditions, Unclaimed
<1>14. CASE EffectStarting
  BY <1>14, CutoverKept DEF EffectStarting, Unclaimed
<1>15. CASE Egress
  BY <1>15, CutoverKept DEF Egress, Unclaimed
<1>16. CASE ProviderCall
  BY <1>16, CutoverKept DEF ProviderCall, Unclaimed
<1>17. CASE RecordTerminal
  BY <1>17, CutoverKept DEF RecordTerminal, Unclaimed
<1>18. CASE FlipExecuted
  BY <1>18, <1>1, CutoverKept, GrantsAssumption DEF FlipExecuted, Set, StoresOK,
     Unclaimed, Thread, Reserving
<1>19. CASE ReleaseUninvoked
  BY <1>19, CutoverKept DEF ReleaseUninvoked, Unclaimed
<1>20. CASE ExpireFlip
  BY <1>20, <1>1, CutoverKept, GrantsAssumption DEF ExpireFlip, Set, StoresOK,
     Unclaimed, Thread, Reserving
<1>21. CASE ExpireLog
  BY <1>21, CutoverKept DEF ExpireLog, Unclaimed
<1>22. CASE ExpireRelease
  BY <1>22, CutoverKept DEF ExpireRelease, Unclaimed
<1>23. CASE Boot
  BY <1>23 DEF Boot, Start, Selection, Cutover, Unclaimed
<1>24. CASE PassDone
  BY <1>24 DEF PassDone, Start, NextPass, SweepOK, Cutover, Unclaimed
<1>25. ASSUME NEW g \in Grants, CutoverTake(g) PROVE Cutover'
  BY <1>25 DEF CutoverTake, Take, Enter, Cutover, Unclaimed
<1>26. ASSUME NEW g \in Grants, ReconcileTake(g) PROVE Cutover'
  BY <1>26 DEF ReconcileTake, Take, Cutover, Unclaimed
<1>27. ASSUME NEW g \in Grants, OverdueTake(g) PROVE Cutover'
  BY <1>27 DEF OverdueTake, Take, Cutover, Unclaimed
<1>28. ASSUME NEW g \in Grants, BudgetTake(g) PROVE Cutover'
  BY <1>28 DEF BudgetTake, Take, Cutover, Unclaimed
<1>29. CASE CutoverLog
  BY <1>29 DEF CutoverLog, Goto, Cutover, Unclaimed
<1>30. CASE CutoverFlip
  BY <1>30, <1>1, GrantsAssumption DEF CutoverFlip, Goto, Return, Set, StoresOK,
     Cutover, Unclaimed
<1>31. CASE CutoverRelease
  BY <1>31 DEF CutoverRelease, Return, Cutover, Unclaimed
<1>32. CASE AbandonLog
  BY <1>32, CutoverKept DEF AbandonLog, Unclaimed
<1>33. ASSUME NEW p \in {"overdue", "budget"}, Housekeeping(p) PROVE Cutover'
  BY <1>33 DEF Housekeeping, Ready, Start, Cutover, Unclaimed
<1>34. CASE Fault
  BY <1>34 DEF Fault, Stop, Passes, Cutover, Unclaimed
<1>35. CASE Crash
  BY <1>35 DEF Crash, Stop, Cutover, Unclaimed
<1>36. CASE UNCHANGED <<stateDb, sweep, pc, cur>>
  BY <1>36 DEF Cutover, Unclaimed
<1>37. QED
  BY <1>2, <1>3, <1>4, <1>5, <1>6, <1>7, <1>8, <1>9, <1>10, <1>11, <1>12, <1>13,
     <1>14, <1>15, <1>16, <1>17, <1>18, <1>19, <1>20, <1>21, <1>22, <1>23, <1>24,
     <1>25, <1>26, <1>27, <1>28, <1>29, <1>30, <1>31, <1>32, <1>33, <1>34, <1>35,
     <1>36
  DEF Next, SteadyNext, Begin, Work, MintStep, ExecuteStep, SettleStep, SweepStep, Environment,
      vars, Tick, ClockBack, CommitAuthority, AuthorityReadable, Engage, Unlock, world

(* Every step keeps the authority bracketed. *)
LEMMA RevocationStep == ASSUME TypeOK, Rows, Thread, Revocation, [Next]_vars PROVE Revocation'
<1> USE DEF TypeOK, stateDb, world, history, locals, Idle
<1>1. cur \in Grants \/ Idle
  BY CurType DEF Idle
<1>2. snap \in Nat /\ version \in Nat
  BY DEF ThreadOK, WorldOK
<1>3. ASSUME NEW g \in Grants, RequestBegin(g) PROVE Revocation'
  BY <1>3 DEF RequestBegin, Enter, Revocation, Bracketed, WorldOK, world
<1>4. ASSUME NEW g \in Grants, ExecuteBegin(g) PROVE Revocation'
  BY <1>4, <1>2 DEF ExecuteBegin, Enter, Revocation, Bracketed
<1>5. CASE BudgetGate
  BY <1>5, <1>2 DEF BudgetGate, Goto, Return, Revocation, Bracketed
<1>6. CASE RecordBudgetMint
  BY <1>6, <1>2 DEF RecordBudgetMint, Goto, Return, Revocation, Bracketed
<1>7. CASE EvidenceRecheck
  BY <1>7, <1>2 DEF EvidenceRecheck, Goto, Return, Revocation, Bracketed
<1>8. CASE VoidMint
  BY <1>8, <1>2 DEF VoidMint, Goto, Return, Revocation, Bracketed
<1>9. CASE InsertGrant
  <2>1. cur \in Grants /\ effects[cur] = 0 /\ pc' = "idle" /\ snap' = 0
        /\ UNCHANGED <<effects, version, claimedUnder>>
    BY <1>9, <1>1 DEF InsertGrant, Return, Thread, Reserving, Rows, Row, Untouched, world,
       history
  <2>2. \A g \in Grants : frozen'[g] = frozen[g] \/ (g = cur /\ frozen'[g] = snap)
    BY <1>9, <2>1 DEF InsertGrant, Set, StoresOK
  <2>3. \A g \in Grants : frozen'[g] <= version' /\ claimedUnder'[g] <= version'
    BY <2>1, <2>2 DEF Revocation
  <2>4. \A g \in Grants : effects'[g] > 0 => claimedUnder'[g] = frozen'[g] /\ g \notin Legacy
    <3>1. \A g \in Grants : g = cur => ~(effects'[g] > 0)
      BY <2>1
    <3>2. QED
      BY <2>1, <2>2, <3>1 DEF Revocation
  <2>5. QED
    BY <1>2, <2>1, <2>3, <2>4 DEF Revocation, Bracketed
<1>10. CASE CheckAuthority
  BY <1>10, <1>2 DEF CheckAuthority, Goto, Return, Revocation, Bracketed
<1>11. CASE Claim
  <2>1. cur \in Grants /\ effects[cur] = 0 /\ UNCHANGED <<effects, version, frozen>>
    BY <1>11, <1>1 DEF Claim, Thread, Unclaimable, Rows, Row, Untouched, world
  <2>2. CASE Return /\ UNCHANGED claimedUnder
    BY <2>1, <2>2 DEF Return, Revocation, Bracketed, WorldOK
  <2>3. CASE /\ claimedUnder' = [claimedUnder EXCEPT ![cur] = version]
             /\ Goto("x_lock") /\ UNCHANGED locals
    <3>1. \A g \in Grants : claimedUnder'[g] = IF g = cur THEN version ELSE claimedUnder[g]
      BY <2>1, <2>3 DEF HistoryOK
    <3>2. QED
      BY <2>1, <2>3, <3>1 DEF Goto, Revocation, Bracketed, WorldOK, StoresOK
  <2>4. QED
    BY <1>11, <2>2, <2>3 DEF Claim, Set
<1>12. CASE PostClaimLockdown
  BY <1>12, <1>2 DEF PostClaimLockdown, Goto, Return, Revocation, Bracketed
<1>13. CASE PostClaimAuthority
  BY <1>13, <1>1, <1>2 DEF PostClaimAuthority, Goto, Return, Revocation, Bracketed,
     AuthorityInForce, WorldOK, StoresOK, HistoryOK
<1>14. CASE Preconditions
  BY <1>14, <1>2 DEF Preconditions, Goto, Return, Revocation, Bracketed
<1>15. CASE EffectStarting
  BY <1>15, <1>2 DEF EffectStarting, Goto, Return, Revocation, Bracketed
<1>16. CASE Egress
  BY <1>16, <1>2 DEF Egress, Goto, Return, Revocation, Bracketed
<1>17. CASE ProviderCall
  <2>1. /\ cur \in Grants /\ cur \notin Legacy /\ claimedUnder[cur] = frozen[cur]
        /\ UNCHANGED <<version, frozen, claimedUnder, snap>> /\ pc' = "x_terminal"
    BY <1>17, <1>1 DEF ProviderCall, Goto, Thread, Claimed, Revocation, Bracketed, world
  <2>2. \A g \in Grants : effects'[g] = effects[g] \/ g = cur
    BY <1>17, <2>1 DEF ProviderCall, Set, StoresOK
  <2>3. QED
    BY <2>1, <2>2 DEF Revocation, Bracketed
<1>18. CASE RecordTerminal
  BY <1>18, <1>2 DEF RecordTerminal, Goto, Return, Revocation, Bracketed
<1>19. CASE FlipExecuted
  BY <1>19, <1>2 DEF FlipExecuted, Goto, Return, Revocation, Bracketed
<1>20. CASE ReleaseUninvoked
  BY <1>20, <1>2 DEF ReleaseUninvoked, Goto, Return, Revocation, Bracketed
<1>21. CASE ExpireFlip
  BY <1>21, <1>2 DEF ExpireFlip, Goto, Return, Revocation, Bracketed
<1>22. CASE ExpireLog
  BY <1>22, <1>2 DEF ExpireLog, Goto, Return, Revocation, Bracketed
<1>23. CASE ExpireRelease
  BY <1>23, <1>2 DEF ExpireRelease, Goto, Return, Revocation, Bracketed
<1>24. ASSUME NEW g \in Grants, CutoverTake(g) PROVE Revocation'
  BY <1>24, <1>2 DEF CutoverTake, Take, Enter, Revocation, Bracketed
<1>25. ASSUME NEW g \in Grants, ReconcileTake(g) PROVE Revocation'
  BY <1>25, <1>2 DEF ReconcileTake, Take, Enter, Reconcile, Revocation, Bracketed
<1>26. ASSUME NEW g \in Grants, OverdueTake(g) PROVE Revocation'
  BY <1>26, <1>2 DEF OverdueTake, Take, Enter, Reconcile, Revocation, Bracketed
<1>27. CASE CutoverLog
  BY <1>27, <1>2 DEF CutoverLog, Goto, Return, Revocation, Bracketed
<1>28. CASE CutoverFlip
  BY <1>28, <1>2 DEF CutoverFlip, Goto, Return, Revocation, Bracketed
<1>29. CASE CutoverRelease
  BY <1>29, <1>2 DEF CutoverRelease, Goto, Return, Revocation, Bracketed
<1>30. CASE AbandonLog
  BY <1>30, <1>2 DEF AbandonLog, Goto, Return, Revocation, Bracketed
<1>31. CASE Fault
  BY <1>31, <1>2 DEF Fault, Return, Revocation, Bracketed
<1>32. CASE Crash
  BY <1>32, <1>2 DEF Crash, Return, Revocation, Bracketed
<1>33. CASE CommitAuthority
  BY <1>33 DEF CommitAuthority, Revocation, Bracketed, WorldOK, StoresOK, HistoryOK,
     ThreadOK
<1>34. CASE UNCHANGED <<stateDb, effects, version, claimedUnder, snap, pc, cur>>
  BY <1>34 DEF Revocation, Bracketed
<1>35. QED
  BY <1>3, <1>4, <1>5, <1>6, <1>7, <1>8, <1>9, <1>10, <1>11, <1>12, <1>13, <1>14,
     <1>15, <1>16, <1>17, <1>18, <1>19, <1>20, <1>21, <1>22, <1>23, <1>24, <1>25,
     <1>26, <1>27, <1>28, <1>29, <1>30, <1>31, <1>32, <1>33, <1>34
  DEF Next, SteadyNext, Begin, Work, MintStep, ExecuteStep, SettleStep, SweepStep, Environment,
      vars, Boot, PassDone, BudgetTake, Housekeeping, Tick, ClockBack,
      AuthorityReadable, Engage, Unlock

(* Every step keeps the latch. *)
LEMMA LatchStep == ASSUME TypeOK, Latch, [Next]_vars PROVE Latch'
<1> USE DEF TypeOK, world, history, locals, Idle
<1>1. ASSUME NEW g \in Grants, RequestBegin(g) PROVE Latch'
  BY <1>1 DEF RequestBegin, Enter, Latch
<1>2. ASSUME NEW g \in Grants, ExecuteBegin(g) PROVE Latch'
  BY <1>2 DEF ExecuteBegin, Enter, Latch
<1>3. CASE BudgetGate
  BY <1>3 DEF BudgetGate, Goto, Return, Latch
<1>4. CASE RecordBudgetMint
  BY <1>4 DEF RecordBudgetMint, Goto, Return, Latch
<1>5. CASE EvidenceRecheck
  BY <1>5 DEF EvidenceRecheck, Goto, Return, Latch
<1>6. CASE VoidMint
  BY <1>6 DEF VoidMint, Goto, Return, Latch
<1>7. CASE InsertGrant
  BY <1>7 DEF InsertGrant, Goto, Return, Latch
<1>8. CASE CheckAuthority
  BY <1>8 DEF CheckAuthority, Goto, Return, Latch
<1>9. CASE Claim
  BY <1>9 DEF Claim, Goto, Return, Latch
<1>10. CASE PostClaimLockdown
  BY <1>10 DEF PostClaimLockdown, Goto, Return, Latch
<1>11. CASE PostClaimAuthority
  BY <1>11 DEF PostClaimAuthority, Goto, Return, Latch
<1>12. CASE Preconditions
  BY <1>12 DEF Preconditions, Goto, Return, Latch
<1>13. CASE EffectStarting
  BY <1>13 DEF EffectStarting, Goto, Return, Latch
<1>14. CASE Egress
  BY <1>14 DEF Egress, Goto, Latch
<1>15. CASE ProviderCall
  BY <1>15 DEF ProviderCall, Goto, Latch, HistoryOK
<1>16. CASE RecordTerminal
  BY <1>16 DEF RecordTerminal, Goto, Return, Latch
<1>17. CASE FlipExecuted
  BY <1>17 DEF FlipExecuted, Goto, Return, Latch
<1>18. CASE ReleaseUninvoked
  BY <1>18 DEF ReleaseUninvoked, Goto, Return, Latch
<1>19. CASE ExpireFlip
  BY <1>19 DEF ExpireFlip, Goto, Return, Latch
<1>20. CASE ExpireLog
  BY <1>20 DEF ExpireLog, Goto, Return, Latch
<1>21. CASE ExpireRelease
  BY <1>21 DEF ExpireRelease, Goto, Return, Latch
<1>22. ASSUME NEW g \in Grants, CutoverTake(g) PROVE Latch'
  BY <1>22 DEF CutoverTake, Take, Enter, Latch
<1>23. ASSUME NEW g \in Grants, ReconcileTake(g) PROVE Latch'
  BY <1>23 DEF ReconcileTake, Take, Enter, Reconcile, Latch
<1>24. ASSUME NEW g \in Grants, OverdueTake(g) PROVE Latch'
  BY <1>24 DEF OverdueTake, Take, Enter, Reconcile, Latch
<1>25. CASE CutoverLog
  BY <1>25 DEF CutoverLog, Goto, Return, Latch
<1>26. CASE CutoverFlip
  BY <1>26 DEF CutoverFlip, Goto, Return, Latch
<1>27. CASE CutoverRelease
  BY <1>27 DEF CutoverRelease, Goto, Return, Latch
<1>28. CASE AbandonLog
  BY <1>28 DEF AbandonLog, Goto, Return, Latch
<1>29. CASE Fault
  BY <1>29 DEF Fault, Goto, Return, Latch
<1>30. CASE Crash
  BY <1>30 DEF Crash, Goto, Return, Latch
<1>31. CASE Engage
  <2>1. lockEffects' = 0 /\ (inflight' <=> pc = "x_call") /\ pc' = pc
    BY <1>31, Zenon DEF Engage
  <2>2. QED
    BY <2>1 DEF Latch
<1>32. CASE Unlock
  BY <1>32 DEF Unlock, Latch
<1>33. CASE UNCHANGED <<locked, inflight, lockEffects, pc>>
  BY <1>33 DEF Latch
<1>34. QED
  BY <1>1, <1>2, <1>3, <1>4, <1>5, <1>6, <1>7, <1>8, <1>9, <1>10, <1>11, <1>12, <1>13,
     <1>14, <1>15, <1>16, <1>17, <1>18, <1>19, <1>20, <1>21, <1>22, <1>23, <1>24,
     <1>25, <1>26, <1>27, <1>28, <1>29, <1>30, <1>31, <1>32, <1>33
  DEF Next, SteadyNext, Begin, Work, MintStep, ExecuteStep, SettleStep, SweepStep, Environment,
      vars, Boot, PassDone, BudgetTake, Housekeeping, Tick, ClockBack,
      CommitAuthority, AuthorityReadable

-----------------------------------------------------------------------------
(* The invariant. *)

(* The initial states satisfy the invariant. *)
LEMMA InvInit == ASSUME Init PROVE Inv
<1> USE GrantsAssumption DEF Init
<1>1. TypeOK
  BY TypeInit
<1>2. \A k, g : k # "budget_mint" => ~HasIn(log, k, g)
  BY LegacyLogAssumption DEF HasIn
<1>3. \A g, b : ~TerminatedIn(log, g, b)
  BY LegacyLogAssumption DEF TerminatedIn
<1>4. Rows /\ Facts
  <2>1. ASSUME NEW g \in Grants PROVE Row(g) /\ Fact(g)
    <3>1. Untouched(g)
      BY <1>2, <1>3 DEF Untouched, Has, Terminated, Unreported
    <3>2. /\ status[g] \in {"absent", "requested", "approved"}
          /\ status[g] = "absent" <=> g \notin Legacy
      OBVIOUS
    <3>3. Row(g)
      BY <3>1, <3>2 DEF Row
    <3>4. Fact(g)
      <4>1. effects[g] = 0 /\ ~(effects[g] > 0) /\ effects[g] <= 1
        OBVIOUS
      <4>2. ~Terminated(g, FALSE) /\ Unreported(g)
        BY <3>1 DEF Untouched, Unreported
      <4>3. QED
        BY <4>1, <4>2 DEF Fact
    <3>5. QED
      BY <3>3, <3>4
  <2>2. QED
    BY <2>1 DEF Rows, Facts
<1>5. Thread
  BY DEF Thread, Opening, Reserving, Unclaimable, Uninvoked, Claimed
<1>6. Passes /\ Cutover
  BY DEF Passes, Cutover, Idle
<1>7. Revocation /\ Latch
  BY DEF Revocation, Bracketed, Latch
<1>8. Ledger
  <2>1. OneMintIn(log)
    BY LegacyLogAssumption DEF OneMintIn
  <2>2. \A g \in Grants : Booked(g)
    BY <1>2 DEF Booked, Has
  <2>3. QED
    BY <2>1, <2>2 DEF Ledger, Holding, Reserving, Unclaimable, Claimed, Uninvoked
<1>9. QED
  BY <1>1, <1>4, <1>5, <1>6, <1>7, <1>8 DEF Inv

(* Every step keeps the invariant. *)
LEMMA InvStep == ASSUME Inv, [Next]_vars PROVE Inv'
  BY TypeStep, RowsStep, FactsStep, ThreadStep, PassesStep, CutoverStep, RevocationStep,
     LatchStep,
     LedgerStep DEF Inv

(* The inductive invariant holds for every set of grants, every budget,    *)
(* lease and clock, and any number of crashes, faults and commits.         *)
THEOREM Invariance == Spec => []Inv
<1>1. Init => Inv
  BY InvInit
<1>2. Inv /\ [Next]_vars => Inv'
  BY InvStep
<1>3. QED
  BY <1>1, <1>2, PTL DEF Spec

-----------------------------------------------------------------------------
(* What follows from it. *)

(* A grant is single-use: claim_and_run and the sweeps never let the       *)
(* provider perform a second effect for it.                                *)
THEOREM SingleUse == Spec => []SingleEffect
<1>1. Inv => SingleEffect
  BY DEF Inv, Facts, Fact, SingleEffect
<1>2. QED
  BY <1>1, Invariance, PTL

(* An effect is announced before it happens, and a grant that left the     *)
(* executing state behind an effect says invoked or abandoned in the log.  *)
THEOREM EffectsRecorded == Spec => []NoDarkEffect
<1>1. ASSUME Inv, NEW g \in Grants, effects[g] > 0
      PROVE  /\ Has("capability_effect_starting", g)
             /\ status[g] = "executing" \/ Terminated(g, TRUE) \/ Has("lease_abandoned", g)
  <2>1. Row(g) /\ Fact(g) /\ status[g] \in Statuses
    BY <1>1 DEF Inv, Rows, Facts, TypeOK, StoresOK
  <2>2. effects[g] # 0
    BY <1>1
  <2>3. QED
    BY <1>1, <2>1, <2>2 DEF Row, Fact, Untouched, Unreported, Statuses
<1>2. Inv => NoDarkEffect
  BY <1>1 DEF NoDarkEffect
<1>3. QED
  BY <1>2, Invariance, PTL

(* The pre-invocation fact a release is earned with is true of the         *)
(* provider, under every interleaving of latch, authority and crash.       *)
THEOREM PreInvocationSound == Spec => []PreInvocationFactTrue
<1>1. Inv => PreInvocationFactTrue
  BY DEF Inv, Facts, Fact, PreInvocationFactTrue
<1>2. QED
  BY <1>1, Invariance, PTL

(* Settlement is audit-first: no row is executed, and no lease reclaimed,  *)
(* before the log says so.                                                 *)
THEOREM AuditFirst == Spec => []SettledBehindRecord
<1>1. Inv => SettledBehindRecord
  BY DEF Inv, Rows, Row, Unreported, SettledBehindRecord
<1>2. QED
  BY <1>1, Invariance, PTL

(* The two authority reads of claim_and_run suffice: an effect belongs to  *)
(* a claim made while the frozen authority was in force.                   *)
THEOREM RevocationSound == Spec => []ClaimedUnderFrozen
<1>1. Inv => ClaimedUnderFrozen
  BY DEF Inv, Revocation, ClaimedUnderFrozen
<1>2. QED
  BY <1>1, Invariance, PTL

(* The egress gate suffices: an engaged latch stops all but the one call   *)
(* it found past the gate.                                                 *)
THEOREM LatchSound == Spec => []LockdownStopsEgress
<1>1. Inv => LockdownStopsEgress
  BY DEF Inv, Latch, LockdownStopsEgress
<1>2. QED
  BY <1>1, Invariance, PTL

(* The boot pass is complete: a serving daemon holds no claimable          *)
(* pre-sentence grant and never executed one.                              *)
THEOREM CutoverSound == Spec => []CutoverComplete
<1>1. ASSUME Inv, NEW g \in Legacy PROVE effects[g] = 0
  <2>1. g \in Grants /\ effects[g] \in Nat /\ ~(effects[g] > 0)
    BY <1>1, GrantsAssumption DEF Inv, TypeOK, StoresOK, Revocation
  <2>2. QED
    BY <2>1
<1>2. Inv => CutoverComplete
  BY <1>1 DEF Inv, Cutover, CutoverComplete
<1>3. QED
  BY <1>2, Invariance, PTL

(* A row only moves along its life cycle: a settled one never moves.       *)
THEOREM RowsMonotone == Spec => StatusMonotone
<1>1. ASSUME Inv, [Next]_vars, NEW g \in Grants, status'[g] # status[g]
      PROVE  status'[g] \in StatusOrder[status[g]]
  <2> USE DEF Inv, TypeOK, stateDb
  <2>1. cur \in Grants \/ Idle
    BY <1>1, CurType DEF Idle
  <2>2. CASE InsertGrant
    BY <1>1, <2>1, <2>2 DEF InsertGrant, Set, StoresOK, Thread, Reserving, Idle, StatusOrder
  <2>3. CASE Claim
    BY <1>1, <2>1, <2>3 DEF Claim, Set, StoresOK, Idle, StatusOrder
  <2>4. CASE FlipExecuted
    BY <1>1, <2>1, <2>4 DEF FlipExecuted, Set, StoresOK, Idle, StatusOrder
  <2>5. CASE ExpireFlip
    BY <1>1, <2>1, <2>5 DEF ExpireFlip, Set, StoresOK, Thread, Idle, StatusOrder
  <2>6. CASE CutoverFlip
    BY <1>1, <2>1, <2>6 DEF CutoverFlip, Set, StoresOK, Unclaimed, Idle, StatusOrder
  <2>7. QED
    BY <1>1, <2>2, <2>3, <2>4, <2>5, <2>6
    DEF Next, SteadyNext, Begin, Work, MintStep, ExecuteStep, SettleStep, SweepStep, Environment,
        vars, RequestBegin, ExecuteBegin, BudgetGate, RecordBudgetMint,
        EvidenceRecheck, VoidMint, CheckAuthority, PostClaimLockdown,
        PostClaimAuthority, Preconditions, EffectStarting, Egress, ProviderCall,
        RecordTerminal, ReleaseUninvoked, ExpireLog, ExpireRelease, Boot, PassDone,
        CutoverTake, ReconcileTake, OverdueTake, BudgetTake, CutoverLog,
        CutoverRelease, AbandonLog, Housekeeping, Fault, Crash, Tick, ClockBack,
        CommitAuthority, AuthorityReadable, Engage, Unlock
<1>2. Inv /\ [Next]_vars =>
        [\A g \in Grants : status'[g] # status[g] => status'[g] \in StatusOrder[status[g]]]_vars
  BY <1>1
<1>3. QED
  BY <1>2, Invariance, PTL DEF Spec, StatusMonotone

(* While the clock does not go back, a grant that acted or may still act   *)
(* holds its debit: nothing releases a reservation that is, or could       *)
(* become, spent.                                                          *)
THEOREM DebitSound == ASSUME ~ClockMayStepBack PROVE Spec => []DebitCoversEffect
<1>1. ASSUME Inv, NEW g \in Grants, MayStillAct(g), Debit[g] > 0
      PROVE  Has("budget_mint", g) /\ ~Has("budget_release", g)
  <2> USE DEF Inv, TypeOK
  <2>1. CASE effects[g] > 0
    <3>1. effects[g] # 0 /\ g \notin Legacy
      BY <1>1, <2>1 DEF Revocation
    <3>2. status[g] # "absent"
      BY <1>1, <3>1 DEF Rows, Row, Untouched
    <3>3. QED
      BY <1>1, <3>1, <3>2 DEF Ledger, Booked
  <2>2. CASE status[g] = "approved" /\ g \notin Legacy /\ now <= expiry[g]
    BY <1>1, <2>2, NotReleased DEF Ledger, Booked
  <2>3. CASE cur = g /\ pc \in {"x_authority", "x_claim", "x_lock", "x_source", "x_pre",
                                "x_start", "x_egress", "x_call"}
    <3>1. status[g] \in {"approved", "executing"} /\ g \notin Legacy
      BY <1>1, <2>3 DEF Thread, Unclaimable, Claimed, Uninvoked
    <3>2. ~Has("budget_release", g)
      BY <1>1, <2>3 DEF Ledger, Holding, Unclaimable, Claimed, Uninvoked, Has
    <3>3. QED
      BY <1>1, <3>1, <3>2 DEF Ledger, Booked
  <2>4. QED
    BY <1>1, <2>1, <2>2, <2>3 DEF MayStillAct
<1>2. Inv => DebitCoversEffect
  BY <1>1 DEF DebitCoversEffect
<1>3. QED
  BY <1>2, Invariance, PTL

-----------------------------------------------------------------------------
(* The refinement. *)

(* What a step does to the reserved, released and spent grants. *)
LEMMA StutterMap ==
    ASSUME UNCHANGED <<log, effects>> PROVE UNCHANGED <<Reserved, Released, Spent>>
  BY DEF Reserved, Released, Spent, Has

(* A record of another kind than mint and release maps to a stutter. *)
LEMMA GrownMap ==
    ASSUME NEW K, NEW g \in Grants, Grown(K, g), UNCHANGED effects
    PROVE  /\ Reserved' = IF K = "budget_mint" THEN Reserved \cup {g} ELSE Reserved
           /\ Released' = IF K = "budget_release" THEN Released \cup {g} ELSE Released
           /\ Spent' = Spent
  BY DEF Grown, Reserved, Released, Spent, Has

(* A release of a closed grant is the promise's Release. *)
LEMMA ReleaseMap ==
    ASSUME TypeOK, NEW g \in Grants, ReleaseBudget(g), effects[g] = 0, UNCHANGED effects
    PROVE  Promise!Release(g) \/ UNCHANGED <<Reserved, Released, Spent>>
<1>1. CASE log' = log
  BY <1>1, StutterMap
<1>2. CASE Releasable(g) /\ Grown("budget_release", g)
  <2>1. UNCHANGED <<Reserved, Spent>> /\ Released' = Released \cup {g}
    BY <1>2, GrownMap
  <2>2. g \in Reserved \ Released /\ g \notin Spent
    BY <1>2 DEF Releasable, Reserved, Released, Spent
  <2>3. QED
    BY <2>1, <2>2 DEF Promise!Release
<1>3. QED
  BY <1>1, <1>2, ReleaseGrows DEF TypeOK, StoresOK

(* The initial states map to initial states of the promise. *)
LEMMA PromiseInit == ASSUME Init PROVE Promise!EInit
<1>1. Released = {}
  BY LegacyLogAssumption DEF Init, Released, Has, HasIn
<1>2. Spent = {}
  BY DEF Init, Spent
<1>3. Reserved \in SUBSET Grants
  BY DEF Reserved
<1>4. QED
  BY <1>1, <1>2, <1>3 DEF Promise!EInit

(* Every step maps to a step of the promise or to a stutter. *)
LEMMA PromiseStep ==
    ASSUME ~ClockMayStepBack, Inv, [Next]_vars
    PROVE  Promise!ENext \/ UNCHANGED <<Reserved, Released, Spent>>
<1> DEFINE Goal == Promise!ENext \/ UNCHANGED <<Reserved, Released, Spent>>
<1> USE DEF Inv, TypeOK
<1>1. cur \in Grants \/ Idle
  BY CurType DEF Idle
<1>2. CASE RecordBudgetMint
  <2>1. cur \in Grants /\ ~Has("budget_mint", cur) /\ effects[cur] = 0
    BY <1>1, <1>2 DEF RecordBudgetMint, Idle, Thread, Opening, Rows, Row, Untouched
  <2>2. Grown("budget_mint", cur) /\ UNCHANGED effects
    BY <1>2, <2>1, MintGrows DEF RecordBudgetMint, StoresOK, ThreadOK
  <2>3. Reserved' = Reserved \cup {cur} /\ UNCHANGED <<Released, Spent>>
    BY <2>1, <2>2, GrownMap
  <2>4. cur \notin Reserved /\ cur \notin Spent
    BY <2>1 DEF Reserved, Spent
  <2>5. QED
    BY <2>1, <2>3, <2>4 DEF Promise!ENext, Promise!Reserve
<1>3. CASE ProviderCall
  <2>1. /\ cur \in Grants /\ effects[cur] = 0 /\ status[cur] = "executing"
        /\ cur \notin Legacy /\ ~Has("budget_release", cur) /\ UNCHANGED log
    BY <1>1, <1>3 DEF ProviderCall, Idle, Thread, Claimed, Ledger, Holding
  <2>2. PICK done \in {0, 1} : effects' = [effects EXCEPT ![cur] = effects[cur] + done]
    BY <1>3 DEF ProviderCall, Set
  <2>3. CASE done = 0
    <3>1. UNCHANGED effects
      BY <2>1, <2>2, <2>3 DEF StoresOK
    <3>2. QED
      BY <2>1, <3>1, StutterMap
  <2>4. CASE done = 1
    <3>1. Spent' = Spent \cup {cur} /\ cur \notin Spent
      BY <2>1, <2>2, <2>4 DEF StoresOK, Spent
    <3>2. UNCHANGED <<Reserved, Released>>
      BY <2>1 DEF Reserved, Released, Has
    <3>3. Debit[cur] > 0 => cur \in Reserved \ Released
      BY <2>1 DEF Ledger, Booked, Reserved, Released
    <3>4. QED
      BY <2>1, <3>1, <3>2, <3>3 DEF Promise!ENext, Promise!Spend
  <2>5. QED
    BY <2>3, <2>4
<1>4. CASE VoidMint \/ ReleaseUninvoked \/ ExpireRelease \/ CutoverRelease
  <2>1. cur \in Grants /\ effects[cur] = 0 /\ ReleaseBudget(cur) /\ UNCHANGED effects
    BY <1>1, <1>4 DEF VoidMint, ReleaseUninvoked, ExpireRelease, CutoverRelease, Idle,
       Thread,
       Reserving, Rows, Row, Untouched, Facts, Fact
  <2>2. QED
    BY <2>1, ReleaseMap DEF Promise!ENext
<1>5. ASSUME NEW g \in Grants, BudgetTake(g) PROVE Goal
  <2>1. CASE BudgetGrantReleasable(g)
    <3>1. effects[g] = 0
      BY <1>5, <2>1, SweptIsClosed DEF BudgetTake, Take, Passes
    <3>2. QED
      BY <1>5, <2>1, <3>1, ReleaseMap DEF BudgetTake, Promise!ENext
  <2>2. CASE UNCHANGED <<log, effects>>
    BY <2>2, StutterMap
  <2>3. QED
    BY <1>5, <2>1, <2>2 DEF BudgetTake
<1>6. CASE EffectStarting \/ AbandonLog
  BY <1>6, ExecutionRecords, GrownMap, StutterMap DEF EffectStarting, AbandonLog
<1>7. CASE RecordTerminal
  BY <1>7, ExecutionRecords DEF RecordTerminal, Reserved, Released, Spent, Has
<1>8. CASE ExpireLog \/ CutoverLog
  BY <1>1, <1>8, PlainEventGrows, GrownMap, StutterMap DEF ExpireLog, CutoverLog, Kinds,
     StoresOK, Idle
<1>9. CASE UNCHANGED <<log, effects>>
  BY <1>9, StutterMap
<1>10. QED
  BY <1>2, <1>3, <1>4, <1>5, <1>6, <1>7, <1>8, <1>9
  DEF Next, SteadyNext, Begin, Work, MintStep, ExecuteStep, SettleStep, SweepStep, Environment,
      vars, RequestBegin, ExecuteBegin, BudgetGate, EvidenceRecheck, InsertGrant,
      CheckAuthority, Claim, PostClaimLockdown, PostClaimAuthority, Preconditions,
      Egress, FlipExecuted, ExpireFlip, Boot, PassDone, CutoverTake, ReconcileTake,
      OverdueTake, CutoverFlip, Housekeeping, Fault, Crash, Tick, ClockBack,
      CommitAuthority, AuthorityReadable, Engage, Unlock

(* A clock that may not be set back leaves ClockBack disabled, so the      *)
(* specification is the one without it.                                    *)
LEMMA SteadyClock == ASSUME ~ClockMayStepBack PROVE Spec <=> SteadySpec
<1>1. [Next]_vars <=> [SteadyNext]_vars
  BY DEF Next, ClockBack
<1>2. QED
  BY <1>1, PTL DEF Spec, SteadySpec

(* While the clock does not go back, the stores, the calls and the crashes *)
(* implement ReservedEffects: every step reserves, releases or spends one  *)
(* grant as the promise allows, or changes none of the three.              *)
THEOREM KeepsPromise == ASSUME ~ClockMayStepBack PROVE Spec => ImplementsPromise
<1>1. Init => Promise!EInit
  BY PromiseInit
<1>2. Inv /\ [Next]_vars => [Promise!ENext]_(Promise!evars)
  BY PromiseStep DEF Promise!evars
<1>3. QED
  BY <1>1, <1>2, Invariance, PTL DEF Spec, ImplementsPromise, Promise!ESpec
=============================================================================
