---------------------------- MODULE RelayReceipt ----------------------------
(***************************************************************************)
(* What `cermet log` says of a relay grant.  The sessions of RelaySession  *)
(* write their rows to the audit log in the order the broker records them, *)
(* which is the order hops end in and not the order they were sent in; the *)
(* receipt row is derived from those rows and the clock at each read.      *)
(*                                                                         *)
(* A grant opens one session, so a handle stands for its grant.  Of a row  *)
(* the model keeps its type, whether its hop is the effect, the status     *)
(* class or the failure class it carries, and whether it marks a burn.     *)
(***************************************************************************)
EXTENDS RelaySession, Sequences

VARIABLE trail   \* handle -> the rows of its grant, in rowid order

rvars == <<vars, trail>>

Row(type, effect, says, burned) ==
    [type |-> type, effect |-> effect, says |-> says, burned |-> burned]
Opened == Row("relay_session_opened", FALSE, "none", FALSE)
Minted == Row("provider_action_succeeded", FALSE, "none", FALSE)
Closed == Row("relay_session_closed", FALSE, "none", FALSE)
Mismatch == Row("relay_outcome_mismatch", TRUE, "postcondition_mismatch", TRUE)

(* A refusal burns unless the window had lapsed. *)
Refused(h) == Row("relay_request_refused", FALSE, "none", ~Lapsed(h))

(* The row a hop ends with: its status, or the class typed where no answer came. *)
HopRow(x) ==
    LET effect == request'[x].shape = Effect IN
    IF stage'[x] = "unsent"
    THEN Row("relay_request_failed", effect, "local_execution_failure", FALSE)
    ELSE IF status[x] = "silent"
         THEN Row("relay_request_failed", effect, "transport_no_response", FALSE)
         ELSE Row("relay_request_forwarded", effect, status[x], FALSE)

Log(h, s) == trail' = [trail EXCEPT ![h] = @ \o s]

(* close_relay_session's row, when this step wrote it. *)
Receipt(h) == IF receipts'[h] > receipts[h] THEN <<Closed>> ELSE << >>

-----------------------------------------------------------------------------
(* The rows of each step. *)

(* The grant's terminal row follows the session's own.  A process that     *)
(* ends between the two leaves a window nothing can drive.                 *)
OpenLogged(h) ==
    /\ Open(h)
    /\ trail' = [s \in Handles |->
                    IF s = h THEN <<Opened, Minted>> ELSE trail[s] \o Receipt(s)]

SweepLogged == Sweep /\ trail' = [s \in Handles |-> trail[s] \o Receipt(s)]

(* The refusal's row is written before the receipt; the log may refuse either. *)
TurnLogged(x, h, r) ==
    /\ RefuseHop(x, h, r) \/ RevokeHop(x, h, r)
    /\ \E s \in {<<Refused(h)>>, << >>} :
        /\ Receipt(h) # << >> => s # << >>
        /\ Log(h, s \o Receipt(h))

PrepareLogged(x, h, r) == PrepareFails(x, h, r) /\ Log(h, <<HopRow(x)>>)

(* The hop's row, then the burn's two.  The first of those may be the last. *)
CompleteLogged(x) ==
    LET h == of[x]
        burns == h \in live \ live' IN
    /\ HopComplete(x)
    /\ \E s \in {<<Mismatch>>, << >>} :
        /\ burns \/ s = << >>
        /\ Receipt(h) # << >> => s # << >>
        /\ Log(h, (IF stage'[x] = "done" THEN <<HopRow(x)>> ELSE << >>) \o s \o Receipt(h))

Silent ==
    \/ \E x \in Hops, h \in Handles, r \in Requests :
        ForwardHop(x, h, r) \/ DecideFaults(x, h, r)
    \/ \E x \in Hops : Send(x) \/ HopHead(x) \/ HangUp(x) \/ DropJob(x) \/ Stall(x) \/ Drain(x)
    \/ DenyAll \/ LiftLockdown \/ CommitAuthority \/ Crash \/ Tick

LoggedNext ==
    \/ \E h \in Handles : OpenLogged(h)
    \/ \E x \in Hops, h \in Handles, r \in Requests :
        TurnLogged(x, h, r) \/ PrepareLogged(x, h, r)
    \/ \E x \in Hops : CompleteLogged(x)
    \/ SweepLogged
    \/ Silent /\ UNCHANGED trail

LoggedInit == Init /\ trail = [h \in Handles |-> << >>]

LoggedSpec == LoggedInit /\ [][LoggedNext]_rvars

LoggedWork(x) == CompleteLogged(x) \/ (Send(x) /\ UNCHANGED trail)

(* The fairness of FairSpec, for the steps that write rows. *)
LoggedFairSpec ==
    /\ LoggedSpec
    /\ WF_rvars(Tick /\ UNCHANGED trail) /\ WF_rvars(SweepLogged)
    /\ \A x \in Hops : SF_rvars(LoggedWork(x)) /\ WF_rvars(HopHead(x) /\ UNCHANGED trail)

-----------------------------------------------------------------------------
(* The readers. *)

(* EffectFailureClass::of, on the statuses the model tells apart. *)
ClassOf(says) == CASE says = "4xx" -> "provider_refused"
                   [] says = "5xx" -> "provider_transient"
                   [] OTHER -> says

(* effect_verdict: what one row says about the grant's effect. *)
EffectVerdict(row) ==
    CASE row.type = "relay_request_forwarded" /\ row.effect ->
            IF row.says = "2xx" THEN "landed" ELSE ClassOf(row.says)
      [] row.type = "relay_request_failed" /\ row.effect -> row.says
      [] row.type = "relay_outcome_mismatch" -> row.says
      [] OTHER -> "silent"

(* The rows that speak of the effect, and what the last of some of them says. *)
Spoken(h) == {i \in DOMAIN trail[h] : EffectVerdict(trail[h][i]) # "silent"}
LastOf(h, is) == EffectVerdict(trail[h][CHOOSE i \in is : \A j \in is : j <= i])

(* Defect: only failures are remembered, so a superseded attempt's class   *)
(* stands after the effect landed.                                         *)
EffectFailureClass_InsertOnly(h) ==
    LET failed == {i \in Spoken(h) : EffectVerdict(trail[h][i]) # "landed"} IN
    IF failed = {} THEN "none" ELSE LastOf(h, failed)

LastWord(h) == IF Spoken(h) = {} THEN "unsaid" ELSE LastOf(h, Spoken(h))

(* effect_failure_classes: the last word, and a success clears it. *)
EffectFailureClass(h) ==
    IF LastWord(h) \in {"unsaid", "landed"} THEN "none" ELSE LastWord(h)

HasRow(h, types) == \E i \in DOMAIN trail[h] : trail[h][i].type \in types

(* EffectSignals and landed(): for a relay grant the hop is the effect and *)
(* the terminal row only says that the session was minted.                 *)
Landed(h) ==
    CASE LastWord(h) = "unsaid" -> "unsaid"
      [] LastWord(h) = "landed" -> "yes"
      [] OTHER -> "no"

Burned(h) == \E i \in DOMAIN trail[h] : trail[h][i].burned
Ended(h) == HasRow(h, {"relay_session_closed"}) \/ Lapsed(h)

(* effect_state: the derivation, in its order. *)
EffectState(h) ==
    IF h \notin everOpened THEN "none"
    ELSE IF Landed(h) = "yes" THEN "ok"
    ELSE IF Burned(h) THEN "burned"
    ELSE IF Landed(h) = "no" \/ ~Ended(h) THEN "none"
    ELSE IF HasRow(h, {"relay_request_forwarded"}) THEN "unresolved"
    ELSE "expired_unused"

-----------------------------------------------------------------------------
(* Properties. *)

(* audit.rs:1088 "it must agree with it": the failure class and the effect *)
(* state of one receipt are two folds of the same rows, and a receipt      *)
(* never carries a failure class beside `ok` nor a determined failure      *)
(* without its class.                                                      *)
ReceiptsAgree ==
    \A h \in everOpened :
        /\ (EffectState(h) = "ok") => EffectFailureClass(h) = "none"
        /\ (Landed(h) = "no") <=> (EffectFailureClass(h) # "none")

(* A receipt that says `ok` is of a grant whose effect the provider        *)
(* performed, and one whose contradicted outcome was recorded says that    *)
(* the session burned, whichever hop of the session is recorded last.      *)
ReceiptTrue ==
    \A h \in everOpened :
        /\ EffectState(h) = "ok" => \E x \in landed : of[x] = h
        /\ HasRow(h, {"relay_outcome_mismatch"}) => EffectState(h) = "burned"

(* What a receipt folded from a session's rows may be relied on for, in    *)
(* whatever order its hops are recorded: `ok` is of an effect the provider *)
(* performed, a recorded mismatch reads burned, the state and the failure  *)
(* class agree, and no path both closes a session and puts it back         *)
(* (effect_state, effect_failure_class, relay_hop_start).  The converse of *)
(* the first is not claimed and is false of the code: a superseded 4xx     *)
(* recorded after the landed create leaves a refused receipt, whatever     *)
(* audit.rs:944-947 says of a landed hop clearing the class.               *)
ReceiptHonest == ReceiptTrue /\ ReceiptsAgree /\ OneReceipt
=============================================================================
