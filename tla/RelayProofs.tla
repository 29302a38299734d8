---------------------------- MODULE RelayProofs ----------------------------
(***************************************************************************)
(* The inductive invariants of RelaySession and of the receipts folded     *)
(* from its rows, and what follows from them for every value of the        *)
(* constants: any number of sessions and of overlapping hops, and any      *)
(* number of faults, hang-ups, revocations and crashes.                    *)
(***************************************************************************)
EXTENDS RelayReceipt, WellFoundedInduction, TLAPS

(* A hop that was given the credential, one that may perform the effect,   *)
(* and one whose definite refusal the client has been shown.               *)
Admitted(x) == stage[x] \notin {"new", "refused"}
EffectHop(x) == Admitted(x) /\ request[x].shape = Effect
GivenBack(x) == status[x] = "4xx" /\ head[x] = "seen"

(* What a hop's stage says of its session, its answer and its effect. *)
HopsOK ==
    \A x \in Hops :
        /\ Admitted(x) => of[x] \in everOpened
        /\ stage[x] \in {"new", "refused", "unsent", "authorized", "dropped"} =>
             status[x] = "silent" /\ head[x] # "seen" /\ x \notin landed
        /\ x \in landed => EffectHop(x) /\ status[x] # "4xx"
        /\ EffectHop(x) /\ status[x] = "2xx" => x \in landed

(* A handle is opened once, with its effect unspent. *)
SessionsOK ==
    /\ live \subseteq everOpened
    /\ \A h \in Handles : h \notin everOpened => ~effectUsed[h]

(* A session's effect is spent by the one hop that was not refused.  It is *)
(* unspent only when every hop that could perform it was.                  *)
EffectsOK ==
    /\ \A x, y \in Hops :
         EffectHop(x) /\ EffectHop(y) /\ of[x] = of[y] /\ x # y =>
             GivenBack(x) \/ GivenBack(y)
    /\ \A x \in Hops :
         EffectHop(x) /\ of[x] \in live /\ ~effectUsed[of[x]] => GivenBack(x)

(* What a session captured is what its own effect made. *)
CapturedOK ==
    \A h \in Handles :
        captured[h] # NoHop =>
            /\ captured[h] \in landed /\ captured[h] \notin contradicts
            /\ of[captured[h]] = h

SessionInv ==
    /\ TypeOK /\ HopsOK /\ SessionsOK /\ EffectsOK /\ RefusedEffectIsReleased
    /\ CapturedOK /\ PollsReadOwnEffect /\ OneReceipt

-----------------------------------------------------------------------------
(* A charge keeps the counters of a session natural numbers. *)
LEMMA ChargeType ==
    ASSUME TypeOK, NEW h \in Handles, NEW r \in Requests, Charge(h, r)
    PROVE  uses' \in [Handles -> [Shapes -> Nat]] /\ bytes' \in [Handles -> [Shapes -> Nat]]
<1>0. r \in AnyRequest
  BY DEF Requests
<1>1. r.size \in Nat
  <2>1. r.size \in Sizes \cup {0}
    BY <1>0 DEF AnyRequest
  <2>2. Sizes \subseteq Nat
    BY RelayAssumption
  <2>3. CASE r.size = 0
    BY <2>3
  <2>4. CASE r.size \in Sizes
    BY <2>2, <2>4
  <2>5. QED
    BY <2>1, <2>3, <2>4
<1>2. CASE r.shape \in Budgeted
  <2>1. /\ uses' = [uses EXCEPT ![h][r.shape] = @ + 1]
        /\ bytes' = [bytes EXCEPT ![h][r.shape] = @ + r.size]
    BY <1>2 DEF Charge
  <2>2. r.shape \in Shapes
    BY <1>2, RelayAssumption
  <2>3. QED
    BY <1>1, <2>1, <2>2 DEF TypeOK
<1>3. CASE r.shape \notin Budgeted
  BY <1>3 DEF Charge, TypeOK
<1>4. QED
  BY <1>2, <1>3

(* A capture names a hop. *)
LEMMA CaptureType ==
    ASSUME captured \in [Handles -> Hops \cup {NoHop}], NEW h \in Handles, NEW x \in Hops
    PROVE  Capture(h, x) \in [Handles -> Hops \cup {NoHop}]
  BY DEF Capture

(* What relay_hop_complete does to the state, whatever it could read and   *)
(* record.                                                                 *)
LEMMA CompleteFacts ==
    ASSUME NEW x \in Hops, HopComplete(x)
    PROVE  /\ stage[x] = "sent"
           /\ \/ stage' = [stage EXCEPT ![x] = "done"] /\ rows' = [rows EXCEPT ![x] = @ + 1]
              \/ stage' = [stage EXCEPT ![x] = "unrecorded"] /\ rows' = rows
           /\ \/ captured' = captured
              \/ Observed(x) /\ x \notin contradicts /\ captured' = Capture(of[x], x)
           /\ \/ live' = live /\ receipts' = receipts
              \/ /\ of[x] \in live /\ live' = live \ {of[x]}
                 /\ receipts' = receipts \/ Close(of[x], 1)
           /\ retired' = retired \/ (of[x] \in live /\ retired' = retired \cup {of[x]})
           /\ mishaps' = mishaps \/ mishaps' = mishaps + 1
           /\ of[x] \in live \ live' =>
                Observed(x) /\ stage' = [stage EXCEPT ![x] = "done"]
           /\ UNCHANGED <<expires, effectUsed, uses, bytes, of, request, status, head, stale,
                          locked, now, everOpened, provider>>
<1>1. PICK readable \in BOOLEAN, recorded \in BOOLEAN, said \in BOOLEAN :
        LET mismatch == Observed(x) /\ readable /\ x \in contradicts
            captures == Observed(x) /\ readable /\ x \notin contradicts
            burns    == mismatch /\ recorded
            faulted  == ~recorded \/ (burns /\ ~said) IN
        /\ captured' = IF captures THEN Capture(of[x], x) ELSE captured
        /\ IF recorded
           THEN /\ rows' = [rows EXCEPT ![x] = @ + 1]
                /\ stage' = [stage EXCEPT ![x] = "done"]
           ELSE /\ stage' = [stage EXCEPT ![x] = "unrecorded"]
                /\ UNCHANGED rows
        /\ IF faulted THEN Mishap ELSE UNCHANGED mishaps
        /\ live' = IF burns THEN live \ {of[x]} ELSE live
        /\ retired' = IF burns THEN retired \cup {of[x]} ELSE retired
        /\ IF burns /\ said THEN Close(of[x], 1) ELSE UNCHANGED receipts
  BY Zenon DEF HopComplete
<1>2. \/ stage' = [stage EXCEPT ![x] = "done"] /\ rows' = [rows EXCEPT ![x] = @ + 1]
      \/ stage' = [stage EXCEPT ![x] = "unrecorded"] /\ rows' = rows
  BY <1>1, Zenon
<1>3. \/ captured' = captured
      \/ Observed(x) /\ x \notin contradicts /\ captured' = Capture(of[x], x)
  BY <1>1, Zenon
<1>4. Observed(x) => of[x] \in live
  BY DEF Observed
<1>5. \/ live' = live /\ receipts' = receipts
      \/ /\ of[x] \in live /\ live' = live \ {of[x]}
         /\ receipts' = receipts \/ Close(of[x], 1)
  BY <1>1, <1>4, Zenon
<1>6. retired' = retired \/ (of[x] \in live /\ retired' = retired \cup {of[x]})
  BY <1>1, <1>4, Zenon
<1>7. mishaps' = mishaps \/ mishaps' = mishaps + 1
  BY <1>1, Zenon DEF Mishap
<1>8. of[x] \in live \ live' => Observed(x) /\ stage' = [stage EXCEPT ![x] = "done"]
  BY <1>1, Zenon
<1>9. QED
  BY <1>2, <1>3, <1>5, <1>6, <1>7, <1>8 DEF HopComplete

(* Every variable keeps its type. *)
LEMMA TypeStep == ASSUME SessionInv, [Next]_vars PROVE TypeOK'
<1> USE RelayAssumption DEF SessionInv, TypeOK, sessions, hops, world, audit, provider
<1>1. ASSUME NEW h \in Handles, Open(h) PROVE TypeOK'
  BY <1>1 DEF Open
<1>2. CASE Sweep
  BY <1>2 DEF Sweep, Mishap
<1>3. ASSUME NEW x \in Hops, NEW h \in Handles, NEW r \in Requests, RefuseHop(x, h, r)
      PROVE  TypeOK'
  <2>1. /\ stage' = [stage EXCEPT ![x] = "refused"] /\ live' = live \ {h}
        /\ receipts' = receipts \/ receipts' = [receipts EXCEPT ![h] = @ + 1]
        /\ mishaps' = mishaps \/ mishaps' = mishaps + 1
        /\ UNCHANGED <<of, request, expires, effectUsed, captured, uses, bytes, status, head,
                       stale, locked, now, everOpened, rows, landed, contradicts, retired>>
    BY <1>3 DEF RefuseHop, Turn, Close, Mishap
  <2>2. receipts' \in [Handles -> Nat]
    BY <2>1
  <2>3. mishaps' \in Nat /\ live' \in SUBSET Handles
    BY <2>1
  <2>4. QED
    BY <2>1, <2>2, <2>3
<1>4. ASSUME NEW x \in Hops, NEW h \in Handles, NEW r \in Requests, RevokeHop(x, h, r)
      PROVE  TypeOK'
  <2>1. uses' \in [Handles -> [Shapes -> Nat]] /\ bytes' \in [Handles -> [Shapes -> Nat]]
    BY <1>4, ChargeType DEF RevokeHop
  <2>2. QED
    BY <1>4, <2>1 DEF RevokeHop, Turn, Close, Mishap
<1>5. ASSUME NEW x \in Hops, NEW h \in Handles, NEW r \in Requests, ForwardHop(x, h, r)
      PROVE  TypeOK'
  <2>1. uses' \in [Handles -> [Shapes -> Nat]] /\ bytes' \in [Handles -> [Shapes -> Nat]]
    BY <1>5, ChargeType DEF ForwardHop
  <2>2. r \in AnyRequest
    BY DEF Requests
  <2>3. QED
    BY <1>5, <2>1, <2>2 DEF ForwardHop, Admit
<1>6. ASSUME NEW x \in Hops, NEW h \in Handles, NEW r \in Requests, PrepareFails(x, h, r)
      PROVE  TypeOK'
  <2>1. uses' \in [Handles -> [Shapes -> Nat]] /\ bytes' \in [Handles -> [Shapes -> Nat]]
    BY <1>6, ChargeType DEF PrepareFails
  <2>2. r \in AnyRequest
    BY DEF Requests
  <2>3. effectUsed' \in [Handles -> BOOLEAN]
    BY <1>6 DEF PrepareFails
  <2>4. rows' \in [Hops -> Nat] /\ mishaps' \in Nat
    BY <1>6 DEF PrepareFails, Mishap
  <2>5. QED
    BY <1>6, <2>1, <2>2, <2>3, <2>4 DEF PrepareFails, Admit, Mishap
<1>7. ASSUME NEW x \in Hops, NEW h \in Handles, NEW r \in Requests, DecideFaults(x, h, r)
      PROVE  TypeOK'
  <2>1. uses' \in [Handles -> [Shapes -> Nat]] /\ bytes' \in [Handles -> [Shapes -> Nat]]
    BY <1>7, ChargeType DEF DecideFaults
  <2>2. QED
    BY <1>7, <2>1 DEF DecideFaults, Turn, Mishap
<1>8. ASSUME NEW x \in Hops, Send(x) PROVE TypeOK'
  BY <1>8 DEF Send
<1>9. ASSUME NEW x \in Hops, HopComplete(x) PROVE TypeOK'
  <2>1. of[x] \in live => of[x] \in Handles
    OBVIOUS
  <2>2. captured' \in [Handles -> Hops \cup {NoHop}]
    <3>1. captured' = captured \/ (of[x] \in live /\ captured' = Capture(of[x], x))
      BY <1>9, CompleteFacts DEF Observed
    <3>2. captured \in [Handles -> Hops \cup {NoHop}]
      OBVIOUS
    <3>3. QED
      BY <2>1, <3>1, <3>2, CaptureType
  <2>3. live' \in SUBSET Handles /\ retired' \in SUBSET Handles
    BY <1>9, <2>1, CompleteFacts
  <2>4. receipts' \in [Handles -> Nat]
    <3>1. receipts' = receipts \/ (of[x] \in live /\ Close(of[x], 1))
      BY <1>9, CompleteFacts
    <3>2. ASSUME NEW h \in Handles, Close(h, 1) PROVE receipts' \in [Handles -> Nat]
      BY <3>2 DEF Close
    <3>3. QED
      BY <2>1, <3>1, <3>2
  <2>5. stage' \in [Hops -> {"new", "refused", "unsent", "authorized", "sent", "stalled", "done",
                             "unrecorded", "killed", "dropped"}]
    BY <1>9, CompleteFacts
  <2>6. rows' \in [Hops -> Nat] /\ mishaps' \in Nat
    <3>1. rows' = rows \/ rows' = [rows EXCEPT ![x] = @ + 1]
      BY <1>9, CompleteFacts
    <3>2. mishaps' = mishaps \/ mishaps' = mishaps + 1
      BY <1>9, CompleteFacts
    <3>3. QED
      BY <3>1, <3>2, SMTT(60)
  <2>7. UNCHANGED <<expires, effectUsed, uses, bytes, of, request, status, head, stale,
                    locked, now, everOpened, landed, contradicts>>
    BY <1>9, CompleteFacts
  <2>8. QED
    BY <2>2, <2>3, <2>4, <2>5, <2>6, <2>7
<1>10. ASSUME NEW x \in Hops, HopHead(x) PROVE TypeOK'
  BY <1>10 DEF HopHead, Answered, ObserveStatus
<1>11. ASSUME NEW x \in Hops, HangUp(x) \/ DropJob(x) \/ Stall(x) \/ Drain(x) PROVE TypeOK'
  <2>1. CASE HangUp(x)
    BY <2>1 DEF HangUp, Mishap
  <2>2. CASE DropJob(x)
    BY <2>2 DEF DropJob, Mishap
  <2>3. CASE Stall(x) \/ Drain(x)
    BY <2>3 DEF Stall, Drain
  <2>4. QED
    BY <1>11, <2>1, <2>2, <2>3
<1>12. CASE DenyAll \/ LiftLockdown
  <2>1. CASE DenyAll
    BY <2>1 DEF DenyAll, Mishap
  <2>2. CASE LiftLockdown
    BY <2>2 DEF LiftLockdown
  <2>3. QED
    BY <1>12, <2>1, <2>2
<1>13. CASE CommitAuthority
  BY <1>13 DEF CommitAuthority, Mishap
<1>14. CASE Crash
  BY <1>14 DEF Crash, Mishap
<1>15. CASE Tick \/ UNCHANGED vars
  BY <1>15 DEF Tick, vars
<1>16. QED
  BY <1>1, <1>2, <1>3, <1>4, <1>5, <1>6, <1>7, <1>8, <1>9, <1>10, <1>11, <1>12, <1>13,
     <1>14, <1>15 DEF Next, Decide, HopWork

(* What a hop may be said to have done agrees with its stage. *)
LEMMA HopsStep == ASSUME SessionInv, [Next]_vars PROVE HopsOK'
<1> USE RelayAssumption DEF SessionInv, TypeOK, sessions, hops, world, audit, provider
<1>1. ASSUME NEW h \in Handles, Open(h) PROVE HopsOK'
  BY <1>1 DEF HopsOK, Admitted, EffectHop, SessionsOK, Open
<1>2. CASE Sweep
  BY <1>2 DEF HopsOK, Admitted, EffectHop, SessionsOK, Sweep, Mishap
<1>3. ASSUME NEW x \in Hops, NEW h \in Handles, NEW r \in Requests, RefuseHop(x, h, r)
      PROVE  HopsOK'
  BY <1>3 DEF HopsOK, Admitted, EffectHop, SessionsOK, RefuseHop, Turn, Close, Mishap
<1>4. ASSUME NEW x \in Hops, NEW h \in Handles, NEW r \in Requests, RevokeHop(x, h, r)
      PROVE  HopsOK'
  BY <1>4 DEF HopsOK, Admitted, EffectHop, SessionsOK, RevokeHop, Turn, Close, Charge,
     Mishap
<1>5. ASSUME NEW x \in Hops, NEW h \in Handles, NEW r \in Requests, ForwardHop(x, h, r)
      PROVE  HopsOK'
  BY <1>5 DEF HopsOK, Admitted, EffectHop, SessionsOK, ForwardHop, Admit, Charge
<1>6. ASSUME NEW x \in Hops, NEW h \in Handles, NEW r \in Requests, PrepareFails(x, h, r)
      PROVE  HopsOK'
  BY <1>6 DEF HopsOK, Admitted, EffectHop, SessionsOK, PrepareFails, Admit, Charge, Mishap
<1>7. ASSUME NEW x \in Hops, NEW h \in Handles, NEW r \in Requests, DecideFaults(x, h, r)
      PROVE  HopsOK'
  BY <1>7 DEF HopsOK, Admitted, EffectHop, SessionsOK, DecideFaults, Turn, Charge, Mishap
<1>8. ASSUME NEW x \in Hops, Send(x) PROVE HopsOK'
  BY <1>8 DEF HopsOK, Admitted, EffectHop, SessionsOK, Send
<1>9. ASSUME NEW x \in Hops, HopComplete(x) PROVE HopsOK'
  BY <1>9 DEF HopsOK, Admitted, EffectHop, SessionsOK, HopComplete, Observed, Capture,
     Close, Mishap
<1>10. ASSUME NEW x \in Hops, HopHead(x) PROVE HopsOK'
  BY <1>10 DEF HopsOK, Admitted, EffectHop, SessionsOK, HopHead, Answered, ObserveStatus
<1>11. ASSUME NEW x \in Hops, HangUp(x) \/ DropJob(x) \/ Stall(x) \/ Drain(x) PROVE HopsOK'
  BY <1>11 DEF HopsOK, Admitted, EffectHop, SessionsOK, HangUp, DropJob, Stall, Drain, Mishap
<1>12. CASE DenyAll \/ LiftLockdown \/ CommitAuthority
  BY <1>12 DEF HopsOK, Admitted, EffectHop, SessionsOK, DenyAll, LiftLockdown,
     CommitAuthority, Mishap
<1>13. CASE Crash
  BY <1>13 DEF HopsOK, Admitted, EffectHop, SessionsOK, Crash, Mishap
<1>14. CASE Tick
  BY <1>14 DEF HopsOK, Admitted, EffectHop, SessionsOK, Tick
<1>15. CASE UNCHANGED vars
  BY <1>15 DEF HopsOK, Admitted, EffectHop, SessionsOK, vars
<1>16. QED
  BY <1>1, <1>2, <1>3, <1>4, <1>5, <1>6, <1>7, <1>8, <1>9, <1>10, <1>11, <1>12, <1>13,
     <1>14, <1>15 DEF Next, Decide, HopWork

(* No handle is opened twice. *)
LEMMA SessionsStep == ASSUME SessionInv, [Next]_vars PROVE SessionsOK'
<1> USE RelayAssumption DEF SessionInv, TypeOK, sessions, hops, world, audit, provider
<1>1. ASSUME NEW h \in Handles, Open(h) PROVE SessionsOK'
  BY <1>1 DEF SessionsOK, HopsOK, Admitted, Open
<1>2. CASE Sweep
  BY <1>2 DEF SessionsOK, HopsOK, Admitted, Sweep, Mishap
<1>3. ASSUME NEW x \in Hops, NEW h \in Handles, NEW r \in Requests, RefuseHop(x, h, r)
      PROVE  SessionsOK'
  BY <1>3 DEF SessionsOK, HopsOK, Admitted, RefuseHop, Turn, Close, Mishap
<1>4. ASSUME NEW x \in Hops, NEW h \in Handles, NEW r \in Requests, RevokeHop(x, h, r)
      PROVE  SessionsOK'
  BY <1>4 DEF SessionsOK, HopsOK, Admitted, RevokeHop, Turn, Close, Charge, Mishap
<1>5. ASSUME NEW x \in Hops, NEW h \in Handles, NEW r \in Requests, ForwardHop(x, h, r)
      PROVE  SessionsOK'
  BY <1>5 DEF SessionsOK, HopsOK, Admitted, ForwardHop, Admit, Charge
<1>6. ASSUME NEW x \in Hops, NEW h \in Handles, NEW r \in Requests, PrepareFails(x, h, r)
      PROVE  SessionsOK'
  BY <1>6 DEF SessionsOK, HopsOK, Admitted, PrepareFails, Admit, Charge, Mishap
<1>7. ASSUME NEW x \in Hops, NEW h \in Handles, NEW r \in Requests, DecideFaults(x, h, r)
      PROVE  SessionsOK'
  BY <1>7 DEF SessionsOK, HopsOK, Admitted, DecideFaults, Turn, Charge, Mishap
<1>8. ASSUME NEW x \in Hops, Send(x) PROVE SessionsOK'
  BY <1>8 DEF SessionsOK, HopsOK, Admitted, Send
<1>9. ASSUME NEW x \in Hops, HopComplete(x) PROVE SessionsOK'
  BY <1>9 DEF SessionsOK, HopsOK, Admitted, HopComplete, Observed, Capture, Close, Mishap
<1>10. ASSUME NEW x \in Hops, HopHead(x) PROVE SessionsOK'
  BY <1>10 DEF SessionsOK, HopsOK, Admitted, HopHead, Answered, ObserveStatus
<1>11. ASSUME NEW x \in Hops, HangUp(x) \/ DropJob(x) \/ Stall(x) \/ Drain(x) PROVE SessionsOK'
  BY <1>11 DEF SessionsOK, HopsOK, Admitted, HangUp, DropJob, Stall, Drain, Mishap
<1>12. CASE DenyAll \/ LiftLockdown \/ CommitAuthority
  BY <1>12 DEF SessionsOK, HopsOK, Admitted, DenyAll, LiftLockdown, CommitAuthority,
     Mishap
<1>13. CASE Crash
  BY <1>13 DEF SessionsOK, HopsOK, Admitted, Crash, Mishap
<1>14. CASE Tick
  BY <1>14 DEF SessionsOK, HopsOK, Admitted, Tick
<1>15. CASE UNCHANGED vars
  BY <1>15 DEF SessionsOK, HopsOK, Admitted, vars
<1>16. QED
  BY <1>1, <1>2, <1>3, <1>4, <1>5, <1>6, <1>7, <1>8, <1>9, <1>10, <1>11, <1>12, <1>13,
     <1>14, <1>15 DEF Next, Decide, HopWork

(* However hops overlap, at most one of a session still holds its effect. *)
LEMMA EffectsStep == ASSUME SessionInv, [Next]_vars PROVE EffectsOK'
<1> USE RelayAssumption DEF SessionInv, TypeOK, sessions, hops, world, audit, provider
<1>1. ASSUME NEW h \in Handles, Open(h) PROVE EffectsOK'
  BY <1>1 DEF EffectsOK, HopsOK, SessionsOK, EffectHop, Admitted, GivenBack, Open
<1>2. CASE Sweep
  BY <1>2 DEF EffectsOK, HopsOK, SessionsOK, EffectHop, Admitted, GivenBack, Sweep, Mishap
<1>3. ASSUME NEW x \in Hops, NEW h \in Handles, NEW r \in Requests, RefuseHop(x, h, r)
      PROVE  EffectsOK'
  BY <1>3 DEF EffectsOK, HopsOK, SessionsOK, EffectHop, Admitted, GivenBack, RefuseHop,
     Turn, Close, Mishap
<1>4. ASSUME NEW x \in Hops, NEW h \in Handles, NEW r \in Requests, RevokeHop(x, h, r)
      PROVE  EffectsOK'
  BY <1>4 DEF EffectsOK, HopsOK, SessionsOK, EffectHop, Admitted, GivenBack, RevokeHop,
     Turn, Close, Charge, Mishap
<1>5. ASSUME NEW x \in Hops, NEW h \in Handles, NEW r \in Requests, ForwardHop(x, h, r)
      PROVE  EffectsOK'
  <2>1. h \in live /\ stage[x] = "new" /\ (r.shape = Effect => ~effectUsed[h])
    BY <1>5 DEF ForwardHop, Admit, Authorize
  <2>2. /\ stage' = [stage EXCEPT ![x] = "authorized"] /\ of' = [of EXCEPT ![x] = h]
        /\ request' = [request EXCEPT ![x] = r] /\ UNCHANGED <<live, status, head>>
        /\ effectUsed' = [effectUsed EXCEPT ![h] = @ \/ r.shape = Effect]
    BY <1>5 DEF ForwardHop, Admit
  <2>3. \A y \in Hops : y # x => /\ EffectHop(y)' <=> EffectHop(y)
                                  /\ of'[y] = of[y]
    BY <2>2 DEF EffectHop, Admitted
  <2>4. \A y \in Hops : GivenBack(y)' <=> GivenBack(y)
    BY <2>2 DEF GivenBack
  <2>5. of'[x] = h /\ (EffectHop(x)' => r.shape = Effect)
    BY <2>2 DEF EffectHop
  <2>6. \A k \in Handles : ~effectUsed'[k] => ~effectUsed[k] /\ (k = h => r.shape # Effect)
    BY <2>2
  <2>7. ASSUME NEW y \in Hops, y # x, EffectHop(x)', EffectHop(y), of[y] = h
        PROVE  GivenBack(y)
    BY <2>1, <2>5, <2>7 DEF EffectsOK
  <2>8. QED
    BY <2>1, <2>2, <2>3, <2>4, <2>5, <2>6, <2>7 DEF EffectsOK
<1>6. ASSUME NEW x \in Hops, NEW h \in Handles, NEW r \in Requests, PrepareFails(x, h, r)
      PROVE  EffectsOK'
  <2>1. h \in live /\ stage[x] = "new" /\ (r.shape = Effect => ~effectUsed[h])
    BY <1>6 DEF PrepareFails, Admit, Authorize
  <2>2. /\ stage' = [stage EXCEPT ![x] = "unsent"] /\ of' = [of EXCEPT ![x] = h]
        /\ request' = [request EXCEPT ![x] = r] /\ UNCHANGED <<live, status, head>>
        /\ effectUsed' = [effectUsed EXCEPT ![h] = @ \/ r.shape = Effect]
    BY <1>6 DEF PrepareFails, Admit
  <2>3. \A y \in Hops : y # x => /\ EffectHop(y)' <=> EffectHop(y)
                                  /\ of'[y] = of[y]
    BY <2>2 DEF EffectHop, Admitted
  <2>4. \A y \in Hops : GivenBack(y)' <=> GivenBack(y)
    BY <2>2 DEF GivenBack
  <2>5. of'[x] = h /\ (EffectHop(x)' => r.shape = Effect)
    BY <2>2 DEF EffectHop
  <2>6. \A k \in Handles : ~effectUsed'[k] => ~effectUsed[k] /\ (k = h => r.shape # Effect)
    BY <2>2
  <2>7. ASSUME NEW y \in Hops, y # x, EffectHop(x)', EffectHop(y), of[y] = h
        PROVE  GivenBack(y)
    BY <2>1, <2>5, <2>7 DEF EffectsOK
  <2>8. QED
    BY <2>1, <2>2, <2>3, <2>4, <2>5, <2>6, <2>7 DEF EffectsOK
<1>7. ASSUME NEW x \in Hops, NEW h \in Handles, NEW r \in Requests, DecideFaults(x, h, r)
      PROVE  EffectsOK'
  BY <1>7 DEF EffectsOK, HopsOK, SessionsOK, EffectHop, Admitted, GivenBack,
     DecideFaults, Turn, Charge, Mishap
<1>8. ASSUME NEW x \in Hops, Send(x) PROVE EffectsOK'
  BY <1>8 DEF EffectsOK, HopsOK, SessionsOK, EffectHop, Admitted, GivenBack, Send
<1>9. ASSUME NEW x \in Hops, HopComplete(x) PROVE EffectsOK'
  <2>1. \A y \in Hops : /\ EffectHop(y)' <=> EffectHop(y)
                        /\ GivenBack(y)' <=> GivenBack(y)
                        /\ of'[y] = of[y]
    BY <1>9, CompleteFacts DEF EffectHop, Admitted, GivenBack
  <2>2. live' \subseteq live /\ effectUsed' = effectUsed
    BY <1>9, CompleteFacts
  <2>3. QED
    BY <2>1, <2>2 DEF EffectsOK
<1>10. ASSUME NEW x \in Hops, HopHead(x) PROVE EffectsOK'
  BY <1>10 DEF EffectsOK, HopsOK, SessionsOK, EffectHop, Admitted, GivenBack, HopHead,
     Answered, ObserveStatus
<1>11. ASSUME NEW x \in Hops, HangUp(x) \/ DropJob(x) \/ Stall(x) \/ Drain(x) PROVE EffectsOK'
  <2>1. \A y \in Hops : /\ EffectHop(y)' <=> EffectHop(y)
                        /\ GivenBack(y)' <=> GivenBack(y)
                        /\ of'[y] = of[y]
    BY <1>11 DEF HangUp, DropJob, Stall, Drain, EffectHop, Admitted, GivenBack
  <2>2. live' = live /\ effectUsed' = effectUsed
    BY <1>11 DEF HangUp, DropJob, Stall, Drain
  <2>3. QED
    BY <2>1, <2>2 DEF EffectsOK
<1>12. CASE DenyAll \/ LiftLockdown \/ CommitAuthority
  BY <1>12 DEF EffectsOK, HopsOK, SessionsOK, EffectHop, Admitted, GivenBack, DenyAll,
     LiftLockdown, CommitAuthority, Mishap
<1>13. CASE Crash
  BY <1>13 DEF EffectsOK, HopsOK, SessionsOK, EffectHop, Admitted, GivenBack, Crash,
     Mishap
<1>14. CASE Tick
  BY <1>14 DEF EffectsOK, HopsOK, SessionsOK, EffectHop, Admitted, GivenBack, Tick
<1>15. CASE UNCHANGED vars
  BY <1>15 DEF EffectsOK, HopsOK, SessionsOK, EffectHop, Admitted, GivenBack, vars
<1>16. QED
  BY <1>1, <1>2, <1>3, <1>4, <1>5, <1>6, <1>7, <1>8, <1>9, <1>10, <1>11, <1>12, <1>13,
     <1>14, <1>15 DEF Next, Decide, HopWork

(* A spent effect that is not given back, in the terms of the invariant. *)
LEMMA ReleasedForm ==
    /\ RefusedEffectIsReleased <=>
         \A h \in live : effectUsed[h] =>
             \E x \in Hops : of[x] = h /\ EffectHop(x) /\ ~GivenBack(x)
    /\ RefusedEffectIsReleased' <=>
         \A h \in live' : effectUsed'[h] =>
             \E x \in Hops : of'[x] = h /\ EffectHop(x)' /\ ~GivenBack(x)'
<1>1. \A x : (EffectHop(x) /\ ~GivenBack(x)) <=>
               /\ request[x].shape = Effect /\ stage[x] \notin {"new", "refused"}
               /\ ~(head[x] = "seen" /\ status[x] = "4xx")
  BY Zenon DEF EffectHop, Admitted, GivenBack
<1>2. \A x : (EffectHop(x)' /\ ~GivenBack(x)') <=>
               /\ request'[x].shape = Effect /\ stage'[x] \notin {"new", "refused"}
               /\ ~(head'[x] = "seen" /\ status'[x] = "4xx")
  BY Zenon DEF EffectHop, Admitted, GivenBack
<1>3. QED
  BY <1>1, <1>2 DEF RefusedEffectIsReleased

(* A spent effect has a hop that was not refused before its client saw it. *)
LEMMA ReleasedStep == ASSUME SessionInv, [Next]_vars PROVE RefusedEffectIsReleased'
<1> USE RelayAssumption DEF SessionInv, TypeOK, sessions, hops, world, audit, provider
<1>1. ASSUME NEW h \in Handles, Open(h) PROVE RefusedEffectIsReleased'
  BY <1>1 DEF RefusedEffectIsReleased, EffectsOK, HopsOK, SessionsOK, EffectHop,
     Admitted, GivenBack, Open
<1>2. CASE Sweep
  BY <1>2 DEF RefusedEffectIsReleased, EffectsOK, HopsOK, SessionsOK, EffectHop,
     Admitted, GivenBack, Sweep, Mishap
<1>3. ASSUME NEW x \in Hops, NEW h \in Handles, NEW r \in Requests, RefuseHop(x, h, r)
      PROVE  RefusedEffectIsReleased'
  BY <1>3 DEF RefusedEffectIsReleased, EffectsOK, HopsOK, SessionsOK, EffectHop,
     Admitted, GivenBack, RefuseHop, Turn, Close, Mishap
<1>4. ASSUME NEW x \in Hops, NEW h \in Handles, NEW r \in Requests, RevokeHop(x, h, r)
      PROVE  RefusedEffectIsReleased'
  BY <1>4 DEF RefusedEffectIsReleased, EffectsOK, HopsOK, SessionsOK, EffectHop,
     Admitted, GivenBack, RevokeHop, Turn, Close, Charge, Mishap
<1>5. ASSUME NEW x \in Hops, NEW h \in Handles, NEW r \in Requests, ForwardHop(x, h, r)
      PROVE  RefusedEffectIsReleased'
  BY <1>5 DEF RefusedEffectIsReleased, EffectsOK, HopsOK, SessionsOK, EffectHop,
     Admitted, GivenBack, ForwardHop, Admit, Charge, Authorize
<1>6. ASSUME NEW x \in Hops, NEW h \in Handles, NEW r \in Requests, PrepareFails(x, h, r)
      PROVE  RefusedEffectIsReleased'
  BY <1>6 DEF RefusedEffectIsReleased, EffectsOK, HopsOK, SessionsOK, EffectHop,
     Admitted, GivenBack, PrepareFails, Admit, Charge, Mishap, Authorize
<1>7. ASSUME NEW x \in Hops, NEW h \in Handles, NEW r \in Requests, DecideFaults(x, h, r)
      PROVE  RefusedEffectIsReleased'
  BY <1>7 DEF RefusedEffectIsReleased, EffectsOK, HopsOK, SessionsOK, EffectHop,
     Admitted, GivenBack, DecideFaults, Turn, Charge, Mishap
<1>8. ASSUME NEW x \in Hops, Send(x) PROVE RefusedEffectIsReleased'
  BY <1>8 DEF RefusedEffectIsReleased, EffectsOK, HopsOK, SessionsOK, EffectHop,
     Admitted, GivenBack, Send
<1>9. ASSUME NEW x \in Hops, HopComplete(x) PROVE RefusedEffectIsReleased'
  <2>1. \A y \in Hops : /\ EffectHop(y)' <=> EffectHop(y)
                        /\ GivenBack(y)' <=> GivenBack(y)
                        /\ of'[y] = of[y]
    BY <1>9, CompleteFacts DEF EffectHop, Admitted, GivenBack
  <2>2. live' \subseteq live /\ effectUsed' = effectUsed
    BY <1>9, CompleteFacts
  <2>3. ASSUME NEW h \in live', effectUsed'[h]
        PROVE  \E y \in Hops : of'[y] = h /\ EffectHop(y)' /\ ~GivenBack(y)'
    <3>1. PICK y \in Hops : of[y] = h /\ EffectHop(y) /\ ~GivenBack(y)
      BY <2>2, <2>3, ReleasedForm
    <3>2. QED
      BY <3>1, <2>1
  <2>4. QED
    BY <2>3, ReleasedForm
<1>10. ASSUME NEW x \in Hops, HopHead(x) PROVE RefusedEffectIsReleased'
  BY <1>10 DEF RefusedEffectIsReleased, EffectsOK, HopsOK, SessionsOK, EffectHop,
     Admitted, GivenBack, HopHead, Answered, ObserveStatus
<1>11. ASSUME NEW x \in Hops, HangUp(x) \/ DropJob(x) \/ Stall(x) \/ Drain(x) PROVE RefusedEffectIsReleased'
  <2>1. /\ UNCHANGED <<live, effectUsed, of, request, status>>
        /\ \A y \in Hops : /\ stage'[y] \in {"new", "refused"} <=> stage[y] \in {"new", "refused"}
                           /\ head'[y] = "seen" <=> head[y] = "seen"
    BY <1>11 DEF HangUp, DropJob, Stall, Drain
  <2>2. SUFFICES ASSUME NEW h \in live', effectUsed'[h]
                 PROVE  \E y \in Hops :
                          /\ of'[y] = h /\ request'[y].shape = Effect
                          /\ stage'[y] \notin {"new", "refused"}
                          /\ ~(head'[y] = "seen" /\ status'[y] = "4xx")
    BY DEF RefusedEffectIsReleased
  <2>3. PICK y \in Hops : /\ of[y] = h /\ request[y].shape = Effect
                          /\ stage[y] \notin {"new", "refused"}
                          /\ ~(head[y] = "seen" /\ status[y] = "4xx")
    BY <2>1, <2>2 DEF RefusedEffectIsReleased
  <2>4. /\ of'[y] = h /\ request'[y].shape = Effect
        /\ stage'[y] \notin {"new", "refused"}
        /\ ~(head'[y] = "seen" /\ status'[y] = "4xx")
    BY <2>1, <2>3
  <2>5. QED
    BY <2>4, Zenon
<1>12. CASE DenyAll \/ LiftLockdown \/ CommitAuthority
  BY <1>12 DEF RefusedEffectIsReleased, DenyAll, LiftLockdown, CommitAuthority
<1>13. CASE Crash
  BY <1>13 DEF RefusedEffectIsReleased, EffectsOK, HopsOK, SessionsOK, EffectHop,
     Admitted, GivenBack, Crash, Mishap
<1>14. CASE Tick
  BY <1>14 DEF RefusedEffectIsReleased, EffectsOK, HopsOK, SessionsOK, EffectHop,
     Admitted, GivenBack, Tick
<1>15. CASE UNCHANGED vars
  BY <1>15 DEF RefusedEffectIsReleased, EffectsOK, HopsOK, SessionsOK, EffectHop,
     Admitted, GivenBack, vars
<1>16. QED
  BY <1>1, <1>2, <1>3, <1>4, <1>5, <1>6, <1>7, <1>8, <1>9, <1>10, <1>11, <1>12, <1>13,
     <1>14, <1>15 DEF Next, Decide, HopWork

(* A capture is of what the session itself made. *)
LEMMA CapturedStep == ASSUME SessionInv, [Next]_vars PROVE CapturedOK'
<1> USE RelayAssumption DEF SessionInv, TypeOK, sessions, hops, world, audit, provider
<1>1. ASSUME NEW h \in Handles, Open(h) PROVE CapturedOK'
  BY <1>1 DEF CapturedOK, HopsOK, EffectHop, Admitted, Open
<1>2. CASE Sweep
  BY <1>2 DEF CapturedOK, HopsOK, EffectHop, Admitted, Sweep, Mishap
<1>3. ASSUME NEW x \in Hops, NEW h \in Handles, NEW r \in Requests, RefuseHop(x, h, r)
      PROVE  CapturedOK'
  BY <1>3 DEF CapturedOK, HopsOK, EffectHop, Admitted, RefuseHop, Turn, Close, Mishap
<1>4. ASSUME NEW x \in Hops, NEW h \in Handles, NEW r \in Requests, RevokeHop(x, h, r)
      PROVE  CapturedOK'
  BY <1>4 DEF CapturedOK, HopsOK, EffectHop, Admitted, RevokeHop, Turn, Close, Charge,
     Mishap
<1>5. ASSUME NEW x \in Hops, NEW h \in Handles, NEW r \in Requests, ForwardHop(x, h, r)
      PROVE  CapturedOK'
  BY <1>5 DEF CapturedOK, HopsOK, EffectHop, Admitted, ForwardHop, Admit, Charge
<1>6. ASSUME NEW x \in Hops, NEW h \in Handles, NEW r \in Requests, PrepareFails(x, h, r)
      PROVE  CapturedOK'
  BY <1>6 DEF CapturedOK, HopsOK, EffectHop, Admitted, PrepareFails, Admit, Charge, Mishap
<1>7. ASSUME NEW x \in Hops, NEW h \in Handles, NEW r \in Requests, DecideFaults(x, h, r)
      PROVE  CapturedOK'
  BY <1>7 DEF CapturedOK, HopsOK, EffectHop, Admitted, DecideFaults, Turn, Charge, Mishap
<1>8. ASSUME NEW x \in Hops, Send(x) PROVE CapturedOK'
  BY <1>8 DEF CapturedOK, HopsOK, EffectHop, Admitted, Send
<1>9. ASSUME NEW x \in Hops, HopComplete(x) PROVE CapturedOK'
  <2>1. UNCHANGED <<landed, contradicts, of>>
    BY <1>9, CompleteFacts
  <2>2. CASE captured' = captured
    BY <2>1, <2>2 DEF CapturedOK
  <2>3. CASE Observed(x) /\ x \notin contradicts /\ captured' = Capture(of[x], x)
    <3>1. EffectHop(x) /\ status[x] = "2xx" /\ of[x] \in Handles
      BY <1>9, <2>3, CompleteFacts DEF EffectHop, Admitted, Observed
    <3>2. x \in landed
      BY <3>1 DEF HopsOK
    <3>3. QED
      BY <2>1, <2>3, <3>1, <3>2 DEF CapturedOK, Capture
  <2>4. QED
    BY <1>9, <2>2, <2>3, CompleteFacts
<1>10. ASSUME NEW x \in Hops, HopHead(x) PROVE CapturedOK'
  BY <1>10 DEF CapturedOK, HopsOK, EffectHop, Admitted, HopHead, Answered, ObserveStatus
<1>11. ASSUME NEW x \in Hops, HangUp(x) \/ DropJob(x) \/ Stall(x) \/ Drain(x) PROVE CapturedOK'
  BY <1>11 DEF CapturedOK, HopsOK, EffectHop, Admitted, HangUp, DropJob, Stall, Drain, Mishap
<1>12. CASE DenyAll \/ LiftLockdown \/ CommitAuthority
  BY <1>12 DEF CapturedOK, HopsOK, EffectHop, Admitted, DenyAll, LiftLockdown,
     CommitAuthority, Mishap
<1>13. CASE Crash
  BY <1>13 DEF CapturedOK, HopsOK, EffectHop, Admitted, Crash, Mishap
<1>14. CASE Tick
  BY <1>14 DEF CapturedOK, HopsOK, EffectHop, Admitted, Tick
<1>15. CASE UNCHANGED vars
  BY <1>15 DEF CapturedOK, HopsOK, EffectHop, Admitted, vars
<1>16. QED
  BY <1>1, <1>2, <1>3, <1>4, <1>5, <1>6, <1>7, <1>8, <1>9, <1>10, <1>11, <1>12, <1>13,
     <1>14, <1>15 DEF Next, Decide, HopWork

(* A credentialed poll reads what the session made. *)
LEMMA PollsStep == ASSUME SessionInv, [Next]_vars PROVE PollsReadOwnEffect'
<1> USE RelayAssumption DEF SessionInv, TypeOK, sessions, hops, world, audit, provider
<1>1. ASSUME NEW h \in Handles, Open(h) PROVE PollsReadOwnEffect'
  BY <1>1 DEF PollsReadOwnEffect, CapturedOK, HopsOK, EffectHop, Admitted, Open
<1>2. CASE Sweep
  BY <1>2 DEF PollsReadOwnEffect, CapturedOK, HopsOK, EffectHop, Admitted, Sweep, Mishap
<1>3. ASSUME NEW x \in Hops, NEW h \in Handles, NEW r \in Requests, RefuseHop(x, h, r)
      PROVE  PollsReadOwnEffect'
  BY <1>3 DEF PollsReadOwnEffect, CapturedOK, HopsOK, EffectHop, Admitted, RefuseHop,
     Turn, Close, Mishap
<1>4. ASSUME NEW x \in Hops, NEW h \in Handles, NEW r \in Requests, RevokeHop(x, h, r)
      PROVE  PollsReadOwnEffect'
  BY <1>4 DEF PollsReadOwnEffect, CapturedOK, HopsOK, EffectHop, Admitted, RevokeHop,
     Turn, Close, Charge, Mishap
<1>5. ASSUME NEW x \in Hops, NEW h \in Handles, NEW r \in Requests, ForwardHop(x, h, r)
      PROVE  PollsReadOwnEffect'
  BY <1>5 DEF PollsReadOwnEffect, CapturedOK, HopsOK, EffectHop, Admitted, ForwardHop,
     Admit, Charge, Authorize, PathBound
<1>6. ASSUME NEW x \in Hops, NEW h \in Handles, NEW r \in Requests, PrepareFails(x, h, r)
      PROVE  PollsReadOwnEffect'
  BY <1>6 DEF PollsReadOwnEffect, CapturedOK, HopsOK, EffectHop, Admitted, PrepareFails,
     Admit, Charge, Mishap, Authorize, PathBound
<1>7. ASSUME NEW x \in Hops, NEW h \in Handles, NEW r \in Requests, DecideFaults(x, h, r)
      PROVE  PollsReadOwnEffect'
  BY <1>7 DEF PollsReadOwnEffect, CapturedOK, HopsOK, EffectHop, Admitted, DecideFaults,
     Turn, Charge, Mishap
<1>8. ASSUME NEW x \in Hops, Send(x) PROVE PollsReadOwnEffect'
  BY <1>8 DEF PollsReadOwnEffect, CapturedOK, HopsOK, EffectHop, Admitted, Send
<1>9. ASSUME NEW x \in Hops, HopComplete(x) PROVE PollsReadOwnEffect'
  <2>1. /\ UNCHANGED <<of, request, landed, contradicts>>
        /\ \A y \in Hops : stage'[y] \in {"new", "refused"} <=> stage[y] \in {"new", "refused"}
    BY <1>9, CompleteFacts
  <2>2. QED
    BY <2>1 DEF PollsReadOwnEffect
<1>10. ASSUME NEW x \in Hops, HopHead(x) PROVE PollsReadOwnEffect'
  BY <1>10 DEF PollsReadOwnEffect, CapturedOK, HopsOK, EffectHop, Admitted, HopHead,
     Answered, ObserveStatus
<1>11. ASSUME NEW x \in Hops, HangUp(x) \/ DropJob(x) \/ Stall(x) \/ Drain(x) PROVE PollsReadOwnEffect'
  BY <1>11 DEF PollsReadOwnEffect, CapturedOK, HopsOK, EffectHop, Admitted, HangUp, Stall, Drain,
     DropJob, Mishap
<1>12. CASE DenyAll \/ LiftLockdown \/ CommitAuthority
  BY <1>12 DEF PollsReadOwnEffect, CapturedOK, HopsOK, EffectHop, Admitted, DenyAll,
     LiftLockdown, CommitAuthority, Mishap
<1>13. CASE Crash
  BY <1>13 DEF PollsReadOwnEffect, CapturedOK, HopsOK, EffectHop, Admitted, Crash, Mishap
<1>14. CASE Tick
  BY <1>14 DEF PollsReadOwnEffect, CapturedOK, HopsOK, EffectHop, Admitted, Tick
<1>15. CASE UNCHANGED vars
  BY <1>15 DEF PollsReadOwnEffect, CapturedOK, HopsOK, EffectHop, Admitted, vars
<1>16. QED
  BY <1>1, <1>2, <1>3, <1>4, <1>5, <1>6, <1>7, <1>8, <1>9, <1>10, <1>11, <1>12, <1>13,
     <1>14, <1>15 DEF Next, Decide, HopWork

(* A session is closed at most once, and not while it is live. *)
LEMMA ReceiptStep == ASSUME SessionInv, [Next]_vars PROVE OneReceipt'
<1> USE RelayAssumption DEF SessionInv, TypeOK, sessions, hops, world, audit, provider
<1>1. ASSUME NEW h \in Handles, Open(h) PROVE OneReceipt'
  BY <1>1 DEF OneReceipt, SessionsOK, Open
<1>2. CASE Sweep
  BY <1>2 DEF OneReceipt, SessionsOK, Sweep, Mishap
<1>3. ASSUME NEW x \in Hops, NEW h \in Handles, NEW r \in Requests, RefuseHop(x, h, r)
      PROVE  OneReceipt'
  BY <1>3 DEF OneReceipt, SessionsOK, RefuseHop, Turn, Close, Mishap
<1>4. ASSUME NEW x \in Hops, NEW h \in Handles, NEW r \in Requests, RevokeHop(x, h, r)
      PROVE  OneReceipt'
  BY <1>4 DEF OneReceipt, SessionsOK, RevokeHop, Turn, Close, Charge, Mishap
<1>5. ASSUME NEW x \in Hops, NEW h \in Handles, NEW r \in Requests, ForwardHop(x, h, r)
      PROVE  OneReceipt'
  BY <1>5 DEF OneReceipt, SessionsOK, ForwardHop, Admit, Charge
<1>6. ASSUME NEW x \in Hops, NEW h \in Handles, NEW r \in Requests, PrepareFails(x, h, r)
      PROVE  OneReceipt'
  BY <1>6 DEF OneReceipt, SessionsOK, PrepareFails, Admit, Charge, Mishap
<1>7. ASSUME NEW x \in Hops, NEW h \in Handles, NEW r \in Requests, DecideFaults(x, h, r)
      PROVE  OneReceipt'
  BY <1>7 DEF OneReceipt, SessionsOK, DecideFaults, Turn, Charge, Mishap
<1>8. ASSUME NEW x \in Hops, Send(x) PROVE OneReceipt'
  BY <1>8 DEF OneReceipt, SessionsOK, Send
<1>9. ASSUME NEW x \in Hops, HopComplete(x) PROVE OneReceipt'
  BY <1>9 DEF OneReceipt, SessionsOK, HopComplete, Observed, Capture, Close, Mishap
<1>10. ASSUME NEW x \in Hops, HopHead(x) PROVE OneReceipt'
  BY <1>10 DEF OneReceipt, SessionsOK, HopHead, Answered, ObserveStatus
<1>11. ASSUME NEW x \in Hops, HangUp(x) \/ DropJob(x) \/ Stall(x) \/ Drain(x) PROVE OneReceipt'
  BY <1>11 DEF OneReceipt, SessionsOK, HangUp, DropJob, Stall, Drain, Mishap
<1>12. CASE DenyAll \/ LiftLockdown \/ CommitAuthority
  BY <1>12 DEF OneReceipt, SessionsOK, DenyAll, LiftLockdown, CommitAuthority, Mishap
<1>13. CASE Crash
  BY <1>13 DEF OneReceipt, SessionsOK, Crash, Mishap
<1>14. CASE Tick
  BY <1>14 DEF OneReceipt, SessionsOK, Tick
<1>15. CASE UNCHANGED vars
  BY <1>15 DEF OneReceipt, SessionsOK, vars
<1>16. QED
  BY <1>1, <1>2, <1>3, <1>4, <1>5, <1>6, <1>7, <1>8, <1>9, <1>10, <1>11, <1>12, <1>13,
     <1>14, <1>15 DEF Next, Decide, HopWork

-----------------------------------------------------------------------------
(* The sessions: the invariant and what it gives. *)

(* The initial states satisfy the invariant. *)
LEMMA SessionInit == ASSUME Init PROVE SessionInv
<1> USE RelayAssumption DEF Init
<1>1. NoRequest \in AnyRequest
  BY DEF NoRequest, AnyRequest
<1>2. TypeOK
  BY <1>1 DEF TypeOK
<1>3. HopsOK /\ SessionsOK /\ EffectsOK /\ CapturedOK
  BY DEF HopsOK, SessionsOK, EffectsOK, CapturedOK, EffectHop, Admitted
<1>4. RefusedEffectIsReleased /\ PollsReadOwnEffect /\ OneReceipt
  BY DEF RefusedEffectIsReleased, PollsReadOwnEffect, OneReceipt
<1>5. QED
  BY <1>2, <1>3, <1>4 DEF SessionInv

(* Every step of a hop, a session, the owner, the clock or a crash keeps   *)
(* the invariant.                                                          *)
LEMMA SessionStep == ASSUME SessionInv, [Next]_vars PROVE SessionInv'
<1>1. TypeOK' /\ HopsOK' /\ SessionsOK' /\ EffectsOK'
  BY TypeStep, HopsStep, SessionsStep, EffectsStep
<1>2. RefusedEffectIsReleased' /\ CapturedOK' /\ PollsReadOwnEffect' /\ OneReceipt'
  BY ReleasedStep, CapturedStep, PollsStep, ReceiptStep
<1>3. QED
  BY <1>1, <1>2 DEF SessionInv

(* The invariant holds throughout, however the hops of a session overlap   *)
(* and whatever faults, revocations and crashes they meet.                 *)
THEOREM SessionInvariance == Spec => []SessionInv
<1>1. Init => SessionInv
  BY SessionInit
<1>2. SessionInv /\ [Next]_vars => SessionInv'
  BY SessionStep
<1>3. QED
  BY <1>1, <1>2, PTL DEF Spec

(* Two hops of one session cannot both have landed: one of them was        *)
(* refused, and what was refused did not land.                             *)
LEMMA OneLanding ==
    ASSUME SessionInv, NEW x \in landed, NEW y \in landed, of[x] = of[y]
    PROVE  x = y
<1>1. x \in Hops /\ y \in Hops
  BY DEF SessionInv, TypeOK
<1>2. /\ EffectHop(x) /\ ~GivenBack(x)
      /\ EffectHop(y) /\ ~GivenBack(y)
  BY <1>1 DEF SessionInv, HopsOK, GivenBack
<1>3. QED
  BY <1>1, <1>2 DEF SessionInv, EffectsOK

(* note_forward spends the effect before the hop runs and only a definite  *)
(* refusal gives it back, before the client can see it: the provider       *)
(* performs at most one effect per session, and no client that saw its     *)
(* create refused finds the effect still spent by it.                      *)
THEOREM EffectSpentOnceHolds == Spec => []EffectSpentOnce
<1>1. SessionInv => EffectSpentOnce
  BY OneLanding DEF EffectSpentOnce, OneEffectPerSession, SessionInv
<1>2. QED
  BY <1>1, SessionInvariance, PTL

(* path_bind_mismatch reads a write-once capture: every credentialed poll  *)
(* names the deployment this session's own effect made.                    *)
THEOREM PollsBound == Spec => []PollsReadOwnEffect
<1>1. SessionInv => PollsReadOwnEffect
  BY DEF SessionInv
<1>2. QED
  BY <1>1, SessionInvariance, PTL

-----------------------------------------------------------------------------
(* Sequences of rows. *)

(* The rows the sessions write. *)
HopFailures == {"local_execution_failure", "transport_no_response"}
Rows ==
    {r \in [type : {"relay_session_opened", "provider_action_succeeded", "relay_session_closed",
                    "relay_outcome_mismatch", "relay_request_refused", "relay_request_failed",
                    "relay_request_forwarded"},
            effect : BOOLEAN,
            says : HopFailures \cup {"none", "2xx", "4xx", "5xx", "postcondition_mismatch"},
            burned : BOOLEAN] :
        /\ r.type = "relay_request_forwarded" => r.says \in {"2xx", "4xx", "5xx"}
        /\ r.type = "relay_request_failed" => r.says \in HopFailures
        /\ r.type = "relay_outcome_mismatch" => r.says = "postcondition_mismatch" /\ r.burned}

(* The effect was answered with success, and its outcome was contradicted. *)
LandedRow(r) == r.type = "relay_request_forwarded" /\ r.effect /\ r.says = "2xx"
MismatchRow(r) == r.type = "relay_outcome_mismatch"

SaysLanded(l) == \E i \in DOMAIN l : LandedRow(l[i])
SaysMismatch(l) == \E i \in DOMAIN l : MismatchRow(l[i])
Ordered(l) == \A i, j \in DOMAIN l : MismatchRow(l[i]) /\ i < j => ~LandedRow(l[j])

(* What a log says after rows are added to it. *)
LEMMA ConcatFacts ==
    ASSUME NEW l \in Seq(Rows), NEW s \in Seq(Rows)
    PROVE  /\ l \o s \in Seq(Rows)
           /\ SaysLanded(l \o s) <=> SaysLanded(l) \/ SaysLanded(s)
           /\ SaysMismatch(l \o s) <=> SaysMismatch(l) \/ SaysMismatch(s)
           /\ /\ Ordered(l) /\ Ordered(s) /\ ~(SaysMismatch(l) /\ SaysLanded(s))
              => Ordered(l \o s)
<1> DEFINE n == Len(l)
           m == Len(s)
           c == l \o s
<1>1. /\ n \in Nat /\ m \in Nat /\ c \in Seq(Rows)
      /\ DOMAIN l = 1..n /\ DOMAIN s = 1..m /\ DOMAIN c = 1..(n + m)
  OBVIOUS
<1>2. /\ \A i \in 1..n : c[i] = l[i]
      /\ \A i \in 1..m : c[n + i] = s[i]
  OBVIOUS
<1>3. \A i \in DOMAIN c : \/ i \in DOMAIN l /\ c[i] = l[i]
                          \/ i - n \in DOMAIN s /\ c[i] = s[i - n] /\ i > n
  <2>1. ASSUME NEW i \in 1..(n + m), i > n PROVE i - n \in 1..m /\ i = n + (i - n)
    BY <1>1, <2>1
  <2>2. QED
    BY <1>1, <1>2, <2>1
<1> HIDE DEF n, m, c
<1>4. /\ \A i \in DOMAIN l : i \in DOMAIN c /\ c[i] = l[i]
      /\ \A i \in DOMAIN s : n + i \in DOMAIN c /\ c[n + i] = s[i]
  BY <1>1, <1>2
<1>5. SaysLanded(c) <=> SaysLanded(l) \/ SaysLanded(s)
  BY <1>3, <1>4 DEF SaysLanded
<1>6. SaysMismatch(c) <=> SaysMismatch(l) \/ SaysMismatch(s)
  BY <1>3, <1>4 DEF SaysMismatch
<1>7. ASSUME Ordered(l), Ordered(s), ~(SaysMismatch(l) /\ SaysLanded(s)),
             NEW i \in DOMAIN c, NEW j \in DOMAIN c, MismatchRow(c[i]), i < j, LandedRow(c[j])
      PROVE  FALSE
  <2>1. CASE i \in DOMAIN l /\ c[i] = l[i] /\ j \in DOMAIN l /\ c[j] = l[j]
    BY <1>7, <2>1 DEF Ordered
  <2>2. CASE i \in DOMAIN l /\ c[i] = l[i] /\ j - n \in DOMAIN s /\ c[j] = s[j - n]
    BY <1>7, <2>2 DEF SaysMismatch, SaysLanded
  <2>3. CASE i > n /\ j \in DOMAIN l
    BY <1>1, <1>7, <2>3
  <2>4. CASE i - n \in DOMAIN s /\ c[i] = s[i - n] /\ j - n \in DOMAIN s /\ c[j] = s[j - n]
    <3>1. i - n < j - n
      BY <1>1, <1>7
    <3>2. QED
      BY <1>7, <2>4, <3>1 DEF Ordered
  <2>5. QED
    BY <1>3, <2>1, <2>2, <2>3, <2>4
<1>8. QED
  BY <1>1, <1>5, <1>6, <1>7 DEF c, Ordered

(* The empty log, and one row. *)
LEMMA ShortFacts ==
    /\ << >> \in Seq(Rows) /\ ~SaysLanded(<< >>) /\ ~SaysMismatch(<< >>) /\ Ordered(<< >>)
    /\ \A r \in Rows : /\ <<r>> \in Seq(Rows) /\ Ordered(<<r>>)
                       /\ SaysLanded(<<r>>) <=> LandedRow(r)
                       /\ SaysMismatch(<<r>>) <=> MismatchRow(r)
  BY DEF SaysLanded, SaysMismatch, Ordered

-----------------------------------------------------------------------------
(* The log: what its rows say is what happened. *)

(* A log that says the effect succeeded is of a session whose effect the   *)
(* provider performed; one that says its outcome was contradicted is of a  *)
(* session whose only performer has been recorded, so no later row says    *)
(* that it succeeded.                                                      *)
TrailInv ==
    /\ trail \in [Handles -> Seq(Rows)]
    /\ \A h \in Handles :
         /\ SaysLanded(trail[h]) => \E x \in landed : of[x] = h
         /\ SaysMismatch(trail[h]) => \E y \in landed : of[y] = h /\ stage[y] = "done"
         /\ Ordered(trail[h])

(* A step that writes rows is a step of the sessions. *)
LEMMA LoggedIsStep == ASSUME [LoggedNext]_rvars PROVE [Next]_vars
<1>1. CASE UNCHANGED rvars
  BY <1>1 DEF rvars
<1>2. ASSUME NEW h \in Handles, OpenLogged(h) PROVE Next
  BY <1>2, Zenon DEF OpenLogged, Next
<1>3. ASSUME NEW x \in Hops, NEW h \in Handles, NEW r \in Requests,
             TurnLogged(x, h, r) \/ PrepareLogged(x, h, r)
      PROVE  Next
  BY <1>3, Zenon DEF TurnLogged, PrepareLogged, Next, Decide
<1>4. ASSUME NEW x \in Hops, CompleteLogged(x) PROVE Next
  BY <1>4, Zenon DEF CompleteLogged, Next, HopWork
<1>5. CASE SweepLogged
  BY <1>5, Zenon DEF SweepLogged, Next
<1>6. CASE Silent
  BY <1>6, Zenon DEF Silent, Next, Decide, HopWork
<1>7. QED
  BY <1>1, <1>2, <1>3, <1>4, <1>5, <1>6, Zenon DEF LoggedNext

(* What landed stays landed and what is done stays done. *)
LEMMA Persist ==
    ASSUME SessionInv, [Next]_vars, NEW y \in landed
    PROVE  /\ y \in landed' /\ of'[y] = of[y]
           /\ stage[y] = "done" => stage'[y] = "done"
<1> USE RelayAssumption DEF SessionInv, TypeOK, sessions, hops, world, audit, provider
<1> DEFINE G == /\ y \in landed' /\ of'[y] = of[y]
                /\ stage[y] = "done" => stage'[y] = "done"
<1>0. y \in Hops /\ stage[y] # "new"
  BY DEF HopsOK
<1>1. ASSUME NEW h \in Handles, Open(h) PROVE G
  BY <1>0, <1>1 DEF Open
<1>2. CASE Sweep
  BY <1>0, <1>2 DEF Sweep
<1>3. ASSUME NEW x \in Hops, NEW h \in Handles, NEW r \in Requests, Decide(x, h, r) PROVE G
  BY <1>0, <1>3 DEF Decide, RefuseHop, RevokeHop, ForwardHop, PrepareFails, DecideFaults, Turn, Admit
<1>4. ASSUME NEW x \in Hops, Send(x) PROVE G
  BY <1>0, <1>4 DEF Send
<1>5. ASSUME NEW x \in Hops, HopComplete(x) PROVE G
  BY <1>0, <1>5, CompleteFacts
<1>6. ASSUME NEW x \in Hops, HopHead(x) \/ HangUp(x) \/ DropJob(x) \/ Stall(x) \/ Drain(x) PROVE G
  BY <1>0, <1>6 DEF HopHead, HangUp, DropJob, Stall, Drain
<1>7. CASE DenyAll \/ LiftLockdown \/ CommitAuthority \/ Tick \/ UNCHANGED vars
  BY <1>0, <1>7 DEF DenyAll, LiftLockdown, CommitAuthority, Tick, vars
<1>8. CASE Crash
  BY <1>0, <1>8 DEF Crash
<1>9. QED
  BY <1>1, <1>2, <1>3, <1>4, <1>5, <1>6, <1>7, <1>8 DEF Next, HopWork

(* The rows of a step may be added to a log when they say no more than     *)
(* happened and no success after a contradicted outcome.                   *)
LEMMA Extends ==
    ASSUME SessionInv, TrailInv, [Next]_vars, NEW h \in Handles, NEW s \in Seq(Rows),
           trail'[h] = trail[h] \o s, Ordered(s),
           SaysLanded(s) => \E x \in landed' : of'[x] = h,
           SaysMismatch(s) => \E y \in landed' : of'[y] = h /\ stage'[y] = "done",
           ~(SaysMismatch(trail[h]) /\ SaysLanded(s))
    PROVE  /\ trail'[h] \in Seq(Rows)
           /\ SaysLanded(trail'[h]) => \E x \in landed' : of'[x] = h
           /\ SaysMismatch(trail'[h]) => \E y \in landed' : of'[y] = h /\ stage'[y] = "done"
           /\ Ordered(trail'[h])
<1>1. trail[h] \in Seq(Rows)
  BY DEF TrailInv
<1>2. /\ trail'[h] \in Seq(Rows)
      /\ SaysLanded(trail'[h]) <=> SaysLanded(trail[h]) \/ SaysLanded(s)
      /\ SaysMismatch(trail'[h]) <=> SaysMismatch(trail[h]) \/ SaysMismatch(s)
      /\ Ordered(trail[h]) => Ordered(trail'[h])
  BY <1>1, ConcatFacts
<1>3. SaysLanded(trail[h]) => \E x \in landed' : of'[x] = h
  BY Persist DEF TrailInv
<1>4. SaysMismatch(trail[h]) => \E y \in landed' : of'[y] = h /\ stage'[y] = "done"
  <2>1. ASSUME SaysMismatch(trail[h])
        PROVE  \E y \in landed : of[y] = h /\ stage[y] = "done"
    BY <2>1 DEF TrailInv
  <2>2. ASSUME NEW y \in landed, of[y] = h, stage[y] = "done"
        PROVE  y \in landed' /\ of'[y] = h /\ stage'[y] = "done"
    BY <2>2, Persist
  <2>3. QED
    BY <2>1, <2>2
<1>5. QED
  BY <1>2, <1>3, <1>4 DEF TrailInv

(* A row that says nothing of the effect. *)
Mute(s) == /\ s \in Seq(Rows) /\ Ordered(s)
           /\ ~SaysLanded(s) /\ ~SaysMismatch(s)

(* The rows that say nothing of the effect, and the one that says it went  *)
(* to the wrong place.                                                     *)
LEMMA MuteRows ==
    /\ Mute(<< >>) /\ Mute(<<Closed>>) /\ Mute(<<Opened, Minted>>)
    /\ Mismatch \in Rows /\ MismatchRow(Mismatch) /\ ~LandedRow(Mismatch)
    /\ \A h \in Handles : Mute(<<Refused(h)>>) /\ Mute(Receipt(h))
<1>1. /\ Opened \in Rows /\ Minted \in Rows /\ Closed \in Rows /\ Mismatch \in Rows
      /\ \A r \in {Opened, Minted, Closed} : ~LandedRow(r) /\ ~MismatchRow(r)
      /\ MismatchRow(Mismatch) /\ ~LandedRow(Mismatch)
  BY DEF Rows, Row, Opened, Minted, Closed, Mismatch, HopFailures, LandedRow, MismatchRow
<1>2. \A h \in Handles : /\ Refused(h) \in Rows
                         /\ ~LandedRow(Refused(h)) /\ ~MismatchRow(Refused(h))
  BY DEF Rows, Row, Refused, HopFailures, LandedRow, MismatchRow
<1>3. Mute(<< >>) /\ Mute(<<Closed>>)
  BY <1>1, ShortFacts DEF Mute
<1>4. Mute(<<Opened, Minted>>)
  <2> DEFINE s == <<Opened, Minted>>
  <2>1. s \in Seq(Rows) /\ DOMAIN s = {1, 2} /\ s[1] = Opened /\ s[2] = Minted
    BY <1>1
  <2> HIDE DEF s
  <2>2. \A i \in DOMAIN s : ~LandedRow(s[i]) /\ ~MismatchRow(s[i])
    BY <1>1, <2>1
  <2>3. Mute(s)
    BY <2>1, <2>2 DEF Mute, SaysLanded, SaysMismatch, Ordered
  <2>4. QED
    BY <2>3 DEF s
<1>5. \A h \in Handles : Mute(<<Refused(h)>>) /\ Mute(Receipt(h))
  BY <1>2, <1>3, ShortFacts DEF Mute, Receipt
<1>6. QED
  BY <1>1, <1>3, <1>4, <1>5

(* Rows that say nothing of the effect still say nothing when one follows  *)
(* the other.                                                              *)
LEMMA MuteConcat ==
    ASSUME NEW s, NEW t, Mute(s), Mute(t) PROVE Mute(s \o t)
  BY ConcatFacts DEF Mute

(* The row of a hop: it says the effect landed only when it was the        *)
(* effect and the provider said so.                                        *)
LEMMA HopRowFacts ==
    ASSUME SessionInv, NEW x \in Hops, request'[x] \in AnyRequest
    PROVE  /\ HopRow(x) \in Rows /\ ~MismatchRow(HopRow(x))
           /\ LandedRow(HopRow(x)) =>
                /\ stage'[x] # "unsent" /\ request'[x].shape = Effect
                /\ status[x] = "2xx"
<1> DEFINE e == request'[x].shape = Effect
<1>1. e \in BOOLEAN /\ status[x] \in {"2xx", "4xx", "5xx", "silent"}
  BY DEF SessionInv, TypeOK
<1>2. \/ /\ stage'[x] = "unsent"
         /\ HopRow(x) = Row("relay_request_failed", e, "local_execution_failure", FALSE)
      \/ /\ status[x] = "silent"
         /\ HopRow(x) = Row("relay_request_failed", e, "transport_no_response", FALSE)
      \/ /\ stage'[x] # "unsent" /\ status[x] # "silent"
         /\ HopRow(x) = Row("relay_request_forwarded", e, status[x], FALSE)
  BY DEF HopRow
<1> HIDE DEF e
<1>3. \A f \in HopFailures :
        /\ Row("relay_request_failed", e, f, FALSE) \in Rows
        /\ ~MismatchRow(Row("relay_request_failed", e, f, FALSE))
        /\ ~LandedRow(Row("relay_request_failed", e, f, FALSE))
  BY <1>1 DEF Row, Rows, HopFailures, LandedRow, MismatchRow
<1>4. \A a \in {"2xx", "4xx", "5xx"} :
        /\ Row("relay_request_forwarded", e, a, FALSE) \in Rows
        /\ ~MismatchRow(Row("relay_request_forwarded", e, a, FALSE))
        /\ LandedRow(Row("relay_request_forwarded", e, a, FALSE)) => e /\ a = "2xx"
  BY <1>1 DEF Row, Rows, HopFailures, LandedRow, MismatchRow
<1>5. QED
  BY <1>1, <1>2, <1>3, <1>4 DEF e, HopFailures

(* A hop's rows say that the effect landed only of a hop that landed, and  *)
(* no success follows a contradicted outcome: the session's one performer  *)
(* had been recorded by then, and this hop had not.                        *)
LEMMA CompleteTrail ==
    ASSUME SessionInv, TrailInv, NEW x \in Hops, CompleteLogged(x)
    PROVE  TrailInv'
<1> DEFINE h == of[x]
           row == IF stage'[x] = "done" THEN <<HopRow(x)>> ELSE << >>
<1>0. HopComplete(x) /\ [Next]_vars
  BY Zenon DEF CompleteLogged, Next, HopWork
<1>1. PICK s \in {<<Mismatch>>, << >>} :
        /\ h \in live \ live' \/ s = << >>
        /\ Log(h, row \o s \o Receipt(h))
  BY Zenon DEF CompleteLogged
<1>2. /\ stage[x] = "sent" /\ h \in Handles
      /\ request'[x] = request[x] /\ request[x] \in AnyRequest
      /\ UNCHANGED <<of, landed, request>>
  <2>1. stage[x] = "sent" /\ UNCHANGED <<of, landed, request>>
    BY <1>0, CompleteFacts DEF provider
  <2>2. of[x] \in everOpened
    BY <2>1 DEF SessionInv, HopsOK, Admitted
  <2>3. QED
    BY <2>1, <2>2 DEF SessionInv, TypeOK
<1>3. /\ row \in Seq(Rows) /\ Ordered(row) /\ ~SaysMismatch(row)
      /\ SaysLanded(row) => x \in landed
  <2>1. /\ HopRow(x) \in Rows /\ ~MismatchRow(HopRow(x))
        /\ LandedRow(HopRow(x)) => request[x].shape = Effect /\ status[x] = "2xx"
    BY <1>2, HopRowFacts
  <2>2. LandedRow(HopRow(x)) => x \in landed
    BY <1>2, <2>1 DEF SessionInv, HopsOK, EffectHop, Admitted
  <2>3. QED
    BY <2>1, <2>2, ShortFacts
<1>4. /\ s \in Seq(Rows) /\ Ordered(s) /\ ~SaysLanded(s)
      /\ SaysMismatch(s) => x \in landed /\ stage'[x] = "done"
  <2>1. CASE s = << >>
    BY <2>1, ShortFacts
  <2>2. CASE s = <<Mismatch>> /\ h \in live \ live'
    <3>1. Observed(x) /\ stage'[x] = "done"
      BY <1>0, <2>2, CompleteFacts DEF SessionInv, TypeOK
    <3>2. x \in landed
      BY <1>2, <3>1 DEF SessionInv, HopsOK, EffectHop, Admitted, Observed
    <3>3. QED
      BY <2>2, <3>1, <3>2, ShortFacts, MuteRows
  <2>3. QED
    BY <1>1, <2>1, <2>2
<1>5. Mute(Receipt(h))
  BY <1>2, MuteRows
<1> DEFINE new == row \o s \o Receipt(h)
<1>6. /\ new \in Seq(Rows) /\ Ordered(new)
      /\ SaysLanded(new) => x \in landed
      /\ SaysMismatch(new) => x \in landed /\ stage'[x] = "done"
      /\ SaysLanded(new) => SaysLanded(row)
  <2> HIDE DEF row
  <2>1. /\ row \o s \in Seq(Rows) /\ Ordered(row \o s)
        /\ SaysLanded(row \o s) => SaysLanded(row)
        /\ SaysMismatch(row \o s) => SaysMismatch(s)
    BY <1>3, <1>4, ConcatFacts
  <2>2. /\ new \in Seq(Rows) /\ Ordered(new)
        /\ SaysLanded(new) => SaysLanded(row \o s)
        /\ SaysMismatch(new) => SaysMismatch(row \o s)
    BY <1>5, <2>1, ConcatFacts DEF Mute
  <2>3. QED
    BY <1>3, <1>4, <2>1, <2>2
<1>7. ~(SaysMismatch(trail[h]) /\ SaysLanded(new))
  <2>1. SUFFICES ASSUME SaysMismatch(trail[h]), x \in landed PROVE FALSE
    BY <1>6
  <2>2. PICK y \in landed : of[y] = h /\ stage[y] = "done"
    BY <1>2, <2>1 DEF TrailInv
  <2>3. QED
    BY <1>2, <2>1, <2>2, OneLanding
<1>8. trail' = [trail EXCEPT ![h] = @ \o new]
  BY <1>1 DEF Log
<1> HIDE DEF new, row
<1>9. ASSUME NEW k \in Handles
      PROVE  /\ trail'[k] \in Seq(Rows)
             /\ SaysLanded(trail'[k]) => \E z \in landed' : of'[z] = k
             /\ SaysMismatch(trail'[k]) => \E y \in landed' : of'[y] = k /\ stage'[y] = "done"
             /\ Ordered(trail'[k])
  <2>1. CASE k = h
    <3>1. trail'[k] = trail[k] \o new
      BY <1>2, <1>8, <2>1 DEF TrailInv
    <3>2. QED
      BY <1>0, <1>2, <1>6, <1>7, <2>1, <3>1, Extends, ZenonT(60)
  <2>2. CASE k # h
    <3>1. trail'[k] = trail[k] \o << >>
      BY <1>8, <2>2 DEF TrailInv
    <3>2. QED
      BY <1>0, <3>1, Extends, ShortFacts
  <2>3. QED
    BY <2>1, <2>2
<1>10. trail' \in [Handles -> Seq(Rows)]
  BY <1>8, <1>9 DEF TrailInv
<1>11. QED
  BY <1>9, <1>10 DEF TrailInv

(* A step whose rows say nothing of the effect. *)
LEMMA MuteTrail ==
    ASSUME SessionInv, TrailInv, [Next]_vars, NEW h \in Handles,
           trail'[h] = <<Opened, Minted>> \/ \E s : Mute(s) /\ trail'[h] = trail[h] \o s
    PROVE  /\ trail'[h] \in Seq(Rows)
           /\ SaysLanded(trail'[h]) => \E x \in landed' : of'[x] = h
           /\ SaysMismatch(trail'[h]) => \E y \in landed' : of'[y] = h /\ stage'[y] = "done"
           /\ Ordered(trail'[h])
<1>1. CASE trail'[h] = <<Opened, Minted>>
  BY <1>1, MuteRows DEF Mute
<1>2. ASSUME NEW s, Mute(s), trail'[h] = trail[h] \o s
      PROVE  /\ trail'[h] \in Seq(Rows)
             /\ SaysLanded(trail'[h]) => \E x \in landed' : of'[x] = h
             /\ SaysMismatch(trail'[h]) => \E y \in landed' : of'[y] = h /\ stage'[y] = "done"
             /\ Ordered(trail'[h])
  BY <1>2, Extends DEF Mute
<1>3. QED
  BY <1>1, <1>2

(* Every step keeps the log true. *)
LEMMA TrailStep == ASSUME SessionInv, TrailInv, [LoggedNext]_rvars PROVE TrailInv'
<1> USE DEF TrailInv
<1> DEFINE Says(k, s) == Mute(s) /\ trail'[k] = trail[k] \o s
<1>0. [Next]_vars
  BY LoggedIsStep
<1>1. ASSUME NEW h \in Handles, OpenLogged(h) PROVE TrailInv'
  <2>1. trail' = [s \in Handles |-> IF s = h THEN <<Opened, Minted>> ELSE trail[s] \o Receipt(s)]
    BY <1>1 DEF OpenLogged
  <2>2. ASSUME NEW k \in Handles
        PROVE  trail'[k] = <<Opened, Minted>> \/ \E s : Says(k, s)
    BY <2>1, MuteRows
  <2>3. QED
    BY <1>0, <2>1, <2>2, MuteTrail, ZenonT(60)
<1>2. CASE SweepLogged
  <2>1. trail' = [s \in Handles |-> trail[s] \o Receipt(s)]
    BY <1>2 DEF SweepLogged
  <2>2. ASSUME NEW k \in Handles PROVE \E s : Says(k, s)
    BY <2>1, MuteRows
  <2>3. QED
    BY <1>0, <2>1, <2>2, MuteTrail
<1>3. ASSUME NEW h \in Handles, NEW t, Mute(t), Log(h, t) PROVE TrailInv'
  <2>1. trail' = [trail EXCEPT ![h] = @ \o t]
    BY <1>3 DEF Log
  <2>2. ASSUME NEW k \in Handles PROVE \E s : Says(k, s)
    <3>1. CASE k = h
      BY <1>3, <2>1, <3>1
    <3>2. CASE k # h
      <4>1. trail'[k] = trail[k] \o << >>
        BY <2>1, <3>2
      <4>2. QED
        BY <4>1, MuteRows
    <3>3. QED
      BY <3>1, <3>2
  <2>3. QED
    BY <1>0, <2>1, <2>2, MuteTrail
<1>4. ASSUME NEW x \in Hops, NEW h \in Handles, NEW r \in Requests, TurnLogged(x, h, r)
      PROVE  TrailInv'
  <2>1. PICK s \in {<<Refused(h)>>, << >>} : Log(h, s \o Receipt(h))
    BY <1>4, Zenon DEF TurnLogged
  <2>2. Mute(s \o Receipt(h))
    BY <2>1, MuteRows, MuteConcat
  <2>3. QED
    BY <1>3, <2>1, <2>2
<1>5. ASSUME NEW x \in Hops, NEW h \in Handles, NEW r \in Requests, PrepareLogged(x, h, r)
      PROVE  TrailInv'
  <2>1. /\ Log(h, <<HopRow(x)>>)
        /\ stage' = [stage EXCEPT ![x] = "unsent"] /\ request' = [request EXCEPT ![x] = r]
    BY <1>5 DEF PrepareLogged, PrepareFails, Admit
  <2>2. stage'[x] = "unsent" /\ request'[x] \in AnyRequest
    BY <2>1 DEF SessionInv, TypeOK, Requests
  <2>3. Mute(<<HopRow(x)>>)
    BY <2>2, HopRowFacts, ShortFacts DEF Mute
  <2>4. QED
    BY <1>3, <2>1, <2>3
<1>6. CASE UNCHANGED trail
  <2>1. ASSUME NEW k \in Handles PROVE \E s : Says(k, s)
    <3>1. trail'[k] = trail[k] \o << >>
      BY <1>6
    <3>2. QED
      BY <3>1, MuteRows
  <2>2. QED
    BY <1>0, <1>6, <2>1, MuteTrail
<1>7. QED
  BY <1>1, <1>2, <1>4, <1>5, <1>6, CompleteTrail DEF LoggedNext, rvars

-----------------------------------------------------------------------------
(* The readers of the log. *)

(* A nonempty set of natural numbers has a least member. *)
LEMMA LeastNat ==
    ASSUME NEW T \in SUBSET Nat, T # {}
    PROVE  \E x \in T : \A y \in T : x <= y
<1> DEFINE Less == {ss \in Nat \X Nat : ss[1] < ss[2]}
<1>1. IsWellFoundedOn(Less, Nat)
  BY NatLessThanWellFounded DEF OpToRel
<1>2. PICK x \in T : \A y \in T : ~(<<y, x>> \in Less)
  BY <1>1, WFMin
<1>3. ASSUME NEW y \in T PROVE x <= y
  <2>1. <<y, x>> \notin Less
    BY <1>2
  <2>2. ~(y < x)
    BY <2>1
  <2>3. QED
    BY <2>2
<1>4. QED
  BY <1>3

(* A nonempty set of positions has a last one, and it is the one chosen. *)
LEMMA LastIndex ==
    ASSUME NEW n \in Nat, NEW S \in SUBSET (1..n), S # {}
    PROVE  LET m == CHOOSE i \in S : \A j \in S : j <= i IN m \in S /\ \A j \in S : j <= m
<1> DEFINE T == {n - i : i \in S}
<1>1. T \in SUBSET Nat /\ T # {}
  <2>1. \A i \in S : n - i \in Nat
    OBVIOUS
  <2>2. PICK i \in S : TRUE
    OBVIOUS
  <2>3. n - i \in T
    BY <2>2
  <2>4. QED
    BY <2>1, <2>3
<1>2. PICK d \in T : \A e \in T : d <= e
  BY <1>1, LeastNat
<1>3. PICK m \in S : d = n - m
  OBVIOUS
<1>4. ASSUME NEW j \in S PROVE j <= m
  <2>1. n - m <= n - j
    BY <1>2, <1>3
  <2>2. QED
    BY <2>1
<1>5. \E i \in S : \A j \in S : j <= i
  BY <1>4
<1>6. QED
  BY <1>5

(* What each row says of the effect. *)
LEMMA VerdictFacts ==
    ASSUME NEW r \in Rows
    PROVE  /\ EffectVerdict(r) \notin {"none", "unsaid"}
           /\ EffectVerdict(r) = "landed" <=> LandedRow(r)
           /\ MismatchRow(r) => EffectVerdict(r) = "postcondition_mismatch" /\ r.burned
<1>1. CASE r.type = "relay_request_forwarded" /\ r.effect
  <2>1. r.says \in {"2xx", "4xx", "5xx"}
    BY <1>1 DEF Rows
  <2>2. EffectVerdict(r) = IF r.says = "2xx" THEN "landed" ELSE ClassOf(r.says)
    BY <1>1 DEF EffectVerdict
  <2>3. QED
    BY <1>1, <2>1, <2>2 DEF ClassOf, LandedRow, MismatchRow
<1>2. CASE r.type = "relay_request_failed" /\ r.effect
  <2>1. r.says \in HopFailures
    BY <1>2 DEF Rows
  <2>2. EffectVerdict(r) = r.says
    BY <1>2 DEF EffectVerdict
  <2>3. QED
    BY <1>2, <2>1, <2>2 DEF HopFailures, LandedRow, MismatchRow
<1>3. CASE r.type = "relay_outcome_mismatch"
  <2>1. r.says = "postcondition_mismatch" /\ r.burned
    BY <1>3 DEF Rows
  <2>2. EffectVerdict(r) = r.says
    BY <1>3 DEF EffectVerdict
  <2>3. QED
    BY <1>3, <2>1, <2>2 DEF LandedRow, MismatchRow
<1>4. CASE /\ ~(r.type = "relay_request_forwarded" /\ r.effect)
           /\ ~(r.type = "relay_request_failed" /\ r.effect)
           /\ r.type # "relay_outcome_mismatch"
  <2>1. EffectVerdict(r) = "silent"
    BY <1>4 DEF EffectVerdict
  <2>2. QED
    BY <1>4, <2>1 DEF LandedRow, MismatchRow
<1>5. QED
  BY <1>1, <1>2, <1>3, <1>4

(* The last word on the effect is `landed` only when a row says that it    *)
(* landed and none says that its outcome was contradicted.                 *)
LEMMA LastWordFacts ==
    ASSUME TrailInv, NEW h \in Handles
    PROVE  /\ LastWord(h) # "none"
           /\ LastWord(h) = "landed" => SaysLanded(trail[h]) /\ ~SaysMismatch(trail[h])
           /\ SaysMismatch(trail[h]) => Burned(h)
<1> DEFINE l == trail[h]
           S == Spoken(h)
           m == CHOOSE i \in S : \A j \in S : j <= i
<1>1. l \in Seq(Rows) /\ Ordered(l) /\ Len(l) \in Nat /\ DOMAIN l = 1..Len(l)
  BY DEF TrailInv
<1>2. \A i \in DOMAIN l : l[i] \in Rows
  BY <1>1
<1>3. SaysMismatch(l) => Burned(h)
  BY <1>2, VerdictFacts DEF SaysMismatch, Burned
<1>4. CASE S = {}
  BY <1>3, <1>4 DEF LastWord
<1>5. CASE S # {}
  <2>1. S \in SUBSET (1..Len(l))
    BY <1>1 DEF Spoken
  <2>2. m \in S /\ \A j \in S : j <= m
    BY <1>1, <1>5, <2>1, LastIndex
  <2>3. m \in DOMAIN l /\ l[m] \in Rows
    BY <1>2, <2>2 DEF Spoken
  <2>4. LastWord(h) = EffectVerdict(l[m])
    BY <1>5 DEF LastWord, LastOf
  <2> HIDE DEF m
  <2>5. ASSUME LastWord(h) = "landed" PROVE SaysLanded(l) /\ ~SaysMismatch(l)
    <3>1. LandedRow(l[m])
      BY <2>3, <2>4, <2>5, VerdictFacts
    <3>2. ASSUME NEW i \in DOMAIN l, MismatchRow(l[i]) PROVE FALSE
      <4>1. i \in S
        BY <1>2, <3>2, VerdictFacts DEF Spoken
      <4>2. i <= m
        BY <2>2, <4>1
      <4>3. i # m
        BY <3>1, <3>2 DEF LandedRow, MismatchRow
      <4>4. i < m
        BY <1>1, <2>3, <4>2, <4>3
      <4>5. QED
        BY <1>1, <2>3, <3>1, <3>2, <4>4 DEF Ordered
    <3>3. QED
      BY <2>3, <3>1, <3>2 DEF SaysLanded, SaysMismatch
  <2>6. QED
    BY <1>3, <2>3, <2>4, <2>5, VerdictFacts
<1>6. QED
  BY <1>4, <1>5

(* Both invariants give honest receipts. *)
LEMMA HonestReceipts == ASSUME SessionInv, TrailInv PROVE ReceiptHonest
<1>0. OneReceipt
  BY DEF SessionInv
<1>1. ASSUME NEW h \in everOpened
      PROVE  /\ (EffectState(h) = "ok") <=> (LastWord(h) = "landed")
             /\ (Landed(h) = "no") <=> (LastWord(h) \notin {"unsaid", "landed"})
             /\ (Landed(h) = "yes") <=> (LastWord(h) = "landed")
  BY DEF EffectState, Landed
<1>2. everOpened \subseteq Handles
  BY DEF SessionInv, TypeOK
<1>3. ReceiptsAgree
  BY <1>1, <1>2, LastWordFacts DEF ReceiptsAgree, EffectFailureClass
<1>4. ASSUME NEW h \in everOpened
      PROVE  /\ EffectState(h) = "ok" => \E x \in landed : of[x] = h
             /\ HasRow(h, {"relay_outcome_mismatch"}) => EffectState(h) = "burned"
  <2>1. EffectState(h) = "ok" => \E x \in landed : of[x] = h
    BY <1>1, <1>2, LastWordFacts DEF TrailInv
  <2>2. ASSUME HasRow(h, {"relay_outcome_mismatch"}) PROVE EffectState(h) = "burned"
    <3>1. SaysMismatch(trail[h])
      BY <2>2 DEF HasRow, SaysMismatch, MismatchRow
    <3>2. Burned(h) /\ Landed(h) # "yes"
      BY <1>1, <1>2, <3>1, LastWordFacts
    <3>3. QED
      BY <3>2 DEF EffectState
  <2>3. QED
    BY <2>1, <2>2
<1>5. QED
  BY <1>0, <1>3, <1>4 DEF ReceiptHonest, ReceiptTrue

(* The sessions with their log are the sessions: every behaviour that      *)
(* writes rows is a behaviour of RelaySession.                             *)
THEOREM LogImplementsSessions == LoggedSpec => Spec
<1>1. LoggedInit => Init
  BY DEF LoggedInit
<1>2. [LoggedNext]_rvars => [Next]_vars
  BY LoggedIsStep
<1>3. QED
  BY <1>1, <1>2, PTL DEF LoggedSpec, Spec

(* What the rows of a grant say of its effect holds throughout, in         *)
(* whatever order its overlapping hops are recorded: a row that says an    *)
(* effect landed is of one that did, and a mismatch ends the session.      *)
THEOREM TrailInvariance == LoggedSpec => [](SessionInv /\ TrailInv)
<1>1. LoggedInit => SessionInv /\ TrailInv
  BY SessionInit, ShortFacts DEF LoggedInit, TrailInv
<1>2. SessionInv /\ TrailInv /\ [LoggedNext]_rvars => (SessionInv /\ TrailInv)'
  BY LoggedIsStep, SessionStep, TrailStep
<1>3. QED
  BY <1>1, <1>2, PTL DEF LoggedSpec

(* effect_state and effect_failure_class, folded from the rows: `ok` is of *)
(* an effect the provider performed, a contradicted outcome reads burned,  *)
(* the two readings agree, and a session is closed at most once.  The      *)
(* converse, that an effect that landed reads `ok`, does not hold.         *)
THEOREM ReceiptsHonest == LoggedSpec => []ReceiptHonest
<1>1. SessionInv /\ TrailInv => ReceiptHonest
  BY HonestReceipts
<1>2. QED
  BY <1>1, TrailInvariance, PTL
=============================================================================
