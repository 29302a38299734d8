------------------------- MODULE LockdownLatchProofs -------------------------
(***************************************************************************)
(* The inductive invariant of LockdownLatch, and that the latch holds for  *)
(* every number of owner connections, requests, failed writes, crashes and *)
(* power losses.                                                           *)
(***************************************************************************)
EXTENDS LockdownLatch, TLAPS

Writing == {"sweep", "record", "confirm"}   \* the places of a scan or a transition

(* The mutex is held exactly at the places that need it; an engage that is *)
(* waited for has its guard; a transition or an adoption finds the gate    *)
(* engaged from the moment it has the mutex.                               *)
LockOK ==
    \A t \in Threads :
        /\ pc[t] \in Writing \cup {"prune"} <=> lock = t
        /\ pc[t] \in {"record", "confirm"} => TransitionJob(t)
        /\ job[t] = "engage" => guard[t]
        /\ pc[t] \in Writing /\ job[t] # "claim" => eff

(* An occurrence not yet drawn is nowhere; one whose intent says more than *)
(* "intent" was durable.                                                   *)
BoxOK ==
    \A o \in Occs :
        /\ target[o] = "unset" => o \notin landed /\ o \notin recMay /\ boxMay[o] = {"absent"}
        /\ "confirmed" \in boxMay[o] \/ "delivered" \in boxMay[o] => o \in landed

(* A record that a power loss may undo still has its bare intent, and the  *)
(* intent of the visible record is not torn.                               *)
RecordOK ==
    /\ recMay # {rec} => rec \in Occs /\ box[rec] = "intent"
    /\ rec \in Occs =>
         /\ box[rec] = "intent" => boxMay[rec] = {"intent"}
         /\ box[rec] # "absent" => "absent" \notin boxMay[rec]

(* What a thread knows at each place: past the reconcile the visible       *)
(* record is confirmed; before a record is written its intent, and all the *)
(* outbox with it, is durable; before it is confirmed it is the record.    *)
PhaseOK ==
    \A t \in Threads :
        /\ pc[t] \in {"sweep", "record"} => ~NeedsConfirm
        /\ pc[t] = "record" =>
             /\ occ[t] \in Occs /\ occ[t] # rec /\ target[occ[t]] = job[t]
             /\ box[occ[t]] = "intent" /\ \A p \in Occs : boxMay[p] = {box[p]}
        /\ pc[t] = "confirm" =>
             /\ rec = occ[t] /\ recMay = {rec} /\ rec \in landed
             /\ target[rec] = job[t] /\ box[rec] = "intent"

(* What a thread delivers was durable, and is marked once it is logged. *)
DeliveryOK ==
    \A t \in Threads :
        /\ \A o \in todo[t] : o \in landed /\ box[o] # "intent"
        /\ pc[t] \in {"mark", "prune", "release"} => occ[t] \in landed /\ box[occ[t]] # "intent"
        /\ pc[t] \in {"mark", "prune"} => log[occ[t]] > 0

OpenOK ==
    ~eff => /\ recMay = {rec} /\ rec # NoRecord /\ ~Engaged(rec)
            /\ rec \in Occs => "absent" \notin boxMay[rec]

PromiseOK == promised => eff /\ \A r \in recMay : r # NoRecord /\ Engaged(r)

LatchInv ==
    /\ TypeOK /\ LockOK /\ BoxOK /\ RecordOK /\ PhaseOK /\ DeliveryOK
    /\ OpenOK /\ PromiseOK /\ AuditTrue /\ AuditNotLost

-----------------------------------------------------------------------------
(* A thread that leaves, fails or goes on keeps the types of the control. *)
LEMMA ControlType ==
    ASSUME TypeOK, NEW t \in Threads, NEW place \in Places,
           Fail(t) \/ Continue(t, place) \/ Leave(t, place)
    PROVE  /\ pc' \in [Threads -> Places] /\ job' \in [Threads -> Jobs]
           /\ guard' \in [Threads -> BOOLEAN] /\ lock' \in Threads \cup {NoThread}
<1>1. CASE Fail(t)
  <2>1. /\ lock' = NoThread
        /\ \/ pc' = [pc EXCEPT ![t] = "idle"] \/ pc' = [pc EXCEPT ![t] = "deliver"]
           \/ pc' = [pc EXCEPT ![t] = "replay"]
        /\ job' = job \/ job' = [job EXCEPT ![t] = "none"]
        /\ guard' = guard \/ guard' = [guard EXCEPT ![t] = FALSE]
    BY <1>1 DEF Fail
  <2>2. pc' \in [Threads -> Places]
    BY <2>1 DEF TypeOK, Places
  <2>3. job' \in [Threads -> Jobs]
    BY <2>1 DEF TypeOK, Jobs
  <2>4. guard' \in [Threads -> BOOLEAN]
    BY <2>1 DEF TypeOK
  <2>5. QED
    BY <2>1, <2>2, <2>3, <2>4
<1>2. CASE Continue(t, place) \/ Leave(t, place)
  BY <1>2 DEF Continue, Leave, TypeOK
<1>3. QED
  BY <1>1, <1>2

(* A write of the outbox keeps its types. *)
LEMMA OutboxType ==
    ASSUME TypeOK, NEW o \in Occs, NEW s \in Stages, NEW how \in Outcomes, PutIntent(o, s, how)
    PROVE  /\ box' \in [Occs -> Stages] /\ boxMay' \in [Occs -> SUBSET Stages]
           /\ \A p \in Occs : box'[p] \in boxMay'[p]
<1>1. CASE how = "nothing"
  BY <1>1 DEF PutIntent, TypeOK
<1>2. CASE how = "renamed"
  BY <1>2 DEF PutIntent, TypeOK
<1>3. CASE how = "synced"
  BY <1>3 DEF PutIntent, TypeOK
<1>4. QED
  BY <1>1, <1>2, <1>3 DEF Outcomes

(* The count of mishaps stays in its bound. *)
LEMMA SpendType ==
    ASSUME TypeOK, MaxMishaps \in Nat, NEW how, Spend(how)
    PROVE  mishaps' \in 0..MaxMishaps
  BY DEF Spend, TypeOK

(* Every variable keeps its type. *)
LEMMA TypeStep == ASSUME LatchAssumption, LatchInv, [Next]_vars PROVE TypeOK'
<1> USE DEF LatchAssumption, LatchInv, disk, gate, threads
<1>0. /\ Keeper \in Threads /\ Callers \subseteq Threads /\ MaxMishaps \in Nat /\ TypeOK
      /\ {"idle", "queued", "sweep", "record", "confirm", "replay", "deliver"} \subseteq Places
      /\ {"absent", "intent", "confirmed", "delivered"} \subseteq Stages
  BY DEF Threads, Places, Stages
<1>1. ASSUME NEW c \in Callers, NEW engage \in BOOLEAN, Request(c, engage) PROVE TypeOK'
  BY <1>0, <1>1 DEF Request, Acquire, RoomForRequest, TypeOK, Jobs
<1>2. ASSUME NEW t \in Threads, StartClaim(t) PROVE TypeOK'
  BY <1>0, <1>2 DEF StartClaim, TypeOK, Jobs
<1>3. ASSUME NEW t \in Threads, Done(t) PROVE TypeOK'
  BY <1>0, <1>3 DEF Done, TypeOK, Jobs
<1>4. ASSUME NEW t \in Threads, NEW o \in Occs, Deliver(t, o) PROVE TypeOK'
  BY <1>0, <1>4 DEF Deliver, RecordLockdownTransition, TypeOK, Places, Spend
<1>5. ASSUME NEW t \in Threads, ReconcileLiveIntent(t) PROVE TypeOK'
  <2>1. PICK ok \in BOOLEAN, how \in Outcomes :
          /\ Spend(how) /\ SyncRecordParent(ok) /\ PutIntent(rec, "confirmed", how)
          /\ IF Err(how) THEN Fail(t)
             ELSE /\ pc' = [pc EXCEPT ![t] = "sweep"] /\ lock' = t
                  /\ UNCHANGED <<job, guard>>
    BY <1>5 DEF ReconcileLiveIntent
  <2>2. /\ rec \in Occs /\ eff' \in {eff, TRUE}
        /\ UNCHANGED <<rec, target, inFlight, occ, todo, log, serving, requests, promised>>
    BY <1>5 DEF ReconcileLiveIntent, NeedsConfirm, Enter
  <2>3. /\ box' \in [Occs -> Stages] /\ boxMay' \in [Occs -> SUBSET Stages]
        /\ \A p \in Occs : box'[p] \in boxMay'[p]
    BY <1>0, <2>1, <2>2, OutboxType
  <2>4. /\ pc' \in [Threads -> Places] /\ job' \in [Threads -> Jobs]
        /\ guard' \in [Threads -> BOOLEAN] /\ lock' \in Threads \cup {NoThread}
    <3>1. CASE Fail(t)
      BY <1>0, <3>1, ControlType
    <3>2. CASE /\ pc' = [pc EXCEPT ![t] = "sweep"] /\ lock' = t
               /\ UNCHANGED <<job, guard>>
      BY <1>0, <3>2 DEF TypeOK
    <3>3. QED
      BY <2>1, <3>1, <3>2
  <2>5. mishaps' \in 0..MaxMishaps
    BY <1>0, <2>1, SpendType
  <2>6. QED
    BY <2>1, <2>2, <2>3, <2>4, <2>5 DEF TypeOK, SyncRecordParent
<1>6. ASSUME NEW t \in Threads, NothingToConfirm(t) PROVE TypeOK'
  BY <1>0, <1>6 DEF NothingToConfirm, Enter, TypeOK
<1>7. ASSUME NEW t \in Threads, ReadFails(t) PROVE TypeOK'
  <2>1. /\ pc' \in [Threads -> Places] /\ job' \in [Threads -> Jobs]
        /\ guard' \in [Threads -> BOOLEAN] /\ lock' \in Threads \cup {NoThread}
    BY <1>0, <1>7, ControlType DEF ReadFails
  <2>2. eff' \in {eff, TRUE} /\ mishaps' \in 0..MaxMishaps
    BY <1>0, <1>7 DEF ReadFails, Enter, TypeOK
  <2>3. eff' \in BOOLEAN
    BY <1>0, <2>2 DEF TypeOK
  <2>4. QED
    BY <1>0, <1>7, <2>1, <2>2, <2>3 DEF ReadFails, TypeOK
<1>8. ASSUME NEW t \in Threads, MarkAuditDelivered(t) PROVE TypeOK'
  BY <1>0, <1>8, SMTT(60) DEF MarkAuditDelivered, PutIntent, TypeOK, Spend, Err, Places, Stages, Outcomes,
     DeliveryOK
<1>9. ASSUME NEW t \in Threads, ReleaseAuditClaim(t) PROVE TypeOK'
  BY <1>0, <1>9 DEF ReleaseAuditClaim, TypeOK
<1>10. ASSUME NEW t \in Threads, NEW o \in Occs, SweepOrphan(t, o) PROVE TypeOK'
  <2>1. PICK how \in Outcomes :
          Spend(how) /\ PutIntent(o, "absent", how) /\ Step(t, how, "sweep")
    BY <1>10 DEF SweepOrphan
  <2>2. QED
    BY <1>0, <1>10, <2>1, OutboxType, SpendType, ControlType DEF SweepOrphan, Step, TypeOK
<1>11. ASSUME NEW t \in Threads, NEW o \in Occs, WriteIntent(t, o) PROVE TypeOK'
  <2>1. PICK how \in Outcomes :
          Spend(how) /\ PutIntent(o, "intent", how) /\ Step(t, how, "record")
    BY <1>11 DEF WriteIntent
  <2>2. QED
    BY <1>0, <1>11, <2>1, OutboxType, SpendType, ControlType
       DEF WriteIntent, TransitionJob, Step, TypeOK
<1>12. ASSUME NEW t \in Threads, Repeat(t) PROVE TypeOK'
  <2>1. Leave(t, "replay") /\ eff' \in BOOLEAN /\ promised' \in BOOLEAN
    BY <1>12 DEF Repeat
  <2>2. QED
    BY <1>0, <1>12, <2>1, ControlType DEF Repeat, TypeOK
<1>13. ASSUME NEW t \in Threads, WriteRecord(t) PROVE TypeOK'
  <2>1. PICK how \in Outcomes :
          /\ Spend(how) /\ PutRecord(occ[t], how) /\ Step(t, how, "confirm")
          /\ promised' = (promised /\ (job[t] = "engage" \/ how = "nothing"))
    BY <1>13 DEF WriteRecord
  <2>2. promised' \in BOOLEAN
    BY <2>1
  <2>3. occ[t] \in Occs
    BY <1>13 DEF WriteRecord, PhaseOK
  <2>4. /\ rec' \in recMay' /\ recMay' \subseteq Occs \cup {Bootstrap, NoRecord}
        /\ landed' \subseteq Occs
    BY <2>1, <2>3 DEF PutRecord, Outcomes, TypeOK
  <2>5. QED
    BY <1>0, <1>13, <2>1, <2>2, <2>4, SpendType, ControlType DEF WriteRecord, Step, TypeOK
<1>14. ASSUME NEW t \in Threads, ConfirmIntent(t) PROVE TypeOK'
  <2>1. PICK how \in Outcomes :
          /\ Spend(how) /\ PutIntent(occ[t], "confirmed", how)
          /\ IF Err(how) THEN Fail(t) /\ UNCHANGED <<eff, promised>>
             ELSE /\ Leave(t, "replay")
                  /\ eff' = (job[t] = "engage") /\ promised' = (job[t] = "engage")
    BY <1>14, Zenon DEF ConfirmIntent
  <2>2. occ[t] \in Occs
    BY <1>0, <1>14 DEF ConfirmIntent, PhaseOK, TypeOK
  <2>3. eff' \in BOOLEAN /\ promised' \in BOOLEAN
    BY <1>0, <2>1 DEF TypeOK
  <2>4. QED
    BY <1>0, <1>14, <2>1, <2>2, <2>3, OutboxType, SpendType, ControlType
       DEF ConfirmIntent, TypeOK
<1>15. ASSUME NEW t \in Threads, Adopt(t) \/ ClaimPendingAudits(t) PROVE TypeOK'
  <2>1. Leave(t, "replay") \/ Leave(t, "deliver")
    BY <1>15 DEF Adopt, ClaimPendingAudits
  <2>2. eff' \in BOOLEAN
    BY <1>0, <1>15 DEF Adopt, ClaimPendingAudits, PublishRecord, EffectiveRecordState, TypeOK
  <2>3. QED
    BY <1>0, <1>15, <2>1, <2>2, ControlType DEF Adopt, ClaimPendingAudits, TypeOK
<1>16. ASSUME NEW t \in Threads, PruneDelivered(t) PROVE TypeOK'
  BY <1>0, <1>16, SMTT(60) DEF PruneDelivered, Superseded, PutIntent, TypeOK, Spend, Err, Places, Stages,
     Outcomes, DeliveryOK
<1>17. ASSUME Boot PROVE /\ eff' \in BOOLEAN /\ guard' \in [Threads -> BOOLEAN]
                         /\ lock' \in Threads \cup {NoThread} /\ inFlight' \subseteq Occs
                         /\ pc' \in [Threads -> Places] /\ job' \in [Threads -> Jobs]
                         /\ occ' \in [Threads -> Occs \cup {Bootstrap}]
                         /\ todo' \in [Threads -> SUBSET Occs] /\ serving' \in BOOLEAN
                         /\ mishaps' \in 0..MaxMishaps
  <2>1. /\ eff' \in BOOLEAN /\ guard' \in [Threads -> BOOLEAN] /\ serving' \in BOOLEAN
        /\ lock' \in Threads \cup {NoThread} /\ inFlight' \subseteq Occs
    BY <1>17 DEF Boot
  <2>2. pc' \in [Threads -> Places] /\ job' \in [Threads -> Jobs]
    BY <1>17 DEF Boot, Places, Jobs
  <2>3. occ' \in [Threads -> Occs \cup {Bootstrap}] /\ todo' \in [Threads -> SUBSET Occs]
    BY <1>17 DEF Boot
  <2>4. mishaps' \in 0..MaxMishaps
    BY <1>0, <1>17 DEF Boot, TypeOK
  <2>5. QED
    BY <2>1, <2>2, <2>3, <2>4
<1>18. CASE Crash
  BY <1>17, <1>18 DEF Crash, Boot, TypeOK
<1>19. CASE PowerLoss
  <2>1. /\ box' \in [Occs -> Stages] /\ boxMay' \in [Occs -> SUBSET Stages]
        /\ \A o \in Occs : box'[o] \in boxMay'[o]
    BY <1>19 DEF PowerLoss
  <2>2. rec' \in recMay' /\ recMay' \subseteq Occs \cup {Bootstrap, NoRecord}
    BY <1>0, <1>19 DEF PowerLoss, TypeOK
  <2>3. QED
    BY <1>17, <1>19, <2>1, <2>2 DEF PowerLoss, Boot, TypeOK
<1>20. CASE UNCHANGED vars
  BY <1>20 DEF vars, TypeOK
<1>21. QED
  BY <1>0, <1>1, <1>2, <1>3, <1>4, <1>5, <1>6, <1>7, <1>8, <1>9, <1>10, <1>11, <1>12, <1>13,
     <1>14, <1>15, <1>16, <1>18, <1>19, <1>20 DEF Next, Unlocked, Locking, Locked, Tick, Replay

(* Threads take the mutex, the gate and their guards in the order the code does. *)
LEMMA LockStep == ASSUME LatchAssumption, LatchInv, [Next]_vars PROVE LockOK'
<1> USE DEF LatchAssumption, LatchInv, TypeOK, disk, gate, threads, Threads, Stages,
   Jobs, Places, Outcomes, Spend, Err, LockOK, Writing, TransitionJob
<1>1. ASSUME NEW c \in Callers, NEW engage \in BOOLEAN, Request(c, engage) PROVE LockOK'
  BY <1>1 DEF Request, Acquire, RoomForRequest
<1>2. ASSUME NEW t \in Threads, Replay(t) PROVE LockOK'
  BY <1>2 DEF Replay, StartClaim
<1>3. CASE Tick
  BY <1>3 DEF Tick, StartClaim
<1>4. ASSUME NEW t \in Threads, Done(t) PROVE LockOK'
  BY <1>4 DEF Done
<1>5. ASSUME NEW t \in Threads, NEW o \in Occs, Deliver(t, o) PROVE LockOK'
  BY <1>5 DEF Deliver, RecordLockdownTransition
<1>6. ASSUME NEW t \in Threads, ReconcileLiveIntent(t) PROVE LockOK'
  BY <1>6 DEF ReconcileLiveIntent, Enter, NeedsConfirm, SyncRecordParent, PutIntent,
     Fail
<1>7. ASSUME NEW t \in Threads, NothingToConfirm(t) PROVE LockOK'
  BY <1>7 DEF NothingToConfirm, Enter, NeedsConfirm
<1>8. ASSUME NEW t \in Threads, ReadFails(t) PROVE LockOK'
  BY <1>8 DEF ReadFails, Enter, Fail
<1>9. ASSUME NEW t \in Threads, MarkAuditDelivered(t) PROVE LockOK'
  BY <1>9 DEF MarkAuditDelivered, PutIntent
<1>10. ASSUME NEW t \in Threads, ReleaseAuditClaim(t) PROVE LockOK'
  BY <1>10 DEF ReleaseAuditClaim
<1>11. ASSUME NEW t \in Threads, NEW o \in Occs, SweepOrphan(t, o) PROVE LockOK'
  BY <1>11 DEF SweepOrphan, IsOrphan, PutIntent, Step, Continue, Fail
<1>12. ASSUME NEW t \in Threads, NEW o \in Occs, WriteIntent(t, o) PROVE LockOK'
  BY <1>12 DEF WriteIntent, Swept, PutIntent, Step, Continue, Fail
<1>13. ASSUME NEW t \in Threads, Repeat(t) PROVE LockOK'
  BY <1>13 DEF Repeat, Swept, AlreadyThere, Leave
<1>14. ASSUME NEW t \in Threads, WriteRecord(t) PROVE LockOK'
  BY <1>14 DEF WriteRecord, PutRecord, Step, Continue, Fail
<1>15. ASSUME NEW t \in Threads, ConfirmIntent(t) PROVE LockOK'
  BY <1>15 DEF ConfirmIntent, PutIntent, Leave, Fail
<1>16. ASSUME NEW t \in Threads, Adopt(t) PROVE LockOK'
  BY <1>16 DEF Adopt, Swept, PublishRecord, Leave
<1>17. ASSUME NEW t \in Threads, ClaimPendingAudits(t) PROVE LockOK'
  BY <1>17 DEF ClaimPendingAudits, Swept, PublishRecord, Leave
<1>18. ASSUME NEW t \in Threads, PruneDelivered(t) PROVE LockOK'
  BY <1>18 DEF PruneDelivered, Superseded, PutIntent
<1>19. CASE Crash
  BY <1>19 DEF Crash, Boot
<1>20. CASE PowerLoss
  BY <1>20 DEF PowerLoss, Boot
<1>21. CASE UNCHANGED vars
  BY <1>21 DEF vars
<1>22. QED
  BY <1>1, <1>2, <1>3, <1>4, <1>5, <1>6, <1>7, <1>8, <1>9, <1>10, <1>11, <1>12, <1>13,
     <1>14, <1>15, <1>16, <1>17, <1>18, <1>19, <1>20, <1>21 DEF Next, Unlocked, Locking,
     Locked

(* No intent says more of a transition than its record bears out. *)
LEMMA BoxStep == ASSUME LatchAssumption, LatchInv, [Next]_vars PROVE BoxOK'
<1> USE DEF LatchAssumption, LatchInv, TypeOK, disk, gate, threads, Threads, Stages,
   Jobs, Places, Outcomes, Spend, Err, BoxOK, PhaseOK, LockOK, DeliveryOK
<1>1. ASSUME NEW c \in Callers, NEW engage \in BOOLEAN, Request(c, engage) PROVE BoxOK'
  BY <1>1 DEF Request, Acquire, RoomForRequest
<1>2. ASSUME NEW t \in Threads, Replay(t) PROVE BoxOK'
  BY <1>2 DEF Replay, StartClaim
<1>3. CASE Tick
  BY <1>3 DEF Tick, StartClaim
<1>4. ASSUME NEW t \in Threads, Done(t) PROVE BoxOK'
  BY <1>4 DEF Done
<1>5. ASSUME NEW t \in Threads, NEW o \in Occs, Deliver(t, o) PROVE BoxOK'
  BY <1>5 DEF Deliver, RecordLockdownTransition
<1>6. ASSUME NEW t \in Threads, ReconcileLiveIntent(t) PROVE BoxOK'
  BY <1>6 DEF ReconcileLiveIntent, Enter, NeedsConfirm, SyncRecordParent, PutIntent,
     Fail
<1>7. ASSUME NEW t \in Threads, NothingToConfirm(t) PROVE BoxOK'
  BY <1>7 DEF NothingToConfirm, Enter, NeedsConfirm
<1>8. ASSUME NEW t \in Threads, ReadFails(t) PROVE BoxOK'
  BY <1>8 DEF ReadFails, Enter, Fail
<1>9. ASSUME NEW t \in Threads, MarkAuditDelivered(t) PROVE BoxOK'
  BY <1>9 DEF MarkAuditDelivered, PutIntent
<1>10. ASSUME NEW t \in Threads, ReleaseAuditClaim(t) PROVE BoxOK'
  BY <1>10 DEF ReleaseAuditClaim
<1>11. ASSUME NEW t \in Threads, NEW o \in Occs, SweepOrphan(t, o) PROVE BoxOK'
  BY <1>11 DEF SweepOrphan, IsOrphan, PutIntent, Step, Continue, Fail
<1>12. ASSUME NEW t \in Threads, NEW o \in Occs, WriteIntent(t, o) PROVE BoxOK'
  BY <1>12 DEF WriteIntent, Swept, TransitionJob, PutIntent, Step, Continue, Fail
<1>13. ASSUME NEW t \in Threads, Repeat(t) PROVE BoxOK'
  BY <1>13 DEF Repeat, Swept, TransitionJob, AlreadyThere, Leave
<1>14. ASSUME NEW t \in Threads, WriteRecord(t) PROVE BoxOK'
  BY <1>14 DEF WriteRecord, PutRecord, TransitionJob, Step, Continue, Fail
<1>15. ASSUME NEW t \in Threads, ConfirmIntent(t) PROVE BoxOK'
  BY <1>15 DEF ConfirmIntent, PutIntent, TransitionJob, Leave, Fail
<1>16. ASSUME NEW t \in Threads, Adopt(t) PROVE BoxOK'
  BY <1>16 DEF Adopt, Swept, PublishRecord, Leave
<1>17. ASSUME NEW t \in Threads, ClaimPendingAudits(t) PROVE BoxOK'
  BY <1>17 DEF ClaimPendingAudits, Swept, PublishRecord, Leave
<1>18. ASSUME NEW t \in Threads, PruneDelivered(t) PROVE BoxOK'
  BY <1>18 DEF PruneDelivered, Superseded, PutIntent
<1>19. CASE Crash
  BY <1>19 DEF Crash, Boot
<1>20. CASE PowerLoss
  BY <1>20 DEF PowerLoss, Boot
<1>21. CASE UNCHANGED vars
  BY <1>21 DEF vars
<1>22. QED
  BY <1>1, <1>2, <1>3, <1>4, <1>5, <1>6, <1>7, <1>8, <1>9, <1>10, <1>11, <1>12, <1>13,
     <1>14, <1>15, <1>16, <1>17, <1>18, <1>19, <1>20, <1>21 DEF Next, Unlocked, Locking,
     Locked

(* A record that is not durable keeps its bare intent. *)
LEMMA RecordStep == ASSUME LatchAssumption, LatchInv, [Next]_vars PROVE RecordOK'
<1> USE DEF LatchAssumption, LatchInv, TypeOK, disk, gate, threads, Threads, Stages,
   Jobs, Places, Outcomes, Spend, Err, RecordOK, BoxOK, PhaseOK, LockOK, DeliveryOK,
   Writing, NeedsConfirm
<1>1. ASSUME NEW c \in Callers, NEW engage \in BOOLEAN, Request(c, engage) PROVE RecordOK'
  BY <1>1 DEF Request, Acquire, RoomForRequest
<1>2. ASSUME NEW t \in Threads, Replay(t) PROVE RecordOK'
  BY <1>2 DEF Replay, StartClaim
<1>3. CASE Tick
  BY <1>3 DEF Tick, StartClaim
<1>4. ASSUME NEW t \in Threads, Done(t) PROVE RecordOK'
  BY <1>4 DEF Done
<1>5. ASSUME NEW t \in Threads, NEW o \in Occs, Deliver(t, o) PROVE RecordOK'
  BY <1>5 DEF Deliver, RecordLockdownTransition
<1>6. ASSUME NEW t \in Threads, ReconcileLiveIntent(t) PROVE RecordOK'
  BY <1>6 DEF ReconcileLiveIntent, Enter, SyncRecordParent, PutIntent, Fail
<1>7. ASSUME NEW t \in Threads, NothingToConfirm(t) PROVE RecordOK'
  BY <1>7 DEF NothingToConfirm, Enter
<1>8. ASSUME NEW t \in Threads, ReadFails(t) PROVE RecordOK'
  BY <1>8 DEF ReadFails, Enter, Fail
<1>9. ASSUME NEW t \in Threads, MarkAuditDelivered(t) PROVE RecordOK'
  BY <1>9 DEF MarkAuditDelivered, PutIntent
<1>10. ASSUME NEW t \in Threads, ReleaseAuditClaim(t) PROVE RecordOK'
  BY <1>10 DEF ReleaseAuditClaim
<1>11. ASSUME NEW t \in Threads, NEW o \in Occs, SweepOrphan(t, o) PROVE RecordOK'
  BY <1>11 DEF SweepOrphan, IsOrphan, PutIntent, Step, Continue, Fail
<1>12. ASSUME NEW t \in Threads, NEW o \in Occs, WriteIntent(t, o) PROVE RecordOK'
  BY <1>12 DEF WriteIntent, Swept, TransitionJob, PutIntent, Step, Continue, Fail
<1>13. ASSUME NEW t \in Threads, Repeat(t) PROVE RecordOK'
  BY <1>13 DEF Repeat, Swept, TransitionJob, AlreadyThere, Leave
<1>14. ASSUME NEW t \in Threads, WriteRecord(t) PROVE RecordOK'
  BY <1>14 DEF WriteRecord, PutRecord, TransitionJob, Step, Continue, Fail
<1>15. ASSUME NEW t \in Threads, ConfirmIntent(t) PROVE RecordOK'
  BY <1>15 DEF ConfirmIntent, PutIntent, TransitionJob, Leave, Fail
<1>16. ASSUME NEW t \in Threads, Adopt(t) PROVE RecordOK'
  BY <1>16 DEF Adopt, Swept, PublishRecord, Leave
<1>17. ASSUME NEW t \in Threads, ClaimPendingAudits(t) PROVE RecordOK'
  BY <1>17 DEF ClaimPendingAudits, Swept, PublishRecord, Leave
<1>18. ASSUME NEW t \in Threads, PruneDelivered(t) PROVE RecordOK'
  BY <1>18 DEF PruneDelivered, Superseded, PutIntent
<1>19. CASE Crash
  BY <1>19 DEF Crash, Boot
<1>20. CASE PowerLoss
  BY <1>20 DEF PowerLoss, Boot
<1>21. CASE UNCHANGED vars
  BY <1>21 DEF vars
<1>22. QED
  BY <1>1, <1>2, <1>3, <1>4, <1>5, <1>6, <1>7, <1>8, <1>9, <1>10, <1>11, <1>12, <1>13,
     <1>14, <1>15, <1>16, <1>17, <1>18, <1>19, <1>20, <1>21 DEF Next, Unlocked, Locking,
     Locked

(* Each place of a transition finds the disk as its earlier steps left it. *)
LEMMA PhaseStep == ASSUME LatchAssumption, LatchInv, [Next]_vars PROVE PhaseOK'
<1> USE DEF LatchAssumption, LatchInv, TypeOK, disk, gate, threads, Threads, Stages,
   Jobs, Places, Outcomes, Spend, Err, PhaseOK, RecordOK, BoxOK, LockOK, DeliveryOK,
   Writing, NeedsConfirm
<1>1. ASSUME NEW c \in Callers, NEW engage \in BOOLEAN, Request(c, engage) PROVE PhaseOK'
  BY <1>1 DEF Request, Acquire, RoomForRequest
<1>2. ASSUME NEW t \in Threads, Replay(t) PROVE PhaseOK'
  BY <1>2 DEF Replay, StartClaim
<1>3. CASE Tick
  BY <1>3 DEF Tick, StartClaim
<1>4. ASSUME NEW t \in Threads, Done(t) PROVE PhaseOK'
  BY <1>4 DEF Done
<1>5. ASSUME NEW t \in Threads, NEW o \in Occs, Deliver(t, o) PROVE PhaseOK'
  BY <1>5 DEF Deliver, RecordLockdownTransition
<1>6. ASSUME NEW t \in Threads, ReconcileLiveIntent(t) PROVE PhaseOK'
  BY <1>6 DEF ReconcileLiveIntent, Enter, SyncRecordParent, PutIntent, Fail
<1>7. ASSUME NEW t \in Threads, NothingToConfirm(t) PROVE PhaseOK'
  BY <1>7 DEF NothingToConfirm, Enter
<1>8. ASSUME NEW t \in Threads, ReadFails(t) PROVE PhaseOK'
  BY <1>8 DEF ReadFails, Enter, Fail
<1>9. ASSUME NEW t \in Threads, MarkAuditDelivered(t) PROVE PhaseOK'
  BY <1>9 DEF MarkAuditDelivered, PutIntent
<1>10. ASSUME NEW t \in Threads, ReleaseAuditClaim(t) PROVE PhaseOK'
  BY <1>10 DEF ReleaseAuditClaim
<1>11. ASSUME NEW t \in Threads, NEW o \in Occs, SweepOrphan(t, o) PROVE PhaseOK'
  BY <1>11 DEF SweepOrphan, IsOrphan, PutIntent, Step, Continue, Fail
<1>12. ASSUME NEW t \in Threads, NEW o \in Occs, WriteIntent(t, o) PROVE PhaseOK'
  BY <1>12 DEF WriteIntent, Swept, TransitionJob, PutIntent, Step, Continue, Fail
<1>13. ASSUME NEW t \in Threads, Repeat(t) PROVE PhaseOK'
  BY <1>13 DEF Repeat, Swept, TransitionJob, AlreadyThere, Leave
<1>14. ASSUME NEW t \in Threads, WriteRecord(t) PROVE PhaseOK'
  BY <1>14 DEF WriteRecord, PutRecord, TransitionJob, Step, Continue, Fail
<1>15. ASSUME NEW t \in Threads, ConfirmIntent(t) PROVE PhaseOK'
  BY <1>15 DEF ConfirmIntent, PutIntent, TransitionJob, Leave, Fail
<1>16. ASSUME NEW t \in Threads, Adopt(t) PROVE PhaseOK'
  BY <1>16 DEF Adopt, Swept, PublishRecord, Leave
<1>17. ASSUME NEW t \in Threads, ClaimPendingAudits(t) PROVE PhaseOK'
  BY <1>17 DEF ClaimPendingAudits, Swept, PublishRecord, Leave
<1>18. ASSUME NEW t \in Threads, PruneDelivered(t) PROVE PhaseOK'
  BY <1>18 DEF PruneDelivered, Superseded, PutIntent
<1>19. CASE Crash
  BY <1>19 DEF Crash, Boot
<1>20. CASE PowerLoss
  BY <1>20 DEF PowerLoss, Boot
<1>21. CASE UNCHANGED vars
  BY <1>21 DEF vars
<1>22. QED
  BY <1>1, <1>2, <1>3, <1>4, <1>5, <1>6, <1>7, <1>8, <1>9, <1>10, <1>11, <1>12, <1>13,
     <1>14, <1>15, <1>16, <1>17, <1>18, <1>19, <1>20, <1>21 DEF Next, Unlocked, Locking,
     Locked

(* Only durable transitions are delivered, and marked after they are logged. *)
LEMMA DeliveryStep == ASSUME LatchAssumption, LatchInv, [Next]_vars PROVE DeliveryOK'
<1> USE DEF LatchAssumption, LatchInv, TypeOK, disk, gate, threads, Threads, Stages,
   Jobs, Places, Outcomes, Spend, Err, DeliveryOK, BoxOK, PhaseOK, LockOK, Writing
<1>1. ASSUME NEW c \in Callers, NEW engage \in BOOLEAN, Request(c, engage) PROVE DeliveryOK'
  BY <1>1 DEF Request, Acquire, RoomForRequest
<1>2. ASSUME NEW t \in Threads, Replay(t) PROVE DeliveryOK'
  BY <1>2 DEF Replay, StartClaim
<1>3. CASE Tick
  BY <1>3 DEF Tick, StartClaim
<1>4. ASSUME NEW t \in Threads, Done(t) PROVE DeliveryOK'
  BY <1>4 DEF Done
<1>5. ASSUME NEW t \in Threads, NEW o \in Occs, Deliver(t, o) PROVE DeliveryOK'
  BY <1>5 DEF Deliver, RecordLockdownTransition
<1>6. ASSUME NEW t \in Threads, ReconcileLiveIntent(t) PROVE DeliveryOK'
  BY <1>6 DEF ReconcileLiveIntent, Enter, NeedsConfirm, SyncRecordParent, PutIntent,
     Fail
<1>7. ASSUME NEW t \in Threads, NothingToConfirm(t) PROVE DeliveryOK'
  BY <1>7 DEF NothingToConfirm, Enter, NeedsConfirm
<1>8. ASSUME NEW t \in Threads, ReadFails(t) PROVE DeliveryOK'
  BY <1>8 DEF ReadFails, Enter, Fail
<1>9. ASSUME NEW t \in Threads, MarkAuditDelivered(t) PROVE DeliveryOK'
  BY <1>9 DEF MarkAuditDelivered, PutIntent
<1>10. ASSUME NEW t \in Threads, ReleaseAuditClaim(t) PROVE DeliveryOK'
  BY <1>10 DEF ReleaseAuditClaim
<1>11. ASSUME NEW t \in Threads, NEW o \in Occs, SweepOrphan(t, o) PROVE DeliveryOK'
  BY <1>11 DEF SweepOrphan, IsOrphan, PutIntent, Step, Continue, Fail
<1>12. ASSUME NEW t \in Threads, NEW o \in Occs, WriteIntent(t, o) PROVE DeliveryOK'
  BY <1>12 DEF WriteIntent, Swept, TransitionJob, PutIntent, Step, Continue, Fail
<1>13. ASSUME NEW t \in Threads, Repeat(t) PROVE DeliveryOK'
  BY <1>13 DEF Repeat, Swept, TransitionJob, AlreadyThere, Leave
<1>14. ASSUME NEW t \in Threads, WriteRecord(t) PROVE DeliveryOK'
  BY <1>14 DEF WriteRecord, PutRecord, TransitionJob, Step, Continue, Fail
<1>15. ASSUME NEW t \in Threads, ConfirmIntent(t) PROVE DeliveryOK'
  BY <1>15 DEF ConfirmIntent, PutIntent, TransitionJob, Leave, Fail
<1>16. ASSUME NEW t \in Threads, Adopt(t) PROVE DeliveryOK'
  BY <1>16 DEF Adopt, Swept, PublishRecord, Leave
<1>17. ASSUME NEW t \in Threads, ClaimPendingAudits(t) PROVE DeliveryOK'
  BY <1>17 DEF ClaimPendingAudits, Swept, PublishRecord, Leave
<1>18. ASSUME NEW t \in Threads, PruneDelivered(t) PROVE DeliveryOK'
  BY <1>18 DEF PruneDelivered, Superseded, PutIntent
<1>19. CASE Crash
  BY <1>19 DEF Crash, Boot
<1>20. CASE PowerLoss
  BY <1>20 DEF PowerLoss, Boot
<1>21. CASE UNCHANGED vars
  BY <1>21 DEF vars
<1>22. QED
  BY <1>1, <1>2, <1>3, <1>4, <1>5, <1>6, <1>7, <1>8, <1>9, <1>10, <1>11, <1>12, <1>13,
     <1>14, <1>15, <1>16, <1>17, <1>18, <1>19, <1>20, <1>21 DEF Next, Unlocked, Locking,
     Locked

(* The gate opens only on a clear that every power loss leaves in place. *)
LEMMA OpenStep == ASSUME LatchAssumption, LatchInv, [Next]_vars PROVE OpenOK'
<1> USE DEF LatchAssumption, LatchInv, TypeOK, disk, gate, threads, Threads, Stages,
   Jobs, Places, Outcomes, Spend, Err, OpenOK, RecordOK, BoxOK, PhaseOK, LockOK,
   Writing, Engaged, EffectiveRecordState, NeedsConfirm
<1>1. ASSUME NEW c \in Callers, NEW engage \in BOOLEAN, Request(c, engage) PROVE OpenOK'
  BY <1>1 DEF Request, Acquire, RoomForRequest
<1>2. ASSUME NEW t \in Threads, Replay(t) PROVE OpenOK'
  BY <1>2 DEF Replay, StartClaim
<1>3. CASE Tick
  BY <1>3 DEF Tick, StartClaim
<1>4. ASSUME NEW t \in Threads, Done(t) PROVE OpenOK'
  BY <1>4 DEF Done
<1>5. ASSUME NEW t \in Threads, NEW o \in Occs, Deliver(t, o) PROVE OpenOK'
  BY <1>5 DEF Deliver, RecordLockdownTransition
<1>6. ASSUME NEW t \in Threads, ReconcileLiveIntent(t) PROVE OpenOK'
  BY <1>6 DEF ReconcileLiveIntent, Enter, SyncRecordParent, PutIntent, Fail
<1>7. ASSUME NEW t \in Threads, NothingToConfirm(t) PROVE OpenOK'
  BY <1>7 DEF NothingToConfirm, Enter
<1>8. ASSUME NEW t \in Threads, ReadFails(t) PROVE OpenOK'
  BY <1>8 DEF ReadFails, Enter, Fail
<1>9. ASSUME NEW t \in Threads, MarkAuditDelivered(t) PROVE OpenOK'
  BY <1>9 DEF MarkAuditDelivered, PutIntent
<1>10. ASSUME NEW t \in Threads, ReleaseAuditClaim(t) PROVE OpenOK'
  BY <1>10 DEF ReleaseAuditClaim
<1>11. ASSUME NEW t \in Threads, NEW o \in Occs, SweepOrphan(t, o) PROVE OpenOK'
  BY <1>11 DEF SweepOrphan, IsOrphan, PutIntent, Step, Continue, Fail
<1>12. ASSUME NEW t \in Threads, NEW o \in Occs, WriteIntent(t, o) PROVE OpenOK'
  BY <1>12 DEF WriteIntent, Swept, TransitionJob, PutIntent, Step, Continue, Fail
<1>13. ASSUME NEW t \in Threads, Repeat(t) PROVE OpenOK'
  <2>1. CASE job[t] = "engage"
    BY <1>13, <2>1 DEF OpenOK, Repeat
  <2>2. CASE job[t] # "engage"
    <3>1. rec # NoRecord /\ ~Engaged(rec) /\ ~EffectiveRecordState(rec)
      BY <1>13, <2>2, Zenon DEF Repeat, AlreadyThere
    <3>2. pc[t] = "sweep" /\ UNCHANGED <<rec, recMay, boxMay, target>>
      BY <1>13 DEF Repeat, Swept
    <3>3. recMay = {rec}
      BY <3>2 DEF PhaseOK, RecordOK, NeedsConfirm
    <3>4. QED
      BY <3>1, <3>2, <3>3 DEF OpenOK, RecordOK, Engaged, EffectiveRecordState
  <2>3. QED
    BY <2>1, <2>2
<1>14. ASSUME NEW t \in Threads, WriteRecord(t) PROVE OpenOK'
  BY <1>14 DEF WriteRecord, PutRecord, TransitionJob, Step, Continue, Fail
<1>15. ASSUME NEW t \in Threads, ConfirmIntent(t) PROVE OpenOK'
  BY <1>15 DEF ConfirmIntent, PutIntent, TransitionJob, Leave, Fail
<1>16. ASSUME NEW t \in Threads, Adopt(t) PROVE OpenOK'
  BY <1>16 DEF Adopt, Swept, PublishRecord, Leave
<1>17. ASSUME NEW t \in Threads, ClaimPendingAudits(t) PROVE OpenOK'
  BY <1>17 DEF ClaimPendingAudits, Swept, PublishRecord, Leave
<1>18. ASSUME NEW t \in Threads, PruneDelivered(t) PROVE OpenOK'
  BY <1>18 DEF PruneDelivered, Superseded, PutIntent
<1>19. CASE Crash
  BY <1>19 DEF Crash, Boot
<1>20. CASE PowerLoss
  BY <1>20 DEF PowerLoss, Boot
<1>21. CASE UNCHANGED vars
  BY <1>21 DEF vars
<1>22. QED
  BY <1>1, <1>2, <1>3, <1>4, <1>5, <1>6, <1>7, <1>8, <1>9, <1>10, <1>11, <1>12, <1>13,
     <1>14, <1>15, <1>16, <1>17, <1>18, <1>19, <1>20, <1>21 DEF Next, Unlocked, Locking,
     Locked

(* Only a clear ends an engage. *)
LEMMA PromiseStep == ASSUME LatchAssumption, LatchInv, [Next]_vars PROVE PromiseOK'
<1> USE DEF LatchAssumption, LatchInv, TypeOK, disk, gate, threads, Threads, Stages,
   Jobs, Places, Outcomes, Spend, Err, PromiseOK, RecordOK, BoxOK, PhaseOK, LockOK,
   Writing, Engaged, EffectiveRecordState, NeedsConfirm
<1>1. ASSUME NEW c \in Callers, NEW engage \in BOOLEAN, Request(c, engage) PROVE PromiseOK'
  BY <1>1 DEF Request, Acquire, RoomForRequest
<1>2. ASSUME NEW t \in Threads, Replay(t) PROVE PromiseOK'
  BY <1>2 DEF Replay, StartClaim
<1>3. CASE Tick
  BY <1>3 DEF Tick, StartClaim
<1>4. ASSUME NEW t \in Threads, Done(t) PROVE PromiseOK'
  BY <1>4 DEF Done
<1>5. ASSUME NEW t \in Threads, NEW o \in Occs, Deliver(t, o) PROVE PromiseOK'
  BY <1>5 DEF Deliver, RecordLockdownTransition
<1>6. ASSUME NEW t \in Threads, ReconcileLiveIntent(t) PROVE PromiseOK'
  BY <1>6 DEF ReconcileLiveIntent, Enter, SyncRecordParent, PutIntent, Fail
<1>7. ASSUME NEW t \in Threads, NothingToConfirm(t) PROVE PromiseOK'
  BY <1>7 DEF NothingToConfirm, Enter
<1>8. ASSUME NEW t \in Threads, ReadFails(t) PROVE PromiseOK'
  BY <1>8 DEF ReadFails, Enter, Fail
<1>9. ASSUME NEW t \in Threads, MarkAuditDelivered(t) PROVE PromiseOK'
  BY <1>9 DEF MarkAuditDelivered, PutIntent
<1>10. ASSUME NEW t \in Threads, ReleaseAuditClaim(t) PROVE PromiseOK'
  BY <1>10 DEF ReleaseAuditClaim
<1>11. ASSUME NEW t \in Threads, NEW o \in Occs, SweepOrphan(t, o) PROVE PromiseOK'
  BY <1>11 DEF SweepOrphan, IsOrphan, PutIntent, Step, Continue, Fail
<1>12. ASSUME NEW t \in Threads, NEW o \in Occs, WriteIntent(t, o) PROVE PromiseOK'
  BY <1>12 DEF WriteIntent, Swept, TransitionJob, PutIntent, Step, Continue, Fail
<1>13. ASSUME NEW t \in Threads, Repeat(t) PROVE PromiseOK'
  BY <1>13 DEF Repeat, Swept, TransitionJob, AlreadyThere, Leave
<1>14. ASSUME NEW t \in Threads, WriteRecord(t) PROVE PromiseOK'
  <2>1. PICK how \in Outcomes :
          /\ PutRecord(occ[t], how)
          /\ promised' = (promised /\ (job[t] = "engage" \/ how = "nothing"))
    <3> HIDE DEF Outcomes, Spend, Err, TypeOK, LatchInv
    <3>1. QED
      BY <1>14, Zenon DEF WriteRecord
  <2>2. promised' => promised /\ (job[t] = "engage" \/ how = "nothing")
    BY <2>1, Zenon
  <2>3. UNCHANGED <<eff, target>>
    BY <1>14 DEF WriteRecord
  <2>4. occ[t] \in Occs /\ target[occ[t]] = job[t]
    BY <1>14 DEF WriteRecord, PhaseOK
  <2>5. how # "nothing" \/ recMay' = recMay
    BY <2>1 DEF PutRecord
  <2>6. recMay' \subseteq recMay \cup {occ[t]}
    BY <2>1 DEF PutRecord
  <2>7. QED
    BY <2>2, <2>3, <2>4, <2>5, <2>6 DEF PromiseOK, Engaged
<1>15. ASSUME NEW t \in Threads, ConfirmIntent(t) PROVE PromiseOK'
  <2>1. \/ UNCHANGED <<eff, promised>>
        \/ eff' = (job[t] = "engage") /\ promised' = (job[t] = "engage")
    BY <1>15, Zenon DEF ConfirmIntent
  <2>2. UNCHANGED <<recMay, target>> /\ pc[t] = "confirm"
    BY <1>15 DEF ConfirmIntent
  <2>3. CASE UNCHANGED <<eff, promised>>
    BY <2>2, <2>3 DEF PromiseOK, Engaged
  <2>4. CASE eff' = (job[t] = "engage") /\ promised' = (job[t] = "engage")
    BY <2>2, <2>4 DEF PromiseOK, PhaseOK, Engaged
  <2>5. QED
    BY <2>1, <2>3, <2>4
<1>16. ASSUME NEW t \in Threads, Adopt(t) PROVE PromiseOK'
  BY <1>16 DEF Adopt, Swept, PublishRecord, Leave
<1>17. ASSUME NEW t \in Threads, ClaimPendingAudits(t) PROVE PromiseOK'
  BY <1>17 DEF ClaimPendingAudits, Swept, PublishRecord, Leave
<1>18. ASSUME NEW t \in Threads, PruneDelivered(t) PROVE PromiseOK'
  BY <1>18 DEF PruneDelivered, Superseded, PutIntent
<1>19. CASE Crash
  BY <1>19 DEF Crash, Boot
<1>20. CASE PowerLoss
  BY <1>20 DEF PowerLoss, Boot
<1>21. CASE UNCHANGED vars
  BY <1>21 DEF vars
<1>22. QED
  BY <1>1, <1>2, <1>3, <1>4, <1>5, <1>6, <1>7, <1>8, <1>9, <1>10, <1>11, <1>12, <1>13,
     <1>14, <1>15, <1>16, <1>17, <1>18, <1>19, <1>20, <1>21 DEF Next, Unlocked, Locking,
     Locked

(* A row names a transition whose record was durable. *)
LEMMA TrueStep == ASSUME LatchAssumption, LatchInv, [Next]_vars PROVE AuditTrue'
<1> USE DEF LatchAssumption, LatchInv, TypeOK, disk, gate, threads, Threads, Stages,
   Jobs, Places, Outcomes, Spend, Err, AuditTrue, DeliveryOK
<1>1. ASSUME NEW c \in Callers, NEW engage \in BOOLEAN, Request(c, engage) PROVE AuditTrue'
  BY <1>1 DEF Request, Acquire, RoomForRequest
<1>2. ASSUME NEW t \in Threads, Replay(t) PROVE AuditTrue'
  BY <1>2 DEF Replay, StartClaim
<1>3. CASE Tick
  BY <1>3 DEF Tick, StartClaim
<1>4. ASSUME NEW t \in Threads, Done(t) PROVE AuditTrue'
  BY <1>4 DEF Done
<1>5. ASSUME NEW t \in Threads, NEW o \in Occs, Deliver(t, o) PROVE AuditTrue'
  BY <1>5 DEF Deliver, RecordLockdownTransition
<1>6. ASSUME NEW t \in Threads, ReconcileLiveIntent(t) PROVE AuditTrue'
  BY <1>6 DEF ReconcileLiveIntent, Enter, NeedsConfirm, SyncRecordParent, PutIntent,
     Fail
<1>7. ASSUME NEW t \in Threads, NothingToConfirm(t) PROVE AuditTrue'
  BY <1>7 DEF NothingToConfirm, Enter, NeedsConfirm
<1>8. ASSUME NEW t \in Threads, ReadFails(t) PROVE AuditTrue'
  BY <1>8 DEF ReadFails, Enter, Fail
<1>9. ASSUME NEW t \in Threads, MarkAuditDelivered(t) PROVE AuditTrue'
  BY <1>9 DEF MarkAuditDelivered, PutIntent
<1>10. ASSUME NEW t \in Threads, ReleaseAuditClaim(t) PROVE AuditTrue'
  BY <1>10 DEF ReleaseAuditClaim
<1>11. ASSUME NEW t \in Threads, NEW o \in Occs, SweepOrphan(t, o) PROVE AuditTrue'
  BY <1>11 DEF SweepOrphan, IsOrphan, PutIntent, Step, Continue, Fail
<1>12. ASSUME NEW t \in Threads, NEW o \in Occs, WriteIntent(t, o) PROVE AuditTrue'
  BY <1>12 DEF WriteIntent, Swept, TransitionJob, PutIntent, Step, Continue, Fail
<1>13. ASSUME NEW t \in Threads, Repeat(t) PROVE AuditTrue'
  BY <1>13 DEF Repeat, Swept, TransitionJob, AlreadyThere, Leave
<1>14. ASSUME NEW t \in Threads, WriteRecord(t) PROVE AuditTrue'
  BY <1>14 DEF WriteRecord, PutRecord, TransitionJob, Step, Continue, Fail
<1>15. ASSUME NEW t \in Threads, ConfirmIntent(t) PROVE AuditTrue'
  BY <1>15 DEF ConfirmIntent, PutIntent, TransitionJob, Leave, Fail
<1>16. ASSUME NEW t \in Threads, Adopt(t) PROVE AuditTrue'
  BY <1>16 DEF Adopt, Swept, PublishRecord, Leave
<1>17. ASSUME NEW t \in Threads, ClaimPendingAudits(t) PROVE AuditTrue'
  BY <1>17 DEF ClaimPendingAudits, Swept, PublishRecord, Leave
<1>18. ASSUME NEW t \in Threads, PruneDelivered(t) PROVE AuditTrue'
  BY <1>18 DEF PruneDelivered, Superseded, PutIntent
<1>19. CASE Crash
  BY <1>19 DEF Crash, Boot
<1>20. CASE PowerLoss
  BY <1>20 DEF PowerLoss, Boot
<1>21. CASE UNCHANGED vars
  BY <1>21 DEF vars
<1>22. QED
  BY <1>1, <1>2, <1>3, <1>4, <1>5, <1>6, <1>7, <1>8, <1>9, <1>10, <1>11, <1>12, <1>13,
     <1>14, <1>15, <1>16, <1>17, <1>18, <1>19, <1>20, <1>21 DEF Next, Unlocked, Locking,
     Locked

(* No write, sweep, prune or crash loses an undelivered transition. *)
LEMMA NotLostStep == ASSUME LatchAssumption, LatchInv, [Next]_vars PROVE AuditNotLost'
<1> USE DEF LatchAssumption, LatchInv, TypeOK, disk, gate, threads, Threads, Stages,
   Jobs, Places, Outcomes, Spend, Err, AuditNotLost, RecordOK, BoxOK, PhaseOK,
   DeliveryOK, LockOK, Writing, NeedsConfirm
<1>1. ASSUME NEW c \in Callers, NEW engage \in BOOLEAN, Request(c, engage) PROVE AuditNotLost'
  BY <1>1 DEF Request, Acquire, RoomForRequest
<1>2. ASSUME NEW t \in Threads, Replay(t) PROVE AuditNotLost'
  BY <1>2 DEF Replay, StartClaim
<1>3. CASE Tick
  BY <1>3 DEF Tick, StartClaim
<1>4. ASSUME NEW t \in Threads, Done(t) PROVE AuditNotLost'
  BY <1>4 DEF Done
<1>5. ASSUME NEW t \in Threads, NEW o \in Occs, Deliver(t, o) PROVE AuditNotLost'
  BY <1>5 DEF Deliver, RecordLockdownTransition
<1>6. ASSUME NEW t \in Threads, ReconcileLiveIntent(t) PROVE AuditNotLost'
  BY <1>6 DEF ReconcileLiveIntent, Enter, SyncRecordParent, PutIntent, Fail
<1>7. ASSUME NEW t \in Threads, NothingToConfirm(t) PROVE AuditNotLost'
  BY <1>7 DEF NothingToConfirm, Enter
<1>8. ASSUME NEW t \in Threads, ReadFails(t) PROVE AuditNotLost'
  BY <1>8 DEF ReadFails, Enter, Fail
<1>9. ASSUME NEW t \in Threads, MarkAuditDelivered(t) PROVE AuditNotLost'
  BY <1>9 DEF MarkAuditDelivered, PutIntent
<1>10. ASSUME NEW t \in Threads, ReleaseAuditClaim(t) PROVE AuditNotLost'
  BY <1>10 DEF ReleaseAuditClaim
<1>11. ASSUME NEW t \in Threads, NEW o \in Occs, SweepOrphan(t, o) PROVE AuditNotLost'
  BY <1>11 DEF SweepOrphan, IsOrphan, PutIntent, Step, Continue, Fail
<1>12. ASSUME NEW t \in Threads, NEW o \in Occs, WriteIntent(t, o) PROVE AuditNotLost'
  BY <1>12 DEF WriteIntent, Swept, TransitionJob, PutIntent, Step, Continue, Fail
<1>13. ASSUME NEW t \in Threads, Repeat(t) PROVE AuditNotLost'
  BY <1>13 DEF Repeat, Swept, TransitionJob, AlreadyThere, Leave
<1>14. ASSUME NEW t \in Threads, WriteRecord(t) PROVE AuditNotLost'
  BY <1>14 DEF WriteRecord, PutRecord, TransitionJob, Step, Continue, Fail
<1>15. ASSUME NEW t \in Threads, ConfirmIntent(t) PROVE AuditNotLost'
  BY <1>15 DEF ConfirmIntent, PutIntent, TransitionJob, Leave, Fail
<1>16. ASSUME NEW t \in Threads, Adopt(t) PROVE AuditNotLost'
  BY <1>16 DEF Adopt, Swept, PublishRecord, Leave
<1>17. ASSUME NEW t \in Threads, ClaimPendingAudits(t) PROVE AuditNotLost'
  BY <1>17 DEF ClaimPendingAudits, Swept, PublishRecord, Leave
<1>18. ASSUME NEW t \in Threads, PruneDelivered(t) PROVE AuditNotLost'
  BY <1>18 DEF PruneDelivered, Superseded, PutIntent
<1>19. CASE Crash
  BY <1>19 DEF Crash, Boot
<1>20. CASE PowerLoss
  BY <1>20 DEF PowerLoss, Boot
<1>21. CASE UNCHANGED vars
  BY <1>21 DEF vars
<1>22. QED
  BY <1>1, <1>2, <1>3, <1>4, <1>5, <1>6, <1>7, <1>8, <1>9, <1>10, <1>11, <1>12, <1>13,
     <1>14, <1>15, <1>16, <1>17, <1>18, <1>19, <1>20, <1>21 DEF Next, Unlocked, Locking,
     Locked

-----------------------------------------------------------------------------

(* The initial states satisfy the invariant. *)
LEMMA InitInv == ASSUME LatchAssumption, Init PROVE LatchInv
<1> USE DEF LatchAssumption, Init
<1>1. TypeOK
  <2>1. /\ rec \in Occs \cup {Bootstrap, NoRecord} /\ recMay = {rec}
        /\ box \in [Occs -> Stages] /\ boxMay \in [Occs -> SUBSET Stages]
        /\ \A o \in Occs : box[o] \in boxMay[o]
    BY DEF Stages
  <2>2. /\ target \in [Occs -> {"unset", "engage", "clear"}] /\ log \in [Occs -> 0..2]
        /\ requests \in 0..MaxRequests /\ mishaps \in 0..MaxMishaps
    OBVIOUS
  <2>3. eff \in BOOLEAN /\ guard \in [Threads -> BOOLEAN] /\ lock \in Threads \cup {NoThread}
    OBVIOUS
  <2>4. pc \in [Threads -> Places] /\ job \in [Threads -> Jobs]
    BY DEF Places, Jobs
  <2>5. occ \in [Threads -> Occs \cup {Bootstrap}] /\ todo \in [Threads -> SUBSET Occs]
    OBVIOUS
  <2>6. QED
    BY <2>1, <2>2, <2>3, <2>4, <2>5 DEF TypeOK
<1>2. LockOK /\ BoxOK /\ RecordOK /\ PhaseOK /\ DeliveryOK
  BY DEF LockOK, Writing, TransitionJob, BoxOK, RecordOK, PhaseOK, NeedsConfirm, DeliveryOK,
     Threads
<1>3. OpenOK /\ PromiseOK /\ AuditTrue /\ AuditNotLost
  BY DEF OpenOK, PromiseOK, AuditTrue, AuditNotLost
<1>4. QED
  BY <1>1, <1>2, <1>3 DEF LatchInv

(* Every step of a caller, of housekeeping, of a crash or a power loss     *)
(* keeps it.                                                               *)
LEMMA InvStep == ASSUME LatchAssumption, LatchInv, [Next]_vars PROVE LatchInv'
<1>1. TypeOK' /\ LockOK' /\ BoxOK' /\ RecordOK' /\ PhaseOK' /\ DeliveryOK'
  BY TypeStep, LockStep, BoxStep, RecordStep, PhaseStep, DeliveryStep
<1>2. OpenOK' /\ PromiseOK' /\ AuditTrue' /\ AuditNotLost'
  BY OpenStep, PromiseStep, TrueStep, NotLostStep
<1>3. QED
  BY <1>1, <1>2 DEF LatchInv

(* The invariant holds throughout. *)
THEOREM LatchInvariance == ASSUME LatchAssumption PROVE Spec => []LatchInv
<1>1. Init => LatchInv
  BY InitInv
<1>2. LatchInv /\ [Next]_vars => LatchInv'
  BY InvStep
<1>3. QED
  BY <1>1, <1>2, PTL DEF Spec

(* The gate is open only on a durable, confirmed clear; an engage holds    *)
(* from the moment its owner waits for it until a clear is recorded; and   *)
(* every durable transition is logged or will be, however transitions and  *)
(* replays interleave, writes fail and power is lost (lockdown.rs          *)
(* transition, adopt, claim_pending_audits, mark_audit_delivered).         *)
THEOREM LatchSound == ASSUME LatchAssumption PROVE Spec => []LatchHolds
<1>1. LatchInv => LatchHolds
  <2>1. ASSUME LatchInv PROVE OpenIsBacked
    BY <2>1 DEF LatchInv, OpenOK, OpenIsBacked, IsEngaged
  <2>2. ASSUME LatchInv PROVE EngageHolds
    BY <2>2 DEF LatchInv, LockOK, PromiseOK, EngageHolds, IsEngaged
  <2>3. QED
    BY <2>1, <2>2 DEF LatchInv, LatchHolds
<1>2. QED
  BY <1>1, LatchInvariance, PTL
=============================================================================
