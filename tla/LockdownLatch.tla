---------------------------- MODULE LockdownLatch ----------------------------
(***************************************************************************)
(* The owner lockdown latch of cermetd (cermet-daemon/src/lockdown.rs and  *)
(* owner.rs): an atomic gate every effect reads, a durable record naming   *)
(* the transition the gate follows, and an outbox of transitions whose     *)
(* audit row the broker has not yet been seen to write.                    *)
(*                                                                         *)
(* Owner connections (Callers) call transition on their own threads;       *)
(* housekeeping (Keeper) adopts the record at boot and replays the outbox  *)
(* at boot and on every tick.  Critical sections of the store's mutex are  *)
(* cut where a write can fail.  A write has three outcomes: it did nothing,*)
(* it was renamed into place but the directory fsync failed, or it is      *)
(* durable.  A crash inside a write is the failed outcome and a crash.     *)
(*                                                                         *)
(* A disk is what is visible (rec, box) and what a power loss may leave    *)
(* (recMay, boxMay).  An intent and the record of one occurrence are       *)
(* written with the same target, so `target' is kept once per occurrence;  *)
(* peer uids are 0 past the socket's gate (owner.rs 17-19).                *)
(***************************************************************************)
EXTENDS Naturals, FiniteSets

CONSTANTS
    Callers,      \* owner.sock connections, one thread each
    Keeper,       \* the boot and housekeeping task
    Occs,         \* occurrence ids random_id may return
    Bootstrap,    \* the id initialize_clear writes at installation
    NoRecord,     \* the record file is absent
    NoThread,     \* the mutex is free
    MaxRequests,  \* bound: owner requests in a behaviour
    MaxMishaps    \* bound: failed reads, writes, audits, crashes, power losses

LatchAssumption ==
    /\ Keeper \notin Callers /\ NoThread \notin Callers \cup {Keeper}
    /\ Bootstrap \notin Occs /\ NoRecord \notin Occs \cup {Bootstrap}
    /\ MaxRequests \in Nat /\ MaxMishaps \in Nat

VARIABLES
    rec,       \* lockdown.record as read: an occurrence, Bootstrap or NoRecord
    recMay,    \* the records a power loss may leave
    box,       \* the outbox as read: occurrence -> stage of its intent
    boxMay,    \* occurrence -> the stages a power loss may leave
    target,    \* occurrence -> "engage", "clear", or "unset" until it is drawn
    eff,       \* LATCH_EFFECTIVE_ENGAGED bit of latch_state
    guard,     \* thread -> it holds a PendingEngageGuard
    lock,      \* the thread holding the store's mutex
    inFlight,  \* audit_in_flight
    pc, job,   \* thread -> where it is, and in which operation
    occ,       \* thread -> the occurrence it is writing or delivering
    todo,      \* thread -> claimed intents it has yet to deliver
    log,       \* occurrence -> owner_lockdown_transition rows in the audit log
    serving,   \* the owner socket is open
    requests, mishaps,
    promised,  \* ghost: an engage is in force and no clear has been recorded
    landed     \* ghost: occurrences whose record has been durable

disk == <<rec, recMay, box, boxMay, target>>
gate == <<eff, guard>>
threads == <<pc, job, occ, todo>>
vars == <<disk, gate, lock, inFlight, threads, log, serving, requests, mishaps,
          promised, landed>>

Threads == Callers \cup {Keeper}
Stages == {"absent", "intent", "confirmed", "delivered"}
Jobs == {"none", "engage", "clear", "claim", "adopt"}
Places == {"idle", "queued", "sweep", "decide", "record", "confirm", "replay",
           "deliver", "mark", "prune", "release"}
Outcomes == {"nothing", "renamed", "synced"}

TypeOK ==
    /\ rec \in Occs \cup {Bootstrap, NoRecord}
    /\ recMay \subseteq Occs \cup {Bootstrap, NoRecord} /\ rec \in recMay
    /\ box \in [Occs -> Stages]
    /\ boxMay \in [Occs -> SUBSET Stages] /\ \A o \in Occs : box[o] \in boxMay[o]
    /\ target \in [Occs -> {"unset", "engage", "clear"}]
    /\ eff \in BOOLEAN /\ guard \in [Threads -> BOOLEAN]
    /\ lock \in Threads \cup {NoThread}
    /\ inFlight \subseteq Occs
    /\ pc \in [Threads -> Places] /\ job \in [Threads -> Jobs]
    /\ occ \in [Threads -> Occs \cup {Bootstrap}]
    /\ todo \in [Threads -> SUBSET Occs]
    /\ log \in [Occs -> 0..2]
    /\ serving \in BOOLEAN /\ promised \in BOOLEAN
    /\ requests \in 0..MaxRequests /\ mishaps \in 0..MaxMishaps
    /\ landed \subseteq Occs

-----------------------------------------------------------------------------
(* What the record means, and what is_engaged answers. *)

\* is_engaged: the effective bit or any pending engage.
IsEngaged == eff \/ \E t \in Threads : guard[t]

\* LockdownRecord::engaged.
Engaged(r) == r # Bootstrap /\ target[r] = "engage"

\* effective_record_state: a clear counts only with its confirmed intent.
EffectiveRecordState(r) ==
    /\ r # Bootstrap
    /\ box[r] \in {"confirmed", "delivered"} => Engaged(r)

-----------------------------------------------------------------------------
(* File operations: how \in Outcomes says how far the write got. *)

Spend(how) ==
    /\ how # "synced" => mishaps < MaxMishaps
    /\ mishaps' = IF how = "synced" THEN mishaps ELSE mishaps + 1

Err(how) == how # "synced"

\* write_record / atomic_write of lockdown.record.
PutRecord(o, how) ==
    /\ rec' = IF how = "nothing" THEN rec ELSE o
    /\ recMay' = CASE how = "synced" -> {o}
                   [] how = "renamed" -> recMay \cup {o}
                   [] OTHER -> recMay
    /\ landed' = IF how = "synced" THEN landed \cup {o} ELSE landed

\* atomic_write or remove_durable of an outbox file; the directory fsync makes
\* every earlier change of the directory durable too.
PutIntent(o, s, how) ==
    /\ box' = IF how = "nothing" THEN box ELSE [box EXCEPT ![o] = s]
    /\ boxMay' = CASE how = "synced" -> [p \in Occs |-> {box'[p]}]
                   [] how = "renamed" -> [boxMay EXCEPT ![o] = @ \cup {s}]
                   [] OTHER -> boxMay

-----------------------------------------------------------------------------
(* Leaving an operation. *)

\* Where a thread goes when its operation's critical section fails: a
\* transition answers Err and drops its guard, a replay is abandoned (its
\* caller ignores the error), a failed adopt boots engaged.
Fail(t) ==
    /\ lock' = NoThread
    /\ CASE job[t] \in {"engage", "clear"} ->
              /\ pc' = [pc EXCEPT ![t] = "idle"]
              /\ job' = [job EXCEPT ![t] = "none"]
              /\ guard' = [guard EXCEPT ![t] = FALSE]
         [] job[t] = "claim" ->
              pc' = [pc EXCEPT ![t] = "deliver"] /\ UNCHANGED <<job, guard>>
         [] OTHER ->
              pc' = [pc EXCEPT ![t] = "replay"] /\ UNCHANGED <<job, guard>>

Continue(t, place) ==
    /\ pc' = [pc EXCEPT ![t] = place]
    /\ UNCHANGED <<lock, job, guard>>

Leave(t, place) ==
    /\ pc' = [pc EXCEPT ![t] = place] /\ lock' = NoThread
    /\ UNCHANGED <<job, guard>>

Step(t, how, place) == IF Err(how) THEN Fail(t) ELSE Continue(t, place)

-----------------------------------------------------------------------------
(* transition, adopt and claim_pending_audits up to their common reconcile. *)

\* owner.sock request: an engage takes its guard before the mutex, and every
\* transition engages the gate first.
Acquire(c, engage) == guard' = [guard EXCEPT ![c] = engage]

RoomForRequest ==
    /\ requests < MaxRequests
    /\ Cardinality({o \in Occs : target[o] = "unset"}) >
         Cardinality({t \in Threads : job[t] \in {"engage", "clear"}})

Request(c, engage) ==
    /\ serving /\ pc[c] = "idle" /\ RoomForRequest
    /\ Acquire(c, engage)
    /\ eff' = TRUE
    /\ pc' = [pc EXCEPT ![c] = "queued"]
    /\ job' = [job EXCEPT ![c] = IF engage THEN "engage" ELSE "clear"]
    /\ requests' = requests + 1
    /\ UNCHANGED <<disk, lock, inFlight, occ, todo, log, serving, mishaps,
                   promised, landed>>

\* claim_pending_audits before its mutex: engage, then queue for the lock.
StartClaim(t) ==
    /\ eff' = TRUE
    /\ pc' = [pc EXCEPT ![t] = "queued"]
    /\ job' = [job EXCEPT ![t] = "claim"]
    /\ UNCHANGED <<disk, guard, lock, inFlight, occ, todo, log, serving,
                   requests, mishaps, promised, landed>>

Replay(t) == pc[t] = "replay" /\ StartClaim(t)

Tick == serving /\ pc[Keeper] = "idle" /\ StartClaim(Keeper)

\* Under the mutex: a transition engages again, then the record is read.
Enter(t) ==
    /\ pc[t] = "queued" /\ lock = NoThread
    /\ eff' = IF job[t] = "claim" THEN eff ELSE TRUE

NeedsConfirm == rec \in Occs /\ box[rec] = "intent"

\* reconcile_live_intent_locked: a visible record whose intent is unconfirmed
\* is fsynced before the intent is confirmed.
SyncRecordParent(ok) ==
    /\ recMay' = IF ok THEN {rec} ELSE recMay
    /\ landed' = IF ok /\ rec \in Occs THEN landed \cup {rec} ELSE landed

ReconcileLiveIntent(t) ==
    /\ Enter(t) /\ NeedsConfirm
    /\ \E ok \in BOOLEAN, how \in Outcomes :
         /\ ~ok => how = "nothing"
         /\ Spend(how)
         /\ SyncRecordParent(ok)
         /\ PutIntent(rec, "confirmed", how)
         /\ IF Err(how) THEN Fail(t)
            ELSE /\ pc' = [pc EXCEPT ![t] = "sweep"] /\ lock' = t
                 /\ UNCHANGED <<job, guard>>
    /\ UNCHANGED <<rec, target, inFlight, occ, todo, log, serving, requests,
                   promised>>

NothingToConfirm(t) ==
    /\ Enter(t) /\ ~NeedsConfirm
    /\ pc' = [pc EXCEPT ![t] = "sweep"] /\ lock' = t
    /\ UNCHANGED <<disk, guard, inFlight, job, occ, todo, log, serving,
                   requests, mishaps, promised, landed>>

\* The record cannot be read or parsed.
ReadFails(t) ==
    /\ Enter(t) /\ mishaps < MaxMishaps
    /\ mishaps' = mishaps + 1
    /\ Fail(t)
    /\ UNCHANGED <<disk, inFlight, occ, todo, log, serving, requests, promised,
                   landed>>

\* sweep_orphan_intents: intents that never took effect, and delivered ones a
\* later record has superseded.
IsOrphan(o) ==
    /\ o # rec
    /\ \/ box[o] = "intent"
       \/ box[o] = "delivered" /\ rec # NoRecord

SweepOrphan(t, o) ==
    /\ pc[t] = "sweep" /\ lock = t /\ IsOrphan(o)
    /\ \E how \in Outcomes :
         /\ Spend(how) /\ PutIntent(o, "absent", how)
         /\ Step(t, how, "sweep")
    /\ UNCHANGED <<rec, recMay, target, eff, inFlight, occ, todo, log, serving,
                   requests, promised, landed>>

Swept(t) == pc[t] = "sweep" /\ lock = t /\ \A o \in Occs : ~IsOrphan(o)

-----------------------------------------------------------------------------
(* transition: decide, write the intent, the record and the confirmation. *)

\* Already in the requested state: publish it again, no new occurrence.
AlreadyThere(engage) ==
    /\ rec # NoRecord
    /\ Engaged(rec) = engage /\ EffectiveRecordState(rec) = engage

TransitionJob(t) == job[t] \in {"engage", "clear"}

Repeat(t) ==
    LET engage == job[t] = "engage" IN
    /\ Swept(t) /\ TransitionJob(t) /\ AlreadyThere(engage)
    /\ eff' = engage
    /\ promised' = (promised \/ engage)
    /\ Leave(t, "replay")
    /\ UNCHANGED <<disk, inFlight, occ, todo, log, serving, requests, mishaps,
                   landed>>

\* write_intent of a fresh, unconfirmed intent.
WriteIntent(t, o) ==
    /\ Swept(t) /\ TransitionJob(t) /\ ~AlreadyThere(job[t] = "engage")
    /\ target[o] = "unset"
    /\ target' = [target EXCEPT ![o] = job[t]]
    /\ occ' = [occ EXCEPT ![t] = o]
    /\ \E how \in Outcomes :
         Spend(how) /\ PutIntent(o, "intent", how) /\ Step(t, how, "record")
    /\ UNCHANGED <<rec, recMay, eff, inFlight, todo, log, serving, requests,
                   promised, landed>>

\* write_record.  A clear whose record is renamed ends the engage in force.
WriteRecord(t) ==
    /\ pc[t] = "record" /\ lock = t
    /\ \E how \in Outcomes :
         /\ Spend(how) /\ PutRecord(occ[t], how) /\ Step(t, how, "confirm")
         /\ promised' = (promised /\ (job[t] = "engage" \/ how = "nothing"))
    /\ UNCHANGED <<box, boxMay, target, eff, inFlight, occ, todo, log, serving,
                   requests>>

\* The confirmation, and only then the gate.
ConfirmIntent(t) ==
    /\ pc[t] = "confirm" /\ lock = t
    /\ \E how \in Outcomes :
         /\ Spend(how) /\ PutIntent(occ[t], "confirmed", how)
         /\ IF Err(how) THEN Fail(t) /\ UNCHANGED <<eff, promised>>
            ELSE /\ Leave(t, "replay")
                 /\ eff' = (job[t] = "engage")
                 /\ promised' = (job[t] = "engage")
    /\ UNCHANGED <<rec, recMay, target, inFlight, occ, todo, log, serving,
                   requests, landed>>

-----------------------------------------------------------------------------
(* adopt, and the replay of the outbox. *)

\* The gate takes the record's state; without a record it stays engaged.
PublishRecord == eff' = IF rec = NoRecord THEN eff ELSE EffectiveRecordState(rec)

Adopt(t) ==
    /\ Swept(t) /\ job[t] = "adopt"
    /\ PublishRecord
    /\ Leave(t, "replay")
    /\ UNCHANGED <<disk, inFlight, occ, todo, log, serving, requests, mishaps,
                   promised, landed>>

ClaimPendingAudits(t) ==
    /\ Swept(t) /\ job[t] = "claim"
    /\ PublishRecord
    /\ LET pending == {o \in Occs : box[o] = "confirmed"} \ inFlight IN
         todo' = [todo EXCEPT ![t] = pending] /\ inFlight' = inFlight \cup pending
    /\ Leave(t, "deliver")
    /\ UNCHANGED <<disk, occ, log, serving, requests, mishaps, promised, landed>>

\* Broker::record_lockdown_transition, on the broker thread: one row per
\* occurrence, whoever replays it.
RecordLockdownTransition(o) ==
    log' = IF log[o] > 0 THEN log ELSE [log EXCEPT ![o] = @ + 1]

Deliver(t, o) ==
    /\ pc[t] = "deliver" /\ o \in todo[t]
    /\ occ' = [occ EXCEPT ![t] = o]
    /\ \/ /\ RecordLockdownTransition(o)
          /\ pc' = [pc EXCEPT ![t] = "mark"] /\ UNCHANGED mishaps
       \/ /\ Spend("nothing") /\ UNCHANGED log
          /\ pc' = [pc EXCEPT ![t] = "release"]
    /\ UNCHANGED <<disk, gate, lock, inFlight, job, todo, serving, requests,
                   promised, landed>>

\* mark_audit_delivered: forget the claim and persist the marker ...
MarkAuditDelivered(t) ==
    LET o == occ[t] IN
    /\ pc[t] = "mark" /\ lock = NoThread
    /\ inFlight' = inFlight \ {o}
    /\ \/ /\ box[o] \in {"absent", "delivered"}
          /\ lock' = t /\ pc' = [pc EXCEPT ![t] = "prune"]
          /\ UNCHANGED <<box, boxMay, mishaps>>
       \/ /\ box[o] \notin {"absent", "delivered"}
          /\ \E how \in Outcomes :
               /\ Spend(how) /\ PutIntent(o, "delivered", how)
               /\ lock' = IF Err(how) THEN NoThread ELSE t
               /\ pc' = [pc EXCEPT ![t] = IF Err(how) THEN "release" ELSE "prune"]
    /\ UNCHANGED <<rec, recMay, target, gate, job, occ, todo, log, serving,
                   requests, promised, landed>>

\* ... and remove the intent once another record is live.
Superseded_Always(o) == box[o] # "absent"

Superseded(o) == box[o] # "absent" /\ rec \notin {NoRecord, o}

PruneDelivered(t) ==
    LET o == occ[t] IN
    /\ pc[t] = "prune" /\ lock = t
    /\ lock' = NoThread
    /\ \E how \in IF Superseded(o) THEN Outcomes ELSE {"synced"} :
         /\ Spend(how)
         /\ IF Superseded(o) THEN PutIntent(o, "absent", how)
                             ELSE UNCHANGED <<box, boxMay>>
         /\ pc' = [pc EXCEPT ![t] = IF Err(how) THEN "release" ELSE "deliver"]
         /\ todo' = IF Err(how) THEN todo ELSE [todo EXCEPT ![t] = @ \ {o}]
    /\ UNCHANGED <<rec, recMay, target, gate, inFlight, job, occ, log, serving,
                   requests, promised, landed>>

\* release_audit_claim after a failed delivery or marker.
ReleaseAuditClaim(t) ==
    /\ pc[t] = "release" /\ lock = NoThread
    /\ inFlight' = inFlight \ {occ[t]}
    /\ pc' = [pc EXCEPT ![t] = "deliver"]
    /\ todo' = [todo EXCEPT ![t] = @ \ {occ[t]}]
    /\ UNCHANGED <<disk, gate, lock, job, occ, log, serving, requests, mishaps,
                   promised, landed>>

\* The end of a replay.  A transition answers and its guard is dropped; the
\* boot replay opens the sockets.
Done(t) ==
    /\ pc[t] = "deliver" /\ todo[t] = {}
    /\ pc' = [pc EXCEPT ![t] = "idle"]
    /\ job' = [job EXCEPT ![t] = "none"]
    /\ guard' = [guard EXCEPT ![t] = FALSE]
    /\ serving' = (serving \/ t = Keeper)
    /\ UNCHANGED <<disk, eff, lock, inFlight, occ, todo, log, requests, mishaps,
                   promised, landed>>

-----------------------------------------------------------------------------
(* Crashes: LockdownStore::new and the boot sequence start over. *)

Boot ==
    /\ eff' = TRUE /\ guard' = [t \in Threads |-> FALSE]
    /\ lock' = NoThread /\ inFlight' = {}
    /\ pc' = [t \in Threads |-> IF t = Keeper THEN "queued" ELSE "idle"]
    /\ job' = [t \in Threads |-> IF t = Keeper THEN "adopt" ELSE "none"]
    /\ occ' = [t \in Threads |-> Bootstrap] /\ todo' = [t \in Threads |-> {}]
    /\ serving' = FALSE
    /\ mishaps < MaxMishaps /\ mishaps' = mishaps + 1
    /\ UNCHANGED <<target, log, requests, promised, landed>>

Crash == Boot /\ UNCHANGED <<rec, recMay, box, boxMay>>

PowerLoss ==
    /\ Boot
    /\ rec' \in recMay /\ recMay' = {rec'}
    /\ box' \in {b \in [Occs -> Stages] : \A o \in Occs : b[o] \in boxMay[o]}
    /\ boxMay' = [o \in Occs |-> {box'[o]}]

\* Installation wrote the bootstrap record, or the record is missing.
Init ==
    /\ rec \in {Bootstrap, NoRecord} /\ recMay = {rec}
    /\ box = [o \in Occs |-> "absent"] /\ boxMay = [o \in Occs |-> {"absent"}]
    /\ target = [o \in Occs |-> "unset"]
    /\ eff = TRUE /\ guard = [t \in Threads |-> FALSE]
    /\ lock = NoThread /\ inFlight = {}
    /\ pc = [t \in Threads |-> IF t = Keeper THEN "queued" ELSE "idle"]
    /\ job = [t \in Threads |-> IF t = Keeper THEN "adopt" ELSE "none"]
    /\ occ = [t \in Threads |-> Bootstrap] /\ todo = [t \in Threads |-> {}]
    /\ log = [o \in Occs |-> 0]
    /\ serving = FALSE /\ requests = 0 /\ mishaps = 0
    /\ promised = FALSE /\ landed = {}

Unlocked(t) ==
    \/ Replay(t) \/ Done(t) \/ \E o \in Occs : Deliver(t, o)

Locking(t) ==
    \/ ReconcileLiveIntent(t) \/ NothingToConfirm(t) \/ ReadFails(t)
    \/ MarkAuditDelivered(t) \/ ReleaseAuditClaim(t)

Locked(t) ==
    \/ \E o \in Occs : SweepOrphan(t, o) \/ WriteIntent(t, o)
    \/ Repeat(t) \/ WriteRecord(t) \/ ConfirmIntent(t)
    \/ Adopt(t) \/ ClaimPendingAudits(t) \/ PruneDelivered(t)

Next ==
    \/ \E c \in Callers, engage \in BOOLEAN : Request(c, engage)
    \/ \E t \in Threads : Unlocked(t) \/ Locking(t) \/ Locked(t)
    \/ Tick \/ Crash \/ PowerLoss

Spec == Init /\ [][Next]_vars

\* A thread inside its operation keeps running, a thread waiting for the mutex
\* gets it in the end (housekeeping holds it for one scan in 30 s), and the
\* tick recurs.
FairSpec ==
    /\ Spec
    /\ \A t \in Threads : /\ WF_vars(Unlocked(t)) /\ WF_vars(Locked(t))
                          /\ SF_vars(Locking(t))
    /\ WF_vars(Tick)

-----------------------------------------------------------------------------
(* Properties. *)

\* While the gate is open the record is a clear that every power loss leaves in
\* place, with the intent that proves it: the latch never lets effects through
\* on a state a restart would not find again (transition 170-254, adopt).
OpenIsBacked ==
    ~IsEngaged =>
        /\ recMay = {rec} /\ rec # NoRecord /\ ~Engaged(rec)
        /\ rec \in Occs => "absent" \notin boxMay[rec]

\* An engage holds from the moment its owner waits for it (the queued-engage
\* test, lockdown.rs 758-830), and once it took effect it holds in the gate and
\* on every disk a power loss may leave until a clear's record is written: no
\* concurrent replay, late clear, crash or restart opens the gate in between.
EngageHolds ==
    /\ \A t \in Threads : job[t] = "engage" => IsEngaged
    /\ promised => /\ IsEngaged
                   /\ \A r \in recMay : r # NoRecord /\ Engaged(r)

\* The log names only transitions whose record was durable.
AuditTrue == \A o \in Occs : log[o] > 0 => o \in landed

\* A transition whose record was durable is in the log, or its intent survives
\* any power loss in a form the next replay will deliver: confirmed, or
\* unconfirmed with its record still live.
AuditNotLost ==
    \A o \in landed :
        \/ log[o] > 0
        \/ \A s \in boxMay[o] : s = "confirmed" \/ (s = "intent" /\ recMay = {o})

\* The latch as its owner relies on it: an open gate is backed by a durable clear,
\* an engage holds until a clear is recorded, and each durable transition is in
\* the audit log, truly, or will be delivered to it after any power loss.
LatchHolds == OpenIsBacked /\ EngageHolds /\ AuditTrue /\ AuditNotLost

\* Every durable transition is eventually in the audit log: again and again all
\* of those made so far are.
EventuallyAudited == []<>(\A o \in landed : log[o] > 0)

=============================================================================
