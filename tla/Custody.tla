------------------------------- MODULE Custody -------------------------------
(***************************************************************************)
(* What the daemon keeps in files of its own, side by side: the barrier    *)
(* record (part "barrier"), the lockdown record (part "latch"), the        *)
(* sentence record (part "record") and the audit chain (part "audit").     *)
(* They share no state: one of them moves in a behaviour and the others    *)
(* stay as they were at the start.  The latch and the sentence record come *)
(* with their theorems, which CustodyProofs cites.                         *)
(***************************************************************************)
EXTENDS QuiesceBarrier

CONSTANTS
    Parts,                                   \* the components that may move
    Owners, Transitions, MaxRequests,        \* of the latch
    Operators, Stagings, Texts, Builds,      \* of the sentence record
    MaxRows,                                 \* of the audit log
    Keeper, Bootstrap, NoRecord, NoThread, NoContent, None,
    LatchMishaps, RecordMishaps, MaxFaults   \* bounds, as MaxMishaps is the barrier's

VARIABLES
    part,
    latchRec, latchMay, box, boxMay, target, eff, guard, latchLock, inFlight, latchPc,
    latchJob, occ, latchTodo, latchLog, latchUp, requests, latchMishaps, promised, landed,
    rec, recMay, mark, markMay, staged, content, baseline, catalog, validated, lock, serving,
    at, op, tok, seen, todo, log, recMishaps, durable, lastDur, after,
    table, synced, level, minting, granted, written, faults

Latch == INSTANCE LockdownLatchProofs WITH
    Callers <- Owners, Occs <- Transitions, MaxMishaps <- LatchMishaps,
    rec <- latchRec, recMay <- latchMay, lock <- latchLock, pc <- latchPc, job <- latchJob,
    todo <- latchTodo, log <- latchLog, serving <- latchUp, mishaps <- latchMishaps

Record == INSTANCE SentenceRecordProofs WITH
    Callers <- Operators, Tokens <- Stagings, Contents <- Texts, Catalogs <- Builds,
    MaxMishaps <- RecordMishaps,
    pc <- at, job <- op, mishaps <- recMishaps, landed <- durable

Audit == INSTANCE AuditChain WITH grants <- granted

ASSUME CustodyAssumption ==
    Latch!LatchAssumption /\ Record!RecordAssumption /\ Record!OneDialect

latchState == <<latchRec, latchMay, box, boxMay, target, eff, guard, latchLock, inFlight,
                latchPc, latchJob, occ, latchTodo, latchLog, latchUp, requests, latchMishaps,
                promised, landed>>
recordState == <<rec, recMay, mark, markMay, staged, content, baseline, catalog, validated,
                 lock, serving, at, op, tok, seen, todo, log, recMishaps, durable, lastDur, after>>
auditState == <<table, synced, level, minting, granted, written, faults>>
all == <<part, vars, latchState, recordState, auditState>>

PartInit ==
    /\ part \in Parts
    /\ Init /\ Latch!Init /\ Record!Init /\ Audit!Init
    /\ part # "latch" => latchRec = Bootstrap
    /\ part # "record" => catalog = CHOOSE b \in Builds : TRUE

BarrierPart(A) == part = "barrier" /\ A /\ UNCHANGED <<part, latchState, recordState, auditState>>
LatchPart(A) == part = "latch" /\ A /\ UNCHANGED <<part, vars, recordState, auditState>>
RecordPart(A) == part = "record" /\ A /\ UNCHANGED <<part, vars, latchState, auditState>>
AuditPart(A) == part = "audit" /\ A /\ UNCHANGED <<part, vars, latchState, recordState>>

PartNext ==
    BarrierPart(Next) \/ LatchPart(Latch!Next) \/ RecordPart(Record!Next) \/ AuditPart(Audit!Next)

PartSpec == PartInit /\ [][PartNext]_all

-----------------------------------------------------------------------------
(* The lockdown gate is open only on a clear every restart would find      *)
(* again, an engage holds from the moment its owner waits for it, and no   *)
(* durable transition's audit row is false or lost.                        *)
LatchHolds == Latch!LatchHolds

(* The text a decision is made under is one this build validates.          *)
ServedIsValid == Record!ServedIsValid

(* The rows of the custody outbox are true (the record they name was       *)
(* durable, over the one it names as its predecessor) and none is lost:    *)
(* written, or its marker survives any power loss in a deliverable form.   *)
CustodyAudited == Record!CustodyAudited

(* Every durable lockdown transition and sentence record is eventually in  *)
(* the audit log, whatever failed or crashed in between.                   *)
EventuallyAudited == Latch!EventuallyAudited /\ Record!EventuallyAudited

(* The log is evidence: whatever a power loss takes, a grant row has its   *)
(* budget_mint in the log, and the chain verifies exactly when every row   *)
(* is one the broker wrote, in its place (AuditLog::open, verify).         *)
LogIsEvidence == Audit!GrantHasMint /\ Audit!BrokenIsNeverEvidence
==============================================================================
