---------------------------- MODULE CustodyProofs ----------------------------
(***************************************************************************)
(* The daemon's records side by side.  The inductive invariants of the     *)
(* update barrier and of the audit chain and what they imply; and, since   *)
(* each component of Custody takes the steps of its own specification and  *)
(* of no other, what is proved of the lockdown latch, of the sentence      *)
(* record and of the log holds of the whole.                               *)
(***************************************************************************)
EXTENDS Custody, FiniteSetTheorems, SequenceTheorems, TLAPS

-----------------------------------------------------------------------------
(* The update barrier. *)

(* The calls that may release or rewrite an installed barrier. *)
Releasing == pc \in {"unlink", "sync_unlink", "rename", "sync_write"} /\ barrier # NoToken

(* The call a broker thread runs, and what holds while it runs it. *)
CallOK ==
    /\ pc \in {"idle", "down"} <=> job.op = "none"
    /\ job.op = "none" => job = NoJob
    /\ job.op \in {"begin", "end"} => job.tok \in Tokens
    /\ job.op = "claim" => job.grant \in Grants
    /\ job.op \in {"end", "housekeeping"} => Releasing
    /\ pc = "down" => barrier = NoToken /\ ~poisoned
    /\ poisoned => job.op \in {"none", "housekeeping"}
    /\ pc \in {"unlink", "sync_unlink"} => barrier # NoToken
    /\ pc \in {"rename", "sync_write"} /\ barrier = NoToken => job.op = "begin"
    /\ pc = "mint" => job.op = "begin" /\ barrier = NoToken
    /\ pc \in {"claim", "egress", "record", "flip"} => job.op = "claim" /\ barrier = NoToken
    /\ job.op = "begin" =>
         phase[job.tok] =
             IF pc \in {"rename", "sync_write"} /\ barrier = NoToken THEN "minted" ELSE "unused"

(* A release is of a lapsed barrier or of the one its holder is ending. *)
ReleaseOK ==
    Releasing => IF job.op = "end" THEN job.tok = barrier /\ phase[barrier] = "ending"
                                   ELSE now > expires[barrier]

(* The record file between the system calls of a write or an unlink. *)
FileOK ==
    /\ entry \in settled
    /\ pc = "sync_unlink" => entry = NoToken
    /\ pc = "sync_write" => entry = Written
    /\ pc = "idle" /\ ~poisoned /\ barrier # NoToken => entry = barrier

(* What a holder has been told, against what the broker is doing. *)
PhaseOK ==
    \A t \in Tokens :
        /\ phase[t] = "ending" => job.op = "end" /\ job.tok = t
        /\ phase[t] = "doubt" => poisoned
        /\ phase[t] \in {"unused", "minted"} => told[t] = "nothing"

(* No lease is open, and none ended without a verified report. *)
Settled == \A g \in Grants : row[g] # "executing" /\ (opened[g] => g \in terminal)

(* A holder who was told Quiescent can still hold, or come to hold again   *)
(* after a crash, the barrier it was told of: until it lapses or is gone   *)
(* from every disk no claim gets past it.                                  *)
Quiesced(t) ==
    /\ phase[t] \in {"held", "cut"} /\ t \in settled
    /\ told[t] = "quiescent" /\ now <= expires[t]
QuiescedOK ==
    \A t \in Tokens :
        /\ Quiesced(t) => Settled /\ entry = t /\ (pc # "down" => barrier = t)
        /\ phase[t] = "ending" /\ told[t] = "quiescent" /\ now <= expires[t] => Settled

Inv ==
    /\ TypeOK /\ CallOK /\ ReleaseOK /\ FileOK /\ PhaseOK
    /\ StandingIsDurable /\ EndedStaysEnded /\ QuiescedOK

-----------------------------------------------------------------------------
(* Every variable keeps its type. *)
LEMMA TypeStep == ASSUME Inv, [Next]_vars PROVE TypeOK'
<1> USE BarrierAssumption DEF Inv, TypeOK, disk, grants
<1>1. CASE MintToken
  <2>1. job.tok \in Tokens /\ pc = "mint"
    BY <1>1 DEF CallOK, MintToken
  <2>2. PICK ttl \in TTLs : expires' = [expires EXCEPT ![job.tok] = now + Clamp(ttl)]
    BY <1>1 DEF MintToken
  <2>3. Clamp(ttl) \in Nat
    BY DEF Clamp
  <2>4. expires' \in [Tokens -> Nat]
    BY <2>1, <2>2, <2>3
  <2>5. QED
    BY <1>1, <2>1, <2>4 DEF MintToken, Goto
<1>2. CASE Rename
  <2>1. poisoned' \in BOOLEAN
    BY <1>2 DEF Rename, WriteFailed
  <2>2. QED
    BY <1>2, <2>1 DEF CallOK, Jobs, NoJob, Rename, Goto, WriteFailed, EndFails, Mishap,
       NoMishap, Return, Written, Reforging
<1>3. CASE SyncWrite
  <2>1. poisoned' \in BOOLEAN
    BY <1>3 DEF SyncWrite, WriteFailed
  <2>2. QED
    BY <1>3, <2>1 DEF CallOK, Jobs, NoJob, SyncWrite, Written_Acked, Return, WriteFailed,
       EndFails, Mishap, NoMishap, Reforging
<1>4. CASE Unlink
  BY <1>4 DEF TypeOK, CallOK, Jobs, NoJob, ClassifyQuiesce, Unlink, Goto, Mishap, NoMishap
<1>5. CASE SyncUnlink
  BY <1>5 DEF TypeOK, CallOK, Jobs, NoJob, ClassifyQuiesce, SyncUnlink, Released, Goto,
     Return, Mishap, NoMishap
<1>6. CASE Claim
  <2>1. job.grant \in Grants /\ now + LeaseTerm \in Nat
    BY <1>6 DEF CallOK, Claim
  <2>2. QED
    BY <1>6, <2>1 DEF Claim, Goto
<1>6a. CASE Egress \/ RecordTerminal \/ FlipExecuted
  BY <1>6a DEF CallOK, Jobs, NoJob, Egress, RecordTerminal, FlipExecuted, Goto, Return,
     Mishap, NoMishap
<1>7. ASSUME NEW t \in Tokens, BeginMcpRepoint(t) PROVE TypeOK'
  BY <1>7 DEF TypeOK, CallOK, Jobs, NoJob, ClassifyQuiesce, BeginMcpRepoint, Ready,
     Live, Enter
<1>8. ASSUME NEW t \in Tokens, EndMcpRepoint(t) PROVE TypeOK'
  BY <1>8 DEF TypeOK, CallOK, Jobs, NoJob, ClassifyQuiesce, EndMcpRepoint, Ready, Live,
     Enter
<1>9. ASSUME NEW t \in Tokens, McpRepointStatus(t) PROVE TypeOK'
  BY <1>9 DEF TypeOK, CallOK, Jobs, NoJob, ClassifyQuiesce, McpRepointStatus, Ready, Live
<1>10. ASSUME NEW g \in Grants, ClaimGate(g) PROVE TypeOK'
  BY <1>10 DEF TypeOK, CallOK, Jobs, NoJob, ClassifyQuiesce, ClaimGate, Ready, Live,
     Lapsed, Enter
<1>11. ASSUME NEW g \in Grants, SweepOverdue(g) \/ CloseSession(g) PROVE TypeOK'
  BY <1>11 DEF TypeOK, CallOK, Jobs, NoJob, ClassifyQuiesce, SweepOverdue, CloseSession,
     Ready, Overdue, Swept
<1>12. CASE ReleaseExpired
  BY <1>12 DEF TypeOK, CallOK, Jobs, NoJob, ClassifyQuiesce, ReleaseExpired, Ready,
     Lapsed, Enter
<1>13. CASE Crash
  <2>1. /\ phase' \in [Tokens -> {"unused", "minted", "held", "ending", "doubt", "cut", "ended"}]
        /\ told' \in [Tokens -> {"nothing", "active", "orphan", "quiescent"}]
    BY <1>13 DEF Crash, Stop
  <2>2. job' \in Jobs /\ mishaps' \in Nat
    BY <1>13 DEF Crash, Stop, Mishap, Jobs, NoJob
  <2>3. /\ pc' = "down" /\ barrier' = NoToken /\ poisoned' = FALSE /\ sessions' = {}
        /\ UNCHANGED <<expires, row, opened, deadline, terminal, now>>
        /\ entry' \in Tokens \cup {NoToken} /\ settled' \in SUBSET (Tokens \cup {NoToken})
    BY <1>13 DEF Crash, Stop
  <2>4. QED
    BY <2>1, <2>2, <2>3
<1>14. CASE PowerLoss
  <2>1. /\ phase' \in [Tokens -> {"unused", "minted", "held", "ending", "doubt", "cut", "ended"}]
        /\ told' \in [Tokens -> {"nothing", "active", "orphan", "quiescent"}]
    BY <1>14 DEF PowerLoss, Stop
  <2>2. job' \in Jobs /\ mishaps' \in Nat
    BY <1>14 DEF PowerLoss, Stop, Mishap, Jobs, NoJob
  <2>3. /\ pc' = "down" /\ barrier' = NoToken /\ poisoned' = FALSE /\ sessions' = {}
        /\ UNCHANGED <<expires, row, opened, deadline, terminal, now>>
        /\ entry' \in Tokens \cup {NoToken} /\ settled' \in SUBSET (Tokens \cup {NoToken})
    BY <1>14 DEF PowerLoss, Stop
  <2>4. QED
    BY <2>1, <2>2, <2>3
<1>15. CASE Restart
  BY <1>15 DEF TypeOK, CallOK, Jobs, NoJob, ClassifyQuiesce, Restart, Swept
<1>16. CASE Tick
  BY <1>16 DEF TypeOK, CallOK, Jobs, NoJob, ClassifyQuiesce, Tick
<1>17. CASE UNCHANGED vars
  BY <1>17 DEF TypeOK, CallOK, Jobs, NoJob, ClassifyQuiesce, vars
<1>18. QED
  BY <1>1, <1>2, <1>3, <1>4, <1>5, <1>6, <1>6a, <1>7, <1>8, <1>9, <1>10, <1>11, <1>12,
     <1>13, <1>14, <1>15, <1>16, <1>17 DEF Next, Work

(* The thread is in a call it started, and its token and grant are named. *)
LEMMA CallStep == ASSUME Inv, [Next]_vars PROVE CallOK'
<1> USE BarrierAssumption DEF Inv, TypeOK, disk, grants
<1>1. CASE MintToken
  BY <1>1 DEF CallOK, Releasing, ReleaseOK, NoJob, Jobs, PhaseOK, MintToken, Goto, Clamp
<1>2. CASE Rename
  BY <1>2 DEF CallOK, Releasing, ReleaseOK, NoJob, Jobs, PhaseOK, Rename, Goto,
     WriteFailed, EndFails, Mishap, NoMishap, Return, Written, Reforging
<1>3. CASE SyncWrite
  BY <1>3 DEF CallOK, Releasing, ReleaseOK, NoJob, Jobs, PhaseOK, SyncWrite,
     Written_Acked, Return, WriteFailed, EndFails, Mishap, NoMishap, Written, Reforging
<1>4. CASE Unlink
  BY <1>4 DEF CallOK, Releasing, ReleaseOK, NoJob, Jobs, PhaseOK, Unlink, Goto, Mishap,
     NoMishap
<1>5. CASE SyncUnlink
  BY <1>5 DEF CallOK, Releasing, ReleaseOK, NoJob, Jobs, PhaseOK, SyncUnlink, Released,
     Goto, Return, Mishap, NoMishap
<1>6. CASE Claim \/ Egress \/ RecordTerminal \/ FlipExecuted
  BY <1>6 DEF CallOK, Releasing, ReleaseOK, NoJob, Jobs, PhaseOK, Claim, Egress,
     RecordTerminal, FlipExecuted, Goto, Return, Mishap, NoMishap
<1>7. ASSUME NEW t \in Tokens, BeginMcpRepoint(t) PROVE CallOK'
  BY <1>7 DEF CallOK, Releasing, ReleaseOK, NoJob, Jobs, PhaseOK, BeginMcpRepoint,
     Ready, Live, Enter
<1>8. ASSUME NEW t \in Tokens, EndMcpRepoint(t) PROVE CallOK'
  BY <1>8 DEF CallOK, Releasing, ReleaseOK, NoJob, Jobs, PhaseOK, EndMcpRepoint, Ready,
     Live, Enter
<1>9. ASSUME NEW t \in Tokens, McpRepointStatus(t) PROVE CallOK'
  BY <1>9 DEF CallOK, Releasing, ReleaseOK, NoJob, Jobs, PhaseOK, McpRepointStatus,
     Ready, Live
<1>10. ASSUME NEW g \in Grants, ClaimGate(g) PROVE CallOK'
  BY <1>10 DEF CallOK, Releasing, ReleaseOK, NoJob, Jobs, PhaseOK, ClaimGate, Ready,
     Live, Lapsed, Enter
<1>11. ASSUME NEW g \in Grants, SweepOverdue(g) \/ CloseSession(g) PROVE CallOK'
  BY <1>11 DEF CallOK, Releasing, ReleaseOK, NoJob, Jobs, PhaseOK, SweepOverdue,
     CloseSession, Ready, Overdue, Swept
<1>12. CASE ReleaseExpired
  BY <1>12 DEF CallOK, Releasing, ReleaseOK, NoJob, Jobs, PhaseOK, ReleaseExpired,
     Ready, Lapsed, Enter
<1>13. CASE Crash
  BY <1>13 DEF CallOK, Releasing, ReleaseOK, NoJob, Jobs, PhaseOK, Crash, Stop, Mishap,
     Uncertain
<1>14. CASE PowerLoss
  BY <1>14 DEF CallOK, Releasing, ReleaseOK, NoJob, Jobs, PhaseOK, PowerLoss, Stop,
     Mishap, Uncertain
<1>15. CASE Restart
  BY <1>15 DEF CallOK, Releasing, ReleaseOK, NoJob, Jobs, PhaseOK, Restart, Swept
<1>16. CASE Tick
  BY <1>16 DEF CallOK, Releasing, ReleaseOK, NoJob, Jobs, PhaseOK, Tick
<1>17. CASE UNCHANGED vars
  BY <1>17 DEF CallOK, Releasing, ReleaseOK, NoJob, Jobs, PhaseOK, vars
<1>18. QED
  BY <1>1, <1>2, <1>3, <1>4, <1>5, <1>6, <1>7, <1>8, <1>9, <1>10, <1>11, <1>12, <1>13,
     <1>14, <1>15, <1>16, <1>17 DEF Next, Work

(* Only a lapsed barrier, or one its holder ends, is released. *)
LEMMA ReleaseStep == ASSUME Inv, [Next]_vars PROVE ReleaseOK'
<1> USE BarrierAssumption DEF Inv, TypeOK, disk, grants
<1>1. CASE MintToken
  BY <1>1 DEF CallOK, Releasing, ReleaseOK, NoJob, PhaseOK, MintToken, Goto, Clamp
<1>2. CASE Rename
  BY <1>2 DEF CallOK, Releasing, ReleaseOK, NoJob, PhaseOK, Rename, Goto, WriteFailed,
     EndFails, Mishap, NoMishap, Return, Written, Reforging
<1>3. CASE SyncWrite
  BY <1>3 DEF CallOK, Releasing, ReleaseOK, NoJob, PhaseOK, SyncWrite, Written_Acked,
     Return, WriteFailed, EndFails, Mishap, NoMishap, Written, Reforging
<1>4. CASE Unlink
  BY <1>4 DEF CallOK, Releasing, ReleaseOK, NoJob, PhaseOK, Unlink, Goto, Mishap, NoMishap
<1>5. CASE SyncUnlink
  BY <1>5 DEF CallOK, Releasing, ReleaseOK, NoJob, PhaseOK, SyncUnlink, Released, Goto,
     Return, Mishap, NoMishap
<1>6. CASE Claim \/ Egress \/ RecordTerminal \/ FlipExecuted
  BY <1>6 DEF CallOK, Releasing, ReleaseOK, NoJob, PhaseOK, Claim, Egress,
     RecordTerminal, FlipExecuted, Goto, Return, Mishap, NoMishap
<1>7. ASSUME NEW t \in Tokens, BeginMcpRepoint(t) PROVE ReleaseOK'
  BY <1>7 DEF CallOK, Releasing, ReleaseOK, NoJob, PhaseOK, BeginMcpRepoint, Ready,
     Live, Enter
<1>8. ASSUME NEW t \in Tokens, EndMcpRepoint(t) PROVE ReleaseOK'
  BY <1>8 DEF CallOK, Releasing, ReleaseOK, NoJob, PhaseOK, EndMcpRepoint, Ready, Live,
     Enter
<1>9. ASSUME NEW t \in Tokens, McpRepointStatus(t) PROVE ReleaseOK'
  BY <1>9 DEF CallOK, Releasing, ReleaseOK, NoJob, PhaseOK, McpRepointStatus, Ready, Live
<1>10. ASSUME NEW g \in Grants, ClaimGate(g) PROVE ReleaseOK'
  BY <1>10 DEF CallOK, Releasing, ReleaseOK, NoJob, PhaseOK, ClaimGate, Ready, Live,
     Lapsed, Enter
<1>11. ASSUME NEW g \in Grants, SweepOverdue(g) \/ CloseSession(g) PROVE ReleaseOK'
  BY <1>11 DEF CallOK, Releasing, ReleaseOK, NoJob, PhaseOK, SweepOverdue, CloseSession,
     Ready, Overdue, Swept
<1>12. CASE ReleaseExpired
  BY <1>12 DEF CallOK, Releasing, ReleaseOK, NoJob, PhaseOK, ReleaseExpired, Ready,
     Lapsed, Enter
<1>13. CASE Crash
  BY <1>13 DEF CallOK, Releasing, ReleaseOK, NoJob, PhaseOK, Crash, Stop, Mishap,
     Uncertain
<1>14. CASE PowerLoss
  BY <1>14 DEF CallOK, Releasing, ReleaseOK, NoJob, PhaseOK, PowerLoss, Stop, Mishap,
     Uncertain
<1>15. CASE Restart
  BY <1>15 DEF CallOK, Releasing, ReleaseOK, NoJob, PhaseOK, Restart, Swept
<1>16. CASE Tick
  BY <1>16 DEF CallOK, Releasing, ReleaseOK, NoJob, PhaseOK, Tick
<1>17. CASE UNCHANGED vars
  BY <1>17 DEF CallOK, Releasing, ReleaseOK, NoJob, PhaseOK, vars
<1>18. QED
  BY <1>1, <1>2, <1>3, <1>4, <1>5, <1>6, <1>7, <1>8, <1>9, <1>10, <1>11, <1>12, <1>13,
     <1>14, <1>15, <1>16, <1>17 DEF Next, Work

(* The record file follows the system calls of a write or an unlink. *)
LEMMA FileStep == ASSUME Inv, [Next]_vars PROVE FileOK'
<1> USE BarrierAssumption DEF Inv, TypeOK, disk, grants
<1>1. CASE MintToken
  BY <1>1 DEF CallOK, FileOK, Releasing, NoJob, Written, Reforging, MintToken, Goto, Clamp
<1>2. CASE Rename
  BY <1>2 DEF CallOK, FileOK, Releasing, NoJob, Written, Reforging, Rename, Goto,
     WriteFailed, EndFails, Mishap, NoMishap, Return, Written, Reforging
<1>3. CASE SyncWrite
  BY <1>3 DEF CallOK, FileOK, Releasing, NoJob, Written, Reforging, SyncWrite,
     Written_Acked, Return, WriteFailed, EndFails, Mishap, NoMishap, Written, Reforging
<1>4. CASE Unlink
  BY <1>4 DEF CallOK, FileOK, Releasing, NoJob, Written, Reforging, Unlink, Goto,
     Mishap, NoMishap
<1>5. CASE SyncUnlink
  BY <1>5 DEF CallOK, FileOK, Releasing, NoJob, Written, Reforging, SyncUnlink,
     Released, Goto, Return, Mishap, NoMishap
<1>6. CASE Claim \/ Egress \/ RecordTerminal \/ FlipExecuted
  BY <1>6 DEF CallOK, FileOK, Releasing, NoJob, Written, Reforging, Claim, Egress,
     RecordTerminal, FlipExecuted, Goto, Return, Mishap, NoMishap
<1>7. ASSUME NEW t \in Tokens, BeginMcpRepoint(t) PROVE FileOK'
  BY <1>7 DEF CallOK, FileOK, Releasing, NoJob, Written, Reforging, BeginMcpRepoint,
     Ready, Live, Enter
<1>8. ASSUME NEW t \in Tokens, EndMcpRepoint(t) PROVE FileOK'
  BY <1>8 DEF CallOK, FileOK, Releasing, NoJob, Written, Reforging, EndMcpRepoint,
     Ready, Live, Enter
<1>9. ASSUME NEW t \in Tokens, McpRepointStatus(t) PROVE FileOK'
  BY <1>9 DEF CallOK, FileOK, Releasing, NoJob, Written, Reforging, McpRepointStatus,
     Ready, Live
<1>10. ASSUME NEW g \in Grants, ClaimGate(g) PROVE FileOK'
  BY <1>10 DEF CallOK, FileOK, Releasing, NoJob, Written, Reforging, ClaimGate, Ready,
     Live, Lapsed, Enter
<1>11. ASSUME NEW g \in Grants, SweepOverdue(g) \/ CloseSession(g) PROVE FileOK'
  BY <1>11 DEF CallOK, FileOK, Releasing, NoJob, Written, Reforging, SweepOverdue,
     CloseSession, Ready, Overdue, Swept
<1>12. CASE ReleaseExpired
  BY <1>12 DEF CallOK, FileOK, Releasing, NoJob, Written, Reforging, ReleaseExpired,
     Ready, Lapsed, Enter
<1>13. CASE Crash
  BY <1>13 DEF CallOK, FileOK, Releasing, NoJob, Written, Reforging, Crash, Stop,
     Mishap, Uncertain
<1>14. CASE PowerLoss
  BY <1>14 DEF CallOK, FileOK, Releasing, NoJob, Written, Reforging, PowerLoss, Stop,
     Mishap, Uncertain
<1>15. CASE Restart
  BY <1>15 DEF CallOK, FileOK, Releasing, NoJob, Written, Reforging, Restart, Swept
<1>16. CASE Tick
  BY <1>16 DEF CallOK, FileOK, Releasing, NoJob, Written, Reforging, Tick
<1>17. CASE UNCHANGED vars
  BY <1>17 DEF CallOK, FileOK, Releasing, NoJob, Written, Reforging, vars
<1>18. QED
  BY <1>1, <1>2, <1>3, <1>4, <1>5, <1>6, <1>7, <1>8, <1>9, <1>10, <1>11, <1>12, <1>13,
     <1>14, <1>15, <1>16, <1>17 DEF Next, Work

(* What a holder was told agrees with the call in progress. *)
LEMMA PhaseStep == ASSUME Inv, [Next]_vars PROVE PhaseOK'
<1> USE BarrierAssumption DEF Inv, TypeOK, disk, grants
<1>1. CASE MintToken
  BY <1>1 DEF CallOK, PhaseOK, Releasing, ReleaseOK, NoJob, MintToken, Goto, Clamp
<1>2. CASE Rename
  <2>1. CASE WriteFailed
    <3>1. job.op = "end" => poisoned'
      BY <2>1 DEF WriteFailed, Reforging, CallOK, Releasing
    <3>2. poisoned => poisoned'
      BY <2>1 DEF WriteFailed
    <3>3. QED
      BY <2>1, <3>1, <3>2 DEF WriteFailed, EndFails, Return, NoJob, CallOK, PhaseOK
  <2>2. CASE ~WriteFailed
    BY <1>2, <2>2 DEF Rename, Goto, PhaseOK
  <2>3. QED
    BY <2>1, <2>2
<1>3. CASE SyncWrite
  <2>1. CASE WriteFailed
    <3>1. job.op = "end" => poisoned'
      BY <2>1 DEF WriteFailed, Reforging, CallOK, Releasing
    <3>2. poisoned => poisoned'
      BY <2>1 DEF WriteFailed
    <3>3. QED
      BY <2>1, <3>1, <3>2 DEF WriteFailed, EndFails, Return, NoJob, CallOK, PhaseOK
  <2>2. CASE ~WriteFailed
    BY <1>3, <2>2 DEF SyncWrite, Written_Acked, Reforging, EndFails, Return, NoJob,
       CallOK,
       Releasing, PhaseOK
  <2>3. QED
    BY <2>1, <2>2
<1>4. CASE Unlink
  BY <1>4 DEF CallOK, PhaseOK, Releasing, ReleaseOK, NoJob, Unlink, Goto, Mishap, NoMishap
<1>5. CASE SyncUnlink
  BY <1>5 DEF CallOK, PhaseOK, Releasing, ReleaseOK, NoJob, SyncUnlink, Released, Goto,
     Return, Mishap, NoMishap
<1>6. CASE Claim \/ Egress \/ RecordTerminal \/ FlipExecuted
  BY <1>6 DEF CallOK, PhaseOK, Releasing, ReleaseOK, NoJob, Claim, Egress,
     RecordTerminal, FlipExecuted, Goto, Return, Mishap, NoMishap
<1>7. ASSUME NEW t \in Tokens, BeginMcpRepoint(t) PROVE PhaseOK'
  BY <1>7 DEF CallOK, PhaseOK, Releasing, ReleaseOK, NoJob, BeginMcpRepoint, Ready,
     Live, Enter
<1>8. ASSUME NEW t \in Tokens, EndMcpRepoint(t) PROVE PhaseOK'
  BY <1>8 DEF CallOK, PhaseOK, Releasing, ReleaseOK, NoJob, EndMcpRepoint, Ready, Live,
     Enter
<1>9. ASSUME NEW t \in Tokens, McpRepointStatus(t) PROVE PhaseOK'
  BY <1>9 DEF CallOK, PhaseOK, Releasing, ReleaseOK, NoJob, McpRepointStatus, Ready, Live
<1>10. ASSUME NEW g \in Grants, ClaimGate(g) PROVE PhaseOK'
  BY <1>10 DEF CallOK, PhaseOK, Releasing, ReleaseOK, NoJob, ClaimGate, Ready, Live,
     Lapsed, Enter
<1>11. ASSUME NEW g \in Grants, SweepOverdue(g) \/ CloseSession(g) PROVE PhaseOK'
  BY <1>11 DEF CallOK, PhaseOK, Releasing, ReleaseOK, NoJob, SweepOverdue, CloseSession,
     Ready, Overdue, Swept
<1>12. CASE ReleaseExpired
  BY <1>12 DEF CallOK, PhaseOK, Releasing, ReleaseOK, NoJob, ReleaseExpired, Ready,
     Lapsed, Enter
<1>13. CASE Crash
  BY <1>13 DEF CallOK, PhaseOK, Releasing, ReleaseOK, NoJob, Crash, Stop, Mishap,
     Uncertain
<1>14. CASE PowerLoss
  BY <1>14 DEF CallOK, PhaseOK, Releasing, ReleaseOK, NoJob, PowerLoss, Stop, Mishap,
     Uncertain
<1>15. CASE Restart
  BY <1>15 DEF CallOK, PhaseOK, Releasing, ReleaseOK, NoJob, Restart, Swept
<1>16. CASE Tick
  BY <1>16 DEF CallOK, PhaseOK, Releasing, ReleaseOK, NoJob, Tick
<1>17. CASE UNCHANGED vars
  BY <1>17 DEF CallOK, PhaseOK, Releasing, ReleaseOK, NoJob, vars
<1>18. QED
  BY <1>1, <1>2, <1>3, <1>4, <1>5, <1>6, <1>7, <1>8, <1>9, <1>10, <1>11, <1>12, <1>13,
     <1>14, <1>15, <1>16, <1>17 DEF Next, Work

(* A standing barrier stays the one installed and the only one on disk. *)
LEMMA StandingStep == ASSUME Inv, [Next]_vars PROVE StandingIsDurable'
<1> USE BarrierAssumption DEF Inv, TypeOK, disk, grants
<1>1. CASE MintToken
  BY <1>1 DEF StandingIsDurable, Standing, CallOK, ReleaseOK, Releasing, PhaseOK,
     FileOK, MintToken, Goto, Clamp
<1>2. CASE Rename
  BY <1>2 DEF StandingIsDurable, Standing, CallOK, ReleaseOK, Releasing, PhaseOK,
     FileOK, Rename, Goto, WriteFailed, EndFails, Mishap, NoMishap, Return, Written,
     Reforging
<1>3. CASE SyncWrite
  BY <1>3 DEF StandingIsDurable, Standing, CallOK, ReleaseOK, Releasing, PhaseOK,
     FileOK, SyncWrite, Written_Acked, Return, WriteFailed, EndFails, Mishap, NoMishap,
     Written, Reforging
<1>4. CASE Unlink
  BY <1>4 DEF StandingIsDurable, Standing, CallOK, ReleaseOK, Releasing, PhaseOK,
     FileOK, Unlink, Goto, Mishap, NoMishap
<1>5. CASE SyncUnlink
  BY <1>5 DEF StandingIsDurable, Standing, CallOK, ReleaseOK, Releasing, PhaseOK,
     FileOK, SyncUnlink, Released, Goto, Return, Mishap, NoMishap
<1>6. CASE Claim \/ Egress \/ RecordTerminal \/ FlipExecuted
  BY <1>6 DEF StandingIsDurable, Standing, CallOK, ReleaseOK, Releasing, PhaseOK,
     FileOK, Claim, Egress, RecordTerminal, FlipExecuted, Goto, Return, Mishap, NoMishap
<1>7. ASSUME NEW t \in Tokens, BeginMcpRepoint(t) PROVE StandingIsDurable'
  BY <1>7 DEF StandingIsDurable, Standing, CallOK, ReleaseOK, Releasing, PhaseOK,
     FileOK, BeginMcpRepoint, Ready, Live, Enter
<1>8. ASSUME NEW t \in Tokens, EndMcpRepoint(t) PROVE StandingIsDurable'
  BY <1>8 DEF StandingIsDurable, Standing, CallOK, ReleaseOK, Releasing, PhaseOK,
     FileOK, EndMcpRepoint, Ready, Live, Enter
<1>9. ASSUME NEW t \in Tokens, McpRepointStatus(t) PROVE StandingIsDurable'
  BY <1>9 DEF StandingIsDurable, Standing, CallOK, ReleaseOK, Releasing, PhaseOK,
     FileOK, McpRepointStatus, Ready, Live
<1>10. ASSUME NEW g \in Grants, ClaimGate(g) PROVE StandingIsDurable'
  BY <1>10 DEF StandingIsDurable, Standing, CallOK, ReleaseOK, Releasing, PhaseOK,
     FileOK, ClaimGate, Ready, Live, Lapsed, Enter
<1>11. ASSUME NEW g \in Grants, SweepOverdue(g) \/ CloseSession(g) PROVE StandingIsDurable'
  BY <1>11 DEF StandingIsDurable, Standing, CallOK, ReleaseOK, Releasing, PhaseOK,
     FileOK, SweepOverdue, CloseSession, Ready, Overdue, Swept
<1>12. CASE ReleaseExpired
  BY <1>12 DEF StandingIsDurable, Standing, CallOK, ReleaseOK, Releasing, PhaseOK,
     FileOK, ReleaseExpired, Ready, Lapsed, Enter
<1>13. CASE Crash
  BY <1>13 DEF StandingIsDurable, Standing, CallOK, ReleaseOK, Releasing, PhaseOK,
     FileOK, Crash, Stop, Mishap, Uncertain
<1>14. CASE PowerLoss
  BY <1>14 DEF StandingIsDurable, Standing, CallOK, ReleaseOK, Releasing, PhaseOK,
     FileOK, PowerLoss, Stop, Mishap, Uncertain
<1>15. CASE Restart
  BY <1>15 DEF StandingIsDurable, Standing, CallOK, ReleaseOK, Releasing, PhaseOK,
     FileOK, Restart, Swept
<1>16. CASE Tick
  BY <1>16 DEF StandingIsDurable, Standing, CallOK, ReleaseOK, Releasing, PhaseOK,
     FileOK, Tick
<1>17. CASE UNCHANGED vars
  BY <1>17 DEF StandingIsDurable, Standing, CallOK, ReleaseOK, Releasing, PhaseOK,
     FileOK, vars
<1>18. QED
  BY <1>1, <1>2, <1>3, <1>4, <1>5, <1>6, <1>7, <1>8, <1>9, <1>10, <1>11, <1>12, <1>13,
     <1>14, <1>15, <1>16, <1>17 DEF Next, Work

(* An ended barrier stays gone. *)
LEMMA EndedStep == ASSUME Inv, [Next]_vars PROVE EndedStaysEnded'
<1> USE BarrierAssumption DEF Inv, TypeOK, disk, grants
<1>1. CASE MintToken
  BY <1>1 DEF EndedStaysEnded, CallOK, ReleaseOK, Releasing, FileOK, MintToken, Goto,
     Clamp
<1>2. CASE Rename
  BY <1>2 DEF EndedStaysEnded, CallOK, ReleaseOK, Releasing, FileOK, Rename, Goto,
     WriteFailed, EndFails, Mishap, NoMishap, Return, Written, Reforging
<1>3. CASE SyncWrite
  BY <1>3 DEF EndedStaysEnded, CallOK, ReleaseOK, Releasing, FileOK, SyncWrite,
     Written_Acked, Return, WriteFailed, EndFails, Mishap, NoMishap, Written, Reforging
<1>4. CASE Unlink
  BY <1>4 DEF EndedStaysEnded, CallOK, ReleaseOK, Releasing, FileOK, Unlink, Goto,
     Mishap, NoMishap
<1>5. CASE SyncUnlink
  BY <1>5 DEF EndedStaysEnded, CallOK, ReleaseOK, Releasing, FileOK, SyncUnlink,
     Released, Goto, Return, Mishap, NoMishap
<1>6. CASE Claim \/ Egress \/ RecordTerminal \/ FlipExecuted
  BY <1>6 DEF EndedStaysEnded, CallOK, ReleaseOK, Releasing, FileOK, Claim, Egress,
     RecordTerminal, FlipExecuted, Goto, Return, Mishap, NoMishap
<1>7. ASSUME NEW t \in Tokens, BeginMcpRepoint(t) PROVE EndedStaysEnded'
  BY <1>7 DEF EndedStaysEnded, CallOK, ReleaseOK, Releasing, FileOK, BeginMcpRepoint,
     Ready, Live, Enter
<1>8. ASSUME NEW t \in Tokens, EndMcpRepoint(t) PROVE EndedStaysEnded'
  BY <1>8 DEF EndedStaysEnded, CallOK, ReleaseOK, Releasing, FileOK, EndMcpRepoint,
     Ready, Live, Enter
<1>9. ASSUME NEW t \in Tokens, McpRepointStatus(t) PROVE EndedStaysEnded'
  BY <1>9 DEF EndedStaysEnded, CallOK, ReleaseOK, Releasing, FileOK, McpRepointStatus,
     Ready, Live
<1>10. ASSUME NEW g \in Grants, ClaimGate(g) PROVE EndedStaysEnded'
  BY <1>10 DEF EndedStaysEnded, CallOK, ReleaseOK, Releasing, FileOK, ClaimGate, Ready,
     Live, Lapsed, Enter
<1>11. ASSUME NEW g \in Grants, SweepOverdue(g) \/ CloseSession(g) PROVE EndedStaysEnded'
  BY <1>11 DEF EndedStaysEnded, CallOK, ReleaseOK, Releasing, FileOK, SweepOverdue,
     CloseSession, Ready, Overdue, Swept
<1>12. CASE ReleaseExpired
  BY <1>12 DEF EndedStaysEnded, CallOK, ReleaseOK, Releasing, FileOK, ReleaseExpired,
     Ready, Lapsed, Enter
<1>13. CASE Crash
  BY <1>13 DEF EndedStaysEnded, CallOK, ReleaseOK, Releasing, FileOK, Crash, Stop,
     Mishap, Uncertain
<1>14. CASE PowerLoss
  BY <1>14 DEF EndedStaysEnded, CallOK, ReleaseOK, Releasing, FileOK, PowerLoss, Stop,
     Mishap, Uncertain
<1>15. CASE Restart
  BY <1>15 DEF EndedStaysEnded, CallOK, ReleaseOK, Releasing, FileOK, Restart, Swept
<1>16. CASE Tick
  BY <1>16 DEF EndedStaysEnded, CallOK, ReleaseOK, Releasing, FileOK, Tick
<1>17. CASE UNCHANGED vars
  BY <1>17 DEF EndedStaysEnded, CallOK, ReleaseOK, Releasing, FileOK, vars
<1>18. QED
  BY <1>1, <1>2, <1>3, <1>4, <1>5, <1>6, <1>7, <1>8, <1>9, <1>10, <1>11, <1>12, <1>13,
     <1>14, <1>15, <1>16, <1>17 DEF Next, Work

(* What was quiescent stays so while its barrier can come back. *)
LEMMA QuiescedStep == ASSUME Inv, [Next]_vars PROVE QuiescedOK'
<1> USE BarrierAssumption DEF Inv, TypeOK, disk, grants
<1>1. CASE MintToken
  BY <1>1 DEF QuiescedOK, Quiesced, Settled, StandingIsDurable, Standing, CallOK,
     ReleaseOK, Releasing, PhaseOK, FileOK, ClassifyQuiesce, IsActive, IsOrphan,
     MintToken, Goto, Clamp
<1>2. CASE Rename
  BY <1>2 DEF QuiescedOK, Quiesced, Settled, StandingIsDurable, Standing, CallOK,
     ReleaseOK, Releasing, PhaseOK, FileOK, ClassifyQuiesce, IsActive, IsOrphan, Rename,
     Goto, WriteFailed, EndFails, Mishap, NoMishap, Return, Written, Reforging
<1>3. CASE SyncWrite
  BY <1>3 DEF QuiescedOK, Quiesced, Settled, StandingIsDurable, Standing, CallOK,
     ReleaseOK, Releasing, PhaseOK, FileOK, ClassifyQuiesce, IsActive, IsOrphan,
     SyncWrite, Written_Acked, Return, WriteFailed, EndFails, Mishap, NoMishap, Written,
     Reforging
<1>4. CASE Unlink
  BY <1>4 DEF QuiescedOK, Quiesced, Settled, StandingIsDurable, Standing, CallOK,
     ReleaseOK, Releasing, PhaseOK, FileOK, ClassifyQuiesce, IsActive, IsOrphan, Unlink,
     Goto, Mishap, NoMishap
<1>5. CASE SyncUnlink
  BY <1>5 DEF QuiescedOK, Quiesced, Settled, StandingIsDurable, Standing, CallOK,
     ReleaseOK, Releasing, PhaseOK, FileOK, ClassifyQuiesce, IsActive, IsOrphan,
     SyncUnlink, Released, Goto, Return, Mishap, NoMishap
<1>6. CASE Claim \/ Egress \/ RecordTerminal \/ FlipExecuted
  BY <1>6 DEF QuiescedOK, Quiesced, Settled, StandingIsDurable, Standing, CallOK,
     ReleaseOK, Releasing, PhaseOK, FileOK, ClassifyQuiesce, IsActive, IsOrphan, Claim,
     Egress, RecordTerminal, FlipExecuted, Goto, Return, Mishap, NoMishap
<1>7. ASSUME NEW t \in Tokens, BeginMcpRepoint(t) PROVE QuiescedOK'
  BY <1>7 DEF QuiescedOK, Quiesced, Settled, StandingIsDurable, Standing, CallOK,
     ReleaseOK, Releasing, PhaseOK, FileOK, ClassifyQuiesce, IsActive, IsOrphan,
     BeginMcpRepoint, Ready, Live, Enter
<1>8. ASSUME NEW t \in Tokens, EndMcpRepoint(t) PROVE QuiescedOK'
  BY <1>8 DEF QuiescedOK, Quiesced, Settled, StandingIsDurable, Standing, CallOK,
     ReleaseOK, Releasing, PhaseOK, FileOK, ClassifyQuiesce, IsActive, IsOrphan,
     EndMcpRepoint, Ready, Live, Enter
<1>9. ASSUME NEW t \in Tokens, McpRepointStatus(t) PROVE QuiescedOK'
  BY <1>9 DEF QuiescedOK, Quiesced, Settled, StandingIsDurable, Standing, CallOK,
     ReleaseOK, Releasing, PhaseOK, FileOK, ClassifyQuiesce, IsActive, IsOrphan,
     McpRepointStatus, Ready, Live
<1>10. ASSUME NEW g \in Grants, ClaimGate(g) PROVE QuiescedOK'
  BY <1>10 DEF QuiescedOK, Quiesced, Settled, StandingIsDurable, Standing, CallOK,
     ReleaseOK, Releasing, PhaseOK, FileOK, ClassifyQuiesce, IsActive, IsOrphan,
     ClaimGate, Ready, Live, Lapsed, Enter
<1>11. ASSUME NEW g \in Grants, SweepOverdue(g) \/ CloseSession(g) PROVE QuiescedOK'
  BY <1>11 DEF QuiescedOK, Quiesced, Settled, StandingIsDurable, Standing, CallOK,
     ReleaseOK, Releasing, PhaseOK, FileOK, ClassifyQuiesce, IsActive, IsOrphan,
     SweepOverdue, CloseSession, Ready, Overdue, Swept
<1>12. CASE ReleaseExpired
  BY <1>12 DEF QuiescedOK, Quiesced, Settled, StandingIsDurable, Standing, CallOK,
     ReleaseOK, Releasing, PhaseOK, FileOK, ClassifyQuiesce, IsActive, IsOrphan,
     ReleaseExpired, Ready, Lapsed, Enter
<1>13. CASE Crash
  BY <1>13 DEF QuiescedOK, Quiesced, Settled, StandingIsDurable, Standing, CallOK,
     ReleaseOK, Releasing, PhaseOK, FileOK, ClassifyQuiesce, IsActive, IsOrphan, Crash,
     Stop, Mishap, Uncertain
<1>14. CASE PowerLoss
  BY <1>14 DEF QuiescedOK, Quiesced, Settled, StandingIsDurable, Standing, CallOK,
     ReleaseOK, Releasing, PhaseOK, FileOK, ClassifyQuiesce, IsActive, IsOrphan,
     PowerLoss, Stop, Mishap, Uncertain
<1>15. CASE Restart
  BY <1>15 DEF QuiescedOK, Quiesced, Settled, StandingIsDurable, Standing, CallOK,
     ReleaseOK, Releasing, PhaseOK, FileOK, ClassifyQuiesce, IsActive, IsOrphan,
     Restart, Swept
<1>16. CASE Tick
  BY <1>16 DEF QuiescedOK, Quiesced, Settled, StandingIsDurable, Standing, CallOK,
     ReleaseOK, Releasing, PhaseOK, FileOK, ClassifyQuiesce, IsActive, IsOrphan, Tick
<1>17. CASE UNCHANGED vars
  BY <1>17 DEF QuiescedOK, Quiesced, Settled, StandingIsDurable, Standing, CallOK,
     ReleaseOK, Releasing, PhaseOK, FileOK, ClassifyQuiesce, IsActive, IsOrphan, vars
<1>18. QED
  BY <1>1, <1>2, <1>3, <1>4, <1>5, <1>6, <1>7, <1>8, <1>9, <1>10, <1>11, <1>12, <1>13,
     <1>14, <1>15, <1>16, <1>17 DEF Next, Work

-----------------------------------------------------------------------------
(* The initial states satisfy the invariant. *)
LEMMA InitInv == ASSUME Init PROVE Inv
  BY BarrierAssumption DEF Init, Inv, TypeOK, Jobs, NoJob, CallOK, Releasing, ReleaseOK,
     FileOK, Written, Reforging, PhaseOK, StandingIsDurable, Standing, EndedStaysEnded,
     QuiescedOK, Quiesced, Settled

(* Every step of a call, a client, the clock, a crash or a restart keeps   *)
(* the invariant.                                                          *)
LEMMA InvStep == ASSUME Inv, [Next]_vars PROVE Inv'
<1>1. TypeOK' /\ CallOK' /\ ReleaseOK' /\ FileOK' /\ PhaseOK'
  BY TypeStep, CallStep, ReleaseStep, FileStep, PhaseStep
<1>2. StandingIsDurable' /\ EndedStaysEnded' /\ QuiescedOK'
  BY StandingStep, EndedStep, QuiescedStep
<1>3. QED
  BY <1>1, <1>2 DEF Inv

(* The invariant holds throughout, whatever the broker's thread, its       *)
(* clients, failed writes, crashes and power losses do.                    *)
THEOREM BarrierInvariance == Spec => []Inv
<1>1. Init => Inv
  BY InitInv
<1>2. Inv /\ [Next]_vars => Inv'
  BY InvStep
<1>3. QED
  BY <1>1, <1>2, PTL DEF Spec

(* Quiescence was told while the barrier stood, so no lease has opened     *)
(* since.                                                                  *)
LEMMA InvHolds == ASSUME Inv PROVE BarrierHolds
<1>1. ASSUME NEW t \in Tokens, Standing(t), told[t] = "quiescent"
      PROVE  \A g \in Grants : row[g] # "executing" /\ (opened[g] => g \in terminal)
  BY <1>1 DEF Inv, StandingIsDurable, Standing, QuiescedOK, Quiesced, Settled
<1>2. QED
  BY <1>1 DEF Inv, BarrierHolds, QuiescentIsStable

(* begin_mcp_repoint, end_mcp_repoint and classify_quiesce keep their word *)
(* to the holder of a token: a standing barrier is the only record a kill  *)
(* or a power loss can leave and the one installed, an ended one never     *)
(* comes back, and a quiescence once told stays true while it stands.      *)
THEOREM BarrierSound == Spec => []BarrierHolds
<1>1. Inv => BarrierHolds
  BY InvHolds
<1>2. QED
  BY <1>1, BarrierInvariance, PTL

(* A claim is made by the broker's thread with no barrier installed and    *)
(* the broker not poisoned.                                                *)
LEMMA ClaimUnbarred ==
    ASSUME Inv, [Next]_vars, NEW g \in Grants, row[g] = "approved", row'[g] = "executing"
    PROVE  \A t \in Tokens : ~Blocking(t)
<1> USE BarrierAssumption DEF Inv, TypeOK, disk, grants
<1>1. Claim
  <2>1. ASSUME UNCHANGED row PROVE FALSE
    BY <2>1
  <2>2. ASSUME NEW h \in Grants, SweepOverdue(h) PROVE FALSE
    BY <2>2 DEF SweepOverdue, Swept
  <2>3. ASSUME FlipExecuted PROVE FALSE
    BY <2>3 DEF FlipExecuted
  <2>4. ASSUME Restart PROVE FALSE
    BY <2>4 DEF Restart, Swept
  <2>5. QED
    BY <2>1, <2>2, <2>3, <2>4 DEF Next, Work, vars, MintToken, Rename, SyncWrite,
       WriteFailed, Unlink, SyncUnlink, Egress, RecordTerminal, BeginMcpRepoint,
       EndMcpRepoint, McpRepointStatus, ClaimGate, CloseSession, ReleaseExpired, Crash,
       PowerLoss, Stop, Tick
<1>2. pc = "claim" /\ barrier = NoToken /\ ~poisoned
  BY <1>1 DEF Claim, CallOK
<1>3. QED
  BY <1>2 DEF Blocking, StandingIsDurable, Standing, PhaseOK

(* enforce_quiesce_barrier: no grant is claimed while a barrier stands,    *)
(* across failed releases, crashes and restarts, nor after the double      *)
(* fault of a release until the restart its error message names.           *)
THEOREM BarrierEnforced == Spec => NoClaimUnderBarrier
<1>1. Inv /\ [Next]_vars =>
        [\A g \in Grants :
            (row[g] = "approved" /\ row'[g] = "executing") =>
                \A t \in Tokens : ~Blocking(t)]_vars
  BY ClaimUnbarred
<1>2. QED
  BY <1>1, BarrierInvariance, PTL DEF Spec, NoClaimUnderBarrier

-----------------------------------------------------------------------------
(* The audit chain. *)

(* The event a hash was made for, and the hash it was chained to. *)
Top(h) == h[Len(h)]
Base(h) == SubSeq(h, 1, Len(h) - 1)

Logged == [id : Int, type : Audit!Types \cup {"unparseable"}, grant : Grants \cup {None}]
Rows == [event : Logged, prev : Seq(Logged), hash : Seq(Logged) \ {<< >>}]

(* The hashes of a table and the ones they were chained to. *)
Hashes(T) == {T[i].hash : i \in DOMAIN T} \cup ({Base(T[i].hash) : i \in DOMAIN T} \ {<< >>})

(* What the broker recorded: one event per identifier, and the identifiers *)
(* count the events.                                                       *)
WrittenOK(W) ==
    /\ IsFiniteSet(W)
    /\ \A w \in W : w = [event |-> w.event, after |-> w.after] /\ w.event.id \in 1 .. Cardinality(W)
    /\ \A v, w \in W : v.event.id = w.event.id => v = w

(* No hash was made twice, and each for an event the broker recorded. *)
HashesOK(T, W) ==
    /\ T \in Seq(Rows)
    /\ \A h \in Hashes(T) : Top(h).id \in 1 .. Cardinality(W)
    /\ \A h, k \in Hashes(T) : Top(h).id = Top(k).id => h = k

(* A row's hash was made for an event and a link the broker recorded; only *)
(* the identifier of the event it carries may have become unreadable.      *)
MadeOK(T, W) ==
    \A i \in DOMAIN T :
        /\ T[i].event.id \in {Top(T[i].hash).id, -1}
        /\ \E w \in W :
             /\ w.event = Top(T[i].hash)
             /\ IF Base(T[i].hash) = << >> THEN w.after = 0
                ELSE w.after \in {Top(Base(T[i].hash)).id, -1}
             /\ w.after = -1 => \A j \in DOMAIN T :
                                   T[j].hash = Base(T[i].hash) => T[j].event.id = -1

(* A row that is still in the table stands right before the one that was   *)
(* chained to it, and a row whose link was rewritten has lost the row it   *)
(* was chained to.                                                         *)
PlacesOK(T) ==
    /\ \A i, j \in DOMAIN T : T[i].hash = T[j].hash => i = j
    /\ \A i, j \in DOMAIN T : Base(T[i].hash) = T[j].hash => j = i - 1
    /\ \A i \in DOMAIN T : Base(T[i].hash) = << >> => i = 1
    /\ \A i \in DOMAIN T : T[i].prev # Base(T[i].hash) =>
          Base(T[i].hash) # << >> /\ \A j \in DOMAIN T : T[j].hash # Base(T[i].hash)

(* A row that does not follow the one it was chained to. *)
Torn(T, i) == Base(T[i].hash) # (IF i = 1 THEN << >> ELSE T[i - 1].hash)
MintOf(T, i, g) == Top(T[i].hash).type = "budget_mint" /\ Top(T[i].hash).grant = g

(* The mint of a grant is on the disk, or the table there shows that a row *)
(* was taken out.                                                          *)
Backed(T, n, g) == \E i \in DOMAIN T : i <= n /\ (MintOf(T, i, g) \/ Torn(T, i))

MintsOK ==
    /\ synced \in 0 .. Len(table)
    /\ minting \in [grant : Grants \cup {None}, at : {"idle", "append", "insert"}]
    /\ minting.at = "append" => level = "full"
    /\ minting.at = "insert" => Backed(table, synced, minting.grant)
    /\ \A g \in granted : Backed(table, synced, g)

ChainInv ==
    /\ WrittenOK(written) /\ HashesOK(table, written) /\ MadeOK(table, written)
    /\ PlacesOK(table) /\ MintsOK

-----------------------------------------------------------------------------
(* Sequences. *)

(* A hash and what it was made from. *)
LEMMA HashFacts ==
    ASSUME NEW p \in Seq(Logged), NEW e \in Logged
    PROVE  /\ Append(p, e) \in Seq(Logged) \ {<< >>}
           /\ Top(Append(p, e)) = e /\ Base(Append(p, e)) = p
<1>1. /\ Append(p, e) \in Seq(Logged) /\ Len(Append(p, e)) = Len(p) + 1
      /\ \A i \in 1 .. Len(p) : Append(p, e)[i] = p[i]
      /\ Append(p, e)[Len(p) + 1] = e /\ Len(p) \in Nat
  OBVIOUS
<1>2. Append(p, e) # << >>
  BY <1>1
<1>3. Base(Append(p, e)) = p
  <2>1. \A i \in 1 .. Len(p) : Append(p, e)[i] \in Logged
    BY <1>1
  <2>2. /\ SubSeq(Append(p, e), 1, Len(p)) \in Seq(Logged)
        /\ Len(SubSeq(Append(p, e), 1, Len(p))) = Len(p)
        /\ \A i \in 1 .. Len(p) : SubSeq(Append(p, e), 1, Len(p))[i] = p[i]
    BY <1>1, <2>1, SubSeqProperties
  <2>3. SubSeq(Append(p, e), 1, Len(p)) = p
    BY <2>2, SeqEqual
  <2>4. QED
    BY <1>1, <2>3 DEF Base
<1>4. QED
  BY <1>1, <1>2, <1>3 DEF Top

(* What a hash was made from makes it again. *)
LEMMA HashParts ==
    ASSUME NEW h \in Seq(Logged) \ {<< >>}
    PROVE  Base(h) \in Seq(Logged) /\ Top(h) \in Logged /\ h = Append(Base(h), Top(h))
<1>1. Len(h) \in Nat \ {0} /\ \A i \in 1 .. Len(h) : h[i] \in Logged
  BY EmptySeq, ElementOfSeq
<1>2. Top(h) \in Logged
  BY <1>1 DEF Top
<1>3. /\ Base(h) \in Seq(Logged) /\ Len(Base(h)) = Len(h) - 1
      /\ \A i \in 1 .. Len(h) - 1 : Base(h)[i] = h[i]
  <2>1. PICK l \in Nat : l = Len(h) - 1
    BY <1>1
  <2>2. \A i \in 1 .. l : h[i] \in Logged
    BY <1>1, <2>1
  <2>3. /\ SubSeq(h, 1, l) \in Seq(Logged) /\ Len(SubSeq(h, 1, l)) = l
        /\ \A i \in 1 .. l : SubSeq(h, 1, l)[i] = h[i]
    BY <2>1, <2>2, SubSeqProperties
  <2>4. QED
    BY <2>1, <2>3 DEF Base
<1>4. h = Append(Base(h), Top(h))
  <2>1. PICK a : a = Append(Base(h), Top(h))
    OBVIOUS
  <2>2. /\ a \in Seq(Logged) /\ Len(a) = Len(h)
        /\ \A i \in 1 .. Len(h) : a[i] = h[i]
    BY <1>1, <1>2, <1>3, <2>1 DEF Top
  <2>3. h = a
    BY <2>2, SeqEqual
  <2>4. QED
    BY <2>1, <2>3
<1>5. QED
  BY <1>2, <1>3, <1>4

(* What is left of a table. *)
LEMMA CutFacts ==
    ASSUME NEW T \in Seq(Rows), NEW n \in 0 .. Len(T), NEW U, U = SubSeq(T, 1, n)
    PROVE  U \in Seq(Rows) /\ DOMAIN U = 1 .. n /\ Len(U) = n /\ \A i \in 1 .. n : U[i] = T[i]
<1>1. Len(T) \in Nat /\ \A i \in 1 .. Len(T) : T[i] \in Rows
  BY ElementOfSeq
<1>2. \A i \in 1 .. n : T[i] \in Rows
  BY <1>1
<1>3. QED
  BY <1>1, <1>2, SubSeqProperties, LenProperties

(* What is left of a table when one row is taken out of it. *)
LEMMA RemoveFacts ==
    ASSUME NEW T \in Seq(Rows), NEW k \in 1 .. Len(T), NEW U, U = Audit!Remove(T, k)
    PROVE  /\ U \in Seq(Rows) /\ Len(U) = Len(T) - 1 /\ DOMAIN U = 1 .. Len(T) - 1
           /\ \A i \in 1 .. Len(T) - 1 : U[i] = IF i < k THEN T[i] ELSE T[i + 1]
<1>1. Len(T) \in Nat /\ \A i \in 1 .. Len(T) : T[i] \in Rows
  BY ElementOfSeq
<1>2. PICK a : a = SubSeq(T, 1, k - 1)
  OBVIOUS
<1>3. PICK b : b = SubSeq(T, k + 1, Len(T))
  OBVIOUS
<1>4. a \in Seq(Rows) /\ Len(a) = k - 1 /\ \A i \in 1 .. k - 1 : a[i] = T[i]
  <2>1. \A i \in 1 .. k - 1 : T[i] \in Rows
    BY <1>1
  <2>2. QED
    BY <1>1, <1>2, <2>1, SubSeqProperties
<1>5. b \in Seq(Rows) /\ Len(b) = Len(T) - k /\ \A i \in 1 .. Len(T) - k : b[i] = T[k + i]
  <2>1. \A i \in k + 1 .. Len(T) : T[i] \in Rows
    BY <1>1
  <2>2. QED
    BY <1>1, <1>3, <2>1, SubSeqProperties
<1>6. /\ a \o b \in Seq(Rows) /\ Len(a \o b) = Len(T) - 1
      /\ \A i \in 1 .. Len(T) - 1 : (a \o b)[i] = IF i <= k - 1 THEN a[i] ELSE b[i - (k - 1)]
  <2>1. /\ a \o b \in Seq(Rows) /\ Len(a \o b) = Len(a) + Len(b)
        /\ \A i \in 1 .. Len(a) + Len(b) : (a \o b)[i] =
               IF i <= Len(a) THEN a[i] ELSE b[i - Len(a)]
    BY <1>4, <1>5, ConcatProperties
  <2>2. Len(a) = k - 1 /\ Len(a) + Len(b) = Len(T) - 1
    BY <1>1, <1>4, <1>5
  <2>3. QED
    BY <2>1, <2>2
<1>7. U = a \o b
  BY <1>2, <1>3 DEF Audit!Remove
<1>8. ASSUME NEW i \in 1 .. Len(T) - 1 PROVE U[i] = IF i < k THEN T[i] ELSE T[i + 1]
  <2>1. CASE i < k
    <3>1. i \in 1 .. k - 1 /\ i <= k - 1
      BY <2>1
    <3>2. QED
      BY <1>4, <1>6, <1>7, <2>1, <3>1
  <2>2. CASE ~(i < k)
    <3>1. i - (k - 1) \in 1 .. Len(T) - k /\ ~(i <= k - 1) /\ k + (i - (k - 1)) = i + 1
      BY <1>1, <2>2
    <3>2. QED
      BY <1>5, <1>6, <1>7, <2>2, <3>1
  <2>3. QED
    BY <2>1, <2>2
<1>9. QED
  BY <1>6, <1>7, <1>8, LenProperties

-----------------------------------------------------------------------------
(* Writing. *)

(* The log's instance counts as this module does. *)
LEMMA AuditCardinality == \A S : Audit!Cardinality(S) = Cardinality(S)
BY DEF Audit!Cardinality, Cardinality

(* A row appended to the log: its event is new, and it is chained to the   *)
(* last row.                                                               *)
LEMMA InsertFacts ==
    ASSUME ChainInv, NEW type \in Audit!Types, NEW g \in Grants \cup {None}, Audit!Insert(type, g)
    PROVE  /\ WrittenOK(written') /\ HashesOK(table', written') /\ MadeOK(table', written')
           /\ PlacesOK(table')
           /\ Len(table) \in Nat /\ DOMAIN table = 1 .. Len(table)
           /\ Len(table') = Len(table) + 1 /\ DOMAIN table' = 1 .. Len(table) + 1
           /\ \A i \in 1 .. Len(table) : table'[i] = table[i]
           /\ Top(table'[Len(table) + 1].hash) = [id |-> Cardinality(written) + 1, type |-> type, grant |-> g]
<1> DEFINE n == Len(table)
           N == Cardinality(written)
<1>1. PICK e : e = [id |-> N + 1, type |-> type, grant |-> g]
  OBVIOUS
<1>2. PICK new : new = [event |-> e, prev |-> Audit!LatestHash, hash |-> Audit!ChainHash(Audit!LatestHash, e)]
  OBVIOUS
<1>3. PICK w : w = [event |-> e, after |-> Audit!LatestId]
  OBVIOUS
<1>4. table' = Append(table, new) /\ written' = written \cup {w}
  <2>1. table' = Append(table, new)
    BY <1>1, <1>2, AuditCardinality DEF Audit!Insert
  <2>2. written' = written \cup {w}
    BY <1>1, <1>3, AuditCardinality DEF Audit!Insert
  <2>3. QED
    BY <2>1, <2>2
<1>5. /\ table \in Seq(Rows) /\ n \in Nat /\ DOMAIN table = 1 .. n
      /\ \A i \in 1 .. n : table[i] \in Rows
  BY LenProperties, ElementOfSeq DEF ChainInv, HashesOK
<1>6. N \in Nat /\ IsFiniteSet(written)
  BY FS_CardinalityType DEF ChainInv, WrittenOK
<1>7. e \in Logged /\ e.id = N + 1 /\ w.event = e /\ w.after = Audit!LatestId
  BY <1>1, <1>3, <1>6 DEF Logged
<1>8. Audit!LatestHash \in Seq(Logged) /\ (table = << >> <=> n = 0)
  <2>1. table = << >> <=> n = 0
    BY <1>5, EmptySeq
  <2>2. << >> \in Seq(Logged)
    BY EmptySeq
  <2>3. n # 0 => table[n].hash \in Seq(Logged)
    <3>1. \A r \in Rows : r.hash \in Seq(Logged)
      BY DEF Rows
    <3>2. n # 0 => table[n] \in Rows
      BY <1>5
    <3>3. QED
      BY <3>1, <3>2, Zenon
  <2>4. QED
    BY <2>1, <2>2, <2>3 DEF Audit!LatestHash
<1>9. /\ new \in Rows /\ new.event = e /\ new.prev = Audit!LatestHash
      /\ Top(new.hash) = e /\ Base(new.hash) = Audit!LatestHash
  BY <1>2, <1>7, <1>8, HashFacts DEF Rows, Audit!ChainHash
<1>10. /\ table' \in Seq(Rows) /\ Len(table') = n + 1 /\ DOMAIN table' = 1 .. n + 1
       /\ \A i \in 1 .. n : table'[i] = table[i]
       /\ table'[n + 1] = new
  BY <1>4, <1>5, <1>9
<1>11. w \notin written /\ Cardinality(written') = N + 1 /\ IsFiniteSet(written')
  <2>1. w \notin written
    BY <1>6, <1>7 DEF ChainInv, WrittenOK
  <2>2. QED
    BY <1>4, <1>6, <2>1, FS_AddElement
<1>12. WrittenOK(written')
  <2>1. /\ \A v \in written : v = [event |-> v.event, after |-> v.after] /\ v.event.id \in 1 .. N
        /\ \A u, v \in written : u.event.id = v.event.id => u = v
    BY DEF ChainInv, WrittenOK
  <2>2. \A v \in written' : v = [event |-> v.event, after |-> v.after] /\ v.event.id \in 1 .. N + 1
    BY <1>3, <1>4, <1>6, <1>7, <2>1
  <2>3. \A u, v \in written' : u.event.id = v.event.id => u = v
    BY <1>4, <1>6, <1>7, <2>1
  <2>4. QED
    BY <1>11, <2>2, <2>3 DEF WrittenOK
<1>13. n = 0 => Audit!LatestHash = << >> /\ Audit!LatestId = 0
  BY <1>8 DEF Audit!LatestHash, Audit!LatestId
<1>14. n # 0 => Audit!LatestHash = table[n].hash /\ Audit!LatestId = table[n].event.id
  BY <1>8 DEF Audit!LatestHash, Audit!LatestId
<1>15. Audit!LatestHash # << >> => Audit!LatestHash \in Hashes(table)
  BY <1>5, <1>13, <1>14 DEF Hashes
<1>16. Hashes(table') = Hashes(table) \cup {new.hash}
  <2>1. ASSUME NEW h \in Hashes(table') PROVE h \in Hashes(table) \cup {new.hash}
    <3>1. PICK i \in 1 .. n + 1 : h = table'[i].hash \/ (h = Base(table'[i].hash) /\ h # << >>)
      BY <1>10, <2>1 DEF Hashes
    <3>2. CASE i = n + 1
      BY <1>9, <1>10, <1>15, <3>1, <3>2
    <3>3. CASE i \in 1 .. n
      BY <1>5, <1>10, <3>1, <3>3 DEF Hashes
    <3>4. QED
      BY <1>5, <3>2, <3>3
  <2>2. ASSUME NEW h \in Hashes(table) PROVE h \in Hashes(table')
    <3>1. PICK i \in 1 .. n : h = table[i].hash \/ (h = Base(table[i].hash) /\ h # << >>)
      BY <1>5, <2>2 DEF Hashes
    <3>2. i \in DOMAIN table' /\ table'[i] = table[i]
      BY <1>5, <1>10
    <3>3. QED
      BY <3>1, <3>2 DEF Hashes
  <2>3. new.hash \in Hashes(table')
    <3>1. n + 1 \in DOMAIN table'
      BY <1>5, <1>10
    <3>2. QED
      BY <1>10, <3>1 DEF Hashes
  <2>4. QED
    BY <2>1, <2>2, <2>3
<1>17. HashesOK(table', written')
  <2>1. \A h \in Hashes(table) : Top(h).id \in 1 .. N
    BY DEF ChainInv, HashesOK
  <2>2. \A h, k \in Hashes(table) : Top(h).id = Top(k).id => h = k
    BY DEF ChainInv, HashesOK
  <2>3. Top(new.hash).id = N + 1
    BY <1>7, <1>9
  <2>4. QED
    BY <1>6, <1>10, <1>11, <1>16, <2>1, <2>2, <2>3 DEF HashesOK
<1>18. \A h \in Hashes(table) : h # new.hash
  BY <1>6, <1>7, <1>9 DEF ChainInv, HashesOK
<1>19. \A i \in 1 .. n : /\ table[i].hash \in Hashes(table)
                         /\ Base(table[i].hash) # << >> => Base(table[i].hash) \in Hashes(table)
  BY <1>5 DEF Hashes
<1>20. \A i \in 1 .. n : new.hash # table[i].hash /\ new.hash # Base(table[i].hash)
  <2>1. new.hash # << >>
    BY <1>9 DEF Rows
  <2>2. ASSUME NEW i \in 1 .. n PROVE new.hash # table[i].hash /\ new.hash # Base(table[i].hash)
    <3>1. new.hash # table[i].hash
      BY <1>18, <1>19, Zenon
    <3>2. CASE Base(table[i].hash) = << >>
      BY <2>1, <3>1, <3>2
    <3>3. CASE Base(table[i].hash) # << >>
      BY <1>18, <1>19, <3>1, <3>3, Zenon
    <3>4. QED
      BY <3>2, <3>3
  <2>3. QED
    BY <2>2
<1>21. Audit!LatestHash # new.hash
  BY <1>9, <1>15, <1>18 DEF Rows
<1>50. \A i, j \in 1 .. n : table[i].hash = table[j].hash => i = j
  BY <1>5 DEF ChainInv, PlacesOK
<1>22. PlacesOK(table')
  <2>1. PlacesOK(table)
    BY DEF ChainInv
  <2>2. \A i, j \in 1 .. n + 1 : table'[i].hash = table'[j].hash => i = j
    BY <1>5, <1>10, <1>20, <2>1 DEF PlacesOK
  <2>3. ASSUME NEW i \in 1 .. n + 1, NEW j \in 1 .. n + 1, Base(table'[i].hash) = table'[j].hash
        PROVE  j = i - 1
    <3>1. CASE i = n + 1
      <4>1. j \in 1 .. n /\ table[j].hash = Audit!LatestHash
        BY <1>5, <1>9, <1>10, <1>21, <2>3, <3>1
      <4>2. n \in 1 .. n /\ Audit!LatestHash = table[n].hash
        BY <1>14, <4>1, <1>5
      <4>3. j = n
        BY <1>50, <4>1, <4>2, Zenon
      <4>4. QED
        BY <1>5, <3>1, <4>3
    <3>2. CASE i \in 1 .. n
      <4>1. j \in 1 .. n
        BY <1>5, <1>10, <1>20, <2>3, <3>2
      <4>2. QED
        BY <1>5, <1>10, <2>1, <2>3, <3>2, <4>1 DEF PlacesOK
    <3>3. QED
      BY <1>5, <3>1, <3>2
  <2>4. ASSUME NEW i \in 1 .. n + 1, Base(table'[i].hash) = << >> PROVE i = 1
    <3>1. CASE i = n + 1
      <4>1. Audit!LatestHash = << >>
        BY <1>9, <1>10, <2>4, <3>1
      <4>2. n = 0
        BY <1>5, <1>14, <4>1, SMTT(60) DEF Rows
      <4>3. QED
        BY <3>1, <4>2
    <3>2. CASE i \in 1 .. n
      BY <1>5, <1>10, <2>1, <2>4, <3>2 DEF PlacesOK
    <3>3. QED
      BY <1>5, <3>1, <3>2
  <2>5. ASSUME NEW i \in 1 .. n + 1, table'[i].prev # Base(table'[i].hash)
        PROVE  /\ Base(table'[i].hash) # << >>
               /\ \A j \in 1 .. n + 1 : table'[j].hash # Base(table'[i].hash)
    <3>1. i \in 1 .. n
      BY <1>5, <1>9, <1>10, <2>5
    <3>2. /\ Base(table[i].hash) # << >>
          /\ \A j \in 1 .. n : table[j].hash # Base(table[i].hash)
      BY <1>5, <1>10, <2>1, <2>5, <3>1 DEF PlacesOK
    <3>3. QED
      BY <1>5, <1>10, <1>20, <3>1, <3>2, SMTT(60)
  <2>6. QED
    BY <1>10, <2>2, <2>3, <2>4, <2>5 DEF PlacesOK
<1>23. MadeOK(table', written')
  <2>1. ASSUME NEW i \in 1 .. n
        PROVE  /\ table'[i].event.id \in {Top(table'[i].hash).id, -1}
               /\ \E v \in written' :
                    /\ v.event = Top(table'[i].hash)
                    /\ IF Base(table'[i].hash) = << >> THEN v.after = 0
                       ELSE v.after \in {Top(Base(table'[i].hash)).id, -1}
                    /\ v.after = -1 => \A j \in DOMAIN table' :
                                   table'[j].hash = Base(table'[i].hash) => table'[j].event.id = -1
    <3>1. /\ table[i].event.id \in {Top(table[i].hash).id, -1}
          /\ \E v \in written :
               /\ v.event = Top(table[i].hash)
               /\ IF Base(table[i].hash) = << >> THEN v.after = 0
                  ELSE v.after \in {Top(Base(table[i].hash)).id, -1}
               /\ v.after = -1 => \A j \in DOMAIN table :
                                   table[j].hash = Base(table[i].hash) => table[j].event.id = -1
      BY <1>5 DEF ChainInv, MadeOK
    <3>2. PICK v \in written :
               /\ v.event = Top(table[i].hash)
               /\ IF Base(table[i].hash) = << >> THEN v.after = 0
                  ELSE v.after \in {Top(Base(table[i].hash)).id, -1}
               /\ v.after = -1 => \A j \in DOMAIN table :
                                   table[j].hash = Base(table[i].hash) => table[j].event.id = -1
      BY <3>1
    <3>3. v.after = -1 => \A j \in 1 .. n + 1 :
                                   table'[j].hash = Base(table'[i].hash) => table'[j].event.id = -1
      BY <1>5, <1>10, <1>20, <3>2
    <3>4. v \in written' /\ table'[i] = table[i]
      BY <1>4, <1>10
    <3>5. QED
      BY <1>10, <3>1, <3>2, <3>3, <3>4
  <2>2. /\ new.event.id \in {Top(new.hash).id, -1}
        /\ w.event = Top(new.hash)
        /\ IF Base(new.hash) = << >> THEN w.after = 0
           ELSE w.after \in {Top(Base(new.hash)).id, -1}
        /\ w.after = -1 => \A j \in 1 .. n + 1 :
                              table'[j].hash = Base(new.hash) => table'[j].event.id = -1
    <3>1. CASE n = 0
      BY <1>7, <1>9, <1>13, <3>1
    <3>2. CASE n # 0
      <4>1. Audit!LatestHash = table[n].hash /\ w.after = table[n].event.id /\ n \in 1 .. n
        BY <1>5, <1>7, <1>14, <3>2
      <4>2. table[n].event.id \in {Top(table[n].hash).id, -1} /\ table[n].hash # << >>
        BY <1>5, <4>1 DEF ChainInv, MadeOK, Rows
      <4>3. ASSUME NEW j \in 1 .. n + 1, table'[j].hash = table[n].hash PROVE j = n
        <5>1. j \in 1 .. n
          BY <1>5, <1>10, <1>20, <4>1, <4>3
        <5>2. QED
          BY <1>10, <1>50, <4>1, <4>3, <5>1
      <4>4. QED
        BY <1>7, <1>9, <1>10, <4>1, <4>2, <4>3
    <3>3. QED
      BY <3>1, <3>2
  <2>3. w \in written' /\ table'[n + 1] = new
    BY <1>4, <1>10
  <2>4. QED
    BY <1>5, <1>10, <2>1, <2>2, <2>3, SMTT(60) DEF MadeOK
<1>24. QED
  BY <1>1, <1>5, <1>9, <1>10, <1>12, <1>17, <1>22, <1>23

-----------------------------------------------------------------------------
(* Losing and altering rows. *)

(* U keeps some rows of T in their order, with their hashes; f says which. *)
(* A row whose link changed has lost the row it was chained to.            *)
Keeps(T, U, f) ==
    /\ \A i \in DOMAIN U : /\ f[i] \in DOMAIN T /\ U[i].hash = T[f[i]].hash
                           /\ U[i].event.id \in {T[f[i]].event.id, -1}
                           /\ f[i] = 1 => i = 1
                           /\ \/ U[i].prev = T[f[i]].prev
                              \/ /\ Base(U[i].hash) # << >>
                                 /\ \A j \in DOMAIN U : U[j].hash # Base(U[i].hash)
    /\ \A i, j \in DOMAIN U : (f[i] = f[j] => i = j) /\ (f[j] = f[i] - 1 => j = i - 1)

(* A table that keeps rows of a sound one is sound. *)
LEMMA Thinned ==
    ASSUME NEW T, NEW U \in Seq(Rows), NEW W, HashesOK(T, W), MadeOK(T, W), PlacesOK(T), NEW f,
           Keeps(T, U, f)
    PROVE  HashesOK(U, W) /\ MadeOK(U, W) /\ PlacesOK(U)
<1> USE DEF Keeps
<1>1. Hashes(U) \subseteq Hashes(T)
  BY DEF Hashes
<1>2. HashesOK(U, W)
  BY <1>1 DEF HashesOK
<1>3. MadeOK(U, W)
  <2>1. SUFFICES ASSUME NEW i \in DOMAIN U
                 PROVE  /\ U[i].event.id \in {Top(U[i].hash).id, -1}
                        /\ \E w \in W :
                             /\ w.event = Top(U[i].hash)
                             /\ IF Base(U[i].hash) = << >> THEN w.after = 0
                                ELSE w.after \in {Top(Base(U[i].hash)).id, -1}
                             /\ w.after = -1 => \A j \in DOMAIN U :
                                   U[j].hash = Base(U[i].hash) => U[j].event.id = -1
    BY DEF MadeOK
  <2>2. f[i] \in DOMAIN T /\ U[i].hash = T[f[i]].hash /\ U[i].event.id \in {T[f[i]].event.id, -1}
    OBVIOUS
  <2>3. PICK w \in W :
             /\ w.event = Top(T[f[i]].hash)
             /\ IF Base(T[f[i]].hash) = << >> THEN w.after = 0
                ELSE w.after \in {Top(Base(T[f[i]].hash)).id, -1}
             /\ w.after = -1 => \A j \in DOMAIN T :
                   T[j].hash = Base(T[f[i]].hash) => T[j].event.id = -1
    BY <2>2 DEF MadeOK
  <2>4. ASSUME w.after = -1, NEW j \in DOMAIN U, U[j].hash = Base(U[i].hash) PROVE U[j].event.id = -1
    <3>1. f[j] \in DOMAIN T /\ U[j].hash = T[f[j]].hash /\ U[j].event.id \in {T[f[j]].event.id, -1}
      OBVIOUS
    <3>2. T[f[j]].event.id = -1
      BY <2>2, <2>3, <2>4, <3>1
    <3>3. QED
      BY <3>1, <3>2
  <2>5. U[i].event.id \in {Top(U[i].hash).id, -1}
    BY <2>2 DEF MadeOK
  <2>6. QED
    BY <2>2, <2>3, <2>4, <2>5
<1>4. PlacesOK(U)
  <2>1. ASSUME NEW i \in DOMAIN U, NEW j \in DOMAIN U, U[i].hash = U[j].hash PROVE i = j
    <3>1. f[i] = f[j]
      BY <2>1 DEF PlacesOK
    <3>2. QED
      BY <3>1
  <2>2. ASSUME NEW i \in DOMAIN U, NEW j \in DOMAIN U, Base(U[i].hash) = U[j].hash PROVE j = i - 1
    <3>1. f[j] = f[i] - 1
      BY <2>2 DEF PlacesOK
    <3>2. QED
      BY <3>1
  <2>3. ASSUME NEW i \in DOMAIN U, Base(U[i].hash) = << >> PROVE i = 1
    <3>1. f[i] = 1
      BY <2>3 DEF PlacesOK
    <3>2. QED
      BY <3>1
  <2>4. ASSUME NEW i \in DOMAIN U, U[i].prev # Base(U[i].hash)
        PROVE  Base(U[i].hash) # << >> /\ \A j \in DOMAIN U : U[j].hash # Base(U[i].hash)
    <3>1. CASE U[i].prev = T[f[i]].prev
      <4>1. /\ Base(T[f[i]].hash) # << >>
            /\ \A j \in DOMAIN T : T[j].hash # Base(T[f[i]].hash)
        BY <2>4, <3>1 DEF PlacesOK
      <4>2. QED
        BY <4>1
    <3>2. CASE U[i].prev # T[f[i]].prev
      BY <3>2
    <3>3. QED
      BY <3>1, <3>2
  <2>5. QED
    BY <2>1, <2>2, <2>3, <2>4 DEF PlacesOK
<1>5. QED
  BY <1>2, <1>3, <1>4

(* A power loss leaves the rows that were synced. *)
LEMMA CutKeeps ==
    ASSUME ChainInv, NEW n \in synced .. Len(table), NEW U, U = SubSeq(table, 1, n)
    PROVE  /\ HashesOK(U, written) /\ MadeOK(U, written) /\ PlacesOK(U) /\ Len(U) = n /\ n \in Nat
           /\ \A g : Backed(table, synced, g) => Backed(U, n, g)
<1>1. table \in Seq(Rows) /\ Len(table) \in Nat /\ DOMAIN table = 1 .. Len(table)
  BY LenProperties DEF ChainInv, HashesOK
<1>2. synced \in 0 .. Len(table) /\ n \in 0 .. Len(table)
  BY <1>1 DEF ChainInv, MintsOK
<1>3. U \in Seq(Rows) /\ DOMAIN U = 1 .. n /\ Len(U) = n /\ \A i \in 1 .. n : U[i] = table[i]
  BY <1>1, <1>2, CutFacts
<1>4. PICK f : f = [i \in 1 .. n |-> i]
  OBVIOUS
<1>5. HashesOK(U, written) /\ MadeOK(U, written) /\ PlacesOK(U)
  <2>1. \A i \in DOMAIN U : f[i] = i /\ i \in DOMAIN table /\ U[i] = table[i] /\ i \in Int
    BY <1>1, <1>2, <1>3, <1>4
  <2>2. HashesOK(table, written) /\ MadeOK(table, written) /\ PlacesOK(table)
    BY DEF ChainInv
  <2>3. Keeps(table, U, f)
    BY <2>1 DEF Keeps
  <2>4. QED
    BY <1>3, <2>2, <2>3, Thinned
<1>6. ASSUME NEW g, Backed(table, synced, g) PROVE Backed(U, n, g)
  <2>1. PICK i \in DOMAIN table : i <= synced /\ (MintOf(table, i, g) \/ Torn(table, i))
    BY <1>6 DEF Backed
  <2>2. i \in 1 .. n /\ U[i] = table[i] /\ (i # 1 => U[i - 1] = table[i - 1])
    BY <1>1, <1>2, <1>3, <2>1
  <2>3. MintOf(U, i, g) \/ Torn(U, i)
    BY <2>1, <2>2 DEF MintOf, Torn
  <2>4. QED
    BY <1>2, <1>3, <2>1, <2>2, <2>3 DEF Backed
<1>7. QED
  BY <1>2, <1>3, <1>5, <1>6

(* A row rewritten in place keeps its hash and its place. *)
LEMMA RewriteKeeps ==
    ASSUME ChainInv, NEW k \in DOMAIN table, NEW e \in Logged, e.id \in {table[k].event.id, -1},
           NEW U, U = [table EXCEPT ![k].event = e]
    PROVE  /\ HashesOK(U, written) /\ MadeOK(U, written) /\ PlacesOK(U) /\ Len(U) = Len(table)
           /\ \A g : Backed(table, synced, g) => Backed(U, Len(table), g)
<1>1. /\ table \in Seq(Rows) /\ Len(table) \in Nat /\ DOMAIN table = 1 .. Len(table)
      /\ table[k] \in Rows
  BY LenProperties, ElementOfSeq DEF ChainInv, HashesOK
<1>2. PICK new : new = [table[k] EXCEPT !.event = e]
  OBVIOUS
<1>3. new \in Rows /\ new.hash = table[k].hash /\ new.prev = table[k].prev /\ new.event = e
  BY <1>1, <1>2 DEF Rows
<1>4. U = [table EXCEPT ![k] = new]
  BY <1>1, <1>2
<1>5. /\ U \in Seq(Rows) /\ Len(U) = Len(table) /\ DOMAIN U = 1 .. Len(table)
      /\ \A i \in 1 .. Len(table) : U[i] = IF i = k THEN new ELSE table[i]
  BY <1>1, <1>3, <1>4, ExceptSeq, LenProperties
<1>6. \A i \in DOMAIN U : /\ i \in DOMAIN table /\ U[i].hash = table[i].hash
                          /\ U[i].prev = table[i].prev
                          /\ U[i].event.id \in {table[i].event.id, -1}
  BY <1>1, <1>3, <1>5
<1>7. PICK f : f = [i \in 1 .. Len(table) |-> i]
  OBVIOUS
<1>8. HashesOK(U, written) /\ MadeOK(U, written) /\ PlacesOK(U)
  <2>1. \A i \in DOMAIN U : f[i] = i /\ i \in Int
    BY <1>1, <1>5, <1>7
  <2>2. HashesOK(table, written) /\ MadeOK(table, written) /\ PlacesOK(table)
    BY DEF ChainInv
  <2>3. Keeps(table, U, f)
    BY <1>6, <2>1 DEF Keeps
  <2>4. QED
    BY <1>5, <2>2, <2>3, Thinned
<1>9. ASSUME NEW g, Backed(table, synced, g) PROVE Backed(U, Len(table), g)
  <2>1. PICK i \in DOMAIN table : i <= synced /\ (MintOf(table, i, g) \/ Torn(table, i))
    BY <1>9 DEF Backed
  <2>2. /\ i \in DOMAIN U /\ i <= Len(table) /\ U[i].hash = table[i].hash
        /\ i # 1 => U[i - 1].hash = table[i - 1].hash
    BY <1>1, <1>5, <1>6, <2>1, SMTT(60)
  <2>3. MintOf(U, i, g) \/ Torn(U, i)
    BY <2>1, <2>2, SMTT(60) DEF MintOf, Torn
  <2>4. QED
    BY <2>2, <2>3 DEF Backed
<1>10. QED
  BY <1>5, <1>8, <1>9

(* A row before the last is taken out, and the row after it may be chained *)
(* past it: that row is torn.                                              *)
LEMMA RemoveKeeps ==
    ASSUME ChainInv, NEW k \in DOMAIN table, k < Len(table), NEW relinked \in BOOLEAN,
           NEW U, U = Audit!Remove(IF relinked THEN [table EXCEPT ![k + 1].prev = table[k].prev]
                             ELSE table, k)
    PROVE  /\ HashesOK(U, written) /\ MadeOK(U, written) /\ PlacesOK(U)
           /\ Len(U) = Len(table) - 1 /\ Len(table) \in Nat
           /\ \A g : Backed(table, synced, g) => Backed(U, Len(table) - 1, g)
<1>1. /\ table \in Seq(Rows) /\ Len(table) \in Nat /\ DOMAIN table = 1 .. Len(table)
      /\ \A i \in 1 .. Len(table) : table[i] \in Rows
  BY LenProperties, ElementOfSeq DEF ChainInv, HashesOK
<1>2. k \in 1 .. Len(table) - 1 /\ k + 1 \in 1 .. Len(table)
  BY <1>1
<1>3. PICK new : new = [table[k + 1] EXCEPT !.prev = table[k].prev]
  OBVIOUS
<1>4. new \in Rows /\ new.hash = table[k + 1].hash /\ new.event = table[k + 1].event
  BY <1>1, <1>2, <1>3 DEF Rows
<1>5. PICK T : T = IF relinked THEN [table EXCEPT ![k + 1].prev = table[k].prev] ELSE table
  OBVIOUS
<1>6. /\ T \in Seq(Rows) /\ Len(T) = Len(table)
      /\ \A i \in 1 .. Len(table) : /\ T[i].hash = table[i].hash /\ T[i].event = table[i].event
                                    /\ i # k + 1 => T[i].prev = table[i].prev
  <2>1. CASE relinked
    <3>1. T = [table EXCEPT ![k + 1] = new]
      BY <1>1, <1>2, <1>3, <1>5, <2>1
    <3>2. /\ T \in Seq(Rows) /\ Len(T) = Len(table)
          /\ \A i \in 1 .. Len(table) : T[i] = IF i = k + 1 THEN new ELSE table[i]
      BY <1>1, <1>2, <1>4, <3>1, ExceptSeq
    <3>3. QED
      BY <1>4, <3>2
  <2>2. CASE ~relinked
    BY <1>1, <1>5, <2>2
  <2>3. QED
    BY <2>1, <2>2
<1>7. /\ U \in Seq(Rows) /\ Len(U) = Len(table) - 1 /\ DOMAIN U = 1 .. Len(table) - 1
      /\ \A i \in 1 .. Len(table) - 1 : U[i] = IF i < k THEN T[i] ELSE T[i + 1]
  <2>1. k \in 1 .. Len(T) /\ U = Audit!Remove(T, k)
    BY <1>1, <1>2, <1>5, <1>6
  <2>2. T \in Seq(Rows)
    BY <1>6
  <2>3. /\ U \in Seq(Rows) /\ Len(U) = Len(T) - 1 /\ DOMAIN U = 1 .. Len(T) - 1
        /\ \A i \in 1 .. Len(T) - 1 : U[i] = IF i < k THEN T[i] ELSE T[i + 1]
    BY <2>1, <2>2, RemoveFacts
  <2>4. QED
    BY <1>6, <2>3
<1>8. PICK f : f = [i \in 1 .. Len(table) - 1 |-> IF i < k THEN i ELSE i + 1]
  OBVIOUS
<1>9. \A i \in 1 .. Len(table) - 1 :
          /\ f[i] \in 1 .. Len(table) /\ f[i] = (IF i < k THEN i ELSE i + 1) /\ f[i] # k
          /\ U[i].hash = table[f[i]].hash /\ U[i].event = table[f[i]].event
          /\ i # k => U[i].prev = table[f[i]].prev
  <2>1. SUFFICES ASSUME NEW i \in 1 .. Len(table) - 1
                 PROVE  /\ f[i] \in 1 .. Len(table) /\ f[i] = (IF i < k THEN i ELSE i + 1) /\ f[i] # k
                        /\ U[i].hash = table[f[i]].hash /\ U[i].event = table[f[i]].event
                        /\ i # k => U[i].prev = table[f[i]].prev
    OBVIOUS
  <2>2. PICK j : j = IF i < k THEN i ELSE i + 1
    OBVIOUS
  <2>3. f[i] = j /\ j \in 1 .. Len(table) /\ j # k /\ (i # k => j # k + 1)
    BY <1>1, <1>2, <1>8, <2>2
  <2>4. U[i] = T[j]
    BY <1>7, <2>2
  <2>5. /\ T[j].hash = table[j].hash /\ T[j].event = table[j].event
        /\ j # k + 1 => T[j].prev = table[j].prev
    BY <1>6, <2>3
  <2>6. QED
    BY <2>2, <2>3, <2>4, <2>5
<1>10. /\ Base(table[k + 1].hash) # << >>
       /\ \A j \in 1 .. Len(table) : j # k => table[j].hash # Base(table[k + 1].hash)
  BY <1>1, <1>2 DEF ChainInv, PlacesOK
<1>11. HashesOK(U, written) /\ MadeOK(U, written) /\ PlacesOK(U)
  <2>1. HashesOK(table, written) /\ MadeOK(table, written) /\ PlacesOK(table)
    BY DEF ChainInv
  <2>2. \A i, j \in 1 .. Len(table) - 1 :
            (f[i] = f[j] => i = j) /\ (f[j] = f[i] - 1 => j = i - 1)
    BY <1>1, <1>2, <1>9, SMTT(60)
  <2>3. \A i \in 1 .. Len(table) - 1 : f[i] = 1 => i = 1
    BY <1>1, <1>2, <1>9
  <2>4. /\ Base(U[k].hash) # << >>
        /\ \A j \in 1 .. Len(table) - 1 : U[j].hash # Base(U[k].hash)
    BY <1>2, <1>9, <1>10, ZenonT(60)
  <2>5. Keeps(table, U, f)
    BY <1>1, <1>7, <1>9, <2>2, <2>3, <2>4, ZenonT(60) DEF Keeps
  <2>6. QED
    BY <1>7, <2>1, <2>5, Thinned
<1>12. Torn(U, k)
  <2>1. U[k].hash = table[k + 1].hash
    BY <1>2, <1>9
  <2>2. k # 1 => U[k - 1].hash = table[k - 1].hash /\ k - 1 \in 1 .. Len(table)
    <3>1. SUFFICES ASSUME k # 1
                   PROVE  U[k - 1].hash = table[k - 1].hash /\ k - 1 \in 1 .. Len(table)
      OBVIOUS
    <3>2. k - 1 \in 1 .. Len(table) - 1 /\ k - 1 < k
      BY <1>1, <1>2, <3>1
    <3>3. QED
      BY <1>1, <1>9, <3>2
  <2>3. QED
    BY <1>2, <1>10, <2>1, <2>2 DEF Torn
<1>13. ASSUME NEW g, Backed(table, synced, g) PROVE Backed(U, Len(table) - 1, g)
  <2>1. PICK i \in 1 .. Len(table) : MintOf(table, i, g) \/ Torn(table, i)
    BY <1>1, <1>13 DEF Backed
  <2>2. CASE i < k
    <3>0. i \in 1 .. Len(table) - 1 /\ i <= Len(table) - 1
      BY <1>1, <1>2, <2>2
    <3>1. i \in DOMAIN U /\ U[i].hash = table[i].hash
      BY <1>7, <1>9, <2>2, <3>0
    <3>2. i # 1 => U[i - 1].hash = table[i - 1].hash
      <4>1. i # 1 => i - 1 \in 1 .. Len(table) - 1 /\ i - 1 < k
        BY <1>1, <1>2, <2>2
      <4>2. QED
        BY <1>9, <4>1
    <3>3. MintOf(U, i, g) \/ Torn(U, i)
      BY <2>1, <3>1, <3>2 DEF MintOf, Torn
    <3>4. QED
      BY <3>0, <3>1, <3>3 DEF Backed
  <2>3. CASE i \in {k, k + 1}
    <3>1. k \in 1 .. Len(table) - 1 /\ k <= Len(table) - 1
      BY <1>1, <1>2
    <3>2. k \in DOMAIN U
      BY <1>7, <3>1, Zenon
    <3>3. QED
      BY <1>12, <3>1, <3>2 DEF Backed
  <2>4. CASE i > k + 1
    <3>1. i - 1 \in 1 .. Len(table) - 1 /\ i - 2 \in 1 .. Len(table) - 1 /\ i - 1 # 1
      BY <1>1, <1>2, <2>4
    <3>2. ~(i - 1 < k) /\ ~(i - 2 < k) /\ (i - 1) + 1 = i /\ (i - 2) + 1 = i - 1
          /\ (i - 1) - 1 = i - 2 /\ i # 1
      BY <1>1, <1>2, <2>4
    <3>3. U[i - 1].hash = table[i].hash /\ U[(i - 1) - 1].hash = table[i - 1].hash
      BY <1>9, <3>1, <3>2, ZenonT(60)
    <3>4. MintOf(U, i - 1, g) \/ Torn(U, i - 1)
      BY <2>1, <3>1, <3>2, <3>3 DEF MintOf, Torn
    <3>5. QED
      <4>1. i - 1 <= Len(table) - 1
        BY <1>1, <3>1
      <4>2. i - 1 \in DOMAIN U
        BY <1>7, <3>1, Zenon
      <4>3. QED
        BY <3>4, <4>1, <4>2 DEF Backed
  <2>5. QED
    BY <1>1, <1>2, <2>2, <2>3, <2>4
<1>14. QED
  BY <1>1, <1>7, <1>11, <1>13

-----------------------------------------------------------------------------
(* The invariant. *)

(* An empty log is sound. *)
LEMMA ChainInit == Audit!Init => ChainInv
<1>1. SUFFICES ASSUME Audit!Init PROVE ChainInv
  OBVIOUS
<1>2. /\ table = << >> /\ synced = 0 /\ minting = Audit!Idle /\ granted = {} /\ written = {}
      /\ table \in Seq(Rows) /\ Len(table) = 0 /\ DOMAIN table = {}
  BY <1>1 DEF Audit!Init
<1>3. WrittenOK(written)
  BY <1>2, FS_EmptySet DEF WrittenOK
<1>4. HashesOK(table, written) /\ MadeOK(table, written) /\ PlacesOK(table)
  BY <1>2 DEF HashesOK, Hashes, MadeOK, PlacesOK
<1>5. MintsOK
  BY <1>2 DEF MintsOK, Audit!Idle
<1>6. QED
  BY <1>3, <1>4, <1>5 DEF ChainInv

(* What is backed stays backed when rows are added behind it or more of    *)
(* them reach the disk.                                                    *)
LEMMA BackedGrows ==
    ASSUME NEW T, NEW U, NEW n \in Nat, NEW m \in Nat, n <= m, NEW l \in Nat, NEW k \in Nat, l <= k,
           DOMAIN T = 1 .. l, DOMAIN U = 1 .. k, \A i \in 1 .. l : U[i] = T[i],
           NEW g, Backed(T, n, g)
    PROVE  Backed(U, m, g)
<1>1. PICK i \in 1 .. l : i <= n /\ (MintOf(T, i, g) \/ Torn(T, i))
  BY DEF Backed
<1>2. i \in 1 .. k /\ i <= m /\ U[i] = T[i] /\ (i # 1 => U[i - 1] = T[i - 1])
  BY <1>1
<1>3. MintOf(U, i, g) \/ Torn(U, i)
  BY <1>1, <1>2 DEF MintOf, Torn
<1>4. QED
  BY <1>2, <1>3 DEF Backed

(* An append keeps what backs the grants. *)
LEMMA InsertBacks ==
    ASSUME ChainInv, NEW type \in Audit!Types, NEW g \in Grants \cup {None}, Audit!Insert(type, g)
    PROVE  /\ synced' \in 0 .. Len(table') /\ \A h : Backed(table, synced, h) => Backed(table', synced', h)
           /\ type = "budget_mint" /\ level = "full" => Backed(table', synced', g)
<1>1. /\ Len(table) \in Nat /\ DOMAIN table = 1 .. Len(table)
      /\ Len(table') = Len(table) + 1 /\ DOMAIN table' = 1 .. Len(table) + 1
      /\ \A i \in 1 .. Len(table) : table'[i] = table[i]
  BY InsertFacts
<1>2. synced \in 0 .. Len(table)
  BY DEF ChainInv, MintsOK
<1>3. synced' = IF level = "full" THEN Len(table') ELSE synced
  BY DEF Audit!Insert, Audit!Synced
<1>4. synced' \in 0 .. Len(table') /\ synced <= synced'
  BY <1>1, <1>2, <1>3
<1>5. ASSUME NEW h, Backed(table, synced, h) PROVE Backed(table', synced', h)
  <2>1. synced \in Nat /\ synced' \in Nat /\ Len(table) + 1 \in Nat /\ Len(table) <= Len(table) + 1
    BY <1>1, <1>2, <1>4
  <2>2. QED
    BY <1>1, <1>4, <1>5, <2>1, BackedGrows, SMTT(60)
<1>6. ASSUME type = "budget_mint", level = "full" PROVE Backed(table', synced', g)
  <2>1. Top(table'[Len(table) + 1].hash) = [id |-> Cardinality(written) + 1, type |-> type, grant |-> g]
    BY InsertFacts
  <2>2. MintOf(table', Len(table) + 1, g)
    BY <1>6, <2>1 DEF MintOf
  <2>3. Len(table) + 1 \in DOMAIN table' /\ Len(table) + 1 <= synced'
    BY <1>1, <1>3, <1>6
  <2>4. QED
    BY <2>2, <2>3 DEF Backed
<1>7. QED
  BY <1>4, <1>5, <1>6

(* Every step of the broker, of the system and of what is outside it keeps *)
(* the invariant.                                                          *)
LEMMA ChainNext == ChainInv /\ [Audit!Next]_(Audit!vars) => ChainInv'
<1>1. SUFFICES ASSUME ChainInv, [Audit!Next]_(Audit!vars) PROVE ChainInv'
  OBVIOUS
<1>2. /\ WrittenOK(written) /\ HashesOK(table, written) /\ MadeOK(table, written)
      /\ PlacesOK(table) /\ MintsOK
  BY <1>1 DEF ChainInv
<1>3. Len(table) \in Nat /\ table \in Seq(Rows) /\ synced \in 0 .. Len(table)
  BY <1>2, LenProperties DEF HashesOK, MintsOK
<1>4. CASE UNCHANGED Audit!vars
  <2>1. UNCHANGED <<table, synced, level, minting, granted, written>>
    BY <1>4 DEF Audit!vars
  <2>2. MintsOK'
    BY <1>2, <2>1 DEF MintsOK
  <2>3. QED
    BY <1>2, <2>1, <2>2 DEF ChainInv
<1>5. ASSUME NEW g \in Grants, Audit!StartMint(g) PROVE ChainInv'
  <2>1. UNCHANGED <<table, synced, granted, written>> /\ level' = "full"
        /\ minting' = [grant |-> g, at |-> "append"]
    BY <1>5 DEF Audit!StartMint
  <2>2. MintsOK'
    BY <1>2, <2>1 DEF MintsOK
  <2>3. QED
    BY <1>2, <2>1, <2>2 DEF ChainInv
<1>6. ASSUME NEW g \in Grants, NEW type \in Audit!Terminals, Audit!Settle(g, type) PROVE ChainInv'
  <2>1. Audit!Insert(type, g) /\ UNCHANGED <<level, minting, granted>> /\ type \in Audit!Types
    BY <1>6 DEF Audit!Settle, Audit!Types, Audit!Terminals
  <2>2. WrittenOK(written') /\ HashesOK(table', written') /\ MadeOK(table', written') /\ PlacesOK(table')
    BY <1>1, <2>1, InsertFacts
  <2>3. synced' \in 0 .. Len(table') /\ \A h : Backed(table, synced, h) => Backed(table', synced', h)
    BY <1>1, <2>1, InsertBacks
  <2>4. MintsOK'
    BY <1>2, <2>1, <2>3 DEF MintsOK
  <2>5. QED
    BY <2>2, <2>4 DEF ChainInv
<1>7. CASE Audit!AppendMint
  <2>1. /\ Audit!Insert("budget_mint", minting.grant) /\ UNCHANGED granted
        /\ minting' = [minting EXCEPT !.at = "insert"] /\ minting.at = "append" /\ level = "full"
        /\ minting.grant \in Grants \cup {None} /\ "budget_mint" \in Audit!Types
    BY <1>2, <1>7 DEF Audit!AppendMint, MintsOK, Audit!Types
  <2>2. WrittenOK(written') /\ HashesOK(table', written') /\ MadeOK(table', written') /\ PlacesOK(table')
    BY <1>1, <2>1, InsertFacts
  <2>3. /\ synced' \in 0 .. Len(table') /\ \A h : Backed(table, synced, h) => Backed(table', synced', h)
        /\ Backed(table', synced', minting.grant)
    BY <1>1, <2>1, InsertBacks
  <2>4. minting'.at # "append" /\ minting'.grant = minting.grant
    <3>1. minting = [grant |-> minting.grant, at |-> minting.at]
      BY <1>2 DEF MintsOK
    <3>2. QED
      BY <2>1, <3>1
  <2>5. MintsOK'
    BY <1>2, <2>1, <2>3, <2>4 DEF MintsOK
  <2>6. QED
    BY <2>2, <2>5 DEF ChainInv
<1>8. CASE Audit!AppendFails \/ Audit!Crash
  <2>1. UNCHANGED <<table, synced, granted, written>> /\ minting' = Audit!Idle
    BY <1>8 DEF Audit!AppendFails, Audit!Crash
  <2>2. MintsOK'
    BY <1>2, <2>1 DEF MintsOK, Audit!Idle
  <2>3. QED
    BY <1>2, <2>1, <2>2 DEF ChainInv
<1>9. CASE Audit!InsertGrant
  <2>1. /\ UNCHANGED <<table, synced, written>> /\ minting' = Audit!Idle /\ minting.at = "insert"
        /\ granted' = granted \cup {minting.grant}
    BY <1>9 DEF Audit!InsertGrant
  <2>2. MintsOK'
    BY <1>2, <2>1 DEF MintsOK, Audit!Idle
  <2>3. QED
    BY <1>2, <2>1, <2>2 DEF ChainInv
<1>10. CASE Audit!Flush
  <2>1. UNCHANGED <<table, level, minting, granted, written>> /\ synced' = Len(table)
    BY <1>10 DEF Audit!Flush
  <2>2. ASSUME NEW g, Backed(table, synced, g) PROVE Backed(table, synced', g)
    BY <1>3, <2>1, <2>2 DEF Backed
  <2>3. MintsOK'
    BY <1>2, <1>3, <2>1, <2>2 DEF MintsOK
  <2>4. QED
    BY <1>2, <2>1, <2>3 DEF ChainInv
<1>11. CASE Audit!PowerLoss
  <2>1. UNCHANGED written /\ minting' = Audit!Idle /\ granted' \subseteq granted
    BY <1>11 DEF Audit!PowerLoss
  <2>2. PICK n \in synced .. Len(table) : table' = SubSeq(table, 1, n) /\ synced' = n
    BY <1>11 DEF Audit!PowerLoss
  <2>3. PICK U : U = SubSeq(table, 1, n)
    OBVIOUS
  <2>4. /\ HashesOK(U, written) /\ MadeOK(U, written) /\ PlacesOK(U) /\ Len(U) = n /\ n \in Nat
        /\ \A g : Backed(table, synced, g) => Backed(U, n, g)
    BY <1>1, <2>3, CutKeeps
  <2>5. MintsOK'
    BY <1>2, <2>1, <2>2, <2>3, <2>4 DEF MintsOK, Audit!Idle
  <2>6. QED
    BY <1>2, <2>1, <2>2, <2>3, <2>4, <2>5 DEF ChainInv
<1>12. CASE Audit!Alter
  <2>1. UNCHANGED <<level, minting, granted, written>> /\ minting = Audit!Idle
    BY <1>12 DEF Audit!Alter
  <2>2. ASSUME HashesOK(table', written), MadeOK(table', written), PlacesOK(table'),
               synced' = Len(table'), Len(table') \in Nat,
               \A g : Backed(table, synced, g) => Backed(table', synced', g)
        PROVE  ChainInv'
    <3>1. MintsOK'
      BY <1>2, <2>1, <2>2 DEF MintsOK, Audit!Idle
    <3>2. QED
      BY <1>2, <2>1, <2>2, <3>1 DEF ChainInv
  <2>3. PICK i \in DOMAIN table :
        \/ \E e \in {[table[i].event EXCEPT !.type = t] : t \in Audit!Terminals} \cup {Audit!Garbage} :
            /\ table' = [table EXCEPT ![i].event = e]
            /\ synced' = Len(table)
        \/ /\ i < Len(table)
           /\ \E relinked \in BOOLEAN :
                table' = Audit!Remove(IF relinked THEN [table EXCEPT ![i + 1].prev = table[i].prev]
                                ELSE table, i)
           /\ synced' = Len(table) - 1
    BY <1>12 DEF Audit!Alter
  <2>4. ASSUME NEW e \in {[table[i].event EXCEPT !.type = t] : t \in Audit!Terminals} \cup {Audit!Garbage},
               table' = [table EXCEPT ![i].event = e], synced' = Len(table)
        PROVE  ChainInv'
    <3>1. table[i].event \in Logged
      <4>1. i \in 1 .. Len(table)
        BY <1>3, LenProperties
      <4>2. table[i] \in Rows
        BY <1>3, <4>1, ElementOfSeq
      <4>3. QED
        BY <4>2 DEF Rows
    <3>2. e \in Logged /\ e.id \in {table[i].event.id, -1}
      BY <2>4, <3>1 DEF Logged, Audit!Terminals, Audit!Types, Audit!Garbage
    <3>3. PICK U : U = [table EXCEPT ![i].event = e]
      OBVIOUS
    <3>4. /\ HashesOK(U, written) /\ MadeOK(U, written) /\ PlacesOK(U) /\ Len(U) = Len(table)
          /\ \A g : Backed(table, synced, g) => Backed(U, Len(table), g)
      BY <1>1, <3>2, <3>3, RewriteKeeps
    <3>5. QED
      BY <1>3, <2>2, <2>4, <3>3, <3>4
  <2>5. ASSUME i < Len(table), NEW relinked \in BOOLEAN,
               table' = Audit!Remove(IF relinked THEN [table EXCEPT ![i + 1].prev = table[i].prev]
                               ELSE table, i),
               synced' = Len(table) - 1
        PROVE  ChainInv'
    <3>1. PICK U : U = Audit!Remove(IF relinked THEN [table EXCEPT ![i + 1].prev = table[i].prev]
                              ELSE table, i)
      OBVIOUS
    <3>2. /\ HashesOK(U, written) /\ MadeOK(U, written) /\ PlacesOK(U)
          /\ Len(U) = Len(table) - 1
          /\ \A g : Backed(table, synced, g) => Backed(U, Len(table) - 1, g)
      BY <1>1, <2>5, <3>1, RemoveKeeps
    <3>3. Len(table) - 1 \in Nat
      BY <1>3, <2>5, LenProperties
    <3>4. QED
      BY <2>2, <2>5, <3>1, <3>2, <3>3
  <2>6. QED
    BY <2>3, <2>4, <2>5
<1>13. QED
  BY <1>1, <1>4, <1>5, <1>6, <1>7, <1>8, <1>9, <1>10, <1>11, <1>12 DEF Audit!Next

(* The invariant of the log (audit.rs): whatever is appended, lost,        *)
(* rewritten or taken out, its hashes stay those the broker made, in the   *)
(* order it made them, and what backs a grant is on the disk.              *)
THEOREM ChainInvariance == Audit!Spec => []ChainInv
<1>1. QED
  BY ChainInit, ChainNext, PTL DEF Audit!Spec

-----------------------------------------------------------------------------
(* What verification shows. *)

(* A row that verifies carries the event its hash was made for, and the    *)
(* row before it is the one it was chained to.                             *)
LEMMA VerifiedRow ==
    ASSUME ChainInv, NEW i \in DOMAIN table, Audit!RowVerifies(i)
    PROVE  Top(table[i].hash) = table[i].event /\ Base(table[i].hash) = Audit!PrevOf(i)
<1>1. /\ table \in Seq(Rows) /\ Len(table) \in Nat /\ DOMAIN table = 1 .. Len(table)
      /\ \A j \in 1 .. Len(table) : table[j] \in Rows
  BY LenProperties, ElementOfSeq DEF ChainInv, HashesOK
<1>2. table[i].event \in Logged /\ table[i].prev \in Seq(Logged)
  BY <1>1 DEF Rows
<1>3. table[i].prev = Audit!PrevOf(i) /\ table[i].hash = Append(Audit!PrevOf(i), table[i].event)
  BY DEF Audit!RowVerifies, Audit!ChainHash
<1>4. QED
  BY <1>2, <1>3, HashFacts

(* The chain verifies exactly when every row is one the broker wrote, in   *)
(* the place it was written to.                                            *)
LEMMA ChainSound ==
    ASSUME ChainInv
    PROVE  Audit!Genuine <=> \A i \in DOMAIN table : Audit!RowVerifies(i)
<1>1. /\ table \in Seq(Rows) /\ Len(table) \in Nat /\ DOMAIN table = 1 .. Len(table)
      /\ \A i \in 1 .. Len(table) : table[i] \in Rows
  BY LenProperties, ElementOfSeq DEF ChainInv, HashesOK
<1>2. \A i \in 1 .. Len(table) : table[i].hash \in Seq(Logged) \ {<< >>}
  BY <1>1 DEF Rows
<1>3. /\ \A w \in written : w = [event |-> w.event, after |-> w.after] /\ w.event.id \in 1 .. Cardinality(written)
      /\ \A v, w \in written : v.event.id = w.event.id => v = w
      /\ Cardinality(written) \in Nat
  BY FS_CardinalityType DEF ChainInv, WrittenOK
<1>4. /\ \A i \in 1 .. Len(table) : /\ table[i].hash \in Hashes(table)
                                    /\ Base(table[i].hash) # << >> => Base(table[i].hash) \in Hashes(table)
      /\ \A h \in Hashes(table) : Top(h).id \in 1 .. Cardinality(written)
      /\ \A h, k \in Hashes(table) : Top(h).id = Top(k).id => h = k
  BY <1>1 DEF ChainInv, HashesOK, Hashes
<1>5. \A i \in 1 .. Len(table) :
        /\ table[i].event.id \in {Top(table[i].hash).id, -1}
        /\ \E w \in written :
             /\ w.event = Top(table[i].hash)
             /\ IF Base(table[i].hash) = << >> THEN w.after = 0
                ELSE w.after \in {Top(Base(table[i].hash)).id, -1}
             /\ w.after = -1 => \A j \in 1 .. Len(table) :
                                   table[j].hash = Base(table[i].hash) => table[j].event.id = -1
  BY <1>1 DEF ChainInv, MadeOK
<1>6. \A i \in 1 .. Len(table) : table[i].prev # Base(table[i].hash) =>
          /\ Base(table[i].hash) # << >>
          /\ \A j \in 1 .. Len(table) : table[j].hash # Base(table[i].hash)
  BY <1>1 DEF ChainInv, PlacesOK
<1>7. ASSUME \A i \in DOMAIN table : Audit!RowVerifies(i) PROVE Audit!Genuine
  <2>1. \A i \in 1 .. Len(table) :
            Top(table[i].hash) = table[i].event /\ Base(table[i].hash) = Audit!PrevOf(i)
    BY <1>1, <1>7, VerifiedRow
  <2>2. SUFFICES ASSUME NEW i \in 1 .. Len(table)
                 PROVE  [event |-> table[i].event,
                         after |-> IF i = 1 THEN 0 ELSE table[i - 1].event.id] \in written
    BY <1>1 DEF Audit!Genuine
  <2>3. PICK w \in written :
             /\ w.event = Top(table[i].hash)
             /\ IF Base(table[i].hash) = << >> THEN w.after = 0
                ELSE w.after \in {Top(Base(table[i].hash)).id, -1}
             /\ w.after = -1 => \A j \in 1 .. Len(table) :
                                   table[j].hash = Base(table[i].hash) => table[j].event.id = -1
    BY <1>5
  <2>4. w = [event |-> table[i].event, after |-> w.after]
    BY <1>3, <2>1, <2>3
  <2>5. CASE i = 1
    <3>1. Base(table[i].hash) = << >>
      BY <2>1, <2>5 DEF Audit!PrevOf
    <3>2. w.after = 0
      BY <2>3, <3>1
    <3>3. QED
      BY <2>4, <2>5, <3>2
  <2>6. CASE i # 1
    <3>1. i - 1 \in 1 .. Len(table)
      BY <1>1, <2>6
    <3>2. Base(table[i].hash) = table[i - 1].hash
      BY <2>1, <2>6 DEF Audit!PrevOf
    <3>3. Base(table[i].hash) # << >> /\ Top(Base(table[i].hash)) = table[i - 1].event
      BY <1>2, <2>1, <3>1, <3>2
    <3>4. table[i - 1].event.id # -1
      BY <1>3, <1>4, <3>1, <3>2, <3>3
    <3>5. w.after = table[i - 1].event.id
      BY <2>3, <3>1, <3>2, <3>3, <3>4
    <3>6. QED
      BY <2>4, <2>6, <3>5
  <2>7. QED
    BY <2>5, <2>6
<1>8. ASSUME Audit!Genuine, NEW i \in 1 .. Len(table)
      PROVE  /\ table[i].event = Top(table[i].hash) /\ table[i].event # Audit!Garbage
             /\ table[i].event.id \in Nat \ {0}
             /\ (IF i = 1 THEN 0 ELSE table[i - 1].event.id) =
                (IF Base(table[i].hash) = << >> THEN 0 ELSE Top(Base(table[i].hash)).id)
                \/ (IF i = 1 THEN 0 ELSE table[i - 1].event.id) = -1
  <2>1. PICK a : a = IF i = 1 THEN 0 ELSE table[i - 1].event.id
    OBVIOUS
  <2>2. PICK v \in written : v = [event |-> table[i].event, after |-> a]
    BY <1>1, <1>8, <2>1 DEF Audit!Genuine
  <2>3. v.event = table[i].event /\ v.after = a
    BY <2>2
  <2>4. table[i].event.id \in 1 .. Cardinality(written)
    BY <1>3, <2>2, <2>3
  <2>5. table[i].event.id # -1 /\ table[i].event.id \in Nat \ {0}
    BY <1>3, <2>4
  <2>6. PICK w \in written :
             /\ w.event = Top(table[i].hash)
             /\ IF Base(table[i].hash) = << >> THEN w.after = 0
                ELSE w.after \in {Top(Base(table[i].hash)).id, -1}
    BY <1>5
  <2>7. v.event.id = w.event.id
    BY <1>5, <2>3, <2>5, <2>6
  <2>8. v = w
    BY <1>3, <2>7
  <2>9. table[i].event # Audit!Garbage
    BY <2>5 DEF Audit!Garbage
  <2>10. QED
    BY <2>1, <2>3, <2>5, <2>6, <2>8, <2>9
<1>9. ASSUME Audit!Genuine, NEW i \in DOMAIN table PROVE Audit!RowVerifies(i)
  <2>1. i \in 1 .. Len(table)
    BY <1>1
  <2>2. table[i].event = Top(table[i].hash) /\ table[i].event # Audit!Garbage
    BY <1>8, <1>9, <2>1
  <2>3. table[i].hash = Append(Base(table[i].hash), Top(table[i].hash))
    BY <1>2, <2>1, HashParts
  <2>4. Base(table[i].hash) # << >> => Top(Base(table[i].hash)).id \in Nat \ {0}
    BY <1>3, <1>4, <2>1
  <2>5. table[i].prev = Base(table[i].hash) /\ Base(table[i].hash) = Audit!PrevOf(i)
    <3>1. CASE i = 1
      <4>1. Base(table[i].hash) = << >>
        BY <1>8, <1>9, <2>1, <2>4, <3>1
      <4>2. QED
        BY <1>6, <2>1, <3>1, <4>1 DEF Audit!PrevOf
    <3>2. CASE i # 1
      <4>1. i - 1 \in 1 .. Len(table)
        BY <1>1, <2>1, <3>2
      <4>2. table[i - 1].event = Top(table[i - 1].hash) /\ table[i - 1].event.id \in Nat \ {0}
        BY <1>8, <1>9, <4>1
      <4>3. Base(table[i].hash) # << >> /\ Top(Base(table[i].hash)).id = Top(table[i - 1].hash).id
        BY <1>8, <1>9, <2>1, <3>2, <4>2
      <4>4. Base(table[i].hash) = table[i - 1].hash
        BY <1>4, <2>1, <4>1, <4>3
      <4>5. table[i].prev = Base(table[i].hash)
        BY <1>6, <2>1, <4>1, <4>4
      <4>6. QED
        BY <3>2, <4>4, <4>5 DEF Audit!PrevOf
    <3>3. QED
      BY <3>1, <3>2
  <2>6. QED
    BY <2>2, <2>3, <2>5 DEF Audit!RowVerifies, Audit!ChainHash
<1>10. QED
  BY <1>7, <1>9

(* A grant row has its mint in a log that is sound. *)
LEMMA MintsSound == ChainInv => Audit!GrantHasMint
<1>1. SUFFICES ASSUME ChainInv, Audit!Genuine, NEW g \in granted PROVE Audit!MintRows(g) # {}
  BY DEF Audit!GrantHasMint
<1>2. PICK i \in DOMAIN table : MintOf(table, i, g) \/ Torn(table, i)
  BY <1>1 DEF ChainInv, MintsOK, Backed
<1>3. Audit!RowVerifies(i)
  BY <1>1, ChainSound
<1>4. Top(table[i].hash) = table[i].event /\ Base(table[i].hash) = Audit!PrevOf(i)
  BY <1>1, <1>3, VerifiedRow
<1>5. ~Torn(table, i)
  BY <1>4 DEF Torn, Audit!PrevOf
<1>6. table[i].event.type = "budget_mint" /\ table[i].event.grant = g
  BY <1>2, <1>4, <1>5 DEF MintOf
<1>7. QED
  BY <1>6 DEF Audit!MintRows, Audit!Claims

(* A chain that does not verify is refused by every reader. *)
LEMMA ReadersSound == ChainInv => Audit!BrokenIsNeverEvidence
<1>1. SUFFICES ASSUME ChainInv PROVE Audit!BrokenIsNeverEvidence
  OBVIOUS
<1>2. Audit!Genuine <=> \A i \in DOMAIN table : Audit!RowVerifies(i)
  BY <1>1, ChainSound
<1>3. (Audit!Verify = "verified") <=> \A i \in DOMAIN table : Audit!RowVerifies(i)
  <2>1. (\A i \in DOMAIN table : Audit!RowVerifies(i)) => ~\E i \in DOMAIN table : table[i].event = Audit!Garbage
    BY DEF Audit!RowVerifies
  <2>2. QED
    BY <2>1 DEF Audit!Verify
<1>4. ASSUME NEW g \in Grants
      PROVE  /\ Audit!VerifiedSnapshot[g] = Audit!TerminalOutcome(g) /\ Audit!VerifiedTerminalOutcomes[g] = Audit!TerminalOutcome(g)
             /\ ~Audit!Genuine => Audit!TerminalOutcome(g) = "refused" /\ Audit!VerifiedTerminalEvent(g) = "refused"
             /\ Audit!VerifiedTerminalEvent(g) \in {"refused", Audit!TerminalOutcome(g)}
  <2>1. Audit!VerifiedTerminalOutcomes[g] = Audit!TerminalOutcome(g)
    BY DEF Audit!VerifiedTerminalOutcomes, Audit!TerminalOutcome
  <2>2. Audit!VerifiedSnapshot[g] = Audit!TerminalOutcome(g)
    <3>1. {i \in DOMAIN table : ~Audit!RowVerifies(i)} = {} <=> \A i \in DOMAIN table : Audit!RowVerifies(i)
      OBVIOUS
    <3>2. QED
      BY <3>1 DEF Audit!VerifiedSnapshot, Audit!TerminalOutcome, Audit!Evidence
  <2>3. ~Audit!Genuine => Audit!TerminalOutcome(g) = "refused" /\ Audit!VerifiedTerminalEvent(g) = "refused"
    BY <1>2 DEF Audit!TerminalOutcome, Audit!VerifiedTerminalEvent, Audit!Evidence
  <2>4. Audit!VerifiedTerminalEvent(g) \in {"refused", Audit!TerminalOutcome(g)}
    BY DEF Audit!TerminalOutcome, Audit!VerifiedTerminalEvent
  <2>5. QED
    BY <2>1, <2>2, <2>3, <2>4
<1>5. QED
  BY <1>2, <1>3, <1>4 DEF Audit!BrokenIsNeverEvidence

-----------------------------------------------------------------------------
(* The latch, the sentence record and the log in the composition. *)

(* The composition implements the latch: the other parts leave it alone. *)
LEMMA ImplementsLatch == PartSpec => Latch!Spec
<1>1. PartInit => Latch!Init
  BY DEF PartInit
<1>2. [PartNext]_all => [Latch!Next]_(Latch!vars)
  <2>1. LatchPart(Latch!Next) => Latch!Next
    BY DEF LatchPart
  <2>2. PartNext /\ ~LatchPart(Latch!Next) => UNCHANGED latchState
    BY DEF PartNext, BarrierPart, RecordPart, AuditPart
  <2>3. UNCHANGED latchState => UNCHANGED Latch!vars
    BY DEF latchState, Latch!vars, Latch!disk, Latch!gate, Latch!threads
  <2>4. QED
    BY <2>1, <2>2, <2>3 DEF all
<1>3. QED
  BY <1>1, <1>2, PTL DEF PartSpec, Latch!Spec

(* The composition implements the sentence record. *)
LEMMA ImplementsRecord == PartSpec => Record!Spec
<1>1. PartInit => Record!Init
  BY DEF PartInit
<1>2. [PartNext]_all => [Record!Next]_(Record!vars)
  <2>1. RecordPart(Record!Next) => Record!Next
    BY DEF RecordPart
  <2>2. PartNext /\ ~RecordPart(Record!Next) => UNCHANGED recordState
    BY DEF PartNext, BarrierPart, LatchPart, AuditPart
  <2>3. UNCHANGED recordState => UNCHANGED Record!vars
    BY DEF recordState, Record!vars, Record!disk, Record!ceremony, Record!ghost
  <2>4. QED
    BY <2>1, <2>2, <2>3 DEF all
<1>3. QED
  BY <1>1, <1>2, PTL DEF PartSpec, Record!Spec

(* The lockdown gate as its owner relies on it, beside the other records   *)
(* (lockdown.rs): LockdownLatchProofs!LatchSound of the composition.       *)
THEOREM LatchInPlace == PartSpec => []LatchHolds
<1>1. Latch!Spec => []Latch!LatchHolds
  BY CustodyAssumption, Latch!LatchSound
<1>2. QED
  BY <1>1, ImplementsLatch, PTL DEF LatchHolds

(* What is served was validated by the running build (sentence_record.rs): *)
(* SentenceRecordProofs!ServedValid of the composition.                    *)
THEOREM ServedInPlace == PartSpec => []ServedIsValid
<1>1. Record!Spec => []Record!ServedIsValid
  BY CustodyAssumption, Record!ServedValid
<1>2. QED
  BY <1>1, ImplementsRecord, PTL DEF ServedIsValid

(* No custody row is false or lost (sentence_record.rs), with builds of    *)
(* one dialect: SentenceRecordProofs!CustodySound of the composition.      *)
THEOREM CustodyInPlace == PartSpec => []CustodyAudited
<1>1. Record!Spec => []Record!CustodyAudited
  BY CustodyAssumption, Record!CustodySound
<1>2. QED
  BY <1>1, ImplementsRecord, PTL DEF CustodyAudited

(* The composition implements the log: the other parts leave it alone. *)
LEMMA ImplementsAudit == PartSpec => Audit!Spec
<1>1. PartInit => Audit!Init
  BY DEF PartInit
<1>2. [PartNext]_all => [Audit!Next]_(Audit!vars)
  <2>1. AuditPart(Audit!Next) => Audit!Next
    BY DEF AuditPart
  <2>2. PartNext /\ ~AuditPart(Audit!Next) => UNCHANGED auditState
    BY DEF PartNext, BarrierPart, LatchPart, RecordPart
  <2>3. UNCHANGED auditState => UNCHANGED Audit!vars
    BY DEF auditState, Audit!vars
  <2>4. QED
    BY <2>1, <2>2, <2>3 DEF all
<1>3. QED
  BY <1>1, <1>2, PTL DEF PartSpec, Audit!Spec

(* The log is evidence (AuditLog::verify and its readers): whatever is     *)
(* lost, rewritten or taken out of it, the chain verifies exactly when     *)
(* every row is one the broker wrote, in its place; a chain that does not  *)
(* is refused by every reader, and a grant has its mint in one that does.  *)
THEOREM LogInPlace == PartSpec => []LogIsEvidence
<1>1. ChainInv => LogIsEvidence
  BY MintsSound, ReadersSound DEF LogIsEvidence
<1>2. QED
  BY <1>1, ImplementsAudit, ChainInvariance, PTL
=============================================================================
