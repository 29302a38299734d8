------------------------------ MODULE MCCustody ------------------------------
(* Small instances of the daemon's records for TLC. *)
EXTENDS Custody

CONSTANTS t1, t2, g1, g2, o1, o2, c1, c2, u1, u2, xa, xb

(* Builds whose catalogs differ in what they validate, over one dialect. *)
MCBuilds == {[parses |-> Texts, valid |-> v] : v \in {Texts, {xa}}}

(* The fairness of each component's FairSpec.  One part moves in a         *)
(* behaviour, so a condition on the steps of several parts is a condition  *)
(* on the steps of the one that moves.                                     *)
PartFairSpec ==
    /\ PartSpec
    /\ WF_all(BarrierPart(Work) \/ LatchPart(Latch!Unlocked(Keeper)) \/ RecordPart(Record!Work(Keeper)))
    /\ WF_all(BarrierPart(Restart) \/ LatchPart(Latch!Unlocked(c1)) \/ RecordPart(Record!Work(c1)))
    /\ WF_all(BarrierPart(Tick) \/ LatchPart(Latch!Locked(Keeper)))
    /\ WF_all(LatchPart(Latch!Locked(c1)))
    /\ WF_all(LatchPart(Latch!Tick))
    /\ SF_all(BarrierPart(ReleaseExpired) \/ LatchPart(Latch!Locking(Keeper))
                \/ RecordPart(Record!Locking(Keeper)))
    /\ SF_all(LatchPart(Latch!Locking(c1)) \/ RecordPart(Record!Locking(c1)))
    /\ SF_all(RecordPart(Record!Tick))
==============================================================================
