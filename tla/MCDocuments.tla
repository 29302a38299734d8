----------------------------- MODULE MCDocuments -----------------------------
(* Small instances of Documents: the parts that do not move are at rest.   *)
EXTENDS Documents, MCAuthorityCeremony, TLC

CONSTANTS w1, w2, p, q

AnyWorld == CHOOSE w \in Worlds : NoDocument \in w.documents /\ NoRecord \in w.records

(* The gate of a host on which nobody has asked it. *)
GateRests ==
    /\ Gate!Init
    /\ host = [mechanism |-> "pam", stdin |-> TRUE, terminal |-> TRUE, usable |-> TRUE,
               service |-> [file |-> TRUE, root |-> TRUE, writable |-> FALSE, readable |-> TRUE,
                            opens |-> TRUE]]

StoreSymmetry == Permutations(Writers) \cup Permutations(Contents)

(* Two writers with an act of another program or a failed call, or one     *)
(* writer with both.                                                       *)
StoreWorks ==
    /\ Store!Init
    /\ touches + faults = IF \E w \in Writers : call[w].pc = "done" THEN 0 ELSE 1
    /\ \E w \in Writers : call[w].pc # "done"
StoreRests ==
    Store!Init /\ path = 0 /\ touches + faults = 0 /\ \A w \in Writers : call[w].pc = "done"

CeremonyRests ==
    /\ world = AnyWorld /\ Init /\ doc = NoDocument /\ live.kind = "absent"
    /\ \A o \in Ops : ~cl[o].force

SmallInit ==
    \/ part = "ceremony" /\ Init /\ StoreRests /\ GateRests
    \/ part = "store" /\ StoreWorks /\ CeremonyRests /\ GateRests
    \/ part = "presence" /\ Gate!Init /\ CeremonyRests /\ StoreRests

SmallSpec == SmallInit /\ [][PartNext]_partVars
=============================================================================
