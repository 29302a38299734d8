------------------------------ MODULE Documents ------------------------------
(***************************************************************************)
(* The operator's commands on CERMET.md: the ceremonies, for which a       *)
(* publication is one step (part "ceremony"), the publication itself, cut  *)
(* at every system call (part "store"), and the presence gate a ceremony   *)
(* asks (part "presence").  One of them moves in a behaviour and the       *)
(* others stay as they started.                                            *)
(***************************************************************************)
EXTENDS AuthorityCeremony

CONSTANTS Writers, Contents, Unfit, MaxTouches, MaxFaults, MaxInode,
          MaxCalls, MaxBatch, MaxConvs

VARIABLES part, node, path, temp, onDisk, flushed, call, touches, faults, past,
          host, calls, pc, batch, convs, filled, prompts, echo, handle, reply, outcome, typed

Gate == INSTANCE Presence

Store == INSTANCE DocumentStore WITH doc <- path, disk <- onDisk

ASSUME DocumentsAssumption == Store!StoreAssumption /\ Gate!GateAssumption

storeState == <<node, path, temp, onDisk, flushed, call, touches, faults, past>>

gateState == <<host, calls, pc, batch, convs, filled, prompts, echo, handle, reply, outcome, typed>>

partVars == <<part, vars, storeState, gateState>>

PartInit == part \in {"ceremony", "store", "presence"} /\ Init /\ Store!Init /\ Gate!Init

CeremonyPart == part = "ceremony" /\ Next /\ UNCHANGED <<part, storeState, gateState>>
StorePart == part = "store" /\ Store!Next /\ UNCHANGED <<part, vars, gateState>>
PresencePart == part = "presence" /\ Gate!Next /\ UNCHANGED <<part, vars, storeState>>

PartNext == CeremonyPart \/ StorePart \/ PresencePart

PartSpec == PartInit /\ [][PartNext]_partVars
-----------------------------------------------------------------------------
(* doc check --init never takes a document's place, an edit made in place  *)
(* between the read and the rename is not lost in silence, and a command   *)
(* never overwrites a draft it did not read (create_impl, replace_impl).   *)
NoEditIsLost == [](Store!CreateNeverClobbers /\ Store!EditInPlaceSurfaces) /\ DraftKept

(* Only a person in front of this command opens the gate, a host without   *)
(* the mechanism is never read as a person's refusal, and a call leaves no *)
(* echo, handle or answer behind (confirm, evaluate).                      *)
PersonDecides ==
    part = "presence" => Gate!ConfirmedByAPerson /\ Gate!AbsentIsNotDenied /\ Gate!NothingLeft

(* What a command tells its operator of its commit is true (OutcomeTrue),  *)
(* and so is the state its final report names, although it reads document  *)
(* and record at different moments (ReportedStateHeld): await_outcome,     *)
(* compose_final_state.  The state that an early end or a failure prints   *)
(* is not claimed.                                                         *)
ReportsTrue == part = "ceremony" => OutcomeTrue /\ ReportedStateHeld

(* A publication that is reported clean is true and durable at that        *)
(* moment: CERMET.md names the file the writer made, with its bytes and    *)
(* mode, and a power loss takes neither away (PublicationClaims::finish).  *)
CleanReportTrue == Store!CleanReportTrue /\ Store!DurableClaimTrue
=============================================================================
