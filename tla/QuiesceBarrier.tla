--------------------------- MODULE QuiesceBarrier ---------------------------
(***************************************************************************)
(* The MCP-repoint quiesce barrier: while one is held no approved grant is *)
(* claimed, so an operator can swap the registered MCP server binary.      *)
(*                                                                         *)
(* The barrier lives in memory and in one record of the state directory.   *)
(* The directory is entry, the record a reader sees, and settled, the set  *)
(* of records a power loss may leave: a rename or an unlink adds to it and *)
(* an fsync of the directory collapses it.  A record is named by its token *)
(* (sha256 is taken to be injective) and expires holds its expires_at.     *)
(*                                                                         *)
(* One broker thread runs the calls; a step is one system call, one durable*)
(* row write or one event.  Grants are kept to what the classifier reads:  *)
(* GrantExecution has the rest of their life.                              *)
(***************************************************************************)
EXTENDS Integers, FiniteSets

CONSTANTS
    Tokens,      \* 32 random bytes each: never minted twice
    NoToken,     \* no barrier, no record
    Grants,      \* the grants in state.db
    NoGrant,
    RelayVerbs,  \* the grants whose execution opens a relay session
    TTLs,        \* what a client asks for
    MinTTL, MaxTTL,  \* MIN_BARRIER_TTL_SECS, MAX_BARRIER_TTL_SECS
    LeaseTerm,   \* the claim-time deadline of a lease
    Horizon,     \* bound: barriers begin up to here, and past it the clock waits for them
    MaxTime,     \* bound: the clock stops here
    MaxMishaps   \* bound: store faults, audit faults, crashes and power losses

ASSUME BarrierAssumption ==
    /\ NoToken \notin Tokens /\ NoGrant \notin Grants /\ RelayVerbs \subseteq Grants
    /\ TTLs \subseteq Nat /\ MinTTL \in Nat /\ MaxTTL \in Nat /\ MinTTL <= MaxTTL
    /\ LeaseTerm \in Nat /\ Horizon \in Nat /\ MaxTime \in Nat /\ MaxMishaps \in Nat

VARIABLES
    barrier, poisoned,         \* Broker.barrier, Broker.quiesce_poisoned
    entry, settled,            \* mcp-repoint.barrier in the state directory
    expires,                   \* expires_at of each record
    row, opened, deadline,     \* state.db: status and lease stamps
    terminal,                  \* audit.db: grants with a verified provider_action_*
    sessions,                  \* grants with a live relay session
    pc, job,                   \* the broker thread and the call it runs
    now, mishaps,
    phase, told                \* history: what each token's holder was told

disk == <<entry, settled>>
grants == <<row, opened, deadline, terminal, sessions>>
vars == <<barrier, poisoned, disk, expires, grants, pc, job, now, mishaps, phase, told>>

NoJob == [op |-> "none", tok |-> NoToken, grant |-> NoGrant]
Jobs == [op : {"none", "begin", "end", "claim", "housekeeping"},
         tok : Tokens \cup {NoToken}, grant : Grants \cup {NoGrant}]

Ready == pc = "idle"
Live == barrier # NoToken /\ now <= expires[barrier]
Lapsed == barrier # NoToken /\ now > expires[barrier]

Clamp_NoCeiling(ttl) == IF ttl < MinTTL THEN MinTTL ELSE ttl

Clamp(ttl) == IF ttl < MinTTL THEN MinTTL ELSE IF ttl > MaxTTL THEN MaxTTL ELSE ttl

Mishap == mishaps < MaxMishaps /\ mishaps' = mishaps + 1
NoMishap == UNCHANGED mishaps

Return == pc' = "idle" /\ job' = NoJob
Goto(l) == pc' = l /\ UNCHANGED job
Enter(op, t, g, l) == pc' = l /\ job' = [op |-> op, tok |-> t, grant |-> g]

-----------------------------------------------------------------------------
(* begin_mcp_repoint: a live barrier refuses, a lapsed one is released     *)
(* first.  The new record is durable before the barrier is installed.      *)

BeginMcpRepoint(t) ==
    /\ Ready /\ ~poisoned /\ phase[t] = "unused" /\ now <= Horizon
    /\ ~Live
    /\ Enter("begin", t, NoGrant, IF barrier = NoToken THEN "mint" ELSE "unlink")
    /\ UNCHANGED <<barrier, poisoned, disk, expires, grants, now, mishaps, phase, told>>

MintToken ==
    /\ pc = "mint"
    /\ \E ttl \in TTLs :
        expires' = [expires EXCEPT ![job.tok] = now + Clamp(ttl)]
    /\ phase' = [phase EXCEPT ![job.tok] = "minted"]
    /\ Goto("rename")
    /\ UNCHANGED <<barrier, poisoned, disk, grants, now, mishaps, told>>

(* end_mcp_repoint: only the holder of the live token. *)
EndMcpRepoint(t) ==
    /\ Ready /\ ~poisoned
    /\ Live /\ barrier = t
    /\ phase[t] \in {"held", "cut"}
    /\ phase' = [phase EXCEPT ![t] = "ending"]
    /\ Enter("end", t, NoGrant, "unlink")
    /\ UNCHANGED <<barrier, poisoned, disk, expires, grants, now, mishaps, told>>

(* release_expired_barrier: the housekeeping tick, poisoned or not. *)
ReleaseExpired ==
    /\ Ready
    /\ Lapsed
    /\ Enter("housekeeping", NoToken, NoGrant, "unlink")
    /\ UNCHANGED <<barrier, poisoned, disk, expires, grants, now, mishaps, phase, told>>

-----------------------------------------------------------------------------
(* FileQuiesceStore::write, for begin (no barrier yet) and for the reforge *)
(* of a failed release (the barrier still installed).                      *)

Reforging == barrier # NoToken
Written == IF Reforging THEN barrier ELSE job.tok

(* The holder of an End that failed reads that the barrier was reforged    *)
(* ("held"), or that the broker refuses every claim ("doubt").             *)
EndFails(p) ==
    phase' = IF job.op = "end" THEN [phase EXCEPT ![job.tok] = p] ELSE phase

WriteFailed ==
    /\ Mishap
    /\ poisoned' = (poisoned \/ Reforging)
    /\ EndFails("doubt")
    /\ Return
    /\ UNCHANGED <<barrier, expires, grants, now, told>>

Rename ==
    /\ pc = "rename"
    /\ \/ /\ entry' = Written
          /\ settled' = settled \cup {Written}
          /\ Goto("sync_write")
          /\ NoMishap
          /\ UNCHANGED <<barrier, poisoned, expires, grants, now, phase, told>>
       \/ WriteFailed /\ UNCHANGED disk

(* The acknowledgement follows the fsync of the directory. *)
Written_Acked ==
    IF Reforging
    THEN UNCHANGED barrier /\ EndFails("held")
    ELSE /\ barrier' = job.tok
         /\ phase' = [phase EXCEPT ![job.tok] = "held"]

SyncWrite ==
    /\ pc = "sync_write"
    /\ \/ /\ settled' = {entry}
          /\ Written_Acked
          /\ Return
          /\ NoMishap
          /\ UNCHANGED <<poisoned, entry, expires, grants, now, told>>
       \/ WriteFailed /\ UNCHANGED disk

-----------------------------------------------------------------------------
(* release_barrier_durably: unlink, fsync the directory, clear memory.  A  *)
(* failure of either reforges the record and fails the call; a failed      *)
(* reforge poisons the broker.                                             *)

Unlink ==
    /\ pc = "unlink"
    /\ \/ /\ entry' = NoToken
          /\ settled' = settled \cup {NoToken}
          /\ Goto("sync_unlink")
          /\ NoMishap
       \/ /\ Mishap
          /\ entry' \in {entry, NoToken}
          /\ settled' = settled \cup {entry'}
          /\ Goto("rename")
    /\ UNCHANGED <<barrier, poisoned, expires, grants, now, phase, told>>

(* What the call goes on to do once its release is durable. *)
Released ==
    CASE job.op = "begin" -> Goto("mint") /\ UNCHANGED phase
      [] job.op = "claim" -> Goto("claim") /\ UNCHANGED phase
      [] job.op = "end" -> Return /\ phase' = [phase EXCEPT ![job.tok] = "ended"]
      [] OTHER -> Return /\ UNCHANGED phase

SyncUnlink ==
    /\ pc = "sync_unlink"
    /\ \/ /\ settled' = {entry}
          /\ barrier' = NoToken
          /\ Released
          /\ NoMishap
       \/ /\ Mishap
          /\ Goto("rename")
          /\ UNCHANGED <<settled, barrier, phase>>
    /\ UNCHANGED <<poisoned, entry, expires, grants, now, told>>

-----------------------------------------------------------------------------
(* enforce_quiesce_barrier at the top of claim_and_run, and the call that  *)
(* follows when it admits the claim.                                       *)

ClaimGate_IgnoresPoison(g) ==
    /\ Ready /\ row[g] = "approved"
    /\ poisoned \/ ~Live
    /\ Enter("claim", NoToken, g, IF Lapsed THEN "unlink" ELSE "claim")
    /\ UNCHANGED <<barrier, poisoned, disk, expires, grants, now, mishaps, phase, told>>

ClaimGate(g) ==
    /\ Ready /\ row[g] = "approved"
    /\ ~poisoned
    /\ ~Live
    /\ Enter("claim", NoToken, g, IF Lapsed THEN "unlink" ELSE "claim")
    /\ UNCHANGED <<barrier, poisoned, disk, expires, grants, now, mishaps, phase, told>>

Claim ==
    /\ pc = "claim"
    /\ row' = [row EXCEPT ![job.grant] = "executing"]
    /\ opened' = [opened EXCEPT ![job.grant] = TRUE]
    /\ deadline' = [deadline EXCEPT ![job.grant] = now + LeaseTerm]
    /\ Goto("egress")
    /\ UNCHANGED <<barrier, poisoned, disk, expires, terminal, sessions, now, mishaps,
                   phase, told>>

(* The provider call, or open_relay_session for a relay verb. *)
Egress ==
    /\ pc = "egress"
    /\ sessions' = IF job.grant \in RelayVerbs THEN sessions \cup {job.grant} ELSE sessions
    /\ Goto("record")
    /\ UNCHANGED <<barrier, poisoned, disk, expires, row, opened, deadline, terminal, now,
                   mishaps, phase, told>>

(* The terminal event, then the row; an audit fault leaves it executing. *)
RecordTerminal ==
    /\ pc = "record"
    /\ \/ /\ terminal' = terminal \cup {job.grant}
          /\ Goto("flip")
          /\ NoMishap
       \/ Mishap /\ Return /\ UNCHANGED terminal
    /\ UNCHANGED <<barrier, poisoned, disk, expires, row, opened, deadline, sessions, now,
                   phase, told>>

FlipExecuted ==
    /\ pc = "flip"
    /\ row' = [row EXCEPT ![job.grant] = "executed"]
    /\ Return
    /\ UNCHANGED <<barrier, poisoned, disk, expires, opened, deadline, terminal, sessions,
                   now, mishaps, phase, told>>

(* sweep_overdue_leases: a verified terminal event wins over abandonment. *)
Overdue(g) == row[g] = "executing" /\ deadline[g] < now

Swept(g) == IF g \in terminal THEN "executed" ELSE "expired"
SweepOverdue(g) ==
    /\ Ready /\ Overdue(g)
    /\ row' = [row EXCEPT ![g] = Swept(g)]
    /\ UNCHANGED <<barrier, poisoned, disk, expires, opened, deadline, terminal, sessions,
                   pc, job, now, mishaps, phase, told>>

(* A session closes: its TTL, a burn, lockdown or an authority change. *)
CloseSession(g) ==
    /\ Ready /\ g \in sessions
    /\ sessions' = sessions \ {g}
    /\ UNCHANGED <<barrier, poisoned, disk, expires, row, opened, deadline, terminal,
                   pc, job, now, mishaps, phase, told>>

-----------------------------------------------------------------------------
(* classify_quiesce over every grant row and the verified terminal events. *)

IsActive(g) == row[g] = "executing" /\ now <= deadline[g]

IsOrphan_DeadlineClears(g) ==
    row[g] = "executed" /\ g \notin terminal

IsOrphan(g) ==
    \/ row[g] = "executing" /\ now > deadline[g]
    \/ row[g] = "executed" /\ g \notin terminal
    \/ row[g] \notin {"executing", "executed"} /\ opened[g] /\ g \notin terminal

ClassifyQuiesce ==
    IF \E g \in Grants : IsActive(g) THEN "active"
    ELSE IF \E g \in Grants : IsOrphan(g) THEN "orphan"
    ELSE "quiescent"

(* mcp_repoint_status: the holder of the live token learns the class. *)
McpRepointStatus(t) ==
    /\ Ready /\ ~poisoned
    /\ Live /\ barrier = t
    /\ phase[t] \in {"held", "cut"}
    /\ told' = [told EXCEPT ![t] = ClassifyQuiesce]
    /\ UNCHANGED <<barrier, poisoned, disk, expires, grants, pc, job, now, mishaps, phase>>

-----------------------------------------------------------------------------
(* The process and the machine. *)

(* A kill keeps what the directory shows; a power loss keeps any record    *)
(* that may have reached the platter.                                      *)
Uncertain(t) == phase[t] \in {"ending", "doubt"}

Stop ==
    /\ pc # "down" /\ Mishap
    /\ pc' = "down" /\ job' = NoJob
    /\ barrier' = NoToken /\ poisoned' = FALSE /\ sessions' = {}
    /\ phase' = [t \in Tokens |-> IF Uncertain(t) THEN "cut" ELSE phase[t]]
    /\ told' = [t \in Tokens |-> IF Uncertain(t) THEN "nothing" ELSE told[t]]
    /\ UNCHANGED <<expires, row, opened, deadline, terminal, now>>

Crash == Stop /\ UNCHANGED disk
PowerLoss ==
    /\ Stop
    /\ entry' \in settled
    /\ settled' = {entry'}

(* open_inner: reinstate the barrier, lapsed or not, before serving; then  *)
(* reconcile and sweep the executing rows.                                 *)
Restart ==
    /\ pc = "down"
    /\ pc' = "idle"
    /\ barrier' = entry
    /\ row' = [g \in Grants |->
                IF row[g] = "executing" /\ (g \in terminal \/ deadline[g] < now)
                THEN Swept(g) ELSE row[g]]
    /\ UNCHANGED <<poisoned, disk, expires, opened, deadline, terminal, sessions, job, now,
                   mishaps, phase, told>>

Tick ==
    /\ now < MaxTime
    /\ now < Horizon \/ job.op # "begin"
    /\ now' = now + 1
    /\ UNCHANGED <<barrier, poisoned, disk, expires, grants, pc, job, mishaps, phase, told>>

-----------------------------------------------------------------------------

Init ==
    /\ barrier = NoToken /\ poisoned = FALSE
    /\ entry = NoToken /\ settled = {NoToken}
    /\ expires = [t \in Tokens |-> 0]
    /\ row = [g \in Grants |-> "approved"]
    /\ opened = [g \in Grants |-> FALSE]
    /\ deadline = [g \in Grants |-> 0]
    /\ terminal = {} /\ sessions = {}
    /\ pc = "idle" /\ job = NoJob
    /\ now = 0 /\ mishaps = 0
    /\ phase = [t \in Tokens |-> "unused"]
    /\ told = [t \in Tokens |-> "nothing"]

Work ==
    \/ MintToken \/ Rename \/ SyncWrite \/ Unlink \/ SyncUnlink
    \/ Claim \/ Egress \/ RecordTerminal \/ FlipExecuted

Next ==
    \/ Work
    \/ \E t \in Tokens : BeginMcpRepoint(t) \/ EndMcpRepoint(t) \/ McpRepointStatus(t)
    \/ \E g \in Grants : ClaimGate(g) \/ SweepOverdue(g) \/ CloseSession(g)
    \/ ReleaseExpired \/ Crash \/ PowerLoss \/ Restart \/ Tick

Spec == Init /\ [][Next]_vars

(* The thread runs a call to its end, a supervisor restarts the daemon,    *)
(* time passes, and the 30 s tick gets its turn in the FIFO mailbox.       *)
FairSpec ==
    Spec /\ WF_vars(Work) /\ WF_vars(Restart) /\ WF_vars(Tick) /\ SF_vars(ReleaseExpired)

-----------------------------------------------------------------------------
(* Properties. *)

TypeOK ==
    /\ barrier \in Tokens \cup {NoToken} /\ poisoned \in BOOLEAN
    /\ entry \in Tokens \cup {NoToken} /\ settled \in SUBSET (Tokens \cup {NoToken})
    /\ expires \in [Tokens -> Nat]
    /\ row \in [Grants -> {"approved", "executing", "executed", "expired"}]
    /\ opened \in [Grants -> BOOLEAN] /\ deadline \in [Grants -> Nat]
    /\ terminal \in SUBSET Grants /\ sessions \in SUBSET Grants
    /\ pc \in {"down", "idle", "mint", "rename", "sync_write", "unlink", "sync_unlink",
               "claim", "egress", "record", "flip"}
    /\ job \in Jobs /\ now \in Nat /\ mishaps \in Nat
    /\ phase \in [Tokens -> {"unused", "minted", "held", "ending", "doubt", "cut", "ended"}]
    /\ told \in [Tokens -> {"nothing", "active", "orphan", "quiescent"}]

(* A token that has not lapsed and whose holder was last told that it      *)
(* stands; and one whose holder was told that claims are refused.          *)
Standing(t) == phase[t] = "held" /\ now <= expires[t]
Blocking(t) == phase[t] \in {"held", "doubt"} /\ now <= expires[t]

(* begin_mcp_repoint fsyncs before it acks, and every failed release is    *)
(* reforged: the record of a standing barrier is the only one a kill or a  *)
(* power loss can leave, and a running broker has it installed.            *)
StandingIsDurable ==
    \A t \in Tokens :
        Standing(t) =>
            /\ entry = t /\ settled = {t}
            /\ pc # "down" => barrier = t

(* end_mcp_repoint acks only after the unlink is durable: an ended barrier *)
(* never comes back, whatever crashes follow.                              *)
EndedStaysEnded ==
    \A t \in Tokens :
        phase[t] = "ended" => t \notin settled \cup {barrier, entry}

(* enforce_quiesce_barrier: no grant goes from approved to executing while *)
(* a barrier stands, across failed releases and restarts, nor after the    *)
(* double fault of a release until the restart its error message names.    *)
NoClaimUnderBarrier ==
    [][\A g \in Grants :
        (row[g] = "approved" /\ row'[g] = "executing") =>
            \A t \in Tokens : ~Blocking(t)]_vars

(* classify_quiesce: once the holder is told Quiescent, no lease is open   *)
(* and no lease ended without a verified report for as long as the barrier *)
(* stands.                                                                 *)
QuiescentIsStable ==
    \A t \in Tokens :
        Standing(t) /\ told[t] = "quiescent" =>
            \A g \in Grants :
                row[g] # "executing" /\ (opened[g] => g \in terminal)

(* A barrier that stands is the one a kill or a power loss leaves, an      *)
(* ended one never comes back, and quiescence once told stays true         *)
(* (begin_mcp_repoint, end_mcp_repoint, classify_quiesce).                 *)
BarrierHolds == StandingIsDurable /\ EndedStaysEnded /\ QuiescentIsStable

(* quiesce.rs:3-5 promises that no execution under the old server is left  *)
(* when the barrier reports quiescence; a relay session is authority to    *)
(* perform the effect of an already executed grant.                        *)
QuiescentHasNoSession ==
    \A t \in Tokens : Standing(t) /\ told[t] = "quiescent" => sessions = {}

(* quiesce.rs:33-35: "the hard bound past which a crashed installer can    *)
(* never wedge claims".  Again and again the broker is up with no barrier, *)
(* unless a double fault left it refusing until a restart.                 *)
NeverWedged == []<>(Ready /\ (barrier = NoToken \/ poisoned))
=============================================================================
