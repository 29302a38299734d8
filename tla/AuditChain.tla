----------------------------- MODULE AuditChain -----------------------------
(***************************************************************************)
(* The audit log: an append-only table in audit.db whose rows are chained  *)
(* by an HMAC under a key only the daemon holds, beside the grants table   *)
(* in state.db.  The two are separate files with no common transaction.    *)
(*                                                                         *)
(* The HMAC is perfect: a hash is the sequence of events it covers, so     *)
(* nobody without the key makes one that was not made before.  A commit    *)
(* reaches the page cache; it reaches the disk when the commit was made at *)
(* synchronous=FULL, or when the system flushes it.  The process may end,  *)
(* the power may fail, and the file may be altered from outside.           *)
(***************************************************************************)
EXTENDS Integers, Sequences, FiniteSets

CONSTANTS
    Grants,
    None,
    MaxRows,    \* bound: the events written
    MaxFaults   \* bound: crashes, power losses, failed writes and alterations

VARIABLES
    table,    \* audit_events in rowid order: the event, prev_hash, event_hash
    synced,   \* how many of its rows are on the disk
    level,    \* PRAGMA synchronous of the audit connection
    minting,  \* the grant whose budget_mint the broker is recording, and how far it is
    grants,   \* the rows of the grants table
    written,  \* history: each event recorded and the row it was chained to
    faults

vars == <<table, synced, level, minting, grants, written, faults>>

Garbage == [id |-> -1, type |-> "unparseable", grant |-> None]
Types == {"budget_mint", "provider_action_succeeded", "provider_action_failed"}
Terminals == {"provider_action_succeeded", "provider_action_failed"}
Idle == [grant |-> None, at |-> "idle"]

Fault == faults < MaxFaults /\ faults' = faults + 1

-----------------------------------------------------------------------------
(* Writing. *)

(* chain_hash over the canonical event. *)
ChainHash(prev, event) == Append(prev, event)

LatestHash == IF table = << >> THEN << >> ELSE table[Len(table)].hash
LatestId == IF table = << >> THEN 0 ELSE table[Len(table)].event.id

Synced(t) == IF level = "full" THEN Len(t) ELSE synced

(* record_with_ts. *)
Insert(type, g) ==
    LET event == [id |-> Cardinality(written) + 1, type |-> type, grant |-> g]
        row == [event |-> event, prev |-> LatestHash, hash |-> ChainHash(LatestHash, event)]
        t == Append(table, row) IN
    /\ Cardinality(written) < MaxRows
    /\ table' = t
    /\ synced' = Synced(t)
    /\ written' = written \cup {[event |-> event, after |-> LatestId]}

(* record_at_durable for a budget mint: raise the level, append, restore it. *)
StartMint(g) ==
    /\ minting = Idle /\ g \notin grants
    /\ minting' = [grant |-> g, at |-> "append"]
    /\ level' = "full"
    /\ UNCHANGED <<table, synced, grants, written, faults>>

AppendMint ==
    /\ minting.at = "append"
    /\ Insert("budget_mint", minting.grant)
    /\ minting' = [minting EXCEPT !.at = "insert"]
    /\ level' = "normal"
    /\ UNCHANGED <<grants, faults>>

(* The append fails: the level is restored on that path too, and no grant  *)
(* row follows.                                                            *)
AppendFails ==
    /\ minting.at = "append" /\ Fault
    /\ minting' = Idle
    /\ level' = "normal"
    /\ UNCHANGED <<table, synced, grants, written>>

(* The grant row is written after its mint, in the other file. *)
InsertGrant ==
    /\ minting.at = "insert"
    /\ grants' = grants \cup {minting.grant}
    /\ minting' = Idle
    /\ UNCHANGED <<table, synced, level, written, faults>>

(* A grant's terminal row, at the ordinary level.  A re-driven run may     *)
(* write a second one.                                                     *)
Settle(g, type) ==
    /\ minting = Idle /\ g \in grants
    /\ Insert(type, g)
    /\ UNCHANGED <<level, minting, grants, faults>>

-----------------------------------------------------------------------------
(* The system and what is outside it. *)

Flush ==
    /\ synced < Len(table)
    /\ synced' = Len(table)
    /\ UNCHANGED <<table, level, minting, grants, written, faults>>

(* Commits in the page cache survive the process; a new connection opens   *)
(* at the ordinary level.                                                  *)
Crash ==
    /\ minting # Idle /\ Fault
    /\ minting' = Idle /\ level' = "normal"
    /\ UNCHANGED <<table, synced, grants, written>>

(* They do not survive the power: the log loses a tail no commit synced,   *)
(* and the other file may have lost nothing.                               *)
PowerLoss ==
    /\ Fault
    /\ \E n \in synced..Len(table) :
        /\ table' = SubSeq(table, 1, n)
        /\ synced' = n
    /\ grants' \in SUBSET grants
    /\ minting' = Idle /\ level' = "normal"
    /\ UNCHANGED written

Remove(s, i) == SubSeq(s, 1, i - 1) \o SubSeq(s, i + 1, Len(s))

(* A row is rewritten in place, its links left or taken from its           *)
(* neighbour, or a row before the last is taken out.                       *)
Alter ==
    /\ minting = Idle /\ Fault
    /\ \E i \in DOMAIN table :
        \/ \E e \in {[table[i].event EXCEPT !.type = t] : t \in Terminals} \cup {Garbage} :
            /\ e # table[i].event
            /\ table' = [table EXCEPT ![i].event = e]
            /\ synced' = Len(table)
        \/ /\ i < Len(table)
           /\ \E relinked \in BOOLEAN :
                table' = Remove(IF relinked THEN [table EXCEPT ![i + 1].prev = table[i].prev]
                                ELSE table, i)
           /\ synced' = Len(table) - 1
    /\ UNCHANGED <<level, minting, grants, written>>

Init ==
    /\ table = << >> /\ synced = 0 /\ level = "normal" /\ minting = Idle
    /\ grants = {} /\ written = {} /\ faults = 0

Next ==
    \/ \E g \in Grants : StartMint(g) \/ \E type \in Terminals : Settle(g, type)
    \/ AppendMint \/ AppendFails \/ InsertGrant
    \/ Flush \/ Crash \/ PowerLoss \/ Alter

Spec == Init /\ [][Next]_vars

-----------------------------------------------------------------------------
(* Reading. *)

PrevOf(i) == IF i = 1 THEN << >> ELSE table[i - 1].hash

(* Defect: a row is checked against the link it carries, not the row before it. *)
RowVerifies_OwnLink(i) ==
    /\ table[i].event # Garbage
    /\ table[i].hash = ChainHash(table[i].prev, table[i].event)

RowVerifies(i) ==
    /\ table[i].event # Garbage
    /\ table[i].prev = PrevOf(i)
    /\ table[i].hash = ChainHash(PrevOf(i), table[i].event)

(* verify: the whole chain, or a parse error. *)
Verify ==
    IF \E i \in DOMAIN table : table[i].event = Garbage THEN "error"
    ELSE IF \A i \in DOMAIN table : RowVerifies(i) THEN "verified" ELSE "broken"

Claims(g, types) == {i \in DOMAIN table : table[i].event.grant = g /\ table[i].event.type \in types}

(* The scan every integrity reader makes: evidence only off a chain that   *)
(* verifies end to end, else a refusal.                                    *)
Evidence(answer) == IF \A i \in DOMAIN table : RowVerifies(i) THEN answer ELSE "refused"

LastOf(S) == CHOOSE i \in S : \A j \in S : j <= i
LastTerminal(g) ==
    LET S == Claims(g, Terminals) IN
    IF S = {} THEN "absent" ELSE table[LastOf(S)].event.type

(* terminal_outcome: the last terminal row. *)
TerminalOutcome(g) == Evidence(LastTerminal(g))

(* verified_terminal_outcomes: every grant in one pass. *)
VerifiedTerminalOutcomes == [g \in Grants |-> Evidence(LastTerminal(g))]

(* verified_terminal_event: a duplicate is a refusal too. *)
VerifiedTerminalEvent(g) ==
    IF Cardinality(Claims(g, Terminals)) > 1 THEN "refused" ELSE Evidence(LastTerminal(g))

(* verified_snapshot: the report's pass, which stops at the first broken row. *)
VerifiedSnapshot ==
    LET broken == {i \in DOMAIN table : ~RowVerifies(i)} IN
    IF broken = {} THEN [g \in Grants |-> LastTerminal(g)] ELSE [g \in Grants |-> "refused"]

(* budget_ledger_rows reads the mints whether or not the chain verifies. *)
MintRows(g) == Claims(g, {"budget_mint"})

-----------------------------------------------------------------------------
(* Properties. *)

(* Every row is one the broker wrote, chained to the row it was written after. *)
Genuine ==
    \A i \in DOMAIN table :
        [event |-> table[i].event, after |-> IF i = 1 THEN 0 ELSE table[i - 1].event.id] \in written

(* record_at_durable: "power loss could lose the mint while keeping the    *)
(* grant (fail-OPEN over-budget)".  Whatever is lost, at any point of the  *)
(* mint, a grant row has its mint in the log.                              *)
GrantHasMint ==
    Genuine => \A g \in grants : MintRows(g) # {}

(* The chain verifies exactly when every row is genuine and in its place:  *)
(* failed appends, crashes and lost tails never break it, and an altered   *)
(* or missing row always does, whatever is appended after it.  A broken    *)
(* chain is a refusal to every integrity reader and never a shorter        *)
(* answer, and on a sound one they give the same outcome.                  *)
BrokenIsNeverEvidence ==
    /\ (Verify = "verified") <=> Genuine
    /\ \A g \in Grants :
        /\ VerifiedSnapshot[g] = TerminalOutcome(g) /\ VerifiedTerminalOutcomes[g] = TerminalOutcome(g)
        /\ ~Genuine => TerminalOutcome(g) = "refused" /\ VerifiedTerminalEvent(g) = "refused"
        /\ VerifiedTerminalEvent(g) \in {"refused", TerminalOutcome(g)}
=============================================================================
