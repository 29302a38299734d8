--------------------------- MODULE SentenceRecord ---------------------------
(***************************************************************************)
(* The daemon-owned sentence authority record (cermet-daemon/src/          *)
(* sentence_record.rs, with its callers in ctl.rs, startup.rs and the      *)
(* housekeeping task of entry.rs): a two-round stage/commit ceremony over  *)
(* one record file, and an outbox of markers for the custody audit rows    *)
(* the broker still owes.                                                  *)
(*                                                                         *)
(* A record is named by the staging token that committed it: the token's   *)
(* hash is the record's occurrence id, so two records differ even when     *)
(* their text is the same.  `content' is the corpus a token was staged     *)
(* with.  Disks are modelled as in LockdownLatch: what is visible, what a  *)
(* power loss may leave, and writes that did nothing, were renamed without *)
(* a directory fsync, or are durable.  The store's mutex is held across    *)
(* the steps of a commit; emission and the clearing of markers run without *)
(* it.  Staged files survive power loss once acknowledged.                 *)
(***************************************************************************)
EXTENDS Naturals, FiniteSets

CONSTANTS
    Callers,     \* ctl.sock connections, one thread each
    Keeper,      \* the boot and housekeeping task
    Tokens,      \* staging tokens new_stage_nonce may draw
    Contents,    \* canonical corpora
    Catalogs,    \* what a build may accept: [parses, valid], subsets of Contents
    NoRecord, NoContent, NoThread, NoToken,
    MaxMishaps   \* bound: failed writes, lost rows, crashes and power losses

RecordAssumption ==
    /\ Keeper \notin Callers /\ NoThread \notin Callers \cup {Keeper}
    /\ NoRecord \notin Tokens /\ NoToken \notin Tokens /\ NoContent \notin Contents
    /\ \A k \in Catalogs : k.valid \subseteq k.parses /\ k.parses \subseteq Contents
    /\ MaxMishaps \in Nat

\* Builds that read the same dialect, whatever they validate.  One that cannot
\* parse the record takes it for corrupt, and its marker for an orphan's.
OneDialect == \A j, k \in Catalogs : j.parses = k.parses

VARIABLES
    rec, recMay,         \* sentence.record: visible, and after a power loss
    mark, markMay,       \* outbox: token -> stage of its marker
    staged,              \* token -> "none", "staged" or "gone"
    content, baseline,   \* token -> StagedRecord::canonical_text, staged_against
    catalog,             \* what this process parses and validates
    validated,           \* validated_digest
    lock, serving,
    pc, job,             \* thread -> where it is, and in which operation
    tok,                 \* thread -> the token it commits or the row it emits
    seen,                \* thread -> confirm_audit read a marker
    todo,                \* thread -> markers it scanned and has yet to emit
    log,                 \* token -> sentence_custody_change rows
    mishaps,
    landed, lastDur, after  \* ghost: durable so far; the last durable record;
                            \* what was durable before each

disk == <<rec, recMay, mark, markMay>>
ceremony == <<staged, content, baseline>>
ghost == <<landed, lastDur, after>>
vars == <<disk, ceremony, catalog, validated, lock, serving, pc, job, tok, seen,
          todo, log, mishaps, ghost>>

Threads == Callers \cup {Keeper}
Records == Tokens \cup {NoRecord}
Stages == {"absent", "intent", "confirmed"}
Jobs == {"none", "commit", "again", "adopt", "reconcile"}
Places == {"idle", "queued", "prove", "confirm", "intent", "flip", "seal",
           "sweep", "emit", "deliver", "clear"}
Outcomes == {"nothing", "renamed", "synced"}

TypeOK ==
    /\ rec \in recMay /\ recMay \subseteq Records
    /\ mark \in [Tokens -> Stages]
    /\ markMay \in [Tokens -> SUBSET Stages] /\ \A t \in Tokens : mark[t] \in markMay[t]
    /\ staged \in [Tokens -> {"none", "staged", "gone"}]
    /\ content \in [Tokens -> Contents \cup {NoContent}]
    /\ catalog \in Catalogs /\ validated \in Contents \cup {NoContent}
    /\ lock \in Threads \cup {NoThread} /\ serving \in BOOLEAN
    /\ pc \in [Threads -> Places] /\ job \in [Threads -> Jobs]
    /\ tok \in [Threads -> Tokens \cup {NoToken}] /\ seen \in [Threads -> BOOLEAN]
    /\ todo \in [Threads -> SUBSET Tokens]
    /\ log \in [Tokens -> 0..2] /\ mishaps \in 0..MaxMishaps
    /\ landed \subseteq Tokens /\ lastDur \in Records
    /\ after \in [Tokens -> Records]

-----------------------------------------------------------------------------
(* Reading the record. *)

PassesValidation_ParsesIsEnough(x) == x \in catalog.parses

\* prepare_sentence_corpus, the broker's semantic validation.
PassesValidation(x) == x \in catalog.valid

\* interpret: an unreadable dialect is Corrupt and never yields rules.
Valid(r) == r \in Tokens /\ content[r] \in catalog.parses

\* current_authority: only the text validated in this process is served, and
\* only under the mutex.
Serves(r) == Valid(r) /\ content[r] = validated

ServedState(r) ==
    IF r = NoRecord THEN "absent"
    ELSE IF Serves(r) THEN "served" ELSE IF Valid(r) THEN "unserved" ELSE "corrupt"

\* exact_baseline: the exact record and how it is served.
ExactBaseline == [of |-> rec, state |-> ServedState(rec)]

\* The compare of the commit's compare-and-swap.
SameBaseline(b) == b = ExactBaseline

\* live_generation: a corrupt record is no generation.
Live == IF Valid(rec) THEN rec ELSE NoRecord

-----------------------------------------------------------------------------
(* File operations. *)

Spend(how) ==
    /\ how # "synced" => mishaps < MaxMishaps
    /\ mishaps' = IF how = "synced" THEN mishaps ELSE mishaps + 1

Err(how) == how # "synced"

\* The ghosts of a directory fsync: r is now the one durable record.
Land(r) ==
    /\ landed' = IF r \in Tokens THEN landed \cup {r} ELSE landed
    /\ lastDur' = r
    /\ after' = IF r \in Tokens \ landed THEN [after EXCEPT ![r] = lastDur] ELSE after

\* commit_record.
CommitRecord(t, how) ==
    /\ rec' = IF how = "nothing" THEN rec ELSE t
    /\ recMay' = CASE how = "synced" -> {t}
                   [] how = "renamed" -> recMay \cup {t}
                   [] OTHER -> recMay
    /\ IF how = "synced" THEN Land(t) ELSE UNCHANGED ghost

\* write_audit_marker, and clear_audit_pending, which never fsyncs.
PutMarker(t, s, how) ==
    /\ mark' = IF how = "nothing" THEN mark ELSE [mark EXCEPT ![t] = s]
    /\ markMay' = CASE how = "synced" -> [u \in Tokens |-> {mark'[u]}]
                    [] how = "renamed" -> [markMay EXCEPT ![t] = @ \cup {s}]
                    [] OTHER -> markMay

\* prove_durable: fsync of the record directory, then of the outbox.
ProveDurable(how) ==
    /\ recMay' = IF how = "nothing" THEN recMay ELSE {rec}
    /\ IF how = "nothing" THEN UNCHANGED ghost ELSE Land(rec)
    /\ markMay' = IF how = "synced" THEN [u \in Tokens |-> {mark[u]}] ELSE markMay

-----------------------------------------------------------------------------
(* Control. *)

Go(t, place) == pc' = [pc EXCEPT ![t] = place]

\* An operation's error: a ceremony answers it, boot goes on denying, the tick
\* goes on to the replay.
Fail(t) ==
    /\ lock' = NoThread
    /\ IF t \in Callers
         THEN Go(t, "idle") /\ job' = [job EXCEPT ![t] = "none"]
         ELSE Go(t, "emit") /\ UNCHANGED job

-----------------------------------------------------------------------------
(* Round one: StageSentences.  prepare_sentence_corpus validates, stage binds *)
(* the token to the record visible now.                                       *)

Stage(t, x) ==
    /\ serving /\ lock = NoThread
    /\ staged[t] = "none" /\ PassesValidation(x)
    /\ staged' = [staged EXCEPT ![t] = "staged"]
    /\ content' = [content EXCEPT ![t] = x]
    /\ baseline' = [baseline EXCEPT ![t] = ExactBaseline]
    /\ UNCHANGED <<disk, catalog, validated, lock, serving, pc, job, tok, seen,
                   todo, log, mishaps, ghost>>

\* sweep_staged: a token past its TTL is inert and removed; commit refuses it
\* for the same reason.
SweepStaged(t) ==
    /\ serving /\ lock = NoThread /\ staged[t] = "staged"
    /\ staged' = [staged EXCEPT ![t] = "gone"]
    /\ UNCHANGED <<disk, content, baseline, catalog, validated, lock, serving, pc,
                   job, tok, seen, todo, log, mishaps, ghost>>

\* Round two: CommitSentences validates the staged text before it calls commit.
Commit(c, t) ==
    /\ serving /\ pc[c] = "idle" /\ staged[t] = "staged"
    /\ PassesValidation(content[t])
    /\ Go(c, "queued")
    /\ job' = [job EXCEPT ![c] = "commit"] /\ tok' = [tok EXCEPT ![c] = t]
    /\ UNCHANGED <<disk, ceremony, catalog, validated, lock, serving, seen, todo,
                   log, mishaps, ghost>>

\* commit_attributed under the mutex: the retry of a commit that is live, ...
CommitAgain(c) ==
    /\ pc[c] = "queued" /\ lock = NoThread /\ job[c] = "commit"
    /\ staged[tok[c]] = "staged" /\ Live = tok[c]
    /\ Go(c, "prove") /\ lock' = c
    /\ job' = [job EXCEPT ![c] = "again"]
    /\ UNCHANGED <<disk, ceremony, catalog, validated, serving, tok, seen, todo,
                   log, mishaps, ghost>>

\* ... a commit whose baseline is still the live record, ...
CommitFresh(c) ==
    /\ pc[c] = "queued" /\ lock = NoThread /\ job[c] = "commit"
    /\ staged[tok[c]] = "staged" /\ Live # tok[c]
    /\ SameBaseline(baseline[tok[c]])
    /\ Go(c, IF Live = NoRecord THEN "intent" ELSE "prove") /\ lock' = c
    /\ UNCHANGED <<disk, ceremony, catalog, validated, serving, job, tok, seen,
                   todo, log, mishaps, ghost>>

\* ... or a refusal: swept, expired or superseded.
CommitRefused(c) ==
    /\ pc[c] = "queued" /\ lock = NoThread /\ job[c] = "commit"
    /\ \/ staged[tok[c]] # "staged"
       \/ Live # tok[c] /\ ~SameBaseline(baseline[tok[c]])
    /\ Fail(c)
    /\ UNCHANGED <<disk, ceremony, catalog, validated, serving, tok, seen, todo,
                   log, mishaps, ghost>>

-----------------------------------------------------------------------------
(* The steps under the mutex. *)

OwesConfirmation_Never == FALSE

\* read_marker: a record whose marker was cleared has nothing left to confirm.
OwesConfirmation == mark[rec] # "absent"

Prove(t) ==
    /\ pc[t] = "prove" /\ lock = t
    /\ \E how \in Outcomes :
         /\ Spend(how) /\ ProveDurable(how)
         /\ IF Err(how) THEN Fail(t) /\ UNCHANGED seen
            ELSE /\ Go(t, "confirm") /\ UNCHANGED <<lock, job>>
                 /\ seen' = [seen EXCEPT ![t] = OwesConfirmation]
    /\ UNCHANGED <<rec, mark, ceremony, catalog, validated, serving, tok, todo,
                   log>>

\* mark_generation_validated, keyed by the text.
MarkValidated(x) == validated' = x

\* confirm_audit of the live record.  Superseding it needs the confirmation; a
\* retry, boot and the tick carry on without.
Confirm(t) ==
    /\ pc[t] = "confirm" /\ lock = t
    /\ \E how \in IF seen[t] THEN Outcomes ELSE {"synced"} :
         /\ Spend(how)
         /\ IF seen[t] THEN PutMarker(rec, "confirmed", how)
                       ELSE UNCHANGED <<mark, markMay>>
         /\ CASE job[t] = "commit" /\ Err(how) ->
                   Fail(t) /\ UNCHANGED validated
              [] job[t] = "commit" /\ ~Err(how) ->
                   Go(t, "intent") /\ UNCHANGED <<lock, job, validated>>
              [] job[t] = "again" ->
                   /\ MarkValidated(content[tok[t]])
                   /\ Go(t, "emit") /\ lock' = NoThread /\ UNCHANGED job
              [] job[t] = "adopt" ->
                   Go(t, "sweep") /\ UNCHANGED <<lock, job, validated>>
              [] job[t] = "reconcile" ->
                   Go(t, "emit") /\ lock' = NoThread /\ UNCHANGED <<job, validated>>
    /\ UNCHANGED <<rec, recMay, ceremony, catalog, serving, tok, seen, todo, log,
                   ghost>>

\* write_audit_intent refuses an occurrence that already has a marker.
WriteIntent(c) ==
    /\ pc[c] = "intent" /\ lock = c
    /\ \/ /\ mark[tok[c]] # "absent"
          /\ Fail(c) /\ UNCHANGED <<mark, markMay, mishaps>>
       \/ /\ mark[tok[c]] = "absent"
          /\ \E how \in Outcomes :
               /\ Spend(how) /\ PutMarker(tok[c], "intent", how)
               /\ IF Err(how) THEN Fail(c)
                  ELSE Go(c, "flip") /\ UNCHANGED <<lock, job>>
    /\ UNCHANGED <<rec, recMay, ceremony, catalog, validated, serving, tok, seen,
                   todo, log, ghost>>

Flip(c) ==
    /\ pc[c] = "flip" /\ lock = c
    /\ \E how \in Outcomes :
         /\ Spend(how) /\ CommitRecord(tok[c], how)
         /\ IF Err(how) THEN Fail(c)
            ELSE Go(c, "seal") /\ UNCHANGED <<lock, job>>
    /\ UNCHANGED <<mark, markMay, ceremony, catalog, validated, serving, tok,
                   seen, todo, log>>

\* The best-effort confirmation of a commit, and the end of the mutex.
Seal(c) ==
    /\ pc[c] = "seal" /\ lock = c
    /\ \E how \in Outcomes :
         Spend(how) /\ PutMarker(tok[c], "confirmed", how)
    /\ MarkValidated(content[tok[c]])
    /\ Go(c, "emit") /\ lock' = NoThread
    /\ UNCHANGED <<rec, recMay, ceremony, catalog, serving, job, tok, seen, todo,
                   log, ghost>>

-----------------------------------------------------------------------------
(* Boot and housekeeping. *)

\* adopt reads the record.
AdoptReads ==
    /\ pc[Keeper] = "queued" /\ lock = NoThread /\ job[Keeper] = "adopt"
    /\ Go(Keeper, IF Live = NoRecord THEN "sweep" ELSE "prove") /\ lock' = Keeper
    /\ UNCHANGED <<disk, ceremony, catalog, validated, serving, job, tok, seen,
                   todo, log, mishaps, ghost>>

\* The record cannot be read safely: boot goes on denying and sweeps nothing.
AdoptReadFails ==
    /\ pc[Keeper] = "queued" /\ lock = NoThread /\ job[Keeper] = "adopt"
    /\ Spend("nothing") /\ Fail(Keeper)
    /\ UNCHANGED <<disk, ceremony, catalog, validated, serving, tok, seen, todo,
                   log, ghost>>

\* sweep_orphan_intents: unconfirmed markers of every record but the live one.
SweptIntents == {t \in Tokens : mark[t] = "intent" /\ t # Live}

\* The end of adopt: sweep, then serve what validate_corpus passes.
Adopted ==
    /\ pc[Keeper] = "sweep" /\ lock = Keeper
    /\ mark' = [t \in Tokens |-> IF t \in SweptIntents THEN "absent" ELSE mark[t]]
    /\ markMay' = [t \in Tokens |-> IF t \in SweptIntents
                                    THEN markMay[t] \cup {"absent"} ELSE markMay[t]]
    /\ IF Valid(rec) /\ PassesValidation(content[rec])
         THEN MarkValidated(content[rec]) ELSE UNCHANGED validated
    /\ Go(Keeper, "emit") /\ lock' = NoThread
    /\ UNCHANGED <<rec, recMay, ceremony, catalog, serving, job, tok, seen, todo,
                   log, mishaps, ghost>>

Tick_NoReconcile ==
    /\ serving /\ pc[Keeper] = "idle" /\ lock = NoThread
    /\ job' = [job EXCEPT ![Keeper] = "reconcile"]
    /\ Go(Keeper, "emit")
    /\ UNCHANGED <<disk, ceremony, catalog, validated, lock, serving, tok, seen,
                   todo, log, mishaps, ghost>>

\* The tick: reconcile_live_audit_marker, then the replay.
Tick ==
    /\ serving /\ pc[Keeper] = "idle" /\ lock = NoThread
    /\ job' = [job EXCEPT ![Keeper] = "reconcile"]
    /\ IF Valid(rec) /\ mark[rec] = "intent"
         THEN Go(Keeper, "prove") /\ lock' = Keeper
         ELSE Go(Keeper, "emit") /\ UNCHANGED lock
    /\ UNCHANGED <<disk, ceremony, catalog, validated, serving, tok, seen, todo,
                   log, mishaps, ghost>>

-----------------------------------------------------------------------------
(* Emission, without the mutex: emit_pending_audits after a commit and        *)
(* replay_pending_custody_audits at boot and on the tick.                     *)

Emittable == {t \in Tokens : mark[t] = "confirmed"}

Scan(t) ==
    /\ pc[t] = "emit"
    /\ todo' = [todo EXCEPT ![t] = Emittable]
    /\ Go(t, "deliver")
    /\ UNCHANGED <<disk, ceremony, catalog, validated, lock, serving, job, tok,
                   seen, log, mishaps, ghost>>

\* Broker::record_sentence_custody_change_attributed: one row per occurrence.
RecordCustodyChange(u) ==
    log' = IF log[u] > 0 THEN log ELSE [log EXCEPT ![u] = @ + 1]

Deliver(t, u) ==
    /\ pc[t] = "deliver" /\ u \in todo[t]
    /\ tok' = [tok EXCEPT ![t] = u]
    /\ todo' = [todo EXCEPT ![t] = @ \ {u}]
    /\ \/ RecordCustodyChange(u) /\ Go(t, "clear") /\ UNCHANGED mishaps
       \/ Spend("nothing") /\ UNCHANGED <<log, pc>>
    /\ UNCHANGED <<disk, ceremony, catalog, validated, lock, serving, job, seen,
                   ghost>>

\* clear_audit_pending: an unlink whose failure is ignored and which is never
\* fsynced.
Clear(t) ==
    /\ pc[t] = "clear"
    /\ \/ PutMarker(tok[t], "absent", "renamed") /\ UNCHANGED mishaps
       \/ Spend("nothing") /\ UNCHANGED <<mark, markMay>>
    /\ Go(t, "deliver")
    /\ UNCHANGED <<rec, recMay, ceremony, catalog, validated, lock, serving, job,
                   tok, seen, todo, log, ghost>>

Done(t) ==
    /\ pc[t] = "deliver" /\ todo[t] = {}
    /\ Go(t, "idle")
    /\ job' = [job EXCEPT ![t] = "none"] /\ tok' = [tok EXCEPT ![t] = NoToken]
    /\ serving' = (serving \/ t = Keeper)
    /\ UNCHANGED <<disk, ceremony, catalog, validated, lock, seen, todo, log,
                   mishaps, ghost>>

-----------------------------------------------------------------------------
(* Crashes.  The next process may be another build, with another catalog. *)

Boot ==
    /\ catalog' \in Catalogs /\ validated' = NoContent
    /\ lock' = NoThread /\ serving' = FALSE
    /\ pc' = [t \in Threads |-> IF t = Keeper THEN "queued" ELSE "idle"]
    /\ job' = [t \in Threads |-> IF t = Keeper THEN "adopt" ELSE "none"]
    /\ tok' = [t \in Threads |-> NoToken] /\ seen' = [t \in Threads |-> FALSE]
    /\ todo' = [t \in Threads |-> {}]
    /\ mishaps < MaxMishaps /\ mishaps' = mishaps + 1
    /\ UNCHANGED <<ceremony, log>>

Crash == Boot /\ UNCHANGED <<disk, ghost>>

PowerLoss ==
    /\ Boot
    /\ rec' \in recMay /\ recMay' = {rec'}
    /\ mark' \in {m \in [Tokens -> Stages] : \A t \in Tokens : m[t] \in markMay[t]}
    /\ markMay' = [t \in Tokens |-> {mark'[t]}]
    /\ Land(rec')

Init ==
    /\ rec = NoRecord /\ recMay = {NoRecord}
    /\ mark = [t \in Tokens |-> "absent"]
    /\ markMay = [t \in Tokens |-> {"absent"}]
    /\ staged = [t \in Tokens |-> "none"]
    /\ content = [t \in Tokens |-> NoContent]
    /\ baseline = [t \in Tokens |-> [of |-> NoRecord, state |-> "absent"]]
    /\ catalog \in Catalogs /\ validated = NoContent
    /\ lock = NoThread /\ serving = FALSE
    /\ pc = [t \in Threads |-> IF t = Keeper THEN "queued" ELSE "idle"]
    /\ job = [t \in Threads |-> IF t = Keeper THEN "adopt" ELSE "none"]
    /\ tok = [t \in Threads |-> NoToken] /\ seen = [t \in Threads |-> FALSE]
    /\ todo = [t \in Threads |-> {}]
    /\ log = [t \in Tokens |-> 0] /\ mishaps = 0
    /\ landed = {} /\ lastDur = NoRecord /\ after = [t \in Tokens |-> NoRecord]

Locking(t) ==
    \/ t \in Callers /\ (CommitAgain(t) \/ CommitFresh(t) \/ CommitRefused(t))
    \/ t = Keeper /\ (AdoptReads \/ AdoptReadFails)

Work(t) ==
    \/ Prove(t) \/ Confirm(t)
    \/ t \in Callers /\ (WriteIntent(t) \/ Flip(t) \/ Seal(t))
    \/ t = Keeper /\ Adopted
    \/ Scan(t) \/ Clear(t) \/ Done(t) \/ \E u \in Tokens : Deliver(t, u)

Next ==
    \/ \E t \in Tokens : SweepStaged(t) \/ \E x \in Contents : Stage(t, x)
    \/ \E c \in Callers, t \in Tokens : Commit(c, t)
    \/ \E t \in Threads : Locking(t) \/ Work(t)
    \/ Tick \/ Crash \/ PowerLoss

Spec == Init /\ [][Next]_vars

\* A thread runs its operation to the end, a waiting thread gets the mutex, and
\* housekeeping's 30 s tick finds it free in the end.
FairSpec ==
    /\ Spec
    /\ \A t \in Threads : WF_vars(Work(t)) /\ SF_vars(Locking(t))
    /\ SF_vars(Tick)

-----------------------------------------------------------------------------
(* Properties. *)

Serving == serving /\ lock = NoThread /\ Serves(rec)

\* Whatever restarts, upgrades and failed commits came before, the text a
\* decision is made under is one this build validates.
ServedIsValid == Serving => content[rec] \in catalog.valid

\* The custody log is true: a row is only written for a record that was durable,
\* and the record it names as its predecessor (prior_record_digest) is the one
\* that was durable before it, so no ceremony commits over an authority its
\* operator did not see and none is skipped by an unsynced rename.
AuditTrue ==
    /\ \A t \in Tokens : log[t] > 0 => t \in landed
    /\ \A t \in landed : after[t] = baseline[t].of

\* A record that was durable is in the log, or its marker survives any power loss
\* in a form that will be emitted: confirmed, or unconfirmed and live ("a flipped
\* generation's audit can never be permanently dropped", sentence_record.rs 409).
AuditNotLost ==
    \A t \in landed :
        \/ log[t] > 0
        \/ \A s \in markMay[t] : s = "confirmed" \/ (s = "intent" /\ recMay = {t})

\* The custody log over crashes, power losses and builds of one dialect: its rows
\* are true, and no durable record's row is lost.
CustodyAudited == AuditTrue /\ AuditNotLost

\* Every durable record reaches the audit log: again and again all of those made
\* so far are there.
EventuallyAudited == []<>(\A t \in landed : log[t] > 0)

=============================================================================
