------------------------- MODULE AuthorityCeremony -------------------------
(***************************************************************************)
(* The operator ceremonies that read and replace the live sentence corpus: *)
(* `doc apply`, the profile apply (`CERMET_<name>.md`), `rules allow` and  *)
(* `rules revoke`, and the document commands `doc export`, `doc check      *)
(* --fix` and `doc check --init`                                           *)
(* (cermet-cli/src/reconciliation.rs, sentence_ctl.rs, rule_cli.rs), run   *)
(* by several operators at once against one daemon and one CERMET.md.      *)
(*                                                                         *)
(* The daemon side is the ctl handler of CommitSentences and the record    *)
(* operations it calls, each one step: the record's own files are the      *)
(* subject of SentenceRecord, and the rename window of CERMET.md is the    *)
(* subject of DocumentStore.  What this module keeps is what the client    *)
(* does not know: a call may time out while its handler still runs, a      *)
(* reply may be lost, the daemon may restart, another ceremony or an       *)
(* editor may move the record or the document at any step.                 *)
(***************************************************************************)
EXTENDS Integers, FiniteSets, Sequences

CONSTANTS
    Ops,        \* the operator commands
    Worlds,     \* which command each operator runs, on which records and
                \* documents; how often an editor saves, the daemon restarts and
                \* a stage is swept meanwhile; whether a directory sync may fail;
                \* TERMINAL_RECONCILIATION_ROUNDS
    Rules,      \* the rules a corpus is made of
    Bodies,     \* the corpora an editor or a profile file may hold
    Profile,    \* the body the profile table already holds, or NoBody
    MaxRounds   \* bound: the most rounds of any world

Forms == {"apply", "preset", "rules", "export", "fix", "init"}
NoBody == {"no body"}
Nobody == "nobody"
Corpora == SUBSET Rules
Attempts == 1 .. MaxRounds + 1

\* The record file.  A corpus is named by its rules (the digest is
\* injective) and a generation by the ceremony that committed it.
Record == [kind : {"absent", "record", "corrupt"}, corpus : Corpora,
           occ : Ops \cup {Nobody}]

\* CERMET.md: its pin, the corpus its body prepares to, whether the body is
\* canonical text, and the identity an exact-state comparison sees.
Document == [present : BOOLEAN, marker : Corpora \cup {NoBody},
             corpus : Corpora, canonical : BOOLEAN, stamp : Nat]

Kinds == {"absent", "served", "unserved", "corrupt"}

ASSUME CeremonyAssumption ==
    /\ \A w \in Worlds :
        /\ w.form \in [Ops -> Forms] /\ w.unsynced \in BOOLEAN
        /\ {w.edits, w.restarts, w.sweeps, w.rounds} \subseteq Nat /\ w.rounds <= MaxRounds
        /\ w.records \subseteq [kind : Kinds, corpus : Corpora, occ : {Nobody}]
        /\ w.documents \subseteq Document
    /\ MaxRounds \in Nat /\ Nobody \notin Ops /\ NoBody \notin Corpora
    /\ Bodies \subseteq Corpora /\ Profile \in Corpora \cup {NoBody}

VARIABLES
    world,      \* the world of this behaviour, fixed at the start
    live,       \* the record a reader of the directory sees
    disk,       \* the record a restart brings back
    validated,  \* the corpus this daemon process has validated
    stored,     \* the body in the profile table under the one name
    staged,     \* Ops -> the record each staged corpus is bound to, or {}
    intent,     \* the occurrences with an audit intent on disk
    handler,    \* Ops -> attempt -> where that CommitSentences call is
    flips,      \* history: [by, over] of every flip that took effect
    doc,
    cl,         \* Ops -> the local state of the command
    edits, restarts, sweeps

daemon == <<live, disk, validated, stored, staged, intent, handler, flips>>
vars == <<world, live, disk, validated, stored, staged, intent, handler, flips, doc,
          cl, edits, restarts, sweeps>>

\* The command each operator runs.
form == world.form

Snapshots == [kind : Kinds, corpus : Corpora, occ : Ops \cup {Nobody}]
Unknown == [kind |-> "unknown", corpus |-> {}, occ |-> Nobody]

Pcs == {"start", "baseline", "stage", "recheckDoc", "recheckLive", "recheckRules",
        "confirm", "presence", "send", "await", "poll", "observe", "names",
        "replace", "create", "finalDoc", "finalLive", "finalState", "done"}

Drifts == {"aligned", "aligned_no_authority", "unapplied_document", "unexported_live",
           "marker_stale", "diverged", "repo_missing", "repo_invalid",
           "dataplane_unserved", "dataplane_corrupt", "dataplane_unknown"}

Results == {"none", "refused", "stale_stage_conflict", "commit_outcome_unknown",
            "committed", "already_committed", "committed_after_reconciliation",
            "committed_but_unreconciled", "committed_but_superseded",
            "committed_but_preset_not_stored", "no_change", "marker_repaired",
            "marker_repair_unreconciled", "written", "unclean"}

CommittedResults == {"committed", "already_committed", "committed_after_reconciliation",
                     "committed_but_unreconciled", "committed_but_superseded",
                     "committed_but_preset_not_stored"}

\* One command: its place, whether a flag forces it past its guardrails, the
\* corpus it would install, the baseline and the document it read, which of
\* its rechecks and attempts it is at, the last status it saw, how the commit
\* resolved, what became of its document write, and what it reported.  truth
\* is a ghost: document and record as they were when the final status was read.
Local == [pc : Pcs, force : BOOLEAN, cand : Corpora,
          base : Snapshots \cup {Unknown}, read : Document,
          gate : 0 .. 3, try : 0 .. MaxRounds + 1, looks : 0 .. MaxRounds + 1,
          seen : Snapshots \cup {Unknown}, was : Snapshots \cup {Unknown},
          resolution : {"none", "committed", "already_committed",
                        "committed_after_reconciliation"},
          write : {"none", "clean", "interfered", "preserved"},
          fdoc : Document, result : Results, ok : BOOLEAN,
          drift : Drifts \cup {"none", "unchecked"}, truth : Drifts \cup {"none"}]

Replies == {"committed", "already", "denied", "error"}

\* Types of the record, the ceremony table and the calls in flight.
TypeOK ==
    /\ world \in Worlds /\ {live, disk} \subseteq Record
    /\ {validated, stored} \subseteq Corpora \cup {NoBody}
    /\ staged \in [Ops -> SUBSET Record] /\ intent \subseteq Ops
    /\ handler \in [Ops -> [Attempts -> Replies \cup {"idle", "sent", "storing", "resaving", "lost"}]]
    /\ \A i \in 1 .. Len(flips) : flips[i] \in [by : Ops, over : Record]
    /\ doc \in Document /\ cl \in [Ops -> Local]
    /\ edits \in 0 .. world.edits /\ restarts \in 0 .. world.restarts
    /\ sweeps \in 0 .. world.sweeps
-----------------------------------------------------------------------------
NoDocument == [present |-> FALSE, marker |-> NoBody, corpus |-> {},
               canonical |-> TRUE, stamp |-> 0]

Fresh == [pc |-> "start", force |-> FALSE, cand |-> {}, base |-> Unknown,
          read |-> NoDocument, gate |-> 0, try |-> 0, looks |-> 0, seen |-> Unknown,
          was |-> Unknown, resolution |-> "none", write |-> "none", fdoc |-> NoDocument,
          result |-> "none", ok |-> FALSE, drift |-> "none", truth |-> "none"]

Init ==
    /\ world \in Worlds
    /\ \E s \in world.records :
         /\ live = [s EXCEPT !.kind = IF @ \in {"served", "unserved"} THEN "record" ELSE @]
         /\ validated = IF s.kind = "served" THEN s.corpus ELSE NoBody
    /\ disk = live
    /\ stored = Profile
    /\ staged = [o \in Ops |-> {}] /\ intent = {}
    /\ handler = [o \in Ops |-> [k \in Attempts |-> "idle"]]
    /\ flips = <<>>
    /\ doc \in world.documents
    /\ \E forced \in SUBSET {o \in Ops : form[o] \in {"apply", "preset", "export"}} :
         cl = [o \in Ops |-> [Fresh EXCEPT !.force = (o \in forced)]]
    /\ edits = 0 /\ restarts = 0 /\ sweeps = 0
-----------------------------------------------------------------------------
(* What the daemon answers to a status or snapshot read: a record it has   *)
(* not validated in this process is there but not served.                  *)
Snapshot ==
    [live EXCEPT !.kind =
        IF @ # "record" THEN @
        ELSE IF validated = live.corpus THEN "served" ELSE "unserved"]

\* An authority_status call: the answer, or no answer.
Answers == {Snapshot, Unknown}

SourceIsEmpty(d) == d.corpus = {} /\ d.canonical

\* The eleven relations of a document and a record.
ClassifyDrift(d, s) ==
    IF s.kind = "unserved" THEN "dataplane_unserved"
    ELSE IF s.kind = "corrupt" THEN "dataplane_corrupt"
    ELSE IF s.kind = "unknown" THEN "dataplane_unknown"
    ELSE IF ~d.present THEN "repo_missing"
    ELSE LET none == SourceIsEmpty(d) /\ d.marker = NoBody
             at == IF s.kind = "absent" THEN NoBody ELSE s.corpus
             candidate == IF none THEN NoBody ELSE d.corpus
         IN CASE none /\ s.kind = "absent" -> "aligned_no_authority"
              [] candidate = d.marker /\ d.marker = at -> "aligned"
              [] d.marker = at /\ candidate # at -> "unapplied_document"
              [] candidate = d.marker /\ at # candidate -> "unexported_live"
              [] candidate = at /\ d.marker # at -> "marker_stale"
              [] OTHER -> "diverged"

DriftExit(drift) == drift \in {"aligned", "aligned_no_authority"}

\* candidate_is_live
CandidateIsLive(o, s) == s.kind = "served" /\ s.corpus = cl[o].cand

\* candidate_is_exact_occurrence, status_is_exact_generation
IsExactOccurrence(o, s) ==
    s.kind \in {"served", "unserved"} /\ s.corpus = cl[o].cand /\ s.occ = o
-----------------------------------------------------------------------------
(* The commands, one step per call they make to the daemon or the store.   *)

Go(o, new) == cl' = [cl EXCEPT ![o] = new]
At(o, pc) == cl[o].pc = pc

\* A command that ends keeps what it reviewed and what it reported.
Report(o, result, ok, drift) ==
    Go(o, [Fresh EXCEPT !.pc = "done", !.cand = cl[o].cand, !.base = cl[o].base,
               !.truth = cl[o].truth, !.result = result, !.ok = ok, !.drift = drift])

\* A command that ends early or fails prints no state, or one composed of a
\* document and a status read at different moments: an export's first two reads,
\* or, after a commit, the status the reconciliation ended with beside the
\* document as it is now.  Nothing checks the one against the other, so what it
\* names is not kept, only that nothing checked it.  (apply_failure looks at both
\* sides again, as a final report does; that second look is not followed.)
End(o, result) == Report(o, result, FALSE, "unchecked")

\* prepare_document: read, prepare at the daemon, read again and find the
\* exact same file.  `doc apply` also refuses a body that is not canonical.
ReadDocument(o) ==
    /\ At(o, "start") /\ form[o] \in {"apply", "export"}
    /\ \/ /\ doc.present /\ (form[o] = "apply" => doc.canonical)
          /\ Go(o, [cl[o] EXCEPT !.read = doc, !.cand = doc.corpus, !.pc = "baseline"])
       \/ End(o, "refused")
    /\ UNCHANGED <<daemon, doc, edits, restarts, sweeps>>

\* run_check --fix: the same read; a canonical document is left alone.
CheckDocument(o) ==
    /\ At(o, "start") /\ form[o] = "fix"
    /\ \/ doc.present /\ doc.canonical /\ End(o, "no_change")
       \/ /\ doc.present /\ ~doc.canonical
          /\ Go(o, [cl[o] EXCEPT !.read = doc, !.cand = doc.corpus, !.pc = "replace"])
       \/ End(o, "refused")
    /\ UNCHANGED <<daemon, doc, edits, restarts, sweeps>>

\* run_init: only where there is no document.
CheckNoDocument(o) ==
    /\ At(o, "start") /\ form[o] = "init"
    /\ IF doc.present THEN End(o, "refused") ELSE Go(o, [cl[o] EXCEPT !.pc = "baseline"])
    /\ UNCHANGED <<daemon, doc, edits, restarts, sweeps>>

\* run_body_apply: the corpus comes from the profile file.
PrepareBody(o) ==
    /\ At(o, "start") /\ form[o] = "preset"
    /\ \E body \in Bodies : Go(o, [cl[o] EXCEPT !.cand = body, !.pc = "baseline"])
    /\ UNCHANGED <<daemon, doc, edits, restarts, sweeps>>

\* read_rule_corpus_for_update and the one change the command makes to it:
\* add a rule, or (from an authenticated corpus) take one out.  A corrupt
\* record is replaced by the new rule alone.
ReadRules(o) ==
    /\ At(o, "start") /\ form[o] = "rules"
    /\ \/ Snapshot.kind \in {"absent", "served"} /\ \E r \in Rules :
             Go(o, [cl[o] EXCEPT !.base = Snapshot, !.pc = "confirm",
                        !.cand = IF r \in live.corpus THEN live.corpus \ {r}
                                 ELSE live.corpus \cup {r}])
       \/ Snapshot.kind = "corrupt" /\ \E r \in Rules :
             Go(o, [cl[o] EXCEPT !.base = Snapshot, !.pc = "confirm", !.cand = {r}])
       \/ End(o, "refused")
    /\ UNCHANGED <<daemon, doc, edits, restarts, sweeps>>

\* The guardrails of `doc apply` against a baseline s and the marker.
ApplyGuard(o, s) ==
    CASE s.kind \in {"unserved", "corrupt"} -> cl[o].force
      [] s.kind = "served" -> cl[o].force \/ cl[o].read.marker = s.corpus
      [] s.kind = "absent" -> cl[o].force \/ cl[o].read.marker = NoBody

\* run_export: the document carries edits that are neither its pin nor live.
Unapplied(o, s) ==
    /\ ~(SourceIsEmpty(cl[o].read) /\ cl[o].read.marker = NoBody)
    /\ cl[o].read.corpus # cl[o].read.marker
    /\ cl[o].read.corpus # (IF s.kind = "served" THEN s.corpus ELSE NoBody)

\* Where the first status read sends each command.
Onward(o, s, pc) == Go(o, [cl[o] EXCEPT !.base = s, !.pc = pc])

\* run_apply: a corpus that is live already needs at most its pin repaired, an
\* empty document over no record nothing at all.
ApplyBaseline(o, s) ==
    LET r == cl[o].read
        live_already == CandidateIsLive(o, s)
        nothing == s.kind = "absent" /\ SourceIsEmpty(r) /\ r.marker = NoBody
    IN \/ live_already /\ Onward(o, s, IF r.marker = cl[o].cand THEN "finalDoc" ELSE "replace")
       \/ ~live_already /\ nothing /\ Onward(o, s, "finalDoc")
       \/ ~live_already /\ ~nothing /\ ApplyGuard(o, s) /\ Onward(o, s, "stage")
       \/ ~live_already /\ ~nothing /\ ~ApplyGuard(o, s) /\ End(o, "refused")

\* A record that serves nothing is replaced only by --recover, and is nothing
\* to export from or to begin a document with.
BodyBaseline(o, s) ==
    IF s.kind \in {"unserved", "corrupt"} /\ ~cl[o].force
    THEN End(o, "refused") ELSE Onward(o, s, "stage")

ExportBaseline(o, s) ==
    IF s.kind \in {"unserved", "corrupt"} \/ (Unapplied(o, s) /\ ~cl[o].force)
    THEN End(o, "refused") ELSE Onward(o, s, "replace")

InitBaseline(o, s) ==
    IF s.kind \in {"unserved", "corrupt"} THEN End(o, "refused") ELSE Onward(o, s, "create")

ReadBaseline(o) ==
    /\ At(o, "baseline")
    /\ \E s \in Answers :
         CASE s.kind = "unknown" -> End(o, "refused")
           [] s.kind # "unknown" /\ form[o] = "apply" -> ApplyBaseline(o, s)
           [] s.kind # "unknown" /\ form[o] = "preset" -> BodyBaseline(o, s)
           [] s.kind # "unknown" /\ form[o] = "export" -> ExportBaseline(o, s)
           [] s.kind # "unknown" /\ form[o] = "init" -> InitBaseline(o, s)
    /\ UNCHANGED <<daemon, doc, edits, restarts, sweeps>>

\* Round one: the daemon binds the staged corpus to the record of this moment.
Stage(o) ==
    /\ At(o, "stage")
    /\ \/ /\ staged' = [staged EXCEPT ![o] = {live}]
          /\ Go(o, [cl[o] EXCEPT !.gate = 1,
                        !.pc = CASE form[o] = "apply" -> "recheckDoc"
                                 [] form[o] = "preset" -> "confirm"
                                 [] form[o] = "rules" -> "recheckRules"])
       \/ End(o, "refused") /\ UNCHANGED staged
    /\ UNCHANGED <<live, disk, validated, stored, intent, handler, flips, doc, edits, restarts, sweeps>>

\* apply_precommit_recheck, made after staging, after the terminal
\* confirmation and after presence: the exact document, then the exact record.
RecheckDocument(o) ==
    /\ At(o, "recheckDoc")
    /\ IF doc = cl[o].read THEN Go(o, [cl[o] EXCEPT !.pc = "recheckLive"])
       ELSE End(o, "refused")
    /\ UNCHANGED <<daemon, doc, edits, restarts, sweeps>>

RecheckPasses(o, s) == s = cl[o].base

RecheckLive(o) ==
    /\ At(o, "recheckLive")
    /\ \E s \in Answers :
         IF RecheckPasses(o, s)
         THEN Go(o, [cl[o] EXCEPT !.pc = CASE cl[o].gate = 1 -> "confirm"
                                           [] cl[o].gate = 2 -> "presence"
                                           [] cl[o].gate = 3 -> "send"])
         ELSE End(o, "refused")
    /\ UNCHANGED <<daemon, doc, edits, restarts, sweeps>>

D_RulesUnchanged(o, s) == s.kind \in {"absent", "served", "corrupt"}

\* The original-state comparison of compare_and_swap_rules_with_presence: by
\* content for an authenticated corpus, by kind for a corrupt one.
RulesUnchanged(o, s) ==
    IF cl[o].base.kind = "corrupt" THEN s.kind = "corrupt"
    ELSE s.kind \in {"absent", "served"} /\ s.corpus = cl[o].base.corpus

RecheckRules(o) ==
    /\ At(o, "recheckRules")
    /\ \E s \in Answers :
         IF RulesUnchanged(o, s) THEN Go(o, [cl[o] EXCEPT !.pc = "presence"])
         ELSE End(o, "refused")
    /\ UNCHANGED <<daemon, doc, edits, restarts, sweeps>>

\* The terminal prompt.  `rules` asks before it stages.
Confirm(o) ==
    /\ At(o, "confirm")
    /\ \/ Go(o, [cl[o] EXCEPT !.gate = 2,
                     !.pc = CASE form[o] = "apply" -> "recheckDoc"
                              [] form[o] = "preset" -> "presence"
                              [] form[o] = "rules" -> "stage"])
       \/ End(o, "refused")
    /\ UNCHANGED <<daemon, doc, edits, restarts, sweeps>>

\* The presence ceremony.
ConfirmPresence(o) ==
    /\ At(o, "presence")
    /\ \/ Go(o, [cl[o] EXCEPT !.gate = 3,
                     !.pc = IF form[o] = "apply" THEN "recheckDoc" ELSE "send"])
       \/ End(o, "refused")
    /\ UNCHANGED <<daemon, doc, edits, restarts, sweeps>>

\* Round two: one CommitSentences call, and a fresh one in every later round.
Send(o) ==
    /\ At(o, "send")
    /\ handler' = [handler EXCEPT ![o][cl[o].try + 1] = "sent"]
    /\ Go(o, [cl[o] EXCEPT !.try = @ + 1, !.pc = "await"])
    /\ UNCHANGED <<live, disk, validated, stored, staged, intent, flips, doc, edits, restarts, sweeps>>

D_DefiniteRefusal(o, reply) == reply = "denied"

\* Only the refusal of the first attempt is a definite no-commit: once an
\* attempt has gone unanswered its handler may still run.
DefiniteRefusal(o, reply) == reply = "denied" /\ cl[o].try = 1

Acknowledged == [committed |-> "committed", already |-> "already_committed"]

\* After a commit that is known to have landed.
AfterCommit(o) == IF form[o] = "preset" THEN "names" ELSE "observe"

\* A reply reaches the client that waits for it.
Receive(o) ==
    /\ At(o, "await")
    /\ LET reply == handler[o][cl[o].try] IN
       /\ reply \in Replies
       /\ IF DefiniteRefusal(o, reply) THEN End(o, "stale_stage_conflict")
          ELSE IF reply \in DOMAIN Acknowledged
          THEN Go(o, [cl[o] EXCEPT !.resolution = Acknowledged[reply], !.pc = AfterCommit(o)])
          ELSE Go(o, [cl[o] EXCEPT !.pc = "poll"])
    /\ handler' = [handler EXCEPT ![o][cl[o].try] = "lost"]
    /\ UNCHANGED <<live, disk, validated, stored, staged, intent, flips, doc, edits, restarts, sweeps>>

\* The call times out or its connection is lost: its handler keeps running.
Timeout(o) ==
    /\ At(o, "await")
    /\ Go(o, [cl[o] EXCEPT !.pc = "poll"])
    /\ handler' = [handler EXCEPT ![o][cl[o].try] = IF @ \in Replies THEN "lost" ELSE @]
    /\ UNCHANGED <<live, disk, validated, stored, staged, intent, flips, doc, edits, restarts, sweeps>>

\* The bounded loop is over when every round has sent its commit.
PollGivesUp(o) == cl[o].try = world.rounds + 1

\* reconcile_apply_commit and reconcile_incremental_commit: look for this
\* exact occurrence, and send the same token again when it is not there.
Poll(o) ==
    /\ At(o, "poll")
    /\ \E s \in Answers :
         IF IsExactOccurrence(o, s)
         THEN Go(o, [cl[o] EXCEPT !.resolution = "committed_after_reconciliation",
                         !.was = s,
                         !.pc = CASE form[o] = "apply" -> "replace"
                                  [] form[o] = "preset" -> "names"
                                  [] form[o] = "rules" -> "finalDoc"])
         ELSE IF ~PollGivesUp(o) THEN Go(o, [cl[o] EXCEPT !.pc = "send"])
         ELSE IF form[o] = "rules" THEN Go(o, [cl[o] EXCEPT !.was = s, !.pc = "finalDoc"])
         ELSE End(o, "commit_outcome_unknown")
    /\ UNCHANGED <<daemon, doc, edits, restarts, sweeps>>

\* observe_apply_terminal_status: up to rounds + 1 reads for the exact
\* occurrence; the last answer decides.  `rules` reads once.
Observe(o) ==
    /\ At(o, "observe")
    /\ \E s \in Answers :
         IF form[o] = "rules" THEN Go(o, [cl[o] EXCEPT !.was = s, !.pc = "finalDoc"])
         ELSE IF IsExactOccurrence(o, s) THEN Go(o, [cl[o] EXCEPT !.pc = "replace"])
         ELSE IF cl[o].looks < world.rounds THEN Go(o, [cl[o] EXCEPT !.looks = @ + 1])
         ELSE IF s = Unknown THEN End(o, "committed_but_unreconciled")
         ELSE End(o, "committed_but_superseded")
    /\ UNCHANGED <<daemon, doc, edits, restarts, sweeps>>

\* run_body_apply: is the name in the profile table?
ReadNames(o) ==
    /\ At(o, "names")
    /\ \/ /\ stored # NoBody
          /\ Report(o, cl[o].resolution, TRUE, "none")
       \/ End(o, "committed_but_preset_not_stored")
    /\ UNCHANGED <<daemon, doc, edits, restarts, sweeps>>
-----------------------------------------------------------------------------
(* The document writes and the final report.                               *)

\* What the command writes: the live corpus and its pin (export), the pin of
\* the corpus it applied or found live (apply), the canonical body (fix).
Rewritten(o) ==
    [present |-> TRUE, canonical |-> TRUE, stamp |-> doc.stamp + 1,
     corpus |-> IF form[o] = "export" THEN cl[o].base.corpus ELSE cl[o].cand,
     marker |-> CASE form[o] = "apply" -> cl[o].cand
                  [] form[o] = "fix" -> cl[o].read.marker
                  [] form[o] = "export" ->
                       IF cl[o].base.kind = "served" THEN cl[o].base.corpus ELSE NoBody]

\* DocumentStore::replace refuses unless the file is exactly the one read.
PreimageHolds(o) == doc = cl[o].read

Replace(o) ==
    /\ At(o, "replace")
    /\ \/ /\ PreimageHolds(o)
          /\ doc' = Rewritten(o)
          /\ \E w \in {"clean", "interfered"} :
               IF form[o] = "fix"
               THEN Report(o, IF w = "clean" THEN "written" ELSE "unclean", w = "clean", "none")
               ELSE Go(o, [cl[o] EXCEPT !.write = w, !.read = doc', !.pc = "finalDoc"])
       \/ /\ UNCHANGED doc
          /\ IF cl[o].resolution = "none" THEN End(o, "refused")
             ELSE Go(o, [cl[o] EXCEPT !.write = "preserved", !.pc = "finalDoc"])
    /\ UNCHANGED <<daemon, edits, restarts, sweeps>>

\* run_init: DocumentStore::create links the new file, never over another.
Create(o) ==
    /\ At(o, "create")
    /\ \/ /\ ~doc.present
          /\ doc' = [present |-> TRUE, canonical |-> TRUE, stamp |-> doc.stamp + 1,
                     corpus |-> cl[o].base.corpus,
                     marker |-> IF cl[o].base.kind = "served" THEN cl[o].base.corpus ELSE NoBody]
          /\ \E w \in {"clean", "interfered"} :
               Go(o, [cl[o] EXCEPT !.write = w, !.read = doc', !.pc = "finalDoc"])
       \/ UNCHANGED doc /\ End(o, "refused")
    /\ UNCHANGED <<daemon, edits, restarts, sweeps>>

\* The final report reads the document, then the status, then the document.
FinalDocument(o) ==
    /\ At(o, "finalDoc")
    /\ Go(o, [cl[o] EXCEPT !.fdoc = doc, !.pc = "finalLive"])
    /\ UNCHANGED <<daemon, doc, edits, restarts, sweeps>>

FinalStatus(o) ==
    /\ At(o, "finalLive")
    /\ \E s \in Answers :
         Go(o, [cl[o] EXCEPT !.seen = s, !.truth = ClassifyDrift(doc, s), !.pc = "finalState"])
    /\ UNCHANGED <<daemon, doc, edits, restarts, sweeps>>

\* compose_final_state: a document that moved since it was read is invalid.
FinalDrift(o) ==
    IF doc # cl[o].fdoc /\ cl[o].seen.kind \in {"absent", "served"} THEN "repo_invalid"
    ELSE ClassifyDrift(cl[o].fdoc, cl[o].seen)

\* observe_mutation_document reports a state only when neither side moved.
RulesDrift(o) ==
    IF cl[o].seen = Unknown \/ cl[o].seen # cl[o].was \/ doc # cl[o].fdoc THEN "none"
    ELSE FinalDrift(o)

\* What the command reports once it has looked at both sides again.
Conclude(o, drift) ==
    LET c == cl[o]
        known == c.resolution # "none" \/ IsExactOccurrence(o, c.seen)
        exact == IsExactOccurrence(o, c.seen) /\ c.seen.kind = "served"
        clean == c.write = "clean"
        say(result, ok) == Report(o, result, ok, drift)
    IN CASE form[o] = "rules" ->
              IF ~known THEN say("commit_outcome_unknown", FALSE)
              ELSE IF ~exact THEN say("committed_but_unreconciled", FALSE)
              ELSE IF c.resolution = "none" THEN say("committed_after_reconciliation", TRUE)
              ELSE say(c.resolution, TRUE)
         [] form[o] = "apply" /\ c.resolution # "none" ->
              IF clean /\ drift = "aligned" THEN say(c.resolution, TRUE)
              ELSE say("committed_but_unreconciled", FALSE)
         [] form[o] = "apply" /\ c.resolution = "none" /\ c.write = "none" ->
              say("no_change", DriftExit(drift))
         [] form[o] = "apply" /\ c.resolution = "none" /\ c.write # "none" ->
              IF clean /\ DriftExit(drift) THEN say("marker_repaired", TRUE)
              ELSE say("marker_repair_unreconciled", FALSE)
         [] form[o] \in {"export", "init"} ->
              IF clean /\ doc = c.read THEN say("written", DriftExit(drift))
              ELSE say("unclean", FALSE)

FinalReport(o) ==
    /\ At(o, "finalState")
    /\ Conclude(o, IF form[o] = "rules" THEN RulesDrift(o) ELSE FinalDrift(o))
    /\ UNCHANGED <<daemon, doc, edits, restarts, sweeps>>
-----------------------------------------------------------------------------
(* The daemon: the CommitSentences handler, one per call, on its own       *)
(* thread.                                                                 *)

\* The handler ends; a reply nobody waits for any more is lost.
Reply(o, k, r) ==
    handler' = [handler EXCEPT ![o][k] =
                  IF r \in Replies /\ ~(At(o, "await") /\ cl[o].try = k) THEN "lost" ELSE r]
Handling(o, k) == handler[o][k] = "sent"
IsLive(o) == live.kind = "record" /\ live.occ = o

\* The staged corpus is still there and the record is the one it was staged on.
BaselineHolds(o) == live \in staged[o]

\* A fault before the record is touched (the broker's pre-flip gate, a lock,
\* a read).
CommitFault(o, k) ==
    /\ Handling(o, k) /\ Reply(o, k, "error")
    /\ UNCHANGED <<live, disk, validated, stored, staged, intent, flips, doc, cl, edits, restarts, sweeps>>

\* An unknown or swept token, a record that moved, or an occurrence whose
\* intent an earlier attempt has already written.
CommitRefused(o, k) ==
    /\ Handling(o, k)
    /\ \/ staged[o] = {}
       \/ ~IsLive(o) /\ (~BaselineHolds(o) \/ o \in intent)
    /\ Reply(o, k, "denied")
    /\ UNCHANGED <<live, disk, validated, stored, staged, intent, flips, doc, cl, edits, restarts, sweeps>>

Then(o, reply) ==
    IF form[o] # "preset" THEN reply
    ELSE IF reply = "committed" THEN "storing" ELSE "resaving"

\* The record is already this occurrence: prove it durable and say so.
CommitAgain(o, k) ==
    /\ Handling(o, k) /\ IsLive(o) /\ staged[o] # {}
    /\ disk' = live /\ validated' = live.corpus
    /\ Reply(o, k, Then(o, "already"))
    /\ UNCHANGED <<live, stored, staged, intent, flips, doc, cl, edits, restarts, sweeps>>

CanFlip(o) == staged[o] # {} /\ ~IsLive(o) /\ BaselineHolds(o) /\ o \notin intent

\* The intent is written and the flip fails before the rename.
FlipFails(o, k) ==
    /\ Handling(o, k) /\ CanFlip(o)
    /\ disk' = live /\ intent' = intent \cup {o}
    /\ Reply(o, k, "error")
    /\ UNCHANGED <<live, validated, stored, staged, flips, doc, cl, edits, restarts, sweeps>>

Flipped(o) == [kind |-> "record", corpus |-> cl[o].cand, occ |-> o]

\* The flip: durable and validated.
Flip(o, k) ==
    /\ Handling(o, k) /\ CanFlip(o)
    /\ live' = Flipped(o) /\ disk' = Flipped(o) /\ validated' = cl[o].cand
    /\ intent' = intent \cup {o}
    /\ flips' = Append(flips, [by |-> o, over |-> live])
    /\ Reply(o, k, Then(o, "committed"))
    /\ UNCHANGED <<stored, staged, doc, cl, edits, restarts, sweeps>>

\* The rename happened and the directory sync failed: readers see the new
\* record, the caller an error, and a restart may bring the old one back.
FlipUnsynced(o, k) ==
    /\ world.unsynced
    /\ Handling(o, k) /\ CanFlip(o)
    /\ live' = Flipped(o) /\ disk' = live
    /\ intent' = intent \cup {o}
    /\ flips' = Append(flips, [by |-> o, over |-> live])
    /\ Reply(o, k, "error")
    /\ UNCHANGED <<validated, stored, staged, doc, cl, edits, restarts, sweeps>>

\* The handler has committed and has the profile left to store.
Storing(o, k) == handler[o][k] \in {"storing", "resaving"}

StoreProfile(o, k) ==
    /\ Storing(o, k)
    /\ \/ /\ stored' = cl[o].cand
          /\ Reply(o, k, IF handler[o][k] = "resaving" THEN "already" ELSE "committed")
       \/ Reply(o, k, "error") /\ UNCHANGED stored
    /\ UNCHANGED <<live, disk, validated, staged, intent, flips, doc, cl, edits, restarts, sweeps>>

\* A staged corpus outlives its ceremony by at most its TTL.
SweepStaged(o) ==
    /\ sweeps < world.sweeps /\ sweeps' = sweeps + 1
    /\ staged[o] # {} /\ staged' = [staged EXCEPT ![o] = {}]
    /\ UNCHANGED <<live, disk, validated, stored, intent, handler, flips, doc, cl, edits, restarts>>

\* A crash and the boot adoption that follows: handlers die, an unsynced flip
\* stays or goes, intents of records that are not live are swept, and the
\* record is validated again or not.
Restart ==
    /\ restarts < world.restarts /\ restarts' = restarts + 1
    /\ \E r \in {live, disk} :
         /\ live' = r /\ disk' = r
         /\ intent' = {o \in intent : r.kind = "record" /\ r.occ = o}
         /\ flips' = IF r = live THEN flips ELSE SubSeq(flips, 1, Len(flips) - 1)
         /\ validated' \in IF r.kind = "record" THEN {r.corpus, NoBody} ELSE {NoBody}
    /\ handler' = [o \in Ops |-> [k \in Attempts |->
                     IF handler[o][k] \in {"sent", "storing", "resaving"} THEN "lost"
                     ELSE handler[o][k]]]
    /\ UNCHANGED <<stored, staged, doc, cl, edits, sweeps>>

\* Somebody saves CERMET.md; the pin is left alone.
Edit ==
    /\ edits < world.edits /\ edits' = edits + 1
    /\ \E body \in Bodies, c \in BOOLEAN :
         doc' = [doc EXCEPT !.present = TRUE, !.corpus = body, !.canonical = c, !.stamp = @ + 1]
    /\ UNCHANGED <<daemon, cl, restarts, sweeps>>
-----------------------------------------------------------------------------
Propose(o) ==
    \/ ReadDocument(o) \/ CheckDocument(o) \/ CheckNoDocument(o) \/ PrepareBody(o) \/ ReadRules(o)
    \/ ReadBaseline(o) \/ Stage(o) \/ RecheckDocument(o) \/ RecheckLive(o)
    \/ RecheckRules(o) \/ Confirm(o) \/ ConfirmPresence(o)

Resolve(o) ==
    \/ Send(o) \/ Receive(o) \/ Timeout(o) \/ Poll(o) \/ Observe(o) \/ ReadNames(o)
    \/ Replace(o) \/ Create(o) \/ FinalDocument(o) \/ FinalStatus(o) \/ FinalReport(o)

Handle(o, k) ==
    \/ CommitFault(o, k) \/ CommitRefused(o, k) \/ CommitAgain(o, k)
    \/ FlipFails(o, k) \/ Flip(o, k) \/ FlipUnsynced(o, k) \/ StoreProfile(o, k)

Next ==
    /\ \/ \E o \in Ops : Propose(o) \/ Resolve(o) \/ SweepStaged(o)
       \/ \E o \in Ops, k \in Attempts : Handle(o, k)
       \/ Restart \/ Edit
    /\ UNCHANGED world

Spec == Init /\ [][Next]_vars
-----------------------------------------------------------------------------
Landed(o) == \E i \in 1 .. Len(flips) : flips[i].by = o

\* A command that reports a refusal, a conflict or that nothing needed doing
\* has committed nothing, and no call of its own that is still running commits
\* it later (docs/FIELDS.md: "a concurrent winner remains live. Nothing was
\* committed.").
RefusedCommitsNothing ==
    \A o \in Ops :
        cl[o].pc = "done" /\ cl[o].result \notin CommittedResults \cup {"commit_outcome_unknown"}
            => ~Landed(o)

\* A command that reports a commit, in any of the ways it can have learnt of
\* it, has committed: its own occurrence became the record.
CommittedLanded ==
    \A o \in Ops : cl[o].result \in CommittedResults => Landed(o)

\* One accepted change never becomes two: however often its token is sent
\* again, however late a handler runs, an occurrence flips the record once.
OneFlipPerCeremony ==
    \A i, j \in 1 .. Len(flips) : flips[i].by = flips[j].by => i = j

\* What a command reports of its commit is true, while a rename that a status
\* read has shown survives the restarts: a refusal committed nothing, a commit
\* landed, and it landed once.  (A directory sync that failed may undo the
\* rename at the next boot; those worlds are about the reported state.)
OutcomeTrue ==
    ~world.unsynced =>
        RefusedCommitsNothing /\ CommittedLanded /\ OneFlipPerCeremony

Change(before, after) == (before \ after) \cup (after \ before)

\* A ceremony takes effect on what its operator was shown.  `doc apply`
\* replaces exactly the generation reviewed as old_live, not an equal one and
\* not a later one.  `rules allow` and `rules revoke` change, in the corpus
\* they take effect on, the one rule they change in the corpus shown: no rule
\* that another ceremony committed or took out meanwhile is lost or comes back.
ReviewedIsReplaced ==
    ~world.unsynced => \A i \in 1 .. Len(flips) :
        LET over == flips[i].over
            shown == cl[flips[i].by].base
            after == cl[flips[i].by].cand
        IN /\ form[flips[i].by] = "apply" =>
                over.occ = shown.occ /\ over.corpus = shown.corpus
           /\ form[flips[i].by] = "rules" =>
                IF over.kind = "corrupt" THEN Cardinality(after) = 1
                ELSE /\ Cardinality(Change(over.corpus, after)) = 1
                     /\ Change(over.corpus, after) = Change(shown.corpus, after)

\* A state that a final report names held: at the moment the command read the
\* status, the document and the record stood in that relation to each other,
\* although the two are read at different moments and either may move in between
\* (the read after the status finds the file of the read before it).  Early ends
\* and failures are not covered: see End.
ReportedStateHeld ==
    \A o \in Ops :
        cl[o].drift \notin {"none", "unchecked", "repo_invalid"} => cl[o].drift = cl[o].truth

\* A command never writes over a draft: the body it replaces by another one is
\* the one its own pin names, unless the operator forced it.
DraftKept ==
    [][doc.present /\ doc'.corpus # doc.corpus /\ edits' = edits =>
          \/ doc.corpus = doc.marker
          \/ SourceIsEmpty(doc) /\ doc.marker = NoBody
          \/ \E o \in Ops : cl[o].pc = "replace" /\ cl[o].force]_vars

\* A profile apply that reports success has stored this body under the name
\* ("Reporting a stored profile that is not there would name a key the
\* operator could not then apply").
ProfileStored ==
    \A o \in Ops : form[o] = "preset" /\ cl[o].ok => stored = cl[o].cand

=============================================================================
