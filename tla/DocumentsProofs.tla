--------------------------- MODULE DocumentsProofs ---------------------------
(***************************************************************************)
(* Proofs about the operator's commands on CERMET.md: what a ceremony      *)
(* commits, writes and reports while commands, calls, edits and restarts   *)
(* interleave; what a publication that is cut at every system call may     *)
(* claim (Store); and who opens the presence gate (Gate).                  *)
(***************************************************************************)
EXTENDS Documents, FiniteSetTheorems, TLAPS

-----------------------------------------------------------------------------
(* The ceremonies: the inductive invariant.  What it says of the record    *)
(* and the calls is about the worlds without an unsynced rename (Safe): in *)
(* the others a restart may take a commit back.                            *)

(* The places of a call, and the fields of a command. *)
Places == {"committed", "already", "denied", "error", "idle", "sent", "storing", "resaving", "lost"}

Fields == {"pc", "force", "cand", "base", "read", "gate", "try", "looks", "seen", "was",
           "resolution", "write", "fdoc", "result", "ok", "drift", "truth"}

(* The record, the document and the commands keep their fields. *)
CeremonyShape ==
    /\ world \in Worlds /\ {live, disk} \subseteq Record /\ edits \in Nat
    /\ DOMAIN doc = {"present", "marker", "corpus", "canonical", "stamp"}
    /\ doc.corpus \in Corpora /\ doc.stamp \in Nat
    /\ DOMAIN staged = Ops /\ handler \in [Ops -> [Attempts -> Places]]

ClientOK(o) ==
    /\ DOMAIN cl[o] = Fields /\ cl[o].try \in Nat /\ cl[o].gate \in Nat
    /\ cl[o].cand \in Corpora /\ cl[o].base.corpus \in Corpora
    /\ cl[o].read.corpus \in Corpora

ClientShape == DOMAIN cl = Ops /\ \A o \in Ops : ClientOK(o)

(* Where a command can be: which commands pass there, and which of them    *)
(* have sent a commit.                                                     *)
Early == {"start", "baseline", "stage", "recheckDoc", "recheckLive", "recheckRules",
          "confirm", "presence", "create"}
Late == {"replace", "finalDoc", "finalLive", "finalState"}
Sending == {"send", "await", "poll"}

PlaceOK(o) ==
    LET c == cl[o] IN
    /\ c.pc \in Pcs
    /\ c.pc = "baseline" => form[o] \in {"apply", "preset", "export", "init"}
    /\ c.pc \in {"stage", "confirm", "presence"} \cup Sending => form[o] \in {"apply", "preset", "rules"}
    /\ c.pc \in {"recheckDoc", "recheckLive"} => form[o] = "apply" /\ c.gate \in 1 .. 3
    /\ c.pc = "recheckRules" => form[o] = "rules"
    /\ c.pc = "observe" => form[o] \in {"apply", "rules"}
    /\ c.pc = "names" => form[o] = "preset"
    /\ c.pc = "replace" => form[o] \in {"apply", "export", "fix"}
    /\ c.pc = "create" => form[o] = "init"
    /\ c.pc \in {"finalDoc", "finalLive", "finalState"} => form[o] \in {"apply", "rules", "export", "init"}
    /\ c.pc \in Early => c.try = 0
    /\ c.pc \in Late /\ c.resolution = "none" /\ form[o] # "rules" => c.try = 0
    /\ c.pc \in {"observe", "names"} => c.resolution # "none"
    /\ c.resolution \in {"none", "committed", "already_committed", "committed_after_reconciliation"}
    /\ form[o] \in {"export", "fix", "init"} => c.resolution = "none"
    /\ c.pc = "send" => c.try <= world.rounds
    /\ c.pc \in {"await", "poll"} => c.try \in 1 .. world.rounds + 1
    /\ c.pc # "done" => c.result = "none" /\ c.drift = "none"
    /\ form[o] = "apply" /\ c.pc \in {"stage", "recheckDoc", "recheckLive", "confirm", "presence"}
         => c.base.kind # "unknown"

PlaceInv == \A o \in Ops : PlaceOK(o)

(* The generation L has been replaced. *)
Past(L) == \E i \in 1 .. Len(flips) : flips[i].over = L

(* The record is a generation nobody has replaced, and a corpus is staged  *)
(* on it or on one that was.                                               *)
RecordInv ==
    /\ disk = live /\ flips \in Seq([by : Ops, over : Record])
    /\ \A i \in 1 .. Len(flips) :
         /\ flips[i].over.occ # live.occ
         /\ flips[i].over.occ = Nobody \/ Landed(flips[i].over.occ)
    /\ live.occ = Nobody \/ Landed(live.occ)
    /\ OneFlipPerCeremony
    /\ \A o \in Ops : \A L \in staged[o] : (L = live /\ ~Landed(o)) \/ Past(L)

(* Which calls of a command can still commit, and what it knows of them. *)
CallOK(o) ==
    LET c == cl[o] IN
    /\ c.pc # "done" => \A k \in Attempts : k > c.try => handler[o][k] = "idle"
    /\ c.pc # "done" /\ c.try = 0 => ~Landed(o)
    /\ c.pc # "done" /\ c.try = 1 /\ handler[o][1] \in {"sent", "denied"} => ~Landed(o)
    /\ \A k \in Attempts :
         handler[o][k] \in {"committed", "already", "storing", "resaving"} => Landed(o)
    /\ c.resolution # "none" => Landed(o)
    /\ c.seen.occ = o => Landed(o)
    /\ c.pc = "done" /\ c.result \in CommittedResults => Landed(o)
    /\ c.pc = "done" /\ c.result \notin CommittedResults \cup {"commit_outcome_unknown"} =>
         ~Landed(o) /\ \A k \in Attempts : handler[o][k] # "sent"

CallInv == \A o \in Ops : CallOK(o)

(* The command has a commit to send, or one that may still run. *)
Asking(o) == cl[o].pc \in Sending \/ \E k \in Attempts : handler[o][k] = "sent"

(* L is the generation that was shown to the operator. *)
Matches(o, L) ==
    /\ form[o] = "apply" => L.occ = cl[o].base.occ /\ L.corpus = cl[o].base.corpus
    /\ form[o] = "rules" =>
         IF cl[o].base.kind = "corrupt" THEN L.kind = "corrupt"
         ELSE L.kind # "corrupt" /\ L.corpus = cl[o].base.corpus

OneRule(o) ==
    IF cl[o].base.kind = "corrupt" THEN \E r \in Rules : cl[o].cand = {r}
    ELSE \E r \in Rules : Change(cl[o].base.corpus, cl[o].cand) = {r}

ReviewOK(o) ==
    /\ Asking(o) \/ (form[o] = "rules" /\ cl[o].pc = "presence") =>
         \A L \in staged[o] : Past(L) \/ Matches(o, L)
    /\ form[o] = "rules" =>
         (Asking(o) \/ cl[o].pc \in {"confirm", "stage", "recheckRules", "presence"} => OneRule(o))

(* What a corpus may still replace, and what each one did replace, is what *)
(* its operator was shown.                                                 *)
ReviewInv ==
    /\ \A o \in Ops : ReviewOK(o)
    /\ \A i \in 1 .. Len(flips) :
         /\ Matches(flips[i].by, flips[i].over)
         /\ form[flips[i].by] = "rules" => OneRule(flips[i].by)

(* The document a final report compares has not come back since. *)
ReportOK(o) ==
    LET c == cl[o] IN
    /\ c.pc \in {"finalLive", "finalState"} =>
         /\ c.fdoc.stamp \in Nat /\ c.fdoc.stamp <= doc.stamp
         /\ c.fdoc.stamp = doc.stamp => c.fdoc = doc
    /\ c.pc = "finalState" =>
         \/ c.truth = ClassifyDrift(c.fdoc, c.seen)
         \/ c.fdoc.stamp < doc.stamp /\ c.seen.kind \in {"absent", "served"}
    /\ c.drift \notin {"none", "unchecked", "repo_invalid"} => c.drift = c.truth

ReportInv == \A o \in Ops : ReportOK(o)

(* A command about to write keeps the body it read, or has its operator's  *)
(* word for dropping it.                                                   *)
Holding == {"baseline", "stage", "recheckDoc", "recheckLive", "confirm", "presence", "send",
            "await", "poll", "observe", "replace"}

DraftOK(o) ==
    /\ cl[o].pc \in Holding /\ form[o] \in {"apply", "fix"} => cl[o].cand = cl[o].read.corpus
    /\ cl[o].pc = "replace" /\ form[o] = "export" => cl[o].force \/ ~Unapplied(o, cl[o].base)

DraftInv == \A o \in Ops : DraftOK(o)

Safe == ~world.unsynced

CeremonyInv ==
    /\ CeremonyShape /\ ClientShape /\ PlaceInv /\ ReportInv /\ DraftInv
    /\ Safe => RecordInv /\ CallInv /\ ReviewInv

-----------------------------------------------------------------------------
(* What a status read answers. *)
LEMMA AnswerFacts ==
  ASSUME live \in Record
  PROVE  /\ Snapshot.occ = live.occ /\ Snapshot.corpus = live.corpus /\ Snapshot.kind \in Kinds
         /\ Snapshot.kind = "corrupt" <=> live.kind = "corrupt"
         /\ Unknown.occ = Nobody /\ Unknown.kind = "unknown"
         /\ Snapshot.kind # "unknown"
         /\ \A s \in Answers : s = Snapshot \/ s = Unknown
  BY DEF Record, Snapshot, Kinds, Unknown, Answers

(* The call k of the command o moves to the place v, and no other call. *)
Reaches(o, k, v) ==
    /\ DOMAIN handler' = Ops /\ (\A x \in Ops : x # o => handler'[x] = handler[x])
    /\ DOMAIN handler'[o] = Attempts /\ (\A j \in Attempts : j # k => handler'[o][j] = handler[o][j])
    /\ handler'[o][k] = v

(* A call that is set to v reaches v. *)
LEMMA ReachesFacts ==
  ASSUME handler \in [Ops -> [Attempts -> Places]], NEW o \in Ops, NEW k \in Attempts, NEW v,
         handler' = [handler EXCEPT ![o][k] = v]
  PROVE  Reaches(o, k, v)
  BY DEF Reaches

(* A handler's reply reaches its call, or is lost when nobody waits. *)
LEMMA ReplyFacts ==
  ASSUME handler \in [Ops -> [Attempts -> Places]], NEW o \in Ops, NEW k \in Attempts, NEW r,
         Reply(o, k, r)
  PROVE  \/ Reaches(o, k, r)
         \/ r \in Replies /\ Reaches(o, k, "lost")
  BY DEF Reaches, Reply

(* A step of the command o leaves the other commands alone, and of its own *)
(* fields all but the ones in F; or it ends the command, which keeps its   *)
(* baseline, its corpus and its report.                                    *)
Kept(o) ==
    /\ DOMAIN cl' = Ops /\ (\A x \in Ops : x # o => cl'[x] = cl[x])
    /\ DOMAIN cl'[o] = Fields

Moves(o, F) ==
    /\ Kept(o)
    /\ "pc" \in F \/ cl'[o].pc = cl[o].pc
    /\ "force" \in F \/ cl'[o].force = cl[o].force
    /\ "cand" \in F \/ cl'[o].cand = cl[o].cand
    /\ "base" \in F \/ cl'[o].base = cl[o].base
    /\ "read" \in F \/ cl'[o].read = cl[o].read
    /\ "gate" \in F \/ cl'[o].gate = cl[o].gate
    /\ "try" \in F \/ cl'[o].try = cl[o].try
    /\ "seen" \in F \/ cl'[o].seen = cl[o].seen
    /\ "resolution" \in F \/ cl'[o].resolution = cl[o].resolution
    /\ "fdoc" \in F \/ cl'[o].fdoc = cl[o].fdoc
    /\ "result" \in F \/ cl'[o].result = cl[o].result
    /\ "drift" \in F \/ cl'[o].drift = cl[o].drift
    /\ "truth" \in F \/ cl'[o].truth = cl[o].truth

Over(o, result, drift) ==
    /\ Kept(o) /\ cl'[o].read = NoDocument
    /\ cl'[o].pc = "done" /\ cl'[o].try = 0 /\ cl'[o].gate = 0 /\ cl'[o].resolution = "none"
    /\ cl'[o].cand = cl[o].cand /\ cl'[o].base = cl[o].base /\ cl'[o].truth = cl[o].truth
    /\ cl'[o].result = result /\ cl'[o].drift = drift /\ cl'[o].seen = Unknown

Rest == UNCHANGED <<daemon, doc, edits, restarts, sweeps>>

(* A command that reports is over. *)
LEMMA ReportFacts ==
  ASSUME DOMAIN cl = Ops, NEW o \in Ops, NEW result, NEW ok, NEW drift,
         Report(o, result, ok, drift)
  PROVE  Over(o, result, drift)
  BY DEF Report, Go, Fresh, Over, Kept, Fields

(* So is one that ends without a state to report. *)
LEMMA EndFacts ==
  ASSUME DOMAIN cl = Ops, NEW o \in Ops, NEW result, End(o, result)
  PROVE  Over(o, result, "unchecked")
  BY ReportFacts DEF End

(* What ReadDocument does. *)
LEMMA ReadDocumentFacts ==
  ASSUME DOMAIN cl = Ops, NEW o \in Ops, DOMAIN cl[o] = Fields, ReadDocument(o)
  PROVE  /\ At(o, "start") /\ form[o] \in {"apply", "export"} /\ Rest
         /\ \/ Over(o, "refused", "unchecked")
            \/ /\ Moves(o, {"pc", "read", "cand"}) /\ cl'[o].pc = "baseline"
               /\ cl'[o].read = doc /\ cl'[o].cand = doc.corpus
<1>1. CASE End(o, "refused")
  BY <1>1, EndFacts DEF ReadDocument, At, Rest
<1>2. CASE Go(o, [cl[o] EXCEPT !.read = doc, !.cand = doc.corpus, !.pc = "baseline"])
  BY <1>2 DEF ReadDocument, Go, At, Moves, Kept, Rest, Fields
<1>3. QED
  BY <1>1, <1>2 DEF ReadDocument

(* What CheckDocument does. *)
LEMMA CheckDocumentFacts ==
  ASSUME DOMAIN cl = Ops, NEW o \in Ops, DOMAIN cl[o] = Fields, CheckDocument(o)
  PROVE  /\ At(o, "start") /\ form[o] = "fix" /\ Rest
         /\ \/ Over(o, "refused", "unchecked") \/ Over(o, "no_change", "unchecked")
            \/ /\ Moves(o, {"pc", "read", "cand"}) /\ cl'[o].pc = "replace"
               /\ cl'[o].read = doc /\ cl'[o].cand = doc.corpus
<1>1. CASE End(o, "refused") \/ End(o, "no_change")
  BY <1>1, EndFacts DEF CheckDocument, At, Rest
<1>2. CASE Go(o, [cl[o] EXCEPT !.read = doc, !.cand = doc.corpus, !.pc = "replace"])
  BY <1>2 DEF CheckDocument, Go, At, Moves, Kept, Rest, Fields
<1>3. QED
  BY <1>1, <1>2 DEF CheckDocument

(* What CheckNoDocument does. *)
LEMMA CheckNoDocumentFacts ==
  ASSUME DOMAIN cl = Ops, NEW o \in Ops, DOMAIN cl[o] = Fields, CheckNoDocument(o)
  PROVE  /\ At(o, "start") /\ form[o] = "init" /\ Rest
         /\ \/ Over(o, "refused", "unchecked")
            \/ Moves(o, {"pc"}) /\ cl'[o].pc = "baseline"
  BY ReportFacts, EndFacts DEF CheckNoDocument, Go, At, Moves, Kept, Rest, Fields

(* What PrepareBody does. *)
LEMMA PrepareBodyFacts ==
  ASSUME DOMAIN cl = Ops, NEW o \in Ops, DOMAIN cl[o] = Fields, PrepareBody(o)
  PROVE  /\ At(o, "start") /\ form[o] = "preset" /\ Rest
         /\ Moves(o, {"pc", "cand"}) /\ cl'[o].pc = "baseline" /\ cl'[o].cand \in Bodies
  BY ReportFacts, EndFacts DEF PrepareBody, Go, At, Moves, Kept, Rest, Fields

(* What ReadRules does. *)
LEMMA ReadRulesFacts ==
  ASSUME DOMAIN cl = Ops, NEW o \in Ops, DOMAIN cl[o] = Fields, ReadRules(o)
  PROVE  /\ At(o, "start") /\ form[o] = "rules" /\ Rest
         /\ \/ Over(o, "refused", "unchecked")
            \/ /\ Moves(o, {"pc", "base", "cand"}) /\ cl'[o].pc = "confirm"
               /\ cl'[o].base = Snapshot
               /\ \/ /\ Snapshot.kind \in {"absent", "served"}
                     /\ \E r \in Rules :
                          cl'[o].cand = IF r \in live.corpus THEN live.corpus \ {r}
                                        ELSE live.corpus \cup {r}
                  \/ Snapshot.kind = "corrupt" /\ \E r \in Rules : cl'[o].cand = {r}
<1>1. At(o, "start") /\ form[o] = "rules" /\ Rest
  BY DEF ReadRules, Rest
<1>2. CASE End(o, "refused")
  BY <1>1, <1>2, EndFacts
<1>3. ASSUME NEW x, Go(o, [cl[o] EXCEPT !.base = Snapshot, !.pc = "confirm", !.cand = x])
      PROVE  /\ Moves(o, {"pc", "base", "cand"}) /\ cl'[o].pc = "confirm"
             /\ cl'[o].base = Snapshot /\ cl'[o].cand = x
  BY <1>3 DEF Go, Moves, Kept, Fields
<1>4. QED
  BY <1>1, <1>2, <1>3 DEF ReadRules

(* What ReadBaseline does. *)
LEMMA ReadBaselineFacts ==
  ASSUME DOMAIN cl = Ops, NEW o \in Ops, DOMAIN cl[o] = Fields, ReadBaseline(o),
         form[o] \in {"apply", "preset", "export", "init"}
  PROVE  /\ At(o, "baseline") /\ Rest
         /\ \/ Over(o, "refused", "unchecked")
            \/ /\ Moves(o, {"pc", "base"}) /\ cl'[o].base \in Answers /\ cl'[o].base.kind # "unknown"
               /\ \/ form[o] = "apply" /\ cl'[o].pc \in {"finalDoc", "replace", "stage"}
                  \/ form[o] = "preset" /\ cl'[o].pc = "stage"
                  \/ /\ form[o] = "export" /\ cl'[o].pc = "replace"
                     /\ cl[o].force \/ ~Unapplied(o, cl'[o].base)
                  \/ form[o] = "init" /\ cl'[o].pc = "create"
<1> PICK s \in Answers :
           CASE s.kind = "unknown" -> End(o, "refused")
             [] s.kind # "unknown" /\ form[o] = "apply" -> ApplyBaseline(o, s)
             [] s.kind # "unknown" /\ form[o] = "preset" -> BodyBaseline(o, s)
             [] s.kind # "unknown" /\ form[o] = "export" -> ExportBaseline(o, s)
             [] s.kind # "unknown" /\ form[o] = "init" -> InitBaseline(o, s)
  BY DEF ReadBaseline
<1>1. At(o, "baseline") /\ Rest
  BY DEF ReadBaseline, Rest
<1>2. ASSUME NEW p, Onward(o, s, p)
      PROVE  Moves(o, {"pc", "base"}) /\ cl'[o].base = s /\ cl'[o].pc = p
  BY <1>2 DEF Onward, Go, Moves, Kept, Fields
<1>3. CASE s.kind = "unknown"
  BY <1>1, <1>3, EndFacts
<1>4. CASE s.kind # "unknown" /\ form[o] = "apply"
  BY <1>1, <1>2, <1>4, EndFacts DEF ApplyBaseline
<1>5. CASE s.kind # "unknown" /\ form[o] = "preset"
  BY <1>1, <1>2, <1>5, EndFacts DEF BodyBaseline
<1>6. CASE s.kind # "unknown" /\ form[o] = "export"
  BY <1>1, <1>2, <1>6, EndFacts DEF ExportBaseline
<1>7. CASE s.kind # "unknown" /\ form[o] = "init"
  BY <1>1, <1>2, <1>7, EndFacts DEF InitBaseline
<1>8. QED
  BY <1>3, <1>4, <1>5, <1>6, <1>7

(* What Stage does. *)
LEMMA StageFacts ==
  ASSUME DOMAIN cl = Ops, NEW o \in Ops, DOMAIN cl[o] = Fields, Stage(o)
  PROVE  /\ At(o, "stage")
         /\ UNCHANGED <<live, disk, validated, stored, intent, handler, flips, doc, edits, restarts, sweeps>>
         /\ \/ Over(o, "refused", "unchecked") /\ UNCHANGED staged
            \/ /\ staged' = [staged EXCEPT ![o] = {live}]
               /\ Moves(o, {"pc", "gate"}) /\ cl'[o].gate = 1
               /\ form[o] = "apply" => cl'[o].pc = "recheckDoc"
               /\ form[o] = "preset" => cl'[o].pc = "confirm"
               /\ form[o] = "rules" => cl'[o].pc = "recheckRules"
  BY ReportFacts, EndFacts, ZenonT(60) DEF Stage, Go, At, Moves, Kept, Rest, Fields

(* What RecheckDocument does. *)
LEMMA RecheckDocumentFacts ==
  ASSUME DOMAIN cl = Ops, NEW o \in Ops, DOMAIN cl[o] = Fields, RecheckDocument(o)
  PROVE  /\ At(o, "recheckDoc") /\ Rest
         /\ \/ Over(o, "refused", "unchecked")
            \/ Moves(o, {"pc"}) /\ cl'[o].pc = "recheckLive"
  BY ReportFacts, EndFacts DEF RecheckDocument, Go, At, Moves, Kept, Rest, Fields

(* What RecheckLive does. *)
LEMMA RecheckLiveFacts ==
  ASSUME DOMAIN cl = Ops, NEW o \in Ops, DOMAIN cl[o] = Fields, RecheckLive(o)
  PROVE  /\ At(o, "recheckLive") /\ Rest
         /\ \/ Over(o, "refused", "unchecked")
            \/ /\ Moves(o, {"pc"}) /\ cl[o].base \in Answers
               /\ cl[o].gate = 1 => cl'[o].pc = "confirm"
               /\ cl[o].gate = 2 => cl'[o].pc = "presence"
               /\ cl[o].gate = 3 => cl'[o].pc = "send"
  BY ReportFacts, EndFacts DEF RecheckLive, Go, At, Moves, Kept, Rest, Fields, RecheckPasses

(* What RecheckRules does. *)
LEMMA RecheckRulesFacts ==
  ASSUME DOMAIN cl = Ops, NEW o \in Ops, DOMAIN cl[o] = Fields, RecheckRules(o)
  PROVE  /\ At(o, "recheckRules") /\ Rest
         /\ \/ Over(o, "refused", "unchecked")
            \/ /\ Moves(o, {"pc"}) /\ cl'[o].pc = "presence"
               /\ \E s \in Answers : RulesUnchanged(o, s)
  BY ReportFacts, EndFacts DEF RecheckRules, Go, At, Moves, Kept, Rest, Fields

(* What Confirm does. *)
LEMMA ConfirmFacts ==
  ASSUME DOMAIN cl = Ops, NEW o \in Ops, DOMAIN cl[o] = Fields, Confirm(o)
  PROVE  /\ At(o, "confirm") /\ Rest
         /\ \/ Over(o, "refused", "unchecked")
            \/ /\ Moves(o, {"pc", "gate"}) /\ cl'[o].gate = 2
               /\ form[o] = "apply" => cl'[o].pc = "recheckDoc"
               /\ form[o] = "preset" => cl'[o].pc = "presence"
               /\ form[o] = "rules" => cl'[o].pc = "stage"
  BY ReportFacts, EndFacts, ZenonT(60) DEF Confirm, Go, At, Moves, Kept, Rest, Fields

(* What ConfirmPresence does. *)
LEMMA ConfirmPresenceFacts ==
  ASSUME DOMAIN cl = Ops, NEW o \in Ops, DOMAIN cl[o] = Fields, ConfirmPresence(o)
  PROVE  /\ At(o, "presence") /\ Rest
         /\ \/ Over(o, "refused", "unchecked")
            \/ /\ Moves(o, {"pc", "gate"}) /\ cl'[o].gate = 3
               /\ cl'[o].pc = IF form[o] = "apply" THEN "recheckDoc" ELSE "send"
  BY ReportFacts, EndFacts, ZenonT(60) DEF ConfirmPresence, Go, At, Moves, Kept, Rest, Fields

(* What Send does. *)
LEMMA SendFacts ==
  ASSUME DOMAIN cl = Ops, NEW o \in Ops, DOMAIN cl[o] = Fields, Send(o)
  PROVE  /\ At(o, "send") /\ UNCHANGED <<live, disk, validated, stored, staged, intent, flips, doc, edits, restarts, sweeps>>
         /\ Moves(o, {"pc", "try"}) /\ cl'[o].pc = "await" /\ cl'[o].try = cl[o].try + 1
         /\ handler' = [handler EXCEPT ![o][cl[o].try + 1] = "sent"]
  BY ReportFacts, EndFacts DEF Send, Go, At, Moves, Kept, Rest, Fields

(* What Receive does. *)
LEMMA ReceiveFacts ==
  ASSUME DOMAIN cl = Ops, NEW o \in Ops, DOMAIN cl[o] = Fields, Receive(o)
  PROVE  /\ At(o, "await") /\ UNCHANGED <<live, disk, validated, stored, staged, intent, flips, doc, edits, restarts, sweeps>>
         /\ handler' = [handler EXCEPT ![o][cl[o].try] = "lost"]
         /\ \/ /\ Over(o, "stale_stage_conflict", "unchecked")
               /\ cl[o].try = 1 /\ handler[o][cl[o].try] = "denied"
            \/ /\ Moves(o, {"pc", "resolution"})
               /\ handler[o][cl[o].try] \in {"committed", "already"}
               /\ cl'[o].resolution \in {"committed", "already_committed"}
               /\ cl'[o].pc = IF form[o] = "preset" THEN "names" ELSE "observe"
            \/ Moves(o, {"pc"}) /\ cl'[o].pc = "poll"
<1> DEFINE re == handler[o][cl[o].try]
<1>1. re \in Replies /\ At(o, "await")
  BY DEF Receive
<1>2. CASE DefiniteRefusal(o, re)
  BY <1>2, EndFacts DEF Receive, DefiniteRefusal
<1>3. CASE ~DefiniteRefusal(o, re) /\ re \in {"committed", "already"}
  <2>1. Go(o, [cl[o] EXCEPT !.resolution = Acknowledged[re], !.pc = AfterCommit(o)])
    BY <1>3 DEF Receive, Acknowledged
  <2>2. Acknowledged[re] \in {"committed", "already_committed"}
    BY <1>3 DEF Acknowledged
  <2>3. QED
    BY <1>3, <2>1, <2>2 DEF Receive, Go, Moves, Kept, Fields, AfterCommit
<1>4. CASE ~DefiniteRefusal(o, re) /\ re \notin {"committed", "already"}
  <2>1. Go(o, [cl[o] EXCEPT !.pc = "poll"])
    BY <1>4 DEF Receive, Acknowledged
  <2>2. QED
    BY <2>1 DEF Receive, Go, Moves, Kept, Fields
<1>5. QED
  BY <1>2, <1>3, <1>4

(* What Timeout does. *)
LEMMA TimeoutFacts ==
  ASSUME DOMAIN cl = Ops, NEW o \in Ops, DOMAIN cl[o] = Fields, Timeout(o)
  PROVE  /\ At(o, "await") /\ UNCHANGED <<live, disk, validated, stored, staged, intent, flips, doc, edits, restarts, sweeps>>
         /\ Moves(o, {"pc"}) /\ cl'[o].pc = "poll"
         /\ handler' = [handler EXCEPT ![o][cl[o].try] = IF @ \in Replies THEN "lost" ELSE @]
  BY ReportFacts, EndFacts DEF Timeout, Go, At, Moves, Kept, Rest, Fields

(* What Poll does. *)
LEMMA PollFacts ==
  ASSUME DOMAIN cl = Ops, NEW o \in Ops, DOMAIN cl[o] = Fields, Poll(o)
  PROVE  /\ At(o, "poll") /\ Rest
         /\ \/ /\ Moves(o, {"pc", "resolution", "was"})
               /\ cl'[o].resolution = "committed_after_reconciliation"
               /\ \E s \in Answers : s.occ = o
               /\ form[o] = "apply" => cl'[o].pc = "replace"
               /\ form[o] = "preset" => cl'[o].pc = "names"
               /\ form[o] = "rules" => cl'[o].pc = "finalDoc"
            \/ Moves(o, {"pc"}) /\ cl'[o].pc = "send" /\ cl[o].try # world.rounds + 1
            \/ Moves(o, {"pc", "was"}) /\ form[o] = "rules" /\ cl'[o].pc = "finalDoc"
            \/ Over(o, "commit_outcome_unknown", "unchecked")
<1>1. At(o, "poll") /\ Rest
  BY DEF Poll, Rest
<1>2. PICK s \in Answers :
         IF IsExactOccurrence(o, s)
         THEN Go(o, [cl[o] EXCEPT !.resolution = "committed_after_reconciliation",
                         !.was = s,
                         !.pc = CASE form[o] = "apply" -> "replace"
                                  [] form[o] = "preset" -> "names"
                                  [] form[o] = "rules" -> "finalDoc"])
         ELSE IF ~PollGivesUp(o) THEN Go(o, [cl[o] EXCEPT !.pc = "send"])
         ELSE IF form[o] = "rules" THEN Go(o, [cl[o] EXCEPT !.was = s, !.pc = "finalDoc"])
         ELSE End(o, "commit_outcome_unknown")
  BY DEF Poll
<1>3. CASE IsExactOccurrence(o, s)
  <2>1. Go(o, [cl[o] EXCEPT !.resolution = "committed_after_reconciliation", !.was = s,
                  !.pc = CASE form[o] = "apply" -> "replace"
                           [] form[o] = "preset" -> "names"
                           [] form[o] = "rules" -> "finalDoc"])
    BY <1>2, <1>3
  <2>2. s.occ = o
    BY <1>3 DEF IsExactOccurrence
  <2>3. PICK p : p = CASE form[o] = "apply" -> "replace"
                       [] form[o] = "preset" -> "names"
                       [] form[o] = "rules" -> "finalDoc"
    OBVIOUS
  <2>4. /\ Moves(o, {"pc", "resolution", "was"}) /\ cl'[o].pc = p
        /\ cl'[o].resolution = "committed_after_reconciliation"
    BY <2>1, <2>3 DEF Go, Moves, Kept, Fields
  <2>5. QED
    BY <1>1, <2>2, <2>3, <2>4
<1>4. CASE ~IsExactOccurrence(o, s) /\ ~PollGivesUp(o)
  BY <1>1, <1>2, <1>4 DEF PollGivesUp, Go, Moves, Kept, Fields
<1>5. CASE ~IsExactOccurrence(o, s) /\ PollGivesUp(o)
  BY <1>1, <1>2, <1>5, EndFacts, ZenonT(60) DEF Go, Moves, Kept, Fields
<1>6. QED
  BY <1>3, <1>4, <1>5

(* What Observe does. *)
LEMMA ObserveFacts ==
  ASSUME DOMAIN cl = Ops, NEW o \in Ops, DOMAIN cl[o] = Fields, Observe(o)
  PROVE  /\ At(o, "observe") /\ Rest
         /\ \/ Moves(o, {"pc", "was"}) /\ form[o] = "rules" /\ cl'[o].pc = "finalDoc"
            \/ Moves(o, {"pc"}) /\ form[o] # "rules" /\ cl'[o].pc = "replace"
            \/ Moves(o, {"looks"})
            \/ Over(o, "committed_but_unreconciled", "unchecked")
            \/ Over(o, "committed_but_superseded", "unchecked")
<1>1. At(o, "observe") /\ Rest
  BY DEF Observe, Rest
<1>2. PICK s \in Answers :
         IF form[o] = "rules" THEN Go(o, [cl[o] EXCEPT !.was = s, !.pc = "finalDoc"])
         ELSE IF IsExactOccurrence(o, s) THEN Go(o, [cl[o] EXCEPT !.pc = "replace"])
         ELSE IF cl[o].looks < world.rounds THEN Go(o, [cl[o] EXCEPT !.looks = @ + 1])
         ELSE IF s = Unknown THEN End(o, "committed_but_unreconciled")
         ELSE End(o, "committed_but_superseded")
  BY DEF Observe
<1>3. CASE form[o] = "rules"
  <2>1. Go(o, [cl[o] EXCEPT !.was = s, !.pc = "finalDoc"])
    BY <1>2, <1>3
  <2>2. Moves(o, {"pc", "was"}) /\ cl'[o].pc = "finalDoc"
    BY <2>1 DEF Go, Moves, Kept, Fields
  <2>3. QED
    BY <1>1, <1>3, <2>2
<1>4. CASE form[o] # "rules" /\ IsExactOccurrence(o, s)
  BY <1>1, <1>2, <1>4 DEF Go, Moves, Kept, Fields
<1>5. CASE form[o] # "rules" /\ ~IsExactOccurrence(o, s)
  BY <1>1, <1>2, <1>5, EndFacts DEF Go, Moves, Kept, Fields
<1>6. QED
  BY <1>3, <1>4, <1>5

(* What ReadNames does. *)
LEMMA ReadNamesFacts ==
  ASSUME DOMAIN cl = Ops, NEW o \in Ops, DOMAIN cl[o] = Fields, ReadNames(o)
  PROVE  /\ At(o, "names") /\ Rest
         /\ \/ Over(o, cl[o].resolution, "none")
            \/ Over(o, "committed_but_preset_not_stored", "unchecked")
  BY ReportFacts, EndFacts DEF ReadNames, Go, At, Moves, Kept, Rest, Fields

(* What Replace does. *)
LEMMA ReplaceFacts ==
  ASSUME DOMAIN cl = Ops, NEW o \in Ops, DOMAIN cl[o] = Fields, Replace(o)
  PROVE  /\ At(o, "replace") /\ UNCHANGED <<daemon, edits, restarts, sweeps>>
         /\ \/ /\ doc = cl[o].read /\ doc' = Rewritten(o)
               /\ \/ form[o] = "fix" /\ (Over(o, "written", "none") \/ Over(o, "unclean", "none"))
                  \/ form[o] # "fix" /\ Moves(o, {"pc", "write", "read"}) /\ cl'[o].pc = "finalDoc" /\ cl'[o].read = doc'
            \/ UNCHANGED doc /\ cl[o].resolution = "none" /\ Over(o, "refused", "unchecked")
            \/ UNCHANGED doc /\ cl[o].resolution # "none" /\ Moves(o, {"pc", "write"}) /\ cl'[o].pc = "finalDoc"
<1>1. At(o, "replace") /\ UNCHANGED <<daemon, edits, restarts, sweeps>>
  BY DEF Replace
<1>2. ASSUME NEW w, Go(o, [cl[o] EXCEPT !.write = w, !.read = doc', !.pc = "finalDoc"])
      PROVE  Moves(o, {"pc", "write", "read"}) /\ cl'[o].pc = "finalDoc" /\ cl'[o].read = doc'
  BY <1>2 DEF Go, Moves, Kept, Fields
<1>3. ASSUME Go(o, [cl[o] EXCEPT !.write = "preserved", !.pc = "finalDoc"])
      PROVE  Moves(o, {"pc", "write"}) /\ cl'[o].pc = "finalDoc"
  BY <1>3 DEF Go, Moves, Kept, Fields
<1>4. CASE UNCHANGED doc /\ IF cl[o].resolution = "none" THEN End(o, "refused")
             ELSE Go(o, [cl[o] EXCEPT !.write = "preserved", !.pc = "finalDoc"])
  BY <1>1, <1>3, <1>4, EndFacts
<1>5. CASE /\ PreimageHolds(o)
          /\ doc' = Rewritten(o)
          /\ \E w \in {"clean", "interfered"} :
               IF form[o] = "fix"
               THEN Report(o, IF w = "clean" THEN "written" ELSE "unclean", w = "clean", "none")
               ELSE Go(o, [cl[o] EXCEPT !.write = w, !.read = doc', !.pc = "finalDoc"])
  <2>1. PICK w \in {"clean", "interfered"} :
               IF form[o] = "fix"
               THEN Report(o, IF w = "clean" THEN "written" ELSE "unclean", w = "clean", "none")
               ELSE Go(o, [cl[o] EXCEPT !.write = w, !.read = doc', !.pc = "finalDoc"])
    BY <1>5
  <2>2. CASE form[o] = "fix"
    BY <1>1, <1>5, <2>1, <2>2, ReportFacts DEF PreimageHolds
  <2>3. CASE form[o] # "fix"
    BY <1>1, <1>2, <1>5, <2>1, <2>3 DEF PreimageHolds
  <2>4. QED
    BY <2>2, <2>3
<1>6. QED
  BY <1>4, <1>5 DEF Replace

(* What Create does. *)
LEMMA CreateFacts ==
  ASSUME DOMAIN cl = Ops, NEW o \in Ops, DOMAIN cl[o] = Fields, Create(o)
  PROVE  /\ At(o, "create") /\ UNCHANGED <<daemon, edits, restarts, sweeps>>
         /\ \/ /\ ~doc.present
               /\ doc' = [present |-> TRUE, canonical |-> TRUE, stamp |-> doc.stamp + 1,
                          corpus |-> cl[o].base.corpus,
                          marker |-> IF cl[o].base.kind = "served" THEN cl[o].base.corpus ELSE NoBody]
               /\ Moves(o, {"pc", "write", "read"}) /\ cl'[o].pc = "finalDoc" /\ cl'[o].read = doc'
            \/ UNCHANGED doc /\ Over(o, "refused", "unchecked")
<1>1. At(o, "create") /\ UNCHANGED <<daemon, edits, restarts, sweeps>>
  BY DEF Create
<1>2. CASE UNCHANGED doc /\ End(o, "refused")
  BY <1>1, <1>2, EndFacts
<1>3. ASSUME NEW w, Go(o, [cl[o] EXCEPT !.write = w, !.read = doc', !.pc = "finalDoc"])
      PROVE  Moves(o, {"pc", "write", "read"}) /\ cl'[o].pc = "finalDoc" /\ cl'[o].read = doc'
  BY <1>3 DEF Go, Moves, Kept, Fields
<1>4. QED
  BY <1>1, <1>2, <1>3 DEF Create

(* What FinalDocument does. *)
LEMMA FinalDocumentFacts ==
  ASSUME DOMAIN cl = Ops, NEW o \in Ops, DOMAIN cl[o] = Fields, FinalDocument(o)
  PROVE  /\ At(o, "finalDoc") /\ Rest
         /\ Moves(o, {"pc", "fdoc"}) /\ cl'[o].fdoc = doc /\ cl'[o].pc = "finalLive"
  BY ReportFacts, EndFacts DEF FinalDocument, Go, At, Moves, Kept, Rest, Fields

(* What FinalStatus does. *)
LEMMA FinalStatusFacts ==
  ASSUME DOMAIN cl = Ops, NEW o \in Ops, DOMAIN cl[o] = Fields, FinalStatus(o)
  PROVE  /\ At(o, "finalLive") /\ Rest
         /\ Moves(o, {"pc", "seen", "truth"}) /\ cl'[o].pc = "finalState"
         /\ cl'[o].seen \in Answers /\ cl'[o].truth = ClassifyDrift(doc, cl'[o].seen)
<1>1. At(o, "finalLive") /\ Rest
  BY DEF FinalStatus, Rest
<1>2. PICK s \in Answers :
         Go(o, [cl[o] EXCEPT !.seen = s, !.truth = ClassifyDrift(doc, s), !.pc = "finalState"])
  BY DEF FinalStatus
<1>3. /\ Moves(o, {"pc", "seen", "truth"}) /\ cl'[o].pc = "finalState"
      /\ cl'[o].seen = s /\ cl'[o].truth = ClassifyDrift(doc, s)
  BY <1>2 DEF Go, Moves, Kept, Fields
<1>4. QED
  BY <1>1, <1>3

(* What FinalReport does. *)
LEMMA FinalReportFacts ==
  ASSUME DOMAIN cl = Ops, NEW o \in Ops, DOMAIN cl[o] = Fields, FinalReport(o),
         cl[o].resolution \in {"none", "committed", "already_committed", "committed_after_reconciliation"}
  PROVE  /\ At(o, "finalState") /\ Rest
         /\ form[o] \in {"apply", "rules", "export", "init"} =>
              \E result \in Results :
                /\ Over(o, result, IF form[o] = "rules" THEN RulesDrift(o) ELSE FinalDrift(o))
                /\ result \in CommittedResults =>
                     cl[o].resolution # "none" \/ (form[o] = "rules" /\ cl[o].seen.occ = o)
                /\ result \notin CommittedResults \cup {"commit_outcome_unknown"} =>
                     form[o] # "rules" /\ (form[o] = "apply" => cl[o].resolution = "none")
<1> SUFFICES ASSUME form[o] \in {"apply", "rules", "export", "init"}
             PROVE  \E result \in Results :
                      /\ Over(o, result, IF form[o] = "rules" THEN RulesDrift(o) ELSE FinalDrift(o))
                      /\ result \in CommittedResults =>
                           cl[o].resolution # "none" \/ (form[o] = "rules" /\ cl[o].seen.occ = o)
                      /\ result \notin CommittedResults \cup {"commit_outcome_unknown"} =>
                           form[o] # "rules" /\ (form[o] = "apply" => cl[o].resolution = "none")
  BY DEF FinalReport, Rest
<1> PICK d : d = IF form[o] = "rules" THEN RulesDrift(o) ELSE FinalDrift(o)
  OBVIOUS
<1>1. Conclude(o, d)
  BY DEF FinalReport
<1>2. \A result, ok : Report(o, result, ok, d) => Over(o, result, d)
  BY ReportFacts
<1>3. CASE form[o] = "rules"
  BY <1>1, <1>2, <1>3 DEF Conclude, IsExactOccurrence, Results, CommittedResults
<1>4. CASE form[o] = "apply" /\ cl[o].resolution # "none"
  BY <1>1, <1>2, <1>4 DEF Conclude, Results, CommittedResults
<1>5. CASE form[o] = "apply" /\ cl[o].resolution = "none"
  BY <1>1, <1>2, <1>5 DEF Conclude, Results, CommittedResults
<1>6. CASE form[o] \in {"export", "init"}
  BY <1>1, <1>2, <1>6 DEF Conclude, Results, CommittedResults
<1>7. QED
  BY <1>3, <1>4, <1>5, <1>6

(* Every step keeps the fields of the record and the document. *)
LEMMA CeremonyShapeStep ==
  ASSUME CeremonyShape, ClientShape, PlaceInv, [Next]_vars
  PROVE  CeremonyShape'
<1>1. ASSUME NEW o \in Ops, ReadDocument(o), UNCHANGED world
      PROVE  CeremonyShape'
  BY <1>1, ReadDocumentFacts, CeremonyAssumption DEF CeremonyShape, ClientShape, ClientOK,
     At, Rest, daemon
<1>2. ASSUME NEW o \in Ops, CheckDocument(o), UNCHANGED world
      PROVE  CeremonyShape'
  BY <1>2, CheckDocumentFacts, CeremonyAssumption DEF CeremonyShape, ClientShape, ClientOK,
     At, Rest, daemon
<1>3. ASSUME NEW o \in Ops, CheckNoDocument(o), UNCHANGED world
      PROVE  CeremonyShape'
  BY <1>3, CheckNoDocumentFacts, CeremonyAssumption DEF CeremonyShape, ClientShape,
     ClientOK, At, Rest, daemon
<1>4. ASSUME NEW o \in Ops, PrepareBody(o), UNCHANGED world
      PROVE  CeremonyShape'
  BY <1>4, PrepareBodyFacts, CeremonyAssumption DEF CeremonyShape, ClientShape, ClientOK,
     At, Rest, daemon
<1>5. ASSUME NEW o \in Ops, ReadRules(o), UNCHANGED world
      PROVE  CeremonyShape'
  BY <1>5, ReadRulesFacts, CeremonyAssumption DEF CeremonyShape, ClientShape, ClientOK, At,
     Rest, daemon
<1>6. ASSUME NEW o \in Ops, ReadBaseline(o), UNCHANGED world
      PROVE  CeremonyShape'
  BY <1>6 DEF ReadBaseline, CeremonyShape, daemon
<1>7. ASSUME NEW o \in Ops, Stage(o), UNCHANGED world
      PROVE  CeremonyShape'
  BY <1>7, StageFacts, CeremonyAssumption DEF CeremonyShape, ClientShape, ClientOK, At,
     Rest, daemon
<1>8. ASSUME NEW o \in Ops, RecheckDocument(o), UNCHANGED world
      PROVE  CeremonyShape'
  BY <1>8, RecheckDocumentFacts, CeremonyAssumption DEF CeremonyShape, ClientShape,
     ClientOK, At, Rest, daemon
<1>9. ASSUME NEW o \in Ops, RecheckLive(o), UNCHANGED world
      PROVE  CeremonyShape'
  BY <1>9, RecheckLiveFacts, CeremonyAssumption DEF CeremonyShape, ClientShape, ClientOK,
     At, Rest, daemon
<1>10. ASSUME NEW o \in Ops, RecheckRules(o), UNCHANGED world
      PROVE  CeremonyShape'
  BY <1>10, RecheckRulesFacts, CeremonyAssumption DEF CeremonyShape, ClientShape, ClientOK,
     At, Rest, daemon
<1>11. ASSUME NEW o \in Ops, Confirm(o), UNCHANGED world
      PROVE  CeremonyShape'
  BY <1>11, ConfirmFacts, CeremonyAssumption DEF CeremonyShape, ClientShape, ClientOK, At,
     Rest, daemon
<1>12. ASSUME NEW o \in Ops, ConfirmPresence(o), UNCHANGED world
      PROVE  CeremonyShape'
  BY <1>12, ConfirmPresenceFacts, CeremonyAssumption DEF CeremonyShape, ClientShape,
     ClientOK, At, Rest, daemon
<1>13. ASSUME NEW o \in Ops, Send(o), UNCHANGED world
      PROVE  CeremonyShape'
  BY <1>13 DEF Send, CeremonyShape, Places
<1>14. ASSUME NEW o \in Ops, Receive(o), UNCHANGED world
      PROVE  CeremonyShape'
  BY <1>14 DEF Receive, CeremonyShape, Places
<1>15. ASSUME NEW o \in Ops, Timeout(o), UNCHANGED world
      PROVE  CeremonyShape'
  BY <1>15 DEF Timeout, CeremonyShape, Places
<1>16. ASSUME NEW o \in Ops, Poll(o), UNCHANGED world
      PROVE  CeremonyShape'
  BY <1>16, PollFacts, CeremonyAssumption DEF CeremonyShape, ClientShape, ClientOK, At,
     Rest, daemon
<1>17. ASSUME NEW o \in Ops, Observe(o), UNCHANGED world
      PROVE  CeremonyShape'
  BY <1>17, ObserveFacts, CeremonyAssumption DEF CeremonyShape, ClientShape, ClientOK, At,
     Rest, daemon
<1>18. ASSUME NEW o \in Ops, ReadNames(o), UNCHANGED world
      PROVE  CeremonyShape'
  BY <1>18, ReadNamesFacts, CeremonyAssumption DEF CeremonyShape, ClientShape, ClientOK, At,
     Rest, daemon
<1>19. ASSUME NEW o \in Ops, Replace(o), UNCHANGED world
      PROVE  CeremonyShape'
  BY <1>19, ReplaceFacts, CeremonyAssumption DEF CeremonyShape, ClientShape, ClientOK, At,
     Rest, daemon, PlaceInv, PlaceOK, Rewritten
<1>20. ASSUME NEW o \in Ops, Create(o), UNCHANGED world
      PROVE  CeremonyShape'
  BY <1>20, CreateFacts, CeremonyAssumption DEF CeremonyShape, ClientShape, ClientOK, At,
     Rest, daemon
<1>21. ASSUME NEW o \in Ops, FinalDocument(o), UNCHANGED world
      PROVE  CeremonyShape'
  BY <1>21, FinalDocumentFacts, CeremonyAssumption DEF CeremonyShape, ClientShape, ClientOK,
     At, Rest, daemon
<1>22. ASSUME NEW o \in Ops, FinalStatus(o), UNCHANGED world
      PROVE  CeremonyShape'
  BY <1>22, FinalStatusFacts, CeremonyAssumption DEF CeremonyShape, ClientShape, ClientOK,
     At, Rest, daemon
<1>23. ASSUME NEW o \in Ops, FinalReport(o), UNCHANGED world
      PROVE  CeremonyShape'
  BY <1>23 DEF FinalReport, CeremonyShape, daemon
<1>24. ASSUME NEW o \in Ops, NEW k \in Attempts, CommitFault(o, k), UNCHANGED world
      PROVE  CeremonyShape'
  BY <1>24 DEF CommitFault, Reply, CeremonyShape, Places
<1>25. ASSUME NEW o \in Ops, NEW k \in Attempts, CommitRefused(o, k), UNCHANGED world
      PROVE  CeremonyShape'
  BY <1>25 DEF CommitRefused, Reply, CeremonyShape, Places
<1>26. ASSUME NEW o \in Ops, NEW k \in Attempts, CommitAgain(o, k), UNCHANGED world
      PROVE  CeremonyShape'
  BY <1>26 DEF CommitAgain, Reply, CeremonyShape, Places, Then
<1>27. ASSUME NEW o \in Ops, NEW k \in Attempts, FlipFails(o, k), UNCHANGED world
      PROVE  CeremonyShape'
  BY <1>27 DEF FlipFails, Reply, CeremonyShape, Places
<1>28. ASSUME NEW o \in Ops, NEW k \in Attempts, Flip(o, k), UNCHANGED world
      PROVE  CeremonyShape'
  BY <1>28 DEF Flip, Reply, CeremonyShape, Places, Then, Flipped, Record, ClientShape,
     ClientOK
<1>29. ASSUME NEW o \in Ops, NEW k \in Attempts, FlipUnsynced(o, k), UNCHANGED world
      PROVE  CeremonyShape'
  BY <1>29 DEF FlipUnsynced, Reply, CeremonyShape, Places, Then, Flipped, Record,
     ClientShape, ClientOK
<1>30. ASSUME NEW o \in Ops, NEW k \in Attempts, StoreProfile(o, k), UNCHANGED world
      PROVE  CeremonyShape'
  BY <1>30 DEF StoreProfile, Reply, CeremonyShape, Places
<1>31. ASSUME NEW o \in Ops, SweepStaged(o), UNCHANGED world
      PROVE  CeremonyShape'
  BY <1>31 DEF SweepStaged, CeremonyShape
<1>32. ASSUME Restart, UNCHANGED world
      PROVE  CeremonyShape'
  BY <1>32 DEF Restart, CeremonyShape, Places
<1>33. ASSUME Edit, UNCHANGED world
      PROVE  CeremonyShape'
  BY <1>33, CeremonyAssumption DEF Edit, CeremonyShape, daemon
<1>34. CASE UNCHANGED vars
  BY <1>34 DEF vars, CeremonyShape
<1>35. QED
  BY <1>1, <1>2, <1>3, <1>4, <1>5, <1>6, <1>7, <1>8, <1>9, <1>10, <1>11, <1>12, <1>13,
     <1>14, <1>15, <1>16, <1>17, <1>18, <1>19, <1>20, <1>21, <1>22, <1>23, <1>24, <1>25,
     <1>26, <1>27, <1>28, <1>29, <1>30, <1>31, <1>32, <1>33, <1>34 DEF Next, Propose,
     Resolve, Handle

(* A command that is over keeps its shape. *)
LEMMA OverClient ==
  ASSUME ClientShape, NEW o \in Ops, NEW result, NEW drift, Over(o, result, drift)
  PROVE  ClientShape'
  BY DEF Over, Kept, ClientShape, ClientOK, NoDocument, Corpora

(* A command that moves keeps its shape if the fields it sets have theirs. *)
LEMMA MovesClient ==
  ASSUME ClientShape, NEW o \in Ops, Kept(o), ClientOK(o)'
  PROVE  ClientShape'
  BY DEF Kept, ClientShape, ClientOK

(* Every step keeps the fields of the commands. *)
LEMMA ClientShapeStep ==
  ASSUME CeremonyShape, ClientShape, PlaceInv, [Next]_vars, CeremonyShape'
  PROVE  ClientShape'
<1>1. ASSUME NEW o \in Ops, ReadDocument(o), UNCHANGED world
      PROVE  ClientShape'
  <2>1. CASE \E r, d : Over(o, r, d)
    BY <1>1, <2>1, OverClient
  <2>2. CASE ~\E r, d : Over(o, r, d)
    <3>1. ClientOK(o)'
      BY <1>1, <2>2, ReadDocumentFacts, AnswerFacts, CeremonyAssumption, SMTT(60) DEF Moves, Kept,
         ClientShape, ClientOK, At, CeremonyShape, Corpora, Record, PlaceInv, PlaceOK
    <3>2. Kept(o)
      BY <1>1, <2>2, ReadDocumentFacts DEF Moves, ClientShape, ClientOK, PlaceInv, PlaceOK,
         At
    <3>3. QED
      BY <1>1, <3>1, <3>2, MovesClient
  <2>3. QED
    BY <2>1, <2>2
<1>2. ASSUME NEW o \in Ops, CheckDocument(o), UNCHANGED world
      PROVE  ClientShape'
  <2>1. CASE \E r, d : Over(o, r, d)
    BY <1>2, <2>1, OverClient
  <2>2. CASE ~\E r, d : Over(o, r, d)
    <3>1. ClientOK(o)'
      BY <1>2, <2>2, CheckDocumentFacts, AnswerFacts, CeremonyAssumption, SMTT(60) DEF Moves, Kept,
         ClientShape, ClientOK, At, CeremonyShape, Corpora, Record, PlaceInv, PlaceOK
    <3>2. Kept(o)
      BY <1>2, <2>2, CheckDocumentFacts DEF Moves, ClientShape, ClientOK, PlaceInv, PlaceOK,
         At
    <3>3. QED
      BY <1>2, <3>1, <3>2, MovesClient
  <2>3. QED
    BY <2>1, <2>2
<1>3. ASSUME NEW o \in Ops, CheckNoDocument(o), UNCHANGED world
      PROVE  ClientShape'
  <2>1. CASE \E r, d : Over(o, r, d)
    BY <1>3, <2>1, OverClient
  <2>2. CASE ~\E r, d : Over(o, r, d)
    <3>1. ClientOK(o)'
      BY <1>3, <2>2, CheckNoDocumentFacts DEF Moves, Kept, ClientShape, ClientOK, At
    <3>2. Kept(o)
      BY <1>3, <2>2, CheckNoDocumentFacts DEF Moves, ClientShape, ClientOK, PlaceInv,
         PlaceOK, At
    <3>3. QED
      BY <1>3, <3>1, <3>2, MovesClient
  <2>3. QED
    BY <2>1, <2>2
<1>4. ASSUME NEW o \in Ops, PrepareBody(o), UNCHANGED world
      PROVE  ClientShape'
  <2>1. CASE \E r, d : Over(o, r, d)
    BY <1>4, <2>1, OverClient
  <2>2. CASE ~\E r, d : Over(o, r, d)
    <3>1. ClientOK(o)'
      BY <1>4, <2>2, PrepareBodyFacts, AnswerFacts, CeremonyAssumption DEF Moves, Kept,
         ClientShape, ClientOK, At, CeremonyShape, Corpora, Record, PlaceInv, PlaceOK
    <3>2. Kept(o)
      BY <1>4, <2>2, PrepareBodyFacts DEF Moves, ClientShape, ClientOK, PlaceInv, PlaceOK,
         At
    <3>3. QED
      BY <1>4, <3>1, <3>2, MovesClient
  <2>3. QED
    BY <2>1, <2>2
<1>5. ASSUME NEW o \in Ops, ReadRules(o), UNCHANGED world
      PROVE  ClientShape'
  <2>1. CASE \E r, d : Over(o, r, d)
    BY <1>5, <2>1, OverClient
  <2>2. CASE ~\E r, d : Over(o, r, d)
    <3>1. /\ Moves(o, {"pc", "base", "cand"}) /\ cl'[o].base = Snapshot
          /\ \/ \E r \in Rules : cl'[o].cand = IF r \in live.corpus THEN live.corpus \ {r}
                                          ELSE live.corpus \cup {r}
             \/ \E r \in Rules : cl'[o].cand = {r}
      BY <1>5, <2>2, ReadRulesFacts DEF ClientShape, ClientOK
    <3>2. live.corpus \in Corpora
      BY DEF CeremonyShape, Record
    <3>3. cl'[o].cand \in Corpora
      BY <3>1, <3>2 DEF Corpora
    <3>8. ClientOK(o)'
      BY <3>1, <3>2, <3>3, AnswerFacts DEF Moves, Kept, ClientShape, ClientOK, CeremonyShape
    <3>9. Kept(o)
      BY <3>1 DEF Moves
    <3>10. QED
      BY <1>5, <3>8, <3>9, MovesClient
  <2>3. QED
    BY <2>1, <2>2
<1>6. ASSUME NEW o \in Ops, ReadBaseline(o), UNCHANGED world
      PROVE  ClientShape'
  <2>1. CASE \E r, d : Over(o, r, d)
    BY <1>6, <2>1, OverClient
  <2>2. CASE ~\E r, d : Over(o, r, d)
    <3>1. form[o] \in {"apply", "preset", "export", "init"} /\ DOMAIN cl = Ops /\ DOMAIN cl[o] = Fields
      BY <1>6 DEF ReadBaseline, At, PlaceInv, PlaceOK, ClientShape, ClientOK
    <3>2. /\ Moves(o, {"pc", "base"}) /\ cl'[o].base \in Answers /\ cl'[o].base.kind # "unknown"
          /\ At(o, "baseline")
          /\ \/ form[o] = "apply" /\ cl'[o].pc \in {"finalDoc", "replace", "stage"}
             \/ form[o] = "preset" /\ cl'[o].pc = "stage"
             \/ form[o] = "export" /\ cl'[o].pc = "replace"
             \/ form[o] = "init" /\ cl'[o].pc = "create"
      BY <1>6, <2>2, <3>1, ReadBaselineFacts
    <3>3. live.corpus \in Corpora /\ Unknown.corpus \in Corpora
      BY DEF CeremonyShape, Record, Unknown, Corpora
    <3>8. ClientOK(o)'
      BY <3>2, <3>3, AnswerFacts DEF Moves, Kept, ClientShape, ClientOK, CeremonyShape
    <3>9. Kept(o)
      BY <3>2 DEF Moves
    <3>10. QED
      BY <1>6, <3>8, <3>9, MovesClient
  <2>3. QED
    BY <2>1, <2>2
<1>7. ASSUME NEW o \in Ops, Stage(o), UNCHANGED world
      PROVE  ClientShape'
  <2>1. CASE \E r, d : Over(o, r, d)
    BY <1>7, <2>1, OverClient
  <2>2. CASE ~\E r, d : Over(o, r, d)
    <3>1. ClientOK(o)'
      BY <1>7, <2>2, StageFacts DEF Moves, Kept, ClientShape, ClientOK, At
    <3>2. Kept(o)
      BY <1>7, <2>2, StageFacts DEF Moves, ClientShape, ClientOK, PlaceInv, PlaceOK, At
    <3>3. QED
      BY <1>7, <3>1, <3>2, MovesClient
  <2>3. QED
    BY <2>1, <2>2
<1>8. ASSUME NEW o \in Ops, RecheckDocument(o), UNCHANGED world
      PROVE  ClientShape'
  <2>1. CASE \E r, d : Over(o, r, d)
    BY <1>8, <2>1, OverClient
  <2>2. CASE ~\E r, d : Over(o, r, d)
    <3>1. ClientOK(o)'
      BY <1>8, <2>2, RecheckDocumentFacts DEF Moves, Kept, ClientShape, ClientOK, At
    <3>2. Kept(o)
      BY <1>8, <2>2, RecheckDocumentFacts DEF Moves, ClientShape, ClientOK, PlaceInv,
         PlaceOK, At
    <3>3. QED
      BY <1>8, <3>1, <3>2, MovesClient
  <2>3. QED
    BY <2>1, <2>2
<1>9. ASSUME NEW o \in Ops, RecheckLive(o), UNCHANGED world
      PROVE  ClientShape'
  <2>1. CASE \E r, d : Over(o, r, d)
    BY <1>9, <2>1, OverClient
  <2>2. CASE ~\E r, d : Over(o, r, d)
    <3>1. ClientOK(o)'
      BY <1>9, <2>2, RecheckLiveFacts DEF Moves, Kept, ClientShape, ClientOK, At
    <3>2. Kept(o)
      BY <1>9, <2>2, RecheckLiveFacts DEF Moves, ClientShape, ClientOK, PlaceInv, PlaceOK,
         At
    <3>3. QED
      BY <1>9, <3>1, <3>2, MovesClient
  <2>3. QED
    BY <2>1, <2>2
<1>10. ASSUME NEW o \in Ops, RecheckRules(o), UNCHANGED world
      PROVE  ClientShape'
  <2>1. CASE \E r, d : Over(o, r, d)
    BY <1>10, <2>1, OverClient
  <2>2. CASE ~\E r, d : Over(o, r, d)
    <3>1. ClientOK(o)'
      BY <1>10, <2>2, RecheckRulesFacts DEF Moves, Kept, ClientShape, ClientOK, At
    <3>2. Kept(o)
      BY <1>10, <2>2, RecheckRulesFacts DEF Moves, ClientShape, ClientOK, PlaceInv, PlaceOK,
         At
    <3>3. QED
      BY <1>10, <3>1, <3>2, MovesClient
  <2>3. QED
    BY <2>1, <2>2
<1>11. ASSUME NEW o \in Ops, Confirm(o), UNCHANGED world
      PROVE  ClientShape'
  <2>1. CASE \E r, d : Over(o, r, d)
    BY <1>11, <2>1, OverClient
  <2>2. CASE ~\E r, d : Over(o, r, d)
    <3>1. ClientOK(o)'
      BY <1>11, <2>2, ConfirmFacts DEF Moves, Kept, ClientShape, ClientOK, At
    <3>2. Kept(o)
      BY <1>11, <2>2, ConfirmFacts DEF Moves, ClientShape, ClientOK, PlaceInv, PlaceOK, At
    <3>3. QED
      BY <1>11, <3>1, <3>2, MovesClient
  <2>3. QED
    BY <2>1, <2>2
<1>12. ASSUME NEW o \in Ops, ConfirmPresence(o), UNCHANGED world
      PROVE  ClientShape'
  <2>1. CASE \E r, d : Over(o, r, d)
    BY <1>12, <2>1, OverClient
  <2>2. CASE ~\E r, d : Over(o, r, d)
    <3>1. ClientOK(o)'
      BY <1>12, <2>2, ConfirmPresenceFacts DEF Moves, Kept, ClientShape, ClientOK, At
    <3>2. Kept(o)
      BY <1>12, <2>2, ConfirmPresenceFacts DEF Moves, ClientShape, ClientOK, PlaceInv,
         PlaceOK, At
    <3>3. QED
      BY <1>12, <3>1, <3>2, MovesClient
  <2>3. QED
    BY <2>1, <2>2
<1>13. ASSUME NEW o \in Ops, Send(o), UNCHANGED world
      PROVE  ClientShape'
  <2>1. CASE \E r, d : Over(o, r, d)
    BY <1>13, <2>1, OverClient
  <2>2. CASE ~\E r, d : Over(o, r, d)
    <3>1. ClientOK(o)'
      BY <1>13, <2>2, SendFacts DEF Moves, Kept, ClientShape, ClientOK, At
    <3>2. Kept(o)
      BY <1>13, <2>2, SendFacts DEF Moves, ClientShape, ClientOK, PlaceInv, PlaceOK, At
    <3>3. QED
      BY <1>13, <3>1, <3>2, MovesClient
  <2>3. QED
    BY <2>1, <2>2
<1>14. ASSUME NEW o \in Ops, Receive(o), UNCHANGED world
      PROVE  ClientShape'
  <2>1. CASE \E r, d : Over(o, r, d)
    BY <1>14, <2>1, OverClient
  <2>2. CASE ~\E r, d : Over(o, r, d)
    <3>1. ClientOK(o)'
      BY <1>14, <2>2, ReceiveFacts DEF Moves, Kept, ClientShape, ClientOK, At
    <3>2. Kept(o)
      BY <1>14, <2>2, ReceiveFacts DEF Moves, ClientShape, ClientOK, PlaceInv, PlaceOK, At
    <3>3. QED
      BY <1>14, <3>1, <3>2, MovesClient
  <2>3. QED
    BY <2>1, <2>2
<1>15. ASSUME NEW o \in Ops, Timeout(o), UNCHANGED world
      PROVE  ClientShape'
  <2>1. CASE \E r, d : Over(o, r, d)
    BY <1>15, <2>1, OverClient
  <2>2. CASE ~\E r, d : Over(o, r, d)
    <3>1. ClientOK(o)'
      BY <1>15, <2>2, TimeoutFacts DEF Moves, Kept, ClientShape, ClientOK, At
    <3>2. Kept(o)
      BY <1>15, <2>2, TimeoutFacts DEF Moves, ClientShape, ClientOK, PlaceInv, PlaceOK, At
    <3>3. QED
      BY <1>15, <3>1, <3>2, MovesClient
  <2>3. QED
    BY <2>1, <2>2
<1>16. ASSUME NEW o \in Ops, Poll(o), UNCHANGED world
      PROVE  ClientShape'
  <2>1. CASE \E r, d : Over(o, r, d)
    BY <1>16, <2>1, OverClient
  <2>2. CASE ~\E r, d : Over(o, r, d)
    <3>1. ClientOK(o)'
      BY <1>16, <2>2, PollFacts DEF Moves, Kept, ClientShape, ClientOK, At
    <3>2. Kept(o)
      BY <1>16, <2>2, PollFacts DEF Moves, ClientShape, ClientOK, PlaceInv, PlaceOK, At
    <3>3. QED
      BY <1>16, <3>1, <3>2, MovesClient
  <2>3. QED
    BY <2>1, <2>2
<1>17. ASSUME NEW o \in Ops, Observe(o), UNCHANGED world
      PROVE  ClientShape'
  <2>1. CASE \E r, d : Over(o, r, d)
    BY <1>17, <2>1, OverClient
  <2>2. CASE ~\E r, d : Over(o, r, d)
    <3>1. ClientOK(o)'
      BY <1>17, <2>2, ObserveFacts DEF Moves, Kept, ClientShape, ClientOK, At
    <3>2. Kept(o)
      BY <1>17, <2>2, ObserveFacts DEF Moves, ClientShape, ClientOK, PlaceInv, PlaceOK, At
    <3>3. QED
      BY <1>17, <3>1, <3>2, MovesClient
  <2>3. QED
    BY <2>1, <2>2
<1>18. ASSUME NEW o \in Ops, ReadNames(o), UNCHANGED world
      PROVE  ClientShape'
  <2>1. CASE \E r, d : Over(o, r, d)
    BY <1>18, <2>1, OverClient
  <2>2. CASE ~\E r, d : Over(o, r, d)
    <3>1. ClientOK(o)'
      BY <1>18, <2>2, ReadNamesFacts DEF Moves, Kept, ClientShape, ClientOK, At
    <3>2. Kept(o)
      BY <1>18, <2>2, ReadNamesFacts DEF Moves, ClientShape, ClientOK, PlaceInv, PlaceOK, At
    <3>3. QED
      BY <1>18, <3>1, <3>2, MovesClient
  <2>3. QED
    BY <2>1, <2>2
<1>19. ASSUME NEW o \in Ops, Replace(o), UNCHANGED world
      PROVE  ClientShape'
  <2>1. CASE \E r, d : Over(o, r, d)
    BY <1>19, <2>1, OverClient
  <2>2. CASE ~\E r, d : Over(o, r, d)
    <3>1. ClientOK(o)'
      BY <1>19, <2>2, ReplaceFacts, AnswerFacts, CeremonyAssumption, SMTT(60) DEF Moves, Kept,
         ClientShape, ClientOK, At, CeremonyShape, Corpora, Record, PlaceInv, PlaceOK
    <3>2. Kept(o)
      BY <1>19, <2>2, ReplaceFacts DEF Moves, ClientShape, ClientOK, PlaceInv, PlaceOK, At
    <3>3. QED
      BY <1>19, <3>1, <3>2, MovesClient
  <2>3. QED
    BY <2>1, <2>2
<1>20. ASSUME NEW o \in Ops, Create(o), UNCHANGED world
      PROVE  ClientShape'
  <2>1. CASE \E r, d : Over(o, r, d)
    BY <1>20, <2>1, OverClient
  <2>2. CASE ~\E r, d : Over(o, r, d)
    <3>1. ClientOK(o)'
      BY <1>20, <2>2, CreateFacts, AnswerFacts, CeremonyAssumption DEF Moves, Kept,
         ClientShape, ClientOK, At, CeremonyShape, Corpora, Record, PlaceInv, PlaceOK
    <3>2. Kept(o)
      BY <1>20, <2>2, CreateFacts DEF Moves, ClientShape, ClientOK, PlaceInv, PlaceOK, At
    <3>3. QED
      BY <1>20, <3>1, <3>2, MovesClient
  <2>3. QED
    BY <2>1, <2>2
<1>21. ASSUME NEW o \in Ops, FinalDocument(o), UNCHANGED world
      PROVE  ClientShape'
  <2>1. CASE \E r, d : Over(o, r, d)
    BY <1>21, <2>1, OverClient
  <2>2. CASE ~\E r, d : Over(o, r, d)
    <3>1. ClientOK(o)'
      BY <1>21, <2>2, FinalDocumentFacts DEF Moves, Kept, ClientShape, ClientOK, At
    <3>2. Kept(o)
      BY <1>21, <2>2, FinalDocumentFacts DEF Moves, ClientShape, ClientOK, PlaceInv,
         PlaceOK, At
    <3>3. QED
      BY <1>21, <3>1, <3>2, MovesClient
  <2>3. QED
    BY <2>1, <2>2
<1>22. ASSUME NEW o \in Ops, FinalStatus(o), UNCHANGED world
      PROVE  ClientShape'
  <2>1. CASE \E r, d : Over(o, r, d)
    BY <1>22, <2>1, OverClient
  <2>2. CASE ~\E r, d : Over(o, r, d)
    <3>1. ClientOK(o)'
      BY <1>22, <2>2, FinalStatusFacts DEF Moves, Kept, ClientShape, ClientOK, At
    <3>2. Kept(o)
      BY <1>22, <2>2, FinalStatusFacts DEF Moves, ClientShape, ClientOK, PlaceInv, PlaceOK,
         At
    <3>3. QED
      BY <1>22, <3>1, <3>2, MovesClient
  <2>3. QED
    BY <2>1, <2>2
<1>23. ASSUME NEW o \in Ops, FinalReport(o), UNCHANGED world
      PROVE  ClientShape'
  <2>1. CASE \E r, d : Over(o, r, d)
    BY <1>23, <2>1, OverClient
  <2>2. CASE ~\E r, d : Over(o, r, d)
    <3>1. ClientOK(o)'
      BY <1>23, <2>2, FinalReportFacts, AnswerFacts, CeremonyAssumption DEF Moves, Kept,
         ClientShape, ClientOK, At, CeremonyShape, Corpora, Record, PlaceInv, PlaceOK
    <3>2. Kept(o)
      BY <1>23, <2>2, FinalReportFacts DEF Moves, ClientShape, ClientOK, PlaceInv, PlaceOK,
         At
    <3>3. QED
      BY <1>23, <3>1, <3>2, MovesClient
  <2>3. QED
    BY <2>1, <2>2
<1>24. ASSUME NEW o \in Ops, NEW k \in Attempts, CommitFault(o, k), UNCHANGED world
      PROVE  ClientShape'
  BY <1>24 DEF CommitFault, ClientShape, ClientOK
<1>25. ASSUME NEW o \in Ops, NEW k \in Attempts, CommitRefused(o, k), UNCHANGED world
      PROVE  ClientShape'
  BY <1>25 DEF CommitRefused, ClientShape, ClientOK
<1>26. ASSUME NEW o \in Ops, NEW k \in Attempts, CommitAgain(o, k), UNCHANGED world
      PROVE  ClientShape'
  BY <1>26 DEF CommitAgain, ClientShape, ClientOK
<1>27. ASSUME NEW o \in Ops, NEW k \in Attempts, FlipFails(o, k), UNCHANGED world
      PROVE  ClientShape'
  BY <1>27 DEF FlipFails, ClientShape, ClientOK
<1>28. ASSUME NEW o \in Ops, NEW k \in Attempts, Flip(o, k), UNCHANGED world
      PROVE  ClientShape'
  BY <1>28 DEF Flip, ClientShape, ClientOK
<1>29. ASSUME NEW o \in Ops, NEW k \in Attempts, FlipUnsynced(o, k), UNCHANGED world
      PROVE  ClientShape'
  BY <1>29 DEF FlipUnsynced, ClientShape, ClientOK
<1>30. ASSUME NEW o \in Ops, NEW k \in Attempts, StoreProfile(o, k), UNCHANGED world
      PROVE  ClientShape'
  BY <1>30 DEF StoreProfile, ClientShape, ClientOK
<1>31. ASSUME NEW o \in Ops, SweepStaged(o), UNCHANGED world
      PROVE  ClientShape'
  BY <1>31 DEF SweepStaged, ClientShape, ClientOK
<1>32. ASSUME Restart, UNCHANGED world
      PROVE  ClientShape'
  BY <1>32 DEF Restart, ClientShape, ClientOK
<1>33. ASSUME Edit, UNCHANGED world
      PROVE  ClientShape'
  BY <1>33 DEF Edit, ClientShape, ClientOK
<1>34. CASE UNCHANGED vars
  BY <1>34 DEF vars, ClientShape, ClientOK
<1>35. QED
  BY <1>1, <1>2, <1>3, <1>4, <1>5, <1>6, <1>7, <1>8, <1>9, <1>10, <1>11, <1>12, <1>13,
     <1>14, <1>15, <1>16, <1>17, <1>18, <1>19, <1>20, <1>21, <1>22, <1>23, <1>24, <1>25,
     <1>26, <1>27, <1>28, <1>29, <1>30, <1>31, <1>32, <1>33, <1>34 DEF Next, Propose,
     Resolve, Handle

(* A command that is over is in its place. *)
LEMMA OverPlace ==
  ASSUME PlaceInv, UNCHANGED world, NEW o \in Ops, NEW result, NEW drift, Over(o, result, drift)
  PROVE  PlaceInv'
  BY DEF Over, Kept, PlaceInv, PlaceOK, form, Pcs, Early, Late, Sending

(* The other commands stay where they are. *)
LEMMA MovesPlace ==
  ASSUME PlaceInv, UNCHANGED world, NEW o \in Ops, Kept(o), PlaceOK(o)'
  PROVE  PlaceInv'
  BY DEF Kept, PlaceInv, PlaceOK, form

(* Every step keeps the commands at their places. *)
LEMMA PlaceStep ==
  ASSUME CeremonyShape, ClientShape, PlaceInv, [Next]_vars
  PROVE  PlaceInv'
<1>1. ASSUME NEW o \in Ops, ReadDocument(o), UNCHANGED world
      PROVE  PlaceInv'
  <2>1. CASE \E r, d : Over(o, r, d)
    BY <1>1, <2>1, OverPlace
  <2>2. CASE ~\E r, d : Over(o, r, d)
    <3>1. PlaceOK(o)'
      BY <1>1, <2>2, ReadDocumentFacts DEF Moves, PlaceInv, PlaceOK, form, Pcs, Early, Late,
         Sending, At, ClientShape, ClientOK
    <3>2. Kept(o)
      BY <1>1, <2>2, ReadDocumentFacts DEF Moves, ClientShape, ClientOK, PlaceInv, PlaceOK,
         At
    <3>3. QED
      BY <1>1, <3>1, <3>2, MovesPlace
  <2>3. QED
    BY <2>1, <2>2
<1>2. ASSUME NEW o \in Ops, CheckDocument(o), UNCHANGED world
      PROVE  PlaceInv'
  <2>1. CASE \E r, d : Over(o, r, d)
    BY <1>2, <2>1, OverPlace
  <2>2. CASE ~\E r, d : Over(o, r, d)
    <3>1. PlaceOK(o)'
      BY <1>2, <2>2, CheckDocumentFacts DEF Moves, PlaceInv, PlaceOK, form, Pcs, Early,
         Late, Sending, At, ClientShape, ClientOK
    <3>2. Kept(o)
      BY <1>2, <2>2, CheckDocumentFacts DEF Moves, ClientShape, ClientOK, PlaceInv, PlaceOK,
         At
    <3>3. QED
      BY <1>2, <3>1, <3>2, MovesPlace
  <2>3. QED
    BY <2>1, <2>2
<1>3. ASSUME NEW o \in Ops, CheckNoDocument(o), UNCHANGED world
      PROVE  PlaceInv'
  <2>1. CASE \E r, d : Over(o, r, d)
    BY <1>3, <2>1, OverPlace
  <2>2. CASE ~\E r, d : Over(o, r, d)
    <3>1. PlaceOK(o)'
      BY <1>3, <2>2, CheckNoDocumentFacts DEF Moves, PlaceInv, PlaceOK, form, Pcs, Early,
         Late, Sending, At, ClientShape, ClientOK
    <3>2. Kept(o)
      BY <1>3, <2>2, CheckNoDocumentFacts DEF Moves, ClientShape, ClientOK, PlaceInv,
         PlaceOK, At
    <3>3. QED
      BY <1>3, <3>1, <3>2, MovesPlace
  <2>3. QED
    BY <2>1, <2>2
<1>4. ASSUME NEW o \in Ops, PrepareBody(o), UNCHANGED world
      PROVE  PlaceInv'
  <2>1. CASE \E r, d : Over(o, r, d)
    BY <1>4, <2>1, OverPlace
  <2>2. CASE ~\E r, d : Over(o, r, d)
    <3>1. PlaceOK(o)'
      BY <1>4, <2>2, PrepareBodyFacts DEF Moves, PlaceInv, PlaceOK, form, Pcs, Early, Late,
         Sending, At, ClientShape, ClientOK
    <3>2. Kept(o)
      BY <1>4, <2>2, PrepareBodyFacts DEF Moves, ClientShape, ClientOK, PlaceInv, PlaceOK,
         At
    <3>3. QED
      BY <1>4, <3>1, <3>2, MovesPlace
  <2>3. QED
    BY <2>1, <2>2
<1>5. ASSUME NEW o \in Ops, ReadRules(o), UNCHANGED world
      PROVE  PlaceInv'
  <2>1. CASE \E r, d : Over(o, r, d)
    BY <1>5, <2>1, OverPlace
  <2>2. CASE ~\E r, d : Over(o, r, d)
    <3>1. PlaceOK(o)'
      BY <1>5, <2>2, ReadRulesFacts DEF Moves, PlaceInv, PlaceOK, form, Pcs, Early, Late,
         Sending, At, ClientShape, ClientOK
    <3>2. Kept(o)
      BY <1>5, <2>2, ReadRulesFacts DEF Moves, ClientShape, ClientOK, PlaceInv, PlaceOK, At
    <3>3. QED
      BY <1>5, <3>1, <3>2, MovesPlace
  <2>3. QED
    BY <2>1, <2>2
<1>6. ASSUME NEW o \in Ops, ReadBaseline(o), UNCHANGED world
      PROVE  PlaceInv'
  <2>1. CASE \E r, d : Over(o, r, d)
    BY <1>6, <2>1, OverPlace
  <2>2. CASE ~\E r, d : Over(o, r, d)
    <3>1. form[o] \in {"apply", "preset", "export", "init"} /\ DOMAIN cl = Ops /\ DOMAIN cl[o] = Fields
      BY <1>6 DEF ReadBaseline, At, PlaceInv, PlaceOK, ClientShape, ClientOK
    <3>2. /\ Moves(o, {"pc", "base"}) /\ cl'[o].base \in Answers /\ cl'[o].base.kind # "unknown"
          /\ At(o, "baseline")
          /\ \/ form[o] = "apply" /\ cl'[o].pc \in {"finalDoc", "replace", "stage"}
             \/ form[o] = "preset" /\ cl'[o].pc = "stage"
             \/ form[o] = "export" /\ cl'[o].pc = "replace"
             \/ form[o] = "init" /\ cl'[o].pc = "create"
      BY <1>6, <2>2, <3>1, ReadBaselineFacts
    <3>8. PlaceOK(o)'
      BY <1>6, <3>2 DEF Moves, PlaceInv, PlaceOK, form, Pcs, Early, Late, Sending, At
    <3>9. Kept(o)
      BY <3>2 DEF Moves
    <3>10. QED
      BY <1>6, <3>8, <3>9, MovesPlace
  <2>3. QED
    BY <2>1, <2>2
<1>7. ASSUME NEW o \in Ops, Stage(o), UNCHANGED world
      PROVE  PlaceInv'
  <2>1. CASE \E r, d : Over(o, r, d)
    BY <1>7, <2>1, OverPlace
  <2>2. CASE ~\E r, d : Over(o, r, d)
    <3>1. PlaceOK(o)'
      BY <1>7, <2>2, StageFacts DEF Moves, PlaceInv, PlaceOK, form, Pcs, Early, Late,
         Sending, At, ClientShape, ClientOK
    <3>2. Kept(o)
      BY <1>7, <2>2, StageFacts DEF Moves, ClientShape, ClientOK, PlaceInv, PlaceOK, At
    <3>3. QED
      BY <1>7, <3>1, <3>2, MovesPlace
  <2>3. QED
    BY <2>1, <2>2
<1>8. ASSUME NEW o \in Ops, RecheckDocument(o), UNCHANGED world
      PROVE  PlaceInv'
  <2>1. CASE \E r, d : Over(o, r, d)
    BY <1>8, <2>1, OverPlace
  <2>2. CASE ~\E r, d : Over(o, r, d)
    <3>1. PlaceOK(o)'
      BY <1>8, <2>2, RecheckDocumentFacts DEF Moves, PlaceInv, PlaceOK, form, Pcs, Early,
         Late, Sending, At, ClientShape, ClientOK
    <3>2. Kept(o)
      BY <1>8, <2>2, RecheckDocumentFacts DEF Moves, ClientShape, ClientOK, PlaceInv,
         PlaceOK, At
    <3>3. QED
      BY <1>8, <3>1, <3>2, MovesPlace
  <2>3. QED
    BY <2>1, <2>2
<1>9. ASSUME NEW o \in Ops, RecheckLive(o), UNCHANGED world
      PROVE  PlaceInv'
  <2>1. CASE \E r, d : Over(o, r, d)
    BY <1>9, <2>1, OverPlace
  <2>2. CASE ~\E r, d : Over(o, r, d)
    <3>1. /\ At(o, "recheckLive") /\ Moves(o, {"pc"})
          /\ cl[o].gate = 1 => cl'[o].pc = "confirm"
          /\ cl[o].gate = 2 => cl'[o].pc = "presence"
          /\ cl[o].gate = 3 => cl'[o].pc = "send"
      BY <1>9, <2>2, RecheckLiveFacts DEF ClientShape, ClientOK
    <3>2. world.rounds \in Nat
      BY CeremonyAssumption DEF CeremonyShape
    <3>8. PlaceOK(o)'
      BY <1>9, <3>1, <3>2 DEF Moves, PlaceInv, PlaceOK, form, Pcs, Early, Late, Sending, At
    <3>9. Kept(o)
      BY <3>1 DEF Moves
    <3>10. QED
      BY <1>9, <3>8, <3>9, MovesPlace
  <2>3. QED
    BY <2>1, <2>2
<1>10. ASSUME NEW o \in Ops, RecheckRules(o), UNCHANGED world
      PROVE  PlaceInv'
  <2>1. CASE \E r, d : Over(o, r, d)
    BY <1>10, <2>1, OverPlace
  <2>2. CASE ~\E r, d : Over(o, r, d)
    <3>1. PlaceOK(o)'
      BY <1>10, <2>2, RecheckRulesFacts DEF Moves, PlaceInv, PlaceOK, form, Pcs, Early,
         Late, Sending, At, ClientShape, ClientOK
    <3>2. Kept(o)
      BY <1>10, <2>2, RecheckRulesFacts DEF Moves, ClientShape, ClientOK, PlaceInv, PlaceOK,
         At
    <3>3. QED
      BY <1>10, <3>1, <3>2, MovesPlace
  <2>3. QED
    BY <2>1, <2>2
<1>11. ASSUME NEW o \in Ops, Confirm(o), UNCHANGED world
      PROVE  PlaceInv'
  <2>1. CASE \E r, d : Over(o, r, d)
    BY <1>11, <2>1, OverPlace
  <2>2. CASE ~\E r, d : Over(o, r, d)
    <3>1. PlaceOK(o)'
      BY <1>11, <2>2, ConfirmFacts DEF Moves, PlaceInv, PlaceOK, form, Pcs, Early, Late,
         Sending, At, ClientShape, ClientOK
    <3>2. Kept(o)
      BY <1>11, <2>2, ConfirmFacts DEF Moves, ClientShape, ClientOK, PlaceInv, PlaceOK, At
    <3>3. QED
      BY <1>11, <3>1, <3>2, MovesPlace
  <2>3. QED
    BY <2>1, <2>2
<1>12. ASSUME NEW o \in Ops, ConfirmPresence(o), UNCHANGED world
      PROVE  PlaceInv'
  <2>1. CASE \E r, d : Over(o, r, d)
    BY <1>12, <2>1, OverPlace
  <2>2. CASE ~\E r, d : Over(o, r, d)
    <3>1. /\ At(o, "presence") /\ Moves(o, {"pc", "gate"}) /\ cl'[o].gate = 3
          /\ cl'[o].pc = IF form[o] = "apply" THEN "recheckDoc" ELSE "send"
      BY <1>12, <2>2, ConfirmPresenceFacts DEF ClientShape, ClientOK
    <3>2. world.rounds \in Nat
      BY CeremonyAssumption DEF CeremonyShape
    <3>8. PlaceOK(o)'
      BY <1>12, <3>1, <3>2 DEF Moves, PlaceInv, PlaceOK, form, Pcs, Early, Late, Sending, At
    <3>9. Kept(o)
      BY <3>1 DEF Moves
    <3>10. QED
      BY <1>12, <3>8, <3>9, MovesPlace
  <2>3. QED
    BY <2>1, <2>2
<1>13. ASSUME NEW o \in Ops, Send(o), UNCHANGED world
      PROVE  PlaceInv'
  <2>1. CASE \E r, d : Over(o, r, d)
    BY <1>13, <2>1, OverPlace
  <2>2. CASE ~\E r, d : Over(o, r, d)
    <3>1. PlaceOK(o)'
      BY <1>13, <2>2, SendFacts, CeremonyAssumption, SMTT(60) DEF Moves, PlaceInv, PlaceOK, form, Pcs,
         Early, Late, Sending, At, ClientShape, ClientOK, CeremonyShape
    <3>2. Kept(o)
      BY <1>13, <2>2, SendFacts DEF Moves, ClientShape, ClientOK, PlaceInv, PlaceOK, At
    <3>3. QED
      BY <1>13, <3>1, <3>2, MovesPlace
  <2>3. QED
    BY <2>1, <2>2
<1>14. ASSUME NEW o \in Ops, Receive(o), UNCHANGED world
      PROVE  PlaceInv'
  <2>1. CASE \E r, d : Over(o, r, d)
    BY <1>14, <2>1, OverPlace
  <2>2. CASE ~\E r, d : Over(o, r, d)
    <3>1. PlaceOK(o)'
      BY <1>14, <2>2, ReceiveFacts DEF Moves, PlaceInv, PlaceOK, form, Pcs, Early, Late,
         Sending, At, ClientShape, ClientOK
    <3>2. Kept(o)
      BY <1>14, <2>2, ReceiveFacts DEF Moves, ClientShape, ClientOK, PlaceInv, PlaceOK, At
    <3>3. QED
      BY <1>14, <3>1, <3>2, MovesPlace
  <2>3. QED
    BY <2>1, <2>2
<1>15. ASSUME NEW o \in Ops, Timeout(o), UNCHANGED world
      PROVE  PlaceInv'
  <2>1. CASE \E r, d : Over(o, r, d)
    BY <1>15, <2>1, OverPlace
  <2>2. CASE ~\E r, d : Over(o, r, d)
    <3>1. PlaceOK(o)'
      BY <1>15, <2>2, TimeoutFacts DEF Moves, PlaceInv, PlaceOK, form, Pcs, Early, Late,
         Sending, At, ClientShape, ClientOK
    <3>2. Kept(o)
      BY <1>15, <2>2, TimeoutFacts DEF Moves, ClientShape, ClientOK, PlaceInv, PlaceOK, At
    <3>3. QED
      BY <1>15, <3>1, <3>2, MovesPlace
  <2>3. QED
    BY <2>1, <2>2
<1>16. ASSUME NEW o \in Ops, Poll(o), UNCHANGED world
      PROVE  PlaceInv'
  <2>1. CASE \E r, d : Over(o, r, d)
    BY <1>16, <2>1, OverPlace
  <2>2. CASE ~\E r, d : Over(o, r, d)
    <3>1. form[o] \in {"apply", "preset", "rules"} /\ cl[o].try \in 1 .. world.rounds + 1 /\ At(o, "poll")
      BY <1>16 DEF Poll, At, PlaceInv, PlaceOK, Sending
    <3>2. CASE /\ Moves(o, {"pc", "resolution", "was"})
               /\ cl'[o].resolution = "committed_after_reconciliation"
               /\ form[o] = "apply" => cl'[o].pc = "replace"
               /\ form[o] = "preset" => cl'[o].pc = "names"
               /\ form[o] = "rules" => cl'[o].pc = "finalDoc"
      <4>1. PlaceOK(o)'
        BY <1>16, <3>1, <3>2 DEF Moves, PlaceInv, PlaceOK, form, Pcs, Early, Late, Sending,
           At
      <4>2. QED
        BY <1>16, <3>2, <4>1, MovesPlace DEF Moves
    <3>3. CASE Moves(o, {"pc"}) /\ cl'[o].pc = "send" /\ cl[o].try # world.rounds + 1
      <4>1. world.rounds \in Nat
        BY CeremonyAssumption DEF CeremonyShape
      <4>2. PlaceOK(o)'
        BY <1>16, <3>1, <3>3, <4>1 DEF Moves, PlaceInv, PlaceOK, form, Pcs, Early, Late,
           Sending, At
      <4>3. QED
        BY <1>16, <3>3, <4>2, MovesPlace DEF Moves
    <3>4. CASE Moves(o, {"pc", "was"}) /\ form[o] = "rules" /\ cl'[o].pc = "finalDoc"
      <4>1. PlaceOK(o)'
        BY <1>16, <3>1, <3>4 DEF Moves, PlaceInv, PlaceOK, form, Pcs, Early, Late, Sending,
           At
      <4>2. QED
        BY <1>16, <3>4, <4>1, MovesPlace DEF Moves
    <3>5. QED
      BY <1>16, <2>2, <3>2, <3>3, <3>4, PollFacts DEF ClientShape, ClientOK
  <2>3. QED
    BY <2>1, <2>2
<1>17. ASSUME NEW o \in Ops, Observe(o), UNCHANGED world
      PROVE  PlaceInv'
  <2>1. CASE \E r, d : Over(o, r, d)
    BY <1>17, <2>1, OverPlace
  <2>2. CASE ~\E r, d : Over(o, r, d)
    <3>1. PlaceOK(o)'
      BY <1>17, <2>2, ObserveFacts DEF Moves, PlaceInv, PlaceOK, form, Pcs, Early, Late,
         Sending, At, ClientShape, ClientOK
    <3>2. Kept(o)
      BY <1>17, <2>2, ObserveFacts DEF Moves, ClientShape, ClientOK, PlaceInv, PlaceOK, At
    <3>3. QED
      BY <1>17, <3>1, <3>2, MovesPlace
  <2>3. QED
    BY <2>1, <2>2
<1>18. ASSUME NEW o \in Ops, ReadNames(o), UNCHANGED world
      PROVE  PlaceInv'
  <2>1. CASE \E r, d : Over(o, r, d)
    BY <1>18, <2>1, OverPlace
  <2>2. CASE ~\E r, d : Over(o, r, d)
    <3>1. PlaceOK(o)'
      BY <1>18, <2>2, ReadNamesFacts DEF Moves, PlaceInv, PlaceOK, form, Pcs, Early, Late,
         Sending, At, ClientShape, ClientOK
    <3>2. Kept(o)
      BY <1>18, <2>2, ReadNamesFacts DEF Moves, ClientShape, ClientOK, PlaceInv, PlaceOK, At
    <3>3. QED
      BY <1>18, <3>1, <3>2, MovesPlace
  <2>3. QED
    BY <2>1, <2>2
<1>19. ASSUME NEW o \in Ops, Replace(o), UNCHANGED world
      PROVE  PlaceInv'
  <2>1. CASE \E r, d : Over(o, r, d)
    BY <1>19, <2>1, OverPlace
  <2>2. CASE ~\E r, d : Over(o, r, d)
    <3>1. PlaceOK(o)'
      BY <1>19, <2>2, ReplaceFacts DEF Moves, PlaceInv, PlaceOK, form, Pcs, Early, Late,
         Sending, At, ClientShape, ClientOK
    <3>2. Kept(o)
      BY <1>19, <2>2, ReplaceFacts DEF Moves, ClientShape, ClientOK, PlaceInv, PlaceOK, At
    <3>3. QED
      BY <1>19, <3>1, <3>2, MovesPlace
  <2>3. QED
    BY <2>1, <2>2
<1>20. ASSUME NEW o \in Ops, Create(o), UNCHANGED world
      PROVE  PlaceInv'
  <2>1. CASE \E r, d : Over(o, r, d)
    BY <1>20, <2>1, OverPlace
  <2>2. CASE ~\E r, d : Over(o, r, d)
    <3>1. PlaceOK(o)'
      BY <1>20, <2>2, CreateFacts DEF Moves, PlaceInv, PlaceOK, form, Pcs, Early, Late,
         Sending, At, ClientShape, ClientOK
    <3>2. Kept(o)
      BY <1>20, <2>2, CreateFacts DEF Moves, ClientShape, ClientOK, PlaceInv, PlaceOK, At
    <3>3. QED
      BY <1>20, <3>1, <3>2, MovesPlace
  <2>3. QED
    BY <2>1, <2>2
<1>21. ASSUME NEW o \in Ops, FinalDocument(o), UNCHANGED world
      PROVE  PlaceInv'
  <2>1. CASE \E r, d : Over(o, r, d)
    BY <1>21, <2>1, OverPlace
  <2>2. CASE ~\E r, d : Over(o, r, d)
    <3>1. PlaceOK(o)'
      BY <1>21, <2>2, FinalDocumentFacts DEF Moves, PlaceInv, PlaceOK, form, Pcs, Early,
         Late, Sending, At, ClientShape, ClientOK
    <3>2. Kept(o)
      BY <1>21, <2>2, FinalDocumentFacts DEF Moves, ClientShape, ClientOK, PlaceInv,
         PlaceOK, At
    <3>3. QED
      BY <1>21, <3>1, <3>2, MovesPlace
  <2>3. QED
    BY <2>1, <2>2
<1>22. ASSUME NEW o \in Ops, FinalStatus(o), UNCHANGED world
      PROVE  PlaceInv'
  <2>1. CASE \E r, d : Over(o, r, d)
    BY <1>22, <2>1, OverPlace
  <2>2. CASE ~\E r, d : Over(o, r, d)
    <3>1. PlaceOK(o)'
      BY <1>22, <2>2, FinalStatusFacts DEF Moves, PlaceInv, PlaceOK, form, Pcs, Early, Late,
         Sending, At, ClientShape, ClientOK
    <3>2. Kept(o)
      BY <1>22, <2>2, FinalStatusFacts DEF Moves, ClientShape, ClientOK, PlaceInv, PlaceOK,
         At
    <3>3. QED
      BY <1>22, <3>1, <3>2, MovesPlace
  <2>3. QED
    BY <2>1, <2>2
<1>23. ASSUME NEW o \in Ops, FinalReport(o), UNCHANGED world
      PROVE  PlaceInv'
  <2>1. CASE \E r, d : Over(o, r, d)
    BY <1>23, <2>1, OverPlace
  <2>2. CASE ~\E r, d : Over(o, r, d)
    <3>1. PlaceOK(o)'
      BY <1>23, <2>2, FinalReportFacts DEF Moves, PlaceInv, PlaceOK, form, Pcs, Early, Late,
         Sending, At, ClientShape, ClientOK
    <3>2. Kept(o)
      BY <1>23, <2>2, FinalReportFacts DEF Moves, ClientShape, ClientOK, PlaceInv, PlaceOK,
         At
    <3>3. QED
      BY <1>23, <3>1, <3>2, MovesPlace
  <2>3. QED
    BY <2>1, <2>2
<1>24. ASSUME NEW o \in Ops, NEW k \in Attempts, CommitFault(o, k), UNCHANGED world
      PROVE  PlaceInv'
  BY <1>24 DEF CommitFault, PlaceInv, PlaceOK, form
<1>25. ASSUME NEW o \in Ops, NEW k \in Attempts, CommitRefused(o, k), UNCHANGED world
      PROVE  PlaceInv'
  BY <1>25 DEF CommitRefused, PlaceInv, PlaceOK, form
<1>26. ASSUME NEW o \in Ops, NEW k \in Attempts, CommitAgain(o, k), UNCHANGED world
      PROVE  PlaceInv'
  BY <1>26 DEF CommitAgain, PlaceInv, PlaceOK, form
<1>27. ASSUME NEW o \in Ops, NEW k \in Attempts, FlipFails(o, k), UNCHANGED world
      PROVE  PlaceInv'
  BY <1>27 DEF FlipFails, PlaceInv, PlaceOK, form
<1>28. ASSUME NEW o \in Ops, NEW k \in Attempts, Flip(o, k), UNCHANGED world
      PROVE  PlaceInv'
  BY <1>28 DEF Flip, PlaceInv, PlaceOK, form
<1>29. ASSUME NEW o \in Ops, NEW k \in Attempts, FlipUnsynced(o, k), UNCHANGED world
      PROVE  PlaceInv'
  BY <1>29 DEF FlipUnsynced, PlaceInv, PlaceOK, form
<1>30. ASSUME NEW o \in Ops, NEW k \in Attempts, StoreProfile(o, k), UNCHANGED world
      PROVE  PlaceInv'
  BY <1>30 DEF StoreProfile, PlaceInv, PlaceOK, form
<1>31. ASSUME NEW o \in Ops, SweepStaged(o), UNCHANGED world
      PROVE  PlaceInv'
  BY <1>31 DEF SweepStaged, PlaceInv, PlaceOK, form
<1>32. ASSUME Restart, UNCHANGED world
      PROVE  PlaceInv'
  BY <1>32 DEF Restart, PlaceInv, PlaceOK, form
<1>33. ASSUME Edit, UNCHANGED world
      PROVE  PlaceInv'
  BY <1>33 DEF Edit, PlaceInv, PlaceOK, form
<1>34. CASE UNCHANGED vars
  BY <1>34 DEF vars, PlaceInv, PlaceOK, form
<1>35. QED
  BY <1>1, <1>2, <1>3, <1>4, <1>5, <1>6, <1>7, <1>8, <1>9, <1>10, <1>11, <1>12, <1>13,
     <1>14, <1>15, <1>16, <1>17, <1>18, <1>19, <1>20, <1>21, <1>22, <1>23, <1>24, <1>25,
     <1>26, <1>27, <1>28, <1>29, <1>30, <1>31, <1>32, <1>33, <1>34 DEF Next, Propose,
     Resolve, Handle

(* A step that leaves the final report's fields and the document alone     *)
(* keeps what it compares.                                                 *)
LEMMA MovesReport ==
  ASSUME ReportInv, CeremonyShape, NEW o \in Ops, Kept(o), ReportOK(o)',
         doc' = doc \/ doc'.stamp = doc.stamp + 1
  PROVE  ReportInv'
  BY DEF Kept, CeremonyShape, ReportInv, ReportOK

(* The other commands' final reports. *)
LEMMA StaysReport ==
  ASSUME ReportInv, CeremonyShape, UNCHANGED cl,
         doc' = doc \/ doc'.stamp = doc.stamp + 1
  PROVE  ReportInv'
  BY DEF CeremonyShape, ReportInv, ReportOK

(* The drift a report names is never the absence of one. *)
LEMMA ClassifyFacts ==
  ASSUME NEW s, s.kind \in {"unserved", "corrupt", "unknown"}, NEW d, NEW e
  PROVE  ClassifyDrift(d, s) = ClassifyDrift(e, s)
  BY DEF ClassifyDrift

(* A state that is reported held when the status was read. *)
LEMMA ReportStep ==
  ASSUME CeremonyShape, ClientShape, PlaceInv, PlaceInv', ReportInv, [Next]_vars
  PROVE  ReportInv'
<1>a. \A x \in Ops : cl'[x].pc # "done" => cl'[x].drift = "none"
  BY DEF PlaceInv, PlaceOK
<1>1. ASSUME NEW o \in Ops, ReadDocument(o), UNCHANGED world
      PROVE  ReportInv'
  <2>1. /\ Kept(o) /\ doc' = doc
        /\ cl'[o].pc \notin {"finalLive", "finalState"} /\ (cl'[o].pc # "done" \/ cl'[o].drift \in {"none", "unchecked"})
    BY <1>1, ReadDocumentFacts DEF Rest, daemon, At, Moves, Over, ClientShape, ClientOK,
       PlaceInv, PlaceOK, Sending
  <2>2. ReportOK(o)'
    BY <2>1, <1>a DEF ReportOK
  <2>3. QED
    BY <2>1, <2>2, MovesReport
<1>2. ASSUME NEW o \in Ops, CheckDocument(o), UNCHANGED world
      PROVE  ReportInv'
  <2>1. /\ Kept(o) /\ doc' = doc
        /\ cl'[o].pc \notin {"finalLive", "finalState"} /\ (cl'[o].pc # "done" \/ cl'[o].drift \in {"none", "unchecked"})
    BY <1>2, CheckDocumentFacts DEF Rest, daemon, At, Moves, Over, ClientShape, ClientOK,
       PlaceInv, PlaceOK, Sending
  <2>2. ReportOK(o)'
    BY <2>1, <1>a DEF ReportOK
  <2>3. QED
    BY <2>1, <2>2, MovesReport
<1>3. ASSUME NEW o \in Ops, CheckNoDocument(o), UNCHANGED world
      PROVE  ReportInv'
  <2>1. /\ Kept(o) /\ doc' = doc
        /\ cl'[o].pc \notin {"finalLive", "finalState"} /\ (cl'[o].pc # "done" \/ cl'[o].drift \in {"none", "unchecked"})
    BY <1>3, CheckNoDocumentFacts DEF Rest, daemon, At, Moves, Over, ClientShape, ClientOK,
       PlaceInv, PlaceOK, Sending
  <2>2. ReportOK(o)'
    BY <2>1, <1>a DEF ReportOK
  <2>3. QED
    BY <2>1, <2>2, MovesReport
<1>4. ASSUME NEW o \in Ops, PrepareBody(o), UNCHANGED world
      PROVE  ReportInv'
  <2>1. /\ Kept(o) /\ doc' = doc
        /\ cl'[o].pc \notin {"finalLive", "finalState"} /\ (cl'[o].pc # "done" \/ cl'[o].drift \in {"none", "unchecked"})
    BY <1>4, PrepareBodyFacts DEF Rest, daemon, At, Moves, Over, ClientShape, ClientOK,
       PlaceInv, PlaceOK, Sending
  <2>2. ReportOK(o)'
    BY <2>1, <1>a DEF ReportOK
  <2>3. QED
    BY <2>1, <2>2, MovesReport
<1>5. ASSUME NEW o \in Ops, ReadRules(o), UNCHANGED world
      PROVE  ReportInv'
  <2>1. /\ Kept(o) /\ doc' = doc
        /\ cl'[o].pc \notin {"finalLive", "finalState"} /\ (cl'[o].pc # "done" \/ cl'[o].drift \in {"none", "unchecked"})
    BY <1>5, ReadRulesFacts DEF Rest, daemon, At, Moves, Over, ClientShape, ClientOK,
       PlaceInv, PlaceOK, Sending
  <2>2. ReportOK(o)'
    BY <2>1, <1>a DEF ReportOK
  <2>3. QED
    BY <2>1, <2>2, MovesReport
<1>6. ASSUME NEW o \in Ops, ReadBaseline(o), UNCHANGED world
      PROVE  ReportInv'
  <2>0. form[o] \in {"apply", "preset", "export", "init"} /\ DOMAIN cl = Ops /\ DOMAIN cl[o] = Fields
    BY <1>6 DEF ReadBaseline, At, PlaceInv, PlaceOK, ClientShape, ClientOK
  <2>1. /\ Kept(o) /\ doc' = doc
        /\ cl'[o].pc \notin {"finalLive", "finalState"} /\ (cl'[o].pc # "done" \/ cl'[o].drift \in {"none", "unchecked"})
    BY <1>6, <2>0, ReadBaselineFacts DEF Rest, Moves, Over
  <2>2. ReportOK(o)'
    BY <2>1, <1>a DEF ReportOK
  <2>3. QED
    BY <2>1, <2>2, MovesReport
<1>7. ASSUME NEW o \in Ops, Stage(o), UNCHANGED world
      PROVE  ReportInv'
  <2>1. /\ Kept(o) /\ doc' = doc
        /\ cl'[o].pc \notin {"finalLive", "finalState"} /\ (cl'[o].pc # "done" \/ cl'[o].drift \in {"none", "unchecked"})
    BY <1>7, StageFacts DEF Rest, daemon, At, Moves, Over, ClientShape, ClientOK, PlaceInv,
       PlaceOK, Sending
  <2>2. ReportOK(o)'
    BY <2>1, <1>a DEF ReportOK
  <2>3. QED
    BY <2>1, <2>2, MovesReport
<1>8. ASSUME NEW o \in Ops, RecheckDocument(o), UNCHANGED world
      PROVE  ReportInv'
  <2>1. /\ Kept(o) /\ doc' = doc
        /\ cl'[o].pc \notin {"finalLive", "finalState"} /\ (cl'[o].pc # "done" \/ cl'[o].drift \in {"none", "unchecked"})
    BY <1>8, RecheckDocumentFacts DEF Rest, daemon, At, Moves, Over, ClientShape, ClientOK,
       PlaceInv, PlaceOK, Sending
  <2>2. ReportOK(o)'
    BY <2>1, <1>a DEF ReportOK
  <2>3. QED
    BY <2>1, <2>2, MovesReport
<1>9. ASSUME NEW o \in Ops, RecheckLive(o), UNCHANGED world
      PROVE  ReportInv'
  <2>1. /\ Kept(o) /\ doc' = doc
        /\ cl'[o].pc \notin {"finalLive", "finalState"} /\ (cl'[o].pc # "done" \/ cl'[o].drift \in {"none", "unchecked"})
    BY <1>9, RecheckLiveFacts DEF Rest, daemon, At, Moves, Over, ClientShape, ClientOK,
       PlaceInv, PlaceOK, Sending
  <2>2. ReportOK(o)'
    BY <2>1, <1>a DEF ReportOK
  <2>3. QED
    BY <2>1, <2>2, MovesReport
<1>10. ASSUME NEW o \in Ops, RecheckRules(o), UNCHANGED world
      PROVE  ReportInv'
  <2>1. /\ Kept(o) /\ doc' = doc
        /\ cl'[o].pc \notin {"finalLive", "finalState"} /\ (cl'[o].pc # "done" \/ cl'[o].drift \in {"none", "unchecked"})
    BY <1>10, RecheckRulesFacts DEF Rest, daemon, At, Moves, Over, ClientShape, ClientOK,
       PlaceInv, PlaceOK, Sending
  <2>2. ReportOK(o)'
    BY <2>1, <1>a DEF ReportOK
  <2>3. QED
    BY <2>1, <2>2, MovesReport
<1>11. ASSUME NEW o \in Ops, Confirm(o), UNCHANGED world
      PROVE  ReportInv'
  <2>1. /\ Kept(o) /\ doc' = doc
        /\ cl'[o].pc \notin {"finalLive", "finalState"} /\ (cl'[o].pc # "done" \/ cl'[o].drift \in {"none", "unchecked"})
    BY <1>11, ConfirmFacts DEF Rest, daemon, At, Moves, Over, ClientShape, ClientOK,
       PlaceInv, PlaceOK, Sending
  <2>2. ReportOK(o)'
    BY <2>1, <1>a DEF ReportOK
  <2>3. QED
    BY <2>1, <2>2, MovesReport
<1>12. ASSUME NEW o \in Ops, ConfirmPresence(o), UNCHANGED world
      PROVE  ReportInv'
  <2>1. /\ Kept(o) /\ doc' = doc
        /\ cl'[o].pc \notin {"finalLive", "finalState"} /\ (cl'[o].pc # "done" \/ cl'[o].drift \in {"none", "unchecked"})
    BY <1>12, ConfirmPresenceFacts DEF Rest, daemon, At, Moves, Over, ClientShape, ClientOK,
       PlaceInv, PlaceOK, Sending
  <2>2. ReportOK(o)'
    BY <2>1, <1>a DEF ReportOK
  <2>3. QED
    BY <2>1, <2>2, MovesReport
<1>13. ASSUME NEW o \in Ops, Send(o), UNCHANGED world
      PROVE  ReportInv'
  <2>1. /\ Kept(o) /\ doc' = doc
        /\ cl'[o].pc \notin {"finalLive", "finalState"} /\ (cl'[o].pc # "done" \/ cl'[o].drift \in {"none", "unchecked"})
    BY <1>13, SendFacts DEF Rest, daemon, At, Moves, Over, ClientShape, ClientOK, PlaceInv,
       PlaceOK, Sending
  <2>2. ReportOK(o)'
    BY <2>1, <1>a DEF ReportOK
  <2>3. QED
    BY <2>1, <2>2, MovesReport
<1>14. ASSUME NEW o \in Ops, Receive(o), UNCHANGED world
      PROVE  ReportInv'
  <2>1. /\ Kept(o) /\ doc' = doc
        /\ cl'[o].pc \notin {"finalLive", "finalState"} /\ (cl'[o].pc # "done" \/ cl'[o].drift \in {"none", "unchecked"})
    BY <1>14, ReceiveFacts DEF Rest, daemon, At, Moves, Over, ClientShape, ClientOK,
       PlaceInv, PlaceOK, Sending
  <2>2. ReportOK(o)'
    BY <2>1, <1>a DEF ReportOK
  <2>3. QED
    BY <2>1, <2>2, MovesReport
<1>15. ASSUME NEW o \in Ops, Timeout(o), UNCHANGED world
      PROVE  ReportInv'
  <2>1. /\ Kept(o) /\ doc' = doc
        /\ cl'[o].pc \notin {"finalLive", "finalState"} /\ (cl'[o].pc # "done" \/ cl'[o].drift \in {"none", "unchecked"})
    BY <1>15, TimeoutFacts DEF Rest, daemon, At, Moves, Over, ClientShape, ClientOK,
       PlaceInv, PlaceOK, Sending
  <2>2. ReportOK(o)'
    BY <2>1, <1>a DEF ReportOK
  <2>3. QED
    BY <2>1, <2>2, MovesReport
<1>16. ASSUME NEW o \in Ops, Poll(o), UNCHANGED world
      PROVE  ReportInv'
  <2>1. /\ Kept(o) /\ doc' = doc
        /\ cl'[o].pc \notin {"finalLive", "finalState"} /\ (cl'[o].pc # "done" \/ cl'[o].drift \in {"none", "unchecked"})
    BY <1>16, PollFacts DEF Rest, daemon, At, Moves, Over, ClientShape, ClientOK, PlaceInv,
       PlaceOK, Sending
  <2>2. ReportOK(o)'
    BY <2>1, <1>a DEF ReportOK
  <2>3. QED
    BY <2>1, <2>2, MovesReport
<1>17. ASSUME NEW o \in Ops, Observe(o), UNCHANGED world
      PROVE  ReportInv'
  <2>1. /\ Kept(o) /\ doc' = doc
        /\ cl'[o].pc \notin {"finalLive", "finalState"} /\ (cl'[o].pc # "done" \/ cl'[o].drift \in {"none", "unchecked"})
    BY <1>17, ObserveFacts DEF Rest, daemon, At, Moves, Over, ClientShape, ClientOK,
       PlaceInv, PlaceOK, Sending
  <2>2. ReportOK(o)'
    BY <2>1, <1>a DEF ReportOK
  <2>3. QED
    BY <2>1, <2>2, MovesReport
<1>18. ASSUME NEW o \in Ops, ReadNames(o), UNCHANGED world
      PROVE  ReportInv'
  <2>1. /\ Kept(o) /\ doc' = doc
        /\ cl'[o].pc \notin {"finalLive", "finalState"} /\ (cl'[o].pc # "done" \/ cl'[o].drift \in {"none", "unchecked"})
    BY <1>18, ReadNamesFacts DEF Rest, daemon, At, Moves, Over, ClientShape, ClientOK,
       PlaceInv, PlaceOK, Sending
  <2>2. ReportOK(o)'
    BY <2>1, <1>a DEF ReportOK
  <2>3. QED
    BY <2>1, <2>2, MovesReport
<1>19. ASSUME NEW o \in Ops, Replace(o), UNCHANGED world
      PROVE  ReportInv'
  <2>1. /\ Kept(o) /\ (doc' = doc \/ doc'.stamp = doc.stamp + 1)
        /\ cl'[o].pc \notin {"finalLive", "finalState"} /\ (cl'[o].pc # "done" \/ cl'[o].drift \in {"none", "unchecked"})
    BY <1>19, ReplaceFacts DEF Rest, daemon, At, Rewritten, Moves, Over, ClientShape,
       ClientOK, PlaceInv, PlaceOK, Sending
  <2>2. ReportOK(o)'
    BY <2>1, <1>a DEF ReportOK
  <2>3. QED
    BY <2>1, <2>2, MovesReport
<1>20. ASSUME NEW o \in Ops, Create(o), UNCHANGED world
      PROVE  ReportInv'
  <2>1. /\ Kept(o) /\ (doc' = doc \/ doc'.stamp = doc.stamp + 1)
        /\ cl'[o].pc \notin {"finalLive", "finalState"} /\ (cl'[o].pc # "done" \/ cl'[o].drift \in {"none", "unchecked"})
    BY <1>20, CreateFacts DEF Rest, daemon, At, Rewritten, Moves, Over, ClientShape,
       ClientOK, PlaceInv, PlaceOK, Sending
  <2>2. ReportOK(o)'
    BY <2>1, <1>a DEF ReportOK
  <2>3. QED
    BY <2>1, <2>2, MovesReport
<1>21. ASSUME NEW o \in Ops, FinalDocument(o), UNCHANGED world
      PROVE  ReportInv'
  <2>1. /\ Moves(o, {"pc", "fdoc"}) /\ cl'[o].fdoc = doc /\ cl'[o].pc = "finalLive" /\ doc' = doc
    BY <1>21, FinalDocumentFacts DEF Rest, ClientShape, ClientOK
  <2>2. ReportOK(o)'
    BY <2>1, <1>a DEF ReportOK, CeremonyShape
  <2>3. QED
    BY <2>1, <2>2, MovesReport DEF Moves
<1>22. ASSUME NEW o \in Ops, FinalStatus(o), UNCHANGED world
      PROVE  ReportInv'
  <2>1. /\ Moves(o, {"pc", "seen", "truth"}) /\ cl'[o].pc = "finalState" /\ At(o, "finalLive")
        /\ cl'[o].seen \in Answers /\ cl'[o].truth = ClassifyDrift(doc, cl'[o].seen) /\ doc' = doc
    BY <1>22, FinalStatusFacts DEF Rest, ClientShape, ClientOK
  <2>2. cl'[o].seen.kind \in Kinds \cup {"unknown"}
    BY <2>1, AnswerFacts DEF CeremonyShape
  <2>3. PICK f : f = cl[o].fdoc
    OBVIOUS
  <2>4. cl'[o].fdoc = f /\ f.stamp \in Nat /\ f.stamp <= doc.stamp /\ (f.stamp = doc.stamp => f = doc)
    BY <2>1, <2>3 DEF Moves, At, ReportInv, ReportOK
  <2>5. \/ cl'[o].truth = ClassifyDrift(f, cl'[o].seen)
        \/ f.stamp < doc.stamp /\ cl'[o].seen.kind \in {"absent", "served"}
    <3>1. CASE f.stamp = doc.stamp
      BY <2>1, <2>4, <3>1
    <3>2. CASE f.stamp # doc.stamp /\ cl'[o].seen.kind \in {"absent", "served"}
      BY <2>4, <3>2 DEF CeremonyShape
    <3>3. CASE cl'[o].seen.kind \in {"unserved", "corrupt", "unknown"}
      BY <2>1, <3>3, ClassifyFacts
    <3>4. QED
      BY <2>2, <3>1, <3>2, <3>3 DEF Kinds
  <2>6. ReportOK(o)'
    BY <2>1, <2>4, <2>5, <1>a DEF ReportOK
  <2>7. QED
    BY <2>1, <2>6, MovesReport DEF Moves
<1>23. ASSUME NEW o \in Ops, FinalReport(o), UNCHANGED world
      PROVE  ReportInv'
  <2>1. /\ At(o, "finalState") /\ doc' = doc
        /\ form[o] \in {"apply", "rules", "export", "init"}
        /\ cl[o].resolution \in {"none", "committed", "already_committed", "committed_after_reconciliation"}
    BY <1>23 DEF FinalReport, At, PlaceInv, PlaceOK
  <2>2. PICK d : d = IF form[o] = "rules" THEN RulesDrift(o) ELSE FinalDrift(o)
    OBVIOUS
  <2>3. PICK r : Over(o, r, d)
    BY <1>23, <2>1, <2>2, FinalReportFacts DEF ClientShape, ClientOK
  <2>4. d \notin {"none", "repo_invalid"} => d = cl[o].truth
    <3>1. SUFFICES ASSUME d \notin {"none", "repo_invalid"}
                   PROVE  d = cl[o].truth
      OBVIOUS
    <3>2. d = FinalDrift(o)
      BY <2>2, <3>1 DEF RulesDrift
    <3>3. /\ ~(doc # cl[o].fdoc /\ cl[o].seen.kind \in {"absent", "served"})
          /\ d = ClassifyDrift(cl[o].fdoc, cl[o].seen)
      BY <3>1, <3>2 DEF FinalDrift
    <3>4. QED
      BY <2>1, <3>3 DEF At, ReportInv, ReportOK
  <2>5. ReportOK(o)'
    BY <2>3, <2>4 DEF Over, ReportOK
  <2>6. QED
    BY <2>1, <2>3, <2>5, MovesReport DEF Over
<1>24. ASSUME NEW o \in Ops, NEW k \in Attempts, CommitFault(o, k), UNCHANGED world
      PROVE  ReportInv'
  BY <1>24, StaysReport DEF CommitFault
<1>25. ASSUME NEW o \in Ops, NEW k \in Attempts, CommitRefused(o, k), UNCHANGED world
      PROVE  ReportInv'
  BY <1>25, StaysReport DEF CommitRefused
<1>26. ASSUME NEW o \in Ops, NEW k \in Attempts, CommitAgain(o, k), UNCHANGED world
      PROVE  ReportInv'
  BY <1>26, StaysReport DEF CommitAgain
<1>27. ASSUME NEW o \in Ops, NEW k \in Attempts, FlipFails(o, k), UNCHANGED world
      PROVE  ReportInv'
  BY <1>27, StaysReport DEF FlipFails
<1>28. ASSUME NEW o \in Ops, NEW k \in Attempts, Flip(o, k), UNCHANGED world
      PROVE  ReportInv'
  BY <1>28, StaysReport DEF Flip
<1>29. ASSUME NEW o \in Ops, NEW k \in Attempts, FlipUnsynced(o, k), UNCHANGED world
      PROVE  ReportInv'
  BY <1>29, StaysReport DEF FlipUnsynced
<1>30. ASSUME NEW o \in Ops, NEW k \in Attempts, StoreProfile(o, k), UNCHANGED world
      PROVE  ReportInv'
  BY <1>30, StaysReport DEF StoreProfile
<1>31. ASSUME NEW o \in Ops, SweepStaged(o), UNCHANGED world
      PROVE  ReportInv'
  BY <1>31, StaysReport DEF SweepStaged
<1>32. ASSUME Restart, UNCHANGED world
      PROVE  ReportInv'
  BY <1>32, StaysReport DEF Restart
<1>33. ASSUME Edit, UNCHANGED world
      PROVE  ReportInv'
  BY <1>33, StaysReport DEF Edit, CeremonyShape
<1>34. CASE UNCHANGED vars
  BY <1>34, StaysReport DEF vars
<1>35. QED
  BY <1>1, <1>2, <1>3, <1>4, <1>5, <1>6, <1>7, <1>8, <1>9, <1>10, <1>11, <1>12, <1>13,
     <1>14, <1>15, <1>16, <1>17, <1>18, <1>19, <1>20, <1>21, <1>22, <1>23, <1>24, <1>25,
     <1>26, <1>27, <1>28, <1>29, <1>30, <1>31, <1>32, <1>33, <1>34 DEF Next, Propose,
     Resolve, Handle

(* A step that leaves the body a command read and writes alone. *)
LEMMA MovesDraft ==
  ASSUME DraftInv, UNCHANGED world, NEW o \in Ops, Kept(o), DraftOK(o)'
  PROVE  DraftInv'
  BY DEF Kept, DraftInv, DraftOK, Unapplied, form

(* A command that is over writes nothing. *)
LEMMA OverDraft ==
  ASSUME DraftInv, UNCHANGED world, NEW o \in Ops, NEW result, NEW drift, Over(o, result, drift)
  PROVE  DraftInv'
  BY DEF Over, Kept, DraftInv, DraftOK, Unapplied, form, Holding

(* Every step keeps what a command read apart from what it will write. *)
LEMMA DraftStep ==
  ASSUME CeremonyShape, ClientShape, PlaceInv, DraftInv, [Next]_vars
  PROVE  DraftInv'
<1>1. ASSUME NEW o \in Ops, ReadDocument(o), UNCHANGED world
      PROVE  DraftInv'
  <2>1. CASE \E r, d : Over(o, r, d)
    BY <1>1, <2>1, OverDraft
  <2>2. CASE ~\E r, d : Over(o, r, d)
    <3>1. DraftOK(o)'
      BY <1>1, <2>2, ReadDocumentFacts DEF Moves, At, ClientShape, ClientOK, PlaceInv,
         PlaceOK, DraftInv, DraftOK, Holding, Sending, form
    <3>2. Kept(o)
      BY <1>1, <2>2, ReadDocumentFacts DEF Moves, ClientShape, ClientOK, PlaceInv, PlaceOK,
         At
    <3>3. QED
      BY <1>1, <3>1, <3>2, MovesDraft
  <2>3. QED
    BY <2>1, <2>2
<1>2. ASSUME NEW o \in Ops, CheckDocument(o), UNCHANGED world
      PROVE  DraftInv'
  <2>1. CASE \E r, d : Over(o, r, d)
    BY <1>2, <2>1, OverDraft
  <2>2. CASE ~\E r, d : Over(o, r, d)
    <3>1. DraftOK(o)'
      BY <1>2, <2>2, CheckDocumentFacts DEF Moves, At, ClientShape, ClientOK, PlaceInv,
         PlaceOK, DraftInv, DraftOK, Holding, Sending, form
    <3>2. Kept(o)
      BY <1>2, <2>2, CheckDocumentFacts DEF Moves, ClientShape, ClientOK, PlaceInv, PlaceOK,
         At
    <3>3. QED
      BY <1>2, <3>1, <3>2, MovesDraft
  <2>3. QED
    BY <2>1, <2>2
<1>3. ASSUME NEW o \in Ops, CheckNoDocument(o), UNCHANGED world
      PROVE  DraftInv'
  <2>1. CASE \E r, d : Over(o, r, d)
    BY <1>3, <2>1, OverDraft
  <2>2. CASE ~\E r, d : Over(o, r, d)
    <3>1. DraftOK(o)'
      BY <1>3, <2>2, CheckNoDocumentFacts DEF Moves, At, ClientShape, ClientOK, PlaceInv,
         PlaceOK, DraftInv, DraftOK, Holding, Sending, form
    <3>2. Kept(o)
      BY <1>3, <2>2, CheckNoDocumentFacts DEF Moves, ClientShape, ClientOK, PlaceInv,
         PlaceOK, At
    <3>3. QED
      BY <1>3, <3>1, <3>2, MovesDraft
  <2>3. QED
    BY <2>1, <2>2
<1>4. ASSUME NEW o \in Ops, PrepareBody(o), UNCHANGED world
      PROVE  DraftInv'
  <2>1. CASE \E r, d : Over(o, r, d)
    BY <1>4, <2>1, OverDraft
  <2>2. CASE ~\E r, d : Over(o, r, d)
    <3>1. DraftOK(o)'
      BY <1>4, <2>2, PrepareBodyFacts DEF Moves, At, ClientShape, ClientOK, PlaceInv,
         PlaceOK, DraftInv, DraftOK, Holding, Sending, form
    <3>2. Kept(o)
      BY <1>4, <2>2, PrepareBodyFacts DEF Moves, ClientShape, ClientOK, PlaceInv, PlaceOK,
         At
    <3>3. QED
      BY <1>4, <3>1, <3>2, MovesDraft
  <2>3. QED
    BY <2>1, <2>2
<1>5. ASSUME NEW o \in Ops, ReadRules(o), UNCHANGED world
      PROVE  DraftInv'
  <2>1. CASE \E r, d : Over(o, r, d)
    BY <1>5, <2>1, OverDraft
  <2>2. CASE ~\E r, d : Over(o, r, d)
    <3>1. DraftOK(o)'
      BY <1>5, <2>2, ReadRulesFacts DEF Moves, At, ClientShape, ClientOK, PlaceInv, PlaceOK,
         DraftInv, DraftOK, Holding, Sending, form
    <3>2. Kept(o)
      BY <1>5, <2>2, ReadRulesFacts DEF Moves, ClientShape, ClientOK, PlaceInv, PlaceOK, At
    <3>3. QED
      BY <1>5, <3>1, <3>2, MovesDraft
  <2>3. QED
    BY <2>1, <2>2
<1>6. ASSUME NEW o \in Ops, ReadBaseline(o), UNCHANGED world
      PROVE  DraftInv'
  <2>1. CASE \E r, d : Over(o, r, d)
    BY <1>6, <2>1, OverDraft
  <2>2. CASE ~\E r, d : Over(o, r, d)
    <3>1. form[o] \in {"apply", "preset", "export", "init"} /\ DOMAIN cl = Ops /\ DOMAIN cl[o] = Fields
      BY <1>6 DEF ReadBaseline, At, PlaceInv, PlaceOK, ClientShape, ClientOK
    <3>2. /\ Moves(o, {"pc", "base"}) /\ cl'[o].base \in Answers /\ cl'[o].base.kind # "unknown"
          /\ At(o, "baseline")
          /\ \/ form[o] = "apply" /\ cl'[o].pc \in {"finalDoc", "replace", "stage"}
             \/ form[o] = "preset" /\ cl'[o].pc = "stage"
             \/ /\ form[o] = "export" /\ cl'[o].pc = "replace"
                /\ cl[o].force \/ ~Unapplied(o, cl'[o].base)
             \/ form[o] = "init" /\ cl'[o].pc = "create"
      BY <1>6, <2>2, <3>1, ReadBaselineFacts
    <3>8. DraftOK(o)'
      BY <1>6, <3>2 DEF Moves, DraftInv, DraftOK, Holding, Unapplied, form, At
    <3>9. Kept(o)
      BY <3>2 DEF Moves
    <3>10. QED
      BY <1>6, <3>8, <3>9, MovesDraft
  <2>3. QED
    BY <2>1, <2>2
<1>7. ASSUME NEW o \in Ops, Stage(o), UNCHANGED world
      PROVE  DraftInv'
  <2>1. CASE \E r, d : Over(o, r, d)
    BY <1>7, <2>1, OverDraft
  <2>2. CASE ~\E r, d : Over(o, r, d)
    <3>1. DraftOK(o)'
      BY <1>7, <2>2, StageFacts DEF Moves, At, ClientShape, ClientOK, PlaceInv, PlaceOK,
         DraftInv, DraftOK, Holding, Sending, form
    <3>2. Kept(o)
      BY <1>7, <2>2, StageFacts DEF Moves, ClientShape, ClientOK, PlaceInv, PlaceOK, At
    <3>3. QED
      BY <1>7, <3>1, <3>2, MovesDraft
  <2>3. QED
    BY <2>1, <2>2
<1>8. ASSUME NEW o \in Ops, RecheckDocument(o), UNCHANGED world
      PROVE  DraftInv'
  <2>1. CASE \E r, d : Over(o, r, d)
    BY <1>8, <2>1, OverDraft
  <2>2. CASE ~\E r, d : Over(o, r, d)
    <3>1. DraftOK(o)'
      BY <1>8, <2>2, RecheckDocumentFacts DEF Moves, At, ClientShape, ClientOK, PlaceInv,
         PlaceOK, DraftInv, DraftOK, Holding, Sending, form
    <3>2. Kept(o)
      BY <1>8, <2>2, RecheckDocumentFacts DEF Moves, ClientShape, ClientOK, PlaceInv,
         PlaceOK, At
    <3>3. QED
      BY <1>8, <3>1, <3>2, MovesDraft
  <2>3. QED
    BY <2>1, <2>2
<1>9. ASSUME NEW o \in Ops, RecheckLive(o), UNCHANGED world
      PROVE  DraftInv'
  <2>1. CASE \E r, d : Over(o, r, d)
    BY <1>9, <2>1, OverDraft
  <2>2. CASE ~\E r, d : Over(o, r, d)
    <3>1. DraftOK(o)'
      BY <1>9, <2>2, RecheckLiveFacts DEF Moves, At, ClientShape, ClientOK, PlaceInv,
         PlaceOK, DraftInv, DraftOK, Holding, Sending, form
    <3>2. Kept(o)
      BY <1>9, <2>2, RecheckLiveFacts DEF Moves, ClientShape, ClientOK, PlaceInv, PlaceOK,
         At
    <3>3. QED
      BY <1>9, <3>1, <3>2, MovesDraft
  <2>3. QED
    BY <2>1, <2>2
<1>10. ASSUME NEW o \in Ops, RecheckRules(o), UNCHANGED world
      PROVE  DraftInv'
  <2>1. CASE \E r, d : Over(o, r, d)
    BY <1>10, <2>1, OverDraft
  <2>2. CASE ~\E r, d : Over(o, r, d)
    <3>1. DraftOK(o)'
      BY <1>10, <2>2, RecheckRulesFacts DEF Moves, At, ClientShape, ClientOK, PlaceInv,
         PlaceOK, DraftInv, DraftOK, Holding, Sending, form
    <3>2. Kept(o)
      BY <1>10, <2>2, RecheckRulesFacts DEF Moves, ClientShape, ClientOK, PlaceInv, PlaceOK,
         At
    <3>3. QED
      BY <1>10, <3>1, <3>2, MovesDraft
  <2>3. QED
    BY <2>1, <2>2
<1>11. ASSUME NEW o \in Ops, Confirm(o), UNCHANGED world
      PROVE  DraftInv'
  <2>1. CASE \E r, d : Over(o, r, d)
    BY <1>11, <2>1, OverDraft
  <2>2. CASE ~\E r, d : Over(o, r, d)
    <3>1. DraftOK(o)'
      BY <1>11, <2>2, ConfirmFacts DEF Moves, At, ClientShape, ClientOK, PlaceInv, PlaceOK,
         DraftInv, DraftOK, Holding, Sending, form
    <3>2. Kept(o)
      BY <1>11, <2>2, ConfirmFacts DEF Moves, ClientShape, ClientOK, PlaceInv, PlaceOK, At
    <3>3. QED
      BY <1>11, <3>1, <3>2, MovesDraft
  <2>3. QED
    BY <2>1, <2>2
<1>12. ASSUME NEW o \in Ops, ConfirmPresence(o), UNCHANGED world
      PROVE  DraftInv'
  <2>1. CASE \E r, d : Over(o, r, d)
    BY <1>12, <2>1, OverDraft
  <2>2. CASE ~\E r, d : Over(o, r, d)
    <3>1. DraftOK(o)'
      BY <1>12, <2>2, ConfirmPresenceFacts DEF Moves, At, ClientShape, ClientOK, PlaceInv,
         PlaceOK, DraftInv, DraftOK, Holding, Sending, form
    <3>2. Kept(o)
      BY <1>12, <2>2, ConfirmPresenceFacts DEF Moves, ClientShape, ClientOK, PlaceInv,
         PlaceOK, At
    <3>3. QED
      BY <1>12, <3>1, <3>2, MovesDraft
  <2>3. QED
    BY <2>1, <2>2
<1>13. ASSUME NEW o \in Ops, Send(o), UNCHANGED world
      PROVE  DraftInv'
  <2>1. CASE \E r, d : Over(o, r, d)
    BY <1>13, <2>1, OverDraft
  <2>2. CASE ~\E r, d : Over(o, r, d)
    <3>1. DraftOK(o)'
      BY <1>13, <2>2, SendFacts DEF Moves, At, ClientShape, ClientOK, PlaceInv, PlaceOK,
         DraftInv, DraftOK, Holding, Sending, form
    <3>2. Kept(o)
      BY <1>13, <2>2, SendFacts DEF Moves, ClientShape, ClientOK, PlaceInv, PlaceOK, At
    <3>3. QED
      BY <1>13, <3>1, <3>2, MovesDraft
  <2>3. QED
    BY <2>1, <2>2
<1>14. ASSUME NEW o \in Ops, Receive(o), UNCHANGED world
      PROVE  DraftInv'
  <2>1. CASE \E r, d : Over(o, r, d)
    BY <1>14, <2>1, OverDraft
  <2>2. CASE ~\E r, d : Over(o, r, d)
    <3>1. DraftOK(o)'
      BY <1>14, <2>2, ReceiveFacts DEF Moves, At, ClientShape, ClientOK, PlaceInv, PlaceOK,
         DraftInv, DraftOK, Holding, Sending, form
    <3>2. Kept(o)
      BY <1>14, <2>2, ReceiveFacts DEF Moves, ClientShape, ClientOK, PlaceInv, PlaceOK, At
    <3>3. QED
      BY <1>14, <3>1, <3>2, MovesDraft
  <2>3. QED
    BY <2>1, <2>2
<1>15. ASSUME NEW o \in Ops, Timeout(o), UNCHANGED world
      PROVE  DraftInv'
  <2>1. CASE \E r, d : Over(o, r, d)
    BY <1>15, <2>1, OverDraft
  <2>2. CASE ~\E r, d : Over(o, r, d)
    <3>1. DraftOK(o)'
      BY <1>15, <2>2, TimeoutFacts DEF Moves, At, ClientShape, ClientOK, PlaceInv, PlaceOK,
         DraftInv, DraftOK, Holding, Sending, form
    <3>2. Kept(o)
      BY <1>15, <2>2, TimeoutFacts DEF Moves, ClientShape, ClientOK, PlaceInv, PlaceOK, At
    <3>3. QED
      BY <1>15, <3>1, <3>2, MovesDraft
  <2>3. QED
    BY <2>1, <2>2
<1>16. ASSUME NEW o \in Ops, Poll(o), UNCHANGED world
      PROVE  DraftInv'
  <2>1. CASE \E r, d : Over(o, r, d)
    BY <1>16, <2>1, OverDraft
  <2>2. CASE ~\E r, d : Over(o, r, d)
    <3>1. DraftOK(o)'
      BY <1>16, <2>2, PollFacts DEF Moves, At, ClientShape, ClientOK, PlaceInv, PlaceOK,
         DraftInv, DraftOK, Holding, Sending, form
    <3>2. Kept(o)
      BY <1>16, <2>2, PollFacts DEF Moves, ClientShape, ClientOK, PlaceInv, PlaceOK, At
    <3>3. QED
      BY <1>16, <3>1, <3>2, MovesDraft
  <2>3. QED
    BY <2>1, <2>2
<1>17. ASSUME NEW o \in Ops, Observe(o), UNCHANGED world
      PROVE  DraftInv'
  <2>1. CASE \E r, d : Over(o, r, d)
    BY <1>17, <2>1, OverDraft
  <2>2. CASE ~\E r, d : Over(o, r, d)
    <3>1. DraftOK(o)'
      BY <1>17, <2>2, ObserveFacts DEF Moves, At, ClientShape, ClientOK, PlaceInv, PlaceOK,
         DraftInv, DraftOK, Holding, Sending, form
    <3>2. Kept(o)
      BY <1>17, <2>2, ObserveFacts DEF Moves, ClientShape, ClientOK, PlaceInv, PlaceOK, At
    <3>3. QED
      BY <1>17, <3>1, <3>2, MovesDraft
  <2>3. QED
    BY <2>1, <2>2
<1>18. ASSUME NEW o \in Ops, ReadNames(o), UNCHANGED world
      PROVE  DraftInv'
  <2>1. CASE \E r, d : Over(o, r, d)
    BY <1>18, <2>1, OverDraft
  <2>2. CASE ~\E r, d : Over(o, r, d)
    <3>1. DraftOK(o)'
      BY <1>18, <2>2, ReadNamesFacts DEF Moves, At, ClientShape, ClientOK, PlaceInv,
         PlaceOK, DraftInv, DraftOK, Holding, Sending, form
    <3>2. Kept(o)
      BY <1>18, <2>2, ReadNamesFacts DEF Moves, ClientShape, ClientOK, PlaceInv, PlaceOK, At
    <3>3. QED
      BY <1>18, <3>1, <3>2, MovesDraft
  <2>3. QED
    BY <2>1, <2>2
<1>19. ASSUME NEW o \in Ops, Replace(o), UNCHANGED world
      PROVE  DraftInv'
  <2>1. CASE \E r, d : Over(o, r, d)
    BY <1>19, <2>1, OverDraft
  <2>2. CASE ~\E r, d : Over(o, r, d)
    <3>1. DraftOK(o)'
      BY <1>19, <2>2, ReplaceFacts DEF Moves, At, ClientShape, ClientOK, PlaceInv, PlaceOK,
         DraftInv, DraftOK, Holding, Sending, form
    <3>2. Kept(o)
      BY <1>19, <2>2, ReplaceFacts DEF Moves, ClientShape, ClientOK, PlaceInv, PlaceOK, At
    <3>3. QED
      BY <1>19, <3>1, <3>2, MovesDraft
  <2>3. QED
    BY <2>1, <2>2
<1>20. ASSUME NEW o \in Ops, Create(o), UNCHANGED world
      PROVE  DraftInv'
  <2>1. CASE \E r, d : Over(o, r, d)
    BY <1>20, <2>1, OverDraft
  <2>2. CASE ~\E r, d : Over(o, r, d)
    <3>1. DraftOK(o)'
      BY <1>20, <2>2, CreateFacts DEF Moves, At, ClientShape, ClientOK, PlaceInv, PlaceOK,
         DraftInv, DraftOK, Holding, Sending, form
    <3>2. Kept(o)
      BY <1>20, <2>2, CreateFacts DEF Moves, ClientShape, ClientOK, PlaceInv, PlaceOK, At
    <3>3. QED
      BY <1>20, <3>1, <3>2, MovesDraft
  <2>3. QED
    BY <2>1, <2>2
<1>21. ASSUME NEW o \in Ops, FinalDocument(o), UNCHANGED world
      PROVE  DraftInv'
  <2>1. CASE \E r, d : Over(o, r, d)
    BY <1>21, <2>1, OverDraft
  <2>2. CASE ~\E r, d : Over(o, r, d)
    <3>1. DraftOK(o)'
      BY <1>21, <2>2, FinalDocumentFacts DEF Moves, At, ClientShape, ClientOK, PlaceInv,
         PlaceOK, DraftInv, DraftOK, Holding, Sending, form
    <3>2. Kept(o)
      BY <1>21, <2>2, FinalDocumentFacts DEF Moves, ClientShape, ClientOK, PlaceInv,
         PlaceOK, At
    <3>3. QED
      BY <1>21, <3>1, <3>2, MovesDraft
  <2>3. QED
    BY <2>1, <2>2
<1>22. ASSUME NEW o \in Ops, FinalStatus(o), UNCHANGED world
      PROVE  DraftInv'
  <2>1. CASE \E r, d : Over(o, r, d)
    BY <1>22, <2>1, OverDraft
  <2>2. CASE ~\E r, d : Over(o, r, d)
    <3>1. DraftOK(o)'
      BY <1>22, <2>2, FinalStatusFacts DEF Moves, At, ClientShape, ClientOK, PlaceInv,
         PlaceOK, DraftInv, DraftOK, Holding, Sending, form
    <3>2. Kept(o)
      BY <1>22, <2>2, FinalStatusFacts DEF Moves, ClientShape, ClientOK, PlaceInv, PlaceOK,
         At
    <3>3. QED
      BY <1>22, <3>1, <3>2, MovesDraft
  <2>3. QED
    BY <2>1, <2>2
<1>23. ASSUME NEW o \in Ops, FinalReport(o), UNCHANGED world
      PROVE  DraftInv'
  <2>1. CASE \E r, d : Over(o, r, d)
    BY <1>23, <2>1, OverDraft
  <2>2. CASE ~\E r, d : Over(o, r, d)
    <3>1. DraftOK(o)'
      BY <1>23, <2>2, FinalReportFacts DEF Moves, At, ClientShape, ClientOK, PlaceInv,
         PlaceOK, DraftInv, DraftOK, Holding, Sending, form
    <3>2. Kept(o)
      BY <1>23, <2>2, FinalReportFacts DEF Moves, ClientShape, ClientOK, PlaceInv, PlaceOK,
         At
    <3>3. QED
      BY <1>23, <3>1, <3>2, MovesDraft
  <2>3. QED
    BY <2>1, <2>2
<1>24. ASSUME NEW o \in Ops, NEW k \in Attempts, CommitFault(o, k), UNCHANGED world
      PROVE  DraftInv'
  BY <1>24 DEF CommitFault, DraftInv, DraftOK, Unapplied, form
<1>25. ASSUME NEW o \in Ops, NEW k \in Attempts, CommitRefused(o, k), UNCHANGED world
      PROVE  DraftInv'
  BY <1>25 DEF CommitRefused, DraftInv, DraftOK, Unapplied, form
<1>26. ASSUME NEW o \in Ops, NEW k \in Attempts, CommitAgain(o, k), UNCHANGED world
      PROVE  DraftInv'
  BY <1>26 DEF CommitAgain, DraftInv, DraftOK, Unapplied, form
<1>27. ASSUME NEW o \in Ops, NEW k \in Attempts, FlipFails(o, k), UNCHANGED world
      PROVE  DraftInv'
  BY <1>27 DEF FlipFails, DraftInv, DraftOK, Unapplied, form
<1>28. ASSUME NEW o \in Ops, NEW k \in Attempts, Flip(o, k), UNCHANGED world
      PROVE  DraftInv'
  BY <1>28 DEF Flip, DraftInv, DraftOK, Unapplied, form
<1>29. ASSUME NEW o \in Ops, NEW k \in Attempts, FlipUnsynced(o, k), UNCHANGED world
      PROVE  DraftInv'
  BY <1>29 DEF FlipUnsynced, DraftInv, DraftOK, Unapplied, form
<1>30. ASSUME NEW o \in Ops, NEW k \in Attempts, StoreProfile(o, k), UNCHANGED world
      PROVE  DraftInv'
  BY <1>30 DEF StoreProfile, DraftInv, DraftOK, Unapplied, form
<1>31. ASSUME NEW o \in Ops, SweepStaged(o), UNCHANGED world
      PROVE  DraftInv'
  BY <1>31 DEF SweepStaged, DraftInv, DraftOK, Unapplied, form
<1>32. ASSUME Restart, UNCHANGED world
      PROVE  DraftInv'
  BY <1>32 DEF Restart, DraftInv, DraftOK, Unapplied, form
<1>33. ASSUME Edit, UNCHANGED world
      PROVE  DraftInv'
  BY <1>33 DEF Edit, DraftInv, DraftOK, Unapplied, form
<1>34. CASE UNCHANGED vars
  BY <1>34 DEF vars, DraftInv, DraftOK, Unapplied, form
<1>35. QED
  BY <1>1, <1>2, <1>3, <1>4, <1>5, <1>6, <1>7, <1>8, <1>9, <1>10, <1>11, <1>12, <1>13,
     <1>14, <1>15, <1>16, <1>17, <1>18, <1>19, <1>20, <1>21, <1>22, <1>23, <1>24, <1>25,
     <1>26, <1>27, <1>28, <1>29, <1>30, <1>31, <1>32, <1>33, <1>34 DEF Next, Propose,
     Resolve, Handle

-----------------------------------------------------------------------------
(* The commit, in the worlds where a rename that was seen survives. *)

(* An element of a sequence is in the set it is over. *)
LEMMA SeqElement ==
  ASSUME NEW S, NEW s \in Seq(S)
  PROVE  \A i \in 1 .. Len(s) : s[i] \in S
  OBVIOUS

(* A flip appends one commit, over the record of that moment. *)
LEMMA FlipFacts ==
  ASSUME flips \in Seq([by : Ops, over : Record]), live \in Record, NEW o \in Ops,
         flips' = Append(flips, [by |-> o, over |-> live])
  PROVE  /\ flips' \in Seq([by : Ops, over : Record]) /\ Len(flips) \in Nat
         /\ Len(flips') = Len(flips) + 1
         /\ flips'[Len(flips) + 1].by = o /\ flips'[Len(flips) + 1].over = live
         /\ \A i \in 1 .. Len(flips) : flips'[i] = flips[i] /\ flips[i].by \in Ops
         /\ \A x : Landed(x)' <=> Landed(x) \/ x = o
         /\ \A L : Past(L)' <=> Past(L) \/ L = live
<1>1. /\ flips' \in Seq([by : Ops, over : Record]) /\ Len(flips) \in Nat
      /\ Len(flips') = Len(flips) + 1
      /\ flips'[Len(flips) + 1].by = o /\ flips'[Len(flips) + 1].over = live
      /\ \A i \in 1 .. Len(flips) : flips'[i] = flips[i] /\ flips[i].by \in Ops
  <2>1. PICK e : e = [by |-> o, over |-> live]
    OBVIOUS
  <2>2. e \in [by : Ops, over : Record] /\ e.by = o /\ e.over = live
    BY <2>1
  <2>3. flips' = Append(flips, e)
    BY <2>1
  <2>4. /\ flips' \in Seq([by : Ops, over : Record]) /\ Len(flips) \in Nat
        /\ Len(flips') = Len(flips) + 1 /\ flips'[Len(flips) + 1] = e
        /\ \A i \in 1 .. Len(flips) : flips'[i] = flips[i]
    BY <2>2, <2>3
  <2>5. \A i \in 1 .. Len(flips) : flips[i] \in [by : Ops, over : Record]
    BY SeqElement
  <2>6. QED
    BY <2>2, <2>4, <2>5
<1>2. ASSUME NEW x
      PROVE  Landed(x)' <=> Landed(x) \/ x = o
  BY <1>1 DEF Landed
<1>3. ASSUME NEW L
      PROVE  Past(L)' <=> Past(L) \/ L = live
  BY <1>1 DEF Past
<1>4. QED
  BY <1>1, <1>2, <1>3

(* A step that leaves the record, the commits and the staged corpora       *)
(* alone.                                                                  *)
LEMMA StaysRecord ==
  ASSUME RecordInv, UNCHANGED <<live, flips, staged>>, disk' \in {live, disk}
  PROVE  RecordInv'
  BY DEF RecordInv, Landed, Past, OneFlipPerCeremony

(* The generation that is live has not been replaced. *)
LEMMA LiveIsNotPast == ASSUME RecordInv PROVE ~Past(live)
  BY DEF RecordInv, Past

(* A command whose corpus can still replace the record has not landed. *)
LEMMA CanFlipFacts ==
  ASSUME RecordInv, NEW o \in Ops, CanFlip(o)
  PROVE  ~Landed(o) /\ live \in staged[o]
  BY LiveIsNotPast DEF RecordInv, CanFlip, BaselineHolds

(* Every step leaves the record a generation nobody has replaced. *)
LEMMA RecordStep ==
  ASSUME Safe, CeremonyShape, ClientShape, PlaceInv, RecordInv, CallInv, [Next]_vars
  PROVE  RecordInv'
<1>1. ASSUME NEW o \in Ops, ReadDocument(o), UNCHANGED world
      PROVE  RecordInv'
  BY <1>1, StaysRecord DEF ReadDocument, daemon
<1>2. ASSUME NEW o \in Ops, CheckDocument(o), UNCHANGED world
      PROVE  RecordInv'
  BY <1>2, StaysRecord DEF CheckDocument, daemon
<1>3. ASSUME NEW o \in Ops, CheckNoDocument(o), UNCHANGED world
      PROVE  RecordInv'
  BY <1>3, StaysRecord DEF CheckNoDocument, daemon
<1>4. ASSUME NEW o \in Ops, PrepareBody(o), UNCHANGED world
      PROVE  RecordInv'
  BY <1>4, StaysRecord DEF PrepareBody, daemon
<1>5. ASSUME NEW o \in Ops, ReadRules(o), UNCHANGED world
      PROVE  RecordInv'
  BY <1>5, StaysRecord DEF ReadRules, daemon
<1>6. ASSUME NEW o \in Ops, ReadBaseline(o), UNCHANGED world
      PROVE  RecordInv'
  BY <1>6, StaysRecord DEF ReadBaseline, daemon
<1>7. ASSUME NEW o \in Ops, Stage(o), UNCHANGED world
      PROVE  RecordInv'
  <2>1. CASE UNCHANGED staged
    BY <1>7, <2>1, StaysRecord DEF Stage
  <2>2. CASE staged' = [staged EXCEPT ![o] = {live}]
    <3>1. ~Landed(o)
      BY <1>7 DEF Stage, At, PlaceInv, PlaceOK, Early, CallInv, CallOK
    <3>2. UNCHANGED <<live, disk, flips>>
      BY <1>7 DEF Stage
    <3>3. QED
      BY <2>2, <3>1, <3>2 DEF RecordInv, CeremonyShape, Landed, Past, OneFlipPerCeremony
  <2>3. QED
    BY <1>7, <2>1, <2>2 DEF Stage
<1>8. ASSUME NEW o \in Ops, RecheckDocument(o), UNCHANGED world
      PROVE  RecordInv'
  BY <1>8, StaysRecord DEF RecheckDocument, daemon
<1>9. ASSUME NEW o \in Ops, RecheckLive(o), UNCHANGED world
      PROVE  RecordInv'
  BY <1>9, StaysRecord DEF RecheckLive, daemon
<1>10. ASSUME NEW o \in Ops, RecheckRules(o), UNCHANGED world
      PROVE  RecordInv'
  BY <1>10, StaysRecord DEF RecheckRules, daemon
<1>11. ASSUME NEW o \in Ops, Confirm(o), UNCHANGED world
      PROVE  RecordInv'
  BY <1>11, StaysRecord DEF Confirm, daemon
<1>12. ASSUME NEW o \in Ops, ConfirmPresence(o), UNCHANGED world
      PROVE  RecordInv'
  BY <1>12, StaysRecord DEF ConfirmPresence, daemon
<1>13. ASSUME NEW o \in Ops, Send(o), UNCHANGED world
      PROVE  RecordInv'
  BY <1>13, StaysRecord DEF Send, daemon
<1>14. ASSUME NEW o \in Ops, Receive(o), UNCHANGED world
      PROVE  RecordInv'
  BY <1>14, StaysRecord DEF Receive, daemon
<1>15. ASSUME NEW o \in Ops, Timeout(o), UNCHANGED world
      PROVE  RecordInv'
  BY <1>15, StaysRecord DEF Timeout, daemon
<1>16. ASSUME NEW o \in Ops, Poll(o), UNCHANGED world
      PROVE  RecordInv'
  BY <1>16, StaysRecord DEF Poll, daemon
<1>17. ASSUME NEW o \in Ops, Observe(o), UNCHANGED world
      PROVE  RecordInv'
  BY <1>17, StaysRecord DEF Observe, daemon
<1>18. ASSUME NEW o \in Ops, ReadNames(o), UNCHANGED world
      PROVE  RecordInv'
  BY <1>18, StaysRecord DEF ReadNames, daemon
<1>19. ASSUME NEW o \in Ops, Replace(o), UNCHANGED world
      PROVE  RecordInv'
  BY <1>19, StaysRecord DEF Replace, daemon
<1>20. ASSUME NEW o \in Ops, Create(o), UNCHANGED world
      PROVE  RecordInv'
  BY <1>20, StaysRecord DEF Create, daemon
<1>21. ASSUME NEW o \in Ops, FinalDocument(o), UNCHANGED world
      PROVE  RecordInv'
  BY <1>21, StaysRecord DEF FinalDocument, daemon
<1>22. ASSUME NEW o \in Ops, FinalStatus(o), UNCHANGED world
      PROVE  RecordInv'
  BY <1>22, StaysRecord DEF FinalStatus, daemon
<1>23. ASSUME NEW o \in Ops, FinalReport(o), UNCHANGED world
      PROVE  RecordInv'
  BY <1>23, StaysRecord DEF FinalReport, daemon
<1>24. ASSUME NEW o \in Ops, NEW k \in Attempts, CommitFault(o, k), UNCHANGED world
      PROVE  RecordInv'
  BY <1>24, StaysRecord DEF CommitFault
<1>25. ASSUME NEW o \in Ops, NEW k \in Attempts, CommitRefused(o, k), UNCHANGED world
      PROVE  RecordInv'
  BY <1>25, StaysRecord DEF CommitRefused
<1>26. ASSUME NEW o \in Ops, NEW k \in Attempts, CommitAgain(o, k), UNCHANGED world
      PROVE  RecordInv'
  BY <1>26, StaysRecord DEF CommitAgain
<1>27. ASSUME NEW o \in Ops, NEW k \in Attempts, FlipFails(o, k), UNCHANGED world
      PROVE  RecordInv'
  BY <1>27, StaysRecord DEF FlipFails
<1>28. ASSUME NEW o \in Ops, NEW k \in Attempts, Flip(o, k), UNCHANGED world
      PROVE  RecordInv'
  <2>1. ~Landed(o) /\ live \in staged[o] /\ live \in Record
    BY <1>28, CanFlipFacts DEF Flip, CeremonyShape
  <2>2. /\ flips' = Append(flips, [by |-> o, over |-> live]) /\ live' = Flipped(o) /\ disk' = live'
        /\ UNCHANGED staged /\ Flipped(o).occ = o
    BY <1>28 DEF Flip, Flipped
  <2>3. live.occ # o /\ o # Nobody
    BY <2>1, CeremonyAssumption DEF RecordInv
  <2>4. flips \in Seq([by : Ops, over : Record])
    BY DEF RecordInv
  <2> PICK n : n = Len(flips)
    OBVIOUS
  <2>5. /\ flips' \in Seq([by : Ops, over : Record]) /\ n \in Nat /\ Len(flips') = n + 1
        /\ flips'[n + 1].by = o /\ flips'[n + 1].over = live
        /\ \A i \in 1 .. n : flips'[i] = flips[i] /\ flips[i].by \in Ops
        /\ \A x : Landed(x)' <=> Landed(x) \/ x = o
        /\ \A L : Past(L)' <=> Past(L) \/ L = live
    BY <2>1, <2>2, <2>4, FlipFacts
  <2>6. \A i \in 1 .. n + 1 :
          /\ flips'[i].over.occ # o
          /\ flips'[i].over.occ = Nobody \/ Landed(flips'[i].over.occ) \/ flips'[i].over.occ = o
    <3>1. \A i \in 1 .. n : flips[i].over.occ = Nobody \/ Landed(flips[i].over.occ)
      BY DEF RecordInv
    <3>2. live.occ = Nobody \/ Landed(live.occ)
      BY DEF RecordInv
    <3>3. ASSUME NEW i \in 1 .. n + 1
          PROVE  /\ flips'[i].over.occ # o
                 /\ flips'[i].over.occ = Nobody \/ Landed(flips'[i].over.occ) \/ flips'[i].over.occ = o
      <4>1. CASE i = n + 1
        BY <2>3, <2>5, <3>2, <4>1
      <4>2. CASE i \in 1 .. n
        BY <2>1, <2>3, <2>5, <3>1, <4>2
      <4>3. QED
        BY <2>5, <4>1, <4>2
    <3>4. QED
      BY <3>3
  <2>7. OneFlipPerCeremony'
    <3>1. \A i, j \in 1 .. n : flips[i].by = flips[j].by => i = j
      BY DEF RecordInv, OneFlipPerCeremony
    <3>2. \A i \in 1 .. n : flips[i].by # o
      BY <2>1 DEF Landed
    <3>3. QED
      BY <2>5, <3>1, <3>2 DEF OneFlipPerCeremony
  <2>8. (\A x \in Ops : \A L \in staged[x] : (L = live /\ ~Landed(x)) \/ Past(L))'
    BY <2>2, <2>5 DEF RecordInv
  <2>9. QED
    BY <2>2, <2>3, <2>5, <2>6, <2>7, <2>8 DEF RecordInv
<1>29. ASSUME NEW o \in Ops, NEW k \in Attempts, FlipUnsynced(o, k), UNCHANGED world
      PROVE  RecordInv'
  BY <1>29 DEF FlipUnsynced, Safe
<1>30. ASSUME NEW o \in Ops, NEW k \in Attempts, StoreProfile(o, k), UNCHANGED world
      PROVE  RecordInv'
  BY <1>30, StaysRecord DEF StoreProfile
<1>31. ASSUME NEW o \in Ops, SweepStaged(o), UNCHANGED world
      PROVE  RecordInv'
  BY <1>31 DEF SweepStaged, RecordInv, CeremonyShape, Landed, Past, OneFlipPerCeremony
<1>32. ASSUME Restart, UNCHANGED world
      PROVE  RecordInv'
  <2>1. live' = live /\ disk' = live /\ flips' = flips /\ staged' = staged
    BY <1>32 DEF Restart, RecordInv
  <2>2. QED
    BY <2>1, StaysRecord
<1>33. ASSUME Edit, UNCHANGED world
      PROVE  RecordInv'
  BY <1>33, StaysRecord DEF Edit, daemon
<1>34. CASE UNCHANGED vars
  BY <1>34, StaysRecord DEF vars
<1>35. QED
  BY <1>1, <1>2, <1>3, <1>4, <1>5, <1>6, <1>7, <1>8, <1>9, <1>10, <1>11, <1>12, <1>13,
     <1>14, <1>15, <1>16, <1>17, <1>18, <1>19, <1>20, <1>21, <1>22, <1>23, <1>24, <1>25,
     <1>26, <1>27, <1>28, <1>29, <1>30, <1>31, <1>32, <1>33, <1>34 DEF Next, Propose,
     Resolve, Handle

(* A step of o that neither lands a commit nor touches the calls of the    *)
(* other commands.                                                         *)
LEMMA MovesCall ==
  ASSUME CallInv, NEW o \in Ops, Kept(o), CallOK(o)', UNCHANGED flips,
         \A x \in Ops : x # o => handler'[x] = handler[x]
  PROVE  CallInv'
  BY DEF Kept, CallInv, CallOK, Landed

(* A command that ends without a commit has no call that commits. *)
LEMMA OverCall ==
  ASSUME CallInv, UNCHANGED <<handler, flips>>, NEW o \in Ops, NEW r, NEW d, Over(o, r, d),
         r \in CommittedResults => Landed(o),
         r \notin CommittedResults \cup {"commit_outcome_unknown"} =>
           ~Landed(o) /\ \A k \in Attempts : handler[o][k] # "sent"
  PROVE  CallInv'
<1>1. Landed(o)' <=> Landed(o)
  BY DEF Landed
<1>2. Unknown.occ # o
  BY CeremonyAssumption DEF Unknown
<1>3. CallOK(o)'
  BY <1>1, <1>2 DEF Over, CallInv, CallOK
<1>4. QED
  BY <1>3, MovesCall DEF Over

(* A command that ends before it has sent anything. *)
LEMMA UnsentCall ==
  ASSUME CallInv, CeremonyShape, ClientShape, UNCHANGED <<handler, flips>>, NEW o \in Ops, NEW r, NEW d,
         Over(o, r, d), r \notin CommittedResults, cl[o].pc # "done", cl[o].try = 0
  PROVE  CallInv'
<1>1. ~Landed(o) /\ \A k \in Attempts : handler[o][k] = "idle"
  BY CeremonyAssumption DEF CallInv, CallOK, Attempts
<1>2. QED
  BY <1>1, OverCall

(* A command that goes on with the same calls and the same knowledge. *)
LEMMA SameCall ==
  ASSUME CallInv, UNCHANGED <<handler, flips>>, NEW o \in Ops, Kept(o),
         cl[o].pc # "done", cl'[o].pc # "done", cl'[o].try = cl[o].try,
         cl'[o].resolution = cl[o].resolution \/ Landed(o),
         cl'[o].seen = cl[o].seen \/ (cl'[o].seen.occ = o => Landed(o))
  PROVE  CallInv'
<1>1. Landed(o)' <=> Landed(o)
  BY DEF Landed
<1>2. CallOK(o)'
  BY <1>1 DEF CallInv, CallOK
<1>3. QED
  BY <1>2, MovesCall

(* A status that names an occurrence shows a commit that landed. *)
LEMMA SeenHasLanded ==
  ASSUME RecordInv, CeremonyShape, NEW o \in Ops, NEW s \in Answers, s.occ = o
  PROVE  Landed(o)
  BY AnswerFacts, CeremonyAssumption DEF RecordInv, CeremonyShape

(* A handler moves, and Landed may only grow by the flip of that handler.   *)
LEMMA HandlesCall ==
  ASSUME CeremonyShape, ClientShape, CallInv, UNCHANGED cl, NEW o \in Ops, NEW k \in Attempts, NEW v,
         Reaches(o, k, v), v # "sent", v # "idle",
         \A x \in Ops : x # o => (Landed(x)' <=> Landed(x)),
         Landed(o) => Landed(o)',
         handler[o][k] # "idle",
         Landed(o)' => Landed(o) \/ (handler[o][k] = "sent" /\ v # "denied"),
         v \in {"committed", "already", "storing", "resaving"} => Landed(o)',
         v = "denied" => handler[o][k] = "sent"
  PROVE  CallInv'
<1>1. \A x \in Ops : x # o => CallOK(x)'
  BY DEF CallInv, CallOK, Reaches
<1>2. CallOK(o)'
  <2>1. cl[o].pc # "done" => k <= cl[o].try
    BY CeremonyAssumption DEF CallInv, CallOK, ClientShape, ClientOK, Attempts
  <2>2. 1 \in Attempts
    BY CeremonyAssumption DEF Attempts
  <2>3. cl[o].pc # "done" => \A j \in Attempts : j > cl[o].try => handler'[o][j] = "idle"
    BY <2>1, CeremonyAssumption DEF CallInv, CallOK, Reaches, ClientShape, ClientOK,
       Attempts
  <2>4. cl[o].pc # "done" /\ cl[o].try = 0 => ~Landed(o)'
    BY <2>1, CeremonyAssumption DEF CallInv, CallOK, Attempts
  <2>5. cl[o].pc # "done" /\ cl[o].try = 1 /\ handler'[o][1] \in {"sent", "denied"} => ~Landed(o)'
    BY <2>1, <2>2, CeremonyAssumption DEF CallInv, CallOK, Reaches, Attempts
  <2>6. \A j \in Attempts :
          handler'[o][j] \in {"committed", "already", "storing", "resaving"} => Landed(o)'
    BY DEF CallInv, CallOK, Reaches
  <2>7. cl[o].pc = "done" /\ cl[o].result \notin CommittedResults \cup {"commit_outcome_unknown"} =>
          ~Landed(o)' /\ \A j \in Attempts : handler'[o][j] # "sent"
    BY DEF CallInv, CallOK, Reaches
  <2>8. QED
    BY <2>3, <2>4, <2>5, <2>6, <2>7 DEF CallInv, CallOK
<1>3. QED
  BY <1>1, <1>2 DEF CallInv

(* Every step keeps what a command knows of its calls true. *)
LEMMA CallStep ==
  ASSUME Safe, CeremonyShape, ClientShape, PlaceInv, RecordInv, CallInv, [Next]_vars
  PROVE  CallInv'
<1>1. ASSUME NEW o \in Ops, ReadDocument(o), UNCHANGED world
      PROVE  CallInv'
  <2>1. /\ cl[o].pc # "done" /\ cl[o].try = 0 /\ UNCHANGED <<handler, flips>>
        /\ \/ \E r, d : Over(o, r, d) /\ r \notin CommittedResults
           \/ /\ Kept(o) /\ cl'[o].pc # "done" /\ cl'[o].try = cl[o].try
              /\ cl'[o].resolution = cl[o].resolution /\ cl'[o].seen = cl[o].seen
    BY <1>1, ReadDocumentFacts DEF Rest, daemon, At, Moves, ClientShape, ClientOK, PlaceInv,
       PlaceOK, Early, CommittedResults
  <2>2. QED
    BY <2>1, UnsentCall, SameCall
<1>2. ASSUME NEW o \in Ops, CheckDocument(o), UNCHANGED world
      PROVE  CallInv'
  <2>1. /\ cl[o].pc # "done" /\ cl[o].try = 0 /\ UNCHANGED <<handler, flips>>
        /\ \/ \E r, d : Over(o, r, d) /\ r \notin CommittedResults
           \/ /\ Kept(o) /\ cl'[o].pc # "done" /\ cl'[o].try = cl[o].try
              /\ cl'[o].resolution = cl[o].resolution /\ cl'[o].seen = cl[o].seen
    BY <1>2, CheckDocumentFacts DEF Rest, daemon, At, Moves, ClientShape, ClientOK,
       PlaceInv, PlaceOK, Early, CommittedResults
  <2>2. QED
    BY <2>1, UnsentCall, SameCall
<1>3. ASSUME NEW o \in Ops, CheckNoDocument(o), UNCHANGED world
      PROVE  CallInv'
  <2>1. /\ cl[o].pc # "done" /\ cl[o].try = 0 /\ UNCHANGED <<handler, flips>>
        /\ \/ \E r, d : Over(o, r, d) /\ r \notin CommittedResults
           \/ /\ Kept(o) /\ cl'[o].pc # "done" /\ cl'[o].try = cl[o].try
              /\ cl'[o].resolution = cl[o].resolution /\ cl'[o].seen = cl[o].seen
    BY <1>3, CheckNoDocumentFacts DEF Rest, daemon, At, Moves, ClientShape, ClientOK,
       PlaceInv, PlaceOK, Early, CommittedResults
  <2>2. QED
    BY <2>1, UnsentCall, SameCall
<1>4. ASSUME NEW o \in Ops, PrepareBody(o), UNCHANGED world
      PROVE  CallInv'
  <2>1. /\ cl[o].pc # "done" /\ cl[o].try = 0 /\ UNCHANGED <<handler, flips>>
        /\ \/ \E r, d : Over(o, r, d) /\ r \notin CommittedResults
           \/ /\ Kept(o) /\ cl'[o].pc # "done" /\ cl'[o].try = cl[o].try
              /\ cl'[o].resolution = cl[o].resolution /\ cl'[o].seen = cl[o].seen
    BY <1>4, PrepareBodyFacts DEF Rest, daemon, At, Moves, ClientShape, ClientOK, PlaceInv,
       PlaceOK, Early, CommittedResults
  <2>2. QED
    BY <2>1, UnsentCall, SameCall
<1>5. ASSUME NEW o \in Ops, ReadRules(o), UNCHANGED world
      PROVE  CallInv'
  <2>1. /\ cl[o].pc # "done" /\ cl[o].try = 0 /\ UNCHANGED <<handler, flips>>
        /\ \/ \E r, d : Over(o, r, d) /\ r \notin CommittedResults
           \/ /\ Kept(o) /\ cl'[o].pc # "done" /\ cl'[o].try = cl[o].try
              /\ cl'[o].resolution = cl[o].resolution /\ cl'[o].seen = cl[o].seen
    BY <1>5, ReadRulesFacts DEF Rest, daemon, At, Moves, ClientShape, ClientOK, PlaceInv,
       PlaceOK, Early, CommittedResults
  <2>2. QED
    BY <2>1, UnsentCall, SameCall
<1>6. ASSUME NEW o \in Ops, ReadBaseline(o), UNCHANGED world
      PROVE  CallInv'
  <2>0. form[o] \in {"apply", "preset", "export", "init"} /\ DOMAIN cl = Ops /\ DOMAIN cl[o] = Fields
    BY <1>6 DEF ReadBaseline, At, PlaceInv, PlaceOK, ClientShape, ClientOK
  <2>1. /\ cl[o].pc # "done" /\ cl[o].try = 0 /\ UNCHANGED <<handler, flips>>
        /\ \/ \E r, d : Over(o, r, d) /\ r \notin CommittedResults
           \/ /\ Kept(o) /\ cl'[o].pc # "done" /\ cl'[o].try = cl[o].try
              /\ cl'[o].resolution = cl[o].resolution /\ cl'[o].seen = cl[o].seen
    BY <1>6, <2>0, ReadBaselineFacts DEF Rest, daemon, At, Moves, ClientShape, ClientOK,
       PlaceInv, PlaceOK, Early, CommittedResults
  <2>2. QED
    BY <2>1, UnsentCall, SameCall
<1>7. ASSUME NEW o \in Ops, Stage(o), UNCHANGED world
      PROVE  CallInv'
  <2>1. /\ cl[o].pc # "done" /\ cl[o].try = 0 /\ UNCHANGED <<handler, flips>>
        /\ \/ \E r, d : Over(o, r, d) /\ r \notin CommittedResults
           \/ /\ Kept(o) /\ cl'[o].pc # "done" /\ cl'[o].try = cl[o].try
              /\ cl'[o].resolution = cl[o].resolution /\ cl'[o].seen = cl[o].seen
    BY <1>7, StageFacts DEF Rest, daemon, At, Moves, ClientShape, ClientOK, PlaceInv,
       PlaceOK, Early, Sending, CommittedResults
  <2>2. QED
    BY <2>1, UnsentCall, SameCall
<1>8. ASSUME NEW o \in Ops, RecheckDocument(o), UNCHANGED world
      PROVE  CallInv'
  <2>1. /\ cl[o].pc # "done" /\ cl[o].try = 0 /\ UNCHANGED <<handler, flips>>
        /\ \/ \E r, d : Over(o, r, d) /\ r \notin CommittedResults
           \/ /\ Kept(o) /\ cl'[o].pc # "done" /\ cl'[o].try = cl[o].try
              /\ cl'[o].resolution = cl[o].resolution /\ cl'[o].seen = cl[o].seen
    BY <1>8, RecheckDocumentFacts DEF Rest, daemon, At, Moves, ClientShape, ClientOK,
       PlaceInv, PlaceOK, Early, CommittedResults
  <2>2. QED
    BY <2>1, UnsentCall, SameCall
<1>9. ASSUME NEW o \in Ops, RecheckLive(o), UNCHANGED world
      PROVE  CallInv'
  <2>1. /\ cl[o].pc # "done" /\ cl[o].try = 0 /\ UNCHANGED <<handler, flips>>
        /\ \/ \E r, d : Over(o, r, d) /\ r \notin CommittedResults
           \/ /\ Kept(o) /\ cl'[o].pc # "done" /\ cl'[o].try = cl[o].try
              /\ cl'[o].resolution = cl[o].resolution /\ cl'[o].seen = cl[o].seen
    BY <1>9, RecheckLiveFacts DEF Rest, daemon, At, Moves, ClientShape, ClientOK, PlaceInv,
       PlaceOK, Early, CommittedResults
  <2>2. QED
    BY <2>1, UnsentCall, SameCall
<1>10. ASSUME NEW o \in Ops, RecheckRules(o), UNCHANGED world
      PROVE  CallInv'
  <2>1. /\ cl[o].pc # "done" /\ cl[o].try = 0 /\ UNCHANGED <<handler, flips>>
        /\ \/ \E r, d : Over(o, r, d) /\ r \notin CommittedResults
           \/ /\ Kept(o) /\ cl'[o].pc # "done" /\ cl'[o].try = cl[o].try
              /\ cl'[o].resolution = cl[o].resolution /\ cl'[o].seen = cl[o].seen
    BY <1>10, RecheckRulesFacts DEF Rest, daemon, At, Moves, ClientShape, ClientOK,
       PlaceInv, PlaceOK, Early, CommittedResults
  <2>2. QED
    BY <2>1, UnsentCall, SameCall
<1>11. ASSUME NEW o \in Ops, Confirm(o), UNCHANGED world
      PROVE  CallInv'
  <2>1. /\ cl[o].pc # "done" /\ cl[o].try = 0 /\ UNCHANGED <<handler, flips>>
        /\ \/ \E r, d : Over(o, r, d) /\ r \notin CommittedResults
           \/ /\ Kept(o) /\ cl'[o].pc # "done" /\ cl'[o].try = cl[o].try
              /\ cl'[o].resolution = cl[o].resolution /\ cl'[o].seen = cl[o].seen
    BY <1>11, ConfirmFacts DEF Rest, daemon, At, Moves, ClientShape, ClientOK, PlaceInv,
       PlaceOK, Early, Sending, CommittedResults
  <2>2. QED
    BY <2>1, UnsentCall, SameCall
<1>12. ASSUME NEW o \in Ops, ConfirmPresence(o), UNCHANGED world
      PROVE  CallInv'
  <2>1. /\ cl[o].pc # "done" /\ cl[o].try = 0 /\ UNCHANGED <<handler, flips>>
        /\ \/ \E r, d : Over(o, r, d) /\ r \notin CommittedResults
           \/ /\ Kept(o) /\ cl'[o].pc # "done" /\ cl'[o].try = cl[o].try
              /\ cl'[o].resolution = cl[o].resolution /\ cl'[o].seen = cl[o].seen
    BY <1>12, ConfirmPresenceFacts DEF Rest, daemon, At, Moves, ClientShape, ClientOK,
       PlaceInv, PlaceOK, Early, CommittedResults
  <2>2. QED
    BY <2>1, UnsentCall, SameCall
<1>13. ASSUME NEW o \in Ops, Send(o), UNCHANGED world
      PROVE  CallInv'
  <2>1. /\ At(o, "send") /\ UNCHANGED flips /\ Moves(o, {"pc", "try"}) /\ cl'[o].pc = "await"
        /\ cl'[o].try = cl[o].try + 1 /\ handler' = [handler EXCEPT ![o][cl[o].try + 1] = "sent"]
    BY <1>13, SendFacts DEF ClientShape, ClientOK
  <2>2. cl[o].try \in Nat /\ cl[o].try + 1 \in Attempts /\ 1 \in Attempts
    BY <2>1, CeremonyAssumption DEF At, PlaceInv, PlaceOK, ClientShape, ClientOK,
       CeremonyShape, Attempts
  <2>3. Reaches(o, cl[o].try + 1, "sent")
    BY <2>1, <2>2, ReachesFacts DEF CeremonyShape
  <2>4. Landed(o)' <=> Landed(o)
    BY <2>1 DEF Landed
  <2>5. \A k \in Attempts : k > cl'[o].try => handler'[o][k] = "idle"
    <3>1. \A k \in Attempts : k > cl[o].try + 1 => k > cl[o].try /\ k # cl[o].try + 1
      BY <2>2, CeremonyAssumption DEF Attempts
    <3>2. \A k \in Attempts : k > cl[o].try => handler[o][k] = "idle"
      BY <2>1 DEF At, CallInv, CallOK
    <3>3. QED
      BY <2>1, <2>3, <3>1, <3>2 DEF Reaches
  <2>6. cl'[o].try = 1 => ~Landed(o)
    BY <2>1, <2>2 DEF At, CallInv, CallOK
  <2>7. CallOK(o)'
    BY <2>1, <2>2, <2>3, <2>4, <2>5, <2>6 DEF At, Moves, Reaches, CallInv, CallOK
  <2>8. QED
    BY <2>1, <2>3, <2>7, MovesCall DEF Moves, Reaches
<1>14. ASSUME NEW o \in Ops, Receive(o), UNCHANGED world
      PROVE  CallInv'
  <2>1. At(o, "await") /\ UNCHANGED flips /\ handler' = [handler EXCEPT ![o][cl[o].try] = "lost"]
    BY <1>14, ReceiveFacts DEF ClientShape, ClientOK
  <2>2. cl[o].try \in Nat /\ cl[o].try \in Attempts /\ 1 \in Attempts
    BY <2>1, CeremonyAssumption, SMTT(60) DEF At, PlaceInv, PlaceOK, ClientShape, ClientOK,
       CeremonyShape, Attempts
  <2>3. Reaches(o, cl[o].try, "lost")
    BY <2>1, <2>2, ReachesFacts DEF CeremonyShape
  <2>4. Landed(o)' <=> Landed(o)
    BY <2>1 DEF Landed
  <2>5. CASE /\ Over(o, "stale_stage_conflict", "unchecked")
             /\ cl[o].try = 1 /\ handler[o][cl[o].try] = "denied"
    <3>a. \A k \in Attempts : k = 1 \/ k > 1
      BY CeremonyAssumption DEF Attempts
    <3>b. ~Landed(o) /\ \A k \in Attempts : k > 1 => handler[o][k] = "idle"
      BY <2>1, <2>2, <2>5 DEF At, CallInv, CallOK
    <3>1. ~Landed(o) /\ \A k \in Attempts : handler'[o][k] # "sent"
      BY <2>3, <2>5, <3>a, <3>b DEF Reaches
    <3>2. Unknown.occ # o
      BY CeremonyAssumption DEF Unknown
    <3>3. CallOK(o)'
      BY <2>3, <2>4, <2>5, <3>1, <3>2 DEF Over, Reaches, CallInv, CallOK, CommittedResults
    <3>4. QED
      BY <2>1, <2>3, <2>5, <3>3, MovesCall DEF Over, Reaches
  <2>6. CASE /\ Moves(o, {"pc", "resolution"})
             /\ handler[o][cl[o].try] \in {"committed", "already"}
             /\ cl'[o].pc = IF form[o] = "preset" THEN "names" ELSE "observe"
    <3>1. Landed(o)
      BY <2>2, <2>6 DEF CallInv, CallOK
    <3>2. CallOK(o)'
      BY <2>1, <2>2, <2>3, <2>4, <2>6, <3>1 DEF At, Moves, Reaches, CallInv, CallOK
    <3>3. QED
      BY <2>1, <2>3, <2>6, <3>2, MovesCall DEF Moves, Reaches
  <2>7. CASE Moves(o, {"pc"}) /\ cl'[o].pc = "poll"
    <3>1. CallOK(o)'
      BY <2>1, <2>2, <2>3, <2>4, <2>7 DEF At, Moves, Reaches, CallInv, CallOK
    <3>2. QED
      BY <2>1, <2>3, <2>7, <3>1, MovesCall DEF Moves, Reaches
  <2>8. QED
    BY <1>14, <2>5, <2>6, <2>7, ReceiveFacts DEF ClientShape, ClientOK
<1>15. ASSUME NEW o \in Ops, Timeout(o), UNCHANGED world
      PROVE  CallInv'
  <2>1. /\ At(o, "await") /\ UNCHANGED flips /\ Moves(o, {"pc"}) /\ cl'[o].pc = "poll"
        /\ handler' = [handler EXCEPT ![o][cl[o].try] = IF @ \in Replies THEN "lost" ELSE @]
    BY <1>15, TimeoutFacts DEF ClientShape, ClientOK
  <2>2. cl[o].try \in Nat /\ cl[o].try \in Attempts /\ 1 \in Attempts
    BY <2>1, CeremonyAssumption DEF At, PlaceInv, PlaceOK, ClientShape, ClientOK,
       CeremonyShape, Attempts
  <2>3. PICK v : v \in {"lost", handler[o][cl[o].try]} /\ Reaches(o, cl[o].try, v)
    BY <2>1, <2>2 DEF CeremonyShape, Reaches
  <2>4. Landed(o)' <=> Landed(o)
    BY <2>1 DEF Landed
  <2>5. CallOK(o)'
    BY <2>1, <2>2, <2>3, <2>4 DEF At, Moves, Reaches, CallInv, CallOK
  <2>6. QED
    BY <2>1, <2>3, <2>5, MovesCall DEF Moves, Reaches
<1>16. ASSUME NEW o \in Ops, Poll(o), UNCHANGED world
      PROVE  CallInv'
  <2>1. At(o, "poll") /\ UNCHANGED <<handler, flips>> /\ form[o] \in {"apply", "preset", "rules"}
    BY <1>16 DEF Poll, At, daemon, PlaceInv, PlaceOK, Sending
  <2>2. CASE Over(o, "commit_outcome_unknown", "unchecked")
    BY <2>1, <2>2, OverCall DEF CommittedResults
  <2>3. CASE (\E s \in Answers : s.occ = o) /\ Moves(o, {"pc", "resolution", "was"}) /\ cl'[o].pc # "done"
    BY <2>1, <2>3, SeenHasLanded, SameCall DEF At, Moves
  <2>4. CASE Moves(o, {"pc", "was"}) /\ cl'[o].pc # "done"
    BY <2>1, <2>4, SameCall DEF At, Moves
  <2>5. CASE Moves(o, {"pc"}) /\ cl'[o].pc # "done"
    BY <2>1, <2>5, SameCall DEF At, Moves
  <2>6. QED
    BY <1>16, <2>1, <2>2, <2>3, <2>4, <2>5, PollFacts DEF ClientShape, ClientOK
<1>17. ASSUME NEW o \in Ops, Observe(o), UNCHANGED world
      PROVE  CallInv'
  <2>1. At(o, "observe") /\ UNCHANGED <<handler, flips>>
    BY <1>17 DEF Observe, At, daemon
  <2>2. Landed(o)
    BY <2>1 DEF At, PlaceInv, PlaceOK, CallInv, CallOK
  <2>3. CASE \E r, d : Over(o, r, d) /\ r \in CommittedResults
    BY <2>1, <2>2, <2>3, OverCall
  <2>4. CASE /\ Kept(o) /\ cl'[o].pc # "done" /\ cl'[o].try = cl[o].try
             /\ cl'[o].resolution = cl[o].resolution /\ cl'[o].seen = cl[o].seen
    BY <2>1, <2>4, SameCall DEF At
  <2>5. QED
    BY <1>17, <2>1, <2>3, <2>4, ObserveFacts DEF ClientShape, ClientOK, Moves, At,
       CommittedResults
<1>18. ASSUME NEW o \in Ops, ReadNames(o), UNCHANGED world
      PROVE  CallInv'
  <2>1. At(o, "names") /\ UNCHANGED <<handler, flips>>
    BY <1>18 DEF ReadNames, At, daemon
  <2>2. Landed(o) /\ cl[o].resolution \in CommittedResults
    BY <2>1 DEF At, PlaceInv, PlaceOK, CallInv, CallOK, CommittedResults
  <2>3. PICK r, d : Over(o, r, d) /\ r \in CommittedResults
    BY <1>18, <2>2, ReadNamesFacts DEF ClientShape, ClientOK, CommittedResults
  <2>4. QED
    BY <2>1, <2>2, <2>3, OverCall
<1>19. ASSUME NEW o \in Ops, Replace(o), UNCHANGED world
      PROVE  CallInv'
  <2>1. At(o, "replace") /\ UNCHANGED <<handler, flips>> /\ form[o] # "rules"
    BY <1>19 DEF Replace, At, daemon, PlaceInv, PlaceOK
  <2>2. cl[o].resolution = "none" => cl[o].try = 0
    BY <2>1 DEF At, PlaceInv, PlaceOK, Late
  <2>3. form[o] = "fix" => cl[o].resolution = "none"
    BY DEF PlaceInv, PlaceOK
  <2>4. CASE \E r, d : Over(o, r, d) /\ r \notin CommittedResults /\ cl[o].resolution = "none"
    BY <2>1, <2>2, <2>4, UnsentCall DEF At
  <2>5. CASE /\ Kept(o) /\ cl'[o].pc # "done" /\ cl'[o].try = cl[o].try
             /\ cl'[o].resolution = cl[o].resolution /\ cl'[o].seen = cl[o].seen
    BY <2>1, <2>5, SameCall DEF At
  <2>6. QED
    BY <1>19, <2>1, <2>3, <2>4, <2>5, ReplaceFacts DEF ClientShape, ClientOK, Moves,
       CommittedResults
<1>20. ASSUME NEW o \in Ops, Create(o), UNCHANGED world
      PROVE  CallInv'
  <2>1. /\ cl[o].pc # "done" /\ cl[o].try = 0 /\ UNCHANGED <<handler, flips>>
        /\ \/ \E r, d : Over(o, r, d) /\ r \notin CommittedResults
           \/ /\ Kept(o) /\ cl'[o].pc # "done" /\ cl'[o].try = cl[o].try
              /\ cl'[o].resolution = cl[o].resolution /\ cl'[o].seen = cl[o].seen
    BY <1>20, CreateFacts DEF Rest, daemon, At, Moves, ClientShape, ClientOK, PlaceInv,
       PlaceOK, Early, CommittedResults
  <2>2. QED
    BY <2>1, UnsentCall, SameCall
<1>21. ASSUME NEW o \in Ops, FinalDocument(o), UNCHANGED world
      PROVE  CallInv'
  <2>1. /\ cl[o].pc # "done" /\ UNCHANGED <<handler, flips>>
        /\ Kept(o) /\ cl'[o].pc # "done" /\ cl'[o].try = cl[o].try
        /\ cl'[o].resolution = cl[o].resolution /\ cl'[o].seen = cl[o].seen
    BY <1>21, FinalDocumentFacts DEF Rest, daemon, At, Moves, ClientShape, ClientOK
  <2>2. QED
    BY <2>1, SameCall
<1>22. ASSUME NEW o \in Ops, FinalStatus(o), UNCHANGED world
      PROVE  CallInv'
  <2>1. /\ cl[o].pc # "done" /\ UNCHANGED <<handler, flips>>
        /\ Kept(o) /\ cl'[o].pc # "done" /\ cl'[o].try = cl[o].try
        /\ cl'[o].resolution = cl[o].resolution /\ cl'[o].seen \in Answers
    BY <1>22, FinalStatusFacts DEF Rest, daemon, At, Moves, ClientShape, ClientOK
  <2>2. QED
    BY <2>1, SameCall, SeenHasLanded
<1>23. ASSUME NEW o \in Ops, FinalReport(o), UNCHANGED world
      PROVE  CallInv'
  <2>1. /\ At(o, "finalState") /\ UNCHANGED <<handler, flips>>
        /\ form[o] \in {"apply", "rules", "export", "init"}
        /\ cl[o].resolution \in {"none", "committed", "already_committed", "committed_after_reconciliation"}
        /\ form[o] \in {"export", "init"} => cl[o].resolution = "none"
        /\ cl[o].resolution = "none" /\ form[o] # "rules" => cl[o].try = 0
    BY <1>23 DEF FinalReport, At, daemon, PlaceInv, PlaceOK, Late
  <2>2. PICK r, d :
          /\ Over(o, r, d)
          /\ r \in CommittedResults =>
               cl[o].resolution # "none" \/ (form[o] = "rules" /\ cl[o].seen.occ = o)
          /\ r \notin CommittedResults \cup {"commit_outcome_unknown"} =>
               form[o] # "rules" /\ (form[o] = "apply" => cl[o].resolution = "none")
    BY <1>23, <2>1, FinalReportFacts DEF ClientShape, ClientOK
  <2>3. CASE r \in CommittedResults
    <3>1. Landed(o)
      BY <2>2, <2>3 DEF CallInv, CallOK
    <3>2. QED
      BY <2>1, <2>2, <2>3, <3>1, OverCall
  <2>4. CASE r \notin CommittedResults /\ r # "commit_outcome_unknown"
    BY <2>1, <2>2, <2>4, UnsentCall DEF At
  <2>5. CASE r \notin CommittedResults /\ r = "commit_outcome_unknown"
    BY <2>1, <2>2, <2>5, OverCall
  <2>6. QED
    BY <2>3, <2>4, <2>5
<1>24. ASSUME NEW o \in Ops, NEW k \in Attempts, CommitFault(o, k), UNCHANGED world
      PROVE  CallInv'
  <2>1. handler \in [Ops -> [Attempts -> Places]] /\ UNCHANGED <<cl, flips>> /\ Handling(o, k)
    BY <1>24 DEF CommitFault, CeremonyShape
  <2>2. PICK v : v \in {"error", "lost"} /\ Reaches(o, k, v)
    BY <1>24, <2>1, ReplyFacts DEF CommitFault, Then
  <2>3. \A x : Landed(x)' <=> Landed(x)
    BY <2>1 DEF Landed
  <2>4. QED
    BY <2>1, <2>2, <2>3, HandlesCall DEF Handling
<1>25. ASSUME NEW o \in Ops, NEW k \in Attempts, CommitRefused(o, k), UNCHANGED world
      PROVE  CallInv'
  <2>1. handler \in [Ops -> [Attempts -> Places]] /\ UNCHANGED <<cl, flips>> /\ Handling(o, k)
    BY <1>25 DEF CommitRefused, CeremonyShape
  <2>2. PICK v : v \in {"denied", "lost"} /\ Reaches(o, k, v)
    BY <1>25, <2>1, ReplyFacts DEF CommitRefused, Then
  <2>3. \A x : Landed(x)' <=> Landed(x)
    BY <2>1 DEF Landed
  <2>4. QED
    BY <2>1, <2>2, <2>3, HandlesCall DEF Handling
<1>26. ASSUME NEW o \in Ops, NEW k \in Attempts, CommitAgain(o, k), UNCHANGED world
      PROVE  CallInv'
  <2>1. handler \in [Ops -> [Attempts -> Places]] /\ UNCHANGED <<cl, flips>> /\ Handling(o, k)
    BY <1>26 DEF CommitAgain, CeremonyShape
  <2>0. Landed(o)
    BY <1>26, CeremonyAssumption DEF CommitAgain, IsLive, RecordInv
  <2>2. PICK v : v \in {"already", "resaving", "lost"} /\ Reaches(o, k, v)
    BY <1>26, <2>1, ReplyFacts DEF CommitAgain, Then
  <2>3. \A x : Landed(x)' <=> Landed(x)
    BY <2>1 DEF Landed
  <2>4. QED
    BY <2>0, <2>1, <2>2, <2>3, HandlesCall DEF Handling
<1>27. ASSUME NEW o \in Ops, NEW k \in Attempts, FlipFails(o, k), UNCHANGED world
      PROVE  CallInv'
  <2>1. handler \in [Ops -> [Attempts -> Places]] /\ UNCHANGED <<cl, flips>> /\ Handling(o, k)
    BY <1>27 DEF FlipFails, CeremonyShape
  <2>2. PICK v : v \in {"error", "lost"} /\ Reaches(o, k, v)
    BY <1>27, <2>1, ReplyFacts DEF FlipFails, Then
  <2>3. \A x : Landed(x)' <=> Landed(x)
    BY <2>1 DEF Landed
  <2>4. QED
    BY <2>1, <2>2, <2>3, HandlesCall DEF Handling
<1>28. ASSUME NEW o \in Ops, NEW k \in Attempts, Flip(o, k), UNCHANGED world
      PROVE  CallInv'
  <2>1. handler \in [Ops -> [Attempts -> Places]] /\ UNCHANGED cl /\ Handling(o, k)
    BY <1>28 DEF Flip, CeremonyShape
  <2>2. PICK v : v \in {"committed", "storing", "lost"} /\ Reaches(o, k, v)
    BY <1>28, <2>1, ReplyFacts DEF Flip, Then
  <2>3. \A x : Landed(x)' <=> Landed(x) \/ x = o
    BY <1>28, FlipFacts DEF Flip, RecordInv, CeremonyShape
  <2>4. QED
    BY <2>1, <2>2, <2>3, HandlesCall DEF Handling
<1>29. ASSUME NEW o \in Ops, NEW k \in Attempts, FlipUnsynced(o, k), UNCHANGED world
      PROVE  CallInv'
  BY <1>29 DEF FlipUnsynced, Safe
<1>30. ASSUME NEW o \in Ops, NEW k \in Attempts, StoreProfile(o, k), UNCHANGED world
      PROVE  CallInv'
  <2>1. handler \in [Ops -> [Attempts -> Places]] /\ UNCHANGED <<cl, flips>> /\ handler[o][k] \in {"storing", "resaving"}
    BY <1>30 DEF StoreProfile, Storing, CeremonyShape
  <2>2. PICK v : v \in {"already", "committed", "error", "lost"} /\ Reaches(o, k, v)
    BY <1>30, <2>1, ReplyFacts DEF StoreProfile
  <2>3. \A x : Landed(x)' <=> Landed(x)
    BY <2>1 DEF Landed
  <2>4. Landed(o)
    BY <2>1 DEF CallInv, CallOK
  <2>5. QED
    BY <2>1, <2>2, <2>3, <2>4, HandlesCall
<1>31. ASSUME NEW o \in Ops, SweepStaged(o), UNCHANGED world
      PROVE  CallInv'
  BY <1>31 DEF SweepStaged, CallInv, CallOK, Landed
<1>32. ASSUME Restart, UNCHANGED world
      PROVE  CallInv'
  <2>1. UNCHANGED <<cl, flips>>
    BY <1>32 DEF Restart, RecordInv
  <2>2. \A x : Landed(x)' <=> Landed(x)
    BY <2>1 DEF Landed
  <2>3. \A x \in Ops : \A j \in Attempts :
          handler'[x][j] = IF handler[x][j] \in {"sent", "storing", "resaving"} THEN "lost" ELSE handler[x][j]
    BY <1>32 DEF Restart
  <2>4. 1 \in Attempts
    BY CeremonyAssumption DEF Attempts
  <2>5. QED
    BY <2>1, <2>2, <2>3, <2>4 DEF CallInv, CallOK
<1>33. ASSUME Edit, UNCHANGED world
      PROVE  CallInv'
  BY <1>33 DEF Edit, daemon, CallInv, CallOK, Landed
<1>34. CASE UNCHANGED vars
  BY <1>34 DEF vars, CallInv, CallOK, Landed
<1>35. QED
  BY <1>1, <1>2, <1>3, <1>4, <1>5, <1>6, <1>7, <1>8, <1>9, <1>10, <1>11, <1>12, <1>13,
     <1>14, <1>15, <1>16, <1>17, <1>18, <1>19, <1>20, <1>21, <1>22, <1>23, <1>24, <1>25,
     <1>26, <1>27, <1>28, <1>29, <1>30, <1>31, <1>32, <1>33, <1>34 DEF Next, Propose,
     Resolve, Handle

(* A step that leaves what was reviewed and what is staged alone. *)
LEMMA KeepsReview ==
  ASSUME ReviewInv, flips \in Seq([by : Ops, over : Record]), NEW o \in Ops, Kept(o),
         UNCHANGED <<world, flips>>,
         \A x \in Ops : x # o => handler'[x] = handler[x] /\ staged'[x] = staged[x],
         (cl'[o].base = cl[o].base /\ cl'[o].cand = cl[o].cand) \/ ~Landed(o),
         ReviewOK(o)'
  PROVE  ReviewInv'
<1>1. \A L : Past(L)' <=> Past(L)
  BY DEF Past
<1>2. ASSUME NEW x \in Ops, x # o
      PROVE  ReviewOK(x)'
  <2>1. cl'[x] = cl[x] /\ handler'[x] = handler[x] /\ staged'[x] = staged[x] /\ form' = form
    BY <1>2 DEF Kept, form
  <2>2. \A L : Matches(x, L)' <=> Matches(x, L)
    BY <2>1 DEF Matches
  <2>3. (OneRule(x)' <=> OneRule(x)) /\ (Asking(x)' <=> Asking(x))
    BY <2>1, SMTT(60) DEF OneRule, Asking
  <2>4. QED
    BY <1>1, <2>1, <2>2, <2>3 DEF ReviewInv, ReviewOK
<1>3. ASSUME NEW i \in 1 .. Len(flips)
      PROVE  /\ Matches(flips[i].by, flips[i].over)'
             /\ form'[flips[i].by] = "rules" => OneRule(flips[i].by)'
  <2>a. flips[i] \in [by : Ops, over : Record]
    BY SeqElement
  <2>1. flips[i].by \in Ops
    BY <2>a
  <2>2. cl'[flips[i].by].base = cl[flips[i].by].base /\ cl'[flips[i].by].cand = cl[flips[i].by].cand
    BY <2>1 DEF Kept, Landed
  <2>3. QED
    BY <2>2, ZenonT(60) DEF ReviewInv, Matches, OneRule, form
<1>4. QED
  BY <1>2, <1>3 DEF ReviewInv

(* A step that asks nothing new keeps its baseline and its corpus. *)
LEMMA SameReview ==
  ASSUME ReviewInv, flips \in Seq([by : Ops, over : Record]), NEW o \in Ops, Kept(o),
         UNCHANGED <<world, flips, staged>>,
         \A x \in Ops : x # o => handler'[x] = handler[x],
         cl'[o].base = cl[o].base, cl'[o].cand = cl[o].cand,
         Asking(o)' => Asking(o) \/ (form[o] = "rules" /\ cl[o].pc = "presence") \/ form[o] = "preset",
         form[o] = "rules" /\ cl'[o].pc \in {"confirm", "stage", "recheckRules"} =>
           cl[o].pc \in {"confirm", "stage", "recheckRules", "presence"},
         form[o] = "rules" => cl'[o].pc # "presence"
  PROVE  ReviewInv'
<1>1. \A L : Past(L)' <=> Past(L)
  BY DEF Past
<1>2. ReviewOK(o)'
  BY <1>1, ZenonT(60) DEF ReviewInv, ReviewOK, Matches, OneRule, form
<1>3. QED
  BY <1>2, KeepsReview

(* A command that has sent nothing asks nothing. *)
LEMMA EarlyAsks ==
  ASSUME CallInv, CeremonyShape, ClientShape, NEW o \in Ops, cl[o].pc # "done", cl[o].try = 0
  PROVE  ~Landed(o) /\ \A k \in Attempts : handler[o][k] # "sent"
  BY CeremonyAssumption DEF CallInv, CallOK, Attempts

(* Calls that move on leave nothing new to ask. *)
LEMMA HandlesReview ==
  ASSUME ReviewInv, RecordInv, UNCHANGED <<world, cl, flips>>,
         \A x \in Ops : staged'[x] \subseteq staged[x],
         \A x \in Ops : Asking(x)' => Asking(x)
  PROVE  ReviewInv'
<1>1. \A L : Past(L)' <=> Past(L)
  BY DEF Past
<1>2. \A x \in Ops : ReviewOK(x)'
  BY <1>1 DEF ReviewInv, ReviewOK, Matches, OneRule, form
<1>3. \A i \in 1 .. Len(flips) :
        /\ Matches(flips[i].by, flips[i].over)'
        /\ form'[flips[i].by] = "rules" => OneRule(flips[i].by)'
  BY DEF ReviewInv, Matches, OneRule, form
<1>4. QED
  BY <1>2, <1>3 DEF ReviewInv

(* A call that is not sent asks for nothing. *)
LEMMA ReachesAsks ==
  ASSUME NEW o \in Ops, NEW k \in Attempts, NEW v, Reaches(o, k, v), v # "sent", UNCHANGED cl
  PROVE  \A x \in Ops : Asking(x)' => Asking(x)
  BY DEF Reaches, Asking

(* Every step keeps what may be replaced to what was shown. *)
LEMMA ReviewStep ==
  ASSUME Safe, CeremonyShape, ClientShape, PlaceInv, RecordInv, CallInv, ReviewInv, [Next]_vars
  PROVE  ReviewInv'
<1>1. ASSUME NEW o \in Ops, ReadDocument(o), UNCHANGED world
      PROVE  ReviewInv'
  <2>1. /\ cl[o].pc # "done" /\ cl[o].try = 0 /\ UNCHANGED <<handler, flips, staged>> /\ form[o] # "rules"
        /\ Kept(o) /\ cl'[o].pc \notin Sending
    BY <1>1, ReadDocumentFacts DEF Rest, daemon, At, Moves, Over, ClientShape, ClientOK,
       PlaceInv, PlaceOK, Early, Sending
  <2>2. ~Landed(o) /\ \A k \in Attempts : handler[o][k] # "sent"
    BY <2>1, EarlyAsks
  <2>3. ReviewOK(o)'
    BY <1>1, <2>1, <2>2 DEF ReviewOK, Asking, form
  <2>4. QED
    BY <1>1, <2>1, <2>2, <2>3, KeepsReview DEF RecordInv
<1>2. ASSUME NEW o \in Ops, CheckDocument(o), UNCHANGED world
      PROVE  ReviewInv'
  <2>1. /\ cl[o].pc # "done" /\ cl[o].try = 0 /\ UNCHANGED <<handler, flips, staged>> /\ form[o] # "rules"
        /\ Kept(o) /\ cl'[o].pc \notin Sending
    BY <1>2, CheckDocumentFacts DEF Rest, daemon, At, Moves, Over, ClientShape, ClientOK,
       PlaceInv, PlaceOK, Early, Sending
  <2>2. ~Landed(o) /\ \A k \in Attempts : handler[o][k] # "sent"
    BY <2>1, EarlyAsks
  <2>3. ReviewOK(o)'
    BY <1>2, <2>1, <2>2 DEF ReviewOK, Asking, form
  <2>4. QED
    BY <1>2, <2>1, <2>2, <2>3, KeepsReview DEF RecordInv
<1>3. ASSUME NEW o \in Ops, CheckNoDocument(o), UNCHANGED world
      PROVE  ReviewInv'
  <2>1. /\ cl[o].pc # "done" /\ cl[o].try = 0 /\ UNCHANGED <<handler, flips, staged>> /\ form[o] # "rules"
        /\ Kept(o) /\ cl'[o].pc \notin Sending
    BY <1>3, CheckNoDocumentFacts DEF Rest, daemon, At, Moves, Over, ClientShape, ClientOK,
       PlaceInv, PlaceOK, Early, Sending
  <2>2. ~Landed(o) /\ \A k \in Attempts : handler[o][k] # "sent"
    BY <2>1, EarlyAsks
  <2>3. ReviewOK(o)'
    BY <1>3, <2>1, <2>2 DEF ReviewOK, Asking, form
  <2>4. QED
    BY <1>3, <2>1, <2>2, <2>3, KeepsReview DEF RecordInv
<1>4. ASSUME NEW o \in Ops, PrepareBody(o), UNCHANGED world
      PROVE  ReviewInv'
  <2>1. /\ cl[o].pc # "done" /\ cl[o].try = 0 /\ UNCHANGED <<handler, flips, staged>> /\ form[o] # "rules"
        /\ Kept(o) /\ cl'[o].pc \notin Sending
    BY <1>4, PrepareBodyFacts DEF Rest, daemon, At, Moves, Over, ClientShape, ClientOK,
       PlaceInv, PlaceOK, Early, Sending
  <2>2. ~Landed(o) /\ \A k \in Attempts : handler[o][k] # "sent"
    BY <2>1, EarlyAsks
  <2>3. ReviewOK(o)'
    BY <1>4, <2>1, <2>2 DEF ReviewOK, Asking, form
  <2>4. QED
    BY <1>4, <2>1, <2>2, <2>3, KeepsReview DEF RecordInv
<1>5. ASSUME NEW o \in Ops, ReadRules(o), UNCHANGED world
      PROVE  ReviewInv'
  <2>1. At(o, "start") /\ form[o] = "rules" /\ UNCHANGED <<handler, flips, staged>>
    BY <1>5 DEF ReadRules, daemon
  <2>2. ~Landed(o) /\ \A k \in Attempts : handler[o][k] # "sent"
    BY <2>1, EarlyAsks DEF At, PlaceInv, PlaceOK, Early
  <2>3. CASE Over(o, "refused", "unchecked")
    <3>1. ReviewOK(o)'
      BY <1>5, <2>1, <2>2, <2>3 DEF Over, ReviewOK, Asking, Sending, form
    <3>2. QED
      BY <1>5, <2>1, <2>2, <2>3, <3>1, KeepsReview DEF Over, RecordInv
  <2>4. CASE ~Over(o, "refused", "unchecked")
    <3>1. /\ Moves(o, {"pc", "base", "cand"}) /\ cl'[o].pc = "confirm" /\ cl'[o].base = Snapshot
          /\ \/ /\ Snapshot.kind \in {"absent", "served"}
                /\ \E r \in Rules : cl'[o].cand = IF r \in live.corpus THEN live.corpus \ {r}
                                                  ELSE live.corpus \cup {r}
             \/ Snapshot.kind = "corrupt" /\ \E r \in Rules : cl'[o].cand = {r}
      BY <1>5, <2>4, ReadRulesFacts DEF ClientShape, ClientOK
    <3>2. OneRule(o)'
      <4>1. CASE Snapshot.kind = "corrupt"
        BY <3>1, <4>1 DEF OneRule
      <4>2. CASE Snapshot.kind \in {"absent", "served"}
        <5>1. PICK r \in Rules : cl'[o].cand = IF r \in live.corpus THEN live.corpus \ {r}
                                               ELSE live.corpus \cup {r}
          BY <3>1, <4>2
        <5>2. cl'[o].base.corpus = live.corpus /\ cl'[o].base.kind # "corrupt"
          BY <3>1, <4>2, AnswerFacts DEF CeremonyShape
        <5>3. Change(live.corpus, cl'[o].cand) = {r}
          <6>1. PICK x, y : x = live.corpus /\ y = cl'[o].cand
            OBVIOUS
          <6>2. Change(x, y) = {r}
            BY <5>1, <6>1 DEF Change
          <6>3. QED
            BY <6>1, <6>2
        <5>4. QED
          BY <5>2, <5>3 DEF OneRule
      <4>3. QED
        BY <3>1, <4>1, <4>2
    <3>3. ReviewOK(o)'
      BY <1>5, <2>1, <2>2, <3>1, <3>2 DEF ReviewOK, Asking, Sending, form
    <3>4. QED
      BY <1>5, <2>1, <2>2, <3>1, <3>3, KeepsReview DEF Moves, RecordInv
  <2>5. QED
    BY <2>3, <2>4
<1>6. ASSUME NEW o \in Ops, ReadBaseline(o), UNCHANGED world
      PROVE  ReviewInv'
  <2>0. form[o] \in {"apply", "preset", "export", "init"} /\ DOMAIN cl = Ops /\ DOMAIN cl[o] = Fields
    BY <1>6 DEF ReadBaseline, At, PlaceInv, PlaceOK, ClientShape, ClientOK
  <2>1. /\ cl[o].pc # "done" /\ cl[o].try = 0 /\ UNCHANGED <<handler, flips, staged>> /\ form[o] # "rules"
        /\ Kept(o) /\ cl'[o].pc \notin Sending
    BY <1>6, <2>0, ReadBaselineFacts DEF Rest, daemon, At, Moves, Over, ClientShape,
       ClientOK, PlaceInv, PlaceOK, Early, Sending
  <2>2. ~Landed(o) /\ \A k \in Attempts : handler[o][k] # "sent"
    BY <2>1, EarlyAsks
  <2>3. ReviewOK(o)'
    BY <1>6, <2>1, <2>2 DEF ReviewOK, Asking, form
  <2>4. QED
    BY <1>6, <2>1, <2>2, <2>3, KeepsReview DEF RecordInv
<1>7. ASSUME NEW o \in Ops, Stage(o), UNCHANGED world
      PROVE  ReviewInv'
  <2>1. At(o, "stage") /\ UNCHANGED <<handler, flips>> /\ form[o] \in {"apply", "preset", "rules"}
    BY <1>7 DEF Stage, At, PlaceInv, PlaceOK
  <2>2. ~Landed(o) /\ \A k \in Attempts : handler[o][k] # "sent"
    BY <2>1, EarlyAsks DEF At, PlaceInv, PlaceOK, Early
  <2>3. /\ \A x \in Ops : x # o => staged'[x] = staged[x]
        /\ Kept(o) /\ cl'[o].base = cl[o].base /\ cl'[o].cand = cl[o].cand
        /\ cl'[o].pc \notin Sending /\ (form[o] = "rules" => cl'[o].pc # "presence")
    BY <1>7, <2>1, StageFacts DEF Moves, Over, ClientShape, ClientOK, CeremonyShape, Sending
  <2>4. form[o] = "rules" => OneRule(o)
    BY <2>1 DEF At, ReviewInv, ReviewOK
  <2>5. ReviewOK(o)'
    BY <1>7, <2>1, <2>2, <2>3, <2>4 DEF ReviewOK, Asking, OneRule, form
  <2>6. QED
    BY <1>7, <2>1, <2>2, <2>3, <2>5, KeepsReview DEF RecordInv
<1>8. ASSUME NEW o \in Ops, RecheckDocument(o), UNCHANGED world
      PROVE  ReviewInv'
  <2>1. /\ UNCHANGED <<handler, flips, staged>> /\ Kept(o)
        /\ cl'[o].base = cl[o].base /\ cl'[o].cand = cl[o].cand
        /\ cl'[o].pc \in Sending => cl[o].pc \in Sending
        /\ cl'[o].pc \notin {"confirm", "stage", "recheckRules", "presence"}
    BY <1>8, RecheckDocumentFacts DEF Rest, daemon, At, Moves, Over, ClientShape, ClientOK,
       PlaceInv, PlaceOK, Sending
  <2>2. Asking(o)' => Asking(o)
    BY <2>1 DEF Asking
  <2>3. QED
    BY <1>8, <2>1, <2>2, SameReview DEF RecordInv
<1>9. ASSUME NEW o \in Ops, RecheckLive(o), UNCHANGED world
      PROVE  ReviewInv'
  <2>1. /\ At(o, "recheckLive") /\ UNCHANGED <<handler, flips, staged>> /\ form[o] = "apply"
        /\ cl[o].base.kind # "unknown"
    BY <1>9 DEF RecheckLive, At, daemon, PlaceInv, PlaceOK
  <2>2. ~Landed(o) /\ \A k \in Attempts : handler[o][k] # "sent"
    BY <2>1, EarlyAsks DEF At, PlaceInv, PlaceOK, Early
  <2>3. CASE Over(o, "refused", "unchecked")
    <3>1. ReviewOK(o)'
      BY <1>9, <2>1, <2>2, <2>3 DEF Over, ReviewOK, Asking, Sending, form
    <3>2. QED
      BY <1>9, <2>1, <2>2, <2>3, <3>1, KeepsReview DEF Over, RecordInv
  <2>4. CASE Moves(o, {"pc"}) /\ cl[o].base \in Answers
    <3>1. cl[o].base.occ = live.occ /\ cl[o].base.corpus = live.corpus
      BY <2>1, <2>4, AnswerFacts DEF CeremonyShape
    <3>2. \A L \in staged[o] : L = live \/ Past(L)
      BY DEF RecordInv
    <3>3. \A L : Past(L)' <=> Past(L)
      BY <2>1 DEF Past
    <3>4. \A L \in staged'[o] : Past(L)' \/ Matches(o, L)'
      BY <1>9, <2>1, <2>4, <3>1, <3>2, <3>3 DEF Moves, Matches, form
    <3>5. ReviewOK(o)'
      BY <1>9, <2>1, <3>4 DEF ReviewOK, form
    <3>6. QED
      BY <1>9, <2>1, <2>2, <2>4, <3>5, KeepsReview DEF Moves, RecordInv
  <2>5. QED
    BY <1>9, <2>3, <2>4, RecheckLiveFacts DEF ClientShape, ClientOK
<1>10. ASSUME NEW o \in Ops, RecheckRules(o), UNCHANGED world
      PROVE  ReviewInv'
  <2>1. At(o, "recheckRules") /\ UNCHANGED <<handler, flips, staged>> /\ form[o] = "rules"
    BY <1>10 DEF RecheckRules, At, daemon, PlaceInv, PlaceOK
  <2>2. ~Landed(o) /\ \A k \in Attempts : handler[o][k] # "sent"
    BY <2>1, EarlyAsks DEF At, PlaceInv, PlaceOK, Early
  <2>3. CASE Over(o, "refused", "unchecked")
    <3>1. ReviewOK(o)'
      BY <1>10, <2>1, <2>2, <2>3 DEF Over, ReviewOK, Asking, Sending, form
    <3>2. QED
      BY <1>10, <2>1, <2>2, <2>3, <3>1, KeepsReview DEF Over, RecordInv
  <2>4. CASE /\ Moves(o, {"pc"}) /\ cl'[o].pc = "presence"
             /\ \E s \in Answers : RulesUnchanged(o, s)
    <3>1. RulesUnchanged(o, Snapshot)
      BY <2>4, AnswerFacts DEF RulesUnchanged, CeremonyShape
    <3>2. IF cl[o].base.kind = "corrupt" THEN live.kind = "corrupt"
          ELSE live.kind # "corrupt" /\ live.corpus = cl[o].base.corpus
      BY <3>1, AnswerFacts DEF RulesUnchanged, CeremonyShape
    <3>3. \A L \in staged[o] : L = live \/ Past(L)
      BY DEF RecordInv
    <3>4. \A L : Past(L)' <=> Past(L)
      BY <2>1 DEF Past
    <3>5. \A L \in staged'[o] : Past(L)' \/ Matches(o, L)'
      BY <1>10, <2>1, <2>4, <3>2, <3>3, <3>4 DEF Moves, Matches, form
    <3>6. OneRule(o)'
      BY <2>1, <2>4 DEF At, Moves, ReviewInv, ReviewOK, OneRule
    <3>7. ReviewOK(o)'
      BY <1>10, <2>1, <3>5, <3>6 DEF ReviewOK
    <3>8. QED
      BY <1>10, <2>1, <2>2, <2>4, <3>7, KeepsReview DEF Moves, RecordInv
  <2>5. QED
    BY <1>10, <2>3, <2>4, RecheckRulesFacts DEF ClientShape, ClientOK
<1>11. ASSUME NEW o \in Ops, Confirm(o), UNCHANGED world
      PROVE  ReviewInv'
  <2>1. /\ UNCHANGED <<handler, flips, staged>> /\ Kept(o) /\ cl[o].pc = "confirm"
        /\ cl'[o].base = cl[o].base /\ cl'[o].cand = cl[o].cand /\ cl'[o].pc \notin Sending
        /\ form[o] = "rules" => cl'[o].pc # "presence"
    BY <1>11, ConfirmFacts DEF Rest, daemon, At, Moves, Over, ClientShape, ClientOK,
       PlaceInv, PlaceOK, Sending
  <2>2. Asking(o)' => Asking(o)
    BY <2>1 DEF Asking
  <2>3. QED
    BY <1>11, <2>1, <2>2, SameReview DEF RecordInv
<1>12. ASSUME NEW o \in Ops, ConfirmPresence(o), UNCHANGED world
      PROVE  ReviewInv'
  <2>1. /\ UNCHANGED <<handler, flips, staged>> /\ Kept(o) /\ cl[o].pc = "presence"
        /\ cl'[o].base = cl[o].base /\ cl'[o].cand = cl[o].cand
        /\ cl'[o].pc \in Sending => form[o] \in {"rules", "preset"}
        /\ cl'[o].pc \notin {"confirm", "stage", "recheckRules", "presence"}
    BY <1>12, ConfirmPresenceFacts DEF Rest, daemon, At, Moves, Over, ClientShape, ClientOK,
       PlaceInv, PlaceOK, Sending
  <2>2. Asking(o)' => Asking(o) \/ form[o] \in {"rules", "preset"}
    BY <2>1 DEF Asking
  <2>3. QED
    BY <1>12, <2>1, <2>2, SameReview DEF RecordInv
<1>13. ASSUME NEW o \in Ops, Send(o), UNCHANGED world
      PROVE  ReviewInv'
  <2>1. /\ UNCHANGED <<flips, staged>> /\ Kept(o) /\ cl[o].pc \in Sending
        /\ cl'[o].base = cl[o].base /\ cl'[o].cand = cl[o].cand
        /\ cl'[o].pc \notin {"confirm", "stage", "recheckRules", "presence"}
    BY <1>13, SendFacts DEF Rest, daemon, At, Moves, Over, ClientShape, ClientOK, PlaceInv,
       PlaceOK, Sending
  <2>2. \A x \in Ops : x # o => handler'[x] = handler[x]
    BY <1>13, SendFacts DEF Rest, daemon, ClientShape, ClientOK, CeremonyShape
  <2>3. QED
    BY <1>13, <2>1, <2>2, SameReview DEF RecordInv, Asking
<1>14. ASSUME NEW o \in Ops, Receive(o), UNCHANGED world
      PROVE  ReviewInv'
  <2>1. /\ UNCHANGED <<flips, staged>> /\ Kept(o) /\ cl[o].pc \in Sending
        /\ cl'[o].base = cl[o].base /\ cl'[o].cand = cl[o].cand
        /\ cl'[o].pc \notin {"confirm", "stage", "recheckRules", "presence"}
    BY <1>14, ReceiveFacts DEF Rest, daemon, At, Moves, Over, ClientShape, ClientOK,
       PlaceInv, PlaceOK, Sending
  <2>2. \A x \in Ops : x # o => handler'[x] = handler[x]
    BY <1>14, ReceiveFacts DEF Rest, daemon, ClientShape, ClientOK, CeremonyShape
  <2>3. QED
    BY <1>14, <2>1, <2>2, SameReview DEF RecordInv, Asking
<1>15. ASSUME NEW o \in Ops, Timeout(o), UNCHANGED world
      PROVE  ReviewInv'
  <2>1. /\ UNCHANGED <<flips, staged>> /\ Kept(o) /\ cl[o].pc \in Sending
        /\ cl'[o].base = cl[o].base /\ cl'[o].cand = cl[o].cand
        /\ cl'[o].pc \notin {"confirm", "stage", "recheckRules", "presence"}
    BY <1>15, TimeoutFacts DEF Rest, daemon, At, Moves, Over, ClientShape, ClientOK,
       PlaceInv, PlaceOK, Sending
  <2>2. \A x \in Ops : x # o => handler'[x] = handler[x]
    BY <1>15, TimeoutFacts DEF Rest, daemon, ClientShape, ClientOK, CeremonyShape
  <2>3. QED
    BY <1>15, <2>1, <2>2, SameReview DEF RecordInv, Asking
<1>16. ASSUME NEW o \in Ops, Poll(o), UNCHANGED world
      PROVE  ReviewInv'
  <2>1. /\ UNCHANGED <<flips, staged>> /\ Kept(o) /\ cl[o].pc \in Sending
        /\ cl'[o].base = cl[o].base /\ cl'[o].cand = cl[o].cand
        /\ cl'[o].pc \notin {"confirm", "stage", "recheckRules", "presence"}
    BY <1>16, PollFacts DEF Rest, daemon, At, Moves, Over, ClientShape, ClientOK, PlaceInv,
       PlaceOK, Sending
  <2>2. \A x \in Ops : x # o => handler'[x] = handler[x]
    BY <1>16, PollFacts DEF Rest, daemon, ClientShape, ClientOK, CeremonyShape
  <2>3. QED
    BY <1>16, <2>1, <2>2, SameReview DEF RecordInv, Asking
<1>17. ASSUME NEW o \in Ops, Observe(o), UNCHANGED world
      PROVE  ReviewInv'
  <2>1. /\ UNCHANGED <<handler, flips, staged>> /\ Kept(o)
        /\ cl'[o].base = cl[o].base /\ cl'[o].cand = cl[o].cand
        /\ cl'[o].pc \in Sending => cl[o].pc \in Sending
        /\ cl'[o].pc \notin {"confirm", "stage", "recheckRules", "presence"}
    BY <1>17, ObserveFacts DEF Rest, daemon, At, Moves, Over, ClientShape, ClientOK,
       PlaceInv, PlaceOK, Sending
  <2>2. Asking(o)' => Asking(o)
    BY <2>1 DEF Asking
  <2>3. QED
    BY <1>17, <2>1, <2>2, SameReview DEF RecordInv
<1>18. ASSUME NEW o \in Ops, ReadNames(o), UNCHANGED world
      PROVE  ReviewInv'
  <2>1. /\ UNCHANGED <<handler, flips, staged>> /\ Kept(o)
        /\ cl'[o].base = cl[o].base /\ cl'[o].cand = cl[o].cand
        /\ cl'[o].pc \in Sending => cl[o].pc \in Sending
        /\ cl'[o].pc \notin {"confirm", "stage", "recheckRules", "presence"}
    BY <1>18, ReadNamesFacts DEF Rest, daemon, At, Moves, Over, ClientShape, ClientOK,
       PlaceInv, PlaceOK, Sending
  <2>2. Asking(o)' => Asking(o)
    BY <2>1 DEF Asking
  <2>3. QED
    BY <1>18, <2>1, <2>2, SameReview DEF RecordInv
<1>19. ASSUME NEW o \in Ops, Replace(o), UNCHANGED world
      PROVE  ReviewInv'
  <2>1. /\ UNCHANGED <<handler, flips, staged>> /\ Kept(o)
        /\ cl'[o].base = cl[o].base /\ cl'[o].cand = cl[o].cand
        /\ cl'[o].pc \in Sending => cl[o].pc \in Sending
        /\ cl'[o].pc \notin {"confirm", "stage", "recheckRules", "presence"}
    BY <1>19, ReplaceFacts DEF Rest, daemon, At, Moves, Over, ClientShape, ClientOK,
       PlaceInv, PlaceOK, Sending
  <2>2. Asking(o)' => Asking(o)
    BY <2>1 DEF Asking
  <2>3. QED
    BY <1>19, <2>1, <2>2, SameReview DEF RecordInv
<1>20. ASSUME NEW o \in Ops, Create(o), UNCHANGED world
      PROVE  ReviewInv'
  <2>1. /\ UNCHANGED <<handler, flips, staged>> /\ Kept(o)
        /\ cl'[o].base = cl[o].base /\ cl'[o].cand = cl[o].cand
        /\ cl'[o].pc \in Sending => cl[o].pc \in Sending
        /\ cl'[o].pc \notin {"confirm", "stage", "recheckRules", "presence"}
    BY <1>20, CreateFacts DEF Rest, daemon, At, Moves, Over, ClientShape, ClientOK,
       PlaceInv, PlaceOK, Sending
  <2>2. Asking(o)' => Asking(o)
    BY <2>1 DEF Asking
  <2>3. QED
    BY <1>20, <2>1, <2>2, SameReview DEF RecordInv
<1>21. ASSUME NEW o \in Ops, FinalDocument(o), UNCHANGED world
      PROVE  ReviewInv'
  <2>1. /\ UNCHANGED <<handler, flips, staged>> /\ Kept(o)
        /\ cl'[o].base = cl[o].base /\ cl'[o].cand = cl[o].cand
        /\ cl'[o].pc \in Sending => cl[o].pc \in Sending
        /\ cl'[o].pc \notin {"confirm", "stage", "recheckRules", "presence"}
    BY <1>21, FinalDocumentFacts DEF Rest, daemon, At, Moves, Over, ClientShape, ClientOK,
       PlaceInv, PlaceOK, Sending
  <2>2. Asking(o)' => Asking(o)
    BY <2>1 DEF Asking
  <2>3. QED
    BY <1>21, <2>1, <2>2, SameReview DEF RecordInv
<1>22. ASSUME NEW o \in Ops, FinalStatus(o), UNCHANGED world
      PROVE  ReviewInv'
  <2>1. /\ UNCHANGED <<handler, flips, staged>> /\ Kept(o)
        /\ cl'[o].base = cl[o].base /\ cl'[o].cand = cl[o].cand
        /\ cl'[o].pc \in Sending => cl[o].pc \in Sending
        /\ cl'[o].pc \notin {"confirm", "stage", "recheckRules", "presence"}
    BY <1>22, FinalStatusFacts DEF Rest, daemon, At, Moves, Over, ClientShape, ClientOK,
       PlaceInv, PlaceOK, Sending
  <2>2. Asking(o)' => Asking(o)
    BY <2>1 DEF Asking
  <2>3. QED
    BY <1>22, <2>1, <2>2, SameReview DEF RecordInv
<1>23. ASSUME NEW o \in Ops, FinalReport(o), UNCHANGED world
      PROVE  ReviewInv'
  <2>0. /\ form[o] \in {"apply", "rules", "export", "init"} /\ DOMAIN cl = Ops /\ DOMAIN cl[o] = Fields
        /\ cl[o].resolution \in {"none", "committed", "already_committed", "committed_after_reconciliation"}
    BY <1>23 DEF FinalReport, At, PlaceInv, PlaceOK, ClientShape, ClientOK
  <2>1. /\ UNCHANGED <<handler, flips, staged>> /\ Kept(o)
        /\ cl'[o].base = cl[o].base /\ cl'[o].cand = cl[o].cand
        /\ cl'[o].pc \in Sending => cl[o].pc \in Sending
        /\ cl'[o].pc \notin {"confirm", "stage", "recheckRules", "presence"}
    BY <1>23, <2>0, FinalReportFacts DEF Rest, daemon, At, Moves, Over, Sending
  <2>2. Asking(o)' => Asking(o)
    BY <2>1 DEF Asking
  <2>3. QED
    BY <1>23, <2>1, <2>2, SameReview DEF RecordInv
<1>24. ASSUME NEW o \in Ops, NEW k \in Attempts, CommitFault(o, k), UNCHANGED world
      PROVE  ReviewInv'
  <2>1. handler \in [Ops -> [Attempts -> Places]] /\ UNCHANGED <<cl, flips, staged>>
    BY <1>24 DEF CommitFault, CeremonyShape
  <2>2. PICK v : v # "sent" /\ Reaches(o, k, v)
    BY <1>24, <2>1, ReplyFacts DEF CommitFault, Then
  <2>3. QED
    BY <1>24, <2>1, <2>2, ReachesAsks, HandlesReview
<1>25. ASSUME NEW o \in Ops, NEW k \in Attempts, CommitRefused(o, k), UNCHANGED world
      PROVE  ReviewInv'
  <2>1. handler \in [Ops -> [Attempts -> Places]] /\ UNCHANGED <<cl, flips, staged>>
    BY <1>25 DEF CommitRefused, CeremonyShape
  <2>2. PICK v : v # "sent" /\ Reaches(o, k, v)
    BY <1>25, <2>1, ReplyFacts DEF CommitRefused, Then
  <2>3. QED
    BY <1>25, <2>1, <2>2, ReachesAsks, HandlesReview
<1>26. ASSUME NEW o \in Ops, NEW k \in Attempts, CommitAgain(o, k), UNCHANGED world
      PROVE  ReviewInv'
  <2>1. handler \in [Ops -> [Attempts -> Places]] /\ UNCHANGED <<cl, flips, staged>>
    BY <1>26 DEF CommitAgain, CeremonyShape
  <2>2. PICK v : v # "sent" /\ Reaches(o, k, v)
    BY <1>26, <2>1, ReplyFacts DEF CommitAgain, Then
  <2>3. QED
    BY <1>26, <2>1, <2>2, ReachesAsks, HandlesReview
<1>27. ASSUME NEW o \in Ops, NEW k \in Attempts, FlipFails(o, k), UNCHANGED world
      PROVE  ReviewInv'
  <2>1. handler \in [Ops -> [Attempts -> Places]] /\ UNCHANGED <<cl, flips, staged>>
    BY <1>27 DEF FlipFails, CeremonyShape
  <2>2. PICK v : v # "sent" /\ Reaches(o, k, v)
    BY <1>27, <2>1, ReplyFacts DEF FlipFails, Then
  <2>3. QED
    BY <1>27, <2>1, <2>2, ReachesAsks, HandlesReview
<1>28. ASSUME NEW o \in Ops, NEW k \in Attempts, Flip(o, k), UNCHANGED world
      PROVE  ReviewInv'
  <2>1. /\ handler \in [Ops -> [Attempts -> Places]] /\ UNCHANGED <<cl, staged>> /\ Handling(o, k)
        /\ flips' = Append(flips, [by |-> o, over |-> live]) /\ live \in Record
        /\ flips \in Seq([by : Ops, over : Record])
    BY <1>28 DEF Flip, CeremonyShape, RecordInv
  <2>2. PICK v : v # "sent" /\ Reaches(o, k, v)
    BY <1>28, <2>1, ReplyFacts DEF Flip, Then
  <2>3. \A x \in Ops : Asking(x)' => Asking(x)
    BY <2>1, <2>2, ReachesAsks
  <2>4. Asking(o) /\ live \in staged[o] /\ ~Past(live)
    BY <1>28, <2>1, CanFlipFacts, LiveIsNotPast DEF Flip, Handling, Asking
  <2>5. Matches(o, live) /\ (form[o] = "rules" => OneRule(o))
    BY <2>4 DEF ReviewInv, ReviewOK
  <2> PICK n : n = Len(flips)
    OBVIOUS
  <2>6. /\ n \in Nat /\ Len(flips') = n + 1
        /\ flips'[n + 1].by = o /\ flips'[n + 1].over = live
        /\ \A i \in 1 .. n : flips'[i] = flips[i]
        /\ \A L : Past(L)' <=> Past(L) \/ L = live
    BY <2>1, FlipFacts
  <2>7. \A x, L : (Matches(x, L)' <=> Matches(x, L)) /\ (OneRule(x)' <=> OneRule(x))
    BY <1>28, <2>1 DEF Matches, OneRule, form
  <2>8. \A x \in Ops : ReviewOK(x)'
    BY <1>28, <2>1, <2>3, <2>6, <2>7 DEF ReviewInv, ReviewOK, form
  <2>9. ASSUME NEW i \in 1 .. n + 1
        PROVE  /\ Matches(flips'[i].by, flips'[i].over)
               /\ form[flips'[i].by] = "rules" => OneRule(flips'[i].by)
    <3>1. CASE i = n + 1
      BY <2>5, <2>6, <3>1
    <3>2. CASE i \in 1 .. n
      BY <2>6, <3>2 DEF ReviewInv
    <3>3. QED
      BY <2>6, <3>1, <3>2
  <2>10. QED
    BY <1>28, <2>6, <2>7, <2>8, <2>9 DEF ReviewInv, form
<1>29. ASSUME NEW o \in Ops, NEW k \in Attempts, FlipUnsynced(o, k), UNCHANGED world
      PROVE  ReviewInv'
  BY <1>29 DEF FlipUnsynced, Safe
<1>30. ASSUME NEW o \in Ops, NEW k \in Attempts, StoreProfile(o, k), UNCHANGED world
      PROVE  ReviewInv'
  <2>1. handler \in [Ops -> [Attempts -> Places]] /\ UNCHANGED <<cl, flips, staged>>
    BY <1>30 DEF StoreProfile, CeremonyShape
  <2>2. PICK v : v # "sent" /\ Reaches(o, k, v)
    BY <1>30, <2>1, ReplyFacts DEF StoreProfile, Then
  <2>3. QED
    BY <1>30, <2>1, <2>2, ReachesAsks, HandlesReview
<1>31. ASSUME NEW o \in Ops, SweepStaged(o), UNCHANGED world
      PROVE  ReviewInv'
  <2>1. UNCHANGED <<cl, flips, handler>> /\ \A x \in Ops : staged'[x] \subseteq staged[x]
    BY <1>31 DEF SweepStaged, CeremonyShape
  <2>2. QED
    BY <1>31, <2>1, HandlesReview DEF Asking
<1>32. ASSUME Restart, UNCHANGED world
      PROVE  ReviewInv'
  <2>1. UNCHANGED <<cl, flips, staged>>
    BY <1>32 DEF Restart, RecordInv
  <2>2. \A x \in Ops : Asking(x)' => Asking(x)
    BY <1>32, <2>1 DEF Restart, Asking
  <2>3. QED
    BY <1>32, <2>1, <2>2, HandlesReview
<1>33. ASSUME Edit, UNCHANGED world
      PROVE  ReviewInv'
  BY <1>33, HandlesReview DEF Edit, daemon, Asking
<1>34. CASE UNCHANGED vars
  BY <1>34, HandlesReview DEF vars, Asking
<1>35. QED
  BY <1>1, <1>2, <1>3, <1>4, <1>5, <1>6, <1>7, <1>8, <1>9, <1>10, <1>11, <1>12, <1>13,
     <1>14, <1>15, <1>16, <1>17, <1>18, <1>19, <1>20, <1>21, <1>22, <1>23, <1>24, <1>25,
     <1>26, <1>27, <1>28, <1>29, <1>30, <1>31, <1>32, <1>33, <1>34 DEF Next, Propose,
     Resolve, Handle

-----------------------------------------------------------------------------
(* Together. *)
LEMMA CeremonyInvariant == Spec => []CeremonyInv
<1>1. Init => CeremonyInv
  <2> SUFFICES ASSUME Init PROVE CeremonyInv
    OBVIOUS
  <2>1. /\ world \in Worlds /\ {live, disk} \subseteq Record /\ live.occ = Nobody /\ disk = live
        /\ doc \in Document
    BY CeremonyAssumption DEF Init, Record, Kinds
  <2>2. CeremonyShape
    BY <2>1 DEF Init, CeremonyShape, Document, Places
  <2>3. /\ DOMAIN cl = Ops /\ flips = <<>>
        /\ \A o \in Ops :
             /\ DOMAIN cl[o] = Fields /\ cl[o].pc = "start" /\ cl[o].try = 0 /\ cl[o].gate = 0
             /\ cl[o].cand = {} /\ cl[o].base = Unknown /\ cl[o].read = NoDocument
             /\ cl[o].seen = Unknown /\ cl[o].resolution = "none" /\ cl[o].result = "none"
             /\ cl[o].drift = "none"
             /\ staged[o] = {} /\ \A k \in Attempts : handler[o][k] = "idle"
    BY DEF Init, Fresh, Fields
  <2>4. ClientShape
    BY <2>3 DEF ClientShape, ClientOK, Unknown, NoDocument, Corpora
  <2>5. PlaceInv
    BY <2>3 DEF PlaceInv, PlaceOK, Pcs, Early, Late, Sending
  <2>6. ReportInv /\ DraftInv
    BY <2>3 DEF ReportInv, ReportOK, DraftInv, DraftOK, Holding
  <2>7. RecordInv
    BY <2>1, <2>3 DEF RecordInv, OneFlipPerCeremony
  <2>8. \A o \in Ops : ~Landed(o)
    BY <2>3 DEF Landed
  <2>9. CallInv
    BY <2>3, <2>8, CeremonyAssumption DEF CallInv, CallOK, Unknown, Attempts
  <2>10. ReviewInv
    BY <2>3 DEF ReviewInv, ReviewOK, Asking, Sending
  <2>11. QED
    BY <2>2, <2>4, <2>5, <2>6, <2>7, <2>9, <2>10 DEF CeremonyInv
<1>2. CeremonyInv /\ [Next]_vars => CeremonyInv'
  <2> SUFFICES ASSUME CeremonyInv, [Next]_vars PROVE CeremonyInv'
    OBVIOUS
  <2>1. CeremonyShape' /\ PlaceInv'
    BY CeremonyShapeStep, PlaceStep DEF CeremonyInv
  <2>2. ClientShape' /\ ReportInv' /\ DraftInv'
    BY <2>1, ClientShapeStep, ReportStep, DraftStep DEF CeremonyInv
  <2>3. Safe' <=> Safe
    BY DEF Next, vars, Safe
  <2>4. ASSUME Safe PROVE RecordInv' /\ CallInv' /\ ReviewInv'
    BY <2>4, RecordStep, CallStep, ReviewStep DEF CeremonyInv
  <2>5. QED
    BY <2>1, <2>2, <2>3, <2>4 DEF CeremonyInv
<1>3. QED
  BY <1>1, <1>2, PTL DEF Spec

(* The invariant implies that reports are true. *)
LEMMA OutcomeHolds == CeremonyInv => OutcomeTrue /\ ReportedStateHeld
<1> SUFFICES ASSUME CeremonyInv PROVE OutcomeTrue /\ ReportedStateHeld
  OBVIOUS
<1>1. ReportedStateHeld
  BY DEF CeremonyInv, ReportInv, ReportOK, ReportedStateHeld
<1>2. ASSUME Safe
      PROVE  RefusedCommitsNothing /\ CommittedLanded /\ OneFlipPerCeremony
  <2>1. RecordInv /\ CallInv /\ PlaceInv
    BY <1>2 DEF CeremonyInv
  <2>2. OneFlipPerCeremony
    BY <2>1 DEF RecordInv
  <2>3. RefusedCommitsNothing
    BY <2>1 DEF CallInv, CallOK, RefusedCommitsNothing
  <2>4. \A o \in Ops : cl[o].result \in CommittedResults => cl[o].pc = "done"
    BY <2>1 DEF PlaceInv, PlaceOK, CommittedResults
  <2>5. CommittedLanded
    BY <2>1, <2>4 DEF CallInv, CallOK, CommittedLanded
  <2>6. QED
    BY <2>2, <2>3, <2>5
<1>3. QED
  BY <1>1, <1>2 DEF OutcomeTrue, Safe

(* The invariant implies that what was reviewed is what was replaced. *)
LEMMA ReviewHolds == CeremonyInv => ReviewedIsReplaced
<1> SUFFICES ASSUME CeremonyInv, ~world.unsynced, NEW i \in 1 .. Len(flips)
             PROVE  LET over == flips[i].over
                        shown == cl[flips[i].by].base
                        after == cl[flips[i].by].cand
                    IN /\ form[flips[i].by] = "apply" =>
                            over.occ = shown.occ /\ over.corpus = shown.corpus
                       /\ form[flips[i].by] = "rules" =>
                            IF over.kind = "corrupt" THEN Cardinality(after) = 1
                            ELSE /\ Cardinality(Change(over.corpus, after)) = 1
                                 /\ Change(over.corpus, after) = Change(shown.corpus, after)
  BY DEF ReviewedIsReplaced
<1> PICK o : o = flips[i].by
  OBVIOUS
<1>1. Matches(o, flips[i].over) /\ (form[o] = "rules" => OneRule(o))
  BY DEF CeremonyInv, Safe, ReviewInv
<1>2. CASE form[o] = "apply"
  BY <1>1, <1>2 DEF Matches
<1>3. CASE form[o] = "rules" /\ flips[i].over.kind = "corrupt"
  <2>1. PICK r : cl[o].cand = {r}
    BY <1>1, <1>3 DEF Matches, OneRule
  <2>2. Cardinality(cl[o].cand) = 1
    BY <2>1, FS_Singleton
  <2>3. QED
    BY <1>3, <2>2
<1>4. CASE form[o] = "rules" /\ flips[i].over.kind # "corrupt"
  <2>1. /\ flips[i].over.corpus = cl[o].base.corpus
        /\ \E r : Change(cl[o].base.corpus, cl[o].cand) = {r}
    BY <1>1, <1>4 DEF Matches, OneRule
  <2>2. Cardinality(Change(cl[o].base.corpus, cl[o].cand)) = 1
    BY <2>1, FS_Singleton
  <2>3. QED
    BY <1>4, <2>1, <2>2
<1>5. QED
  BY <1>2, <1>3, <1>4

(* The step that changes the document's body. *)
Draft ==
    doc.present /\ doc'.corpus # doc.corpus /\ edits' = edits =>
          \/ doc.corpus = doc.marker
          \/ SourceIsEmpty(doc) /\ doc.marker = NoBody
          \/ \E o \in Ops : cl[o].pc = "replace" /\ cl[o].force

(* Under the invariant a body is replaced only as its operator asked. *)
LEMMA DraftHolds ==
  ASSUME CeremonyInv, [Next]_vars
  PROVE  Draft
<1> SUFFICES ASSUME doc.present, doc'.corpus # doc.corpus, edits' = edits
             PROVE  \/ doc.corpus = doc.marker
                    \/ SourceIsEmpty(doc) /\ doc.marker = NoBody
                    \/ \E o \in Ops : cl[o].pc = "replace" /\ cl[o].force
  BY DEF Draft
<1>1. \E o \in Ops : Replace(o) \/ Create(o)
  <2>1. ASSUME NEW o \in Ops, ReadDocument(o)
         PROVE  FALSE
    BY <2>1 DEF ReadDocument
  <2>2. ASSUME NEW o \in Ops, CheckDocument(o)
         PROVE  FALSE
    BY <2>2 DEF CheckDocument
  <2>3. ASSUME NEW o \in Ops, CheckNoDocument(o)
         PROVE  FALSE
    BY <2>3 DEF CheckNoDocument
  <2>4. ASSUME NEW o \in Ops, PrepareBody(o)
         PROVE  FALSE
    BY <2>4 DEF PrepareBody
  <2>5. ASSUME NEW o \in Ops, ReadRules(o)
         PROVE  FALSE
    BY <2>5 DEF ReadRules
  <2>6. ASSUME NEW o \in Ops, ReadBaseline(o)
         PROVE  FALSE
    BY <2>6 DEF ReadBaseline
  <2>7. ASSUME NEW o \in Ops, Stage(o)
         PROVE  FALSE
    BY <2>7 DEF Stage
  <2>8. ASSUME NEW o \in Ops, RecheckDocument(o)
         PROVE  FALSE
    BY <2>8 DEF RecheckDocument
  <2>9. ASSUME NEW o \in Ops, RecheckLive(o)
         PROVE  FALSE
    BY <2>9 DEF RecheckLive
  <2>10. ASSUME NEW o \in Ops, RecheckRules(o)
         PROVE  FALSE
    BY <2>10 DEF RecheckRules
  <2>11. ASSUME NEW o \in Ops, Confirm(o)
         PROVE  FALSE
    BY <2>11 DEF Confirm
  <2>12. ASSUME NEW o \in Ops, ConfirmPresence(o)
         PROVE  FALSE
    BY <2>12 DEF ConfirmPresence
  <2>13. ASSUME NEW o \in Ops, Send(o)
         PROVE  FALSE
    BY <2>13 DEF Send
  <2>14. ASSUME NEW o \in Ops, Receive(o)
         PROVE  FALSE
    BY <2>14 DEF Receive
  <2>15. ASSUME NEW o \in Ops, Timeout(o)
         PROVE  FALSE
    BY <2>15 DEF Timeout
  <2>16. ASSUME NEW o \in Ops, Poll(o)
         PROVE  FALSE
    BY <2>16 DEF Poll
  <2>17. ASSUME NEW o \in Ops, Observe(o)
         PROVE  FALSE
    BY <2>17 DEF Observe
  <2>18. ASSUME NEW o \in Ops, ReadNames(o)
         PROVE  FALSE
    BY <2>18 DEF ReadNames
  <2>19. ASSUME NEW o \in Ops, FinalDocument(o)
         PROVE  FALSE
    BY <2>19 DEF FinalDocument
  <2>20. ASSUME NEW o \in Ops, FinalStatus(o)
         PROVE  FALSE
    BY <2>20 DEF FinalStatus
  <2>21. ASSUME NEW o \in Ops, FinalReport(o)
         PROVE  FALSE
    BY <2>21 DEF FinalReport
  <2>22. ASSUME NEW o \in Ops, SweepStaged(o)
         PROVE  FALSE
    BY <2>22 DEF SweepStaged
  <2>23. ASSUME NEW o \in Ops, NEW k \in Attempts, CommitFault(o, k)
         PROVE  FALSE
    BY <2>23 DEF CommitFault
  <2>24. ASSUME NEW o \in Ops, NEW k \in Attempts, CommitRefused(o, k)
         PROVE  FALSE
    BY <2>24 DEF CommitRefused
  <2>25. ASSUME NEW o \in Ops, NEW k \in Attempts, CommitAgain(o, k)
         PROVE  FALSE
    BY <2>25 DEF CommitAgain
  <2>26. ASSUME NEW o \in Ops, NEW k \in Attempts, FlipFails(o, k)
         PROVE  FALSE
    BY <2>26 DEF FlipFails
  <2>27. ASSUME NEW o \in Ops, NEW k \in Attempts, Flip(o, k)
         PROVE  FALSE
    BY <2>27 DEF Flip
  <2>28. ASSUME NEW o \in Ops, NEW k \in Attempts, FlipUnsynced(o, k)
         PROVE  FALSE
    BY <2>28 DEF FlipUnsynced
  <2>29. ASSUME NEW o \in Ops, NEW k \in Attempts, StoreProfile(o, k)
         PROVE  FALSE
    BY <2>29 DEF StoreProfile
  <2>30. ~Restart
    BY DEF Restart
  <2>31. ~Edit
    <3>1. edits \in Nat
      BY DEF CeremonyInv, CeremonyShape
    <3>2. edits + 1 # edits
      BY <3>1
    <3>3. QED
      BY <3>2 DEF Edit
  <2>32. Next
    BY DEF vars
  <2>33. QED
    BY <2>1, <2>2, <2>3, <2>4, <2>5, <2>6, <2>7, <2>8, <2>9, <2>10, <2>11, <2>12, <2>13,
       <2>14, <2>15, <2>16, <2>17, <2>18, <2>19, <2>20, <2>21, <2>22, <2>23, <2>24, <2>25,
       <2>26, <2>27, <2>28, <2>29, <2>30, <2>31, <2>32 DEF Next, Propose, Resolve, Handle
<1>2. PICK o \in Ops : Replace(o) \/ Create(o)
  BY <1>1
<1>3. DOMAIN cl = Ops /\ DOMAIN cl[o] = Fields
  BY DEF CeremonyInv, ClientShape, ClientOK
<1>4. At(o, "replace") /\ doc = cl[o].read /\ doc' = Rewritten(o)
  BY <1>2, <1>3, ReplaceFacts, CreateFacts
<1>5. form[o] \in {"apply", "export", "fix"}
  BY <1>4 DEF At, CeremonyInv, PlaceInv, PlaceOK
<1>6. form[o] = "export"
  <2>1. form[o] # "export" => doc'.corpus = cl[o].cand
    BY <1>4 DEF Rewritten
  <2>2. form[o] \in {"apply", "fix"} => cl[o].cand = cl[o].read.corpus
    BY <1>4 DEF At, CeremonyInv, DraftInv, DraftOK, Holding
  <2>3. QED
    BY <1>4, <1>5, <2>1, <2>2
<1>7. cl[o].force \/ ~Unapplied(o, cl[o].base)
  BY <1>4, <1>6 DEF At, CeremonyInv, DraftInv, DraftOK
<1>8. doc'.corpus = cl[o].base.corpus /\ doc.corpus # NoBody
  BY <1>4, <1>6, CeremonyAssumption DEF Rewritten, CeremonyInv, CeremonyShape
<1>9. QED
  BY <1>4, <1>7, <1>8 DEF Unapplied, At

-----------------------------------------------------------------------------
(* The document store: the inductive invariant.                            *)

(* What a call and its views of the file hold. *)
CallFields == {"pc", "op", "want", "expected", "before", "intended", "recheck", "bound", "final",
               "edited", "cleaned", "mode", "synced", "over", "outcome"}

Bytes == Contents \cup {Unfit}
FileStates == [bytes : Bytes, mode : Store!Modes, ctime : Nat]
FlushStates == [bytes : Bytes, mode : Store!Modes]
Views == [ino : Nat, bytes : Bytes, mode : Store!Modes, ctime : Nat]

(* The directory and its inodes. *)
StoreShape ==
    /\ node \in Seq(FileStates)
    /\ flushed \in Seq(FlushStates) /\ Len(flushed) = Len(node)
    /\ path \in 0 .. Len(node) /\ onDisk \in 0 .. Len(node)
    /\ DOMAIN temp = Writers /\ \A w \in Writers : temp[w] \in 0 .. Len(node)

(* Every change of an inode left its bytes in `past' under its ctime. *)
HistoryInv ==
    /\ DOMAIN past = DOMAIN node
    /\ \A i \in DOMAIN node :
         /\ past[i] \in Seq(Bytes) /\ node[i].ctime > 0 /\ Len(past[i]) = node[i].ctime
         /\ past[i][node[i].ctime] = node[i].bytes

(* The views and inodes of a call are typed. *)
ViewShape(s, n) == s \in Views /\ s.ino <= Len(n) /\ (s.ino # 0 => s.ctime > 0)

CallShape(w) ==
    LET c == call[w] IN
    /\ DOMAIN c = CallFields /\ c.want \in Bytes
    /\ ViewShape(c.expected, node) /\ ViewShape(c.before, node) /\ ViewShape(c.final, node) /\ ViewShape(c.over, node)
    /\ c.intended \in 0 .. Len(node) /\ c.recheck \in 0 .. Len(node) /\ c.bound \in 0 .. Len(node)

(* Before the link or rename; with CERMET.md open; before its last look.  *)
Trying == {"idle", "reading", "missing", "temp", "open", "rechecking", "publish"}
Looking == {"reading", "rechecking", "binding", "finishing"}
Viewing == Looking \cup {"rereading", "expecting"}
Bare == Trying \cup {"reopen", "rereading", "bind", "binding", "unbound", "cleanup", "mode",
                     "expect", "expecting"}

(* What a call knows at each place. *)
StageOK(w) ==
    LET c == call[w] IN
    /\ c.pc # "done" => c.outcome = "none"
    /\ c.pc \in Viewing => c.before.ino # 0
    /\ c.pc \in Trying \/ c.op = "create" => c.over = Store!None
    /\ c.pc \in {"reopen", "rereading"} => c.op = "replace"
    /\ (c.pc = "publish" /\ c.op = "replace") \/ c.pc \in {"reopen", "rereading"} =>
         c.recheck = c.expected.ino /\ c.recheck # 0
    /\ c.pc = "rechecking" => c.recheck = c.before.ino
    /\ c.pc = "rereading" => c.before.ino = c.recheck
    /\ c.pc \in {"mode", "expect", "expecting"} => c.bound # 0
    /\ c.pc = "expecting" => c.before.ino = c.bound
    /\ c.pc \in Trying => c.bound = 0
    /\ c.bound # 0 => c.bound = c.intended
    /\ c.pc \in Bare => c.final = Store!None
    /\ c.final = Store!None \/ (c.final.ino = c.intended /\ c.final.mode = Store!WantedMode(w))

(* A view is of the past, or its file has not changed since. *)
ViewOK(s, n) ==
    s.ino # 0 =>
      /\ s.ctime <= n[s.ino].ctime
      /\ s.ctime = n[s.ino].ctime => s.mode = n[s.ino].mode

(* A file that was opened as CERMET.md and has not changed is CERMET.md.   *)
Named(s, n, d) == s.ctime = n[s.ino].ctime => d = s.ino

(* The bytes that were read were those of the file when it was renamed     *)
(* over, or were put back after.                                           *)
Surfaced(over, expected, p) ==
    over.ino # 0 /\ over.ino = expected.ino =>
      \E k \in over.ctime .. Len(p[over.ino]) : p[over.ino][k] = expected.bytes

(* The directory was synced while the file whose state the call fixed was  *)
(* CERMET.md, or that file has left the name or changed.                   *)
Held(s, n, d, k) ==
    s.ino # 0 /\ s.ctime = n[s.ino].ctime => k = s.ino \/ d # s.ino

(* What the writer's file was last flushed with are bytes it has held.     *)
FlushOK(i, p, f) == i # 0 => \E k \in 1 .. Len(p[i]) : p[i][k] = f[i].bytes

(* What a call has seen is still true, or it will find out. *)
SeenOK(w) ==
    LET c == call[w] IN
    /\ ViewOK(c.before, node) /\ ViewOK(c.over, node) /\ ViewOK(c.final, node)
    /\ c.pc \in Looking => Named(c.before, node, path)
    /\ c.pc \notin Trying \cup {"reopen", "rereading", "done"} =>
         c.edited \/ Surfaced(c.over, c.expected, past)
    /\ c.outcome = "published" => Surfaced(c.over, c.expected, past)
    /\ c.pc \in {"last", "finishing", "gone"} /\ c.synced => Held(c.final, node, path, onDisk)
    /\ FlushOK(c.intended, past, flushed)

CallsOK == \A w \in Writers : CallShape(w) /\ StageOK(w) /\ SeenOK(w)

StoreInv == StoreShape /\ HistoryInv /\ DOMAIN call = Writers /\ CallsOK

-----------------------------------------------------------------------------
(* An inode changes by gaining a ctime, and new ones start at 1.           *)
Advances(f) ==
    /\ f \in Seq(FileStates) /\ Len(node) <= Len(f)
    /\ \A i \in 1 .. Len(node) : f[i] = node[i] \/ f[i].ctime = node[i].ctime + 1
    /\ \A i \in 1 .. Len(f) : i > Len(node) => f[i].ctime = 1

(* What every step does to the directory: the old views stay in the past.  *)
Grows ==
    /\ node' \in Seq(FileStates) /\ Len(node) <= Len(node')
    /\ \A i \in 1 .. Len(node) :
         /\ node[i].ctime <= node'[i].ctime
         /\ node'[i].ctime = node[i].ctime => node'[i] = node[i]
         /\ Len(past[i]) <= Len(past'[i]) /\ Len(past'[i]) \in Nat
         /\ \A k \in 1 .. Len(past[i]) : past'[i][k] = past[i][k]

Renames ==
    /\ \A i \in 1 .. Len(node) :
         \/ flushed'[i] = flushed[i]
         \/ \E k \in 1 .. Len(past'[i]) : past'[i][k] = flushed'[i].bytes
    /\ path' # path =>
         /\ path # 0 => node[path].ctime < node'[path].ctime
         /\ path' \in 1 .. Len(node) => node[path'].ctime < node'[path'].ctime
    /\ onDisk' = onDisk \/ onDisk' = path'

(* A stamp gives the inodes in S a new ctime and changes no bytes or mode. *)
LEMMA StampFacts ==
  ASSUME StoreShape, NEW S
  PROVE  /\ Advances(Store!Stamp(node, S)) /\ Len(Store!Stamp(node, S)) = Len(node)
         /\ \A i \in 1 .. Len(node) :
              /\ i \in S => Store!Stamp(node, S)[i].ctime = node[i].ctime + 1
              /\ i \notin S => Store!Stamp(node, S)[i] = node[i]
              /\ Store!Stamp(node, S)[i].bytes = node[i].bytes /\ Store!Stamp(node, S)[i].mode = node[i].mode
<1>1. node \in [1 .. Len(node) -> FileStates] /\ Len(node) \in Nat
  BY DEF StoreShape
<1>2. \A i \in 1 .. Len(node) :
        /\ i \in S => Store!Stamp(node, S)[i] = [node[i] EXCEPT !.ctime = @ + 1]
        /\ i \notin S => Store!Stamp(node, S)[i] = node[i]
  BY <1>1 DEF Store!Stamp
<1>3. ASSUME NEW i \in 1 .. Len(node)
      PROVE  /\ [node[i] EXCEPT !.ctime = @ + 1] \in FileStates
             /\ [node[i] EXCEPT !.ctime = @ + 1].ctime = node[i].ctime + 1
             /\ [node[i] EXCEPT !.ctime = @ + 1].bytes = node[i].bytes
             /\ [node[i] EXCEPT !.ctime = @ + 1].mode = node[i].mode
  BY <1>1, <1>3 DEF FileStates
<1>4. Store!Stamp(node, S) \in [1 .. Len(node) -> FileStates]
  BY <1>1, <1>3 DEF Store!Stamp
<1>5. Store!Stamp(node, S) \in Seq(FileStates) /\ Len(Store!Stamp(node, S)) = Len(node)
  BY <1>1, <1>4
<1>6. ASSUME NEW i \in 1 .. Len(node)
      PROVE  /\ i \in S => Store!Stamp(node, S)[i].ctime = node[i].ctime + 1
             /\ i \notin S => Store!Stamp(node, S)[i] = node[i]
             /\ Store!Stamp(node, S)[i].bytes = node[i].bytes /\ Store!Stamp(node, S)[i].mode = node[i].mode
  BY <1>2, <1>3, <1>6
<1>7. QED
  BY <1>1, <1>5, <1>6 DEF Advances

(* The history follows the inodes. *)
LEMMA SetNodesFacts ==
  ASSUME StoreShape, HistoryInv, NEW f, Advances(f), Store!SetNodes(f)
  PROVE  node' = f /\ HistoryInv' /\ Grows
<1>1. node' = f /\ f \in [1 .. Len(f) -> FileStates] /\ Len(f) \in Nat /\ Len(node) \in Nat
      /\ node \in [1 .. Len(node) -> FileStates] /\ DOMAIN past = 1 .. Len(node)
  BY DEF Store!SetNodes, Advances, StoreShape, HistoryInv
<1>2. /\ DOMAIN past' = 1 .. Len(f)
      /\ \A i \in 1 .. Len(f) :
           past'[i] = IF i \notin 1 .. Len(node) THEN <<f[i].bytes>>
                      ELSE IF f[i].ctime # node[i].ctime THEN Append(past[i], f[i].bytes)
                      ELSE past[i]
  BY <1>1 DEF Store!SetNodes
<1>3. ASSUME NEW i \in 1 .. Len(node)
      PROVE  /\ past[i] \in Seq(Bytes) /\ node[i].ctime > 0 /\ Len(past[i]) = node[i].ctime
             /\ past[i][node[i].ctime] = node[i].bytes /\ node[i].ctime \in Nat
             /\ f[i].bytes \in Bytes /\ f[i].ctime \in Nat
  BY <1>1, <1>3 DEF HistoryInv, FileStates, Advances
<1>4. ASSUME NEW i \in 1 .. Len(node)
      PROVE  /\ past'[i] \in Seq(Bytes) /\ f[i].ctime > 0 /\ Len(past'[i]) = f[i].ctime
             /\ past'[i][f[i].ctime] = f[i].bytes
             /\ Len(past[i]) <= Len(past'[i])
             /\ \A k \in 1 .. Len(past[i]) : past'[i][k] = past[i][k]
  <2>1. CASE f[i] = node[i]
    BY <1>1, <1>2, <1>3, <2>1, SMTT(60) DEF Advances
  <2>2. CASE f[i].ctime = node[i].ctime + 1
    <3>1. past'[i] = Append(past[i], f[i].bytes)
      BY <1>1, <1>2, <1>3, <2>2 DEF Advances
    <3>2. QED
      BY <1>3, <2>2, <3>1
  <2>3. QED
    BY <2>1, <2>2 DEF Advances
<1>5. ASSUME NEW i \in 1 .. Len(f), i > Len(node)
      PROVE  /\ past'[i] \in Seq(Bytes) /\ f[i].ctime > 0 /\ Len(past'[i]) = f[i].ctime
             /\ past'[i][f[i].ctime] = f[i].bytes
  <2>1. f[i].ctime = 1 /\ past'[i] = <<f[i].bytes>> /\ f[i].bytes \in Bytes
    BY <1>1, <1>2, <1>5 DEF Advances, FileStates
  <2>2. QED
    BY <2>1
<1>6. HistoryInv'
  BY <1>1, <1>2, <1>4, <1>5 DEF HistoryInv, Advances
<1>7. QED
  BY <1>1, <1>3, <1>4, <1>6 DEF Advances, Grows

(* The types of times. *)
LEMMA TimeFacts ==
  ASSUME StoreShape, HistoryInv
  PROVE  \A i \in 1 .. Len(node) : node[i].ctime \in Nat /\ Len(past[i]) \in Nat
  BY DEF StoreShape, HistoryInv, FileStates

(* A stamped inode has a later ctime. *)
LEMMA StampLater ==
  ASSUME StoreShape, HistoryInv, NEW S, NEW i \in 1 .. Len(node), i \in S
  PROVE  node[i].ctime < Store!Stamp(node, S)[i].ctime
<1>1. Store!Stamp(node, S)[i].ctime = node[i].ctime + 1
  BY StampFacts
<1>2. node[i].ctime \in Nat
  BY TimeFacts
<1>3. QED
  BY <1>1, <1>2

(* The types of files. *)
LEMMA FileFacts ==
  ASSUME StoreShape
  PROVE  /\ Len(node) \in Nat /\ node \in [1 .. Len(node) -> FileStates]
         /\ flushed \in [1 .. Len(node) -> FlushStates]
         /\ \A i \in 1 .. Len(node) : node[i].bytes \in Bytes
<1>1. Len(node) \in Nat /\ node \in [1 .. Len(node) -> FileStates]
  BY DEF StoreShape
<1>2. flushed \in [1 .. Len(node) -> FlushStates]
  BY DEF StoreShape
<1>3. QED
  BY <1>1, <1>2 DEF FileStates

(* A step that changes no inode and no name. *)
LEMMA StillFacts ==
  ASSUME StoreShape, HistoryInv, UNCHANGED <<node, past, path, temp, flushed>>, onDisk' \in {onDisk, path}
  PROVE  StoreShape' /\ HistoryInv' /\ Grows /\ Renames
<1>1. StoreShape' /\ HistoryInv'
  BY DEF StoreShape, HistoryInv
<1>2. QED
  BY <1>1, TimeFacts DEF StoreShape, Grows, Renames

(* A new inode goes last. *)
LEMMA AppendFacts ==
  ASSUME StoreShape, NEW b \in Bytes, NEW m \in Store!Modes, NEW f, Advances(f), Len(f) = Len(node)
  PROVE  /\ Advances(Append(f, [bytes |-> b, mode |-> m, ctime |-> 1]))
         /\ Len(Append(f, [bytes |-> b, mode |-> m, ctime |-> 1])) = Len(node) + 1
         /\ \A i \in 1 .. Len(node) :
              Append(f, [bytes |-> b, mode |-> m, ctime |-> 1])[i] = f[i]
         /\ Append(f, [bytes |-> b, mode |-> m, ctime |-> 1])[Len(node) + 1]
              = [bytes |-> b, mode |-> m, ctime |-> 1]
<1>1. PICK e : e = [bytes |-> b, mode |-> m, ctime |-> 1]
  OBVIOUS
<1>2. e \in FileStates /\ e.ctime = 1
  BY <1>1 DEF FileStates
<1>3. f \in Seq(FileStates) /\ Len(f) \in Nat
  BY DEF Advances
<1>4. /\ Append(f, e) \in Seq(FileStates) /\ Len(Append(f, e)) = Len(node) + 1
      /\ \A i \in 1 .. Len(node) : Append(f, e)[i] = f[i]
      /\ Append(f, e)[Len(node) + 1] = e
  BY <1>2, <1>3
<1>5. Advances(Append(f, e))
  BY <1>2, <1>3, <1>4 DEF Advances
<1>6. QED
  BY <1>1, <1>4, <1>5

(* Nothing changed is an advance. *)
LEMMA SameAdvances ==
  ASSUME StoreShape
  PROVE  Advances(node)
  BY DEF StoreShape, Advances

(* A refusal removes at most the call's own temporary name. *)
LEMMA RefuseFiles ==
  ASSUME StoreShape, HistoryInv, NEW w \in Writers, Store!Refuse(w)
  PROVE  StoreShape' /\ HistoryInv' /\ Grows /\ Renames
<1>1. UNCHANGED <<path, onDisk, flushed>>
  BY DEF Store!Refuse
<1>2. DOMAIN temp' = Writers /\ \A x \in Writers : temp'[x] \in {temp[x], 0}
  BY DEF Store!Refuse, StoreShape
<1>3. /\ HistoryInv' /\ Grows
      /\ Len(node') = Len(node) /\ node' \in Seq(FileStates)
  <2>1. CASE UNCHANGED <<node, past>>
    BY <2>1, TimeFacts DEF StoreShape, HistoryInv, Grows
  <2>2. CASE Store!SetNodes(Store!Stamp(node, {temp[w]}))
    BY <2>2, StampFacts, SetNodesFacts DEF Advances
  <2>3. QED
    BY <2>1, <2>2 DEF Store!Refuse
<1>4. StoreShape'
  BY <1>1, <1>2, <1>3 DEF StoreShape
<1>5. QED
  BY <1>1, <1>3, <1>4 DEF Renames


(* A file is new under its last number: b and m are what it holds. *)
LEMMA AddFiles ==
  ASSUME StoreShape, HistoryInv, NEW f, Advances(f), Len(f) = Len(node),
         NEW b \in Bytes, NEW m \in Store!Modes, NEW held \in Bytes,
         Store!SetNodes(Append(f, [bytes |-> b, mode |-> m, ctime |-> 1])),
         flushed' = Append(flushed, [bytes |-> held, mode |-> m])
  PROVE  /\ HistoryInv' /\ Grows /\ node' \in Seq(FileStates) /\ Len(node') = Len(node) + 1
         /\ flushed' \in Seq(FlushStates) /\ Len(flushed') = Len(node) + 1
         /\ \A i \in 1 .. Len(node) : flushed'[i] = flushed[i] /\ node'[i] = f[i]
         /\ flushed'[Len(node) + 1].bytes = held /\ past'[Len(node) + 1] = <<b>>
<1>1. PICK g : g = Append(f, [bytes |-> b, mode |-> m, ctime |-> 1])
  OBVIOUS
<1>2. Advances(g) /\ Len(g) = Len(node) + 1 /\ (\A i \in 1 .. Len(node) : g[i] = f[i])
      /\ g[Len(node) + 1] = [bytes |-> b, mode |-> m, ctime |-> 1]
  BY <1>1, AppendFacts
<1>3. node' = g /\ HistoryInv' /\ Grows
  BY <1>1, <1>2, SetNodesFacts
<1>4. PICK e : e = [bytes |-> held, mode |-> m]
  OBVIOUS
<1>5. e \in FlushStates /\ e.bytes = held
  BY <1>4 DEF FlushStates
<1>6. /\ flushed' \in Seq(FlushStates) /\ Len(flushed') = Len(node) + 1
      /\ \A i \in 1 .. Len(node) : flushed'[i] = flushed[i]
      /\ flushed'[Len(node) + 1] = e
  BY <1>4, <1>5 DEF StoreShape
<1>7. past'[Len(node) + 1] = <<b>>
  <2>1. Len(node) \in Nat /\ DOMAIN g = 1 .. Len(node) + 1 /\ DOMAIN node = 1 .. Len(node)
    BY <1>2 DEF StoreShape, Advances
  <2>2. past'[Len(node) + 1] = <<g[Len(node) + 1].bytes>>
    BY <1>1, <2>1 DEF Store!SetNodes
  <2>3. QED
    BY <1>2, <2>2
<1>8. QED
  BY <1>2, <1>3, <1>5, <1>6, <1>7 DEF Advances

(* The steps that only look. *)
LEMMA CalmFiles ==
  ASSUME StoreShape, HistoryInv, NEW w \in Writers,
         Store!Read(w) \/ Store!ReadMissing(w) \/ Store!OpenReread(w) \/ Store!Reread(w) \/ Store!OpenBind(w)
           \/ Store!Bind(w) \/ Store!OpenExpect(w) \/ Store!Expect(w) \/ Store!OpenFinal(w) \/ Store!Finish(w)
  PROVE  StoreShape' /\ HistoryInv' /\ Grows /\ Renames
<1>1. UNCHANGED Store!files
  BY DEF Store!Read, Store!ReadMissing, Store!OpenReread, Store!Reread, Store!OpenBind,
     Store!Bind, Store!OpenExpect, Store!Expect, Store!OpenFinal, Store!Finish, Store!Open
<1>2. QED
  BY <1>1, StillFacts DEF Store!files

(* The steps that look and may refuse. *)
LEMMA RefusedFiles ==
  ASSUME StoreShape, HistoryInv, NEW w \in Writers,
         Store!ReadPreimage(w) \/ Store!OpenRecheck(w) \/ Store!Recheck(w)
  PROVE  StoreShape' /\ HistoryInv' /\ Grows /\ Renames
<1>1. Store!Refuse(w) \/ UNCHANGED Store!files
  BY DEF Store!ReadPreimage, Store!OpenRecheck, Store!Recheck
<1>2. QED
  BY <1>1, RefuseFiles, StillFacts DEF Store!files

(* What CreateTemp does to the directory. *)
LEMMA CreateTempFiles ==
  ASSUME StoreShape, HistoryInv, NEW w \in Writers, NEW b \in Contents, Store!CreateTemp(w, b)
  PROVE  StoreShape' /\ HistoryInv' /\ Grows /\ Renames
<1>1. CASE UNCHANGED <<node, past, temp, flushed>>
  BY <1>1, StillFacts DEF Store!CreateTemp
<1>2. CASE /\ Store!SetNodes(Store!NewNode(b, Store!Private)) /\ temp' = [temp EXCEPT ![w] = Store!Allocated + 1]
           /\ flushed' = Append(flushed, [bytes |-> b, mode |-> Store!Private])
  <2>1. /\ HistoryInv' /\ Grows /\ node' \in Seq(FileStates) /\ Len(node') = Len(node) + 1
        /\ flushed' \in Seq(FlushStates) /\ Len(flushed') = Len(node) + 1
        /\ \A i \in 1 .. Len(node) : flushed'[i] = flushed[i]
    <3>1. b \in Bytes /\ Store!Private \in Store!Modes
      BY DEF Bytes, Store!Modes
    <3>2. QED
      BY <1>2, <3>1, AddFiles, SameAdvances DEF Store!NewNode
  <2>2. UNCHANGED <<path, onDisk>>
    BY DEF Store!CreateTemp
  <2>3. StoreShape'
    BY <1>2, <2>1, <2>2 DEF StoreShape, Store!Allocated
  <2>4. QED
    BY <2>1, <2>2, <2>3 DEF Renames
<1>3. QED
  BY <1>1, <1>2 DEF Store!CreateTemp

(* What Link does to the directory. *)
LEMMA LinkFiles ==
  ASSUME StoreShape, HistoryInv, NEW w \in Writers, Store!Link(w)
  PROVE  StoreShape' /\ HistoryInv' /\ Grows /\ Renames
<1>1. CASE Store!Refuse(w)
  BY <1>1, RefuseFiles
<1>2. CASE /\ path = 0 /\ temp[w] # 0 /\ path' = temp[w] /\ Store!SetNodes(Store!Stamp(node, {temp[w]}))
           /\ UNCHANGED <<temp, onDisk, flushed>>
  <2>1. /\ node' = Store!Stamp(node, {temp[w]}) /\ HistoryInv' /\ Grows /\ Len(node') = Len(node)
        /\ node' \in Seq(FileStates)
    BY <1>2, StampFacts, SetNodesFacts DEF Advances
  <2>2. StoreShape'
    BY <1>2, <2>1 DEF StoreShape
  <2>3. temp[w] \in 1 .. Len(node) /\ node[temp[w]].ctime < node'[temp[w]].ctime
    <3>1. temp[w] \in 1 .. Len(node)
      BY <1>2 DEF StoreShape
    <3>2. QED
      BY <2>1, <3>1, StampLater
  <2>4. QED
    BY <1>2, <2>1, <2>2, <2>3 DEF Renames
<1>3. QED
  BY <1>1, <1>2 DEF Store!Link

(* What Rename does to the directory. *)
LEMMA RenameFiles ==
  ASSUME StoreShape, HistoryInv, NEW w \in Writers, Store!Rename(w)
  PROVE  StoreShape' /\ HistoryInv' /\ Grows /\ Renames
<1>1. CASE Store!Refuse(w)
  BY <1>1, RefuseFiles
<1>2. CASE /\ temp[w] # 0 /\ path' = temp[w] /\ temp' = [temp EXCEPT ![w] = 0]
           /\ Store!SetNodes(Store!Stamp(node, {temp[w], path} \ {0})) /\ UNCHANGED <<onDisk, flushed>>
  <2>1. /\ node' = Store!Stamp(node, {temp[w], path} \ {0}) /\ HistoryInv' /\ Grows
        /\ Len(node') = Len(node) /\ node' \in Seq(FileStates)
    BY <1>2, StampFacts, SetNodesFacts DEF Advances
  <2>2. StoreShape'
    <3>1. DOMAIN temp' = Writers /\ \A x \in Writers : temp'[x] \in 0 .. Len(node)
      BY <1>2 DEF StoreShape
    <3>2. path' \in 0 .. Len(node)
      BY <1>2 DEF StoreShape
    <3>3. QED
      <4>1. flushed' \in Seq(FlushStates) /\ Len(flushed') = Len(node) /\ onDisk' \in 0 .. Len(node)
        BY <1>2 DEF StoreShape
      <4>2. QED
        BY <2>1, <3>1, <3>2, <4>1 DEF StoreShape
  <2>3. \A i \in {temp[w], path} \ {0} : i \in 1 .. Len(node) /\ node[i].ctime < node'[i].ctime
    <3>1. \A i \in {temp[w], path} \ {0} : i \in 1 .. Len(node)
      BY DEF StoreShape
    <3>2. QED
      BY <2>1, <3>1, StampLater
  <2>4. QED
    BY <1>2, <2>1, <2>2, <2>3 DEF Renames
<1>3. QED
  BY <1>1, <1>2 DEF Store!Rename

(* What Cleanup does to the directory. *)
LEMMA CleanupFiles ==
  ASSUME StoreShape, HistoryInv, NEW w \in Writers, Store!Cleanup(w)
  PROVE  StoreShape' /\ HistoryInv' /\ Grows /\ Renames
<1>1. CASE UNCHANGED <<temp, node, past>>
  BY <1>1, StillFacts DEF Store!Cleanup
<1>2. CASE temp' = [temp EXCEPT ![w] = 0] /\ Store!SetNodes(Store!Stamp(node, {call[w].intended}))
  <2>1. /\ HistoryInv' /\ Grows /\ Len(node') = Len(node) /\ node' \in Seq(FileStates)
    BY <1>2, StampFacts, SetNodesFacts DEF Advances
  <2>2. UNCHANGED <<path, onDisk, flushed>>
    BY DEF Store!Cleanup
  <2>3. StoreShape'
    BY <1>2, <2>1, <2>2 DEF StoreShape
  <2>4. QED
    BY <2>1, <2>2, <2>3 DEF Renames
<1>3. QED
  BY <1>1, <1>2 DEF Store!Cleanup

(* A stamped file whose bytes or mode are set as well. *)
LEMMA SetFacts ==
  ASSUME StoreShape, NEW i \in 1 .. Len(node), NEW b \in Bytes, NEW m \in Store!Modes
  PROVE  /\ Advances([Store!Stamp(node, {i}) EXCEPT ![i].bytes = b])
         /\ Advances([Store!Stamp(node, {i}) EXCEPT ![i].mode = m])
         /\ [Store!Stamp(node, {i}) EXCEPT ![i].mode = m][i].bytes = node[i].bytes
         /\ [Store!Stamp(node, {i}) EXCEPT ![i].mode = m][i].mode = m
         /\ Len([Store!Stamp(node, {i}) EXCEPT ![i].bytes = b]) = Len(node)
         /\ Len([Store!Stamp(node, {i}) EXCEPT ![i].mode = m]) = Len(node)
<1>1. PICK s : s = Store!Stamp(node, {i})
  OBVIOUS
<1>2. s \in [1 .. Len(node) -> FileStates] /\ s[i].ctime = node[i].ctime + 1 /\ Len(node) \in Nat
      /\ s[i].bytes = node[i].bytes
      /\ \A j \in 1 .. Len(node) : j # i => s[j] = node[j]
  <2>1. s \in Seq(FileStates) /\ Len(s) = Len(node)
    BY <1>1, StampFacts DEF Advances
  <2>2. s[i].ctime = node[i].ctime + 1 /\ s[i].bytes = node[i].bytes
    BY <1>1, StampFacts
  <2>3. \A j \in 1 .. Len(node) : j # i => s[j] = node[j]
    BY <1>1, StampFacts
  <2>4. QED
    BY <2>1, <2>2, <2>3, FileFacts
<1>3. s[i] \in FileStates
  BY <1>2
<1>4. /\ [s[i] EXCEPT !.bytes = b] \in FileStates /\ [s[i] EXCEPT !.mode = m] \in FileStates
      /\ [s[i] EXCEPT !.bytes = b].ctime = node[i].ctime + 1
      /\ [s[i] EXCEPT !.mode = m].ctime = node[i].ctime + 1
      /\ [s[i] EXCEPT !.mode = m].bytes = node[i].bytes /\ [s[i] EXCEPT !.mode = m].mode = m
  BY <1>2, <1>3 DEF FileStates
<1>5. ASSUME NEW v \in FileStates, v.ctime = node[i].ctime + 1
      PROVE  /\ Advances([s EXCEPT ![i] = v]) /\ [s EXCEPT ![i] = v][i] = v
             /\ Len([s EXCEPT ![i] = v]) = Len(node)
  <2>1. PICK g : g = [s EXCEPT ![i] = v]
    OBVIOUS
  <2>2. g \in [1 .. Len(node) -> FileStates] /\ g[i] = v /\ \A j \in 1 .. Len(node) : j # i => g[j] = s[j]
    BY <1>2, <1>5, <2>1
  <2>3. g \in Seq(FileStates) /\ Len(g) = Len(node)
    BY <1>2, <2>2
  <2>4. QED
    BY <1>2, <1>5, <2>1, <2>2, <2>3 DEF Advances
<1>6. QED
  BY <1>1, <1>4, <1>5

(* What ApplyMode does to the directory. *)
LEMMA ApplyModeFiles ==
  ASSUME StoreShape, HistoryInv, NEW w \in Writers, call[w].bound \in 1 .. Len(node),
         Store!WantedMode(w) \in Store!Modes, Store!ApplyMode(w)
  PROVE  StoreShape' /\ HistoryInv' /\ Grows /\ Renames
<1>1. PICK i \in 1 .. Len(node) : i = call[w].bound
  OBVIOUS
<1>2. PICK moded : moded = [Store!Stamp(node, {i}) EXCEPT ![i].mode = Store!WantedMode(w)]
  OBVIOUS
<1>3. /\ Advances(moded) /\ Len(moded) = Len(node) /\ moded[i].bytes = node[i].bytes
      /\ moded[i].mode = Store!WantedMode(w)
  <2>1. Unfit \in Bytes
    BY DEF Bytes
  <2>2. QED
    BY <1>1, <1>2, <2>1, SetFacts, ZenonT(60)
<1>4. CASE UNCHANGED <<node, past, flushed>>
  BY <1>4, StillFacts DEF Store!ApplyMode
<1>5. CASE Store!SetNodes(moded)
  <2>1. node' = moded /\ HistoryInv' /\ Grows /\ Len(node') = Len(node) /\ node' \in Seq(FileStates)
    BY <1>3, <1>5, SetNodesFacts DEF Advances
  <2>2. UNCHANGED <<path, temp, onDisk>>
    BY DEF Store!ApplyMode
  <2>3. \/ UNCHANGED flushed
        \/ flushed' = [flushed EXCEPT ![i] = [bytes |-> moded[i].bytes, mode |-> moded[i].mode]]
    BY <1>1, <1>2 DEF Store!ApplyMode
  <2>4. node[i].bytes \in Bytes
    BY FileFacts
  <2>5. /\ flushed' \in Seq(FlushStates) /\ Len(flushed') = Len(node)
        /\ \A j \in 1 .. Len(node) : j # i => flushed'[j] = flushed[j]
        /\ flushed'[i] = flushed[i] \/ flushed'[i].bytes = node'[i].bytes
    <3>1. PICK e : e = [bytes |-> moded[i].bytes, mode |-> moded[i].mode]
      OBVIOUS
    <3>2. e \in FlushStates /\ e.bytes = moded[i].bytes
      BY <1>3, <2>4, <3>1 DEF FlushStates
    <3>3. flushed \in [1 .. Len(node) -> FlushStates] /\ Len(node) \in Nat
      BY FileFacts
    <3>4. flushed' = flushed \/ flushed' = [flushed EXCEPT ![i] = e]
      BY <2>3, <3>1
    <3>5. CASE flushed' = flushed
      BY <3>5 DEF StoreShape
    <3>6. CASE flushed' = [flushed EXCEPT ![i] = e]
      <4>1. flushed' \in [1 .. Len(node) -> FlushStates]
        BY <3>2, <3>3, <3>6
      <4>2. flushed' \in Seq(FlushStates) /\ Len(flushed') = Len(node)
        BY <3>3, <4>1
      <4>3. QED
        BY <2>1, <3>2, <3>3, <3>6, <4>2
    <3>7. QED
      BY <3>4, <3>5, <3>6
  <2>6. StoreShape'
    BY <2>1, <2>2, <2>5 DEF StoreShape
  <2>7. node'[i].ctime \in 1 .. Len(past'[i]) /\ past'[i][node'[i].ctime] = node'[i].bytes
    BY <2>1 DEF HistoryInv, FileStates
  <2>8. Renames
    BY <2>2, <2>5, <2>7 DEF Renames
  <2>9. QED
    BY <2>1, <2>6, <2>8
<1>6. QED
  BY <1>1, <1>2, <1>4, <1>5 DEF Store!ApplyMode

(* What SyncDirectory does to the directory. *)
LEMMA SyncDirectoryFiles ==
  ASSUME StoreShape, HistoryInv, NEW w \in Writers, Store!SyncDirectory(w)
  PROVE  StoreShape' /\ HistoryInv' /\ Grows /\ Renames
<1>1. UNCHANGED <<node, past, path, temp, flushed>> /\ onDisk' \in {onDisk, path}
  BY DEF Store!SyncDirectory
<1>2. QED
  BY <1>1, StillFacts

(* The other programs change one file, or put a new one under a name. *)
LEMMA OthersFiles ==
  ASSUME StoreShape, HistoryInv, Store!Others
  PROVE  StoreShape' /\ HistoryInv' /\ Grows /\ Renames
<1>1. ASSUME NEW i \in Store!Inodes, NEW b \in Bytes, i <= Store!Allocated, Store!EditInPlace(i, b)
      PROVE  StoreShape' /\ HistoryInv' /\ Grows /\ Renames
  <2>1. i \in 1 .. Len(node) /\ Store!Private \in Store!Modes /\ UNCHANGED <<path, temp, flushed, onDisk>>
    BY <1>1 DEF Store!Inodes, Store!Allocated, Store!Modes, Store!EditInPlace,
       Store!Elsewhere, StoreShape
  <2>2. /\ Advances([Store!Stamp(node, {i}) EXCEPT ![i].bytes = b])
        /\ Len([Store!Stamp(node, {i}) EXCEPT ![i].bytes = b]) = Len(node)
    BY <1>1, <2>1, SetFacts
  <2>3. /\ HistoryInv' /\ Grows /\ Len(node') = Len(node) /\ node' \in Seq(FileStates)
    BY <1>1, <2>2, SetNodesFacts DEF Advances, Store!EditInPlace
  <2>4. QED
    BY <2>1, <2>3 DEF StoreShape, Renames
<1>2. ASSUME NEW m \in Store!Modes, Store!Chmod(m)
      PROVE  StoreShape' /\ HistoryInv' /\ Grows /\ Renames
  <2>1. path \in 1 .. Len(node) /\ Unfit \in Bytes /\ UNCHANGED <<path, temp, flushed, onDisk>>
    BY <1>2 DEF Store!Chmod, Store!Elsewhere, Bytes, StoreShape
  <2>2. /\ Advances([Store!Stamp(node, {path}) EXCEPT ![path].mode = m])
        /\ Len([Store!Stamp(node, {path}) EXCEPT ![path].mode = m]) = Len(node)
    BY <1>2, <2>1, SetFacts
  <2>3. /\ HistoryInv' /\ Grows /\ Len(node') = Len(node) /\ node' \in Seq(FileStates)
    BY <1>2, <2>2, SetNodesFacts DEF Advances, Store!Chmod
  <2>4. QED
    BY <2>1, <2>3 DEF StoreShape, Renames
<1>3. ASSUME NEW b \in Bytes, Store!SaveByRename(b)
      PROVE  StoreShape' /\ HistoryInv' /\ Grows /\ Renames
  <2>1. Store!Public \in Store!Modes /\ Unfit \in Bytes /\ UNCHANGED <<temp, onDisk>> /\ path' = Len(node) + 1
    BY <1>3 DEF Store!Modes, Bytes, Store!SaveByRename, Store!Elsewhere, Store!Allocated
  <2>2. /\ HistoryInv' /\ Grows /\ node' \in Seq(FileStates) /\ Len(node') = Len(node) + 1
        /\ flushed' \in Seq(FlushStates) /\ Len(flushed') = Len(node) + 1
        /\ \A i \in 1 .. Len(node) : flushed'[i] = flushed[i] /\ node'[i] = Store!Stamp(node, {path} \ {0})[i]
    BY <1>3, <2>1, StampFacts, AddFiles DEF Store!SaveByRename
  <2>3. StoreShape'
    BY <2>1, <2>2 DEF StoreShape
  <2>4. path # 0 => node[path].ctime < node'[path].ctime
    <3>1. path # 0 => path \in 1 .. Len(node)
      BY DEF StoreShape
    <3>2. QED
      BY <2>2, <3>1, StampLater
  <2>5. path' \notin 1 .. Len(node)
    BY <2>1 DEF StoreShape
  <2>6. QED
    BY <2>1, <2>2, <2>3, <2>4, <2>5 DEF Renames
<1>4. ASSUME Store!Remove
      PROVE  StoreShape' /\ HistoryInv' /\ Grows /\ Renames
  <2>1. path \in 1 .. Len(node) /\ UNCHANGED <<temp, flushed, onDisk>> /\ path' = 0
    BY <1>4 DEF Store!Remove, Store!Elsewhere, StoreShape
  <2>2. /\ node' = Store!Stamp(node, {path}) /\ HistoryInv' /\ Grows /\ Len(node') = Len(node)
        /\ node' \in Seq(FileStates)
    BY <1>4, StampFacts, SetNodesFacts DEF Store!Remove, Advances
  <2>3. node[path].ctime < node'[path].ctime
    BY <2>1, <2>2, StampLater
  <2>4. StoreShape'
    <3>1. 0 \in 0 .. Len(node)
      BY DEF StoreShape
    <3>2. QED
      BY <2>1, <2>2, <3>1 DEF StoreShape
  <2>5. QED
    BY <2>1, <2>2, <2>3, <2>4 DEF Renames
<1>5. ASSUME NEW w \in Writers, NEW b \in Contents, Store!SwapTemp(w, b)
      PROVE  StoreShape' /\ HistoryInv' /\ Grows /\ Renames
  <2>1. /\ Store!Public \in Store!Modes /\ Unfit \in Bytes /\ b \in Bytes /\ UNCHANGED <<path, onDisk>>
        /\ temp' = [temp EXCEPT ![w] = Len(node) + 1]
    BY <1>5 DEF Store!Modes, Bytes, Store!SwapTemp, Store!Elsewhere, Store!Allocated
  <2>2. /\ HistoryInv' /\ Grows /\ node' \in Seq(FileStates) /\ Len(node') = Len(node) + 1
        /\ flushed' \in Seq(FlushStates) /\ Len(flushed') = Len(node) + 1
        /\ \A i \in 1 .. Len(node) : flushed'[i] = flushed[i]
    BY <1>5, <2>1, StampFacts, AddFiles DEF Store!SwapTemp
  <2>3. StoreShape'
    BY <2>1, <2>2 DEF StoreShape
  <2>4. QED
    BY <2>1, <2>2, <2>3 DEF Renames
<1>6. QED
  BY <1>1, <1>2, <1>3, <1>4, <1>5 DEF Store!Others, Bytes

-----------------------------------------------------------------------------
(* A step of the writer w leaves the other calls alone, and of its own     *)
(* fields all but the ones in F.                                           *)
Turns(w, F) ==
    /\ DOMAIN call' = Writers /\ (\A x \in Writers : x # w => call'[x] = call[x])
    /\ DOMAIN call'[w] = CallFields
    /\ "pc" \in F \/ call'[w].pc = call[w].pc
    /\ "op" \in F \/ call'[w].op = call[w].op
    /\ "want" \in F \/ call'[w].want = call[w].want
    /\ "expected" \in F \/ call'[w].expected = call[w].expected
    /\ "before" \in F \/ call'[w].before = call[w].before
    /\ "intended" \in F \/ call'[w].intended = call[w].intended
    /\ "recheck" \in F \/ call'[w].recheck = call[w].recheck
    /\ "bound" \in F \/ call'[w].bound = call[w].bound
    /\ "final" \in F \/ call'[w].final = call[w].final
    /\ "edited" \in F \/ call'[w].edited = call[w].edited
    /\ "cleaned" \in F \/ call'[w].cleaned = call[w].cleaned
    /\ "mode" \in F \/ call'[w].mode = call[w].mode
    /\ "synced" \in F \/ call'[w].synced = call[w].synced
    /\ "over" \in F \/ call'[w].over = call[w].over
    /\ "outcome" \in F \/ call'[w].outcome = call[w].outcome

Calm == UNCHANGED <<node, past, path, temp, onDisk, flushed>>

(* The call is refused. *)
Refused(w) ==
    Turns(w, {"pc", "outcome"}) /\ call'[w].pc = "done" /\ call'[w].outcome = "refused"

(* s is what read_regular_bounded returned. *)
Got(w, s) ==
    LET c == call[w] IN
    /\ s.ino = c.before.ino /\ s.mode = c.before.mode /\ s.ctime = c.before.ctime
    /\ s.bytes = node[c.before.ino].bytes /\ c.before.ctime = node[c.before.ino].ctime
    /\ s \in Views

(* No view is a view of no file. *)
LEMMA NoneFacts ==
  ASSUME Len(node) \in Nat, Len(node') \in Nat
  PROVE  /\ Store!None.ino = 0 /\ ViewShape(Store!None, node) /\ ViewShape(Store!None, node')
         /\ ViewOK(Store!None, node) /\ ViewOK(Store!None, node')
         /\ \A s, p : Surfaced(Store!None, s, p)
  BY DEF Store!None, Views, Bytes, Store!Modes, ViewOK, ViewShape, Surfaced

(* An fstat is a view of the file as it is. *)
LEMMA StatFacts ==
  ASSUME StoreShape, HistoryInv, NEW i \in 1 .. Len(node)
  PROVE  /\ Store!Stat(i) \in Views /\ Store!Stat(i).ino = i /\ ViewShape(Store!Stat(i), node) /\ ViewOK(Store!Stat(i), node)
         /\ Store!Stat(i).ctime = node[i].ctime
  BY FileFacts, TimeFacts DEF Store!Stat, Views, FileStates, ViewOK, ViewShape, HistoryInv

(* A bounded read returns nothing, or the bytes of a file that did not     *)
(* change since its fstat.                                                 *)
LEMMA BoundedReadFacts ==
  ASSUME StoreShape, HistoryInv, NEW w \in Writers, ViewShape(call[w].before, node),
         call[w].before.ino # 0
  PROVE  \/ Store!ReadRegularBounded(call[w].before) = Store!None
         \/ Got(w, Store!ReadRegularBounded(call[w].before))
<1>1. PICK s : s = call[w].before
  OBVIOUS
<1>2. s \in Views /\ s.ino \in 1 .. Len(node)
  BY <1>1 DEF ViewShape, Views, StoreShape
<1>3. node[s.ino].bytes \in Bytes
  BY <1>2, FileFacts
<1>4. PICK g : g = [s EXCEPT !.bytes = node[s.ino].bytes]
  OBVIOUS
<1>5. g \in Views /\ g.ino = s.ino /\ g.mode = s.mode /\ g.ctime = s.ctime
      /\ g.bytes = node[s.ino].bytes
  BY <1>2, <1>3, <1>4 DEF Views
<1>6. QED
  BY <1>1, <1>4, <1>5 DEF Store!ReadRegularBounded, Got

(* What was read is a view of the file as it is. *)
LEMMA GotFacts ==
  ASSUME NEW w \in Writers, ViewShape(call[w].before, node), ViewOK(call[w].before, node),
         NEW s, Got(w, s)
  PROVE  ViewShape(s, node) /\ ViewOK(s, node)
  BY DEF Got, ViewShape, ViewOK

(* A refusal ends the call. *)
LEMMA RefuseFacts ==
  ASSUME DOMAIN call = Writers, NEW w \in Writers, DOMAIN call[w] = CallFields, Store!Refuse(w)
  PROVE  Refused(w)
  BY DEF Store!Refuse, Store!Goto, Refused, Turns, CallFields


(* What Read does. *)
LEMMA ReadFacts ==
  ASSUME DOMAIN call = Writers, NEW w \in Writers, DOMAIN call[w] = CallFields,
         Store!Read(w)
  PROVE  /\ call[w].pc = "idle" /\ Calm /\ Turns(w, {"pc", "before"})
         /\ \/ call'[w].pc = "missing" /\ call'[w].before = Store!None
            \/ call'[w].pc = "reading" /\ call'[w].before = Store!Stat(path) /\ path # 0
<1>1. CASE path = 0
  <2>1. Store!Goto(w, [call[w] EXCEPT !.pc = "missing", !.before = Store!None])
    BY <1>1 DEF Store!Read, Store!Open
  <2>2. Turns(w, {"pc", "before"}) /\ call'[w].pc = "missing" /\ call'[w].before = Store!None
    BY <2>1 DEF Store!Goto, Turns, CallFields
  <2>3. QED
    BY <2>2 DEF Store!Read, Store!Open, Calm, Store!files
<1>2. CASE path # 0
  <2>1. Store!Goto(w, [call[w] EXCEPT !.pc = "reading", !.before = Store!Stat(path)])
    BY <1>2 DEF Store!Read, Store!Open
  <2>2. Turns(w, {"pc", "before"}) /\ call'[w].pc = "reading" /\ call'[w].before = Store!Stat(path)
    BY <2>1 DEF Store!Goto, Turns, CallFields
  <2>3. QED
    BY <1>2, <2>2 DEF Store!Read, Store!Open, Calm, Store!files
<1>3. QED
  BY <1>1, <1>2

(* What ReadPreimage does. *)
LEMMA ReadPreimageFacts ==
  ASSUME StoreShape, HistoryInv, DOMAIN call = Writers, NEW w \in Writers, DOMAIN call[w] = CallFields,
         ViewShape(call[w].before, node), (call[w].pc \in Viewing => call[w].before.ino # 0),
         Store!ReadPreimage(w)
  PROVE  /\ call[w].pc = "reading"
         /\ \/ Refused(w)
            \/ /\ Calm /\ Turns(w, {"pc", "op", "expected"})
               /\ call'[w].pc = "temp" /\ call'[w].op = "replace" /\ Got(w, call'[w].expected)
<1>1. call[w].pc \in Viewing =>
        \/ Store!ReadRegularBounded(call[w].before) = Store!None
        \/ Got(w, Store!ReadRegularBounded(call[w].before))
  BY BoundedReadFacts
<1>2. CASE Store!Refuse(w)
  BY <1>2, RefuseFacts DEF Store!ReadPreimage
<1>3. CASE ~Store!Refuse(w)
  <2>1. PICK got : got = Store!ReadRegularBounded(call[w].before)
    OBVIOUS
  <2>2. /\ got # Store!None /\ UNCHANGED Store!files /\ call[w].pc = "reading"
        /\ Store!Goto(w, [call[w] EXCEPT !.pc = "temp", !.op = "replace", !.expected = got])
    BY <1>3, <2>1 DEF Store!ReadPreimage
  <2>3. /\ Turns(w, {"pc", "op", "expected"}) /\ call'[w].pc = "temp" /\ call'[w].op = "replace"
        /\ call'[w].expected = got
    BY <2>2 DEF Store!Goto, Turns, CallFields
  <2>4. QED
    BY <1>1, <2>1, <2>2, <2>3 DEF Calm, Store!files, Viewing, Looking
<1>4. QED
  BY <1>2, <1>3

(* What ReadMissing does. *)
LEMMA ReadMissingFacts ==
  ASSUME DOMAIN call = Writers, NEW w \in Writers, DOMAIN call[w] = CallFields,
         Store!ReadMissing(w)
  PROVE  /\ call[w].pc = "missing" /\ Calm /\ Turns(w, {"pc", "op"})
         /\ call'[w].pc = "temp" /\ call'[w].op = "create"
  BY DEF Store!ReadMissing, Store!Goto, Turns, CallFields, Calm, Store!files

(* What CreateTemp does. *)
LEMMA CreateTempFacts ==
  ASSUME DOMAIN call = Writers, NEW w \in Writers, DOMAIN call[w] = CallFields, NEW b \in Contents,
         Store!CreateTemp(w, b)
  PROVE  /\ call[w].pc = "temp"
         /\ \/ Refused(w)
            \/ /\ Turns(w, {"pc", "want", "intended"})
               /\ call'[w].pc = (IF call[w].op = "create" THEN "publish" ELSE "open")
               /\ call'[w].want = b /\ call'[w].intended = Len(node) + 1
               /\ Store!SetNodes(Store!NewNode(b, Store!Private))
               /\ flushed' = Append(flushed, [bytes |-> b, mode |-> Store!Private])
<1>1. CASE Store!Goto(w, [call[w] EXCEPT !.pc = "done", !.outcome = "refused"])
  BY <1>1 DEF Store!CreateTemp, Store!Goto, Turns, CallFields, Refused
<1>2. CASE /\ Store!Goto(w, [call[w] EXCEPT !.want = b, !.intended = Store!Allocated + 1,
                         !.pc = IF call[w].op = "create" THEN "publish" ELSE "open"])
           /\ Store!SetNodes(Store!NewNode(b, Store!Private))
           /\ flushed' = Append(flushed, [bytes |-> b, mode |-> Store!Private])
  <2>1. /\ Turns(w, {"pc", "want", "intended"}) /\ call'[w].want = b
        /\ call'[w].intended = Store!Allocated + 1
        /\ call'[w].pc = (IF call[w].op = "create" THEN "publish" ELSE "open")
    BY <1>2 DEF Store!Goto, Turns, CallFields
  <2>2. QED
    BY <1>2, <2>1 DEF Store!CreateTemp, Store!Allocated
<1>3. QED
  BY <1>1, <1>2 DEF Store!CreateTemp

(* What OpenRecheck does. *)
LEMMA OpenRecheckFacts ==
  ASSUME DOMAIN call = Writers, NEW w \in Writers, DOMAIN call[w] = CallFields,
         Store!OpenRecheck(w)
  PROVE  /\ call[w].pc = "open"
         /\ \/ Refused(w)
            \/ /\ Calm /\ Turns(w, {"pc", "before", "recheck"}) /\ path # 0
               /\ call'[w].pc = "rechecking" /\ call'[w].before = Store!Stat(path) /\ call'[w].recheck = path
<1>1. CASE Store!Refuse(w)
  BY <1>1, RefuseFacts DEF Store!OpenRecheck
<1>2. CASE ~Store!Refuse(w)
  <2>1. /\ path # 0 /\ UNCHANGED Store!files /\ call[w].pc = "open"
        /\ Store!Goto(w, [call[w] EXCEPT !.pc = "rechecking", !.before = Store!Stat(path), !.recheck = path])
    BY <1>2 DEF Store!OpenRecheck
  <2>2. /\ Turns(w, {"pc", "before", "recheck"}) /\ call'[w].pc = "rechecking"
        /\ call'[w].before = Store!Stat(path) /\ call'[w].recheck = path
    BY <2>1 DEF Store!Goto, Turns, CallFields
  <2>3. QED
    BY <2>1, <2>2 DEF Calm, Store!files
<1>3. QED
  BY <1>1, <1>2

(* What Recheck does. *)
LEMMA RecheckFacts ==
  ASSUME StoreShape, HistoryInv, DOMAIN call = Writers, NEW w \in Writers, DOMAIN call[w] = CallFields,
         ViewShape(call[w].before, node), (call[w].pc \in Viewing => call[w].before.ino # 0),
         Store!Recheck(w)
  PROVE  /\ call[w].pc = "rechecking"
         /\ \/ Refused(w)
            \/ /\ Calm /\ Turns(w, {"pc"}) /\ call'[w].pc = "publish"
               /\ call[w].expected.ino = call[w].before.ino
<1>1. call[w].pc \in Viewing =>
        \/ Store!ReadRegularBounded(call[w].before) = Store!None
        \/ Got(w, Store!ReadRegularBounded(call[w].before))
  BY BoundedReadFacts
<1>2. CASE Store!Refuse(w)
  BY <1>2, RefuseFacts DEF Store!Recheck
<1>3. CASE ~Store!Refuse(w)
  <2>1. PICK got : got = Store!ReadRegularBounded(call[w].before)
    OBVIOUS
  <2>2. /\ got # Store!None /\ UNCHANGED Store!files /\ call[w].pc = "rechecking"
        /\ got.ino = call[w].expected.ino /\ Store!Goto(w, [call[w] EXCEPT !.pc = "publish"])
    BY <1>3, <2>1 DEF Store!Recheck, Store!ExactStateMatches, Store!SameFile
  <2>3. Turns(w, {"pc"}) /\ call'[w].pc = "publish"
    BY <2>2 DEF Store!Goto, Turns, CallFields
  <2>4. QED
    BY <1>1, <2>1, <2>2, <2>3 DEF Calm, Store!files, Got, Viewing, Looking
<1>4. QED
  BY <1>2, <1>3

(* What Link does. *)
LEMMA LinkFacts ==
  ASSUME DOMAIN call = Writers, NEW w \in Writers, DOMAIN call[w] = CallFields,
         Store!Link(w)
  PROVE  /\ call[w].pc = "publish" /\ call[w].op = "create"
         /\ Refused(w) \/ (Turns(w, {"pc"}) /\ call'[w].pc = "bind")
  BY RefuseFacts DEF Store!Link, Store!Goto, Turns, CallFields

(* What Rename does. *)
LEMMA RenameFacts ==
  ASSUME DOMAIN call = Writers, NEW w \in Writers, DOMAIN call[w] = CallFields,
         Store!Rename(w)
  PROVE  /\ call[w].pc = "publish" /\ call[w].op = "replace"
         /\ \/ Refused(w)
            \/ /\ Turns(w, {"pc", "over"}) /\ call'[w].pc = "reopen"
               /\ call'[w].over = IF path = 0 THEN Store!None ELSE Store!Stat(path)
  BY RefuseFacts, ZenonT(60) DEF Store!Rename, Store!Goto, Turns, CallFields

(* What OpenReread does. *)
LEMMA OpenRereadFacts ==
  ASSUME DOMAIN call = Writers, NEW w \in Writers, DOMAIN call[w] = CallFields,
         Store!OpenReread(w)
  PROVE  /\ call[w].pc = "reopen" /\ Calm /\ Turns(w, {"pc", "before"})
         /\ call'[w].pc = "rereading" /\ call'[w].before = Store!Stat(call[w].recheck)
  BY DEF Store!OpenReread, Store!Goto, Turns, CallFields, Calm, Store!files

(* What Reread does. *)
LEMMA RereadFacts ==
  ASSUME StoreShape, HistoryInv, DOMAIN call = Writers, NEW w \in Writers, DOMAIN call[w] = CallFields,
         ViewShape(call[w].before, node), (call[w].pc \in Viewing => call[w].before.ino # 0),
         Store!Reread(w)
  PROVE  /\ call[w].pc = "rereading" /\ Calm /\ Turns(w, {"pc", "edited"}) /\ call'[w].pc = "bind"
         /\ \/ call'[w].edited
            \/ node[call[w].before.ino].bytes = call[w].expected.bytes
<1>1. call[w].pc \in Viewing =>
        \/ Store!ReadRegularBounded(call[w].before) = Store!None
        \/ Got(w, Store!ReadRegularBounded(call[w].before))
  BY BoundedReadFacts
<1>2. UNCHANGED Store!files /\ call[w].pc = "rereading"
  BY DEF Store!Reread
<1>3. PICK e : e = Store!Edited(w)
  OBVIOUS
<1>4. Store!Goto(w, [call[w] EXCEPT !.pc = "bind", !.edited = e])
  BY <1>3 DEF Store!Reread
<1>5. Turns(w, {"pc", "edited"}) /\ call'[w].pc = "bind" /\ call'[w].edited = e
  BY <1>4 DEF Store!Goto, Turns, CallFields
<1>6. e \/ node[call[w].before.ino].bytes = call[w].expected.bytes
  BY <1>1, <1>2, <1>3 DEF Store!Edited, Store!SameFile, Got, Viewing
<1>7. QED
  BY <1>2, <1>5, <1>6 DEF Calm, Store!files

(* What OpenBind does. *)
LEMMA OpenBindFacts ==
  ASSUME DOMAIN call = Writers, NEW w \in Writers, DOMAIN call[w] = CallFields,
         Store!OpenBind(w)
  PROVE  /\ call[w].pc = "bind" /\ Calm /\ Turns(w, {"pc", "before"})
         /\ \/ call'[w].pc = "unbound" /\ call'[w].before = Store!None
            \/ call'[w].pc = "binding" /\ call'[w].before = Store!Stat(path) /\ path # 0
<1>1. CASE path = 0
  <2>1. Store!Goto(w, [call[w] EXCEPT !.pc = "unbound", !.before = Store!None])
    BY <1>1 DEF Store!OpenBind, Store!Open
  <2>2. Turns(w, {"pc", "before"}) /\ call'[w].pc = "unbound" /\ call'[w].before = Store!None
    BY <2>1 DEF Store!Goto, Turns, CallFields
  <2>3. QED
    BY <2>2 DEF Store!OpenBind, Store!Open, Calm, Store!files
<1>2. CASE path # 0
  <2>1. Store!Goto(w, [call[w] EXCEPT !.pc = "binding", !.before = Store!Stat(path)])
    BY <1>2 DEF Store!OpenBind, Store!Open
  <2>2. Turns(w, {"pc", "before"}) /\ call'[w].pc = "binding" /\ call'[w].before = Store!Stat(path)
    BY <2>1 DEF Store!Goto, Turns, CallFields
  <2>3. QED
    BY <1>2, <2>2 DEF Store!OpenBind, Store!Open, Calm, Store!files
<1>3. QED
  BY <1>1, <1>2

(* What Bind does. *)
LEMMA BindFacts ==
  ASSUME StoreShape, HistoryInv, DOMAIN call = Writers, NEW w \in Writers, DOMAIN call[w] = CallFields,
         ViewShape(call[w].before, node), (call[w].pc \in Viewing => call[w].before.ino # 0),
         Store!Bind(w)
  PROVE  /\ call[w].pc \in {"binding", "unbound"} /\ Calm /\ Turns(w, {"pc", "bound"})
         /\ \/ call'[w].bound = 0 /\ call'[w].pc \in {"cleanup", "dirsync"}
            \/ /\ call[w].pc = "binding" /\ call'[w].bound = call[w].before.ino
               /\ call'[w].bound = call[w].intended /\ call'[w].pc \in {"cleanup", "mode"}
<1>1. call[w].pc \in Viewing =>
        \/ Store!ReadRegularBounded(call[w].before) = Store!None
        \/ Got(w, Store!ReadRegularBounded(call[w].before))
  BY BoundedReadFacts
<1>2. PICK got : got = IF call[w].pc = "unbound" THEN Store!None ELSE Store!ReadRegularBounded(call[w].before)
  OBVIOUS
<1>3. /\ UNCHANGED Store!files /\ call[w].pc \in {"binding", "unbound"}
      /\ Store!Goto(w, [call[w] EXCEPT !.bound = IF Store!SourceMatches(got, call[w]) THEN got.ino ELSE 0,
                    !.pc = IF call[w].op = "create" THEN "cleanup"
                           ELSE IF Store!SourceMatches(got, call[w]) THEN "mode" ELSE "dirsync"])
  BY <1>2 DEF Store!Bind
<1>4. /\ Turns(w, {"pc", "bound"})
      /\ call'[w].bound = (IF Store!SourceMatches(got, call[w]) THEN got.ino ELSE 0)
      /\ call'[w].pc = (IF call[w].op = "create" THEN "cleanup"
                        ELSE IF Store!SourceMatches(got, call[w]) THEN "mode" ELSE "dirsync")
  BY <1>3 DEF Store!Goto, Turns, CallFields
<1>5. Store!SourceMatches(got, call[w]) => /\ call[w].pc = "binding" /\ got.ino = call[w].before.ino
                                           /\ got.ino = call[w].intended
  BY <1>1, <1>2, <1>3 DEF Store!SourceMatches, Got, Viewing, Looking
<1>6. QED
  BY <1>3, <1>4, <1>5 DEF Calm, Store!files

(* What Cleanup does. *)
LEMMA CleanupFacts ==
  ASSUME DOMAIN call = Writers, NEW w \in Writers, DOMAIN call[w] = CallFields,
         Store!Cleanup(w)
  PROVE  /\ call[w].pc = "cleanup" /\ Turns(w, {"pc", "cleaned"})
         /\ call'[w].pc = IF call[w].bound # 0 THEN "mode" ELSE "dirsync"
<1>1. PICK next : next = IF call[w].bound # 0 THEN "mode" ELSE "dirsync"
  OBVIOUS
<1>2. /\ call[w].pc = "cleanup"
      /\ \/ Store!Goto(w, [call[w] EXCEPT !.pc = next])
         \/ Store!Goto(w, [call[w] EXCEPT !.pc = next, !.cleaned = FALSE])
  BY <1>1 DEF Store!Cleanup
<1>3. Turns(w, {"pc", "cleaned"}) /\ call'[w].pc = next
  BY <1>2, ZenonT(60) DEF Store!Goto, Turns, CallFields
<1>4. QED
  BY <1>1, <1>2, <1>3

(* What ApplyMode does. *)
LEMMA ApplyModeFacts ==
  ASSUME DOMAIN call = Writers, NEW w \in Writers, DOMAIN call[w] = CallFields,
         Store!ApplyMode(w)
  PROVE  /\ call[w].pc = "mode"
         /\ \/ Turns(w, {"pc", "mode"}) /\ call'[w].pc = "dirsync"
            \/ Turns(w, {"pc", "synced"}) /\ call'[w].pc = "expect"
  BY ZenonT(60) DEF Store!ApplyMode, Store!Goto, Turns, CallFields, Calm, Store!files

(* What OpenExpect does. *)
LEMMA OpenExpectFacts ==
  ASSUME DOMAIN call = Writers, NEW w \in Writers, DOMAIN call[w] = CallFields,
         Store!OpenExpect(w)
  PROVE  /\ call[w].pc = "expect" /\ Calm /\ Turns(w, {"pc", "before"})
         /\ call'[w].pc = "expecting" /\ call'[w].before = Store!Stat(call[w].bound)
  BY DEF Store!OpenExpect, Store!Goto, Turns, CallFields, Calm, Store!files

(* What Expect does. *)
LEMMA ExpectFacts ==
  ASSUME StoreShape, HistoryInv, DOMAIN call = Writers, NEW w \in Writers, DOMAIN call[w] = CallFields,
         ViewShape(call[w].before, node), (call[w].pc \in Viewing => call[w].before.ino # 0),
         Store!Expect(w)
  PROVE  /\ call[w].pc = "expecting" /\ Calm /\ Turns(w, {"pc", "mode", "final"})
         /\ call'[w].pc = "dirsync"
         /\ \/ call'[w].final = Store!None
            \/ Got(w, call'[w].final) /\ call'[w].final.mode = Store!WantedMode(w)
<1>1. call[w].pc \in Viewing =>
        \/ Store!ReadRegularBounded(call[w].before) = Store!None
        \/ Got(w, Store!ReadRegularBounded(call[w].before))
  BY BoundedReadFacts
<1>2. QED
  BY <1>1 DEF Store!Expect, Viewing, Looking, Store!Goto, Turns, CallFields, Calm,
     Store!files

(* What SyncDirectory does. *)
LEMMA SyncDirectoryFacts ==
  ASSUME DOMAIN call = Writers, NEW w \in Writers, DOMAIN call[w] = CallFields,
         Store!SyncDirectory(w)
  PROVE  /\ call[w].pc = "dirsync" /\ UNCHANGED <<node, past, path, flushed>>
         /\ call'[w].pc = "last"
         /\ \/ Turns(w, {"pc"}) /\ onDisk' = path
            \/ Turns(w, {"pc", "synced"}) /\ ~call'[w].synced
<1>1. CASE onDisk' = path /\ Store!Goto(w, [call[w] EXCEPT !.pc = "last"])
  <2>1. Turns(w, {"pc"}) /\ call'[w].pc = "last"
    BY <1>1 DEF Store!Goto, Turns, CallFields
  <2>2. QED
    BY <1>1, <2>1 DEF Store!SyncDirectory
<1>2. CASE Store!Goto(w, [call[w] EXCEPT !.pc = "last", !.synced = FALSE])
  <2>1. Turns(w, {"pc", "synced"}) /\ call'[w].pc = "last" /\ call'[w].synced = FALSE
    BY <1>2 DEF Store!Goto, Turns, CallFields
  <2>2. QED
    BY <2>1 DEF Store!SyncDirectory
<1>3. QED
  BY <1>1, <1>2 DEF Store!SyncDirectory

(* What OpenFinal does. *)
LEMMA OpenFinalFacts ==
  ASSUME DOMAIN call = Writers, NEW w \in Writers, DOMAIN call[w] = CallFields,
         Store!OpenFinal(w)
  PROVE  /\ call[w].pc = "last" /\ Calm /\ Turns(w, {"pc", "before"})
         /\ \/ call'[w].pc = "gone" /\ call'[w].before = Store!None
            \/ call'[w].pc = "finishing" /\ call'[w].before = Store!Stat(path) /\ path # 0
<1>1. CASE path = 0
  <2>1. Store!Goto(w, [call[w] EXCEPT !.pc = "gone", !.before = Store!None])
    BY <1>1 DEF Store!OpenFinal, Store!Open
  <2>2. Turns(w, {"pc", "before"}) /\ call'[w].pc = "gone" /\ call'[w].before = Store!None
    BY <2>1 DEF Store!Goto, Turns, CallFields
  <2>3. QED
    BY <2>2 DEF Store!OpenFinal, Store!Open, Calm, Store!files
<1>2. CASE path # 0
  <2>1. Store!Goto(w, [call[w] EXCEPT !.pc = "finishing", !.before = Store!Stat(path)])
    BY <1>2 DEF Store!OpenFinal, Store!Open
  <2>2. Turns(w, {"pc", "before"}) /\ call'[w].pc = "finishing" /\ call'[w].before = Store!Stat(path)
    BY <2>1 DEF Store!Goto, Turns, CallFields
  <2>3. QED
    BY <1>2, <2>2 DEF Store!OpenFinal, Store!Open, Calm, Store!files
<1>3. QED
  BY <1>1, <1>2

(* What Finish does. *)
LEMMA FinishFacts ==
  ASSUME StoreShape, HistoryInv, DOMAIN call = Writers, NEW w \in Writers, DOMAIN call[w] = CallFields,
         ViewShape(call[w].before, node), (call[w].pc \in Viewing => call[w].before.ino # 0), ViewShape(call[w].final, node),
         Store!Finish(w)
  PROVE  /\ call[w].pc \in {"finishing", "gone"} /\ Calm /\ Turns(w, {"pc", "outcome"})
         /\ call'[w].pc = "done"
         /\ \/ call'[w].outcome = "interfered"
            \/ /\ call'[w].outcome = "published" /\ call[w].pc = "finishing" /\ ~call[w].edited
               /\ call[w].final # Store!None /\ Got(w, call[w].final)
<1>1. call[w].pc \in Viewing =>
        \/ Store!ReadRegularBounded(call[w].before) = Store!None
        \/ Got(w, Store!ReadRegularBounded(call[w].before))
  BY BoundedReadFacts
<1>2. PICK got : got = IF call[w].pc = "gone" THEN Store!None ELSE Store!ReadRegularBounded(call[w].before)
  OBVIOUS
<1>3. PICK bad : bad = (call[w].bound = 0 \/ call[w].edited \/ ~Store!FinalMatches(got, call[w].final))
  OBVIOUS
<1>4. /\ UNCHANGED Store!files /\ call[w].pc \in {"finishing", "gone"}
      /\ Store!Goto(w, [call[w] EXCEPT !.pc = "done",
                    !.outcome = IF bad THEN "interfered" ELSE "published"])
  BY <1>2, <1>3 DEF Store!Finish
<1>5. /\ Turns(w, {"pc", "outcome"}) /\ call'[w].pc = "done"
      /\ call'[w].outcome = (IF bad THEN "interfered" ELSE "published")
  BY <1>4 DEF Store!Goto, Turns, CallFields
<1>6. ~bad => /\ call[w].pc = "finishing" /\ ~call[w].edited /\ call[w].final # Store!None
              /\ Got(w, call[w].final)
  <2>1. SUFFICES ASSUME ~bad
                 PROVE  /\ call[w].pc = "finishing" /\ ~call[w].edited /\ call[w].final # Store!None
                        /\ Got(w, call[w].final)
    OBVIOUS
  <2>2. ~call[w].edited /\ Store!FinalMatches(got, call[w].final)
    BY <1>3, <2>1
  <2>3. /\ got # Store!None /\ call[w].final # Store!None /\ got.ino = call[w].final.ino
        /\ got.bytes = call[w].final.bytes /\ got.mode = call[w].final.mode
        /\ got.ctime = call[w].final.ctime
    BY <2>2 DEF Store!FinalMatches, Store!ExactStateMatches, Store!SameFile
  <2>4. call[w].pc = "finishing" /\ Got(w, got)
    BY <1>1, <1>2, <1>4, <2>3 DEF Viewing, Looking
  <2>5. QED
    BY <2>2, <2>3, <2>4 DEF Got, ViewShape
<1>7. QED
  BY <1>4, <1>5, <1>6 DEF Calm, Store!files



-----------------------------------------------------------------------------
(* What a call has seen stays true while the directory changes. *)
LEMMA CarryView ==
  ASSUME StoreShape, HistoryInv, Grows, NEW s, ViewShape(s, node), ViewOK(s, node)
  PROVE  ViewOK(s, node')
<1>1. s \in Views /\ s.ino <= Len(node) /\ s.ino \in Nat /\ s.ctime \in Nat
  BY DEF ViewShape, Views
<1>2. Len(node) \in Nat /\ Len(node') \in Nat /\ Len(node) <= Len(node')
  BY FileFacts DEF Grows
<1>3. CASE s.ino # 0
  <2>1. s.ino \in 1 .. Len(node)
    BY <1>1, <1>2, <1>3
  <2>2. /\ node[s.ino].ctime \in Nat /\ node[s.ino].ctime <= node'[s.ino].ctime
        /\ node'[s.ino].ctime \in Nat
        /\ node'[s.ino].ctime = node[s.ino].ctime => node'[s.ino] = node[s.ino]
    <3>1. node' \in [1 .. Len(node') -> FileStates] /\ s.ino \in 1 .. Len(node')
      BY <1>2, <2>1 DEF Grows
    <3>2. QED
      BY <2>1, <3>1, TimeFacts DEF Grows, FileStates
  <2>3. QED
    BY <1>1, <1>2, <2>2, SMTT(60) DEF ViewOK
<1>4. CASE s.ino = 0
  BY <1>4 DEF ViewOK
<1>5. QED
  BY <1>3, <1>4

(* A view keeps its type. *)
LEMMA CarryShape ==
  ASSUME StoreShape, Grows, NEW s, ViewShape(s, node)
  PROVE  ViewShape(s, node')
  BY FileFacts DEF Grows, ViewShape, Views

(* While a file does not change it neither takes nor leaves the name       *)
(* CERMET.md.                                                              *)
LEMMA CarryName ==
  ASSUME StoreShape, HistoryInv, Grows, Renames, NEW s, ViewShape(s, node), ViewOK(s, node), s.ino # 0
  PROVE  /\ Named(s, node, path) => Named(s, node', path')
         /\ Held(s, node, path, onDisk) => Held(s, node', path', onDisk')
<1>1. s.ino \in 1 .. Len(node) /\ s.ctime \in Nat
  BY FileFacts DEF ViewShape, Views
<1>2. node[s.ino].ctime \in Nat /\ node[s.ino].ctime <= node'[s.ino].ctime
      /\ node'[s.ino].ctime \in Nat
  <2>1. node' \in [1 .. Len(node') -> FileStates] /\ s.ino \in 1 .. Len(node')
    BY <1>1, FileFacts DEF Grows
  <2>2. QED
    BY <1>1, <2>1, TimeFacts DEF Grows, FileStates
<1>3. s.ctime <= node[s.ino].ctime
  BY DEF ViewOK
<1>4. SUFFICES ASSUME s.ctime = node'[s.ino].ctime
               PROVE  /\ Named(s, node, path) => Named(s, node', path')
                      /\ Held(s, node, path, onDisk) => Held(s, node', path', onDisk')
  BY DEF Named, Held
<1>5. s.ctime = node[s.ino].ctime /\ node'[s.ino].ctime = node[s.ino].ctime
  BY <1>1, <1>2, <1>3, <1>4
<1>6. (path = s.ino <=> path' = s.ino) /\ (onDisk' = onDisk \/ onDisk' = path')
  BY <1>1, <1>2, <1>5 DEF Renames
<1>7. QED
  BY <1>5, <1>6 DEF Named, Held

(* So a synced name stays synced, or is left. *)
LEMMA CarryHeld ==
  ASSUME StoreShape, HistoryInv, Grows, Renames, NEW s, ViewShape(s, node), ViewOK(s, node),
         Held(s, node, path, onDisk)
  PROVE  Held(s, node', path', onDisk')
  BY CarryName DEF Held

(* Bytes that surfaced stay in the history. *)
LEMMA CarryBytes ==
  ASSUME StoreShape, HistoryInv, Grows, NEW over, ViewShape(over, node), NEW expected,
         Surfaced(over, expected, past)
  PROVE  Surfaced(over, expected, past')
<1>1. SUFFICES ASSUME over.ino # 0, over.ino = expected.ino
               PROVE  \E k \in over.ctime .. Len(past'[over.ino]) :
                        past'[over.ino][k] = expected.bytes
  BY DEF Surfaced
<1>2. PICK k \in over.ctime .. Len(past[over.ino]) : past[over.ino][k] = expected.bytes
  BY <1>1 DEF Surfaced
<1>3. over.ino \in 1 .. Len(node) /\ over.ctime \in Nat
  BY <1>1, FileFacts DEF ViewShape, Views
<1>4. /\ Len(past[over.ino]) \in Nat /\ Len(past'[over.ino]) \in Nat
      /\ Len(past[over.ino]) <= Len(past'[over.ino])
      /\ \A j \in 1 .. Len(past[over.ino]) : past'[over.ino][j] = past[over.ino][j]
  BY <1>3, TimeFacts DEF Grows
<1>5. CASE k > 0
  BY <1>2, <1>3, <1>4, <1>5, SMTT(60)
<1>6. over.ctime > 0
  BY <1>1 DEF ViewShape
<1>7. QED
  BY <1>2, <1>3, <1>5, <1>6

(* Flushed bytes stay in the history. *)
LEMMA CarryFlush ==
  ASSUME StoreShape, HistoryInv, Grows, Renames, NEW i \in 0 .. Len(node),
         FlushOK(i, past, flushed)
  PROVE  FlushOK(i, past', flushed')
<1>1. SUFFICES ASSUME i # 0
               PROVE  \E k \in 1 .. Len(past'[i]) : past'[i][k] = flushed'[i].bytes
  BY DEF FlushOK
<1>2. i \in 1 .. Len(node)
  BY <1>1, FileFacts
<1>3. PICK k \in 1 .. Len(past[i]) : past[i][k] = flushed[i].bytes
  BY <1>1 DEF FlushOK
<1>4. k \in 1 .. Len(past'[i]) /\ past'[i][k] = past[i][k]
  BY <1>2, <1>3, TimeFacts DEF Grows
<1>5. CASE flushed'[i] = flushed[i]
  BY <1>3, <1>4, <1>5
<1>6. QED
  BY <1>2, <1>5 DEF Renames

(* A call that does not move keeps what it knows and has seen. *)
LEMMA CarryCall ==
  ASSUME StoreShape, HistoryInv, Grows, Renames, NEW w \in Writers,
         CallShape(w), StageOK(w), SeenOK(w)
  PROVE  LET c == call[w] IN
         /\ ViewShape(c.expected, node') /\ ViewShape(c.before, node')
         /\ ViewShape(c.over, node') /\ ViewShape(c.final, node')
         /\ ViewOK(c.before, node') /\ ViewOK(c.over, node') /\ ViewOK(c.final, node')
         /\ c.pc \in Looking => Named(c.before, node', path')
         /\ c.pc \notin Trying \cup {"reopen", "rereading", "done"} =>
              c.edited \/ Surfaced(c.over, c.expected, past')
         /\ c.outcome = "published" => Surfaced(c.over, c.expected, past')
         /\ c.pc \in {"last", "finishing", "gone"} /\ c.synced => Held(c.final, node', path', onDisk')
         /\ FlushOK(c.intended, past', flushed')
<1>1. /\ ViewOK(call[w].before, node') /\ ViewOK(call[w].over, node')
      /\ ViewOK(call[w].final, node')
  BY CarryView DEF CallShape, SeenOK
<1>2. call[w].pc \in Looking => Named(call[w].before, node', path')
  BY CarryName DEF CallShape, SeenOK, StageOK, Viewing
<1>3. /\ call[w].pc \notin Trying \cup {"reopen", "rereading", "done"} =>
           call[w].edited \/ Surfaced(call[w].over, call[w].expected, past')
      /\ call[w].outcome = "published" => Surfaced(call[w].over, call[w].expected, past')
  BY CarryBytes DEF CallShape, SeenOK
<1>4. call[w].pc \in {"last", "finishing", "gone"} /\ call[w].synced =>
        Held(call[w].final, node', path', onDisk')
  BY CarryHeld DEF CallShape, SeenOK
<1>5. FlushOK(call[w].intended, past', flushed')
  BY CarryFlush DEF CallShape, SeenOK
<1>6. /\ ViewShape(call[w].expected, node') /\ ViewShape(call[w].before, node')
      /\ ViewShape(call[w].over, node') /\ ViewShape(call[w].final, node')
  BY CarryShape DEF CallShape
<1>7. QED
  BY <1>1, <1>2, <1>3, <1>4, <1>5, <1>6

(* The steps of others keep what a call knows and has seen. *)
LEMMA Bystander ==
  ASSUME StoreShape, HistoryInv, Grows, Renames, NEW w \in Writers,
         CallShape(w), StageOK(w), SeenOK(w), call'[w] = call[w]
  PROVE  CallShape(w)' /\ StageOK(w)' /\ SeenOK(w)'
<1>1. Len(node) \in Nat /\ Len(node') \in Nat /\ Len(node) <= Len(node')
  BY FileFacts DEF Grows
<1>2. CallShape(w)'
  BY <1>1, CarryCall DEF CallShape
<1>3. StageOK(w)'
  BY DEF StageOK, Store!WantedMode
<1>4. SeenOK(w)'
  BY CarryCall DEF SeenOK
<1>5. QED
  BY <1>2, <1>3, <1>4


-----------------------------------------------------------------------------
(* A call that ends refused. *)
LEMMA RefusedStep ==
  ASSUME StoreShape, HistoryInv, StoreShape', HistoryInv', Grows, Renames,
         DOMAIN call = Writers, NEW w \in Writers, CallShape(w), StageOK(w), SeenOK(w), Refused(w)
  PROVE  CallShape(w)' /\ StageOK(w)' /\ SeenOK(w)'
<1>1. Len(node) \in Nat /\ Len(node') \in Nat /\ Len(node) <= Len(node')
  BY FileFacts DEF Grows
<1>2. CallShape(w)'
  BY <1>1, CarryCall DEF CallShape, Refused, Turns
<1>3. StageOK(w)'
  BY DEF StageOK, Store!WantedMode, Refused, Turns, Trying, Viewing, Looking, Bare
<1>4. SeenOK(w)'
  BY CarryCall, SMTT(60) DEF SeenOK, Refused, Turns, Looking
<1>5. QED
  BY <1>2, <1>3, <1>4

(* The file that was renamed over holds, when it is read again, the bytes  *)
(* that were read first.                                                   *)
LEMMA SurfacesNow ==
  ASSUME StoreShape, HistoryInv, NEW w \in Writers, CallShape(w), StageOK(w), SeenOK(w),
         call[w].pc = "rereading", node[call[w].before.ino].bytes = call[w].expected.bytes
  PROVE  Surfaced(call[w].over, call[w].expected, past)
<1>1. SUFFICES ASSUME call[w].over.ino # 0, call[w].over.ino = call[w].expected.ino
               PROVE  \E k \in call[w].over.ctime .. Len(past[call[w].over.ino]) :
                        past[call[w].over.ino][k] = call[w].expected.bytes
  BY DEF Surfaced
<1>2. PICK i : i = call[w].over.ino
  OBVIOUS
<1>3. i \in 1 .. Len(node) /\ call[w].over.ctime \in Nat /\ i = call[w].before.ino
  BY <1>1, <1>2, FileFacts DEF CallShape, ViewShape, Views, StageOK
<1>4. /\ node[i].ctime \in Nat /\ Len(past[i]) = node[i].ctime
      /\ past[i][node[i].ctime] = node[i].bytes
  BY <1>3, TimeFacts, SMTT(60) DEF HistoryInv, StoreShape
<1>5. call[w].over.ctime <= node[i].ctime
  BY <1>1, <1>2 DEF SeenOK, ViewOK
<1>6. QED
  BY <1>2, <1>3, <1>4, <1>5, SMTT(60)

(* Read keeps what the call knows and has seen. *)
LEMMA ReadStep ==
  ASSUME StoreShape, HistoryInv, StoreShape', HistoryInv', Grows, Renames,
         DOMAIN call = Writers, NEW w \in Writers, CallShape(w), StageOK(w), SeenOK(w),
         Store!Read(w)
  PROVE  CallShape(w)' /\ StageOK(w)' /\ SeenOK(w)'
<1>1. Len(node) \in Nat /\ Len(node') \in Nat /\ Len(node) <= Len(node')
  BY FileFacts DEF Grows
<1>2. /\ call[w].pc = "idle" /\ Calm /\ Turns(w, {"pc", "before"})
      /\ \/ call'[w].pc = "missing" /\ call'[w].before = Store!None
         \/ call'[w].pc = "reading" /\ call'[w].before = Store!Stat(path) /\ path # 0
  BY ReadFacts DEF CallShape
<1>3. path # 0 => /\ ViewShape(Store!Stat(path), node) /\ ViewOK(Store!Stat(path), node)
                /\ Store!Stat(path).ino = path /\ Store!Stat(path).ctime = node[path].ctime
  BY <1>1, StatFacts DEF StoreShape
<1>4. CallShape(w)'
  BY <1>1, <1>2, <1>3, CarryCall, NoneFacts DEF CallShape, Calm, Turns
<1>5. StageOK(w)'
  BY <1>1, <1>2, <1>3, NoneFacts DEF CallShape, StageOK, Store!WantedMode, Turns, Trying,
     Viewing, Looking, Bare
<1>6. SeenOK(w)'
  BY <1>1, <1>2, <1>3, CarryCall, NoneFacts DEF SeenOK, StageOK, Calm, Turns, Trying,
     Looking, Named
<1>7. QED
  BY <1>4, <1>5, <1>6

(* ReadPreimage keeps what the call knows and has seen. *)
LEMMA ReadPreimageStep ==
  ASSUME StoreShape, HistoryInv, StoreShape', HistoryInv', Grows, Renames,
         DOMAIN call = Writers, NEW w \in Writers, CallShape(w), StageOK(w), SeenOK(w),
         Store!ReadPreimage(w)
  PROVE  CallShape(w)' /\ StageOK(w)' /\ SeenOK(w)'
<1>1. Len(node) \in Nat /\ Len(node') \in Nat /\ Len(node) <= Len(node')
  BY FileFacts DEF Grows
<1>2. /\ call[w].pc = "reading"
      /\ \/ Refused(w)
         \/ /\ Calm /\ Turns(w, {"pc", "op", "expected"})
            /\ call'[w].pc = "temp" /\ call'[w].op = "replace" /\ Got(w, call'[w].expected)
  BY ReadPreimageFacts DEF CallShape, StageOK
<1>3. CASE Refused(w)
  BY <1>3, RefusedStep
<1>4. CASE ~Refused(w)
  <2>1. Got(w, call'[w].expected) => ViewShape(call'[w].expected, node) /\ ViewOK(call'[w].expected, node)
    BY GotFacts DEF CallShape, SeenOK
  <2>2. CallShape(w)'
    BY <1>4, <1>1, <1>2, <2>1, CarryCall, NoneFacts DEF CallShape, Calm, Turns
  <2>3. StageOK(w)'
    BY <1>4, <1>1, <1>2, <2>1, NoneFacts, SMTT(60) DEF CallShape, StageOK, Store!WantedMode, Turns,
       Trying, Viewing, Looking, Bare
  <2>4. SeenOK(w)'
    BY <1>4, <1>1, <1>2, <2>1, CarryCall, NoneFacts DEF SeenOK, StageOK, Calm, Turns,
       Trying, Looking, Named
  <2>5. QED
    BY <2>2, <2>3, <2>4
<1>5. QED
  BY <1>3, <1>4

(* ReadMissing keeps what the call knows and has seen. *)
LEMMA ReadMissingStep ==
  ASSUME StoreShape, HistoryInv, StoreShape', HistoryInv', Grows, Renames,
         DOMAIN call = Writers, NEW w \in Writers, CallShape(w), StageOK(w), SeenOK(w),
         Store!ReadMissing(w)
  PROVE  CallShape(w)' /\ StageOK(w)' /\ SeenOK(w)'
<1>1. Len(node) \in Nat /\ Len(node') \in Nat /\ Len(node) <= Len(node')
  BY FileFacts DEF Grows
<1>2. /\ call[w].pc = "missing" /\ Calm /\ Turns(w, {"pc", "op"})
      /\ call'[w].pc = "temp" /\ call'[w].op = "create"
  BY ReadMissingFacts DEF CallShape
<1>3. CallShape(w)'
  BY <1>1, <1>2, CarryCall, NoneFacts DEF CallShape, Calm, Turns
<1>4. StageOK(w)'
  BY <1>1, <1>2, NoneFacts, SMTT(60) DEF CallShape, StageOK, Store!WantedMode, Turns, Trying, Viewing,
     Looking, Bare
<1>5. SeenOK(w)'
  BY <1>1, <1>2, CarryCall, NoneFacts DEF SeenOK, StageOK, Calm, Turns, Trying, Looking,
     Named
<1>6. QED
  BY <1>3, <1>4, <1>5

(* CreateTemp keeps what the call knows and has seen. *)
LEMMA CreateTempStep ==
  ASSUME StoreShape, HistoryInv, StoreShape', HistoryInv', Grows, Renames,
         DOMAIN call = Writers, NEW w \in Writers, CallShape(w), StageOK(w), SeenOK(w), NEW b \in Contents,
         Store!CreateTemp(w, b)
  PROVE  CallShape(w)' /\ StageOK(w)' /\ SeenOK(w)'
<1>1. Len(node) \in Nat /\ Len(node') \in Nat /\ Len(node) <= Len(node')
  BY FileFacts DEF Grows
<1>2. /\ call[w].pc = "temp"
      /\ \/ Refused(w)
         \/ /\ Turns(w, {"pc", "want", "intended"})
            /\ call'[w].pc = (IF call[w].op = "create" THEN "publish" ELSE "open")
            /\ call'[w].want = b /\ call'[w].intended = Len(node) + 1
            /\ Store!SetNodes(Store!NewNode(b, Store!Private))
            /\ flushed' = Append(flushed, [bytes |-> b, mode |-> Store!Private])
  BY CreateTempFacts DEF CallShape
<1>3. CASE Refused(w)
  BY <1>3, RefusedStep
<1>4. CASE ~Refused(w)
  <2>1. /\ Len(node') = Len(node) + 1 /\ past'[Len(node) + 1] = <<b>>
       /\ flushed'[Len(node) + 1].bytes = b /\ b \in Bytes
    <3>1. b \in Bytes /\ Store!Private \in Store!Modes
      BY DEF Bytes, Store!Modes
    <3>2. QED
      BY <1>4, <1>2, <3>1, AddFiles, SameAdvances DEF Store!NewNode
  <2>2. FlushOK(Len(node) + 1, past', flushed')
    BY <1>1, <2>1 DEF FlushOK
  <2>3. CallShape(w)'
    BY <1>4, <1>1, <1>2, <2>1, <2>2, CarryCall, NoneFacts, SMTT(60) DEF CallShape, Calm, Turns
  <2>4. StageOK(w)'
    BY <1>4, <1>1, <1>2, <2>1, <2>2, NoneFacts DEF CallShape, StageOK, Store!WantedMode,
       Turns, Trying, Viewing, Looking, Bare
  <2>5. SeenOK(w)'
    BY <1>4, <1>1, <1>2, <2>1, <2>2, CarryCall, NoneFacts DEF SeenOK, StageOK, Calm, Turns,
       Trying, Looking, Named
  <2>6. QED
    BY <2>3, <2>4, <2>5
<1>5. QED
  BY <1>3, <1>4

(* OpenRecheck keeps what the call knows and has seen. *)
LEMMA OpenRecheckStep ==
  ASSUME StoreShape, HistoryInv, StoreShape', HistoryInv', Grows, Renames,
         DOMAIN call = Writers, NEW w \in Writers, CallShape(w), StageOK(w), SeenOK(w),
         Store!OpenRecheck(w)
  PROVE  CallShape(w)' /\ StageOK(w)' /\ SeenOK(w)'
<1>1. Len(node) \in Nat /\ Len(node') \in Nat /\ Len(node) <= Len(node')
  BY FileFacts DEF Grows
<1>2. /\ call[w].pc = "open"
      /\ \/ Refused(w)
         \/ /\ Calm /\ Turns(w, {"pc", "before", "recheck"}) /\ path # 0
            /\ call'[w].pc = "rechecking" /\ call'[w].before = Store!Stat(path) /\ call'[w].recheck = path
  BY OpenRecheckFacts DEF CallShape
<1>3. CASE Refused(w)
  BY <1>3, RefusedStep
<1>4. CASE ~Refused(w)
  <2>1. path # 0 => /\ ViewShape(Store!Stat(path), node) /\ ViewOK(Store!Stat(path), node)
                  /\ Store!Stat(path).ino = path /\ Store!Stat(path).ctime = node[path].ctime
    BY <1>1, StatFacts DEF StoreShape
  <2>2. path \in 0 .. Len(node)
    BY DEF StoreShape
  <2>3. CallShape(w)'
    BY <1>4, <1>1, <1>2, <2>1, <2>2, CarryCall, NoneFacts DEF CallShape, Calm, Turns
  <2>4. StageOK(w)'
    BY <1>4, <1>1, <1>2, <2>1, <2>2, NoneFacts, SMTT(60) DEF CallShape, StageOK, Store!WantedMode,
       Turns, Trying, Viewing, Looking, Bare
  <2>5. SeenOK(w)'
    BY <1>4, <1>1, <1>2, <2>1, <2>2, CarryCall, NoneFacts DEF SeenOK, StageOK, Calm, Turns,
       Trying, Looking, Named
  <2>6. QED
    BY <2>3, <2>4, <2>5
<1>5. QED
  BY <1>3, <1>4

(* Recheck keeps what the call knows and has seen. *)
LEMMA RecheckStep ==
  ASSUME StoreShape, HistoryInv, StoreShape', HistoryInv', Grows, Renames,
         DOMAIN call = Writers, NEW w \in Writers, CallShape(w), StageOK(w), SeenOK(w),
         Store!Recheck(w)
  PROVE  CallShape(w)' /\ StageOK(w)' /\ SeenOK(w)'
<1>1. Len(node) \in Nat /\ Len(node') \in Nat /\ Len(node) <= Len(node')
  BY FileFacts DEF Grows
<1>2. /\ call[w].pc = "rechecking"
      /\ \/ Refused(w)
         \/ /\ Calm /\ Turns(w, {"pc"}) /\ call'[w].pc = "publish"
            /\ call[w].expected.ino = call[w].before.ino
  BY RecheckFacts DEF CallShape, StageOK
<1>3. CASE Refused(w)
  BY <1>3, RefusedStep
<1>4. CASE ~Refused(w)
  <2>1. CallShape(w)'
    BY <1>4, <1>1, <1>2, CarryCall, NoneFacts DEF CallShape, Calm, Turns
  <2>2. StageOK(w)'
    BY <1>4, <1>1, <1>2, NoneFacts, SMTT(60) DEF CallShape, StageOK, Store!WantedMode, Turns, Trying,
       Viewing, Looking, Bare
  <2>3. SeenOK(w)'
    BY <1>4, <1>1, <1>2, CarryCall, NoneFacts DEF SeenOK, StageOK, Calm, Turns, Trying,
       Looking, Named
  <2>4. QED
    BY <2>1, <2>2, <2>3
<1>5. QED
  BY <1>3, <1>4

(* Link keeps what the call knows and has seen. *)
LEMMA LinkStep ==
  ASSUME StoreShape, HistoryInv, StoreShape', HistoryInv', Grows, Renames,
         DOMAIN call = Writers, NEW w \in Writers, CallShape(w), StageOK(w), SeenOK(w),
         Store!Link(w)
  PROVE  CallShape(w)' /\ StageOK(w)' /\ SeenOK(w)'
<1>1. Len(node) \in Nat /\ Len(node') \in Nat /\ Len(node) <= Len(node')
  BY FileFacts DEF Grows
<1>2. /\ call[w].pc = "publish" /\ call[w].op = "create"
      /\ Refused(w) \/ (Turns(w, {"pc"}) /\ call'[w].pc = "bind")
  BY LinkFacts DEF CallShape
<1>3. CASE Refused(w)
  BY <1>3, RefusedStep
<1>4. CASE ~Refused(w)
  <2>1. call[w].over = Store!None
    BY <1>2 DEF StageOK
  <2>2. CallShape(w)'
    BY <1>4, <1>1, <1>2, <2>1, CarryCall, NoneFacts DEF CallShape, Calm, Turns
  <2>3. StageOK(w)'
    BY <1>4, <1>1, <1>2, <2>1, NoneFacts, SMTT(60) DEF CallShape, StageOK, Store!WantedMode, Turns,
       Trying, Viewing, Looking, Bare
  <2>4. SeenOK(w)'
    BY <1>4, <1>1, <1>2, <2>1, CarryCall, NoneFacts DEF SeenOK, StageOK, Calm, Turns,
       Trying, Looking, Named
  <2>5. QED
    BY <2>2, <2>3, <2>4
<1>5. QED
  BY <1>3, <1>4

(* Rename keeps what the call knows and has seen. *)
LEMMA RenameStep ==
  ASSUME StoreShape, HistoryInv, StoreShape', HistoryInv', Grows, Renames,
         DOMAIN call = Writers, NEW w \in Writers, CallShape(w), StageOK(w), SeenOK(w),
         Store!Rename(w)
  PROVE  CallShape(w)' /\ StageOK(w)' /\ SeenOK(w)'
<1>1. Len(node) \in Nat /\ Len(node') \in Nat /\ Len(node) <= Len(node')
  BY FileFacts DEF Grows
<1>2. /\ call[w].pc = "publish" /\ call[w].op = "replace"
      /\ \/ Refused(w)
         \/ /\ Turns(w, {"pc", "over"}) /\ call'[w].pc = "reopen"
            /\ call'[w].over = IF path = 0 THEN Store!None ELSE Store!Stat(path)
  BY RenameFacts DEF CallShape
<1>3. CASE Refused(w)
  BY <1>3, RefusedStep
<1>4. CASE ~Refused(w)
  <2>1. path # 0 => /\ ViewShape(Store!Stat(path), node) /\ ViewOK(Store!Stat(path), node)
                  /\ Store!Stat(path).ino = path /\ Store!Stat(path).ctime = node[path].ctime
    BY <1>1, StatFacts DEF StoreShape
  <2>2. path # 0 => ViewShape(Store!Stat(path), node') /\ ViewOK(Store!Stat(path), node')
    BY <2>1, CarryView, CarryShape
  <2>3. CallShape(w)'
    BY <1>4, <1>1, <1>2, <2>1, <2>2, CarryCall, NoneFacts DEF CallShape, Calm, Turns
  <2>4. StageOK(w)'
    BY <1>4, <1>1, <1>2, <2>1, <2>2, NoneFacts, SMTT(60) DEF CallShape, StageOK, Store!WantedMode,
       Turns, Trying, Viewing, Looking, Bare
  <2>5. SeenOK(w)'
    BY <1>4, <1>1, <1>2, <2>1, <2>2, CarryCall, NoneFacts DEF SeenOK, StageOK, Calm, Turns,
       Trying, Looking, Named
  <2>6. QED
    BY <2>3, <2>4, <2>5
<1>5. QED
  BY <1>3, <1>4

(* OpenReread keeps what the call knows and has seen. *)
LEMMA OpenRereadStep ==
  ASSUME StoreShape, HistoryInv, StoreShape', HistoryInv', Grows, Renames,
         DOMAIN call = Writers, NEW w \in Writers, CallShape(w), StageOK(w), SeenOK(w),
         Store!OpenReread(w)
  PROVE  CallShape(w)' /\ StageOK(w)' /\ SeenOK(w)'
<1>1. Len(node) \in Nat /\ Len(node') \in Nat /\ Len(node) <= Len(node')
  BY FileFacts DEF Grows
<1>2. /\ call[w].pc = "reopen" /\ Calm /\ Turns(w, {"pc", "before"})
      /\ call'[w].pc = "rereading" /\ call'[w].before = Store!Stat(call[w].recheck)
  BY OpenRereadFacts DEF CallShape
<1>3. /\ ViewShape(Store!Stat(call[w].recheck), node) /\ ViewOK(Store!Stat(call[w].recheck), node)
     /\ Store!Stat(call[w].recheck).ino = call[w].recheck /\ call[w].recheck # 0
  BY <1>1, <1>2, StatFacts DEF CallShape, StageOK
<1>4. CallShape(w)'
  BY <1>1, <1>2, <1>3, CarryCall, NoneFacts DEF CallShape, Calm, Turns
<1>5. StageOK(w)'
  BY <1>1, <1>2, <1>3, NoneFacts, SMTT(60) DEF CallShape, StageOK, Store!WantedMode, Turns, Trying,
     Viewing, Looking, Bare
<1>6. SeenOK(w)'
  BY <1>1, <1>2, <1>3, CarryCall, NoneFacts DEF SeenOK, StageOK, Calm, Turns, Trying,
     Looking, Named
<1>7. QED
  BY <1>4, <1>5, <1>6

(* Reread keeps what the call knows and has seen. *)
LEMMA RereadStep ==
  ASSUME StoreShape, HistoryInv, StoreShape', HistoryInv', Grows, Renames,
         DOMAIN call = Writers, NEW w \in Writers, CallShape(w), StageOK(w), SeenOK(w),
         Store!Reread(w)
  PROVE  CallShape(w)' /\ StageOK(w)' /\ SeenOK(w)'
<1>1. Len(node) \in Nat /\ Len(node') \in Nat /\ Len(node) <= Len(node')
  BY FileFacts DEF Grows
<1>2. /\ call[w].pc = "rereading" /\ Calm /\ Turns(w, {"pc", "edited"}) /\ call'[w].pc = "bind"
      /\ \/ call'[w].edited
         \/ node[call[w].before.ino].bytes = call[w].expected.bytes
  BY RereadFacts DEF CallShape, StageOK
<1>3. call'[w].edited \/ Surfaced(call[w].over, call[w].expected, past)
  BY <1>1, <1>2, SurfacesNow
<1>4. CallShape(w)'
  BY <1>1, <1>2, <1>3, CarryCall, NoneFacts DEF CallShape, Calm, Turns
<1>5. StageOK(w)'
  BY <1>1, <1>2, <1>3, NoneFacts, SMTT(60) DEF CallShape, StageOK, Store!WantedMode, Turns, Trying,
     Viewing, Looking, Bare
<1>6. SeenOK(w)'
  BY <1>1, <1>2, <1>3, CarryCall, NoneFacts DEF SeenOK, StageOK, Calm, Turns, Trying,
     Looking, Named
<1>7. QED
  BY <1>4, <1>5, <1>6

(* OpenBind keeps what the call knows and has seen. *)
LEMMA OpenBindStep ==
  ASSUME StoreShape, HistoryInv, StoreShape', HistoryInv', Grows, Renames,
         DOMAIN call = Writers, NEW w \in Writers, CallShape(w), StageOK(w), SeenOK(w),
         Store!OpenBind(w)
  PROVE  CallShape(w)' /\ StageOK(w)' /\ SeenOK(w)'
<1>1. Len(node) \in Nat /\ Len(node') \in Nat /\ Len(node) <= Len(node')
  BY FileFacts DEF Grows
<1>2. /\ call[w].pc = "bind" /\ Calm /\ Turns(w, {"pc", "before"})
      /\ \/ call'[w].pc = "unbound" /\ call'[w].before = Store!None
         \/ call'[w].pc = "binding" /\ call'[w].before = Store!Stat(path) /\ path # 0
  BY OpenBindFacts DEF CallShape
<1>3. path # 0 => /\ ViewShape(Store!Stat(path), node) /\ ViewOK(Store!Stat(path), node)
                /\ Store!Stat(path).ino = path /\ Store!Stat(path).ctime = node[path].ctime
  BY <1>1, StatFacts DEF StoreShape
<1>4. CallShape(w)'
  BY <1>1, <1>2, <1>3, CarryCall, NoneFacts DEF CallShape, Calm, Turns
<1>5. StageOK(w)'
  BY <1>1, <1>2, <1>3, NoneFacts, SMTT(60) DEF CallShape, StageOK, Store!WantedMode, Turns, Trying,
     Viewing, Looking, Bare
<1>6. SeenOK(w)'
  BY <1>1, <1>2, <1>3, CarryCall, NoneFacts DEF SeenOK, StageOK, Calm, Turns, Trying,
     Looking, Named
<1>7. QED
  BY <1>4, <1>5, <1>6

(* Bind keeps what the call knows and has seen. *)
LEMMA BindStep ==
  ASSUME StoreShape, HistoryInv, StoreShape', HistoryInv', Grows, Renames,
         DOMAIN call = Writers, NEW w \in Writers, CallShape(w), StageOK(w), SeenOK(w),
         Store!Bind(w)
  PROVE  CallShape(w)' /\ StageOK(w)' /\ SeenOK(w)'
<1>1. Len(node) \in Nat /\ Len(node') \in Nat /\ Len(node) <= Len(node')
  BY FileFacts DEF Grows
<1>2. /\ call[w].pc \in {"binding", "unbound"} /\ Calm /\ Turns(w, {"pc", "bound"})
      /\ \/ call'[w].bound = 0 /\ call'[w].pc \in {"cleanup", "dirsync"}
         \/ /\ call[w].pc = "binding" /\ call'[w].bound = call[w].before.ino
            /\ call'[w].bound = call[w].intended /\ call'[w].pc \in {"cleanup", "mode"}
  BY BindFacts DEF CallShape, StageOK
<1>3. CallShape(w)'
  BY <1>1, <1>2, CarryCall, NoneFacts DEF CallShape, Calm, Turns
<1>4. StageOK(w)'
  BY <1>1, <1>2, NoneFacts, SMTT(60) DEF CallShape, StageOK, Store!WantedMode, Turns, Trying, Viewing,
     Looking, Bare
<1>5. SeenOK(w)'
  BY <1>1, <1>2, CarryCall, NoneFacts DEF SeenOK, StageOK, Calm, Turns, Trying, Looking,
     Named
<1>6. QED
  BY <1>3, <1>4, <1>5

(* Cleanup keeps what the call knows and has seen. *)
LEMMA CleanupStep ==
  ASSUME StoreShape, HistoryInv, StoreShape', HistoryInv', Grows, Renames,
         DOMAIN call = Writers, NEW w \in Writers, CallShape(w), StageOK(w), SeenOK(w),
         Store!Cleanup(w)
  PROVE  CallShape(w)' /\ StageOK(w)' /\ SeenOK(w)'
<1>1. Len(node) \in Nat /\ Len(node') \in Nat /\ Len(node) <= Len(node')
  BY FileFacts DEF Grows
<1>2. /\ call[w].pc = "cleanup" /\ Turns(w, {"pc", "cleaned"})
      /\ call'[w].pc = IF call[w].bound # 0 THEN "mode" ELSE "dirsync"
  BY CleanupFacts DEF CallShape
<1>3. CallShape(w)'
  BY <1>1, <1>2, CarryCall, NoneFacts DEF CallShape, Calm, Turns
<1>4. StageOK(w)'
  BY <1>1, <1>2, NoneFacts, SMTT(60) DEF CallShape, StageOK, Store!WantedMode, Turns, Trying, Viewing,
     Looking, Bare
<1>5. SeenOK(w)'
  BY <1>1, <1>2, CarryCall, NoneFacts DEF SeenOK, StageOK, Calm, Turns, Trying, Looking,
     Named
<1>6. QED
  BY <1>3, <1>4, <1>5

(* ApplyMode keeps what the call knows and has seen. *)
LEMMA ApplyModeStep ==
  ASSUME StoreShape, HistoryInv, StoreShape', HistoryInv', Grows, Renames,
         DOMAIN call = Writers, NEW w \in Writers, CallShape(w), StageOK(w), SeenOK(w),
         Store!ApplyMode(w)
  PROVE  CallShape(w)' /\ StageOK(w)' /\ SeenOK(w)'
<1>1. Len(node) \in Nat /\ Len(node') \in Nat /\ Len(node) <= Len(node')
  BY FileFacts DEF Grows
<1>2. /\ call[w].pc = "mode"
      /\ \/ Turns(w, {"pc", "mode"}) /\ call'[w].pc = "dirsync"
         \/ Turns(w, {"pc", "synced"}) /\ call'[w].pc = "expect"
  BY ApplyModeFacts DEF CallShape
<1>3. CallShape(w)'
  BY <1>1, <1>2, CarryCall, NoneFacts DEF CallShape, Calm, Turns
<1>4. StageOK(w)'
  BY <1>1, <1>2, NoneFacts, SMTT(60) DEF CallShape, StageOK, Store!WantedMode, Turns, Trying, Viewing,
     Looking, Bare
<1>5. SeenOK(w)'
  BY <1>1, <1>2, CarryCall, NoneFacts DEF SeenOK, StageOK, Calm, Turns, Trying, Looking,
     Named
<1>6. QED
  BY <1>3, <1>4, <1>5

(* OpenExpect keeps what the call knows and has seen. *)
LEMMA OpenExpectStep ==
  ASSUME StoreShape, HistoryInv, StoreShape', HistoryInv', Grows, Renames,
         DOMAIN call = Writers, NEW w \in Writers, CallShape(w), StageOK(w), SeenOK(w),
         Store!OpenExpect(w)
  PROVE  CallShape(w)' /\ StageOK(w)' /\ SeenOK(w)'
<1>1. Len(node) \in Nat /\ Len(node') \in Nat /\ Len(node) <= Len(node')
  BY FileFacts DEF Grows
<1>2. /\ call[w].pc = "expect" /\ Calm /\ Turns(w, {"pc", "before"})
      /\ call'[w].pc = "expecting" /\ call'[w].before = Store!Stat(call[w].bound)
  BY OpenExpectFacts DEF CallShape
<1>3. /\ ViewShape(Store!Stat(call[w].bound), node) /\ ViewOK(Store!Stat(call[w].bound), node)
     /\ Store!Stat(call[w].bound).ino = call[w].bound /\ call[w].bound # 0
  BY <1>1, <1>2, StatFacts DEF CallShape, StageOK
<1>4. CallShape(w)'
  BY <1>1, <1>2, <1>3, CarryCall, NoneFacts DEF CallShape, Calm, Turns
<1>5. StageOK(w)'
  BY <1>1, <1>2, <1>3, NoneFacts, SMTT(60) DEF CallShape, StageOK, Store!WantedMode, Turns, Trying,
     Viewing, Looking, Bare
<1>6. SeenOK(w)'
  BY <1>1, <1>2, <1>3, CarryCall, NoneFacts DEF SeenOK, StageOK, Calm, Turns, Trying,
     Looking, Named
<1>7. QED
  BY <1>4, <1>5, <1>6

(* Expect keeps what the call knows and has seen. *)
LEMMA ExpectStep ==
  ASSUME StoreShape, HistoryInv, StoreShape', HistoryInv', Grows, Renames,
         DOMAIN call = Writers, NEW w \in Writers, CallShape(w), StageOK(w), SeenOK(w),
         Store!Expect(w)
  PROVE  CallShape(w)' /\ StageOK(w)' /\ SeenOK(w)'
<1>1. Len(node) \in Nat /\ Len(node') \in Nat /\ Len(node) <= Len(node')
  BY FileFacts DEF Grows
<1>2. /\ call[w].pc = "expecting" /\ Calm /\ Turns(w, {"pc", "mode", "final"})
      /\ call'[w].pc = "dirsync"
      /\ \/ call'[w].final = Store!None
         \/ Got(w, call'[w].final) /\ call'[w].final.mode = Store!WantedMode(w)
  BY ExpectFacts DEF CallShape, StageOK
<1>3. Got(w, call'[w].final) => ViewShape(call'[w].final, node) /\ ViewOK(call'[w].final, node)
  BY GotFacts DEF CallShape, SeenOK
<1>4. CallShape(w)'
  BY <1>1, <1>2, <1>3, CarryCall, NoneFacts DEF CallShape, Calm, Turns
<1>5. StageOK(w)'
  BY <1>1, <1>2, <1>3, NoneFacts, SMTT(60) DEF CallShape, StageOK, Store!WantedMode, Turns, Trying,
     Viewing, Looking, Bare, Got
<1>6. SeenOK(w)'
  BY <1>1, <1>2, <1>3, CarryCall, NoneFacts DEF SeenOK, StageOK, Calm, Turns, Trying,
     Looking, Named
<1>7. QED
  BY <1>4, <1>5, <1>6

(* SyncDirectory keeps what the call knows and has seen. *)
LEMMA SyncDirectoryStep ==
  ASSUME StoreShape, HistoryInv, StoreShape', HistoryInv', Grows, Renames,
         DOMAIN call = Writers, NEW w \in Writers, CallShape(w), StageOK(w), SeenOK(w),
         Store!SyncDirectory(w)
  PROVE  CallShape(w)' /\ StageOK(w)' /\ SeenOK(w)'
<1>1. Len(node) \in Nat /\ Len(node') \in Nat /\ Len(node) <= Len(node')
  BY FileFacts DEF Grows
<1>2. /\ call[w].pc = "dirsync" /\ UNCHANGED <<node, past, path, flushed>>
      /\ call'[w].pc = "last"
      /\ \/ Turns(w, {"pc"}) /\ onDisk' = path
         \/ Turns(w, {"pc", "synced"}) /\ ~call'[w].synced
  BY SyncDirectoryFacts DEF CallShape
<1>3. Held(call[w].final, node, path, path)
  BY DEF Held
<1>4. CallShape(w)'
  BY <1>1, <1>2, <1>3, CarryCall, NoneFacts DEF CallShape, Calm, Turns
<1>5. StageOK(w)'
  BY <1>1, <1>2, <1>3, NoneFacts, SMTT(60) DEF CallShape, StageOK, Store!WantedMode, Turns, Trying,
     Viewing, Looking, Bare
<1>6. SeenOK(w)'
  BY <1>1, <1>2, <1>3, CarryCall, NoneFacts DEF SeenOK, StageOK, Calm, Turns, Trying,
     Looking, Named
<1>7. QED
  BY <1>4, <1>5, <1>6

(* OpenFinal keeps what the call knows and has seen. *)
LEMMA OpenFinalStep ==
  ASSUME StoreShape, HistoryInv, StoreShape', HistoryInv', Grows, Renames,
         DOMAIN call = Writers, NEW w \in Writers, CallShape(w), StageOK(w), SeenOK(w),
         Store!OpenFinal(w)
  PROVE  CallShape(w)' /\ StageOK(w)' /\ SeenOK(w)'
<1>1. Len(node) \in Nat /\ Len(node') \in Nat /\ Len(node) <= Len(node')
  BY FileFacts DEF Grows
<1>2. /\ call[w].pc = "last" /\ Calm /\ Turns(w, {"pc", "before"})
      /\ \/ call'[w].pc = "gone" /\ call'[w].before = Store!None
         \/ call'[w].pc = "finishing" /\ call'[w].before = Store!Stat(path) /\ path # 0
  BY OpenFinalFacts DEF CallShape
<1>3. path # 0 => /\ ViewShape(Store!Stat(path), node) /\ ViewOK(Store!Stat(path), node)
                /\ Store!Stat(path).ino = path /\ Store!Stat(path).ctime = node[path].ctime
  BY <1>1, StatFacts DEF StoreShape
<1>4. CallShape(w)'
  BY <1>1, <1>2, <1>3, CarryCall, NoneFacts DEF CallShape, Calm, Turns
<1>5. StageOK(w)'
  BY <1>1, <1>2, <1>3, NoneFacts, SMTT(60) DEF CallShape, StageOK, Store!WantedMode, Turns, Trying,
     Viewing, Looking, Bare
<1>6. SeenOK(w)'
  BY <1>1, <1>2, <1>3, CarryCall, NoneFacts DEF SeenOK, StageOK, Calm, Turns, Trying,
     Looking, Named
<1>7. QED
  BY <1>4, <1>5, <1>6

(* Finish keeps what the call knows and has seen. *)
LEMMA FinishStep ==
  ASSUME StoreShape, HistoryInv, StoreShape', HistoryInv', Grows, Renames,
         DOMAIN call = Writers, NEW w \in Writers, CallShape(w), StageOK(w), SeenOK(w),
         Store!Finish(w)
  PROVE  CallShape(w)' /\ StageOK(w)' /\ SeenOK(w)'
<1>1. Len(node) \in Nat /\ Len(node') \in Nat /\ Len(node) <= Len(node')
  BY FileFacts DEF Grows
<1>2. /\ call[w].pc \in {"finishing", "gone"} /\ Calm /\ Turns(w, {"pc", "outcome"})
      /\ call'[w].pc = "done"
      /\ \/ call'[w].outcome = "interfered"
         \/ /\ call'[w].outcome = "published" /\ call[w].pc = "finishing" /\ ~call[w].edited
            /\ call[w].final # Store!None /\ Got(w, call[w].final)
  BY FinishFacts DEF CallShape, StageOK
<1>3. call'[w].outcome = "published" => Surfaced(call[w].over, call[w].expected, past)
  BY <1>2 DEF SeenOK, Trying
<1>4. CallShape(w)'
  BY <1>1, <1>2, <1>3, CarryCall, NoneFacts DEF CallShape, Calm, Turns
<1>5. StageOK(w)'
  BY <1>1, <1>2, <1>3, NoneFacts, SMTT(60) DEF CallShape, StageOK, Store!WantedMode, Turns, Trying,
     Viewing, Looking, Bare
<1>6. SeenOK(w)'
  BY <1>1, <1>2, <1>3, CarryCall, NoneFacts DEF SeenOK, StageOK, Calm, Turns, Trying,
     Looking, Named
<1>7. QED
  BY <1>4, <1>5, <1>6



(* A step of a writer changes the directory as the store allows. *)
LEMMA WriterFiles ==
  ASSUME StoreShape, HistoryInv, NEW w \in Writers, CallShape(w), StageOK(w), Store!WriterStep(w)
  PROVE  StoreShape' /\ HistoryInv' /\ Grows /\ Renames
<1>1. CASE Store!ApplyMode(w)
  <2>1. call[w].bound \in 1 .. Len(node)
    BY <1>1, FileFacts DEF Store!ApplyMode, CallShape, StageOK
  <2>2. Store!WantedMode(w) \in Store!Modes
    BY DEF Store!WantedMode, CallShape, ViewShape, Views, Store!Modes
  <2>3. QED
    BY <1>1, <2>1, <2>2, ApplyModeFiles
<1>2. CASE \E b \in Contents : Store!CreateTemp(w, b)
  BY <1>2, CreateTempFiles
<1>3. QED
  BY <1>1, <1>2, CalmFiles, RefusedFiles, LinkFiles, RenameFiles, CleanupFiles,
     SyncDirectoryFiles DEF Store!WriterStep

(* A step of a writer moves its own call alone. *)
LEMMA WriterCalls ==
  ASSUME StoreShape, HistoryInv, DOMAIN call = Writers, NEW w \in Writers, CallShape(w), StageOK(w),
         Store!WriterStep(w)
  PROVE  DOMAIN call' = Writers /\ \A x \in Writers : x # w => call'[x] = call[x]
<1>1. DOMAIN call[w] = CallFields /\ ViewShape(call[w].before, node) /\ ViewShape(call[w].final, node)
      /\ (call[w].pc \in Viewing => call[w].before.ino # 0)
  BY DEF CallShape, StageOK
<1>2. CASE Store!Read(w) \/ Store!ReadPreimage(w) \/ Store!ReadMissing(w) \/ Store!OpenRecheck(w)
  BY <1>1, <1>2, ReadFacts, ReadPreimageFacts, ReadMissingFacts, OpenRecheckFacts DEF Turns,
     Refused
<1>3. CASE Store!Recheck(w) \/ Store!Link(w) \/ Store!Rename(w) \/ Store!OpenReread(w) \/ Store!Reread(w)
  BY <1>1, <1>3, RecheckFacts, LinkFacts, RenameFacts, OpenRereadFacts, RereadFacts DEF
     Turns, Refused
<1>4. CASE Store!OpenBind(w) \/ Store!Bind(w) \/ Store!Cleanup(w) \/ Store!ApplyMode(w) \/ Store!OpenExpect(w)
  BY <1>1, <1>4, OpenBindFacts, BindFacts, CleanupFacts, ApplyModeFacts, OpenExpectFacts DEF
     Turns, Refused
<1>5. CASE Store!Expect(w) \/ Store!SyncDirectory(w) \/ Store!OpenFinal(w) \/ Store!Finish(w)
  BY <1>1, <1>5, ExpectFacts, SyncDirectoryFacts, OpenFinalFacts, FinishFacts DEF Turns,
     Refused
<1>6. CASE \E b \in Contents : Store!CreateTemp(w, b)
  BY <1>1, <1>6, CreateTempFacts DEF Turns, Refused
<1>7. QED
  BY <1>2, <1>3, <1>4, <1>5, <1>6 DEF Store!WriterStep

(* What a writer knows and has seen after a step of its own. *)
LEMMA WriterOwn ==
  ASSUME StoreShape, HistoryInv, StoreShape', HistoryInv', Grows, Renames,
         DOMAIN call = Writers, NEW w \in Writers, CallShape(w), StageOK(w), SeenOK(w), Store!WriterStep(w)
  PROVE  CallShape(w)' /\ StageOK(w)' /\ SeenOK(w)'
<1>1. CASE Store!Read(w) \/ Store!ReadPreimage(w) \/ Store!ReadMissing(w) \/ Store!OpenRecheck(w)
  BY <1>1, ReadStep, ReadPreimageStep, ReadMissingStep, OpenRecheckStep
<1>2. CASE Store!Recheck(w) \/ Store!Link(w) \/ Store!Rename(w) \/ Store!OpenReread(w) \/ Store!Reread(w)
  BY <1>2, RecheckStep, LinkStep, RenameStep, OpenRereadStep, RereadStep
<1>3. CASE Store!OpenBind(w) \/ Store!Bind(w) \/ Store!Cleanup(w) \/ Store!ApplyMode(w) \/ Store!OpenExpect(w)
  BY <1>3, OpenBindStep, BindStep, CleanupStep, ApplyModeStep, OpenExpectStep
<1>4. CASE Store!Expect(w) \/ Store!SyncDirectory(w) \/ Store!OpenFinal(w) \/ Store!Finish(w)
  BY <1>4, ExpectStep, SyncDirectoryStep, OpenFinalStep, FinishStep
<1>5. CASE \E b \in Contents : Store!CreateTemp(w, b)
  BY <1>5, CreateTempStep
<1>6. QED
  BY <1>1, <1>2, <1>3, <1>4, <1>5 DEF Store!WriterStep

(* Every step keeps the invariant. *)
LEMMA StoreStep ==
  ASSUME StoreInv, [Store!Next]_(Store!vars)
  PROVE  StoreInv'
<1>1. CASE UNCHANGED Store!vars
  BY <1>1 DEF StoreInv, StoreShape, HistoryInv, CallsOK, CallShape, StageOK, SeenOK,
     Store!WantedMode, Store!vars, Store!files
<1>2. CASE Store!Others
  <2>1. StoreShape' /\ HistoryInv' /\ Grows /\ Renames
    BY <1>2, OthersFiles DEF StoreInv
  <2>2. call' = call
    BY <1>2 DEF Store!Others, Store!EditInPlace, Store!Chmod, Store!SaveByRename,
       Store!Remove, Store!SwapTemp, Store!Elsewhere
  <2>3. CallsOK'
    BY <2>1, <2>2, Bystander DEF StoreInv, CallsOK
  <2>4. QED
    BY <2>1, <2>2, <2>3 DEF StoreInv
<1>3. ASSUME NEW w \in Writers, Store!WriterStep(w)
      PROVE  StoreInv'
  <2>1. StoreShape' /\ HistoryInv' /\ Grows /\ Renames
    BY <1>3, WriterFiles DEF StoreInv, CallsOK
  <2>2. DOMAIN call' = Writers /\ \A x \in Writers : x # w => call'[x] = call[x]
    BY <1>3, WriterCalls DEF StoreInv, CallsOK
  <2>3. CallShape(w)' /\ StageOK(w)' /\ SeenOK(w)'
    BY <1>3, <2>1, WriterOwn DEF StoreInv, CallsOK
  <2>4. ASSUME NEW x \in Writers, x # w
        PROVE  CallShape(x)' /\ StageOK(x)' /\ SeenOK(x)'
    BY <2>1, <2>2, <2>4, Bystander DEF StoreInv, CallsOK
  <2>5. CallsOK'
    BY <2>3, <2>4 DEF CallsOK
  <2>6. QED
    BY <2>1, <2>2, <2>5 DEF StoreInv
<1>4. QED
  BY <1>1, <1>2, <1>3 DEF Store!Next

(* The invariant holds in every reachable state. *)
LEMMA StoreInvariant == Store!Spec => []StoreInv
<1>1. Store!Init => StoreInv
  <2>1. SUFFICES ASSUME Store!Init
                 PROVE  StoreInv
    OBVIOUS
  <2>2. ASSUME node = <<>>, past = <<>>, flushed = <<>>, path = 0, onDisk = 0
        PROVE  StoreShape /\ HistoryInv
    <3>1. node \in Seq(FileStates) /\ flushed \in Seq(FlushStates) /\ Len(node) = 0 /\ Len(flushed) = 0
      BY <2>2
    <3>2. StoreShape
      BY <2>1, <2>2, <3>1 DEF Store!Init, StoreShape
    <3>3. HistoryInv
      BY <2>2 DEF HistoryInv
    <3>4. QED
      BY <3>2, <3>3
  <2>3. ASSUME NEW b \in Contents, node = <<[bytes |-> b, mode |-> Store!Public, ctime |-> 1]>>,
               past = << <<b>> >>, flushed = <<[bytes |-> b, mode |-> Store!Public]>>, path = 1, onDisk = 1
        PROVE  StoreShape /\ HistoryInv
    <3>1. /\ [bytes |-> b, mode |-> Store!Public, ctime |-> 1] \in FileStates
          /\ [bytes |-> b, mode |-> Store!Public] \in FlushStates /\ b \in Bytes
      BY DEF FileStates, FlushStates, Bytes, Store!Modes
    <3>2. /\ node \in Seq(FileStates) /\ flushed \in Seq(FlushStates) /\ Len(node) = 1
          /\ Len(flushed) = 1 /\ DOMAIN node = {1} /\ DOMAIN past = {1}
      BY <2>3, <3>1
    <3>3. StoreShape
      BY <2>1, <2>3, <3>2 DEF Store!Init, StoreShape
    <3>4. past[1] = <<b>> /\ node[1].ctime = 1 /\ node[1].bytes = b
      BY <2>3
    <3>5. past[1] \in Seq(Bytes) /\ Len(past[1]) = 1 /\ past[1][1] = b
      BY <3>1, <3>4
    <3>6. HistoryInv
      <4>1. \A i \in DOMAIN node : i = 1
        BY <3>2
      <4>2. /\ past[1] \in Seq(Bytes) /\ node[1].ctime > 0 /\ Len(past[1]) = node[1].ctime
            /\ past[1][node[1].ctime] = node[1].bytes
        BY <3>4, <3>5
      <4>3. DOMAIN past = DOMAIN node
        BY <3>2
      <4>4. QED
        BY <4>1, <4>2, <4>3 DEF HistoryInv
    <3>7. QED
      BY <3>3, <3>6
  <2>4. StoreShape /\ HistoryInv
    BY <2>1, <2>2, <2>3 DEF Store!Init
  <2>5. DOMAIN call = Writers /\ \A w \in Writers : call[w] \in {Store!Idle, Store!Ended}
    BY <2>1 DEF Store!Init
  <2>6. /\ Store!None.ino = 0 /\ ViewShape(Store!None, node) /\ ViewOK(Store!None, node) /\ Unfit \in Bytes
        /\ Len(node) \in Nat
    BY <2>4, FileFacts DEF Store!None, Views, Bytes, Store!Modes, ViewOK, ViewShape
  <2>7. ASSUME NEW w \in Writers
        PROVE  CallShape(w) /\ StageOK(w) /\ SeenOK(w)
    <3>1. call[w] = Store!Idle \/ call[w] = Store!Ended
      BY <2>5, <2>7
    <3>2. /\ DOMAIN call[w] = CallFields /\ call[w].want = Unfit /\ call[w].pc \in {"idle", "done"}
          /\ call[w].expected = Store!None /\ call[w].before = Store!None /\ call[w].final = Store!None
          /\ call[w].over = Store!None /\ call[w].intended = 0 /\ call[w].recheck = 0
          /\ call[w].bound = 0 /\ call[w].outcome \in {"none", "refused"}
          /\ call[w].pc # "done" => call[w].outcome = "none"
      <4>1. CASE call[w] = Store!Idle
        BY <4>1 DEF Store!Idle, CallFields
      <4>2. CASE call[w] = Store!Ended
        <5>1. PICK r : r = Store!Idle
          OBVIOUS
        <5>2. /\ DOMAIN r = CallFields /\ r.want = Unfit /\ r.expected = Store!None /\ r.before = Store!None
              /\ r.final = Store!None /\ r.over = Store!None /\ r.intended = 0 /\ r.recheck = 0 /\ r.bound = 0
          BY <5>1 DEF Store!Idle, CallFields
        <5>3. call[w] = [r EXCEPT !.pc = "done", !.outcome = "refused"]
          BY <4>2, <5>1 DEF Store!Ended
        <5>4. QED
          BY <5>2, <5>3 DEF CallFields
      <4>3. QED
        BY <3>1, <4>1, <4>2
    <3>6. CallShape(w)
      BY <2>6, <3>2 DEF CallShape
    <3>3. StageOK(w)
      BY <2>6, <3>2 DEF StageOK, Viewing, Looking, Trying, Bare
    <3>4. SeenOK(w)
      BY <2>6, <3>2 DEF SeenOK, Looking, Trying, FlushOK
    <3>5. QED
      BY <3>6, <3>3, <3>4
  <2>8. QED
    BY <2>4, <2>5, <2>7 DEF StoreInv, CallsOK
<1>2. StoreInv /\ [Store!Next]_(Store!vars) => StoreInv'
  BY StoreStep
<1>3. QED
  BY <1>1, <1>2, PTL DEF Store!Spec

(* A create found no document, and a silent replacement lost no edit. *)
LEMMA SurfacesHolds == StoreInv => Store!CreateNeverClobbers /\ Store!EditInPlaceSurfaces
  BY DEF StoreInv, CallsOK, StageOK, SeenOK, Surfaced, Store!CreateNeverClobbers,
     Store!EditInPlaceSurfaces

(* What is true when a call reports a clean publication. *)
LEMMA CleanFacts ==
  ASSUME StoreInv, [Store!Next]_(Store!vars), NEW w \in Writers, call[w].pc # "done", Store!PublicationIsClean(call'[w])
  PROVE  /\ path = call[w].intended /\ node[path].bytes = call[w].want
         /\ node[path].mode = Store!WantedMode(w) /\ onDisk = call[w].intended
         /\ FlushOK(onDisk, past, flushed) /\ onDisk \in 1 .. Len(node)
<1>1. /\ StoreShape /\ HistoryInv /\ DOMAIN call = Writers
      /\ CallShape(w) /\ StageOK(w) /\ SeenOK(w)
  BY DEF StoreInv, CallsOK
<1>2. call[w].outcome = "none" /\ call'[w].outcome = "published"
  BY <1>1 DEF StageOK, Store!PublicationIsClean
<1>3. Store!WriterStep(w)
  <2>1. call'[w] # call[w]
    BY <1>2
  <2>2. ~UNCHANGED Store!vars /\ ~Store!Others
    BY <2>1 DEF Store!vars, Store!Others, Store!EditInPlace, Store!Chmod,
       Store!SaveByRename, Store!Remove, Store!SwapTemp, Store!Elsewhere
  <2>3. PICK x \in Writers : Store!WriterStep(x)
    BY <2>2 DEF Store!Next
  <2>4. x = w
    BY <1>1, <2>1, <2>3, WriterCalls DEF StoreInv, CallsOK
  <2>5. QED
    BY <2>3, <2>4
<1>4. Store!Finish(w)
  <2>1. DOMAIN call[w] = CallFields /\ ViewShape(call[w].before, node)
        /\ (call[w].pc \in Viewing => call[w].before.ino # 0)
    BY <1>1 DEF CallShape, StageOK
  <2>2. ~(Store!Read(w) \/ Store!ReadPreimage(w) \/ Store!ReadMissing(w) \/ Store!OpenRecheck(w))
    BY <1>1, <1>2, <2>1, ReadFacts, ReadPreimageFacts, ReadMissingFacts, OpenRecheckFacts, SMTT(60)
       DEF Turns, Refused
  <2>3. ~(Store!Recheck(w) \/ Store!Link(w) \/ Store!Rename(w) \/ Store!OpenReread(w) \/ Store!Reread(w))
    BY <1>1, <1>2, <2>1, RecheckFacts, LinkFacts, RenameFacts, OpenRereadFacts, RereadFacts
       DEF Turns, Refused
  <2>4. ~(Store!OpenBind(w) \/ Store!Bind(w) \/ Store!Cleanup(w) \/ Store!ApplyMode(w) \/ Store!OpenExpect(w))
    BY <1>1, <1>2, <2>1, OpenBindFacts, BindFacts, CleanupFacts, ApplyModeFacts,
       OpenExpectFacts DEF Turns, Refused
  <2>5. ~(Store!Expect(w) \/ Store!SyncDirectory(w) \/ Store!OpenFinal(w))
    BY <1>1, <1>2, <2>1, ExpectFacts, SyncDirectoryFacts, OpenFinalFacts DEF Turns, Refused
  <2>6. ~\E b \in Contents : Store!CreateTemp(w, b)
    BY <1>1, <1>2, <2>1, CreateTempFacts DEF Turns, Refused
  <2>7. QED
    BY <1>3, <2>2, <2>3, <2>4, <2>5, <2>6 DEF Store!WriterStep
<1>5. /\ call[w].pc = "finishing" /\ call[w].final # Store!None /\ Got(w, call[w].final)
      /\ Turns(w, {"pc", "outcome"})
  BY <1>1, <1>2, <1>4, FinishFacts DEF CallShape, StageOK
<1>6. call'[w].synced = call[w].synced /\ call'[w].final = call[w].final /\ call'[w].want = call[w].want
  BY <1>5 DEF Turns
<1>7. call[w].synced /\ call[w].final.bytes = call[w].want
  BY <1>6 DEF Store!PublicationIsClean
<1>8. PICK i : i = call[w].before.ino
  OBVIOUS
<1>9. i # 0 /\ i \in 1 .. Len(node)
  BY <1>1, <1>5, <1>8, FileFacts DEF StageOK, Viewing, Looking, CallShape, ViewShape, Views
<1>10. /\ call[w].final.ino = i /\ call[w].final.ctime = node[i].ctime
       /\ call[w].final.mode = call[w].before.mode /\ call[w].before.ctime = node[i].ctime
       /\ call[w].final.bytes = node[i].bytes
  BY <1>5, <1>8 DEF Got
<1>11. path = i
  BY <1>1, <1>5, <1>8, <1>10 DEF SeenOK, Named, Looking
<1>12. node[i].mode = call[w].final.mode
  BY <1>1, <1>8, <1>9, <1>10 DEF SeenOK, ViewOK
<1>13. call[w].final.ino = call[w].intended /\ call[w].final.mode = Store!WantedMode(w)
  BY <1>1, <1>5 DEF StageOK
<1>14. onDisk = i
  BY <1>1, <1>5, <1>7, <1>9, <1>10, <1>11 DEF SeenOK, Held
<1>15. FlushOK(onDisk, past, flushed)
  BY <1>1, <1>10, <1>13, <1>14 DEF SeenOK
<1>16. QED
  BY <1>7, <1>9, <1>10, <1>11, <1>12, <1>13, <1>14, <1>15

(* A clean report is true and durable. *)
LEMMA CleanHolds == Store!Spec => Store!CleanReportTrue /\ Store!DurableClaimTrue
<1>1. ASSUME StoreInv, [Store!Next]_(Store!vars), NEW w \in Writers, call[w].pc # "done",
             Store!PublicationIsClean(call'[w])
      PROVE  /\ path = call[w].intended /\ node[path].bytes = call[w].want
             /\ node[path].mode = Store!WantedMode(w) /\ onDisk = call[w].intended
             /\ (\A k \in DOMAIN past[onDisk] : past[onDisk][k] = call[w].want) =>
                  flushed[onDisk].bytes = call[w].want
  <2>1. /\ path = call[w].intended /\ node[path].bytes = call[w].want
        /\ node[path].mode = Store!WantedMode(w) /\ onDisk = call[w].intended
        /\ FlushOK(onDisk, past, flushed) /\ onDisk \in 1 .. Len(node)
    BY <1>1, CleanFacts
  <2>2. DOMAIN past[onDisk] = 1 .. Len(past[onDisk])
    BY <1>1, <2>1 DEF StoreInv, HistoryInv, StoreShape
  <2>3. QED
    BY <2>1, <2>2 DEF FlushOK
<1>2. StoreInv /\ [Store!Next]_(Store!vars) =>
        [\A w \in Writers : call[w].pc # "done" /\ Store!PublicationIsClean(call'[w]) =>
              /\ path = call[w].intended
              /\ node[path].bytes = call[w].want
              /\ node[path].mode = Store!WantedMode(w)]_(Store!vars)
  BY <1>1
<1>3. StoreInv /\ [Store!Next]_(Store!vars) =>
        [\A w \in Writers : call[w].pc # "done" /\ Store!PublicationIsClean(call'[w]) =>
              /\ onDisk = call[w].intended
              /\ (\A k \in DOMAIN past[onDisk] : past[onDisk][k] = call[w].want)
                     => flushed[onDisk].bytes = call[w].want]_(Store!vars)
  BY <1>1
<1>4. QED
  BY <1>2, <1>3, StoreInvariant, PTL DEF Store!Spec, Store!CleanReportTrue,
     Store!DurableClaimTrue

-----------------------------------------------------------------------------
(* The presence gate: the inductive invariant.                             *)

(* Where a call stands: an authentication in progress holds the handle and *)
(* has counted what was typed, only an answer being read hides the         *)
(* terminal's echo, and only a conversation holds answers.                 *)
GateCallInv ==
    /\ host.mechanism \in {"pam", "device_owner"}
    /\ calls \in 0..MaxCalls /\ (pc # "idle" => calls > 0)
    /\ pc \in {"idle", "service", "prepare", "start", "auth", "conv", "read", "account", "wait"}
    /\ pc \in {"service", "start", "auth", "conv", "read", "account"} => host.mechanism = "pam"
    /\ pc = "wait" => host.mechanism = "device_owner"
    /\ handle = "open" <=> pc \in {"auth", "conv", "read", "account"}
    /\ prompts \in Nat /\ typed \in Nat
    /\ pc \in {"auth", "conv", "read", "account"} => prompts = typed
    /\ pc \in {"service", "prepare", "start"} => typed = 0
    /\ pc = "start" => prompts = 0
    /\ pc # "read" => echo
    /\ pc \notin {"conv", "read"} => filled = 0
    /\ reply \in [1..MaxCalls -> Gate!Outcomes \cup {"none", "shown"}]

(* What a call that returned has said. *)
VerdictInv ==
    /\ pc = "idle" /\ calls > 0 /\ outcome = "Confirmed" =>
         IF host.mechanism = "pam" THEN typed > 0 ELSE reply[calls] = "Confirmed"
    /\ pc = "idle" /\ calls > 0 /\ outcome = "Denied" =>
         IF host.mechanism = "pam" THEN handle = "ended" ELSE reply[calls] = "Denied"
    /\ pc \in {"service", "prepare", "start", "auth", "conv", "read", "account", "wait"} =>
         outcome = "none"

GateInv == GateCallInv /\ VerdictInv

(* Every step keeps the gate's invariant. *)
LEMMA GateStep ==
  ASSUME Gate!GateAssumption, GateInv, [Gate!Next]_(Gate!gateVars)
  PROVE  GateInv'
<1> USE DEF Gate!GateAssumption
<1>1. CASE Gate!Confirm
  BY <1>1 DEF Gate!Confirm, GateInv, GateCallInv, VerdictInv
<1>2. CASE Gate!ServiceFileOk
  BY <1>2 DEF Gate!ServiceFileOk, Gate!Finish, Gate!conversation, GateInv, GateCallInv,
     VerdictInv
<1>3. CASE Gate!PreparePam
  BY <1>3 DEF Gate!PreparePam, Gate!Finish, GateInv, GateCallInv, VerdictInv
<1>4. CASE Gate!PamStart
  <2>1. CASE pc' = "auth" /\ handle' = "open" /\ UNCHANGED outcome
    BY <1>4, <2>1 DEF Gate!PamStart, Gate!conversation, GateInv, GateCallInv, VerdictInv
  <2>2. CASE Gate!Finish("Unavailable") /\ handle' \in {"none", "ended"}
    BY <1>4, <2>2 DEF Gate!PamStart, Gate!Finish, Gate!conversation, GateInv, GateCallInv,
       VerdictInv
  <2>3. QED
    BY <1>4, <2>1, <2>2 DEF Gate!PamStart
<1>5. CASE Gate!Converse
  BY <1>5 DEF Gate!Converse, GateInv, GateCallInv, VerdictInv
<1>6. CASE Gate!Message
  BY <1>6 DEF Gate!Message, GateInv, GateCallInv, VerdictInv
<1>7. CASE Gate!FillPromptResponse
  BY <1>7 DEF Gate!FillPromptResponse, Gate!ReadFails, Gate!FreeResponses, Gate!LineStored,
     GateInv, GateCallInv, VerdictInv
<1>8. CASE Gate!Answered
  BY <1>8 DEF Gate!Answered, GateInv, GateCallInv, VerdictInv
<1>9. CASE Gate!Authenticated
  BY <1>9 DEF Gate!Authenticated, Gate!Verdict, Gate!Decide, Gate!Finish, Gate!conversation,
     GateInv, GateCallInv, VerdictInv
<1>10. CASE Gate!AccountManaged
  BY <1>10 DEF Gate!AccountManaged, Gate!Verdict, Gate!Decide, Gate!Finish,
     Gate!conversation, GateInv, GateCallInv, VerdictInv
<1>11. CASE Gate!Evaluate
  BY <1>11 DEF Gate!Evaluate, Gate!Finish, Gate!conversation, GateInv, GateCallInv,
     VerdictInv, Gate!Outcomes
<1>12. CASE Gate!Receive
  BY <1>12 DEF Gate!Receive, Gate!Finish, Gate!conversation, GateInv, GateCallInv,
     VerdictInv, Gate!Outcomes
<1>13. CASE \E c \in 1..MaxCalls : Gate!Answer(c)
  BY <1>13 DEF Gate!Answer, Gate!Interpret, Gate!conversation, GateInv, GateCallInv,
     VerdictInv, Gate!Outcomes
<1>14. CASE UNCHANGED Gate!gateVars
  BY <1>14 DEF Gate!gateVars, GateInv, GateCallInv, VerdictInv
<1>15. QED
  BY <1>1, <1>2, <1>3, <1>4, <1>5, <1>6, <1>7, <1>8, <1>9, <1>10, <1>11, <1>12, <1>13, <1>14
     DEF Gate!Next, Gate!PamStep

(* The invariant holds in every reachable state. *)
LEMMA GateInvariant == ASSUME Gate!GateAssumption PROVE Gate!GateSpec => []GateInv
<1>1. Gate!Init => GateInv
  BY Gate!GateAssumption DEF Gate!Init, GateInv, GateCallInv, VerdictInv,
     Gate!GateAssumption, Gate!Outcomes
<1>2. QED
  BY Gate!GateAssumption, <1>1, GateStep, PTL DEF Gate!GateSpec

-----------------------------------------------------------------------------
(* The composition implements each part: the others leave it alone. *)
LEMMA ImplementsCeremony == PartSpec => Spec
<1>1. PartInit => Init
  BY DEF PartInit
<1>2. [PartNext]_partVars => [Next]_vars
  BY DEF PartNext, CeremonyPart, StorePart, PresencePart, partVars
<1>3. QED
  BY <1>1, <1>2, PTL DEF PartSpec, Spec

(* The same for the store. *)
LEMMA ImplementsStore == PartSpec => Store!Spec
<1>1. PartInit => Store!Init
  BY DEF PartInit
<1>2. [PartNext]_partVars => [Store!Next]_(Store!vars)
  BY DEF PartNext, CeremonyPart, StorePart, PresencePart, partVars, storeState, Store!vars,
     Store!files
<1>3. QED
  BY <1>1, <1>2, PTL DEF PartSpec, Store!Spec

(* The same for the gate. *)
LEMMA ImplementsGate == PartSpec => Gate!GateSpec
<1>1. PartInit => Gate!Init
  BY DEF PartInit
<1>2. [PartNext]_partVars => [Gate!Next]_(Gate!gateVars)
  BY DEF PartNext, CeremonyPart, StorePart, PresencePart, partVars, gateState, Gate!gateVars
<1>3. QED
  BY <1>1, <1>2, PTL DEF PartSpec, Gate!GateSpec

(* A command that reports a commit has committed, one that reports none    *)
(* has not and will not, and the state its final report names is one in    *)
(* which document and record stood together, for any number of commands,   *)
(* rounds, restarts, sweeps and edits (await_outcome,                      *)
(* reconcile_apply_commit, compose_final_state).  The state an early end   *)
(* or a failure prints is not part of the claim.                           *)
THEOREM ReportsAreTrue == PartSpec => []ReportsTrue
<1>1. CeremonyInv => ReportsTrue
  BY OutcomeHolds DEF ReportsTrue
<1>2. QED
  BY <1>1, ImplementsCeremony, CeremonyInvariant, PTL

(* A commit replaces the generation its operator was shown, and a rules    *)
(* command changes one rule of it (apply_precommit_recheck,                *)
(* compare_and_swap_rules_with_presence, the staged baseline).             *)
THEOREM ReviewSound == PartSpec => []ReviewedIsReplaced
  BY ReviewHolds, ImplementsCeremony, CeremonyInvariant, PTL

(* No command loses an operator's edit in silence: no draft it did not     *)
(* read is overwritten, a create takes no document's place, and an edit    *)
(* between the recheck and the rename is reported (run_export,             *)
(* create_impl, replace_impl).                                             *)
THEOREM EditsKept == PartSpec => NoEditIsLost
<1>1. CeremonyInv /\ [Next]_vars => [Draft]_vars
  BY DraftHolds
<1>2. Spec => DraftKept
  BY <1>1, CeremonyInvariant, PTL DEF Spec, DraftKept, Draft
<1>3. Store!Spec => [](Store!CreateNeverClobbers /\ Store!EditInPlaceSurfaces)
  BY SurfacesHolds, StoreInvariant, PTL
<1>4. QED
  BY <1>2, <1>3, ImplementsCeremony, ImplementsStore, PTL DEF NoEditIsLost

(* A publication reported clean is true and durable at that moment,        *)
(* whatever other programs did to the file and the directory between the   *)
(* system calls (PublicationClaims::finish, final_destination_state).      *)
THEOREM CleanReportsHold == PartSpec => CleanReportTrue
  BY CleanHolds, ImplementsStore, PTL DEF CleanReportTrue

(* Only a person in front of the command opens the gate, for any number of *)
(* calls and conversations (confirm, evaluate, the conversation callback). *)
THEOREM PersonConfirms == PartSpec => []PersonDecides
<1>1. GateInv => PersonDecides
  BY DEF GateInv, GateCallInv, VerdictInv, PersonDecides, Gate!ConfirmedByAPerson,
     Gate!AbsentIsNotDenied, Gate!NothingLeft, Gate!Returned
<1>2. QED
  BY <1>1, DocumentsAssumption, ImplementsGate, GateInvariant, PTL
=============================================================================
