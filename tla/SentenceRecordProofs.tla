------------------------ MODULE SentenceRecordProofs ------------------------
(***************************************************************************)
(* The inductive invariants of SentenceRecord: what is served was          *)
(* validated by this build, and the custody log is true and complete, for  *)
(* every number of ceremonies, failed writes, crashes and power losses.    *)
(***************************************************************************)
EXTENDS SentenceRecord, TLAPS

Held == {"prove", "confirm", "intent", "flip", "seal", "sweep"}   \* under the mutex
Committing == {"queued", "prove", "confirm", "intent", "flip", "seal"}

(* The mutex is held exactly at the places that need it, and a thread is   *)
(* at a place of its own kind of operation.                                *)
LockOK ==
    /\ \A t \in Threads : pc[t] \in Held <=> lock = t
    /\ \A c \in Callers :
         /\ pc[c] # "sweep"
         /\ pc[c] \in Committing => job[c] \in {"commit", "again"}
         /\ pc[c] \in {"intent", "flip", "seal"} => job[c] = "commit"
    /\ pc[Keeper] \notin {"intent", "flip", "seal"}
    /\ pc[Keeper] \in {"prove", "confirm"} => job[Keeper] \in {"adopt", "reconcile"}

(* What a ceremony commits was staged, and this build validates it. *)
CommitOK ==
    \A c \in Callers :
        pc[c] \in Committing =>
            /\ tok[c] \in Tokens /\ staged[tok[c]] # "none"
            /\ content[tok[c]] \in catalog.valid

ValidatedOK == validated # NoContent => validated \in catalog.valid

ServedInv == TypeOK /\ LockOK /\ CommitOK /\ ValidatedOK

(* A token not yet staged is nowhere.  One that was, this dialect reads. *)
StagedOK ==
    /\ baseline \in [Tokens -> [of : Records, state : {"absent", "served", "unserved", "corrupt"}]]
    /\ \A t \in Tokens :
         IF staged[t] = "none" THEN t \notin recMay /\ t \notin landed
                               ELSE content[t] \in catalog.parses

(* The disk holds the last durable record and at most one that a rename    *)
(* made visible over it; that one has its bare intent and names the other  *)
(* as its predecessor.                                                     *)
DiskOK ==
    /\ recMay = {lastDur, rec} /\ lastDur \in landed \cup {NoRecord}
    /\ rec # lastDur =>
         /\ rec \in Tokens \ landed /\ markMay[rec] = {"intent"}
         /\ baseline[rec].of = lastDur

(* The durable records form a chain that no commit closes. *)
ChainOK ==
    \A t \in landed : after[t] # lastDur /\ after[t] \in landed \cup {NoRecord}

(* A confirmed marker, and an emission, are of a record that was durable;  *)
(* a marker is cleared after its row is written.                           *)
MarkersOK ==
    /\ \A t \in Tokens : "confirmed" \in markMay[t] => t \in landed
    /\ \A t \in Threads :
         /\ todo[t] \subseteq landed
         /\ pc[t] = "clear" => tok[t] \in landed /\ log[tok[t]] > 0

(* The outgoing record is proven durable and its row secured before the    *)
(* next intent is written; the flip finds that intent durable.             *)
PhaseOK ==
    /\ \A t \in Threads :
         /\ pc[t] = "prove" => rec \in Tokens
         /\ pc[t] = "confirm" => rec \in landed /\ (seen[t] \/ log[rec] > 0)
         /\ pc[t] \in {"confirm", "intent", "flip", "seal", "sweep"} => rec = lastDur
    /\ \A c \in Callers :
         /\ pc[c] \in {"prove", "confirm"} /\ job[c] = "again" => rec = tok[c]
         /\ pc[c] \in {"prove", "confirm", "intent", "flip"} /\ job[c] = "commit" =>
              baseline[tok[c]].of = rec /\ tok[c] \notin landed
         /\ pc[c] \in {"intent", "flip"} =>
              rec = NoRecord \/ log[rec] > 0 \/ markMay[rec] = {"confirmed"}
         /\ pc[c] = "flip" => markMay[tok[c]] = {"intent"}
         /\ pc[c] = "seal" => rec = tok[c] /\ tok[c] \in landed

RecordInv ==
    ServedInv /\ StagedOK /\ DiskOK /\ ChainOK /\ MarkersOK /\ PhaseOK /\ CustodyAudited

-----------------------------------------------------------------------------
(* A write of a marker keeps the outbox well typed and leaves no power     *)
(* loss more than the old marker or the new one.                           *)
LEMMA MarkerWrite ==
    ASSUME TypeOK, NEW t \in Records, NEW s \in Stages, NEW how \in Outcomes, PutMarker(t, s, how)
    PROVE  /\ mark' \in [Tokens -> Stages] /\ markMay' \in [Tokens -> SUBSET Stages]
           /\ \A u \in Tokens : mark'[u] \in markMay'[u]
           /\ \A u \in Tokens : markMay'[u] \subseteq markMay[u] \cup (IF u = t THEN {s} ELSE {})
<1>1. CASE how = "nothing"
  BY <1>1 DEF PutMarker, TypeOK
<1>2. CASE how = "renamed"
  BY <1>2 DEF PutMarker, TypeOK
<1>3. CASE how = "synced"
  BY <1>3, ZenonT(60) DEF PutMarker, TypeOK
<1>4. QED
  BY <1>1, <1>2, <1>3 DEF Outcomes

(* The fsync that makes a record durable keeps the types of the ghosts. *)
LEMMA LandType ==
    ASSUME TypeOK, NEW r \in Records, Land(r)
    PROVE  landed' \subseteq Tokens /\ lastDur' \in Records /\ after' \in [Tokens -> Records]
  BY DEF Land, TypeOK, Records

(* What the confirmation of the live record does, for each of its callers. *)
LEMMA ConfirmFacts ==
    ASSUME RecordAssumption, ServedInv, NEW t \in Threads, Confirm(t)
    PROVE  /\ pc[t] = "confirm" /\ lock = t
           /\ \/ mark' = mark /\ markMay' = markMay
              \/ \E how \in Outcomes : PutMarker(rec, "confirmed", how)
           /\ \/ /\ job[t] = "commit" /\ Fail(t) /\ validated' = validated
              \/ /\ job[t] = "commit" /\ Go(t, "intent") /\ UNCHANGED <<lock, job, validated>>
                 /\ seen[t] => PutMarker(rec, "confirmed", "synced")
              \/ /\ job[t] = "again" /\ validated' = content[tok[t]]
                 /\ Go(t, "emit") /\ lock' = NoThread /\ job' = job
              \/ /\ job[t] = "adopt" /\ Go(t, "sweep") /\ UNCHANGED <<lock, job, validated>>
              \/ /\ job[t] = "reconcile" /\ Go(t, "emit") /\ lock' = NoThread
                 /\ UNCHANGED <<job, validated>>
           /\ mishaps' \in 0..MaxMishaps
           /\ UNCHANGED <<rec, recMay, staged, content, baseline, catalog, serving, tok, seen,
                          todo, log, landed, lastDur, after>>
<1>1. PICK how \in IF seen[t] THEN Outcomes ELSE {"synced"} :
        /\ Spend(how)
        /\ IF seen[t] THEN PutMarker(rec, "confirmed", how) ELSE UNCHANGED <<mark, markMay>>
        /\ CASE job[t] = "commit" /\ Err(how) ->
                  Fail(t) /\ UNCHANGED validated
             [] job[t] = "commit" /\ ~Err(how) ->
                  Go(t, "intent") /\ UNCHANGED <<lock, job, validated>>
             [] job[t] = "again" ->
                  /\ MarkValidated(content[tok[t]])
                  /\ Go(t, "emit") /\ lock' = NoThread /\ UNCHANGED job
             [] job[t] = "adopt" ->
                  Go(t, "sweep") /\ UNCHANGED <<lock, job, validated>>
             [] job[t] = "reconcile" ->
                  Go(t, "emit") /\ lock' = NoThread /\ UNCHANGED <<job, validated>>
  BY Zenon DEF Confirm
<1>2. pc[t] = "confirm" /\ lock = t
  BY DEF Confirm
<1>3. job[t] \in {"commit", "again", "adopt", "reconcile"}
  BY <1>2 DEF ServedInv, LockOK, Threads, Committing
<1>4. how \in Outcomes
  BY <1>1 DEF Outcomes
<1>5. \/ mark' = mark /\ markMay' = markMay
      \/ \E w \in Outcomes : PutMarker(rec, "confirmed", w)
  BY <1>1, <1>4
<1>6. CASE job[t] = "commit"
  <2>1. \/ Err(how) /\ Fail(t) /\ validated' = validated
        \/ ~Err(how) /\ Go(t, "intent") /\ UNCHANGED <<lock, job, validated>>
    BY <1>1, <1>6
  <2>2. ~Err(how) /\ seen[t] => PutMarker(rec, "confirmed", "synced")
    BY <1>1 DEF Err
  <2>3. QED
    BY <1>1, <1>2, <1>5, <1>6, <2>1, <2>2 DEF Confirm, ceremony, ghost, Spend, ServedInv, TypeOK,
       RecordAssumption
<1>7. CASE job[t] = "again"
  BY <1>1, <1>2, <1>5, <1>7 DEF Confirm, ceremony, ghost, Spend, ServedInv, TypeOK,
     RecordAssumption, MarkValidated
<1>8. CASE job[t] = "adopt"
  BY <1>1, <1>2, <1>5, <1>8 DEF Confirm, ceremony, ghost, Spend, ServedInv, TypeOK,
     RecordAssumption
<1>9. CASE job[t] = "reconcile"
  BY <1>1, <1>2, <1>5, <1>9 DEF Confirm, ceremony, ghost, Spend, ServedInv, TypeOK,
     RecordAssumption
<1>10. QED
  BY <1>3, <1>6, <1>7, <1>8, <1>9

(* What proving the record durable does: nothing, the record's directory   *)
(* alone, or both directories, and then the marker is read.                *)
LEMMA ProveFacts ==
    ASSUME RecordAssumption, ServedInv, NEW t \in Threads, Prove(t)
    PROVE  /\ pc[t] = "prove" /\ lock = t
           /\ \/ recMay' = recMay /\ UNCHANGED <<landed, lastDur, after>>
              \/ recMay' = {rec} /\ Land(rec)
           /\ markMay' = markMay \/ markMay' = [u \in Tokens |-> {mark[u]}]
           /\ \/ Fail(t) /\ seen' = seen
              \/ /\ Go(t, "confirm") /\ UNCHANGED <<lock, job>>
                 /\ seen' = [seen EXCEPT ![t] = mark[rec] # "absent"]
                 /\ recMay' = {rec} /\ Land(rec)
           /\ mishaps' \in 0..MaxMishaps
           /\ UNCHANGED <<rec, mark, staged, content, baseline, catalog, validated, serving, tok,
                          todo, log>>
<1>1. PICK how \in Outcomes :
        /\ Spend(how) /\ ProveDurable(how)
        /\ IF Err(how) THEN Fail(t) /\ UNCHANGED seen
           ELSE /\ Go(t, "confirm") /\ UNCHANGED <<lock, job>>
                /\ seen' = [seen EXCEPT ![t] = OwesConfirmation]
  BY Zenon DEF Prove
<1>2. /\ \/ recMay' = recMay /\ UNCHANGED <<landed, lastDur, after>>
         \/ recMay' = {rec} /\ Land(rec)
      /\ markMay' = markMay \/ markMay' = [u \in Tokens |-> {mark[u]}]
  BY <1>1 DEF ProveDurable, ghost
<1>3. how = "synced" => recMay' = {rec} /\ Land(rec)
  BY <1>1 DEF ProveDurable
<1>4. \/ Fail(t) /\ seen' = seen
      \/ /\ Go(t, "confirm") /\ UNCHANGED <<lock, job>>
         /\ seen' = [seen EXCEPT ![t] = OwesConfirmation]
         /\ recMay' = {rec} /\ Land(rec)
  BY <1>1, <1>3 DEF Err
<1>5. mishaps' \in 0..MaxMishaps
  BY <1>1 DEF Spend, ServedInv, TypeOK, RecordAssumption
<1>6. QED
  BY <1>2, <1>4, <1>5 DEF Prove, OwesConfirmation, ceremony

(* An operation that fails, or goes on, leaves the control well typed. *)
LEMMA ControlType ==
    ASSUME TypeOK, NEW t \in Threads, NEW p \in Places,
           \/ Fail(t)
           \/ Go(t, p) /\ UNCHANGED <<lock, job>>
    PROVE  /\ pc' \in [Threads -> Places] /\ job' \in [Threads -> Jobs]
           /\ lock' \in Threads \cup {NoThread}
<1>1. CASE Fail(t)
  BY <1>1 DEF Fail, Go, TypeOK, Places, Jobs
<1>2. CASE Go(t, p) /\ UNCHANGED <<lock, job>>
  BY <1>2 DEF Go, TypeOK
<1>3. QED
  BY <1>1, <1>2

(* Every variable keeps its type. *)
LEMMA TypeStep == ASSUME RecordAssumption, ServedInv, [Next]_vars PROVE TypeOK'
<1> USE DEF RecordAssumption, ServedInv, disk, ceremony, ghost
<1>0. /\ Keeper \in Threads /\ Callers \subseteq Threads /\ MaxMishaps \in Nat /\ TypeOK
      /\ {"idle", "queued", "prove", "confirm", "intent", "flip", "seal", "sweep", "emit",
          "deliver", "clear"} \subseteq Places
      /\ {"absent", "intent", "confirmed"} \subseteq Stages
      /\ {"none", "commit", "again", "adopt", "reconcile"} \subseteq Jobs
      /\ Tokens \subseteq Records
  BY DEF Threads, Places, Stages, Jobs, Records
<1>1. ASSUME NEW t \in Tokens, NEW x \in Contents, Stage(t, x) PROVE TypeOK'
  BY <1>0, <1>1 DEF Stage, TypeOK
<1>2. ASSUME NEW t \in Tokens, SweepStaged(t) PROVE TypeOK'
  BY <1>0, <1>2 DEF SweepStaged, TypeOK
<1>3. ASSUME NEW c \in Callers, NEW t \in Tokens, Commit(c, t) PROVE TypeOK'
  BY <1>0, <1>3 DEF Commit, Go, TypeOK
<1>4. ASSUME NEW c \in Callers, CommitAgain(c) PROVE TypeOK'
  BY <1>0, <1>4 DEF CommitAgain, Go, TypeOK
<1>5. ASSUME NEW c \in Callers, CommitFresh(c) PROVE TypeOK'
  BY <1>0, <1>5 DEF CommitFresh, Go, TypeOK
<1>6. ASSUME NEW c \in Callers, CommitRefused(c) PROVE TypeOK'
  BY <1>0, <1>6, ControlType DEF CommitRefused, TypeOK
<1>7. ASSUME NEW t \in Threads, Prove(t) PROVE TypeOK'
  <2>1. /\ recMay' \subseteq Records /\ rec \in recMay'
        /\ landed' \subseteq Tokens /\ lastDur' \in Records /\ after' \in [Tokens -> Records]
    <3>1. rec \in Records
      BY <1>0 DEF TypeOK
    <3>2. CASE recMay' = recMay /\ UNCHANGED <<landed, lastDur, after>>
      BY <1>0, <3>2 DEF TypeOK
    <3>3. CASE recMay' = {rec} /\ Land(rec)
      BY <1>0, <3>1, <3>3, LandType
    <3>4. QED
      BY <1>7, <3>2, <3>3, ProveFacts
  <2>2. /\ markMay' \in [Tokens -> SUBSET Stages] /\ \A u \in Tokens : mark[u] \in markMay'[u]
    BY <1>0, <1>7, ProveFacts DEF TypeOK
  <2>3. /\ pc' \in [Threads -> Places] /\ job' \in [Threads -> Jobs]
        /\ lock' \in Threads \cup {NoThread}
    BY <1>0, <1>7, ProveFacts, ControlType
  <2>4. seen' \in [Threads -> BOOLEAN]
    <3>1. CASE seen' = seen
      BY <1>0, <3>1 DEF TypeOK
    <3>2. CASE seen' = [seen EXCEPT ![t] = mark[rec] # "absent"]
      BY <1>0, <3>2 DEF TypeOK
    <3>3. QED
      BY <1>7, <3>1, <3>2, ProveFacts
  <2>5. /\ mishaps' \in 0..MaxMishaps
        /\ UNCHANGED <<rec, mark, staged, content, catalog, validated, serving, tok, todo, log>>
    BY <1>7, ProveFacts
  <2>6. QED
    BY <1>0, <2>1, <2>2, <2>3, <2>4, <2>5 DEF TypeOK
<1>8. ASSUME NEW t \in Threads, Confirm(t) PROVE TypeOK'
  <2>1. /\ mark' \in [Tokens -> Stages] /\ markMay' \in [Tokens -> SUBSET Stages]
        /\ \A u \in Tokens : mark'[u] \in markMay'[u]
    <3>1. CASE mark' = mark /\ markMay' = markMay
      BY <1>0, <3>1 DEF TypeOK
    <3>2. CASE \E how \in Outcomes : PutMarker(rec, "confirmed", how)
      BY <1>0, <3>2, MarkerWrite DEF TypeOK
    <3>3. QED
      BY <1>8, <3>1, <3>2, ConfirmFacts
  <2>2. /\ pc' \in [Threads -> Places] /\ job' \in [Threads -> Jobs]
        /\ lock' \in Threads \cup {NoThread}
    <3>1. \/ Fail(t)
          \/ Go(t, "intent") /\ UNCHANGED <<lock, job>>
          \/ Go(t, "sweep") /\ UNCHANGED <<lock, job>>
          \/ Go(t, "emit") /\ lock' = NoThread /\ job' = job
      BY <1>8, ConfirmFacts
    <3>2. CASE Fail(t)
      BY <1>0, <3>2, ControlType
    <3>3. CASE ~Fail(t)
      BY <1>0, <3>1, <3>3 DEF Go, TypeOK
    <3>4. QED
      BY <3>2, <3>3
  <2>3. validated' \in Contents \cup {NoContent}
    <3>1. validated' = validated \/ (job[t] = "again" /\ validated' = content[tok[t]])
      BY <1>8, ConfirmFacts
    <3>2. job[t] = "again" => t \in Callers /\ tok[t] \in Tokens
      BY <1>8, ConfirmFacts DEF LockOK, CommitOK, Committing, Threads
    <3>3. QED
      BY <1>0, <3>1, <3>2 DEF TypeOK
  <2>4. /\ mishaps' \in 0..MaxMishaps
        /\ UNCHANGED <<rec, recMay, staged, content, catalog, serving, tok, seen, todo, log,
                       landed, lastDur, after>>
    BY <1>8, ConfirmFacts
  <2>5. QED
    BY <1>0, <2>1, <2>2, <2>3, <2>4 DEF TypeOK
<1>9. ASSUME NEW c \in Callers, WriteIntent(c) PROVE TypeOK'
  <2>1. tok[c] \in Tokens
    BY <1>9 DEF WriteIntent, CommitOK, Committing
  <2>2. CASE mark[tok[c]] # "absent"
    BY <1>0, <1>9, <2>2, ControlType DEF WriteIntent, TypeOK
  <2>3. CASE mark[tok[c]] = "absent"
    <3>1. PICK how \in Outcomes :
            /\ Spend(how) /\ PutMarker(tok[c], "intent", how)
            /\ Fail(c) \/ (Go(c, "flip") /\ UNCHANGED <<lock, job>>)
      BY <1>9, <2>3 DEF WriteIntent
    <3>2. /\ mark' \in [Tokens -> Stages] /\ markMay' \in [Tokens -> SUBSET Stages]
          /\ \A u \in Tokens : mark'[u] \in markMay'[u]
      BY <1>0, <2>1, <3>1, MarkerWrite
    <3>3. /\ pc' \in [Threads -> Places] /\ job' \in [Threads -> Jobs]
          /\ lock' \in Threads \cup {NoThread}
      BY <1>0, <3>1, ControlType
    <3>4. mishaps' \in 0..MaxMishaps
      BY <1>0, <3>1 DEF Spend, TypeOK
    <3>5. QED
      BY <1>0, <1>9, <3>2, <3>3, <3>4 DEF WriteIntent, TypeOK
  <2>4. QED
    BY <2>2, <2>3
<1>10. ASSUME NEW c \in Callers, Flip(c) PROVE TypeOK'
  <2>1. tok[c] \in Tokens
    BY <1>10 DEF Flip, CommitOK, Committing
  <2>2. PICK how \in Outcomes :
          /\ Spend(how) /\ CommitRecord(tok[c], how)
          /\ Fail(c) \/ (Go(c, "seal") /\ UNCHANGED <<lock, job>>)
    BY <1>10 DEF Flip
  <2>3. rec' \in recMay' /\ recMay' \subseteq Records
    BY <1>0, <2>1, <2>2 DEF CommitRecord, Outcomes, TypeOK
  <2>4. landed' \subseteq Tokens /\ lastDur' \in Records /\ after' \in [Tokens -> Records]
    <3>1. CASE Land(tok[c])
      BY <1>0, <2>1, <3>1, LandType
    <3>2. CASE UNCHANGED <<landed, lastDur, after>>
      BY <1>0, <3>2 DEF TypeOK
    <3>3. QED
      BY <2>2, <3>1, <3>2 DEF CommitRecord
  <2>5. /\ pc' \in [Threads -> Places] /\ job' \in [Threads -> Jobs]
        /\ lock' \in Threads \cup {NoThread}
    BY <1>0, <2>2, ControlType
  <2>6. mishaps' \in 0..MaxMishaps
    BY <1>0, <2>2 DEF Spend, TypeOK
  <2>7. QED
    BY <1>0, <1>10, <2>3, <2>4, <2>5, <2>6 DEF Flip, TypeOK
<1>11. ASSUME NEW c \in Callers, Seal(c) PROVE TypeOK'
  <2>1. tok[c] \in Tokens
    BY <1>11 DEF Seal, CommitOK, Committing
  <2>2. PICK how \in Outcomes : Spend(how) /\ PutMarker(tok[c], "confirmed", how)
    BY <1>11 DEF Seal
  <2>3. /\ mark' \in [Tokens -> Stages] /\ markMay' \in [Tokens -> SUBSET Stages]
        /\ \A u \in Tokens : mark'[u] \in markMay'[u]
    BY <1>0, <2>1, <2>2, MarkerWrite
  <2>4. mishaps' \in 0..MaxMishaps
    BY <1>0, <2>2 DEF Spend, TypeOK
  <2>5. QED
    BY <1>0, <1>11, <2>1, <2>3, <2>4 DEF Seal, MarkValidated, Go, TypeOK
<1>12. CASE AdoptReads
  BY <1>0, <1>12 DEF AdoptReads, Go, TypeOK
<1>13. CASE AdoptReadFails
  BY <1>0, <1>13, ControlType DEF AdoptReadFails, Spend, TypeOK
<1>14. CASE Adopted
  BY <1>0, <1>14 DEF Adopted, Valid, MarkValidated, Go, TypeOK
<1>15. CASE Tick
  BY <1>0, <1>15 DEF Tick, Go, TypeOK
<1>16. ASSUME NEW t \in Threads, Scan(t) \/ Done(t) PROVE TypeOK'
  <2>1. CASE Scan(t)
    BY <1>0, <2>1 DEF Scan, Emittable, Go, TypeOK
  <2>2. CASE Done(t)
    <3>1. serving' \in BOOLEAN
      BY <2>2 DEF Done
    <3>2. QED
      BY <1>0, <2>2, <3>1 DEF Done, Go, TypeOK
  <2>3. QED
    BY <1>16, <2>1, <2>2
<1>17. ASSUME NEW t \in Threads, NEW u \in Tokens, Deliver(t, u) PROVE TypeOK'
  BY <1>0, <1>17 DEF Deliver, RecordCustodyChange, Spend, Go, TypeOK
<1>18. ASSUME NEW t \in Threads, Clear(t) PROVE TypeOK'
  BY <1>0, <1>18, SMTT(60) DEF Clear, PutMarker, Spend, Go, TypeOK
<1>19. ASSUME Boot PROVE /\ catalog' \in Catalogs /\ validated' \in Contents \cup {NoContent}
                         /\ lock' \in Threads \cup {NoThread} /\ serving' \in BOOLEAN
                         /\ pc' \in [Threads -> Places] /\ job' \in [Threads -> Jobs]
                         /\ tok' \in [Threads -> Tokens \cup {NoToken}]
                         /\ seen' \in [Threads -> BOOLEAN] /\ todo' \in [Threads -> SUBSET Tokens]
                         /\ mishaps' \in 0..MaxMishaps
  <2>1. /\ catalog' \in Catalogs /\ validated' \in Contents \cup {NoContent}
        /\ lock' \in Threads \cup {NoThread} /\ serving' \in BOOLEAN
    BY <1>19 DEF Boot
  <2>2. pc' \in [Threads -> Places] /\ job' \in [Threads -> Jobs]
    BY <1>0, <1>19 DEF Boot
  <2>3. tok' \in [Threads -> Tokens \cup {NoToken}] /\ todo' \in [Threads -> SUBSET Tokens]
    BY <1>19 DEF Boot
  <2>4. seen' \in [Threads -> BOOLEAN]
    BY <1>19 DEF Boot
  <2>5. mishaps' \in 0..MaxMishaps
    BY <1>0, <1>19 DEF Boot, TypeOK
  <2>6. QED
    BY <2>1, <2>2, <2>3, <2>4, <2>5
<1>20. CASE Crash
  BY <1>0, <1>19, <1>20 DEF Crash, Boot, TypeOK
<1>21. CASE PowerLoss
  <2>1. /\ mark' \in [Tokens -> Stages] /\ markMay' \in [Tokens -> SUBSET Stages]
        /\ \A t \in Tokens : mark'[t] \in markMay'[t]
    BY <1>21 DEF PowerLoss
  <2>2. rec' \in Records /\ recMay' = {rec'} /\ Land(rec')
    BY <1>0, <1>21 DEF PowerLoss, TypeOK
  <2>3. landed' \subseteq Tokens /\ lastDur' \in Records /\ after' \in [Tokens -> Records]
    BY <1>0, <2>2 DEF Land, TypeOK
  <2>4. QED
    BY <1>0, <1>19, <1>21, <2>1, <2>2, <2>3 DEF PowerLoss, Boot, TypeOK
<1>22. CASE UNCHANGED vars
  BY <1>0, <1>22 DEF vars, TypeOK
<1>23. QED
  BY <1>0, <1>1, <1>2, <1>3, <1>4, <1>5, <1>6, <1>7, <1>8, <1>9, <1>10, <1>11, <1>12, <1>13,
     <1>14, <1>15, <1>16, <1>17, <1>18, <1>20, <1>21, <1>22 DEF Next, Locking, Work

(* Threads take the mutex and their places as the code does. *)
LEMMA LockStep == ASSUME RecordAssumption, ServedInv, [Next]_vars PROVE LockOK'
<1> USE DEF RecordAssumption, ServedInv, TypeOK, disk, ceremony, ghost, Threads,
   Records, Outcomes, Stages, Spend, Err, Go, LockOK, Held, Committing
<1>1. ASSUME NEW t \in Tokens, NEW x \in Contents, Stage(t, x) PROVE LockOK'
  BY <1>1 DEF Stage, PassesValidation, ExactBaseline
<1>2. ASSUME NEW t \in Tokens, SweepStaged(t) PROVE LockOK'
  BY <1>2 DEF SweepStaged
<1>3. ASSUME NEW c \in Callers, NEW t \in Tokens, Commit(c, t) PROVE LockOK'
  BY <1>3 DEF Commit, PassesValidation
<1>4. ASSUME NEW c \in Callers, CommitAgain(c) PROVE LockOK'
  BY <1>4 DEF CommitAgain, Live, Valid
<1>5. ASSUME NEW c \in Callers, CommitFresh(c) PROVE LockOK'
  BY <1>5 DEF CommitFresh, SameBaseline, ExactBaseline, Live, Valid
<1>6. ASSUME NEW c \in Callers, CommitRefused(c) PROVE LockOK'
  BY <1>6 DEF CommitRefused, Fail
<1>7. ASSUME NEW t \in Threads, Prove(t) PROVE LockOK'
  BY <1>7 DEF Prove, ProveDurable, OwesConfirmation, Fail, Land
<1>8. ASSUME NEW t \in Threads, Confirm(t) PROVE LockOK'
  BY <1>8, ConfirmFacts DEF Fail
<1>9. ASSUME NEW c \in Callers, WriteIntent(c) PROVE LockOK'
  BY <1>9 DEF WriteIntent, PutMarker, Fail
<1>10. ASSUME NEW c \in Callers, Flip(c) PROVE LockOK'
  BY <1>10 DEF Flip, CommitRecord, Land, Fail
<1>11. ASSUME NEW c \in Callers, Seal(c) PROVE LockOK'
  BY <1>11 DEF Seal, PutMarker, MarkValidated
<1>12. CASE AdoptReads
  BY <1>12 DEF AdoptReads, Live, Valid
<1>13. CASE AdoptReadFails
  BY <1>13 DEF AdoptReadFails, Fail
<1>14. CASE Adopted
  BY <1>14 DEF Adopted, SweptIntents, Live, Valid, PassesValidation, MarkValidated
<1>15. CASE Tick
  BY <1>15 DEF Tick, Valid
<1>16. ASSUME NEW t \in Threads, Scan(t) PROVE LockOK'
  BY <1>16 DEF Scan, Emittable
<1>17. ASSUME NEW t \in Threads, NEW u \in Tokens, Deliver(t, u) PROVE LockOK'
  BY <1>17 DEF Deliver, RecordCustodyChange
<1>18. ASSUME NEW t \in Threads, Clear(t) PROVE LockOK'
  BY <1>18 DEF Clear, PutMarker
<1>19. ASSUME NEW t \in Threads, Done(t) PROVE LockOK'
  BY <1>19 DEF Done
<1>20. CASE Crash
  BY <1>20 DEF Crash, Boot
<1>21. CASE PowerLoss
  BY <1>21 DEF PowerLoss, Boot, Land
<1>22. CASE UNCHANGED vars
  BY <1>22 DEF vars
<1>23. QED
  BY <1>1, <1>2, <1>3, <1>4, <1>5, <1>6, <1>7, <1>8, <1>9, <1>10, <1>11, <1>12, <1>13,
     <1>14, <1>15, <1>16, <1>17, <1>18, <1>19, <1>20, <1>21, <1>22 DEF Next, Locking,
     Work

(* A ceremony carries a text this build validated to its commit. *)
LEMMA CommitStep == ASSUME RecordAssumption, ServedInv, [Next]_vars PROVE CommitOK'
<1> USE DEF RecordAssumption, ServedInv, TypeOK, disk, ceremony, ghost, Threads,
   Records, Outcomes, Stages, Spend, Err, Go, CommitOK, LockOK, Held, Committing
<1>1. ASSUME NEW t \in Tokens, NEW x \in Contents, Stage(t, x) PROVE CommitOK'
  BY <1>1 DEF Stage, PassesValidation, ExactBaseline
<1>2. ASSUME NEW t \in Tokens, SweepStaged(t) PROVE CommitOK'
  BY <1>2 DEF SweepStaged
<1>3. ASSUME NEW c \in Callers, NEW t \in Tokens, Commit(c, t) PROVE CommitOK'
  BY <1>3 DEF Commit, PassesValidation
<1>4. ASSUME NEW c \in Callers, CommitAgain(c) PROVE CommitOK'
  BY <1>4 DEF CommitAgain, Live, Valid
<1>5. ASSUME NEW c \in Callers, CommitFresh(c) PROVE CommitOK'
  BY <1>5 DEF CommitFresh, SameBaseline, ExactBaseline, Live, Valid
<1>6. ASSUME NEW c \in Callers, CommitRefused(c) PROVE CommitOK'
  BY <1>6 DEF CommitRefused, Fail
<1>7. ASSUME NEW t \in Threads, Prove(t) PROVE CommitOK'
  BY <1>7 DEF Prove, ProveDurable, OwesConfirmation, Fail, Land
<1>8. ASSUME NEW t \in Threads, Confirm(t) PROVE CommitOK'
  BY <1>8, ConfirmFacts DEF Fail
<1>9. ASSUME NEW c \in Callers, WriteIntent(c) PROVE CommitOK'
  BY <1>9 DEF WriteIntent, PutMarker, Fail
<1>10. ASSUME NEW c \in Callers, Flip(c) PROVE CommitOK'
  BY <1>10 DEF Flip, CommitRecord, Land, Fail
<1>11. ASSUME NEW c \in Callers, Seal(c) PROVE CommitOK'
  BY <1>11 DEF Seal, PutMarker, MarkValidated
<1>12. CASE AdoptReads
  BY <1>12 DEF AdoptReads, Live, Valid
<1>13. CASE AdoptReadFails
  BY <1>13 DEF AdoptReadFails, Fail
<1>14. CASE Adopted
  BY <1>14 DEF Adopted, SweptIntents, Live, Valid, PassesValidation, MarkValidated
<1>15. CASE Tick
  BY <1>15 DEF Tick, Valid
<1>16. ASSUME NEW t \in Threads, Scan(t) PROVE CommitOK'
  BY <1>16 DEF Scan, Emittable
<1>17. ASSUME NEW t \in Threads, NEW u \in Tokens, Deliver(t, u) PROVE CommitOK'
  BY <1>17 DEF Deliver, RecordCustodyChange
<1>18. ASSUME NEW t \in Threads, Clear(t) PROVE CommitOK'
  BY <1>18 DEF Clear, PutMarker
<1>19. ASSUME NEW t \in Threads, Done(t) PROVE CommitOK'
  BY <1>19 DEF Done
<1>20. CASE Crash
  BY <1>20 DEF Crash, Boot
<1>21. CASE PowerLoss
  BY <1>21 DEF PowerLoss, Boot, Land
<1>22. CASE UNCHANGED vars
  BY <1>22 DEF vars
<1>23. QED
  BY <1>1, <1>2, <1>3, <1>4, <1>5, <1>6, <1>7, <1>8, <1>9, <1>10, <1>11, <1>12, <1>13,
     <1>14, <1>15, <1>16, <1>17, <1>18, <1>19, <1>20, <1>21, <1>22 DEF Next, Locking,
     Work

(* Only what this build validates is marked as validated. *)
LEMMA ValidatedStep == ASSUME RecordAssumption, ServedInv, [Next]_vars PROVE ValidatedOK'
<1> USE DEF RecordAssumption, ServedInv, TypeOK, disk, ceremony, ghost, Threads,
   Records, Outcomes, Stages, Spend, Err, Go, ValidatedOK, LockOK, CommitOK, Committing
<1>1. ASSUME NEW t \in Tokens, NEW x \in Contents, Stage(t, x) PROVE ValidatedOK'
  BY <1>1 DEF Stage, PassesValidation, ExactBaseline
<1>2. ASSUME NEW t \in Tokens, SweepStaged(t) PROVE ValidatedOK'
  BY <1>2 DEF SweepStaged
<1>3. ASSUME NEW c \in Callers, NEW t \in Tokens, Commit(c, t) PROVE ValidatedOK'
  BY <1>3 DEF Commit, PassesValidation
<1>4. ASSUME NEW c \in Callers, CommitAgain(c) PROVE ValidatedOK'
  BY <1>4 DEF CommitAgain, Live, Valid
<1>5. ASSUME NEW c \in Callers, CommitFresh(c) PROVE ValidatedOK'
  BY <1>5 DEF CommitFresh, SameBaseline, ExactBaseline, Live, Valid
<1>6. ASSUME NEW c \in Callers, CommitRefused(c) PROVE ValidatedOK'
  BY <1>6 DEF CommitRefused, Fail
<1>7. ASSUME NEW t \in Threads, Prove(t) PROVE ValidatedOK'
  BY <1>7 DEF Prove, ProveDurable, OwesConfirmation, Fail, Land
<1>8. ASSUME NEW t \in Threads, Confirm(t) PROVE ValidatedOK'
  BY <1>8, ConfirmFacts DEF Fail
<1>9. ASSUME NEW c \in Callers, WriteIntent(c) PROVE ValidatedOK'
  BY <1>9 DEF WriteIntent, PutMarker, Fail
<1>10. ASSUME NEW c \in Callers, Flip(c) PROVE ValidatedOK'
  BY <1>10 DEF Flip, CommitRecord, Land, Fail
<1>11. ASSUME NEW c \in Callers, Seal(c) PROVE ValidatedOK'
  BY <1>11 DEF Seal, PutMarker, MarkValidated
<1>12. CASE AdoptReads
  BY <1>12 DEF AdoptReads, Live, Valid
<1>13. CASE AdoptReadFails
  BY <1>13 DEF AdoptReadFails, Fail
<1>14. CASE Adopted
  BY <1>14 DEF Adopted, SweptIntents, Live, Valid, PassesValidation, MarkValidated
<1>15. CASE Tick
  BY <1>15 DEF Tick, Valid
<1>16. ASSUME NEW t \in Threads, Scan(t) PROVE ValidatedOK'
  BY <1>16 DEF Scan, Emittable
<1>17. ASSUME NEW t \in Threads, NEW u \in Tokens, Deliver(t, u) PROVE ValidatedOK'
  BY <1>17 DEF Deliver, RecordCustodyChange
<1>18. ASSUME NEW t \in Threads, Clear(t) PROVE ValidatedOK'
  BY <1>18 DEF Clear, PutMarker
<1>19. ASSUME NEW t \in Threads, Done(t) PROVE ValidatedOK'
  BY <1>19 DEF Done
<1>20. CASE Crash
  BY <1>20 DEF Crash, Boot
<1>21. CASE PowerLoss
  BY <1>21 DEF PowerLoss, Boot, Land
<1>22. CASE UNCHANGED vars
  BY <1>22 DEF vars
<1>23. QED
  BY <1>1, <1>2, <1>3, <1>4, <1>5, <1>6, <1>7, <1>8, <1>9, <1>10, <1>11, <1>12, <1>13,
     <1>14, <1>15, <1>16, <1>17, <1>18, <1>19, <1>20, <1>21, <1>22 DEF Next, Locking,
     Work

(* What is on the disk was staged, in the dialect all builds read. *)
LEMMA StagedStep == ASSUME RecordAssumption, OneDialect, RecordInv, [Next]_vars PROVE StagedOK'
<1> USE DEF RecordAssumption, OneDialect, RecordInv, ServedInv, TypeOK, disk, ceremony,
   ghost, Threads, Records, Outcomes, Stages, Spend, Err, Go, StagedOK, CommitOK,
   LockOK, Held, Committing, PhaseOK, DiskOK
<1>1. ASSUME NEW t \in Tokens, NEW x \in Contents, Stage(t, x) PROVE StagedOK'
  <2>1. ExactBaseline \in [of : Records, state : {"absent", "served", "unserved", "corrupt"}]
    BY DEF ExactBaseline, ServedState
  <2>2. baseline' \in [Tokens -> [of : Records, state : {"absent", "served", "unserved", "corrupt"}]]
    BY <1>1, <2>1 DEF Stage
  <2>3. QED
    BY <1>1, <2>2 DEF Stage, PassesValidation
<1>2. ASSUME NEW t \in Tokens, SweepStaged(t) PROVE StagedOK'
  BY <1>2 DEF SweepStaged
<1>3. ASSUME NEW c \in Callers, NEW t \in Tokens, Commit(c, t) PROVE StagedOK'
  BY <1>3 DEF Commit, PassesValidation
<1>4. ASSUME NEW c \in Callers, CommitAgain(c) PROVE StagedOK'
  BY <1>4 DEF CommitAgain, Live, Valid
<1>5. ASSUME NEW c \in Callers, CommitFresh(c) PROVE StagedOK'
  BY <1>5 DEF CommitFresh, SameBaseline, ExactBaseline, Live, Valid
<1>6. ASSUME NEW c \in Callers, CommitRefused(c) PROVE StagedOK'
  BY <1>6 DEF CommitRefused, Fail
<1>7. ASSUME NEW t \in Threads, Prove(t) PROVE StagedOK'
  BY <1>7 DEF Prove, ProveDurable, OwesConfirmation, Fail, Land
<1>8. ASSUME NEW t \in Threads, Confirm(t) PROVE StagedOK'
  BY <1>8 DEF Confirm, PutMarker, MarkValidated, Fail
<1>9. ASSUME NEW c \in Callers, WriteIntent(c) PROVE StagedOK'
  BY <1>9 DEF WriteIntent, PutMarker, Fail
<1>10. ASSUME NEW c \in Callers, Flip(c) PROVE StagedOK'
  BY <1>10 DEF Flip, CommitRecord, Land, Fail
<1>11. ASSUME NEW c \in Callers, Seal(c) PROVE StagedOK'
  BY <1>11 DEF Seal, PutMarker, MarkValidated
<1>12. CASE AdoptReads
  BY <1>12 DEF AdoptReads, Live, Valid
<1>13. CASE AdoptReadFails
  BY <1>13 DEF AdoptReadFails, Fail
<1>14. CASE Adopted
  BY <1>14 DEF Adopted, SweptIntents, Live, Valid, PassesValidation, MarkValidated
<1>15. CASE Tick
  BY <1>15 DEF Tick, Valid
<1>16. ASSUME NEW t \in Threads, Scan(t) PROVE StagedOK'
  BY <1>16 DEF Scan, Emittable
<1>17. ASSUME NEW t \in Threads, NEW u \in Tokens, Deliver(t, u) PROVE StagedOK'
  BY <1>17 DEF Deliver, RecordCustodyChange
<1>18. ASSUME NEW t \in Threads, Clear(t) PROVE StagedOK'
  BY <1>18 DEF Clear, PutMarker
<1>19. ASSUME NEW t \in Threads, Done(t) PROVE StagedOK'
  BY <1>19 DEF Done
<1>20. CASE Crash
  BY <1>20 DEF Crash, Boot
<1>21. CASE PowerLoss
  BY <1>21 DEF PowerLoss, Boot, Land
<1>22. CASE UNCHANGED vars
  BY <1>22 DEF vars
<1>23. QED
  BY <1>1, <1>2, <1>3, <1>4, <1>5, <1>6, <1>7, <1>8, <1>9, <1>10, <1>11, <1>12, <1>13,
     <1>14, <1>15, <1>16, <1>17, <1>18, <1>19, <1>20, <1>21, <1>22 DEF Next, Locking,
     Work

(* A record that is not durable is one rename away from the last that is. *)
LEMMA DiskStep == ASSUME RecordAssumption, OneDialect, RecordInv, [Next]_vars PROVE DiskOK'
<1> USE DEF RecordAssumption, OneDialect, RecordInv, ServedInv, TypeOK, disk, ceremony,
   ghost, Threads, Records, Outcomes, Stages, Spend, Err, Go, DiskOK, StagedOK,
   CommitOK, LockOK, Held, Committing, PhaseOK, MarkersOK
<1>1. ASSUME NEW t \in Tokens, NEW x \in Contents, Stage(t, x) PROVE DiskOK'
  BY <1>1 DEF Stage, PassesValidation, ExactBaseline
<1>2. ASSUME NEW t \in Tokens, SweepStaged(t) PROVE DiskOK'
  BY <1>2 DEF SweepStaged
<1>3. ASSUME NEW c \in Callers, NEW t \in Tokens, Commit(c, t) PROVE DiskOK'
  BY <1>3 DEF Commit, PassesValidation
<1>4. ASSUME NEW c \in Callers, CommitAgain(c) PROVE DiskOK'
  BY <1>4 DEF CommitAgain, Live, Valid
<1>5. ASSUME NEW c \in Callers, CommitFresh(c) PROVE DiskOK'
  BY <1>5 DEF CommitFresh, SameBaseline, ExactBaseline, Live, Valid
<1>6. ASSUME NEW c \in Callers, CommitRefused(c) PROVE DiskOK'
  BY <1>6 DEF CommitRefused, Fail
<1>7. ASSUME NEW t \in Threads, Prove(t) PROVE DiskOK'
  BY <1>7 DEF Prove, ProveDurable, OwesConfirmation, Fail, Land
<1>8. ASSUME NEW t \in Threads, Confirm(t) PROVE DiskOK'
  BY <1>8 DEF Confirm, PutMarker, MarkValidated, Fail
<1>9. ASSUME NEW c \in Callers, WriteIntent(c) PROVE DiskOK'
  BY <1>9 DEF WriteIntent, PutMarker, Fail
<1>10. ASSUME NEW c \in Callers, Flip(c) PROVE DiskOK'
  BY <1>10 DEF Flip, CommitRecord, Land, Fail
<1>11. ASSUME NEW c \in Callers, Seal(c) PROVE DiskOK'
  BY <1>11 DEF Seal, PutMarker, MarkValidated
<1>12. CASE AdoptReads
  BY <1>12 DEF AdoptReads, Live, Valid
<1>13. CASE AdoptReadFails
  BY <1>13 DEF AdoptReadFails, Fail
<1>14. CASE Adopted
  BY <1>14 DEF Adopted, SweptIntents, Live, Valid, PassesValidation, MarkValidated
<1>15. CASE Tick
  BY <1>15 DEF Tick, Valid
<1>16. ASSUME NEW t \in Threads, Scan(t) PROVE DiskOK'
  BY <1>16 DEF Scan, Emittable
<1>17. ASSUME NEW t \in Threads, NEW u \in Tokens, Deliver(t, u) PROVE DiskOK'
  BY <1>17 DEF Deliver, RecordCustodyChange
<1>18. ASSUME NEW t \in Threads, Clear(t) PROVE DiskOK'
  BY <1>18, SMTT(60) DEF Clear, PutMarker
<1>19. ASSUME NEW t \in Threads, Done(t) PROVE DiskOK'
  BY <1>19 DEF Done
<1>20. CASE Crash
  BY <1>20 DEF Crash, Boot
<1>21. CASE PowerLoss
  BY <1>21 DEF PowerLoss, Boot, Land
<1>22. CASE UNCHANGED vars
  BY <1>22 DEF vars
<1>23. QED
  BY <1>1, <1>2, <1>3, <1>4, <1>5, <1>6, <1>7, <1>8, <1>9, <1>10, <1>11, <1>12, <1>13,
     <1>14, <1>15, <1>16, <1>17, <1>18, <1>19, <1>20, <1>21, <1>22 DEF Next, Locking,
     Work

(* The chain of durable records grows at its end. *)
LEMMA ChainStep == ASSUME RecordAssumption, OneDialect, RecordInv, [Next]_vars PROVE ChainOK'
<1> USE DEF RecordAssumption, OneDialect, RecordInv, ServedInv, TypeOK, disk, ceremony,
   ghost, Threads, Records, Outcomes, Stages, Spend, Err, Go, ChainOK, DiskOK, PhaseOK,
   LockOK, Held, Committing, CommitOK
<1>1. ASSUME NEW t \in Tokens, NEW x \in Contents, Stage(t, x) PROVE ChainOK'
  BY <1>1 DEF Stage, PassesValidation, ExactBaseline
<1>2. ASSUME NEW t \in Tokens, SweepStaged(t) PROVE ChainOK'
  BY <1>2 DEF SweepStaged
<1>3. ASSUME NEW c \in Callers, NEW t \in Tokens, Commit(c, t) PROVE ChainOK'
  BY <1>3 DEF Commit, PassesValidation
<1>4. ASSUME NEW c \in Callers, CommitAgain(c) PROVE ChainOK'
  BY <1>4 DEF CommitAgain, Live, Valid
<1>5. ASSUME NEW c \in Callers, CommitFresh(c) PROVE ChainOK'
  BY <1>5 DEF CommitFresh, SameBaseline, ExactBaseline, Live, Valid
<1>6. ASSUME NEW c \in Callers, CommitRefused(c) PROVE ChainOK'
  BY <1>6 DEF CommitRefused, Fail
<1>7. ASSUME NEW t \in Threads, Prove(t) PROVE ChainOK'
  BY <1>7 DEF Prove, ProveDurable, OwesConfirmation, Fail, Land
<1>8. ASSUME NEW t \in Threads, Confirm(t) PROVE ChainOK'
  BY <1>8 DEF Confirm, PutMarker, MarkValidated, Fail
<1>9. ASSUME NEW c \in Callers, WriteIntent(c) PROVE ChainOK'
  BY <1>9 DEF WriteIntent, PutMarker, Fail
<1>10. ASSUME NEW c \in Callers, Flip(c) PROVE ChainOK'
  BY <1>10 DEF Flip, CommitRecord, Land, Fail
<1>11. ASSUME NEW c \in Callers, Seal(c) PROVE ChainOK'
  BY <1>11 DEF Seal, PutMarker, MarkValidated
<1>12. CASE AdoptReads
  BY <1>12 DEF AdoptReads, Live, Valid
<1>13. CASE AdoptReadFails
  BY <1>13 DEF AdoptReadFails, Fail
<1>14. CASE Adopted
  BY <1>14 DEF Adopted, SweptIntents, Live, Valid, PassesValidation, MarkValidated
<1>15. CASE Tick
  BY <1>15 DEF Tick, Valid
<1>16. ASSUME NEW t \in Threads, Scan(t) PROVE ChainOK'
  BY <1>16 DEF Scan, Emittable
<1>17. ASSUME NEW t \in Threads, NEW u \in Tokens, Deliver(t, u) PROVE ChainOK'
  BY <1>17 DEF Deliver, RecordCustodyChange
<1>18. ASSUME NEW t \in Threads, Clear(t) PROVE ChainOK'
  BY <1>18 DEF Clear, PutMarker
<1>19. ASSUME NEW t \in Threads, Done(t) PROVE ChainOK'
  BY <1>19 DEF Done
<1>20. CASE Crash
  BY <1>20 DEF Crash, Boot
<1>21. CASE PowerLoss
  BY <1>21 DEF PowerLoss, Boot, Land
<1>22. CASE UNCHANGED vars
  BY <1>22 DEF vars
<1>23. QED
  BY <1>1, <1>2, <1>3, <1>4, <1>5, <1>6, <1>7, <1>8, <1>9, <1>10, <1>11, <1>12, <1>13,
     <1>14, <1>15, <1>16, <1>17, <1>18, <1>19, <1>20, <1>21, <1>22 DEF Next, Locking,
     Work

(* Only durable records are emitted, and markers outlive their rows. *)
LEMMA MarkersStep == ASSUME RecordAssumption, OneDialect, RecordInv, [Next]_vars PROVE MarkersOK'
<1> USE DEF RecordAssumption, OneDialect, RecordInv, ServedInv, TypeOK, disk, ceremony,
   ghost, Threads, Records, Outcomes, Stages, Spend, Err, Go, MarkersOK, PhaseOK,
   LockOK, Held, Committing, CommitOK, DiskOK
<1>1. ASSUME NEW t \in Tokens, NEW x \in Contents, Stage(t, x) PROVE MarkersOK'
  BY <1>1 DEF Stage, PassesValidation, ExactBaseline
<1>2. ASSUME NEW t \in Tokens, SweepStaged(t) PROVE MarkersOK'
  BY <1>2 DEF SweepStaged
<1>3. ASSUME NEW c \in Callers, NEW t \in Tokens, Commit(c, t) PROVE MarkersOK'
  BY <1>3 DEF Commit, PassesValidation
<1>4. ASSUME NEW c \in Callers, CommitAgain(c) PROVE MarkersOK'
  BY <1>4 DEF CommitAgain, Live, Valid
<1>5. ASSUME NEW c \in Callers, CommitFresh(c) PROVE MarkersOK'
  BY <1>5 DEF CommitFresh, SameBaseline, ExactBaseline, Live, Valid
<1>6. ASSUME NEW c \in Callers, CommitRefused(c) PROVE MarkersOK'
  BY <1>6 DEF CommitRefused, Fail
<1>7. ASSUME NEW t \in Threads, Prove(t) PROVE MarkersOK'
  BY <1>7 DEF Prove, ProveDurable, OwesConfirmation, Fail, Land
<1>8. ASSUME NEW t \in Threads, Confirm(t) PROVE MarkersOK'
  <2>1. rec \in landed /\ rec \in Tokens
    BY <1>8, ConfirmFacts
  <2>2. \A u \in Tokens : markMay'[u] \subseteq markMay[u] \cup (IF u = rec THEN {"confirmed"} ELSE {})
    <3>1. CASE mark' = mark /\ markMay' = markMay
      BY <3>1
    <3>2. CASE \E how \in Outcomes : PutMarker(rec, "confirmed", how)
      BY <2>1, <3>2, MarkerWrite
    <3>3. QED
      BY <1>8, <3>1, <3>2, ConfirmFacts
  <2>3. \A u \in Threads : pc'[u] = "clear" => pc[u] = "clear"
    BY <1>8, ConfirmFacts DEF Fail
  <2>4. UNCHANGED <<todo, tok, log, landed>>
    BY <1>8, ConfirmFacts
  <2>5. QED
    BY <2>1, <2>2, <2>3, <2>4
<1>9. ASSUME NEW c \in Callers, WriteIntent(c) PROVE MarkersOK'
  BY <1>9 DEF WriteIntent, PutMarker, Fail
<1>10. ASSUME NEW c \in Callers, Flip(c) PROVE MarkersOK'
  BY <1>10 DEF Flip, CommitRecord, Land, Fail
<1>11. ASSUME NEW c \in Callers, Seal(c) PROVE MarkersOK'
  BY <1>11 DEF Seal, PutMarker, MarkValidated
<1>12. CASE AdoptReads
  BY <1>12 DEF AdoptReads, Live, Valid
<1>13. CASE AdoptReadFails
  BY <1>13 DEF AdoptReadFails, Fail
<1>14. CASE Adopted
  BY <1>14 DEF Adopted, SweptIntents, Live, Valid, PassesValidation, MarkValidated
<1>15. CASE Tick
  BY <1>15 DEF Tick, Valid
<1>16. ASSUME NEW t \in Threads, Scan(t) PROVE MarkersOK'
  BY <1>16 DEF Scan, Emittable
<1>17. ASSUME NEW t \in Threads, NEW u \in Tokens, Deliver(t, u) PROVE MarkersOK'
  BY <1>17 DEF Deliver, RecordCustodyChange
<1>18. ASSUME NEW t \in Threads, Clear(t) PROVE MarkersOK'
  BY <1>18 DEF Clear, PutMarker
<1>19. ASSUME NEW t \in Threads, Done(t) PROVE MarkersOK'
  BY <1>19 DEF Done
<1>20. CASE Crash
  BY <1>20 DEF Crash, Boot
<1>21. CASE PowerLoss
  BY <1>21, SMTT(60) DEF PowerLoss, Boot, Land
<1>22. CASE UNCHANGED vars
  BY <1>22, SMTT(60) DEF vars
<1>23. QED
  BY <1>1, <1>2, <1>3, <1>4, <1>5, <1>6, <1>7, <1>8, <1>9, <1>10, <1>11, <1>12, <1>13,
     <1>14, <1>15, <1>16, <1>17, <1>18, <1>19, <1>20, <1>21, <1>22 DEF Next, Locking,
     Work

(* Each place of a commit finds the disk as its earlier steps left it. *)
LEMMA PhaseStep == ASSUME RecordAssumption, OneDialect, RecordInv, [Next]_vars PROVE PhaseOK'
<1> USE DEF RecordAssumption, OneDialect, RecordInv, ServedInv, TypeOK, disk, ceremony,
   ghost, Threads, Records, Outcomes, Stages, Spend, Err, Go, PhaseOK, MarkersOK,
   DiskOK, ChainOK, StagedOK, CommitOK, LockOK, Held, Committing, CustodyAudited,
   AuditTrue, AuditNotLost
<1>1. ASSUME NEW t \in Tokens, NEW x \in Contents, Stage(t, x) PROVE PhaseOK'
  BY <1>1 DEF Stage, PassesValidation, ExactBaseline
<1>2. ASSUME NEW t \in Tokens, SweepStaged(t) PROVE PhaseOK'
  BY <1>2 DEF SweepStaged
<1>3. ASSUME NEW c \in Callers, NEW t \in Tokens, Commit(c, t) PROVE PhaseOK'
  BY <1>3 DEF Commit, PassesValidation
<1>4. ASSUME NEW c \in Callers, CommitAgain(c) PROVE PhaseOK'
  BY <1>4 DEF CommitAgain, Live, Valid
<1>5. ASSUME NEW c \in Callers, CommitFresh(c) PROVE PhaseOK'
  BY <1>5 DEF CommitFresh, SameBaseline, ExactBaseline, Live, Valid
<1>6. ASSUME NEW c \in Callers, CommitRefused(c) PROVE PhaseOK'
  BY <1>6 DEF CommitRefused, Fail
<1>7. ASSUME NEW t \in Threads, Prove(t) PROVE PhaseOK'
  <2>0. lock = t /\ pc[t] = "prove" /\ \A u \in Threads : u # t => pc[u] \notin Held
    BY <1>7, ProveFacts
  <2>1. CASE Fail(t) /\ seen' = seen
    <3>1. \A u \in Threads : pc'[u] \notin Held
      BY <2>0, <2>1 DEF Fail
    <3>2. QED
      BY <3>1
  <2>2. CASE /\ Go(t, "confirm") /\ UNCHANGED <<lock, job>>
             /\ seen' = [seen EXCEPT ![t] = mark[rec] # "absent"]
             /\ recMay' = {rec} /\ Land(rec)
    <3>1. rec \in Tokens /\ rec \in landed' /\ lastDur' = rec /\ landed' = landed \cup {rec}
      BY <2>0, <2>2 DEF Land
    <3>2. mark[rec] # "absent" \/ log[rec] > 0
      <4>1. mark[rec] \in markMay[rec]
        BY <3>1
      <4>2. CASE rec \in landed
        BY <4>1, <4>2
      <4>3. CASE rec \notin landed
        BY <3>1, <4>1, <4>3
      <4>4. QED
        BY <4>2, <4>3
    <3>3. seen'[t] \/ log[rec] > 0
      BY <2>2, <3>2
    <3>4. t \in Callers /\ job[t] = "commit" => baseline[tok[t]].of = rec /\ tok[t] \notin landed'
      BY <2>0, <3>1
    <3>5. \A u \in Threads : u # t => pc'[u] \notin Held
      BY <2>0, <2>2
    <3>6. pc'[t] = "confirm" /\ UNCHANGED <<rec, mark, log, job, tok, baseline>>
      BY <1>7, <2>2, ProveFacts
    <3>7. t \in Callers /\ job[t] = "again" => rec = tok[t]
      BY <2>0
    <3>8. QED
      BY <3>1, <3>3, <3>4, <3>5, <3>6, <3>7
  <2>3. QED
    BY <1>7, <2>1, <2>2, ProveFacts
<1>8. ASSUME NEW t \in Threads, Confirm(t) PROVE PhaseOK'
  <2>0. lock = t /\ pc[t] = "confirm" /\ \A u \in Threads : u # t => pc[u] \notin Held
    BY <1>8, ConfirmFacts
  <2>1. UNCHANGED <<rec, log, tok, baseline, landed, lastDur>>
    BY <1>8, ConfirmFacts
  <2>2. CASE /\ job[t] = "commit" /\ Go(t, "intent") /\ UNCHANGED <<lock, job, validated>>
             /\ seen[t] => PutMarker(rec, "confirmed", "synced")
    <3>1. pc'[t] = "intent" /\ \A u \in Threads : u # t => pc'[u] \notin Held
      BY <2>0, <2>2
    <3>2. rec \in Tokens
      BY <2>0
    <3>3. PutMarker(rec, "confirmed", "synced") => markMay'[rec] = {"confirmed"}
      BY <3>2 DEF PutMarker
    <3>4. seen[t] => markMay'[rec] = {"confirmed"}
      BY <2>2, <3>3, Zenon
    <3>5. log[rec] > 0 \/ markMay'[rec] = {"confirmed"}
      BY <2>0, <3>4
    <3>6. QED
      BY <2>0, <2>1, <2>2, <3>1, <3>5
  <2>3. CASE \/ Fail(t) \/ (Go(t, "sweep") /\ UNCHANGED <<lock, job>>)
             \/ (Go(t, "emit") /\ lock' = NoThread /\ job' = job)
    <3>1. \A u \in Threads : pc'[u] \in Held => u = t /\ pc'[u] = "sweep"
      BY <2>0, <2>3 DEF Fail
    <3>2. QED
      BY <2>0, <2>1, <3>1
  <2>4. QED
    BY <1>8, <2>2, <2>3, ConfirmFacts, ZenonT(60)
<1>9. ASSUME NEW c \in Callers, WriteIntent(c) PROVE PhaseOK'
  BY <1>9 DEF WriteIntent, PutMarker, Fail
<1>10. ASSUME NEW c \in Callers, Flip(c) PROVE PhaseOK'
  BY <1>10 DEF Flip, CommitRecord, Land, Fail
<1>11. ASSUME NEW c \in Callers, Seal(c) PROVE PhaseOK'
  BY <1>11 DEF Seal, PutMarker, MarkValidated
<1>12. CASE AdoptReads
  BY <1>12 DEF AdoptReads, Live, Valid
<1>13. CASE AdoptReadFails
  BY <1>13 DEF AdoptReadFails, Fail
<1>14. CASE Adopted
  BY <1>14 DEF Adopted, SweptIntents, Live, Valid, PassesValidation, MarkValidated
<1>15. CASE Tick
  BY <1>15 DEF Tick, Valid
<1>16. ASSUME NEW t \in Threads, Scan(t) PROVE PhaseOK'
  BY <1>16 DEF Scan, Emittable
<1>17. ASSUME NEW t \in Threads, NEW u \in Tokens, Deliver(t, u) PROVE PhaseOK'
  BY <1>17, SMTT(60) DEF Deliver, RecordCustodyChange
<1>18. ASSUME NEW t \in Threads, Clear(t) PROVE PhaseOK'
  <2>1. /\ UNCHANGED <<rec, log, tok, baseline, landed, lastDur, job, seen>>
        /\ pc[t] = "clear" /\ pc' = [pc EXCEPT ![t] = "deliver"]
        /\ tok[t] \in landed /\ log[tok[t]] > 0
    BY <1>18 DEF Clear, MarkersOK, ceremony, ghost
  <2>2. \A u \in Tokens : u # tok[t] => markMay'[u] = markMay[u]
    BY <1>18 DEF Clear, PutMarker
  <2>3. \A u \in Threads : pc'[u] # "deliver" => pc'[u] = pc[u]
    BY <2>1
  <2>4. \A c \in Callers : pc[c] \in {"intent", "flip"} =>
          rec = NoRecord \/ log[rec] > 0 \/ markMay'[rec] = {"confirmed"}
    BY <2>1, <2>2
  <2>5. \A c \in Callers : pc[c] = "flip" => markMay'[tok[c]] = {"intent"}
    BY <2>1, <2>2
  <2>6. QED
    BY <2>1, <2>3, <2>4, <2>5
<1>19. ASSUME NEW t \in Threads, Done(t) PROVE PhaseOK'
  BY <1>19 DEF Done
<1>20. CASE Crash
  BY <1>20 DEF Crash, Boot
<1>21. CASE PowerLoss
  BY <1>21 DEF PowerLoss, Boot, Land
<1>22. CASE UNCHANGED vars
  BY <1>22 DEF vars
<1>23. QED
  BY <1>1, <1>2, <1>3, <1>4, <1>5, <1>6, <1>7, <1>8, <1>9, <1>10, <1>11, <1>12, <1>13, ZenonT(60),
     <1>14, <1>15, <1>16, <1>17, <1>18, <1>19, <1>20, <1>21, <1>22 DEF Next, Locking,
     Work

(* A row names a durable record and the one it was committed over. *)
LEMMA TrueStep == ASSUME RecordAssumption, OneDialect, RecordInv, [Next]_vars PROVE AuditTrue'
<1> USE DEF RecordAssumption, OneDialect, RecordInv, ServedInv, TypeOK, disk, ceremony,
   ghost, Threads, Records, Outcomes, Stages, Spend, Err, Go, AuditTrue, MarkersOK,
   DiskOK, StagedOK, PhaseOK, CommitOK, LockOK, Held, Committing, CustodyAudited
<1>1. ASSUME NEW t \in Tokens, NEW x \in Contents, Stage(t, x) PROVE AuditTrue'
  BY <1>1 DEF Stage, PassesValidation, ExactBaseline
<1>2. ASSUME NEW t \in Tokens, SweepStaged(t) PROVE AuditTrue'
  BY <1>2 DEF SweepStaged
<1>3. ASSUME NEW c \in Callers, NEW t \in Tokens, Commit(c, t) PROVE AuditTrue'
  BY <1>3 DEF Commit, PassesValidation
<1>4. ASSUME NEW c \in Callers, CommitAgain(c) PROVE AuditTrue'
  BY <1>4 DEF CommitAgain, Live, Valid
<1>5. ASSUME NEW c \in Callers, CommitFresh(c) PROVE AuditTrue'
  BY <1>5 DEF CommitFresh, SameBaseline, ExactBaseline, Live, Valid
<1>6. ASSUME NEW c \in Callers, CommitRefused(c) PROVE AuditTrue'
  BY <1>6 DEF CommitRefused, Fail
<1>7. ASSUME NEW t \in Threads, Prove(t) PROVE AuditTrue'
  BY <1>7 DEF Prove, ProveDurable, OwesConfirmation, Fail, Land
<1>8. ASSUME NEW t \in Threads, Confirm(t) PROVE AuditTrue'
  BY <1>8 DEF Confirm, PutMarker, MarkValidated, Fail
<1>9. ASSUME NEW c \in Callers, WriteIntent(c) PROVE AuditTrue'
  BY <1>9 DEF WriteIntent, PutMarker, Fail
<1>10. ASSUME NEW c \in Callers, Flip(c) PROVE AuditTrue'
  BY <1>10 DEF Flip, CommitRecord, Land, Fail
<1>11. ASSUME NEW c \in Callers, Seal(c) PROVE AuditTrue'
  BY <1>11 DEF Seal, PutMarker, MarkValidated
<1>12. CASE AdoptReads
  BY <1>12 DEF AdoptReads, Live, Valid
<1>13. CASE AdoptReadFails
  BY <1>13 DEF AdoptReadFails, Fail
<1>14. CASE Adopted
  BY <1>14 DEF Adopted, SweptIntents, Live, Valid, PassesValidation, MarkValidated
<1>15. CASE Tick
  BY <1>15 DEF Tick, Valid
<1>16. ASSUME NEW t \in Threads, Scan(t) PROVE AuditTrue'
  BY <1>16 DEF Scan, Emittable
<1>17. ASSUME NEW t \in Threads, NEW u \in Tokens, Deliver(t, u) PROVE AuditTrue'
  BY <1>17 DEF Deliver, RecordCustodyChange
<1>18. ASSUME NEW t \in Threads, Clear(t) PROVE AuditTrue'
  BY <1>18 DEF Clear, PutMarker
<1>19. ASSUME NEW t \in Threads, Done(t) PROVE AuditTrue'
  BY <1>19 DEF Done
<1>20. CASE Crash
  BY <1>20 DEF Crash, Boot
<1>21. CASE PowerLoss
  BY <1>21 DEF PowerLoss, Boot, Land
<1>22. CASE UNCHANGED vars
  BY <1>22 DEF vars
<1>23. QED
  BY <1>1, <1>2, <1>3, <1>4, <1>5, <1>6, <1>7, <1>8, <1>9, <1>10, <1>11, <1>12, <1>13,
     <1>14, <1>15, <1>16, <1>17, <1>18, <1>19, <1>20, <1>21, <1>22 DEF Next, Locking,
     Work

(* No flip, sweep, clear or crash loses the row of a durable record. *)
LEMMA NotLostStep == ASSUME RecordAssumption, OneDialect, RecordInv, [Next]_vars PROVE AuditNotLost'
<1> USE DEF RecordAssumption, OneDialect, RecordInv, ServedInv, TypeOK, disk, ceremony,
   ghost, Threads, Records, Outcomes, Stages, Spend, Err, Go, AuditNotLost, MarkersOK,
   DiskOK, StagedOK, PhaseOK, CommitOK, LockOK, Held, Committing, CustodyAudited
<1>1. ASSUME NEW t \in Tokens, NEW x \in Contents, Stage(t, x) PROVE AuditNotLost'
  BY <1>1, ZenonT(60) DEF Stage, PassesValidation, ExactBaseline
<1>2. ASSUME NEW t \in Tokens, SweepStaged(t) PROVE AuditNotLost'
  BY <1>2, ZenonT(60) DEF SweepStaged
<1>3. ASSUME NEW c \in Callers, NEW t \in Tokens, Commit(c, t) PROVE AuditNotLost'
  BY <1>3, ZenonT(60) DEF Commit, PassesValidation
<1>4. ASSUME NEW c \in Callers, CommitAgain(c) PROVE AuditNotLost'
  BY <1>4, ZenonT(60) DEF CommitAgain, Live, Valid
<1>5. ASSUME NEW c \in Callers, CommitFresh(c) PROVE AuditNotLost'
  BY <1>5, ZenonT(60) DEF CommitFresh, SameBaseline, ExactBaseline, Live, Valid
<1>6. ASSUME NEW c \in Callers, CommitRefused(c) PROVE AuditNotLost'
  BY <1>6 DEF CommitRefused, Fail
<1>7. ASSUME NEW t \in Threads, Prove(t) PROVE AuditNotLost'
  <2>1. \A u \in Tokens : markMay'[u] \subseteq markMay[u]
    BY <1>7, ProveFacts
  <2>2. log' = log /\ rec' = rec
    BY <1>7, ProveFacts
  <2>3. CASE recMay' = recMay /\ UNCHANGED <<landed, lastDur, after>>
    BY <2>1, <2>2, <2>3
  <2>4. CASE recMay' = {rec} /\ Land(rec)
    <3>1. landed' = landed \cup {rec} /\ rec \in Tokens
      BY <1>7, <2>4, ProveFacts DEF Land
    <3>2. rec \in landed \/ markMay[rec] = {"intent"}
      BY <3>1
    <3>3. \A u \in landed : recMay = {u} => u = rec
      OBVIOUS
    <3>4. ASSUME NEW u \in landed', ~(log[u] > 0), NEW s \in markMay'[u]
          PROVE  s = "confirmed" \/ (s = "intent" /\ recMay' = {u})
      <4>1. CASE u \in landed
        <5>1. s \in markMay[u] /\ (recMay = {u} => recMay' = {u})
          BY <2>1, <2>4, <3>3, <3>4, <4>1
        <5>2. QED
          BY <3>4, <4>1, <5>1
      <4>2. CASE u \notin landed
        BY <2>1, <2>4, <3>1, <3>2, <3>4, <4>2
      <4>3. QED
        BY <4>1, <4>2
    <3>5. QED
      BY <2>2, <3>4
  <2>5. QED
    BY <1>7, <2>3, <2>4, ProveFacts
<1>8. ASSUME NEW t \in Threads, Confirm(t) PROVE AuditNotLost'
  <2>1. rec \in landed /\ UNCHANGED <<recMay, log, landed>>
    BY <1>8, ConfirmFacts
  <2>2. \A u \in Tokens : markMay'[u] \subseteq markMay[u] \cup {"confirmed"}
    <3>1. CASE mark' = mark /\ markMay' = markMay
      BY <3>1
    <3>2. CASE \E how \in Outcomes : PutMarker(rec, "confirmed", how)
      BY <2>1, <3>2, MarkerWrite
    <3>3. QED
      BY <1>8, <3>1, <3>2, ConfirmFacts
  <2>3. QED
    BY <2>1, <2>2, ZenonT(60)
<1>9. ASSUME NEW c \in Callers, WriteIntent(c) PROVE AuditNotLost'
  <2>1. tok[c] \in Tokens \ landed /\ UNCHANGED <<recMay, log, landed>>
    BY <1>9 DEF WriteIntent
  <2>2. \A u \in Tokens \ {tok[c]} : markMay'[u] \subseteq markMay[u]
    <3>1. CASE markMay' = markMay
      BY <3>1
    <3>2. CASE \E how \in Outcomes : PutMarker(tok[c], "intent", how)
      BY <2>1, <3>2, MarkerWrite
    <3>3. QED
      BY <1>9, <3>1, <3>2 DEF WriteIntent
  <2>3. ASSUME NEW u \in landed PROVE markMay'[u] \subseteq markMay[u]
    BY <2>1, <2>2
  <2>4. QED
    BY <2>1, <2>3
<1>10. ASSUME NEW c \in Callers, Flip(c) PROVE AuditNotLost'
  <2>1. /\ tok[c] \in Tokens /\ markMay[tok[c]] = {"intent"}
        /\ rec = NoRecord \/ log[rec] > 0 \/ markMay[rec] = {"confirmed"}
        /\ UNCHANGED <<markMay, log>>
    BY <1>10 DEF Flip
  <2>2. \A u \in landed : log[u] > 0 \/ \A s \in markMay[u] : s = "confirmed"
    <3>1. ASSUME NEW u \in landed, ~(log[u] > 0), NEW s \in markMay[u] PROVE s = "confirmed"
      <4>1. CASE recMay = {u}
        <5>1. rec = u
          BY <4>1
        <5>2. rec # NoRecord
          BY <5>1
        <5>3. QED
          BY <2>1, <3>1, <5>1, <5>2
      <4>2. CASE recMay # {u}
        BY <3>1, <4>2
      <4>3. QED
        BY <4>1, <4>2
    <3>2. QED
      BY <3>1
  <2>3. landed' = landed \/ (landed' = landed \cup {tok[c]} /\ recMay' = {tok[c]})
    BY <1>10, <2>1 DEF Flip, CommitRecord, Land
  <2>4. QED
    BY <2>1, <2>2, <2>3
<1>11. ASSUME NEW c \in Callers, Seal(c) PROVE AuditNotLost'
  <2>1. tok[c] \in Tokens /\ UNCHANGED <<recMay, log, landed>>
    BY <1>11 DEF Seal
  <2>2. PICK how \in Outcomes : PutMarker(tok[c], "confirmed", how)
    BY <1>11 DEF Seal
  <2>3. \A u \in Tokens : markMay'[u] \subseteq markMay[u] \cup {"confirmed"}
    BY <2>1, <2>2, MarkerWrite
  <2>4. QED
    BY <2>1, <2>3, ZenonT(60)
<1>12. CASE AdoptReads
  BY <1>12 DEF AdoptReads, Live, Valid
<1>13. CASE AdoptReadFails
  BY <1>13 DEF AdoptReadFails, Fail
<1>14. CASE Adopted
  <2>1. UNCHANGED <<recMay, log, landed>>
    BY <1>14 DEF Adopted
  <2>2. ASSUME NEW u \in landed, u \in SweptIntents PROVE log[u] > 0
    <3>1. u \in Tokens /\ mark[u] = "intent" /\ u # Live
      BY <2>2 DEF SweptIntents
    <3>2. CASE recMay = {u}
      <4>1. rec = u /\ content[u] \in catalog.parses
        BY <3>2, <3>1
      <4>2. QED
        BY <3>1, <4>1 DEF Live, Valid
    <3>3. CASE recMay # {u}
      <4>1. mark[u] \in markMay[u]
        BY <3>1
      <4>2. QED
        BY <3>1, <3>3, <4>1
    <3>4. QED
      BY <3>2, <3>3
  <2>3. \A u \in Tokens : u \notin SweptIntents => markMay'[u] = markMay[u]
    BY <1>14 DEF Adopted
  <2>4. QED
    BY <2>1, <2>2, <2>3
<1>15. CASE Tick
  BY <1>15 DEF Tick, Valid
<1>16. ASSUME NEW t \in Threads, Scan(t) PROVE AuditNotLost'
  BY <1>16 DEF Scan, Emittable
<1>17. ASSUME NEW t \in Threads, NEW u \in Tokens, Deliver(t, u) PROVE AuditNotLost'
  <2>1. \A v \in Tokens : log[v] > 0 => log'[v] > 0
    BY <1>17 DEF Deliver, RecordCustodyChange
  <2>2. UNCHANGED <<markMay, recMay, landed>>
    BY <1>17 DEF Deliver
  <2>3. QED
    BY <2>1, <2>2
<1>18. ASSUME NEW t \in Threads, Clear(t) PROVE AuditNotLost'
  <2>1. tok[t] \in Tokens /\ log[tok[t]] > 0 /\ UNCHANGED <<recMay, log, landed>>
    BY <1>18 DEF Clear
  <2>2. \A u \in Tokens \ {tok[t]} : markMay'[u] = markMay[u]
    BY <1>18 DEF Clear, PutMarker
  <2>3. QED
    BY <2>1, <2>2
<1>19. ASSUME NEW t \in Threads, Done(t) PROVE AuditNotLost'
  BY <1>19 DEF Done
<1>20. CASE Crash
  BY <1>20 DEF Crash, Boot
<1>21. CASE PowerLoss
  <2>1. /\ rec' \in recMay /\ recMay' = {rec'} /\ log' = log
        /\ \A u \in Tokens : markMay'[u] \subseteq markMay[u]
    BY <1>21 DEF PowerLoss, Boot
  <2>2. rec' \in landed \cup {NoRecord} \/ markMay[rec'] = {"intent"}
    BY <2>1
  <2>3. landed' \subseteq landed \cup {rec'}
    BY <1>21 DEF PowerLoss, Land
  <2>4. NoRecord \notin landed'
    BY <1>21, <2>3 DEF PowerLoss, Land
  <2>5. ASSUME NEW u \in landed', ~(log[u] > 0), NEW s \in markMay'[u]
        PROVE  s = "confirmed" \/ (s = "intent" /\ recMay' = {u})
    <3>1. CASE u \in landed
      <4>1. s \in markMay[u]
        BY <2>1, <2>5, <3>1
      <4>2. recMay = {u} => recMay' = {u}
        BY <2>1
      <4>3. QED
        BY <2>5, <3>1, <4>1, <4>2
    <3>2. CASE u \notin landed
      <4>1. u = rec' /\ u # NoRecord
        BY <2>3, <2>4, <2>5, <3>2
      <4>2. s \in markMay[u] /\ markMay[u] = {"intent"}
        BY <2>1, <2>2, <2>5, <3>2, <4>1
      <4>3. QED
        BY <2>1, <4>1, <4>2
    <3>3. QED
      BY <3>1, <3>2
  <2>6. QED
    BY <2>1, <2>5
<1>22. CASE UNCHANGED vars
  BY <1>22 DEF vars
<1>23. QED
  BY <1>1, <1>2, <1>3, <1>4, <1>5, <1>6, <1>7, <1>8, <1>9, <1>10, <1>11, <1>12, <1>13,
     <1>14, <1>15, <1>16, <1>17, <1>18, <1>19, <1>20, <1>21, <1>22 DEF Next, Locking,
     Work

-----------------------------------------------------------------------------
(* The initial states satisfy both invariants. *)
LEMMA InitInv == ASSUME RecordAssumption, Init PROVE RecordInv
<1> USE DEF RecordAssumption, Init
<1>1. TypeOK
  <2>1. /\ rec \in recMay /\ recMay \subseteq Records
        /\ mark \in [Tokens -> Stages] /\ markMay \in [Tokens -> SUBSET Stages]
        /\ \A t \in Tokens : mark[t] \in markMay[t]
    BY DEF Stages, Records
  <2>2. /\ staged \in [Tokens -> {"none", "staged", "gone"}]
        /\ content \in [Tokens -> Contents \cup {NoContent}]
        /\ catalog \in Catalogs /\ validated \in Contents \cup {NoContent}
        /\ log \in [Tokens -> 0..2] /\ mishaps \in 0..MaxMishaps
    OBVIOUS
  <2>3. lock \in Threads \cup {NoThread} /\ serving \in BOOLEAN /\ seen \in [Threads -> BOOLEAN]
    OBVIOUS
  <2>4. pc \in [Threads -> Places] /\ job \in [Threads -> Jobs]
    BY DEF Places, Jobs
  <2>5. tok \in [Threads -> Tokens \cup {NoToken}] /\ todo \in [Threads -> SUBSET Tokens]
    OBVIOUS
  <2>6. landed \subseteq Tokens /\ lastDur \in Records /\ after \in [Tokens -> Records]
    BY DEF Records
  <2>7. QED
    BY <2>1, <2>2, <2>3, <2>4, <2>5, <2>6 DEF TypeOK
<1>2. LockOK /\ CommitOK /\ ValidatedOK
  BY DEF LockOK, CommitOK, ValidatedOK, Held, Committing, Threads
<1>3. baseline \in [Tokens -> [of : Records, state : {"absent", "served", "unserved", "corrupt"}]]
  BY DEF Records
<1>4. StagedOK /\ DiskOK /\ ChainOK
  BY <1>3 DEF StagedOK, DiskOK, ChainOK
<1>5. MarkersOK /\ PhaseOK
  BY DEF MarkersOK, PhaseOK, Threads
<1>6. CustodyAudited
  BY DEF CustodyAudited, AuditTrue, AuditNotLost
<1>7. QED
  BY <1>1, <1>2, <1>4, <1>5, <1>6 DEF RecordInv, ServedInv

(* Every step keeps the first invariant, whatever dialects the builds read. *)
LEMMA ServedStep == ASSUME RecordAssumption, ServedInv, [Next]_vars PROVE ServedInv'
  BY TypeStep, LockStep, CommitStep, ValidatedStep DEF ServedInv

(* Builds of one dialect keep the second. *)
LEMMA RecordStep == ASSUME RecordAssumption, OneDialect, RecordInv, [Next]_vars PROVE RecordInv'
<1>1. ServedInv'
  BY ServedStep DEF RecordInv
<1>2. StagedOK' /\ DiskOK' /\ ChainOK' /\ MarkersOK' /\ PhaseOK'
  BY StagedStep, DiskStep, ChainStep, MarkersStep, PhaseStep
<1>3. CustodyAudited'
  BY TrueStep, NotLostStep DEF CustodyAudited
<1>4. QED
  BY <1>1, <1>2, <1>3 DEF RecordInv

(* The first invariant holds throughout. *)
THEOREM ServedInvariance == ASSUME RecordAssumption PROVE Spec => []ServedInv
<1>1. Init => ServedInv
  BY InitInv DEF RecordInv
<1>2. ServedInv /\ [Next]_vars => ServedInv'
  BY ServedStep
<1>3. QED
  BY <1>1, <1>2, PTL DEF Spec

(* The text a decision is made under is one this build validates, after    *)
(* any upgrades, retries, failed commits and crashes (sentence_record.rs   *)
(* current_authority, adopt, commit_attributed).                           *)
THEOREM ServedValid == ASSUME RecordAssumption PROVE Spec => []ServedIsValid
<1>1. ServedInv => ServedIsValid
  <2>1. SUFFICES ASSUME ServedInv, Serving PROVE content[rec] \in catalog.valid
    BY DEF ServedIsValid
  <2>2. content[rec] \in catalog.parses /\ content[rec] = validated
    BY <2>1 DEF Serving, Serves, Valid
  <2>3. validated # NoContent
    BY <2>1, <2>2 DEF ServedInv, TypeOK, RecordAssumption
  <2>4. QED
    BY <2>1, <2>2, <2>3 DEF ServedInv, ValidatedOK
<1>2. QED
  BY <1>1, ServedInvariance, PTL

(* The second invariant holds throughout, with builds of one dialect. *)
THEOREM RecordInvariance == ASSUME RecordAssumption, OneDialect PROVE Spec => []RecordInv
<1>1. Init => RecordInv
  BY InitInv
<1>2. RecordInv /\ [Next]_vars => RecordInv'
  BY RecordStep
<1>3. QED
  BY <1>1, <1>2, PTL DEF Spec

(* A custody row names a durable record and the one that was durable       *)
(* before it, and no durable record's row is lost, however ceremonies,     *)
(* housekeeping, failed writes, crashes and power losses interleave        *)
(* (sentence_record.rs commit_attributed, adopt,                           *)
(* reconcile_live_audit_marker, clear_audit_pending).                      *)
THEOREM CustodySound == ASSUME RecordAssumption, OneDialect PROVE Spec => []CustodyAudited
<1>1. RecordInv => CustodyAudited
  BY DEF RecordInv
<1>2. QED
  BY <1>1, RecordInvariance, PTL
=============================================================================
