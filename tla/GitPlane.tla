------------------------------- MODULE GitPlane -------------------------------
(***************************************************************************)
(* The attested git stream plane: pushes and fetches of one repository     *)
(* through the daemon's bare mirror.                                       *)
(*                                                                         *)
(* Every stream has a handler thread of its own.  A push installs the      *)
(* mirror's update hook on that thread and hands the connection to         *)
(* receive-pack, whose hook asks the broker; the broker, one thread,       *)
(* decides and carries the ref to the upstream before the mirror's ref     *)
(* moves.  A fetch decides first, on the broker thread, and refreshes the  *)
(* mirror before upload-pack advertises anything.                          *)
(*                                                                         *)
(* One branch is modelled; commit 0 is git's null object id.  The hook is  *)
(* a file with a shared staging name: a file is named by the stream that   *)
(* created it, and is being written while some stream holds it open.       *)
(***************************************************************************)
EXTENDS Naturals, FiniteSets

CONSTANTS
    Pushes, Fetches,  \* the streams
    Casts,            \* sets of streams that connect in one behaviour
    Commits,          \* commit ids, 0 not among them
    Descends,         \* Descends[c]: the commits c has in its history, itself included
    NoFile,
    MaxEnv, MaxRestarts  \* bounds: moves of others and restarts, counted in env, restarts

VARIABLES
    cast,         \* the streams of this behaviour
    up,           \* the upstream's tip
    mirror,       \* [exists, tip, head]: head says whether HEAD names the branch
    hook, staging,\* the files at hooks/update and hooks/update.staging
    exec,         \* the files with their execute bit
    st,           \* per stream: stage and what it holds
    broker,       \* the stream the broker thread is serving, NoFile when idle
    rules,        \* verbs the standing rules allow on this repository
    env, restarts

gitVars == <<cast, up, mirror, hook, staging, exec, st, broker, rules, env, restarts>>

Streams == Pushes \cup Fetches

\* A stream pushes or fetches, and its name is a file's; who connects is a stream.
GitAssumption ==
    Pushes \cap Fetches = {} /\ NoFile \notin Streams /\ Casts \subseteq SUBSET Streams

NoMirror == [exists |-> FALSE, tip |-> 0, head |-> FALSE]
Tips == {0} \cup Commits

Init ==
    /\ cast \in Casts
    /\ up \in Commits
    /\ \/ mirror = NoMirror /\ hook = NoFile /\ exec = {}
       \/ /\ mirror \in [exists : {TRUE}, tip : Tips, head : BOOLEAN]
          /\ hook = "old" /\ exec = {"old"}
    /\ staging = NoFile
    /\ st = [s \in Streams |-> [stage |-> "absent"]]
    /\ broker = NoFile
    /\ rules \in SUBSET {"push", "fetch"}
    /\ env \in 0 .. MaxEnv /\ restarts \in 0 .. MaxRestarts

Step(s, r) == st' = [st EXCEPT ![s] = r]
At(s, stage) == s \in cast /\ st[s].stage = stage
Move(s, stage) == Step(s, [st[s] EXCEPT !.stage = stage])

-----------------------------------------------------------------------------
(* Connecting *)

\* A push is admitted by uid, its request parsed and its session opened; the
\* decision comes later, from the update hook.
ConnectPush(s, new) ==
    /\ s \in Pushes /\ At(s, "absent")
    /\ Step(s, [stage |-> "install", new |-> new, old |-> 0, file |-> NoFile,
                hooked |-> FALSE, carried |-> FALSE])
    /\ UNCHANGED <<cast, up, mirror, hook, staging, exec, broker, rules, env, restarts>>

\* A uid that is not admitted, a malformed request line or repository, or a session
\* that does not open: the stream ends in git's own error packet.
RefuseStream(s) ==
    /\ At(s, "absent") /\ Step(s, [stage |-> "refused"])
    /\ UNCHANGED <<cast, up, mirror, hook, staging, exec, broker, rules, env, restarts>>

\* A fetch asks the broker before anything exists for it; an unruled repository
\* never gets a mirror.
AuthorizeFetch(s) ==
    /\ s \in Fetches /\ At(s, "absent") /\ broker = NoFile
    /\ \/ /\ "fetch" \in rules
          /\ Step(s, [stage |-> "install", file |-> NoFile, held |-> {}, since |-> {},
                      named |-> FALSE, tip |-> 0, head |-> FALSE])
          /\ broker' = s
       \/ "fetch" \notin rules /\ Step(s, [stage |-> "refused"]) /\ UNCHANGED broker
    /\ UNCHANGED <<cast, up, mirror, hook, staging, exec, rules, env, restarts>>

-----------------------------------------------------------------------------
(* ensure_mirror and install_update_hook, step by step *)

\* A new mirror's HEAD names git's compiled default, which is not the branch.
EnsureMirror == IF mirror.exists THEN mirror ELSE [NoMirror EXCEPT !.exists = TRUE]

\* The staging file is opened for writing, and truncated if it was there.
StageHook(s) ==
    LET f == IF staging # NoFile THEN staging ELSE s IN
    /\ At(s, "install")
    /\ mirror' = EnsureMirror
    /\ staging' = f
    /\ Step(s, [st[s] EXCEPT !.stage = "writing", !.file = f])
    /\ UNCHANGED <<cast, up, hook, exec, broker, rules, env, restarts>>

CloseStaged(s) ==
    /\ At(s, "writing") /\ Move(s, "written")
    /\ UNCHANGED <<cast, up, mirror, hook, staging, exec, broker, rules, env, restarts>>

\* A failed install ends the stream, and the broker's turn when it was its.
InstallFails(s) ==
    /\ Step(s, [stage |-> "refused"])
    /\ broker' = IF broker = s THEN NoFile ELSE broker

ChmodStaged(s) ==
    /\ At(s, "written")
    /\ \/ staging = NoFile /\ InstallFails(s) /\ UNCHANGED exec
       \/ staging # NoFile /\ exec' = exec \cup {staging} /\ Move(s, "executable") /\ UNCHANGED broker
    /\ UNCHANGED <<cast, up, mirror, hook, staging, rules, env, restarts>>

RenameStaged(s) ==
    /\ At(s, "executable")
    /\ \/ staging = NoFile /\ InstallFails(s) /\ UNCHANGED <<hook, staging>>
       \/ staging # NoFile /\ hook' = staging /\ staging' = NoFile /\ Move(s, "ready") /\ UNCHANGED broker
    /\ UNCHANGED <<cast, up, mirror, exec, rules, env, restarts>>

-----------------------------------------------------------------------------
(* The push *)

\* receive-pack advertises the mirror's tip; the stream's token goes live with it.
SpawnReceivePack(s) ==
    /\ s \in Pushes /\ At(s, "ready")
    /\ Step(s, [st[s] EXCEPT !.stage = "pushing", !.old = mirror.tip])
    /\ UNCHANGED <<cast, up, mirror, hook, staging, exec, broker, rules, env, restarts>>

BeingWritten(f) == \E s \in Streams : st[s].stage = "writing" /\ st[s].file = f

\* git runs the update hook: a file without its execute bit is ignored, one that is
\* open for writing cannot be executed.
RunHook(s) ==
    /\ At(s, "pushing")
    /\ \/ (hook = NoFile \/ hook \notin exec) /\ Move(s, "landing")
       \/ hook \in exec /\ BeingWritten(hook) /\ Move(s, "failed")
       \/ hook \in exec /\ ~BeingWritten(hook) /\ Step(s, [st[s] EXCEPT !.stage = "asking", !.hooked = TRUE])
    /\ UNCHANGED <<cast, up, mirror, hook, staging, exec, broker, rules, env, restarts>>

\* The upstream's own rule: a deletion of a branch it has, or a fast-forward.
UpstreamAccepts(new) == IF new = 0 THEN up # 0 ELSE up = 0 \/ up \in Descends[new]

\* One hermetic git run under its deadline: it succeeds, fails, or is killed after
\* the upstream already took what it sent.
HopOutcomes == {"ok", "failed", "killed"}

\* While a refreshed fetch waits: what the upstream came to hold, and the pushes that
\* landed in the mirror (auxiliary).
Held(r, tip) == IF r.stage = "refreshed" THEN [r EXCEPT !.held = @ \cup {tip}] ELSE r
Since(r, push) == IF r.stage = "refreshed" THEN [r EXCEPT !.since = @ \cup {push}] ELSE r

CarryToUpstream(s, outcome) ==
    /\ outcome \in HopOutcomes
    /\ outcome # "failed" => UpstreamAccepts(st[s].new)
    /\ up' = IF outcome = "failed" THEN up ELSE st[s].new
    /\ st' = [t \in Streams |->
                 IF t # s THEN Held(st[t], up')
                 ELSE [st[s] EXCEPT !.stage = IF outcome = "ok" THEN "landing" ELSE "failed",
                                    !.carried = outcome # "failed"]]

\* Defect: the hook is answered from the decision, before the hop is known to have succeeded.
AuthorizeRefUpdate_ConfirmsFirst(s) ==
    /\ At(s, "asking") /\ broker = NoFile
    /\ \/ "push" \in rules /\ Move(s, "landing") /\ UNCHANGED up
       \/ "push" \notin rules /\ Move(s, "failed") /\ UNCHANGED up
    /\ UNCHANGED <<cast, mirror, hook, staging, exec, broker, rules, env, restarts>>

\* The broker decides the ref update and carries it in one turn; only a hop that
\* succeeded lets the hook confirm.
AuthorizeRefUpdate(s) ==
    /\ At(s, "asking") /\ broker = NoFile
    /\ \/ "push" \in rules /\ \E outcome \in HopOutcomes : CarryToUpstream(s, outcome)
       \/ "push" \notin rules /\ Move(s, "failed") /\ UNCHANGED up
    /\ UNCHANGED <<cast, mirror, hook, staging, exec, broker, rules, env, restarts>>

\* receive-pack's ref transaction, from the value it advertised.
Land(s) ==
    /\ At(s, "landing")
    /\ \/ /\ mirror.tip = st[s].old
          /\ mirror' = [mirror EXCEPT !.tip = st[s].new]
          /\ st' = [t \in Streams |->
                      IF t = s THEN [st[s] EXCEPT !.stage = "landed"] ELSE Since(st[t], s)]
       \/ mirror.tip # st[s].old /\ Move(s, "failed") /\ UNCHANGED mirror
    /\ UNCHANGED <<cast, up, hook, staging, exec, broker, rules, env, restarts>>

-----------------------------------------------------------------------------
(* The fetch *)

\* HEAD is repaired only when it names nothing the mirror has, and only by copying: an
\* upstream whose own HEAD is missing or names no branch the mirror has leaves it dangling.
AlignHead(m, named) == [m EXCEPT !.head = @ \/ (m.tip # 0 /\ named)]

\* The credentialed hop backwards: the mirror's branches become the upstream's and HEAD
\* is aligned with what the upstream's HEAD names, or the stream is refused; a command
\* that fails after the fetch leaves the refs it moved.
Refresh(s) ==
    /\ s \in Fetches /\ At(s, "ready")
    /\ \E named \in BOOLEAN :
        /\ named => up # 0
        /\ \/ /\ mirror' = AlignHead([mirror EXCEPT !.tip = up], named)
              /\ Step(s, [st[s] EXCEPT !.stage = "refreshed", !.held = {up}, !.named = named])
           \/ /\ mirror' \in {mirror, AlignHead([mirror EXCEPT !.tip = up], named)}
              /\ Step(s, [stage |-> "refused"])
    /\ broker' = NoFile
    /\ UNCHANGED <<cast, up, hook, staging, exec, rules, env, restarts>>

SpawnUploadPack(s) ==
    /\ At(s, "refreshed")
    /\ Step(s, [st[s] EXCEPT !.stage = "served", !.tip = mirror.tip, !.head = mirror.head /\ mirror.tip # 0])
    /\ UNCHANGED <<cast, up, mirror, hook, staging, exec, broker, rules, env, restarts>>

-----------------------------------------------------------------------------
(* Everyone else *)

\* Somebody moves the branch at the upstream, or the operator changes the rules.
Outside ==
    /\ env < MaxEnv /\ env' = env + 1
    /\ \/ /\ up' \in Tips \ {up}
          /\ st' = [s \in Streams |-> Held(st[s], up')]
          /\ UNCHANGED rules
       \/ rules' \in (SUBSET {"push", "fetch"}) \ {rules} /\ UNCHANGED <<up, st>>
    /\ UNCHANGED <<cast, mirror, hook, staging, exec, broker, restarts>>

\* The daemon restarts and takes its streams with it; the aging sweep of its start
\* may drop the mirror.
Restart ==
    /\ restarts < MaxRestarts /\ restarts' = restarts + 1
    /\ st' = [s \in Streams |->
                IF st[s].stage \in {"absent", "landed", "served"} THEN st[s] ELSE [stage |-> "gone"]]
    /\ broker' = NoFile
    /\ \/ UNCHANGED <<mirror, hook, staging>>
       \/ mirror.exists /\ mirror' = NoMirror /\ hook' = NoFile /\ staging' = NoFile
    /\ UNCHANGED <<cast, up, exec, rules, env>>

Next ==
    \/ \E s \in Streams :
        \/ \E new \in Tips : ConnectPush(s, new)
        \/ RefuseStream(s) \/ AuthorizeFetch(s) \/ StageHook(s) \/ CloseStaged(s) \/ ChmodStaged(s) \/ RenameStaged(s)
        \/ SpawnReceivePack(s) \/ RunHook(s) \/ AuthorizeRefUpdate(s) \/ Land(s)
        \/ Refresh(s) \/ SpawnUploadPack(s)
    \/ Outside \/ Restart

Spec == Init /\ [][Next]_gitVars

-----------------------------------------------------------------------------
(* Properties *)

\* carry_to_upstream: "the mirror ref advances iff upstream's did".  No ref lands in
\* the mirror that the upstream did not take for that very push.
LandedWasCarried ==
    \A s \in Pushes : st[s].stage = "landed" => st[s].carried

\* The part of it that holds whoever else installs the hook: a push whose update hook ran
\* lands only when the upstream took it ("the hook confirms only on upstream success").
ConfirmedWasCarried ==
    \A s \in Pushes : st[s].stage = "landed" /\ st[s].hooked => st[s].carried

\* authorize_fetch: "the only path to served refs is a refresh that just succeeded".
\* A fetch is served a tip the upstream held at its refresh or between it and the
\* advertisement, unless a push landed that very tip in the mirror in between: the
\* upstream may have taken the push, and moved on, before the refresh.  And where the
\* upstream's HEAD named the branch, the branch served can be checked out.
ServedIsFresh ==
    \A s \in Fetches : st[s].stage = "served" =>
        /\ \/ st[s].tip \in st[s].held
           \/ \E p \in st[s].since \cap Pushes : st[p].stage = "landed" /\ st[p].new = st[s].tip
        /\ st[s].named /\ st[s].tip # 0 => st[s].head

=============================================================================
