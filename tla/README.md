# A verification development for Cermet

Cermet is a daemon, `cermetd`, that stands between software agents and the
services they act on. An agent asks for an *effect* through an MCP bridge or a
git remote. The daemon decides the request against a corpus of *sentences*
(rules a human committed), mints a single-use *grant*, executes it once with a
credential from its vault and records what happened in a hash-chained audit log.
A human operator changes the corpus through ceremonies, engages a lockdown, and
installs and updates the daemon.

This directory holds TLA+ modules that model the parts of Cermet where order,
failure, concurrency or case analysis decide correctness, TLC configurations that
check them, and TLAPS proofs of the central ones. Source paths below are relative
to `src/crates/`.

## 1. The system

| Part | State it keeps | Operations | What makes it correct |
|---|---|---|---|
| Grant execution (`cermet-core/src/broker/{execute,lifecycle,mint,mod}.rs`) | grant rows (SQLite), audit log | mint, claim, effect, settle; lease, mint and boot sweeps; cutover | one effect per grant; nothing settled before its record; refunds only where nothing happened |
| Aggregate budgets (`core/src/budget.rs`, `broker/budget.rs`) | mint/release events in the log | decide, debit, void, sweep | never over the ceiling; no reservation stranded; a retry is charged once |
| Request pipeline for money (`core/src/{money,evidence,preconditions,mutation_success}.rs`, `broker/mint.rs`, `provider/`) | evidence, grants, retry lineage | request, approve, execute, retry | decided on current evidence; one effect and one debit per lineage; the reported disposition is true |
| Templates and providers (`core/src/{templates,provider}.rs`) | registry of loaded templates | validate, load, drive steps | only approved values steer a request; no mutation without its preconditions; "nothing happened" is true |
| Sentence language (`cermet-lang/src`, `cli/src/rule_cli.rs`) | a corpus and a build's catalogue | compile, evaluate, preflight, suggest, allow, revoke, refresh | order does not matter; a deny wins; a build never reads more into a corpus than was approved; caps meter what they say |
| Update barrier (`broker/quiesce.rs`, `daemon/src/quiesce_store.rs`) | barrier in memory and on disk | begin, status, release, expire, reinstate | a standing barrier survives; an ended one never returns; *Quiescent* stays true |
| Relay sessions (`core/src/relay.rs`, `broker/relay.rs`, `daemon/src/relay.rs`) | live sessions, hops in flight | open, decide, stream, close, sweep, fold the receipt | one effect per session; polls read what the session created; the receipt is honest |
| Lockdown latch (`daemon/src/{lockdown,owner}.rs`) | record, intents, in-memory latch | engage, clear, replay, prune, boot | an acknowledged engage holds; the audit neither invents nor loses |
| Sentence record (`daemon/src/{sentence_record,sentence_custody}.rs`) | record, staged corpora, audit intents | stage, commit, adopt, validate, sweep, replay | what is served is valid; the custody log is true |
| Document store (`cli/src/document_store.rs`) | CERMET.md and temporary files | read, create, replace | no torn read; a clean report is true; no clobbering |
| Authority ceremonies (`cli/src/{reconciliation,sentence_ctl,rule_cli}.rs`, `daemon/src/ctl.rs`, `core/src/presets.rs`) | a command's locals, calls in flight, profile table | apply, profile apply, allow, revoke, export, check, fix, init | reports are true; one change lands once, on what was reviewed; no draft is lost |
| Presence (`cermet-ctl-client/src/{presence,pam_presence}.rs`) | a PAM conversation, the terminal's echo | confirm | only a person opens the gate; absence is not refusal |
| Audit chain (`core/src/audit.rs`) | rows, hash chain | append, verify, read evidence | a grant has its mint in the log; a broken chain is never evidence |
| Broker actor and agent socket (`cermet-broker-actor`, `daemon/src/serve`) | one thread, bounded mailbox, connections, sessions | accept, preflight, execute, sweep, panic | serial; bounded; a late frame does nothing its reader did not ask |
| MCP bridge (`cli/src/mcp_bridge`) | shared session, background runs, response sink | call, replay, poll, cancel, shut down | every call ends; no blind second execution; *retryable* is true |
| Git plane (`core/src/{git,gitref,gitplane}.rs`, `core/src/gitplane/hook.rs`) | bare mirror, update hook | push, fetch, refresh, carry | the mirror advances only when the upstream did; a fetch is fresh |
| Setup, cutover, update (`cli/src/{setup,update}.rs`, `daemon/src/{master_key,entry}.rs`) | binaries, units, config, key, vault, lock | install, resume, reset, stage, activate | no key beside a vault another key seals; what runs is what was verified |
| Host lock, receipts log, views, configuration | none of their own | check, format, read | not modelled |

How they interact:

- Everything the broker does runs on one actor thread. The two databases (grant
  rows and audit log) are written one statement at a time, so a crash or a
  failed write can fall between any two of them.
- An agent's frame takes two turns of the actor's mailbox: the session preflight
  and the command itself. A client that gave up leaves its frame to run to its end.
- The sentence record is read by the broker when it decides a request and twice
  around a claim; the lockdown latch is read before a claim and before egress.
- A relay execution opens a session on the actor thread; its hops then stream on
  worker threads and come back as further calls. A push runs `receive-pack` in a
  handler thread, whose hook asks the actor in turn.
- One 30-second tick submits every sweep.
- Operator commands are separate processes. They call the daemon over
  `ctl.sock` with a deadline, and a call that timed out goes on running.
- Setup, reset and update are privileged processes that share files, a lock and
  the service manager with the running daemon.

What is hard to test, and what the properties aim at, is in `PROJECT.json`
under `hazards`, each at its line.

## 2. Modules

Definitions named `D_...` or `..._Something` directly in front of a definition
are seeded faults: TLC must find the named property violated when one of them
takes the definition's place. They are no part of the specifications.

The modules model data by what the properties tell apart: a rule, a commit, a
key or a build is a model value or a small number, a document is a set of rules,
a string is a set of placeholders. A property is stated in the module of its
component; where a run checks several facts of one component, its MC module
conjoins them under one name.

### Grants and budgets: `GrantExecution`, `AggregateBudget`, `ReservedEffects`

`GrantExecution` is the core, `AggregateBudget` holds the pure budget decision it
uses and `ReservedEffects` is the abstract promise it implements.
`GrantInvariant` states the inductive invariant; `GrantExecutionProofs` holds the
proofs.

`status`, `expiry`, `lease`, `frozen` are the columns of a grant row, `log` the
audit events that are read back, `pc`/`cur` the step of the call the broker
thread runs, `pass`/`todo` the sweep that is running, `now` the wall clock,
`version` and `locked` the authority and the latch, and `effects` counts what
the provider did. One action is one durable write or one read whose result is
used later, so a crash (`Crash`) or a failed write (`Fault`) falls between any
two. Boot runs its passes in the code's order before it serves.

Left out: rows nothing reads back (refusals, policy decisions), the requests
table, artifacts. `provider_action_succeeded` and `_failed` are one event with
the `mutation_invoked` fact. Every authority commit is a fresh version. A sweep
decides id by id, as the code does.

### Money: `MoneyProvider`, `MoneyRetry`

`MoneyProvider` holds the compiled knowledge of each verb: what its evidence
profile reads and freezes, which preconditions are checked again at execution,
which answers prove or refute the effect. `MoneyRetry` takes a request through
evidence, canonicalization, decision, debit and row, and its execution through
claim, preconditions, `capability_effect_starting`, the provider and the
terminal; a retry names a parent grant and walks its lineage. The clock, the
authority, the credential, the installed templates and the provider's object
move between any two writes, and a crash may end the process at any of them. The
provider honours an idempotency key, may answer from its edge without looking at
the key, and may act without its answer arriving.

### Templates: `ActionTemplate`, `TemplateExecution`, `TemplatePool`

`ActionTemplate` is the validator: every rule a document has to pass, in order.
`TemplateExecution` loads a document that passes and drives a frozen resource
through its steps. A value is its provenance, so the properties can say where a
credentialed URL, a body field or a result came from. `TemplatePool` holds the
documents of the instance: eight bases, and every pair of single edits of one;
whatever the validator lets through is executed, so the properties also judge
the validator. The pool is for TLC only; the proofs are about every document.

### Rules: `SentenceLanguage`, `RuleCorpus`

`SentenceLanguage` has the matching of conjuncts, coverage, verdicts, hints,
preflight and discovery as operators, with the reference definitions the
properties compare them with. `RuleCorpus` is the life of a corpus:
`prepare_sentence_authority`, the rule commands, a request and the suggestion its
refusal carries, and an update that ships another set catalogue under the stored
corpus. Left out: the lexer and the renderer, the open contract of the mock
provider, discovery composed of several shapes, product availability.

### Daemon records: `QuiesceBarrier`, `LockdownLatch`, `SentenceRecord`, `AuditChain`, `Custody`

*QuiesceBarrier*: the barrier in memory and the record file, cut at each system
call of the store (temporary file, fsync, rename, directory fsync, unlink), claims
and executions, kills and power losses. SHA-256 is injective, so a token names its
record. Not modelled: the integrity class, a malformed record at boot. The clock
does not go back. A repeated fsync is taken at face value.

*LockdownLatch*: the record, the intents with their confirmation, the in-memory
latch with its pending-engage counter, the mutex, the housekeeping replay. A
critical section is cut wherever a write may fail. An intent and its record share
the occurrence's target. Not modelled: `ensure_dir_durable`, mutex poisoning, the
limit on pending intents, the uid-0 gate (assumed).

*SentenceRecord*: stage, commit with its compare-and-set, boot adoption,
validation, custody audit. A record is named by the token that committed it.
`Catalogs` are the builds a restart may bring: what each parses and validates. Not
modelled: the clock-rollback refusal, the projection file.

*AuditChain*: rows chained by a perfect HMAC, appended at either level of
`synchronous`, beside the grant rows of the other database; a power loss takes
unsynced rows, and a row may be rewritten or removed from outside.

*Custody* puts the four side by side with general constants; a variable `part`
says which of them moves.

The proofs about the latch and the record are in `LockdownLatchProofs` and
`SentenceRecordProofs`; `CustodyProofs` has those about the barrier and the audit
chain and carries all of them over to `Custody`.

### Relay: `RelaySession`, `RelayReceipt`

A session's budget, single effect and captured names, and each hop from decision
to close: the head is answered and the row is written by different tasks, in either
order, and a worker whose client does not read waits in `blocking_send`. A request is its shape, whether it binds,
the name it captures and its size. That a 4xx means no effect is taken from
`observe_status`. `RelayReceipt` adds the rows the hops leave in the log, in the
order in which they end, and the fold that `cermet log` shows. `RelayProofs` has
the proofs about both.

### Operator: `DocumentStore`, `AuthorityCeremony`, `Presence`

*DocumentStore*: CERMET.md as a name that leads to an inode with bytes, mode and
change time. The writer is cut at every system call; an editor may write in place,
rename a new file into place, remove, chmod, or put something under the temporary
name. Change times are counted per inode (a file system with coarse timestamps is
weaker than this), inode numbers are not reused, the editor never syncs.

*AuthorityCeremony*: several operator commands against one daemon and one
document; a *world* says which commands run together and how often an editor
saves, the daemon restarts and a staged corpus is swept meanwhile. Each call to
the daemon and each access to the document is a step; each `CommitSentences` call
has a handler that goes on when the client has given up. A corpus is a set of
rules, a generation is named by the ceremony that committed it. Record operations
are single steps here (`SentenceRecord` cuts them), and so is a document
replacement (`DocumentStore` cuts it). One flag stands for `--recover`,
`--replace-live` and `--replace-draft`.

*Presence*: the PAM conversation with its batches of prompts, the terminal's echo,
the handle and the answers it frees; the macOS dialog, which may answer after its
call gave up. The PAM stack is arbitrary.

### Agent: `BrokerMailbox`, `McpBridge`

`BrokerMailbox` is the daemon's side: admission slots, one handler per connection,
two turns per frame, the actor that holds everybody while a provider call runs,
the session table and its idle sweep. `McpBridge` extends it with the bridge: a
worker per call, single-flight refresh of the shared session, the registry of
background runs with their pool, one response sink and the phases of shutdown. A
grant is only ready, running, done, denied or abandoned here. A client's deadline
may pass at any time after its frame was written. `StreamsProofs` has the
proofs about the two together.

### Git: `GitPlane`

One branch of one mirror; per stream a thread, one broker, the update hook as a
file with a shared staging name, the carry to the upstream, the refresh of a
fetch. A file that is open for writing cannot be executed and one without its
execute bit is ignored, as git and the kernel have it; the upstream's HEAD may name
the branch or not; a refresh may fail before or after its fetch moved refs. Left out:
tags and other refs, changed-path rendering, the diff in a receipt, garbage
collection.

### Host: `Install`, `Update`

`Install` is setup on Linux with its custody rungs, reset and resumption, the
cutover of the service and the boot that reads what setup left. `Update` extends
it with staging, verification, the privileged half and both channels (tarball and
package). On the tarball channel the write of the verified bytes, their unpacking and
the digest of the binary found are three steps, and that digest is the one that
crosses `sudo`. Every durable change is a step; between two of them the process may
fail or be killed, the machine may reboot, an operator may start the service by
hand and the staged file may change.

### Compositions: `Custody`, `Streams`, `Pipeline`, `Documents`

Four modules put components that share no state side by side, with general
constants, and state the properties of the runs and of the theorems: `Custody` the
daemon's records, `Streams` the bridge and the git plane, `Pipeline` rules,
templates, money and the host, `Documents` the ceremonies, the document store and
the presence gate. A variable `part` is chosen at the start, the component it names
moves and the others keep their initial state, so a run explores the sum of the
components' state spaces, never their product, and a property of one component is
the same in it as in a run of its own.

### MC modules

`MCGrantExecution`, `MCRelaySession`, `MCQuiesceBarrier` and `MCAuthorityCeremony`
give the constants of one component their values. `MCCustody`,
`MCStreams`, `MCRequests` (for `Pipeline`) and `MCDocuments` do so for the
compositions, `MCCustody` with the fairness of its parts. `MCProgress` puts grants
and bridge side by side for the liveness runs.

## 3. Runs

All of them finish within five minutes with two workers. `MaxMishaps`,
`MaxFaults`, `MaxTouches`, `MaxEnv`, `MaxCrashes` and the numbers in a world bound
how often something goes wrong; `MaxTime`, `MaxNow`, `CallHorizon`, `Horizon` bound
the clock; `MaxRows`, `MaxGrants`, `MaxRules`, `MaxEdits` and the like the data.

| Run | Instance | Shows |
|---|---|---|
| `grant` | 2 grants for 1 unit of budget and an older row with a debit; 1 authority commit, lockdown, 1 crash or write fault | no unrecorded effect, a true `mutation_invoked: false`, budgets that hold, no effect under another authority than the frozen one, an engaged latch stops egress, no older grant claimable once the daemon serves, refinement of `ReservedEffects` |
| `progress` | 2 calls of a bridge, 1 mishap; 1 grant, 2 mishaps, a clock that may go back | every call ends; every lease settles and no reservation is stranded |
| `custody` | barrier: 2 tokens, 2 grants (1 relay), 2 mishaps; latch: 2 owners, 2 transitions, 1 mishap; record: 1 operator, 2 tokens, 2 texts, builds that validate different texts, 1 mishap; audit: 5 rows, 2 faults | durability and stability of the barrier, no claim under it; a gate never more open than what is durable; a served text this build validates; outboxes that neither invent nor lose; a log that is evidence |
| `custody_liveness` | the same with 1 grant, 1 owner, 1 text, 1 mishap | claims are never wedged; every durable transition is eventually audited |
| `relay` | 2 sessions for 1 slot, 2 hops, 1 mishap | one effect, release of a refused one, own polls, a receipt that claims no effect there was not, closed hops |
| `documents` | 9 pairs of commands in worlds with retries, restarts, sweeps, an editor and failing syncs; 2 writers of CERMET.md against an editor's act or a failed call, 1 writer against both; 2 calls of the presence gate | reports are true; a commit lands on what was reviewed; no draft and no edit is lost in silence; clean publications are durable; only a person opens the gate |
| `streams` | 2 execute calls, 1 grant with 2 mishaps or 2 grants with 1; 2 pushes, or a push and a fetch, with a restart and one move of the upstream or the rules; 2 pushes and a fetch of an up-to-date mirror with neither | one effect per request under an open session; *retryable* was never claimed; a push whose hook ran landed only when the upstream took it; a fetch is fresh |
| `requests` | corpora of up to 2 of 21 rules over 4 sets and 5 verbs, 3 edits, 2 catalogues; 8 templates and 2 edits each; 3 money verbs and a deployment, 3 grants, 1 act of the environment, 1 crash (of refunds); setup and update with 2 releases, 2 keys, 1 mishap | verdicts, advice and caps; what is sent is what was approved; one landed effect, counted once; keys and binaries |
| `quiesce_relay`, `ceremony_unsaved`, `money_failed`, `git_hook` | see section 4 | each finds its violation |

The properties of `requests` in a line each: the verdict does not depend on the
order of rules (`VerdictIgnoresOrder`); preflight, discovery and the suggested rule
agree with the evaluator where every covering rule resolves (`AdviceIsTrue`); a cap meters one account, mode and
currency with one counter (`CapsHold`); no build reads more into a corpus than was
approved (`AuthorityNeverGrows`); only approved values steer a credentialed URL,
every approved field is on the wire and no secret returns (`ApprovedIsSent`); no
mutation without its preconditions, and "nothing happened" is true of the last step
(`EffectIsGuarded`); a money effect lands once and is counted (`LandedOnce`); its
disposition is true (`DispositionTrue`); no key beside a vault of another
(`KeyNeverOrphansVault`); the daemon runs the published build, which is the verified
one but for two named windows of the tarball channel (`RunsWhatWasVerified`).

Why the bounds are enough: two is the least number of contenders for a grant, a
budget, a record, a slot, a mailbox or a document at which every race shows, and
one or two mishaps put a failure, and a failure during the recovery from it, at
every step. Git's race needs three installs, which `git_hook` and `streams` have. A
crash of the daemon concerns the money verbs alike, so it is explored for the refund,
whose approval admits the most retries, and the other verbs run without. The time constants are the smallest with
which a lease, a mint, a window and a barrier each lapse while something is still
in flight. The retry loop of the ceremonies has three rounds in the code and at
most one here: a second attempt is the first that can meet a late handler, and
further ones repeat it. Two rules are the least with which order, a deny over an
allow and overlapping caps show; a money lineage of three grants has a parent, a
retry and a retry of the retry. Two edits of a template reach every pair of
validator rules that has to hold together. Deadlock checking is off where
commands end or the bounded clock stops.

In the record and the latch an unsynced write does not need a second mishap to
show its consequences: the variables named `...May` hold every state a power
loss could leave, and the invariants quantify over them.

## 4. Findings

Four runs are expected to fail; each shows a behaviour of the code that a comment
or a document rules out. `PROJECT.json` quotes the lines.

- `quiesce_relay`: *Quiescent* is reported while a relay session is open.
- `ceremony_unsaved`: a profile apply checks that the *name* is stored, so an
  older body under it hides a failed store.
- `money_failed`: an attempt whose outcome is unknown landed; its retry under the
  same key is refused at the provider's edge, and the effect is reported
  `definitely_failed`.
- `git_hook`: the installs of the update hook share one staging name. Two of them
  chmod one staged file and the first renames it into place; a third creates the
  staging file anew, without its execute bit, and the second renames that one into
  place. git ignores such a hook: the push that runs then lands its ref in the mirror
  with no decision and nothing carried upstream.

### Narrower windows

These are visible in the same modules and have no run of their own. Where a
property would be violated by one, it is stated so that it does not cover it.

Grants and records

- A clock set back after the mint sweep leaves a grant executable whose debit was
  released. `progress` lets the clock go back; `grant` does not, and
  `ImplementsPromise` is checked and proved only for a clock that does not.
- After two failed directory syncs the latch's `mark_audit_delivered`
  (`lockdown.rs:280`) prunes the evidence of the durable transition for a record
  that is only visible. The gate fails closed: a clear whose evidence is gone is
  adopted as engaged, and `LatchSound` proves it for any number of mishaps.
- A record whose directory sync failed is served when its text equals the text
  validated before it.
- A commit becomes durable, the daemon dies before it confirms the intent, and the
  next boot is of a build that cannot parse the record. `adopt` then takes the
  record as corrupt, and `sweep_orphan_intents` without a live record
  (`sentence_record.rs:1305`) removes the intent: the custody row of a record that
  is live again under the old build is lost, although `sentence_record.rs:409` says
  that "a flipped generation's audit can never be permanently dropped". TLC finds
  it in 13 states with one crash once two builds parse different texts.
  `CustodyAudited` is therefore checked and proved for builds of one dialect
  (`OneDialect`: all parse the same texts, and may differ in what they validate);
  `ServedIsValid` is proved for any builds.
- `AuditLog::verify` does not see a tail that was cut off, and `budget_ledger_rows`
  reads rows without verifying the chain.

Operator commands

- A save that renames a new file into place between the recheck and the rename of
  a document replacement is overwritten without being reported.
- A flip whose directory sync failed is visible, so the client's poll finds its
  own occurrence and reports a commit that a power loss may still take back;
  `OutcomeTrue` and `ReviewedIsReplaced` leave such worlds out.
- A command that ends early or fails may print a state that never was:
  an export composes the document and the status it read first
  (`reconciliation.rs:556`), and a failure after a commit the status the
  reconciliation ended with beside the document as it is now (`:1591`), and nothing
  compares the two moments. Such a report is `unchecked` in the model, and
  `ReportedStateHeld` is about final reports. (A failure before the commit looks at
  both sides again through `run_status`; the model does not follow that look.)
- A profile apply reads `old_live` (`reconciliation.rs:1166`) before it stages and
  not again, so its review may name an earlier generation than the one it replaces.
- In a batch of PAM prompts an answered echo-off prompt is counted although a later
  failed read of the same batch frees all answers before PAM sees them; a stack
  that then accepts is taken as confirmed. A process killed while it reads leaves
  the terminal's echo off.

Agent path (`mcp_bridge/server.rs`)

- The bridge's shutdown says that nothing new starts, but an asynchronous execute
  consults only the run pool's phase.
- A request whose run was evicted from the full registry may be started again; the
  daemon's single-use grant is what then prevents a second effect.
- Between publishing a refreshed session and releasing the refresh, a waiter may
  read a discarded session as a failed one. A run that meets another build's Hello
  is recorded final though nothing was claimed. A run thread that panics leaves its
  record running.

Requests

- Discovery and preflight are described as "complete for the flat predicate grammar"
  (`sentence.rs:511-516`), but an allow rule with a literal of the wrong kind, or over
  a stale set, makes the projection fail as a whole: the answer is no although another
  rule admits a completion. `PreflightExact` therefore claims that a yes has a
  completion, and the converse where every covering rule resolves. A deny rule whose
  conjunct does not match is recorded as the reason and suppresses the hint that no
  rule allows the verb. Two rules that an update made stale cannot be revoked one at a
  time.
- A template that mutates before its last step may report that nothing happened
  although an earlier mutation landed. `stripe.fixture_dispute_charge_create` creates
  a charge and then discovers its dispute: a discovery that finds none is
  `precondition_failed` (`core/provider.rs:1618, 1879-1927`), and so is a later hop that
  cannot connect (`lang/types.rs:119`). `NoEffectIsTrue` is about every template, and
  says that its last step sent no mutation.
- An approved retry that is never executed becomes the newest node of its lineage,
  has no evidence and closes it. A retry that cannot connect is told that the
  effect did not occur, which is true of the attempt and not of the lineage.
- The evidence reader accepts an explicit null account that the preconditions deny.

Git

- A hop killed at its deadline after the upstream took the ref is reported as
  refused, with the mirror unchanged. A deletion is carried without a lease. A push
  into a fresh mirror, between an empty refresh and `upload-pack`, serves a branch
  with a dangling HEAD, and so does an upstream whose own HEAD names no branch it has.
  A push the upstream took may land in the mirror after a refresh that saw the upstream
  move on, and is then served. `usable` remembers a transient failure of `git --version`.

Relay receipts

- A create still in flight when the window lapses reads `expired_unused`. Hop rows
  are in the order of completion, so a superseded 400 recorded after the landed
  create makes the receipt report `provider_input_refused`, although `audit.rs:944-947`
  says that a landed hop clears the class its superseded attempt left. `ReceiptHonest`
  therefore claims nothing of a receipt that does not say `ok`, except after a
  recorded mismatch.
- A client that holds its connection and never reads keeps the worker in
  `blocking_send` (`daemon/relay.rs:186`, a queue of four), where no deadline is looked
  at: the hop has no row until it reads or goes away. `HopsAreClosed` exempts it.

Host

- A reset does not clear the declared custody profile, and after an interrupted
  reset `existing_rung` trusts the stale declaration. A killed exclusive write
  leaves a temporary file no reset removes, after which `refuse_fresh_key_over_state`
  refuses. A daemon started by hand between cutover and publication stays on the old
  build until the next restart. On a tarball box the verified bytes wait in a directory
  the invoking account may write: a change before the unpacked binary is hashed
  (`update.rs:1216-1250`) is published under its own digest, as is one after the
  privileged half's hash (documented in the code). `InstalledIsVerified` names both
  intervals (`early`, `late`) and rules out every other.

## 5. Fairness

The runs `grant`, `custody`, `documents`, `streams` and `requests` check safety and
use none.

- Calls (`progress`): a worker, a run thread, the client's side of a wire call (its
  deadline included), a connection's handler and the actor each go on when they
  can: weak fairness of each, as threads of the OS are scheduled. Nothing is
  assumed of the agent or of the provider's answer beyond its deadline.
- Grants (`progress`): the thread runs a call it took to its end (weak); the
  mailbox is first-in first-out and the tick keeps submitting, so a sweep is served
  (strong); time passes (strong only because the bound `CallHorizon` makes the clock
  wait for a call).
- Barrier (`custody_liveness`): steps of a call, a restart by the supervisor and
  time are weakly fair; the expiry pass is strongly fair for the reason above.
- Lockdown and sentences (`custody_liveness`): a thread that holds the lock goes on
  (weak), a thread that waits gets it (strong: the OS mutex does not starve a waiter
  for ever), mishaps are finitely many.
- Relay (`relay`): the head task, the sweep and time are weakly fair. A hop's worker
  and its closer are strongly fair: the worker meets its deadline and its cap after every
  chunk it got rid of (`next_chunk`), so a client that reads in fits and starts stalls it
  finitely often. Nothing is assumed of the client: it need not read on (`Drain` is not
  fair), and nothing of the upstream's answer.

## 6. Proofs

Every theorem holds for all values of the constants that satisfy the named
assumption of its module: any number of grants, owners, tokens, hops, calls, runs
and connections, and any number of mishaps. None of the safety properties is
inductive. For each component the proof states the invariant that is, with one
lemma per conjunct that goes through the actions, and derives the properties from
it. TLC checked each invariant on the run's instance before it was proved.

### Grants: `GrantExecutionProofs`

Assumed: `GrantsAssumption`, `NumbersAssumption`, `LegacyLogAssumption` (an
older log holds at most one debit per older grant), `MaxI64Assumption`.
`DebitSound` and `KeepsPromise` also assume that the clock does not go back, and
need it: see the first window of section 4.

`Inv` adds what the properties silently rely on:

- `Rows` and `Facts`: what a status says about lease, effects and log (an
  `executed` row has a terminal event; `mutation_invoked: false` means zero
  effects). Without it the boot repair, which reads only the log, could not be
  shown to leave the row right.
- `Ledger`: one debit per grant, before its row, released only when no effect
  happened and none can (`Closed`).
- `Thread`: what each step of a call may still rely on, although sweeps ran and
  the authority moved since it began.
- `Passes`: what a sweep knows of an id it selected earlier.

`TypeCorrect` is proved first, `Invariance` combines the lemmas, and the properties
follow. `KeepsPromise` maps reservations and effects to `ReservedEffects`: initial
states map to initial states, every step to a step or a stutter.

### Update barrier: `CustodyProofs`

Assumed: `BarrierAssumption`. `Inv` (`BarrierInvariance`) relates three things
that move at different system calls: the barrier in memory, the record file, and
`settled`, every state of it that a power loss may leave.

- `CallOK`, `ReleaseOK`: what the operation on the actor thread holds at each of
  its steps; a release is of a lapsed barrier, or of the one its holder is ending.
- `FileOK`: the file between the system calls of a write or an unlink.
- `PhaseOK`: what a holder was told, against what the broker is doing.
- `QuiescedOK`: a holder that was told *Quiescent* still has its barrier in memory
  and on every disk, and no lease is open, until the barrier lapses or it ends it.
  *Quiescent* alone is not inductive: a restart reinstates what the disk holds.

`BarrierSound` is `BarrierHolds`: a standing barrier is durable, an ended one never
returns, *Quiescent* stays true. `BarrierEnforced` is the action property
`NoClaimUnderBarrier`.

### Lockdown latch: `LockdownLatchProofs`

Assumed: `LatchAssumption`. `LatchInv` quantifies over every state a power loss may
leave. Its centre is `RecordOK` (a record that a power loss may still undo has its
bare intent beside it, so the reconcile will prove it again before anything is built
on it) with `PhaseOK` (which steps of a transition have that behind them). `LockOK`
says who holds the mutex and that a writer finds the gate engaged, `BoxOK` and
`DeliveryOK` that what is confirmed or delivered was durable. `LatchSound` is
`LatchHolds`: the gate is open only over a durable, confirmed clear (`OpenOK`), an
engage holds from the moment its owner waits for it (`PromiseOK`), and the audit
neither invents nor loses a durable transition.

### Sentence record: `SentenceRecordProofs`

Assumed: `RecordAssumption`. `ServedInv` needs only that what a ceremony commits was
validated by the build that runs (`CommitOK`): the builds may be any, and
`ServedValid` is `ServedIsValid`. `RecordInv` adds the disk: the last durable record
and at most one visible over it, which has its bare intent and names the other as
predecessor (`DiskOK`); a chain of durable records that no commit closes
(`ChainOK`); the outgoing record proven durable, and its row secured, before the next
intent is written (`PhaseOK`). `CustodySound`, `CustodyAudited`, also assumes
`OneDialect`. The hypothesis is needed: section 4 has the counterexample.

### Audit chain and daemon records together: `CustodyProofs`

The chain is proved without an assumption. A hash is the sequence of events it
covers, so `Top` of a hash is the event it was made for and `Base` the hash it was
chained to. Genuineness and verification are different facts about a table, and
neither follows from the other in one step. `ChainInv` (`ChainInvariance`) has what
connects them, whatever was cut off, rewritten or taken out:

- `HashesOK`: no hash was made twice, and each for an event the broker recorded.
- `MadeOK`: a row's hash was made for an event and a link the broker recorded; of the
  event it now carries only the identifier is unchanged, or lost.
- `PlacesOK`: a row that is still there stands right before the one chained to it, and
  a row whose stored link was rewritten has lost the row it was chained to.
- `MintsOK`: the mint of a grant is on the disk, or what is on the disk shows that a
  row was taken out (`Backed`).

`ChainSound` derives that the chain verifies exactly when every row is genuine and in
its place, and `LogInPlace` is `LogIsEvidence`.

A behaviour of `Custody` is a behaviour of the latch, of the record and of the log
(`ImplementsLatch`, `ImplementsRecord`, `ImplementsAudit`), as the parts share no
state. `LatchInPlace`, `ServedInPlace`, `CustodyInPlace` and `LogInPlace` then hold of
the specification that the run `custody` explores.

### Relay: `RelayProofs`

Assumed: `RelayAssumption`. `SessionInv` (`SessionInvariance`): `EffectsOK` says
that of two hops of a session that may have performed its effect one was given back,
and that the effect is unspent only when all of them were; `HopsOK` what a hop's
stage says of its answer and of what landed; `CapturedOK` that a captured name is
of the session's own effect. From it `EffectSpentOnceHolds` and `PollsBound`.

`LogImplementsSessions` is the refinement: the sessions with the log implement the
sessions without it, so everything above holds of them too. `TrailInvariance` says
what the rows recorded so far imply of the hops that ended. `ReceiptsHonest`
concludes what a receipt may be relied on for, in whatever order the hops ended: `ok`
is of a performed effect, a recorded mismatch reads burned, and class and state agree.
The first row with a property is found with the least-number principle of
`WellFoundedInduction`.

### Agent: `StreamsProofs`

Assumed: `MailboxAssumption`, `BridgeAssumption`. `BridgeInv` spans both processes:

- `WireOK`: a call asks and never executes, a run only executes.
- `OwnOK`: a thread that waits, waits on the connection that carries its own frame;
  nobody else answers into it or frees it.
- `FrameOK`: a run has at most one Execute in the daemon and a request at most one
  mint, those that their client gave up on included.
- `MintOK`: a mint never reaches a grant that was claimed.
- `EffectOK`: the actor is inside the claim it made, and a grant with an effect is
  not claimable.
- `RunOK`: a run that has not sent its frame, or was told that the session had
  expired or that no daemon answered, has claimed nothing and has no frame that could.

`RetryableSound` is `RetryableIsUnclaimed`. `OneEffect` is `OneEffectPerRequest`:
at most one effect, and its action part, that a claim is made in the turn that found
the session open (`ClaimInTurn`).

### Git plane: `StreamsProofs`

Assumed: `GitAssumption`, and nothing of the number of streams. `MirrorInv` says what
a mirror and its HEAD are, `FreshInv` what a refreshed fetch has seen of the upstream
and of the mirror while others move both (`held`, `since`), `CarriedInv` that a push
past its hook was carried. `FetchFresh` is `ServedIsFresh`, `MirrorSound` is
`MirrorHolds`. That every push that lands was carried, `LandedWasCarried`, is false:
`git_hook`.

### Host: `PipelineProofs`

Assumed: `InstallAssumption`. `KeyInv`: no key file beside a sealed key, no vault
outside the state directory, and neither while a key file waits for its link.
`SourceInv` and `DaemonInv`: what an update holds at each step between download and
publication, whether the staged file changed early, late or in between, and what a
setup may leave running. `KeySafe` and `VerifiedRuns` follow.

### Money: `PipelineProofs`

Assumed: `MoneyAssumption`. `MoneyInv` is about a lineage of any length: every attempt
but the newest is over and none of them is final (`SettledInv`), all carry one key and
one effect (`LineInv`), a retry in progress names an attempt in doubt (`AskInv`), a key
has landed only after its owner's adapter was announced (`LandInv`). `EffectLandsOnce`
and `DispositionSound` follow. The code walks up a lineage until an attempt stops it;
the model takes the nearest such attempt (`Nearest`), whose existence the proofs get
from the least-number principle.

### Templates: `PipelineProofs`

No assumption: the theorems quantify over every document, not over the pool. `Ratified`
says that what is loaded passed the validator; `Driven`, `Carried`, `Steered` and
`SecretsKnown` what a run has sent and holds at each step. `EffectsGuarded` and
`ApprovalIsSent` follow by going through the rules of the validator, so every rule the
properties need is one the model has. Two did not hold at first, and both were gaps of
the model, now closed: a query literal needs `scope: account`, and a captured value in
a query is one of the single prior mutation; a relay path carries only the names its
binds pin.

### Rules: `PipelineProofs`

Assumed: `RulesAssumption` (a rule has one of two effects, a selector of one of two
kinds, and conjuncts that name a field) and `ContractsAssumption`. Catalogues,
contracts, the pool of rules, the requests and the length of a corpus are arbitrary.
`EvaluateIs` says what the scan of a corpus comes to, whatever its order: the verb is
known, no rule refuses and some rule admits, and the first that admits is named.
`CorpusInv`: the standing corpus passed `prepare_sentence_authority` under the catalogue
of the build it was committed under, and an allow in force is what it answers now.
`HintInv`: a suggestion not yet adopted is the one this corpus gives.

- `OrderIgnored`: the conditions of `EvaluateIs` range over places, and a one-to-one
  reordering of finitely many places reaches each of them.
- `NoAuthorityAdded`: only the resolution of a set selector depends on the build, and
  under the build that was approved every set resolves. A set the installed build
  forgot covers nothing for an allow and refuses for a deny. The proof needs `covers`
  to compare the provider as `selector_may_cover` does; the model's `Covers` did not,
  and now does.
- `CapsAreMet`: `MoneyPinned` gives one exact value per field, and `Unshadowed` lets
  only an identical rule stand before a metered one that covers the same verb.
- `HintsAreHonest`: `HintIsHonest`, the half of `AdviceIsTrue` about suggestions.

### Ceremonies, document store, presence: `DocumentsProofs`

Assumed: `CeremonyAssumption`, `StoreAssumption`, `GateAssumption`.

- Ceremonies: `RecordInv` (the record is a generation nobody has replaced, and a corpus
  is staged on it or on one that was), `CallInv` (what a handler that outlives its
  client may still do), `ReviewInv` (what a corpus may still replace is what its
  operator was shown), `ReportInv`, `DraftInv`. What they say of the record is about the
  worlds without an unsynced rename, as the properties are. `ReportsAreTrue`,
  `ReviewSound`, and the ceremonies' half of `EditsKept`.
- Store: `HistoryInv` keeps every state of an inode under its change time, and `SeenOK`
  says which of them a writer has read at each system call, so that an unchanged change
  time means unchanged bytes. `CleanReportsHold` and the rest of `EditsKept` are action
  properties.
- Presence: `GateCallInv` (who holds the handle, the echo and the answers) and
  `VerdictInv`. `PersonConfirms`.

### Only model-checked

- `BudgetHolds`: `NoOverspend` bounds a sum over the log. That needs induction over
  data with an operator as a parameter, which no installed prover instantiates; the
  least-number principle for a fixed set is available, and is not enough for a sum.
- `AdviceIsTrue`, for its half `PreflightExact`: what symbolic discovery leaves of a
  region is a fold over the denies, which is induction over data again; and that every
  shape it calls possible has a completion is a statement about a set of requests rich
  enough to hold one, which the instance has and an arbitrary constant need not.
- The windows of the four violation runs, which are not properties of the code.
- All liveness (`CallsEnd`, `GrantsSettle`, `NeverWedged`, `EventuallyAudited`,
  `HopsAreClosed`), which is out of the prover's reach, as `ENABLED` is.

## 7. Plan

Done: the modules above and the proofs of section 6, which cover every safety property
of the runs but the two listed. What would come next: those two, once a prover that
instantiates operator parameters is at hand; the barrier against relay sessions, once
the code closes the window of `quiesce_relay`; a build of more than one dialect, once
`sweep_orphan_intents` keeps the intent of a record it cannot parse.

### Not modelled

- Host lock: one `flock` and single guards on what the kernel reports; that one
  daemon runs per state directory is assumed.
- Rendering, argument parsing, wire codecs, the lexer: conversions without state of
  their own. Where a protocol depends on their failure, the failure is a step.
- Setup on macOS: the same steps over launchd instead of systemd. The registration
  of the bridge with clients, the update notice, the journal and cutover reports
  write files the modelled parts do not read back.
- The vault's sealing and the HMAC are taken as correct; the life of the key and the
  chain's rows are modelled.
- Receipt log, read-only views, diagnostics, configuration and broker construction:
  they read. The order of the boot passes is part of `GrantExecution`,
  `QuiesceBarrier` and `LockdownLatch`.
- The mock provider's open contract, tags and other refs, composed discovery,
  product availability: data that no property here tells apart.
