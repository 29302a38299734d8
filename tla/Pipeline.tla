------------------------------ MODULE Pipeline ------------------------------
(***************************************************************************)
(* What a request goes through and the host it runs on, side by side: the  *)
(* standing rules and their verdicts (part "rules"), the templates a grant *)
(* executes (part "template"), the lineage of a money effect (part         *)
(* "money"), and installing and updating (part "install").  They share no  *)
(* state here: one of them moves in a behaviour and the others stay as     *)
(* they started.                                                           *)
(***************************************************************************)
EXTENDS RuleCorpus

CONSTANTS
    Parts,                                            \* the parts that may move
    Attempts, Bases, Edits(_), MaxAuthored,           \* templates
    Verbs, Worlds, Amounts, Fingerprints, Aggregate,  \* money effects
    EvidenceTTL, GrantTTL, LeaseTTL, MaxFresh, MaxGrants, MaxNow, MaxEnv, MaxCrashes,
    Releases, Altered, None, MaxKeys, MaxMishaps      \* the host

VARIABLES
    part,
    doc, authored, ceiling, loaded, present, at, polls, caps, sent, passed, tolerated,
    scrub, result,
    verb, world, ledger, now, gen, fp, template, grants, mint, used, req, run, env, crashes,
    bin, alias, pkg, staged, units, accounts, conf, state, file, sealed, vault, minted,
    daemon, lock, s, bystander, mishaps, u, copy, early, late

Action == INSTANCE TemplateExecution WITH MaxEdits <- MaxAuthored, edits <- authored
Money == INSTANCE MoneyRetry WITH build <- template
Host == INSTANCE Update

ASSUME PipelineAssumption == Money!MoneyAssumption /\ Host!InstallAssumption

actionState == <<doc, authored, ceiling, loaded, present, at, polls, caps, sent, passed,
                 tolerated, scrub, result>>
moneyState == <<verb, world, ledger, now, gen, fp, template, grants, mint, used, req, run,
                env, crashes>>
hostState == <<bin, alias, pkg, staged, units, accounts, conf, state, file, sealed, vault,
               minted, daemon, lock, s, bystander, mishaps, u, copy, early, late>>
partVars == <<part, vars, actionState, moneyState, hostState>>

PartInit == part \in Parts /\ Init /\ Action!Init /\ Money!Init /\ Host!UpdateInit

RulesPart == part = "rules" /\ Next /\ UNCHANGED <<part, actionState, moneyState, hostState>>
ActionPart == part = "template" /\ Action!Next /\ UNCHANGED <<part, vars, moneyState, hostState>>
MoneyPart == part = "money" /\ Money!Next /\ UNCHANGED <<part, vars, actionState, hostState>>
HostPart == part = "install" /\ Host!UpdateNext /\ UNCHANGED <<part, vars, actionState, moneyState>>
PartNext == RulesPart \/ ActionPart \/ MoneyPart \/ HostPart

PartSpec == PartInit /\ [][PartNext]_partVars
-----------------------------------------------------------------------------
(* What an agent is told before it spends a credential is true: the        *)
(* preflight and the catalogue answer yes only for what a completion of    *)
(* the request would be admitted for, and for all of that while every rule *)
(* that may cover the action resolves; and the rule suggested to the       *)
(* operator after a refusal loosens nothing the request did not speak to   *)
(* (preflight, action_is_discoverable, suggest).                           *)
AdviceIsTrue == part = "rules" => PreflightExact /\ HintIsHonest

(* No build reads more authority into a stored corpus than the operator    *)
(* approved under the catalogue of the time (compile_rules, evaluate).     *)
AuthorityNeverGrows == part = "rules" => NeverMoreThanApproved

(* A cap means what it says: requests one rule admits pay from one         *)
(* account in one mode and currency, and overlapping metered rules drain   *)
(* one counter (validate_money_pins, evaluate).                            *)
CapsHold == part = "rules" => MoneyStaysPut /\ MeteredByOneCounter

(* What the approval pinned is what is sent: it alone steers the URL of a  *)
(* credentialed request, every approved field took effect when success is  *)
(* reported, and no submitted secret comes back (validate_template,        *)
(* execute_steps, scrub).                                                  *)
ApprovedIsSent ==
    part = "template" =>
        Action!ApprovalSteersUrl /\ Action!ApprovedReachesWire /\ Action!SecretsStayOut

(* No mutation leaves before its preconditions have been read and held,    *)
(* and "nothing happened" is never said once the last step's mutation was  *)
(* sent.  Of a mutation in an earlier step it may be said, against the     *)
(* comment in the code (execute_steps).                                    *)
EffectIsGuarded == part = "template" => Action!EffectIsGuarded /\ Action!NoEffectIsTrue

(* One approved effect is performed and counted once, across retries,      *)
(* crashes, restarts and rule edits (resolve_retry, mint).                 *)
LandedOnce == part = "money" => Money!LandedOnce /\ Money!LandedIsCounted

(* Of a money effect the status surfaces tell the truth and its lineage    *)
(* stays sound: what is shown as succeeded landed, what is shown as not    *)
(* started did not, every terminal authenticates, and a settled effect is  *)
(* never tried again (verified_logical_money_effect_outcome).              *)
DispositionTrue ==
    part = "money" => Money!DispositionTrue /\ Money!TerminalsAuthenticate /\ Money!FinalIsLast

(* docs/FIELDS.md says of `definitely_failed`: "The effect did not land,   *)
(* and that is known."                                                     *)
FailedDidNotLand == part = "money" => Money!FailedDidNotLand

(* No interrupted, repeated or reset setup leaves a key beside a vault     *)
(* that another key encrypts (refuse_fresh_key_over_state).                *)
KeyNeverOrphansVault == Host!KeyNeverOrphansVault

(* What a completed setup runs is what it published, and what it published *)
(* is what the release's checksum named, or on a tarball box what the      *)
(* staging directory held in one of two windows and never what was put     *)
(* there while the sudo prompt waited (ServiceCutover, install_tarball,    *)
(* run_apply).                                                             *)
RunsWhatWasVerified == Host!DaemonOnPublishedBuild /\ Host!InstalledIsVerified
=============================================================================
