------------------------------- MODULE Streams -------------------------------
(***************************************************************************)
(* The two planes an agent reaches the daemon by, side by side: the calls  *)
(* of an MCP bridge (part "calls") and git streams (part "git").  They     *)
(* share no state: one of them moves in a behaviour and the other stays as *)
(* it started.                                                             *)
(***************************************************************************)
EXTENDS McpBridge

CONSTANTS Pushes, Fetches, Casts, Commits, Descends, NoFile, MaxEnv, MaxRestarts

VARIABLES part, cast, upstream, mirror, hook, staging, exec, st, broker, rules, env, restarts

Git == INSTANCE GitPlane WITH up <- upstream

ASSUME StreamsAssumption == Git!GitAssumption

gitState == <<cast, upstream, mirror, hook, staging, exec, st, broker, rules, env, restarts>>

PartInit == part \in {"calls", "git"} /\ Init /\ Git!Init

CallsPart == part = "calls" /\ Next /\ UNCHANGED <<part, gitState>>
GitPart == part = "git" /\ Git!Next /\ UNCHANGED <<part, vars>>
PartNext == CallsPart \/ GitPart

PartSpec == PartInit /\ [][PartNext]_<<part, vars, gitState>>
-----------------------------------------------------------------------------
(* No ref lands in the mirror that the upstream did not take for that very *)
(* push: "the mirror ref advances iff upstream's did" (the update hook and *)
(* carry_to_upstream).                                                     *)
LandedWasCarried == Git!LandedWasCarried

(* The mirror follows the upstream, whoever shares it: a push whose update *)
(* hook ran lands only when the upstream took it, and a fetch is served    *)
(* what the upstream held at its refresh or later, or what a push landed   *)
(* since, on a HEAD that resolves where the upstream named one             *)
(* (authorize_fetch, refresh_from_upstream, align_mirror_head).            *)
MirrorHolds == Git!ConfirmedWasCarried /\ Git!ServedIsFresh
=============================================================================
