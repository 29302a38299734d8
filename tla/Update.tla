-------------------------------- MODULE Update --------------------------------
(***************************************************************************)
(* `cermet update`: what the release publishes is compared with what runs, *)
(* downloaded, verified, staged in a directory of the invoking account and *)
(* handed across sudo to a privileged half, which publishes it through     *)
(* setup (a tarball box) or through dpkg, whose postinst runs setup (a     *)
(* packaged box).  A digest of contents is the contents.                   *)
(***************************************************************************)
EXTENDS Install

VARIABLES
    u,      \* the update command
    copy,   \* the privileged half's own copy of a staged package
    early,  \* a staged tarball or its binary changed before its digest was taken
    late    \* the staged binary changed after the privileged half hashed it

updateVars == <<vars, u, copy, early, late>>

NoUpdate == [pc |-> "idle", channel |-> None, digest |-> None, kept |-> FALSE]

UpdateTypeOK ==
    /\ TypeOK
    /\ u \in [pc : {"idle", "download", "unpack", "measure", "elevate", "handed",
                    "hash", "copied", "dpkg", "setup"},
              channel : {"deb", "tarball", None}, digest : Binaries \cup {None},
              kept : BOOLEAN]
    /\ copy \in Binaries \cup {None} /\ early \in BOOLEAN /\ late \in BOOLEAN

\* Which artifact this box may be offered: none when a copy at the packaged
\* path is owned by no package, since setup would prefer it over the update.
ClassifyChannel(packaged, owned) ==
    IF ~packaged THEN "tarball" ELSE IF owned THEN "deb" ELSE None

\* Equality, not ordering: a release other than the running build is
\* installable when it names an artifact for this target and channel.
PlanOf(current, release, named) ==
    IF release = current THEN "up_to_date"
    ELSE IF named THEN "available" ELSE "no_artifact"

\* The staging directory goes with the handle unless it was kept.
EndUpdate ==
    /\ u' = NoUpdate
    /\ staged' = IF u.kept THEN staged ELSE None
    /\ copy' = None

UpdateOnly == UNCHANGED <<bin, alias, pkg, units, accounts, conf, keyVars,
                          daemon, lock, s, bystander, mishaps, early, late>>

\* The release document, the channel, the plan and the artifact's checksum
\* are all settled before a byte is downloaded; anything else ends here.  The
\* release is compared with the build that runs the command, which need not
\* be the published one.
StartUpdate ==
    /\ u.pc = "idle" /\ staged = None
    /\ \E exe \in Releases, release \in Releases, owned \in BOOLEAN, named \in BOOLEAN :
         LET channel == ClassifyChannel(pkg # None, owned) IN
           /\ channel # None
           /\ PlanOf(exe, release, named) = "available"
           /\ u' = [NoUpdate EXCEPT !.pc = "download", !.channel = channel,
                                    !.digest = release]
    /\ UNCHANGED <<staged, copy>> /\ UpdateOnly

\* A truncated and a swapped download are the same fact: refused.
VerifyBytes(got, expected) == got = expected

\* The verified bytes are written into the staging directory.  A package
\* waits there as it is, and its published checksum crosses sudo.
Download ==
    /\ u.pc = "download"
    /\ \E got \in Binaries :
         IF VerifyBytes(got, u.digest)
         THEN /\ u' = [u EXCEPT !.pc = IF u.channel = "deb" THEN "elevate" ELSE "unpack"]
              /\ staged' = got
              /\ UNCHANGED copy
         ELSE EndUpdate
    /\ UpdateOnly

\* tar reads the tarball back from the staging directory; what it holds by
\* then is the binary it unpacks to, or nothing that has the payload's shape.
Unpack ==
    /\ u.pc = "unpack"
    /\ \/ u' = [u EXCEPT !.pc = "measure"] /\ UNCHANGED <<staged, copy>>
       \/ EndUpdate
    /\ UpdateOnly

\* The digest that crosses sudo is that of the binary found there, which the
\* release publishes no checksum of.
Measure ==
    /\ u.pc = "measure"
    /\ u' = [u EXCEPT !.pc = "elevate", !.digest = staged]
    /\ UNCHANGED <<staged, copy>> /\ UpdateOnly

\* Without a terminal the command is handed back and the download kept.
Elevate ==
    /\ u.pc = "elevate"
    /\ \E terminal \in BOOLEAN :
         u' = [u EXCEPT !.pc = IF terminal THEN "hash" ELSE "handed", !.kept = ~terminal]
    /\ UNCHANGED <<staged, copy>> /\ UpdateOnly

RunHandedCommand ==
    /\ u.pc = "handed"
    /\ u' = [u EXCEPT !.pc = "hash"]
    /\ UNCHANGED <<staged, copy>> /\ UpdateOnly

\* Defect: the verification before the sudo prompt is trusted.
ApplyTarball_TrustsStaging ==
    /\ u.pc = "hash" /\ u.channel = "tarball" /\ s.pc = "idle"
    /\ Begin("staged", staged, FALSE)
    /\ u' = [u EXCEPT !.pc = "setup"]
    /\ UNCHANGED <<staged, copy, bin, alias, pkg, units, accounts, conf, keyVars,
                   daemon, lock, bystander, mishaps, early, late>>

\* The privileged half re-hashes its own file, then converges from its path.
ApplyTarball ==
    /\ u.pc = "hash" /\ u.channel = "tarball" /\ s.pc = "idle"
    /\ IF staged = u.digest
       THEN /\ Begin("staged", staged, FALSE)
            /\ u' = [u EXCEPT !.pc = "setup"]
            /\ UNCHANGED <<staged, copy>>
       ELSE EndUpdate /\ UNCHANGED s
    /\ UNCHANGED <<bin, alias, pkg, units, accounts, conf, keyVars, daemon,
                   lock, bystander, mishaps, early, late>>

\* Root copies the package out of reach, hashes the copy, installs the copy.
ApplyDeb ==
    /\ u.pc = "hash" /\ u.channel = "deb"
    /\ copy' = staged
    /\ u' = [u EXCEPT !.pc = "copied"]
    /\ UNCHANGED staged /\ UpdateOnly

HashCopy ==
    /\ u.pc = "copied"
    /\ IF copy = u.digest THEN u' = [u EXCEPT !.pc = "dpkg"] /\ UNCHANGED <<staged, copy>>
       ELSE EndUpdate
    /\ UpdateOnly

\* dpkg replaces the packaged copy and its postinst runs setup.
RunDpkg ==
    /\ u.pc = "dpkg" /\ s.pc = "idle"
    /\ pkg' = copy
    /\ Begin("package", copy, FALSE)
    /\ u' = [u EXCEPT !.pc = "setup"]
    /\ UNCHANGED <<staged, copy, bin, alias, units, accounts, conf, keyVars,
                   daemon, lock, bystander, mishaps, early, late>>

DpkgRefuses ==
    /\ u.pc = "dpkg"
    /\ EndUpdate
    /\ UpdateOnly

ReportUpdate ==
    /\ u.pc = "setup" /\ s.pc = "idle"
    /\ EndUpdate
    /\ UpdateOnly

\* The staging directory belongs to the invoking account, whose other
\* processes may rewrite the staged file at any time.
StagedFileChanges ==
    /\ staged \notin {None, Altered} /\ Mishap
    /\ staged' = Altered
    /\ early' = (early \/ u.pc \in {"unpack", "measure"})
    /\ late' = (late \/ (u.pc = "setup" /\ u.channel = "tarball"))
    /\ UNCHANGED <<bin, alias, pkg, units, accounts, conf, keyVars, daemon,
                   lock, s, bystander, u, copy>>

UpdateInit == Init /\ u = NoUpdate /\ copy = None /\ early = FALSE /\ late = FALSE

UpdateCommand ==
    \/ StartUpdate \/ Download \/ Unpack \/ Measure \/ Elevate \/ RunHandedCommand
    \/ ApplyTarball \/ ApplyDeb \/ HashCopy \/ RunDpkg \/ DpkgRefuses \/ ReportUpdate

UpdateNext ==
    \/ UpdateCommand
    \/ StagedFileChanges
    \/ (RunSetup \/ Setup \/ Environment) /\ UNCHANGED <<u, copy, early, late>>

UpdateSpec == UpdateInit /\ [][UpdateNext]_updateVars

\* When a setup completes, the daemon that runs executes the published build,
\* unless that daemon was started by hand while a setup was running, or
\* the source changed between the cutover's look at it and its publication
\* (ServiceCutover: a running daemon does not outlive its own publication).
DaemonOnPublishedBuild ==
    (s.outcome = "done" /\ daemon # None /\ ~bystander /\ ~late) => daemon = bin

\* What lands is what the release's checksum named, although the file waits
\* in a directory other processes write while a human decides: always on a
\* packaged box.  On a tarball box no change made while the sudo prompt waits
\* is published; two windows stay open, before the unpacked binary's digest is
\* taken and after the privileged half's own hash, and only a change in one of
\* them is (install_tarball, run_apply, run_apply_deb).
InstalledIsVerified ==
    /\ pkg # Altered
    /\ bin = Altered => early \/ late
=============================================================================
