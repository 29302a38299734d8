------------------------------- MODULE Install -------------------------------
(***************************************************************************)
(* `cermet setup` on Linux: one privileged process that converges the      *)
(* published binary, the service, the configuration and the vault key of a *)
(* box, and the daemon's boot that later reads what setup left behind.     *)
(*                                                                         *)
(* Files are the state.  A step of setup is one durable change (a rename,  *)
(* a hard link, an unlink); between two steps setup may be killed, may     *)
(* fail with an error, the machine may reboot, and an operator may start   *)
(* the service by hand.  File contents are builds and keys, never bytes.   *)
(***************************************************************************)
EXTENDS Naturals, FiniteSets

CONSTANTS
    Releases,    \* the builds a release may publish
    Altered,     \* contents no release published
    None,        \* no build, no key, no rung
    MaxKeys,     \* bound: keys minted in one behaviour
    MaxMishaps   \* bound: kills, errors, reboots and hand starts

VARIABLES
    bin, alias,    \* /usr/local/bin/cermet and its role aliases
    pkg,           \* /usr/bin/cermet, the package's copy
    staged,        \* the binary or package an update staged
    units,         \* unit files, sudoers rule, PAM service and tmpfiles rule
    accounts,      \* the service and agent accounts
    conf,          \* /etc/cermetd/config.toml: present, uids, custody_profile
    state,         \* entries of /var/lib/cermetd other than master.key
    file, sealed,  \* master.key and the sealed blob in the credential store
    vault,         \* the key vault.db was created under
    minted,        \* the number of keys minted so far
    daemon,        \* the build the running daemon executes
    lock,          \* /run/cermetd.install.lock
    s,             \* the setup process
    bystander,     \* the running daemon was started by hand during a setup
    mishaps

InstallAssumption ==
    /\ MaxKeys \in Nat /\ MaxMishaps \in Nat
    /\ None \notin Releases \cup {Altered} /\ Altered \notin Releases

hostVars == <<bin, alias, pkg, staged, units, accounts, conf>>
keyVars == <<state, file, sealed, vault, minted>>
vars == <<hostVars, keyVars, daemon, lock, s, bystander, mishaps>>

Binaries == Releases \cup {Altered}
SealedRungs == {"systemd-tpm2+host", "systemd-host"}
Rungs == SealedRungs \cup {"file-protected"}
Keys == 1..MaxKeys

\* The names `force_clean_kind` recognises.  A stage file that an
\* interrupted `exclusive_write` leaves (".cermet-exclusive.<pid>.<n>") is in
\* the state directory and is not one of them.
ResetInventory == {"vault", "host", "record", "catalog"}
Remnant == "remnant"
Entries == ResetInventory \cup {Remnant}

Idle == [pc |-> "idle", src |-> "running", exe |-> None, force |-> FALSE,
         wasRunning |-> FALSE, stopped |-> FALSE, wipe |-> {}, custody |-> None,
         outcome |-> "none"]

TypeOK ==
    /\ bin \in Binaries \cup {None} /\ alias \in BOOLEAN
    /\ pkg \in Binaries \cup {None} /\ staged \in Binaries \cup {None}
    /\ units \in BOOLEAN /\ accounts \in {"absent", "ok", "wrong"}
    /\ conf \in [present : BOOLEAN, uids : {"distinct", "clash"},
                 custody : Rungs \cup {None}]
    /\ state \subseteq Entries
    /\ file \in Keys \cup {None} /\ vault \in Keys \cup {None}
    /\ sealed \in [key : Keys \cup {None}, rung : SealedRungs \cup {None}]
    /\ minted \in 0..MaxKeys
    /\ daemon \in Binaries \cup {None}
    /\ lock \in BOOLEAN /\ bystander \in BOOLEAN /\ mishaps \in 0..MaxMishaps

------------------------------------------------------------------------------
(* The daemon's boot.                                                       *)

\* The one source the declared rung names; another rung's artifact never
\* substitutes for it.
KeyOfRung(rung) ==
    IF rung \in SealedRungs THEN sealed.key
    ELSE IF rung = "file-protected" THEN file ELSE None

\* The checks between taking the single-writer lock and opening the stores:
\* configuration against the running uid, runtime directories, key.
BootReachesStores ==
    /\ units /\ accounts = "ok"
    /\ conf.present /\ conf.uids = "distinct"
    /\ KeyOfRung(conf.custody) # None

\* A vault opens only under the key it was created with; an absent one is
\* created under the key at hand.
BootServes ==
    /\ BootReachesStores
    /\ vault \in {None, KeyOfRung(conf.custody)}

\* The service manager executes the role alias.  Even a refused boot has
\* created host.lock, which is in the state directory.
Boot ==
    /\ IF bin # None /\ alias
       THEN /\ state' = state \cup {"host"} \cup IF BootServes THEN {"vault"} ELSE {}
            /\ vault' = IF BootServes THEN KeyOfRung(conf.custody) ELSE vault
            /\ daemon' = IF BootServes THEN bin ELSE None
       ELSE UNCHANGED <<state, vault, daemon>>
    /\ UNCHANGED <<file, sealed, minted>>

------------------------------------------------------------------------------
(* Setup, in the order of run_linux.                                        *)

At(pc) == s.pc = pc
Goto(pc) == s' = [s EXCEPT !.pc = pc]
Mishap == mishaps < MaxMishaps /\ mishaps' = mishaps + 1

\* What the source path holds when it is read; `update` hands over the path
\* of its staged copy, and a package's copy beats the running executable.
SourceNow(src) == CASE src = "package" -> pkg
                    [] src = "staged"  -> staged
                    [] src = "running" -> s.exe

ResolveBinarySource == IF pkg # None THEN "package" ELSE "running"

Begin(src, exe, force) ==
    /\ At("idle")
    /\ s' = [Idle EXCEPT !.pc = "lock", !.src = src, !.exe = exe, !.force = force]

RunSetup ==
    /\ \E exe \in Releases, force \in BOOLEAN :
            Begin(ResolveBinarySource, exe, force)
    /\ UNCHANGED <<hostVars, keyVars, daemon, lock, bystander, mishaps>>

\* An error return: the lock guard is dropped, the cutover is not finished.
EndWith(outcome) == s' = [Idle EXCEPT !.outcome = outcome] /\ lock' = FALSE

Refuse == EndWith("refused") /\ UNCHANGED <<hostVars, keyVars, daemon, bystander, mishaps>>

AcquireLock ==
    /\ At("lock")
    /\ IF lock THEN s' = [Idle EXCEPT !.outcome = "refused"] /\ UNCHANGED lock
       ELSE Goto("accounts") /\ lock' = TRUE
    /\ UNCHANGED <<hostVars, keyVars, daemon, bystander, mishaps>>

\* ensure_group and ensure_user create what is absent and refuse an account
\* of another shape; the topology assertions refuse a plane that overlaps.
EnsureAccounts ==
    /\ At("accounts")
    /\ \/ accounts = "wrong" /\ Refuse
       \/ /\ accounts # "wrong"
          /\ accounts' = "ok"
          /\ Goto("cutover")
          /\ UNCHANGED <<bin, alias, pkg, staged, units, conf, keyVars, daemon,
                         lock, bystander, mishaps>>

LayoutIsCurrent == bin = SourceNow(s.src) /\ alias

\* The service is stopped, and proved stopped, before the first byte lands;
\* a converged layout stops nothing.
CutoverBegin ==
    /\ At("cutover")
    /\ LET stop == ~LayoutIsCurrent /\ daemon # None IN
         /\ s' = [s EXCEPT !.pc = "publish", !.wasRunning = daemon # None, !.stopped = stop]
         /\ daemon' = IF stop THEN None ELSE daemon
         /\ bystander' = (bystander /\ ~stop)
    /\ UNCHANGED <<hostVars, keyVars, lock, mishaps>>

\* The target lands first, so that no alias points at a missing file; a
\* converged layout is left untouched.
PublishTarget ==
    /\ At("publish")
    /\ IF LayoutIsCurrent THEN Goto("config") /\ UNCHANGED bin
       ELSE Goto("aliases") /\ bin' = SourceNow(s.src)
    /\ UNCHANGED <<alias, pkg, staged, units, accounts, conf, keyVars, daemon,
                   lock, bystander, mishaps>>

PublishAliases ==
    /\ At("aliases")
    /\ alias' = TRUE
    /\ Goto("config")
    /\ UNCHANGED <<bin, pkg, staged, units, accounts, conf, keyVars, daemon,
                   lock, bystander, mishaps>>

\* An existing config is authoritative and only validated; a new one needs a
\* human approver to name, and declares no custody profile yet.
InstallConfig ==
    /\ At("config")
    /\ \/ conf.present /\ conf.uids = "clash" /\ Refuse
       \/ ~conf.present /\ Refuse
       \/ /\ conf' = IF conf.present THEN conf
                     ELSE [present |-> TRUE, uids |-> "distinct", custody |-> None]
          /\ conf'.uids = "distinct"
          /\ Goto("units")
          /\ UNCHANGED <<bin, alias, pkg, staged, units, accounts, keyVars,
                         daemon, lock, bystander, mishaps>>

\* The sudoers rule, PAM service, units, preflight, tmpfiles rule and
\* scheduler are each written atomically, then systemd reloads them.
InstallUnits ==
    /\ At("units")
    /\ units' = TRUE
    /\ Goto(IF s.force THEN "reset" ELSE "key")
    /\ UNCHANGED <<bin, alias, pkg, staged, accounts, conf, keyVars, daemon,
                   lock, bystander, mishaps>>

------------------------------------------------------------------------------
(* The vendor reset and the vault key.                                      *)

MasterKey == "master.key"
SealedKey == "cermet.key.cred"

\* Stop and prove stopped, then collect every candidate before the first
\* unlink; the sealed blob is named last, the declared profile not at all.
ResetBegin ==
    /\ At("reset")
    /\ daemon' = None /\ bystander' = FALSE
    /\ s' = [s EXCEPT !.pc = "wipe",
                      !.wipe = (state \cap ResetInventory)
                          \cup (IF file # None THEN {MasterKey} ELSE {})
                          \cup (IF sealed.key # None THEN {SealedKey} ELSE {})]
    /\ UNCHANGED <<hostVars, keyVars, lock, mishaps>>

\* One unlink, in the order the directory was read.
Wipe ==
    /\ At("wipe")
    /\ \E x \in s.wipe :
         /\ x = SealedKey => s.wipe = {SealedKey}
         /\ s' = [s EXCEPT !.wipe = @ \ {x}]
         /\ state' = state \ {x}
         /\ vault' = IF x = "vault" THEN None ELSE vault
         /\ file' = IF x = MasterKey THEN None ELSE file
         /\ sealed' = IF x = SealedKey THEN [key |-> None, rung |-> None] ELSE sealed
    /\ UNCHANGED <<hostVars, minted, daemon, lock, bystander, mishaps>>

ResetEnds ==
    /\ At("wipe") /\ s.wipe = {}
    /\ Goto("key")
    /\ UNCHANGED <<hostVars, keyVars, daemon, lock, bystander, mishaps>>

\* The rung a box is already on: a sealed blob is on the rung the config
\* declares, and is refused when the config declares none.
ExistingRung ==
    IF sealed.key # None THEN conf.custody
    ELSE IF file # None THEN "file-protected" ELSE None

ProvisionExisting ==
    /\ At("key")
    /\ sealed.key # None \/ file # None
    /\ IF ExistingRung = None THEN Refuse
       ELSE /\ s' = [s EXCEPT !.pc = "custody", !.custody = ExistingRung]
            /\ UNCHANGED <<hostVars, keyVars, daemon, lock, bystander, mishaps>>

\* Defect: a vault and the host lock do not count as surviving state.
StateIsEmpty_IgnoresVault == state \subseteq {"vault", "host"}

\* A fresh key never appears over surviving state.
StateIsEmpty == state = {}

\* Strongest rung first: the sealing attempt is the detection, and nothing is
\* sealed when the box cannot be handed a credential.
ChooseCustodyRung(delivery, seals) ==
    IF delivery /\ "systemd-tpm2+host" \in seals THEN "systemd-tpm2+host"
    ELSE IF delivery /\ "systemd-host" \in seals THEN "systemd-host"
    ELSE "file-protected"

\* The blob is hard-linked into place from a stage beside it; the key file is
\* staged in the state directory first.
ProvisionFresh ==
    /\ At("key")
    /\ sealed.key = None /\ file = None
    /\ IF ~StateIsEmpty THEN Refuse
       ELSE /\ minted < MaxKeys
            /\ minted' = minted + 1
            /\ \E delivery \in BOOLEAN, seals \in SUBSET SealedRungs :
                 LET rung == ChooseCustodyRung(delivery, seals) IN
                   /\ s' = [s EXCEPT !.pc = IF rung \in SealedRungs THEN "custody" ELSE "linkKey",
                                     !.custody = rung]
                   /\ sealed' = IF rung \in SealedRungs
                                THEN [key |-> minted', rung |-> rung] ELSE sealed
                   /\ state' = IF rung \in SealedRungs THEN state ELSE state \cup {Remnant}
            /\ UNCHANGED <<hostVars, file, vault, daemon, lock, bystander, mishaps>>

\* The hard link that publishes the key file, and the removal of its stage.
LinkKeyFile ==
    /\ At("linkKey")
    /\ file' = minted
    /\ state' = state \ {Remnant}
    /\ Goto("custody")
    /\ UNCHANGED <<hostVars, sealed, vault, minted, daemon, lock, bystander, mishaps>>

RecordCustody ==
    /\ At("custody")
    /\ conf' = [conf EXCEPT !.custody = s.custody]
    /\ Goto("record")
    /\ UNCHANGED <<bin, alias, pkg, staged, units, accounts, keyVars, daemon,
                   lock, bystander, mishaps>>

\* An existing lockdown record is preserved; a new one is written exclusively.
InitLockdownRecord ==
    /\ At("record")
    /\ IF "record" \in state THEN Goto("catalog") /\ UNCHANGED state
       ELSE Goto("linkRecord") /\ state' = state \cup {Remnant}
    /\ UNCHANGED <<hostVars, file, sealed, vault, minted, daemon, lock,
                   bystander, mishaps>>

LinkRecord ==
    /\ At("linkRecord")
    /\ state' = (state \ {Remnant}) \cup {"record"}
    /\ Goto("catalog")
    /\ UNCHANGED <<hostVars, file, sealed, vault, minted, daemon, lock,
                   bystander, mishaps>>

\* Each catalog directory is removed whole, then filled file by file.
ClearCatalog ==
    /\ At("catalog")
    /\ state' = state \ {"catalog"}
    /\ Goto("seed")
    /\ UNCHANGED <<hostVars, file, sealed, vault, minted, daemon, lock,
                   bystander, mishaps>>

SeedCatalog ==
    /\ At("seed")
    /\ state' = state \cup {"catalog"}
    /\ Goto("finish")
    /\ UNCHANGED <<hostVars, file, sealed, vault, minted, daemon, lock,
                   bystander, mishaps>>

------------------------------------------------------------------------------
(* The service comes back.                                                  *)

\* Only the service setup stopped is started here.
CutoverFinish ==
    /\ At("finish")
    /\ IF s.stopped THEN Boot ELSE UNCHANGED <<keyVars, daemon>>
    /\ Goto("live")
    /\ UNCHANGED <<hostVars, lock, bystander, mishaps>>

\* Enable, then start what is not running; a start that fails is a warning.
EnsureServiceLive ==
    /\ At("live")
    /\ IF daemon = None THEN Boot ELSE UNCHANGED <<keyVars, daemon>>
    /\ EndWith("done")
    /\ UNCHANGED <<hostVars, bystander, mishaps>>

------------------------------------------------------------------------------
(* Faults and the rest of the machine.                                      *)

\* Any step may fail: its own stage is removed and the error ends the run.
FailStep ==
    /\ s.pc \notin {"idle", "lock"} /\ Mishap
    /\ EndWith("failed")
    /\ state' = IF s.pc \in {"linkKey", "linkRecord"} THEN state \ {Remnant} ELSE state
    /\ UNCHANGED <<hostVars, file, sealed, vault, minted, daemon, bystander>>

\* SIGKILL runs no destructor: the lock directory and a stage file stay.
KillSetup ==
    /\ ~At("idle") /\ Mishap
    /\ s' = [Idle EXCEPT !.outcome = "killed"]
    /\ UNCHANGED <<hostVars, keyVars, daemon, lock, bystander>>

\* A reboot clears /run and starts the enabled service.
Reboot ==
    /\ Mishap
    /\ lock' = FALSE
    /\ s' = [Idle EXCEPT !.outcome = "killed"]
    /\ Boot
    /\ bystander' = FALSE
    /\ UNCHANGED hostVars

\* `systemctl start`, by hand, while setup runs or not.
StartByHand ==
    /\ daemon = None /\ Mishap
    /\ Boot
    /\ bystander' = ~At("idle")
    /\ UNCHANGED <<hostVars, lock, s>>

StopByHand ==
    /\ daemon # None /\ Mishap
    /\ daemon' = None /\ bystander' = FALSE
    /\ UNCHANGED <<hostVars, keyVars, lock, s>>

------------------------------------------------------------------------------
\* A box nothing was installed on, a box that has an account of another shape
\* or a config whose uids clash, and a box a package was unpacked on.
Init ==
    /\ bin = None /\ alias = FALSE /\ staged = None /\ units = FALSE
    /\ pkg \in {None} \cup Releases
    /\ accounts \in {"absent", "wrong"}
    /\ conf \in {[present |-> FALSE, uids |-> "distinct", custody |-> None],
                 [present |-> TRUE, uids |-> "clash", custody |-> None]}
    /\ state = {} /\ file = None /\ vault = None /\ minted = 0
    /\ sealed = [key |-> None, rung |-> None]
    /\ daemon = None /\ lock = FALSE /\ s = Idle
    /\ bystander = FALSE /\ mishaps = 0

Setup ==
    \/ AcquireLock \/ EnsureAccounts \/ CutoverBegin \/ PublishTarget
    \/ PublishAliases \/ InstallConfig \/ InstallUnits \/ ResetBegin \/ Wipe
    \/ ResetEnds \/ ProvisionExisting \/ ProvisionFresh \/ LinkKeyFile
    \/ RecordCustody \/ InitLockdownRecord \/ LinkRecord \/ ClearCatalog
    \/ SeedCatalog \/ CutoverFinish \/ EnsureServiceLive

Environment == FailStep \/ KillSetup \/ Reboot \/ StartByHand \/ StopByHand

------------------------------------------------------------------------------
(* What setup promises.                                                     *)

\* A key on the box is the key of the vault on the box: whatever was reset,
\* interrupted, rebooted or started by hand in between, no fresh key is minted
\* beside a vault another key encrypts (refuse_fresh_key_over_state).
KeyNeverOrphansVault ==
    vault # None => /\ file \in {None, vault}
                    /\ sealed.key \in {None, vault}
=============================================================================
