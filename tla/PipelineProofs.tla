--------------------------- MODULE PipelineProofs ---------------------------
(***************************************************************************)
(* Proofs about the request pipeline and its host: what setup and update   *)
(* leave on the box (Host), what a money effect and its retries do at the  *)
(* provider and in the budget (Money), what a validated template sends     *)
(* (Action), and what a standing corpus admits and suggests (the rules).   *)
(***************************************************************************)
EXTENDS Pipeline, FiniteSetTheorems, TLAPS

-----------------------------------------------------------------------------
(* Setup and update: the inductive invariant. *)

(* The setup process and the update command keep the fields of their       *)
(* records.                                                                *)
HostShape ==
    /\ {"pc", "src", "exe", "outcome"} \subseteq DOMAIN s
    /\ {"pc", "channel", "digest", "kept"} \subseteq DOMAIN u

(* No key file beside a sealed key, no vault outside the state directory,  *)
(* and neither key nor vault while a key file waits for its link.          *)
KeyInv ==
    /\ vault # None => "vault" \in state
    /\ file = None \/ sealed.key = None
    /\ s.pc = "linkKey" => file = None /\ sealed.key = None /\ vault = None
    /\ Host!KeyNeverOrphansVault

(* What an update may put in place, and what a setup may leave running. *)
SourceInv ==
    /\ u.pc # "idle" => u.digest \in Host!Binaries /\ u.channel \in {"deb", "tarball"}
    /\ u.pc # "idle" /\ u.digest = Altered => early /\ u.channel = "tarball"
    /\ u.pc \in {"unpack", "measure"} =>
         /\ u.channel = "tarball" /\ staged \in Host!Binaries
         /\ staged = Altered => early
    /\ u.pc \in {"copied", "dpkg"} => u.channel = "deb"
    /\ u.pc = "dpkg" => copy = u.digest
    /\ s.src \in {"running", "package", "staged"}
    /\ s.pc # "idle" /\ s.src = "staged" =>
         u.pc = "setup" /\ u.channel = "tarball" /\ (staged = Altered => early \/ late)
    /\ s.src = "running" => s.exe # Altered
    /\ s.pc # "idle" => Host!SourceNow(s.src) # None
    /\ Host!InstalledIsVerified

(* The daemon runs the published build, unless someone started it by hand. *)
DaemonInv ==
    /\ daemon # None => bin # None /\ alias
    /\ daemon # None /\ ~bystander /\ ~late => daemon = bin
    /\ s.pc = "publish" /\ daemon # None /\ ~bystander /\ ~late => Host!LayoutIsCurrent

(* The records keep their fields. *)
LEMMA HostShapeStep ==
  ASSUME Host!InstallAssumption, HostShape, [Host!UpdateNext]_(Host!updateVars)
  PROVE  HostShape'
<1>1. CASE Host!RunSetup /\ UNCHANGED <<u, copy, early, late>>
  BY <1>1 DEF Host!At, Host!Begin, Host!Idle, Host!ResolveBinarySource, Host!RunSetup,
     HostShape
<1>2. CASE Host!AcquireLock /\ UNCHANGED <<u, copy, early, late>>
  BY <1>2 DEF Host!AcquireLock, Host!At, Host!Goto, Host!Idle, HostShape
<1>3. CASE Host!EnsureAccounts /\ UNCHANGED <<u, copy, early, late>>
  BY <1>3 DEF Host!At, Host!EndWith, Host!EnsureAccounts, Host!Goto, Host!Idle, Host!Refuse,
     HostShape
<1>4. CASE Host!CutoverBegin /\ UNCHANGED <<u, copy, early, late>>
  BY <1>4 DEF Host!At, Host!CutoverBegin, HostShape
<1>5. CASE Host!PublishTarget /\ UNCHANGED <<u, copy, early, late>>
  BY <1>5 DEF Host!At, Host!Goto, Host!PublishTarget, HostShape
<1>6. CASE Host!PublishAliases /\ UNCHANGED <<u, copy, early, late>>
  BY <1>6 DEF Host!At, Host!Goto, Host!PublishAliases, HostShape
<1>7. CASE Host!InstallConfig /\ UNCHANGED <<u, copy, early, late>>
  BY <1>7 DEF Host!At, Host!EndWith, Host!Goto, Host!Idle, Host!InstallConfig, Host!Refuse,
     HostShape
<1>8. CASE Host!InstallUnits /\ UNCHANGED <<u, copy, early, late>>
  BY <1>8 DEF Host!At, Host!Goto, Host!InstallUnits, HostShape
<1>9. CASE Host!ResetBegin /\ UNCHANGED <<u, copy, early, late>>
  BY <1>9 DEF Host!At, Host!ResetBegin, HostShape
<1>10. CASE Host!Wipe /\ UNCHANGED <<u, copy, early, late>>
  BY <1>10 DEF Host!At, Host!MasterKey, Host!SealedKey, HostShape, Host!Wipe
<1>11. CASE Host!ResetEnds /\ UNCHANGED <<u, copy, early, late>>
  BY <1>11 DEF Host!At, Host!Goto, Host!ResetEnds, HostShape
<1>12. CASE Host!ProvisionExisting /\ UNCHANGED <<u, copy, early, late>>
  BY <1>12 DEF Host!At, Host!EndWith, Host!Idle, Host!ProvisionExisting, Host!Refuse,
     HostShape
<1>13. CASE Host!ProvisionFresh /\ UNCHANGED <<u, copy, early, late>>
  BY <1>13, ZenonT(60) DEF Host!At, Host!EndWith, Host!Idle, Host!ProvisionFresh, Host!Refuse,
     HostShape, Host!StateIsEmpty
<1>14. CASE Host!LinkKeyFile /\ UNCHANGED <<u, copy, early, late>>
  BY <1>14 DEF Host!At, Host!Goto, Host!LinkKeyFile, Host!Remnant, HostShape
<1>15. CASE Host!RecordCustody /\ UNCHANGED <<u, copy, early, late>>
  BY <1>15 DEF Host!At, Host!Goto, Host!RecordCustody, HostShape
<1>16. CASE Host!InitLockdownRecord /\ UNCHANGED <<u, copy, early, late>>
  BY <1>16 DEF Host!At, Host!Goto, Host!InitLockdownRecord, Host!Remnant, HostShape
<1>17. CASE Host!LinkRecord /\ UNCHANGED <<u, copy, early, late>>
  BY <1>17 DEF Host!At, Host!Goto, Host!LinkRecord, Host!Remnant, HostShape
<1>18. CASE Host!ClearCatalog /\ UNCHANGED <<u, copy, early, late>>
  BY <1>18 DEF Host!At, Host!ClearCatalog, Host!Goto, HostShape
<1>19. CASE Host!SeedCatalog /\ UNCHANGED <<u, copy, early, late>>
  BY <1>19 DEF Host!At, Host!Goto, Host!SeedCatalog, HostShape
<1>20. CASE Host!CutoverFinish /\ UNCHANGED <<u, copy, early, late>>
  BY <1>20 DEF Host!At, Host!CutoverFinish, Host!Goto, HostShape
<1>21. CASE Host!EnsureServiceLive /\ UNCHANGED <<u, copy, early, late>>
  BY <1>21 DEF Host!At, Host!EndWith, Host!EnsureServiceLive, Host!Idle, HostShape
<1>22. CASE Host!FailStep /\ UNCHANGED <<u, copy, early, late>>
  BY <1>22 DEF Host!EndWith, Host!FailStep, Host!Idle, Host!Mishap, Host!Remnant, HostShape
<1>23. CASE Host!KillSetup /\ UNCHANGED <<u, copy, early, late>>
  BY <1>23 DEF Host!At, Host!Idle, Host!KillSetup, Host!Mishap, HostShape
<1>24. CASE Host!Reboot /\ UNCHANGED <<u, copy, early, late>>
  BY <1>24 DEF Host!Idle, Host!Mishap, Host!Reboot, HostShape
<1>25. CASE Host!StartByHand /\ UNCHANGED <<u, copy, early, late>>
  BY <1>25 DEF Host!At, Host!Mishap, HostShape, Host!StartByHand
<1>26. CASE Host!StopByHand /\ UNCHANGED <<u, copy, early, late>>
  BY <1>26 DEF Host!Mishap, HostShape, Host!StopByHand
<1>27. CASE Host!StartUpdate
  BY <1>27 DEF Host!NoUpdate, HostShape, Host!StartUpdate, Host!UpdateOnly
<1>28. CASE Host!Download
  BY <1>28 DEF Host!Download, Host!EndUpdate, Host!NoUpdate, HostShape, Host!UpdateOnly,
     Host!VerifyBytes
<1>29. CASE Host!Elevate
  BY <1>29 DEF Host!Elevate, HostShape, Host!UpdateOnly
<1>30. CASE Host!RunHandedCommand
  BY <1>30 DEF Host!RunHandedCommand, HostShape, Host!UpdateOnly
<1>31. CASE Host!ApplyTarball
  BY <1>31, ZenonT(60) DEF Host!ApplyTarball, Host!At, Host!Begin, Host!EndUpdate, Host!Idle,
     Host!NoUpdate, HostShape
<1>32. CASE Host!ApplyDeb
  BY <1>32 DEF Host!ApplyDeb, HostShape, Host!UpdateOnly
<1>33. CASE Host!HashCopy
  BY <1>33 DEF Host!EndUpdate, Host!HashCopy, Host!NoUpdate, HostShape, Host!UpdateOnly
<1>34. CASE Host!RunDpkg
  BY <1>34 DEF Host!At, Host!Begin, Host!Idle, Host!RunDpkg, HostShape
<1>35. CASE Host!DpkgRefuses
  BY <1>35 DEF Host!DpkgRefuses, Host!EndUpdate, Host!NoUpdate, HostShape, Host!UpdateOnly
<1>36. CASE Host!ReportUpdate
  BY <1>36 DEF Host!EndUpdate, Host!NoUpdate, Host!ReportUpdate, HostShape, Host!UpdateOnly
<1>37. CASE Host!StagedFileChanges
  BY <1>37 DEF Host!Mishap, HostShape, Host!StagedFileChanges
<1>38. CASE UNCHANGED Host!updateVars
  BY <1>38 DEF Host!updateVars, Host!vars, Host!hostVars, Host!keyVars, HostShape
<1>39. CASE Host!Unpack
  BY <1>39 DEF Host!EndUpdate, Host!Unpack, Host!NoUpdate, HostShape, Host!UpdateOnly
<1>40. CASE Host!Measure
  BY <1>40 DEF Host!Measure, HostShape, Host!UpdateOnly
<1>41. QED
  BY <1>1, <1>2, <1>3, <1>4, <1>5, <1>6, <1>7, <1>8, <1>9, <1>10, <1>11, <1>12, <1>13,
       <1>14, <1>15, <1>16, <1>17, <1>18, <1>19, <1>20, <1>21, <1>22, <1>23, <1>24, <1>25,
       <1>26, <1>27, <1>28, <1>29, <1>30, <1>31, <1>32, <1>33, <1>34, <1>35, <1>36, <1>37,
       <1>38, <1>39, <1>40 DEF Host!UpdateNext, Host!UpdateCommand, Host!Setup, Host!Environment

(* Every step keeps the keys and the vault together. *)
LEMMA KeyStep ==
  ASSUME Host!InstallAssumption, HostShape, KeyInv, [Host!UpdateNext]_(Host!updateVars)
  PROVE  KeyInv'
<1>1. CASE Host!RunSetup /\ UNCHANGED <<u, copy, early, late>>
  BY <1>1 DEF Host!At, Host!Begin, Host!hostVars, Host!Idle, KeyInv,
     Host!KeyNeverOrphansVault, Host!keyVars, Host!ResolveBinarySource, Host!RunSetup,
     HostShape
<1>2. CASE Host!AcquireLock /\ UNCHANGED <<u, copy, early, late>>
  BY <1>2 DEF Host!AcquireLock, Host!At, Host!Goto, Host!hostVars, Host!Idle, KeyInv,
     Host!KeyNeverOrphansVault, Host!keyVars, HostShape
<1>3. CASE Host!EnsureAccounts /\ UNCHANGED <<u, copy, early, late>>
  BY <1>3 DEF Host!At, Host!EndWith, Host!EnsureAccounts, Host!Goto, Host!hostVars,
     Host!Idle, KeyInv, Host!KeyNeverOrphansVault, Host!keyVars, Host!Refuse, HostShape
<1>4. CASE Host!CutoverBegin /\ UNCHANGED <<u, copy, early, late>>
  BY <1>4 DEF Host!At, Host!CutoverBegin, Host!hostVars, KeyInv, Host!KeyNeverOrphansVault,
     Host!keyVars, Host!LayoutIsCurrent, HostShape, Host!SourceNow
<1>5. CASE Host!PublishTarget /\ UNCHANGED <<u, copy, early, late>>
  BY <1>5 DEF Host!At, Host!Goto, Host!hostVars, KeyInv, Host!KeyNeverOrphansVault,
     Host!keyVars, Host!LayoutIsCurrent, Host!PublishTarget, HostShape, Host!SourceNow
<1>6. CASE Host!PublishAliases /\ UNCHANGED <<u, copy, early, late>>
  BY <1>6 DEF Host!At, Host!Goto, Host!hostVars, KeyInv, Host!KeyNeverOrphansVault,
     Host!keyVars, Host!PublishAliases, HostShape
<1>7. CASE Host!InstallConfig /\ UNCHANGED <<u, copy, early, late>>
  BY <1>7 DEF Host!At, Host!EndWith, Host!Goto, Host!hostVars, Host!Idle,
     Host!InstallConfig, KeyInv, Host!KeyNeverOrphansVault, Host!keyVars, Host!Refuse,
     HostShape
<1>8. CASE Host!InstallUnits /\ UNCHANGED <<u, copy, early, late>>
  BY <1>8 DEF Host!At, Host!Goto, Host!hostVars, Host!InstallUnits, KeyInv,
     Host!KeyNeverOrphansVault, Host!keyVars, HostShape
<1>9. CASE Host!ResetBegin /\ UNCHANGED <<u, copy, early, late>>
  BY <1>9 DEF Host!At, Host!hostVars, KeyInv, Host!KeyNeverOrphansVault, Host!keyVars,
     Host!ResetBegin, HostShape
<1>10. CASE Host!Wipe /\ UNCHANGED <<u, copy, early, late>>
  BY <1>10 DEF Host!At, Host!hostVars, KeyInv, Host!KeyNeverOrphansVault, Host!keyVars,
     Host!MasterKey, Host!SealedKey, HostShape, Host!Wipe
<1>11. CASE Host!ResetEnds /\ UNCHANGED <<u, copy, early, late>>
  BY <1>11 DEF Host!At, Host!Goto, Host!hostVars, KeyInv, Host!KeyNeverOrphansVault,
     Host!keyVars, Host!ResetEnds, HostShape
<1>12. CASE Host!ProvisionExisting /\ UNCHANGED <<u, copy, early, late>>
  BY <1>12 DEF Host!At, Host!EndWith, Host!hostVars, Host!Idle, KeyInv,
     Host!KeyNeverOrphansVault, Host!keyVars, Host!ProvisionExisting, Host!Refuse, HostShape
<1>13. CASE Host!ProvisionFresh /\ UNCHANGED <<u, copy, early, late>>
  <2>1. CASE ~Host!StateIsEmpty
    BY <1>13, <2>1 DEF Host!EndWith, Host!Idle, KeyInv, Host!KeyNeverOrphansVault,
       Host!keyVars, Host!ProvisionFresh, Host!Refuse
  <2>2. CASE Host!StateIsEmpty
    <3>1. vault = None /\ vault' = None /\ file = None /\ file' = None
      BY <1>13, <2>2 DEF Host!ProvisionFresh, KeyInv, Host!StateIsEmpty
    <3>2. s'.pc = "linkKey" => sealed'.key = None
      BY <1>13, <2>2 DEF Host!ProvisionFresh, HostShape
    <3>3. QED
      BY <3>1, <3>2 DEF KeyInv, Host!KeyNeverOrphansVault
  <2>3. QED
    BY <2>1, <2>2
<1>14. CASE Host!LinkKeyFile /\ UNCHANGED <<u, copy, early, late>>
  BY <1>14 DEF Host!At, Host!Goto, Host!hostVars, KeyInv, Host!KeyNeverOrphansVault,
     Host!keyVars, Host!LinkKeyFile, Host!Remnant, HostShape
<1>15. CASE Host!RecordCustody /\ UNCHANGED <<u, copy, early, late>>
  BY <1>15 DEF Host!At, Host!Goto, Host!hostVars, KeyInv, Host!KeyNeverOrphansVault,
     Host!keyVars, Host!RecordCustody, HostShape
<1>16. CASE Host!InitLockdownRecord /\ UNCHANGED <<u, copy, early, late>>
  BY <1>16 DEF Host!At, Host!Goto, Host!hostVars, Host!InitLockdownRecord, KeyInv,
     Host!KeyNeverOrphansVault, Host!keyVars, Host!Remnant, HostShape
<1>17. CASE Host!LinkRecord /\ UNCHANGED <<u, copy, early, late>>
  BY <1>17 DEF Host!At, Host!Goto, Host!hostVars, KeyInv, Host!KeyNeverOrphansVault,
     Host!keyVars, Host!LinkRecord, Host!Remnant, HostShape
<1>18. CASE Host!ClearCatalog /\ UNCHANGED <<u, copy, early, late>>
  BY <1>18 DEF Host!At, Host!ClearCatalog, Host!Goto, Host!hostVars, KeyInv,
     Host!KeyNeverOrphansVault, Host!keyVars, HostShape
<1>19. CASE Host!SeedCatalog /\ UNCHANGED <<u, copy, early, late>>
  BY <1>19 DEF Host!At, Host!Goto, Host!hostVars, KeyInv, Host!KeyNeverOrphansVault,
     Host!keyVars, Host!SeedCatalog, HostShape
<1>20. CASE Host!CutoverFinish /\ UNCHANGED <<u, copy, early, late>>
  BY <1>20 DEF Host!At, Host!Boot, Host!BootReachesStores, Host!BootServes,
     Host!CutoverFinish, Host!Goto, Host!hostVars, KeyInv, Host!KeyNeverOrphansVault,
     Host!KeyOfRung, Host!keyVars, HostShape
<1>21. CASE Host!EnsureServiceLive /\ UNCHANGED <<u, copy, early, late>>
  BY <1>21 DEF Host!At, Host!Boot, Host!BootReachesStores, Host!BootServes, Host!EndWith,
     Host!EnsureServiceLive, Host!hostVars, Host!Idle, KeyInv, Host!KeyNeverOrphansVault,
     Host!KeyOfRung, Host!keyVars, HostShape
<1>22. CASE Host!FailStep /\ UNCHANGED <<u, copy, early, late>>
  BY <1>22 DEF Host!EndWith, Host!FailStep, Host!hostVars, Host!Idle, KeyInv,
     Host!KeyNeverOrphansVault, Host!keyVars, Host!Mishap, Host!Remnant, HostShape
<1>23. CASE Host!KillSetup /\ UNCHANGED <<u, copy, early, late>>
  BY <1>23 DEF Host!At, Host!hostVars, Host!Idle, KeyInv, Host!KeyNeverOrphansVault,
     Host!keyVars, Host!KillSetup, Host!Mishap, HostShape
<1>24. CASE Host!Reboot /\ UNCHANGED <<u, copy, early, late>>
  BY <1>24 DEF Host!Boot, Host!BootReachesStores, Host!BootServes, Host!hostVars, Host!Idle,
     KeyInv, Host!KeyNeverOrphansVault, Host!KeyOfRung, Host!keyVars, Host!Mishap,
     Host!Reboot, HostShape
<1>25. CASE Host!StartByHand /\ UNCHANGED <<u, copy, early, late>>
  BY <1>25 DEF Host!At, Host!Boot, Host!BootReachesStores, Host!BootServes, Host!hostVars,
     KeyInv, Host!KeyNeverOrphansVault, Host!KeyOfRung, Host!keyVars, Host!Mishap,
     HostShape, Host!StartByHand
<1>26. CASE Host!StopByHand /\ UNCHANGED <<u, copy, early, late>>
  BY <1>26 DEF Host!hostVars, KeyInv, Host!KeyNeverOrphansVault, Host!keyVars, Host!Mishap,
     HostShape, Host!StopByHand
<1>27. CASE Host!StartUpdate
  BY <1>27 DEF KeyInv, Host!KeyNeverOrphansVault, Host!keyVars, Host!NoUpdate, HostShape,
     Host!StartUpdate, Host!UpdateOnly
<1>28. CASE Host!Download
  BY <1>28 DEF Host!Download, Host!EndUpdate, KeyInv, Host!KeyNeverOrphansVault,
     Host!keyVars, Host!NoUpdate, HostShape, Host!UpdateOnly, Host!VerifyBytes
<1>29. CASE Host!Elevate
  BY <1>29 DEF Host!Elevate, KeyInv, Host!KeyNeverOrphansVault, Host!keyVars, HostShape,
     Host!UpdateOnly
<1>30. CASE Host!RunHandedCommand
  BY <1>30 DEF KeyInv, Host!KeyNeverOrphansVault, Host!keyVars, Host!RunHandedCommand,
     HostShape, Host!UpdateOnly
<1>31. CASE Host!ApplyTarball
  BY <1>31 DEF Host!ApplyTarball, Host!At, Host!Begin, Host!EndUpdate, Host!Idle, KeyInv,
     Host!KeyNeverOrphansVault, Host!keyVars, Host!NoUpdate, HostShape
<1>32. CASE Host!ApplyDeb
  BY <1>32 DEF Host!ApplyDeb, KeyInv, Host!KeyNeverOrphansVault, Host!keyVars, HostShape,
     Host!UpdateOnly
<1>33. CASE Host!HashCopy
  BY <1>33 DEF Host!EndUpdate, Host!HashCopy, KeyInv, Host!KeyNeverOrphansVault,
     Host!keyVars, Host!NoUpdate, HostShape, Host!UpdateOnly
<1>34. CASE Host!RunDpkg
  BY <1>34 DEF Host!At, Host!Begin, Host!Idle, KeyInv, Host!KeyNeverOrphansVault,
     Host!keyVars, Host!RunDpkg, HostShape
<1>35. CASE Host!DpkgRefuses
  BY <1>35 DEF Host!DpkgRefuses, Host!EndUpdate, KeyInv, Host!KeyNeverOrphansVault,
     Host!keyVars, Host!NoUpdate, HostShape, Host!UpdateOnly
<1>36. CASE Host!ReportUpdate
  BY <1>36 DEF Host!EndUpdate, KeyInv, Host!KeyNeverOrphansVault, Host!keyVars,
     Host!NoUpdate, Host!ReportUpdate, HostShape, Host!UpdateOnly
<1>37. CASE Host!StagedFileChanges
  BY <1>37 DEF KeyInv, Host!KeyNeverOrphansVault, Host!keyVars, Host!Mishap, HostShape,
     Host!StagedFileChanges
<1>38. CASE UNCHANGED Host!updateVars
  BY <1>38 DEF Host!updateVars, Host!vars, Host!hostVars, Host!keyVars, KeyInv,
     Host!KeyNeverOrphansVault
<1>39. CASE Host!Unpack
  BY <1>39 DEF Host!EndUpdate, Host!Unpack, KeyInv, Host!KeyNeverOrphansVault,
     Host!keyVars, Host!NoUpdate, HostShape, Host!UpdateOnly
<1>40. CASE Host!Measure
  BY <1>40 DEF KeyInv, Host!KeyNeverOrphansVault, Host!keyVars, Host!Measure,
     HostShape, Host!UpdateOnly
<1>41. QED
  BY <1>1, <1>2, <1>3, <1>4, <1>5, <1>6, <1>7, <1>8, <1>9, <1>10, <1>11, <1>12, <1>13,
       <1>14, <1>15, <1>16, <1>17, <1>18, <1>19, <1>20, <1>21, <1>22, <1>23, <1>24, <1>25,
       <1>26, <1>27, <1>28, <1>29, <1>30, <1>31, <1>32, <1>33, <1>34, <1>35, <1>36, <1>37,
       <1>38, <1>39, <1>40 DEF Host!UpdateNext, Host!UpdateCommand, Host!Setup, Host!Environment

(* Every step keeps what is put in place a verified build. *)
LEMMA SourceStep ==
  ASSUME Host!InstallAssumption, HostShape, SourceInv, [Host!UpdateNext]_(Host!updateVars)
  PROVE  SourceInv'
<1>1. CASE Host!RunSetup /\ UNCHANGED <<u, copy, early, late>>
  BY <1>1 DEF Host!At, Host!Begin, Host!hostVars, Host!Idle, Host!InstallAssumption,
     Host!InstalledIsVerified, Host!keyVars, Host!ResolveBinarySource, Host!RunSetup,
     HostShape, SourceInv, Host!SourceNow
<1>2. CASE Host!AcquireLock /\ UNCHANGED <<u, copy, early, late>>
  BY <1>2 DEF Host!AcquireLock, Host!At, Host!Goto, Host!hostVars, Host!Idle,
     Host!InstallAssumption, Host!InstalledIsVerified, Host!keyVars, HostShape, SourceInv,
     Host!SourceNow
<1>3. CASE Host!EnsureAccounts /\ UNCHANGED <<u, copy, early, late>>
  BY <1>3 DEF Host!At, Host!EndWith, Host!EnsureAccounts, Host!Goto, Host!hostVars,
     Host!Idle, Host!InstallAssumption, Host!InstalledIsVerified, Host!keyVars, Host!Refuse,
     HostShape, SourceInv, Host!SourceNow
<1>4. CASE Host!CutoverBegin /\ UNCHANGED <<u, copy, early, late>>
  BY <1>4 DEF Host!At, Host!CutoverBegin, Host!hostVars, Host!InstallAssumption,
     Host!InstalledIsVerified, Host!keyVars, Host!LayoutIsCurrent, HostShape, SourceInv,
     Host!SourceNow
<1>5. CASE Host!PublishTarget /\ UNCHANGED <<u, copy, early, late>>
  BY <1>5 DEF Host!At, Host!Goto, Host!hostVars, Host!InstallAssumption,
     Host!InstalledIsVerified, Host!keyVars, Host!LayoutIsCurrent, Host!PublishTarget,
     HostShape, SourceInv, Host!SourceNow
<1>6. CASE Host!PublishAliases /\ UNCHANGED <<u, copy, early, late>>
  BY <1>6 DEF Host!At, Host!Goto, Host!hostVars, Host!InstallAssumption,
     Host!InstalledIsVerified, Host!keyVars, Host!PublishAliases, HostShape, SourceInv,
     Host!SourceNow
<1>7. CASE Host!InstallConfig /\ UNCHANGED <<u, copy, early, late>>
  BY <1>7 DEF Host!At, Host!EndWith, Host!Goto, Host!hostVars, Host!Idle,
     Host!InstallAssumption, Host!InstallConfig, Host!InstalledIsVerified, Host!keyVars,
     Host!Refuse, HostShape, SourceInv, Host!SourceNow
<1>8. CASE Host!InstallUnits /\ UNCHANGED <<u, copy, early, late>>
  BY <1>8 DEF Host!At, Host!Goto, Host!hostVars, Host!InstallAssumption,
     Host!InstalledIsVerified, Host!InstallUnits, Host!keyVars, HostShape, SourceInv,
     Host!SourceNow
<1>9. CASE Host!ResetBegin /\ UNCHANGED <<u, copy, early, late>>
  BY <1>9 DEF Host!At, Host!hostVars, Host!InstallAssumption, Host!InstalledIsVerified,
     Host!keyVars, Host!ResetBegin, HostShape, SourceInv, Host!SourceNow
<1>10. CASE Host!Wipe /\ UNCHANGED <<u, copy, early, late>>
  BY <1>10 DEF Host!At, Host!hostVars, Host!InstallAssumption, Host!InstalledIsVerified,
     Host!keyVars, Host!MasterKey, Host!SealedKey, HostShape, SourceInv, Host!SourceNow,
     Host!Wipe
<1>11. CASE Host!ResetEnds /\ UNCHANGED <<u, copy, early, late>>
  BY <1>11 DEF Host!At, Host!Goto, Host!hostVars, Host!InstallAssumption,
     Host!InstalledIsVerified, Host!keyVars, Host!ResetEnds, HostShape, SourceInv,
     Host!SourceNow
<1>12. CASE Host!ProvisionExisting /\ UNCHANGED <<u, copy, early, late>>
  BY <1>12 DEF Host!At, Host!EndWith, Host!hostVars, Host!Idle, Host!InstallAssumption,
     Host!InstalledIsVerified, Host!keyVars, Host!ProvisionExisting, Host!Refuse, HostShape,
     SourceInv, Host!SourceNow
<1>13. CASE Host!ProvisionFresh /\ UNCHANGED <<u, copy, early, late>>
  BY <1>13, ZenonT(60) DEF Host!At, Host!EndWith, Host!hostVars, Host!Idle, Host!InstallAssumption,
     Host!InstalledIsVerified, Host!keyVars, Host!ProvisionFresh, Host!Refuse, HostShape,
     SourceInv, Host!SourceNow, Host!StateIsEmpty
<1>14. CASE Host!LinkKeyFile /\ UNCHANGED <<u, copy, early, late>>
  BY <1>14 DEF Host!At, Host!Goto, Host!hostVars, Host!InstallAssumption,
     Host!InstalledIsVerified, Host!keyVars, Host!LinkKeyFile, Host!Remnant, HostShape,
     SourceInv, Host!SourceNow
<1>15. CASE Host!RecordCustody /\ UNCHANGED <<u, copy, early, late>>
  BY <1>15 DEF Host!At, Host!Goto, Host!hostVars, Host!InstallAssumption,
     Host!InstalledIsVerified, Host!keyVars, Host!RecordCustody, HostShape, SourceInv,
     Host!SourceNow
<1>16. CASE Host!InitLockdownRecord /\ UNCHANGED <<u, copy, early, late>>
  BY <1>16 DEF Host!At, Host!Goto, Host!hostVars, Host!InitLockdownRecord,
     Host!InstallAssumption, Host!InstalledIsVerified, Host!keyVars, Host!Remnant,
     HostShape, SourceInv, Host!SourceNow
<1>17. CASE Host!LinkRecord /\ UNCHANGED <<u, copy, early, late>>
  BY <1>17 DEF Host!At, Host!Goto, Host!hostVars, Host!InstallAssumption,
     Host!InstalledIsVerified, Host!keyVars, Host!LinkRecord, Host!Remnant, HostShape,
     SourceInv, Host!SourceNow
<1>18. CASE Host!ClearCatalog /\ UNCHANGED <<u, copy, early, late>>
  BY <1>18 DEF Host!At, Host!ClearCatalog, Host!Goto, Host!hostVars, Host!InstallAssumption,
     Host!InstalledIsVerified, Host!keyVars, HostShape, SourceInv, Host!SourceNow
<1>19. CASE Host!SeedCatalog /\ UNCHANGED <<u, copy, early, late>>
  BY <1>19 DEF Host!At, Host!Goto, Host!hostVars, Host!InstallAssumption,
     Host!InstalledIsVerified, Host!keyVars, Host!SeedCatalog, HostShape, SourceInv,
     Host!SourceNow
<1>20. CASE Host!CutoverFinish /\ UNCHANGED <<u, copy, early, late>>
  BY <1>20 DEF Host!At, Host!Boot, Host!BootReachesStores, Host!BootServes,
     Host!CutoverFinish, Host!Goto, Host!hostVars, Host!InstallAssumption,
     Host!InstalledIsVerified, Host!KeyOfRung, Host!keyVars, HostShape, SourceInv,
     Host!SourceNow
<1>21. CASE Host!EnsureServiceLive /\ UNCHANGED <<u, copy, early, late>>
  BY <1>21 DEF Host!At, Host!Boot, Host!BootReachesStores, Host!BootServes, Host!EndWith,
     Host!EnsureServiceLive, Host!hostVars, Host!Idle, Host!InstallAssumption,
     Host!InstalledIsVerified, Host!KeyOfRung, Host!keyVars, HostShape, SourceInv,
     Host!SourceNow
<1>22. CASE Host!FailStep /\ UNCHANGED <<u, copy, early, late>>
  BY <1>22 DEF Host!EndWith, Host!FailStep, Host!hostVars, Host!Idle,
     Host!InstallAssumption, Host!InstalledIsVerified, Host!keyVars, Host!Mishap,
     Host!Remnant, HostShape, SourceInv, Host!SourceNow
<1>23. CASE Host!KillSetup /\ UNCHANGED <<u, copy, early, late>>
  BY <1>23 DEF Host!At, Host!hostVars, Host!Idle, Host!InstallAssumption,
     Host!InstalledIsVerified, Host!keyVars, Host!KillSetup, Host!Mishap, HostShape,
     SourceInv, Host!SourceNow
<1>24. CASE Host!Reboot /\ UNCHANGED <<u, copy, early, late>>
  BY <1>24 DEF Host!Boot, Host!BootReachesStores, Host!BootServes, Host!hostVars, Host!Idle,
     Host!InstallAssumption, Host!InstalledIsVerified, Host!KeyOfRung, Host!keyVars,
     Host!Mishap, Host!Reboot, HostShape, SourceInv, Host!SourceNow
<1>25. CASE Host!StartByHand /\ UNCHANGED <<u, copy, early, late>>
  BY <1>25 DEF Host!At, Host!Boot, Host!BootReachesStores, Host!BootServes, Host!hostVars,
     Host!InstallAssumption, Host!InstalledIsVerified, Host!KeyOfRung, Host!keyVars,
     Host!Mishap, HostShape, SourceInv, Host!SourceNow, Host!StartByHand
<1>26. CASE Host!StopByHand /\ UNCHANGED <<u, copy, early, late>>
  BY <1>26 DEF Host!hostVars, Host!InstallAssumption, Host!InstalledIsVerified,
     Host!keyVars, Host!Mishap, HostShape, SourceInv, Host!SourceNow, Host!StopByHand
<1>27. CASE Host!StartUpdate
  BY <1>27 DEF Host!ClassifyChannel, Host!InstallAssumption, Host!InstalledIsVerified,
     Host!keyVars, Host!NoUpdate, Host!PlanOf, HostShape, SourceInv, Host!SourceNow,
     Host!StartUpdate, Host!UpdateOnly, Host!Binaries
<1>28. CASE Host!Download
  BY <1>28 DEF Host!Download, Host!EndUpdate, Host!InstallAssumption,
     Host!InstalledIsVerified, Host!keyVars, Host!NoUpdate, HostShape, SourceInv,
     Host!SourceNow, Host!UpdateOnly, Host!VerifyBytes, Host!Binaries
<1>29. CASE Host!Elevate
  BY <1>29 DEF Host!Elevate, Host!InstallAssumption, Host!InstalledIsVerified, Host!keyVars,
     HostShape, SourceInv, Host!SourceNow, Host!UpdateOnly
<1>30. CASE Host!RunHandedCommand
  BY <1>30 DEF Host!InstallAssumption, Host!InstalledIsVerified, Host!keyVars,
     Host!RunHandedCommand, HostShape, SourceInv, Host!SourceNow, Host!UpdateOnly
<1>31. CASE Host!ApplyTarball
  <2>1. CASE staged = u.digest
    <3>1. s' = [Host!Idle EXCEPT !.pc = "lock", !.src = "staged", !.exe = staged, !.force = FALSE]
      BY <1>31, <2>1 DEF Host!ApplyTarball, Host!Begin
    <3>2. s'.pc = "lock" /\ s'.src = "staged"
      BY <3>1 DEF Host!Idle
    <3>3. /\ staged \in Host!Binaries /\ (staged = Altered => early)
          /\ u'.pc = "setup" /\ u'.channel = "tarball" /\ u'.digest = u.digest /\ staged' = staged
      BY <1>31, <2>1 DEF Host!ApplyTarball, HostShape, SourceInv
    <3>4. QED
      BY <1>31, <2>1, <3>2, <3>3 DEF Host!ApplyTarball, Host!Binaries, Host!InstallAssumption,
         Host!InstalledIsVerified, HostShape, SourceInv, Host!SourceNow
  <2>2. CASE staged # u.digest
    BY <1>31, <2>2 DEF Host!ApplyTarball, Host!EndUpdate, Host!InstallAssumption,
       Host!InstalledIsVerified, Host!NoUpdate, HostShape, SourceInv, Host!SourceNow
  <2>3. QED
    BY <2>1, <2>2
<1>32. CASE Host!ApplyDeb
  BY <1>32 DEF Host!ApplyDeb, Host!InstallAssumption, Host!InstalledIsVerified,
     Host!keyVars, HostShape, SourceInv, Host!SourceNow, Host!UpdateOnly
<1>33. CASE Host!HashCopy
  BY <1>33 DEF Host!EndUpdate, Host!HashCopy, Host!InstallAssumption,
     Host!InstalledIsVerified, Host!keyVars, Host!NoUpdate, HostShape, SourceInv,
     Host!SourceNow, Host!UpdateOnly
<1>34. CASE Host!RunDpkg
  <2>1. /\ s' = [Host!Idle EXCEPT !.pc = "lock", !.src = "package", !.exe = copy, !.force = FALSE]
        /\ u' = [u EXCEPT !.pc = "setup"] /\ u.pc = "dpkg"
        /\ pkg' = copy /\ UNCHANGED <<bin, staged, early, late>>
    BY <1>34 DEF Host!RunDpkg, Host!Begin
  <2>2. s'.pc = "lock" /\ s'.src = "package"
    BY <2>1 DEF Host!Idle
  <2>3. /\ copy \in Host!Binaries /\ copy # Altered
        /\ u'.pc = "setup" /\ u'.digest = u.digest /\ u'.channel = u.channel
    BY <2>1 DEF HostShape, SourceInv
  <2>4. QED
    BY <2>1, <2>2, <2>3 DEF Host!Binaries, Host!InstallAssumption, Host!InstalledIsVerified,
       SourceInv, Host!SourceNow
<1>35. CASE Host!DpkgRefuses
  BY <1>35 DEF Host!DpkgRefuses, Host!EndUpdate, Host!InstallAssumption,
     Host!InstalledIsVerified, Host!keyVars, Host!NoUpdate, HostShape, SourceInv,
     Host!SourceNow, Host!UpdateOnly
<1>36. CASE Host!ReportUpdate
  BY <1>36 DEF Host!EndUpdate, Host!InstallAssumption, Host!InstalledIsVerified,
     Host!keyVars, Host!NoUpdate, Host!ReportUpdate, HostShape, SourceInv, Host!SourceNow,
     Host!UpdateOnly
<1>37. CASE Host!StagedFileChanges
  BY <1>37, ZenonT(60) DEF Host!InstallAssumption, Host!InstalledIsVerified, Host!keyVars, Host!Mishap,
     HostShape, SourceInv, Host!SourceNow, Host!StagedFileChanges, Host!Binaries
<1>38. CASE UNCHANGED Host!updateVars
  BY <1>38 DEF Host!updateVars, Host!vars, Host!hostVars, Host!keyVars, SourceInv,
     Host!InstalledIsVerified, Host!SourceNow
<1>39. CASE Host!Unpack
  BY <1>39 DEF Host!EndUpdate, Host!Unpack, Host!InstallAssumption,
     Host!InstalledIsVerified, Host!keyVars, Host!NoUpdate, HostShape, SourceInv,
     Host!SourceNow, Host!UpdateOnly, Host!Binaries
<1>40. CASE Host!Measure
  BY <1>40 DEF Host!InstallAssumption, Host!InstalledIsVerified, Host!keyVars,
     Host!Measure, HostShape, SourceInv, Host!SourceNow, Host!UpdateOnly, Host!Binaries
<1>41. QED
  BY <1>1, <1>2, <1>3, <1>4, <1>5, <1>6, <1>7, <1>8, <1>9, <1>10, <1>11, <1>12, <1>13,
       <1>14, <1>15, <1>16, <1>17, <1>18, <1>19, <1>20, <1>21, <1>22, <1>23, <1>24, <1>25,
       <1>26, <1>27, <1>28, <1>29, <1>30, <1>31, <1>32, <1>33, <1>34, <1>35, <1>36, <1>37,
       <1>38, <1>39, <1>40 DEF Host!UpdateNext, Host!UpdateCommand, Host!Setup, Host!Environment

(* Every step keeps the daemon on the published build. *)
LEMMA DaemonStep ==
  ASSUME Host!InstallAssumption, HostShape, SourceInv, DaemonInv, [Host!UpdateNext]_(Host!updateVars)
  PROVE  DaemonInv'
<1>1. CASE Host!RunSetup /\ UNCHANGED <<u, copy, early, late>>
  BY <1>1 DEF Host!At, Host!Begin, DaemonInv, Host!hostVars, Host!Idle,
     Host!InstallAssumption, Host!keyVars, Host!LayoutIsCurrent, Host!ResolveBinarySource,
     Host!RunSetup, HostShape, SourceInv, Host!SourceNow
<1>2. CASE Host!AcquireLock /\ UNCHANGED <<u, copy, early, late>>
  BY <1>2 DEF Host!AcquireLock, Host!At, DaemonInv, Host!Goto, Host!hostVars, Host!Idle,
     Host!InstallAssumption, Host!keyVars, Host!LayoutIsCurrent, HostShape, SourceInv,
     Host!SourceNow
<1>3. CASE Host!EnsureAccounts /\ UNCHANGED <<u, copy, early, late>>
  BY <1>3 DEF Host!At, DaemonInv, Host!EndWith, Host!EnsureAccounts, Host!Goto,
     Host!hostVars, Host!Idle, Host!InstallAssumption, Host!keyVars, Host!LayoutIsCurrent,
     Host!Refuse, HostShape, SourceInv, Host!SourceNow
<1>4. CASE Host!CutoverBegin /\ UNCHANGED <<u, copy, early, late>>
  BY <1>4 DEF Host!At, Host!CutoverBegin, DaemonInv, Host!hostVars, Host!InstallAssumption,
     Host!keyVars, Host!LayoutIsCurrent, HostShape, SourceInv, Host!SourceNow
<1>5. CASE Host!PublishTarget /\ UNCHANGED <<u, copy, early, late>>
  BY <1>5 DEF Host!At, DaemonInv, Host!Goto, Host!hostVars, Host!InstallAssumption,
     Host!keyVars, Host!LayoutIsCurrent, Host!PublishTarget, HostShape, SourceInv,
     Host!SourceNow
<1>6. CASE Host!PublishAliases /\ UNCHANGED <<u, copy, early, late>>
  BY <1>6 DEF Host!At, DaemonInv, Host!Goto, Host!hostVars, Host!InstallAssumption,
     Host!keyVars, Host!LayoutIsCurrent, Host!PublishAliases, HostShape, SourceInv,
     Host!SourceNow
<1>7. CASE Host!InstallConfig /\ UNCHANGED <<u, copy, early, late>>
  BY <1>7 DEF Host!At, DaemonInv, Host!EndWith, Host!Goto, Host!hostVars, Host!Idle,
     Host!InstallAssumption, Host!InstallConfig, Host!keyVars, Host!LayoutIsCurrent,
     Host!Refuse, HostShape, SourceInv, Host!SourceNow
<1>8. CASE Host!InstallUnits /\ UNCHANGED <<u, copy, early, late>>
  BY <1>8 DEF Host!At, DaemonInv, Host!Goto, Host!hostVars, Host!InstallAssumption,
     Host!InstallUnits, Host!keyVars, Host!LayoutIsCurrent, HostShape, SourceInv,
     Host!SourceNow
<1>9. CASE Host!ResetBegin /\ UNCHANGED <<u, copy, early, late>>
  BY <1>9 DEF Host!At, DaemonInv, Host!hostVars, Host!InstallAssumption, Host!keyVars,
     Host!LayoutIsCurrent, Host!ResetBegin, HostShape, SourceInv, Host!SourceNow
<1>10. CASE Host!Wipe /\ UNCHANGED <<u, copy, early, late>>
  BY <1>10 DEF Host!At, DaemonInv, Host!hostVars, Host!InstallAssumption, Host!keyVars,
     Host!LayoutIsCurrent, Host!MasterKey, Host!SealedKey, HostShape, SourceInv,
     Host!SourceNow, Host!Wipe
<1>11. CASE Host!ResetEnds /\ UNCHANGED <<u, copy, early, late>>
  BY <1>11 DEF Host!At, DaemonInv, Host!Goto, Host!hostVars, Host!InstallAssumption,
     Host!keyVars, Host!LayoutIsCurrent, Host!ResetEnds, HostShape, SourceInv,
     Host!SourceNow
<1>12. CASE Host!ProvisionExisting /\ UNCHANGED <<u, copy, early, late>>
  BY <1>12 DEF Host!At, DaemonInv, Host!EndWith, Host!hostVars, Host!Idle,
     Host!InstallAssumption, Host!keyVars, Host!LayoutIsCurrent, Host!ProvisionExisting,
     Host!Refuse, HostShape, SourceInv, Host!SourceNow
<1>13. CASE Host!ProvisionFresh /\ UNCHANGED <<u, copy, early, late>>
  BY <1>13, ZenonT(60) DEF Host!At, DaemonInv, Host!EndWith, Host!hostVars, Host!Idle,
     Host!InstallAssumption, Host!keyVars, Host!LayoutIsCurrent, Host!ProvisionFresh,
     Host!Refuse, HostShape, SourceInv, Host!SourceNow, Host!StateIsEmpty
<1>14. CASE Host!LinkKeyFile /\ UNCHANGED <<u, copy, early, late>>
  BY <1>14 DEF Host!At, DaemonInv, Host!Goto, Host!hostVars, Host!InstallAssumption,
     Host!keyVars, Host!LayoutIsCurrent, Host!LinkKeyFile, Host!Remnant, HostShape,
     SourceInv, Host!SourceNow
<1>15. CASE Host!RecordCustody /\ UNCHANGED <<u, copy, early, late>>
  BY <1>15 DEF Host!At, DaemonInv, Host!Goto, Host!hostVars, Host!InstallAssumption,
     Host!keyVars, Host!LayoutIsCurrent, Host!RecordCustody, HostShape, SourceInv,
     Host!SourceNow
<1>16. CASE Host!InitLockdownRecord /\ UNCHANGED <<u, copy, early, late>>
  BY <1>16 DEF Host!At, DaemonInv, Host!Goto, Host!hostVars, Host!InitLockdownRecord,
     Host!InstallAssumption, Host!keyVars, Host!LayoutIsCurrent, Host!Remnant, HostShape,
     SourceInv, Host!SourceNow
<1>17. CASE Host!LinkRecord /\ UNCHANGED <<u, copy, early, late>>
  BY <1>17 DEF Host!At, DaemonInv, Host!Goto, Host!hostVars, Host!InstallAssumption,
     Host!keyVars, Host!LayoutIsCurrent, Host!LinkRecord, Host!Remnant, HostShape,
     SourceInv, Host!SourceNow
<1>18. CASE Host!ClearCatalog /\ UNCHANGED <<u, copy, early, late>>
  BY <1>18 DEF Host!At, Host!ClearCatalog, DaemonInv, Host!Goto, Host!hostVars,
     Host!InstallAssumption, Host!keyVars, Host!LayoutIsCurrent, HostShape, SourceInv,
     Host!SourceNow
<1>19. CASE Host!SeedCatalog /\ UNCHANGED <<u, copy, early, late>>
  BY <1>19 DEF Host!At, DaemonInv, Host!Goto, Host!hostVars, Host!InstallAssumption,
     Host!keyVars, Host!LayoutIsCurrent, Host!SeedCatalog, HostShape, SourceInv,
     Host!SourceNow
<1>20. CASE Host!CutoverFinish /\ UNCHANGED <<u, copy, early, late>>
  BY <1>20 DEF Host!At, Host!Boot, Host!BootReachesStores, Host!BootServes,
     Host!CutoverFinish, DaemonInv, Host!Goto, Host!hostVars, Host!InstallAssumption,
     Host!KeyOfRung, Host!keyVars, Host!LayoutIsCurrent, HostShape, SourceInv,
     Host!SourceNow
<1>21. CASE Host!EnsureServiceLive /\ UNCHANGED <<u, copy, early, late>>
  BY <1>21 DEF Host!At, Host!Boot, Host!BootReachesStores, Host!BootServes, DaemonInv,
     Host!EndWith, Host!EnsureServiceLive, Host!hostVars, Host!Idle, Host!InstallAssumption,
     Host!KeyOfRung, Host!keyVars, Host!LayoutIsCurrent, HostShape, SourceInv,
     Host!SourceNow
<1>22. CASE Host!FailStep /\ UNCHANGED <<u, copy, early, late>>
  BY <1>22 DEF DaemonInv, Host!EndWith, Host!FailStep, Host!hostVars, Host!Idle,
     Host!InstallAssumption, Host!keyVars, Host!LayoutIsCurrent, Host!Mishap, Host!Remnant,
     HostShape, SourceInv, Host!SourceNow
<1>23. CASE Host!KillSetup /\ UNCHANGED <<u, copy, early, late>>
  BY <1>23 DEF Host!At, DaemonInv, Host!hostVars, Host!Idle, Host!InstallAssumption,
     Host!keyVars, Host!KillSetup, Host!LayoutIsCurrent, Host!Mishap, HostShape, SourceInv,
     Host!SourceNow
<1>24. CASE Host!Reboot /\ UNCHANGED <<u, copy, early, late>>
  BY <1>24 DEF Host!Boot, Host!BootReachesStores, Host!BootServes, DaemonInv, Host!hostVars,
     Host!Idle, Host!InstallAssumption, Host!KeyOfRung, Host!keyVars, Host!LayoutIsCurrent,
     Host!Mishap, Host!Reboot, HostShape, SourceInv, Host!SourceNow
<1>25. CASE Host!StartByHand /\ UNCHANGED <<u, copy, early, late>>
  BY <1>25 DEF Host!At, Host!Boot, Host!BootReachesStores, Host!BootServes, DaemonInv,
     Host!hostVars, Host!InstallAssumption, Host!KeyOfRung, Host!keyVars,
     Host!LayoutIsCurrent, Host!Mishap, HostShape, SourceInv, Host!SourceNow,
     Host!StartByHand
<1>26. CASE Host!StopByHand /\ UNCHANGED <<u, copy, early, late>>
  BY <1>26 DEF DaemonInv, Host!hostVars, Host!InstallAssumption, Host!keyVars,
     Host!LayoutIsCurrent, Host!Mishap, HostShape, SourceInv, Host!SourceNow,
     Host!StopByHand
<1>27. CASE Host!StartUpdate
  BY <1>27 DEF Host!ClassifyChannel, DaemonInv, Host!InstallAssumption, Host!keyVars,
     Host!LayoutIsCurrent, Host!NoUpdate, Host!PlanOf, HostShape, SourceInv, Host!SourceNow,
     Host!StartUpdate, Host!UpdateOnly
<1>28. CASE Host!Download
  BY <1>28 DEF DaemonInv, Host!Download, Host!EndUpdate, Host!InstallAssumption,
     Host!keyVars, Host!LayoutIsCurrent, Host!NoUpdate, HostShape, SourceInv,
     Host!SourceNow, Host!UpdateOnly, Host!VerifyBytes
<1>29. CASE Host!Elevate
  BY <1>29 DEF DaemonInv, Host!Elevate, Host!InstallAssumption, Host!keyVars,
     Host!LayoutIsCurrent, HostShape, SourceInv, Host!SourceNow, Host!UpdateOnly
<1>30. CASE Host!RunHandedCommand
  BY <1>30 DEF DaemonInv, Host!InstallAssumption, Host!keyVars, Host!LayoutIsCurrent,
     Host!RunHandedCommand, HostShape, SourceInv, Host!SourceNow, Host!UpdateOnly
<1>31. CASE Host!ApplyTarball
  BY <1>31 DEF Host!ApplyTarball, Host!At, Host!Begin, DaemonInv, Host!EndUpdate, Host!Idle,
     Host!InstallAssumption, Host!keyVars, Host!LayoutIsCurrent, Host!NoUpdate, HostShape,
     SourceInv, Host!SourceNow
<1>32. CASE Host!ApplyDeb
  BY <1>32 DEF Host!ApplyDeb, DaemonInv, Host!InstallAssumption, Host!keyVars,
     Host!LayoutIsCurrent, HostShape, SourceInv, Host!SourceNow, Host!UpdateOnly
<1>33. CASE Host!HashCopy
  BY <1>33 DEF DaemonInv, Host!EndUpdate, Host!HashCopy, Host!InstallAssumption,
     Host!keyVars, Host!LayoutIsCurrent, Host!NoUpdate, HostShape, SourceInv,
     Host!SourceNow, Host!UpdateOnly
<1>34. CASE Host!RunDpkg
  BY <1>34 DEF Host!At, Host!Begin, DaemonInv, Host!Idle, Host!InstallAssumption,
     Host!keyVars, Host!LayoutIsCurrent, Host!RunDpkg, HostShape, SourceInv, Host!SourceNow
<1>35. CASE Host!DpkgRefuses
  BY <1>35 DEF DaemonInv, Host!DpkgRefuses, Host!EndUpdate, Host!InstallAssumption,
     Host!keyVars, Host!LayoutIsCurrent, Host!NoUpdate, HostShape, SourceInv,
     Host!SourceNow, Host!UpdateOnly
<1>36. CASE Host!ReportUpdate
  BY <1>36 DEF DaemonInv, Host!EndUpdate, Host!InstallAssumption, Host!keyVars,
     Host!LayoutIsCurrent, Host!NoUpdate, Host!ReportUpdate, HostShape, SourceInv,
     Host!SourceNow, Host!UpdateOnly
<1>37. CASE Host!StagedFileChanges
  BY <1>37 DEF DaemonInv, Host!InstallAssumption, Host!keyVars, Host!LayoutIsCurrent,
     Host!Mishap, HostShape, SourceInv, Host!SourceNow, Host!StagedFileChanges
<1>38. CASE UNCHANGED Host!updateVars
  BY <1>38 DEF Host!LayoutIsCurrent, Host!SourceNow, Host!updateVars, Host!vars,
     Host!hostVars, Host!keyVars, DaemonInv
<1>39. CASE Host!Unpack
  BY <1>39 DEF DaemonInv, Host!EndUpdate, Host!Unpack, Host!InstallAssumption,
     Host!keyVars, Host!LayoutIsCurrent, Host!NoUpdate, HostShape, SourceInv,
     Host!SourceNow, Host!UpdateOnly
<1>40. CASE Host!Measure
  BY <1>40 DEF DaemonInv, Host!InstallAssumption, Host!keyVars, Host!LayoutIsCurrent,
     Host!Measure, HostShape, SourceInv, Host!SourceNow, Host!UpdateOnly
<1>41. QED
  BY <1>1, <1>2, <1>3, <1>4, <1>5, <1>6, <1>7, <1>8, <1>9, <1>10, <1>11, <1>12, <1>13,
       <1>14, <1>15, <1>16, <1>17, <1>18, <1>19, <1>20, <1>21, <1>22, <1>23, <1>24, <1>25,
       <1>26, <1>27, <1>28, <1>29, <1>30, <1>31, <1>32, <1>33, <1>34, <1>35, <1>36, <1>37,
       <1>38, <1>39, <1>40 DEF Host!UpdateNext, Host!UpdateCommand, Host!Setup, Host!Environment

(* Every step keeps the whole invariant. *)
UpdateInv == HostShape /\ KeyInv /\ SourceInv /\ DaemonInv
(* The invariant holds throughout setup, reset and update. *)
LEMMA UpdateInvariant == ASSUME Host!InstallAssumption PROVE Host!UpdateSpec => []UpdateInv
<1>1. Host!UpdateInit => UpdateInv
  BY Host!InstallAssumption DEF Host!UpdateInit, Host!Init, UpdateInv, HostShape, KeyInv,
     Host!KeyNeverOrphansVault, SourceInv, Host!SourceNow, Host!InstalledIsVerified,
     DaemonInv, Host!LayoutIsCurrent, Host!Idle, Host!NoUpdate, Host!InstallAssumption
<1>2. UpdateInv /\ [Host!UpdateNext]_(Host!updateVars) => UpdateInv'
  BY Host!InstallAssumption, HostShapeStep, KeyStep, SourceStep, DaemonStep DEF UpdateInv
<1>3. QED
  BY <1>1, <1>2, PTL DEF Host!UpdateSpec

(* The composition implements the host: the other parts leave it alone. *)
LEMMA ImplementsHost == PartSpec => Host!UpdateSpec
<1>1. PartInit => Host!UpdateInit
  BY DEF PartInit
<1>2. [PartNext]_partVars => [Host!UpdateNext]_(Host!updateVars)
  BY DEF PartNext, RulesPart, ActionPart, MoneyPart, HostPart, partVars, hostState,
     Host!updateVars, Host!vars, Host!hostVars, Host!keyVars
<1>3. QED
  BY <1>1, <1>2, PTL DEF PartSpec, Host!UpdateSpec

(* No interrupted, repeated, reset or failing setup, and no update around  *)
(* it, leaves a key beside a vault that another key encrypts               *)
(* (refuse_fresh_key_over_state, the key's write, link and sealing).       *)
THEOREM KeySafe == PartSpec => []KeyNeverOrphansVault
<1>1. UpdateInv => KeyNeverOrphansVault
  BY DEF UpdateInv, KeyInv, KeyNeverOrphansVault
<1>2. QED
  BY <1>1, PipelineAssumption, ImplementsHost, UpdateInvariant, PTL

(* The daemon a completed setup leaves running is the build it published,  *)
(* and the build an update published is the one the release's checksum     *)
(* named: always on a packaged box, and on a tarball box unless the staged *)
(* files changed before the unpacked binary's digest was taken or after    *)
(* the privileged half took its own (ServiceCutover, install_tarball,      *)
(* run_apply).                                                             *)
THEOREM VerifiedRuns == PartSpec => []RunsWhatWasVerified
<1>1. UpdateInv => RunsWhatWasVerified
  BY DEF UpdateInv, SourceInv, DaemonInv, RunsWhatWasVerified, Host!DaemonOnPublishedBuild
<1>2. QED
  BY <1>1, PipelineAssumption, ImplementsHost, UpdateInvariant, PTL

-----------------------------------------------------------------------------
(* A money effect and its retries: the inductive invariant. *)

(* The grant exists; it is being executed. *)
Row(i) == grants[i].status # "absent"
Busy(i) == run.stage # "idle" /\ run.id = i

GrantFields == {"status", "effect", "key", "parent", "deadline", "expiry", "frozen", "evidence",
                "gen", "fp", "build", "lease", "start", "term", "abandoned"}

(* The rows, mints, keys and the step in progress keep their fields. *)
MoneyShape ==
    /\ DOMAIN grants = Money!Ids /\ DOMAIN mint = Money!Ids /\ DOMAIN ledger = Money!Ids
    /\ used \in Nat /\ used <= MaxGrants /\ now \in Nat
    /\ \A i \in Money!Ids : "status" \in DOMAIN grants[i] /\ (Row(i) => GrantFields \subseteq DOMAIN grants[i])
    /\ \A i \in Money!Ids : Row(i) => grants[i].expiry \in Nat /\ grants[i].deadline \in Nat
    /\ \A i \in Money!Ids : "state" \in DOMAIN mint[i]
    /\ \A i \in Money!Ids : mint[i].state = "held" => mint[i].expires \in Nat
    /\ \A i \in Money!Ids : "landed" \in DOMAIN ledger[i]
    /\ "stage" \in DOMAIN req
    /\ req.stage \in {"idle", "resolving", "resolved", "debited"}
    /\ req.stage # "idle" => {"amount", "parent", "gen", "fp", "deadline"} \subseteq DOMAIN req
    /\ req.stage \in {"resolved", "debited"} => "frozen" \in DOMAIN req
    /\ req.stage \in {"resolving", "resolved"} => used < MaxGrants
    /\ "stage" \in DOMAIN run
    /\ run.stage \in {"idle", "claimed", "started", "answered", "recorded"}
    /\ run.stage # "idle" => "id" \in DOMAIN run /\ run.id \in Money!Ids
    /\ run.stage = "answered" => {"kind", "body"} \subseteq DOMAIN run

(* The terminals a money grant may carry. *)
Told ==
    {Money!PreEffect("bare"), Money!PreEffect("error"),
     [shape |-> "error", invoked |-> TRUE, effect |-> "ambiguous"],
     [shape |-> "failed", invoked |-> TRUE, effect |-> "ambiguous"],
     [shape |-> "failed", invoked |-> TRUE, effect |-> "definitely_failed"],
     [shape |-> "ok", invoked |-> TRUE, effect |-> "succeeded"]}

(* A grant is claimed, announced and ended in this order. *)
RowOK(g) ==
    /\ g.status \in {"approved", "executing", "executed", "expired"}
    /\ g.term = Money!NoTerm \/ g.term \in Told
    /\ g.term # Money!NoTerm => /\ g.start \/ g.term = Money!PreEffect("bare")
                                /\ g.status \in {"executing", "executed"}
    /\ g.status = "approved" => g.lease = -1
    /\ g.lease = -1 => g.status \in {"approved", "expired"} /\ ~g.start /\ g.term = Money!NoTerm
    /\ g.status = "executed" => g.term # Money!NoTerm

(* What the request and the execution in progress rely on. *)
RunInv ==
    /\ \A i \in Money!Ids : Row(i) => i <= used /\ RowOK(grants[i])
    /\ run.stage # "idle" => req.stage = "idle" /\ grants[run.id].status = "executing"
    /\ run.stage \in {"claimed", "started", "answered"} => grants[run.id].term = Money!NoTerm
    /\ run.stage = "claimed" => ~grants[run.id].start
    /\ run.stage \in {"started", "answered"} => grants[run.id].start
    /\ run.stage = "recorded" => grants[run.id].term # Money!NoTerm
    /\ req.stage = "debited" => used >= 1 /\ ~Row(used) /\ mint[used].state # "released"
    /\ \A i \in Money!Ids : i > used => mint[i].state = "none"

(* The outcome is unknown; or it is known that the adapter was not entered. *)
Doubt(g) == IF g.term # Money!NoTerm THEN g.term.effect = "ambiguous"
            ELSE g.start /\ g.status \in {"executing", "expired"}
Never(g) == g.term # Money!NoTerm /\ g.term.effect = "definitely_pre_effect"
Settled(i) == (Doubt(grants[i]) \/ Never(grants[i])) /\ ~Busy(i)

(* A retry carries its effect's key and frozen request, and is minted only *)
(* for an effect whose original outcome is unknown.                        *)
Kin(i) ==
    LET g == grants[i]
        e == g.effect
    IN  /\ e \in Money!Ids /\ Row(e) /\ grants[e].effect = e /\ grants[e].parent = 0
        /\ g.key = e /\ g.frozen = grants[e].frozen
        /\ g.parent = 0 => e = i
        /\ g.parent # 0 => /\ g.parent \in Money!Ids /\ g.parent < i
                           /\ Row(g.parent) /\ grants[g.parent].effect = e
                           /\ Doubt(grants[e]) /\ ~Busy(e)

LineInv ==
    \A i \in Money!Ids : Row(i) => IF verb \in Money!MoneyVerbs THEN Kin(i) ELSE grants[i].effect = 0

(* Every attempt but the newest is over, and none of those is final. *)
SettledInv ==
    \A i, j \in Money!Ids :
        Row(i) /\ Row(j) /\ grants[i].effect # 0 /\ grants[i].effect = grants[j].effect /\ i < j
        => Settled(i)

(* A retry in progress names an attempt in doubt, of a settled effect. *)
AskInv ==
    req.stage # "idle" /\ req.parent # 0 =>
        /\ req.parent \in Money!Ids /\ Row(req.parent) /\ grants[req.parent].effect # 0
        /\ Doubt(grants[req.parent])
        /\ \A j \in Money!Ids : Row(j) /\ grants[j].effect = grants[req.parent].effect => Settled(j)
        /\ req.stage \in {"resolved", "debited"} => req.frozen = grants[req.parent].frozen
        /\ req.stage = "debited" => mint[used].state = "none"

(* A mint is given back only for a grant that can no longer move money. *)
Lapsed(g) ==
    \/ g.status = "approved" /\ now > g.expiry
    \/ g.status = "expired" /\ g.lease = -1
    \/ g.term # Money!NoTerm /\ ~g.term.invoked

MintInv ==
    \A i \in Money!Ids : Row(i) =>
        /\ mint[i].state = "released" => Lapsed(grants[i])
        /\ grants[i].parent # 0 => mint[i].state = "none"

(* A key has landed only after its owner's adapter was announced. *)
LandInv ==
    verb \in Money!MoneyVerbs =>
        /\ \A k \in Money!Ids : ledger[k].landed = 1 =>
             /\ Row(k) /\ grants[k].effect = k /\ grants[k].start
             /\ grants[k].term # Money!NoTerm => grants[k].term.invoked
             /\ ~(run.stage \in {"claimed", "started"} /\ run.id = k)
        /\ run.stage = "answered" /\ run.kind = "body" => ledger[grants[run.id].key].landed = 1
        /\ \A i \in Money!Ids : Row(i) /\ grants[i].term # Money!NoTerm /\ grants[i].term.effect = "succeeded"
             => ledger[grants[i].key].landed = 1

MoneyInv == MoneyShape /\ RunInv /\ LineInv /\ SettledInv /\ AskInv /\ MintInv /\ LandInv

-----------------------------------------------------------------------------
(* What the actions do to the rows, field by field. *)

(* The fields a row froze; and a step that changes no other row. *)
Same(i) ==
    /\ grants'[i].effect = grants[i].effect /\ grants'[i].key = grants[i].key
    /\ grants'[i].parent = grants[i].parent /\ grants'[i].frozen = grants[i].frozen
    /\ grants'[i].expiry = grants[i].expiry /\ grants'[i].deadline = grants[i].deadline

Alone(i) ==
    /\ DOMAIN grants' = Money!Ids
    /\ \A j \in Money!Ids : j # i => grants'[j] = grants[j]
    /\ DOMAIN grants'[i] = DOMAIN grants[i]
    /\ Same(i)

(* A claim leases the grant and leaves what it froze. *)
LEMMA ClaimFacts ==
  ASSUME MoneyShape, NEW i \in Money!Ids, Money!Claim(i)
  PROVE  /\ Alone(i) /\ Row(i)
         /\ grants'[i].status = "executing" /\ grants'[i].lease = now + LeaseTTL
         /\ grants'[i].start = grants[i].start /\ grants'[i].term = grants[i].term
         /\ grants[i].status = "approved" /\ now <= grants[i].expiry
<1>1. grants[i].status = "approved" /\ now <= grants[i].expiry /\ Row(i)
  BY DEF Money!Claim, Money!Claimable, Row
<1>2. GrantFields \subseteq DOMAIN grants[i] /\ DOMAIN grants = Money!Ids
  BY <1>1 DEF MoneyShape
<1>3. grants' = [grants EXCEPT ![i].status = "executing", ![i].lease = now + LeaseTTL]
  BY DEF Money!Claim
<1>4. grants' = [grants EXCEPT ![i] = [[grants[i] EXCEPT !.status = "executing"] EXCEPT !.lease = now + LeaseTTL]]
  BY <1>2, <1>3
<1>5. QED
  BY <1>1, <1>2, <1>4 DEF Alone, Same, GrantFields

(* A terminal is written on one row. *)
LEMMA TerminateFacts ==
  ASSUME MoneyShape, NEW i \in Money!Ids, Row(i), NEW t, Money!Terminate(i, t)
  PROVE  /\ Alone(i) /\ grants'[i].term = t
         /\ grants'[i].status = grants[i].status /\ grants'[i].lease = grants[i].lease
         /\ grants'[i].start = grants[i].start
<1>1. GrantFields \subseteq DOMAIN grants[i] /\ DOMAIN grants = Money!Ids
  BY DEF MoneyShape
<1>2. grants' = [grants EXCEPT ![i] = [grants[i] EXCEPT !.term = t]]
  BY <1>1 DEF Money!Terminate
<1>3. QED
  BY <1>1, <1>2 DEF Alone, Same, GrantFields

(* The announcement of the effect marks its row. *)
LEMMA StartFacts ==
  ASSUME MoneyShape, RunInv, Money!StartEffect
  PROVE  LET i == run.id IN
         /\ i \in Money!Ids /\ Row(i) /\ Alone(i) /\ grants'[i].start
         /\ grants'[i].status = grants[i].status /\ grants'[i].lease = grants[i].lease
         /\ grants'[i].term = grants[i].term
<1> DEFINE i == run.id
<1>1. i \in Money!Ids /\ Row(i)
  BY DEF MoneyShape, RunInv, Money!StartEffect, Row
<1>2. GrantFields \subseteq DOMAIN grants[i] /\ DOMAIN grants = Money!Ids
  BY <1>1 DEF MoneyShape
<1>3. grants' = [grants EXCEPT ![i] = [grants[i] EXCEPT !.start = TRUE]]
  BY <1>1, <1>2 DEF Money!StartEffect
<1>4. QED
  BY <1>1, <1>2, <1>3 DEF Alone, Same, GrantFields

(* The row follows its terminal. *)
LEMMA FinishFacts ==
  ASSUME MoneyShape, RunInv, Money!Finish
  PROVE  LET i == run.id IN
         /\ i \in Money!Ids /\ Row(i) /\ Alone(i) /\ grants'[i].status = "executed"
         /\ grants'[i].lease = grants[i].lease /\ grants'[i].start = grants[i].start
         /\ grants'[i].term = grants[i].term
<1> DEFINE i == run.id
<1>1. i \in Money!Ids /\ Row(i)
  BY DEF MoneyShape, RunInv, Money!Finish, Row
<1>2. GrantFields \subseteq DOMAIN grants[i] /\ DOMAIN grants = Money!Ids
  BY <1>1 DEF MoneyShape
<1>3. grants' = [grants EXCEPT ![i] = [grants[i] EXCEPT !.status = "executed"]]
  BY <1>1, <1>2 DEF Money!Finish
<1>4. QED
  BY <1>1, <1>2, <1>3 DEF Alone, Same, GrantFields

(* Only a grant nobody claimed expires. *)
LEMMA ExpireFacts ==
  ASSUME MoneyShape, NEW i \in Money!Ids, Money!Expire(i)
  PROVE  /\ Alone(i) /\ Row(i) /\ grants'[i].status = "expired"
         /\ grants'[i].lease = grants[i].lease /\ grants'[i].start = grants[i].start
         /\ grants'[i].term = grants[i].term /\ grants[i].status = "approved"
<1>1. grants[i].status = "approved" /\ Row(i)
  BY DEF Money!Expire, Row
<1>2. GrantFields \subseteq DOMAIN grants[i] /\ DOMAIN grants = Money!Ids
  BY <1>1 DEF MoneyShape
<1>3. grants' = [grants EXCEPT ![i] = [grants[i] EXCEPT !.status = "expired"]]
  BY <1>2 DEF Money!Expire
<1>4. QED
  BY <1>1, <1>2, <1>3 DEF Alone, Same, GrantFields

(* Only a claimed grant without a terminal is abandoned. *)
LEMMA AbandonFacts ==
  ASSUME MoneyShape, NEW i \in Money!Ids, Money!Abandon(i)
  PROVE  /\ Alone(i) /\ Row(i) /\ grants'[i].status = "expired"
         /\ grants'[i].lease = grants[i].lease /\ grants'[i].start = grants[i].start
         /\ grants'[i].term = grants[i].term
         /\ grants[i].status = "executing" /\ grants[i].term = Money!NoTerm
<1>1. grants[i].status = "executing" /\ grants[i].term = Money!NoTerm /\ Row(i)
  BY DEF Money!Abandon, Row
<1>2. GrantFields \subseteq DOMAIN grants[i] /\ DOMAIN grants = Money!Ids
  BY <1>1 DEF MoneyShape
<1>3. grants' = [grants EXCEPT ![i] = [[grants[i] EXCEPT !.status = "expired"] EXCEPT !.abandoned = TRUE]]
  BY <1>2 DEF Money!Abandon
<1>4. QED
  BY <1>1, <1>2, <1>3 DEF Alone, Same, GrantFields

(* Authenticating a lineage closes rows whose terminal is written, and     *)
(* gives back the mint of one that never began.                            *)
LEMMA AskFacts ==
  ASSUME MoneyShape, RunInv, NEW a, NEW e, Money!Ask(a, e)
  PROVE  /\ DOMAIN grants' = Money!Ids /\ DOMAIN mint' = Money!Ids
         /\ \A i \in Money!Ids :
              /\ grants'[i].status = grants[i].status
                 \/ /\ grants[i].status = "executing" /\ grants[i].term # Money!NoTerm
                    /\ grants'[i].status = "executed"
              /\ DOMAIN grants'[i] = DOMAIN grants[i]
              /\ Row(i) => /\ Same(i) /\ grants'[i].lease = grants[i].lease
                           /\ grants'[i].start = grants[i].start
                           /\ grants'[i].term = grants[i].term
              /\ DOMAIN mint'[i] = DOMAIN mint[i]
              /\ \/ mint'[i] = mint[i]
                 \/ /\ mint[i].state = "held" /\ mint'[i].state = "released"
                    /\ grants[i].term # Money!NoTerm
                    /\ grants[i].term.effect = "definitely_pre_effect"
<1> DEFINE S == Money!Walk(e).visited
<1>1. /\ grants' = [i \in Money!Ids |-> IF i \in S THEN Money!Reconciled(i) ELSE grants[i]]
      /\ mint' = [i \in Money!Ids |->
                  IF /\ i \in S /\ grants[i].term # Money!NoTerm
                     /\ grants[i].term.effect = "definitely_pre_effect" /\ mint[i].state = "held"
                  THEN [mint[i] EXCEPT !.state = "released"] ELSE mint[i]]
  BY DEF Money!Ask, Money!ReconcileAll
<1> HIDE DEF S
<1>2. ASSUME NEW i \in Money!Ids
      PROVE  /\ grants'[i] = grants[i] \/ /\ grants[i].status = "executing" /\ grants[i].term # Money!NoTerm
                                          /\ grants'[i] = [grants[i] EXCEPT !.status = "executed"]
             /\ mint'[i] = mint[i] \/ /\ mint[i].state = "held" /\ grants[i].term # Money!NoTerm
                                      /\ grants[i].term.effect = "definitely_pre_effect"
                                      /\ mint'[i] = [mint[i] EXCEPT !.state = "released"]
  BY <1>1 DEF Money!Reconciled
<1>3. DOMAIN grants' = Money!Ids /\ DOMAIN mint' = Money!Ids
  BY <1>1
<1>4. ASSUME NEW i \in Money!Ids
      PROVE  /\ grants'[i].status = grants[i].status
                \/ /\ grants[i].status = "executing" /\ grants[i].term # Money!NoTerm
                   /\ grants'[i].status = "executed"
             /\ DOMAIN grants'[i] = DOMAIN grants[i]
             /\ Row(i) => /\ Same(i) /\ grants'[i].lease = grants[i].lease
                          /\ grants'[i].start = grants[i].start
                          /\ grants'[i].term = grants[i].term
  <2>1. "status" \in DOMAIN grants[i] /\ (Row(i) => GrantFields \subseteq DOMAIN grants[i])
    BY DEF MoneyShape
  <2>2. CASE grants'[i] = grants[i]
    BY <2>2 DEF Same
  <2>3. CASE /\ grants[i].status = "executing" /\ grants[i].term # Money!NoTerm
             /\ grants'[i] = [grants[i] EXCEPT !.status = "executed"]
    BY <2>1, <2>3 DEF Same, GrantFields, Row
  <2>4. QED
    BY <1>2, <2>2, <2>3
<1>5. ASSUME NEW i \in Money!Ids
      PROVE  /\ DOMAIN mint'[i] = DOMAIN mint[i]
             /\ \/ mint'[i] = mint[i]
                \/ /\ mint[i].state = "held" /\ mint'[i].state = "released"
                   /\ grants[i].term # Money!NoTerm
                   /\ grants[i].term.effect = "definitely_pre_effect"
  <2>1. "state" \in DOMAIN mint[i]
    BY DEF MoneyShape
  <2>2. QED
    BY <1>2, <2>1
<1>6. QED
  BY <1>3, <1>4, <1>5

(* The insertion writes the row under the id the debit took, or none. *)
LEMMA InsertFacts ==
  ASSUME Money!MoneyAssumption, MoneyShape, RunInv, Money!Insert,
         req.parent # 0 => req.parent \in Money!Ids /\ Row(req.parent)
  PROVE  /\ req'.stage = "idle" /\ used \in Money!Ids /\ ~Row(used)
         /\ \/ grants' = grants
            \/ /\ DOMAIN grants' = Money!Ids /\ mint' = mint
               /\ \A j \in Money!Ids : j # used => grants'[j] = grants[j]
               /\ DOMAIN grants'[used] = GrantFields
               /\ grants'[used].status = "approved" /\ grants'[used].lease = -1
               /\ ~grants'[used].start /\ grants'[used].term = Money!NoTerm
               /\ grants'[used].frozen = req.frozen
               /\ grants'[used].expiry \in Nat /\ grants'[used].deadline \in Nat
               /\ verb \notin Money!MoneyVerbs => grants'[used].effect = 0 /\ grants'[used].parent = 0
               /\ verb \in Money!MoneyVerbs =>
                    /\ grants'[used].parent = req.parent
                    /\ req.parent = 0 => grants'[used].effect = used /\ grants'[used].key = used
                    /\ req.parent # 0 => /\ grants'[used].effect = grants[req.parent].effect
                                         /\ grants'[used].key = grants[req.parent].key
<1>1. used \in Money!Ids /\ ~Row(used) /\ req'.stage = "idle" /\ DOMAIN grants = Money!Ids
  BY DEF MoneyShape, RunInv, Money!Insert, Money!Ids, Money!Idle
<1>2. CASE UNCHANGED grants
  BY <1>1, <1>2
<1> DEFINE m == IF verb \in Money!MoneyVerbs THEN Money!Money(used)
                ELSE [effect |-> 0, key |-> used, parent |-> 0, deadline |-> Money!Expiry(used)]
           g == [status |-> "approved", effect |-> m.effect, key |-> m.key, parent |-> m.parent,
                 deadline |-> m.deadline,
                 expiry |-> IF req.parent = 0 THEN Money!Expiry(used) ELSE m.deadline,
                 frozen |-> req.frozen, evidence |-> req.deadline, gen |-> req.gen, fp |-> req.fp,
                 build |-> template, lease |-> -1, start |-> FALSE, term |-> Money!NoTerm, abandoned |-> FALSE]
<1>3. CASE grants' = [grants EXCEPT ![used] = g] /\ mint' = mint
  <2>1. grants'[used] = g /\ DOMAIN grants' = Money!Ids /\ \A j \in Money!Ids : j # used => grants'[j] = grants[j]
    BY <1>1, <1>3
  <2>2. verb \notin Money!MoneyVerbs => m.effect = 0 /\ m.parent = 0
    OBVIOUS
  <2>3. verb \in Money!MoneyVerbs =>
          /\ m.parent = req.parent
          /\ req.parent = 0 => m.effect = used /\ m.key = used
          /\ req.parent # 0 => m.effect = grants[req.parent].effect /\ m.key = grants[req.parent].key
    BY DEF Money!Money, Money!Money_FreshKey
  <2>4. DOMAIN g = GrantFields
    BY DEF GrantFields
  <2>7. Money!Expiry(used) \in Nat
    BY <1>1 DEF Money!Expiry, MoneyShape, Money!MoneyAssumption
  <2>8. m.deadline \in Nat
    <3>1. CASE verb \in Money!MoneyVerbs /\ req.parent # 0
      <4>1. m.deadline = grants[req.parent].deadline
        BY <3>1 DEF Money!Money, Money!Money_FreshKey
      <4>2. QED
        BY <3>1, <4>1 DEF MoneyShape
    <3>2. CASE verb \in Money!MoneyVerbs /\ req.parent = 0
      <4>1. m.deadline = Money!Expiry(used)
        BY <3>2 DEF Money!Money, Money!Money_FreshKey
      <4>2. QED
        BY <2>7, <4>1
    <3>3. CASE verb \notin Money!MoneyVerbs
      BY <2>7, <3>3
    <3>4. QED
      BY <3>1, <3>2, <3>3
  <2> HIDE DEF m
  <2>5. /\ g.effect = m.effect /\ g.key = m.key /\ g.parent = m.parent /\ g.status = "approved"
        /\ g.lease = -1 /\ ~g.start /\ g.term = Money!NoTerm /\ g.frozen = req.frozen
        /\ g.expiry \in Nat /\ g.deadline \in Nat
    BY <2>7, <2>8
  <2> HIDE DEF g
  <2>6. QED
    BY <1>1, <1>3, <2>1, <2>2, <2>3, <2>4, <2>5
<1>4. QED
  BY <1>2, <1>3 DEF Money!Insert

(* Judging refuses, or debits under the next id. *)
LEMMA JudgeFacts ==
  ASSUME Money!MoneyAssumption, MoneyShape, Money!Judge
  PROVE  /\ grants' = grants /\ run' = run /\ verb' = verb /\ ledger' = ledger /\ now' = now
         /\ \/ req' = Money!Idle /\ mint' = mint /\ used' = used
            \/ /\ used' = used + 1 /\ used' \in Money!Ids /\ DOMAIN mint' = Money!Ids
               /\ \A j \in Money!Ids : j # used' => mint'[j] = mint[j]
               /\ "state" \in DOMAIN mint'[used']
               /\ \/ mint'[used'] = mint[used']
                  \/ mint'[used'].state = "held" /\ mint'[used'].expires = now + GrantTTL
               /\ req.parent # 0 => mint' = mint
               /\ used' \in Nat /\ used' <= MaxGrants
               /\ DOMAIN req' = DOMAIN req /\ req'.stage = "debited" /\ req.stage = "resolved"
               /\ req'.parent = req.parent /\ req'.frozen = req.frozen
<1>1. grants' = grants /\ run' = run /\ verb' = verb /\ ledger' = ledger /\ now' = now
  BY DEF Money!Judge, Money!Refuse
<1>2. CASE Money!Refuse
  BY <1>1, <1>2 DEF Money!Refuse
<1>3. CASE used' = used + 1
  <2>0. req.stage = "resolved"
    BY DEF Money!Judge
  <2>1. used' \in Money!Ids /\ DOMAIN mint = Money!Ids /\ "state" \in DOMAIN mint[used']
    <3>1. used \in Nat /\ used < MaxGrants /\ DOMAIN mint = Money!Ids
      BY <2>0 DEF MoneyShape
    <3>2. used' \in Money!Ids
      BY <1>3, <3>1 DEF Money!Ids, Money!MoneyAssumption
    <3>3. QED
      BY <3>1, <3>2 DEF MoneyShape
  <2>2. DOMAIN req' = DOMAIN req /\ req'.stage = "debited" /\ req'.parent = req.parent
        /\ req'.frozen = req.frozen /\ req.stage = "resolved"
    BY <1>3 DEF Money!Judge, MoneyShape, Money!Refuse
  <2>6. used' \in Nat /\ used' <= MaxGrants
    BY <2>1 DEF Money!Ids, Money!MoneyAssumption
  <2>3. CASE req.parent = 0 /\ Aggregate[fp] # "none"
    <3>1. mint' = [mint EXCEPT ![used'] = [state |-> "held", agg |-> Aggregate[fp],
                                           expires |-> now + GrantTTL]]
      BY <1>3, <2>3 DEF Money!Judge, Money!Refuse, MoneyShape
    <3>2. QED
      BY <1>1, <1>3, <2>1, <2>2, <2>3, <2>6, <3>1
  <2>4. CASE ~(req.parent = 0 /\ Aggregate[fp] # "none")
    <3>1. mint' = mint
      BY <1>3, <2>4 DEF Money!Judge, Money!Refuse, MoneyShape
    <3>2. QED
      BY <1>1, <1>3, <2>1, <2>2, <2>6, <3>1
  <2>5. QED
    BY <2>3, <2>4
<1>4. QED
  BY <1>2, <1>3 DEF Money!Judge

(* Giving a mint back touches that mint alone. *)
LEMMA ReleasedFacts ==
  ASSUME MoneyShape, NEW i \in Money!Ids, mint' = Money!Released(mint, i)
  PROVE  /\ DOMAIN mint' = Money!Ids
         /\ \A j \in Money!Ids : DOMAIN mint'[j] = DOMAIN mint[j]
         /\ \A j \in Money!Ids : j # i => mint'[j] = mint[j]
         /\ mint'[i] = mint[i] \/ (mint[i].state = "held" /\ mint'[i].state = "released")
<1>1. DOMAIN mint = Money!Ids /\ "state" \in DOMAIN mint[i]
  BY DEF MoneyShape
<1>2. CASE mint[i].state = "held"
  <2>1. mint' = [mint EXCEPT ![i] = [mint[i] EXCEPT !.state = "released"]]
    BY <1>1, <1>2 DEF Money!Released
  <2>2. QED
    BY <1>1, <1>2, <2>1
<1>3. CASE mint[i].state # "held"
  BY <1>1, <1>3 DEF Money!Released
<1>4. QED
  BY <1>2, <1>3

-----------------------------------------------------------------------------
(* The lineage of an effect. *)

(* A nonempty set of natural numbers has a least member. *)
LEMMA LeastNat ==
  ASSUME NEW T \in SUBSET Nat, T # {}
  PROVE  \E x \in T : \A y \in T : x <= y
<1> DEFINE Less == {ss \in Nat \X Nat : ss[1] < ss[2]}
<1>1. IsWellFoundedOn(Less, Nat)
  BY NatLessThanWellFounded DEF OpToRel
<1>2. PICK x \in T : \A y \in T : ~(<<y, x>> \in Less)
  BY <1>1, WFMin
<1>3. ASSUME NEW y \in T PROVE x <= y
  <2>1. <<y, x>> \notin Less
    BY <1>2
  <2>2. QED
    BY <2>1
<1>4. QED
  BY <1>3

(* A nonempty set of grants has a newest. *)
LEMMA NewestIs ==
  ASSUME Money!MoneyAssumption, NEW S \in SUBSET Money!Ids, S # {}
  PROVE  Money!Max(S) \in S /\ \A y \in S : y <= Money!Max(S)
<1> DEFINE T == {MaxGrants - i : i \in S}
<1>0. \A i \in S : i \in Nat /\ i <= MaxGrants /\ MaxGrants \in Nat
  BY DEF Money!Ids, Money!MoneyAssumption
<1>1. T \in SUBSET Nat
  BY <1>0
<1>2. T # {}
  OBVIOUS
<1>3. PICK d \in T : \A x \in T : d <= x
  BY <1>1, <1>2, LeastNat
<1>4. PICK m \in S : d = MaxGrants - m
  OBVIOUS
<1>5. \A y \in S : m >= y
  <2>1. TAKE y \in S
  <2>2. d <= MaxGrants - y
    BY <1>3
  <2>3. QED
    BY <1>0, <1>4, <2>2
<1>6. Money!Max(S) \in S /\ \A y \in S : Money!Max(S) >= y
  BY <1>5 DEF Money!Max
<1>7. QED
  BY <1>0, <1>6

(* An attempt's ancestry stays in its lineage and reaches the grant that   *)
(* the effect is named after.                                              *)
LEMMA AncestryIs ==
  ASSUME Money!MoneyAssumption, LineInv, verb \in Money!MoneyVerbs, NEW i \in Money!Ids, Row(i)
  PROVE  /\ i \in Money!Ancestry(i) /\ grants[i].effect \in Money!Ancestry(i)
         /\ \A j \in Money!Ancestry(i) : j \in Money!Ids /\ Row(j) /\ grants[j].effect = grants[i].effect
<1> DEFINE e == grants[i].effect
           line == {j \in Money!Ids : Row(j) /\ grants[j].effect = e}
           Closed(S) == i \in S /\ \A j \in S : Money!IsRetry(j) => grants[j].parent \in S
<1>1. \A j \in line : Money!IsRetry(j) => grants[j].parent \in line /\ grants[j].parent < j
  BY DEF LineInv, Kin, Money!IsRetry, Row
<1>2. \A j \in line : ~Money!IsRetry(j) => j = e
  BY DEF LineInv, Kin, Money!IsRetry, Row
<1>3. line \in SUBSET Money!Ids /\ Closed(line)
  BY <1>1
<1>4. ASSUME NEW S \in SUBSET Money!Ids, Closed(S) PROVE e \in S
  <2> DEFINE T == S \cap line
  <2>1. T \in SUBSET Nat /\ T # {}
    BY <1>4 DEF Money!Ids
  <2>2. PICK m \in T : \A y \in T : m <= y
    BY <2>1, LeastNat
  <2>3. ~Money!IsRetry(m)
    <3>1. SUFFICES ASSUME Money!IsRetry(m) PROVE FALSE
      OBVIOUS
    <3>2. grants[m].parent \in T /\ grants[m].parent < m
      BY <1>1, <1>4, <3>1
    <3>3. m \in Nat /\ grants[m].parent \in Nat
      BY <2>1, <3>2
    <3>4. QED
      BY <2>2, <3>2, <3>3
  <2>4. QED
    BY <1>2, <2>3
<1>5. e \in Money!Ids
  BY <1>3, <1>4
<1>6. Money!Ancestry(i) = {j \in Money!Ids : \A S \in SUBSET Money!Ids : Closed(S) => j \in S}
  BY DEF Money!Ancestry
<1> HIDE DEF line, e
<1>7. e \in Money!Ancestry(i) /\ i \in Money!Ancestry(i)
  BY <1>4, <1>5, <1>6
<1>8. Money!Ancestry(i) \subseteq line
  BY <1>3, <1>6
<1>9. QED
  BY <1>7, <1>8 DEF line, e

(* The owner of a reservation is the grant the effect is named after. *)
LEMMA OwnerIs ==
  ASSUME Money!MoneyAssumption, LineInv, verb \in Money!MoneyVerbs, NEW i \in Money!Ids, Row(i)
  PROVE  Money!Owner(i) = grants[i].effect
<1> DEFINE e == grants[i].effect
<1>1. e \in Money!Ancestry(i) /\ ~Money!IsRetry(e)
  BY AncestryIs DEF LineInv, Kin, Money!IsRetry
<1>2. \A j \in Money!Ancestry(i) : ~Money!IsRetry(j) => j = e
  BY AncestryIs DEF LineInv, Kin, Money!IsRetry, Row
<1>3. QED
  BY <1>1, <1>2 DEF Money!Owner

(* The terminals, and what authenticated_retry_state reads from them. *)
LEMMA ToldIs ==
  \A t \in Told :
    /\ t # Money!NoTerm /\ t.invoked \in BOOLEAN
    /\ t.effect \in {"ambiguous", "definitely_pre_effect", "succeeded", "definitely_failed"}
    /\ t.invoked <=> t.effect # "definitely_pre_effect"
    /\ Money!TerminalState(t) = CASE t.effect = "ambiguous" -> "ambiguous"
                            [] t.effect = "definitely_pre_effect" -> "pre_effect"
                            [] OTHER -> "final"
<1> SUFFICES ASSUME NEW t \in Told
             PROVE  /\ t # Money!NoTerm /\ t.invoked \in BOOLEAN
                    /\ t.effect \in {"ambiguous", "definitely_pre_effect", "succeeded", "definitely_failed"}
                    /\ t.invoked <=> t.effect # "definitely_pre_effect"
                    /\ Money!TerminalState(t) = CASE t.effect = "ambiguous" -> "ambiguous"
                                            [] t.effect = "definitely_pre_effect" -> "pre_effect"
                                            [] OTHER -> "final"
  OBVIOUS
<1>1. CASE t = Money!PreEffect("bare")
  BY <1>1 DEF Money!NoTerm, Money!PreEffect, Money!TerminalState
<1>2. CASE t = Money!PreEffect("error")
  BY <1>2 DEF Money!NoTerm, Money!PreEffect, Money!TerminalState
<1>3. CASE t = [shape |-> "error", invoked |-> TRUE, effect |-> "ambiguous"]
  BY <1>3 DEF Money!NoTerm, Money!TerminalState
<1>4. CASE t = [shape |-> "failed", invoked |-> TRUE, effect |-> "ambiguous"]
  BY <1>4 DEF Money!NoTerm, Money!TerminalState
<1>5. CASE t = [shape |-> "failed", invoked |-> TRUE, effect |-> "definitely_failed"]
  BY <1>5 DEF Money!NoTerm, Money!TerminalState
<1>6. CASE t = [shape |-> "ok", invoked |-> TRUE, effect |-> "succeeded"]
  BY <1>6 DEF Money!NoTerm, Money!TerminalState
<1>7. QED
  BY <1>1, <1>2, <1>3, <1>4, <1>5, <1>6 DEF Told

(* What authenticated_retry_state says of a row. *)
LEMMA RetryStateIs ==
  ASSUME RunInv, NEW i \in Money!Ids, Row(i)
  PROVE  /\ Money!RetryState(i) = "ambiguous" <=> Doubt(grants[i])
         /\ Money!RetryState(i) = "pre_effect" <=> Never(grants[i])
         /\ Money!RetryState(i) # "integrity"
<1>1. RowOK(grants[i])
  BY DEF RunInv
<1>2. CASE grants[i].term # Money!NoTerm
  <2>1. grants[i].term \in Told /\ Money!SequenceOK(grants[i])
    BY <1>1, <1>2 DEF RowOK, Money!SequenceOK, Money!PreEffect
  <2>2. QED
    BY <1>2, <2>1, ToldIs DEF Money!RetryState, Doubt, Never
<1>3. CASE grants[i].term = Money!NoTerm
  BY <1>3 DEF Money!RetryState, Doubt, Never
<1>4. QED
  BY <1>2, <1>3

(* The walk names an attempt in doubt only when the newest attempt of the  *)
(* effect is in doubt or never began.                                      *)
LEMMA WalkIs ==
  ASSUME Money!MoneyAssumption, RunInv, LineInv, SettledInv, run.stage = "idle",
         NEW e \in {0} \cup Money!Ids, Money!Walk(e).parent # 0
  PROVE  LET p == Money!Walk(e).parent IN
         /\ p \in Money!Ids /\ Row(p) /\ grants[p].effect = e /\ e # 0 /\ Doubt(grants[p])
         /\ \A j \in Money!Ids : Row(j) /\ grants[j].effect = e => Settled(j)
<1> DEFINE L == Money!Lineage(e)
           n == Money!Max(L)
           line == IF L = {} THEN {} ELSE Money!Ancestry(n)
           B == {i \in line : ~Money!Loads(i) \/ Money!RetryState(i) # "pre_effect"}
           stop == Money!Nearest(B)
           p == Money!Walk(e).parent
<1>1. p = IF stop # 0 /\ Money!Loads(stop) /\ Money!RetryState(stop) = "ambiguous" THEN stop ELSE 0
  BY DEF Money!Walk
<1>2. stop # 0 /\ p = stop /\ Money!Loads(stop) /\ Money!RetryState(stop) = "ambiguous"
  BY <1>1
<1>3. B # {} /\ stop = Money!Max(B) /\ L # {}
  BY <1>2 DEF Money!Nearest
<1>4. L = {j \in Money!Ids : e # 0 /\ Row(j) /\ grants[j].effect = e}
  BY DEF Money!Lineage, Money!Effect, Row
<1>5. e # 0 /\ L \in SUBSET Money!Ids
  BY <1>3, <1>4
<1>6. n \in L /\ \A j \in L : j <= n
  BY <1>3, <1>5, NewestIs
<1>7. verb \in Money!MoneyVerbs
  BY <1>4, <1>5, <1>6 DEF LineInv
<1>8. line \subseteq L /\ n \in line
  BY <1>3, <1>4, <1>6, <1>7, AncestryIs
<1>9. B \in SUBSET Money!Ids
  BY <1>8, <1>4
<1> HIDE DEF p, n, L, line
<1>10. stop \in B /\ \A j \in B : j <= stop
  BY <1>3, <1>9, NewestIs
<1>11. stop \in L /\ Doubt(grants[stop])
  BY <1>2, <1>4, <1>8, <1>10, RetryStateIs
<1>12. Doubt(grants[n]) \/ Never(grants[n])
  <2>1. CASE n \in B
    <3>1. n = stop
      <4>1. n \in Money!Ids /\ stop \in Money!Ids /\ n <= stop /\ stop <= n
        BY <1>5, <1>6, <1>10, <1>11, <2>1
      <4> HIDE DEF stop, B
      <4>2. QED
        BY <4>1 DEF Money!Ids, Money!MoneyAssumption
    <3>2. QED
      BY <1>11, <3>1
  <2>2. CASE n \notin B
    BY <1>4, <1>6, <1>8, <2>2, RetryStateIs
  <2>3. QED
    BY <2>1, <2>2
<1>13. ASSUME NEW j \in Money!Ids, Row(j), grants[j].effect = e PROVE Settled(j)
  <2>1. j \in L
    BY <1>4, <1>5, <1>13
  <2>2. CASE j = n
    BY <1>12, <2>2 DEF Settled, Busy
  <2>3. CASE j # n
    <3>1. j < n /\ n \in Money!Ids /\ Row(n) /\ grants[n].effect = e
      BY <1>4, <1>6, <2>1, <2>3 DEF Money!Ids
    <3>2. QED
      BY <1>5, <1>13, <3>1 DEF SettledInv
  <2>4. QED
    BY <2>2, <2>3
<1>14. QED
  BY <1>2, <1>4, <1>5, <1>11, <1>13 DEF p

-----------------------------------------------------------------------------
(* Every step keeps the invariant. *)

(* What a retry in progress names has a row. *)
LEMMA ParentIs ==
  ASSUME AskInv, Money!Insert, req.parent # 0
  PROVE  req.parent \in Money!Ids /\ Row(req.parent)
BY DEF AskInv, Money!Insert

(* The grant that is being executed has a row. *)
LEMMA RunFact ==
  ASSUME MoneyShape, RunInv, run.stage # "idle"
  PROVE  run.id \in Money!Ids /\ Row(run.id)
BY DEF MoneyShape, RunInv, Row

(* Every step keeps the fields. *)
LEMMA MoneyShapeStep ==
  ASSUME Money!MoneyAssumption, MoneyShape, RunInv, AskInv, [Money!Next]_(Money!vars)
  PROVE  MoneyShape'
<1>1. ASSUME NEW a, NEW e \in {0} \cup Money!Ids, Money!Ask(a, e) PROVE MoneyShape'
  BY <1>1, AskFacts, SMTT(60) DEF MoneyShape, Money!Ask, Money!Idle, Row, GrantFields, Same
<1>2. ASSUME NEW i \in Money!Ids, Money!Claim(i) PROVE MoneyShape'
  BY <1>2, ClaimFacts, ZenonT(60) DEF MoneyShape, Money!Claim, Alone, Row, Same
<1>3. ASSUME NEW i \in Money!Ids, Money!Expire(i) PROVE MoneyShape'
  BY <1>3, ExpireFacts, ReleasedFacts DEF MoneyShape, Money!Expire, Alone, Row, Same
<1>4. ASSUME NEW i \in Money!Ids, Money!Abandon(i) PROVE MoneyShape'
  BY <1>4, AbandonFacts, ZenonT(60) DEF MoneyShape, Money!Abandon, Alone, Row, Same
<1>5. ASSUME NEW i \in Money!Ids, Money!Sweep(i) PROVE MoneyShape'
  BY <1>5, ReleasedFacts DEF MoneyShape, Money!Sweep, Row
<1>6. CASE Money!Resolve
  BY <1>6 DEF MoneyShape, Money!Resolve, Money!Refuse, Money!Idle, Row
<1>7. CASE Money!Judge
  BY <1>7, JudgeFacts DEF MoneyShape, Row, Money!Idle, Money!MoneyAssumption
<1>8. CASE Money!Insert
  BY <1>8, ParentIs, InsertFacts, ReleasedFacts DEF MoneyShape, Money!Insert, Money!Idle,
     Row
<1>9. CASE Money!CheckFails
  BY <1>9, RunFact, TerminateFacts DEF MoneyShape, Money!CheckFails, Money!Terminate, Alone,
     Row, Same
<1>10. CASE Money!StartEffect
  BY <1>10, StartFacts DEF MoneyShape, Money!StartEffect, Alone, Row, Same
<1>11. CASE Money!NotInvoked
  BY <1>11, RunFact, TerminateFacts DEF MoneyShape, Money!NotInvoked, Money!Terminate,
     Alone, Row, Same
<1>12. CASE Money!Invoke
  BY <1>12 DEF MoneyShape, Money!Invoke, Money!Answer, Money!Land, Row
<1>13. CASE Money!Record
  BY <1>13, RunFact, TerminateFacts DEF MoneyShape, Money!Record, Money!Terminate, Alone,
     Row, Same
<1>14. CASE Money!Finish
  BY <1>14, FinishFacts, ReleasedFacts DEF MoneyShape, Money!Finish, Money!Idle, Alone, Row,
     Same
<1>15. CASE Money!Tick
  BY <1>15 DEF MoneyShape, Money!Tick, Row
<1>16. CASE Money!Disturb
  BY <1>16 DEF MoneyShape, Money!Disturb, Row
<1>17. CASE Money!Crash
  BY <1>17 DEF MoneyShape, Money!Crash, Money!Idle, Row
<1>18. CASE UNCHANGED Money!vars
  BY <1>18 DEF MoneyShape, Money!vars, Row
<1>19. QED
  BY <1>1, <1>2, <1>3, <1>4, <1>5, <1>6, <1>7, <1>8, <1>9, <1>10, <1>11, <1>12, <1>13,
     <1>14, <1>15, <1>16, <1>17, <1>18 DEF Money!Next

(* What an answer proves is one of the terminals. *)
LEMMA TerminalOfTold ==
  \A kind, proved : Money!TerminalOf(kind, proved) \in Told
BY DEF Money!TerminalOf, Told

(* Every step keeps the order of a grant's life. *)
LEMMA RunStep ==
  ASSUME Money!MoneyAssumption, MoneyShape, RunInv, AskInv, [Money!Next]_(Money!vars)
  PROVE  RunInv'
<1>1. ASSUME NEW a, NEW e \in {0} \cup Money!Ids, Money!Ask(a, e) PROVE RunInv'
  BY <1>1, AskFacts DEF RunInv, Money!Ask, Money!Quiet, Money!Idle, Row, RowOK
<1>2. ASSUME NEW i \in Money!Ids, Money!Claim(i) PROVE RunInv'
  <2>1. RowOK(grants[i]) /\ i <= used /\ Alone(i)
    BY <1>2, ClaimFacts DEF RunInv
  <2>2. now + LeaseTTL # -1
    BY <1>2, <2>1, ClaimFacts DEF MoneyShape, Money!MoneyAssumption
  <2>3. RowOK(grants'[i])
    BY <1>2, <2>1, <2>2, ClaimFacts DEF RowOK, Money!NoTerm
  <2>4. \A j \in Money!Ids : Row(j)' => j <= used' /\ RowOK(grants'[j])
    BY <1>2, <2>1, <2>3 DEF RunInv, Alone, Row, Money!Claim
  <2>5. ~grants[i].start /\ grants[i].term = Money!NoTerm
    BY <1>2, <2>1, ClaimFacts DEF RowOK
  <2>6. /\ run' = [stage |-> "claimed", id |-> i] /\ req' = Money!Idle
        /\ UNCHANGED <<mint, used>>
    BY <1>2 DEF Money!Claim, Money!Quiet
  <2>7. ~grants'[i].start /\ grants'[i].term = Money!NoTerm /\ grants'[i].status = "executing"
    BY <1>2, <2>5, ClaimFacts
  <2>8. QED
    BY <2>4, <2>6, <2>7 DEF RunInv, Money!Idle
<1>3. ASSUME NEW i \in Money!Ids, Money!Expire(i) PROVE RunInv'
  BY <1>3, ExpireFacts, ReleasedFacts, SMTT(60) DEF RunInv, Money!Expire, Money!Quiet, Money!Idle,
     Alone, Row, RowOK
<1>4. ASSUME NEW i \in Money!Ids, Money!Abandon(i) PROVE RunInv'
  <2>1. RowOK(grants[i]) /\ i <= used /\ Alone(i)
    BY <1>4, AbandonFacts DEF RunInv
  <2>2. grants[i].lease # -1
    BY <1>4, <2>1, AbandonFacts DEF RowOK
  <2>3. RowOK(grants'[i])
    BY <1>4, <2>1, <2>2, AbandonFacts DEF RowOK, Money!NoTerm
  <2>4. \A j \in Money!Ids : Row(j)' => j <= used' /\ RowOK(grants'[j])
    BY <1>4, <2>1, <2>3 DEF RunInv, Alone, Row, Money!Abandon
  <2>5. QED
    BY <1>4, <2>1, <2>4, AbandonFacts, ZenonT(60) DEF RunInv, RowOK, Money!Abandon, Money!Quiet,
       Money!Idle
<1>5. ASSUME NEW i \in Money!Ids, Money!Sweep(i) PROVE RunInv'
  BY <1>5, ReleasedFacts DEF RunInv, Money!Sweep, Money!Quiet, Money!Idle, Row, RowOK
<1>6. CASE Money!Resolve
  BY <1>6 DEF RunInv, Money!Resolve, Money!Refuse, Money!Idle, Row, RowOK, MoneyShape
<1>7. CASE Money!Judge
  <2>1. \A j \in Money!Ids : Row(j)' => j <= used' /\ RowOK(grants'[j])
    <3>1. used' >= used /\ grants' = grants /\ used' \in Nat
      BY <1>7, JudgeFacts DEF MoneyShape
    <3>2. QED
      BY <3>1 DEF RunInv, Row, MoneyShape, Money!Ids
  <2>2. CASE used' = used
    BY <1>7, <2>1, <2>2, JudgeFacts DEF RunInv, Row, MoneyShape, Money!Idle
  <2>3. CASE used' = used + 1 /\ req'.stage = "debited"
    <3>1. used' \in Money!Ids /\ used' > used /\ used' >= 1
      BY <1>7, <2>3, JudgeFacts DEF MoneyShape
    <3>2. ~Row(used') /\ mint[used'].state = "none"
      BY <3>1 DEF RunInv, MoneyShape, Money!Ids
    <3>3. mint'[used'].state # "released" /\ \A j \in Money!Ids : j > used' => mint'[j].state = "none"
      BY <1>7, <2>3, <3>1, <3>2, JudgeFacts DEF RunInv, MoneyShape, Money!Ids
    <3>4. run.stage = "idle" /\ grants' = grants /\ run' = run
      BY <1>7, <2>3, JudgeFacts, SMTT(60) DEF RunInv, Money!Judge
    <3>5. QED
      BY <2>1, <2>3, <3>1, <3>2, <3>3, <3>4 DEF RunInv, Row
  <2>4. QED
    BY <1>7, <2>2, <2>3, JudgeFacts
<1>8. CASE Money!Insert
  BY <1>8, ParentIs, InsertFacts, ReleasedFacts DEF RunInv, Money!Insert, Money!Idle, Row,
     RowOK, MoneyShape
<1>9. CASE Money!CheckFails
  <2> DEFINE t == Money!PreEffect("bare")
  <2>1. t \in Told /\ Money!Terminate(run.id, t)
    BY <1>9 DEF Money!CheckFails, Told
  <2>2. /\ run.stage \in {"claimed", "started", "answered"} /\ UNCHANGED <<mint, used, req>>
        /\ run.id \in Money!Ids /\ Row(run.id)
    BY <1>9, RunFact DEF Money!CheckFails
  <2>3. RowOK(grants[run.id]) /\ run.id <= used /\ grants[run.id].status = "executing" /\ ~grants[run.id].start
    BY <1>9, <2>2 DEF RunInv, Money!CheckFails
  <2> HIDE DEF t
  <2>4. t # Money!NoTerm
    BY <2>1, ToldIs
  <2>5. /\ Alone(run.id) /\ grants'[run.id].term = t
        /\ grants'[run.id].status = "executing" /\ grants'[run.id].lease = grants[run.id].lease
        /\ grants'[run.id].start = grants[run.id].start
    BY <2>1, <2>2, <2>3, TerminateFacts
  <2>6. RowOK(grants'[run.id])
    BY <2>1, <2>3, <2>4, <2>5 DEF RowOK, t
  <2>7. \A j \in Money!Ids : Row(j)' => j <= used' /\ RowOK(grants'[j])
    BY <2>2, <2>3, <2>5, <2>6 DEF RunInv, Alone, Row
  <2>8. run' = [stage |-> "recorded", id |-> run.id]
    BY <2>1 DEF Money!Terminate
  <2>9. QED
    BY <2>2, <2>4, <2>5, <2>7, <2>8 DEF RunInv
<1>10. CASE Money!StartEffect
  BY <1>10, StartFacts DEF RunInv, Money!StartEffect, Alone, Row, RowOK
<1>11. CASE Money!NotInvoked
  <2> DEFINE t == Money!PreEffect("error")
  <2>1. t \in Told /\ Money!Terminate(run.id, t)
    BY <1>11 DEF Money!NotInvoked, Told
  <2>2. /\ run.stage \in {"claimed", "started", "answered"} /\ UNCHANGED <<mint, used, req>>
        /\ run.id \in Money!Ids /\ Row(run.id)
    BY <1>11, RunFact DEF Money!NotInvoked
  <2>3. RowOK(grants[run.id]) /\ run.id <= used /\ grants[run.id].status = "executing" /\ grants[run.id].start
    BY <1>11, <2>2 DEF RunInv, Money!NotInvoked
  <2> HIDE DEF t
  <2>4. t # Money!NoTerm
    BY <2>1, ToldIs
  <2>5. /\ Alone(run.id) /\ grants'[run.id].term = t
        /\ grants'[run.id].status = "executing" /\ grants'[run.id].lease = grants[run.id].lease
        /\ grants'[run.id].start = grants[run.id].start
    BY <2>1, <2>2, <2>3, TerminateFacts
  <2>6. RowOK(grants'[run.id])
    BY <2>1, <2>3, <2>4, <2>5 DEF RowOK
  <2>7. \A j \in Money!Ids : Row(j)' => j <= used' /\ RowOK(grants'[j])
    BY <2>2, <2>3, <2>5, <2>6 DEF RunInv, Alone, Row
  <2>8. run' = [stage |-> "recorded", id |-> run.id]
    BY <2>1 DEF Money!Terminate
  <2>9. QED
    BY <2>2, <2>4, <2>5, <2>7, <2>8 DEF RunInv
<1>12. CASE Money!Invoke
  BY <1>12 DEF RunInv, Money!Invoke, Money!Answer, Money!Land, Row, RowOK
<1>13. CASE Money!Record
  <2>1. PICK t \in Told : Money!Terminate(run.id, t)
    BY <1>13, TerminalOfTold DEF Money!Record
  <2>2. /\ run.stage \in {"claimed", "started", "answered"} /\ UNCHANGED <<mint, used, req>>
        /\ run.id \in Money!Ids /\ Row(run.id)
    BY <1>13, RunFact DEF Money!Record
  <2>3. RowOK(grants[run.id]) /\ run.id <= used /\ grants[run.id].status = "executing" /\ grants[run.id].start
    BY <1>13, <2>2 DEF RunInv, Money!Record
  <2>4. t # Money!NoTerm
    BY <2>1, ToldIs
  <2>5. /\ Alone(run.id) /\ grants'[run.id].term = t
        /\ grants'[run.id].status = "executing" /\ grants'[run.id].lease = grants[run.id].lease
        /\ grants'[run.id].start = grants[run.id].start
    BY <2>1, <2>2, <2>3, TerminateFacts
  <2>6. RowOK(grants'[run.id])
    BY <2>1, <2>3, <2>4, <2>5 DEF RowOK
  <2>7. \A j \in Money!Ids : Row(j)' => j <= used' /\ RowOK(grants'[j])
    BY <2>2, <2>3, <2>5, <2>6 DEF RunInv, Alone, Row
  <2>8. run' = [stage |-> "recorded", id |-> run.id]
    BY <2>1 DEF Money!Terminate
  <2>9. QED
    BY <2>2, <2>4, <2>5, <2>7, <2>8 DEF RunInv
<1>14. CASE Money!Finish
  BY <1>14, FinishFacts, ReleasedFacts DEF RunInv, Money!Finish, Money!Idle, Alone, Row,
     RowOK
<1>15. CASE Money!Tick
  BY <1>15 DEF RunInv, Money!Tick, Row, RowOK
<1>16. CASE Money!Disturb
  BY <1>16 DEF RunInv, Money!Disturb, Row, RowOK
<1>17. CASE Money!Crash
  BY <1>17 DEF RunInv, Money!Crash, Money!Idle, Row, RowOK
<1>18. CASE UNCHANGED Money!vars
  BY <1>18 DEF RunInv, Money!vars, Row, RowOK
<1>19. QED
  BY <1>1, <1>2, <1>3, <1>4, <1>5, <1>6, <1>7, <1>8, <1>9, <1>10, <1>11, <1>12, <1>13,
     <1>14, <1>15, <1>16, <1>17, <1>18 DEF Money!Next

(* A row stays, and what it froze stays with it. *)
LEMMA RowStep ==
  ASSUME Money!MoneyAssumption, MoneyShape, RunInv, AskInv, [Money!Next]_(Money!vars)
  PROVE  \A r \in Money!Ids : Row(r) => Row(r)' /\ Same(r)
<1>1. ASSUME NEW a, NEW e \in {0} \cup Money!Ids, Money!Ask(a, e) PROVE \A r \in Money!Ids : Row(r) => Row(r)' /\ Same(r)
  BY <1>1, AskFacts DEF Row
<1>2. ASSUME NEW i \in Money!Ids, Money!Claim(i) PROVE \A r \in Money!Ids : Row(r) => Row(r)' /\ Same(r)
  BY <1>2, ClaimFacts DEF Alone, Same, Row
<1>3. ASSUME NEW i \in Money!Ids, Money!Expire(i) PROVE \A r \in Money!Ids : Row(r) => Row(r)' /\ Same(r)
  BY <1>3, ExpireFacts DEF Alone, Same, Row
<1>4. ASSUME NEW i \in Money!Ids, Money!Abandon(i) PROVE \A r \in Money!Ids : Row(r) => Row(r)' /\ Same(r)
  BY <1>4, AbandonFacts DEF Alone, Same, Row
<1>5. ASSUME NEW i \in Money!Ids, Money!Sweep(i) PROVE \A r \in Money!Ids : Row(r) => Row(r)' /\ Same(r)
  BY <1>5 DEF Money!Sweep, Same, Row
<1>6. CASE Money!Resolve
  BY <1>6 DEF Money!Resolve, Money!Refuse, Same, Row
<1>7. CASE Money!Judge
  BY <1>7, JudgeFacts DEF Same, Row
<1>8. CASE Money!Insert
  BY <1>8, ParentIs, InsertFacts DEF Same, Row
<1>9. CASE Money!CheckFails
  BY <1>9, RunFact, TerminateFacts DEF Money!CheckFails, Alone, Same, Row
<1>10. CASE Money!StartEffect
  BY <1>10, StartFacts DEF Alone, Same, Row
<1>11. CASE Money!NotInvoked
  BY <1>11, RunFact, TerminateFacts DEF Money!NotInvoked, Alone, Same, Row
<1>12. CASE Money!Invoke
  BY <1>12 DEF Money!Invoke, Same, Row
<1>13. CASE Money!Record
  BY <1>13, RunFact, TerminateFacts DEF Money!Record, Alone, Same, Row
<1>14. CASE Money!Finish
  BY <1>14, FinishFacts DEF Alone, Same, Row
<1>15. CASE Money!Tick
  BY <1>15 DEF Money!Tick, Same, Row
<1>16. CASE Money!Disturb
  BY <1>16 DEF Money!Disturb, Same, Row
<1>17. CASE Money!Crash
  BY <1>17 DEF Money!Crash, Same, Row
<1>18. CASE UNCHANGED Money!vars
  BY <1>18 DEF Money!vars, Same, Row
<1>19. QED
  BY <1>1, <1>2, <1>3, <1>4, <1>5, <1>6, <1>7, <1>8, <1>9, <1>10, <1>11, <1>12, <1>13,
     <1>14, <1>15, <1>16, <1>17, <1>18 DEF Money!Next

(* An attempt that is over stays over, in doubt or not. *)
LEMMA OverStep ==
  ASSUME Money!MoneyAssumption, MoneyShape, RunInv, AskInv, [Money!Next]_(Money!vars),
         NEW r \in Money!Ids, Row(r), Settled(r)
  PROVE  Settled(r)' /\ (Doubt(grants[r]) => Doubt(grants[r])')
<1>1. ASSUME NEW a, NEW e \in {0} \cup Money!Ids, Money!Ask(a, e) PROVE Settled(r)' /\ (Doubt(grants[r]) => Doubt(grants[r])')
  BY <1>1, AskFacts DEF Settled, Doubt, Never, Busy, Money!Ask, Money!Quiet, Money!Idle
<1>2. ASSUME NEW i \in Money!Ids, Money!Claim(i) PROVE Settled(r)' /\ (Doubt(grants[r]) => Doubt(grants[r])')
  BY <1>2, ClaimFacts, ZenonT(60) DEF Settled, Doubt, Never, Busy, Alone, Money!Claim, Money!Quiet,
     Money!Idle, RunInv, RowOK, Row
<1>3. ASSUME NEW i \in Money!Ids, Money!Expire(i) PROVE Settled(r)' /\ (Doubt(grants[r]) => Doubt(grants[r])')
  BY <1>3, ExpireFacts DEF Settled, Doubt, Never, Busy, Alone, Money!Expire, Money!Quiet,
     Money!Idle, RunInv, RowOK, Row
<1>4. ASSUME NEW i \in Money!Ids, Money!Abandon(i) PROVE Settled(r)' /\ (Doubt(grants[r]) => Doubt(grants[r])')
  BY <1>4, AbandonFacts, ZenonT(60) DEF Settled, Doubt, Never, Busy, Alone, Money!Abandon, Money!Quiet,
     Money!Idle
<1>5. ASSUME NEW i \in Money!Ids, Money!Sweep(i) PROVE Settled(r)' /\ (Doubt(grants[r]) => Doubt(grants[r])')
  BY <1>5 DEF Settled, Doubt, Never, Busy, Money!Sweep
<1>6. CASE Money!Resolve
  BY <1>6 DEF Settled, Doubt, Never, Busy, Money!Resolve, Money!Refuse
<1>7. CASE Money!Judge
  BY <1>7, JudgeFacts DEF Settled, Doubt, Never, Busy
<1>8. CASE Money!Insert
  BY <1>8, ParentIs, InsertFacts DEF Settled, Doubt, Never, Busy, Money!Insert, Row
<1>9. CASE Money!CheckFails
  BY <1>9, RunFact, TerminateFacts DEF Settled, Doubt, Never, Busy, Money!CheckFails,
     Money!Terminate, Alone
<1>10. CASE Money!StartEffect
  BY <1>10, StartFacts DEF Settled, Doubt, Never, Busy, Money!StartEffect, Alone
<1>11. CASE Money!NotInvoked
  BY <1>11, RunFact, TerminateFacts DEF Settled, Doubt, Never, Busy, Money!NotInvoked,
     Money!Terminate, Alone
<1>12. CASE Money!Invoke
  BY <1>12, SMTT(60) DEF Settled, Doubt, Never, Busy, Money!Invoke, Money!Answer
<1>13. CASE Money!Record
  BY <1>13, RunFact, TerminateFacts DEF Settled, Doubt, Never, Busy, Money!Record,
     Money!Terminate, Alone
<1>14. CASE Money!Finish
  BY <1>14, FinishFacts DEF Settled, Doubt, Never, Busy, Money!Finish, Alone, Money!Idle
<1>15. CASE Money!Tick
  BY <1>15 DEF Settled, Doubt, Never, Busy, Money!Tick
<1>16. CASE Money!Disturb
  BY <1>16 DEF Settled, Doubt, Never, Busy, Money!Disturb
<1>17. CASE Money!Crash
  BY <1>17 DEF Settled, Doubt, Never, Busy, Money!Crash, Money!Idle
<1>18. CASE UNCHANGED Money!vars
  BY <1>18 DEF Settled, Doubt, Never, Busy, Money!vars
<1>19. QED
  BY <1>1, <1>2, <1>3, <1>4, <1>5, <1>6, <1>7, <1>8, <1>9, <1>10, <1>11, <1>12, <1>13,
     <1>14, <1>15, <1>16, <1>17, <1>18 DEF Money!Next

(* Only an insertion makes a row. *)
LEMMA NewRow ==
  ASSUME Money!MoneyAssumption, MoneyShape, RunInv, AskInv, [Money!Next]_(Money!vars), NEW r \in Money!Ids, ~Row(r), Row(r)'
  PROVE  Money!Insert /\ r = used
<1>1. ASSUME NEW a, NEW e \in {0} \cup Money!Ids, Money!Ask(a, e) PROVE Money!Insert /\ r = used
  BY <1>1, AskFacts DEF Row
<1>2. ASSUME NEW i \in Money!Ids, Money!Claim(i) PROVE Money!Insert /\ r = used
  BY <1>2, ClaimFacts DEF Row, Alone
<1>3. ASSUME NEW i \in Money!Ids, Money!Expire(i) PROVE Money!Insert /\ r = used
  BY <1>3, ExpireFacts DEF Row, Alone
<1>4. ASSUME NEW i \in Money!Ids, Money!Abandon(i) PROVE Money!Insert /\ r = used
  BY <1>4, AbandonFacts DEF Row, Alone
<1>5. ASSUME NEW i \in Money!Ids, Money!Sweep(i) PROVE Money!Insert /\ r = used
  BY <1>5 DEF Row, Money!Sweep
<1>6. CASE Money!Resolve
  BY <1>6 DEF Row, Money!Resolve, Money!Refuse
<1>7. CASE Money!Judge
  BY <1>7, JudgeFacts DEF Row
<1>8. CASE Money!Insert
  BY <1>8, ParentIs, InsertFacts DEF Row
<1>9. CASE Money!CheckFails
  BY <1>9, RunFact, TerminateFacts DEF Row, Money!CheckFails, Alone
<1>10. CASE Money!StartEffect
  BY <1>10, StartFacts DEF Row, Alone
<1>11. CASE Money!NotInvoked
  BY <1>11, RunFact, TerminateFacts DEF Row, Money!NotInvoked, Alone
<1>12. CASE Money!Invoke
  BY <1>12 DEF Row, Money!Invoke
<1>13. CASE Money!Record
  BY <1>13, RunFact, TerminateFacts DEF Row, Money!Record, Alone
<1>14. CASE Money!Finish
  BY <1>14, FinishFacts DEF Row, Alone
<1>15. CASE Money!Tick
  BY <1>15 DEF Row, Money!Tick
<1>16. CASE Money!Disturb
  BY <1>16 DEF Row, Money!Disturb
<1>17. CASE Money!Crash
  BY <1>17, SMTT(60) DEF Row, Money!Crash
<1>18. CASE UNCHANGED Money!vars
  BY <1>18, SMTT(60) DEF Row, Money!vars
<1>19. QED
  BY <1>1, <1>2, <1>3, <1>4, <1>5, <1>6, <1>7, <1>8, <1>9, <1>10, <1>11, <1>12, <1>13,
     <1>14, <1>15, <1>16, <1>17, <1>18 DEF Money!Next

(* The verb of a behaviour does not change. *)
LEMMA VerbStays == ASSUME [Money!Next]_(Money!vars) PROVE verb' = verb
BY DEF Money!Next, Money!vars, Money!Ask, Money!Resolve, Money!Judge, Money!Insert,
   Money!Claim, Money!Expire, Money!Abandon, Money!Sweep, Money!CheckFails,
   Money!StartEffect, Money!NotInvoked, Money!Invoke, Money!Record, Money!Finish,
   Money!Tick, Money!Disturb, Money!Crash

(* Every step keeps the lineages. *)
LEMMA LineStep ==
  ASSUME Money!MoneyAssumption, MoneyShape, RunInv, LineInv, AskInv, [Money!Next]_(Money!vars)
  PROVE  LineInv'
<1> SUFFICES ASSUME NEW r \in Money!Ids, Row(r)'
             PROVE  IF verb' \in Money!MoneyVerbs THEN Kin(r)' ELSE grants'[r].effect = 0
  BY DEF LineInv
<1>0. verb' = verb
  BY VerbStays
<1>1. CASE Row(r) /\ verb \notin Money!MoneyVerbs
  BY <1>0, <1>1, RowStep DEF LineInv, Same
<1>2. CASE Row(r) /\ verb \in Money!MoneyVerbs
  <2>0. PICK e, p : e = grants[r].effect /\ p = grants[r].parent
    OBVIOUS
  <2>1. Kin(r)
    BY <1>2 DEF LineInv
  <2>2. e \in Money!Ids /\ Row(e) /\ Row(e)' /\ Same(e) /\ Same(r)
    BY <1>2, <2>0, <2>1, RowStep DEF Kin
  <2>3. p # 0 => /\ p \in Money!Ids /\ p < r /\ Row(p) /\ grants[p].effect = e
                 /\ Row(p)' /\ Same(p) /\ Doubt(grants[e]) /\ ~Busy(e)
    BY <2>0, <2>1, RowStep DEF Kin
  <2>4. p # 0 => Settled(e)
    BY <2>3 DEF Settled
  <2>5. p # 0 => Doubt(grants[e])' /\ ~Busy(e)'
    <3>1. SUFFICES ASSUME p # 0 PROVE Doubt(grants[e])' /\ ~Busy(e)'
      OBVIOUS
    <3>2. Settled(e)' /\ (Doubt(grants[e]) => Doubt(grants[e])')
      BY <2>2, <2>4, <3>1, OverStep
    <3>3. QED
      BY <2>3, <3>1, <3>2 DEF Settled
  <2>6. Kin(r)'
    BY <2>0, <2>1, <2>2, <2>3, <2>5 DEF Kin, Same
  <2>7. QED
    BY <1>0, <1>2, <2>6
<1>3. CASE ~Row(r)
  <2>1. Money!Insert /\ r = used
    BY <1>3, NewRow
  <2>2. grants' # grants
    BY <1>3 DEF Row
  <2>3. CASE verb \notin Money!MoneyVerbs
    BY <1>0, <2>1, <2>2, <2>3, ParentIs, InsertFacts
  <2>4. CASE verb \in Money!MoneyVerbs /\ req.parent = 0
    <3>1. /\ grants'[r].parent = 0 /\ grants'[r].effect = r /\ grants'[r].key = r
      BY <2>1, <2>2, <2>4, ParentIs, InsertFacts
    <3>2. QED
      BY <1>0, <2>4, <3>1 DEF Kin
  <2>5. CASE verb \in Money!MoneyVerbs /\ req.parent # 0
    <3>0. PICK e, p : p = req.parent /\ e = grants[p].effect
      OBVIOUS
    <3>1. /\ p \in Money!Ids /\ Row(p) /\ e # 0 /\ Doubt(grants[p]) /\ req.frozen = grants[p].frozen
          /\ \A j \in Money!Ids : Row(j) /\ grants[j].effect = e => Settled(j)
      BY <2>1, <2>5, <3>0 DEF AskInv, Money!Insert
    <3>2. Kin(p)
      BY <2>5, <3>1 DEF LineInv
    <3>3. e \in Money!Ids /\ Row(e) /\ grants[e].effect = e /\ Settled(e)
      BY <3>0, <3>1, <3>2 DEF Kin
    <3>4. Doubt(grants[e])
      BY <3>0, <3>1, <3>2 DEF Kin
    <3>5. Doubt(grants[e])' /\ ~Busy(e)'
      <4>1. Settled(e)' /\ (Doubt(grants[e]) => Doubt(grants[e])')
        BY <3>3, OverStep
      <4>2. QED
        BY <3>4, <4>1 DEF Settled
    <3>6. Row(e)' /\ Same(e) /\ Row(p)' /\ Same(p)
      BY <3>1, <3>3, RowStep
    <3>7. p < r
      <4>1. p <= used /\ p # used
        BY <1>3, <2>1, <3>1 DEF RunInv
      <4>2. QED
        BY <2>1, <4>1, <3>1 DEF Money!Ids, Money!MoneyAssumption
    <3>8. /\ grants'[r].parent = p /\ grants'[r].effect = e /\ grants'[r].key = grants[p].key
          /\ grants'[r].frozen = req.frozen
      BY <2>1, <2>2, <2>5, <3>0, ParentIs, InsertFacts, SMTT(60)
    <3>9. Kin(r)'
      BY <2>5, <3>0, <3>1, <3>2, <3>3, <3>5, <3>6, <3>7, <3>8 DEF Kin, Same
    <3>10. QED
      BY <1>0, <2>5, <3>9
  <2>6. QED
    BY <2>3, <2>4, <2>5
<1>4. QED
  BY <1>1, <1>2, <1>3

(* Every step keeps the older attempts of an effect over. *)
LEMMA OlderStep ==
  ASSUME Money!MoneyAssumption, MoneyShape, RunInv, LineInv, AskInv, SettledInv, [Money!Next]_(Money!vars)
  PROVE  SettledInv'
<1> SUFFICES ASSUME NEW i \in Money!Ids, NEW j \in Money!Ids, Row(i)', Row(j)', grants'[i].effect # 0,
                    grants'[i].effect = grants'[j].effect, i < j
             PROVE  Settled(i)'
  BY DEF SettledInv
<1>1. CASE Row(i) /\ Row(j)
  <2>1. Settled(i)
    BY <1>1, RowStep DEF SettledInv, Same
  <2>2. QED
    BY <1>1, <2>1, OverStep
<1>2. CASE ~Row(i)
  <2>1. i = used /\ Money!Insert
    BY <1>2, NewRow
  <2>2. Row(j)
    BY <2>1, NewRow DEF Money!Ids, Money!MoneyAssumption
  <2>3. j <= used
    BY <2>2 DEF RunInv
  <2>4. QED
    BY <2>1, <2>3 DEF Money!Ids, Money!MoneyAssumption
<1>3. CASE Row(i) /\ ~Row(j)
  <2>1. j = used /\ Money!Insert /\ grants' # grants
    BY <1>3, NewRow DEF Row
  <2>2. grants[i].effect = grants'[j].effect /\ grants[i].effect # 0
    BY <1>3, RowStep DEF Same
  <2>3. verb \in Money!MoneyVerbs /\ Kin(i)
    BY <1>3, <2>2 DEF LineInv
  <2>4. req.parent # 0
    <3>1. SUFFICES ASSUME req.parent = 0 PROVE FALSE
      OBVIOUS
    <3>2. grants'[j].effect = used
      BY <2>1, <2>3, <3>1, ParentIs, InsertFacts
    <3>3. Row(used)
      BY <2>2, <2>3, <3>2 DEF Kin
    <3>4. QED
      BY <1>3, <2>1, <3>3
  <2>5. grants[i].effect = grants[req.parent].effect
    BY <2>1, <2>2, <2>3, <2>4, ParentIs, InsertFacts
  <2>6. Settled(i)
    BY <1>3, <2>1, <2>4, <2>5 DEF AskInv, Money!Insert
  <2>7. QED
    BY <1>3, <2>6, OverStep
<1>4. QED
  BY <1>1, <1>2, <1>3

(* What a retry in progress names stays as it was. *)
LEMMA NamedStays ==
  ASSUME Money!MoneyAssumption, MoneyShape, RunInv, AskInv, [Money!Next]_(Money!vars), ~Money!Insert, NEW p \in Money!Ids, Row(p),
         grants[p].effect # 0, Doubt(grants[p]),
         \A j \in Money!Ids : Row(j) /\ grants[j].effect = grants[p].effect => Settled(j)
  PROVE  /\ Row(p)' /\ grants'[p].effect # 0 /\ grants'[p].frozen = grants[p].frozen
         /\ Doubt(grants[p])'
         /\ \A j \in Money!Ids : Row(j)' /\ grants'[j].effect = grants'[p].effect => Settled(j)'
<1>1. Row(p)' /\ Same(p)
  BY RowStep
<1>2. Settled(p)
  OBVIOUS
<1>3. Doubt(grants[p])'
  BY <1>2, OverStep
<1>4. ASSUME NEW j \in Money!Ids, Row(j)', grants'[j].effect = grants'[p].effect PROVE Settled(j)'
  <2>1. Row(j)
    BY <1>4, NewRow
  <2>2. grants[j].effect = grants[p].effect
    BY <1>1, <1>4, <2>1, RowStep DEF Same
  <2>3. Settled(j)
    BY <2>1, <2>2, SMTT(60)
  <2>4. QED
    BY <2>1, <2>3, OverStep
<1>5. QED
  BY <1>1, <1>3, <1>4 DEF Same

(* Every step keeps what a retry in progress relies on. *)
LEMMA AskStep ==
  ASSUME Money!MoneyAssumption, MoneyShape, RunInv, LineInv, SettledInv, AskInv, [Money!Next]_(Money!vars)
  PROVE  AskInv'
<1>1. ASSUME NEW a, NEW e \in {0} \cup Money!Ids, Money!Ask(a, e) PROVE AskInv'
  <2>1. SUFFICES ASSUME req'.stage # "idle", req'.parent # 0 PROVE AskInv'
    BY DEF AskInv
  <2>2. req'.parent = Money!Walk(e).parent /\ req'.stage = "resolving"
    BY <1>1, <2>1 DEF Money!Ask, Money!Idle
  <2>0. PICK p : p = Money!Walk(e).parent
    OBVIOUS
  <2>3. run.stage = "idle" /\ ~Money!Insert
    BY <1>1 DEF Money!Ask, Money!Quiet, Money!Idle, Money!Insert
  <2>4. /\ p \in Money!Ids /\ Row(p) /\ grants[p].effect = e /\ e # 0 /\ Doubt(grants[p])
        /\ \A j \in Money!Ids : Row(j) /\ grants[j].effect = e => Settled(j)
    BY <2>0, <2>1, <2>2, <2>3, WalkIs
  <2>5. /\ Row(p)' /\ grants'[p].effect # 0 /\ Doubt(grants[p])'
        /\ \A j \in Money!Ids : Row(j)' /\ grants'[j].effect = grants'[p].effect => Settled(j)'
    BY <2>3, <2>4, NamedStays
  <2>6. QED
    BY <2>0, <2>2, <2>4, <2>5 DEF AskInv
<1>2. CASE UNCHANGED req \/ req' = Money!Idle
  <2>1. CASE req'.stage = "idle" \/ req'.parent = 0
    BY <2>1 DEF AskInv
  <2>2. CASE req' = req /\ req.stage # "idle" /\ req.parent # 0
    <3>1. ~Money!Insert /\ run.stage = "idle"
      BY <2>2, ParentIs, InsertFacts DEF RunInv
    <3>2. /\ req.parent \in Money!Ids /\ Row(req.parent)' /\ grants'[req.parent].effect # 0
          /\ grants'[req.parent].frozen = grants[req.parent].frozen /\ Doubt(grants[req.parent])'
          /\ \A j \in Money!Ids : Row(j)' /\ grants'[j].effect = grants'[req.parent].effect => Settled(j)'
      BY <2>2, <3>1, NamedStays, SMTT(60) DEF AskInv
    <3>3. req.stage = "debited" => mint' = mint /\ used' = used
      BY <2>2, <3>1 DEF Money!Next, Money!vars, Money!Ask, Money!Resolve, Money!Refuse,
         Money!Judge, Money!Insert, Money!Claim, Money!Expire, Money!Abandon, Money!Sweep,
         Money!CheckFails, Money!StartEffect, Money!NotInvoked, Money!Invoke, Money!Record,
         Money!Finish, Money!Tick, Money!Disturb, Money!Crash, Money!Quiet, Money!Idle
    <3>4. QED
      BY <2>2, <3>2, <3>3 DEF AskInv
  <2>3. QED
    BY <1>2, <2>1, <2>2 DEF Money!Idle
<1>3. CASE Money!Resolve /\ req' # Money!Idle
  <2>1. /\ req.stage = "resolving" /\ req'.stage = "resolved" /\ req'.parent = req.parent
        /\ Money!SameRequest(req'.frozen)
    BY <1>3 DEF Money!Resolve, Money!Refuse
  <2>2. CASE req.parent = 0
    BY <2>1, <2>2 DEF AskInv
  <2>3. CASE req.parent # 0
    <3>1. ~Money!Insert
      BY <2>1 DEF Money!Insert
    <3>2. /\ req.parent \in Money!Ids /\ Row(req.parent)' /\ grants'[req.parent].effect # 0
          /\ grants'[req.parent].frozen = grants[req.parent].frozen /\ Doubt(grants[req.parent])'
          /\ \A j \in Money!Ids : Row(j)' /\ grants'[j].effect = grants'[req.parent].effect => Settled(j)'
      BY <2>1, <2>3, <3>1, NamedStays DEF AskInv
    <3>3. QED
      BY <2>1, <2>3, <3>2 DEF AskInv, Money!SameRequest
  <2>4. QED
    BY <2>2, <2>3
<1>4. CASE Money!Judge /\ req' # Money!Idle
  <2>1. /\ req.stage = "resolved" /\ req'.stage = "debited" /\ req'.parent = req.parent
        /\ req'.frozen = req.frozen /\ used' \in Money!Ids /\ used' = used + 1
        /\ req.parent # 0 => mint' = mint
    BY <1>4, JudgeFacts
  <2>2. CASE req.parent = 0
    BY <2>1, <2>2 DEF AskInv
  <2>3. CASE req.parent # 0
    <3>1. ~Money!Insert
      BY <2>1 DEF Money!Insert
    <3>2. /\ req.parent \in Money!Ids /\ Row(req.parent)' /\ grants'[req.parent].effect # 0
          /\ grants'[req.parent].frozen = grants[req.parent].frozen /\ Doubt(grants[req.parent])'
          /\ \A j \in Money!Ids : Row(j)' /\ grants'[j].effect = grants'[req.parent].effect => Settled(j)'
      BY <2>1, <2>3, <3>1, NamedStays DEF AskInv
    <3>3. mint'[used'].state = "none" /\ req.frozen = grants[req.parent].frozen
      BY <2>1, <2>3 DEF RunInv, AskInv, MoneyShape, Money!Ids
    <3>4. QED
      BY <2>1, <2>3, <3>2, <3>3 DEF AskInv
  <2>4. QED
    BY <2>2, <2>3
<1>5. QED
  BY <1>1, <1>2, <1>3, <1>4 DEF Money!Next, Money!vars, Money!Insert, Money!Claim,
     Money!Expire, Money!Abandon, Money!Sweep, Money!CheckFails, Money!StartEffect,
     Money!NotInvoked, Money!Invoke, Money!Record, Money!Finish, Money!Tick, Money!Disturb,
     Money!Crash

(* The ways a mint may change. *)
Moved(r) ==
    \/ mint'[r].state = mint[r].state
    \/ /\ mint[r].state = "held" /\ mint'[r].state = "released"
       /\ Row(r) => Lapsed(grants[r])'
    \/ r = used + 1 /\ used' = r /\ mint'[r].state = "held"

(* A mint is taken by the debit alone, and given back only for what lapsed. *)
LEMMA MintMoves ==
  ASSUME Money!MoneyAssumption, MoneyShape, RunInv, AskInv, [Money!Next]_(Money!vars), NEW r \in Money!Ids
  PROVE  Moved(r)
<1>1. ASSUME NEW a, NEW e \in {0} \cup Money!Ids, Money!Ask(a, e) PROVE Moved(r)
  BY <1>1, AskFacts, ToldIs DEF Moved, Lapsed, Row, RunInv, RowOK
<1>2. ASSUME NEW i \in Money!Ids, Money!Claim(i) PROVE Moved(r)
  BY <1>2 DEF Moved, Lapsed, Money!Claim
<1>3. ASSUME NEW i \in Money!Ids, Money!Expire(i) PROVE Moved(r)
  BY <1>3, ExpireFacts, ReleasedFacts DEF Moved, Lapsed, Money!Expire, Alone, RunInv, RowOK
<1>4. ASSUME NEW i \in Money!Ids, Money!Abandon(i) PROVE Moved(r)
  BY <1>4 DEF Moved, Lapsed, Money!Abandon
<1>5. ASSUME NEW i \in Money!Ids, Money!Sweep(i) PROVE Moved(r)
  BY <1>5, ReleasedFacts DEF Moved, Lapsed, Money!Sweep, Money!Releasable,
     Money!PreInvocationFact, Row, RunInv, RowOK
<1>6. CASE Money!Resolve
  BY <1>6 DEF Moved, Lapsed, Money!Resolve, Money!Refuse
<1>7. CASE Money!Judge
  BY <1>7, JudgeFacts DEF Moved, Lapsed
<1>8. CASE Money!Insert
  BY <1>8, ParentIs, InsertFacts, ReleasedFacts DEF Moved, Lapsed, Money!Insert, Row
<1>9. CASE Money!CheckFails
  BY <1>9 DEF Moved, Lapsed, Money!CheckFails
<1>10. CASE Money!StartEffect
  BY <1>10 DEF Moved, Lapsed, Money!StartEffect
<1>11. CASE Money!NotInvoked
  BY <1>11 DEF Moved, Lapsed, Money!NotInvoked
<1>12. CASE Money!Invoke
  BY <1>12 DEF Moved, Lapsed, Money!Invoke
<1>13. CASE Money!Record
  BY <1>13 DEF Moved, Lapsed, Money!Record
<1>14. CASE Money!Finish
  BY <1>14, FinishFacts, ReleasedFacts DEF Moved, Lapsed, Money!Finish, Alone, RunInv, RowOK
<1>15. CASE Money!Tick
  BY <1>15 DEF Moved, Lapsed, Money!Tick
<1>16. CASE Money!Disturb
  BY <1>16 DEF Moved, Lapsed, Money!Disturb
<1>17. CASE Money!Crash
  BY <1>17 DEF Moved, Lapsed, Money!Crash
<1>18. CASE UNCHANGED Money!vars
  BY <1>18 DEF Moved, Lapsed, Money!vars
<1>19. QED
  BY <1>1, <1>2, <1>3, <1>4, <1>5, <1>6, <1>7, <1>8, <1>9, <1>10, <1>11, <1>12, <1>13,
     <1>14, <1>15, <1>16, <1>17, <1>18 DEF Money!Next

(* What has lapsed stays so. *)
LEMMA LapsedStep ==
  ASSUME Money!MoneyAssumption, MoneyShape, RunInv, AskInv, [Money!Next]_(Money!vars),
         NEW r \in Money!Ids, Row(r), Lapsed(grants[r])
  PROVE  Lapsed(grants[r])'
<1>1. ASSUME NEW a, NEW e \in {0} \cup Money!Ids, Money!Ask(a, e) PROVE Lapsed(grants[r])'
  BY <1>1, AskFacts DEF Lapsed, Money!Ask, Money!Quiet, Row, RunInv, RowOK, Same
<1>2. ASSUME NEW i \in Money!Ids, Money!Claim(i) PROVE Lapsed(grants[r])'
  <2>1. CASE r = i
    <3>1. now \in Nat /\ grants[i].expiry \in Nat
      BY <1>2, ClaimFacts DEF MoneyShape
    <3>2. RowOK(grants[i])
      BY <1>2, ClaimFacts DEF RunInv
    <3>3. QED
      BY <1>2, <2>1, <3>1, <3>2, ClaimFacts DEF Lapsed, RowOK
  <2>2. CASE r # i
    BY <1>2, <2>2, ClaimFacts DEF Money!Claim, Lapsed, Alone
  <2>3. QED
    BY <2>1, <2>2
<1>3. ASSUME NEW i \in Money!Ids, Money!Expire(i) PROVE Lapsed(grants[r])'
  BY <1>3, ExpireFacts DEF Lapsed, Money!Expire, Alone, Same, RunInv, RowOK
<1>4. ASSUME NEW i \in Money!Ids, Money!Abandon(i) PROVE Lapsed(grants[r])'
  BY <1>4, AbandonFacts, ZenonT(60) DEF Lapsed, Money!Abandon, Alone, Same, RunInv, RowOK
<1>5. ASSUME NEW i \in Money!Ids, Money!Sweep(i) PROVE Lapsed(grants[r])'
  BY <1>5 DEF Lapsed, Money!Sweep
<1>6. CASE Money!Resolve
  BY <1>6 DEF Lapsed, Money!Resolve, Money!Refuse
<1>7. CASE Money!Judge
  BY <1>7, JudgeFacts DEF Lapsed
<1>8. CASE Money!Insert
  BY <1>8, ParentIs, InsertFacts DEF Lapsed, Money!Insert, Row
<1>9. CASE Money!CheckFails
  BY <1>9, RunFact, TerminateFacts DEF Lapsed, Money!CheckFails, Alone, RunInv
<1>10. CASE Money!StartEffect
  BY <1>10, StartFacts DEF Lapsed, Money!StartEffect, Alone, RunInv, Same
<1>11. CASE Money!NotInvoked
  BY <1>11, RunFact, TerminateFacts DEF Lapsed, Money!NotInvoked, Alone, RunInv
<1>12. CASE Money!Invoke
  BY <1>12 DEF Lapsed, Money!Invoke
<1>13. CASE Money!Record
  BY <1>13, RunFact, TerminateFacts DEF Lapsed, Money!Record, Alone, RunInv
<1>14. CASE Money!Finish
  BY <1>14, FinishFacts DEF Lapsed, Money!Finish, Alone, RunInv, Same
<1>15. CASE Money!Tick
  BY <1>15 DEF Lapsed, Money!Tick, MoneyShape
<1>16. CASE Money!Disturb
  BY <1>16 DEF Lapsed, Money!Disturb
<1>17. CASE Money!Crash
  BY <1>17 DEF Lapsed, Money!Crash
<1>18. CASE UNCHANGED Money!vars
  BY <1>18 DEF Lapsed, Money!vars
<1>19. QED
  BY <1>1, <1>2, <1>3, <1>4, <1>5, <1>6, <1>7, <1>8, <1>9, <1>10, <1>11, <1>12, <1>13,
     <1>14, <1>15, <1>16, <1>17, <1>18 DEF Money!Next

(* Every step keeps the mints. *)
LEMMA MintStep ==
  ASSUME Money!MoneyAssumption, MoneyShape, RunInv, AskInv, LineInv, MintInv, [Money!Next]_(Money!vars)
  PROVE  MintInv'
<1> SUFFICES ASSUME NEW r \in Money!Ids, Row(r)'
             PROVE  /\ mint'[r].state = "released" => Lapsed(grants[r])'
                    /\ grants'[r].parent # 0 => mint'[r].state = "none"
  BY DEF MintInv
<1>1. CASE Row(r)
  <2>1. mint[r].state = "released" => Lapsed(grants[r])
    BY <1>1 DEF MintInv
  <2>2. mint[r].state = "released" => Lapsed(grants[r])'
    BY <1>1, <2>1, LapsedStep
  <2>3. r # used + 1
    BY <1>1 DEF RunInv, MoneyShape, Money!Ids
  <2>4. grants'[r].parent = grants[r].parent
    BY <1>1, RowStep DEF Same
  <2>5. grants[r].parent # 0 => mint[r].state = "none"
    BY <1>1 DEF MintInv
  <2>6. QED
    BY <1>1, <2>2, <2>3, <2>4, <2>5, MintMoves DEF Moved
<1>2. CASE ~Row(r)
  <2>1. Money!Insert /\ r = used /\ grants' # grants
    BY <1>2, NewRow DEF Row
  <2>2. mint' = mint /\ mint[used].state # "released"
    BY <2>1, ParentIs, InsertFacts DEF RunInv, Money!Insert
  <2>3. grants'[r].parent # 0 => req.parent # 0
    BY <2>1, ParentIs, InsertFacts
  <2>4. req.parent # 0 => mint[used].state = "none"
    BY <2>1 DEF AskInv, Money!Insert
  <2>5. QED
    BY <2>1, <2>2, <2>3, <2>4
<1>3. QED
  BY <1>1, <1>2

(* A terminal that says the adapter was entered says so; success is said   *)
(* only of an answer that carries a body.                                  *)
LEMMA AnswerIs ==
  \A kind, proved :
    /\ Money!TerminalOf(kind, proved).invoked
    /\ Money!TerminalOf(kind, proved).effect = "succeeded" => kind = "body"
BY DEF Money!TerminalOf

(* The invocation lands at most the key of the effect it carries out. *)
LEMMA InvokeLands ==
  ASSUME Money!MoneyAssumption, MoneyShape, RunInv, LineInv, LandInv, Money!Invoke
  PROVE  LandInv'
<1> SUFFICES ASSUME verb \in Money!MoneyVerbs PROVE LandInv'
  BY DEF LandInv, Money!Invoke
<1>1. PICK i \in Money!Ids : i = run.id /\ Row(i)
  BY RunFact DEF Money!Invoke
<1>2. Kin(i) /\ RowOK(grants[i]) /\ grants[i].term = Money!NoTerm /\ grants[i].start
  BY <1>1 DEF LineInv, RunInv, Money!Invoke
<1>3. PICK e \in Money!Ids : /\ e = grants[i].effect /\ e = grants[i].key /\ Row(e) /\ grants[e].effect = e
                             /\ i # e => Doubt(grants[e])
  BY <1>2 DEF Kin
<1>4. grants' = grants /\ run'.stage = "answered" /\ run'.id = i /\ verb' = verb
  BY <1>1 DEF Money!Invoke, Money!Answer
<1>5. CASE UNCHANGED ledger /\ (run'.kind = "body" => ledger[e].landed = 1)
  BY <1>3, <1>4, <1>5 DEF LandInv, Row
<1>6. CASE Money!Land(grants[i])
  <2>1. \A k \in Money!Ids : ledger'[k] = IF k = e THEN [landed |-> 1, frozen |-> grants[i].frozen,
                                            body |-> Money!Body(verb, world, grants[i].frozen)] ELSE ledger[k]
    BY <1>3, <1>6 DEF Money!Land, MoneyShape
  <2>2. ledger'[e].landed = 1 /\ \A k \in Money!Ids : k # e => ledger'[k] = ledger[k]
    BY <2>1
  <2>3. grants[e].start /\ (grants[e].term # Money!NoTerm => grants[e].term.invoked)
    <3>1. CASE i = e
      BY <1>2, <3>1
    <3>2. CASE i # e
      <4>1. Doubt(grants[e]) /\ RowOK(grants[e])
        BY <1>3, <3>2 DEF RunInv
      <4>2. CASE grants[e].term # Money!NoTerm
        BY <4>1, <4>2, ToldIs DEF Doubt, RowOK, Money!PreEffect
      <4>3. CASE grants[e].term = Money!NoTerm
        BY <4>1, <4>3 DEF Doubt
      <4>4. QED
        BY <4>2, <4>3
    <3>3. QED
      BY <3>1, <3>2
  <2>4. \A r \in Money!Ids : Row(r) /\ ledger[grants[r].key].landed = 1 => ledger'[grants[r].key].landed = 1
    BY <2>2 DEF LineInv, Kin
  <2>5. QED
    BY <1>3, <1>4, <2>2, <2>3, <2>4 DEF LandInv, Row
<1>7. QED
  BY <1>1, <1>3, <1>5, <1>6, SMTT(60) DEF Money!Invoke, Money!Answer

(* Every step keeps the provider's ledger and the grants together. *)
LEMMA LandStep ==
  ASSUME Money!MoneyAssumption, MoneyShape, RunInv, AskInv, LineInv, LandInv, [Money!Next]_(Money!vars)
  PROVE  LandInv'
<1>1. ASSUME NEW a, NEW e \in {0} \cup Money!Ids, Money!Ask(a, e) PROVE LandInv'
  BY <1>1, VerbStays, AskFacts DEF LandInv, Money!Ask, Money!Quiet, Money!Idle, Same, Row
<1>2. ASSUME NEW i \in Money!Ids, Money!Claim(i) PROVE LandInv'
  <2>1. \A r \in Money!Ids : /\ Row(r)' <=> Row(r)
                             /\ Row(r) => /\ grants'[r].effect = grants[r].effect
                                          /\ grants'[r].key = grants[r].key
                                          /\ grants'[r].start = grants[r].start
                                          /\ grants'[r].term = grants[r].term
    BY <1>2, ClaimFacts DEF Alone, Same, Row
  <2>2. run' = [stage |-> "claimed", id |-> i] /\ ~grants[i].start
    BY <1>2, ClaimFacts DEF Money!Claim, RunInv, RowOK
  <2>3. ledger' = ledger /\ verb' = verb
    BY <1>2 DEF Money!Claim
  <2>4. QED
    BY <2>1, <2>2, <2>3 DEF LandInv
<1>3. ASSUME NEW i \in Money!Ids, Money!Expire(i) PROVE LandInv'
  BY <1>3, VerbStays, ExpireFacts DEF LandInv, Money!Expire, Money!Quiet, Money!Idle, Alone,
     Same, Row
<1>4. ASSUME NEW i \in Money!Ids, Money!Abandon(i) PROVE LandInv'
  <2>1. \A r \in Money!Ids : /\ Row(r)' <=> Row(r)
                             /\ Row(r) => /\ grants'[r].effect = grants[r].effect
                                          /\ grants'[r].key = grants[r].key
                                          /\ grants'[r].start = grants[r].start
                                          /\ grants'[r].term = grants[r].term
    BY <1>4, AbandonFacts DEF Alone, Same, Row
  <2>2. run' = run /\ run.stage = "idle"
    BY <1>4 DEF Money!Abandon, Money!Quiet, Money!Idle
  <2>3. ledger' = ledger /\ verb' = verb
    BY <1>4 DEF Money!Abandon
  <2>4. QED
    BY <2>1, <2>2, <2>3 DEF LandInv
<1>5. ASSUME NEW i \in Money!Ids, Money!Sweep(i) PROVE LandInv'
  BY <1>5, VerbStays DEF LandInv, Money!Sweep, Row
<1>6. CASE Money!Resolve
  BY <1>6, VerbStays DEF LandInv, Money!Resolve, Money!Refuse, Row
<1>7. CASE Money!Judge
  BY <1>7, VerbStays, JudgeFacts, SMTT(60) DEF LandInv, Row
<1>8. CASE Money!Insert
  BY <1>8, VerbStays, ParentIs, InsertFacts, SMTT(60) DEF LandInv, Money!Insert, RunInv, Row
<1>9. CASE Money!CheckFails
  BY <1>9, VerbStays, RunFact, TerminateFacts, SMTT(60) DEF LandInv, Money!CheckFails,
     Money!Terminate, Money!PreEffect, Alone, Same, Row
<1>10. CASE Money!StartEffect
  BY <1>10, VerbStays, StartFacts, SMTT(60) DEF LandInv, Money!StartEffect, Alone, Same, Row
<1>11. CASE Money!NotInvoked
  BY <1>11, VerbStays, RunFact, TerminateFacts DEF LandInv, Money!NotInvoked,
     Money!Terminate, Money!PreEffect, Alone, Same, Row
<1>12. CASE Money!Invoke
  BY <1>12, InvokeLands, SMTT(60) DEF LandInv
<1>13. CASE Money!Record
  BY <1>13, VerbStays, RunFact, TerminateFacts, AnswerIs, SMTT(60) DEF LandInv, Money!Record,
     Money!Terminate, Alone, Same, Row
<1>14. CASE Money!Finish
  BY <1>14, VerbStays, FinishFacts DEF LandInv, Money!Finish, Alone, Same, Row, Money!Idle
<1>15. CASE Money!Tick
  BY <1>15, VerbStays DEF LandInv, Money!Tick, Row
<1>16. CASE Money!Disturb
  BY <1>16, VerbStays DEF LandInv, Money!Disturb, Row
<1>17. CASE Money!Crash
  BY <1>17, VerbStays DEF LandInv, Money!Crash, Money!Idle, Row
<1>18. CASE UNCHANGED Money!vars
  BY <1>18, VerbStays DEF LandInv, Money!vars, Row
<1>19. QED
  BY <1>1, <1>2, <1>3, <1>4, <1>5, <1>6, <1>7, <1>8, <1>9, <1>10, <1>11, <1>12, <1>13,
     <1>14, <1>15, <1>16, <1>17, <1>18 DEF Money!Next

(* The whole invariant. *)
LEMMA MoneyInvariant == ASSUME Money!MoneyAssumption PROVE Money!Spec => []MoneyInv
<1>1. Money!Init => MoneyInv
  BY DEF Money!Init, MoneyInv, MoneyShape, RunInv, LineInv, SettledInv, AskInv, MintInv,
     LandInv, Row, Money!NoGrant, Money!Idle, Money!NoKey, Money!MoneyAssumption
<1>2. MoneyInv /\ [Money!Next]_(Money!vars) => MoneyInv'
  BY MoneyShapeStep, RunStep, LineStep, OlderStep, AskStep, MintStep, LandStep DEF MoneyInv
<1>3. QED
  BY <1>1, <1>2, PTL DEF Money!Spec

(* A key of the effect has landed when the key it is named after has. *)
LEMMA LandedIs ==
  ASSUME MoneyInv, verb \in Money!MoneyVerbs, NEW i \in Money!Ids, Row(i)
  PROVE  LET e == grants[i].effect IN
         /\ Money!Effect(i) = e /\ e \in Money!Ids
         /\ Money!Landed(e) = IF ledger[e].landed = 1 THEN {e} ELSE {}
<1> DEFINE e == grants[i].effect
<1>1. Money!Effect(i) = e /\ e \in Money!Ids /\ e # 0 /\ Kin(i) /\ Kin(e) /\ Row(e)
  BY DEF Money!Effect, Row, MoneyInv, LineInv, Kin, Money!Ids
<1>2. Money!Lineage(e) = {j \in Money!Ids : Row(j) /\ grants[j].effect = e}
  BY <1>1 DEF Money!Lineage, Money!Effect, Row
<1>3. \A j \in Money!Lineage(e) : grants[j].key = e
  BY <1>2 DEF MoneyInv, LineInv, Kin
<1>4. e \in Money!Lineage(e)
  BY <1>1, <1>2 DEF Kin
<1> HIDE DEF e
<1>5. Money!Landed(e) = IF ledger[e].landed = 1 THEN {e} ELSE {}
  BY <1>3, <1>4 DEF Money!Landed
<1>6. QED
  BY <1>1, <1>5, SMTT(60) DEF e

(* Without a money verb no grant has an effect. *)
LEMMA NoEffect ==
  ASSUME MoneyInv, NEW i \in Money!Ids, Money!Effect(i) # 0
  PROVE  verb \in Money!MoneyVerbs /\ Row(i) /\ Money!Effect(i) = grants[i].effect
BY DEF MoneyInv, LineInv, Money!Effect, Row

(* All the attempts of an effect land under one key, with one request. *)
LEMMA LandedOnceHolds == ASSUME Money!MoneyAssumption, MoneyInv PROVE Money!LandedOnce
<1> SUFFICES ASSUME NEW i \in Money!Ids, Money!Effect(i) # 0
             PROVE  /\ \A k, l \in Money!Landed(Money!Effect(i)) : k = l
                    /\ \A j \in Money!Lineage(Money!Effect(i)) : grants[j].frozen = grants[i].frozen
  BY DEF Money!LandedOnce
<1>1. verb \in Money!MoneyVerbs /\ Row(i) /\ Money!Effect(i) = grants[i].effect
  BY NoEffect
<1>2. Money!Landed(Money!Effect(i)) = {} \/ Money!Landed(Money!Effect(i)) = {Money!Effect(i)}
  BY <1>1, LandedIs
<1>3. \A k, l \in Money!Landed(Money!Effect(i)) : k = l
  BY <1>2
<1>4. ASSUME NEW j \in Money!Lineage(Money!Effect(i)) PROVE grants[j].frozen = grants[i].frozen
  <2>1. j \in Money!Ids /\ Row(j) /\ grants[j].effect = grants[i].effect
    BY <1>1 DEF Money!Lineage, Money!Effect, Row
  <2>2. Kin(i) /\ Kin(j)
    BY <1>1, <2>1 DEF MoneyInv, LineInv
  <2>3. QED
    BY <2>1, <2>2 DEF Kin
<1>5. QED
  BY <1>3, <1>4

(* Money that moved stays counted, by its owner's mint alone. *)
LEMMA LandedIsCountedHolds == ASSUME Money!MoneyAssumption, MoneyInv PROVE Money!LandedIsCounted
<1> SUFFICES ASSUME NEW i \in Money!Ids, Money!Effect(i) # 0
             PROVE  /\ Money!Landed(Money!Effect(i)) # {} => mint[Money!Owner(i)].state # "released"
                    /\ Money!IsRetry(i) => mint[i].state = "none"
  BY DEF Money!LandedIsCounted
<1>1. verb \in Money!MoneyVerbs /\ Row(i) /\ Money!Effect(i) = grants[i].effect
  BY NoEffect
<1>2. PICK e \in Money!Ids : e = grants[i].effect /\ Row(e)
  BY <1>1 DEF MoneyInv, LineInv, Kin
<1>3. Money!Owner(i) = e
  BY <1>1, <1>2, OwnerIs DEF MoneyInv
<1>4. ASSUME Money!Landed(e) # {} PROVE mint[e].state # "released"
  <2>1. ledger[e].landed = 1
    BY <1>1, <1>2, <1>4, LandedIs
  <2>2. RowOK(grants[e]) /\ grants[e].start /\ (grants[e].term # Money!NoTerm => grants[e].term.invoked)
    BY <1>1, <1>2, <2>1 DEF MoneyInv, RunInv, LandInv
  <2>3. ~Lapsed(grants[e])
    BY <2>2 DEF Lapsed, RowOK
  <2>4. QED
    BY <1>2, <2>3 DEF MoneyInv, MintInv
<1>5. Money!IsRetry(i) => mint[i].state = "none"
  BY <1>1 DEF Money!IsRetry, MoneyInv, MintInv
<1>6. QED
  BY <1>1, <1>2, <1>3, <1>4, <1>5

(* The writer and the reader of terminals agree. *)
LEMMA TerminalsAuthenticateHolds == ASSUME MoneyInv PROVE Money!TerminalsAuthenticate
BY NoEffect, RetryStateIs DEF Money!TerminalsAuthenticate, MoneyInv

(* No attempt follows a final one, or an open one. *)
LEMMA FinalIsLastHolds == ASSUME MoneyInv PROVE Money!FinalIsLast
<1> SUFFICES ASSUME NEW i \in Money!Ids, NEW j \in Money!Ids, Money!Effect(i) # 0, Money!Effect(i) = Money!Effect(j), i < j
             PROVE  /\ Money!RetryState(i) # "final"
                    /\ grants[i].status \in {"executing", "executed", "expired"}
  BY DEF Money!FinalIsLast
<1>1. /\ Row(i) /\ Money!Effect(i) = grants[i].effect
      /\ Row(j) /\ Money!Effect(j) = grants[j].effect
  BY NoEffect
<1>2. Settled(i) /\ RowOK(grants[i])
  BY <1>1 DEF MoneyInv, SettledInv, RunInv
<1>3. Money!RetryState(i) \in {"ambiguous", "pre_effect"}
  BY <1>1, <1>2, RetryStateIs DEF Settled, MoneyInv
<1>4. QED
  BY <1>2, <1>3 DEF Settled, Doubt, Never, RowOK

(* Success shown has landed; what is shown as not begun has not. *)
LEMMA DispositionTrueHolds == ASSUME Money!MoneyAssumption, MoneyInv PROVE Money!DispositionTrue
<1> SUFFICES ASSUME NEW i \in Money!Ids, Money!Effect(i) # 0
             PROVE  /\ Money!Disposition(i) = "succeeded" => Money!Landed(Money!Effect(i)) # {}
                    /\ Money!Disposition(i) = "definitely_pre_effect" => Money!Landed(Money!Effect(i)) = {}
  BY DEF Money!DispositionTrue
<1>1. verb \in Money!MoneyVerbs /\ Row(i) /\ Money!Effect(i) = grants[i].effect
  BY NoEffect
<1>2. PICK e \in Money!Ids : e = grants[i].effect /\ Row(e)
  BY <1>1 DEF MoneyInv, LineInv, Kin
<1>3. /\ e \in Money!Ancestry(i)
      /\ \A j \in Money!Ancestry(i) : j \in Money!Ids /\ Row(j) /\ grants[j].effect = e
  BY <1>1, <1>2, AncestryIs DEF MoneyInv
<1>4. Money!Landed(Money!Effect(i)) = IF ledger[e].landed = 1 THEN {e} ELSE {}
  BY <1>1, <1>2, LandedIs
<1> DEFINE began == {j \in Money!Ancestry(i) : Money!Disposition_OwnOnly(j) # "definitely_pre_effect"}
<1>5. Money!Disposition(i) = IF began = {} THEN "definitely_pre_effect" ELSE Money!Disposition_OwnOnly(Money!Max(began))
  BY DEF Money!Disposition
<1>6. began # {} => Money!Max(began) \in began
  BY <1>3, NewestIs
<1>7. ASSUME Money!Disposition(i) = "succeeded" PROVE ledger[e].landed = 1
  <2>1. PICK j \in Money!Ancestry(i) : Money!Disposition_OwnOnly(j) = "succeeded"
    BY <1>5, <1>6, <1>7
  <2>2. j \in Money!Ids /\ Row(j) /\ grants[j].effect = e /\ Kin(j)
    BY <1>1, <1>3 DEF MoneyInv, LineInv
  <2>3. grants[j].term # Money!NoTerm /\ grants[j].term.effect = "succeeded"
    BY <2>1 DEF Money!Disposition_OwnOnly
  <2>4. QED
    BY <1>1, <2>2, <2>3 DEF MoneyInv, LandInv, Kin
<1>8. ASSUME Money!Disposition(i) = "definitely_pre_effect" PROVE ledger[e].landed # 1
  <2>1. began = {}
    BY <1>5, <1>6, <1>8
  <2>2. Money!Disposition_OwnOnly(e) = "definitely_pre_effect"
    BY <1>3, <2>1
  <2>3. grants[e].term # Money!NoTerm /\ grants[e].term.effect = "definitely_pre_effect"
    BY <2>2 DEF Money!Disposition_OwnOnly
  <2>4. ~grants[e].term.invoked
    BY <1>2, <2>3, ToldIs DEF MoneyInv, RunInv, RowOK
  <2>5. QED
    BY <1>1, <1>2, <2>3, <2>4 DEF MoneyInv, LandInv
<1>9. QED
  BY <1>4, <1>7, <1>8

(* The composition implements the money effect: the other parts leave it   *)
(* alone.                                                                  *)
LEMMA ImplementsMoney == PartSpec => Money!Spec
<1>1. PartInit => Money!Init
  BY DEF PartInit
<1>2. [PartNext]_partVars => [Money!Next]_(Money!vars)
  BY DEF PartNext, RulesPart, ActionPart, MoneyPart, HostPart, partVars, moneyState, Money!vars
<1>3. QED
  BY <1>1, <1>2, PTL DEF PartSpec, Money!Spec

(* One approved effect is performed at most once and counted once, for any *)
(* number of retries, crashes, restarts, rotations and rule edits          *)
(* (resolve_retry, mint, reconcile_terminal_execution, the sweep).         *)
THEOREM EffectLandsOnce == PartSpec => []LandedOnce
<1>1. MoneyInv => LandedOnce
  BY PipelineAssumption, LandedOnceHolds, LandedIsCountedHolds DEF LandedOnce
<1>2. QED
  BY <1>1, PipelineAssumption, ImplementsMoney, MoneyInvariant, PTL

(* Of a money effect the status surfaces tell the truth, every terminal    *)
(* that execute writes authenticates, and a settled effect is never tried  *)
(* again (verified_logical_money_effect_outcome, validate_money_terminal). *)
THEOREM DispositionSound == PartSpec => []DispositionTrue
<1>1. MoneyInv => DispositionTrue
  BY PipelineAssumption, DispositionTrueHolds, TerminalsAuthenticateHolds, FinalIsLastHolds
     DEF DispositionTrue
<1>2. QED
  BY <1>1, PipelineAssumption, ImplementsMoney, MoneyInvariant, PTL

-----------------------------------------------------------------------------
(* Templates and their execution: the inductive invariant. *)

(* A placeholder of the step that takes its value from the field n. *)
Uses(k, n) ==
    \/ n \in k.path
    \/ \E p \in k.query : p.n = n
    \/ \E p \in k.body : p.n = n /\ p.tf # "omit"

(* The names a hop carries. *)
Carries(h, n) == n \in h.wire.path \cup {x.n : x \in h.wire.query \cup h.wire.body}

(* What an approval lets steer the URL of a hop (ApprovalSteersUrl). *)
Steers(h, n) ==
    \/ Action!Declared(doc, n) /\ (n \in doc.targets \/ doc.kind = "git")
         /\ doc.decl[n].class \in {"identity", "side_effect"}
    \/ Action!Declared(doc, n) /\ doc.decl[n].class = "read_filter" /\ Action!IsRead(doc.steps[h.at])
    \/ n \in caps /\ ~Action!Mutating(h) /\ doc.setup
    \/ n \in caps /\ doc.kind = "relay" /\ h.at = 2
Steered == \A h \in sent : \A n \in h.wire.path \cup {x.n : x \in h.wire.query} : Steers(h, n)

(* Before the load nothing has run. *)
Unloaded ==
    /\ loaded \in BOOLEAN
    /\ ~loaded => /\ sent = {} /\ passed = {} /\ tolerated = {} /\ caps = {} /\ at = 1
                  /\ result = Action!NoResult

(* What runs was validated, with fields of its own. *)
Ratified == loaded => Action!Validate(doc, ceiling) /\ present \subseteq DOMAIN doc.decl

(* An execution is at one of its steps, every step before it was passed or *)
(* excused, and no mutation has left at this step.                         *)
Driven ==
    Action!Running => /\ at \in Action!Steps(doc) /\ Action!Guarded
                      /\ \A h \in sent : h.at \in 1 .. at /\ (h.at = at => Action!IsRead(Action!Step))

HopsGuarded == \A h \in sent : h.guarded

(* The captures are the template's, and a finished step has sent the       *)
(* values it uses.                                                         *)
Carried ==
    loaded /\ doc.kind = "http" =>
        /\ caps \subseteq Action!AllCaptures(doc)
        /\ \A i \in passed \cup tolerated : \A n \in present :
              Uses(doc.steps[i], n) => \E h \in sent : Carries(h, n)

(* Every secret is known to the scrub set as it is and as it was sent. *)
SecretsKnown ==
    loaded /\ doc.kind = "http" =>
        /\ \A n \in Action!Secrets(doc) \cap present : [n |-> n, form |-> "raw"] \in scrub
        /\ \A h \in sent : \A x \in h.wire.body :
              x.n \in Action!Secrets(doc) => [n |-> x.n, form |-> x.form] \in scrub

ActionInv ==
    /\ Unloaded /\ Ratified /\ Driven /\ HopsGuarded /\ Steered /\ Carried /\ SecretsKnown
    /\ Action!NoEffectIsTrue /\ Action!ApprovedReachesWire /\ Action!SecretsStayOut

-----------------------------------------------------------------------------
(* What validation says of an HTTP template. *)
LEMMA HttpFacts ==
    ASSUME NEW t, NEW c, Action!Validate(t, c), t.kind = "http"
    PROVE  /\ Action!Last(t) \in Nat \ {0} /\ Action!Steps(t) = 1 .. Action!Last(t)
           /\ Action!ScopeOK(t) /\ Action!CapturesOK(t) /\ Action!Honest(t)
           /\ \A i \in Action!Steps(t) : Action!StepOK(t, i)
<1>1. Action!HttpOK(t) /\ Action!ScopeOK(t)
  BY DEF Action!Validate
<1>2. QED
  BY <1>1 DEF Action!HttpOK, Action!Steps, Action!MaxSteps

(* What it says of its captures: they are not fields. *)
LEMMA CaptureFacts ==
    ASSUME NEW t, NEW c, Action!Validate(t, c), t.kind = "http", NEW i \in Action!Steps(t)
    PROVE  /\ t.steps[i].cap \subseteq Action!AllCaptures(t)
           /\ Action!CapturesOf(t, Action!MutationsBefore(t, i)) \subseteq Action!AllCaptures(t)
           /\ Action!AllCaptures(t) \cap DOMAIN t.decl = {}
<1>1. Action!Last(t) \in Nat /\ Action!Steps(t) = 1 .. Action!Last(t) /\ Action!CapturesOK(t)
  BY HttpFacts
<1>2. Action!MutationsBefore(t, i) \subseteq Action!Steps(t)
  BY <1>1 DEF Action!MutationsBefore
<1>3. QED
  BY <1>1, <1>2 DEF Action!AllCaptures, Action!CapturesOf, Action!CapturesOK

(* What steers the URL of a hop of the current step. *)
LEMMA HopSteers ==
    ASSUME ActionInv, Action!Running, Action!Renders(Action!Step), NEW d \in BOOLEAN,
           NEW h, h = [at |-> at, wire |-> Action!Wire(Action!Step, d), guarded |-> Action!Guarded]
    PROVE  \A n \in h.wire.path \cup {x.n : x \in h.wire.query} : Steers(h, n)
<1>0. h.at = at /\ h.wire.path = Action!Step.path /\ h.wire.query = Action!QueryWire(Action!Step)
  BY DEF Action!Wire
<1>1. Action!Validate(doc, ceiling) /\ doc.kind = "http" /\ at \in Action!Steps(doc) /\ present \subseteq DOMAIN doc.decl
  BY DEF ActionInv, Action!Running, Ratified, Driven
<1>2. /\ Action!StepOK(doc, at) /\ Action!ScopeOK(doc) /\ Action!AllCaptures(doc) \cap DOMAIN doc.decl = {}
      /\ Action!CapturesOf(doc, Action!MutationsBefore(doc, at)) \subseteq Action!AllCaptures(doc)
  BY <1>1, HttpFacts, CaptureFacts
<1>3. ASSUME NEW n \in Action!Step.path PROVE Steers(h, n)
  <2>1. Action!PinnedTarget(doc, n, {"identity"})
    BY <1>2, <1>3 DEF Action!StepOK, Action!PathOK, Action!Step
  <2>2. QED
    BY <2>1 DEF Action!PinnedTarget, Steers
<1>4. ASSUME NEW x \in Action!QueryWire(Action!Step) PROVE Steers(h, x.n)
  <2>1. PICK p \in Action!Step.query : Action!Valued(p) /\ x = Action!FieldForm(p, "raw")
    BY <1>4 DEF Action!QueryWire
  <2>2. x.n = p.n
    BY <2>1 DEF Action!FieldForm
  <2>3. \/ /\ p.n \in Action!CapturesOf(doc, Action!MutationsBefore(doc, at))
           /\ Action!SetupReconciles(doc, at) /\ Action!IsRead(Action!Step)
        \/ /\ Action!Declared(doc, p.n)
           /\ IF doc.account THEN doc.decl[p.n].class = "read_filter"
              ELSE Action!PinnedTarget(doc, p.n, {"identity", "side_effect"})
    BY <1>2 DEF Action!StepOK, Action!QueryOK, Action!Step
  <2>4. CASE /\ p.n \in Action!CapturesOf(doc, Action!MutationsBefore(doc, at))
             /\ Action!SetupReconciles(doc, at) /\ Action!IsRead(Action!Step)
    <3>1. p.n \notin present
      BY <1>1, <1>2, <2>4
    <3>2. p.n \in caps
      BY <2>1, <3>1 DEF Action!Valued
    <3>3. ~Action!Mutating(h) /\ doc.setup
      BY <1>0, <1>1, <2>4 DEF Action!Mutating, Action!SetupReconciles, Action!Step
    <3>4. QED
      BY <2>2, <3>2, <3>3 DEF Steers
  <2>5. CASE Action!Declared(doc, p.n) /\ doc.account /\ doc.decl[p.n].class = "read_filter"
    <3>1. Action!AccountScopeOK(doc)
      BY <1>2, <2>5 DEF Action!ScopeOK
    <3>2. Action!IsRead(doc.steps[h.at])
      BY <1>0, <1>1, <3>1 DEF Action!AccountScopeOK
    <3>3. QED
      BY <2>2, <2>5, <3>2 DEF Steers
  <2>6. CASE Action!PinnedTarget(doc, p.n, {"identity", "side_effect"})
    BY <2>2, <2>6 DEF Action!PinnedTarget, Steers
  <2>7. QED
    BY <2>3, <2>4, <2>5, <2>6
<1>5. QED
  BY <1>0, <1>3, <1>4

(* A hop carries the fields its step uses, and its secrets in a form the   *)
(* scrub set knows.                                                        *)
LEMMA HopCarries ==
    ASSUME ActionInv, Action!Running, Action!Renders(Action!Step), NEW d \in BOOLEAN,
           NEW h, h = [at |-> at, wire |-> Action!Wire(Action!Step, d), guarded |-> Action!Guarded]
    PROVE  /\ \A n \in present : Uses(Action!Step, n) => Carries(h, n)
           /\ \A x \in h.wire.body :
                 x.n \in Action!Secrets(doc) => [n |-> x.n, form |-> x.form] \in scrub \cup Action!Emitted(Action!Step)
<1>0. h.wire.path = Action!Step.path /\ h.wire.query = Action!QueryWire(Action!Step) /\ h.wire.body = Action!BodyWire(Action!Step, d)
  BY DEF Action!Wire
<1>1. /\ Action!Validate(doc, ceiling) /\ doc.kind = "http" /\ loaded /\ at \in Action!Steps(doc)
      /\ present \subseteq DOMAIN doc.decl
  BY DEF ActionInv, Action!Running, Ratified, Driven
<1>2. Action!AllCaptures(doc) \cap DOMAIN doc.decl = {} /\ caps \subseteq Action!AllCaptures(doc)
  BY <1>1, CaptureFacts DEF ActionInv, Carried
<1>3. ASSUME NEW n \in present, Uses(Action!Step, n) PROVE Carries(h, n)
  <2>1. CASE n \in Action!Step.path
    BY <1>0, <2>1 DEF Carries
  <2>2. CASE \E p \in Action!Step.query : p.n = n
    <3>1. PICK p \in Action!Step.query : p.n = n
      BY <2>2
    <3>2. Action!FieldForm(p, "raw") \in Action!QueryWire(Action!Step) /\ Action!FieldForm(p, "raw").n = n
      BY <1>3, <3>1 DEF Action!QueryWire, Action!Valued, Action!FieldForm
    <3>3. QED
      BY <1>0, <3>2 DEF Carries
  <2>3. CASE \E p \in Action!Step.body : p.n = n /\ p.tf # "omit"
    <3>1. PICK p \in Action!Step.body : p.n = n /\ p.tf # "omit"
      BY <2>3
    <3>2. PICK f : f = Action!FieldForm(p, IF p.tf = "base64" THEN "base64" ELSE "raw")
      OBVIOUS
    <3>3. f \in Action!BodyWire(Action!Step, d) /\ f.n = n
      BY <1>3, <3>1, <3>2 DEF Action!BodyWire, Action!Valued, Action!FieldForm
    <3>4. QED
      BY <1>0, <3>3 DEF Carries
  <2>4. QED
    BY <1>3, <2>1, <2>2, <2>3 DEF Uses
<1>4. ASSUME NEW x \in Action!BodyWire(Action!Step, d), x.n \in Action!Secrets(doc)
      PROVE  [n |-> x.n, form |-> x.form] \in scrub \cup Action!Emitted(Action!Step)
  <2>1. PICK p \in Action!Step.body :
          Action!Valued(p) /\ x = Action!FieldForm(p, IF p.tf = "base64" THEN "base64" ELSE "raw")
    BY <1>4 DEF Action!BodyWire
  <2>2. x.n = p.n /\ x.form = (IF p.tf = "base64" THEN "base64" ELSE "raw")
    BY <2>1 DEF Action!FieldForm
  <2>3. p.n \in present /\ p.n \in Action!Secrets(doc)
    BY <1>2, <1>4, <2>1, <2>2 DEF Action!Secrets, Action!Valued
  <2>4. CASE p.tf = "base64"
    BY <2>2, <2>3, <2>4 DEF Action!Emitted
  <2>5. CASE p.tf # "base64"
    BY <1>1, <2>2, <2>3, <2>5 DEF ActionInv, SecretsKnown
  <2>6. QED
    BY <2>4, <2>5
<1>5. QED
  BY <1>0, <1>3, <1>4

-----------------------------------------------------------------------------
(* The steps of an execution. *)

(* A hop of the current step leaves. *)
Leaves ==
    /\ Action!Running /\ Action!Renders(Action!Step)
    /\ \E d \in BOOLEAN : Action!Put(Action!Wire(Action!Step, d))
    /\ scrub' = scrub \cup Action!Emitted(Action!Step)
    /\ UNCHANGED <<doc, ceiling, loaded, present>>

(* What it leaves behind, whatever the answer. *)
LEMMA AfterHop ==
    ASSUME ActionInv, Leaves, caps \subseteq caps', caps' \subseteq caps \cup Action!Step.cap,
           passed' \subseteq passed \cup {at}, tolerated' \subseteq tolerated \cup {at}
    PROVE  /\ Unloaded' /\ Ratified' /\ HopsGuarded' /\ Steered' /\ Carried' /\ SecretsKnown'
           /\ Action!Scrubbed = {}
           /\ \A h \in sent' : h.at \in 1 .. at /\ (h \in sent \/ h.at = at)
<1>1. PICK d \in BOOLEAN : Action!Put(Action!Wire(Action!Step, d))
  BY DEF Leaves
<1>2. PICK h : h = [at |-> at, wire |-> Action!Wire(Action!Step, d), guarded |-> Action!Guarded]
  OBVIOUS
<1>3. sent' = sent \cup {h} /\ h.at = at /\ h.guarded = Action!Guarded
  BY <1>1, <1>2 DEF Action!Put
<1>4. /\ loaded /\ loaded' /\ doc' = doc /\ doc.kind = "http" /\ ceiling' = ceiling /\ present' = present
      /\ Action!Running /\ Action!Renders(Action!Step) /\ scrub' = scrub \cup Action!Emitted(Action!Step)
  BY DEF Leaves, Action!Running
<1>5. /\ at \in Action!Steps(doc) /\ Action!Guarded /\ Action!Validate(doc, ceiling)
      /\ \A g \in sent : g.at \in 1 .. at
  BY <1>4 DEF ActionInv, Driven, Ratified
<1>6. Action!Last(doc) \in Nat /\ Action!Steps(doc) = 1 .. Action!Last(doc) /\ Action!Step.cap \subseteq Action!AllCaptures(doc)
  BY <1>4, <1>5, HttpFacts, CaptureFacts DEF Action!Step
<1>7. Unloaded' /\ Ratified'
  BY <1>4 DEF ActionInv, Unloaded, Ratified
<1>8. HopsGuarded'
  BY <1>3, <1>5 DEF ActionInv, HopsGuarded
<1>9. ASSUME NEW g, NEW n, Steers(g, n) PROVE Steers(g, n)'
  BY <1>4, <1>9 DEF Steers, Action!Mutating
<1>10. Steered'
  <2>1. \A n \in h.wire.path \cup {x.n : x \in h.wire.query} : Steers(h, n)
    BY <1>2, <1>4, HopSteers
  <2>2. QED
    BY <1>3, <1>9, <2>1 DEF ActionInv, Steered
<1>11. /\ \A n \in present : Uses(Action!Step, n) => Carries(h, n)
       /\ \A x \in h.wire.body :
             x.n \in Action!Secrets(doc) => [n |-> x.n, form |-> x.form] \in scrub \cup Action!Emitted(Action!Step)
  BY <1>2, <1>4, HopCarries
<1>12. Carried'
  <2>1. caps' \subseteq Action!AllCaptures(doc)
    BY <1>4, <1>6 DEF ActionInv, Carried
  <2>2. ASSUME NEW i \in passed' \cup tolerated', NEW n \in present, Uses(doc.steps[i], n)
        PROVE  \E g \in sent' : Carries(g, n)
    <3>1. CASE i = at
      BY <1>3, <1>11, <2>2, <3>1 DEF Action!Step
    <3>2. CASE i # at
      BY <1>3, <1>4, <2>2, <3>2 DEF ActionInv, Carried
    <3>3. QED
      BY <3>1, <3>2
  <2>3. QED
    BY <1>4, <2>1, <2>2 DEF Carried
<1>13. SecretsKnown'
  <2>1. ASSUME NEW g \in sent', NEW x \in g.wire.body, x.n \in Action!Secrets(doc)
        PROVE  [n |-> x.n, form |-> x.form] \in scrub'
    BY <1>3, <1>4, <1>11, <2>1 DEF ActionInv, SecretsKnown
  <2>2. \A n \in Action!Secrets(doc) \cap present : [n |-> n, form |-> "raw"] \in scrub'
    BY <1>4 DEF ActionInv, SecretsKnown
  <2>3. QED
    BY <1>4, <2>1, <2>2 DEF SecretsKnown
<1>14. Action!Scrubbed = {}
  <2>1. ASSUME NEW e \in Action!Echo PROVE e \in scrub'
    <3>0. PICK x \in UNION {g.wire.body : g \in sent'} :
             x.n \in Action!Secrets(doc) /\ e = [n |-> x.n, form |-> x.form]
      BY <2>1, Zenon DEF Action!Echo
    <3>1. PICK g \in sent' : x \in g.wire.body
      OBVIOUS
    <3>2. QED
      BY <1>4, <1>13, <3>0, <3>1 DEF SecretsKnown
  <2>2. QED
    BY <2>1 DEF Action!Scrubbed
<1>15. QED
  BY <1>3, <1>5, <1>6, <1>7, <1>8, <1>10, <1>12, <1>13, <1>14

(* A hop whose answer ends the execution. *)
LEMMA HopEnds ==
    ASSUME ActionInv, Leaves, caps \subseteq caps', caps' \subseteq caps \cup Action!Step.cap,
           passed' \subseteq passed \cup {at}, tolerated' = tolerated,
           result' # Action!NoResult, result'.leaks = {},
           result'.ok => at = Action!Last(doc) /\ passed' = passed \cup {at},
           result'.class # "transport_pre_send", result'.word # "render",
           result'.word = "precondition_failed" => ~Action!Crossed
    PROVE  ActionInv'
<1>1. /\ Unloaded' /\ Ratified' /\ HopsGuarded' /\ Steered' /\ Carried' /\ SecretsKnown'
      /\ \A h \in sent' : h.at \in 1 .. at /\ (h \in sent \/ h.at = at)
  BY AfterHop
<1>2. loaded /\ doc' = doc /\ doc.kind = "http" /\ present' = present /\ Action!Running
  BY DEF Leaves, Action!Running
<1>3. /\ at \in Action!Steps(doc) /\ Action!Guarded /\ Action!Validate(doc, ceiling)
      /\ \A g \in sent : g.at \in 1 .. at /\ (g.at = at => Action!IsRead(Action!Step))
  BY <1>2 DEF ActionInv, Driven, Ratified
<1>4. Action!Last(doc) \in Nat /\ Action!Steps(doc) = 1 .. Action!Last(doc) /\ Action!Honest(doc)
  BY <1>2, <1>3, HttpFacts
<1>5. Driven'
  BY DEF Driven, Action!Running
<1>6. Action!NoEffectIsTrue'
  <2>1. SUFFICES ASSUME ~Action!Crossed, NEW h \in sent', h.at = Action!Last(doc)
                 PROVE  Action!IsRead(doc.steps[h.at])
    BY <1>2 DEF Action!NoEffectIsTrue, Action!Mutating
  <2>2. h.at \in 1 .. at /\ at \in 1 .. Action!Last(doc)
    BY <1>1, <1>3, <1>4
  <2>3. CASE h.at = at
    BY <2>1, <2>3 DEF Action!Crossed, Action!Step
  <2>4. CASE h.at # at
    BY <1>4, <2>1, <2>2, <2>4
  <2>5. QED
    BY <2>3, <2>4
<1>7. Action!ApprovedReachesWire'
  <2>1. SUFFICES ASSUME result'.ok, NEW n \in doc.consumes \cap present
                 PROVE  \/ \E h \in sent' : Carries(h, n)
                        \/ \E i \in passed' : n \in doc.steps[i].eq
                        \/ \E i \in Action!Steps(doc) : \E p \in doc.steps[i].body : p.n = n /\ p.tf = "omit"
    BY <1>2 DEF Action!ApprovedReachesWire, Carries
  <2>2. n \in Action!UsedFields(doc)
    BY <1>4 DEF Action!Honest
  <2>3. PICK i \in Action!Steps(doc) : \/ n \in doc.steps[i].path \/ n \in Action!QueryNames(doc.steps[i])
                                       \/ \E p \in doc.steps[i].body : p.n = n
                                       \/ n \in doc.steps[i].eq
    BY <2>2 DEF Action!UsedFields
  <2>4. i \in passed' \/ (i \in tolerated /\ doc.steps[i].eq = {})
    <3>1. at = Action!Last(doc) /\ passed' = passed \cup {at}
      BY <2>1
    <3>2. CASE i = at
      BY <3>1, <3>2
    <3>3. CASE i # at
      <4>1. i \in 1 .. at - 1
        BY <1>4, <3>1, <3>3
      <4>2. QED
        BY <1>3, <3>1, <4>1 DEF Action!Guarded
    <3>4. QED
      BY <3>2, <3>3
  <2>5. CASE n \in doc.steps[i].eq
    BY <2>4, <2>5
  <2>6. CASE Uses(doc.steps[i], n)
    BY <1>1, <1>2, <2>1, <2>4, <2>6 DEF Carried, Leaves
  <2>7. CASE \E p \in doc.steps[i].body : p.n = n /\ p.tf = "omit"
    BY <2>7
  <2>8. QED
    BY <2>3, <2>5, <2>6, <2>7 DEF Uses, Action!QueryNames
<1>8. Action!SecretsStayOut'
  BY DEF Action!SecretsStayOut
<1>9. QED
  BY <1>1, <1>5, <1>6, <1>7, <1>8 DEF ActionInv

(* A hop whose answer lets the execution go on. *)
LEMMA HopGoesOn ==
    ASSUME ActionInv, Leaves, caps \subseteq caps', caps' \subseteq caps \cup Action!Step.cap,
           passed \subseteq passed', passed' \subseteq passed \cup {at},
           tolerated \subseteq tolerated', tolerated' \subseteq tolerated \cup {at},
           UNCHANGED result,
           \/ at' = at /\ Action!IsRead(Action!Step)
           \/ /\ at' = at + 1 /\ at # Action!Last(doc)
              /\ at \in passed' \/ (at \in tolerated' /\ Action!Step.eq = {} /\ ~Action!Step.lit)
    PROVE  ActionInv'
<1>1. /\ Unloaded' /\ Ratified' /\ HopsGuarded' /\ Steered' /\ Carried' /\ SecretsKnown'
      /\ \A h \in sent' : h.at \in 1 .. at /\ (h \in sent \/ h.at = at)
  BY AfterHop
<1>2. loaded /\ doc' = doc /\ doc.kind = "http" /\ present' = present /\ Action!Running
  BY DEF Leaves, Action!Running
<1>3. /\ at \in Action!Steps(doc) /\ Action!Guarded /\ Action!Validate(doc, ceiling)
      /\ \A g \in sent : g.at \in 1 .. at /\ (g.at = at => Action!IsRead(Action!Step))
  BY <1>2 DEF ActionInv, Driven, Ratified
<1>4. Action!Last(doc) \in Nat /\ Action!Steps(doc) = 1 .. Action!Last(doc)
  BY <1>2, <1>3, HttpFacts
<1>5. Action!Steps(doc)' = Action!Steps(doc)
  BY <1>2 DEF Action!Steps, Action!Last
<1>6. Driven'
  <2>1. CASE at' = at /\ Action!IsRead(Action!Step)
    <3>1. Action!Guarded'
      BY <1>2, <1>3, <2>1 DEF Action!Guarded
    <3>2. \A h \in sent' : h.at \in 1 .. at' /\ (h.at = at' => Action!IsRead(Action!Step)')
      BY <1>1, <1>2, <1>3, <2>1 DEF Action!Step
    <3>3. QED
      BY <1>3, <1>5, <2>1, <3>1, <3>2 DEF Driven
  <2>2. CASE /\ at' = at + 1 /\ at # Action!Last(doc)
             /\ at \in passed' \/ (at \in tolerated' /\ Action!Step.eq = {} /\ ~Action!Step.lit)
    <3>1. at' \in Action!Steps(doc) /\ 1 .. at' - 1 = (1 .. at - 1) \cup {at}
      BY <1>3, <1>4, <2>2
    <3>2. Action!Guarded'
      BY <1>2, <1>3, <2>2, <3>1 DEF Action!Guarded, Action!Step
    <3>3. \A h \in sent' : h.at \in 1 .. at' /\ h.at # at'
      BY <1>1, <1>3, <1>4, <2>2
    <3>4. QED
      BY <1>5, <3>1, <3>2, <3>3 DEF Driven
  <2>3. QED
    BY <2>1, <2>2
<1>7. Action!NoEffectIsTrue' /\ Action!ApprovedReachesWire' /\ Action!SecretsStayOut'
  BY <1>2 DEF Action!Running, Action!NoEffectIsTrue, Action!ApprovedReachesWire,
     Action!SecretsStayOut, Action!NoResult
<1>8. QED
  BY <1>1, <1>6, <1>7 DEF ActionInv

-----------------------------------------------------------------------------
(* The execution of an HTTP template, action by action. *)

(* An execution that ends without a hop. *)
LEMMA QuietEnd ==
    ASSUME ActionInv, Action!Running, UNCHANGED <<doc, ceiling, loaded, present, at, caps, sent, passed, tolerated>>,
           scrub \subseteq scrub', ~result'.ok, result'.leaks = {}, result'.word # "none",
           result'.word # "precondition_failed"
    PROVE  ActionInv'
<1>0. loaded /\ loaded' /\ doc.kind = "http"
  BY DEF Action!Running
<1>1. Unloaded' /\ Ratified' /\ HopsGuarded'
  BY <1>0 DEF ActionInv, Unloaded, Ratified, HopsGuarded
<1>2. Steered'
  BY DEF ActionInv, Steered, Steers, Action!Mutating
<1>3. Carried'
  BY DEF ActionInv, Carried
<1>4. SecretsKnown'
  BY DEF ActionInv, SecretsKnown
<1>5. result' # Action!NoResult
  BY DEF Action!NoResult
<1>6. Driven'
  BY <1>5 DEF Driven, Action!Running
<1>7. Action!NoEffectIsTrue'
  <2>1. at \in Action!Steps(doc) /\ Action!Validate(doc, ceiling) /\ \A h \in sent : h.at \in 1 .. at /\ (h.at = at => Action!IsRead(Action!Step))
    BY <1>0 DEF ActionInv, Driven, Ratified
  <2>2. Action!Last(doc) \in Nat /\ Action!Steps(doc) = 1 .. Action!Last(doc)
    BY <1>0, <2>1, HttpFacts
  <2>3. SUFFICES ASSUME NEW h \in sent, h.at = Action!Last(doc)
                 PROVE  Action!IsRead(doc.steps[h.at])
    BY <1>0 DEF Action!NoEffectIsTrue, Action!Mutating
  <2>4. CASE h.at = at
    BY <2>1, <2>4 DEF Action!Step
  <2>5. CASE h.at # at
    BY <2>1, <2>2, <2>3, <2>5
  <2>6. QED
    BY <2>4, <2>5
<1>8. Action!ApprovedReachesWire' /\ Action!SecretsStayOut'
  BY DEF Action!ApprovedReachesWire, Action!SecretsStayOut
<1>9. QED
  BY <1>1, <1>2, <1>3, <1>4, <1>6, <1>7, <1>8 DEF ActionInv

(* A step that cannot be rendered, and one that was never sent. *)
LEMMA QuietSteps ==
    ASSUME ActionInv, Action!RenderFails \/ Action!NeverSent
    PROVE  ActionInv'
<1>1. CASE Action!RenderFails
  <2>1. result' = Action!Failure("failed", "render")
    BY <1>1 DEF Action!RenderFails
  <2>2. ~result'.ok /\ result'.leaks = {} /\ result'.word = "render"
    BY <2>1 DEF Action!Failure
  <2>3. QED
    BY <1>1, <2>2, QuietEnd DEF Action!RenderFails
<1>2. CASE Action!NeverSent
  <2>1. result' = Action!Failure("transport_pre_send", "transport")
    BY <1>2 DEF Action!NeverSent
  <2>2. ~result'.ok /\ result'.leaks = {} /\ result'.word = "transport"
    BY <2>1 DEF Action!Failure
  <2>3. QED
    BY <1>2, <2>2, QuietEnd DEF Action!NeverSent
<1>3. QED
  BY <1>1, <1>2

(* A hop without a readable answer. *)
LEMMA LostSteps ==
    ASSUME ActionInv, Action!NoAnswer \/ Action!Unreadable
    PROVE  ActionInv'
<1>1. Leaves /\ UNCHANGED <<caps, passed, tolerated>>
  BY DEF Action!NoAnswer, Action!Unreadable, Leaves
<1>2. result' \in {Action!Failure("transport_no_response", "transport"), Action!Failure("failed", "unreadable")}
  BY DEF Action!NoAnswer, Action!Unreadable
<1>3. /\ ~result'.ok /\ result'.leaks = {} /\ result'.word \in {"transport", "unreadable"}
      /\ result'.class # "transport_pre_send"
  BY <1>2 DEF Action!Failure
<1>4. result' # Action!NoResult
  BY <1>3 DEF Action!NoResult
<1>5. QED
  BY <1>1, <1>3, <1>4, HopEnds

(* A delivered rejection, tolerated or returned. *)
LEMMA RejectedStep ==
    ASSUME ActionInv, NEW status \in Action!Statuses, Action!Rejected(status)
    PROVE  ActionInv'
<1>1. Leaves /\ UNCHANGED <<caps, passed>>
  BY DEF Action!Rejected, Leaves
<1>2. CASE Action!Tolerates(Action!Step, status)
  <2>1. tolerated' = tolerated \cup {at} /\ at' = at + 1 /\ UNCHANGED result
    BY <1>2 DEF Action!Rejected
  <2>2. at \in Action!Steps(doc) /\ Action!Validate(doc, ceiling) /\ doc.kind = "http"
    BY <1>1 DEF ActionInv, Driven, Ratified, Leaves, Action!Running
  <2>3. Action!OptionalOK(doc, at)
    BY <2>2, HttpFacts DEF Action!StepOK
  <2>4. at # Action!Last(doc) /\ Action!Step.eq = {} /\ ~Action!Step.lit
    BY <1>2, <2>3 DEF Action!Tolerates, Action!OptionalOK, Action!Step
  <2>5. QED
    BY <1>1, <2>1, <2>4, HopGoesOn
<1>3. CASE ~Action!Tolerates(Action!Step, status)
  <2>1. Action!Return(Action!ClassOf(status), "status") /\ UNCHANGED tolerated
    BY <1>3 DEF Action!Rejected
  <2>2. Action!Scrubbed = {}
    BY <1>1, <2>1, AfterHop
  <2>3. /\ ~result'.ok /\ result'.leaks = {} /\ result'.word = "status"
        /\ result'.class = Action!ClassOf(status)
    BY <2>1, <2>2 DEF Action!Return
  <2>4. result' # Action!NoResult /\ result'.class # "transport_pre_send"
    BY <2>3 DEF Action!NoResult, Action!ClassOf, Action!Statuses
  <2>5. QED
    BY <1>1, <2>1, <2>3, <2>4, HopEnds
<1>4. QED
  BY <1>2, <1>3

(* A readable success: polled again, refused by one of its declarations,   *)
(* passed, or the last.                                                    *)
LEMMA AnsweredStep ==
    ASSUME ActionInv, Action!Running, NEW a \in Action!Answers(Action!Step), Action!Answered(a)
    PROVE  ActionInv'
<1>1. Leaves /\ UNCHANGED tolerated
  BY DEF Action!Answered, Leaves
<1>2. at \in Action!Steps(doc) /\ Action!Validate(doc, ceiling) /\ doc.kind = "http" /\ result = Action!NoResult
  BY DEF ActionInv, Driven, Ratified, Action!Running
<1>3. Action!StepOK(doc, at)
  BY <1>2, HttpFacts
<1>4. CASE Action!ShouldPoll(a)
  <2>1. UNCHANGED <<at, caps, passed, result>>
    BY <1>4 DEF Action!Answered
  <2>2. Action!IsRead(Action!Step)
    BY <1>3, <1>4 DEF Action!ShouldPoll, Action!StepOK, Action!PollOK, Action!IsRead,
       Action!Step
  <2>3. QED
    BY <1>1, <2>1, <2>2, HopGoesOn
<1>5. CASE ~Action!ShouldPoll(a)
  <2>1. /\ Action!Verdict(a)
        /\ passed' = IF Action!Holds(a) THEN passed \cup {at} ELSE passed
        /\ caps' = IF Action!Holds(a) THEN caps \cup Action!Step.cap ELSE caps
        /\ at' = IF result' = Action!NoResult THEN at + 1 ELSE at
    BY <1>5 DEF Action!Answered
  <2>2. /\ caps \subseteq caps' /\ caps' \subseteq caps \cup Action!Step.cap
        /\ passed \subseteq passed' /\ passed' \subseteq passed \cup {at}
    BY <2>1
  <2>3. Action!Scrubbed = {}
    BY <1>1, <2>2, AfterHop
  <2>4. a \in [errors : BOOLEAN, eq : BOOLEAN, lit : BOOLEAN, req : BOOLEAN, hdr : BOOLEAN,
               cap : BOOLEAN, empty : BOOLEAN]
    BY DEF Action!Answers
  <2>5. CASE Action!Holds(a) /\ at # Action!Last(doc)
    <3>1. UNCHANGED result
      BY <2>1, <2>4, <2>5 DEF Action!Verdict, Action!Holds
    <3>2. at' = at + 1 /\ at \in passed'
      BY <1>2, <2>1, <2>5, <3>1
    <3>3. QED
      BY <1>1, <2>2, <2>5, <3>1, <3>2, HopGoesOn
  <2>6. CASE Action!Holds(a) /\ at = Action!Last(doc)
    <3>1. result' = [ok |-> TRUE, class |-> "none", word |-> "done", leaks |-> Action!Scrubbed]
      BY <2>1, <2>4, <2>6 DEF Action!Verdict, Action!Holds
    <3>2. /\ result' # Action!NoResult /\ result'.leaks = {} /\ result'.class # "transport_pre_send"
          /\ result'.word = "done"
      BY <2>3, <3>1 DEF Action!NoResult
    <3>3. passed' = passed \cup {at}
      BY <2>1, <2>6
    <3>4. QED
      BY <1>1, <2>2, <2>6, <3>2, <3>3, HopEnds
  <2>7. CASE ~Action!Holds(a)
    <3>1. \/ Action!Return("failed", "graphql")
          \/ Action!Return("postcondition_mismatch", "postcondition_failed")
          \/ ~Action!Crossed /\ Action!Return("failed", "precondition_failed")
          \/ Action!Return("protocol_drift", "missing_proof_path")
          \/ Action!Return("protocol_drift", "missing_retained_header")
          \/ Action!Return("failed", "capture")
      BY <2>1, <2>4, <2>7 DEF Action!Verdict, Action!Holds
    <3>2. /\ ~result'.ok /\ result'.leaks = {} /\ result'.class # "transport_pre_send"
          /\ result'.word \notin {"render", "none"} /\ (result'.word = "precondition_failed" => ~Action!Crossed)
      BY <2>3, <3>1 DEF Action!Return
    <3>3. result' # Action!NoResult
      BY <3>2 DEF Action!NoResult
    <3>4. QED
      BY <1>1, <2>2, <3>2, <3>3, HopEnds
  <2>8. QED
    BY <2>5, <2>6, <2>7
<1>6. QED
  BY <1>4, <1>5

-----------------------------------------------------------------------------
(* Authoring, loading, and the other two kinds of execution. *)

(* Before the load the document may change; nothing else does. *)
LEMMA AuthorSteps ==
    ASSUME ActionInv, Action!Edit \/ Action!AddProvider
    PROVE  ActionInv'
<1>1. ~loaded /\ ~loaded' /\ UNCHANGED <<present, Action!run>>
  BY DEF Action!Edit, Action!AddProvider
<1>2. /\ sent' = {} /\ passed' = {} /\ tolerated' = {} /\ caps' = {} /\ at' = 1
      /\ result' = Action!NoResult
  BY <1>1 DEF ActionInv, Unloaded, Action!run
<1>3. loaded' = loaded /\ loaded \in BOOLEAN
  BY DEF ActionInv, Unloaded, Action!Edit, Action!AddProvider
<1>4. Unloaded' /\ Ratified' /\ Driven' /\ HopsGuarded' /\ Steered' /\ Carried' /\ SecretsKnown'
  BY <1>1, <1>2, <1>3 DEF Unloaded, Ratified, Driven, Action!Running, HopsGuarded, Steered,
     Carried, SecretsKnown
<1>5. Action!NoEffectIsTrue' /\ Action!ApprovedReachesWire' /\ Action!SecretsStayOut'
  BY <1>2 DEF Action!NoEffectIsTrue, Action!ApprovedReachesWire, Action!SecretsStayOut,
     Action!NoResult
<1>6. QED
  BY <1>4, <1>5 DEF ActionInv

(* The load: a validated document, its fields frozen, its secrets known. *)
LEMMA LoadStep ==
    ASSUME ActionInv, Action!Load
    PROVE  ActionInv'
<1>1. /\ sent' = {} /\ passed' = {} /\ tolerated' = {} /\ caps' = {} /\ at' = 1
      /\ result' = Action!NoResult /\ loaded' /\ loaded' = TRUE /\ doc' = doc /\ ceiling' = ceiling
  BY DEF ActionInv, Unloaded, Action!Load
<1>2. Action!Validate(doc, ceiling) /\ present' \subseteq DOMAIN doc.decl /\ scrub' = Action!RawSecrets
  BY DEF Action!Load
<1>3. Unloaded' /\ Ratified' /\ HopsGuarded' /\ Steered'
  BY <1>1, <1>2 DEF Unloaded, Ratified, HopsGuarded, Steered
<1>4. Driven'
  <2>1. CASE doc.kind = "http"
    <3>1. Action!Last(doc) \in Nat \ {0} /\ Action!Steps(doc) = 1 .. Action!Last(doc)
      BY <1>2, <2>1, HttpFacts
    <3>2. at' \in Action!Steps(doc)' /\ 1 .. at' - 1 = {}
      BY <1>1, <3>1 DEF Action!Steps, Action!Last
    <3>3. QED
      BY <1>1, <3>2 DEF Driven, Action!Guarded
  <2>2. CASE doc.kind # "http"
    BY <1>1, <2>2 DEF Driven, Action!Running
  <2>3. QED
    BY <2>1, <2>2
<1>5. Carried'
  BY <1>1 DEF Carried
<1>6. SecretsKnown'
  BY <1>1, <1>2 DEF SecretsKnown, Action!RawSecrets
<1>7. Action!NoEffectIsTrue' /\ Action!ApprovedReachesWire' /\ Action!SecretsStayOut'
  BY <1>1 DEF Action!NoEffectIsTrue, Action!ApprovedReachesWire, Action!SecretsStayOut,
     Action!NoResult
<1>8. QED
  BY <1>3, <1>4, <1>5, <1>6, <1>7 DEF ActionInv

(* A git verb: the remote path is built from exact identities. *)
LEMMA GitStep ==
    ASSUME ActionInv, Action!ExecuteGit
    PROVE  ActionInv'
<1>1. /\ loaded /\ loaded' = loaded /\ doc.kind = "git" /\ doc' = doc /\ ceiling' = ceiling
      /\ present' = present
  BY DEF Action!ExecuteGit
<1>2. Action!GitOK(doc)
  BY <1>1 DEF ActionInv, Ratified, Action!Validate
<1>3. PICK w : w = [path |-> doc.git.path, query |-> {},
                    body |-> {[n |-> n, form |-> "raw", from |-> "field"] :
                                n \in (Action!GitFields(doc) \cap present) \ doc.git.path}]
  OBVIOUS
<1>4. PICK h : h = [at |-> 1, wire |-> w, guarded |-> TRUE]
  OBVIOUS
<1>5. sent' = {h} /\ h.guarded /\ h.wire = w
  BY <1>3, <1>4 DEF Action!ExecuteGit
<1>6. w.path = doc.git.path /\ w.query = {}
  BY <1>3
<1>7. result' # Action!NoResult /\ result'.leaks = {}
  BY DEF Action!ExecuteGit, Action!Failure, Action!NoResult
<1>8. Unloaded' /\ Ratified' /\ HopsGuarded' /\ Driven' /\ Carried' /\ SecretsKnown'
  BY <1>1, <1>5 DEF ActionInv, Unloaded, Ratified, HopsGuarded, Driven, Action!Running,
     Carried, SecretsKnown
<1>9. Steered'
  <2>1. ASSUME NEW n \in doc.git.path PROVE Steers(h, n)'
    BY <1>1, <1>2 DEF Action!GitOK, Steers
  <2>2. QED
    BY <1>5, <1>6, <2>1 DEF Steered
<1>10. Action!ApprovedReachesWire'
  <2>1. SUFFICES ASSUME NEW n \in doc.consumes \cap present PROVE Carries(h, n)
    BY <1>1, <1>5 DEF Action!ApprovedReachesWire, Carries
  <2>2. n \in Action!GitFields(doc) \cap present
    BY <1>2 DEF Action!GitOK
  <2>3. CASE n \in doc.git.path
    BY <1>5, <1>6, <2>3 DEF Carries
  <2>4. CASE n \notin doc.git.path
    <3>1. PICK x : x = [n |-> n, form |-> "raw", from |-> "field"]
      OBVIOUS
    <3>2. x \in w.body /\ x.n = n
      BY <1>3, <2>2, <2>4, <3>1
    <3>3. QED
      BY <1>5, <3>2 DEF Carries
  <2>5. QED
    BY <2>3, <2>4
<1>11. Action!NoEffectIsTrue' /\ Action!SecretsStayOut'
  BY <1>1, <1>7 DEF Action!NoEffectIsTrue, Action!SecretsStayOut
<1>12. QED
  BY <1>8, <1>9, <1>10, <1>11 DEF ActionInv

(* A relayed hop: the wildcard of a poll is pinned to what the effect      *)
(* captured.                                                               *)
LEMMA RelayStep ==
    ASSUME ActionInv, doc.kind = "relay", NEW r \in doc.rules, Action!RelayHop(r)
    PROVE  ActionInv'
<1>1. /\ loaded /\ loaded' = loaded /\ doc' = doc /\ ceiling' = ceiling /\ present' = present
      /\ doc.kind = "relay" /\ caps \subseteq caps'
  BY DEF Action!RelayHop
<1>2. Action!RelayOK(doc)
  BY <1>1 DEF ActionInv, Ratified, Action!Validate
<1>3. Unloaded' /\ Ratified' /\ Driven' /\ Carried' /\ SecretsKnown'
  BY <1>1 DEF ActionInv, Unloaded, Ratified, Driven, Action!Running, Carried, SecretsKnown
<1>4. Action!NoEffectIsTrue' /\ Action!ApprovedReachesWire'
  BY <1>1 DEF Action!NoEffectIsTrue, Action!ApprovedReachesWire
<1>5. Action!SecretsStayOut'
  <2>1. result' = result \/ result'.leaks = {}
    BY DEF Action!RelayHop, Action!Failure
  <2>2. result = Action!NoResult
    BY DEF Action!RelayHop
  <2>3. QED
    BY <2>1, <2>2 DEF Action!SecretsStayOut, Action!NoResult
<1>6. ASSUME NEW g, NEW n, Steers(g, n) PROVE Steers(g, n)'
  BY <1>1, <1>6 DEF Steers, Action!Mutating
<1>7. PICK offer \in [r.bind -> {"frozen", "other", "absent"}] :
        IF \A b \in r.bind : Action!BindHolds(b, offer[b])
        THEN sent' = sent \cup {[at |-> IF r.once THEN 1 ELSE 2, guarded |-> TRUE,
                wire |-> [path |-> {b.n : b \in {c \in r.bind : c.at = "path"}}, query |-> {},
                          body |-> {[n |-> b.n, form |-> offer[b], from |-> "field"] : b \in
                                      {c \in r.bind : c.at # "path"}}]]}
        ELSE UNCHANGED sent
  BY Zenon DEF Action!RelayHop
<1>8. CASE \A b \in r.bind : Action!BindHolds(b, offer[b])
  <2>1. PICK w : w = [path |-> {b.n : b \in {c \in r.bind : c.at = "path"}}, query |-> {},
                      body |-> {[n |-> b.n, form |-> offer[b], from |-> "field"] : b \in
                                  {c \in r.bind : c.at # "path"}}]
    OBVIOUS
  <2>2. PICK h : h = [at |-> IF r.once THEN 1 ELSE 2, guarded |-> TRUE, wire |-> w]
    OBVIOUS
  <2>3. sent' = sent \cup {h}
    BY <1>7, <1>8, <2>1, <2>2
  <2>4. /\ h.guarded /\ h.wire.path = {b.n : b \in {c \in r.bind : c.at = "path"}}
        /\ h.wire.query = {} /\ h.at = IF r.once THEN 1 ELSE 2
    BY <2>1, <2>2
  <2>5. ASSUME NEW b \in r.bind, b.at = "path" PROVE Steers(h, b.n)
    <3>1. Action!BindOK(doc, r, b)
      BY <1>2 DEF Action!RelayOK
    <3>2. ~r.once
      BY <2>5, <3>1 DEF Action!BindOK
    <3>3. b.n \in caps
      BY <1>8, <2>5 DEF Action!BindHolds
    <3>4. QED
      BY <1>1, <2>4, <3>2, <3>3 DEF Steers
  <2>6. \A n \in h.wire.path \cup {x.n : x \in h.wire.query} : Steers(h, n)'
    BY <1>6, <2>4, <2>5
  <2>7. Steered' /\ HopsGuarded'
    BY <1>6, <2>3, <2>4, <2>6 DEF ActionInv, Steered, HopsGuarded
  <2>8. QED
    BY <1>3, <1>4, <1>5, <2>7 DEF ActionInv
<1>9. CASE ~(\A b \in r.bind : Action!BindHolds(b, offer[b]))
  <2>1. sent' = sent
    BY <1>7, <1>9
  <2>2. Steered' /\ HopsGuarded'
    BY <1>6, <2>1 DEF ActionInv, Steered, HopsGuarded
  <2>3. QED
    BY <1>3, <1>4, <1>5, <2>2 DEF ActionInv
<1>10. QED
  BY <1>8, <1>9

-----------------------------------------------------------------------------
(* Every step keeps the invariant. *)
LEMMA ActionInvariant == Action!Spec => []ActionInv
<1>1. Action!Init => ActionInv
  BY DEF Action!Init, ActionInv, Unloaded, Ratified, Driven, Action!Running, HopsGuarded,
     Steered, Carried, SecretsKnown, Action!NoEffectIsTrue, Action!ApprovedReachesWire,
     Action!SecretsStayOut, Action!NoResult
<1>2. ActionInv /\ [Action!Next]_(Action!vars) => ActionInv'
  <2>1. SUFFICES ASSUME ActionInv, [Action!Next]_(Action!vars) PROVE ActionInv'
    OBVIOUS
  <2>2. CASE UNCHANGED Action!vars
    <3>1. Unloaded' /\ Ratified' /\ HopsGuarded'
      BY <2>1, <2>2 DEF Action!vars, ActionInv, Unloaded, Ratified, HopsGuarded
    <3>2. Driven'
      BY <2>1, <2>2 DEF Action!vars, ActionInv, Driven, Action!Running, Action!Guarded,
         Action!Step, Action!Steps, Action!Last
    <3>3. Steered'
      BY <2>1, <2>2 DEF Action!vars, ActionInv, Steered, Steers, Action!Mutating
    <3>4. Carried' /\ SecretsKnown'
      BY <2>1, <2>2 DEF Action!vars, ActionInv, Carried, SecretsKnown
    <3>5. Action!NoEffectIsTrue'
      BY <2>1, <2>2 DEF Action!vars, ActionInv, Action!NoEffectIsTrue, Action!Mutating
    <3>6. Action!ApprovedReachesWire' /\ Action!SecretsStayOut'
      BY <2>1, <2>2 DEF Action!vars, ActionInv, Action!ApprovedReachesWire,
         Action!SecretsStayOut
    <3>7. QED
      BY <3>1, <3>2, <3>3, <3>4, <3>5, <3>6 DEF ActionInv
  <2>3. QED
    BY <2>1, <2>2, AuthorSteps, LoadStep, QuietSteps, LostSteps, RejectedStep, AnsweredStep,
       GitStep, RelayStep DEF Action!Next
<1>3. QED
  BY <1>1, <1>2, PTL DEF Action!Spec

(* The composition implements the execution of templates: the other parts  *)
(* leave it alone.                                                         *)
LEMMA ImplementsAction == PartSpec => Action!Spec
<1>1. PartInit => Action!Init
  BY DEF PartInit
<1>2. [PartNext]_partVars => [Action!Next]_(Action!vars)
  BY DEF PartNext, RulesPart, ActionPart, MoneyPart, HostPart, partVars, actionState, Action!vars
<1>3. QED
  BY <1>1, <1>2, PTL DEF PartSpec, Action!Spec

(* For every document the validator lets pass, whatever the provider       *)
(* answers: no mutation leaves before the steps before it have answered    *)
(* and their assertions held, and an execution reported as without effect  *)
(* sent no mutation in its last step.  It may have sent one before it when *)
(* the document mutates earlier, as one that ships does                    *)
(* (execute_template_steps, validate_steps).                               *)
THEOREM EffectsGuarded == PartSpec => []EffectIsGuarded
<1>1. ActionInv => EffectIsGuarded
  BY DEF ActionInv, HopsGuarded, EffectIsGuarded, Action!EffectIsGuarded
<1>2. QED
  BY <1>1, ImplementsAction, ActionInvariant, PTL

(* For every document the validator lets pass: what the approval pinned    *)
(* steers the URL, every approved field reached the provider when success  *)
(* is reported, and no submitted secret comes back (validate_steps,        *)
(* validate_relay, execute_template_steps, SecretScrub).                   *)
THEOREM ApprovalIsSent == PartSpec => []ApprovedIsSent
<1>1. ActionInv => ApprovedIsSent
  BY DEF ActionInv, Steered, Steers, ApprovedIsSent, Action!ApprovalSteersUrl
<1>2. QED
  BY <1>1, ImplementsAction, ActionInvariant, PTL

-----------------------------------------------------------------------------
(* The rules: what a verdict depends on. *)

(* Min is the least member. *)
LEMMA MinIs ==
  ASSUME NEW T \in SUBSET Nat, T # {}
  PROVE  Min(T) \in T /\ \A y \in T : Min(T) <= y
<1>1. \E x \in T : \A y \in T : x =< y
  BY LeastNat
<1>2. QED
  BY <1>1, Zenon DEF Min

(* First is the place of the first such answer, or the place after the     *)
(* last when there is none.                                                *)
LEMMA FirstIs ==
  ASSUME NEW S, NEW says \in Seq(S), NEW answers
  PROVE  /\ First(says, answers) \in 1..(Len(says) + 1)
         /\ First(says, answers) <= Len(says) =>
              First(says, answers) \in DOMAIN says /\ says[First(says, answers)] \in answers
         /\ \A j \in DOMAIN says : says[j] \in answers => First(says, answers) <= j
<1> DEFINE T == {i \in DOMAIN says : says[i] \in answers} \cup {Len(says) + 1}
<1>1. DOMAIN says = 1..Len(says) /\ Len(says) \in Nat
  OBVIOUS
<1>2. T \in SUBSET Nat /\ T # {} /\ T \subseteq 1..(Len(says) + 1)
  BY <1>1
<1>3. First(says, answers) = Min(T)
  BY DEF First
<1>4. Min(T) \in T /\ \A y \in T : Min(T) <= y
  BY <1>2, MinIs
<1> HIDE DEF T
<1>5. First(says, answers) \in 1..(Len(says) + 1)
  BY <1>2, <1>3, <1>4
<1>6. ASSUME First(says, answers) <= Len(says)
      PROVE  First(says, answers) \in DOMAIN says /\ says[First(says, answers)] \in answers
  BY <1>1, <1>3, <1>4, <1>6 DEF T
<1>7. ASSUME NEW j \in DOMAIN says, says[j] \in answers PROVE First(says, answers) <= j
  <2>1. j \in T
    BY <1>7 DEF T
  <2>2. QED
    BY <1>3, <1>4, <2>1
<1>8. QED
  BY <1>5, <1>6, <1>7

(* The answers that refuse on the spot. *)
Refuses(answer) == answer \in {"unresolved", "denied"}

(* A refusal on the spot hides every match; without one the first match    *)
(* governs; without either the request is refused.                         *)
LEMMA JudgeIs ==
  ASSUME NEW S, NEW says \in Seq(S)
  PROVE  /\ (\E i \in DOMAIN says : Refuses(says[i])) => Judge(says).allow = FALSE
         /\ (\A i \in DOMAIN says : says[i] # "admits") => Judge(says).allow = FALSE
         /\ (\A i \in DOMAIN says : ~Refuses(says[i])) /\ (\E i \in DOMAIN says : says[i] = "admits")
              => \E k \in DOMAIN says :
                    /\ Judge(says) = Allow(k) /\ says[k] = "admits"
                    /\ \A j \in DOMAIN says : says[j] = "admits" => k <= j
<1> DEFINE no == First(says, {"unresolved", "denied"})
           yes == First(says, {"admits"})
           out == First(says, {"mismatch", "missing"})
<1>0. DOMAIN says = 1..Len(says) /\ Len(says) \in Nat
  OBVIOUS
<1>1. Judge(says) = IF no <= Len(says) THEN Deny(says[no], no)
        ELSE IF yes <= Len(says) THEN Allow(yes)
        ELSE IF out <= Len(says) THEN Deny(says[out], out)
        ELSE Deny("no_rule", 0)
  BY DEF Judge
<1>2. /\ no \in Nat
      /\ no <= Len(says) => no \in DOMAIN says /\ Refuses(says[no])
      /\ \A j \in DOMAIN says : Refuses(says[j]) => no <= j
  BY FirstIs DEF Refuses
<1>3. /\ yes \in Nat
      /\ yes <= Len(says) => yes \in DOMAIN says /\ says[yes] = "admits"
      /\ \A j \in DOMAIN says : says[j] = "admits" => yes <= j
  BY FirstIs
<1> HIDE DEF no, yes, out
<1>4. \A why, i : Deny(why, i).allow = FALSE
  BY DEF Deny
<1>5. ASSUME NEW i \in DOMAIN says, Refuses(says[i]) PROVE Judge(says).allow = FALSE
  BY <1>0, <1>1, <1>2, <1>4, <1>5
<1>6. ASSUME \A i \in DOMAIN says : says[i] # "admits" PROVE Judge(says).allow = FALSE
  BY <1>0, <1>1, <1>3, <1>4, <1>6
<1>7. ASSUME \A i \in DOMAIN says : ~Refuses(says[i]), NEW i \in DOMAIN says, says[i] = "admits"
      PROVE  \E k \in DOMAIN says :
                /\ Judge(says) = Allow(k) /\ says[k] = "admits"
                /\ \A j \in DOMAIN says : says[j] = "admits" => k <= j
  <2>1. ~(no <= Len(says))
    BY <1>2, <1>7
  <2>2. yes <= Len(says)
    BY <1>0, <1>3, <1>7
  <2>3. QED
    BY <1>1, <1>3, <2>1, <2>2
<1>8. QED
  BY <1>5, <1>6, <1>7

(* What the rules of a corpus say of a request, in their order. *)
Answers(b, rules, vb, rs) == [i \in DOMAIN rules |-> RuleSays(b, rules[i], vb, rs)]
IsSequence(rules) == \E S : rules \in Seq(S)

(* A known verb is allowed when no rule refuses and some rule admits, and  *)
(* the first that admits is the one named.                                 *)
LEMMA EvaluateIs ==
  ASSUME NEW b, NEW rules, IsSequence(rules), NEW vb, NEW rs
  PROVE  /\ Evaluate(b, rules, vb, rs).allow \in BOOLEAN
         /\ Evaluate(b, rules, vb, rs).allow <=>
              /\ Known(vb)
              /\ \A i \in DOMAIN rules : ~Refuses(RuleSays(b, rules[i], vb, rs))
              /\ \E i \in DOMAIN rules : RuleSays(b, rules[i], vb, rs) = "admits"
         /\ Evaluate(b, rules, vb, rs).allow => \E k \in DOMAIN rules :
              /\ Evaluate(b, rules, vb, rs) = Allow(k)
              /\ RuleSays(b, rules[k], vb, rs) = "admits"
              /\ \A j \in DOMAIN rules : RuleSays(b, rules[j], vb, rs) = "admits" => k <= j
<1> DEFINE says == Answers(b, rules, vb, rs)
           S == {RuleSays(b, rules[i], vb, rs) : i \in DOMAIN rules}
<1>1. PICK R : rules \in Seq(R)
  BY DEF IsSequence
<1>2. DOMAIN rules = 1..Len(rules) /\ Len(rules) \in Nat
  BY <1>1
<1>3. /\ DOMAIN says = DOMAIN rules
      /\ \A i \in DOMAIN rules : says[i] = RuleSays(b, rules[i], vb, rs)
  BY DEF Answers
<1>4. says \in Seq(S)
  <2>1. says \in [1..Len(rules) -> S]
    BY <1>2 DEF Answers
  <2>2. QED
    BY <1>2, <2>1
<1>5. Allow(1).allow = TRUE /\ \A k : Allow(k).allow = TRUE
  BY DEF Allow
<1>6. CASE ~Known(vb)
  BY <1>6 DEF Evaluate, Deny
<1>7. CASE Known(vb)
  <2>1. Evaluate(b, rules, vb, rs) = Judge(says)
    BY <1>7 DEF Evaluate, Answers
  <2> HIDE DEF says, S
  <2>2. /\ (\E i \in DOMAIN says : Refuses(says[i])) => Judge(says).allow = FALSE
        /\ (\A i \in DOMAIN says : says[i] # "admits") => Judge(says).allow = FALSE
        /\ (\A i \in DOMAIN says : ~Refuses(says[i])) /\ (\E i \in DOMAIN says : says[i] = "admits")
              => \E k \in DOMAIN says :
                    /\ Judge(says) = Allow(k) /\ says[k] = "admits"
                    /\ \A j \in DOMAIN says : says[j] = "admits" => k <= j
    BY <1>4, JudgeIs
  <2>3. CASE /\ \A i \in DOMAIN says : ~Refuses(says[i])
             /\ \E i \in DOMAIN says : says[i] = "admits"
    <3>1. PICK k \in DOMAIN says :
                    /\ Judge(says) = Allow(k) /\ says[k] = "admits"
                    /\ \A j \in DOMAIN says : says[j] = "admits" => k <= j
      BY <2>2, <2>3
    <3>2. Evaluate(b, rules, vb, rs).allow = TRUE
      BY <1>5, <2>1, <3>1
    <3>3. QED
      BY <1>3, <1>7, <2>1, <2>3, <3>1, <3>2
  <2>4. CASE ~(/\ \A i \in DOMAIN says : ~Refuses(says[i])
               /\ \E i \in DOMAIN says : says[i] = "admits")
    <3>1. Evaluate(b, rules, vb, rs).allow = FALSE
      BY <2>1, <2>2, <2>4
    <3>2. QED
      BY <1>3, <2>4, <3>1
  <2>5. QED
    BY <2>3, <2>4
<1>8. QED
  BY <1>6, <1>7

(* A catalogue resolves a set selector or it does not; nothing else of a   *)
(* rule's answer depends on the build.                                     *)
LEMMA SaysIs ==
  ASSUME NEW b, NEW rule, NEW vb, NEW rs
  PROVE  /\ RuleSays(b, rule, vb, rs) = "admits" <=>
              /\ RuleIsValid(rule) /\ rule.effect # "deny" /\ Covers(b, rule, vb)
              /\ 0 \notin Project(b, rule, vb)
              /\ FailsAt(rule, Project(b, rule, vb), rs) = {}
         /\ RuleIsValid(rule) => (Refuses(RuleSays(b, rule, vb, rs)) <=>
              /\ rule.effect = "deny"
              /\ \/ Stale(b, rule, vb)
                 \/ /\ Covers(b, rule, vb)
                    /\ \/ 0 \in Project(b, rule, vb)
                       \/ ~ConjunctsResolve(At(rule, Project(b, rule, vb)), vb)
                       \/ FailsAt(rule, Project(b, rule, vb), rs) = {})
<1>1. RuleSays(b, rule, vb, rs) = "admits" <=>
              /\ RuleIsValid(rule) /\ rule.effect # "deny" /\ Covers(b, rule, vb)
              /\ 0 \notin Project(b, rule, vb)
              /\ FailsAt(rule, Project(b, rule, vb), rs) = {}
  BY DEF RuleSays
<1>2. ASSUME RuleIsValid(rule)
      PROVE  Refuses(RuleSays(b, rule, vb, rs)) <=>
              /\ rule.effect = "deny"
              /\ \/ Stale(b, rule, vb)
                 \/ /\ Covers(b, rule, vb)
                    /\ \/ 0 \in Project(b, rule, vb)
                       \/ ~ConjunctsResolve(At(rule, Project(b, rule, vb)), vb)
                       \/ FailsAt(rule, Project(b, rule, vb), rs) = {}
  BY <1>2 DEF RuleSays, Refuses
<1>3. QED
  BY <1>1, <1>2

(* An injection of a corpus' places into themselves reaches every place. *)
LEMMA PlacesReached ==
  ASSUME NEW n \in Nat, NEW p \in [1..n -> 1..n], \A i, j \in 1..n : p[i] = p[j] => i = j
  PROVE  \A j \in 1..n : \E i \in 1..n : p[i] = j
<1>1. p \in Injection(1..n, 1..n)
  BY DEF Injection, IsInjective
<1>2. IsFiniteSet(1..n)
  BY FS_Interval
<1>3. p \in Surjection(1..n, 1..n)
  BY <1>1, <1>2, FS_Injection
<1>4. QED
  BY <1>3 DEF Surjection

-----------------------------------------------------------------------------
(* The rules: the inductive invariant. *)

(* The standing corpus is a sequence of rules that passed the gate under   *)
(* the catalogue of the build it was committed under; what is suggested is *)
(* a rule; and an allow in force is what this corpus answers now.          *)
CorpusInv ==
    /\ IsSequence(corpus) /\ \A i \in DOMAIN corpus : IsRule(corpus[i])
    /\ Prepared(approved, corpus)
    /\ hint # NoHint => IsRule(hint.rule)
    /\ query # NoQuery =>
         \/ verdict.allow = FALSE
         \/ verdict = Evaluate(build, corpus, query.verb, query.res)

(* The suggestion of a wider rule is made from a rule that can be widened. *)
LEMMA WidenIs ==
  ASSUME NEW b, NEW rules, IsSequence(rules), NEW vb, NEW rs,
         WidenHint(b, rules, vb, rs) # NoHint
  PROVE  \E i \in DOMAIN rules :
            /\ Widens(b, rules[i], vb, rs)
            /\ WidenHint(b, rules, vb, rs) = Hint(i, rules[i], Project(b, rules[i], vb), rs)
<1> DEFINE places == {i \in DOMAIN rules : Widens(b, rules[i], vb, rs)}
           H(i) == Hint(i, rules[i], Project(b, rules[i], vb), rs)
           W == {H(i) : i \in places}
           least == Min(places)
<1>1. places # {} /\ WidenHint(b, rules, vb, rs) = CHOOSE h \in W : h.from = least
  BY DEF WidenHint
<1>2. places \in SUBSET Nat
  BY DEF IsSequence
<1>3. least \in places
  BY <1>1, <1>2, MinIs
<1>4. H(least).from = least
  BY DEF Hint
<1>5. H(least) \in W
  BY <1>3
<1>6. (CHOOSE h \in W : h.from = least) \in W
  <2> HIDE DEF W, least, H, places
  <2>1. QED
    BY <1>4, <1>5, Zenon
<1>7. QED
  BY <1>1, <1>6

(* A widened rule is the same rule with other conjuncts on the same        *)
(* fields, the same where the request does not speak.                      *)
LEMMA WidenedIs ==
  ASSUME NEW rule, IsRule(rule), NEW places, NEW rs
  PROVE  LET wide == Widened(rule, places, rs) IN
         /\ IsRule(wide) /\ wide.effect = rule.effect /\ wide.sel = rule.sel
         /\ DOMAIN wide.conj = DOMAIN rule.conj
         /\ \A i \in DOMAIN rule.conj :
              /\ FieldOf(wide.conj[i]) = FieldOf(rule.conj[i])
              /\ FieldOf(rule.conj[i]) \notin DOMAIN rs => wide.conj[i] = rule.conj[i]
<1> DEFINE wide == Widened(rule, places, rs)
<1>1. /\ DOMAIN wide = DOMAIN rule /\ wide.effect = rule.effect /\ wide.sel = rule.sel
      /\ wide.conj = [i \in DOMAIN rule.conj |->
            IF i \in places /\ FieldOf(rule.conj[i]) \in DOMAIN rs
            THEN WidenPred(rule.conj[i], rs) ELSE rule.conj[i]]
  BY DEF Widened, IsRule
<1>2. ASSUME NEW p, "field" \in DOMAIN p
      PROVE  "field" \in DOMAIN WidenPred(p, rs) /\ FieldOf(WidenPred(p, rs)) = FieldOf(p)
  BY <1>2 DEF WidenPred, FieldOf
<1>3. /\ DOMAIN wide.conj = DOMAIN rule.conj
      /\ \A i \in DOMAIN rule.conj : wide.conj[i] =
            IF i \in places /\ FieldOf(rule.conj[i]) \in DOMAIN rs
            THEN WidenPred(rule.conj[i], rs) ELSE rule.conj[i]
  BY <1>1
<1> HIDE DEF wide
<1>4. \A i \in DOMAIN rule.conj :
        /\ "field" \in DOMAIN wide.conj[i] /\ FieldOf(wide.conj[i]) = FieldOf(rule.conj[i])
        /\ FieldOf(rule.conj[i]) \notin DOMAIN rs => wide.conj[i] = rule.conj[i]
  BY <1>2, <1>3 DEF IsRule
<1>5. IsRule(wide)
  BY <1>1, <1>3, <1>4 DEF IsRule
<1>6. QED
  BY <1>1, <1>3, <1>4, <1>5 DEF wide

(* The members of a finite set in some order. *)
LEMMA SetToSeqIs ==
  ASSUME NEW T, IsFiniteSet(T)
  PROVE  SetToSeq(T) \in [1..Cardinality(T) -> T] /\ Cardinality(T) \in Nat
<1>1. Cardinality(T) \in Nat /\ \E f : f \in Bijection(1..Cardinality(T), T)
  BY FS_CardinalityType DEF ExistsBijection
<1>2. \E f \in [1..Cardinality(T) -> T] : IsInjective(f)
  BY <1>1 DEF Bijection, Injection
<1>3. QED
  BY <1>1, <1>2, Zenon DEF SetToSeq

(* The first rule suggested for a verb allows that verb, and pins exact    *)
(* values the request carries.                                             *)
LEMMA UnruledIs ==
  ASSUME NEW vb, Known(vb), NEW rs, UnruledHint(vb, rs) # NoHint
  PROVE  LET h == UnruledHint(vb, rs) IN
         /\ h.from = 0 /\ h.omitted = {} /\ RuleIsValid(h.rule)
         /\ IsRule(h.rule) /\ h.rule.effect = "allow"
         /\ h.rule.sel.type = "verb" /\ h.rule.sel.name = vb
         /\ 0 \notin DOMAIN h.rule.conj
         /\ \A i \in DOMAIN h.rule.conj :
              LET p == h.rule.conj[i] IN
              p.op = "eq" /\ FieldOf(p) \in DOMAIN rs /\ p.value = rs[FieldOf(p)]
<1> DEFINE c == Contracts[vb]
           fields == c.targets \cap DOMAIN rs
           pins == IF FullyPinned(vb) THEN SetToSeq(fields) ELSE <<>>
           pred == [i \in DOMAIN pins |->
                      [op |-> "eq", field |-> pins[i], value |-> rs[pins[i]]]]
           rule == [effect |-> "allow", sel |-> [type |-> "verb", name |-> vb],
                    conj |-> pred, agg |-> NoAggregate]
<1>1. UnruledHint(vb, rs) = [from |-> 0, command |-> TRUE, rule |-> rule, omitted |-> {}]
      /\ RuleIsValid(rule)
  BY Zenon DEF UnruledHint
<1>2. pins \in [DOMAIN pins -> fields] /\ 0 \notin DOMAIN pins
  <2>1. IsFiniteSet(c.targets)
    BY ContractsAssumption DEF Known
  <2>2. IsFiniteSet(fields)
    BY <2>1, FS_Subset
  <2>3. SetToSeq(fields) \in [1..Cardinality(fields) -> fields] /\ Cardinality(fields) \in Nat
    <3> HIDE DEF fields
    <3>1. QED
      BY <2>2, SetToSeqIs
  <2>4. CASE FullyPinned(vb)
    <3>1. pins = SetToSeq(fields)
      BY <2>4
    <3> HIDE DEF pins, fields
    <3>2. pins \in [1..Cardinality(fields) -> fields] /\ Cardinality(fields) \in Nat
      BY <2>3, <3>1
    <3>3. DOMAIN pins = 1..Cardinality(fields)
      BY <3>2
    <3>4. QED
      BY <3>2, <3>3
  <2>5. CASE ~FullyPinned(vb)
    <3>1. pins = <<>>
      BY <2>5
    <3> HIDE DEF pins, fields
    <3>2. pins \in Seq(fields) /\ Len(pins) = 0
      BY <3>1
    <3>3. DOMAIN pins = {} /\ pins \in [1..Len(pins) -> fields]
      BY <3>2
    <3>4. QED
      BY <3>2, <3>3
  <2>6. QED
    BY <2>4, <2>5
<1> HIDE DEF pins, fields
<1>3. /\ DOMAIN pred = DOMAIN pins
      /\ \A i \in DOMAIN pins :
            /\ pred[i].op = "eq" /\ pred[i].field = pins[i] /\ pred[i].value = rs[pins[i]]
            /\ "field" \in DOMAIN pred[i]
  OBVIOUS
<1>4. \A i \in DOMAIN pins : pins[i] \in DOMAIN rs
  BY <1>2 DEF fields
<1> HIDE DEF pred
<1>5. /\ rule.effect = "allow" /\ rule.sel.type = "verb" /\ rule.sel.name = vb
      /\ rule.conj = pred /\ {"effect", "sel", "conj"} \subseteq DOMAIN rule
      /\ "type" \in DOMAIN rule.sel
  OBVIOUS
<1> HIDE DEF rule
<1>6. IsRule(rule)
  BY <1>3, <1>5 DEF IsRule
<1>7. UnruledHint(vb, rs).rule = rule /\ UnruledHint(vb, rs).from = 0
      /\ UnruledHint(vb, rs).omitted = {}
  BY <1>1
<1>8. QED
  BY <1>1, <1>2, <1>3, <1>4, <1>5, <1>6, <1>7 DEF FieldOf

(* Only these refusals carry a suggestion. *)
LEMMA HintSpeaks ==
  ASSUME NEW b, NEW rules, NEW vb, NEW rs, NEW v, HintFor(b, rules, vb, rs, v) # NoHint
  PROVE  /\ ~v.allow /\ v.why \in {"mismatch", "missing", "no_rule"}
         /\ \/ HintFor(b, rules, vb, rs, v) = WidenHint(b, rules, vb, rs)
            \/ HintFor(b, rules, vb, rs, v) = UnruledHint(vb, rs)
BY DEF HintFor

(* What is suggested is a rule. *)
LEMMA HintIsRule ==
  ASSUME NEW b, NEW rules, IsSequence(rules), \A i \in DOMAIN rules : IsRule(rules[i]),
         NEW vb, Known(vb), NEW rs, NEW v, HintFor(b, rules, vb, rs, v) # NoHint
  PROVE  IsRule(HintFor(b, rules, vb, rs, v).rule)
<1>1. CASE HintFor(b, rules, vb, rs, v) = WidenHint(b, rules, vb, rs)
  <2>1. PICK i \in DOMAIN rules :
           WidenHint(b, rules, vb, rs) = Hint(i, rules[i], Project(b, rules[i], vb), rs)
    BY <1>1, WidenIs
  <2>2. WidenHint(b, rules, vb, rs).rule = Widened(rules[i], Project(b, rules[i], vb), rs)
    BY <2>1 DEF Hint
  <2>3. IsRule(rules[i])
    OBVIOUS
  <2>4. QED
    BY <1>1, <2>2, <2>3, WidenedIs
<1>2. CASE HintFor(b, rules, vb, rs, v) = UnruledHint(vb, rs)
  BY <1>2, UnruledIs
<1>3. QED
  BY <1>1, <1>2 DEF HintFor

(* Every command that writes a corpus sends a sequence of rules. *)
LEMMA CommandsSendRules ==
  ASSUME IsSequence(corpus), \A i \in DOMAIN corpus : IsRule(corpus[i])
  PROVE  /\ \A r : IsRule(r) =>
              /\ IsSequence(Append(corpus, r))
              /\ \A i \in DOMAIN Append(corpus, r) : IsRule(Append(corpus, r)[i])
         /\ \A n \in DOMAIN corpus :
              /\ IsSequence(RemoveAt(corpus, n))
              /\ \A i \in DOMAIN RemoveAt(corpus, n) : IsRule(RemoveAt(corpus, n)[i])
         /\ \A n \in DOMAIN corpus : \A d :
              /\ IsSequence([corpus EXCEPT ![n].sel.digest = d])
              /\ \A i \in DOMAIN [corpus EXCEPT ![n].sel.digest = d] :
                    IsRule([corpus EXCEPT ![n].sel.digest = d][i])
<1> DEFINE R == {corpus[i] : i \in DOMAIN corpus}
<1>0. PICK S : corpus \in Seq(S)
  BY DEF IsSequence
<1>1. corpus \in Seq(R) /\ \A r \in R : IsRule(r)
  <2>1. corpus \in [1..Len(corpus) -> R] /\ Len(corpus) \in Nat
    BY <1>0
  <2>2. corpus \in Seq(R)
    BY <2>1
  <2>3. QED
    BY <2>2
<1> HIDE DEF R
<1>2. ASSUME NEW r, IsRule(r)
      PROVE  /\ IsSequence(Append(corpus, r))
             /\ \A i \in DOMAIN Append(corpus, r) : IsRule(Append(corpus, r)[i])
  <2>1. corpus \in Seq(R \cup {r})
    BY <1>1
  <2>2. Append(corpus, r) \in Seq(R \cup {r})
    BY <2>1
  <2>3. \A i \in DOMAIN Append(corpus, r) : Append(corpus, r)[i] \in R \cup {r}
    BY <2>2
  <2>4. QED
    BY <1>1, <1>2, <2>2, <2>3 DEF IsSequence
<1>3. ASSUME NEW n \in DOMAIN corpus
      PROVE  /\ IsSequence(RemoveAt(corpus, n))
             /\ \A i \in DOMAIN RemoveAt(corpus, n) : IsRule(RemoveAt(corpus, n)[i])
  <2>1. RemoveAt(corpus, n) \in Seq(R)
    <3>1. n \in 1..Len(corpus) /\ Len(corpus) \in Nat
      BY <1>1
    <3>2. SubSeq(corpus, 1, n - 1) \in Seq(R)
      BY <1>1, <3>1
    <3>3. SubSeq(corpus, n + 1, Len(corpus)) \in Seq(R)
      BY <1>1, <3>1
    <3>4. QED
      BY <3>2, <3>3 DEF RemoveAt
  <2>2. \A i \in DOMAIN RemoveAt(corpus, n) : RemoveAt(corpus, n)[i] \in R
    BY <2>1
  <2>3. QED
    BY <1>1, <2>1, <2>2 DEF IsSequence
<1>4. ASSUME NEW n \in DOMAIN corpus, NEW d
      PROVE  /\ IsSequence([corpus EXCEPT ![n].sel.digest = d])
             /\ \A i \in DOMAIN [corpus EXCEPT ![n].sel.digest = d] :
                    IsRule([corpus EXCEPT ![n].sel.digest = d][i])
  <2> DEFINE new == [corpus[n] EXCEPT !.sel.digest = d]
  <2>1. [corpus EXCEPT ![n].sel.digest = d] = [corpus EXCEPT ![n] = new]
    OBVIOUS
  <2>2. IsRule(corpus[n])
    OBVIOUS
  <2>3. IsRule(new)
    BY <2>2 DEF IsRule
  <2> HIDE DEF new
  <2>4. corpus \in Seq(R \cup {new})
    BY <1>1
  <2>5. [corpus EXCEPT ![n] = new] \in Seq(R \cup {new})
    BY <2>4
  <2>6. \A i \in DOMAIN [corpus EXCEPT ![n] = new] : [corpus EXCEPT ![n] = new][i] \in R \cup {new}
    BY <2>5
  <2>7. QED
    BY <1>1, <2>1, <2>3, <2>5, <2>6 DEF IsSequence
<1>5. QED
  BY <1>2, <1>3, <1>4

(* The invariant holds initially and every command, update, request and    *)
(* adoption keeps it.                                                      *)
LEMMA CorpusInvariant == Spec => []CorpusInv
<1>1. Init => CorpusInv
  <2>1. SUFFICES ASSUME Init PROVE CorpusInv
    OBVIOUS
  <2>2. corpus = <<>> /\ query = NoQuery /\ hint = NoHint
    BY <2>1 DEF Init
  <2>3. IsSequence(corpus) /\ DOMAIN corpus = {}
    <3>1. corpus \in Seq({}) /\ Len(corpus) = 0
      BY <2>2
    <3>2. QED
      BY <2>2, <3>1 DEF IsSequence
  <2>4. Prepared(approved, corpus)
    BY <2>3 DEF Prepared, Pinned, NoSecrets, ReferencesResolve, Unshadowed, MoneyPinned
  <2>5. QED
    BY <2>2, <2>3, <2>4 DEF CorpusInv
<1>2. CorpusInv /\ [Next]_vars => CorpusInv'
  <2>1. SUFFICES ASSUME CorpusInv, [Next]_vars PROVE CorpusInv'
    OBVIOUS
  <2> DEFINE Sent(rules) == IsSequence(rules) /\ \A i \in DOMAIN rules : IsRule(rules[i])
  <2>a. Sent(corpus)
    BY <2>1 DEF CorpusInv
  <2>b. /\ \A r : IsRule(r) => Sent(Append(corpus, r))
        /\ \A n \in DOMAIN corpus : Sent(RemoveAt(corpus, n))
        /\ \A n \in DOMAIN corpus : \A d : Sent([corpus EXCEPT ![n].sel.digest = d])
    BY <2>a, CommandsSendRules
  <2> DEFINE Kept == IsSequence(corpus)' /\ (\A i \in DOMAIN corpus : IsRule(corpus[i]))'
                     /\ Prepared(approved, corpus)'
             Stands == UNCHANGED <<corpus, approved>>
  <2>c. ASSUME NEW rules, Sent(rules), Write(rules) PROVE Kept
    <3>1. corpus' = rules /\ approved' = build /\ Prepared(build, rules)
      BY <2>c DEF Write
    <3>2. QED
      BY <2>c, <3>1
  <2>d. Stands => Kept
    BY <2>1 DEF CorpusInv
  <2> HIDE DEF Sent
  <2>e. Settle /\ Kept => CorpusInv'
    BY DEF Settle, CorpusInv
  <2>2. ASSUME NEW r \in RulePool, AllowRule(r) PROVE CorpusInv'
    BY <2>2, <2>b, <2>c, <2>e, RulesAssumption DEF AllowRule
  <2>3. ASSUME NEW n, Revoke(n) PROVE CorpusInv'
    BY <2>3, <2>b, <2>c, <2>e DEF Revoke
  <2>4. ASSUME NEW n, Refresh(n) PROVE CorpusInv'
    BY <2>4, <2>b, <2>c, <2>e DEF Refresh
  <2>5. ASSUME NEW b \in Builds, Update(b) PROVE CorpusInv'
    BY <2>5, <2>d, <2>e DEF Update
  <2>6. ASSUME NEW q \in Requests, Ask(q) PROVE CorpusInv'
    <3>1. Stands /\ build' = build /\ query' = q
      BY <2>6 DEF Ask
    <3>2. Kept
      BY <2>d, <3>1
    <3>3. (hint # NoHint => IsRule(hint.rule))'
      <4>1. hint' = HintFor(build, corpus, q.verb, q.res, verdict')
        BY <2>6 DEF Ask
      <4>2. ASSUME hint' # NoHint PROVE Known(q.verb)
        <5>1. verdict'.why \in {"mismatch", "missing", "no_rule"}
          BY <4>1, <4>2, HintSpeaks
        <5>2. QED
          BY <2>6, <5>1 DEF Ask, Evaluate, Deny
      <4>3. QED
        BY <2>a, <4>1, <4>2, HintIsRule DEF Sent
    <3>4. \/ verdict'.allow = FALSE
          \/ verdict' = Evaluate(build, corpus, q.verb, q.res)
      BY <2>6 DEF Ask, Deny
    <3>5. (query # NoQuery =>
             \/ verdict.allow = FALSE
             \/ verdict = Evaluate(build, corpus, query.verb, query.res))'
      BY <3>1, <3>4
    <3>6. QED
      BY <3>2, <3>3, <3>5 DEF CorpusInv
  <2>7. CASE Adopt
    <3>1. IsRule(hint.rule)
      BY <2>1, <2>7 DEF CorpusInv, Adopt
    <3>2. Kept
      BY <2>7, <2>b, <2>c, <3>1 DEF Adopt
    <3>3. /\ UNCHANGED <<build, query, hint>>
          /\ verdict' = Evaluate(build, corpus', query.verb, query.res)
      BY <2>7 DEF Adopt, Write
    <3>4. (query # NoQuery =>
             \/ verdict.allow = FALSE
             \/ verdict = Evaluate(build, corpus, query.verb, query.res))'
      BY <3>3
    <3>5. QED
      BY <3>1, <3>2, <3>3, <3>4 DEF CorpusInv
  <2>8. CASE Done
    BY <2>8, <2>d, <2>e DEF Done
  <2>9. CASE UNCHANGED vars
    <3>1. UNCHANGED <<build, query, hint, verdict>> /\ Stands
      BY <2>9 DEF vars
    <3>2. QED
      BY <2>1, <2>d, <3>1 DEF CorpusInv
  <2>10. QED
    BY <2>1, <2>2, <2>3, <2>4, <2>5, <2>6, <2>7, <2>8, <2>9 DEF Next
<1>3. QED
  BY <1>1, <1>2, PTL DEF Spec

(* The composition implements the life of a corpus: the other parts leave  *)
(* it alone.                                                               *)
LEMMA ImplementsRules == PartSpec => Spec
<1>1. PartInit => Init
  BY DEF PartInit
<1>2. [PartNext]_partVars => [Next]_vars
  BY DEF PartNext, RulesPart, ActionPart, MoneyPart, HostPart, partVars
<1>3. QED
  BY <1>1, <1>2, PTL DEF PartSpec, Spec

(* For every catalogue, contract, pool of rules and request: a deny wins   *)
(* wherever it stands, so no reordering of a corpus changes a verdict      *)
(* (SentenceEvaluator::evaluate).                                          *)
THEOREM OrderIgnored == PartSpec => []VerdictIgnoresOrder
<1>1. CorpusInv => VerdictIgnoresOrder
  <2>1. SUFFICES ASSUME CorpusInv, NEW p \in [DOMAIN corpus -> DOMAIN corpus],
                        \A i, j \in DOMAIN corpus : p[i] = p[j] => i = j
                 PROVE  Allowed([i \in DOMAIN corpus |-> corpus[p[i]]], query)
                            = Allowed(corpus, query)
    BY DEF VerdictIgnoresOrder
  <2> DEFINE moved == [i \in DOMAIN corpus |-> corpus[p[i]]]
             Says(rule) == RuleSays(build, rule, query.verb, query.res)
  <2>2. PICK S : corpus \in Seq(S)
    BY <2>1 DEF CorpusInv, IsSequence
  <2>3. DOMAIN corpus = 1..Len(corpus) /\ Len(corpus) \in Nat
    BY <2>2
  <2>4. \A j \in DOMAIN corpus : \E i \in DOMAIN corpus : p[i] = j
    <3> DEFINE n == Len(corpus)
    <3>1. n \in Nat /\ p \in [1..n -> 1..n] /\ \A i, j \in 1..n : p[i] = p[j] => i = j
      BY <2>1, <2>3
    <3> HIDE DEF n
    <3>2. \A j \in 1..n : \E i \in 1..n : p[i] = j
      BY <3>1, PlacesReached
    <3>3. QED
      BY <2>3, <3>2 DEF n
  <2>5. moved \in Seq(S)
    <3>1. moved \in [1..Len(corpus) -> S]
      BY <2>2, <2>3
    <3>2. QED
      BY <2>3, <3>1
  <2>6. IsSequence(moved) /\ IsSequence(corpus)
    BY <2>2, <2>5 DEF IsSequence
  <2>7. DOMAIN moved = DOMAIN corpus /\ \A i \in DOMAIN corpus : moved[i] = corpus[p[i]]
    OBVIOUS
  <2> HIDE DEF moved
  <2>8. (\A i \in DOMAIN moved : ~Refuses(Says(moved[i])))
          <=> (\A i \in DOMAIN corpus : ~Refuses(Says(corpus[i])))
    BY <2>4, <2>7
  <2>9. (\E i \in DOMAIN moved : Says(moved[i]) = "admits")
          <=> (\E i \in DOMAIN corpus : Says(corpus[i]) = "admits")
    BY <2>4, <2>7
  <2>10. /\ Allowed(moved, query) \in BOOLEAN /\ Allowed(corpus, query) \in BOOLEAN
         /\ Allowed(moved, query) <=>
              /\ Known(query.verb)
              /\ \A i \in DOMAIN moved : ~Refuses(Says(moved[i]))
              /\ \E i \in DOMAIN moved : Says(moved[i]) = "admits"
         /\ Allowed(corpus, query) <=>
              /\ Known(query.verb)
              /\ \A i \in DOMAIN corpus : ~Refuses(Says(corpus[i]))
              /\ \E i \in DOMAIN corpus : Says(corpus[i]) = "admits"
    BY <2>6, EvaluateIs DEF Allowed
  <2>11. Allowed(moved, query) <=> Allowed(corpus, query)
    BY <2>8, <2>9, <2>10
  <2>12. Allowed(moved, query) = Allowed(corpus, query)
    BY <2>10, <2>11
  <2>13. QED
    BY <2>12 DEF moved
<1>2. QED
  BY <1>1, ImplementsRules, CorpusInvariant, PTL

(* For every catalogue of every build: what a stored corpus admits under   *)
(* the installed catalogue it admitted under the one it was committed      *)
(* with.  A set the new catalogue forgot covers nothing for an allow and   *)
(* refuses for a deny (covers, selector_may_cover, evaluate).              *)
THEOREM NoAuthorityAdded == PartSpec => []AuthorityNeverGrows
<1>1. CorpusInv => NeverMoreThanApproved
  <2>1. SUFFICES ASSUME CorpusInv, NEW q \in Requests, Allowed(corpus, q)
                 PROVE  Evaluate(approved, corpus, q.verb, q.res).allow
    BY DEF NeverMoreThanApproved
  <2>2. /\ IsSequence(corpus)
        /\ \A i \in DOMAIN corpus : IsRule(corpus[i]) /\ RuleIsValid(corpus[i])
        /\ \A i \in DOMAIN corpus : corpus[i].sel.type = "set" => Resolves(approved, corpus[i].sel)
    BY <2>1 DEF CorpusInv, Prepared, Parses, Pinned
  <2>3. /\ Known(q.verb)
        /\ \A i \in DOMAIN corpus : ~Refuses(RuleSays(build, corpus[i], q.verb, q.res))
        /\ \E i \in DOMAIN corpus : RuleSays(build, corpus[i], q.verb, q.res) = "admits"
    BY <2>1, <2>2, EvaluateIs DEF Allowed
  <2>4. ASSUME NEW i \in DOMAIN corpus
        PROVE  /\ Project(approved, corpus[i], q.verb) = Project(build, corpus[i], q.verb)
               /\ ~Stale(approved, corpus[i], q.verb)
               /\ Covers(build, corpus[i], q.verb) => Covers(approved, corpus[i], q.verb)
               /\ Covers(approved, corpus[i], q.verb) =>
                    Covers(build, corpus[i], q.verb) \/ Stale(build, corpus[i], q.verb)
    <3>1. Project(approved, corpus[i], q.verb) = Project(build, corpus[i], q.verb)
      BY DEF Project
    <3>2. ~Stale(approved, corpus[i], q.verb)
      BY <2>2 DEF Stale
    <3>3. CASE corpus[i].sel.type = "verb"
      BY <3>1, <3>2, <3>3 DEF Covers
    <3>4. CASE corpus[i].sel.type = "set"
      BY <2>2, <3>1, <3>2, <3>4 DEF Covers, Stale
    <3>5. QED
      BY <2>2, <3>3, <3>4 DEF IsRule
  <2>5. ASSUME NEW i \in DOMAIN corpus
        PROVE  ~Refuses(RuleSays(approved, corpus[i], q.verb, q.res))
    <3>1. ~Refuses(RuleSays(build, corpus[i], q.verb, q.res))
      BY <2>3
    <3>2. QED
      BY <2>2, <2>4, <3>1, SaysIs
  <2>6. PICK i \in DOMAIN corpus : RuleSays(build, corpus[i], q.verb, q.res) = "admits"
    BY <2>3
  <2>7. RuleSays(approved, corpus[i], q.verb, q.res) = "admits"
    BY <2>4, <2>6, SaysIs
  <2>8. QED
    BY <2>2, <2>3, <2>5, <2>7, EvaluateIs
<1>2. CorpusInv => AuthorityNeverGrows
  BY <1>1 DEF AuthorityNeverGrows
<1>3. QED
  BY <1>2, ImplementsRules, CorpusInvariant, PTL

(* A rule that admits a request covers its verb, and finds in it every     *)
(* field its projected conjuncts are about, matching.                      *)
LEMMA AdmitsIs ==
  ASSUME NEW b, NEW rule, IsRule(rule), NEW vb, NEW rs, RuleSays(b, rule, vb, rs) = "admits"
  PROVE  /\ rule.effect = "allow" /\ vb \in Covered(approved, rule.sel)
         /\ \A k \in Project(approved, rule, vb) :
              /\ FieldOf(rule.conj[k]) \in DOMAIN rs
              /\ PredMatches(rule.conj[k], rs[FieldOf(rule.conj[k])])
<1>1. /\ rule.effect # "deny" /\ Covers(b, rule, vb)
      /\ FailsAt(rule, Project(b, rule, vb), rs) = {}
  BY SaysIs
<1>2. rule.effect = "allow"
  BY <1>1 DEF IsRule
<1>3. vb \in Covered(approved, rule.sel)
  <2>1. CASE rule.sel.type = "verb"
    BY <1>1, <2>1 DEF Covers, Covered
  <2>2. CASE rule.sel.type = "set"
    BY <1>1, <2>2 DEF Covers, Covered
  <2>3. QED
    BY <2>1, <2>2 DEF IsRule
<1>4. Project(approved, rule, vb) = Project(b, rule, vb)
  BY DEF Project
<1>5. ASSUME NEW k \in Project(approved, rule, vb)
      PROVE  /\ FieldOf(rule.conj[k]) \in DOMAIN rs
             /\ PredMatches(rule.conj[k], rs[FieldOf(rule.conj[k])])
  BY <1>1, <1>4 DEF FailsAt
<1>6. QED
  BY <1>2, <1>3, <1>5

(* For every corpus the gate lets pass and every update of the catalogue:  *)
(* money requests one rule admits go to one account in one mode and        *)
(* currency, and every metered rule matching an admitted request drains    *)
(* the counter of the rule that admitted it (validate_money_authority,     *)
(* validate_aggregate_shadowing, evaluate).                                *)
THEOREM CapsAreMet == PartSpec => []CapsHold
<1>1. ASSUME CorpusInv, query # NoQuery, verdict.allow
      PROVE  \E k \in DOMAIN corpus :
                /\ verdict.rule = k /\ Known(query.verb)
                /\ RuleSays(build, corpus[k], query.verb, query.res) = "admits"
                /\ \A j \in DOMAIN corpus :
                     RuleSays(build, corpus[j], query.verb, query.res) = "admits" => k <= j
  <2>1. verdict = Evaluate(build, corpus, query.verb, query.res) /\ IsSequence(corpus)
    BY <1>1 DEF CorpusInv
  <2>2. /\ Known(query.verb)
        /\ \E k \in DOMAIN corpus :
              /\ verdict = Allow(k)
              /\ RuleSays(build, corpus[k], query.verb, query.res) = "admits"
              /\ \A j \in DOMAIN corpus :
                    RuleSays(build, corpus[j], query.verb, query.res) = "admits" => k <= j
    BY <1>1, <2>1, EvaluateIs
  <2>3. QED
    BY <2>2 DEF Allow
<1>2. CorpusInv => MeteredByOneCounter
  <2>1. SUFFICES ASSUME CorpusInv, query # NoQuery, verdict.allow,
                        NEW j \in DOMAIN corpus, corpus[j].agg # NoAggregate,
                        RuleSays(build, corpus[j], query.verb, query.res) = "admits"
                 PROVE  corpus[j] = corpus[verdict.rule]
    BY DEF MeteredByOneCounter
  <2>2. PICK k \in DOMAIN corpus :
                /\ verdict.rule = k
                /\ RuleSays(build, corpus[k], query.verb, query.res) = "admits"
                /\ k <= j
    BY <1>1, <2>1
  <2>3. \A i \in DOMAIN corpus : i \in Nat \ {0}
    BY <2>1 DEF CorpusInv, IsSequence
  <2>4. Unshadowed(approved, corpus) /\ IsRule(corpus[j]) /\ IsRule(corpus[k])
    BY <2>1 DEF CorpusInv, Prepared
  <2>5. /\ corpus[k].effect = "allow" /\ query.verb \in Covered(approved, corpus[k].sel)
        /\ corpus[j].effect = "allow" /\ query.verb \in Covered(approved, corpus[j].sel)
    BY <2>1, <2>2, <2>4, AdmitsIs, ZenonT(60)
  <2>6. CASE k = j
    BY <2>2, <2>6
  <2>7. CASE k # j
    <3>1. k \in 1..(j-1)
      BY <2>2, <2>3, <2>7
    <3>2. \/ corpus[k].effect # "allow" \/ corpus[k] = corpus[j]
          \/ Covered(approved, corpus[k].sel) \cap Covered(approved, corpus[j].sel) = {}
      BY <2>1, <2>4, <2>5, <3>1 DEF Unshadowed
    <3>3. QED
      BY <2>2, <2>5, <3>2
  <2>8. QED
    BY <2>6, <2>7
<1>3. CorpusInv => MoneyStaysPut
  <2>1. SUFFICES ASSUME CorpusInv, query # NoQuery, verdict.allow, Contracts[query.verb].money,
                        NEW q \in Requests, q.verb = query.verb,
                        RuleSays(build, corpus[verdict.rule], q.verb, q.res) = "admits",
                        NEW f \in MoneyFields
                 PROVE  q.res[f] = query.res[f]
    BY DEF MoneyStaysPut
  <2>2. PICK k \in DOMAIN corpus :
                /\ verdict.rule = k
                /\ RuleSays(build, corpus[k], query.verb, query.res) = "admits"
    BY <1>1, <2>1
  <2> DEFINE rule == corpus[k]
             on == {c \in Project(approved, rule, query.verb) : FieldOf(rule.conj[c]) = f}
  <2>3. MoneyPinned(approved, corpus) /\ IsRule(rule)
    BY <2>1 DEF CorpusInv, Prepared
  <2> HIDE DEF on
  <2>4. /\ rule.effect = "allow" /\ query.verb \in Covered(approved, rule.sel)
        /\ \A c \in Project(approved, rule, query.verb) :
              /\ PredMatches(rule.conj[c], query.res[FieldOf(rule.conj[c])])
              /\ PredMatches(rule.conj[c], q.res[FieldOf(rule.conj[c])])
    <3>1. /\ RuleSays(build, rule, query.verb, query.res) = "admits"
          /\ RuleSays(build, rule, query.verb, q.res) = "admits"
      BY <2>1, <2>2
    <3> HIDE DEF rule
    <3>2. /\ rule.effect = "allow" /\ query.verb \in Covered(approved, rule.sel)
          /\ \A c \in Project(approved, rule, query.verb) :
                PredMatches(rule.conj[c], query.res[FieldOf(rule.conj[c])])
      BY <2>3, <3>1, AdmitsIs
    <3>3. \A c \in Project(approved, rule, query.verb) :
                PredMatches(rule.conj[c], q.res[FieldOf(rule.conj[c])])
      BY <2>3, <3>1, AdmitsIs
    <3>4. QED
      BY <3>2, <3>3
  <2>5. Cardinality(on) = 1 /\ \A c \in on : rule.conj[c].op = "eq"
    BY <2>1, <2>3, <2>4 DEF MoneyPinned, on
  <2>6. PICK c \in on : TRUE
    BY <2>5, FS_EmptySet
  <2>7. /\ c \in Project(approved, rule, query.verb) /\ FieldOf(rule.conj[c]) = f
        /\ rule.conj[c].op = "eq"
    BY <2>5, <2>6 DEF on
  <2>8. query.res[f] = rule.conj[c].value /\ q.res[f] = rule.conj[c].value
    BY <2>4, <2>7 DEF PredMatches
  <2>9. QED
    BY <2>8
<1>4. CorpusInv => CapsHold
  BY <1>2, <1>3 DEF CapsHold
<1>5. QED
  BY <1>4, ImplementsRules, CorpusInvariant, PTL

(* A verdict that is neither of the two refusals on the spot comes from a  *)
(* corpus no rule of which refuses.                                        *)
LEMMA JudgeWhy ==
  ASSUME NEW b, NEW rules, IsSequence(rules), NEW vb, NEW rs,
         Evaluate(b, rules, vb, rs).why \in {"mismatch", "missing", "no_rule"}
  PROVE  Known(vb) /\ \A i \in DOMAIN rules : ~Refuses(RuleSays(b, rules[i], vb, rs))
<1> DEFINE says == Answers(b, rules, vb, rs)
           S == {RuleSays(b, rules[i], vb, rs) : i \in DOMAIN rules}
           no == First(says, {"unresolved", "denied"})
<1>1. Known(vb)
  BY DEF Evaluate, Deny
<1>2. Evaluate(b, rules, vb, rs) = Judge(says)
  BY <1>1 DEF Evaluate, Answers
<1>3. /\ DOMAIN says = DOMAIN rules
      /\ \A i \in DOMAIN rules : says[i] = RuleSays(b, rules[i], vb, rs)
  BY DEF Answers
<1>4. says \in Seq(S)
  <2>1. DOMAIN rules = 1..Len(rules) /\ Len(rules) \in Nat
    BY DEF IsSequence
  <2>2. says \in [1..Len(rules) -> S]
    BY <2>1 DEF Answers
  <2>3. QED
    BY <2>1, <2>2
<1> HIDE DEF says, S
<1>5. /\ no \in Nat
      /\ no <= Len(says) => no \in DOMAIN says /\ Refuses(says[no])
      /\ \A j \in DOMAIN says : Refuses(says[j]) => no <= j
  BY <1>4, FirstIs DEF Refuses
<1>6. no <= Len(says) => Judge(says) = Deny(says[no], no)
  BY DEF Judge
<1> HIDE DEF no
<1>7. ~(no <= Len(says))
  BY <1>2, <1>5, <1>6 DEF Deny, Refuses
<1>8. \A j \in DOMAIN says : j <= Len(says) /\ j \in Nat /\ Len(says) \in Nat
  BY <1>4
<1>9. QED
  BY <1>1, <1>3, <1>5, <1>7, <1>8

(* A suggested rule that names no omitted field admits the request it was  *)
(* suggested for.                                                          *)
LEMMA HintAdmits ==
  ASSUME NEW b, NEW rules, IsSequence(rules), \A i \in DOMAIN rules : IsRule(rules[i]),
         NEW vb, Known(vb), NEW rs, NEW v, NEW h, h = HintFor(b, rules, vb, rs, v),
         h # NoHint, h.omitted = {}
  PROVE  RuleSays(b, h.rule, vb, rs) = "admits"
<1>1. CASE h = UnruledHint(vb, rs)
  <2> DEFINE r == h.rule
  <2>1. /\ RuleIsValid(r) /\ r.effect = "allow"
        /\ r.sel.type = "verb" /\ r.sel.name = vb
        /\ 0 \notin DOMAIN r.conj
        /\ \A i \in DOMAIN r.conj :
             /\ r.conj[i].op = "eq" /\ FieldOf(r.conj[i]) \in DOMAIN rs
             /\ r.conj[i].value = rs[FieldOf(r.conj[i])]
    BY <1>1, UnruledIs
  <2> HIDE DEF r
  <2>2. Covers(b, r, vb)
    BY <2>1 DEF Covers
  <2>3. Project(b, r, vb) = DOMAIN r.conj
    BY <2>1 DEF Project
  <2>4. \A i \in DOMAIN r.conj : PredMatches(r.conj[i], rs[FieldOf(r.conj[i])])
    BY <2>1 DEF PredMatches
  <2>5. FailsAt(r, Project(b, r, vb), rs) = {}
    BY <2>1, <2>3, <2>4 DEF FailsAt
  <2>6. QED
    BY <2>1, <2>2, <2>3, <2>5, SaysIs DEF r
<1>2. CASE h = WidenHint(b, rules, vb, rs)
  <2>1. PICK i \in DOMAIN rules :
            /\ Widens(b, rules[i], vb, rs)
            /\ h = Hint(i, rules[i], Project(b, rules[i], vb), rs)
    BY <1>2, WidenIs
  <2> DEFINE rule == rules[i]
             places == Project(b, rule, vb)
             wide == Widened(rule, places, rs)
  <2>2. h.rule = wide /\ Omitted(rule, places, rs) = {}
    BY <2>1 DEF Hint
  <2>3. /\ rule.effect = "allow" /\ Covers(b, rule, vb) /\ 0 \notin places
        /\ RuleIsValid(wide)
        /\ MatchesResource({p \in At(wide, places) : FieldOf(p) \in DOMAIN rs}, vb, rs)
    BY <2>1 DEF Widens, Admits
  <2>4. IsRule(rule)
    OBVIOUS
  <2> HIDE DEF rule, places
  <2>5. /\ wide.effect = rule.effect /\ wide.sel = rule.sel
        /\ DOMAIN wide.conj = DOMAIN rule.conj
        /\ \A k \in DOMAIN rule.conj : FieldOf(wide.conj[k]) = FieldOf(rule.conj[k])
    BY <2>4, WidenedIs
  <2> HIDE DEF wide
  <2>6. Covers(b, wide, vb)
    BY <2>3, <2>5 DEF Covers
  <2>7. places \subseteq DOMAIN rule.conj
    BY <2>3 DEF places, Project
  <2>8. Project(b, wide, vb) = places
    <3>1. FieldsIn(wide) = FieldsIn(rule)
      BY <2>5 DEF FieldsIn
    <3>2. {k \in DOMAIN wide.conj : Declares(vb, FieldOf(wide.conj[k]))}
            = {k \in DOMAIN rule.conj : Declares(vb, FieldOf(rule.conj[k]))}
      BY <2>5
    <3>3. QED
      BY <2>5, <3>1, <3>2 DEF Project, places
  <2>9. ASSUME NEW k \in places
        PROVE  FieldOf(wide.conj[k]) \in DOMAIN rs
               /\ PredMatches(wide.conj[k], rs[FieldOf(wide.conj[k])])
    <3>1. FieldOf(rule.conj[k]) \in DOMAIN rs
      BY <2>2 DEF Omitted, At
    <3>2. FieldOf(wide.conj[k]) \in DOMAIN rs
      BY <2>5, <2>7, <3>1
    <3>3. wide.conj[k] \in {p \in At(wide, places) : FieldOf(p) \in DOMAIN rs}
      BY <3>2 DEF At
    <3>4. QED
      BY <2>3, <3>2, <3>3 DEF MatchesResource
  <2>10. FailsAt(wide, Project(b, wide, vb), rs) = {}
    BY <2>8, <2>9 DEF FailsAt
  <2>11. RuleSays(b, wide, vb, rs) = "admits"
    BY <2>3, <2>5, <2>6, <2>8, <2>10, SaysIs
  <2>12. QED
    BY <2>2, <2>11
<1>3. QED
  BY <1>1, <1>2, HintSpeaks

(* A suggestion not yet adopted is the one the standing corpus gives for   *)
(* the standing verdict.                                                   *)
HintInv ==
    /\ hint # NoHint /\ ~adopted =>
         /\ verdict = Evaluate(build, corpus, query.verb, query.res)
         /\ hint = HintFor(build, corpus, query.verb, query.res, verdict)
    /\ adopted /\ hint.omitted = {} => verdict.allow

(* The operator who commits a suggestion gets what it promised. *)
LEMMA HintInvariant == Spec => []HintInv
<1>1. Init => HintInv
  BY DEF Init, HintInv
<1>2. CorpusInv /\ HintInv /\ [Next]_vars => HintInv'
  <2>1. SUFFICES ASSUME CorpusInv, HintInv, [Next]_vars PROVE HintInv'
    OBVIOUS
  <2>2. Settle => HintInv'
    BY DEF Settle, HintInv
  <2>3. ASSUME NEW q \in Requests, Ask(q) PROVE HintInv'
    <3>1. /\ build' = build /\ corpus' = corpus /\ query' = q /\ adopted' = FALSE
          /\ hint' = HintFor(build, corpus, q.verb, q.res, verdict')
      BY <2>3 DEF Ask
    <3>2. ASSUME hint' # NoHint PROVE verdict' = Evaluate(build, corpus, q.verb, q.res)
      <4>1. verdict'.why \in {"mismatch", "missing", "no_rule"}
        BY <3>1, <3>2, HintSpeaks
      <4>2. QED
        BY <2>3, <4>1 DEF Ask, Deny
    <3>3. QED
      BY <3>1, <3>2 DEF HintInv
  <2>4. CASE Adopt
    <3>1. /\ hint # NoHint /\ ~adopted /\ adopted' = TRUE /\ build' = build
          /\ UNCHANGED <<query, hint>> /\ corpus' = Append(corpus, hint.rule)
          /\ verdict' = Evaluate(build, corpus', query.verb, query.res)
      BY <2>4 DEF Adopt, Write
    <3>2. /\ verdict = Evaluate(build, corpus, query.verb, query.res)
          /\ hint = HintFor(build, corpus, query.verb, query.res, verdict)
      BY <2>1, <3>1 DEF HintInv
    <3>3. IsSequence(corpus) /\ (\A i \in DOMAIN corpus : IsRule(corpus[i])) /\ IsRule(hint.rule)
      BY <2>1, <3>1 DEF CorpusInv
    <3>4. verdict.why \in {"mismatch", "missing", "no_rule"}
      BY <3>1, <3>2, HintSpeaks
    <3>5. /\ Known(query.verb)
          /\ \A i \in DOMAIN corpus : ~Refuses(RuleSays(build, corpus[i], query.verb, query.res))
      BY <3>2, <3>3, <3>4, JudgeWhy
    <3>6. ASSUME hint.omitted = {} PROVE verdict'.allow
      <4>1. RuleSays(build, hint.rule, query.verb, query.res) = "admits"
        BY <3>1, <3>2, <3>3, <3>5, <3>6, HintAdmits
      <4>2. IsSequence(corpus')
        BY <3>1, <3>3, CommandsSendRules
      <4>3. PICK S : corpus \in Seq(S)
        BY <3>3 DEF IsSequence
      <4>4. /\ DOMAIN corpus' = 1..(Len(corpus) + 1) /\ corpus'[Len(corpus) + 1] = hint.rule
            /\ \A i \in DOMAIN corpus : corpus'[i] = corpus[i]
            /\ DOMAIN corpus = 1..Len(corpus) /\ Len(corpus) \in Nat
        BY <3>1, <4>3
      <4>5. ASSUME NEW i \in DOMAIN corpus'
            PROVE  ~Refuses(RuleSays(build, corpus'[i], query.verb, query.res))
        <5>1. CASE i \in DOMAIN corpus
          BY <3>5, <4>4, <5>1
        <5>2. CASE i = Len(corpus) + 1
          BY <4>1, <4>4, <5>2 DEF Refuses
        <5>3. QED
          BY <4>4, <5>1, <5>2
      <4>6. \E i \in DOMAIN corpus' : RuleSays(build, corpus'[i], query.verb, query.res) = "admits"
        BY <4>1, <4>4
      <4>7. QED
        BY <3>1, <3>5, <4>2, <4>5, <4>6, EvaluateIs
    <3>7. QED
      BY <3>1, <3>6 DEF HintInv
  <2>5. CASE UNCHANGED vars
    BY <2>1, <2>5 DEF vars, HintInv
  <2>6. QED
    BY <2>1, <2>2, <2>3, <2>4, <2>5 DEF Next, AllowRule, Revoke, Refresh, Update, Done
<1>3. QED
  BY <1>1, <1>2, CorpusInvariant, PTL DEF Spec

(* For every corpus and request: whatever a suggested rule admits still    *)
(* satisfies what the widened rule said of fields the request did not      *)
(* speak to, and a suggestion that names no omitted field is worth         *)
(* running, for the refused request is admitted once it is committed       *)
(* (widen_rule_for_request, unruled_allow_hint).                           *)
THEOREM HintsAreHonest == PartSpec => []HintIsHonest
<1>1. CorpusInv /\ HintInv => HintIsHonest
  <2>1. SUFFICES ASSUME CorpusInv, HintInv, hint # NoHint, ~adopted, hint.from # 0,
                        NEW q \in Requests,
                        RuleSays(build, hint.rule, q.verb, q.res) = "admits",
                        NEW k \in DOMAIN corpus[hint.from].conj,
                        FieldOf(corpus[hint.from].conj[k]) \notin DOMAIN query.res,
                        Declares(q.verb, FieldOf(corpus[hint.from].conj[k]))
                 PROVE  LET p == corpus[hint.from].conj[k] IN
                        FieldOf(p) \in DOMAIN q.res /\ PredMatches(p, q.res[FieldOf(p)])
    BY SMTT(60) DEF HintIsHonest, HintInv
  <2>2. IsSequence(corpus) /\ \A i \in DOMAIN corpus : IsRule(corpus[i])
    BY <2>1, SMTT(60) DEF CorpusInv
  <2>3. /\ verdict = Evaluate(build, corpus, query.verb, query.res)
        /\ hint = HintFor(build, corpus, query.verb, query.res, verdict)
    BY <2>1 DEF HintInv
  <2>4. Known(query.verb)
    BY <2>1, <2>2, <2>3, HintSpeaks, JudgeWhy, SMTT(60)
  <2>5. hint = WidenHint(build, corpus, query.verb, query.res)
    BY <2>1, <2>3, <2>4, HintSpeaks, UnruledIs
  <2>6. PICK i \in DOMAIN corpus :
          hint = Hint(i, corpus[i], Project(build, corpus[i], query.verb), query.res)
    BY <2>1, <2>2, <2>5, WidenIs
  <2> DEFINE rule == corpus[i]
             wide == Widened(rule, Project(build, rule, query.verb), query.res)
  <2>7. hint.from = i /\ hint.rule = wide /\ IsRule(rule)
    BY <2>2, <2>6 DEF Hint
  <2>8. /\ IsRule(wide) /\ wide.sel = rule.sel /\ DOMAIN wide.conj = DOMAIN rule.conj
        /\ FieldOf(wide.conj[k]) = FieldOf(rule.conj[k]) /\ wide.conj[k] = rule.conj[k]
    BY <2>1, <2>7, WidenedIs
  <2>9. RuleSays(build, wide, q.verb, q.res) = "admits" /\ k \in DOMAIN wide.conj
        /\ Declares(q.verb, FieldOf(wide.conj[k]))
    BY <2>1, <2>7, <2>8
  <2> HIDE DEF wide
  <2>10. k \in Project(approved, wide, q.verb)
    <3>1. 0 \notin Project(build, wide, q.verb)
      BY <2>9, SaysIs
    <3>2. QED
      BY <2>9, <3>1 DEF Project
  <2>11. FieldOf(wide.conj[k]) \in DOMAIN q.res
         /\ PredMatches(wide.conj[k], q.res[FieldOf(wide.conj[k])])
    BY <2>8, <2>9, <2>10, AdmitsIs
  <2>12. QED
    BY <2>7, <2>8, <2>11
<1>2. QED
  BY <1>1, ImplementsRules, CorpusInvariant, HintInvariant, PTL
=============================================================================
