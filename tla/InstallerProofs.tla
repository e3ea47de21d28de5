-------------------------- MODULE InstallerProofs ---------------------------
(***************************************************************************)
(* What install.sh does to a host, for every number of releases, failures, *)
(* kills and reboots: the binary stays whole, the operator's config stays, *)
(* an upgrade does not end a running agent, and success means what it says.*)
(* The invariant is the script's own: what is true of the host at a step   *)
(* because the steps before it have all succeeded in this run.             *)
(***************************************************************************)
EXTENDS Installer, TLAPS

USE InstallerAssumption

\* The steps from one on, backwards.
Restarted == {"verify"}
Enabled == {"restart"} \cup Restarted
Loaded == {"enable"} \cup Enabled
HandedOver == {"reload"} \cup Loaded
HasUser == {"chown"} \cup HandedOver
HasUnit == {"group", "user"} \cup HasUser
Validated == {"unit", "united"} \cup HasUnit
HasBinary == {"config", "configured", "validate"} \cup Validated
Decided == {"fetch", "copy", "copied", "rename", "config", "configured"}
Uninstalling == {"disable", "remove", "forget", "erase"}
Steps == {"idle", "decide"} \cup Decided \cup HasBinary \cup Uninstalling

Types ==
  /\ pc \in Steps /\ target \in Versions
  /\ force \in BOOLEAN /\ writeConfig \in BOOLEAN
  /\ binary \in 0..Torn /\ fresh \in 0..Torn
  /\ config \in [author : {"nobody", "operator", "installer"},
                 accepts : SUBSET Versions, readable : BOOLEAN]
  /\ unit \in {"none", "torn", "whole"} /\ loaded \in {"none", "torn", "whole"}
  /\ user \in BOOLEAN /\ enabled \in BOOLEAN
  /\ running \in 0..Torn

\* Only a whole binary is ever renamed.
BinaryInv == binary # Torn /\ (pc = "rename" => fresh = target)

\* The script writes over an operator's config when told to, and else not.
ConfigInv ==
  /\ pc \in {"config", "configured"} => writeConfig
  /\ pc \in Decided /\ writeConfig /\ config.author = "operator" => force

\* What the steps of this run have achieved.
ProgressInv ==
  /\ pc \in HasBinary => binary = target
  /\ pc \in Validated => target \in config.accepts
  /\ pc \in HasUnit => unit = "whole"
  /\ pc \in HasUser => user
  /\ pc \in HandedOver => config.readable
  /\ pc \in Loaded => loaded = "whole"
  /\ pc \in Enabled => enabled
  /\ pc \in Restarted => running = target

InstallerInv == Types /\ BinaryInv /\ ConfigInv /\ ProgressInv

LEMMA NoneIsAFile == None \in 0..Torn
  BY DEF None, Torn

LEMMA InstallerInvInit == Init => InstallerInv
<1> SUFFICES ASSUME Init PROVE InstallerInv
  OBVIOUS
<1>1. Types
  <2>1. target \in Versions
    BY DEF Init, Versions
  <2>2. config \in [author : {"nobody", "operator", "installer"},
                    accepts : SUBSET Versions, readable : BOOLEAN]
    BY DEF Init, NoConfig
  <2>3. QED
    BY <2>1, <2>2, NoneIsAFile DEF Init, Types, Steps
<1>2. BinaryInv
  BY DEF Init, BinaryInv, None, Torn
<1>3. ConfigInv
  BY DEF Init, ConfigInv, Decided
<1>4. ProgressInv
  BY DEF Init, ProgressInv, Restarted, Enabled, Loaded, HandedOver, HasUser, HasUnit, Validated,
         HasBinary
<1>5. QED
  BY <1>1, <1>2, <1>3, <1>4 DEF InstallerInv

\* The invariant over the steps of do_install.
LEMMA InstallKeeps ==
  ASSUME InstallerInv, Install
  PROVE  InstallerInv'
<1> USE DEF InstallerInv, Types, BinaryInv, ConfigInv, ProgressInv, Steps, Versions, Torn, None,
            NoConfig, Restarted, Enabled, Loaded, HandedOver, HasUser, HasUnit, Validated,
            HasBinary, Decided, Uninstalling, runVars, hostVars, fileVars, serviceVars, Step, Exit
<1>1. CASE Decide
  BY <1>1 DEF Decide
<1>2. CASE Fetch
  BY <1>2 DEF Fetch
<1>3. CASE CopyBinary
  BY <1>3 DEF CopyBinary
<1>4. CASE FinishCopy
  BY <1>4 DEF FinishCopy
<1>5. CASE RenameBinary
  BY <1>5 DEF RenameBinary
<1>6. CASE CopyConfig
  BY <1>6 DEF CopyConfig
<1>7. CASE FinishConfig
  BY <1>7 DEF FinishConfig
<1>8. CASE Validate
  BY <1>8 DEF Validate
<1>9. CASE CopyUnit
  BY <1>9 DEF CopyUnit
<1>10. CASE FinishUnit
  BY <1>10 DEF FinishUnit
<1>11. CASE AddGroup
  BY <1>11 DEF AddGroup
<1>12. CASE AddUser
  BY <1>12 DEF AddUser
<1>13. CASE HandConfigOver
  BY <1>13 DEF HandConfigOver
<1>14. CASE Reload
  BY <1>14 DEF Reload
<1>15. CASE Enable
  BY <1>15 DEF Enable
<1>16. CASE Restart
  BY <1>16 DEF Restart, Starts
<1>17. CASE Verify
  BY <1>17 DEF Verify
<1>18. CASE MissTmp
  BY <1>18 DEF MissTmp
<1>19. QED
  BY <1>1, <1>2, <1>3, <1>4, <1>5, <1>6, <1>7, <1>8, <1>9, <1>10, <1>11, <1>12, <1>13, <1>14, <1>15, <1>16, <1>17, <1>18 DEF Install

\* The invariant over the steps of do_uninstall.
LEMMA UninstallKeeps ==
  ASSUME InstallerInv, Uninstall
  PROVE  InstallerInv'
<1> USE DEF InstallerInv, Types, BinaryInv, ConfigInv, ProgressInv, Steps, Versions, Torn, None,
            NoConfig, Restarted, Enabled, Loaded, HandedOver, HasUser, HasUnit, Validated,
            HasBinary, Decided, Uninstalling, runVars, hostVars, fileVars, serviceVars, Step, Exit
<1>1. CASE Disable
  <2>1. CASE loaded = "none"
    BY <1>1, <2>1 DEF Disable
  <2>2. CASE loaded # "none"
    BY <1>1, <2>2, NoneIsAFile DEF Disable
  <2>3. QED
    BY <2>1, <2>2
<1>2. CASE RemoveUnit
  BY <1>2 DEF RemoveUnit
<1>3. CASE ForgetUnit
  BY <1>3 DEF ForgetUnit
<1>4. CASE RemoveBinary
  BY <1>4 DEF RemoveBinary
<1>5. QED
  BY <1>1, <1>2, <1>3, <1>4 DEF Uninstall

\* The invariant over whatever goes wrong.
LEMMA UpsetKeeps ==
  ASSUME InstallerInv, Upset
  PROVE  InstallerInv'
<1> USE DEF InstallerInv, Types, BinaryInv, ConfigInv, ProgressInv, Steps, Versions, Torn, None,
            NoConfig, Restarted, Enabled, Loaded, HandedOver, HasUser, HasUnit, Validated,
            HasBinary, Decided, Uninstalling, runVars, hostVars, fileVars, serviceVars, Step, Exit
<1>1. CASE CommandFails
  BY <1>1 DEF CommandFails
<1>2. CASE DisableFails
  BY <1>2 DEF DisableFails
<1>3. CASE Kill
  BY <1>3 DEF Kill
<1>4. CASE Interrupt
  BY <1>4 DEF Interrupt
<1>5. CASE Reboot
  BY <1>5 DEF Reboot, Starts
<1>6. QED
  BY <1>1, <1>2, <1>3, <1>4, <1>5 DEF Upset

\* The invariant over every step.
LEMMA InstallerInvNext ==
  ASSUME InstallerInv, [Next]_vars
  PROVE  InstallerInv'
<1> USE DEF InstallerInv, Types, BinaryInv, ConfigInv, ProgressInv, Steps, Versions, Torn, None,
            NoConfig, Restarted, Enabled, Loaded, HandedOver, HasUser, HasUnit, Validated,
            HasBinary, Decided, Uninstalling, runVars, hostVars, fileVars, serviceVars
<1>1. CASE Edit
  BY <1>1 DEF Edit
<1>2. CASE StartUninstall
  BY <1>2 DEF StartUninstall
<1>3. ASSUME NEW version \in Versions, NEW forced \in BOOLEAN, NEW tok \in {"none", "typo", "good"},
             StartInstall(version, forced, tok)
      PROVE  InstallerInv'
  BY <1>3 DEF StartInstall
<1>4. CASE UNCHANGED vars
  BY <1>4 DEF vars
<1>5. QED
  BY <1>1, <1>2, <1>3, <1>4, InstallKeeps, UninstallKeeps, UpsetKeeps DEF Next, Script

\* The invariant of the installer holds for ever.
THEOREM InstallerInvHolds == Spec => []InstallerInv
  BY InstallerInvInit, InstallerInvNext, PTL DEF Spec

\* BinaryStaysWhole: no failure, kill or reboot leaves half a binary installed.
THEOREM BinaryIsWhole == Spec => []BinaryStaysWhole
<1>1. InstallerInv => BinaryStaysWhole
  BY DEF InstallerInv, BinaryInv, BinaryStaysWhole
<1>2. QED
  BY <1>1, InstallerInvHolds, PTL

\* OperatorsConfigKept: only --force-config replaces what the operator wrote.
THEOREM ConfigIsKept == Spec => OperatorsConfigKept
<1>1. ASSUME InstallerInv, [Next]_vars
      PROVE  [config.author = "operator" /\ config'.author # "operator" => force]_vars
  <2> SUFFICES ASSUME config.author = "operator", config'.author # "operator"
               PROVE  force
    OBVIOUS
  <2>1. ~HandConfigOver /\ ~Edit
    BY <1>1 DEF HandConfigOver, Edit, InstallerInv, Types
  <2>2. CopyConfig \/ FinishConfig
    BY <1>1, <2>1
       DEF Next, Script, Install, Uninstall, Upset, vars, runVars, hostVars, fileVars,
           StartUninstall, StartInstall, Decide, Fetch, CopyBinary, FinishCopy, RenameBinary,
           Validate, CopyUnit, FinishUnit, AddGroup, AddUser, Reload, Enable,
           Restart, Verify, MissTmp, Disable, RemoveUnit, ForgetUnit, RemoveBinary,
           CommandFails, DisableFails, Kill, Interrupt, Reboot
  <2>3. pc \in {"config", "configured"}
    BY <2>2 DEF CopyConfig, FinishConfig, Step
  <2>4. QED
    BY <1>1, <2>3 DEF InstallerInv, ConfigInv, Decided
<1>2. QED
  BY <1>1, InstallerInvHolds, PTL DEF Spec, OperatorsConfigKept

\* UpgradeKeepsServing: a running agent ends by Disable or by Reboot only; the
\* restart of an upgrade finds everything the new binary needs.
THEOREM UpgradesKeepServing == Spec => UpgradeKeepsServing
<1>1. ASSUME InstallerInv, [Next]_vars
      PROVE  [running # None /\ running' = None => Disable \/ Reboot]_vars
  <2> SUFFICES ASSUME running # None, running' = None, ~Disable, ~Reboot
               PROVE  FALSE
    OBVIOUS
  <2>1. Restart
    BY <1>1
       DEF Next, Script, Install, Uninstall, Upset, vars, runVars, hostVars, fileVars, serviceVars,
           Edit, StartUninstall, StartInstall, Decide, Fetch, CopyBinary, FinishCopy, RenameBinary,
           CopyConfig, FinishConfig, Validate, CopyUnit, FinishUnit, AddGroup, AddUser,
           HandConfigOver, Reload, Enable, Verify, MissTmp, RemoveUnit, ForgetUnit, RemoveBinary,
           CommandFails, DisableFails, Kill, Interrupt
  <2>2. Starts(loaded) /\ running' = binary /\ binary \in Versions
    BY <1>1, <2>1
       DEF Restart, Step, Starts, InstallerInv, Types, ProgressInv, Restarted, Enabled, Loaded,
           HandedOver, HasUser, HasUnit, Validated, HasBinary
  <2>3. QED
    BY <2>2 DEF Versions, None
<1>2. QED
  BY <1>1, InstallerInvHolds, PTL DEF Spec, UpgradeKeepsServing

\* SuccessMeansServing: behind every reported success is the version asked for,
\* running, enabled, and with all it needs.
THEOREM SuccessIsServing == Spec => SuccessMeansServing
<1>1. ASSUME InstallerInv, [Next]_vars
      PROVE  [outcome' = "done" /\ outcome # "done" => Serving']_vars
  <2> SUFFICES ASSUME outcome' = "done", outcome # "done"
               PROVE  Serving'
    OBVIOUS
  <2>1. Verify
    BY <1>1
       DEF Next, Script, Install, Uninstall, Upset, vars, runVars, Step, Exit,
           Edit, StartUninstall, StartInstall, Decide, Fetch, CopyBinary, FinishCopy, RenameBinary,
           CopyConfig, FinishConfig, Validate, CopyUnit, FinishUnit, AddGroup, AddUser,
           HandConfigOver, Reload, Enable, Restart, MissTmp, Disable, RemoveUnit, ForgetUnit,
           RemoveBinary, CommandFails, DisableFails, Kill, Interrupt, Reboot
  <2>2. Serving
    BY <1>1, <2>1
       DEF Verify, Serving, Starts, InstallerInv, Types, ProgressInv, Restarted, Enabled, Loaded,
           HandedOver, HasUser, HasUnit, Validated, HasBinary
  <2>3. QED
    BY <2>1, <2>2 DEF Verify, Exit, Serving, Starts, hostVars, fileVars, serviceVars
<1>2. QED
  BY <1>1, InstallerInvHolds, PTL DEF Spec, SuccessMeansServing
=============================================================================
