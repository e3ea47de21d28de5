----------------------------- MODULE Installer ------------------------------
(***************************************************************************)
(* scripts/install.sh on a Linux host with systemd, run by an operator who *)
(* reruns it: an installation and an uninstallation as the steps that      *)
(* change the host, any of which may fail (the script runs under set -e),  *)
(* be killed, or be interrupted by a signal the script traps.              *)
(*                                                                         *)
(* A version of the agent is a number, a config the set of the versions    *)
(* that accept it.  --no-systemd, --prefix, --config and --dry-run are     *)
(* left out.                                                               *)
(***************************************************************************)
EXTENDS Naturals

CONSTANTS
  Latest,                    \* the newest release; any earlier one can be pinned
  MaxUpsets                  \* bound: failures, signals, kills and reboots

ASSUME InstallerAssumption == Latest \in Nat \ {0} /\ MaxUpsets \in Nat

Versions == 1..Latest
None == 0                    \* no file, no process
Torn == Latest + 1           \* a file that is not all there

VARIABLES
  pc,                        \* the step the script is at; "idle": it does not run
  target, force, token,      \* --version, --force-config, --token
  writeConfig,               \* what step 2 decides
  tmp,                       \* ${tmpdir} is there
  outcome,                   \* how the last run ended
  upsets

VARIABLES
  binary, fresh,             \* ${bin_dst}, and its sibling ${bin_dst}.new
  config,                    \* who wrote it, which versions accept it, whether the
                             \* user vigil can read it
  unit, loaded,              \* the unit file, and what systemd has read of it
  group, user,               \* vigil exists
  enabled, running           \* the service: started at boot; the running version

runVars == <<pc, target, force, token, writeConfig, tmp, outcome>>
fileVars == <<binary, fresh, config, unit>>
serviceVars == <<loaded, enabled, running>>
hostVars == <<fileVars, serviceVars, group, user>>
vars == <<runVars, hostVars, upsets>>

NoConfig == [author |-> "nobody", accepts |-> {}, readable |-> FALSE]

Init ==
  /\ pc = "idle" /\ target = Latest /\ force = FALSE /\ token = "none"
  /\ writeConfig = FALSE /\ tmp = FALSE /\ outcome = "none" /\ upsets = 0
  /\ binary = None /\ fresh = None /\ config = NoConfig /\ unit = "none"
  /\ loaded = "none" /\ enabled = FALSE /\ running = None
  /\ group = FALSE /\ user = FALSE

\* The service comes up when systemd has the unit it is given, the user is
\* there, and the binary accepts a config it can read.
Starts(unitThen) ==
  /\ unitThen = "whole" /\ user
  /\ binary \in Versions /\ binary \in config.accepts /\ config.readable

\* The script goes on to the next step, or ends.
Step(from, to) ==
  /\ pc = from /\ pc' = to
  /\ UNCHANGED <<target, force, token, writeConfig, tmp, outcome, upsets>>

Exit(how) ==
  /\ pc' = "idle" /\ outcome' = how
  /\ tmp' = FALSE
  /\ UNCHANGED <<target, force, token, writeConfig>>

\* The operator starts it.
StartInstall(version, forced, tok) ==
  /\ pc = "idle" /\ pc' = "decide"
  /\ target' = version /\ force' = forced /\ token' = tok
  /\ outcome' = "none"
  /\ UNCHANGED <<writeConfig, tmp, hostVars, upsets>>

StartUninstall ==
  /\ pc = "idle" /\ pc' = "disable"
  /\ outcome' = "none"
  /\ UNCHANGED <<target, force, token, writeConfig, tmp, hostVars, upsets>>

-----------------------------------------------------------------------------
(* do_install *)

\* Mutant: a token on the command line is reason enough to write the config.
DecideByToken ==
  /\ pc = "decide"
  /\ writeConfig' = (token # "none" \/ force)
  /\ pc' = "fetch"
  /\ UNCHANGED <<target, force, token, tmp, outcome, hostVars, upsets>>

\* Steps 1 and 2, and the temporary directory.
Decide ==
  /\ pc = "decide"
  /\ LET write == config.author = "nobody" \/ force
     IN  IF write /\ token = "none"
         THEN Exit("failed")
         ELSE /\ writeConfig' = write
              /\ pc' = "fetch"
              /\ UNCHANGED <<target, force, token, tmp, outcome>>
  /\ UNCHANGED <<hostVars, upsets>>

\* Steps 3 to 5: download, verify and extract touch the temporary directory only.
Fetch ==
  /\ pc = "fetch" /\ pc' = "copy"
  /\ tmp' = TRUE
  /\ UNCHANGED <<target, force, token, writeConfig, outcome, hostVars, upsets>>

\* Mutant: the binary is copied to where it is going to run.
CopyBinaryInPlace ==
  /\ Step("copy", "copied") /\ tmp
  /\ binary' = Torn /\ fresh' = target
  /\ UNCHANGED <<config, unit, serviceVars, group, user>>

\* Step 6: a copy takes time, a rename does not.
CopyBinary ==
  /\ Step("copy", "copied") /\ tmp
  /\ fresh' = Torn
  /\ UNCHANGED <<binary, config, unit, serviceVars, group, user>>

FinishCopy ==
  /\ Step("copied", "rename")
  /\ fresh' = target
  /\ UNCHANGED <<binary, config, unit, serviceVars, group, user>>

RenameBinary ==
  /\ Step("rename", IF writeConfig THEN "config" ELSE "validate")
  /\ binary' = fresh /\ fresh' = None
  /\ UNCHANGED <<config, unit, serviceVars, group, user>>

\* Step 7: from one file system to another, mv is a copy too.
CopyConfig ==
  /\ Step("config", "configured") /\ tmp
  /\ config' = [NoConfig EXCEPT !.author = "installer"]
  /\ UNCHANGED <<binary, fresh, unit, serviceVars, group, user>>

\* What the agent makes of the token it is given; who can read the file
\* depends on the umask until step 9.
FinishConfig ==
  /\ Step("configured", "validate")
  /\ \E readable \in BOOLEAN :
       config' = [author |-> "installer", readable |-> readable,
                  accepts |-> IF token = "good" THEN Versions ELSE {}]
  /\ UNCHANGED <<binary, fresh, unit, serviceVars, group, user>>

\* Mutant: what --check-config says is not heeded.
ValidateInVain == Step("validate", "unit") /\ UNCHANGED hostVars

\* Step 8, as root: a config the new binary refuses ends the script, with 0.
Validate ==
  /\ \/ binary \in config.accepts /\ Step("validate", "unit")
     \/ /\ pc = "validate" /\ binary \notin config.accepts
        /\ Exit("refused")
        /\ UNCHANGED upsets
  /\ UNCHANGED hostVars

\* Step 9.
CopyUnit ==
  /\ Step("unit", "united") /\ tmp
  /\ unit' = "torn"
  /\ UNCHANGED <<binary, fresh, config, serviceVars, group, user>>

FinishUnit ==
  /\ Step("united", "group")
  /\ unit' = "whole"
  /\ UNCHANGED <<binary, fresh, config, serviceVars, group, user>>

\* Mutant: groupadd fails on a group that is already there.
AddGroupUnchecked ==
  /\ IF group THEN pc = "group" /\ Exit("failed") /\ UNCHANGED upsets ELSE Step("group", "user")
  /\ group' = TRUE
  /\ UNCHANGED <<fileVars, serviceVars, user>>

AddGroup ==
  /\ Step("group", "user")
  /\ group' = TRUE
  /\ UNCHANGED <<fileVars, serviceVars, user>>

AddUser ==
  /\ Step("user", "chown")
  /\ user' = TRUE
  /\ UNCHANGED <<fileVars, serviceVars, group>>

HandConfigOver ==
  /\ Step("chown", "reload")
  /\ config' = [config EXCEPT !.readable = TRUE]
  /\ UNCHANGED <<binary, fresh, unit, serviceVars, group, user>>

Reload ==
  /\ Step("reload", "enable")
  /\ loaded' = unit
  /\ UNCHANGED <<fileVars, enabled, running, group, user>>

Enable ==
  /\ Step("enable", "restart")
  /\ enabled' = TRUE
  /\ UNCHANGED <<fileVars, loaded, running, group, user>>

\* Mutant: start leaves a running service alone.
RestartByStart ==
  /\ Step("restart", "verify")
  /\ running' = IF running # None THEN running ELSE IF Starts(loaded) THEN binary ELSE None
  /\ UNCHANGED <<fileVars, loaded, enabled, group, user>>

Restart ==
  /\ Step("restart", "verify")
  /\ running' = IF Starts(loaded) THEN binary ELSE None
  /\ UNCHANGED <<fileVars, loaded, enabled, group, user>>

\* systemctl is-active, a second later.
Verify ==
  /\ pc = "verify"
  /\ Exit(IF running # None THEN "done" ELSE "failed")
  /\ UNCHANGED <<hostVars, upsets>>

\* A step that needs a file of the directory a signal has removed.
MissTmp ==
  /\ pc \in {"copy", "config", "unit"} /\ ~tmp
  /\ Exit("failed")
  /\ UNCHANGED <<hostVars, upsets>>

Install ==
  \/ Decide \/ Fetch \/ CopyBinary \/ FinishCopy \/ RenameBinary \/ CopyConfig \/ FinishConfig
  \/ Validate \/ CopyUnit \/ FinishUnit \/ AddGroup \/ AddUser \/ HandConfigOver
  \/ Reload \/ Enable \/ Restart \/ Verify \/ MissTmp

-----------------------------------------------------------------------------
(* do_uninstall *)

\* disable --now, if systemd knows the unit; its failure is ignored.
Disable ==
  /\ Step("disable", "remove")
  /\ IF loaded # "none" THEN enabled' = FALSE /\ running' = None ELSE UNCHANGED <<enabled, running>>
  /\ UNCHANGED <<fileVars, loaded, group, user>>

RemoveUnit ==
  /\ Step("remove", IF unit = "none" THEN "erase" ELSE "forget")
  /\ unit' = "none"
  /\ UNCHANGED <<binary, fresh, config, serviceVars, group, user>>

ForgetUnit ==
  /\ Step("forget", "erase")
  /\ loaded' = unit
  /\ UNCHANGED <<fileVars, enabled, running, group, user>>

RemoveBinary ==
  /\ pc = "erase"
  /\ binary' = None
  /\ Exit("removed")
  /\ UNCHANGED <<fresh, config, unit, serviceVars, group, user, upsets>>

Uninstall == Disable \/ RemoveUnit \/ ForgetUnit \/ RemoveBinary

-----------------------------------------------------------------------------
(* What goes wrong, and the operator *)

\* A command fails, or Ctrl-C ends it: set -e ends the script.
CommandFails == pc # "idle" /\ Exit("failed") /\ UNCHANGED hostVars

DisableFails ==
  /\ pc = "disable" /\ pc' = "remove"
  /\ UNCHANGED <<target, force, token, writeConfig, tmp, outcome, hostVars>>

Kill ==
  /\ pc # "idle"
  /\ Exit("killed")
  /\ UNCHANGED hostVars

\* The trap of INT, HUP and TERM removes the directory and does not exit.
Interrupt ==
  /\ tmp /\ tmp' = FALSE
  /\ UNCHANGED <<pc, target, force, token, writeConfig, outcome, hostVars>>

Reboot ==
  /\ Exit(IF pc = "idle" THEN outcome ELSE "killed")
  /\ loaded' = unit
  /\ running' = IF enabled /\ Starts(unit) THEN binary ELSE None
  /\ UNCHANGED <<fileVars, enabled, group, user>>

Upset ==
  /\ upsets < MaxUpsets /\ upsets' = upsets + 1
  /\ CommandFails \/ DisableFails \/ Kill \/ Interrupt \/ Reboot

\* The operator writes the config, but neither between the script's look at
\* it and the script's own write, nor after the validation.
Edit ==
  /\ \/ pc \in {"idle", "decide", "disable", "remove", "forget", "erase"}
     \/ pc \in {"fetch", "copy", "copied", "rename"} /\ ~writeConfig
  /\ \E accepts \in SUBSET Versions, readable \in BOOLEAN :
       /\ config.author # "nobody" => readable = config.readable
       /\ config' = [author |-> "operator", accepts |-> accepts, readable |-> readable]
  /\ UNCHANGED <<runVars, binary, fresh, unit, serviceVars, group, user, upsets>>

Script == Install \/ Uninstall

Next ==
  \/ Script \/ Upset \/ Edit \/ StartUninstall
  \/ \E version \in Versions, forced \in BOOLEAN, tok \in {"none", "typo", "good"} :
       StartInstall(version, forced, tok)

Spec == Init /\ [][Next]_vars

\* The script runs on, and an operator who keeps trying gets round to the
\* command of the documentation, whatever else is tried in between.
FairSpec ==
  /\ Spec
  /\ WF_vars(Script)
  /\ SF_vars(StartInstall(Latest, FALSE, "good"))

-----------------------------------------------------------------------------

\* The binary that is installed is all there, wherever a copy was cut short
\* (install.sh, "6. Install binary atomically").
BinaryStaysWhole == binary # Torn

\* What the operator has written, the installer overwrites only when told to,
\* whichever of the two came first and however many runs were broken off
\* (install.sh:12-13, "never overwrites an existing config").
OperatorsConfigKept ==
  [][config.author = "operator" /\ config'.author # "operator" => force]_vars

\* An upgrade, whatever becomes of it, does not take a running agent down: it
\* is replaced by one that runs, or left alone (install.sh, "8. Validate config
\* before wiring up the service").  Only an uninstallation or a reboot ends it.
UpgradeKeepsServing ==
  [][running # None /\ running' = None => Disable \/ Reboot]_vars

\* The new version runs and will run after a reboot.
Serving == running = target /\ binary = target /\ enabled /\ Starts(unit)

\* An installation that reports success has the version asked for running, with
\* everything it needs to come up again.
SuccessMeansServing == [][outcome' = "done" /\ outcome # "done" => Serving']_vars

\* Wherever earlier runs were broken off, running the installer again gets the
\* agent going, or says that the config is refused (install.sh, "Idempotent").
InterruptionsHeal == []<>((outcome = "done" /\ Serving) \/ outcome = "refused")
=============================================================================
