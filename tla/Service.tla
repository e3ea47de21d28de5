------------------------------ MODULE Service -------------------------------
(***************************************************************************)
(* The life of the agent as a systemd service: cmd/vigil-agent/main.go     *)
(* (runDaemon, from loading the config to the exit code), the signals, the *)
(* unit file packaging/systemd/vigil-agent.service, and an operator.  The  *)
(* scheduler is taken at its word: RunContract is all of it that main sees.*)
(***************************************************************************)
EXTENDS RunContract, Naturals

CONSTANTS
  MaxKills,                  \* bound: SIGKILLs (out of memory, power, ...)
  DrainSeconds,              \* --drain-timeout
  ShutdownSeconds,           \* the deadline in MetricsServer.Stop
  StopTimeout                \* TimeoutStopSec

\* The drain is over before systemd loses patience.
ASSUME ServiceAssumption ==
  /\ MaxKills \in Nat
  /\ DrainSeconds \in Nat /\ ShutdownSeconds \in Nat /\ StopTimeout \in Nat
  /\ DrainSeconds < StopTimeout

VARIABLES
  unit,                      \* systemd: the state of the unit
  stage,                     \* how far runDaemon is; "none": no process
  handler,                   \* NotifyContext catches SIGTERM and SIGINT
  updater,                   \* the update check's goroutine exists
  metrics,                   \* the metrics endpoint is bound
  revoked,                   \* the server answers 404 for the token
  signals,                   \* SIGTERMs and SIGINTs sent to the latest process, up to 2
  kills,                     \* SIGKILLs so far
  scrape,                    \* a collector "hangs" in a system call, has "hung", or is "fine"
  left,                      \* the seconds the drain or the shutdown may still take
  elapsed                    \* the seconds since systemd was asked to stop the unit

timeVars == <<scrape, left, elapsed>>
hostVars == <<unit, revoked, kills>>
procVars == <<stage, handler, updater, metrics, signals>>
vars == <<contractVars, hostVars, procVars, timeVars>>

Stages == {"none", "load", "sink", "metrics", "register", "updater", "run", "stop", "unbind"}

\* The process's memory before sched.Run: nothing has happened yet.
FreshRun == phase' = "running" /\ signalled' = FALSE /\ fatal' = FALSE /\ result' = "none"

ServiceInit ==
  /\ Init
  /\ unit = "inactive" /\ stage = "none"
  /\ handler = FALSE /\ updater = FALSE /\ metrics = FALSE /\ signals = 0
  /\ revoked = FALSE /\ kills = 0
  /\ scrape = "fine" /\ left = 0 /\ elapsed = 0

-----------------------------------------------------------------------------
(* Exit codes and what systemd makes of them *)

OK == "0"
Config == "1"
Runtime == "2"

\* Mutants: the error of Run is ignored, or reported as a runtime error.
RunExitCodeIgnored(res) == OK
RunExitCodeRuntime(res) == IF res = "fatal" THEN Runtime ELSE OK

\* The end of runDaemon.
RunExitCode(res) == IF res = "fatal" THEN Config ELSE OK

\* Restart=on-failure, RestartPreventExitStatus=1 3; SIGTERM is a clean end.
Clean == {OK, "TERM"}
Prevented == {Config, "3"}

UnitAfter(status) ==
  IF status \in Clean THEN "inactive"
  ELSE IF status \in Prevented \/ unit = "deactivating" THEN "failed"
  ELSE "activating"

\* The process is gone, and everything it held with it.
Exit(status) ==
  /\ unit' = UnitAfter(status)
  /\ stage' = "none"
  /\ handler' = FALSE /\ updater' = FALSE /\ metrics' = FALSE
  /\ FreshRun
  /\ scrape' = "fine" /\ left' = 0 /\ elapsed' = 0
  /\ UNCHANGED revoked

\* SIGTERM or SIGINT reaches the process.  From NotifyContext to stop() it
\* cancels the context, and nothing more, the first time or the second; before
\* and after, it ends the process.
Deliver(unitThen) ==
  /\ signals' = IF signals < 2 THEN signals + 1 ELSE signals
  /\ IF handler
     THEN /\ unit' = unitThen
          /\ signalled' = TRUE
          /\ UNCHANGED <<phase, fatal, result, stage, handler, updater, metrics, revoked, timeVars>>
     ELSE Exit("TERM")

-----------------------------------------------------------------------------
(* runDaemon *)

\* One stage of the start-up succeeds, or fails and ends the process.
Advance(from, to) ==
  /\ stage = from
  /\ stage' = to
  /\ UNCHANGED <<contractVars, hostVars, signals, scrape, elapsed>>

StartFails ==
  /\ stage \in {"load", "sink", "metrics"}
  /\ Exit(Config)
  /\ UNCHANGED <<kills, signals>>

LoadConfig == Advance("load", "sink") /\ UNCHANGED <<handler, updater, metrics, left>>

\* --dry-run cannot fail here; the HTTP sink refuses a bad URL or token.
BuildSink == Advance("sink", "metrics") /\ UNCHANGED <<handler, updater, metrics, left>>

StartMetrics ==
  /\ Advance("metrics", "register")
  /\ metrics' \in BOOLEAN
  /\ UNCHANGED <<handler, updater, left>>

RegisterSignals ==
  /\ Advance("register", "updater")
  /\ handler' = TRUE
  /\ UNCHANGED <<updater, metrics, left>>

\* Disabled, rejected by updater.New, or started; never a reason to stop.
StartUpdater ==
  /\ Advance("updater", "run")
  /\ updater' \in BOOLEAN
  /\ UNCHANGED <<handler, metrics, left>>

\* sched.Run.  Only a revoked token makes the sink fatal.
Revocation ==
  /\ stage = "run" /\ revoked
  /\ FatalReply
  /\ UNCHANGED <<hostVars, procVars, timeVars>>

\* A collector hangs (statfs on a dead mount), once in a life, and may come back.
ScrapeHangs ==
  /\ stage = "run" /\ phase = "running" /\ scrape = "fine"
  /\ scrape' = "hangs"
  /\ UNCHANGED <<contractVars, hostVars, procVars, left, elapsed>>

ScrapeReturns ==
  /\ scrape = "hangs"
  /\ scrape' = "hung"
  /\ UNCHANGED <<contractVars, hostVars, procVars, left, elapsed>>

\* Mutant: the deadline of the drain starts over once.
DrainWindowExtended == IF fatal THEN 0 ELSE 2 * DrainSeconds

\* How long it takes from the end of the collector to the end of the sender.
DrainWindow == IF fatal THEN 0 ELSE DrainSeconds

\* The wait for the collector has no deadline of its own.
RunStops ==
  /\ stage = "run" /\ scrape # "hangs"
  /\ Stop
  /\ left' = DrainWindow
  /\ UNCHANGED <<hostVars, procVars, scrape, elapsed>>

RunReturns ==
  /\ stage = "run"
  /\ Return
  /\ stage' = "stop" /\ left' = 0
  /\ UNCHANGED <<hostVars, handler, updater, metrics, signals, scrape, elapsed>>


\* The deferred calls, last in first out: stop() gives the signals back and
\* cancels the context, which ends the updater; then the endpoint is closed.
DeferredStop ==
  /\ Advance("stop", "unbind")
  /\ handler' = FALSE
  /\ left' = IF metrics THEN ShutdownSeconds ELSE 0
  /\ UNCHANGED <<updater, metrics>>

UpdaterEnds ==
  /\ updater
  /\ signalled \/ stage = "unbind"
  /\ updater' = FALSE
  /\ UNCHANGED <<contractVars, hostVars, stage, handler, metrics, signals, timeVars>>

\* metricsSrv.Stop, then os.Exit, which waits for nobody.
ExitDaemon ==
  /\ stage = "unbind"
  /\ Exit(RunExitCode(result))
  /\ UNCHANGED <<kills, signals>>

Daemon ==
  \/ LoadConfig \/ BuildSink \/ StartMetrics \/ StartFails \/ RegisterSignals
  \/ StartUpdater \/ RunStops \/ RunReturns \/ DeferredStop \/ ExitDaemon

-----------------------------------------------------------------------------
(* systemd, the operator, the server *)

Launch ==
  /\ unit' = "active" /\ stage' = "load" /\ signals' = 0
  /\ UNCHANGED <<contractVars, revoked, kills, handler, updater, metrics, timeVars>>

OperatorStart == unit \in {"inactive", "failed"} /\ Launch

AutoRestart == unit = "activating" /\ Launch

OperatorStop ==
  \/ unit = "active" /\ Deliver("deactivating") /\ UNCHANGED kills
  \/ /\ unit = "activating"
     /\ unit' = "inactive"
     /\ UNCHANGED <<contractVars, revoked, kills, procVars, timeVars>>

\* Somebody else sends SIGTERM or SIGINT, once or repeatedly.
StraySignal == stage # "none" /\ Deliver(unit) /\ UNCHANGED kills

\* SIGKILL from anybody but systemd: out of memory, the operator.
Kill ==
  /\ stage # "none" /\ kills < MaxKills
  /\ kills' = kills + 1
  /\ Exit("KILL")
  /\ UNCHANGED signals

\* A second passes between the request to stop and the end.  Whatever is not
\* one of the waits of the code takes less than that.
Tick ==
  /\ unit = "deactivating" /\ elapsed < StopTimeout
  /\ left > 0 \/ scrape = "hangs"
  /\ elapsed' = elapsed + 1
  /\ left' = IF left > 0 THEN left - 1 ELSE left
  /\ UNCHANGED <<contractVars, hostVars, procVars, scrape>>

\* Mutant: SendSIGKILL=no.
TimeoutPasses ==
  /\ unit = "deactivating" /\ elapsed = StopTimeout
  /\ UNCHANGED vars

\* SendSIGKILL=yes.
TimeoutKill ==
  /\ unit = "deactivating" /\ elapsed = StopTimeout
  /\ Exit("KILL")
  /\ UNCHANGED <<kills, signals>>

Revoke ==
  /\ ~revoked
  /\ revoked' = TRUE
  /\ UNCHANGED <<contractVars, unit, kills, procVars, timeVars>>

ServiceNext ==
  \/ Daemon \/ Revocation \/ ScrapeHangs \/ ScrapeReturns \/ UpdaterEnds
  \/ Tick \/ TimeoutKill \/ OperatorStart \/ AutoRestart \/ OperatorStop \/ StraySignal \/ Kill \/ Revoke

ServiceSpec == ServiceInit /\ [][ServiceNext]_vars

\* The process runs, systemd restarts and kills what it owes a restart or a
\* kill, time passes, and a running agent sends a batch now and then.  Nothing
\* is assumed of the updater and of a hanging collector: they may hang for ever.
ServiceFairness ==
  /\ WF_vars(Daemon) /\ WF_vars(Revocation)
  /\ WF_vars(AutoRestart) /\ WF_vars(Tick) /\ WF_vars(TimeoutKill)

ServiceFairSpec == ServiceSpec /\ ServiceFairness

-----------------------------------------------------------------------------

\* The type invariant: there is a process exactly when systemd thinks so, and
\* it catches signals only between NotifyContext and stop().
TypeOK ==
  /\ phase \in {"running", "stopping", "returned"}
  /\ signalled \in BOOLEAN /\ fatal \in BOOLEAN /\ result \in {"none", "nil", "fatal"}
  /\ unit \in {"inactive", "activating", "active", "deactivating", "failed"}
  /\ stage \in Stages
  /\ updater \in BOOLEAN /\ metrics \in BOOLEAN /\ revoked \in BOOLEAN
  /\ signals \in 0..2 /\ kills \in 0..MaxKills
  /\ scrape \in {"fine", "hangs", "hung"} /\ left \in Nat /\ elapsed \in 0..StopTimeout
  /\ stage # "none" <=> unit \in {"active", "deactivating"}
  /\ handler <=> stage \in {"updater", "run", "stop"}
  /\ phase = "returned" <=> stage \in {"stop", "unbind"}

\* A host never drops out of monitoring unnoticed: the unit goes from active
\* to inactive, which nobody restarts and no alert fires on, only after a
\* signal; every other end of the process shows up as failed or is restarted.
NeverGoneSilently == [][unit = "active" /\ unit' = "inactive" => signals' > 0]_vars

\* A revoked token ends in a stopped unit instead of a restart loop that posts
\* to the server every five seconds (main.go:33-35, exitcode.go:18-21), unless a
\* collector hangs: Run waits for it before it returns.
RevokedAgentGivesUp == revoked ~> unit \in {"inactive", "failed"} \/ scrape = "hangs"

\* `systemctl stop` comes to an end although the update check or a collector
\* may hang, and wherever in its life the signal finds the process.
StopCompletes == unit = "deactivating" ~> unit \in {"inactive", "failed"}

\* A slow server alone never makes systemd kill the agent: the drain leaves time
\* for the rest (scheduler.go:133-135).  A collector that hangs may, and so may a
\* client that holds the metrics endpoint after a full drain.
StopNeedsNoKill ==
  unit = "deactivating" /\ elapsed = StopTimeout => metrics \/ scrape # "fine"
=============================================================================
