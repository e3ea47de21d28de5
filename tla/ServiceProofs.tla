---------------------------- MODULE ServiceProofs ----------------------------
(***************************************************************************)
(* The life of the service for every number of kills and every setting of  *)
(* the three deadlines under which a drain is shorter than systemd's       *)
(* patience: it does not go down unnoticed, and it is not killed for a     *)
(* slow server.                                                            *)
(***************************************************************************)
EXTENDS Service, TLAPS

USE ServiceAssumption

\* The seconds that have passed and those the drain may still take fit the
\* drain's window, unless something else than the drain delays the end.
StopInv ==
  /\ unit = "deactivating" => stage \in {"updater", "run", "stop", "unbind"}
  /\ phase = "stopping" => stage = "run"
  /\ unit # "deactivating" => elapsed = 0
  /\ phase = "running" => left = 0
  /\ ~metrics /\ scrape = "fine" =>
       /\ phase = "running" => elapsed = 0
       /\ elapsed + left <= DrainSeconds

\* Run ends for a signal or a fatal reply, and says which.
SignalInv ==
  /\ stage = "none" => ~signalled
  /\ signalled => signals > 0
  /\ phase # "running" => signalled \/ fatal
  /\ phase = "returned" => result = "fatal" \/ signalled

ServiceInv == TypeOK /\ StopInv /\ SignalInv

LEMMA ServiceInvInit == ServiceInit => ServiceInv
<1> SUFFICES ASSUME ServiceInit PROVE ServiceInv
  OBVIOUS
<1>1. TypeOK
  <2>1. elapsed \in 0..StopTimeout /\ kills \in 0..MaxKills /\ signals \in 0..2 /\ left \in Nat
    BY DEF ServiceInit
  <2>2. QED
    BY <2>1 DEF ServiceInit, Init, TypeOK, Stages
<1>2. StopInv /\ SignalInv
  BY DEF ServiceInit, Init, StopInv, SignalInv
<1>3. QED
  BY <1>1, <1>2 DEF ServiceInv

\* The end of a process leaves nothing behind.
LEMMA ExitKeeps ==
  ASSUME ServiceInv, NEW status \in {OK, Config, Runtime, "TERM", "KILL"}, Exit(status),
         signals' \in 0..2, kills' \in 0..MaxKills
  PROVE  ServiceInv'
<1>1. unit' \in {"inactive", "failed", "activating"}
  BY DEF Exit, UnitAfter
<1>2. TypeOK'
  <2>1. /\ phase' = "running" /\ signalled' = FALSE /\ fatal' = FALSE /\ result' = "none"
        /\ stage' = "none" /\ handler' = FALSE /\ updater' = FALSE /\ metrics' = FALSE
        /\ scrape' = "fine" /\ left' = 0 /\ elapsed' = 0 /\ revoked' = revoked
    BY DEF Exit, FreshRun
  <2>2. revoked \in BOOLEAN
    BY DEF ServiceInv, TypeOK
  <2>3. elapsed' \in 0..StopTimeout /\ left' \in Nat /\ stage' \in Stages
    BY <2>1 DEF Stages
  <2>4. /\ stage' # "none" <=> unit' \in {"active", "deactivating"}
        /\ handler' <=> stage' \in {"updater", "run", "stop"}
        /\ phase' = "returned" <=> stage' \in {"stop", "unbind"}
    BY <1>1, <2>1
  <2>5. QED
    BY <1>1, <2>1, <2>2, <2>3, <2>4 DEF TypeOK
<1>3. StopInv' /\ SignalInv'
  BY <1>1 DEF Exit, FreshRun, StopInv, SignalInv
<1>4. QED
  BY <1>2, <1>3 DEF ServiceInv

\* The invariant over the steps of runDaemon.
LEMMA DaemonKeeps ==
  ASSUME ServiceInv, Daemon
  PROVE  ServiceInv'
<1> USE DEF ServiceInv, TypeOK, StopInv, SignalInv, Stages, contractVars, hostVars, procVars, timeVars
<1>1. CASE LoadConfig
  BY <1>1 DEF LoadConfig, Advance
<1>2. CASE BuildSink
  BY <1>2 DEF BuildSink, Advance
<1>3. CASE StartMetrics
  <2>1. TypeOK'
    BY <1>3 DEF StartMetrics, Advance
  <2>2. /\ stage = "metrics" /\ stage' = "register"
        /\ UNCHANGED <<contractVars, unit, signals, scrape, left, elapsed>>
    BY <1>3 DEF StartMetrics, Advance
  <2>3. phase = "running" /\ elapsed = 0 /\ left = 0
    BY <2>2
  <2>4. StopInv'
    BY <2>2, <2>3
  <2>5. SignalInv'
    BY <2>2 DEF SignalInv
  <2>6. QED
    BY <2>1, <2>4, <2>5
<1>4. CASE StartFails
  BY <1>4, ExitKeeps DEF StartFails
<1>5. CASE RegisterSignals
  BY <1>5 DEF RegisterSignals, Advance
<1>6. CASE StartUpdater
  BY <1>6 DEF StartUpdater, Advance
<1>7. CASE RunStops
  BY <1>7 DEF RunStops, Stop, DrainWindow
<1>8. CASE RunReturns
  BY <1>8 DEF RunReturns, Return
<1>9. CASE DeferredStop
  <2>1. TypeOK'
    BY <1>9 DEF DeferredStop, Advance
  <2>2. StopInv' /\ SignalInv'
    BY <1>9 DEF DeferredStop, Advance
  <2>3. QED
    BY <2>1, <2>2
<1>10. CASE ExitDaemon
  BY <1>10, ExitKeeps DEF ExitDaemon, RunExitCode
<1>11. QED
  BY <1>1, <1>2, <1>3, <1>4, <1>5, <1>6, <1>7, <1>8, <1>9, <1>10 DEF Daemon

\* The invariant over a signal.
LEMMA DeliverKeeps ==
  ASSUME ServiceInv, NEW u \in {unit, "deactivating"}, stage # "none", Deliver(u), UNCHANGED kills
  PROVE  ServiceInv'
<1>1. CASE handler
  <2>1. TypeOK'
    BY <1>1 DEF Deliver, ServiceInv, TypeOK, Stages, timeVars
  <2>2. StopInv'
    BY <1>1 DEF Deliver, ServiceInv, TypeOK, StopInv, timeVars
  <2>3. SignalInv'
    BY <1>1 DEF Deliver, ServiceInv, TypeOK, SignalInv, timeVars
  <2>4. QED
    BY <2>1, <2>2, <2>3 DEF ServiceInv
<1>2. CASE ~handler
  BY <1>2, ExitKeeps DEF Deliver, ServiceInv, TypeOK
<1>3. QED
  BY <1>1, <1>2

\* The invariant over every step.
LEMMA ServiceInvNext ==
  ASSUME ServiceInv, [ServiceNext]_vars
  PROVE  ServiceInv'
<1> USE DEF ServiceInv, TypeOK, StopInv, SignalInv, Stages, contractVars, hostVars, procVars, timeVars
<1>1. CASE Revocation
  BY <1>1 DEF Revocation, FatalReply
<1>2. CASE ScrapeHangs
  BY <1>2 DEF ScrapeHangs
<1>3. CASE ScrapeReturns
  BY <1>3 DEF ScrapeReturns
<1>4. CASE UpdaterEnds
  <2>1. TypeOK'
    BY <1>4 DEF UpdaterEnds
  <2>2. StopInv' /\ SignalInv'
    BY <1>4 DEF UpdaterEnds
  <2>3. QED
    BY <2>1, <2>2
<1>5. CASE Tick
  BY <1>5 DEF Tick
<1>6. CASE TimeoutKill
  BY <1>6, ExitKeeps DEF TimeoutKill
<1>7. CASE OperatorStart
  BY <1>7 DEF OperatorStart, Launch
<1>8. CASE AutoRestart
  BY <1>8 DEF AutoRestart, Launch
<1>9. CASE OperatorStop
  BY <1>9, DeliverKeeps DEF OperatorStop
<1>10. CASE StraySignal
  BY <1>10, DeliverKeeps DEF StraySignal
<1>11. CASE Kill
  BY <1>11, ExitKeeps DEF Kill
<1>12. CASE Revoke
  BY <1>12 DEF Revoke
<1>13. CASE UNCHANGED vars
  BY <1>13 DEF vars
<1>14. QED
  BY <1>1, <1>2, <1>3, <1>4, <1>5, <1>6, <1>7, <1>8, <1>9, <1>10, <1>11, <1>12, <1>13, DaemonKeeps DEF ServiceNext

\* TypeOK and the accounts of the seconds hold for ever.
THEOREM ServiceInvHolds == ServiceSpec => []ServiceInv
  BY ServiceInvInit, ServiceInvNext, PTL DEF ServiceSpec

\* StopNeedsNoKill: whatever the server does, systemd's patience outlasts the
\* drain, unless a collector hangs or the metrics endpoint is being closed.
THEOREM DrainOutlived == ServiceSpec => []StopNeedsNoKill
<1>1. ServiceInv => StopNeedsNoKill
  BY DEF ServiceInv, TypeOK, StopInv, StopNeedsNoKill
<1>2. QED
  BY <1>1, ServiceInvHolds, PTL

\* NeverGoneSilently: an active unit that becomes inactive was sent a signal.
THEOREM NoSilentEnd == ServiceSpec => NeverGoneSilently
<1>1. ASSUME ServiceInv, [ServiceNext]_vars
      PROVE  [unit = "active" /\ unit' = "inactive" => signals' > 0]_vars
  <2> SUFFICES ASSUME unit = "active", unit' = "inactive"
               PROVE  signals' > 0
    OBVIOUS
  <2> USE <1>1 DEF ServiceInv, TypeOK, SignalInv, contractVars, hostVars, procVars, timeVars
  <2>1. CASE Daemon
    <3>1. CASE StartFails
      BY <3>1 DEF StartFails, Exit, UnitAfter, Clean, Prevented, Config, OK
    <3>2. CASE ExitDaemon
      <4>1. RunExitCode(result) \in Clean
        BY <3>2 DEF ExitDaemon, Exit, UnitAfter, Prevented
      <4>2. result # "fatal"
        BY <4>1 DEF RunExitCode, Clean, Config, OK
      <4>3. phase = "returned" /\ signals' = signals
        BY <3>2 DEF ExitDaemon
      <4>4. QED
        BY <4>2, <4>3
    <3>3. QED
      BY <2>1, <3>1, <3>2
         DEF Daemon, LoadConfig, BuildSink, StartMetrics, RegisterSignals, StartUpdater, RunStops,
             RunReturns, DeferredStop, Advance
  <2>2. CASE TimeoutKill \/ Kill
    BY <2>2 DEF TimeoutKill, Kill, Exit, UnitAfter, Clean, Prevented, Config, OK
  <2>3. CASE OperatorStop \/ StraySignal
    <3>1. PICK u : Deliver(u)
      BY <2>3 DEF OperatorStop, StraySignal
    <3>2. QED
      BY <3>1 DEF Deliver
  <2>4. QED
    BY <2>1, <2>2, <2>3
       DEF ServiceNext, Revocation, ScrapeHangs, ScrapeReturns, UpdaterEnds, Tick, OperatorStart,
           AutoRestart, Launch, Revoke, vars
<1>2. QED
  BY <1>1, ServiceInvHolds, PTL DEF ServiceSpec, NeverGoneSilently
=============================================================================
