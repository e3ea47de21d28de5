--------------------------- MODULE ThrottleTimed ----------------------------
(***************************************************************************)
(* The throttle against the scrape interval.  Ticks come every Interval;   *)
(* every scrape is sent, the reply arrives after one of Latencies, and the *)
(* server keeps reporting dropped_quota.  Code takes no time: the clock    *)
(* moves only when both loops wait.                                        *)
(***************************************************************************)
EXTENDS Throttle

CONSTANTS Interval, Latencies

ASSUME TimedAssumption ==
  /\ Interval \in Nat \ {0}
  /\ Latencies \subseteq 1..(Interval - 1)

VARIABLES nextTick,          \* when the ticker fires next
          reply,             \* when the outstanding Send returns; 0 if none
          engaged,           \* engageThrottle has run at least once
          lastScraped        \* the previous tick after that was a scrape

paceVars == <<nextTick, reply, engaged, lastScraped>>
timedVars == <<throttleVars, paceVars>>

\* The immediate first scrape is on its way when the ticker is created.
TimedInit ==
  /\ ThrottleInit
  /\ nextTick = 1 + Interval
  /\ \E d \in Latencies : reply = 1 + d
  /\ engaged = FALSE
  /\ lastScraped = FALSE

TickFires ==
  /\ now = nextTick
  /\ BeginTick
  /\ nextTick' = nextTick + Interval
  /\ UNCHANGED <<reply, engaged, lastScraped>>

TickProceeds == TickStep /\ UNCHANGED paceVars

\* A scraping tick's batch is sent at once: the buffer is otherwise empty.
TickReturns ==
  /\ EndTick
  /\ IF tick.pc = "scrape" THEN \E d \in Latencies : reply' = now + d
                           ELSE UNCHANGED reply
  /\ lastScraped' = (engaged /\ tick.pc = "scrape")
  /\ UNCHANGED <<nextTick, engaged>>

ReplyDropsQuota ==
  /\ now = reply
  /\ BeginEngage
  /\ reply' = 0
  /\ engaged' = TRUE
  /\ UNCHANGED <<nextTick, lastScraped>>

EngageRuns == (EngageStep \/ EndEngage) /\ UNCHANGED paceVars

ClockRuns ==
  /\ tick.pc = "idle" /\ engage.pc = "idle"
  /\ now # nextTick /\ now # reply
  /\ AdvanceClock
  /\ UNCHANGED paceVars

\* The end of the modelled time.
Finished == now = MaxTime /\ UNCHANGED timedVars

TimedNext == \/ TickFires \/ TickProceeds \/ TickReturns
             \/ ReplyDropsQuota \/ EngageRuns \/ ClockRuns \/ Finished

TimedSpec == TimedInit /\ [][TimedNext]_timedVars

\* scheduler.go:50-58 and :433-434: while the server keeps dropping samples,
\* the effective scrape rate is exactly halved: no two ticks in a row scrape
\* once the throttle is engaged.  True when a window outlasts two intervals.
SustainedQuotaHalvesRate ==
  tick.pc = "scrape" => ~lastScraped
=============================================================================
