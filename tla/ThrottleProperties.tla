------------------------- MODULE ThrottleProperties -------------------------
(***************************************************************************)
(* The throttle on its own, in the loosest surroundings: the collect loop  *)
(* may tick, and a Send may report dropped_quota, at any moment.           *)
(***************************************************************************)
EXTENDS Throttle

\* What the steps have shown so far; no code keeps this.
VARIABLES lastTick,          \* what the previous tick did, see NoHistory
          thisTick           \* the same for the tick that is running

vars == <<throttleVars, lastTick, thisTick>>

\* scraped: it ended in a scrape; live: it saw a deadline in the future;
\* settled: no reset of the flag was pending when it read the deadline.
NoHistory == [scraped |-> FALSE, skipped |-> FALSE, live |-> FALSE, settled |-> FALSE]

Init ==
  /\ ThrottleInit
  /\ lastTick = NoHistory
  /\ thisTick = NoHistory

Clock == AdvanceClock /\ UNCHANGED <<lastTick, thisTick>>

TickBegins == BeginTick /\ UNCHANGED <<lastTick, thisTick>>

TickRuns ==
  /\ TickStep
  /\ thisTick' = [thisTick EXCEPT
       !.settled = IF tick.pc = "loadUntil" THEN engage.pc # "resetSkip" ELSE @,
       !.live = @ \/ tick.pc = "loadSkip"]
  /\ UNCHANGED lastTick

TickEnds ==
  /\ EndTick
  /\ lastTick' = [thisTick EXCEPT !.scraped = tick.pc = "scrape",
                                  !.skipped = tick.pc = "skip"]
  /\ thisTick' = NoHistory

\* A Send reports dropped_quota, and the sender goes through engageThrottle.
QuotaDropped ==
  /\ BeginEngage \/ EngageStep \/ EndEngage
  /\ UNCHANGED <<lastTick, thisTick>>

\* The clock's bound never blocks the two loops, so there is no deadlock.
Next == Clock \/ TickBegins \/ TickRuns \/ TickEnds \/ QuotaDropped

Spec == Init /\ [][Next]_vars

\* The clock runs, the ticker fires and shouldSkipTick runs to its end.
FairSpec == Spec /\ WF_vars(Clock) /\ WF_vars(TickBegins \/ TickRuns \/ TickEnds)

-----------------------------------------------------------------------------

\* However often the throttle is re-engaged, the window ends at most one
\* ThrottleDuration from now: extensions do not add up (scheduler.go:457-460).
WindowBounded ==
  throttleUntil <= now + ThrottleDuration /\ engage.deadline <= now + ThrottleDuration

\* The throttle never silences the agent: of two consecutive ticks at least
\* one scrapes, wherever the sender's stores fall.
NoTwoSkips == tick.pc = "skip" => ~lastTick.skipped

\* While a window is live the rate is halved: re-engaging (every successful
\* Send does it while the server keeps dropping) does not restart the
\* alternation.  The tick that races with the very first reset is exempt.
LiveTicksAlternate ==
  tick.pc = "scrape" /\ thisTick.live
    => ~(lastTick.scraped /\ lastTick.live /\ lastTick.settled)

\* A throttle is not for ever: a deadline the clock reaches is cleared, or
\* replaced by a later one.
ThrottleLifts ==
  \A d \in 1..MaxTime : throttleUntil = d ~> throttleUntil # d

-----------------------------------------------------------------------------
(* A claim of the comments that the code does not meet *)

\* scheduler.go:443-446 clears "expired" state, and :457-460 says engaging
\* while throttled just extends the deadline: a live deadline is not cleared.
ClearsOnlyExpired ==
  [][throttleUntil # 0 /\ throttleUntil' = 0 => now >= throttleUntil]_vars
=============================================================================
