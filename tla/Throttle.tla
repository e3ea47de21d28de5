------------------------------ MODULE Throttle ------------------------------
(***************************************************************************)
(* The rate-halving throttle of internal/scheduler/scheduler.go.           *)
(*                                                                         *)
(* Two atomics, throttleUntilNs and throttleSkipNext, are shared by the    *)
(* collect loop (shouldSkipTick, once per tick) and the send loop          *)
(* (engageThrottle, after a Send that reported dropped_quota) without a    *)
(* lock, so every Load, Store, Swap and clock reading is a step.  `tick`   *)
(* and `engage` are the activation records of the two functions: a program *)
(* counter and the local values the function has read so far.              *)
(***************************************************************************)
EXTENDS Integers

CONSTANTS ThrottleDuration,  \* throttleDuration, in units of the model's clock
          MaxTime            \* bound: the clock stops here

ASSUME ThrottleAssumption == /\ ThrottleDuration \in Nat \ {0}
                             /\ MaxTime \in Nat \ {0}

VARIABLES now,               \* time.Now(), never 0
          throttleUntil,     \* throttleUntilNs; 0 is "not throttled"
          skipNext,          \* throttleSkipNext
          tick,              \* shouldSkipTick running in the collect loop
          engage             \* engageThrottle running in the send loop

throttleVars == <<now, throttleUntil, skipNext, tick, engage>>

TickSteps == {"idle", "loadUntil", "readClock", "clearUntil", "clearSkip",
              "loadSkip", "storeSkip", "scrape", "skip"}
EngageSteps == {"idle", "readClock", "swap", "resetSkip", "returned"}

NoTick == [pc |-> "idle", until |-> 0, skip |-> FALSE]
NoEngage == [pc |-> "idle", deadline |-> 0]

ThrottleTypeOK ==
  /\ now \in 1..MaxTime
  /\ throttleUntil \in Nat
  /\ skipNext \in BOOLEAN
  /\ tick \in [pc : TickSteps, until : Nat, skip : BOOLEAN]
  /\ engage \in [pc : EngageSteps, deadline : Nat]

ThrottleInit ==
  /\ now = 1
  /\ throttleUntil = 0
  /\ skipNext = FALSE
  /\ tick = NoTick
  /\ engage = NoEngage

AdvanceClock ==
  /\ now < MaxTime
  /\ now' = now + 1
  /\ UNCHANGED <<throttleUntil, skipNext, tick, engage>>

-----------------------------------------------------------------------------
(* shouldSkipTick *)

BeginTick ==
  /\ tick.pc = "idle"
  /\ tick' = [tick EXCEPT !.pc = "loadUntil"]
  /\ UNCHANGED <<now, throttleUntil, skipNext, engage>>

TickLoadUntil ==
  /\ tick.pc = "loadUntil"
  /\ tick' = [tick EXCEPT !.until = throttleUntil,
                          !.pc = IF throttleUntil = 0 THEN "scrape" ELSE "readClock"]
  /\ UNCHANGED <<now, throttleUntil, skipNext, engage>>

\* Mutant: a deadline is expired only when the clock is past it.
TickReadClockLate ==
  /\ tick.pc = "readClock"
  /\ tick' = [tick EXCEPT !.pc = IF now > tick.until THEN "clearUntil" ELSE "loadSkip"]
  /\ UNCHANGED <<now, throttleUntil, skipNext, engage>>

\* The deadline compared with the clock is the one loaded a step ago.
TickReadClock ==
  /\ tick.pc = "readClock"
  /\ tick' = [tick EXCEPT !.pc = IF now >= tick.until THEN "clearUntil" ELSE "loadSkip"]
  /\ UNCHANGED <<now, throttleUntil, skipNext, engage>>

TickClearUntil ==
  /\ tick.pc = "clearUntil"
  /\ throttleUntil' = 0
  /\ tick' = [tick EXCEPT !.pc = "clearSkip"]
  /\ UNCHANGED <<now, skipNext, engage>>

TickClearSkip ==
  /\ tick.pc = "clearSkip"
  /\ skipNext' = FALSE
  /\ tick' = [tick EXCEPT !.pc = "scrape"]
  /\ UNCHANGED <<now, throttleUntil, engage>>

TickLoadSkip ==
  /\ tick.pc = "loadSkip"
  /\ tick' = [tick EXCEPT !.skip = skipNext, !.pc = "storeSkip"]
  /\ UNCHANGED <<now, throttleUntil, skipNext, engage>>

\* Mutants: the flag is set, or stored as it was, instead of flipped.
TickStoreSkipSticky ==
  /\ tick.pc = "storeSkip"
  /\ skipNext' = TRUE
  /\ tick' = [tick EXCEPT !.pc = IF tick.skip THEN "skip" ELSE "scrape"]
  /\ UNCHANGED <<now, throttleUntil, engage>>

TickStoreSkipUnflipped ==
  /\ tick.pc = "storeSkip"
  /\ skipNext' = tick.skip
  /\ tick' = [tick EXCEPT !.pc = IF tick.skip THEN "skip" ELSE "scrape"]
  /\ UNCHANGED <<now, throttleUntil, engage>>

TickStoreSkip ==
  /\ tick.pc = "storeSkip"
  /\ skipNext' = ~tick.skip
  /\ tick' = [tick EXCEPT !.pc = IF tick.skip THEN "skip" ELSE "scrape"]
  /\ UNCHANGED <<now, throttleUntil, engage>>

\* Back in collectLoop: `continue` on skip, scrapeOnce otherwise.
EndTick ==
  /\ tick.pc \in {"scrape", "skip"}
  /\ tick' = NoTick
  /\ UNCHANGED <<now, throttleUntil, skipNext, engage>>

TickStep == \/ TickLoadUntil \/ TickReadClock \/ TickClearUntil
            \/ TickClearSkip \/ TickLoadSkip \/ TickStoreSkip

-----------------------------------------------------------------------------
(* engageThrottle *)

BeginEngage ==
  /\ engage.pc = "idle"
  /\ engage' = [engage EXCEPT !.pc = "readClock"]
  /\ UNCHANGED <<now, throttleUntil, skipNext, tick>>

EngageReadClock ==
  /\ engage.pc = "readClock"
  /\ engage' = [pc |-> "swap", deadline |-> now + ThrottleDuration]
  /\ UNCHANGED <<now, throttleUntil, skipNext, tick>>

\* Mutant: the flag is reset on every engagement, not only on the first.
EngageSwapAlwaysResets ==
  /\ engage.pc = "swap"
  /\ throttleUntil' = engage.deadline
  /\ engage' = [engage EXCEPT !.pc = "resetSkip"]
  /\ UNCHANGED <<now, skipNext, tick>>

\* Swap is one atomic step; it saw 0 exactly when this is the first time.
EngageSwap ==
  /\ engage.pc = "swap"
  /\ throttleUntil' = engage.deadline
  /\ engage' = [engage EXCEPT !.pc = IF throttleUntil = 0 THEN "resetSkip" ELSE "returned"]
  /\ UNCHANGED <<now, skipNext, tick>>

EngageResetSkip ==
  /\ engage.pc = "resetSkip"
  /\ skipNext' = FALSE
  /\ engage' = [engage EXCEPT !.pc = "returned"]
  /\ UNCHANGED <<now, throttleUntil, tick>>

EndEngage ==
  /\ engage.pc = "returned"
  /\ engage' = NoEngage
  /\ UNCHANGED <<now, throttleUntil, skipNext, tick>>

EngageStep == EngageReadClock \/ EngageSwap \/ EngageResetSkip
=============================================================================
