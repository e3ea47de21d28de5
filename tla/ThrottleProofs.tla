--------------------------- MODULE ThrottleProofs ---------------------------
(***************************************************************************)
(* Proofs about the throttle for every duration and clock bound, in the    *)
(* loose surroundings of ThrottleProperties: a tick and a dropped_quota    *)
(* may come at any moment, and the accesses of the two interleave freely.  *)
(***************************************************************************)
EXTENDS ThrottleProperties, ThrottleTimed, TLAPS

USE ThrottleAssumption

History == [scraped : BOOLEAN, skipped : BOOLEAN, live : BOOLEAN, settled : BOOLEAN]

\* Before shouldSkipTick has read the flag.
BeforeLoad == {"idle", "loadUntil", "readClock", "clearUntil", "clearSkip", "loadSkip"}

\* After a skipped tick the flag is FALSE, and only a scraping tick sets it.
SkipInv ==
  /\ lastTick.skipped /\ tick.pc \in BeforeLoad => ~skipNext
  /\ lastTick.skipped /\ tick.pc = "storeSkip" => ~tick.skip
  /\ tick.pc = "skip" => ~lastTick.skipped /\ ~skipNext

\* The parts of the types that the steps below need.
Shapes ==
  /\ tick \in [pc : TickSteps, until : Nat, skip : BOOLEAN]
  /\ engage \in [pc : EngageSteps, deadline : Nat]
  /\ lastTick \in History /\ thisTick \in History
  /\ skipNext \in BOOLEAN

Clocks == now \in Nat /\ throttleUntil \in Nat

ThrottleInv == Shapes /\ Clocks /\ WindowBounded /\ SkipInv

\* No window is set and no function is running at the start.
LEMMA ThrottleInvInit == Init => ThrottleInv
<1> SUFFICES ASSUME Init PROVE ThrottleInv
  OBVIOUS
<1> USE DEF Init, ThrottleInit, NoTick, NoEngage, NoHistory
<1>1. Shapes
  BY DEF Shapes, TickSteps, EngageSteps, History
<1>2. Clocks /\ WindowBounded
  BY DEF Clocks, WindowBounded
<1>3. SkipInv
  BY DEF SkipInv, BeforeLoad
<1>4. QED
  BY <1>1, <1>2, <1>3 DEF ThrottleInv

\* Time only moves away from the moment a window was computed.
LEMMA ClockKeeps ==
  ASSUME ThrottleInv, Clock
  PROVE  ThrottleInv'
<1> USE DEF ThrottleInv, Clock, AdvanceClock
<1>1. UNCHANGED <<tick, engage, lastTick, thisTick, throttleUntil, skipNext>>
  OBVIOUS
<1>2. Shapes' /\ SkipInv'
  <2>1. Shapes /\ SkipInv
    OBVIOUS
  <2> HIDE DEF Clock, AdvanceClock, ThrottleInv
  <2>2. QED
    BY <1>1, <2>1 DEF Shapes, SkipInv
<1>3. Clocks' /\ WindowBounded'
  BY DEF Clocks, WindowBounded, Shapes
<1>4. QED
  BY <1>2, <1>3

\* A tick starts with nothing read yet.
LEMMA TickBeginsKeeps ==
  ASSUME ThrottleInv, TickBegins
  PROVE  ThrottleInv'
<1> USE DEF ThrottleInv, TickBegins, BeginTick
<1>1. Shapes'
  <2>1. /\ tick' \in [pc : TickSteps, until : Nat, skip : BOOLEAN]
        /\ UNCHANGED <<engage, lastTick, thisTick>>
    BY DEF Shapes, TickSteps
  <2>2. QED
    BY <2>1 DEF Shapes
<1>2. Clocks' /\ WindowBounded'
  BY DEF Clocks, WindowBounded
<1>3. SkipInv'
  BY DEF SkipInv, BeforeLoad, Shapes
<1>4. QED
  BY <1>1, <1>2, <1>3

\* Inside shouldSkipTick: a deadline is only ever cleared, and the flag set
\* only by a tick that goes on to scrape.
LEMMA TickRunsKeeps ==
  ASSUME ThrottleInv, TickRuns
  PROVE  ThrottleInv'
<1> USE DEF ThrottleInv, TickRuns
<1>1. UNCHANGED <<now, engage, lastTick>> /\ (throttleUntil' = throttleUntil \/ throttleUntil' = 0)
  BY Zenon DEF TickStep, TickLoadUntil, TickReadClock, TickClearUntil, TickClearSkip, TickLoadSkip,
    TickStoreSkip
<1>2. Clocks' /\ WindowBounded'
  BY <1>1 DEF Clocks, WindowBounded
<1>3. thisTick' \in History
  BY DEF Shapes, History
<1>4. Shapes' /\ SkipInv'
  <2> USE DEF Shapes, SkipInv, BeforeLoad, TickSteps, Clocks
  <2>1. CASE TickLoadUntil
    BY <1>1, <1>3, <2>1 DEF TickLoadUntil
  <2>2. CASE TickReadClock
    BY <1>1, <1>3, <2>2 DEF TickReadClock
  <2>3. CASE TickClearUntil
    BY <1>1, <1>3, <2>3 DEF TickClearUntil
  <2>4. CASE TickClearSkip
    BY <1>1, <1>3, <2>4 DEF TickClearSkip
  <2>5. CASE TickLoadSkip
    BY <1>1, <1>3, <2>5 DEF TickLoadSkip
  <2>6. CASE TickStoreSkip
    BY <1>1, <1>3, <2>6 DEF TickStoreSkip
  <2>7. QED
    BY <2>1, <2>2, <2>3, <2>4, <2>5, <2>6 DEF TickStep
<1>5. QED
  BY <1>2, <1>4

\* The end of a tick records whether it was skipped.
LEMMA TickEndsKeeps ==
  ASSUME ThrottleInv, TickEnds
  PROVE  ThrottleInv'
<1> USE DEF ThrottleInv, TickEnds, EndTick, NoTick
<1>1. Shapes'
  <2>1. tick' \in [pc : TickSteps, until : Nat, skip : BOOLEAN] /\ UNCHANGED engage
    BY DEF TickSteps
  <2>2. lastTick' \in History /\ thisTick' \in History
    BY DEF Shapes, NoHistory, History
  <2>3. QED
    BY <2>1, <2>2 DEF Shapes
<1>2. Clocks' /\ WindowBounded'
  BY DEF Clocks, WindowBounded
<1>3. SkipInv'
  <2>1. lastTick'.skipped => tick.pc = "skip"
    BY DEF Shapes, History
  <2>2. tick'.pc = "idle" /\ skipNext' = skipNext
    OBVIOUS
  <2>3. QED
    BY <2>1, <2>2 DEF SkipInv
<1>4. QED
  BY <1>1, <1>2, <1>3

\* The sender's side only moves the deadline to one computed from the clock,
\* and only clears the flag.
LEMMA QuotaDroppedKeeps ==
  ASSUME ThrottleInv, QuotaDropped
  PROVE  ThrottleInv'
<1> USE DEF ThrottleInv, QuotaDropped, BeginEngage, EngageReadClock, EngageSwap,
            EngageResetSkip, EndEngage, NoEngage
<1>1. UNCHANGED <<now, tick, lastTick, thisTick>> /\ (skipNext' = skipNext \/ skipNext' = FALSE)
  BY Zenon DEF EngageStep
<1>2. SkipInv'
  BY <1>1 DEF SkipInv
<1>3. Shapes' /\ Clocks' /\ WindowBounded'
  <2> USE DEF Shapes, Clocks, WindowBounded, EngageSteps
  <2>1. CASE BeginEngage
    BY <2>1
  <2>2. CASE EngageReadClock
    BY <2>2
  <2>3. CASE EngageSwap
    BY <2>3
  <2>4. CASE EngageResetSkip
    BY <2>4
  <2>5. CASE EndEngage
    BY <2>5
  <2>6. QED
    BY <2>1, <2>2, <2>3, <2>4, <2>5 DEF EngageStep
<1>4. QED
  BY <1>2, <1>3

\* No step of the two functions or of the clock breaks the throttle invariant.
LEMMA ThrottleInvStep == ThrottleInv /\ [Next]_vars => ThrottleInv'
<1> SUFFICES ASSUME ThrottleInv, [Next]_vars PROVE ThrottleInv'
  OBVIOUS
<1>1. CASE UNCHANGED vars
  BY <1>1 DEF vars, throttleVars, ThrottleInv, Shapes, Clocks, WindowBounded, SkipInv
<1>2. QED
  BY <1>1, ClockKeeps, TickBeginsKeeps, TickRunsKeeps, TickEndsKeeps, QuotaDroppedKeeps DEF Next

\* The throttle invariant holds in every state of the two racing functions.
THEOREM ThrottleInvHolds == Spec => []ThrottleInv
BY ThrottleInvInit, ThrottleInvStep, PTL DEF Spec

\* Of two consecutive ticks at least one scrapes, whatever the sender stores.
THEOREM ThrottleNeverSilences == Spec => []NoTwoSkips
<1>1. ThrottleInv => NoTwoSkips
  BY DEF ThrottleInv, SkipInv, NoTwoSkips
<1>2. QED
  BY <1>1, ThrottleInvHolds, PTL

\* No number of re-engagements makes a window longer than ThrottleDuration.
THEOREM WindowsDoNotAddUp == Spec => []WindowBounded
<1>1. ThrottleInv => WindowBounded
  BY DEF ThrottleInv
<1>2. QED
  BY <1>1, ThrottleInvHolds, PTL

-----------------------------------------------------------------------------
(* The alternation *)

\* A window that was seen stays open, and no reset of the flag is on its way.
WindowStaysOpen == throttleUntil # 0 /\ engage.pc # "resetSkip"

\* The tick that runs: it is live from the moment it read the flag, it found no
\* pending reset, and if it scrapes it has set the flag.
ThisTickInv ==
  /\ tick.pc \in {"idle", "loadUntil"} => ~thisTick.settled
  /\ tick.pc \in BeforeLoad => ~thisTick.live
  /\ thisTick.settled /\ tick.pc \in {"readClock", "loadSkip", "storeSkip"} => WindowStaysOpen
  /\ thisTick.settled /\ thisTick.live => WindowStaysOpen /\ (tick.pc = "scrape" => skipNext)

\* After a settled tick that scraped in a live window the flag stays set until
\* the next tick reads it, unless that tick finds the window expired.
Alternating == lastTick.scraped /\ lastTick.live /\ lastTick.settled
LastTickInv ==
  Alternating =>
    /\ tick.pc \in {"idle", "loadUntil", "readClock", "loadSkip"} => WindowStaysOpen /\ skipNext
    /\ tick.pc = "storeSkip" => tick.skip
    /\ tick.pc = "scrape" => ~thisTick.live

AlternationInv ==
  /\ engage.pc = "swap" => engage.deadline # 0
  /\ ThisTickInv
  /\ LastTickInv

\* There is no history at the start.
LEMMA AlternationInit == Init => AlternationInv
BY DEF Init, ThrottleInit, NoTick, NoEngage, NoHistory, AlternationInv, ThisTickInv, LastTickInv,
  Alternating, BeforeLoad

\* The tick clears the window and the flag only after it found the window
\* expired, and then it is not live.
LEMMA TickKeepsAlternation ==
  ASSUME ThrottleInv, AlternationInv, TickRuns
  PROVE  AlternationInv'
<1> USE DEF ThrottleInv, Shapes, AlternationInv, ThisTickInv, LastTickInv, Alternating,
            WindowStaysOpen, BeforeLoad
<1>1. UNCHANGED <<now, engage, lastTick>> /\ thisTick \in History
  BY Zenon DEF TickRuns, TickStep, TickLoadUntil, TickReadClock, TickClearUntil, TickClearSkip,
    TickLoadSkip, TickStoreSkip
<1>2. /\ thisTick'.settled = IF tick.pc = "loadUntil" THEN engage.pc # "resetSkip"
                             ELSE thisTick.settled
      /\ thisTick'.live = (thisTick.live \/ tick.pc = "loadSkip")
  BY <1>1 DEF TickRuns, History
<1>3. tick \in [pc : TickSteps, until : Nat, skip : BOOLEAN] /\ skipNext \in BOOLEAN
  OBVIOUS
<1>4. CASE TickLoadUntil
  BY <1>1, <1>2, <1>3, <1>4 DEF TickLoadUntil
<1>5. CASE TickReadClock
  BY <1>1, <1>2, <1>3, <1>5 DEF TickReadClock
<1>6. CASE TickClearUntil
  BY <1>1, <1>2, <1>3, <1>6 DEF TickClearUntil
<1>7. CASE TickClearSkip
  BY <1>1, <1>2, <1>3, <1>7 DEF TickClearSkip
<1>8. CASE TickLoadSkip
  BY <1>1, <1>2, <1>3, <1>8 DEF TickLoadSkip
<1>9. CASE TickStoreSkip
  BY <1>1, <1>2, <1>3, <1>9 DEF TickStoreSkip
<1>10. QED
  BY <1>4, <1>5, <1>6, <1>7, <1>8, <1>9 DEF TickRuns, TickStep

\* A tick that ends hands its history on with the flag as it left it.
LEMMA TickEndKeepsAlternation ==
  ASSUME ThrottleInv, AlternationInv, TickEnds
  PROVE  AlternationInv'
<1>1. UNCHANGED <<throttleUntil, skipNext, engage>> /\ tick'.pc = "idle"
  BY DEF TickEnds, EndTick, NoTick
<1>2. ~thisTick'.settled /\ ~thisTick'.live
  BY DEF TickEnds, NoHistory
<1>3. /\ lastTick'.scraped => tick.pc = "scrape"
      /\ lastTick'.live = thisTick.live /\ lastTick'.settled = thisTick.settled
  BY DEF TickEnds, ThrottleInv, Shapes, History
<1>4. QED
  BY <1>1, <1>2, <1>3 DEF AlternationInv, ThisTickInv, LastTickInv, Alternating, WindowStaysOpen

\* Re-engaging over an open window resets nothing.
LEMMA QuotaKeepsAlternation ==
  ASSUME ThrottleInv, AlternationInv, QuotaDropped
  PROVE  AlternationInv'
<1> USE DEF ThrottleInv, Shapes, Clocks, AlternationInv, ThisTickInv, LastTickInv, Alternating,
            WindowStaysOpen
<1>1. UNCHANGED <<now, tick, lastTick, thisTick>>
  BY Zenon DEF QuotaDropped, BeginEngage, EngageStep, EngageReadClock, EngageSwap,
    EngageResetSkip, EndEngage
<1>2. CASE BeginEngage
  BY <1>1, <1>2 DEF BeginEngage
<1>3. CASE EngageReadClock
  BY <1>1, <1>3 DEF EngageReadClock
<1>4. CASE EngageSwap
  BY <1>1, <1>4 DEF EngageSwap
<1>5. CASE EngageResetSkip
  BY <1>1, <1>5 DEF EngageResetSkip
<1>6. CASE EndEngage
  BY <1>1, <1>6 DEF EndEngage, NoEngage
<1>7. QED
  BY <1>2, <1>3, <1>4, <1>5, <1>6 DEF QuotaDropped, EngageStep

\* The clock and the start of a tick touch neither the flag nor the window.
LEMMA AlternationStep == ThrottleInv /\ AlternationInv /\ [Next]_vars => AlternationInv'
<1> SUFFICES ASSUME ThrottleInv, AlternationInv, [Next]_vars PROVE AlternationInv'
  OBVIOUS
<1> USE DEF AlternationInv, ThisTickInv, LastTickInv, Alternating, WindowStaysOpen, BeforeLoad
<1>1. CASE Clock
  BY <1>1 DEF Clock, AdvanceClock
<1>2. CASE TickBegins
  BY <1>2 DEF TickBegins, BeginTick, ThrottleInv, Shapes
<1>3. CASE UNCHANGED vars
  BY <1>3 DEF vars, throttleVars
<1>4. QED
  BY <1>1, <1>2, <1>3, TickKeepsAlternation, TickEndKeepsAlternation, QuotaKeepsAlternation
  DEF Next

\* In a live window every other tick scrapes, however often the sender
\* re-engages the throttle while the window is open.
THEOREM RateIsHalved == Spec => []LiveTicksAlternate
<1>1. AlternationInv => LiveTicksAlternate
  BY DEF AlternationInv, LastTickInv, Alternating, LiveTicksAlternate
<1>2. QED
  BY <1>1, ThrottleInvHolds, AlternationInit, AlternationStep, PTL DEF Spec
-----------------------------------------------------------------------------
(* Against the scrape interval *)

TickIdle == tick.pc = "idle"
EngageIdle == engage.pc = "idle"

TimedShapes ==
  /\ tick \in [pc : TickSteps, until : Nat, skip : BOOLEAN]
  /\ engage \in [pc : EngageSteps, deadline : Nat]
  /\ skipNext \in BOOLEAN /\ engaged \in BOOLEAN /\ lastScraped \in BOOLEAN
  /\ now \in Nat \ {0} /\ nextTick \in Nat /\ reply \in Nat /\ throttleUntil \in Nat

\* A tick runs at its moment, an engagement strictly between two ticks, and the
\* reply to a scrape comes before the next tick.
Pace ==
  /\ nextTick - Interval <= now /\ now <= nextTick
  /\ reply # 0 => now <= reply /\ nextTick - Interval < reply /\ reply < nextTick
  /\ ~EngageIdle => /\ reply = 0 /\ TickIdle /\ engaged
                    /\ nextTick - Interval < now /\ now < nextTick
  /\ ~TickIdle => engaged /\ reply = 0 /\ EngageIdle /\ now = nextTick - Interval

\* Before the first engagement the throttle is untouched: the first tick comes
\* after the first reply.
Untouched ==
  ~engaged => reply # 0 /\ throttleUntil = 0 /\ ~skipNext /\ ~lastScraped

\* After the reply to a scrape the window reaches past the next two ticks; after
\* a skipped tick it still reaches past the next one.
BetweenTicks ==
  engaged /\ TickIdle /\ EngageIdle =>
    /\ skipNext = lastScraped
    /\ reply # 0 => lastScraped
    /\ throttleUntil # 0
    /\ reply = 0 => throttleUntil > nextTick
    /\ reply = 0 /\ lastScraped => throttleUntil > nextTick + Interval

\* The engagement sets such a window.  Only the very first resets the flag,
\* which is then FALSE already.
Engaging ==
  /\ engage.pc \in {"readClock", "swap"} =>
       skipNext = lastScraped /\ (lastScraped <=> throttleUntil # 0)
  /\ engage.pc = "swap" => engage.deadline = now + ThrottleDuration
  /\ engage.pc = "resetSkip" => ~lastScraped
  /\ engage.pc \in {"resetSkip", "returned"} =>
       skipNext = lastScraped /\ throttleUntil > nextTick + Interval

\* So every tick finds the window open and flips the flag.
Ticking ==
  ~TickIdle =>
    /\ throttleUntil > now
    /\ lastScraped => throttleUntil > now + Interval
    /\ tick.pc \notin {"clearUntil", "clearSkip"}
    /\ tick.pc \in {"loadUntil", "readClock", "loadSkip", "storeSkip"} => skipNext = lastScraped
    /\ tick.pc = "readClock" => tick.until = throttleUntil
    /\ tick.pc = "storeSkip" => tick.skip = lastScraped
    /\ tick.pc = "scrape" => ~lastScraped /\ skipNext
    /\ tick.pc = "skip" => lastScraped /\ ~skipNext

PaceInv == TimedShapes /\ Pace /\ Untouched /\ BetweenTicks /\ Engaging /\ Ticking

\* The ticker and the first reply start a moment apart.
LEMMA PaceInvInit == TimedInit => PaceInv
<1> SUFFICES ASSUME TimedInit PROVE PaceInv
  OBVIOUS
<1>1. PICK d \in Latencies : reply = 1 + d
  BY DEF TimedInit
<1>2. d \in Nat /\ 1 <= d /\ d < Interval /\ Interval \in Nat
  BY TimedAssumption
<1>3. /\ now = 1 /\ throttleUntil = 0 /\ skipNext = FALSE /\ nextTick = 1 + Interval
      /\ tick = NoTick /\ engage = NoEngage /\ engaged = FALSE /\ lastScraped = FALSE
  BY DEF TimedInit, ThrottleInit
<1>4. tick.pc = "idle" /\ engage.pc = "idle"
  BY <1>3 DEF NoTick, NoEngage
<1>5. TimedShapes
  <2>1. /\ tick \in [pc : TickSteps, until : Nat, skip : BOOLEAN]
        /\ engage \in [pc : EngageSteps, deadline : Nat]
    BY <1>3 DEF NoTick, NoEngage, TickSteps, EngageSteps
  <2>2. skipNext \in BOOLEAN /\ engaged \in BOOLEAN /\ lastScraped \in BOOLEAN
    BY Zenon, <1>3
  <2>3. now \in Nat \ {0} /\ nextTick \in Nat /\ reply \in Nat /\ throttleUntil \in Nat
    BY <1>1, <1>2, <1>3
  <2>4. QED
    BY Zenon, <2>1, <2>2, <2>3 DEF TimedShapes
<1>6. Pace /\ Untouched /\ BetweenTicks /\ Engaging /\ Ticking
  BY <1>1, <1>2, <1>3, <1>4 DEF Pace, Untouched, BetweenTicks, Engaging, Ticking,
    TickIdle, EngageIdle
<1>7. QED
  BY <1>5, <1>6 DEF PaceInv

\* A tick starts at its moment with an open window.
LEMMA TickFiresKeepsPace ==
  ASSUME PaceInv, TickFires
  PROVE  PaceInv'
<1>1. /\ now = nextTick /\ nextTick' = nextTick + Interval
      /\ tick.pc = "idle" /\ tick' = [tick EXCEPT !.pc = "loadUntil"]
      /\ UNCHANGED <<now, throttleUntil, skipNext, engage, reply, engaged, lastScraped>>
  BY DEF TickFires, BeginTick
<1>2. tick' \in [pc : TickSteps, until : Nat, skip : BOOLEAN] /\ tick'.pc = "loadUntil"
  BY <1>1 DEF PaceInv, TimedShapes, TickSteps
<1>3. TimedShapes'
  BY <1>1, <1>2, TimedAssumption DEF PaceInv, TimedShapes
<1>4. engage.pc = "idle" /\ engaged /\ reply = 0
  BY <1>1 DEF PaceInv, Pace, Untouched, TickIdle, EngageIdle, TimedShapes
<1>5. Pace' /\ Untouched' /\ BetweenTicks' /\ Engaging'
  BY <1>1, <1>2, <1>4, TimedAssumption DEF PaceInv, Pace, Untouched, BetweenTicks, Engaging,
    TickIdle, EngageIdle, TimedShapes
<1>6. Ticking'
  BY <1>1, <1>2, <1>4, TimedAssumption DEF PaceInv, BetweenTicks, Ticking, TickIdle,
    EngageIdle, TimedShapes
<1>7. QED
  BY <1>3, <1>5, <1>6 DEF PaceInv

\* The tick never finds the window expired, so it only flips the flag.
LEMMA TickProceedsKeepsPace ==
  ASSUME PaceInv, TickProceeds
  PROVE  PaceInv'
<1> USE DEF PaceInv
<1>1. ~TickIdle /\ UNCHANGED <<now, engage, nextTick, reply, engaged, lastScraped>>
  BY DEF TickProceeds, TickStep, TickLoadUntil, TickReadClock, TickClearUntil, TickClearSkip,
    TickLoadSkip, TickStoreSkip, paceVars, TickIdle
<1>2. UNCHANGED throttleUntil /\ tick.pc \notin {"clearUntil", "clearSkip"}
  BY <1>1 DEF TickProceeds, TickStep, TickLoadUntil, TickReadClock, TickClearUntil,
    TickClearSkip, TickLoadSkip, TickStoreSkip, Ticking
<1>3. tick \in [pc : TickSteps, until : Nat, skip : BOOLEAN] /\ skipNext \in BOOLEAN
      /\ throttleUntil \in Nat /\ now \in Nat \ {0}
  BY DEF TimedShapes
<1>4. /\ tick' \in [pc : TickSteps, until : Nat, skip : BOOLEAN]
      /\ skipNext' \in BOOLEAN
      /\ tick'.pc # "idle"
      /\ Ticking'
  <2> USE <1>1, <1>2, <1>3 DEF Ticking, TickIdle, TickSteps
  <2>1. CASE TickLoadUntil
    <3>0. throttleUntil # 0
      OBVIOUS
    <3>1. tick' = [tick EXCEPT !.until = throttleUntil, !.pc = "readClock"] /\ skipNext' = skipNext
      BY Zenon, <2>1, <3>0 DEF TickLoadUntil
    <3>2. tick' \in [pc : TickSteps, until : Nat, skip : BOOLEAN]
          /\ tick'.pc = "readClock" /\ tick'.until = throttleUntil
      BY <3>1
    <3>3. tick.pc = "loadUntil"
      BY <2>1 DEF TickLoadUntil
    <3>4. QED
      BY <3>1, <3>2, <3>3
  <2>2. CASE TickReadClock
    BY <2>2 DEF TickReadClock
  <2>3. CASE TickLoadSkip
    BY <2>3 DEF TickLoadSkip
  <2>4. CASE TickStoreSkip
    BY <2>4 DEF TickStoreSkip
  <2>5. QED
    BY <2>1, <2>2, <2>3, <2>4 DEF TickProceeds, TickStep, TickClearUntil, TickClearSkip
<1>5. TimedShapes'
  BY <1>1, <1>2, <1>4 DEF TimedShapes
<1>6. Pace' /\ Untouched' /\ BetweenTicks' /\ Engaging'
  BY <1>1, <1>2, <1>4 DEF Pace, Untouched, BetweenTicks, Engaging, TickIdle, EngageIdle
<1>7. QED
  BY <1>4, <1>5, <1>6

\* A scrape's reply comes before the next tick; a skipped tick leaves the
\* window open for that one.
LEMMA TickReturnsKeepsPace ==
  ASSUME PaceInv, TickReturns
  PROVE  PaceInv'
<1> USE DEF PaceInv
<1>1. /\ tick.pc \in {"scrape", "skip"} /\ tick' = NoTick
      /\ UNCHANGED <<now, throttleUntil, skipNext, engage, nextTick, engaged>>
      /\ lastScraped' = (engaged /\ tick.pc = "scrape")
  BY DEF TickReturns, EndTick
<1>2. tick' \in [pc : TickSteps, until : Nat, skip : BOOLEAN] /\ tick'.pc = "idle"
  BY <1>1 DEF NoTick, TickSteps
<1>3. /\ engaged /\ reply = 0 /\ engage.pc = "idle" /\ now = nextTick - Interval
      /\ throttleUntil > now
      /\ lastScraped => throttleUntil > now + Interval
      /\ tick.pc = "scrape" => ~lastScraped /\ skipNext
      /\ tick.pc = "skip" => lastScraped /\ ~skipNext
  BY <1>1 DEF Pace, Ticking, TickIdle, EngageIdle
<1>4. /\ now \in Nat \ {0} /\ nextTick \in Nat /\ throttleUntil \in Nat /\ Interval \in Nat
      /\ skipNext \in BOOLEAN
  BY TimedAssumption DEF TimedShapes
<1>5. CASE tick.pc = "scrape"
  <2>1. PICK d \in Latencies : reply' = now + d
    BY <1>5 DEF TickReturns
  <2>2. d \in Nat /\ 1 <= d /\ d < Interval
    BY TimedAssumption
  <2>3. TimedShapes'
    BY <1>1, <1>2, <1>4, <2>1, <2>2 DEF TimedShapes
  <2>4. Pace'
    BY <1>1, <1>2, <1>3, <1>4, <2>1, <2>2 DEF Pace, TickIdle, EngageIdle
  <2>5. reply' # 0 /\ lastScraped' /\ throttleUntil # 0
    <3>1. reply' # 0 /\ throttleUntil # 0
      BY <1>3, <1>4, <2>1, <2>2
    <3>2. lastScraped'
      BY Zenon, <1>1, <1>3, <1>5
    <3>3. QED
      BY <3>1, <3>2
  <2>6. Untouched' /\ BetweenTicks' /\ Engaging' /\ Ticking'
    BY <1>1, <1>2, <1>3, <1>5, <2>5 DEF Untouched, BetweenTicks, Engaging, Ticking,
      TickIdle, EngageIdle
  <2>7. QED
    BY <2>3, <2>4, <2>6
<1>6. CASE tick.pc = "skip"
  <2>1. reply' = reply
    BY <1>6 DEF TickReturns
  <2>2. TimedShapes'
    BY <1>1, <1>2, <2>1 DEF TimedShapes
  <2>3. Pace' /\ Untouched' /\ BetweenTicks' /\ Engaging' /\ Ticking'
    BY <1>1, <1>2, <1>3, <1>4, <1>6, <2>1, TimedAssumption DEF Pace, Untouched, BetweenTicks,
      Engaging, Ticking, TickIdle, EngageIdle
  <2>4. QED
    BY <2>2, <2>3
<1>7. QED
  BY <1>1, <1>5, <1>6

\* The sender starts to engage between two ticks, with no scrape outstanding.
LEMMA ReplyKeepsPace ==
  ASSUME PaceInv, ReplyDropsQuota
  PROVE  PaceInv'
<1> USE DEF PaceInv
<1>1. /\ now = reply /\ reply' = 0 /\ engaged' = TRUE
      /\ engage.pc = "idle" /\ engage' = [engage EXCEPT !.pc = "readClock"]
      /\ UNCHANGED <<now, throttleUntil, skipNext, tick, nextTick, lastScraped>>
  BY DEF ReplyDropsQuota, BeginEngage
<1>2. engage' \in [pc : EngageSteps, deadline : Nat] /\ engage'.pc = "readClock"
  BY <1>1 DEF TimedShapes, EngageSteps
<1>3. /\ tick.pc = "idle" /\ reply # 0
      /\ nextTick - Interval < now /\ now < nextTick
  BY <1>1 DEF TimedShapes, Pace, TickIdle
<1>4. skipNext = lastScraped /\ (lastScraped <=> throttleUntil # 0)
  BY <1>1, <1>3 DEF TimedShapes, Untouched, BetweenTicks, TickIdle, EngageIdle
<1>5. TimedShapes'
  BY <1>1, <1>2 DEF TimedShapes
<1>6. Pace' /\ Untouched' /\ BetweenTicks' /\ Engaging' /\ Ticking'
  BY <1>1, <1>2, <1>3, <1>4, TimedAssumption DEF TimedShapes, Pace, Untouched, BetweenTicks,
    Engaging, Ticking, TickIdle, EngageIdle
<1>7. QED
  BY <1>5, <1>6

\* The window set between two ticks outlasts the next two.
LEMMA EngageKeepsPace ==
  ASSUME 2 * Interval <= ThrottleDuration, PaceInv, EngageRuns
  PROVE  PaceInv'
<1> USE DEF PaceInv
<1>1. /\ ~EngageIdle
      /\ UNCHANGED <<now, tick, nextTick, reply, engaged, lastScraped>>
  BY DEF EngageRuns, EngageStep, EngageReadClock, EngageSwap, EngageResetSkip, EndEngage,
    paceVars, EngageIdle
<1>2. /\ reply = 0 /\ tick.pc = "idle" /\ engaged
      /\ nextTick - Interval < now /\ now < nextTick
  BY <1>1 DEF Pace, TickIdle
<1>3. /\ engage \in [pc : EngageSteps, deadline : Nat]
      /\ now \in Nat \ {0} /\ nextTick \in Nat /\ throttleUntil \in Nat
      /\ Interval \in Nat /\ ThrottleDuration \in Nat
      /\ skipNext \in BOOLEAN /\ lastScraped \in BOOLEAN
  BY TimedAssumption DEF TimedShapes
<1> USE DEF EngageSteps
<1>4. /\ engage' \in [pc : EngageSteps, deadline : Nat]
      /\ throttleUntil' \in Nat /\ skipNext' \in BOOLEAN
      /\ Engaging' /\ BetweenTicks'
  <2> USE <1>1, <1>2, <1>3 DEF Engaging, BetweenTicks, TickIdle, EngageIdle
  <2>1. CASE EngageReadClock
    BY <2>1 DEF EngageReadClock
  <2>2. CASE EngageSwap
    BY <2>2 DEF EngageSwap
  <2>3. CASE EngageResetSkip
    BY <2>3 DEF EngageResetSkip
  <2>4. CASE EndEngage
    BY <2>4 DEF EndEngage, NoEngage
  <2>5. QED
    BY <2>1, <2>2, <2>3, <2>4 DEF EngageRuns, EngageStep
<1>5. TimedShapes'
  BY <1>1, <1>4 DEF TimedShapes
<1>6. Pace' /\ Untouched' /\ Ticking'
  BY <1>1, <1>2 DEF Pace, Untouched, Ticking, TickIdle, EngageIdle
<1>7. QED
  BY <1>4, <1>5, <1>6

\* Time stops for a tick and for a reply.
LEMMA ClockKeepsPace ==
  ASSUME PaceInv, ClockRuns
  PROVE  PaceInv'
<1> USE DEF PaceInv
<1>1. /\ tick.pc = "idle" /\ engage.pc = "idle" /\ now # nextTick /\ now # reply
      /\ now' = now + 1
      /\ UNCHANGED <<throttleUntil, skipNext, tick, engage, nextTick, reply, engaged, lastScraped>>
  BY DEF ClockRuns, AdvanceClock, paceVars
<1>2. TimedShapes'
  BY <1>1 DEF TimedShapes
<1>3. Pace'
  BY <1>1, TimedAssumption DEF TimedShapes, Pace, TickIdle, EngageIdle
<1>4. Untouched' /\ BetweenTicks' /\ Engaging' /\ Ticking'
  BY <1>1 DEF Untouched, BetweenTicks, Engaging, Ticking, TickIdle, EngageIdle
<1>5. QED
  BY <1>2, <1>3, <1>4

\* While the server keeps dropping samples, no two ticks in a row scrape, for
\* every scrape interval that fits twice into the throttle's duration and
\* whatever time the replies take.
THEOREM SustainedQuotaHalves ==
  ASSUME 2 * Interval <= ThrottleDuration
  PROVE  TimedSpec => []SustainedQuotaHalvesRate
<1>1. PaceInv /\ [TimedNext]_timedVars => PaceInv'
  <2> SUFFICES ASSUME PaceInv, [TimedNext]_timedVars PROVE PaceInv'
    OBVIOUS
  <2>1. CASE Finished \/ UNCHANGED timedVars
    <3>1. /\ UNCHANGED <<now, throttleUntil, skipNext, tick, engage>>
          /\ UNCHANGED <<nextTick, reply, engaged, lastScraped>>
      BY <2>1 DEF Finished, timedVars, throttleVars, paceVars
    <3>2. QED
      BY <3>1 DEF PaceInv, TimedShapes, Pace, Untouched, BetweenTicks, Engaging, Ticking,
        TickIdle, EngageIdle
  <2>2. QED
    BY <2>1, TickFiresKeepsPace, TickProceedsKeepsPace, TickReturnsKeepsPace, ReplyKeepsPace,
      EngageKeepsPace, ClockKeepsPace DEF TimedNext
<1>2. PaceInv => SustainedQuotaHalvesRate
  BY DEF PaceInv, Ticking, TickIdle, SustainedQuotaHalvesRate
<1>3. QED
  BY <1>1, <1>2, PaceInvInit, PTL DEF TimedSpec
=============================================================================
