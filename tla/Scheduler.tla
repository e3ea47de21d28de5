----------------------------- MODULE Scheduler ------------------------------
(***************************************************************************)
(* internal/scheduler/scheduler.go: Run and its two goroutines, over the   *)
(* Buffer, the Throttle and the Backoff arithmetic.                        *)
(*                                                                         *)
(*   collect loop  scrape, push, wait for a tick or for the end of         *)
(*                 collectCtx                                              *)
(*   send loop     peek the head, Send it, pop it; back off on errors      *)
(*   Run           wait for collectCtx, join the collect loop, drain,      *)
(*                 join the send loop, return                              *)
(*                                                                         *)
(* A step is one atomic access to state that two goroutines share: a       *)
(* critical section of the buffer, an atomic, a channel or context         *)
(* operation.  The sink is internal/ingest, or any other implementation of *)
(* the contract in sink.go: each Send ends in any of its four outcomes.    *)
(***************************************************************************)
EXTENDS Buffer, Throttle, Backoff, FiniteSets

CONSTANTS DrainTimeout,      \* Options.DrainTimeout as the caller passed it
          DefaultDrainTimeout,
          MaxBatches,        \* bound: scrapes that yield a batch
          RetryAfterDelays   \* the hints the server may send with a 429

ASSUME SchedulerAssumption ==
  /\ DrainTimeout \in Int
  /\ DefaultDrainTimeout \in Nat \ {0}
  /\ MaxBatches \in Nat
  /\ RetryAfterDelays \subseteq Nat \ {0}

VARIABLES
  collectPc, sendPc, runPc,  \* where each goroutine is
  collectCancelled,          \* collectCtx is done
  sendCancelled,             \* sendCtx is done
  shutdownSend,              \* the channel is closed
  fatalErr,                  \* the captured sink error is set
  sigterm,                   \* the parent context was cancelled
  drain,                     \* the outcome drainAndStop logs
  result,                    \* what Run returns
  backoff,                   \* sendLoop's back-off
  inflight,                  \* sendLoop's `batch`; 0 before the first
  quota,                     \* the last Send reported dropped_quota
  scrapesOK, batchesSent     \* Stats counters

\* What became of each batch; no code keeps this.
VARIABLES acked,             \* Send returned nil for it
          popped,            \* Pop removed it
          evicted            \* Push removed it to make room

collectVars == <<collectPc, scrapesOK>>
sendVars == <<sendPc, backoff, inflight, quota, batchesSent>>
runVars == <<runPc, drain, result>>
signalVars == <<collectCancelled, sendCancelled, shutdownSend, fatalErr, sigterm>>
ghostVars == <<acked, popped, evicted>>
vars == <<bufferVars, throttleVars, collectVars, sendVars, runVars, signalVars,
          ghostVars>>

\* What the steps of one goroutine leave alone.
sendLocals == <<backoff, inflight, quota, batchesSent>>
otherGhosts == <<acked, popped>>
notCollect == <<sendVars, runVars, signalVars, otherGhosts>>
notSend == <<collectVars, runVars, evicted>>
sendQuiet == <<bufferVars, throttleVars, signalVars, otherGhosts, notSend>>
notRun == <<bufferVars, throttleVars, collectVars, sendVars, ghostVars>>

\* New: zero asks for the default, a negative timeout for no drain at all.
EffectiveDrain(requested) ==
  CASE requested = 0 -> DefaultDrainTimeout
    [] requested < 0 -> 0
    [] requested > 0 -> requested

DrainEnabled == EffectiveDrain(DrainTimeout) > 0

CollectSteps == {"scrape", "push", "signal", "select", "tick", "done"}
SendSteps == {"top", "peek", "idle", "recheck", "send", "pop", "count", "engage",
              "sleep", "setFatal", "cancelCollect", "cancelSend", "done"}
RunSteps == {"wait", "join", "check", "drain", "draining", "cancel", "joinSend",
             "return", "returned"}

Init ==
  /\ BufferInit
  /\ ThrottleInit
  /\ collectPc = "scrape" /\ sendPc = "top" /\ runPc = "wait"
  /\ collectCancelled = FALSE /\ sendCancelled = FALSE /\ shutdownSend = FALSE
  /\ fatalErr = FALSE /\ sigterm = FALSE
  /\ drain = "none" /\ result = "none"
  /\ backoff = 0 /\ inflight = 0 /\ quota = FALSE
  /\ scrapesOK = 0 /\ batchesSent = 0
  /\ acked = {} /\ popped = {} /\ evicted = {}

-----------------------------------------------------------------------------
(* collectLoop and scrapeOnce *)

\* A scrape with at least one sample: counted, then pushed.
ScrapeBatch ==
  /\ collectPc = "scrape"
  /\ scrapesOK < MaxBatches
  /\ scrapesOK' = scrapesOK + 1
  /\ collectPc' = "push"
  /\ UNCHANGED <<bufferVars, throttleVars, evicted, notCollect>>

\* Every collector failed: nothing is pushed.
ScrapeEmpty ==
  /\ collectPc = "scrape"
  /\ collectPc' = "select"
  /\ UNCHANGED <<bufferVars, throttleVars, scrapesOK, evicted, notCollect>>

PushBatch ==
  /\ collectPc = "push"
  /\ PushLocked(scrapesOK)
  /\ evicted' = IF IsFull THEN evicted \cup {Head(items)} ELSE evicted
  /\ collectPc' = "signal"
  /\ UNCHANGED <<throttleVars, scrapesOK, notCollect>>

SignalPush ==
  /\ collectPc = "signal"
  /\ SignalNotify
  /\ collectPc' = "select"
  /\ UNCHANGED <<throttleVars, scrapesOK, evicted, notCollect>>

\* The two branches of the select; with both ready, Go picks either.
CollectStop ==
  /\ collectPc = "select"
  /\ collectCancelled
  /\ collectPc' = "done"
  /\ UNCHANGED <<bufferVars, throttleVars, scrapesOK, evicted, notCollect>>

TickFires ==
  /\ collectPc = "select"
  /\ BeginTick
  /\ collectPc' = "tick"
  /\ UNCHANGED <<bufferVars, scrapesOK, evicted, notCollect>>

ShouldSkipTick ==
  /\ collectPc = "tick"
  /\ TickStep
  /\ UNCHANGED <<bufferVars, collectVars, evicted, notCollect>>

TickReturns ==
  /\ collectPc = "tick"
  /\ EndTick
  /\ collectPc' = IF tick.pc = "skip" THEN "select" ELSE "scrape"
  /\ UNCHANGED <<bufferVars, scrapesOK, evicted, notCollect>>

CollectNext ==
  \/ ScrapeBatch \/ ScrapeEmpty \/ PushBatch \/ SignalPush
  \/ CollectStop \/ TickFires \/ ShouldSkipTick \/ TickReturns

-----------------------------------------------------------------------------
(* sendLoop and the goroutine Run wraps around it *)

\* The non-blocking look at ctx at the top of every iteration.
CheckCtx ==
  /\ sendPc = "top"
  /\ sendPc' = IF sendCancelled THEN "done" ELSE "peek"
  /\ UNCHANGED <<sendLocals, sendQuiet>>

PeekHead ==
  /\ sendPc = "peek"
  /\ inflight' = IF HasBatch THEN PeekBatch ELSE inflight
  /\ sendPc' = IF HasBatch THEN "send" ELSE "idle"
  /\ UNCHANGED <<backoff, quota, batchesSent, sendQuiet>>

\* The three branches of the idle select.
IdleCtxDone ==
  /\ sendPc = "idle"
  /\ sendCancelled
  /\ sendPc' = "done"
  /\ UNCHANGED <<sendLocals, sendQuiet>>

IdleShutdown ==
  /\ sendPc = "idle"
  /\ shutdownSend
  /\ sendPc' = "recheck"
  /\ UNCHANGED <<sendLocals, sendQuiet>>

IdleNotified ==
  /\ sendPc = "idle"
  /\ TakeNotify
  /\ sendPc' = "top"
  /\ UNCHANGED <<sendLocals, throttleVars, signalVars, otherGhosts, notSend>>

\* Mutant: the shutdown branch returns without looking at the queue again.
RecheckPeekMissing ==
  /\ sendPc = "recheck"
  /\ sendPc' = "done"
  /\ UNCHANGED <<sendLocals, sendQuiet>>

\* A final Push may have raced with the close: look at the queue once more.
RecheckPeek ==
  /\ sendPc = "recheck"
  /\ sendPc' = IF HasBatch THEN "top" ELSE "done"
  /\ UNCHANGED <<sendLocals, sendQuiet>>

\* The outcomes of Sink.Send.  The lock is free meanwhile: Push may run.
SendEnds ==
  /\ sendPc = "send"
  /\ UNCHANGED <<inflight, batchesSent, bufferVars, throttleVars, signalVars, popped,
                 notSend>>

SendSucceeds(q) ==
  /\ SendEnds
  /\ acked' = acked \cup {inflight}
  /\ quota' = q
  /\ sendPc' = "pop"
  /\ UNCHANGED backoff

SendFatal ==
  /\ SendEnds
  /\ sendPc' = "setFatal"
  /\ UNCHANGED <<backoff, quota, acked>>

SendRetryAfter(delay) ==
  /\ SendEnds
  /\ backoff' = RetryAfterBackoff(backoff, delay)
  /\ sendPc' = "sleep"
  /\ UNCHANGED <<quota, acked>>

SendFails ==
  /\ SendEnds
  /\ backoff' = NextBackoff(backoff)
  /\ sendPc' = "sleep"
  /\ UNCHANGED <<quota, acked>>

\* The timer of sleepWithJitter, or ctx.Done: the loop goes round either way.
WakeUp ==
  /\ sendPc = "sleep"
  /\ sendPc' = "top"
  /\ UNCHANGED <<sendLocals, sendQuiet>>

PopSent ==
  /\ sendPc = "pop"
  /\ PopHead
  /\ popped' = IF HasBatch THEN popped \cup {Head(items)} ELSE popped
  /\ sendPc' = "count"
  /\ UNCHANGED <<sendLocals, throttleVars, signalVars, acked, notSend>>

CountSent ==
  /\ sendPc = "count"
  /\ batchesSent' = batchesSent + 1
  /\ backoff' = 0
  /\ quota' = FALSE
  /\ IF quota THEN BeginEngage /\ sendPc' = "engage"
              ELSE UNCHANGED throttleVars /\ sendPc' = "top"
  /\ UNCHANGED <<inflight, bufferVars, signalVars, otherGhosts, notSend>>

EngageThrottle ==
  /\ sendPc = "engage"
  /\ EngageStep
  /\ UNCHANGED <<sendVars, bufferVars, signalVars, otherGhosts, notSend>>

EngageReturns ==
  /\ sendPc = "engage"
  /\ EndEngage
  /\ sendPc' = "top"
  /\ UNCHANGED <<sendLocals, bufferVars, signalVars, otherGhosts, notSend>>

\* sendLoop returned ErrFatal: capture it, then yank both contexts.
SetFatal ==
  /\ sendPc = "setFatal"
  /\ fatalErr' = TRUE
  /\ sendPc' = "cancelCollect"
  /\ UNCHANGED <<sendLocals, bufferVars, throttleVars, collectCancelled,
                 sendCancelled, shutdownSend, sigterm, otherGhosts, notSend>>

\* Mutant: a fatal error does not cancel the collect loop.
CancelCollectMissing ==
  /\ sendPc = "cancelCollect"
  /\ sendPc' = "cancelSend"
  /\ UNCHANGED <<sendLocals, sendQuiet>>

CancelCollect ==
  /\ sendPc = "cancelCollect"
  /\ collectCancelled' = TRUE
  /\ sendPc' = "cancelSend"
  /\ UNCHANGED <<sendLocals, bufferVars, throttleVars, sendCancelled,
                 shutdownSend, fatalErr, sigterm, otherGhosts, notSend>>

CancelSend ==
  /\ sendPc = "cancelSend"
  /\ sendCancelled' = TRUE
  /\ sendPc' = "done"
  /\ UNCHANGED <<sendLocals, bufferVars, throttleVars, collectCancelled,
                 shutdownSend, fatalErr, sigterm, otherGhosts, notSend>>

SendReturns ==
  \/ \E q \in BOOLEAN : SendSucceeds(q)
  \/ SendFatal
  \/ \E delay \in RetryAfterDelays : SendRetryAfter(delay)
  \/ SendFails

SendNext ==
  \/ CheckCtx \/ PeekHead \/ IdleCtxDone \/ IdleShutdown \/ IdleNotified \/ RecheckPeek
  \/ SendReturns \/ WakeUp \/ PopSent \/ CountSent \/ EngageThrottle \/ EngageReturns
  \/ SetFatal \/ CancelCollect \/ CancelSend

-----------------------------------------------------------------------------
(* Run and drainAndStop *)

AwaitShutdown ==
  /\ runPc = "wait"
  /\ collectCancelled
  /\ runPc' = "join"
  /\ UNCHANGED <<drain, result, signalVars, notRun>>

\* Mutant: Run does not wait for the collect loop.
JoinCollectMissing ==
  /\ runPc = "join"
  /\ runPc' = "check"
  /\ UNCHANGED <<drain, result, signalVars, notRun>>

JoinCollect ==
  /\ runPc = "join"
  /\ collectPc = "done"
  /\ runPc' = "check"
  /\ UNCHANGED <<drain, result, signalVars, notRun>>

CheckFatal ==
  /\ runPc = "check"
  /\ runPc' = IF ~fatalErr /\ DrainEnabled THEN "drain" ELSE "cancel"
  /\ UNCHANGED <<drain, result, signalVars, notRun>>

CloseShutdown ==
  /\ runPc = "drain"
  /\ shutdownSend' = TRUE
  /\ runPc' = "draining"
  /\ UNCHANGED <<drain, result, collectCancelled, sendCancelled, fatalErr,
                 sigterm, notRun>>

\* The send loop returned before the timer, or both are ready and Go picks it.
DrainComplete ==
  /\ runPc = "draining"
  /\ sendPc = "done"
  /\ drain' = "complete"
  /\ runPc' = "return"
  /\ UNCHANGED <<result, signalVars, notRun>>

DrainDeadline ==
  /\ runPc = "draining"
  /\ drain' = "deadline_exceeded"
  /\ runPc' = "cancel"
  /\ UNCHANGED <<result, signalVars, notRun>>

StopSender ==
  /\ runPc = "cancel"
  /\ sendCancelled' = TRUE
  /\ runPc' = "joinSend"
  /\ UNCHANGED <<drain, result, collectCancelled, shutdownSend, fatalErr, sigterm,
                 notRun>>

JoinSend ==
  /\ runPc = "joinSend"
  /\ sendPc = "done"
  /\ runPc' = "return"
  /\ UNCHANGED <<drain, result, signalVars, notRun>>

\* Mutant: Run returns what it knew before the drain.
ReturnStale ==
  /\ runPc = "return"
  /\ result' = IF fatalErr /\ drain = "none" THEN "fatal" ELSE "nil"
  /\ collectCancelled' = TRUE /\ sendCancelled' = TRUE
  /\ runPc' = "returned"
  /\ UNCHANGED <<drain, shutdownSend, fatalErr, sigterm, notRun>>

\* fatalErr is read again here; the deferred cancels run on the way out.
Return ==
  /\ runPc = "return"
  /\ result' = IF fatalErr THEN "fatal" ELSE "nil"
  /\ collectCancelled' = TRUE /\ sendCancelled' = TRUE
  /\ runPc' = "returned"
  /\ UNCHANGED <<drain, shutdownSend, fatalErr, sigterm, notRun>>

RunNext ==
  \/ AwaitShutdown \/ JoinCollect \/ CheckFatal \/ CloseShutdown
  \/ DrainComplete \/ DrainDeadline \/ StopSender \/ JoinSend \/ Return

-----------------------------------------------------------------------------
(* The environment, and the whole *)

\* SIGTERM or SIGINT: main's context is cancelled, and collectCtx with it.
Sigterm ==
  /\ ~sigterm
  /\ runPc # "returned"
  /\ sigterm' = TRUE
  /\ collectCancelled' = TRUE
  /\ UNCHANGED <<sendCancelled, shutdownSend, fatalErr, runVars, notRun>>

TimePasses ==
  /\ AdvanceClock
  /\ runPc # "returned"
  /\ UNCHANGED <<bufferVars, collectVars, sendVars, runVars, signalVars, ghostVars>>

\* The only state with nothing left to do is the one after Run returned.
Terminated == runPc = "returned" /\ UNCHANGED vars

Next == CollectNext \/ SendNext \/ RunNext \/ Sigterm \/ TimePasses \/ Terminated

Spec == Init /\ [][Next]_vars

\* Every goroutine that can move keeps moving: the Go scheduler runs each of
\* them, Send and every sleep are bounded by their timeouts, and the drain
\* timer fires.  CollectStop needs more: after the end of collectCtx the
\* select may still prefer a ready ticker, but not forever (the ticker is
\* rarely ready, and Go chooses among ready branches at random).
Fairness ==
  /\ WF_vars(CollectNext) /\ SF_vars(CollectStop)
  /\ WF_vars(SendNext)
  /\ WF_vars(RunNext)

FairSpec == Spec /\ Fairness

\* The outage ends: a sink that is asked again and again accepts at last.
SinkRecovers == SF_vars(\E q \in BOOLEAN : SendSucceeds(q))
=============================================================================
