---------------------------- MODULE RetryPolicy -----------------------------
(***************************************************************************)
(* How long the agent stays silent after each reply: the HTTP sink's       *)
(* verdict, the back-off of sendLoop and the jitter of sleepWithJitter.    *)
(* Only the sender's own state matters here: Scheduler.tla has the rest.   *)
(***************************************************************************)
EXTENDS HTTPSink, Backoff

CONSTANTS Replies,           \* what a POST may meet
          MaxStreak          \* bound: failures in a row that are counted

ASSUME MaxStreakAssumption == MaxStreak \in Nat \ {0}

ASSUME RepliesAssumption ==
  \A r \in Replies : r.hint \in [form : {"none", "bad", "seconds", "date"}, value : Int]

VARIABLES backoff,           \* sendLoop's back-off
          reply,             \* what the last POST met
          outcome,           \* what Send made of it
          asleep,            \* in sleepWithJitter
          slept,             \* for how long
          streak             \* failures in a row, up to MaxStreak

vars == <<backoff, reply, outcome, asleep, slept, streak>>

NoHint == [form |-> "none", value |-> 0]
NoReply == [fault |-> "none", status |-> 200, body |-> "empty", quota |-> 0,
            hint |-> NoHint]

Init ==
  /\ backoff = 0
  /\ reply = NoReply
  /\ outcome = Accepted(0)
  /\ asleep = FALSE
  /\ slept = 0
  /\ streak = 0

Post(r) ==
  /\ ~asleep
  /\ outcome.err # "fatal"
  /\ reply' = r
  /\ outcome' = Send(r)

Succeed(r) ==
  /\ Post(r)
  /\ outcome'.err = "nil"
  /\ backoff' = 0 /\ streak' = 0
  /\ UNCHANGED <<asleep, slept>>

StopAgent(r) ==
  /\ Post(r)
  /\ outcome'.err = "fatal"
  /\ UNCHANGED <<backoff, asleep, slept, streak>>

\* Fall asleep for one of the durations, with one more failure on record.
Sleep(durations) ==
  /\ asleep' = TRUE
  /\ slept' \in durations
  /\ streak' = IF streak < MaxStreak THEN streak + 1 ELSE streak

\* Mutant: the server's hint replaces the grown back-off.
WaitAsToldOnly(r) ==
  /\ Post(r)
  /\ outcome'.err = "retryAfter"
  /\ backoff' = IF outcome'.delay > MaxSendBackoff THEN MaxSendBackoff ELSE outcome'.delay
  /\ Sleep(HalfJitter(backoff'))

WaitAsTold(r) ==
  /\ Post(r)
  /\ outcome'.err = "retryAfter"
  /\ backoff' = RetryAfterBackoff(backoff, outcome'.delay)
  /\ Sleep(HalfJitter(backoff'))

WaitAndRetry(r) ==
  /\ Post(r)
  /\ outcome'.err = "plain"
  /\ backoff' = NextBackoff(backoff)
  /\ Sleep(FullJitter(backoff'))

\* The timer fires; the next iteration remembers only the back-off.
WakeUp ==
  /\ asleep
  /\ asleep' = FALSE /\ slept' = 0
  /\ reply' = NoReply /\ outcome' = Accepted(0)
  /\ UNCHANGED <<backoff, streak>>

\* The send loop has returned ErrFatal.
Stopped == outcome.err = "fatal" /\ UNCHANGED vars

Next ==
  \/ \E r \in Replies : Succeed(r) \/ StopAgent(r) \/ WaitAsTold(r) \/ WaitAndRetry(r)
  \/ WakeUp \/ Stopped

Spec == Init /\ [][Next]_vars

-----------------------------------------------------------------------------

\* A server that keeps answering 429 with a tiny Retry-After is not hammered:
\* after n failures in a row the sleep is at least half of what n doublings
\* give (scheduler.go:609-612, sink.go:105-108).
Doubled[n \in 1..MaxStreak] ==
  IF n = 1 THEN MinSendBackoff
  ELSE IF 2 * Doubled[n - 1] > MaxSendBackoff THEN MaxSendBackoff
  ELSE 2 * Doubled[n - 1]

StreakSlowsDown ==
  outcome.err = "retryAfter" => slept >= Doubled[streak] \div 2

\* What is left of the server's hint: half of it, up to the cap, as long as
\* the number of seconds fits a duration.
HintSeconds == IF reply.hint.form \in {"seconds", "date"} THEN reply.hint.value ELSE 0

HalfTheHintHonoured ==
  outcome.err = "retryAfter" /\ HintSeconds > 0 /\ HintSeconds * Second <= MaxDuration
    => \/ slept >= (HintSeconds * Second) \div 2
       \/ slept >= MaxSendBackoff \div 2
=============================================================================
