------------------------------ MODULE Backoff -------------------------------
(***************************************************************************)
(* The send loop's back-off arithmetic, internal/scheduler/scheduler.go.   *)
(* Durations are natural numbers of one unit; the unit is chosen by the    *)
(* module that gives the constants their values.                           *)
(***************************************************************************)
EXTENDS Integers

CONSTANTS MinSendBackoff, MaxSendBackoff

ASSUME BackoffAssumption ==
  /\ MinSendBackoff \in Nat \ {0}
  /\ MaxSendBackoff \in Nat
  /\ MinSendBackoff <= MaxSendBackoff

NextBackoff(prev) ==
  CASE prev <= 0                              -> MinSendBackoff
    [] prev > 0 /\ 2 * prev > MaxSendBackoff  -> MaxSendBackoff
    [] prev > 0 /\ 2 * prev <= MaxSendBackoff ->
         IF 2 * prev < MinSendBackoff THEN MinSendBackoff ELSE 2 * prev

\* The 429 branch: the server's hint is a floor under the grown back-off,
\* and the cap is applied last.
RetryAfterBackoff(prev, delay) ==
  LET grown   == NextBackoff(prev)
      floored == IF delay > grown THEN delay ELSE grown
  IN  IF floored > MaxSendBackoff THEN MaxSendBackoff ELSE floored

\* Mutant: full jitter under a Retry-After floor.
HalfJitterFull(base) == 0..base

\* What sleepWithJitter may sleep for a base above zero.
FullJitter(base) == 0..base
HalfJitter(base) == (base \div 2)..(2 * (base \div 2))
=============================================================================
