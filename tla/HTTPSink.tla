------------------------------ MODULE HTTPSink ------------------------------
(***************************************************************************)
(* internal/ingest/http.go: from what a POST meets to what Send returns.   *)
(*                                                                         *)
(* A reply is a record:                                                    *)
(*   fault   "none", or what went wrong before there was a response        *)
(*   status  the HTTP status                                               *)
(*   body    "json", "empty" or "invalid"                                  *)
(*   quota   dropped_quota in a JSON body                                  *)
(*   hint    the Retry-After header: [form, value] with form "none", "bad" *)
(*           (neither form parses), "seconds" or "date" (seconds from now) *)
(*                                                                         *)
(* Durations are signed words from -MaxDuration - 1 to MaxDuration that    *)
(* count 1/Second seconds; Atoi reads integers of the same width, as on a  *)
(* 64-bit build.                                                           *)
(***************************************************************************)
EXTENDS Integers

CONSTANTS Second, MaxDuration

ASSUME DurationAssumption == Second \in Nat \ {0} /\ MaxDuration \in Nat \ {0}

\* A product that does not fit wraps around, as int64 does in Go.
Wrap(n) == ((n + MaxDuration + 1) % (2 * (MaxDuration + 1))) - MaxDuration - 1

\* time.Time.Sub saturates instead.
Saturate(n) == IF n > MaxDuration THEN MaxDuration ELSE n

ParseRetryAfter(hint) ==
  CASE hint.form \in {"none", "bad"} -> 0
    [] hint.form = "seconds" ->
         IF hint.value <= 0 THEN 0 ELSE Wrap(hint.value * Second)
    [] hint.form = "date" ->
         IF hint.value <= 0 THEN 0 ELSE Saturate(hint.value * Second)

\* handleTooMany: without a usable hint, five seconds.
TooManyDelay(hint) ==
  IF ParseRetryAfter(hint) <= 0 THEN 5 * Second ELSE ParseRetryAfter(hint)

\* handleOK: an empty body decodes to zeros, an invalid one is ignored.
QuotaOf(reply) == IF reply.body = "json" THEN reply.quota ELSE 0

Accepted(quota) == [err |-> "nil", quota |-> quota, delay |-> 0]
Plain == [err |-> "plain", quota |-> 0, delay |-> 0]
Fatal == [err |-> "fatal", quota |-> 0, delay |-> 0]
RetryAfter(delay) == [err |-> "retryAfter", quota |-> 0, delay |-> delay]

\* A batch that cannot be encoded is dropped as if sent; a request that cannot
\* be built, the network, the timeout and a cancelled context are plain errors.
Send(reply) ==
  LET status == reply.status
  IN  IF reply.fault = "marshal" THEN Accepted(0)
      ELSE IF reply.fault # "none" THEN Plain
      ELSE CASE status = 200 -> Accepted(QuotaOf(reply))
             [] status = 404 -> Fatal
             [] status = 429 -> RetryAfter(TooManyDelay(reply.hint))
             [] status \in 400..499 \ {404, 429} -> Accepted(0)
             [] status \in 201..299 -> Accepted(0)
             [] OTHER -> Plain
=============================================================================
