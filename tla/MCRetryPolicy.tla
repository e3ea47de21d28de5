--------------------------- MODULE MCRetryPolicy ----------------------------
(***************************************************************************)
(* The retry policy for TLC: replies on both sides of every boundary of    *)
(* the status switch, and hints that are missing, unusable, in the past,   *)
(* short, long, and too long for a duration.                               *)
(***************************************************************************)
EXTENDS RetryPolicy

Statuses == {200, 201, 299, 300, 399, 400, 403, 404, 405, 413, 428, 429,
             430, 499, 500, 503, 599}

Hint(form, values) == [form : {form}, value : values]

Hints == Hint("none", {0}) \cup Hint("bad", {0})
         \cup Hint("seconds", {-1, 0, 1, 3, 200, 400, 1500, 2040})
         \cup Hint("date", {-1, 1, 7, 1500})

Reply(faults, statuses, bodies, quotas, hints) ==
  [fault : faults, status : statuses, body : bodies, quota : quotas, hint : hints]

\* Every way a POST can end.
AllReplies ==
  Reply({"none"}, {200, 201}, {"json", "empty", "invalid"}, {0, 1}, {NoHint})
    \cup Reply({"none"}, Statuses \ {200, 201, 429}, {"json"}, {1}, {NoHint})
    \cup Reply({"none"}, {429}, {"empty"}, {0}, Hints)
    \cup Reply({"marshal", "request", "network"}, {0}, {"empty"}, {0}, {NoHint})
=============================================================================
