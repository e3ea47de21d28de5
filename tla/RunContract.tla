---------------------------- MODULE RunContract -----------------------------
(***************************************************************************)
(* What main is promised by Scheduler.Run, whatever the queue, the sink    *)
(* and the throttle do: it works until a signal or a fatal reply, then     *)
(* stops, and returns the fatal error exactly when there was a fatal       *)
(* reply, even one that came while it was stopping.                        *)
(***************************************************************************)
VARIABLES phase,             \* "running", "stopping" or "returned"
          signalled,         \* the context given to Run was cancelled
          fatal,             \* the sink returned ErrFatal
          result             \* "none", "nil" or "fatal"

contractVars == <<phase, signalled, fatal, result>>

Init ==
  /\ phase = "running"
  /\ signalled = FALSE /\ fatal = FALSE
  /\ result = "none"

Signal ==
  /\ phase # "returned"
  /\ ~signalled
  /\ signalled' = TRUE
  /\ UNCHANGED <<phase, fatal, result>>

FatalReply ==
  /\ phase # "returned"
  /\ ~fatal
  /\ fatal' = TRUE
  /\ UNCHANGED <<phase, signalled, result>>

Stop ==
  /\ phase = "running"
  /\ signalled \/ fatal
  /\ phase' = "stopping"
  /\ UNCHANGED <<signalled, fatal, result>>

Return ==
  /\ phase = "stopping"
  /\ phase' = "returned"
  /\ result' = IF fatal THEN "fatal" ELSE "nil"
  /\ UNCHANGED <<signalled, fatal>>

Next == Signal \/ FatalReply \/ Stop \/ Return

Spec == Init /\ [][Next]_contractVars
=============================================================================
