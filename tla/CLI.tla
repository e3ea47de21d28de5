--------------------------------- MODULE CLI --------------------------------
(***************************************************************************)
(* cmd/vigil-agent/main.go: what one invocation does with its flags, its   *)
(* configuration and, for --once --send, the server's reply, down to the   *)
(* exit code.  The daemon is followed until its sink is built; Service.tla *)
(* has the rest of its life.                                               *)
(***************************************************************************)
EXTENDS Config, HTTPSink

CONSTANTS Invocations,       \* [command, host]: a command line and what it may
                             \* find, see Config
          Replies            \* what the one POST may meet: see HTTPSink

\* Flags are Booleans; disable_update_check is one in the file too, where any
\* other word is malformed YAML.
ASSUME InvocationsAssumption == \A i \in Invocations :
  /\ i.command.checkConfig \in BOOLEAN /\ i.command.once \in BOOLEAN
  /\ i.command.send \in BOOLEAN
  /\ i.host.flag \in BOOLEAN /\ i.host.envPath \in BOOLEAN
  /\ i.host.file["disable_update_check"] \in {"unset", "true", "false"}

VARIABLES command,
          pc,                \* "parse", "load", "once", "post", "daemon" or "exit"
          code               \* the exit code

vars == <<configVars, command, pc, code>>

OK == "0"
ConfigError == "1"
Runtime == "2"
Usage == "3"

Init ==
  /\ \E i \in Invocations : ConfigInit(i.host) /\ command = i.command
  /\ pc = "parse"
  /\ code = "none"

ExitWith(c) == pc' = "exit" /\ code' = c

-----------------------------------------------------------------------------
(* run *)

BadFlags == command.flags # "good"
BadArgs == command.args \notin {<<>>, <<"run">>}

\* The flag set answers --help with an error as it does a flag it does not know.
UsageError ==
  /\ pc = "parse"
  /\ \/ BadFlags \/ BadArgs
     \/ ~command.version /\ command.logFlags = "bad"
     \/ ~command.version /\ command.send /\ ~command.once /\ ~command.checkConfig
  /\ ExitWith(Usage)
  /\ UNCHANGED <<configVars, command>>

PrintVersion ==
  /\ pc = "parse" /\ ~BadFlags /\ ~BadArgs
  /\ command.version
  /\ ExitWith(OK)
  /\ UNCHANGED <<configVars, command>>

\* --check-config wins over --once; only --once without --send needs no token.
Dispatch ==
  /\ pc = "parse" /\ ~BadFlags /\ ~BadArgs
  /\ ~command.version /\ command.logFlags = "good"
  /\ command.send => command.once \/ command.checkConfig
  /\ LoadWith(command.checkConfig \/ ~command.once \/ command.send)
  /\ pc' = "load"
  /\ UNCHANGED <<command, code>>

Load == pc = "load" /\ LoadStep /\ UNCHANGED <<command, pc, code>>

LoadFails ==
  /\ pc = "load" /\ stage = "failed"
  /\ ExitWith(ConfigError)
  /\ UNCHANGED <<configVars, command>>

CheckConfig ==
  /\ pc = "load" /\ stage = "loaded"
  /\ command.checkConfig
  /\ ExitWith(OK)
  /\ UNCHANGED <<configVars, command>>

\* ingest.New: white space is no token; the URL has a scheme, a host, no path.
SinkAccepts == cfg["token"] \notin {"unset", "blank"} /\ cfg["ingest_url"] # "bad"

\* --dry-run logs the batches and needs no sink of ingest.
BuildDaemon ==
  /\ pc = "load" /\ stage = "loaded"
  /\ ~command.checkConfig /\ ~command.once
  /\ IF command.dryRun \/ SinkAccepts
     THEN pc' = "daemon" /\ UNCHANGED code ELSE ExitWith(ConfigError)
  /\ UNCHANGED <<configVars, command>>

\* runOnce: two scrapes; without a single sample there is nothing to show.
ScrapeOnce(samples) ==
  /\ pc = "load" /\ stage = "loaded"
  /\ ~command.checkConfig /\ command.once
  /\ IF ~samples THEN ExitWith(Runtime) ELSE pc' = "once" /\ UNCHANGED code
  /\ UNCHANGED <<configVars, command>>

\* The batch goes to stdout, which may be closed.
PrintBatch ==
  /\ pc = "once" /\ ~command.send
  /\ pc' = "exit" /\ code' \in {OK, Runtime}
  /\ UNCHANGED <<configVars, command>>

BuildSinkOnce ==
  /\ pc = "once" /\ command.send
  /\ IF SinkAccepts THEN pc' = "post" /\ UNCHANGED code ELSE ExitWith(ConfigError)
  /\ UNCHANGED <<configVars, command>>

SendExitCode(reply) ==
  CASE Send(reply).err = "nil" -> OK
    [] Send(reply).err = "fatal" -> ConfigError
    [] OTHER -> Runtime

PostOnce(reply) ==
  /\ pc = "post"
  /\ ExitWith(SendExitCode(reply))
  /\ UNCHANGED <<configVars, command>>

Ended == pc \in {"exit", "daemon"} /\ UNCHANGED vars

Next ==
  \/ UsageError \/ PrintVersion \/ Dispatch \/ Load \/ LoadFails
  \/ CheckConfig \/ BuildDaemon \/ PrintBatch \/ BuildSinkOnce \/ Ended
  \/ \E samples \in BOOLEAN : ScrapeOnce(samples)
  \/ \E reply \in Replies : PostOnce(reply)

Spec == Init /\ [][Next]_vars

-----------------------------------------------------------------------------

\* What --check-config passes, the daemon starts with, and --once --send posts
\* with: the sink's own checks refuse nothing that was validated for sending,
\* so a green check is not followed by a unit that gives up with exit code 1.
GreenCheckStartsDaemon ==
  stage = "loaded" /\ (requireToken \/ command.send) => SinkAccepts

\* A file asked for by name is the one that was read: nobody's agent runs on
\* the defaults because of a typo in the path.
NoQuietFallback ==
  (host.flag \/ host.envPath) /\ stage = "loaded" =>
    host.disk[IF host.flag THEN "flag" ELSE "env"] \in {"empty", "parsed"}

\* Whatever is set wherever, an accepted value is the one of the most important
\* source that gave one: environment over file over default (config/load.go).
\* The update check is disabled when either says so.
SaidInFile(f) == OnDisk = "parsed" /\ host.file[f] \notin ZeroValues
SaidInEnv(f) == host.env[f] # "unset"
Precedence ==
  stage = "loaded" => \A f \in Fields :
    IF f = "disable_update_check"
    THEN cfg[f] = "true" <=> \/ SaidInFile(f)
                             \/ host.env[f] = "true"
    ELSE /\ SaidInEnv(f) => cfg[f] \in {host.env[f], "empty"}
         /\ ~SaidInEnv(f) /\ SaidInFile(f) => cfg[f] = host.file[f]
         /\ ~SaidInEnv(f) /\ ~SaidInFile(f) => cfg[f] = Defaults[f]
=============================================================================
