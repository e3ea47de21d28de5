-------------------------------- MODULE MCCLI -------------------------------
(***************************************************************************)
(* Command lines and hosts for TLC.  Any two fields take any of their      *)
(* values in the file and in the environment; the paths and the files      *)
(* behind them take all theirs with the other fields fixed.                *)
(***************************************************************************)
EXTENDS CLI

CommandsOf(flags, args, versions, logFlags, checks, onces, sends, dryRuns) ==
  [flags : flags, args : args, version : versions, logFlags : logFlags,
   checkConfig : checks, once : onces, send : sends, dryRun : dryRuns]

AllCommands ==
  CommandsOf({"good", "help", "unknown"}, {<<>>, <<"run">>, <<"other">>}, BOOLEAN,
             {"good", "bad"}, BOOLEAN, BOOLEAN, BOOLEAN, BOOLEAN)

\* Those that read the configuration.
LoadingCommands ==
  LET loading(checks, onces, sends) ==
        CommandsOf({"good"}, {<<>>}, {FALSE}, {"good"}, checks, onces, sends, {FALSE})
  IN  loading({TRUE}, {FALSE}, {FALSE}) \cup loading({FALSE}, {FALSE}, {FALSE})
        \cup loading({FALSE}, {TRUE}, BOOLEAN)

InFile == [f \in Fields |->
  CASE f = "token" -> {"unset", "a", "blank", "padded"}
    [] f = "scrape_interval_s" -> {"unset", "zero", "a", "bad"}
    [] f = "disable_update_check" -> {"unset", "true"}
    [] f = "update_check_url" -> {"unset", "a", "bad", "padded"}
    [] OTHER -> {"unset", "a", "bad"}]

InEnv == [f \in Fields |->
  CASE f = "token" -> {"unset", "b", "blank", "padded"}
    [] f = "scrape_interval_s" -> {"unset", "zero", "b", "bad", "unparsable"}
    [] f = "labels" -> {"unset", "b", "bad", "blank", "unparsable"}
    [] f = "metrics_allowlist" -> {"unset", "b", "blank"}
    [] f = "disable_update_check" -> {"unset", "true", "false"}
    [] f = "update_check_url" -> {"unset", "b", "bad", "padded"}
    [] OTHER -> {"unset", "b", "bad"}]

TokenOnly == [f \in Fields |-> IF f = "token" THEN "a" ELSE "unset"]
Nothing == [f \in Fields |-> "unset"]

HostOf(flag, envPath, disk, file, env) ==
  [flag |-> flag, envPath |-> envPath, disk |-> disk, file |-> file, env |-> env]

OnlyDefault(state) == [p \in Paths |-> IF p = "default" THEN state ELSE "absent"]

\* The values of fields f and g, everything else left at a good setting.
Setting(base, f, v, g, w) == [[base EXCEPT ![f] = v] EXCEPT ![g] = w]

ValueHosts ==
  UNION {{HostOf(FALSE, FALSE, OnlyDefault("parsed"), Setting(TokenOnly, f, v, g, w),
                 Setting(Nothing, f, x, g, y)) :
            v \in InFile[f], w \in InFile[g], x \in InEnv[f], y \in InEnv[g]} :
         f, g \in Fields}

PathHosts ==
  {HostOf(flag, envPath, disk, [TokenOnly EXCEPT !["log_level"] = "a"],
          [Nothing EXCEPT !["token"] = token]) :
     flag \in BOOLEAN, envPath \in BOOLEAN, disk \in [Paths -> FileStates],
     token \in {"unset", "b"}}

AllHosts == ValueHosts \cup PathHosts

\* A good file, none at all, one with a bad value, and one without a token.
FewHosts ==
  {HostOf(FALSE, FALSE, OnlyDefault("parsed"), TokenOnly, Nothing),
   HostOf(FALSE, FALSE, OnlyDefault("absent"), Nothing, Nothing),
   HostOf(FALSE, FALSE, OnlyDefault("parsed"), [TokenOnly EXCEPT !["log_level"] = "bad"],
          Nothing),
   HostOf(FALSE, FALSE, OnlyDefault("empty"), Nothing, Nothing)}

MCInvocations ==
  [command : AllCommands, host : FewHosts] \cup [command : LoadingCommands, host : AllHosts]

NoHint == [form |-> "none", value |-> 0]
OneReplyPerVerdict ==
  {[fault |-> fault, status |-> status, body |-> "empty", quota |-> 0, hint |-> NoHint] :
     fault \in {"none", "network"}, status \in {200, 404, 413, 429, 503}}
=============================================================================
