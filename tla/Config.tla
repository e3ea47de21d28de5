------------------------------- MODULE Config -------------------------------
(***************************************************************************)
(* internal/config: LoadWith, from the command line's path to a validated  *)
(* Config.                                                                 *)
(*                                                                         *)
(* A value is the class the code tells it apart by:                        *)
(*   "unset"      absent, or the empty string                              *)
(*   "default"    the built-in default                                     *)
(*   "a", "b"     two good values                                          *)
(*   "bad"        parses, and validate refuses it                          *)
(*   "blank"      white space (in a list: nothing but separators)          *)
(*   "padded"     good but for white space around it                       *)
(*   "zero"       scrape_interval_s: 0                                     *)
(*   "unparsable" an integer or a label list that is none                  *)
(*   "empty"      the empty list;  "true" and "false"                      *)
(***************************************************************************)
EXTENDS Integers, Sequences, FiniteSets, FiniteSetsExt

Paths == {"flag", "env", "default"}
FileStates == {"absent", "unreadable", "malformed", "empty", "parsed"}

\* The fields, in the order applyEnvOverrides reads their variables.
EnvOrder == <<"ingest_url", "token", "scrape_interval_s", "labels", "metrics_allowlist",
              "log_level", "log_format", "disable_update_check", "update_check_url">>

\* ... and in the order validate looks at them.
CheckOrder == <<"token", "ingest_url", "scrape_interval_s", "labels", "metrics_allowlist",
                "log_level", "log_format", "update_check_url">>

Fields == {EnvOrder[i] : i \in 1..Len(EnvOrder)}

Defaults == [f \in Fields |->
  CASE f \in {"ingest_url", "scrape_interval_s", "log_level", "log_format"} -> "default"
    [] f \in {"labels", "metrics_allowlist"} -> "empty"
    [] f = "disable_update_check" -> "false"
    [] f \in {"token", "update_check_url"} -> "unset"]

VARIABLES host,              \* what the process finds: flag, variables and files
          requireToken,      \* LoadOptions
          stage,             \* how far LoadWith is
          src,               \* Source: the path, whether it is explicit or existed,
                             \* the number of variables applied
          cfg,               \* the Config so far
          problem            \* the error: "none", "file" or a field

configVars == <<host, requireToken, stage, src, cfg, problem>>

NoSource == [path |-> "none", explicit |-> FALSE, existed |-> FALSE, applied |-> 0]

ConfigInit(found) ==
  /\ host = found
  /\ requireToken = TRUE
  /\ stage = "idle"
  /\ src = NoSource
  /\ cfg = Defaults
  /\ problem = "none"

LoadWith(require) ==
  /\ stage = "idle"
  /\ stage' = "resolve"
  /\ requireToken' = require
  /\ UNCHANGED <<host, src, cfg, problem>>

Fail(what) == stage' = "failed" /\ problem' = what

-----------------------------------------------------------------------------
(* The file *)

\* Mutant: a path from VIGIL_CONFIG is treated as a default.
ResolveConfigPathQuiet ==
  CASE host.flag -> <<"flag", TRUE>>
    [] ~host.flag /\ host.envPath -> <<"env", FALSE>>
    [] ~host.flag /\ ~host.envPath -> <<"default", FALSE>>

\* --config, else VIGIL_CONFIG, else the default; only the first two were asked
\* for by name.  White space alone is no path.
ResolveConfigPath ==
  CASE host.flag -> <<"flag", TRUE>>
    [] ~host.flag /\ host.envPath -> <<"env", TRUE>>
    [] ~host.flag /\ ~host.envPath -> <<"default", FALSE>>

Resolve ==
  /\ stage = "resolve"
  /\ stage' = "read"
  /\ src' = [src EXCEPT !.path = ResolveConfigPath[1], !.explicit = ResolveConfigPath[2]]
  /\ UNCHANGED <<host, requireToken, cfg, problem>>

OnDisk == host.disk[src.path]

\* readYAMLFile or the check after it: unreadable, no YAML, an unknown key, or
\* not there although it was named.
FileFails ==
  /\ stage = "read"
  /\ OnDisk \in {"unreadable", "malformed"} \/ (OnDisk = "absent" /\ src.explicit)
  /\ Fail("file")
  /\ src' = [src EXCEPT !.existed = OnDisk = "malformed"]
  /\ UNCHANGED <<host, requireToken, cfg>>

\* The zero values of Go: as good as absent from the file.
ZeroValues == {"unset", "zero", "empty", "false"}

MergeFromFile ==
  [f \in Fields |-> IF host.file[f] \in ZeroValues THEN cfg[f] ELSE host.file[f]]

ReadFile ==
  /\ stage = "read"
  /\ OnDisk \in {"empty", "parsed"} \/ (OnDisk = "absent" /\ ~src.explicit)
  /\ stage' = "env"
  /\ src' = [src EXCEPT !.existed = OnDisk # "absent"]
  /\ cfg' = IF OnDisk = "parsed" THEN MergeFromFile ELSE cfg
  /\ UNCHANGED <<host, requireToken, problem>>

-----------------------------------------------------------------------------
(* The environment *)

\* A set variable replaces the field; lists lose their blank entries; only a
\* truthy word disables the update check, and no word enables it.
FromEnv(f) ==
  CASE host.env[f] = "unset" -> cfg[f]
    [] f = "disable_update_check" -> IF host.env[f] = "true" THEN "true" ELSE cfg[f]
    [] f \in {"labels", "metrics_allowlist"} /\ host.env[f] = "blank" -> "empty"
    [] OTHER -> host.env[f]

Unparsed == {i \in 1..Len(EnvOrder) : host.env[EnvOrder[i]] = "unparsable"}

\* The loop stops at the first variable that does not parse.
EnvFails ==
  /\ stage = "env"
  /\ Unparsed # {}
  /\ Fail(EnvOrder[Min(Unparsed)])
  /\ cfg' = [f \in Fields |->
       IF \E i \in 1..(Min(Unparsed) - 1) : EnvOrder[i] = f THEN FromEnv(f) ELSE cfg[f]]
  /\ UNCHANGED <<host, requireToken, src>>

\* Mutant: the file has the last word where it says anything.
ApplyEnvOverridesUnderFile ==
  /\ stage = "env"
  /\ Unparsed = {}
  /\ cfg' = [f \in Fields |-> IF cfg[f] = Defaults[f] THEN FromEnv(f) ELSE cfg[f]]
  /\ src' = [src EXCEPT !.applied = Cardinality({f \in Fields : host.env[f] # "unset"})]
  /\ stage' = "validate"
  /\ UNCHANGED <<host, requireToken, problem>>

ApplyEnvOverrides ==
  /\ stage = "env"
  /\ Unparsed = {}
  /\ cfg' = [f \in Fields |-> FromEnv(f)]
  /\ src' = [src EXCEPT !.applied = Cardinality({f \in Fields : host.env[f] # "unset"})]
  /\ stage' = "validate"
  /\ UNCHANGED <<host, requireToken, problem>>

-----------------------------------------------------------------------------
(* Validation *)

\* Mutant: a token of white space passes for a token.
RefusedUntrimmed(f) ==
  CASE f = "token" -> \/ cfg[f] = "padded"
                      \/ cfg[f] = "unset" /\ requireToken
    [] f = "scrape_interval_s" -> cfg[f] \in {"zero", "bad"}
    [] OTHER -> cfg[f] = "bad"

\* White space around the token is refused, around update_check_url it is not.
Refused(f) ==
  CASE f = "token" -> \/ cfg[f] \in {"blank", "padded"}
                      \/ cfg[f] = "unset" /\ requireToken
    [] f = "scrape_interval_s" -> cfg[f] \in {"zero", "bad"}
    [] OTHER -> cfg[f] = "bad"

RefusedChecks == {i \in 1..Len(CheckOrder) : Refused(CheckOrder[i])}

Validate ==
  /\ stage = "validate"
  /\ IF RefusedChecks = {}
     THEN stage' = "loaded" /\ UNCHANGED problem
     ELSE Fail(CheckOrder[Min(RefusedChecks)])
  /\ UNCHANGED <<host, requireToken, src, cfg>>

LoadStep == Resolve \/ FileFails \/ ReadFile \/ EnvFails \/ ApplyEnvOverrides \/ Validate
=============================================================================
