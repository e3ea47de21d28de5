------------------------------ MODULE CLIProofs ------------------------------
(***************************************************************************)
(* Proofs about the command line and the configuration it loads, for every *)
(* set of command lines, hosts, files and variables.                       *)
(***************************************************************************)
EXTENDS CLI, FiniteSetTheorems, TLAPS

-----------------------------------------------------------------------------
(* The inductive invariant *)

HostOK ==
  /\ host.flag \in BOOLEAN /\ host.envPath \in BOOLEAN
  /\ host.file["disable_update_check"] \in {"unset", "true", "false"}

Stages == {"idle", "resolve", "read", "env", "validate", "loaded", "failed"}
Resolved == Stages \ {"idle", "resolve"}
FileRead == {"env", "validate", "loaded"}
EnvRead == {"validate", "loaded"}

\* A token is asked for by whoever is going to post.
TokenInv ==
  /\ requireToken \in BOOLEAN
  /\ stage # "idle" => (command.send => requireToken)

\* The path is the one the flag, the variable and the default give, and it was
\* read, or was not there and nobody had asked for it.
SourceInv ==
  /\ src \in [path : Paths \cup {"none"}, explicit : BOOLEAN, existed : BOOLEAN, applied : Nat]
  /\ stage \in Resolved => /\ src.path = ResolveConfigPath[1]
                           /\ src.explicit = ResolveConfigPath[2]
  /\ stage \in FileRead => \/ OnDisk \in {"empty", "parsed"}
                           \/ OnDisk = "absent" /\ ~src.explicit

\* What each layer has left of the one below.
InFileOrDefault(f) == IF SaidInFile(f) THEN host.file[f] ELSE Defaults[f]
Layered(f) ==
  CASE host.env[f] = "unset" -> InFileOrDefault(f)
    [] f = "disable_update_check" ->
         IF host.env[f] = "true" THEN "true" ELSE InFileOrDefault(f)
    [] f \in {"labels", "metrics_allowlist"} /\ host.env[f] = "blank" -> "empty"
    [] OTHER -> host.env[f]

LayersInv ==
  /\ stage \in {"idle", "resolve", "read"} => cfg = Defaults
  /\ stage = "env" => cfg = [f \in Fields |-> InFileOrDefault(f)]
  /\ stage \in EnvRead => cfg = [f \in Fields |-> Layered(f)]

CLIInv ==
  /\ stage \in Stages
  /\ pc = "parse" => stage = "idle"
  /\ HostOK
  /\ command.send \in BOOLEAN /\ command.checkConfig \in BOOLEAN /\ command.once \in BOOLEAN
  /\ TokenInv /\ SourceInv /\ LayersInv
  /\ stage = "loaded" => RefusedChecks = {}

\* Nothing is loaded when the flags are parsed.
LEMMA CLIInvInit == Init => CLIInv
<1> SUFFICES ASSUME Init PROVE CLIInv
  OBVIOUS
<1>1. PICK i \in Invocations : ConfigInit(i.host) /\ command = i.command
  BY DEF Init
<1>2. /\ stage = "idle" /\ requireToken = TRUE /\ cfg = Defaults
      /\ HostOK
      /\ command.send \in BOOLEAN /\ command.checkConfig \in BOOLEAN /\ command.once \in BOOLEAN
  BY <1>1, InvocationsAssumption DEF ConfigInit, HostOK
<1>3. TokenInv /\ SourceInv /\ LayersInv
  BY <1>1, <1>2 DEF ConfigInit, NoSource, TokenInv, SourceInv, LayersInv, Resolved, FileRead, EnvRead
<1>4. QED
  BY <1>2, <1>3 DEF CLIInv, Stages

-----------------------------------------------------------------------------
(* LoadWith *)

\* There is a number of variables to count.
LEMMA FieldsFinite == IsFiniteSet(Fields)
<1>1. Len(EnvOrder) = 9
  BY DEF EnvOrder
<1>2. EnvOrder \in [1..9 -> Fields]
  BY <1>1 DEF EnvOrder, Fields
<1>3. EnvOrder \in Surjection(1..9, Fields)
  BY <1>1, <1>2 DEF Fields, Surjection
<1>4. IsFiniteSet(1..9)
  <2>1. 1 \in Int /\ 9 \in Int
    OBVIOUS
  <2>2. QED
    BY <2>1, FS_Interval
<1>5. QED
  BY <1>3, <1>4, FS_Surjection

\* The path is resolved from what the host has.
LEMMA ResolveKeeps ==
  ASSUME CLIInv, Resolve
  PROVE  SourceInv' /\ LayersInv'
<1>1. UNCHANGED <<host, cfg>> /\ stage = "resolve" /\ stage' = "read"
  BY DEF Resolve
<1>2. ResolveConfigPath' = ResolveConfigPath
  BY <1>1 DEF ResolveConfigPath
<1>3. ResolveConfigPath[1] \in Paths /\ ResolveConfigPath[2] \in BOOLEAN
  BY DEF CLIInv, HostOK, ResolveConfigPath, Paths
<1>4. /\ src' \in [path : Paths \cup {"none"}, explicit : BOOLEAN, existed : BOOLEAN,
                   applied : Nat]
      /\ src'.path = ResolveConfigPath[1] /\ src'.explicit = ResolveConfigPath[2]
  <2> DEFINE p == ResolveConfigPath[1]
             e == ResolveConfigPath[2]
  <2>1. src \in [path : Paths \cup {"none"}, explicit : BOOLEAN, existed : BOOLEAN,
                 applied : Nat]
    BY DEF CLIInv, SourceInv
  <2>2. src' = [src EXCEPT !.path = p, !.explicit = e]
    BY DEF Resolve
  <2>3. p \in Paths /\ e \in BOOLEAN
    BY <1>3
  <2> HIDE DEF p, e
  <2>4. /\ src' \in [path : Paths \cup {"none"}, explicit : BOOLEAN, existed : BOOLEAN,
                     applied : Nat]
        /\ src'.path = p /\ src'.explicit = e
    BY <2>1, <2>2, <2>3
  <2>5. QED
    BY <2>4 DEF p, e
<1>5. QED
  BY <1>1, <1>2, <1>4 DEF CLIInv, SourceInv, LayersInv, FileRead, EnvRead

\* A file that is read leaves its values over the defaults.
LEMMA ReadFileKeeps ==
  ASSUME CLIInv, ReadFile
  PROVE  SourceInv' /\ LayersInv'
<1>1. UNCHANGED host /\ stage = "read" /\ stage' = "env" /\ cfg = Defaults
  BY DEF ReadFile, CLIInv, LayersInv
<1>2. /\ src' \in [path : Paths \cup {"none"}, explicit : BOOLEAN, existed : BOOLEAN,
                   applied : Nat]
      /\ src'.path = src.path /\ src'.explicit = src.explicit
  BY DEF ReadFile, CLIInv, SourceInv
<1>3. ResolveConfigPath' = ResolveConfigPath /\ OnDisk' = OnDisk
  BY <1>1, <1>2 DEF ResolveConfigPath, OnDisk
<1>4. SourceInv'
  <2>1. OnDisk \in {"empty", "parsed"} \/ (OnDisk = "absent" /\ ~src.explicit)
    BY DEF ReadFile
  <2>2. src.path = ResolveConfigPath[1] /\ src.explicit = ResolveConfigPath[2]
    BY <1>1 DEF CLIInv, SourceInv, Resolved, Stages
  <2>3. QED
    BY <1>1, <1>2, <1>3, <2>1, <2>2 DEF SourceInv
<1>5. \A f \in Fields : SaidInFile(f)' = SaidInFile(f)
  BY <1>1, <1>3 DEF SaidInFile
<1>6. cfg' = [f \in Fields |-> InFileOrDefault(f)]
  <2>1. Defaults = [f \in Fields |-> Defaults[f]]
    <3> DEFINE D(f) ==
          CASE f \in {"ingest_url", "scrape_interval_s", "log_level", "log_format"} -> "default"
            [] f \in {"labels", "metrics_allowlist"} -> "empty"
            [] f = "disable_update_check" -> "false"
            [] f \in {"token", "update_check_url"} -> "unset"
    <3>1. Defaults = [f \in Fields |-> D(f)]
      BY DEF Defaults
    <3> HIDE DEF D
    <3>2. QED
      BY <3>1
  <2>2. CASE OnDisk = "parsed"
    <3>1. cfg' = MergeFromFile
      BY <2>2 DEF ReadFile
    <3>2. \A f \in Fields : SaidInFile(f) <=> host.file[f] \notin ZeroValues
      BY <2>2 DEF SaidInFile
    <3>3. QED
      BY <3>1, <3>2, <1>1 DEF MergeFromFile, InFileOrDefault
  <2>3. CASE OnDisk # "parsed"
    <3>1. cfg' = Defaults
      BY <2>3, <1>1 DEF ReadFile
    <3>2. \A f \in Fields : InFileOrDefault(f) = Defaults[f]
      BY <2>3 DEF SaidInFile, InFileOrDefault
    <3>3. QED
      BY <2>1, <3>1, <3>2
  <2>4. QED
    BY <2>2, <2>3
<1>7. \A f \in Fields : InFileOrDefault(f)' = InFileOrDefault(f)
  BY <1>1, <1>5 DEF InFileOrDefault
<1>8. LayersInv'
  BY <1>1, <1>6, <1>7 DEF LayersInv, EnvRead
<1>9. QED
  BY <1>4, <1>8

\* Each variable lies over what the file and the defaults have left.
LEMMA ApplyEnvOverridesKeeps ==
  ASSUME CLIInv, ApplyEnvOverrides
  PROVE  SourceInv' /\ LayersInv'
<1>1. UNCHANGED host /\ stage = "env" /\ stage' = "validate"
  BY DEF ApplyEnvOverrides
<1> DEFINE n == Cardinality({f \in Fields : host.env[f] # "unset"})
<1>2. n \in Nat
  BY FieldsFinite, FS_Subset, FS_CardinalityType
<1>3. /\ src' \in [path : Paths \cup {"none"}, explicit : BOOLEAN, existed : BOOLEAN,
                   applied : Nat]
      /\ src'.path = src.path /\ src'.explicit = src.explicit
  <2>1. src' = [src EXCEPT !.applied = n]
    BY DEF ApplyEnvOverrides
  <2> HIDE DEF n
  <2>2. QED
    BY <1>2, <2>1 DEF CLIInv, SourceInv
<1>4. ResolveConfigPath' = ResolveConfigPath /\ OnDisk' = OnDisk
  BY <1>1, <1>3 DEF ResolveConfigPath, OnDisk
<1>5. SourceInv'
  BY <1>1, <1>3, <1>4 DEF CLIInv, SourceInv, Resolved, Stages, FileRead
<1>6. cfg = [f \in Fields |-> InFileOrDefault(f)]
  BY <1>1 DEF CLIInv, LayersInv
<1>7. \A f \in Fields : FromEnv(f) = Layered(f)
  BY <1>6 DEF FromEnv, Layered
<1>8. \A f \in Fields : Layered(f)' = Layered(f)
  BY <1>1, <1>4 DEF Layered, InFileOrDefault, SaidInFile
<1>9. cfg' = [f \in Fields |-> FromEnv(f)]
  BY DEF ApplyEnvOverrides
<1>10. LayersInv'
  BY <1>1, <1>7, <1>8, <1>9 DEF LayersInv, EnvRead
<1>11. QED
  BY <1>5, <1>10

\* A configuration is loaded when no check refuses it.
LEMMA ValidateKeeps ==
  ASSUME CLIInv, Validate
  PROVE  SourceInv' /\ LayersInv' /\ (stage' = "loaded" => RefusedChecks' = {})
<1>1. UNCHANGED <<host, requireToken, src, cfg>> /\ stage = "validate"
  BY DEF Validate
<1>2. (stage' = "loaded" /\ RefusedChecks = {}) \/ stage' = "failed"
  BY DEF Validate, Fail
<1>3. ResolveConfigPath' = ResolveConfigPath /\ OnDisk' = OnDisk
  BY <1>1 DEF ResolveConfigPath, OnDisk
<1>4. \A f \in Fields : Layered(f)' = Layered(f)
  BY <1>1, <1>3 DEF Layered, InFileOrDefault, SaidInFile
<1>5. \A i \in 1..Len(CheckOrder) : Refused(CheckOrder[i])' = Refused(CheckOrder[i])
  BY <1>1 DEF Refused
<1>6. RefusedChecks' = RefusedChecks
  BY <1>5 DEF RefusedChecks
<1>7. SourceInv' /\ LayersInv'
  BY <1>1, <1>2, <1>3, <1>4 DEF CLIInv, SourceInv, LayersInv, Resolved, FileRead, EnvRead, Stages
<1>8. QED
  BY <1>2, <1>6, <1>7

\* A load that fails says so, and nothing relies on what it had read.
LEMMA FailsKeep ==
  ASSUME CLIInv, FileFails \/ EnvFails
  PROVE  SourceInv' /\ LayersInv' /\ stage' = "failed"
<1>1. UNCHANGED host /\ stage' = "failed" /\ stage \in {"read", "env"}
  BY DEF FileFails, EnvFails, Fail
<1>2. /\ src' \in [path : Paths \cup {"none"}, explicit : BOOLEAN, existed : BOOLEAN,
                   applied : Nat]
      /\ src'.path = src.path /\ src'.explicit = src.explicit
  <2>1. src' = [src EXCEPT !.existed = OnDisk = "malformed"] \/ src' = src
    BY DEF FileFails, EnvFails
  <2> DEFINE e == OnDisk = "malformed"
  <2>2. e \in BOOLEAN
    OBVIOUS
  <2> HIDE DEF e
  <2>3. src' = [src EXCEPT !.existed = e] \/ src' = src
    BY <2>1 DEF e
  <2>4. QED
    BY <2>2, <2>3 DEF CLIInv, SourceInv
<1>3. ResolveConfigPath' = ResolveConfigPath
  BY <1>1 DEF ResolveConfigPath
<1>4. QED
  BY <1>1, <1>2, <1>3 DEF CLIInv, SourceInv, LayersInv, Resolved, FileRead, EnvRead, Stages

-----------------------------------------------------------------------------
(* The command line *)

\* One step of LoadWith, whichever it is.
LEMMA LoadKeeps ==
  ASSUME CLIInv, Load
  PROVE  CLIInv'
<1>1. UNCHANGED <<host, requireToken, command, pc>> /\ pc = "load"
  BY DEF Load, LoadStep, Resolve, FileFails, ReadFile, EnvFails, ApplyEnvOverrides, Validate
<1>2. stage \in {"resolve", "read", "env", "validate"} /\ stage' \in Stages
  BY DEF Load, LoadStep, Resolve, FileFails, ReadFile, EnvFails, ApplyEnvOverrides, Validate,
    Fail, Stages
<1>3. SourceInv' /\ LayersInv' /\ (stage' = "loaded" => RefusedChecks' = {})
  <2>1. CASE Resolve
    BY <2>1, ResolveKeeps DEF Resolve
  <2>2. CASE ReadFile
    BY <2>2, ReadFileKeeps DEF ReadFile
  <2>3. CASE ApplyEnvOverrides
    BY <2>3, ApplyEnvOverridesKeeps DEF ApplyEnvOverrides
  <2>4. CASE Validate
    BY <2>4, ValidateKeeps
  <2>5. CASE FileFails \/ EnvFails
    BY <2>5, FailsKeep
  <2>6. QED
    BY <2>1, <2>2, <2>3, <2>4, <2>5 DEF Load, LoadStep
<1>4. HostOK' /\ TokenInv'
  BY <1>1, <1>2 DEF CLIInv, HostOK, TokenInv
<1>5. QED
  BY <1>1, <1>2, <1>3, <1>4 DEF CLIInv

\* A token is required unless a batch is only to be shown.
LEMMA DispatchKeeps ==
  ASSUME CLIInv, Dispatch
  PROVE  CLIInv'
<1>1. UNCHANGED <<host, src, cfg, command>> /\ stage = "idle" /\ stage' = "resolve" /\ pc' = "load"
  BY DEF Dispatch, LoadWith
<1>2. requireToken' = (command.checkConfig \/ ~command.once \/ command.send)
  BY DEF Dispatch, LoadWith
<1>3. TokenInv' /\ HostOK'
  BY <1>1, <1>2 DEF CLIInv, TokenInv, HostOK
<1>4. SourceInv' /\ LayersInv'
  BY <1>1 DEF CLIInv, SourceInv, LayersInv, Resolved, FileRead, EnvRead
<1>5. QED
  BY <1>1, <1>3, <1>4 DEF CLIInv, Stages

\* What is done with a loaded configuration does not change it.
LEMMA CLIInvStep == CLIInv /\ [Next]_vars => CLIInv'
<1> SUFFICES ASSUME CLIInv, [Next]_vars PROVE CLIInv'
  OBVIOUS
<1>1. CASE Load
  BY <1>1, LoadKeeps
<1>2. CASE Dispatch
  BY <1>2, DispatchKeeps
<1>3. CASE ~Load /\ ~Dispatch
  <2>1. UNCHANGED <<configVars, command>> /\ (pc' = "parse" => pc = "parse")
    BY <1>3, Zenon DEF Next, UsageError, PrintVersion, LoadFails, CheckConfig, BuildDaemon,
      ScrapeOnce, PrintBatch, BuildSinkOnce, PostOnce, Ended, ExitWith, vars
  <2>2. UNCHANGED <<host, requireToken, stage, src, cfg>>
    BY <2>1 DEF configVars
  <2>3. ResolveConfigPath' = ResolveConfigPath /\ OnDisk' = OnDisk
    BY <2>2 DEF ResolveConfigPath, OnDisk
  <2>4. \A f \in Fields : Layered(f)' = Layered(f) /\ InFileOrDefault(f)' = InFileOrDefault(f)
    BY <2>2, <2>3 DEF Layered, InFileOrDefault, SaidInFile
  <2>5. RefusedChecks' = RefusedChecks
    <3>1. \A i \in 1..Len(CheckOrder) : Refused(CheckOrder[i])' = Refused(CheckOrder[i])
      BY <2>2 DEF Refused
    <3>2. QED
      BY <3>1 DEF RefusedChecks
  <2>6. SourceInv' /\ LayersInv' /\ TokenInv' /\ HostOK'
    BY <2>1, <2>2, <2>3, <2>4 DEF CLIInv, SourceInv, LayersInv, TokenInv, HostOK
  <2>7. QED
    BY <2>1, <2>2, <2>5, <2>6 DEF CLIInv
<1>4. QED
  BY <1>1, <1>2, <1>3

\* The invariant of loading a configuration holds for every command line.
THEOREM CLIInvHolds == Spec => []CLIInv
BY CLIInvInit, CLIInvStep, PTL DEF Spec

-----------------------------------------------------------------------------
(* The properties *)

\* Whatever was validated for sending, the sink of ingest accepts.
THEOREM GreenCheckStarts == Spec => []GreenCheckStartsDaemon
<1>1. CLIInv => GreenCheckStartsDaemon
  <2> SUFFICES ASSUME CLIInv, stage = "loaded", requireToken \/ command.send
               PROVE  SinkAccepts
    BY DEF GreenCheckStartsDaemon
  <2>1. requireToken = TRUE
    BY DEF CLIInv, TokenInv
  <2>2. /\ 1 \in 1..Len(CheckOrder) /\ CheckOrder[1] = "token"
        /\ 2 \in 1..Len(CheckOrder) /\ CheckOrder[2] = "ingest_url"
    BY DEF CheckOrder
  <2>3. ~Refused("token") /\ ~Refused("ingest_url")
    BY <2>2 DEF CLIInv, RefusedChecks
  <2>4. QED
    BY <2>1, <2>3 DEF Refused, SinkAccepts
<1>2. QED
  BY <1>1, CLIInvHolds, PTL

\* A file asked for by name is the one that was read.
THEOREM NamedFileIsRead == Spec => []NoQuietFallback
<1>1. CLIInv => NoQuietFallback
  BY DEF CLIInv, HostOK, SourceInv, NoQuietFallback, ResolveConfigPath, OnDisk, Resolved,
    FileRead, Stages
<1>2. QED
  BY <1>1, CLIInvHolds, PTL

\* Environment over file over default, field by field.
THEOREM LayersInOrder == Spec => []Precedence
<1>1. CLIInv => Precedence
  <2> SUFFICES ASSUME CLIInv, stage = "loaded", NEW f \in Fields
               PROVE  IF f = "disable_update_check"
                      THEN cfg[f] = "true" <=> SaidInFile(f) \/ host.env[f] = "true"
                      ELSE /\ SaidInEnv(f) => cfg[f] \in {host.env[f], "empty"}
                           /\ ~SaidInEnv(f) /\ SaidInFile(f) => cfg[f] = host.file[f]
                           /\ ~SaidInEnv(f) /\ ~SaidInFile(f) => cfg[f] = Defaults[f]
    BY DEF Precedence
  <2>1. cfg[f] = Layered(f)
    BY DEF CLIInv, LayersInv, EnvRead
  <2>2. CASE f = "disable_update_check"
    <3>1. Defaults[f] = "false"
      BY <2>2 DEF Defaults
    <3>2. SaidInFile(f) => host.file[f] = "true"
      BY <2>2 DEF CLIInv, HostOK, SaidInFile, ZeroValues
    <3>3. QED
      BY <2>1, <2>2, <3>1, <3>2 DEF Layered, InFileOrDefault
  <2>3. CASE f # "disable_update_check"
    BY <2>1, <2>3 DEF Layered, InFileOrDefault, SaidInEnv
  <2>4. QED
    BY <2>2, <2>3
<1>2. QED
  BY <1>1, CLIInvHolds, PTL
=============================================================================
