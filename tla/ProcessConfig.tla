----------------------------- MODULE ProcessConfig -----------------------------
(***************************************************************************)
(* How worker and server come by their configuration.  ReadConfig          *)
(* (cmd/worker/main.go, cmd/server/main.go, the same text twice) registers *)
(* a key with viper for every leaf of the configuration struct, so that    *)
(* viper looks for an environment variable of that name, and decodes what  *)
(* viper found into the struct.  The worker then puts its FeeConfig        *)
(* together and validates it.  viper and mapstructure are external code,   *)
(* modelled from how ReadConfig uses them.                                 *)
(*                                                                         *)
(* A name is a sequence of words: <<"METRICS", "PORT">> is METRICS_PORT; a *)
(* key is a path of names.  A value is known by where it came from.        *)
(***************************************************************************)
EXTENDS SequencesExt

CONSTANTS
  Structs,       \* Structs[program]: the settings of its struct, as paths of fields
  Presets,       \* Presets[program]: the keys main gives a default of its own
  Environments,  \* Environments[program]: sets of variables that may be set together
  InFile         \* keys the configuration file may carry

Programs == {"worker", "server"}

NoTag == << >>
Dash == <<"-">>

(* Faulty variant: the options of a mapstructure tag stay in the name. *)
TagNameUncut(f) ==
  LET tag == IF f.mapstructure \notin {NoTag, <<Dash>>} THEN FlattenSeq(f.mapstructure)
             ELSE IF f.json \notin {NoTag, <<Dash>>} THEN f.json[1]
             ELSE NoTag
  IN IF tag \in {NoTag, Dash} THEN f.go ELSE tag

(* getAllKeys: the name of a field is that of its mapstructure tag, else   *)
(* of its json tag, else its Go name.                                      *)
TagName(f) ==
  LET tag == IF f.mapstructure \notin {NoTag, <<Dash>>} THEN f.mapstructure[1]
             ELSE IF f.json \notin {NoTag, <<Dash>>} THEN f.json[1]
             ELSE NoTag
  IN IF tag \in {NoTag, Dash} THEN f.go ELSE tag

(* mapstructure reads its own tag, else the Go name, and no json tag. *)
DecodedName(f) ==
  LET tag == IF f.mapstructure # NoTag THEN f.mapstructure[1] ELSE NoTag
  IN IF tag = NoTag THEN f.go ELSE tag

(* Fields of which both derive the same name. *)
WellTagged(f) ==
  \/ f.mapstructure # NoTag /\ f.mapstructure[1] \notin {NoTag, Dash}
  \/ f.mapstructure = NoTag /\ (f.json = NoTag \/ f.json[1] = f.go)

(* The keys getAllKeys derives and the paths that are decoded. *)
Key(setting) == [i \in DOMAIN setting |-> TagName(setting[i])]
Path(setting) == [i \in DOMAIN setting |-> DecodedName(setting[i])]

Registered == [p \in Programs |-> {Key(s) : s \in Structs[p]}]
Settings == [p \in Programs |-> {Path(s) : s \in Structs[p]}]

(* The variable viper looks for: the key with "." replaced by "_". *)
EnvName(key) == FlattenSeq(key)

VerifierToken == <<<<"VERIFIER">>, <<"TOKEN">>>>
FeeSetting(s) == <<<<"FEE", "CONFIG">>, s>>

(* The settings of fee_config that main copies. *)
Own == {<<"USDC", "ADDRESS">>, <<"TREASURY", "ADDRESS">>, <<"ETH", "PROVIDER">>}

ASSUME ConfigAssumption ==
  /\ {VerifierToken} \cup {FeeSetting(s) : s \in Own} \subseteq Settings["worker"]
  /\ VerifierToken \notin Presets["worker"]

-----------------------------------------------------------------------------
VARIABLES
  program,  \* which process starts
  pc,       \* where its main function is
  env,      \* variables set in its environment
  file,     \* keys in its configuration file
  cfg,      \* cfg[key]: where the setting came from
  fee       \* the worker's FeeConfig, setting by setting

vars == <<program, pc, env, file, cfg, fee>>

Sources == {"zero", "empty", "preset", "file", "env"}
FeeSettings == Own \cup {<<"VERIFIER", "TOKEN">>, <<"TYPE">>, <<"CHAIN", "ID">>,
                         <<"MAX", "FEE", "AMOUNT">>}

TypeOK ==
  /\ program \in Programs
  /\ pc \in {"start", "read", "assembled", "running", "fatal"}
  /\ env \in Environments[program]
  /\ file \subseteq InFile
  /\ cfg \in [Settings[program] -> Sources]
  /\ fee \in [FeeSettings -> Sources \cup {"builtin"}]

Init ==
  /\ program \in Programs
  /\ pc = "start"
  /\ env \in Environments[program]
  /\ file \in SUBSET (InFile \cap Settings[program])
  /\ cfg = [k \in Settings[program] |-> "zero"]
  /\ fee = [s \in FeeSettings |-> "zero"]

(* viper knows the keys that have a default or are in the file.  The       *)
(* environment wins over the file, the file over the defaults; those of    *)
(* SetDefault in ReadConfig come after the empty ones of addKeysToViper.   *)
Get(k) ==
  IF k \notin Registered[program] \cup Presets[program] \cup file THEN "zero"
  ELSE IF EnvName(k) \in env THEN "env"
  ELSE IF k \in file THEN "file"
  ELSE IF k \in Presets[program] THEN "preset"
  ELSE "empty"

ReadConfig ==
  /\ pc = "start"
  /\ cfg' = [k \in Settings[program] |-> Get(k)]
  /\ pc' = IF program = "worker" THEN "read" ELSE "running"
  /\ UNCHANGED <<program, env, file, fee>>

(* The file does not parse or a value does not decode. *)
ReadConfigFails ==
  /\ pc = "start"
  /\ pc' = "fatal"
  /\ UNCHANGED <<program, env, file, cfg, fee>>

DefaultFeeConfig ==
  [s \in FeeSettings |->
     IF s \in {<<"TYPE">>, <<"CHAIN", "ID">>, <<"MAX", "FEE", "AMOUNT">>} THEN "builtin" ELSE "zero"]

(* Faulty variant: the token of fee_config in place of the verifier's. *)
AssembleOwnToken ==
  /\ pc = "read"
  /\ fee' = [s \in FeeSettings |->
               IF s \in Own \cup {<<"VERIFIER", "TOKEN">>}
                 THEN cfg[FeeSetting(s)]
                 ELSE DefaultFeeConfig[s]]
  /\ pc' = "assembled"
  /\ UNCHANGED <<program, env, file, cfg>>

(* main takes three settings of fee_config and the verifier's token, and   *)
(* leaves the rest of DefaultFeeConfig as it is.                           *)
Assemble ==
  /\ pc = "read"
  /\ fee' = [s \in FeeSettings |->
               IF s \in Own THEN cfg[FeeSetting(s)]
               ELSE IF s = <<"VERIFIER", "TOKEN">> THEN cfg[VerifierToken]
               ELSE DefaultFeeConfig[s]]
  /\ pc' = "assembled"
  /\ UNCHANGED <<program, env, file, cfg>>

Empty(source) == source \in {"zero", "empty"}

(* Faulty variant: an invalid configuration is logged and the loop waits.  *)
ValidateWaits ==
  /\ pc = "assembled"
  /\ pc' = IF Empty(fee[<<"VERIFIER", "TOKEN">>]) THEN "waiting" ELSE "running"
  /\ UNCHANGED <<program, env, file, cfg, fee>>

(* Validate looks at type, token, chain id and job limits; all but the     *)
(* token are built in.                                                     *)
Validate ==
  /\ pc = "assembled"
  /\ pc' = IF Empty(fee[<<"VERIFIER", "TOKEN">>]) THEN "fatal" ELSE "running"
  /\ UNCHANGED <<program, env, file, cfg, fee>>

Next == ReadConfig \/ ReadConfigFails \/ Assemble \/ Validate

Spec == Init /\ [][Next]_vars

-----------------------------------------------------------------------------
(* Where the operator of the process put a setting, if anywhere. *)
Chosen(k) == EnvName(k) \in env \/ k \in file
Choice(k) == IF EnvName(k) \in env THEN "env" ELSE "file"

(* Whatever is decoded into the struct can be set, by its variable or in   *)
(* the file: a setting that was chosen has the value it was given, for     *)
(* the keys getAllKeys derives are the paths mapstructure reads.           *)
EverySettingIsSettable ==
  pc \notin {"start", "fatal"} =>
    \A k \in Settings[program] : Chosen(k) => cfg[k] = Choice(k)

(* A worker that runs collects with the token of its verifier, which       *)
(* somebody chose, and with the addresses and the provider of fee_config.  *)
RunsAsConfigured ==
  pc = "running" /\ program = "worker" =>
    /\ Chosen(VerifierToken)
    /\ fee[<<"VERIFIER", "TOKEN">>] = Choice(VerifierToken)
    /\ \A s \in Own : Chosen(FeeSetting(s)) => fee[s] = Choice(FeeSetting(s))

(* The deployment (deploy/01_worker.yaml, deploy/01_server.yaml) sets no   *)
(* variable in vain: each is the value of some setting.                    *)
DeployedIsRead ==
  pc \notin {"start", "fatal"} =>
    \A v \in env : \E k \in Settings[program] : EnvName(k) = v /\ cfg[k] = "env"
=============================================================================
