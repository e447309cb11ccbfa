----------------------------- MODULE ConfigStructs -----------------------------
(***************************************************************************)
(* The configuration structs of worker and server, field by field.  A      *)
(* struct is the set of its settings, a setting the path of fields that    *)
(* leads to it, a field its Go name and its tags.  A tag is the sequence   *)
(* of its comma-separated parts, a name the sequence of its words, in the  *)
(* upper case that getAllKeys gives it.                                    *)
(*                                                                         *)
(* The structs of the verifier library are not part of the repository;     *)
(* they have the fields that main, the manifests (deploy) and the examples *)
(* (fee.worker.example.json, fee.server.example.json) name.                *)
(***************************************************************************)
EXTENDS Sequences

NoTag == << >>
OmitEmpty == <<"OMITEMPTY">>

(* `mapstructure:"name" json:"name,omitempty"` *)
Tagged(go, name) == [go |-> go, mapstructure |-> <<name>>, json |-> <<name, OmitEmpty>>]

(* `mapstructure:"name,omitempty"` *)
MapTagged(go, name) == [go |-> go, mapstructure |-> <<name, OmitEmpty>>, json |-> NoTag]

Untagged(go) == [go |-> go, mapstructure |-> NoTag, json |-> NoTag]

(* A field of a library struct, of which only the name is known. *)
Library(name) == Tagged(name, name)

Leaves(fields) == {<<f>> : f \in fields}
Under(field, struct) == {<<field>> \o s : s \in struct}

Job(name) == MapTagged(name, name)
MaxConcurrentJobs == MapTagged(<<"MAXCONCURRENTJOBS">>, <<"MAX", "CONCURRENT", "JOBS">>)
Cronexpr == MapTagged(<<"CRONEXPR">>, <<"CRONEXPR">>)
SuccessConfirmations ==
  MapTagged(<<"SUCCESSCONFIRMATIONS">>, <<"SUCCESS", "CONFIRMATIONS">>)

FeeConfig ==
  Leaves({MapTagged(<<"TYPE">>, <<"TYPE">>),
          MapTagged(<<"VERSION">>, <<"VERSION">>),
          MapTagged(<<"MAXFEEAMOUNT">>, <<"MAX", "FEE", "AMOUNT">>),
          MapTagged(<<"USDCADDRESS">>, <<"USDC", "ADDRESS">>),
          MapTagged(<<"TREASURYADDRESS">>, <<"TREASURY", "ADDRESS">>),
          MapTagged(<<"VERIFIERTOKEN">>, <<"VERIFIER", "TOKEN">>),
          MapTagged(<<"CHAINID">>, <<"CHAIN", "ID">>),
          MapTagged(<<"ETHPROVIDER">>, <<"ETH", "PROVIDER">>)})
  \cup Under(Untagged(<<"JOBS">>),
         Under(Job(<<"LOAD">>), Leaves({MaxConcurrentJobs, Cronexpr}))
         \cup Under(Job(<<"TRANSACT">>), Leaves({MaxConcurrentJobs, Cronexpr}))
         \cup Under(Job(<<"POST">>),
                Leaves({SuccessConfirmations, Cronexpr, MaxConcurrentJobs})))

MetricsConfig ==
  Leaves({Tagged(<<"ENABLED">>, <<"METRICS", "ENABLED">>),
          Tagged(<<"PORT">>, <<"METRICS", "PORT">>)})

Redis == Leaves({Library(<<"URI">>), Library(<<"HOST">>), Library(<<"PORT">>), Library(<<"PASSWORD">>)})

Database == Leaves({Library(<<"DSN">>)})

Verifier == Leaves({Library(<<"URL">>), Library(<<"TOKEN">>), Library(<<"PARTY", "PREFIX">>)})

BlockStorage ==
  Leaves({Library(<<"HOST">>), Library(<<"REGION">>), Library(<<"ACCESS", "KEY">>),
          Library(<<"SECRET">>), Library(<<"BUCKET">>)})

VaultService ==
  Under(Library(<<"RELAY">>), Leaves({Library(<<"SERVER">>)}))
  \cup Leaves({Library(<<"LOCAL", "PARTY", "PREFIX">>), Library(<<"QUEUE", "EMAIL", "TASK">>),
               Library(<<"ENCRYPTION", "SECRET">>), Library(<<"DO", "SETUP", "MSG">>)})

(* The secret has the name of the example; the manifest calls it           *)
(* SERVER_ENCRYPTIONSECRET, as if the field had no tag.  The path of the   *)
(* vaults is named as the default of main names it.                        *)
ServerConfig ==
  Leaves({Library(<<"HOST">>), Library(<<"PORT">>), Library(<<"ENCRYPTION", "SECRET">>),
          Untagged(<<"VAULTSFILEPATH">>)})

FeeWorkerConfig ==
  Leaves({Tagged(<<"LOGFORMAT">>, <<"LOG", "FORMAT">>),
          Tagged(<<"BASECONFIGPATH">>, <<"BASE", "CONFIG", "PATH">>),
          Tagged(<<"PROCESSINGINTERVAL">>, <<"PROCESSING", "INTERVAL">>),
          Tagged(<<"HEALTHPORT">>, <<"HEALTH", "PORT">>)})
  \cup Under(Tagged(<<"REDIS">>, <<"REDIS">>), Redis)
  \cup Under(Tagged(<<"VERIFIER">>, <<"VERIFIER">>), Verifier)
  \cup Under(Tagged(<<"BLOCKSTORAGE">>, <<"BLOCK", "STORAGE">>), BlockStorage)
  \cup Under(Tagged(<<"VAULTSERVICECONFIG">>, <<"VAULT", "SERVICE">>), VaultService)
  \cup Under(Tagged(<<"DATABASE">>, <<"DATABASE">>), Database)
  \cup Under(Tagged(<<"FEECONFIG">>, <<"FEE", "CONFIG">>), FeeConfig)
  \cup Under(Tagged(<<"METRICS">>, <<"METRICS">>), MetricsConfig)

FeeServerConfig ==
  Leaves({Tagged(<<"LOGFORMAT">>, <<"LOG", "FORMAT">>),
          Tagged(<<"BASECONFIGPATH">>, <<"BASE", "CONFIG", "PATH">>)})
  \cup Under([Tagged(<<"SERVER">>, <<"SERVER">>) EXCEPT !.json = << <<"SERVER">> >>], ServerConfig)
  \cup Under(Tagged(<<"POSTGRES">>, <<"DATABASE">>), Database)
  \cup Under(Tagged(<<"REDIS">>, <<"REDIS">>), Redis)
  \cup Under(Tagged(<<"BLOCKSTORAGE">>, <<"BLOCK", "STORAGE">>), BlockStorage)
  \cup Under(Tagged(<<"METRICS">>, <<"METRICS">>), MetricsConfig)
  \cup Under(Tagged(<<"VERIFIER">>, <<"VERIFIER">>), Verifier)

ConfigOf == [worker |-> FeeWorkerConfig, server |-> FeeServerConfig]

(* The keys of the calls of viper.SetDefault. *)
PresetOf ==
  [worker |-> {<< <<"LOGFORMAT">> >>},
   server |-> {<< <<"LOGFORMAT">> >>, << <<"SERVER">>, <<"VAULTSFILEPATH">> >>}]
=============================================================================
