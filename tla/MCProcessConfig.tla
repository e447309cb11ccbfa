---------------------------- MODULE MCProcessConfig ----------------------------
(* The structs of the repository.  MCEnvironments: none, any one or any    *)
(* two of the variables of the settings, and of two names no setting has.  *)
(* MCManifests: all variables that the manifests deploy/01_worker.yaml and *)
(* deploy/01_server.yaml set.                                              *)
EXTENDS ProcessConfig

LOCAL Code == INSTANCE ConfigStructs

MCStructs == Code!ConfigOf
MCPresets == Code!PresetOf

MCInFile == {VerifierToken, FeeSetting(<<"TREASURY", "ADDRESS">>), <<<<"SERVER">>, <<"PORT">>>>}

MCEnvironments ==
  [p \in Programs |->
     LET variables == {EnvName(k) : k \in Settings[p]}
                      \cup {<<"METRICS", "ENABLED">>, <<"METRICS", "PORT">>}
     IN {{v, w} : v, w \in variables} \cup {{}}]

BlockStorageVariables ==
  {<<"BLOCK", "STORAGE", "HOST">>, <<"BLOCK", "STORAGE", "REGION">>,
   <<"BLOCK", "STORAGE", "ACCESS", "KEY">>, <<"BLOCK", "STORAGE", "SECRET">>,
   <<"BLOCK", "STORAGE", "BUCKET">>}

Shared ==
  BlockStorageVariables \cup
  {<<"DATABASE", "DSN">>, <<"REDIS", "URI">>, <<"VERIFIER", "TOKEN">>,
   <<"METRICS", "ENABLED">>, <<"METRICS", "PORT">>, <<"LOG", "FORMAT">>}

MCManifests ==
  [worker |->
     {Shared \cup
      {<<"HEALTH", "PORT">>, <<"PROCESSING", "INTERVAL">>,
       <<"VAULT", "SERVICE", "RELAY", "SERVER">>,
       <<"VAULT", "SERVICE", "LOCAL", "PARTY", "PREFIX">>,
       <<"VAULT", "SERVICE", "ENCRYPTION", "SECRET">>,
       <<"VAULT", "SERVICE", "DO", "SETUP", "MSG">>,
       <<"VERIFIER", "URL">>, <<"VERIFIER", "PARTY", "PREFIX">>,
       <<"FEE", "CONFIG", "ETH", "PROVIDER">>, <<"FEE", "CONFIG", "USDC", "ADDRESS">>,
       <<"FEE", "CONFIG", "TREASURY", "ADDRESS">>}},
   server |->
     {Shared \cup
      {<<"SERVER", "HOST">>, <<"SERVER", "PORT">>, <<"SERVER", "ENCRYPTIONSECRET">>}}]

(* The tags of the two structs. *)
ASSUME StructsAreWellTagged ==
  \A p \in Programs : \A s \in MCStructs[p] : \A i \in DOMAIN s : WellTagged(s[i])

(* No variable sets two settings of a program. *)
ASSUME VariablesApart ==
  \A p \in Programs : \A k, l \in Settings[p] : EnvName(k) = EnvName(l) => k = l
=============================================================================
