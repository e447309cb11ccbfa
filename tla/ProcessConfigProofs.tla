-------------------------- MODULE ProcessConfigProofs --------------------------
(* Proofs about the configuration, for any structs, variables and files:   *)
(* when the tags of every field lead getAllKeys and mapstructure to the    *)
(* same name, a process runs with what its operator asked for.             *)
EXTENDS ProcessConfig, TLAPS

Token == <<"VERIFIER", "TOKEN">>

(* The condition on the source: the tags of the structs. *)
StructsWellTagged ==
  \A p \in Programs : \A s \in Structs[p] : \A i \in DOMAIN s : WellTagged(s[i])

(* The struct holds what viper found. *)
ReadIsFound ==
  pc \notin {"start", "fatal"} => \A k \in Settings[program] : cfg[k] = Get(k)

(* What the worker's FeeConfig holds once it is put together, and what     *)
(* Validate let through.                                                   *)
AssembledIsRead ==
  program = "worker" /\ pc \in {"assembled", "running"} =>
    /\ fee[Token] = cfg[VerifierToken]
    /\ \A s \in Own : fee[s] = cfg[FeeSetting(s)]
    /\ pc = "running" => ~Empty(fee[Token])

OnlyWorkersAssemble == pc \in {"read", "assembled"} => program = "worker"

Inv == TypeOK /\ ReadIsFound /\ AssembledIsRead /\ OnlyWorkersAssemble

LEMMA CopiedSettings ==
  /\ VerifierToken \in Settings["worker"]
  /\ \A s \in Own : FeeSetting(s) \in Settings["worker"]
  /\ Token \in FeeSettings /\ Token \notin Own /\ Own \subseteq FeeSettings
BY ConfigAssumption DEF Token, FeeSettings, Own

LEMMA InitInv == Init => Inv
BY DEF Init, Inv, TypeOK, Sources, ReadIsFound, AssembledIsRead, OnlyWorkersAssemble

LEMMA ReadConfigInv == ASSUME Inv, ReadConfig PROVE Inv'
<1>1. \A k \in Settings[program] : cfg'[k] = Get(k) /\ Get(k)' = Get(k) /\ Get(k) \in Sources
  BY DEF ReadConfig, Get, Sources
<1>2. TypeOK'
  BY <1>1 DEF ReadConfig, Inv, TypeOK
<1>3. pc' = IF program = "worker" THEN "read" ELSE "running"
  BY DEF ReadConfig
<1>4. QED
  BY <1>1, <1>2, <1>3 DEF ReadConfig, Inv, ReadIsFound, AssembledIsRead, OnlyWorkersAssemble

LEMMA AssembleInv == ASSUME Inv, Assemble PROVE Inv'
<1>1. program = "worker" /\ pc' = "assembled" /\ UNCHANGED <<program, env, file, cfg>>
  BY DEF Assemble, Inv, OnlyWorkersAssemble
<1>2. fee'[Token] = cfg[VerifierToken] /\ \A s \in Own : fee'[s] = cfg[FeeSetting(s)]
  BY CopiedSettings DEF Assemble, Token
<1>3. fee' \in [FeeSettings -> Sources \cup {"builtin"}]
  <2>1. cfg[VerifierToken] \in Sources /\ \A s \in Own : cfg[FeeSetting(s)] \in Sources
    BY <1>1, CopiedSettings DEF Inv, TypeOK
  <2>2. \A s \in FeeSettings : DefaultFeeConfig[s] \in Sources \cup {"builtin"}
    BY DEF DefaultFeeConfig, Sources
  <2>3. QED BY <2>1, <2>2 DEF Assemble
<1>4. ReadIsFound'
  BY <1>1 DEF Assemble, Inv, ReadIsFound, Get
<1>5. QED BY <1>1, <1>2, <1>3, <1>4 DEF Inv, TypeOK, AssembledIsRead, OnlyWorkersAssemble

LEMMA ValidateInv == ASSUME Inv, Validate PROVE Inv'
<1>1. /\ pc = "assembled" /\ UNCHANGED <<program, env, file, cfg, fee>>
      /\ pc' = IF Empty(fee[Token]) THEN "fatal" ELSE "running"
  BY DEF Validate, Token
<1>2. ReadIsFound'
  BY <1>1 DEF Inv, ReadIsFound, Get
<1>3. AssembledIsRead'
  BY <1>1 DEF Inv, AssembledIsRead, Empty
<1>4. QED BY <1>1, <1>2, <1>3 DEF Inv, TypeOK, OnlyWorkersAssemble

LEMMA SpecInv == Spec => []Inv
<1>1. ASSUME Inv, ReadConfigFails PROVE Inv'
  BY <1>1 DEF ReadConfigFails, Inv, TypeOK, ReadIsFound, AssembledIsRead, OnlyWorkersAssemble
<1>2. ASSUME Inv, UNCHANGED vars PROVE Inv'
  BY <1>2 DEF vars, Inv, TypeOK, ReadIsFound, Get, AssembledIsRead, OnlyWorkersAssemble
<1>3. Inv /\ [Next]_vars => Inv'
  BY <1>1, <1>2, ReadConfigInv, AssembleInv, ValidateInv DEF Next
<1>4. QED BY <1>3, InitInv, PTL DEF Spec

(* Every variable keeps its type. *)
THEOREM TypeCorrect == Spec => []TypeOK
<1>1. Inv => TypeOK
  BY DEF Inv
<1>2. QED BY SpecInv, <1>1, PTL

LEMMA SameName ==
  ASSUME NEW f, WellTagged(f)
  PROVE  TagName(f) = DecodedName(f)
BY DEF WellTagged, TagName, DecodedName, NoTag, Dash

(* Then viper is told of every path that is decoded. *)
LEMMA AllRegistered ==
  ASSUME StructsWellTagged, NEW p \in Programs
  PROVE  Settings[p] \subseteq Registered[p]
<1>1. ASSUME NEW s \in Structs[p] PROVE Path(s) = Key(s)
  BY SameName DEF StructsWellTagged, Path, Key
<1>2. QED BY <1>1 DEF Settings, Registered

LEMMA FoundIsChosen ==
  ASSUME StructsWellTagged, Inv, NEW k \in Settings[program], Chosen(k)
  PROVE  Get(k) = Choice(k)
<1>1. program \in Programs
  BY DEF Inv, TypeOK
<1>2. k \in Registered[program]
  BY <1>1, AllRegistered
<1>3. QED BY <1>2 DEF Get, Choice, Chosen

(* ReadConfig is right about every struct whose tags agree: each setting   *)
(* can be set by the variable of its path and by the file.                 *)
THEOREM SettingsAreSettable ==
  ASSUME StructsWellTagged
  PROVE  Spec => []EverySettingIsSettable
<1>1. Inv => EverySettingIsSettable
  BY FoundIsChosen DEF Inv, ReadIsFound, EverySettingIsSettable
<1>2. QED BY SpecInv, <1>1, PTL

(* A worker runs with the token, the addresses and the provider that its   *)
(* operator set, and never without a token.                                *)
THEOREM WorkerRunsAsConfigured ==
  ASSUME StructsWellTagged
  PROVE  Spec => []RunsAsConfigured
<1>1. ASSUME Inv, pc = "running", program = "worker"
      PROVE  /\ Chosen(VerifierToken)
             /\ fee[Token] = Choice(VerifierToken)
             /\ \A s \in Own : Chosen(FeeSetting(s)) => fee[s] = Choice(FeeSetting(s))
  <2>1. /\ fee[Token] = Get(VerifierToken) /\ ~Empty(Get(VerifierToken))
        /\ \A s \in Own : fee[s] = Get(FeeSetting(s))
    BY <1>1, CopiedSettings DEF Inv, ReadIsFound, AssembledIsRead
  <2>2. Chosen(VerifierToken)
    BY <1>1, <2>1, ConfigAssumption DEF Get, Empty, Chosen
  <2>3. QED BY <1>1, <2>1, <2>2, CopiedSettings, FoundIsChosen
<1>2. Inv => RunsAsConfigured
  BY <1>1 DEF RunsAsConfigured, Token
<1>3. QED BY SpecInv, <1>2, PTL
=============================================================================
