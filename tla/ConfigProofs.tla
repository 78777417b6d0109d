----------------------------- MODULE ConfigProofs -----------------------------
(***************************************************************************)
(* The properties of Config, proved for all files, environments, options,  *)
(* names and MACs.                                                         *)
(*                                                                         *)
(* The invariant says for every step of the way what the configuration is  *)
(* made of (Stages), in terms of the file and the environment alone, and   *)
(* where these come from; the properties follow from its last stage and    *)
(* from what a list is after its blank entries have been dropped.          *)
(***************************************************************************)
EXTENDS Config, FiniteSetTheorems, SequenceTheorems, TLAPS

\* The rank of an element grows with it.
LEMMA UpToGrows ==
  ASSUME NEW set \in SUBSET Nat, IsFiniteSet(set), NEW i \in set
  PROVE  /\ IsFiniteSet(upTo(set, i))
         /\ Cardinality(upTo(set, i)) \in 1..Cardinality(set)
         /\ \A k \in set : i < k => Cardinality(upTo(set, i)) < Cardinality(upTo(set, k))
<1>1. upTo(set, i) \in SUBSET set /\ i \in upTo(set, i)
  BY DEF upTo
<1>2. /\ IsFiniteSet(upTo(set, i)) /\ Cardinality(upTo(set, i)) <= Cardinality(set)
      /\ Cardinality(set) \in Nat
  BY <1>1, FS_Subset, FS_CardinalityType
<1>3. Cardinality(upTo(set, i)) \in Nat /\ Cardinality(upTo(set, i)) # 0
  BY <1>1, <1>2, FS_CardinalityType, FS_EmptySet
<1>4. ASSUME NEW k \in set, i < k
      PROVE  Cardinality(upTo(set, i)) < Cardinality(upTo(set, k))
  <2> i \in Nat /\ k \in Nat
    OBVIOUS
  <2>1. upTo(set, i) \in SUBSET upTo(set, k)
    <3> SUFFICES ASSUME NEW j \in set, j <= i PROVE j <= k
      BY DEF upTo
    <3>1. j \in Nat
      OBVIOUS
    <3> QED BY <1>4, <3>1
  <2>2. k \in upTo(set, k) /\ k \notin upTo(set, i)
    BY <1>4 DEF upTo
  <2>3. upTo(set, k) \in SUBSET set
    BY DEF upTo
  <2>4. IsFiniteSet(upTo(set, k)) /\ Cardinality(upTo(set, k)) \in Nat
    BY <2>3, FS_Subset, FS_CardinalityType
  <2>5. /\ Cardinality(upTo(set, i)) <= Cardinality(upTo(set, k))
        /\ Cardinality(upTo(set, k)) # Cardinality(upTo(set, i))
    BY <2>1, <2>2, <2>4, FS_Subset
  <2> QED BY <1>3, <2>4, <2>5
<1> QED BY <1>2, <1>3, <1>4

\* Every rank that a finite set of naturals has belongs to one of its elements.
LEMMA NthOfSet ==
  ASSUME NEW set \in SUBSET Nat, IsFiniteSet(set), NEW n \in 1..Cardinality(set)
  PROVE  nth(set, n) \in set /\ Cardinality(upTo(set, nth(set, n))) = n
<1> DEFINE rank == [i \in set |-> Cardinality(upTo(set, i))]
<1> DEFINE Ranks == 1..Cardinality(set)
<1>1. Cardinality(set) \in Nat
  BY FS_CardinalityType
<1>2. rank \in Injection(set, Ranks)
  <2>1. rank \in [set -> Ranks]
    BY UpToGrows
  <2>2. ASSUME NEW i \in set, NEW k \in set, rank[i] = rank[k] PROVE i = k
    <3>1. /\ Cardinality(upTo(set, i)) = Cardinality(upTo(set, k))
          /\ i \in Nat /\ k \in Nat /\ Cardinality(upTo(set, i)) \in Nat
      BY <1>1, <2>2, UpToGrows
    <3>2. ~(i < k) /\ ~(k < i)
      BY <3>1, UpToGrows
    <3> QED BY <3>1, <3>2
  <2>3. IsInjective(rank)
    BY <2>2 DEF IsInjective
  <2> QED BY <2>1, <2>3 DEF Injection
<1>3. IsFiniteSet(Ranks) /\ Cardinality(Ranks) = Cardinality(set)
  BY <1>1, FS_Interval
<1>4. rank \in Surjection(set, Ranks)
  BY <1>2, <1>3, FS_Injection
<1>5. \E i \in set : Cardinality(upTo(set, i)) = n
  BY <1>4 DEF Surjection
<1> QED BY <1>5 DEF nth

\* Selecting from a list gives a list of its elements, those at the places
\* selected; selecting everything gives the list.
LEMMA SubsequenceOf ==
  ASSUME NEW S, NEW s \in Seq(S), NEW places \in SUBSET DOMAIN s
  PROVE  /\ subsequence(s, places) \in Seq(S)
         /\ DOMAIN subsequence(s, places) = 1..Cardinality(places)
         /\ Cardinality(places) \in Nat
         /\ \A n \in DOMAIN subsequence(s, places) :
              /\ nth(places, n) \in places
              /\ subsequence(s, places)[n] = s[nth(places, n)]
<1>1. DOMAIN s = 1..Len(s) /\ Len(s) \in Nat
  BY LenProperties
<1>2. places \in SUBSET Nat /\ IsFiniteSet(places) /\ Cardinality(places) \in Nat
  <2>1. PICK k \in Nat : DOMAIN s = 1..k
    BY <1>1
  <2>2. IsFiniteSet(1..k) /\ 1..k \in SUBSET Nat
    BY FS_Interval
  <2>3. places \in SUBSET (1..k)
    BY <2>1
  <2>4. IsFiniteSet(places)
    BY <2>2, <2>3, FS_Subset
  <2> QED BY <2>2, <2>3, <2>4, FS_CardinalityType
<1>3. \A n \in 1..Cardinality(places) : nth(places, n) \in places
  BY <1>2, NthOfSet
<1>4. \A n \in 1..Cardinality(places) : s[nth(places, n)] \in S
  BY <1>3
<1>5. subsequence(s, places) \in [1..Cardinality(places) -> S]
  BY <1>4 DEF subsequence
<1>6. subsequence(s, places) \in Seq(S)
  BY <1>2, <1>5
<1> QED BY <1>2, <1>3, <1>6 DEF subsequence

LEMMA SubsequenceWhole ==
  ASSUME NEW S, NEW s \in Seq(S)
  PROVE  subsequence(s, DOMAIN s) = s
<1>1. DOMAIN s = 1..Len(s) /\ Len(s) \in Nat
  BY LenProperties
<1>2. PICK k \in Nat : k = Len(s)
  BY <1>1
<1>3. 1..k \in SUBSET Nat /\ IsFiniteSet(1..k) /\ Cardinality(1..k) = k
  BY FS_Interval
<1>4. ASSUME NEW n \in 1..k PROVE nth(1..k, n) = n
  <2>1. nth(1..k, n) \in 1..k /\ Cardinality(upTo(1..k, nth(1..k, n))) = n
    BY <1>3, NthOfSet
  <2>2. PICK i \in 1..k : i = nth(1..k, n)
    BY <2>1
  <2>3. upTo(1..k, i) = 1..i
    BY DEF upTo
  <2>4. Cardinality(1..i) = i
    BY FS_Interval
  <2> QED BY <2>1, <2>2, <2>3, <2>4
<1>5. subsequence(s, 1..k) = [n \in 1..k |-> s[n]]
  BY <1>3, <1>4 DEF subsequence
<1>6. s = [n \in 1..k |-> s[n]]
  BY <1>1, <1>2
<1> QED BY <1>1, <1>2, <1>5, <1>6

----------------------------------------------------------------------------
\* Dropping blank items leaves a list, and doing it twice changes nothing more.
LEMMA WithoutBlanks ==
  ASSUME NEW items \in Seq(MACs)
  PROVE  /\ withoutBlanks(items) \in Seq(MACs)
         /\ withoutBlanks(withoutBlanks(items)) = withoutBlanks(items)
<1> DEFINE places == {i \in DOMAIN items : items[i] # Blank}
<1> DEFINE left == withoutBlanks(items)
<1>1. places \in SUBSET DOMAIN items /\ left = subsequence(items, places)
  BY DEF withoutBlanks
<1>2. /\ left \in Seq(MACs)
      /\ \A n \in DOMAIN left : nth(places, n) \in places /\ left[n] = items[nth(places, n)]
  <2> HIDE DEF places, left
  <2> QED BY <1>1, SubsequenceOf
<1>3. {i \in DOMAIN left : left[i] # Blank} = DOMAIN left
  BY <1>2
<1>4. withoutBlanks(left) = subsequence(left, DOMAIN left)
  <2> HIDE DEF left
  <2> QED BY <1>3 DEF withoutBlanks
<1>5. withoutBlanks(left) = left
  <2> HIDE DEF left
  <2> QED BY <1>2, <1>4, SubsequenceWhole
<1> QED BY <1>2, <1>5

LEMMA WithMAC ==
  ASSUME NEW S, NEW list \in Seq(S)
  PROVE  withMAC(list) \in Seq(S)
<1> DEFINE places == {i \in DOMAIN list : list[i].mac # Blank}
<1>1. places \in SUBSET DOMAIN list /\ withMAC(list) = subsequence(list, places)
  BY DEF withMAC
<1> HIDE DEF places
<1> QED BY <1>1, SubsequenceOf

\* The devices of a list of MACs have the MACs that are not blank.
LEMMA FromMACs ==
  ASSUME NEW macs \in Seq(MACs)
  PROVE  /\ fromMACs(macs) \in Seq([name : Nat, mac : MACs, interface : {"unset"},
                                    broadcast_ip : {"unset"}, port : {"unset"}])
         /\ macsOf(fromMACs(macs)) = withoutBlanks(macs)
<1> DEFINE Nameless == [name : Nat, mac : MACs, interface : {"unset"},
                        broadcast_ip : {"unset"}, port : {"unset"}]
<1> DEFINE places == {i \in DOMAIN macs : macs[i] # Blank}
<1> DEFINE left == withoutBlanks(macs)
<1>1. places \in SUBSET DOMAIN macs /\ left = subsequence(macs, places)
  BY DEF withoutBlanks
<1>2. DOMAIN macs \in SUBSET Nat
  BY LenProperties
<1>3. /\ left \in Seq(MACs) /\ Cardinality(places) \in Nat
      /\ DOMAIN left = 1..Cardinality(places)
      /\ \A n \in DOMAIN left : nth(places, n) \in places /\ left[n] = macs[nth(places, n)]
  <2> HIDE DEF places, left
  <2> QED BY <1>1, SubsequenceOf
<1>4. PICK k \in Nat : k = Cardinality(places)
  BY <1>3
<1>5. fromMACs(macs) =
        [n \in 1..k |-> [name |-> nth(places, n), mac |-> macs[nth(places, n)],
                         interface |-> "unset", broadcast_ip |-> "unset",
                         port |-> "unset"]]
  BY <1>4 DEF fromMACs
<1>6. ASSUME NEW n \in 1..k
      PROVE  nth(places, n) \in Nat /\ macs[nth(places, n)] \in MACs
  <2>1. n \in DOMAIN left
    BY <1>3, <1>4
  <2>2. nth(places, n) \in DOMAIN macs
    BY <1>1, <1>3, <2>1
  <2> QED BY <1>2, <2>2
<1> HIDE DEF places, left
<1>7. fromMACs(macs) \in [1..k -> Nameless]
  BY <1>5, <1>6
<1>8. fromMACs(macs) \in Seq(Nameless)
  <2> HIDE DEF Nameless
  <2> QED BY <1>7
<1>9. macsOf(fromMACs(macs)) = [n \in 1..k |-> macs[nth(places, n)]]
  BY <1>5 DEF macsOf
<1>10. left = [n \in 1..k |-> macs[nth(places, n)]]
  <2>1. left = subsequence(macs, places)
    BY <1>1
  <2> QED BY <1>4, <2>1 DEF subsequence
<1> QED BY <1>8, <1>9, <1>10 DEF left

----------------------------------------------------------------------------
\* What the configuration is made of after each step, in terms of the inputs.
source == IF file = Missing THEN emptyConfig ELSE unmarshal(file)

filledValue == [s \in Settings |->
  IF s \in HasDefault /\ source.value[s] = "unset" THEN "default" ELSE source.value[s]]

filledFlag == [source.flag EXCEPT !["drop_pending"] = TRUE]

finalValue == [s \in Settings |-> IF env.value[s] = "env" THEN "env" ELSE filledValue[s]]

finalFlag == [f \in Flags |-> CASE env.flag[f] = "true" -> TRUE
                                [] env.flag[f] = "false" -> FALSE
                                [] OTHER -> filledFlag[f]]

finalList == IF env.devices = <<>> THEN source.devices ELSE withMAC(env.devices)

finalMACs == IF env.macs = <<>> THEN source.macs ELSE withoutBlanks(env.macs)

base == IF finalList = <<>> THEN fromMACs(finalMACs) ELSE finalList

completed ==
    [i \in DOMAIN base |->
       [name |-> IF base[i].name = Blank THEN i ELSE base[i].name,
        mac |-> base[i].mac,
        interface |-> inherit(base[i].interface, finalValue["interface"]),
        broadcast_ip |-> inherit(base[i].broadcast_ip, finalValue["broadcast_ip"]),
        port |-> inherit(base[i].port, finalValue["wol_port"])]]

\* The configuration is complete, and has been used or refused.
assembled ==
    \/ pc \in {"validate", "buildRunners"}
    \/ running
    \/ outcome = "config error" /\ file # Broken
    \/ outcome = "no runtime enabled"

Stages ==
    /\ pc \in {"start_service", "Load"} => cfg = emptyConfig
    /\ pc = "applyDefaults" => cfg = source
    /\ pc = "applyEnv" =>
         cfg = [value |-> filledValue, flag |-> filledFlag,
                devices |-> source.devices, macs |-> source.macs]
    /\ pc = "normalizeDevices" =>
         cfg = [value |-> finalValue, flag |-> finalFlag,
                devices |-> finalList, macs |-> finalMACs]
    /\ assembled =>
         cfg = [value |-> finalValue, flag |-> finalFlag,
                devices |-> completed, macs |-> macsOf(withMAC(completed))]

Functions == {"start_service", "Load", "applyDefaults", "applyEnv",
              "normalizeDevices", "validate", "buildRunners", "end"}

Outcomes == {"none", "running", "service disabled", "config error",
             "no runtime enabled", "build runners failed"}

Types ==
    /\ file \in Files
    /\ env \in Inputs({"unset", "bad", "env"}, {"unset", "bad", "true", "false"})
    /\ pc \in Functions
    /\ outcome \in Outcomes
    /\ cfg.value \in [Settings -> {"unset", "default", "file", "env"}]
    /\ cfg.flag \in [Flags -> BOOLEAN]

\* Where the inputs come from.
Origins ==
    /\ pc \notin {"start_service", "Load", "end"} \/ assembled => file # Broken
    /\ pc = "start_service" => options \in Options /\ env = emptyEnv
    /\ options # <<>> => /\ options \in Options
                         /\ pc \notin {"start_service", "end"} \/ running =>
                              env = serviceEnv(options)

\* What runs has been checked, and what does not run was refused for a reason.
Started ==
    /\ pc # "end" => outcome = "none"
    /\ pc = "buildRunners" \/ running => valid
    /\ runners = IF running THEN {r \in RunnerNames : Active(r)} ELSE {}
    /\ running => runners # {}
    /\ outcome = "config error" /\ file # Broken => ~valid
    /\ outcome = "no runtime enabled" => \A r \in RunnerNames : ~Active(r)

Inv == Types /\ Origins /\ Started /\ Stages

----------------------------------------------------------------------------
LEMMA EmptyInputs ==
  /\ emptyConfig \in Inputs({"unset", "file"}, BOOLEAN)
  /\ emptyEnv \in Inputs({"unset", "bad", "env"}, {"unset", "bad", "true", "false"})
<1>1. <<>> \in Seq(Device) /\ <<>> \in Seq(MACs)
  OBVIOUS
<1> QED BY <1>1 DEF emptyConfig, emptyEnv, Inputs

LEMMA SourceType ==
  ASSUME Types, file # Broken
  PROVE  source \in Inputs({"unset", "file"}, BOOLEAN)
<1>1. CASE file = Missing
  BY <1>1, EmptyInputs DEF source
<1>2. CASE file # Missing
  <2>1. file \in Inputs({"unset", "file"}, {"unset", "true", "false"})
    BY <1>2, InputAssumption DEF Types
  <2> QED BY <1>2, <2>1 DEF source, unmarshal, Inputs
<1> QED BY <1>1, <1>2

LEMMA SettingNames ==
  /\ HasDefault \subseteq Settings
  /\ "drop_pending" \in Flags
BY DEF HasDefault, Settings, Strings, Numbers, Flags

\* The values and flags of each stage are of their type.
LEMMA StageTypes ==
  ASSUME Types, file # Broken
  PROVE  /\ filledValue \in [Settings -> {"unset", "default", "file"}]
         /\ filledFlag \in [Flags -> BOOLEAN]
         /\ finalValue \in [Settings -> {"unset", "default", "file", "env"}]
         /\ finalFlag \in [Flags -> BOOLEAN]
<1>1. source.value \in [Settings -> {"unset", "file"}] /\ source.flag \in [Flags -> BOOLEAN]
  BY SourceType DEF Inputs
<1>2. \A s \in Settings : source.value[s] \in {"unset", "file"}
  BY <1>1
<1>3. filledValue \in [Settings -> {"unset", "default", "file"}]
  BY <1>2 DEF filledValue
<1>4. filledFlag \in [Flags -> BOOLEAN]
  BY <1>1 DEF filledFlag
<1>5. finalValue \in [Settings -> {"unset", "default", "file", "env"}]
  <2>1. \A s \in Settings : filledValue[s] \in {"unset", "default", "file", "env"}
    BY <1>3
  <2> QED BY <2>1 DEF finalValue
<1>6. finalFlag \in [Flags -> BOOLEAN]
  <2>1. \A f \in Flags : filledFlag[f] \in BOOLEAN
    BY <1>4
  <2> QED BY <2>1 DEF finalFlag
<1> QED BY <1>3, <1>4, <1>5, <1>6

\* The stages depend on the inputs only.
LEMMA SameInputs ==
  ASSUME file' = file, env' = env
  PROVE  /\ source' = source
         /\ filledValue' = filledValue /\ filledFlag' = filledFlag
         /\ finalValue' = finalValue /\ finalFlag' = finalFlag
         /\ finalList' = finalList /\ finalMACs' = finalMACs
         /\ base' = base /\ completed' = completed
<1>1. source' = source
  BY DEF source, unmarshal
<1>2. filledValue' = filledValue /\ filledFlag' = filledFlag
  BY <1>1 DEF filledValue, filledFlag
<1>3. finalValue' = finalValue /\ finalFlag' = finalFlag
  BY <1>2 DEF finalValue, finalFlag
<1>4. finalList' = finalList /\ finalMACs' = finalMACs
  BY <1>1 DEF finalList, finalMACs
<1>5. base' = base
  BY <1>4 DEF base
<1>6. completed' = completed
  BY <1>3, <1>5 DEF completed
<1> QED BY <1>1, <1>2, <1>3, <1>4, <1>5, <1>6

LEMMA InvInit == Init => Inv
<1> SUFFICES ASSUME Init PROVE Inv
  OBVIOUS
<1>1. Types
  <2>1. env \in Inputs({"unset", "bad", "env"}, {"unset", "bad", "true", "false"})
    BY EmptyInputs, InputAssumption DEF Init
  <2>2. /\ emptyConfig.value \in [Settings -> {"unset", "default", "file", "env"}]
        /\ emptyConfig.flag \in [Flags -> BOOLEAN]
    BY DEF emptyConfig
  <2> QED BY <2>1, <2>2 DEF Init, Types, Functions, Outcomes
<1>2. Origins /\ Started /\ Stages
  BY DEF Init, Origins, Started, Stages, assembled, running
<1> QED BY <1>1, <1>2 DEF Inv

\* The service's environment is one.
LEMMA ServiceEnvType ==
  ASSUME NEW o \in Options
  PROVE  serviceEnv(o) \in Inputs({"unset", "bad", "env"}, {"unset", "bad", "true", "false"})
<1>1. o.devices \in Seq(Device) /\ o.macs \in Seq(MACs)
  BY InputAssumption
<1>2. withMAC(o.devices) \in Seq(Device) /\ withoutBlanks(o.macs) \in Seq(MACs)
  BY <1>1, WithMAC, WithoutBlanks
<1>3. \A b : switch(b) \in {"unset", "bad", "true", "false"}
  BY DEF switch
<1> QED BY <1>2, <1>3 DEF serviceEnv, Inputs

LEMMA StartServiceStep ==
  ASSUME Inv, StartService
  PROVE  Inv'
<1> USE DEF Inv
<1>1. /\ pc = "start_service" /\ options \in Options /\ cfg = emptyConfig
      /\ UNCHANGED <<file, options, cfg>> /\ UNCHANGED runners
      /\ outcome = "none" /\ runners = {}
  BY DEF StartService, goto, fail, Origins, Stages, Started, assembled, running
<1>2. CASE options.enabled
  <2>1. env' = serviceEnv(options) /\ pc' = "Load" /\ outcome' = outcome
    BY <1>2 DEF StartService, goto
  <2>2. Types'
    BY <1>1, <2>1, ServiceEnvType DEF Types, Functions
  <2> QED BY <1>1, <2>1, <2>2 DEF Origins, Started, Stages, assembled, running
<1>3. CASE ~options.enabled
  <2>1. env' = env /\ pc' = "end" /\ outcome' = "service disabled"
    BY <1>3 DEF StartService, fail
  <2>2. Types'
    BY <1>1, <2>1 DEF Types, Functions, Outcomes
  <2> QED BY <1>1, <2>1, <2>2 DEF Origins, Started, Stages, assembled, running
<1> QED BY <1>2, <1>3

LEMMA ReadFileStep ==
  ASSUME Inv, ReadFile
  PROVE  Inv'
<1> USE DEF Inv
<1>1. /\ pc = "Load" /\ cfg = emptyConfig /\ UNCHANGED <<file, options, env, runners>>
      /\ outcome = "none" /\ runners = {}
  BY DEF ReadFile, goto, fail, Stages, Started, assembled, running
<1>2. CASE file = Broken
  <2>1. cfg' = cfg /\ pc' = "end" /\ outcome' = "config error"
    BY <1>2 DEF ReadFile, fail
  <2>2. Types'
    BY <1>1, <2>1 DEF Types, Functions, Outcomes
  <2> QED BY <1>1, <1>2, <2>1, <2>2 DEF Origins, Started, Stages, assembled, running
<1>3. CASE file # Broken
  <2>1. cfg' = source /\ pc' = "applyDefaults" /\ outcome' = outcome
    BY <1>3 DEF ReadFile, goto, source
  <2>2. /\ source.value \in [Settings -> {"unset", "default", "file", "env"}]
        /\ source.flag \in [Flags -> BOOLEAN]
    BY <1>3, SourceType DEF Inputs
  <2>3. Types'
    BY <1>1, <2>1, <2>2 DEF Types, Functions
  <2> QED BY <1>1, <1>3, <2>1, <2>3, SameInputs DEF Origins, Started, Stages, assembled, running
<1> QED BY <1>2, <1>3

LEMMA ApplyDefaultsStep ==
  ASSUME Inv, ApplyDefaults
  PROVE  Inv'
<1> USE DEF Inv
<1>1. /\ pc = "applyDefaults" /\ cfg = source /\ file # Broken
      /\ UNCHANGED <<file, options, env, runners, outcome>> /\ pc' = "applyEnv"
      /\ outcome = "none" /\ runners = {}
  BY DEF ApplyDefaults, goto, Stages, Started, Origins, assembled, running
<1>2. source \in Inputs({"unset", "file"}, BOOLEAN)
  BY <1>1, SourceType
<1>3. cfg' = [value |-> filledValue, flag |-> filledFlag,
              devices |-> source.devices, macs |-> source.macs]
  BY <1>1, <1>2 DEF ApplyDefaults, Inputs, filledValue, filledFlag
<1>4. Types'
  <2>1. filledValue \in [Settings -> {"unset", "default", "file", "env"}]
    BY <1>1, StageTypes
  <2> QED BY <1>1, <1>3, <2>1, StageTypes DEF Types, Functions
<1>5. Stages'
  BY <1>1, <1>3, SameInputs DEF Stages, assembled, running
<1> QED BY <1>1, <1>4, <1>5 DEF Origins, Started, assembled, running

LEMMA ApplyEnvStep ==
  ASSUME Inv, ApplyEnv
  PROVE  Inv'
<1> USE DEF Inv
<1>1. /\ pc = "applyEnv" /\ file # Broken
      /\ cfg = [value |-> filledValue, flag |-> filledFlag,
                devices |-> source.devices, macs |-> source.macs]
      /\ UNCHANGED <<file, options, env, runners, outcome>> /\ pc' = "normalizeDevices"
      /\ outcome = "none" /\ runners = {}
  BY DEF ApplyEnv, goto, Stages, Started, Origins, assembled, running
<1>2. cfg' = [value |-> finalValue, flag |-> finalFlag,
              devices |-> finalList, macs |-> finalMACs]
  BY <1>1 DEF ApplyEnv, overrides, envBool, parseDevices, splitCSV,
              finalValue, finalFlag, finalList, finalMACs
<1>3. Types'
  BY <1>1, <1>2, StageTypes DEF Types, Functions
<1>4. Stages'
  BY <1>1, <1>2, SameInputs DEF Stages, assembled, running
<1> QED BY <1>1, <1>3, <1>4 DEF Origins, Started, assembled, running

LEMMA NormalizeDevicesStep ==
  ASSUME Inv, NormalizeDevices
  PROVE  Inv'
<1> USE DEF Inv
<1>1. /\ pc = "normalizeDevices" /\ file # Broken
      /\ cfg = [value |-> finalValue, flag |-> finalFlag,
                devices |-> finalList, macs |-> finalMACs]
      /\ UNCHANGED <<file, options, env, runners, outcome>> /\ pc' = "validate"
      /\ outcome = "none" /\ runners = {}
  BY DEF NormalizeDevices, goto, Stages, Started, Origins, assembled, running
<1>2. baseDevices = base
  BY <1>1 DEF baseDevices, base
<1>3. [i \in DOMAIN baseDevices |-> complete(baseDevices[i], i)] = completed
  BY <1>1, <1>2 DEF complete, completed
<1>4. cfg' = [value |-> finalValue, flag |-> finalFlag,
              devices |-> completed, macs |-> macsOf(withMAC(completed))]
  BY <1>1, <1>3 DEF NormalizeDevices
<1>5. Types'
  BY <1>1, <1>4, StageTypes DEF Types, Functions
<1>6. Stages'
  <2>1. macsOf(withMAC(completed))' = macsOf(withMAC(completed))
    BY <1>1, SameInputs DEF macsOf, withMAC
  <2> QED BY <1>1, <1>4, <2>1, SameInputs DEF Stages, assembled, running
<1> QED BY <1>1, <1>5, <1>6 DEF Origins, Started, assembled, running

\* What is read of the configuration does not change with the function called.
LEMMA SameConfig ==
  ASSUME UNCHANGED <<file, options, env, cfg>>, Stages, Types, Origins
  PROVE  /\ valid' = valid
         /\ \A r \in RunnerNames : Active(r)' = Active(r)
         /\ completed' = completed
         /\ pc \in {"validate", "buildRunners"} =>
              cfg' = [value |-> finalValue', flag |-> finalFlag',
                      devices |-> completed', macs |-> macsOf(withMAC(completed))']
         /\ serviceEnv(options)' = serviceEnv(options)
<1>1. \A r \in RunnerNames : Active(r)' = Active(r)
  BY DEF Active, isSet
<1>2. completed' = completed /\ finalValue' = finalValue /\ finalFlag' = finalFlag
  BY SameInputs
<1>3. valid' = valid
  BY DEF valid, Active, isSet, NeedsWoL
<1>4. macsOf(withMAC(completed))' = macsOf(withMAC(completed))
  BY <1>2 DEF macsOf, withMAC
<1>5. serviceEnv(options)' = serviceEnv(options)
  OBVIOUS
<1> QED BY <1>1, <1>2, <1>3, <1>4, <1>5 DEF Stages, assembled

LEMMA ValidateStep ==
  ASSUME Inv, Validate
  PROVE  Inv'
<1> USE DEF Inv
<1>1. /\ pc = "validate" /\ file # Broken
      /\ UNCHANGED <<file, options, env, cfg, runners>>
      /\ outcome = "none" /\ runners = {}
  BY DEF Validate, goto, fail, Started, Origins, assembled, running
<1>2. CASE valid
  <2>1. pc' = "buildRunners" /\ outcome' = outcome
    BY <1>2 DEF Validate, goto
  <2>2. Types'
    BY <1>1, <2>1 DEF Types, Functions
  <2>3. Stages'
    BY <1>1, <2>1, SameConfig DEF Stages, assembled, running
  <2> QED BY <1>1, <1>2, <2>1, <2>2, <2>3, SameConfig DEF Origins, Started, assembled, running
<1>3. CASE ~valid
  <2>1. pc' = "end" /\ outcome' = "config error" /\ ~valid'
    <3>1. valid' = valid
      BY <1>1, SameConfig
    <3>2. pc' = "end" /\ outcome' = "config error"
      BY <1>3 DEF Validate, fail
    <3> QED BY <1>3, <3>1, <3>2
  <2>2. Types'
    BY <1>1, <2>1 DEF Types, Functions, Outcomes
  <2>3. Stages'
    BY <1>1, <2>1, SameConfig DEF Stages, assembled, running
  <2> QED BY <1>1, <2>1, <2>2, <2>3 DEF Origins, Started, assembled, running
<1> QED BY <1>2, <1>3

LEMMA BuildRunnersStep ==
  ASSUME Inv, BuildRunners
  PROVE  Inv'
<1> USE DEF Inv
<1>1. /\ pc = "buildRunners" /\ file # Broken /\ valid
      /\ UNCHANGED <<file, options, env, cfg>> /\ pc' = "end"
      /\ runners' = {r \in RunnerNames : Active(r)}
      /\ outcome' = IF runners' = {} THEN "no runtime enabled" ELSE "running"
  BY DEF BuildRunners, Started, Origins, assembled, running
<1>2. Types'
  BY <1>1 DEF Types, Functions, Outcomes
<1>3. Stages'
  BY <1>1, SameConfig DEF Stages, assembled, running
<1>4. runners' = {r \in RunnerNames : Active(r)'}
  BY <1>1, SameConfig
<1>5. Started'
  BY <1>1, <1>4, SameConfig DEF Started, running
<1> QED BY <1>1, <1>2, <1>3, <1>5, SameConfig DEF Origins, assembled, running

LEMMA BuildFailsStep ==
  ASSUME Inv, BuildFails
  PROVE  Inv'
<1> USE DEF Inv
<1>1. /\ UNCHANGED <<file, options, env, cfg, runners>>
      /\ pc' = "end" /\ outcome' = "build runners failed" /\ runners = {}
  BY DEF BuildFails, fail, Started, running
<1>2. Types'
  BY <1>1 DEF Types, Functions, Outcomes
<1> QED BY <1>1, <1>2 DEF Origins, Started, Stages, assembled, running

LEMMA QuietStep ==
  ASSUME Inv, UNCHANGED vars
  PROVE  Inv'
<1> USE DEF Inv
<1>1. UNCHANGED <<file, options, env, cfg, pc, outcome, runners>>
  BY DEF vars
<1>2. Types'
  BY <1>1 DEF Types
<1>3. Stages'
  <2>1. macsOf(withMAC(completed))' = macsOf(withMAC(completed))
    BY <1>1, SameInputs DEF macsOf, withMAC
  <2> QED BY <1>1, <2>1, SameInputs DEF Stages, assembled, running
<1>4. Started'
  <2>1. {r \in RunnerNames : Active(r)}' = {r \in RunnerNames : Active(r)}
    BY <1>1, SameConfig
  <2>2. (\A r \in RunnerNames : ~Active(r))' <=> \A r \in RunnerNames : ~Active(r)
    BY <1>1, SameConfig
  <2>3. valid' = valid /\ UNCHANGED <<file, pc, outcome, runners>>
    BY <1>1, SameConfig
  <2> QED BY <2>1, <2>2, <2>3 DEF Started, running
<1> QED BY <1>1, <1>2, <1>3, <1>4 DEF Origins, assembled, running

LEMMA InvStep == Inv /\ [Next]_vars => Inv'
<1> SUFFICES ASSUME Inv, [Next]_vars PROVE Inv'
  OBVIOUS
<1>1. CASE StartService
  BY <1>1, StartServiceStep
<1>2. CASE ReadFile
  BY <1>2, ReadFileStep
<1>3. CASE ApplyDefaults
  BY <1>3, ApplyDefaultsStep
<1>4. CASE ApplyEnv
  BY <1>4, ApplyEnvStep
<1>5. CASE NormalizeDevices
  BY <1>5, NormalizeDevicesStep
<1>6. CASE Validate
  BY <1>6, ValidateStep
<1>7. CASE BuildRunners
  BY <1>7, BuildRunnersStep
<1>8. CASE BuildFails
  BY <1>8, BuildFailsStep
<1>9. CASE End \/ UNCHANGED vars
  BY <1>9, QuietStep DEF End
<1> QED BY <1>1, <1>2, <1>3, <1>4, <1>5, <1>6, <1>7, <1>8, <1>9 DEF Next

\* Each step of the start makes of the configuration what its function says,
\* from the inputs that the process has (Load, buildRunners).
THEOREM ConfigInvariant == Spec => []Inv
BY InvInit, InvStep, PTL DEF Spec

----------------------------------------------------------------------------
\* The devices of a configuration that is completed: named, each with the
\* MAC it had, and with what it says itself or what is common to all.
LEMMA CompletedDevices ==
  ASSUME Types, file # Broken
  PROVE  /\ \A i \in DOMAIN completed :
              /\ completed[i].name # Blank
              /\ completed[i].interface \in {"own", finalValue["interface"]}
              /\ completed[i].broadcast_ip \in {"own", finalValue["broadcast_ip"]}
              /\ completed[i].port \in {"own", finalValue["wol_port"]}
         /\ macsOf(completed) = macsOf(base)
<1>1. source.devices \in Seq(Device) /\ source.macs \in Seq(MACs)
  BY SourceType DEF Inputs
<1>2. env.devices \in Seq(Device) /\ env.macs \in Seq(MACs)
  BY DEF Types, Inputs
<1>3. finalList \in Seq(Device)
  BY <1>1, <1>2, WithMAC DEF finalList
<1>4. finalMACs \in Seq(MACs)
  BY <1>1, <1>2, WithoutBlanks DEF finalMACs
<1>5. \A i \in DOMAIN base : /\ i \in Nat
                             /\ base[i].interface \in {"own", "unset"}
                             /\ base[i].broadcast_ip \in {"own", "unset"}
                             /\ base[i].port \in {"own", "unset"}
  <2>1. CASE finalList = <<>>
    <3> DEFINE Nameless == [name : Nat, mac : MACs, interface : {"unset"},
                            broadcast_ip : {"unset"}, port : {"unset"}]
    <3>1. PICK list \in Seq(Nameless) : list = fromMACs(finalMACs)
      BY <1>4, FromMACs
    <3>2. base = list
      BY <2>1, <3>1 DEF base
    <3>3. \A i \in DOMAIN list : i \in Nat /\ list[i] \in Nameless
      <4> HIDE DEF Nameless
      <4> QED OBVIOUS
    <3> QED BY <3>2, <3>3
  <2>2. CASE finalList # <<>>
    <3>1. base = finalList
      BY <2>2 DEF base
    <3>2. \A i \in DOMAIN finalList : i \in Nat /\ finalList[i] \in Device
      BY <1>3
    <3> QED BY <3>1, <3>2 DEF Device
  <2> QED BY <2>1, <2>2
<1>6. DOMAIN completed = DOMAIN base
  BY DEF completed
<1>7. ASSUME NEW i \in DOMAIN completed
      PROVE  /\ completed[i].name # Blank
             /\ completed[i].interface \in {"own", finalValue["interface"]}
             /\ completed[i].broadcast_ip \in {"own", finalValue["broadcast_ip"]}
             /\ completed[i].port \in {"own", finalValue["wol_port"]}
  BY <1>5, <1>6, InputAssumption DEF completed, inherit
<1>8. macsOf(completed) = macsOf(base)
  BY <1>6 DEF macsOf, completed
<1> QED BY <1>7, <1>8

\* Every variable keeps its type and every device that is worked with a name.
THEOREM TypeCorrect == Spec => []TypeOK
<1>1. Inv => TypeOK
  <2> SUFFICES ASSUME Inv PROVE TypeOK
    OBVIOUS
  <2>1. ASSUME pc \in {"validate", "buildRunners"} \/ running
        PROVE  /\ \A i \in DOMAIN cfg.devices : cfg.devices[i].name # Blank
               /\ \A s \in Numbers : cfg.value[s] \in {"default", "file", "env"}
    <3>1. Types /\ file # Broken
      BY <2>1 DEF Inv, Origins, assembled
    <3>2. cfg.devices = completed /\ cfg.value = finalValue
      <4>1. assembled
        BY <2>1 DEF assembled
      <4> QED BY <4>1 DEF Inv, Stages
    <3>3. \A s \in Numbers : s \in HasDefault /\ s \in Settings
      BY DEF Numbers, HasDefault, Settings
    <3>4. source.value \in [Settings -> {"unset", "file"}]
      BY <3>1, SourceType DEF Inputs
    <3>5. \A s \in Numbers : finalValue[s] \in {"default", "file", "env"}
      BY <3>3, <3>4 DEF finalValue, filledValue
    <3> QED BY <3>1, <3>2, <3>5, CompletedDevices
  <2>2. runners \subseteq RunnerNames /\ (runners # {} <=> outcome = "running")
    BY DEF Inv, Started, running
  <2> QED BY <2>1, <2>2 DEF Inv, Types, Outcomes, TypeOK, running
<1> QED BY <1>1, ConfigInvariant, PTL

\* What Load keeps of the file.
LEMMA SourceIsFile ==
  ASSUME Types, file # Broken
  PROVE  /\ \A s \in Settings : source.value[s] = IF inFile(s) THEN "file" ELSE "unset"
         /\ \A f \in Flags : source.flag[f] = (~noFile /\ file.flag[f] = "true")
<1>1. CASE file = Missing
  <2>1. source = emptyConfig /\ noFile
    BY <1>1 DEF source, noFile
  <2> QED BY <2>1 DEF emptyConfig, inFile
<1>2. CASE file # Missing
  <2>1. source = unmarshal(file) /\ ~noFile
    BY <1>2 DEF source, noFile
  <2>2. source.value \in [Settings -> {"unset", "file"}] /\ source.value = file.value
    BY <2>1, SourceType DEF Inputs, unmarshal
  <2>3. \A f \in Flags : source.flag[f] = (file.flag[f] = "true")
    BY <2>1 DEF unmarshal
  <2> QED BY <2>1, <2>2, <2>3 DEF inFile
<1> QED BY <1>1, <1>2

\* The settings and the flags of a complete configuration in terms of the inputs.
LEMMA FinalIsGiven ==
  ASSUME Types, file # Broken
  PROVE  /\ \A s \in Settings : finalValue[s] = IF env.value[s] = "env" THEN "env"
                                                ELSE IF inFile(s) THEN "file"
                                                ELSE IF s \in HasDefault THEN "default"
                                                ELSE "unset"
         /\ \A f \in Flags \ {"drop_pending"} : finalFlag[f] = flagGiven(f)
         /\ finalFlag["drop_pending"] = (env.flag["drop_pending"] # "false")
<1>1. \A s \in Settings : finalValue[s] = IF env.value[s] = "env" THEN "env"
                                          ELSE IF inFile(s) THEN "file"
                                          ELSE IF s \in HasDefault THEN "default"
                                          ELSE "unset"
  BY SourceIsFile DEF finalValue, filledValue
<1>2. source.flag \in [Flags -> BOOLEAN] /\ "drop_pending" \in Flags
  BY SourceType, SettingNames DEF Inputs
<1>3. /\ filledFlag["drop_pending"] = TRUE
      /\ \A f \in Flags \ {"drop_pending"} : filledFlag[f] = source.flag[f]
  BY <1>2 DEF filledFlag
<1>4. ASSUME NEW f \in Flags \ {"drop_pending"} PROVE finalFlag[f] = flagGiven(f)
  <2>1. finalFlag[f] = CASE env.flag[f] = "true" -> TRUE
                         [] env.flag[f] = "false" -> FALSE
                         [] OTHER -> source.flag[f]
    BY <1>3 DEF finalFlag
  <2>2. source.flag[f] = (~noFile /\ file.flag[f] = "true")
    BY SourceIsFile
  <2>3. CASE env.flag[f] = "true"
    BY <2>1, <2>3 DEF flagGiven
  <2>4. CASE env.flag[f] = "false"
    BY <2>1, <2>4 DEF flagGiven
  <2>5. CASE env.flag[f] \notin {"true", "false"}
    BY <2>1, <2>2, <2>5 DEF flagGiven
  <2> QED BY <2>3, <2>4, <2>5
<1>5. finalFlag["drop_pending"] = (env.flag["drop_pending"] # "false")
  BY <1>2, <1>3 DEF finalFlag
<1> QED BY <1>1, <1>4, <1>5

\* The environment wins over the file and the file over the defaults, for each
\* setting, for each flag except drop_pending_updates, which the file does not
\* decide, and for what each device inherits (Load).
THEOREM EnvironmentWins == Spec => []Precedence
<1>1. Inv => Precedence
  <2> SUFFICES ASSUME Inv, running PROVE Precedence
    BY DEF Precedence
  <2>1. Types /\ file # Broken
    BY DEF Inv, Origins, assembled
  <2>2. cfg.devices = completed /\ cfg.value = finalValue /\ cfg.flag = finalFlag
    BY DEF Inv, Stages, assembled
  <2> QED BY <2>1, <2>2, FinalIsGiven, CompletedDevices DEF Precedence
<1> QED BY <1>1, ConfigInvariant, PTL

\* The devices of a complete configuration have the MACs that the inputs give.
LEMMA BaseIsGiven ==
  ASSUME Types, file # Broken
  PROVE  macsOf(base) = macsGiven
<1> DEFINE devices == IF env.devices # <<>> THEN parseDevices(env.devices)
                      ELSE IF noFile THEN <<>> ELSE file.devices
<1> DEFINE macs == IF env.macs # <<>> THEN env.macs
                   ELSE IF noFile THEN <<>> ELSE file.macs
<1>1. /\ source.devices = IF noFile THEN <<>> ELSE file.devices
      /\ source.macs = IF noFile THEN <<>> ELSE file.macs
  BY DEF source, noFile, emptyConfig, unmarshal
<1>2. finalList = devices
  BY <1>1 DEF finalList, parseDevices
<1>3. source.macs \in Seq(MACs) /\ env.macs \in Seq(MACs)
  BY SourceType DEF Types, Inputs
<1>4. finalMACs \in Seq(MACs)
  BY <1>3, WithoutBlanks DEF finalMACs
<1>5. withoutBlanks(finalMACs) = splitCSV(macs)
  <2>1. CASE env.macs # <<>>
    BY <1>3, <2>1, WithoutBlanks DEF finalMACs, splitCSV
  <2>2. CASE env.macs = <<>>
    BY <1>1, <2>2 DEF finalMACs, splitCSV
  <2> QED BY <2>1, <2>2
<1>6. macsOf(base) = IF devices # <<>> THEN macsOf(devices) ELSE splitCSV(macs)
  <2>1. CASE devices = <<>>
    BY <1>2, <1>4, <1>5, <2>1, FromMACs DEF base
  <2>2. CASE devices # <<>>
    BY <1>2, <2>2 DEF base
  <2> QED BY <2>1, <2>2
<1> QED BY <1>6 DEF macsGiven

\* The devices are those of the first place that has some, in its order
\* (applyEnv, normalizeDevices).
THEOREM OneListOfDevices == Spec => []DevicesFromOnePlace
<1>1. Inv => DevicesFromOnePlace
  <2> SUFFICES ASSUME Inv, running PROVE macsOf(cfg.devices) = macsGiven
    BY DEF DevicesFromOnePlace
  <2>1. Types /\ file # Broken /\ cfg.devices = completed
    BY DEF Inv, Origins, Stages, assembled
  <2> QED BY <2>1, CompletedDevices, BaseIsGiven
<1> QED BY <1>1, ConfigInvariant, PTL

\* validate and Active, which see only the configuration, against the inputs.
LEMMA ValidIsNotLacking ==
  ASSUME Types, file # Broken, cfg.value = finalValue, cfg.flag = finalFlag,
         cfg.devices = completed
  PROVE  /\ \A r \in RunnerNames : Active(r) <=> r \in asked
         /\ valid <=> \A r \in asked : ~lacksInput(r)
<1>1. /\ RunnerNames \subseteq Flags \ {"drop_pending"} /\ Wakers \subseteq RunnerNames
      /\ asked \subseteq RunnerNames
      /\ \A r \in RunnerNames : activating(r) \cup reads(r) \subseteq Settings \ HasDefault
  BY DEF RunnerNames, Wakers, Flags, asked, activating, reads, Settings, Strings, HasDefault
<1>2. ASSUME NEW s \in Settings \ HasDefault PROVE isSet(s) <=> isGiven(s)
  BY FinalIsGiven DEF isSet, isGiven
<1>3. ASSUME NEW r \in RunnerNames
      PROVE  /\ Active(r) <=> cfg.flag[r] \/ \E s \in activating(r) : isSet(s)
             /\ Required(r) = reads(r)
  BY DEF RunnerNames, Wakers, Active, activating, Required, reads
<1>4. \A r \in RunnerNames : cfg.flag[r] = flagGiven(r)
  BY <1>1, FinalIsGiven
<1>5. ASSUME NEW r \in RunnerNames PROVE Active(r) <=> r \in asked
  <2>1. (\E s \in activating(r) : isSet(s)) <=> \E s \in activating(r) : isGiven(s)
    BY <1>1, <1>2
  <2>2. Active(r) <=> flagGiven(r) \/ \E s \in activating(r) : isGiven(s)
    BY <1>3, <1>4, <2>1
  <2> QED BY <2>2 DEF asked
<1>6. cfg.devices = <<>> <=> macsGiven = <<>>
  <2>1. macsGiven = [i \in DOMAIN completed |-> completed[i].mac]
    BY CompletedDevices, BaseIsGiven DEF macsOf
  <2>2. completed = <<>> => macsGiven = <<>>
    BY <2>1
  <2>3. ASSUME macsGiven = <<>> PROVE completed = <<>>
    <3>1. DOMAIN base = {}
      <4>1. DOMAIN macsGiven = DOMAIN completed /\ DOMAIN <<>> = {}
        BY <2>1
      <4>2. DOMAIN completed = DOMAIN base
        BY DEF completed
      <4> QED BY <2>3, <4>1, <4>2
    <3> QED BY <3>1 DEF completed
  <2> QED BY <2>2, <2>3
<1>7. ASSUME NEW r \in asked
      PROVE  lacksInput(r) <=> \/ \E s \in Required(r) : ~isSet(s)
                               \/ r \in Wakers /\ cfg.devices = <<>>
  <2>1. r \in RunnerNames /\ Required(r) = reads(r) /\ reads(r) \subseteq Settings \ HasDefault
    BY <1>1, <1>3
  <2>2. \A s \in reads(r) : isSet(s) <=> isGiven(s)
    BY <1>2, <2>1
  <2> QED BY <1>6, <2>1, <2>2 DEF lacksInput
<1>8. NeedsWoL <=> \E r \in asked : r \in Wakers
  BY <1>1, <1>5 DEF NeedsWoL
<1>9. valid <=> \A r \in asked : ~lacksInput(r)
  <2>1. valid <=> /\ \A r \in asked : \A s \in Required(r) : isSet(s)
                  /\ (\E r \in asked : r \in Wakers) => cfg.devices # <<>>
    BY <1>1, <1>5, <1>8 DEF valid
  <2> QED BY <1>7, <2>1
<1> QED BY <1>5, <1>9

\* A process runs what its inputs ask for, all of it, with all that it works
\* with, and it ends with an error only if something asked for lacks something
\* (Load, validate, Active, buildRunners).
THEOREM RunnersAreThoseAsked == Spec => []RunsWhatIsAsked
<1>1. Inv => RunsWhatIsAsked
  <2> SUFFICES ASSUME Inv PROVE RunsWhatIsAsked
    OBVIOUS
  <2>1. ASSUME assembled
        PROVE  /\ \A r \in RunnerNames : Active(r) <=> r \in asked
               /\ valid <=> \A r \in asked : ~lacksInput(r)
    <3>1. /\ Types /\ file # Broken
          /\ cfg.value = finalValue /\ cfg.flag = finalFlag /\ cfg.devices = completed
      BY <2>1 DEF Inv, Origins, Stages
    <3> QED BY <3>1, ValidIsNotLacking
  <2>2. asked \subseteq RunnerNames
    BY DEF asked
  <2>3. ASSUME running PROVE runners = asked /\ \A r \in asked : ~lacksInput(r)
    <3>1. assembled /\ valid /\ runners = {r \in RunnerNames : Active(r)}
      BY <2>3 DEF Inv, Started, assembled
    <3> QED BY <2>1, <2>2, <3>1
  <2>4. ASSUME outcome = "config error", file # Broken PROVE \E r \in asked : lacksInput(r)
    <3>1. assembled /\ ~valid
      BY <2>4 DEF Inv, Started, assembled
    <3> QED BY <2>1, <3>1
  <2>5. ASSUME outcome = "no runtime enabled" PROVE asked = {}
    <3>1. assembled /\ \A r \in RunnerNames : ~Active(r)
      BY <2>5 DEF Inv, Started, assembled
    <3> QED BY <2>1, <2>2, <3>1
  <2> QED BY <2>3, <2>4, <2>5 DEF RunsWhatIsAsked
<1> QED BY <1>1, ConfigInvariant, PTL

\* Without a file the service does not run a bot or a client that its options
\* switch off (start_service, Load, Active).
THEOREM OptionsSwitchOff == Spec => []SwitchedOffWithoutFile
<1>1. Inv => SwitchedOffWithoutFile
  <2> SUFFICES ASSUME Inv, running, options # <<>>, file = Missing
               PROVE  /\ "telegram" \in runners => options.telegram
                      /\ "client" \in runners => options.client
    BY DEF SwitchedOffWithoutFile
  <2>1. /\ options \in Options /\ env = serviceEnv(options)
        /\ cfg.value = finalValue /\ cfg.flag = finalFlag
    BY DEF Inv, Origins, Stages, assembled
  <2>2. options.telegram \in BOOLEAN /\ options.client \in BOOLEAN
    BY <2>1, InputAssumption
  <2>3. /\ {"bot_token", "server_url"} \subseteq Settings \ (HasDefault \cup Defaulted)
        /\ {"telegram", "client"} \subseteq Flags \ {"drop_pending"}
    BY DEF Settings, Strings, HasDefault, Defaulted, Flags
  <2>4. /\ filledValue["bot_token"] = "unset" /\ filledValue["server_url"] = "unset"
        /\ filledFlag["telegram"] = FALSE /\ filledFlag["client"] = FALSE
    BY <2>3 DEF filledValue, filledFlag, source, emptyConfig
  <2>5. ASSUME "telegram" \in runners PROVE options.telegram
    <3> SUFFICES ASSUME ~options.telegram PROVE FALSE
      OBVIOUS
    <3>1. env.value["bot_token"] = "unset" /\ env.flag["telegram"] = "false"
      BY <2>1, <2>3 DEF serviceEnv, handsOn, switch
    <3>2. ~cfg.flag["telegram"] /\ ~isSet("bot_token")
      BY <2>1, <2>3, <2>4, <3>1 DEF finalValue, finalFlag, isSet
    <3>3. Active("telegram")
      BY <2>5 DEF Inv, Started
    <3> QED BY <3>2, <3>3 DEF Active
  <2>6. ASSUME "client" \in runners PROVE options.client
    <3> SUFFICES ASSUME ~options.client PROVE FALSE
      OBVIOUS
    <3>1. env.value["server_url"] = "unset" /\ env.flag["client"] = "false"
      BY <2>1, <2>3 DEF serviceEnv, handsOn, switch
    <3>2. ~cfg.flag["client"] /\ ~isSet("server_url")
      BY <2>1, <2>3, <2>4, <3>1 DEF finalValue, finalFlag, isSet
    <3>3. Active("client")
      BY <2>6 DEF Inv, Started
    <3> QED BY <3>2, <3>3 DEF Active
  <2> QED BY <2>5, <2>6
<1> QED BY <1>1, ConfigInvariant, PTL
=============================================================================
