------------------------- MODULE ChainParams_proofs -------------------------
(***************************************************************************)
(* Proofs about startup (ChainParams) for every set of chains, option      *)
(* values and DKG timing allowed by the assumptions: the type invariant,   *)
(* that the global parameters are set only once startup has completed,    *)
(* that on devnet the chain-lock and DIP0024 roles respect rotation, and   *)
(* that every override given on the command line is in force once        *)
(* startup has completed, with the constructor's value for every option   *)
(* not given.                                                              *)
(***************************************************************************)
EXTENDS ChainParams, SequenceTheorems, TLAPS

USE DkgTimingAssumption, ChainParamsAssumption

\* The parameters under construction or in use.
Built == status \in {"constructing", "ready"}

\* The devnet roles the rotation checks protect.
DevnetRolesOK ==
  /\ llmqs[roles["ChainLocks"]] \notin RotationRecords
  /\ llmqs[roles["DIP0024InstantSend"]] \in RotationRecords

(***************************************************************************)
(* The inductive invariant.  The properties speak of "ready" parameters    *)
(* only; they must hold already while the overrides run, since the last    *)
(* override is followed by FinishConstruction, which changes nothing else. *)
(***************************************************************************)
IInv ==
  /\ TypeOK
  /\ status = "unselected" => pc = 1
  /\ Built => powSpacing >= 1
  /\ (Built /\ network = "devnet") => DevnetRolesOK

\* The override calls of the devnet constructor.
LEMMA DevnetOverrides ==
  ASSUME NEW i \in 1 .. Len(Overrides("devnet"))
  PROVE  Overrides("devnet")[i] \in
           {SubsidyAndDiff, "-llmqchainlocks", "-llmqinstantsenddip0024",
            "-llmqplatform", "-llmqmnhf", "-llmqdevnetparams", "-powtargetspacing"}
BY DEF Overrides

\* Each constructor has a sequence of override calls.
LEMMA OverridesLen ==
  ASSUME NEW net \in Networks
  PROVE  Len(Overrides(net)) \in Nat
BY DEF Overrides, Networks

\* The constructors' initial roles and spacing satisfy the invariant.
LEMMA BaseFacts ==
  ASSUME NEW net \in Networks
  PROVE  /\ BaseRoles(net) \in [Roles -> DOMAIN BaseLLMQs(net)]
         /\ BasePowSpacing(net) >= 1
         /\ net = "devnet" =>
              /\ BaseLLMQs(net)[BaseRoles(net)["ChainLocks"]] \notin RotationRecords
              /\ BaseLLMQs(net)[BaseRoles(net)["DIP0024InstantSend"]] \in RotationRecords
BY DEF Networks, BaseRoles, BaseLLMQs, MainTestLLMQs, DevnetLLMQs, RegtestLLMQs,
       Roles, BasePowSpacing, RotationRecords

-----------------------------------------------------------------------------

LEMMA InitIInv == Init => IInv
BY DEF Init, IInv, TypeOK, Built

LEMMA SelectParamsStep ==
  ASSUME IInv, NEW chain \in Chains, SelectParams(chain)
  PROVE  IInv'
<1>1. CASE chain \in Networks
  <2>1. /\ network' = chain /\ llmqs' = BaseLLMQs(chain) /\ roles' = BaseRoles(chain)
        /\ powSpacing' = BasePowSpacing(chain) /\ pc' = 1
    BY <1>1 DEF SelectParams, IInv
  <2>2. /\ status' \in {"constructing", "ready"}
        /\ globalChainParams' \in {chain, NotSet}
    BY <1>1 DEF SelectParams
  <2>3. Len(Overrides(chain)) \in Nat
    BY <1>1, OverridesLen
  <2>4. QED
    BY <1>1, <2>1, <2>2, <2>3, BaseFacts DEF IInv, TypeOK, Built, DevnetRolesOK
<1>2. CASE chain \notin Networks
  BY <1>2 DEF SelectParams, IInv, TypeOK, Built, DevnetRolesOK
<1>3. QED
  BY <1>1, <1>2

(***************************************************************************)
(* What an override step that sets no role does: it runs while the         *)
(* constructor has a call left, keeps the network, catalog and roles,      *)
(* fails or moves to the next call, and sets only a spacing of at least 1. *)
(***************************************************************************)
NoRoleStep ==
  /\ Overriding
  /\ UNCHANGED <<network, llmqs, roles, globalChainParams>>
  /\ \/ status' = "failed" /\ pc' = pc
     \/ status' = status /\ pc' = pc + 1
  /\ powSpacing' = powSpacing \/ powSpacing' >= 1

LEMMA NoRoleActions ==
  ASSUME NEW v,
         \/ OverrideNotSet(v) \/ RejectTypeOption(v) \/ RejectSizeOption(v)
         \/ SetTestSizes(v) \/ RejectHeights(v) \/ SetHeights(v) \/ RejectPowSpacing(v)
         \/ SetPowSpacing(v)
  PROVE  NoRoleStep
<1>1. CASE OverrideNotSet(v)
  BY <1>1 DEF OverrideNotSet, ReadingOption, NoRoleStep
<1>2. CASE RejectTypeOption(v)
  BY <1>2 DEF RejectTypeOption, ReadingOption, NoRoleStep
<1>3. CASE RejectSizeOption(v) \/ RejectHeights(v)
  BY <1>3 DEF RejectSizeOption, RejectHeights, ReadingOption, NoRoleStep
<1>4. CASE SetTestSizes(v)
  BY <1>4 DEF SetTestSizes, ReadingOption, NoRoleStep
<1>5. CASE SetHeights(v)
  BY <1>5 DEF SetHeights, ReadingOption, NoRoleStep
<1>6. CASE RejectPowSpacing(v)
  BY <1>6 DEF RejectPowSpacing, ReadingOption, NoRoleStep
<1>7. CASE SetPowSpacing(v)
  BY <1>7 DEF SetPowSpacing, ReadingOption, NoRoleStep
<1>8. QED
  BY <1>1, <1>2, <1>3, <1>4, <1>5, <1>6, <1>7

\* The subsidy/difficulty override sets no role and no spacing.
LEMMA SubsidyNoRole ==
  ASSUME NEW vs, UpdateSubsidyAndDiff(vs)
  PROVE  NoRoleStep
BY DEF UpdateSubsidyAndDiff, NoRoleStep

LEMMA NoRoleStepIInv ==
  ASSUME IInv, NoRoleStep
  PROVE  IInv'
<1>1. /\ status = "constructing" /\ network \in Networks
      /\ pc \in 1 .. Len(Overrides(network))
      /\ Len(Overrides(network)) \in Nat
  BY OverridesLen DEF NoRoleStep, Overriding, IInv, TypeOK
<1>2. TypeOK'
  BY <1>1 DEF NoRoleStep, IInv, TypeOK
<1>3. QED
  BY <1>1, <1>2 DEF NoRoleStep, IInv, Built, DevnetRolesOK

LEMMA SetRoleStep ==
  ASSUME IInv, NEW name, SetRole(name)
  PROVE  IInv'
<1> DEFINE o == CurrentOption
<1>1. /\ status = "constructing" /\ network \in Networks
      /\ pc \in 1 .. Len(Overrides(network))
      /\ Len(Overrides(network)) \in Nat
      /\ llmqs = BaseLLMQs(network)
      /\ roles \in [Roles -> DOMAIN llmqs]
  BY OverridesLen DEF SetRole, ReadingOption, Overriding, IInv, TypeOK
<1>2. PICK t \in Matches(name) : roles' = [roles EXCEPT ![RoleOf(o)] = t]
  BY DEF SetRole
<1>3. /\ t \in DOMAIN llmqs /\ llmqs[t] = name
  BY DEF Matches
<1>4. /\ UNCHANGED <<status, network, llmqs, powSpacing, globalChainParams>>
      /\ pc' = pc + 1
      /\ ~RotationRejected(o, name)
  BY DEF SetRole
<1>5. TypeOK'
  <2>1. roles' \in [Roles -> DOMAIN llmqs']
    BY <1>1, <1>2, <1>3, <1>4
  <2>2. pc' \in 1 .. Len(Overrides(network')) + 1
    BY <1>1, <1>4
  <2>3. QED
    BY <1>1, <1>4, <2>1, <2>2 DEF IInv, TypeOK
<1>6. ASSUME network = "devnet" PROVE DevnetRolesOK'
  <2>1. o \in {SubsidyAndDiff, "-llmqchainlocks", "-llmqinstantsenddip0024",
               "-llmqplatform", "-llmqmnhf", "-llmqdevnetparams", "-powtargetspacing"}
    BY <1>1, <1>6, DevnetOverrides DEF CurrentOption
  <2>2. o \in TypeOptions
    BY DEF SetRole
  <2>3. DevnetRolesOK
    BY <1>1, <1>6 DEF IInv, Built
  <2>4. CASE o = "-llmqchainlocks"
    <3>1. roles' = [roles EXCEPT !["ChainLocks"] = t]
      BY <1>2, <2>4 DEF RoleOf
    <3>2. llmqs[t] \notin RotationRecords
      BY <1>3, <1>4, <2>4 DEF RotationRejected
    <3>3. QED
      BY <1>1, <1>4, <2>3, <3>1, <3>2 DEF DevnetRolesOK, Roles
  <2>5. CASE o = "-llmqinstantsenddip0024"
    <3>1. roles' = [roles EXCEPT !["DIP0024InstantSend"] = t]
      BY <1>2, <2>5 DEF RoleOf
    <3>2. llmqs[t] \in RotationRecords
      BY <1>3, <1>4, <2>5 DEF RotationRejected
    <3>3. QED
      BY <1>1, <1>4, <2>3, <3>1, <3>2 DEF DevnetRolesOK, Roles
  <2>6. CASE o \in {"-llmqplatform", "-llmqmnhf"}
    <3>1. RoleOf(o) \in {"Platform", "Mnhf"}
      BY <2>6 DEF RoleOf
    <3>2. QED
      BY <1>1, <1>2, <1>4, <2>3, <3>1 DEF DevnetRolesOK, Roles
  <2>7. QED
    BY <2>1, <2>2, <2>4, <2>5, <2>6 DEF TypeOptions, SubsidyAndDiff
<1>7. QED
  BY <1>1, <1>4, <1>5, <1>6 DEF IInv, Built

LEMMA IInvStep == IInv /\ [Next]_vars => IInv'
<1> SUFFICES ASSUME IInv, [Next]_vars PROVE IInv'
  OBVIOUS
<1>1. CASE \E chain \in Chains : SelectParams(chain)
  BY <1>1, SelectParamsStep
<1>2. CASE /\ ReadingOption
           /\ \E v \in ArgValues(CurrentOption) :
                \/ OverrideNotSet(v) \/ RejectTypeOption(v) \/ SetRole(v)
                \/ RejectSizeOption(v) \/ SetTestSizes(v) \/ RejectHeights(v) \/ SetHeights(v)
                \/ RejectPowSpacing(v) \/ SetPowSpacing(v)
  <2>1. PICK v \in ArgValues(CurrentOption) :
               \/ OverrideNotSet(v) \/ RejectTypeOption(v) \/ SetRole(v)
               \/ RejectSizeOption(v) \/ SetTestSizes(v) \/ RejectHeights(v) \/ SetHeights(v)
               \/ RejectPowSpacing(v) \/ SetPowSpacing(v)
    BY <1>2
  <2>2. CASE SetRole(v)
    BY <2>2, SetRoleStep
  <2>3. QED
    BY <2>1, <2>2, NoRoleActions, NoRoleStepIInv
<1>3. CASE \E vs \in SubsidyArgValues : UpdateSubsidyAndDiff(vs)
  BY <1>3, SubsidyNoRole, NoRoleStepIInv
<1>4. CASE FinishConstruction
  BY <1>4 DEF FinishConstruction, IInv, TypeOK, Built, DevnetRolesOK
<1>5. CASE ParamsUnselected
  BY <1>5 DEF ParamsUnselected, IInv, TypeOK, Built, DevnetRolesOK
<1>6. CASE UNCHANGED vars
  BY <1>6 DEF vars, IInv, TypeOK, Built, DevnetRolesOK
<1>7. QED
  BY <1>1, <1>2, <1>3, <1>4, <1>5, <1>6 DEF Next

-----------------------------------------------------------------------------
(* Overrides take effect *)

\* The fields of consensus the constructors set or leave at their default.
ConsensusFields ==
  {"DIP0003Height", "DIP0003EnforcementHeight", "DIP0008Height",
   "nMasternodePaymentsStartBlock", "nBudgetPaymentsStartBlock",
   "nSuperblockStartBlock", "nMinimumDifficultyBlocks", "nHighSubsidyBlocks",
   "nHighSubsidyFactor"}

\* Option o has been read by one of the first n - 1 override calls of net.
WasRead(net, n, o) ==
  \/ \E i \in 1 .. n - 1 : Overrides(net)[i] = o
  \/ net = "devnet" /\ n > 1 /\ o \in SubsidyOptions

\* All that a completed override call establishes.
Applied ==
  HeightsApplied /\ SubsidyApplied /\ SizesApplied /\ RolesApplied /\ SpacingApplied

\* A call reads one option or, first on devnet, the three subsidy options.
LEMMA ListElements ==
  ASSUME NEW net \in Networks, NEW n \in 1 .. Len(Overrides(net))
  PROVE  /\ Overrides(net)[n] \in Options \cup {SubsidyAndDiff}
         /\ Overrides(net)[n] \notin SubsidyOptions
         /\ Overrides(net)[n] = SubsidyAndDiff <=> (net = "devnet" /\ n = 1)
<1>1. CASE net = "devnet"
  <2>1. n \in {1, 2, 3, 4, 5, 6, 7}
    BY <1>1 DEF Overrides
  <2>2. QED
    BY <1>1, <2>1 DEF Overrides, Options, TypeOptions, SizeOptions, HeightOptions,
                                  SubsidyOptions, SubsidyAndDiff
<1>2. CASE net = "regtest"
  <2>1. n \in {1, 2, 3, 4, 5, 6}
    BY <1>2 DEF Overrides
  <2>2. QED
    BY <1>2, <2>1 DEF Overrides, Options, TypeOptions, SizeOptions, HeightOptions,
                                  SubsidyOptions, SubsidyAndDiff
<1>3. QED
  BY <1>1, <1>2 DEF Overrides, Networks

\* No option is read twice, and two quorum-type options of one constructor
\* set different roles.
LEMMA ListDistinct ==
  ASSUME NEW net \in Networks, NEW i \in 1 .. Len(Overrides(net)),
         NEW j \in 1 .. Len(Overrides(net)), i # j
  PROVE  /\ Overrides(net)[i] # Overrides(net)[j]
         /\ Overrides(net)[i] \in TypeOptions /\ Overrides(net)[j] \in TypeOptions
              => RoleOf(Overrides(net)[i]) # RoleOf(Overrides(net)[j])
<1>1. CASE net = "devnet"
  <2>1. i \in {1, 2, 3, 4, 5, 6, 7} /\ j \in {1, 2, 3, 4, 5, 6, 7}
    BY <1>1 DEF Overrides
  <2>2. QED
    BY <1>1, <2>1 DEF Overrides, TypeOptions, SubsidyAndDiff, RoleOf
<1>2. CASE net = "regtest"
  <2>1. i \in {1, 2, 3, 4, 5, 6} /\ j \in {1, 2, 3, 4, 5, 6}
    BY <1>2 DEF Overrides
  <2>2. QED
    BY <1>2, <2>1 DEF Overrides, TypeOptions, RoleOf
<1>3. QED
  BY <1>1, <1>2 DEF Overrides, Networks

\* A call adds its option, or the subsidy options, to those read.
LEMMA WasReadStep ==
  ASSUME NEW net, NEW n \in Nat \ {0}, NEW o
  PROVE  WasRead(net, n + 1, o) <=>
           \/ WasRead(net, n, o)
           \/ o = Overrides(net)[n]
           \/ net = "devnet" /\ n = 1 /\ o \in SubsidyOptions
BY DEF WasRead

(***************************************************************************)
(* The inductive invariant for OverridesTakeEffect.  The effects must hold *)
(* of every call made so far, while the constructor runs; an option no     *)
(* call has read is still Unread, so reading it as absent finds the        *)
(* constructor's values in place.                                          *)
(***************************************************************************)
OInv ==
  /\ IInv
  /\ DOMAIN args = Options
  /\ status = "unselected" => /\ \A o \in Options : args[o] = Unread
                              /\ testSizes = << >>
  /\ Built =>
       /\ DOMAIN consensus = ConsensusFields
       /\ \A o \in Options : ~WasRead(network, pc, o) => args[o] = Unread
       /\ Applied

LEMMA InitOInv == Init => OInv
BY InitIInv DEF Init, OInv, Built

(***************************************************************************)
(* What a call that reads one option finds and leaves: the option was      *)
(* still Unread, it now holds the value read, every other option keeps its *)
(* value, and what the next calls have not read is still Unread.           *)
(***************************************************************************)
LEMMA ReadStep ==
  ASSUME OInv, ReadingOption, NEW v, ReadOption(v), pc' = pc + 1,
         UNCHANGED <<status, network>>
  PROVE  /\ Built /\ network \in Networks /\ pc \in 1 .. Len(Overrides(network))
         /\ CurrentOption \in Options /\ CurrentOption \notin SubsidyOptions
         /\ args[CurrentOption] = Unread
         /\ args'[CurrentOption] = v
         /\ \A o \in Options \ {CurrentOption} : args'[o] = args[o]
         /\ DOMAIN args' = Options
         /\ \A o \in Options : ~WasRead(network', pc', o) => args'[o] = Unread
<1>1. /\ Built /\ network \in Networks /\ pc \in 1 .. Len(Overrides(network))
      /\ Len(Overrides(network)) \in Nat
  BY OverridesLen DEF OInv, IInv, TypeOK, Built, ReadingOption, Overriding
<1>2. /\ CurrentOption \in Options /\ CurrentOption \notin SubsidyOptions
      /\ ~WasRead(network, pc, CurrentOption)
  <2>1. CurrentOption \in Options /\ CurrentOption \notin SubsidyOptions
    BY <1>1, ListElements DEF ReadingOption, CurrentOption
  <2>2. \A i \in 1 .. pc - 1 : Overrides(network)[i] # CurrentOption
    BY <1>1, ListDistinct DEF CurrentOption
  <2>3. QED
    BY <2>1, <2>2 DEF WasRead
<1>3. args[CurrentOption] = Unread
  BY <1>1, <1>2 DEF OInv
<1>4. \A o \in Options : ~WasRead(network, pc + 1, o) => args'[o] = Unread
  <2> SUFFICES ASSUME NEW o \in Options, ~WasRead(network, pc + 1, o)
               PROVE  args'[o] = Unread
    OBVIOUS
  <2>1. ~WasRead(network, pc, o) /\ o # CurrentOption
    BY <1>1, WasReadStep, SMTT(20) DEF CurrentOption
  <2>2. QED
    BY <1>1, <2>1 DEF OInv, ReadOption
<1>5. QED
  BY <1>1, <1>2, <1>3, <1>4 DEF OInv, ReadOption

\* The option sets the properties quantify over are options.
LEMMA OptionSets ==
  /\ HeightOptions \subseteq Options /\ SubsidyOptions \subseteq Options
  /\ SizeOptions \subseteq Options /\ TypeOptions \subseteq Options
  /\ "-powtargetspacing" \in Options
BY DEF Options

(***************************************************************************)
(* A call that finds its option absent changes nothing but the option's    *)
(* entry, from Unread to NotSet: no option changes whether it was given.   *)
(***************************************************************************)
LEMMA NotSetStep ==
  ASSUME OInv, IInv', NEW v, OverrideNotSet(v)
  PROVE  OInv'
<1>1. /\ Built /\ network \in Networks /\ pc \in 1 .. Len(Overrides(network))
      /\ CurrentOption \in Options /\ CurrentOption \notin SubsidyOptions
      /\ args[CurrentOption] = Unread
      /\ args'[CurrentOption] = v
      /\ \A o \in Options \ {CurrentOption} : args'[o] = args[o]
      /\ DOMAIN args' = Options
      /\ \A o \in Options : ~WasRead(network', pc', o) => args'[o] = Unread
  BY ReadStep DEF OverrideNotSet
<1>2. /\ v = NotSet
      /\ UNCHANGED <<status, network, llmqs, roles, testSizes, powSpacing, consensus>>
  BY DEF OverrideNotSet
<1>3. \A o \in Options : Given(o)' = Given(o)
  BY <1>1, <1>2 DEF Given
<1>4. \A o \in Options : Given(o)' => args'[o] = args[o]
  BY <1>1, <1>2 DEF Given
<1>5. Applied
  BY <1>1, SMTT(20) DEF OInv
<1>6. HeightsApplied'
  BY <1>2, <1>3, <1>4, <1>5, OptionSets DEF Applied, HeightsApplied
<1>7. SubsidyApplied'
  BY <1>1, <1>2, <1>3, <1>5, OptionSets DEF Applied, SubsidyApplied
<1>8. SizesApplied'
  BY <1>2, <1>3, <1>4, <1>5, OptionSets DEF Applied, SizesApplied
<1>9. RolesApplied'
  BY <1>2, <1>3, <1>4, <1>5, OptionSets DEF Applied, RolesApplied
<1>10. SpacingApplied'
  BY <1>2, <1>3, <1>4, <1>5, OptionSets DEF Applied, SpacingApplied
<1>11. QED
  BY <1>1, <1>2, <1>6, <1>7, <1>8, <1>9, <1>10 DEF OInv, Applied, Built

\* The fields of -dip3params, -dip8params and -budgetparams: distinct
\* consensus fields, shared by no two options and by no subsidy option.
LEMMA HeightFieldsFacts ==
  ASSUME NEW o \in HeightOptions
  PROVE  /\ DOMAIN HeightFields(o) = 1 .. Len(HeightFields(o))
         /\ \A i \in DOMAIN HeightFields(o) : HeightFields(o)[i] \in ConsensusFields
         /\ \A i, j \in DOMAIN HeightFields(o) :
              HeightFields(o)[i] = HeightFields(o)[j] => i = j
         /\ \A p \in HeightOptions \ {o} :
              \A i \in DOMAIN HeightFields(o), j \in DOMAIN HeightFields(p) :
                HeightFields(o)[i] # HeightFields(p)[j]
         /\ \A p \in SubsidyOptions : \A i \in DOMAIN HeightFields(o) :
              HeightFields(o)[i] # SubsidyField(p)
<1>1. CASE o = "-dip3params"
  BY <1>1 DEF HeightOptions, HeightFields, ConsensusFields, SubsidyOptions, SubsidyField
<1>2. CASE o = "-dip8params"
  BY <1>2 DEF HeightOptions, HeightFields, ConsensusFields, SubsidyOptions, SubsidyField
<1>3. CASE o = "-budgetparams"
  BY <1>3 DEF HeightOptions, HeightFields, ConsensusFields, SubsidyOptions, SubsidyField
<1>4. QED
  BY <1>1, <1>2, <1>3 DEF HeightOptions

\* What AssignFields writes with the fields of a height option.
LEMMA AssignHeights ==
  ASSUME NEW o \in HeightOptions, NEW rec, DOMAIN rec = ConsensusFields, NEW v
  PROVE  LET a == AssignFields(rec, HeightFields(o), v)
         IN  /\ DOMAIN a = ConsensusFields
             /\ \A i \in DOMAIN HeightFields(o) : a[HeightFields(o)[i]] = v[i]
             /\ \A f \in ConsensusFields :
                  (\A i \in DOMAIN HeightFields(o) : HeightFields(o)[i] # f) => a[f] = rec[f]
<1> DEFINE F == HeightFields(o)
<1>1. ASSUME NEW i \in DOMAIN F
      PROVE  (CHOOSE j \in DOMAIN F : F[j] = F[i]) = i
  BY HeightFieldsFacts
<1>2. QED
  BY <1>1, HeightFieldsFacts DEF AssignFields

\* Each subsidy option sets its own field.
LEMMA SubsidyFieldFacts ==
  /\ \A p \in SubsidyOptions : SubsidyField(p) \in ConsensusFields
  /\ \A p, q \in SubsidyOptions : SubsidyField(p) = SubsidyField(q) => p = q
  /\ SubsidyField("-minimumdifficultyblocks") = "nMinimumDifficultyBlocks"
  /\ SubsidyField("-highsubsidyblocks") = "nHighSubsidyBlocks"
  /\ SubsidyField("-highsubsidyfactor") = "nHighSubsidyFactor"
BY DEF SubsidyOptions, SubsidyField, ConsensusFields

\* Each size option rewrites its own test quorum.
LEMMA SizeTypeDistinct ==
  \A p, q \in SizeOptions : SizeTypeOf(p) = SizeTypeOf(q) => p = q
BY DEF SizeOptions, SizeTypeOf

\* No value the command line may give an option is Unread.
LEMMA ValueRead ==
  ASSUME NEW o \in Options, NEW v \in ArgValues(o), v \notin {NotSet, Junk}
  PROVE  v # Unread
<1>1. CASE o \in HeightOptions
  <2>1. v \in [1 .. Len(HeightFields(o)) -> HeightArgs]
    BY <1>1 DEF ArgValues, TypeOptions, SizeOptions, HeightOptions
  <2>2. Len(HeightFields(o)) \in Nat
    BY <1>1 DEF HeightOptions, HeightFields
  <2>3. v \in Seq(HeightArgs)
    <3>1. \E n \in Nat : v \in [1 .. n -> HeightArgs]
      BY <2>1, <2>2
    <3>2. QED
      BY <3>1, SeqDef
  <2>4. v \in Seq(Int)
    BY <2>3, SeqMonotonic
  <2>5. QED
    BY <2>4
<1>2. CASE o \notin HeightOptions
  BY <1>2, ZenonT(30) DEF ArgValues
<1>3. QED
  BY <1>1, <1>2

(***************************************************************************)
(* A DIP3, DIP8 or budget option: its fields take the values given, and    *)
(* no other field or option changes.                                       *)
(***************************************************************************)
LEMMA SetHeightsStep ==
  ASSUME OInv, IInv', NEW o, o = CurrentOption, NEW v \in ArgValues(o), SetHeights(v)
  PROVE  OInv'
<1>1. /\ Built /\ network \in Networks /\ pc \in 1 .. Len(Overrides(network))
      /\ CurrentOption \in Options /\ CurrentOption \notin SubsidyOptions
      /\ args[CurrentOption] = Unread
      /\ args'[CurrentOption] = v
      /\ \A q \in Options \ {CurrentOption} : args'[q] = args[q]
      /\ DOMAIN args' = Options
      /\ \A q \in Options : ~WasRead(network', pc', q) => args'[q] = Unread
  BY ReadStep DEF SetHeights
<1>2. /\ o \in HeightOptions /\ v \notin {NotSet, Junk}
      /\ consensus' = AssignFields(consensus, HeightFields(o), v)
      /\ UNCHANGED <<status, network, llmqs, roles, testSizes, powSpacing>>
  BY DEF SetHeights
<1>3. Given(o)'
  BY <1>1, <1>2, ValueRead DEF Given
<1>4. \A p \in Options \ {o} : Given(p)' = Given(p) /\ args'[p] = args[p]
  BY <1>1 DEF Given
<1>5. Applied /\ DOMAIN consensus = ConsensusFields
  BY <1>1 DEF OInv
<1>6. /\ DOMAIN consensus' = ConsensusFields
      /\ \A i \in DOMAIN HeightFields(o) : consensus'[HeightFields(o)[i]] = v[i]
      /\ \A f \in ConsensusFields :
           (\A i \in DOMAIN HeightFields(o) : HeightFields(o)[i] # f) =>
             consensus'[f] = consensus[f]
  BY <1>2, <1>5, AssignHeights
<1>7. HeightsApplied'
  <2> SUFFICES ASSUME NEW p \in HeightOptions, NEW i \in DOMAIN HeightFields(p)
               PROVE  consensus'[HeightFields(p)[i]] =
                        IF Given(p)' THEN args'[p][i]
                        ELSE BaseConsensus(network')[HeightFields(p)[i]]
    BY SMTT(20) DEF HeightsApplied
  <2>1. CASE p = o
    BY <1>1, <1>3, <1>6, <2>1, SMTT(20)
  <2>2. CASE p # o
    <3>1. \A j \in DOMAIN HeightFields(o) : HeightFields(o)[j] # HeightFields(p)[i]
      BY <1>2, <2>2, HeightFieldsFacts
    <3>2. HeightFields(p)[i] \in ConsensusFields
      BY HeightFieldsFacts
    <3>3. QED
      BY <1>2, <1>4, <1>5, <1>6, <2>2, <3>1, <3>2, OptionSets, SMTT(20) DEF Applied, HeightsApplied
  <2>3. QED
    BY <2>1, <2>2
<1>8. SubsidyApplied'
  <2>1. \A p \in SubsidyOptions : consensus'[SubsidyField(p)] = consensus[SubsidyField(p)]
    BY <1>2, <1>6, HeightFieldsFacts, SubsidyFieldFacts, SMTT(20)
  <2>2. QED
    BY <1>1, <1>2, <1>4, <1>5, <2>1, OptionSets, SMTT(20) DEF Applied, SubsidyApplied, HeightOptions, SubsidyOptions
<1>9. SizesApplied' /\ RolesApplied' /\ SpacingApplied'
  <2>1. o \notin SizeOptions \cup TypeOptions \cup {"-powtargetspacing"}
    BY <1>2 DEF HeightOptions, SizeOptions, TypeOptions
  <2>2. QED
    BY <1>2, <1>4, <1>5, <2>1, OptionSets, ZenonT(30) DEF Applied, SizesApplied, RolesApplied, SpacingApplied
<1>10. QED
  BY <1>1, <1>2, <1>6, <1>7, <1>8, <1>9, SMTT(20) DEF OInv, Applied, Built

(***************************************************************************)
(* A size option rewrites its own test quorum and no other.                *)
(***************************************************************************)
LEMMA SetTestSizesStep ==
  ASSUME OInv, IInv', NEW o, o = CurrentOption, NEW v \in ArgValues(o), SetTestSizes(v)
  PROVE  OInv'
<1>2. /\ o \in SizeOptions /\ v \notin {NotSet, Junk}
      /\ testSizes' = [t \in DOMAIN testSizes \cup {SizeTypeOf(o)} |->
                         IF t = SizeTypeOf(o)
                         THEN [size |-> v[1], minSize |-> v[2], threshold |-> v[2],
                               dkgBadVotesThreshold |-> v[2]]
                         ELSE testSizes[t]]
      /\ UNCHANGED <<status, network, llmqs, roles, powSpacing, consensus>>
  BY SMTT(20) DEF SetTestSizes
<1>1. /\ Built /\ network \in Networks /\ pc \in 1 .. Len(Overrides(network))
      /\ CurrentOption \in Options /\ CurrentOption \notin SubsidyOptions
      /\ args[CurrentOption] = Unread
      /\ args'[CurrentOption] = v
      /\ \A p \in Options \ {CurrentOption} : args'[p] = args[p]
      /\ DOMAIN args' = Options
      /\ \A p \in Options : ~WasRead(network', pc', p) => args'[p] = Unread
  BY ReadStep, SMTT(20) DEF SetTestSizes
<1>3. Given(o)'
  BY <1>1, <1>2, ValueRead, SMTT(20) DEF Given
<1>4. \A p \in Options \ {o} : Given(p)' = Given(p) /\ args'[p] = args[p]
  BY <1>1 DEF Given
<1>5. Applied /\ DOMAIN consensus = ConsensusFields
  BY <1>1 DEF OInv
<1>6. SizesApplied'
  <2> SUFFICES ASSUME NEW p \in SizeOptions
               PROVE  /\ (SizeTypeOf(p) \in DOMAIN testSizes') = Given(p)'
                      /\ Given(p)' => /\ testSizes'[SizeTypeOf(p)].size = args'[p][1]
                                      /\ testSizes'[SizeTypeOf(p)].threshold = args'[p][2]
    BY SMTT(20) DEF SizesApplied
  <2>1. CASE p = o
    BY <1>1, <1>2, <1>3, <2>1
  <2>2. CASE p # o
    <3>1. SizeTypeOf(p) # SizeTypeOf(o)
      BY <1>2, <2>2, SizeTypeDistinct
    <3>2. /\ DOMAIN testSizes' = DOMAIN testSizes \cup {SizeTypeOf(o)}
          /\ SizeTypeOf(p) \in DOMAIN testSizes =>
               testSizes'[SizeTypeOf(p)] = testSizes[SizeTypeOf(p)]
      BY <1>2, <3>1
    <3>3. /\ (SizeTypeOf(p) \in DOMAIN testSizes) = Given(p)
          /\ Given(p) => /\ testSizes[SizeTypeOf(p)].size = args[p][1]
                         /\ testSizes[SizeTypeOf(p)].threshold = args[p][2]
      BY <1>5, OptionSets DEF Applied, SizesApplied
    <3>4. Given(p)' = Given(p) /\ args'[p] = args[p]
      BY <1>4, <2>2, OptionSets
    <3>5. (SizeTypeOf(p) \in DOMAIN testSizes') <=> (SizeTypeOf(p) \in DOMAIN testSizes)
      BY <3>1, <3>2
    <3>8. (SizeTypeOf(p) \in DOMAIN testSizes') = Given(p)'
      BY <3>3, <3>4, <3>5
    <3>6. Given(p)' => /\ testSizes'[SizeTypeOf(p)].size = args'[p][1]
                       /\ testSizes'[SizeTypeOf(p)].threshold = args'[p][2]
      BY <3>2, <3>3, <3>4
    <3>7. QED
      BY <3>6, <3>8
  <2>3. QED
    BY <2>1, <2>2
<1>7. HeightsApplied' /\ SubsidyApplied' /\ RolesApplied' /\ SpacingApplied'
  <2>1. o \notin HeightOptions \cup SubsidyOptions \cup TypeOptions \cup {"-powtargetspacing"}
    BY <1>2 DEF HeightOptions, SubsidyOptions, SizeOptions, TypeOptions
  <2>2. HeightsApplied'
    BY <1>2, <1>4, <1>5, <2>1, OptionSets, ZenonT(30) DEF Applied, HeightsApplied
  <2>3. SubsidyApplied'
    BY <1>2, <1>4, <1>5, <2>1, OptionSets DEF Applied, SubsidyApplied
  <2>4. RolesApplied'
    BY <1>2, <1>4, <1>5, <2>1, OptionSets, ZenonT(30) DEF Applied, RolesApplied
  <2>5. SpacingApplied'
    BY <1>2, <1>4, <1>5, <2>1, OptionSets DEF Applied, SpacingApplied
  <2>6. QED
    BY <2>2, <2>3, <2>4, <2>5
<1>8. QED
  BY <1>1, <1>2, <1>5, <1>6, <1>7 DEF OInv, Applied, Built

(***************************************************************************)
(* -powtargetspacing: the spacing is the one given.                        *)
(***************************************************************************)
LEMMA SetPowSpacingStep ==
  ASSUME OInv, IInv', NEW o, o = CurrentOption, NEW v \in ArgValues(o), SetPowSpacing(v)
  PROVE  OInv'
<1>2. /\ o = "-powtargetspacing" /\ v \notin {NotSet, Junk}
      /\ powSpacing' = v
      /\ UNCHANGED <<status, network, llmqs, roles, testSizes, consensus>>
  BY DEF SetPowSpacing
<1>1. /\ Built /\ network \in Networks /\ pc \in 1 .. Len(Overrides(network))
      /\ CurrentOption \in Options /\ CurrentOption \notin SubsidyOptions
      /\ args[CurrentOption] = Unread
      /\ args'[CurrentOption] = v
      /\ \A p \in Options \ {CurrentOption} : args'[p] = args[p]
      /\ DOMAIN args' = Options
      /\ \A p \in Options : ~WasRead(network', pc', p) => args'[p] = Unread
  BY ReadStep, SMTT(20) DEF SetPowSpacing
<1>3. Given(o)'
  BY <1>1, <1>2, ValueRead, SMTT(20) DEF Given
<1>4. \A p \in Options \ {o} : Given(p)' = Given(p) /\ args'[p] = args[p]
  BY <1>1 DEF Given
<1>5. Applied /\ DOMAIN consensus = ConsensusFields
  BY <1>1 DEF OInv
<1>6. SpacingApplied'
  BY <1>1, <1>2, <1>3 DEF SpacingApplied
<1>7. HeightsApplied' /\ SubsidyApplied' /\ SizesApplied' /\ RolesApplied'
  <2>1. o \notin HeightOptions \cup SubsidyOptions \cup SizeOptions \cup TypeOptions
    BY <1>2, SMTT(20) DEF HeightOptions, SubsidyOptions, SizeOptions, TypeOptions
  <2>2. HeightsApplied'
    BY <1>2, <1>4, <1>5, <2>1, OptionSets, SMTT(20) DEF Applied, HeightsApplied
  <2>3. SubsidyApplied'
    BY <1>2, <1>4, <1>5, <2>1, OptionSets, SMTT(20) DEF Applied, SubsidyApplied
  <2>4. SizesApplied'
    BY <1>2, <1>4, <1>5, <2>1, OptionSets DEF Applied, SizesApplied
  <2>5. RolesApplied'
    BY <1>2, <1>4, <1>5, <2>1, OptionSets, ZenonT(30) DEF Applied, RolesApplied
  <2>6. QED
    BY <2>2, <2>3, <2>4, <2>5
<1>8. QED
  BY <1>1, <1>2, <1>5, <1>6, <1>7, SMTT(20) DEF OInv, Applied, Built

(***************************************************************************)
(* A quorum-type option: its role becomes a quorum of the record named.    *)
(* No option read before it sets the same role, so no earlier choice is    *)
(* overwritten.                                                            *)
(***************************************************************************)
LEMMA SetRoleOStep ==
  ASSUME OInv, IInv', NEW o, o = CurrentOption, NEW v \in ArgValues(o), SetRole(v)
  PROVE  OInv'
<1>1. /\ Built /\ network \in Networks /\ pc \in 1 .. Len(Overrides(network))
      /\ CurrentOption \in Options /\ CurrentOption \notin SubsidyOptions
      /\ args[CurrentOption] = Unread
      /\ args'[CurrentOption] = v
      /\ \A p \in Options \ {CurrentOption} : args'[p] = args[p]
      /\ DOMAIN args' = Options
      /\ \A p \in Options : ~WasRead(network', pc', p) => args'[p] = Unread
  BY ReadStep, ZenonT(30) DEF SetRole
<1>2. /\ o \in TypeOptions /\ v \in TypeArgs
      /\ UNCHANGED <<status, network, llmqs, testSizes, powSpacing, consensus>>
  BY DEF SetRole, ArgValues
<1>3. Given(o)'
  BY <1>1, <1>2, SMTT(20) DEF Given
<1>4. \A p \in Options \ {o} : Given(p)' = Given(p) /\ args'[p] = args[p]
  BY <1>1 DEF Given
<1>5. Applied /\ DOMAIN consensus = ConsensusFields
  BY <1>1 DEF OInv
<1>6. PICK t \in Matches(v) : roles' = [roles EXCEPT ![RoleOf(o)] = t]
  BY DEF SetRole
<1>7. /\ llmqs[t] = v
      /\ roles \in [Roles -> DOMAIN llmqs]
      /\ \A p \in TypeOptions : RoleOf(p) \in Roles
  BY <1>1 DEF Matches, OInv, IInv, TypeOK, Built, RoleOf, Roles
<1>8. ASSUME NEW p \in TypeOptions \ {o}, Given(p)
      PROVE  RoleOf(p) # RoleOf(o)
  <2>1. WasRead(network, pc, p)
    BY <1>1, <1>8, OptionSets DEF OInv, Given
  <2>2. PICK i \in 1 .. pc - 1 : Overrides(network)[i] = p
    BY <2>1 DEF WasRead, TypeOptions, SubsidyOptions
  <2>3. i \in 1 .. Len(Overrides(network)) /\ i # pc
    BY <1>1, SMTT(20)
  <2>4. Overrides(network)[i] \in TypeOptions /\ Overrides(network)[pc] \in TypeOptions
          => RoleOf(Overrides(network)[i]) # RoleOf(Overrides(network)[pc])
    BY <1>1, <2>3, ListDistinct, SMTT(20)
  <2>5. QED
    BY <1>2, <2>2, <2>4 DEF CurrentOption
<1>9. RolesApplied'
  <2>1. ASSUME NEW p \in TypeOptions, Given(p)'
        PROVE  llmqs'[roles'[RoleOf(p)]] = args'[p]
    <3>1. CASE p = o
      BY <1>1, <1>2, <1>6, <1>7, <3>1, SMTT(20)
    <3>2. CASE p # o
      <4>1. Given(p) /\ args'[p] = args[p]
        BY <1>4, <2>1, <3>2, OptionSets
      <4>2. RoleOf(p) # RoleOf(o)
        BY <1>8, <3>2, <4>1
      <4>3. roles'[RoleOf(p)] = roles[RoleOf(p)]
        BY <1>6, <1>7, <4>2, SMTT(20)
      <4>4. QED
        BY <1>2, <1>5, <4>1, <4>3 DEF Applied, RolesApplied
    <3>3. QED
      BY <3>1, <3>2, SMTT(20)
  <2>2. ASSUME NEW r \in Roles,
               \A p \in TypeOptions : RoleOf(p) = r => ~Given(p)'
        PROVE  roles'[r] = BaseRoles(network')[r]
    <3>1. RoleOf(o) # r
      BY <1>2, <1>3, <2>2
    <3>2. roles'[r] = roles[r]
      BY <1>6, <1>7, <3>1
    <3>3. \A p \in TypeOptions : RoleOf(p) = r => ~Given(p)
      BY <1>4, <2>2, <3>1, OptionSets, SMTT(20)
    <3>4. QED
      BY <1>2, <1>5, <3>2, <3>3 DEF Applied, RolesApplied
  <2>3. QED
    BY <2>1, <2>2 DEF RolesApplied
<1>10. HeightsApplied' /\ SubsidyApplied' /\ SizesApplied' /\ SpacingApplied'
  <2>1. o \notin HeightOptions \cup SubsidyOptions \cup SizeOptions \cup {"-powtargetspacing"}
    BY <1>2, SMTT(20) DEF HeightOptions, SubsidyOptions, SizeOptions, TypeOptions
  <2>2. HeightsApplied'
    BY <1>2, <1>4, <1>5, <2>1, OptionSets, SMTT(20) DEF Applied, HeightsApplied
  <2>3. SubsidyApplied'
    BY <1>2, <1>4, <1>5, <2>1, OptionSets, SMTT(20) DEF Applied, SubsidyApplied
  <2>4. SizesApplied'
    BY <1>2, <1>4, <1>5, <2>1, OptionSets, SMTT(20) DEF Applied, SizesApplied
  <2>5. SpacingApplied'
    BY <1>2, <1>4, <1>5, <2>1, OptionSets DEF Applied, SpacingApplied
  <2>6. QED
    BY <2>2, <2>3, <2>4, <2>5
<1>11. QED
  BY <1>1, <1>2, <1>5, <1>9, <1>10 DEF OInv, Applied, Built

(***************************************************************************)
(* The subsidy/difficulty call is the first devnet call, so it finds every *)
(* option Unread and its fields at the constructor's values; a field whose *)
(* option is absent keeps that value, and one given a number takes it.     *)
(***************************************************************************)
LEMMA SubsidyStep ==
  ASSUME OInv, IInv', NEW vs \in SubsidyArgValues, UpdateSubsidyAndDiff(vs)
  PROVE  OInv'
<1>1. /\ Built /\ network = "devnet" /\ pc = 1
      /\ Len(Overrides(network)) \in Nat
  <2>1. /\ Built /\ network \in Networks /\ pc \in 1 .. Len(Overrides(network))
        /\ Len(Overrides(network)) \in Nat
        /\ Overrides(network)[pc] = SubsidyAndDiff
    BY OverridesLen DEF OInv, IInv, TypeOK, Built, UpdateSubsidyAndDiff, Overriding,
                        CurrentOption
  <2>2. QED
    BY <2>1, ListElements
<1>2. \A p \in Options : args[p] = Unread
  BY <1>1 DEF OInv, WasRead
<1>3. /\ args' = [p \in Options |-> IF p \in SubsidyOptions THEN vs[p] ELSE args[p]]
      /\ pc' = 2
      /\ UNCHANGED <<status, network, llmqs, roles, testSizes, powSpacing>>
      /\ consensus' = [consensus EXCEPT
           !.nMinimumDifficultyBlocks = GetArg(vs["-minimumdifficultyblocks"], @),
           !.nHighSubsidyBlocks = GetArg(vs["-highsubsidyblocks"], @),
           !.nHighSubsidyFactor = GetArg(vs["-highsubsidyfactor"], @)]
  BY <1>1 DEF UpdateSubsidyAndDiff
<1>4. /\ DOMAIN args' = Options
      /\ \A p \in Options : ~WasRead(network', pc', p) => args'[p] = Unread
      /\ \A p \in Options \ SubsidyOptions : args'[p] = args[p]
  BY <1>1, <1>2, <1>3 DEF WasRead
<1>5. Applied /\ DOMAIN consensus = ConsensusFields
  BY <1>1 DEF OInv
<1>6. /\ DOMAIN consensus' = ConsensusFields
      /\ \A f \in ConsensusFields \ {SubsidyField(p) : p \in SubsidyOptions} :
           consensus'[f] = consensus[f]
      /\ \A p \in SubsidyOptions :
           consensus'[SubsidyField(p)] = GetArg(vs[p], consensus[SubsidyField(p)])
  BY <1>3, <1>5, SubsidyFieldFacts DEF SubsidyOptions, ConsensusFields
<1>7. SubsidyApplied'
  <2> SUFFICES ASSUME NEW p \in SubsidyOptions, args'[p] # Junk
               PROVE  consensus'[SubsidyField(p)] =
                        IF Given(p)' THEN args'[p]
                        ELSE BaseConsensus(network')[SubsidyField(p)]
    BY DEF SubsidyApplied
  <2>1. consensus[SubsidyField(p)] = BaseConsensus(network)[SubsidyField(p)]
    BY <1>2, <1>5, OptionSets DEF Applied, SubsidyApplied, Given
  <2>2. args'[p] = vs[p] /\ vs[p] \in SubsidyArgs \cup {NotSet, Junk}
    BY <1>3, OptionSets DEF SubsidyArgValues
  <2>3. QED
    BY <1>3, <1>6, <2>1, <2>2 DEF Given, GetArg
<1>8. \A p \in Options \ SubsidyOptions : Given(p)' = Given(p)
  BY <1>4 DEF Given
<1>9. HeightsApplied'
  <2> SUFFICES ASSUME NEW p \in HeightOptions, NEW i \in DOMAIN HeightFields(p)
               PROVE  consensus'[HeightFields(p)[i]] =
                        IF Given(p)' THEN args'[p][i]
                        ELSE BaseConsensus(network')[HeightFields(p)[i]]
    BY DEF HeightsApplied
  <2>1. HeightFields(p)[i] \in ConsensusFields \ {SubsidyField(q) : q \in SubsidyOptions}
    BY HeightFieldsFacts
  <2>2. p \in Options \ SubsidyOptions
    BY DEF HeightOptions, SubsidyOptions, Options
  <2>3. QED
    BY <1>3, <1>4, <1>5, <1>6, <1>8, <2>1, <2>2 DEF Applied, HeightsApplied
<1>10. SizesApplied' /\ RolesApplied' /\ SpacingApplied'
  <2>1. SizeOptions \cup TypeOptions \cup {"-powtargetspacing"} \subseteq Options \ SubsidyOptions
    BY DEF SizeOptions, TypeOptions, SubsidyOptions, Options
  <2>2. SizesApplied'
    BY <1>3, <1>4, <1>5, <1>8, <2>1 DEF Applied, SizesApplied
  <2>3. RolesApplied'
    BY <1>3, <1>4, <1>5, <1>8, <2>1 DEF Applied, RolesApplied
  <2>4. SpacingApplied'
    BY <1>3, <1>4, <1>5, <1>8, <2>1 DEF Applied, SpacingApplied
  <2>5. QED
    BY <2>2, <2>3, <2>4
<1>11. QED
  BY <1>1, <1>3, <1>4, <1>6, <1>7, <1>9, <1>10 DEF OInv, Applied, Built

(***************************************************************************)
(* SelectParams: the constructor's parameters, with every option still     *)
(* Unread, satisfy every effect.                                           *)
(***************************************************************************)
LEMMA SelectOStep ==
  ASSUME OInv, IInv', NEW chain \in Chains, SelectParams(chain)
  PROVE  OInv'
<1>1. /\ status = "unselected" /\ pc = 1 /\ testSizes = << >>
      /\ \A p \in Options : args[p] = Unread
      /\ DOMAIN args = Options
  BY SMTT(20) DEF SelectParams, OInv, IInv
<1>2. UNCHANGED <<args, testSizes, pc>>
  BY SMTT(20) DEF SelectParams
<1>3. CASE chain \in Networks
  <2>1. /\ network' = chain /\ roles' = BaseRoles(chain)
        /\ powSpacing' = BasePowSpacing(chain) /\ consensus' = BaseConsensus(chain)
    BY <1>3, SMTT(20) DEF SelectParams
  <2>2. DOMAIN consensus' = ConsensusFields
    BY <2>1 DEF BaseConsensus, ConsensusFields
  <2>3. \A p \in Options : ~Given(p)'
    BY <1>1, <1>2, SMTT(20) DEF Given
  <2>4. Applied'
    <3>1. HeightsApplied'
      BY <2>1, <2>3, OptionSets DEF HeightsApplied
    <3>2. SubsidyApplied'
      BY <2>1, <2>3, OptionSets, SMTT(20) DEF SubsidyApplied
    <3>3. SizesApplied'
      <4>1. DOMAIN testSizes' = {}
        BY <1>1, <1>2
      <4>2. ASSUME NEW p \in SizeOptions
            PROVE  ~Given(p)' /\ SizeTypeOf(p) \notin DOMAIN testSizes'
        BY <2>3, <4>1, OptionSets, SMTT(20)
      <4>3. QED
        BY <4>2 DEF SizesApplied, Given
    <3>4. RolesApplied'
      BY <2>1, <2>3, OptionSets, SMTT(20) DEF RolesApplied
    <3>5. SpacingApplied'
      BY <2>1, <2>3, OptionSets, SMTT(20) DEF SpacingApplied
    <3>6. QED
      BY <3>1, <3>2, <3>3, <3>4, <3>5, SMTT(20) DEF Applied
  <2>5. QED
    BY <1>1, <1>2, <2>2, <2>4, SMTT(20) DEF OInv, SelectParams
<1>4. CASE chain \notin Networks
  BY <1>1, <1>2, <1>4 DEF SelectParams, OInv, Built
<1>5. QED
  BY <1>3, <1>4

\* A call that throws reads its option and ends the construction.
LEMMA FailOStep ==
  ASSUME OInv, IInv', NEW v,
         \/ RejectTypeOption(v) \/ RejectSizeOption(v) \/ RejectHeights(v)
         \/ RejectPowSpacing(v)
  PROVE  OInv'
<1>1. status' = "failed" /\ ReadOption(v)
  BY SMTT(20) DEF RejectTypeOption, RejectSizeOption, RejectHeights, RejectPowSpacing
<1>2. QED
  BY <1>1, SMTT(20) DEF OInv, ReadOption, Built

\* A step that changes none of the variables Applied reads keeps it.
LEMMA AppliedFrame ==
  ASSUME args' = args, network' = network, llmqs' = llmqs, roles' = roles,
         testSizes' = testSizes, powSpacing' = powSpacing, consensus' = consensus
  PROVE  Applied' = Applied
<1>1. HeightsApplied' = HeightsApplied
  BY SMTT(20) DEF HeightsApplied, Given
<1>2. SubsidyApplied' = SubsidyApplied
  BY DEF SubsidyApplied, Given
<1>3. SizesApplied' = SizesApplied
  BY SMTT(20) DEF SizesApplied, Given
<1>4. RolesApplied' = RolesApplied
  BY DEF RolesApplied, Given
<1>5. SpacingApplied' = SpacingApplied
  BY SMTT(20) DEF SpacingApplied, Given
<1>6. QED
  BY <1>1, <1>2, <1>3, <1>4, <1>5, SMTT(20) DEF Applied

LEMMA OInvStep == OInv /\ [Next]_vars => OInv'
<1> SUFFICES ASSUME OInv, [Next]_vars PROVE OInv'
  OBVIOUS
<1>1. IInv'
  BY IInvStep DEF OInv
<1>2. CASE \E chain \in Chains : SelectParams(chain)
  BY <1>1, <1>2, SelectOStep, SMTT(20)
<1>3. CASE /\ ReadingOption
           /\ \E v \in ArgValues(CurrentOption) :
                \/ OverrideNotSet(v) \/ RejectTypeOption(v) \/ SetRole(v)
                \/ RejectSizeOption(v) \/ SetTestSizes(v) \/ RejectHeights(v) \/ SetHeights(v)
                \/ RejectPowSpacing(v) \/ SetPowSpacing(v)
  <2>1. PICK v \in ArgValues(CurrentOption) :
               \/ OverrideNotSet(v) \/ RejectTypeOption(v) \/ SetRole(v)
               \/ RejectSizeOption(v) \/ SetTestSizes(v) \/ RejectHeights(v) \/ SetHeights(v)
               \/ RejectPowSpacing(v) \/ SetPowSpacing(v)
    BY <1>3
  <2>2. CASE OverrideNotSet(v)
    BY <1>1, <2>2, NotSetStep, SMTT(20)
  <2>3. CASE RejectTypeOption(v) \/ RejectSizeOption(v) \/ RejectHeights(v)
             \/ RejectPowSpacing(v)
    BY <1>1, <2>3, FailOStep, SMTT(20)
  <2>4. CASE SetRole(v)
    BY <1>1, <2>1, <2>4, SetRoleOStep, SMTT(20)
  <2>5. CASE SetTestSizes(v)
    BY <1>1, <2>1, <2>5, SetTestSizesStep, SMTT(20)
  <2>6. CASE SetHeights(v)
    BY <1>1, <2>1, <2>6, SetHeightsStep, SMTT(20)
  <2>7. CASE SetPowSpacing(v)
    BY <1>1, <2>1, <2>7, SetPowSpacingStep
  <2>8. QED
    BY <2>1, <2>2, <2>3, <2>4, <2>5, <2>6, <2>7
<1>4. CASE \E vs \in SubsidyArgValues : UpdateSubsidyAndDiff(vs)
  BY <1>1, <1>4, SubsidyStep, SMTT(20)
<1>5. CASE FinishConstruction
  <2>1. /\ args' = args /\ network' = network /\ llmqs' = llmqs /\ roles' = roles
        /\ testSizes' = testSizes /\ powSpacing' = powSpacing
        /\ consensus' = consensus /\ pc' = pc
        /\ status = "constructing" /\ status' = "ready"
    BY <1>5 DEF FinishConstruction
  <2>2. Applied' = Applied
    BY <2>1, AppliedFrame, SMTT(20)
  <2>3. QED
    BY <1>1, <2>1, <2>2, SMTT(20) DEF OInv, Built
<1>6. CASE ParamsUnselected
  BY <1>1, <1>6 DEF ParamsUnselected, OInv, Built
<1>7. CASE UNCHANGED vars
  <2>1. /\ args' = args /\ network' = network /\ llmqs' = llmqs /\ roles' = roles
        /\ testSizes' = testSizes /\ powSpacing' = powSpacing
        /\ consensus' = consensus /\ pc' = pc /\ status' = status
    BY <1>7, SMTT(20) DEF vars
  <2>2. Applied' = Applied
    BY <2>1, AppliedFrame
  <2>3. QED
    BY <1>1, <2>1, <2>2, SMTT(20) DEF OInv, Built
<1>8. QED
  BY <1>2, <1>3, <1>4, <1>5, <1>6, <1>7 DEF Next

-----------------------------------------------------------------------------
(* Theorems *)

\* Startup keeps the type invariant: set parameters are a known network's.
THEOREM TypeCorrect == Spec => []TypeOK
<1>1. IInv => TypeOK
  BY DEF IInv
<1>2. QED
  BY <1>1, InitIInv, IInvStep, PTL DEF Spec

(***************************************************************************)
(* SelectParams stores only what CreateChainParams returned: for every     *)
(* command line, whenever globalChainParams is set, startup has completed  *)
(* and it holds the network constructed; no override that throws leaves    *)
(* it set.  The property is inductive by itself: every override runs while *)
(* the parameters are under construction, when it is unset, and leaves it  *)
(* alone.                                                                  *)
(***************************************************************************)
THEOREM PublishedProved == Spec => []OnlyCompleteParamsPublished
<1>1. Init => OnlyCompleteParamsPublished
  BY DEF Init, OnlyCompleteParamsPublished
<1>2. OnlyCompleteParamsPublished /\ [Next]_vars => OnlyCompleteParamsPublished'
  <2> SUFFICES ASSUME OnlyCompleteParamsPublished, [Next]_vars
               PROVE  OnlyCompleteParamsPublished'
    OBVIOUS
  <2>1. ASSUME NEW chain \in Chains, SelectParams(chain)
        PROVE  OnlyCompleteParamsPublished'
    BY <2>1 DEF SelectParams, OnlyCompleteParamsPublished
  <2>2. ASSUME NEW v,
               \/ OverrideNotSet(v) \/ RejectTypeOption(v) \/ SetRole(v)
               \/ RejectSizeOption(v) \/ SetTestSizes(v) \/ RejectHeights(v)
               \/ SetHeights(v) \/ RejectPowSpacing(v) \/ SetPowSpacing(v)
        PROVE  OnlyCompleteParamsPublished'
    <3>1. ReadingOption /\ globalChainParams' = globalChainParams
      BY <2>2 DEF OverrideNotSet, RejectTypeOption, SetRole, RejectSizeOption,
                  SetTestSizes, RejectHeights, SetHeights, RejectPowSpacing,
                  SetPowSpacing
    <3>2. globalChainParams = NotSet
      BY <3>1 DEF ReadingOption, Overriding, OnlyCompleteParamsPublished
    <3>3. QED
      BY <3>1, <3>2 DEF OnlyCompleteParamsPublished
  <2>3. ASSUME NEW vs, UpdateSubsidyAndDiff(vs)
        PROVE  OnlyCompleteParamsPublished'
    <3>1. Overriding /\ globalChainParams' = globalChainParams
      BY <2>3 DEF UpdateSubsidyAndDiff
    <3>2. globalChainParams = NotSet
      BY <3>1 DEF Overriding, OnlyCompleteParamsPublished
    <3>3. QED
      BY <3>1, <3>2 DEF OnlyCompleteParamsPublished
  <2>4. CASE FinishConstruction
    BY <2>4 DEF FinishConstruction, OnlyCompleteParamsPublished
  <2>5. CASE ParamsUnselected
    BY <2>5 DEF ParamsUnselected, OnlyCompleteParamsPublished
  <2>6. CASE UNCHANGED vars
    BY <2>6 DEF vars, OnlyCompleteParamsPublished
  <2>7. QED
    BY <2>1, <2>2, <2>3, <2>4, <2>5, <2>6 DEF Next
<1>3. QED
  BY <1>1, <1>2, PTL DEF Spec

(***************************************************************************)
(* The -llmqchainlocks and -llmqinstantsenddip0024 checks: on devnet, any  *)
(* command line that completes startup leaves chain locks on a quorum      *)
(* without rotation and DIP0024 instant send on one with rotation.         *)
(***************************************************************************)
THEOREM DevnetRotationProved == Spec => []DevnetRotationChecksHold
<1>1. IInv => DevnetRotationChecksHold
  BY DEF IInv, Built, DevnetRolesOK, DevnetRotationChecksHold
<1>2. QED
  BY <1>1, InitIInv, IInvStep, PTL DEF Spec

(***************************************************************************)
(* The override functions of the devnet and regtest constructors: whatever *)
(* the command line, a startup that completes has every DIP3, DIP8,        *)
(* budget, subsidy (not given junk), test-size, role and spacing override  *)
(* in effect, and the constructor's value wherever no option was given.    *)
(***************************************************************************)
THEOREM OverridesProved == Spec => []OverridesTakeEffect
<1>1. Init => OInv
  BY InitOInv
<1>2. OInv => OverridesTakeEffect
  BY DEF OInv, Applied, Built, OverridesTakeEffect
<1>3. QED
  BY <1>1, <1>2, OInvStep, PTL DEF Spec

=============================================================================
