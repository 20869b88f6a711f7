---------------------------- MODULE ChainParams ----------------------------
(***************************************************************************)
(* Process startup in src/src/chainparams.cpp: SelectParams (lines         *)
(* 1311-1315) runs CreateChainParams (lines 1297-1309), whose devnet and   *)
(* regtest constructors end with the command-line overrides of the LLMQ    *)
(* catalog and of the quorum roles (devnet lines 610-613, regtest lines    *)
(* 897-899); globalChainParams is set only when construction returns, and  *)
(* Params() asserts it is set (lines 1290-1295).                           *)
(*                                                                         *)
(* The regtest constructor first runs the DIP3, DIP8 and budget overrides *)
(* (lines 815-817), the devnet constructor first its subsidy/difficulty    *)
(* override (line 568).  Each override function is one action: it returns  *)
(* at once when its option is not set, throws (the startup fails) on a     *)
(* bad value, or updates the parameters.  Each option is read by exactly   *)
(* one override, so its command-line value is chosen by the action that   *)
(* reads it and recorded in args.  Record names are the strings of         *)
(* LLMQCatalog; which records use rotation is the useRotation flag of      *)
(* llmq/params.h.                                                          *)
(***************************************************************************)
EXTENDS LLMQCatalog, Sequences

CONSTANTS
  Chains,      \* network names SelectParams may be given
  TypeArgs,    \* record names a quorum-type option may carry
  SizeArgs,    \* <<size, threshold>> pairs a size option may carry
  SpacingArgs, \* integers -powtargetspacing may carry
  HeightArgs,  \* integers a -dip3params/-dip8params/-budgetparams field may carry
  SubsidyArgs, \* integers a subsidy/difficulty option may carry
  Junk,        \* a value SplitString/ParseInt32 rejects
  NotSet,      \* the option is absent from the command line
  Unread,      \* no override has read the option yet
  Default      \* the consensus/params.h value of a field no constructor sets

ASSUME ChainParamsAssumption ==
  /\ Networks \subseteq Chains
  /\ SizeArgs \subseteq Int \X Int
  /\ SpacingArgs \subseteq Int
  /\ HeightArgs \subseteq Int
  /\ SubsidyArgs \subseteq Int
  /\ Unread \notin TypeArgs /\ Unread \notin SizeArgs
  /\ Unread \notin Int \cup Seq(Int) \cup {NotSet, Junk}
  /\ NotSet \notin TypeArgs /\ Junk \notin TypeArgs

VARIABLES
  args,               \* option -> value on the command line
  status,             \* "unselected", "constructing", "ready", "failed", "aborted"
  network,            \* the chain being constructed
  llmqs,              \* consensus.llmqs: type -> record
  roles,              \* consensus.llmqType<Role>: role -> type
  testSizes,          \* type -> size fields written by UpdateLLMQTestParameters
  powSpacing,         \* consensus.nPowTargetSpacing
  consensus,          \* the activation, budget and subsidy fields of consensus
  pc,                 \* the next override call of the constructor
  globalChainParams   \* the network of the selected parameters, or NotSet

vars == <<args, status, network, llmqs, roles, testSizes, powSpacing, consensus, pc,
          globalChainParams>>

\* The records whose useRotation flag is set (llmq/params.h).
RotationRecords == {"llmq_60_75", "llmq_10_75", "llmq_20_75",
                    "llmq_devnet_dip0024", "llmq_test_dip0024"}

Roles == {"ChainLocks", "DIP0024InstantSend", "Platform", "Mnhf"}

TypeOptions == {"-llmqchainlocks", "-llmqinstantsenddip0024", "-llmqplatform",
                "-llmqmnhf", "-llmqtestinstantsenddip0024"}
SizeOptions == {"-llmqtestparams", "-llmqtestinstantsendparams", "-llmqdevnetparams"}
HeightOptions == {"-dip3params", "-dip8params", "-budgetparams"}
SubsidyOptions == {"-minimumdifficultyblocks", "-highsubsidyblocks", "-highsubsidyfactor"}
Options == TypeOptions \cup SizeOptions \cup HeightOptions \cup SubsidyOptions
             \cup {"-powtargetspacing"}

\* The call UpdateDevnetSubsidyAndDiffParametersFromArgs, which reads the
\* three SubsidyOptions at once.
SubsidyAndDiff == "SubsidyAndDiff"

\* The override calls of each constructor, in order.
Overrides(net) ==
  IF net = "devnet" THEN <<SubsidyAndDiff, "-llmqchainlocks", "-llmqinstantsenddip0024",
                            "-llmqplatform", "-llmqmnhf", "-llmqdevnetparams",
                            "-powtargetspacing">>
  ELSE IF net = "regtest" THEN <<"-dip3params", "-dip8params", "-budgetparams",
                                 "-llmqtestparams", "-llmqtestinstantsendparams",
                                 "-llmqtestinstantsenddip0024">>
  ELSE << >>

\* The role each quorum-type option sets.
RoleOf(opt) ==
  IF opt = "-llmqchainlocks" THEN "ChainLocks"
  ELSE IF opt = "-llmqplatform" THEN "Platform"
  ELSE IF opt = "-llmqmnhf" THEN "Mnhf"
  ELSE "DIP0024InstantSend"

\* The quorum type each size option rewrites.
SizeTypeOf(opt) ==
  IF opt = "-llmqtestparams" THEN "LLMQ_TEST"
  ELSE IF opt = "-llmqtestinstantsendparams" THEN "LLMQ_TEST_INSTANTSEND"
  ELSE "LLMQ_DEVNET"

\* consensus.nPowTargetSpacing of each constructor (lines 183, 355, 520, 766).
BasePowSpacing(net) == IF net = "test" THEN 36 ELSE 72

\* The roles each constructor assigns (lines 272-275, 437-440, 605-608, 892-895).
BaseRoles(net) ==
  IF net \in {"main", "test"} THEN
         [ChainLocks |-> "LLMQ_400_60", DIP0024InstantSend |-> "LLMQ_60_75",
          Platform |-> "LLMQ_100_67", Mnhf |-> "LLMQ_400_85"]
  ELSE IF net = "devnet" THEN
         [ChainLocks |-> "LLMQ_DEVNET", DIP0024InstantSend |-> "LLMQ_DEVNET_DIP0024",
          Platform |-> "LLMQ_DEVNET_PLATFORM", Mnhf |-> "LLMQ_DEVNET"]
  ELSE
         [ChainLocks |-> "LLMQ_TEST", DIP0024InstantSend |-> "LLMQ_TEST_DIP0024",
          Platform |-> "LLMQ_TEST_PLATFORM", Mnhf |-> "LLMQ_TEST"]

\* The types whose record bears the name given (the loop over consensus.llmqs).
Matches(name) == {t \in DOMAIN llmqs : llmqs[t] = name}

\* The consensus fields each of -dip3params, -dip8params and -budgetparams
\* sets, in the order of its colon-separated values (UpdateDIP3Parameters,
\* UpdateDIP8Parameters, UpdateBudgetParameters).
HeightFields(opt) ==
  IF opt = "-dip3params" THEN <<"DIP0003Height", "DIP0003EnforcementHeight">>
  ELSE IF opt = "-dip8params" THEN <<"DIP0008Height">>
  ELSE <<"nMasternodePaymentsStartBlock", "nBudgetPaymentsStartBlock",
         "nSuperblockStartBlock">>

\* The consensus field each subsidy/difficulty option sets.
SubsidyField(opt) ==
  IF opt = "-minimumdifficultyblocks" THEN "nMinimumDifficultyBlocks"
  ELSE IF opt = "-highsubsidyblocks" THEN "nHighSubsidyBlocks"
  ELSE "nHighSubsidyFactor"

\* The values the command line may give an option: a well-formed value,
\* a malformed one (Junk) or none.  A quorum-type option is a name, and a
\* malformed name is one that no record bears.
ArgValues(opt) ==
  IF opt \in TypeOptions THEN TypeArgs \cup {NotSet}
  ELSE {NotSet, Junk} \cup
    (IF opt \in SizeOptions THEN SizeArgs
     ELSE IF opt \in HeightOptions THEN [1 .. Len(HeightFields(opt)) -> HeightArgs]
     ELSE IF opt \in SubsidyOptions THEN SubsidyArgs
     ELSE SpacingArgs)

\* The activation, budget and subsidy fields of each constructor: DIP3 and
\* DIP8 heights and the budget start blocks (main lines 151-174, test
\* 324-346, devnet 489-511, regtest 734-757).  No constructor sets the
\* subsidy/difficulty fields.
BaseConsensus(net) ==
  [DIP0003Height |-> IF net = "regtest" THEN 20 ELSE 2,
   DIP0003EnforcementHeight |-> IF net = "regtest" THEN 30 ELSE 2,
   DIP0008Height |-> IF net = "regtest" THEN 20 ELSE 2,
   nMasternodePaymentsStartBlock |-> 250,
   nBudgetPaymentsStartBlock |-> 250,
   nSuperblockStartBlock |-> IF net = "main" THEN 18000
                            ELSE IF net = "test" THEN 350
                            ELSE IF net = "devnet" THEN 4200 ELSE 1800,
   nMinimumDifficultyBlocks |-> Default,
   nHighSubsidyBlocks |-> Default,
   nHighSubsidyFactor |-> Default]

\* Mutant: -llmqchainlocks accepts a rotation quorum.
RotationRejectedNoChainLocks(opt, name) ==
  /\ opt = "-llmqinstantsenddip0024"
  /\ \E t \in Matches(name) : llmqs[t] \notin RotationRecords

(***************************************************************************)
(* The rotation checks inside the loops: -llmqchainlocks throws on a       *)
(* matching record that uses rotation (line 1170), -llmqinstantsenddip0024 *)
(* on one that does not (line 1195).  The other options check nothing.     *)
(***************************************************************************)
RotationRejected(opt, name) ==
  \/ /\ opt = "-llmqchainlocks"
     /\ \E t \in Matches(name) : llmqs[t] \in RotationRecords
  \/ /\ opt = "-llmqinstantsenddip0024"
     /\ \E t \in Matches(name) : llmqs[t] \notin RotationRecords

\* The constructor has an override call left; CurrentOption is that call.
Overriding == status = "constructing" /\ pc <= Len(Overrides(network))
CurrentOption == Overrides(network)[pc]

\* The call left reads a single option.
ReadingOption == Overriding /\ CurrentOption \in Options

\* The call reads value v of its option from the command line.
ReadOption(v) == args' = [args EXCEPT ![CurrentOption] = v]

\* The fields F[i] of record rec take the values v[i].
AssignFields(rec, F, v) ==
  [f \in DOMAIN rec |-> IF \E i \in DOMAIN F : F[i] = f
                        THEN v[CHOOSE i \in DOMAIN F : F[i] = f]
                        ELSE rec[f]]

(***************************************************************************)
(* ArgsManager::GetArg(option, default) for an integer: the default when   *)
(* the option is absent, and the leading digits of the text otherwise, so  *)
(* a value with none reads as 0; no error is reported.                     *)
(***************************************************************************)
GetArg(v, default) ==
  IF v = NotSet THEN default ELSE IF v = Junk THEN 0 ELSE v

-----------------------------------------------------------------------------
(* Actions *)

Init ==
  /\ args = [o \in Options |-> Unread]
  /\ status = "unselected"
  /\ network = NotSet /\ llmqs = << >> /\ roles = << >> /\ testSizes = << >>
  /\ powSpacing = 0
  /\ consensus = << >>
  /\ pc = 1
  /\ globalChainParams = NotSet

\* Mutant: the parameters are stored when the constructor is entered, so
\* an override that throws leaves them set.
SelectParamsEarly(chain) ==
  /\ status = "unselected"
  /\ IF chain \in Networks
       THEN /\ status' = IF Overrides(chain) = << >> THEN "ready" ELSE "constructing"
            /\ network' = chain
            /\ llmqs' = BaseLLMQs(chain)
            /\ roles' = BaseRoles(chain)
            /\ powSpacing' = BasePowSpacing(chain)
            /\ consensus' = BaseConsensus(chain)
            /\ globalChainParams' = chain
       ELSE /\ status' = "failed"
            /\ UNCHANGED <<network, llmqs, roles, powSpacing, consensus, globalChainParams>>
  /\ UNCHANGED <<args, testSizes, pc>>

(***************************************************************************)
(* SelectParams(chain): SelectBaseParams and CreateChainParams throw on an *)
(* unknown chain; otherwise the constructor fills the catalog, the roles   *)
(* and the consensus fields and goes on to its overrides.  Main and test   *)
(* have none.                                                              *)
(***************************************************************************)
SelectParams(chain) ==
  /\ status = "unselected"
  /\ IF chain \in Networks
       THEN /\ status' = IF Overrides(chain) = << >> THEN "ready" ELSE "constructing"
            /\ network' = chain
            /\ llmqs' = BaseLLMQs(chain)
            /\ roles' = BaseRoles(chain)
            /\ powSpacing' = BasePowSpacing(chain)
            /\ consensus' = BaseConsensus(chain)
            /\ globalChainParams' = IF Overrides(chain) = << >> THEN chain ELSE NotSet
       ELSE /\ status' = "failed"
            /\ UNCHANGED <<network, llmqs, roles, powSpacing, consensus, globalChainParams>>
  /\ UNCHANGED <<args, testSizes, pc>>

\* An override whose option is not on the command line returns at once.
OverrideNotSet(v) ==
  /\ ReadingOption
  /\ v = NotSet
  /\ ReadOption(v)
  /\ pc' = pc + 1
  /\ UNCHANGED <<status, network, llmqs, roles, testSizes, powSpacing, consensus,
                 globalChainParams>>

\* A quorum-type option naming no record of the catalog, or failing the
\* rotation check, throws.
RejectTypeOption(v) ==
  /\ ReadingOption
  /\ CurrentOption \in TypeOptions
  /\ v # NotSet
  /\ \/ Matches(v) = {}
     \/ RotationRejected(CurrentOption, v)
  /\ status' = "failed"
  /\ ReadOption(v)
  /\ UNCHANGED <<network, llmqs, roles, testSizes, powSpacing, consensus, pc,
                 globalChainParams>>

\* Mutant: the role is set to the name given instead of the matching type.
SetRoleByName(v) ==
  /\ ReadingOption
  /\ CurrentOption \in TypeOptions
  /\ v # NotSet
  /\ Matches(v) # {}
  /\ ~RotationRejected(CurrentOption, v)
  /\ roles' = [roles EXCEPT ![RoleOf(CurrentOption)] = v]
  /\ ReadOption(v)
  /\ pc' = pc + 1
  /\ UNCHANGED <<status, network, llmqs, testSizes, powSpacing, consensus, globalChainParams>>

\* A quorum-type option naming a record sets its role to the record's type.
SetRole(v) ==
  /\ ReadingOption
  /\ CurrentOption \in TypeOptions
  /\ v # NotSet
  /\ Matches(v) # {}
  /\ ~RotationRejected(CurrentOption, v)
  /\ \E t \in Matches(v) : roles' = [roles EXCEPT ![RoleOf(CurrentOption)] = t]
  /\ ReadOption(v)
  /\ pc' = pc + 1
  /\ UNCHANGED <<status, network, llmqs, testSizes, powSpacing, consensus, globalChainParams>>

\* -llmqtest[instantsend]params or -llmqdevnetparams that is not two
\* integers throws.
RejectSizeOption(v) ==
  /\ ReadingOption
  /\ CurrentOption \in SizeOptions
  /\ v = Junk
  /\ status' = "failed"
  /\ ReadOption(v)
  /\ UNCHANGED <<network, llmqs, roles, testSizes, powSpacing, consensus, pc,
                 globalChainParams>>

\* -dip3params, -dip8params or -budgetparams with the wrong number of
\* fields, or a field ParseInt32 rejects, throws.
RejectHeights(v) ==
  /\ ReadingOption
  /\ CurrentOption \in HeightOptions
  /\ v = Junk
  /\ status' = "failed"
  /\ ReadOption(v)
  /\ UNCHANGED <<network, llmqs, roles, testSizes, powSpacing, consensus, pc,
                 globalChainParams>>

\* UpdateLLMQTestParameters: size, and minSize, threshold and bad votes.
SetTestSizes(v) ==
  /\ ReadingOption
  /\ CurrentOption \in SizeOptions
  /\ v \notin {NotSet, Junk}
  /\ testSizes' = [t \in DOMAIN testSizes \cup {SizeTypeOf(CurrentOption)} |->
                     IF t = SizeTypeOf(CurrentOption)
                     THEN [size |-> v[1], minSize |-> v[2], threshold |-> v[2],
                           dkgBadVotesThreshold |-> v[2]]
                     ELSE testSizes[t]]
  /\ ReadOption(v)
  /\ pc' = pc + 1
  /\ UNCHANGED <<status, network, llmqs, roles, powSpacing, consensus, globalChainParams>>

\* Mutant: the parsed values are passed to the setter in reverse order.
SetHeightsReversed(v) ==
  /\ ReadingOption
  /\ CurrentOption \in HeightOptions
  /\ v \notin {NotSet, Junk}
  /\ consensus' = AssignFields(consensus, HeightFields(CurrentOption),
                               [i \in DOMAIN v |-> v[Len(v) + 1 - i]])
  /\ ReadOption(v)
  /\ pc' = pc + 1
  /\ UNCHANGED <<status, network, llmqs, roles, testSizes, powSpacing, globalChainParams>>

\* UpdateDIP3/DIP8/BudgetParametersFromArgs: the parsed fields are stored.
SetHeights(v) ==
  /\ ReadingOption
  /\ CurrentOption \in HeightOptions
  /\ v \notin {NotSet, Junk}
  /\ consensus' = AssignFields(consensus, HeightFields(CurrentOption), v)
  /\ ReadOption(v)
  /\ pc' = pc + 1
  /\ UNCHANGED <<status, network, llmqs, roles, testSizes, powSpacing, globalChainParams>>

\* -powtargetspacing that is not an integer, or is below 1, throws.
RejectPowSpacing(v) ==
  /\ ReadingOption
  /\ CurrentOption = "-powtargetspacing"
  /\ v # NotSet
  /\ ~(v # Junk /\ v >= 1)
  /\ status' = "failed"
  /\ ReadOption(v)
  /\ UNCHANGED <<network, llmqs, roles, testSizes, powSpacing, consensus, pc,
                 globalChainParams>>

\* UpdateDevnetPowTargetSpacing.
SetPowSpacing(v) ==
  /\ ReadingOption
  /\ CurrentOption = "-powtargetspacing"
  /\ v \notin {NotSet, Junk}
  /\ v >= 1
  /\ powSpacing' = v
  /\ ReadOption(v)
  /\ pc' = pc + 1
  /\ UNCHANGED <<status, network, llmqs, roles, testSizes, consensus, globalChainParams>>

(***************************************************************************)
(* UpdateDevnetSubsidyAndDiffParametersFromArgs with the command-line      *)
(* values vs of its three options: it returns when none is set, and        *)
(* otherwise stores GetArg of each with the current field as default.      *)
(* GetArg of an absent option is that default, so both cases are one      *)
(* assignment.                                                             *)
(***************************************************************************)
UpdateSubsidyAndDiff(vs) ==
  /\ Overriding
  /\ CurrentOption = SubsidyAndDiff
  /\ consensus' = [consensus EXCEPT
       !.nMinimumDifficultyBlocks = GetArg(vs["-minimumdifficultyblocks"], @),
       !.nHighSubsidyBlocks = GetArg(vs["-highsubsidyblocks"], @),
       !.nHighSubsidyFactor = GetArg(vs["-highsubsidyfactor"], @)]
  /\ args' = [o \in Options |-> IF o \in SubsidyOptions THEN vs[o] ELSE args[o]]
  /\ pc' = pc + 1
  /\ UNCHANGED <<status, network, llmqs, roles, testSizes, powSpacing, globalChainParams>>

\* The constructor returns and SelectParams stores the parameters.
FinishConstruction ==
  /\ status = "constructing"
  /\ pc > Len(Overrides(network))
  /\ status' = "ready"
  /\ globalChainParams' = network
  /\ UNCHANGED <<args, network, llmqs, roles, testSizes, powSpacing, consensus, pc>>

\* Params() before SelectParams: assert(globalChainParams) aborts.
ParamsUnselected ==
  /\ globalChainParams = NotSet
  /\ status = "unselected"
  /\ status' = "aborted"
  /\ UNCHANGED <<args, network, llmqs, roles, testSizes, powSpacing, consensus, pc,
                 globalChainParams>>

\* The subsidy options' values, one function per command line.
SubsidyArgValues == [SubsidyOptions -> SubsidyArgs \cup {NotSet, Junk}]

Next ==
  \/ \E chain \in Chains : SelectParams(chain)
  \/ /\ ReadingOption
     /\ \E v \in ArgValues(CurrentOption) :
          \/ OverrideNotSet(v) \/ RejectTypeOption(v) \/ SetRole(v)
          \/ RejectSizeOption(v) \/ SetTestSizes(v) \/ RejectHeights(v) \/ SetHeights(v)
          \/ RejectPowSpacing(v) \/ SetPowSpacing(v)
  \/ \E vs \in SubsidyArgValues : UpdateSubsidyAndDiff(vs)
  \/ FinishConstruction
  \/ ParamsUnselected

Spec == Init /\ [][Next]_vars

-----------------------------------------------------------------------------
(* Properties *)

TypeOK ==
  /\ status \in {"unselected", "constructing", "ready", "failed", "aborted"}
  /\ status \in {"constructing", "ready"} =>
       /\ network \in Networks
       /\ llmqs = BaseLLMQs(network)
       /\ roles \in [Roles -> DOMAIN llmqs]
       /\ pc \in 1 .. Len(Overrides(network)) + 1
  /\ globalChainParams \in Networks \cup {NotSet}

(***************************************************************************)
(* SelectParams assigns globalChainParams only with the pointer that       *)
(* CreateChainParams returns (line 1314), so an override that throws in a  *)
(* constructor (the rotation checks of lines 1168-1170, a malformed        *)
(* -llmq... or -dip3params string) leaves it unset, and Params() never     *)
(* hands out parameters whose overrides ran only in part: whenever it is   *)
(* set, startup completed and it holds the network that was constructed.  *)
(***************************************************************************)
OnlyCompleteParamsPublished ==
  globalChainParams # NotSet => status = "ready" /\ globalChainParams = network

(***************************************************************************)
(* What the devnet overrides check: whatever the command line, a startup   *)
(* that completes has a chain-lock quorum without rotation and a DIP0024   *)
(* instant-send quorum with rotation on devnet.                            *)
(***************************************************************************)
DevnetRotationChecksHold ==
  (status = "ready" /\ network = "devnet") =>
    /\ llmqs[roles["ChainLocks"]] \notin RotationRecords
    /\ llmqs[roles["DIP0024InstantSend"]] \in RotationRecords

\* The option was read and carried a well-formed value.
Given(o) == args[o] \notin {Unread, NotSet, Junk}

\* Each DIP3, DIP8 and budget field holds its option's value, or the
\* constructor's when the option gave none.
HeightsApplied ==
  \A o \in HeightOptions : \A i \in DOMAIN HeightFields(o) :
    consensus[HeightFields(o)[i]] =
      IF Given(o) THEN args[o][i] ELSE BaseConsensus(network)[HeightFields(o)[i]]

\* Each subsidy/difficulty field not given junk holds its option's value,
\* or the constructor's.
SubsidyApplied ==
  \A o \in SubsidyOptions : args[o] # Junk =>
    consensus[SubsidyField(o)] =
      IF Given(o) THEN args[o] ELSE BaseConsensus(network)[SubsidyField(o)]

\* A test quorum's sizes are rewritten exactly when its option is given.
SizesApplied ==
  \A o \in SizeOptions :
    /\ (SizeTypeOf(o) \in DOMAIN testSizes) = Given(o)
    /\ Given(o) => /\ testSizes[SizeTypeOf(o)].size = args[o][1]
                   /\ testSizes[SizeTypeOf(o)].threshold = args[o][2]

\* A role given on the command line is a quorum of the record named; any
\* other role is the constructor's.
RolesApplied ==
  /\ \A o \in TypeOptions : Given(o) => llmqs[roles[RoleOf(o)]] = args[o]
  /\ \A r \in Roles : (\A o \in TypeOptions : RoleOf(o) = r => ~Given(o)) =>
       roles[r] = BaseRoles(network)[r]

\* The spacing is the one given, or the constructor's.
SpacingApplied ==
  powSpacing = IF Given("-powtargetspacing") THEN args["-powtargetspacing"]
               ELSE BasePowSpacing(network)

(***************************************************************************)
(* Every override takes effect and nothing else does: in the parameters a  *)
(* startup completes with, each field, size, role and spacing holds the    *)
(* value its option gave, and the constructor's value when the option was  *)
(* absent or belongs to the other network.  This is about the order of the *)
(* parsed values in the setters, the options each constructor reads, and   *)
(* overrides not undoing each other.  A subsidy option given as junk is    *)
(* left out: what it yields is the subject of ConfigErrorsAbortStartup.    *)
(***************************************************************************)
OverridesTakeEffect ==
  status = "ready" =>
    HeightsApplied /\ SubsidyApplied /\ SizesApplied /\ RolesApplied /\ SpacingApplied

(***************************************************************************)
(* Spec section 7: a malformed override string or an unparseable integer,  *)
(* and a quorum-role/rotation-type mismatch, are configuration errors that *)
(* abort startup.  So a startup that completes read no junk value, and     *)
(* rotation quorums hold only the rotation role (DIP0024 instant send).    *)
(* The subsidy/difficulty options are read with GetArg, which takes junk   *)
(* for 0, and -llmqplatform, -llmqmnhf and -llmqtestinstantsenddip0024     *)
(* check no rotation.                                                      *)
(***************************************************************************)
ConfigErrorsAbortStartup ==
  status = "ready" =>
    /\ \A o \in Options : args[o] # Junk
    /\ \A r \in Roles :
         (llmqs[roles[r]] \in RotationRecords) = (r = "DIP0024InstantSend")

=============================================================================
