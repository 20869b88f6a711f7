---------------------------- MODULE LLMQCatalog ----------------------------
(***************************************************************************)
(* The quorum parameter catalog of src/src/chainparams.cpp: which LLMQ     *)
(* parameter record each network profile stores under each quorum type     *)
(* (consensus.llmqs), and the DKG mining-phase test that the adaptation    *)
(* engine runs over the catalog (IsMiningPhase, IsLLMQsMiningPhase).       *)
(*                                                                         *)
(* A parameter record (Consensus::llmq_10_60, llmq_400_85, ...) is named   *)
(* by a string.  Its DKG timing lives in llmq/params.h, outside src/, so   *)
(* it is a CONSTANT of the model: the MC modules give it small values.     *)
(***************************************************************************)
EXTENDS Integers

CONSTANTS
  DkgInterval,           \* record -> dkgInterval (blocks between DKGs)
  DkgMiningWindowStart,  \* record -> dkgMiningWindowStart
  DkgMiningWindowEnd     \* record -> dkgMiningWindowEnd

\* Network ids of CBaseChainParams (MAIN, TESTNET, DEVNET, REGTEST).
Networks == {"main", "test", "devnet", "regtest"}

\* The records the main and test profiles and the adaptation engine store.
AdaptiveRecords ==
  { "llmq_10_60", "llmq_50_60", "llmq_10_75", "llmq_20_75", "llmq_60_75",
    "llmq_20_60", "llmq_40_60", "llmq_400_60",
    "llmq_20_85", "llmq_40_85", "llmq_400_85", "llmq_100_67" }

DevnetRecords == {"llmq_devnet", "llmq_devnet_dip0024", "llmq_devnet_platform"}

RegtestRecords ==
  { "llmq_test", "llmq_test_instantsend", "llmq_test_v17",
    "llmq_test_dip0024", "llmq_test_platform" }

LLMQRecords == AdaptiveRecords \cup DevnetRecords \cup RegtestRecords

ASSUME DkgTimingAssumption ==
  /\ DkgInterval \in [LLMQRecords -> Nat \ {0}]
  /\ DkgMiningWindowStart \in [LLMQRecords -> Nat]
  /\ DkgMiningWindowEnd \in [LLMQRecords -> Nat]

(***************************************************************************)
(* consensus.llmqs as each constructor fills it: a function from quorum    *)
(* type to record.  Main and test store the same five entries.             *)
(***************************************************************************)
MainTestLLMQs ==
  [ LLMQ_50_60  |-> "llmq_50_60",
    LLMQ_60_75  |-> "llmq_60_75",
    LLMQ_400_60 |-> "llmq_20_60",
    LLMQ_400_85 |-> "llmq_20_85",
    LLMQ_100_67 |-> "llmq_100_67" ]

DevnetLLMQs ==
  [ LLMQ_50_60           |-> "llmq_50_60",
    LLMQ_60_75           |-> "llmq_60_75",
    LLMQ_400_60          |-> "llmq_20_60",
    LLMQ_400_85          |-> "llmq_20_85",
    LLMQ_100_67          |-> "llmq_100_67",
    LLMQ_DEVNET          |-> "llmq_devnet",
    LLMQ_DEVNET_DIP0024  |-> "llmq_devnet_dip0024",
    LLMQ_DEVNET_PLATFORM |-> "llmq_devnet_platform" ]

RegtestLLMQs ==
  [ LLMQ_TEST             |-> "llmq_test",
    LLMQ_TEST_INSTANTSEND |-> "llmq_test_instantsend",
    LLMQ_TEST_V17         |-> "llmq_test_v17",
    LLMQ_TEST_DIP0024     |-> "llmq_test_dip0024",
    LLMQ_TEST_PLATFORM    |-> "llmq_test_platform" ]

BaseLLMQs(net) ==
  IF net \in {"main", "test"} THEN MainTestLLMQs
  ELSE IF net = "devnet" THEN DevnetLLMQs
  ELSE RegtestLLMQs

(***************************************************************************)
(* A quorum is in its mining phase at nHeight when nHeight mod its DKG     *)
(* interval lies in its mining window.  Heights are never negative, so     *)
(* TLA+'s % agrees with C++'s here.                                        *)
(***************************************************************************)
IsMiningPhase(params, nHeight) ==
  LET phaseIndex == nHeight % DkgInterval[params]
  IN  /\ phaseIndex >= DkgMiningWindowStart[params]
      /\ phaseIndex <= DkgMiningWindowEnd[params]

\* Some quorum of the catalog is in its mining phase at nHeight.
IsLLMQsMiningPhase(llmqs, nHeight) ==
  \E t \in DOMAIN llmqs : IsMiningPhase(llmqs[t], nHeight)

=============================================================================
