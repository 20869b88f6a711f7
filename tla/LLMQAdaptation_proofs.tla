------------------------ MODULE LLMQAdaptation_proofs ------------------------
(***************************************************************************)
(* Proofs about the adaptation engine of LLMQAdaptation, for every         *)
(* network, set of masternode counts, height bound and DKG timing allowed  *)
(* by the assumptions of LLMQCatalog and LLMQAdaptation.                   *)
(***************************************************************************)
EXTENDS LLMQAdaptation, TLAPS

USE DkgTimingAssumption, AdaptationAssumption

\* The five quorum types of the main and test catalog.
CatalogTypes == DOMAIN MainTestLLMQs

LEMMA CatalogTypesDef ==
  CatalogTypes = {"LLMQ_50_60", "LLMQ_60_75", "LLMQ_400_60", "LLMQ_400_85", "LLMQ_100_67"}
BY DEF CatalogTypes, MainTestLLMQs

(***************************************************************************)
(* Every tier assigns an adaptive record to each of the four adaptive      *)
(* types, and the smallest tier (every count below 80) gives LLMQ_60_75    *)
(* the record llmq_10_75 on both networks.                                 *)
(***************************************************************************)
LEMMA TierType ==
  ASSUME NEW c \in Nat
  PROVE  /\ Tier(c) \in [AdaptiveTypes -> AdaptiveRecords]
         /\ DOMAIN Tier(c) = AdaptiveTypes
BY DEF Tier, AdaptiveTypes, AdaptiveRecords

LEMMA TierSmall ==
  ASSUME NEW c \in Nat, c < 80
  PROVE  Tier(c)["LLMQ_60_75"] = "llmq_10_75"
BY DEF Tier

\* Replacing the adaptive entries keeps a well-typed catalog well typed.
LEMMA ApplyTierType ==
  ASSUME NEW cat \in [CatalogTypes -> AdaptiveRecords], NEW c \in Nat
  PROVE  /\ ApplyTier(cat, Tier(c)) \in [CatalogTypes -> AdaptiveRecords]
         /\ \A t \in AdaptiveTypes : ApplyTier(cat, Tier(c))[t] = Tier(c)[t]
         /\ ApplyTier(cat, Tier(c))["LLMQ_100_67"] = cat["LLMQ_100_67"]
<1>1. DOMAIN Tier(c) = AdaptiveTypes /\ Tier(c) \in [AdaptiveTypes -> AdaptiveRecords]
  BY TierType
<1>2. /\ AdaptiveTypes \subseteq CatalogTypes
      /\ "LLMQ_100_67" \in CatalogTypes \ AdaptiveTypes
  BY CatalogTypesDef DEF AdaptiveTypes
<1>3. ApplyTier(cat, Tier(c)) =
        [t \in CatalogTypes |-> IF t \in AdaptiveTypes THEN Tier(c)[t] ELSE cat[t]]
  BY <1>1 DEF ApplyTier
<1>4. \A t \in AdaptiveTypes : Tier(c)[t] \in AdaptiveRecords
  BY <1>1
<1>5. QED
  BY <1>2, <1>3, <1>4

-----------------------------------------------------------------------------
(* Type correctness *)

\* Every step of the engine keeps the type invariant.
LEMMA TypeStep == TypeOK /\ [Next]_vars => TypeOK'
<1> SUFFICES ASSUME TypeOK, [Next]_vars PROVE TypeOK'
  OBVIOUS
<1>1. CASE \E c \in MnCounts, h \in Heights : Recompute(c, h)
  <2>1. PICK c \in MnCounts, h \in Heights : Recompute(c, h)
    BY <1>1
  <2>2. c \in Nat
    OBVIOUS
  <2>3. llmqs \in [CatalogTypes -> AdaptiveRecords]
    BY DEF TypeOK, CatalogTypes
  <2>4. QED
    BY <2>1, <2>2, <2>3, ApplyTierType DEF Recompute, TypeOK, CatalogTypes
<1>2. CASE \E c \in MnCounts, h \in Heights : Skip(c, h)
  <2>1. PICK c \in MnCounts, h \in Heights : Skip(c, h)
    BY <1>2
  <2>2. "LLMQ_60_75" \in DOMAIN MainTestLLMQs /\ "llmq_10_75" \in AdaptiveRecords
    BY DEF MainTestLLMQs, AdaptiveRecords
  <2>3. QED
    BY <2>1, <2>2 DEF Skip, Downgrade60_75, TypeOK
<1>3. CASE UNCHANGED vars
  BY <1>3 DEF vars, TypeOK
<1>4. QED
  BY <1>1, <1>2, <1>3 DEF Next, UpdateLLMQParams

THEOREM TypeCorrect == Spec => []TypeOK
<1>1. Init => TypeOK
  BY CatalogTypesDef DEF Init, TypeOK, BaseLLMQs, MainTestLLMQs, AdaptiveRecords,
                         NeverChecked
<1>2. QED
  BY <1>1, TypeStep, PTL DEF Spec

-----------------------------------------------------------------------------
(* The catalog follows the last recorded count *)

\* The inductive invariant: the type invariant and the property itself.
IInv == TypeOK /\ CatalogFollowsLastCheck

\* The engine starts in the inductive invariant.
LEMMA InitIInv == Init => IInv
BY CatalogTypesDef DEF Init, IInv, TypeOK, CatalogFollowsLastCheck, BaseLLMQs,
                       MainTestLLMQs, AdaptiveRecords, NeverChecked

\* Every call of the engine keeps the inductive invariant.
LEMMA IInvStep == IInv /\ [Next]_vars => IInv'
<1> SUFFICES ASSUME IInv, [Next]_vars PROVE IInv'
  OBVIOUS
<1>1. TypeOK'
  BY TypeStep DEF IInv
<1>2. CASE \E c \in MnCounts, h \in Heights : Recompute(c, h)
  <2>1. PICK c \in MnCounts, h \in Heights : Recompute(c, h)
    BY <1>2
  <2>2. c \in Nat /\ h \in Nat
    BY DEF Heights
  <2>3. llmqs \in [CatalogTypes -> AdaptiveRecords]
    BY DEF IInv, TypeOK, CatalogTypes
  <2>4. llmqs["LLMQ_100_67"] = "llmq_100_67"
    BY DEF IInv, CatalogFollowsLastCheck, BaseLLMQs, MainTestLLMQs
  <2>5. lastCheckHeight' # NeverChecked /\ lastCheckMnCount' = c
    BY <2>1, <2>2 DEF Recompute, NeverChecked
  <2>6. llmqs' = ApplyTier(llmqs, Tier(c))
    BY <2>1 DEF Recompute
  <2>7. CatalogFollowsLastCheck'
    BY <2>2, <2>3, <2>4, <2>5, <2>6, ApplyTierType DEF CatalogFollowsLastCheck, AdaptiveTypes
  <2>8. QED
    BY <1>1, <2>7 DEF IInv
<1>3. CASE \E c \in MnCounts, h \in Heights : Skip(c, h)
  <2>1. PICK c \in MnCounts, h \in Heights : Skip(c, h)
    BY <1>3
  <2>2. lastCheckHeight # NeverChecked
    BY <2>1 DEF Skip, ShouldRecompute
  <2>3. UNCHANGED <<lastCheckMnCount, lastCheckHeight>>
    BY <2>1 DEF Skip
  <2>4. llmqs \in [CatalogTypes -> AdaptiveRecords]
    BY DEF IInv, TypeOK, CatalogTypes
  <2>5. \A t \in CatalogTypes \ {"LLMQ_60_75"} : llmqs'[t] = llmqs[t]
    BY <2>1, <2>4 DEF Skip, Downgrade60_75
  <2>6. llmqs'["LLMQ_60_75"] \in {llmqs["LLMQ_60_75"], "llmq_10_75"}
    BY <2>1, <2>4, CatalogTypesDef DEF Skip, Downgrade60_75
  <2>7. CatalogFollowsLastCheck'
    BY <2>2, <2>3, <2>5, <2>6, CatalogTypesDef
    DEF IInv, CatalogFollowsLastCheck, AdaptiveTypes
  <2>8. QED
    BY <1>1, <2>7 DEF IInv
<1>4. CASE UNCHANGED vars
  BY <1>4 DEF vars, IInv, TypeOK, CatalogFollowsLastCheck
<1>5. QED
  BY <1>2, <1>3, <1>4 DEF Next, UpdateLLMQParams

(***************************************************************************)
(* The catalog always equals the tier of lastCheckMnCount, with the        *)
(* LLMQ_60_75 downgrade allowed, and LLMQ_100_67 is never replaced: the    *)
(* state UpdateLLMQParams's skip decision relies on.                       *)
(***************************************************************************)
THEOREM CatalogInvariant == Spec => []CatalogFollowsLastCheck
<1>1. IInv => CatalogFollowsLastCheck
  BY DEF IInv
<1>2. QED
  BY InitIInv, IInvStep, <1>1, PTL DEF Spec

(***************************************************************************)
(* What a call does to the statics: it records its count and height, or    *)
(* leaves both as they are; it declines to record only after a first       *)
(* recomputation, and only when its height is not above the last one, its *)
(* count is the recorded one, or a quorum of the catalog is mining there.  *)
(***************************************************************************)
LEMMA CallOutcome ==
  ASSUME TypeOK, NEW c, NEW h \in Int, UpdateLLMQParams(c, h)
  PROVE  \/ lastCheckMnCount' = c /\ lastCheckHeight' = h
         \/ /\ UNCHANGED <<lastCheckMnCount, lastCheckHeight>>
            /\ lastCheckHeight # NeverChecked
            /\ \/ h <= lastCheckHeight
               \/ lastCheckMnCount = c
               \/ IsLLMQsMiningPhase(llmqs, h)
<1>1. lastCheckHeight \in Int
  BY DEF TypeOK, Heights, NeverChecked
<1>2. CASE Recompute(c, h)
  BY <1>2 DEF Recompute
<1>3. CASE Skip(c, h)
  BY <1>1, <1>3 DEF Skip, ShouldRecompute
<1>4. QED
  BY <1>2, <1>3 DEF UpdateLLMQParams

-----------------------------------------------------------------------------
(* Idempotence *)

THEOREM RepeatedCallNoOp == Spec => RepeatedCallIsNoOp
<1>1. IInv /\ [Next]_vars =>
        \A c \in MnCounts, h \in Heights :
          (UpdateLLMQParams(c, h) /\ c = lastCheckMnCount /\ h = lastCheckHeight)
            => llmqs' = llmqs
  <2> SUFFICES ASSUME IInv, NEW c \in MnCounts, NEW h \in Heights,
                      UpdateLLMQParams(c, h), c = lastCheckMnCount, h = lastCheckHeight
               PROVE  llmqs' = llmqs
    OBVIOUS
  <2>1. c \in Nat /\ h \in Nat /\ lastCheckHeight # NeverChecked
    BY DEF Heights, NeverChecked
  <2>2. ~ShouldRecompute(c, h)
    BY <2>1 DEF ShouldRecompute
  <2>3. Skip(c, h)
    BY <2>2 DEF UpdateLLMQParams, Recompute
  <2>4. CASE c < 80
    <3>1. llmqs["LLMQ_60_75"] = "llmq_10_75"
      BY <2>1, <2>4, TierSmall DEF IInv, CatalogFollowsLastCheck
    <3>2. llmqs \in [CatalogTypes -> AdaptiveRecords] /\ "LLMQ_60_75" \in CatalogTypes
      BY CatalogTypesDef DEF IInv, TypeOK, CatalogTypes
    <3>3. QED
      BY <2>3, <2>4, <3>1, <3>2 DEF Skip, Downgrade60_75
  <2>5. CASE ~(c < 80)
    BY <2>3, <2>5 DEF Skip
  <2>6. QED
    BY <2>4, <2>5
<1>2. QED
  BY <1>1, CatalogInvariant, TypeCorrect, PTL DEF Spec, RepeatedCallIsNoOp, IInv

=============================================================================
