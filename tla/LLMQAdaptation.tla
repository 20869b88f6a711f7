--------------------------- MODULE LLMQAdaptation ---------------------------
(***************************************************************************)
(* The quorum adaptation engine, CChainParams::UpdateLLMQParams of         *)
(* src/src/chainparams.cpp (lines 1317-1377).                              *)
(*                                                                         *)
(* The engine keeps two file-scope statics (lines 25-26), lastCheckMnCount *)
(* and lastCheckHeight, and the catalog consensus.llmqs of the selected    *)
(* profile.  Each call UpdateLLMQParams(totalMnCount, height) either       *)
(* recomputes the four adaptive quorum types from the masternode count     *)
(* (five tiers) and records the call, or skips, in which case a network    *)
(* of fewer than 80 masternodes still has its LLMQ_60_75 entry downgraded. *)
(*                                                                         *)
(* On devnet and regtest the call returns at once (line 1339), so the      *)
(* engine is a model of the main and test profiles only.  Any call         *)
(* (height, count) is possible: a reorg or a restart can present any       *)
(* height, and the masternode list any count.                              *)
(***************************************************************************)
EXTENDS LLMQCatalog

CONSTANTS
  NetworkID,   \* the selected profile: "main" or "test"
  MnCounts,    \* masternode counts the caller may pass
  MaxHeight    \* largest height the caller may pass

ASSUME AdaptationAssumption ==
  /\ NetworkID \in {"main", "test"}
  /\ MnCounts \subseteq Nat
  /\ MaxHeight \in Nat

VARIABLES
  llmqs,             \* consensus.llmqs: quorum type -> parameter record
  lastCheckMnCount,  \* static size_t lastCheckMnCount = 0
  lastCheckHeight    \* static int lastCheckHeight = -1

vars == <<llmqs, lastCheckMnCount, lastCheckHeight>>

Heights == 0 .. MaxHeight

\* The sentinel of lastCheckHeight before the first recomputation.
NeverChecked == -1

\* The quorum types the tiers replace; LLMQ_100_67 is never touched.
AdaptiveTypes == {"LLMQ_50_60", "LLMQ_60_75", "LLMQ_400_60", "LLMQ_400_85"}

\* Mutant: the smallest tier keeps llmq_20_75 for LLMQ_60_75 (copied from tier 3).
TierSmallKeeps20_75(totalMnCount) ==
  LET isTestNet == NetworkID = "test"
  IN IF (totalMnCount < 80 /\ isTestNet) \/ (totalMnCount < 100 /\ ~isTestNet)
       THEN [LLMQ_50_60 |-> "llmq_10_60", LLMQ_60_75 |-> "llmq_20_75",
             LLMQ_400_60 |-> "llmq_20_60", LLMQ_400_85 |-> "llmq_20_85"]
     ELSE IF totalMnCount < 200
       THEN [LLMQ_50_60 |-> "llmq_50_60", LLMQ_60_75 |-> "llmq_10_75",
             LLMQ_400_60 |-> "llmq_40_60", LLMQ_400_85 |-> "llmq_40_85"]
     ELSE IF totalMnCount < 600
       THEN [LLMQ_50_60 |-> "llmq_50_60", LLMQ_60_75 |-> "llmq_20_75",
             LLMQ_400_60 |-> "llmq_40_60", LLMQ_400_85 |-> "llmq_40_85"]
     ELSE [LLMQ_50_60 |-> "llmq_50_60",
           LLMQ_60_75 |-> IF totalMnCount > 2000 THEN "llmq_60_75" ELSE "llmq_20_75",
           LLMQ_400_60 |-> "llmq_400_60", LLMQ_400_85 |-> "llmq_400_85"]

(***************************************************************************)
(* The tier table of the recomputation branch: the records the four        *)
(* adaptive types get for a masternode count.  The smallest tier ends at   *)
(* 80 on testnet and at 100 elsewhere; above 2000 the last tier raises     *)
(* LLMQ_60_75 back to llmq_60_75 (its llmq_20_75 is overwritten).  The     *)
(* branches are an else-if chain, hence IF, not CASE.                      *)
(***************************************************************************)
Tier(totalMnCount) ==
  LET isTestNet == NetworkID = "test"
  IN IF (totalMnCount < 80 /\ isTestNet) \/ (totalMnCount < 100 /\ ~isTestNet)
       THEN [LLMQ_50_60 |-> "llmq_10_60", LLMQ_60_75 |-> "llmq_10_75",
             LLMQ_400_60 |-> "llmq_20_60", LLMQ_400_85 |-> "llmq_20_85"]
     ELSE IF totalMnCount < 200
       THEN [LLMQ_50_60 |-> "llmq_50_60", LLMQ_60_75 |-> "llmq_10_75",
             LLMQ_400_60 |-> "llmq_40_60", LLMQ_400_85 |-> "llmq_40_85"]
     ELSE IF totalMnCount < 600
       THEN [LLMQ_50_60 |-> "llmq_50_60", LLMQ_60_75 |-> "llmq_20_75",
             LLMQ_400_60 |-> "llmq_40_60", LLMQ_400_85 |-> "llmq_40_85"]
     ELSE [LLMQ_50_60 |-> "llmq_50_60",
           LLMQ_60_75 |-> IF totalMnCount > 2000 THEN "llmq_60_75" ELSE "llmq_20_75",
           LLMQ_400_60 |-> "llmq_400_60", LLMQ_400_85 |-> "llmq_400_85"]

\* Mutant: the catalog is replaced by the tier's map instead of updated.
ApplyTierReplacesAll(catalog, tier) == tier

\* consensus.llmqs[type] = record for every type of the tier.
ApplyTier(catalog, tier) ==
  [t \in DOMAIN catalog |-> IF t \in DOMAIN tier THEN tier[t] ELSE catalog[t]]

\* The skipped branch's downgrade of LLMQ_60_75.
Downgrade60_75(catalog) == [catalog EXCEPT !["LLMQ_60_75"] = "llmq_10_75"]

\* Mutant: the mining-phase test reads the last checked height, not the new one.
MiningCheckAtLastHeight(totalMnCount, height) ==
  \/ /\ lastCheckHeight < height
     /\ lastCheckMnCount # totalMnCount
     /\ ~IsLLMQsMiningPhase(llmqs, lastCheckHeight)
  \/ lastCheckHeight = NeverChecked

(***************************************************************************)
(* The guard of line 1343: a later height, a changed count and no quorum   *)
(* of the current catalog in its mining phase; or no call recorded yet.    *)
(***************************************************************************)
ShouldRecompute(totalMnCount, height) ==
  \/ /\ lastCheckHeight < height
     /\ lastCheckMnCount # totalMnCount
     /\ ~IsLLMQsMiningPhase(llmqs, height)
  \/ lastCheckHeight = NeverChecked

\* Mutant: the recomputation forgets to record the masternode count.
RecomputeForgetsCount(totalMnCount, height) ==
  /\ ShouldRecompute(totalMnCount, height)
  /\ lastCheckHeight' = height
  /\ llmqs' = ApplyTier(llmqs, Tier(totalMnCount))
  /\ UNCHANGED lastCheckMnCount

-----------------------------------------------------------------------------
(* Actions *)

Init ==
  /\ llmqs = BaseLLMQs(NetworkID)
  /\ lastCheckMnCount = 0
  /\ lastCheckHeight = NeverChecked

\* "Updated": record the call and replace the adaptive entries by the tier.
Recompute(totalMnCount, height) ==
  /\ ShouldRecompute(totalMnCount, height)
  /\ lastCheckMnCount' = totalMnCount
  /\ lastCheckHeight' = height
  /\ llmqs' = ApplyTier(llmqs, Tier(totalMnCount))

\* "Skipped": below 80 masternodes LLMQ_60_75 is downgraded all the same.
Skip(totalMnCount, height) ==
  /\ ~ShouldRecompute(totalMnCount, height)
  /\ llmqs' = IF totalMnCount < 80 THEN Downgrade60_75(llmqs) ELSE llmqs
  /\ UNCHANGED <<lastCheckMnCount, lastCheckHeight>>

UpdateLLMQParams(totalMnCount, height) ==
  \/ Recompute(totalMnCount, height)
  \/ Skip(totalMnCount, height)

Next == \E c \in MnCounts, h \in Heights : UpdateLLMQParams(c, h)

Spec == Init /\ [][Next]_vars

-----------------------------------------------------------------------------
(* Properties *)

TypeOK ==
  /\ llmqs \in [DOMAIN MainTestLLMQs -> AdaptiveRecords]
  /\ lastCheckMnCount \in {0} \cup MnCounts
  /\ lastCheckHeight \in {NeverChecked} \cup Heights

(***************************************************************************)
(* The catalog is the tier of the last recorded masternode count: once a   *)
(* recomputation happened, LLMQ_50_60, LLMQ_400_60 and LLMQ_400_85 hold    *)
(* exactly the records of Tier(lastCheckMnCount), LLMQ_60_75 holds its     *)
(* tier record or the skipped branch's llmq_10_75, and LLMQ_100_67 is      *)
(* never replaced; before it, the catalog is the constructor's.  This is   *)
(* what lets the engine skip a call whose count equals lastCheckMnCount.   *)
(***************************************************************************)
CatalogFollowsLastCheck ==
  IF lastCheckHeight = NeverChecked
  THEN llmqs = BaseLLMQs(NetworkID)
  ELSE /\ \A t \in AdaptiveTypes \ {"LLMQ_60_75"} :
            llmqs[t] = Tier(lastCheckMnCount)[t]
       /\ llmqs["LLMQ_60_75"] \in {Tier(lastCheckMnCount)["LLMQ_60_75"], "llmq_10_75"}
       /\ llmqs["LLMQ_100_67"] = "llmq_100_67"

(***************************************************************************)
(* Idempotence (spec section 8): a call with the height and count of the   *)
(* last recomputation leaves the catalog as it is.  The recomputation and  *)
(* the skipped branch's downgrade must agree on LLMQ_60_75 for this.       *)
(***************************************************************************)
RepeatedCallIsNoOp ==
  [][\A c \in MnCounts, h \in Heights :
       (UpdateLLMQParams(c, h) /\ c = lastCheckMnCount /\ h = lastCheckHeight)
         => llmqs' = llmqs]_vars

(***************************************************************************)
(* Spec section 4.4 (c) and 8: the catalog's records are never replaced,   *)
(* other than by the small-network downgrade, at a height where a quorum   *)
(* of the catalog is in its DKG mining phase.  The code's first call       *)
(* (lastCheckHeight = -1) bypasses the mining-phase test.                  *)
(***************************************************************************)
NoTierChangeInMiningPhase ==
  [][ llmqs' \notin {llmqs, Downgrade60_75(llmqs)}
        => ~IsLLMQsMiningPhase(llmqs, lastCheckHeight') ]_vars

=============================================================================
