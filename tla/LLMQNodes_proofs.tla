--------------------------- MODULE LLMQNodes_proofs ---------------------------
(***************************************************************************)
(* Proofs about two nodes following one chain (LLMQNodes), for every       *)
(* network, set of masternode counts, chain length, number of restarts,    *)
(* stable window and DKG timing allowed by the assumptions: the type       *)
(* invariant, and that settled nodes agree on every quorum type but        *)
(* LLMQ_60_75.                                                             *)
(*                                                                         *)
(* Both nodes run the same engine on their own variables.  One call of the *)
(* engine is stated once as a relation Call between a node's state before  *)
(* and after it; ConnectA and ConnectB are shown to be such calls, and the *)
(* per-node invariant NodeInv is proved once for any node state.           *)
(***************************************************************************)
EXTENDS LLMQNodes, TLAPS

USE DkgTimingAssumption, NodesAssumption

\* The five quorum types of the main and test catalog.
CatalogTypes == DOMAIN MainTestLLMQs

\* The records the tier of count c gives the adaptive types.
TierOf(c) == A!Tier(c)

\* A catalog after the recomputation for count c.
Recomputed(cat, c) == A!ApplyTier(cat, TierOf(c))

\* The guard of line 1343 for a node in state (cat, mn, lh).
ShouldRec(cat, mn, lh, c, h) ==
  \/ lh < h /\ mn # c /\ ~IsLLMQsMiningPhase(cat, h)
  \/ lh = -1

(***************************************************************************)
(* One call UpdateLLMQParams(c, h) of a node's engine, from state          *)
(* (cat, mn, lh) to state (cat2, mn2, lh2): A!UpdateLLMQParams with the    *)
(* node's variables as arguments.                                          *)
(***************************************************************************)
Call(cat, mn, lh, c, h, cat2, mn2, lh2) ==
  \/ /\ ShouldRec(cat, mn, lh, c, h)
     /\ cat2 = Recomputed(cat, c) /\ mn2 = c /\ lh2 = h
  \/ /\ ~ShouldRec(cat, mn, lh, c, h)
     /\ cat2 = IF c < 80 THEN [cat EXCEPT !["LLMQ_60_75"] = "llmq_10_75"] ELSE cat
     /\ mn2 = mn /\ lh2 = lh

-----------------------------------------------------------------------------
(* Each connection is one call of the node's engine *)

\* Node A's connection of block tipA + 1 is a call with that block's count.
LEMMA ConnectCallA ==
  ASSUME ConnectA
  PROVE  /\ Call(catA, lastMnA, lastHA, counts[tipA + 1], tipA + 1,
                 catA', lastMnA', lastHA')
         /\ tipA < Len(counts) /\ tipA' = tipA + 1
         /\ UNCHANGED <<counts, catB, lastMnB, lastHB, tipB, restarts>>
BY DEF ConnectA, nodeB, Call, ShouldRec, Recomputed, TierOf, A!UpdateLLMQParams,
       A!Recompute, A!Skip, A!ShouldRecompute, A!Downgrade60_75, A!NeverChecked,
       A!IsLLMQsMiningPhase, A!IsMiningPhase, IsLLMQsMiningPhase, IsMiningPhase

\* Node B's connection of block tipB + 1 is a call with that block's count.
LEMMA ConnectCallB ==
  ASSUME ConnectB
  PROVE  /\ Call(catB, lastMnB, lastHB, counts[tipB + 1], tipB + 1,
                 catB', lastMnB', lastHB')
         /\ tipB < Len(counts) /\ tipB' = tipB + 1
         /\ UNCHANGED <<counts, catA, lastMnA, lastHA, tipA, restarts>>
BY DEF ConnectB, nodeA, Call, ShouldRec, Recomputed, TierOf, B!UpdateLLMQParams,
       B!Recompute, B!Skip, B!ShouldRecompute, B!Downgrade60_75, B!NeverChecked,
       B!IsLLMQsMiningPhase, B!IsMiningPhase, IsLLMQsMiningPhase, IsMiningPhase,
       A!ApplyTier, B!ApplyTier, A!Tier, B!Tier

-----------------------------------------------------------------------------
(* The catalog operators *)

LEMMA CatalogTypesDef ==
  CatalogTypes = {"LLMQ_50_60", "LLMQ_60_75", "LLMQ_400_60", "LLMQ_400_85", "LLMQ_100_67"}
BY DEF CatalogTypes, MainTestLLMQs

\* A recomputation gives the adaptive types their tier records, keeps
\* LLMQ_100_67 and keeps the catalog well typed.
LEMMA RecomputedFacts ==
  ASSUME NEW cat \in [CatalogTypes -> AdaptiveRecords], NEW c \in Nat
  PROVE  /\ Recomputed(cat, c) \in [CatalogTypes -> AdaptiveRecords]
         /\ \A t \in A!AdaptiveTypes : Recomputed(cat, c)[t] = TierOf(c)[t]
         /\ Recomputed(cat, c)["LLMQ_100_67"] = cat["LLMQ_100_67"]
<1>1. /\ DOMAIN TierOf(c) = A!AdaptiveTypes
      /\ \A t \in A!AdaptiveTypes : TierOf(c)[t] \in AdaptiveRecords
  BY DEF TierOf, A!Tier, A!AdaptiveTypes, AdaptiveRecords
<1>2. /\ A!AdaptiveTypes \subseteq CatalogTypes
      /\ "LLMQ_100_67" \in CatalogTypes \ A!AdaptiveTypes
  BY CatalogTypesDef DEF A!AdaptiveTypes
<1>3. Recomputed(cat, c) =
        [t \in CatalogTypes |-> IF t \in A!AdaptiveTypes THEN TierOf(c)[t] ELSE cat[t]]
  BY <1>1 DEF Recomputed, A!ApplyTier
<1>4. QED
  BY <1>1, <1>2, <1>3

\* A catalog of main/test records has no quorum mining at a free height.
LEMMA FreeNotMining ==
  ASSUME NEW cat \in [CatalogTypes -> AdaptiveRecords], NEW h, FreeHeight(h)
  PROVE  ~IsLLMQsMiningPhase(cat, h)
BY DEF FreeHeight, IsLLMQsMiningPhase

-----------------------------------------------------------------------------
(* The per-node invariant *)

(***************************************************************************)
(* CatalogFollowsLastCheck of one engine: before its first recomputation   *)
(* the catalog is the constructor's; after it, the tier of the recorded    *)
(* count, with LLMQ_60_75 possibly downgraded.                             *)
(***************************************************************************)
Follows(cat, mn, lh) ==
  IF lh = -1
  THEN cat = BaseLLMQs(NetworkID)
  ELSE /\ \A t \in A!AdaptiveTypes \ {"LLMQ_60_75"} : cat[t] = TierOf(mn)[t]
       /\ cat["LLMQ_60_75"] \in {TierOf(mn)["LLMQ_60_75"], "llmq_10_75"}
       /\ cat["LLMQ_100_67"] = "llmq_100_67"

(***************************************************************************)
(* A node that has recomputed since its start, at tip tip of chain cs, has *)
(* recorded the count of its tip whenever the blocks from some free height *)
(* hf up to the tip all carry that count: at hf it recomputed, or it had   *)
(* that count recorded already, and afterwards it had no reason to change. *)
(***************************************************************************)
Stable(cs, mn, lh, tip) ==
  lh # -1 =>
    \A hf \in 1 .. tip :
      (FreeHeight(hf) /\ \A h \in hf .. tip : cs[h] = cs[tip]) => mn = cs[tip]

\* The invariant of a node at tip tip of chain cs; lh is a connected height.
NodeInv(cs, cat, mn, lh, tip) ==
  /\ cat \in [CatalogTypes -> AdaptiveRecords]
  /\ mn \in {0} \cup MnCounts
  /\ lh \in {-1} \cup 1 .. tip
  /\ Follows(cat, mn, lh)
  /\ Stable(cs, mn, lh, tip)

\* A fresh or restarted node.
LEMMA RestartKeeps ==
  ASSUME NEW cs, NEW tip \in Nat
  PROVE  NodeInv(cs, BaseLLMQs(NetworkID), 0, -1, tip)
BY CatalogTypesDef DEF NodeInv, Follows, Stable, BaseLLMQs, MainTestLLMQs,
                       AdaptiveRecords, CatalogTypes

\* A new block beyond the node's tip does not disturb it.
LEMMA MineKeeps ==
  ASSUME NEW cs \in Seq(MnCounts), NEW tip \in 0 .. Len(cs), NEW c,
         NEW cat, NEW mn, NEW lh, NodeInv(cs, cat, mn, lh, tip)
  PROVE  NodeInv(Append(cs, c), cat, mn, lh, tip)
<1>1. \A h \in 1 .. tip : Append(cs, c)[h] = cs[h]
  OBVIOUS
<1>2. Stable(Append(cs, c), mn, lh, tip) = Stable(cs, mn, lh, tip)
  BY <1>1, SMTT(20) DEF Stable
<1>3. QED
  BY <1>2 DEF NodeInv

(***************************************************************************)
(* Connecting the next block keeps the invariant.  A recomputation records *)
(* the tip's count.  A skipped call, when the blocks from a free height    *)
(* hf to the new tip carry one count: if hf is the new tip, the guard      *)
(* failed there only because the count was recorded (the last height is   *)
(* below it and nothing mines at a free height); if hf is older, the      *)
(* count was recorded before, by Stable.                                   *)
(***************************************************************************)
LEMMA CallKeeps ==
  ASSUME NEW cs \in Seq(MnCounts), NEW tip \in Nat, tip < Len(cs),
         NEW cat, NEW mn, NEW lh, NEW cat2, NEW mn2, NEW lh2,
         NodeInv(cs, cat, mn, lh, tip),
         Call(cat, mn, lh, cs[tip + 1], tip + 1, cat2, mn2, lh2)
  PROVE  NodeInv(cs, cat2, mn2, lh2, tip + 1)
<1> DEFINE c == cs[tip + 1]
<1>1. c \in MnCounts /\ c \in Nat
  <2>1. tip + 1 \in 1 .. Len(cs)
    OBVIOUS
  <2>2. c \in MnCounts
    BY <2>1
  <2>3. QED
    BY <2>2
<1>2. cat \in [CatalogTypes -> AdaptiveRecords] /\ mn \in {0} \cup MnCounts
      /\ lh \in {-1} \cup 1 .. tip /\ Follows(cat, mn, lh) /\ Stable(cs, mn, lh, tip)
  BY DEF NodeInv
<1>3. CASE ShouldRec(cat, mn, lh, c, tip + 1)
  <2>1. cat2 = Recomputed(cat, c) /\ mn2 = c /\ lh2 = tip + 1
    BY <1>3 DEF Call
  <2>2. cat["LLMQ_100_67"] = "llmq_100_67"
    BY <1>2 DEF Follows, BaseLLMQs, MainTestLLMQs
  <2>3. /\ cat2 \in [CatalogTypes -> AdaptiveRecords]
        /\ \A t \in A!AdaptiveTypes : cat2[t] = TierOf(c)[t]
        /\ cat2["LLMQ_100_67"] = "llmq_100_67"
    BY <1>1, <1>2, <2>1, <2>2, RecomputedFacts
  <2>4. Follows(cat2, mn2, lh2)
    BY <2>1, <2>3 DEF Follows, A!AdaptiveTypes
  <2>5. Stable(cs, mn2, lh2, tip + 1)
    BY <2>1 DEF Stable
  <2>6. QED
    BY <1>1, <2>1, <2>3, <2>4, <2>5 DEF NodeInv
<1>4. CASE ~ShouldRec(cat, mn, lh, c, tip + 1)
  <2>1. /\ cat2 = IF c < 80 THEN [cat EXCEPT !["LLMQ_60_75"] = "llmq_10_75"] ELSE cat
        /\ mn2 = mn /\ lh2 = lh
    BY <1>4 DEF Call
  <2>2. lh \in 1 .. tip
    BY <1>2, <1>4 DEF ShouldRec
  <2>3. "LLMQ_60_75" \in CatalogTypes /\ "llmq_10_75" \in AdaptiveRecords
    BY CatalogTypesDef DEF AdaptiveRecords
  <2>4. /\ cat2 \in [CatalogTypes -> AdaptiveRecords]
        /\ \A t \in CatalogTypes \ {"LLMQ_60_75"} : cat2[t] = cat[t]
        /\ cat2["LLMQ_60_75"] \in {cat["LLMQ_60_75"], "llmq_10_75"}
    BY <1>2, <2>1, <2>3
  <2>5. Follows(cat2, mn2, lh2)
    BY <1>2, <2>1, <2>2, <2>4, CatalogTypesDef DEF Follows, A!AdaptiveTypes
  <2>6. Stable(cs, mn2, lh2, tip + 1)
    <3> SUFFICES ASSUME NEW hf \in 1 .. tip + 1, FreeHeight(hf),
                        \A h \in hf .. tip + 1 : cs[h] = c
                 PROVE  mn = c
      BY <2>1, <2>2 DEF Stable
    <3>1. CASE hf = tip + 1
      <4>1. ~IsLLMQsMiningPhase(cat, tip + 1)
        BY <1>2, <3>1, FreeNotMining
      <4>2. QED
        BY <1>4, <2>2, <4>1 DEF ShouldRec
    <3>2. CASE hf <= tip
      <4>1. cs[tip] = c /\ \A h \in hf .. tip : cs[h] = cs[tip]
        BY <3>2
      <4>2. QED
        BY <1>2, <2>2, <3>2, <4>1 DEF Stable
    <3>3. QED
      BY <3>1, <3>2
  <2>7. QED
    BY <1>2, <2>1, <2>2, <2>4, <2>5, <2>6 DEF NodeInv
<1>5. QED
  BY <1>3, <1>4

-----------------------------------------------------------------------------
(* The inductive invariant of the two nodes *)

\* The chain, the tips and the restart counter stay in their ranges.
Shape ==
  /\ counts \in Seq(MnCounts) /\ Len(counts) <= MaxHeight
  /\ tipA \in 0 .. Len(counts) /\ tipB \in 0 .. Len(counts)
  /\ restarts \in 0 .. MaxRestarts

IInv ==
  /\ Shape
  /\ NodeInv(counts, catA, lastMnA, lastHA, tipA)
  /\ NodeInv(counts, catB, lastMnB, lastHB, tipB)

LEMMA InitIInv == Init => IInv
<1> SUFFICES ASSUME Init PROVE IInv
  OBVIOUS
<1>1. /\ catA = BaseLLMQs(NetworkID) /\ lastMnA = 0 /\ lastHA = -1
      /\ catB = BaseLLMQs(NetworkID) /\ lastMnB = 0 /\ lastHB = -1
  BY DEF Init, A!Init, B!Init, A!NeverChecked, B!NeverChecked,
         A!BaseLLMQs, B!BaseLLMQs, BaseLLMQs, A!MainTestLLMQs, B!MainTestLLMQs,
         MainTestLLMQs, A!DevnetLLMQs, B!DevnetLLMQs, DevnetLLMQs,
         A!RegtestLLMQs, B!RegtestLLMQs, RegtestLLMQs
<1>2. counts = << >> /\ tipA = 0 /\ tipB = 0 /\ restarts = 0
  BY DEF Init
<1>3. Shape
  BY <1>2 DEF Shape
<1>4. QED
  BY <1>1, <1>2, <1>3, RestartKeeps DEF IInv

LEMMA IInvStep == IInv /\ [Next]_vars => IInv'
<1> SUFFICES ASSUME IInv, [Next]_vars PROVE IInv'
  OBVIOUS
<1>0. /\ Shape
      /\ NodeInv(counts, catA, lastMnA, lastHA, tipA)
      /\ NodeInv(counts, catB, lastMnB, lastHB, tipB)
  BY DEF IInv
<1>1. CASE MineBlock
  <2>1. PICK c \in MnCounts : counts' = Append(counts, c)
    BY <1>1 DEF MineBlock
  <2>2. UNCHANGED <<catA, lastMnA, lastHA, tipA, catB, lastMnB, lastHB, tipB, restarts>>
    BY <1>1 DEF MineBlock, nodeA, nodeB
  <2>3. Shape'
    BY <1>0, <1>1, <2>1, <2>2 DEF Shape, MineBlock
  <2>4. NodeInv(counts', catA', lastMnA', lastHA', tipA')
    BY <1>0, <2>1, <2>2, MineKeeps DEF Shape
  <2>5. NodeInv(counts', catB', lastMnB', lastHB', tipB')
    BY <1>0, <2>1, <2>2, MineKeeps DEF Shape
  <2>6. QED
    BY <2>3, <2>4, <2>5 DEF IInv
<1>2. CASE ConnectA
  <2>1. /\ Call(catA, lastMnA, lastHA, counts[tipA + 1], tipA + 1, catA', lastMnA', lastHA')
        /\ tipA < Len(counts) /\ tipA' = tipA + 1
        /\ UNCHANGED <<counts, catB, lastMnB, lastHB, tipB, restarts>>
    BY <1>2, ConnectCallA
  <2>2. NodeInv(counts, catA', lastMnA', lastHA', tipA + 1)
    BY <1>0, <2>1, CallKeeps DEF Shape
  <2>3. Shape'
    BY <1>0, <2>1 DEF Shape
  <2>4. QED
    BY <1>0, <2>1, <2>2, <2>3 DEF IInv
<1>3. CASE ConnectB
  <2>1. /\ Call(catB, lastMnB, lastHB, counts[tipB + 1], tipB + 1, catB', lastMnB', lastHB')
        /\ tipB < Len(counts) /\ tipB' = tipB + 1
        /\ UNCHANGED <<counts, catA, lastMnA, lastHA, tipA, restarts>>
    BY <1>3, ConnectCallB
  <2>2. NodeInv(counts, catB', lastMnB', lastHB', tipB + 1)
    BY <1>0, <2>1, CallKeeps DEF Shape
  <2>3. Shape'
    BY <1>0, <2>1 DEF Shape
  <2>4. QED
    BY <1>0, <2>1, <2>2, <2>3 DEF IInv
<1>4. CASE RestartA
  <2>1. /\ catA' = BaseLLMQs(NetworkID) /\ lastMnA' = 0 /\ lastHA' = -1
        /\ restarts < MaxRestarts /\ restarts' = restarts + 1
        /\ UNCHANGED <<counts, tipA, catB, lastMnB, lastHB, tipB>>
    BY <1>4 DEF RestartA, nodeB, A!NeverChecked
  <2>2. NodeInv(counts', catA', lastMnA', lastHA', tipA')
    BY <1>0, <2>1, RestartKeeps DEF Shape
  <2>3. Shape'
    BY <1>0, <2>1 DEF Shape
  <2>4. QED
    BY <1>0, <2>1, <2>2, <2>3 DEF IInv
<1>5. CASE RestartB
  <2>1. /\ catB' = BaseLLMQs(NetworkID) /\ lastMnB' = 0 /\ lastHB' = -1
        /\ restarts < MaxRestarts /\ restarts' = restarts + 1
        /\ UNCHANGED <<counts, tipB, catA, lastMnA, lastHA, tipA>>
    BY <1>5 DEF RestartB, nodeA, B!NeverChecked
  <2>2. NodeInv(counts', catB', lastMnB', lastHB', tipB')
    BY <1>0, <2>1, RestartKeeps DEF Shape
  <2>3. Shape'
    BY <1>0, <2>1 DEF Shape
  <2>4. QED
    BY <1>0, <2>1, <2>2, <2>3 DEF IInv
<1>6. CASE UNCHANGED vars
  BY <1>0, <1>6 DEF IInv, Shape, vars, nodeA, nodeB
<1>7. QED
  BY <1>1, <1>2, <1>3, <1>4, <1>5, <1>6 DEF Next

LEMMA IInvType == IInv => TypeOK
BY DEF IInv, Shape, NodeInv, TypeOK, A!TypeOK, B!TypeOK, A!Heights, B!Heights,
       A!NeverChecked, B!NeverChecked, A!MainTestLLMQs, B!MainTestLLMQs,
       MainTestLLMQs, A!AdaptiveRecords, B!AdaptiveRecords, AdaptiveRecords,
       CatalogTypes

(***************************************************************************)
(* Two nodes at one tip, both recomputed since their start, whose last     *)
(* StableWindow blocks carry one count and contain a free height hf, have  *)
(* both recorded that count (Stable from hf), so their catalogs agree on   *)
(* every type but LLMQ_60_75 (Follows).                                    *)
(***************************************************************************)
LEMMA IInvAgree == IInv => SettledNodesAgreeExcept60_75
<1> SUFFICES ASSUME IInv, SettledAtSameTip
             PROVE  \A t \in DOMAIN catA \ {"LLMQ_60_75"} : catA[t] = catB[t]
  BY DEF SettledNodesAgreeExcept60_75
<1>1. /\ counts \in Seq(MnCounts) /\ tipA \in Nat /\ tipA >= StableWindow
      /\ NodeInv(counts, catA, lastMnA, lastHA, tipA) /\ lastHA # -1
      /\ NodeInv(counts, catB, lastMnB, lastHB, tipA) /\ lastHB # -1
      /\ \A h \in (tipA - StableWindow + 1) .. tipA : counts[h] = counts[tipA]
  BY DEF IInv, Shape, SettledAtSameTip, A!NeverChecked, B!NeverChecked
<1>2. PICK hf \in (tipA - StableWindow + 1) .. tipA : FreeHeight(hf)
  BY DEF SettledAtSameTip
<1>3. hf \in 1 .. tipA /\ \A h \in hf .. tipA : counts[h] = counts[tipA]
  BY <1>1
<1>4. lastMnA = counts[tipA] /\ lastMnB = counts[tipA]
  BY <1>1, <1>2, <1>3 DEF NodeInv, Stable
<1>5. /\ DOMAIN catA = CatalogTypes
      /\ \A ty \in A!AdaptiveTypes \ {"LLMQ_60_75"} : catA[ty] = TierOf(counts[tipA])[ty]
      /\ \A ty \in A!AdaptiveTypes \ {"LLMQ_60_75"} : catB[ty] = TierOf(counts[tipA])[ty]
      /\ catA["LLMQ_100_67"] = "llmq_100_67" /\ catB["LLMQ_100_67"] = "llmq_100_67"
  BY <1>1, <1>4 DEF NodeInv, Follows
<1>6. CatalogTypes \ {"LLMQ_60_75"} \subseteq (A!AdaptiveTypes \ {"LLMQ_60_75"}) \cup {"LLMQ_100_67"}
  BY CatalogTypesDef DEF A!AdaptiveTypes
<1>7. QED
  BY <1>5, <1>6

-----------------------------------------------------------------------------
(* Theorems *)

(***************************************************************************)
(* Both nodes' engines keep well-typed catalogs and statics through every  *)
(* block connection (UpdateLLMQParams, lines 1334-1377) and every restart  *)
(* (the statics of lines 25-26 and the catalog of SelectParams reset).     *)
(***************************************************************************)
THEOREM TypeCorrect == Spec => []TypeOK
<1>1. IInv => TypeOK
  BY IInvType
<1>2. QED
  BY InitIInv, IInvStep, <1>1, PTL DEF Spec

(***************************************************************************)
(* For every network profile, count set and bound: two nodes that follow   *)
(* one chain and have each called UpdateLLMQParams since their last        *)
(* restart agree on every quorum type but LLMQ_60_75 once the last         *)
(* StableWindow blocks carry one masternode count and contain a height     *)
(* outside every DKG mining window, whatever the restarts before.          *)
(***************************************************************************)
THEOREM NodesAgreeProved == Spec => []SettledNodesAgreeExcept60_75
<1>1. IInv => SettledNodesAgreeExcept60_75
  BY IInvAgree
<1>2. QED
  BY InitIInv, IInvStep, <1>1, PTL DEF Spec

=============================================================================
