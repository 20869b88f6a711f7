------------------------------ MODULE LLMQNodes ------------------------------
(***************************************************************************)
(* Two nodes of one network following the same chain, each running its     *)
(* own adaptation engine (an instance of LLMQAdaptation), and each liable  *)
(* to restart.  A restart ends the process: the statics lastCheckMnCount   *)
(* and lastCheckHeight return to 0 and -1 (chainparams.cpp lines 25-26)    *)
(* and SelectParams builds the profile's catalog afresh (lines 1311-1315); *)
(* the blocks stored on disk survive, so the node goes on from its tip.    *)
(*                                                                         *)
(* The chain is the sequence of masternode counts of heights 1..Len.       *)
(* As spec section 2 says, each node calls UpdateLLMQParams once for each  *)
(* new block it connects, with that block's height and masternode count.   *)
(***************************************************************************)
EXTENDS LLMQCatalog, Sequences

CONSTANTS
  NetworkID,    \* "main" or "test"
  MnCounts,     \* masternode counts a block may carry
  MaxHeight,    \* length of the chain explored
  MaxRestarts,  \* restarts of the two nodes together
  StableWindow  \* blocks of unchanged count after which nodes must agree

ASSUME NodesAssumption ==
  /\ NetworkID \in {"main", "test"}
  /\ MnCounts \subseteq Nat
  /\ MaxHeight \in Nat
  /\ MaxRestarts \in Nat
  /\ StableWindow \in Nat \ {0}

VARIABLES
  counts,                        \* the chain: counts[h] at height h
  catA, lastMnA, lastHA, tipA,   \* node A: catalog, statics, last block connected
  catB, lastMnB, lastHB, tipB,   \* node B
  restarts                       \* restarts so far

nodeA == <<catA, lastMnA, lastHA, tipA>>
nodeB == <<catB, lastMnB, lastHB, tipB>>
vars == <<counts, nodeA, nodeB, restarts>>

A == INSTANCE LLMQAdaptation
       WITH llmqs <- catA, lastCheckMnCount <- lastMnA, lastCheckHeight <- lastHA
B == INSTANCE LLMQAdaptation
       WITH llmqs <- catB, lastCheckMnCount <- lastMnB, lastCheckHeight <- lastHB

Init ==
  /\ counts = << >>
  /\ A!Init /\ tipA = 0
  /\ B!Init /\ tipB = 0
  /\ restarts = 0

\* A block with masternode count c extends the chain.
MineBlock ==
  /\ Len(counts) < MaxHeight
  /\ \E c \in MnCounts : counts' = Append(counts, c)
  /\ UNCHANGED <<nodeA, nodeB, restarts>>

\* A node connects its next block and calls UpdateLLMQParams for it.
ConnectA ==
  /\ tipA < Len(counts)
  /\ tipA' = tipA + 1
  /\ A!UpdateLLMQParams(counts[tipA + 1], tipA + 1)
  /\ UNCHANGED <<counts, nodeB, restarts>>

ConnectB ==
  /\ tipB < Len(counts)
  /\ tipB' = tipB + 1
  /\ B!UpdateLLMQParams(counts[tipB + 1], tipB + 1)
  /\ UNCHANGED <<counts, nodeA, restarts>>

\* The process restarts: statics and catalog are those of a fresh process.
RestartA ==
  /\ restarts < MaxRestarts
  /\ catA' = BaseLLMQs(NetworkID) /\ lastMnA' = 0 /\ lastHA' = A!NeverChecked
  /\ restarts' = restarts + 1
  /\ UNCHANGED <<counts, tipA, nodeB>>

RestartB ==
  /\ restarts < MaxRestarts
  /\ catB' = BaseLLMQs(NetworkID) /\ lastMnB' = 0 /\ lastHB' = B!NeverChecked
  /\ restarts' = restarts + 1
  /\ UNCHANGED <<counts, tipB, nodeA>>

Next == MineBlock \/ ConnectA \/ ConnectB \/ RestartA \/ RestartB

Spec == Init /\ [][Next]_vars

-----------------------------------------------------------------------------
(* Properties *)

TypeOK ==
  /\ counts \in Seq(MnCounts) /\ Len(counts) <= MaxHeight
  /\ A!TypeOK /\ tipA \in 0 .. Len(counts)
  /\ B!TypeOK /\ tipB \in 0 .. Len(counts)
  /\ restarts \in 0 .. MaxRestarts

\* No quorum record of the main and test profiles is in its DKG mining
\* phase at height h, so the line-1343 guard cannot be blocked there.
FreeHeight(h) == \A r \in AdaptiveRecords : ~IsMiningPhase(r, h)

\* Both nodes are at the same tip, have called the engine since they
\* started, and the last StableWindow blocks carry one masternode count
\* and contain a height outside every mining window.
SettledAtSameTip ==
  /\ tipA = tipB
  /\ tipA >= StableWindow
  /\ lastHA # A!NeverChecked /\ lastHB # B!NeverChecked
  /\ \A h \in (tipA - StableWindow + 1) .. tipA : counts[h] = counts[tipA]
  /\ \E h \in (tipA - StableWindow + 1) .. tipA : FreeHeight(h)

(***************************************************************************)
(* Nodes that have connected the same chain, with the masternode count     *)
(* unchanged over a stretch that contains a height outside every mining    *)
(* window, hold the same records for the chain-lock, platform and          *)
(* masternode-hard-fork quorum types (LLMQ_50_60, LLMQ_400_60,             *)
(* LLMQ_400_85, LLMQ_100_67): a restart cannot split them for long.        *)
(***************************************************************************)
SettledNodesAgreeExcept60_75 ==
  SettledAtSameTip =>
    \A t \in DOMAIN catA \ {"LLMQ_60_75"} : catA[t] = catB[t]

(***************************************************************************)
(* Spec sections 1 and 4.4: the live quorum parameters are chosen from     *)
(* the chain (height and masternode count), so two nodes at the same tip   *)
(* agree on the whole catalog once the count has settled.  The skipped     *)
(* branch's one-way LLMQ_60_75 downgrade makes the catalog depend on the   *)
(* node's history, which a restart erases.                                 *)
(***************************************************************************)
SettledNodesAgree ==
  SettledAtSameTip => catA = catB

=============================================================================
