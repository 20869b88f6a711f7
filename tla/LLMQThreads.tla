---------------------------- MODULE LLMQThreads ----------------------------
(***************************************************************************)
(* CChainParams::UpdateLLMQParams (src/src/chainparams.cpp lines           *)
(* 1338-1376) run by several threads, at the grain of its assignments.     *)
(* The function takes no lock: the statics and consensus.llmqs are written *)
(* one assignment at a time, in the order of the code.                     *)
(*                                                                         *)
(* A call evaluates the guard of line 1343 in one step (the reads of the   *)
(* statics and of the catalog are taken together), which fixes the         *)
(* assignments it goes on to make: lastCheckMnCount, lastCheckHeight, then *)
(* the tier's entries; or, when skipped, the LLMQ_60_75 downgrade.  Each   *)
(* assignment is then one step, and the steps of different threads         *)
(* interleave.  An assignment of a record is taken to be atomic; a data    *)
(* race could tear it too, which the model does not show.                  *)
(***************************************************************************)
EXTENDS LLMQAdaptation, Sequences

CONSTANTS
  Threads,   \* threads that call UpdateLLMQParams
  MaxCalls   \* calls made in a behaviour

VARIABLES
  pending,   \* thread -> the assignments of its current call still to make
  calls      \* calls started so far

tvars == <<llmqs, lastCheckMnCount, lastCheckHeight, pending, calls>>

\* An assignment: to a static, or to the catalog entry of a quorum type.
SetMnCount(c) == [target |-> "lastCheckMnCount", val |-> c]
SetHeight(h) == [target |-> "lastCheckHeight", val |-> h]
SetEntry(t, r) == [target |-> t, val |-> r]

(***************************************************************************)
(* The tier's assignments in the order of the code (lines 1350-1371): the  *)
(* first three tiers write LLMQ_50_60, LLMQ_60_75, LLMQ_400_60 and         *)
(* LLMQ_400_85; the largest (600 and more: the else branch) writes         *)
(* LLMQ_60_75 last, with llmq_20_75, and again with llmq_60_75 above 2000. *)
(***************************************************************************)
TierWrites(totalMnCount) ==
  LET T == Tier(totalMnCount)
  IN  IF totalMnCount >= 600
      THEN << SetEntry("LLMQ_50_60", T["LLMQ_50_60"]),
              SetEntry("LLMQ_400_60", T["LLMQ_400_60"]),
              SetEntry("LLMQ_400_85", T["LLMQ_400_85"]),
              SetEntry("LLMQ_60_75", "llmq_20_75") >>
           \o (IF totalMnCount > 2000 THEN << SetEntry("LLMQ_60_75", "llmq_60_75") >> ELSE << >>)
      ELSE << SetEntry("LLMQ_50_60", T["LLMQ_50_60"]),
              SetEntry("LLMQ_60_75", T["LLMQ_60_75"]),
              SetEntry("LLMQ_400_60", T["LLMQ_400_60"]),
              SetEntry("LLMQ_400_85", T["LLMQ_400_85"]) >>

\* The assignments a call makes once its guard is evaluated.
CallWrites(totalMnCount, height) ==
  IF ShouldRecompute(totalMnCount, height)
  THEN << SetMnCount(totalMnCount), SetHeight(height) >> \o TierWrites(totalMnCount)
  ELSE IF totalMnCount < 80 THEN << SetEntry("LLMQ_60_75", "llmq_10_75") >>
  ELSE << >>

\* The shared state after assignment w.
Assign(st, w) ==
  IF w.target = "lastCheckMnCount" THEN [st EXCEPT !.mn = w.val]
  ELSE IF w.target = "lastCheckHeight" THEN [st EXCEPT !.h = w.val]
  ELSE [st EXCEPT !.cat[w.target] = w.val]

Shared == [cat |-> llmqs, mn |-> lastCheckMnCount, h |-> lastCheckHeight]

-----------------------------------------------------------------------------
(* Actions *)

ThreadsInit ==
  /\ Init
  /\ pending = [t \in Threads |-> << >>]
  /\ calls = 0

\* Thread t calls UpdateLLMQParams(totalMnCount, height) and evaluates the guard.
Call(t, totalMnCount, height) ==
  /\ pending[t] = << >>
  /\ calls < MaxCalls
  /\ pending' = [pending EXCEPT ![t] = CallWrites(totalMnCount, height)]
  /\ calls' = calls + 1
  /\ UNCHANGED <<llmqs, lastCheckMnCount, lastCheckHeight>>

\* Thread t makes its next assignment.
Write(t) ==
  /\ pending[t] # << >>
  /\ LET st == Assign(Shared, Head(pending[t]))
     IN  /\ llmqs' = st.cat
         /\ lastCheckMnCount' = st.mn
         /\ lastCheckHeight' = st.h
  /\ pending' = [pending EXCEPT ![t] = Tail(pending[t])]
  /\ UNCHANGED calls

ThreadsNext ==
  \/ \E t \in Threads, c \in MnCounts, h \in Heights : Call(t, c, h)
  \/ \E t \in Threads : Write(t)

ThreadsSpec == ThreadsInit /\ [][ThreadsNext]_tvars

-----------------------------------------------------------------------------
(* Properties *)

\* No call is under way.
Quiescent == \A t \in Threads : pending[t] = << >>

(***************************************************************************)
(* Spec section 5: concurrent evaluations are serialised, so whenever no   *)
(* call is under way the catalog is the tier of lastCheckMnCount, as the   *)
(* atomic engine keeps it (CatalogFollowsLastCheck).  Two calls that both  *)
(* pass the guard before either writes the statics can leave the statics   *)
(* of one and the catalog of the other; later calls with that count skip.  *)
(***************************************************************************)
QuiescentCatalogFollowsLastCheck == Quiescent => CatalogFollowsLastCheck

(***************************************************************************)
(* Spec section 5: readers of the catalog observe it before or after a     *)
(* replacement, never partly updated: LLMQ_50_60, LLMQ_400_60 and          *)
(* LLMQ_400_85 always come from the constructor or from one tier.          *)
(***************************************************************************)
CatalogIsWholeTier ==
  \/ llmqs = BaseLLMQs(NetworkID)
  \/ \E c \in MnCounts : \A t \in AdaptiveTypes \ {"LLMQ_60_75"} : llmqs[t] = Tier(c)[t]

=============================================================================
