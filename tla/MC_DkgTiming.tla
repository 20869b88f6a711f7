---------------------------- MODULE MC_DkgTiming ----------------------------
(***************************************************************************)
(* DKG timing used by the model-checking instances.  The real records      *)
(* (llmq/params.h, outside src/) have intervals of hundreds of blocks;     *)
(* here each role keeps one small interval and window, shared by all its   *)
(* size variants:                                                          *)
(*   the 60-member roles and llmq_100_67: interval 4, window [2,2];        *)
(*   the 75-member role: interval 6, window [3,3];                         *)
(*   the 85-member role: interval 6, window [4,4].                         *)
(* Mining heights up to 12 are then 2, 3, 4, 6, 9, 10 and free heights     *)
(* 1, 5, 7, 8, 11, 12: every four consecutive heights hold a free one.     *)
(***************************************************************************)
EXTENDS LLMQCatalog

Role(r) ==
  CASE r \in {"llmq_10_75", "llmq_20_75", "llmq_60_75"} -> "75"
    [] r \in {"llmq_20_85", "llmq_40_85", "llmq_400_85"} -> "85"
    [] r \notin {"llmq_10_75", "llmq_20_75", "llmq_60_75",
                 "llmq_20_85", "llmq_40_85", "llmq_400_85"} -> "60"

MCDkgInterval == [r \in LLMQRecords |-> IF Role(r) = "60" THEN 4 ELSE 6]

MCDkgMiningWindowStart ==
  [r \in LLMQRecords |-> CASE Role(r) = "60" -> 2 [] Role(r) = "75" -> 3 [] Role(r) = "85" -> 4]

MCDkgMiningWindowEnd == MCDkgMiningWindowStart

=============================================================================
