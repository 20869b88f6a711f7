---------------------------- MODULE MC_LLMQNodes ----------------------------
(***************************************************************************)
(* Model-checking instance of LLMQNodes, with the DKG timing of            *)
(* MC_DkgTiming.  The counts are one of the smallest tier (below 80), one  *)
(* of the second and one of the fourth tier, whose LLMQ_60_75 record       *)
(* (llmq_20_75) differs from the downgrade's llmq_10_75.                   *)
(***************************************************************************)
EXTENDS LLMQNodes, MC_DkgTiming

MCMnCounts == {50, 150, 700}

=============================================================================
