---------------------------- MODULE MC_LLMQThreads ----------------------------
(***************************************************************************)
(* Model-checking instance of LLMQThreads with the DKG timing of           *)
(* MC_DkgTiming: counts of the smallest, second and largest tier (with and *)
(* without the upgrade above 2000); heights 0..5 hold free and mining      *)
(* heights.                                                                *)
(***************************************************************************)
EXTENDS LLMQThreads, MC_DkgTiming

CONSTANTS t1, t2

MCMnCounts == {50, 150, 700, 2500}

=============================================================================
