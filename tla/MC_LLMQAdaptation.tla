------------------------- MODULE MC_LLMQAdaptation -------------------------
(***************************************************************************)
(* Model-checking instance of LLMQAdaptation, with the DKG timing of       *)
(* MC_DkgTiming.  The counts hit every tier and both sides of the 80 and   *)
(* 100 boundaries and of 2000; heights 0..11 hold two cycles of every      *)
(* interval.                                                               *)
(***************************************************************************)
EXTENDS LLMQAdaptation, MC_DkgTiming

MCMnCounts == {50, 90, 150, 300, 700, 2500}

=============================================================================
