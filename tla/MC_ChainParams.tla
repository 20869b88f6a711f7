---------------------------- MODULE MC_ChainParams ----------------------------
(***************************************************************************)
(* Model-checking instance of ChainParams: the four chains and an unknown  *)
(* one; quorum-type options naming a rotation record, a non-rotation       *)
(* record, a record of the other test chain and no record at all; one      *)
(* size pair; two activation heights, so that values given in the wrong   *)
(* order are told apart; one subsidy value.                                *)
(***************************************************************************)
EXTENDS ChainParams, MC_DkgTiming

MCChains == Networks \cup {"bogus"}
MCTypeArgs == {"llmq_devnet", "llmq_devnet_dip0024", "llmq_test", "llmq_none"}
MCSizeArgs == {<<4, 3>>}
MCSpacingArgs == {0, 60}
MCHeightArgs == {1, 3}
MCSubsidyArgs == {5}

=============================================================================
