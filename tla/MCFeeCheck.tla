----------------------------- MODULE MCFeeCheck -----------------------------
(* Instance of FeeCheck; the constants are set in MCFeeCheck.cfg and       *)
(* MCFeeCheckShared.cfg (gas and amounts scaled down by 1000 and 10^18).   *)
EXTENDS FeeCheck

=============================================================================
