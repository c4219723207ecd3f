----------------------------- MODULE MC_StressTest -----------------------------
(***************************************************************************)
(* The stress scenario's stages as target VU counts: a ramp-up, a hold at *)
(* the maximum and the cooldown to 0 (the code's 50 .. 500, 500, 0, with  *)
(* 500 VUs scaled to 2).                                                   *)
(***************************************************************************)
EXTENDS StressTest

MC_Targets == <<1, 2, 2, 0>>

\* One stage at one VU, then the cooldown to 0.
MC_TargetsShort == <<1, 0>>

=============================================================================
