------------------------- MODULE MC_MixedWorkloadTest -------------------------
(***************************************************************************)
(* The mixed-workload scenario's WORKLOAD_WEIGHTS, in declaration order.   *)
(***************************************************************************)
EXTENDS MixedWorkloadTest

MC_Weights ==
    << <<"productList", 40>>, <<"productDetail", 20>>,
       <<"popularProducts", 10>>, <<"cartAdd", 15>>,
       <<"orderCreate", 10>>, <<"couponIssue", 5>> >>

=============================================================================
