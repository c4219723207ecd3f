------------------------- MODULE MC_CouponIssueTest -------------------------
(***************************************************************************)
(* Model values for CouponIssueTest.  The replies are the ones the coupon  *)
(* endpoint gives: 200 on issue, 409 "already issued" for a user holding   *)
(* the coupon, 400 "sold out" when the quantity is exhausted.              *)
(***************************************************************************)
EXTENDS CouponIssueTest

MC_OkReply      == Response(200, {})
MC_DupReply     == Response(409, {"already"})
MC_SoldOutReply == Response(400, {"sold out"})

=============================================================================
