\* The coupon_rush constants: five iterations against two coupons, so a
\* correct target answers three of five sold out (as any quantity up to
\* 500 of the default 1000 iterations does).
CONSTANTS
    VUs = 3
    Iterations = 5
    IdStride = 3
    Capacity = 2
    MaxTimeouts = 1
    OkReply <- MC_OkReply
    DupReply <- MC_DupReply
    SoldOutReply <- MC_SoldOutReply

SPECIFICATION Spec

INVARIANT SoldOutToleratedByThresholds

\* The run ends: every VU done and the report written.
CHECK_DEADLOCK FALSE
