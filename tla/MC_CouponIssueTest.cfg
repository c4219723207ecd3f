\* Three VUs and a stride of 3 keep VUs <= stride, as the defaults do
\* (500 VUs, stride 1000); five iterations against two coupons exercise
\* both issue and sold-out, and one timeout covers a lost reply.
CONSTANTS
    VUs = 3
    Iterations = 5
    IdStride = 3
    Capacity = 2
    MaxTimeouts = 1
    OkReply <- MC_OkReply
    DupReply <- MC_DupReply
    SoldOutReply <- MC_SoldOutReply

SPECIFICATION Spec

INVARIANT TypeOK
INVARIANT IterationAccounting
INVARIANT ExactIterationCount
INVARIANT NoPhantomSuccess
INVARIANT ExactCapacityIssuance
INVARIANT IssuedCouponsAccountedFor

PROPERTY RunCompletes

\* The run ends: every VU done and the report written.
CHECK_DEADLOCK FALSE
