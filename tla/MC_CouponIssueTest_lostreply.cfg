\* Unique user ids and one request timeout: the reply of a coupon the
\* target did issue can be lost, or the request handled after k6 gave up.
CONSTANTS
    VUs = 2
    Iterations = 3
    IdStride = 2
    Capacity = 2
    MaxTimeouts = 1
    OkReply <- MC_OkReply
    DupReply <- MC_DupReply
    SoldOutReply <- MC_SoldOutReply

SPECIFICATION Spec

INVARIANT ReportedSuccessIsIssued

\* The run ends: every VU done and the report written.
CHECK_DEADLOCK FALSE
