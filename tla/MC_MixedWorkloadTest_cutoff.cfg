\* One VU and one iteration suffice: the duration elapses while the
\* iteration waits for its response and gracefulStop cuts it off.
CONSTANTS
    VUs = 1
    MaxIter = 1
    UserCount = 1
    VUStride = 1000
    IterStride = 10
    MaxTimeouts = 0
    Weights <- MC_Weights
    ReadStatuses = {200, 500}
    CouponStatuses = {200, 400, 409}

SPECIFICATION Spec

INVARIANT TotalRequestsMatchOutcomes

CHECK_DEADLOCK FALSE
