\* The code's proportions: UserCount = VUStride (1000 and 1000), with a
\* smaller __ITER stride.  VU 1 drawing 2 in its second iteration gets id
\* 2 + 2 + 1 = 5, the id VU 2 gets drawing 1 in its first (1 + 4 = 5), as
\* 995 + 1000 + 10 = 5 + 2000 in the real run.
CONSTANTS
    VUs = 2
    MaxIter = 2
    UserCount = 2
    VUStride = 2
    IterStride = 1
    MaxTimeouts = 0
    Weights <- MC_Weights
    ReadStatuses = {200, 500}
    CouponStatuses = {200, 400, 409}

SPECIFICATION Spec

INVARIANT OwnCartIntactAtOrder

CHECK_DEADLOCK FALSE
