\* Two VUs of two iterations each, with the code's proportions: the
\* random part of the id spans the VU stride (UserCount = VUStride, 1000
\* and 1000 in code) and the __ITER stride is smaller, so the two VUs' id
\* ranges overlap from the second iteration on, as they do in the real
\* run; one timeout reaches every request with its effect applied or lost.
CONSTANTS
    VUs = 2
    MaxIter = 2
    UserCount = 2
    VUStride = 2
    IterStride = 1
    MaxTimeouts = 1
    Weights <- MC_Weights
    ReadStatuses = {200, 500}
    CouponStatuses = {200, 400, 409}

SPECIFICATION Spec

INVARIANT TypeOK
INVARIANT RateConsistency

PROPERTY RunCompletes

\* The run ends: every VU done and the report written.
CHECK_DEADLOCK FALSE
