\* Two VUs through a ramp-up, a hold and the cooldown to 0 (the code's
\* 50 .. 500, 500, 0).  Two iterations per VU against an id stride of 2
\* keep MaxIter <= IdStride, as a VU's iterations in the 17 minutes stay
\* below 10000; one timeout reaches every request with its effect applied
\* or lost.
CONSTANTS
    MaxVUs = 2
    Targets <- MC_Targets
    MaxIter = 2
    IdStride = 2
    MaxTimeouts = 1
    Statuses = {200, 500}

SPECIFICATION Spec

INVARIANT TypeOK
INVARIANT StressAccounting
INVARIANT OwnCartIntactAtOrder

PROPERTY RunCompletes

\* The run ends: every stage over, every VU retired and the report written.
CHECK_DEADLOCK FALSE
