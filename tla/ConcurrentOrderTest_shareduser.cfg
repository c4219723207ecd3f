\* Three VUs over a table of two users, as VUS > 200 in the real run:
\* VUs 1 and 3 use the same user (and option) in the same iteration.
CONSTANTS
    VUs = 3
    Iterations = 3
    TableSize = 2
    NumOptions = 2
    InitStock = 2
    MaxTimeouts = 0

SPECIFICATION Spec

INVARIANT SuccessCountIsUnitsSold

\* The run ends: every VU done and the report written.
CHECK_DEADLOCK FALSE
