\* Three VUs within a table of three users (as 100 VUs within 200 users);
\* two options, so VUs 1 and 3 compete for option 1 as the table's users
\* 1 and 11 do; two units of each option and five shared iterations make
\* orders succeed and fail for stock; one timeout covers a lost charge,
\* cart add or order.
CONSTANTS
    VUs = 3
    Iterations = 5
    TableSize = 3
    NumOptions = 2
    InitStock = 2
    MaxTimeouts = 1

SPECIFICATION Spec

INVARIANT TypeOK
INVARIANT OrderAccounting
INVARIANT SuccessCountIsUnitsSold
PROPERTY OrderFailureMeansSoldOut

PROPERTY RunCompletes

\* The run ends: every VU done and the report written.
CHECK_DEADLOCK FALSE
