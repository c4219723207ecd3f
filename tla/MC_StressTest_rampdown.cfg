\* One VU, one stage and the cooldown: the VU is in its iteration when the
\* cooldown stage ends, as the last VUs of a 500-VU ramp-down are.
CONSTANTS
    MaxVUs = 1
    Targets <- MC_TargetsShort
    MaxIter = 2
    IdStride = 2
    MaxTimeouts = 0
    Statuses = {200, 500}

SPECIFICATION Spec

PROPERTY NoVUsAboveTargetAtBoundary

CHECK_DEADLOCK FALSE
