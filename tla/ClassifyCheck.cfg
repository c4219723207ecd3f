\* The statuses the coupon endpoint and k6 produce, plus a 5xx.
CONSTANT Statuses = {0, 200, 400, 409, 500}

SPECIFICATION Spec

INVARIANT ClassifierFollowsSpec
