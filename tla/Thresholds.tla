------------------------------ MODULE Thresholds ------------------------------
(***************************************************************************)
(* The coupon rush's options.thresholds and the k6 threshold evaluator     *)
(* that judges them after the run.                                         *)
(*                                                                         *)
(* A rule bounds a metric's final value: "rate<0.5" bounds a Rate's share  *)
(* of true observations.  The evaluator is k6's and is modelled from the   *)
(* spec (4.6): a Rate with no observations fails a rule that requires a    *)
(* minimum and passes one that bounds a maximum.  The run passes when     *)
(* every rule holds.  Percentile (Trend) rules are listed but not judged:  *)
(* the scenario models keep no latencies.                                  *)
(*                                                                         *)
(* Rate bounds are in percent, so the comparisons stay in the integers.    *)
(***************************************************************************)
EXTENDS Integers

\* One threshold expression: kind "rate" or "p" (with its percentile p),
\* the comparison "<" or ">", and the bound.
Rule(metric, kind, p, op, bound) ==
    [metric |-> metric, kind |-> kind, p |-> p, op |-> op, bound |-> bound]

(***************************************************************************)
(* options.thresholds of the coupon rush.                                  *)
(***************************************************************************)
Thresholds02 ==
    { Rule("coupon_issue_duration", "p", 95, "<", 1000),
      Rule("coupon_issue_duration", "p", 99, "<", 2000),
      Rule("http_req_failed", "rate", 0, "<", 50) }

RateRules(rules) == {r \in rules : r.kind = "rate"}

\* x against the bound b under the rule's comparison.
Compare(op, x, b) == IF op = "<" THEN x < b ELSE x > b

\* No observations: a maximum is vacuously met, a minimum is not.
NoObservationHolds(r) == r.op = "<"

\* A rate rule on a Rate with num true observations out of den.
RateHolds(r, num, den) ==
    IF den = 0 THEN NoObservationHolds(r)
               ELSE Compare(r.op, 100 * num, r.bound * den)

=============================================================================
