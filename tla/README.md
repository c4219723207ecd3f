# TLA+ models of the hh-e-commerce k6 load-test harness

The repository's `src/k6/` is a k6 harness. It drives concurrent load against an
e-commerce backend that is not part of `src/`, and it classifies the responses
into metrics. From those metrics an operator decides whether the backend kept its
invariants: no oversell, exactly N coupons issued, no duplicate grants. This
project models the harness, together with the parts of k6 and the backend that
it depends on, and checks what the harness's counts can and cannot show.

## 1. Inventory

### Components

| Component | Source | State it keeps | Operations |
|---|---|---|---|
| Config (`config.js`) | `src/k6/config.js` | constants (BASE_URL, id lists, threshold tables) | `getRandomUserId`, `getRandomProductId`, `getRandomProductOptionId`, `getRandomQuantity`, `checkResponse` (never called) |
| Scenario 1, concurrent order | `01-concurrent-order-test.js` | counters `order_success_count` and `order_fail_count`, trend `order_duration`, rate `order_success_rate`, SharedArray of 200 users | per iteration: charge points, add to cart, sleep, create the order, classify (200 or not), record; `handleSummary` |
| Scenario 2, coupon rush | `02-coupon-issue-test.js` | counters success, sold_out, duplicate and fail; trend `coupon_issue_duration`; rate `coupon_success_rate` | per iteration: user id from `__VU`/`__ITER`, issue request, `classifyError`, record, checks; `handleSummary` |
| Scenario 3, mixed workload | `03-mixed-workload-test.js` | six per-API trends; rates api, read and write; counter `total_requests` | `selectWorkload` (weighted), one of six API calls (`createOrder` makes three requests), success-rate bookkeeping |
| Scenario 4, stress | `04-stress-test.js` | trends; rate `error_rate`; counter `throughput`; gauge `current_vus` | ramping stages, a fixed 50/30/15/5 branch ladder, `isError = status >= 400 \|\| status === 0` |
| k6 engine (not in the repository) | spec sections 4.3–4.6 | the executors' shared iteration counter, VU pool, phases (maxDuration, gracefulStop); metric sinks; threshold evaluation | start and stop iterations; add samples; evaluate thresholds |
| Target backend (not in the repository) | spec sections 6 and 8 | coupon holders and quantity; stock; carts; points | issue coupon, charge, add to cart, create order, read products |

### How they interact

Each VU runs the scenario's default function in a loop. The executor decides
when an iteration may start:
- `shared-iterations` pulls iterations from one counter shared by all VUs.
- `constant-vus` loops until the run's duration ends.
- `stages` ramps the number of VUs up and down.

An iteration makes blocking HTTP calls to the target and waits for the reply or
for the request timeout, which gives status 0. It classifies the final response
and adds samples to the process-wide metrics. VUs share nothing except these
metric sinks and the executor's counter. The target is shared state that all
VUs mutate. When every VU has left its loop, k6 evaluates the thresholds and
calls `handleSummary` with the final metrics.

### Hard behaviour

- **Concurrency.** Many VUs interleave their requests at the target, and their
  metric adds interleave too. The user ids that the VUs derive can coincide.
- **Failure.** A request can time out while the target still handles it, either
  before or after the timeout. A later step can run after an earlier step failed
  (charge, then cart, then order).
- **Deadlines.** maxDuration stops new iterations. gracefulStop and ramp-down
  interrupt iterations that are still waiting, and those iterations record
  nothing.
- **Ordering.** The classifier tests status and body words in a fixed priority.
  Weighted selection compares against cumulative bounds.

### What makes each component correct

- Classifier: it maps every response to exactly one category, in the spec's
  priority. It never counts a non-issue as a success.
- Coupon rush:
  - every shared iteration is accounted for, in exactly one counter or as
    interrupted;
  - exactly `iterations` outcomes are recorded when no deadline intervenes;
  - with unique users and no failures, exactly Capacity successes are recorded
    and the rest are sold out.
- Selector: each workload is chosen for exactly its weight's share of draws, and
  the fallback is never used. With integer bounds and a floating-point `rand`
  this follows from the literal bounds, so no run checks it on its own.
- Concurrent order: success plus fail equals the orders placed, and successes
  never exceed the stock. Users must be distinct across concurrent VUs.
- Mixed workload: api_success_rate has one sample per iteration, split exactly
  into the read and write rates.
- Thresholds: the verdict is the conjunction of the rules. A metric with no
  samples fails a minimum rule and passes a maximum rule (spec 4.6).

## 2. Modules (current)

| Module | Models | Kind |
|---|---|---|
| `Classify` | `classifyError` (02:50–66), the coupon checks (02:110–115), k6's `http_req_failed` predicate | operators |
| `CouponIssueTest` | scenario 2 composed with the shared-iterations executor and the coupon endpoint | state machine |
| `MC_CouponIssueTest` | replies of the endpoint (200; 409 "already"; 400 "sold out") | MC |
| `ClassifyCheck` | `classifyError` compared with the spec's classifier policy over every response | state machine over responses |
| `WorkloadSelect` | `selectWorkload` (03:79–90) as a RECURSIVE operator; the stress ladder (04:132–156) | operators, used by the mixed and stress models |
| `Thresholds` | the coupon rush's `options.thresholds` (02:43–46); k6's rate-rule evaluation with the zero-observation rule, from the spec (4.6) | operators |
| `MixedWorkloadTest` | scenario 3 composed with the constant-vus executor, `WorkloadSelect` (as `Sel == INSTANCE WorkloadSelect WITH ...`) and the endpoints | state machine |
| `MC_MixedWorkloadTest` | the scenario's `WORKLOAD_WEIGHTS` | MC |
| `ConcurrentOrderTest` | scenario 1 composed with the shared-iterations executor and the point, cart and order endpoints | state machine (the cfg gives the constants directly) |
| `StressTest` | scenario 4 composed with the ramping-vus stages, the branch ladder (`Sel == INSTANCE WorkloadSelect`) and the endpoints | state machine |
| `MC_StressTest` | the stage targets as sequences (a cfg cannot write a tuple) | MC |

### CouponIssueTest: state and actions against the code

- `started` is the executor's shared counter. `phase` is running, graceful
  (after `maxDuration: '3m'`) or stopped (after gracefulStop).
- `vu[v]` holds the VU's state (idle, waiting in `http.post`, or done),
  `__ITER`, and the iteration's user id (`__VU + __ITER * 1000`). The constant
  `IdStride` stands for the literal 1000.
- `reply[v]` is the reply delivered to a waiting VU. `pending` holds the requests
  the target has not handled yet. `issued` is the set of users holding the
  coupon.
- `m` holds the counters, the rate (numerator and denominator), the duration
  trend's sample count, `http_req_failed` and `checks`. `report` is
  `handleSummary`'s value.

Actions:
- `StartIteration` covers lines 69–84. `ReceiveReply` and `RequestTimeout`
  cover `http.post` returning with the target's reply or with status 0.
- Both of those go on to `EndIteration`/`RecordOutcome`, which covers lines
  86–124: the duration add, `classifyError`, the switch, the checks, then sleep
  and the next iteration.
- `Finish` is the VU leaving the loop. `MaxDurationElapsed` and
  `GracefulStopElapsed` are the executor's deadlines.
- `IssueCoupon` is the target. It handles one request atomically: duplicate
  check, then quantity check, then issue. A reply reaches the VU only if the VU
  is still waiting on that same iteration.
- `Summarize` is `handleSummary` (127–163).

The target is modelled from the spec: the backend is not in this repository.
`RequestTimeout` may leave the request with the target, so the target can
serve it later, or may drop it, so it never arrives. Both happen in reality.

### ConcurrentOrderTest: state and actions against the code

- `started` and `phase` work as in `CouponIssueTest` (`maxDuration: '5m'`, 01:38).
- `vu[v]` holds the position in the default function (`idle`, `cart`,
  `order`, `done`), `__ITER`, the user id and the product option. The user id is
  `TableIndex(v) + __ITER * TableSize`, where `TableIndex` is
  `users[(__VU-1) % users.length]` (01:93–95). `TableSize` stands for the
  200-entry SharedArray and for the literal 200 in the offset. The option is
  `((i-1) % 10) + 1` (01:54), with `NumOptions` standing for 10.
- The target's state is `charged` (users whose balance covers an order),
  `cart` (units per user and option) and `stock` (units per option).
- `m` holds the two counters, the rate, the trend's sample count,
  `http_req_failed` and `checks`.

Actions:
- `StartIteration` is the iteration start plus the charge group, i.e.
  `chargePoint` and its check (01:92–105).
- `AddToCart` is the cart group, i.e. `setupCart` and its check, then the
  0.1 s sleep (01:107–115).
- `CreateOrder` is the order group (01:117–157). `RecordOrder` adds the
  duration sample, the counter and rate samples and the two checks.
- Each request either gets the target's answer, or times out (status 0) with
  the target's change applied or not.
- `Finish`, `MaxDurationElapsed`, `GracefulStopElapsed` and `Summarize` work as
  in the coupon rush. `handleSummary` is 01:160–184.

The target's order handler is modelled from the spec. It takes the whole cart,
and it fails on an empty cart, an uncovered balance or short stock.
gracefulStop interrupts an iteration between its steps rather than inside a
request. The effect of a request that was in flight when it was cut off is the
same as that of a request that timed out, which is covered by the timeout
branches.

### MixedWorkloadTest: state and actions against the code

- `phase` is running, graceful (after `duration`, 03:53) or stopped (after
  gracefulStop). constant-vus has no shared counter. Each VU loops until the
  duration elapses. `MaxIter` bounds a VU's iterations in the model only.
- `vu[v]` holds:
  - the position: idle, waiting on createOrder's charge or cart request,
    waiting on the terminal request, or done;
  - `__ITER`;
  - the user id `getRandomUserId() + __VU*VUStride + __ITER*IterStride`
    (03:178; `RandomUserIds` is config.js:43–45);
  - the workload, drawn with `Sel!selectWorkload`;
  - `lost`, which is set when this iteration's own charge or cart request
    timed out without reaching the target.
- The target keeps `charged` (users with points) and `cart` (users whose cart
  holds units). The scenario sets no stock, and an order takes the whole cart,
  so the number of units never matters. Reads and coupon issues answer with
  any status of a small set.
- `m` holds:
  - `total_requests`;
  - the trend's sample count;
  - the api, read and write rates, each as numerator and denominator.

  The checks and `http_req_failed` are left out, because no property reads
  them.

Actions:
- `StartIteration` covers 03:177–186. It sets the user id and the workload,
  adds 1 to `requestCounter`, and dispatches the first request.
- `ChargeStep` and `CartStep` are createOrder's charge and cart requests
  (03:137–153). Their responses are discarded.
- `RespondRead`, `RespondCartAdd`, `RespondOrder` and `RespondCoupon` are the
  terminal responses. Each is answered, or times out with the target's change
  applied or not. Each then runs `RecordOutcome` (03:227–243).
- `Finish`, `DurationElapsed`, `GracefulStopElapsed` and `Summarize` work as in
  the other scenarios.

### StressTest: state and actions against the code

- `stage` indexes `options.stages` (04:46–55); `Targets` holds the stage
  targets, and `Target` is 0 after the last stage. The code's 50/100/200/300/
  500/500/0 ladder is scaled to `<<1, 2, 2, 0>>`: a ramp-up, a hold and the
  cooldown to 0.
- `vu[v]` holds the position (`off` for a VU not live, `idle`, waiting on
  `callOrderCreate`'s charge or cart request, or on the branch's terminal
  request), `__ITER`, the user id `__VU * 10000 + __ITER` (04:130, with
  `IdStride` for 10000), the branch and `lost`, as in the mixed model.
- The target keeps `charged` and `cart`, as in the mixed model.
- `m` holds `throughput`, the `response_time` sample count and `error_rate`
  (numerator and denominator). `report` is `handleSummary`'s snapshot.

Actions:
- `Activate` starts a VU while fewer are live than the target. `EndStage` is
  a stage's duration elapsing: idle VUs above the next target retire at once.
  `RampDownElapsed` is gracefulRampDown (gracefulStop after the last stage)
  cutting off a VU above the target that is still in its iteration.
- `StartIteration` covers 04:127–156: the user id, the ladder on `rand`, and
  the branch's first request. `ChargeStep`, `CartStep`, `RespondRead`,
  `RespondCartAdd` and `RespondOrder` are the requests, each answered or timed
  out with its effect applied or not.
- `RecordOutcome` is 04:158–178: `response_time`, `isError`, `error_rate`,
  `throughput`, then the VU retires if it is above the target, else loops.
- `Summarize` is `handleSummary` (04:181–236).

The VU scheduling of ramping-vus is modelled from the spec (4.5), since k6 is
not in the repository.

### No executor refinements

The executors (shared-iterations, constant-vus, ramping-vus) are k6's, not
this repository's. Each scenario model states the executor's guards in its own
`StartIteration`, `Finish`, `Activate` and `EndStage`, taken from spec 4.5.
An abstract executor spec shown to be implemented under a mapping would hold
whatever the scenario code does, because its guards are those same guards. The
project therefore checks properties of the scenarios' own bookkeeping instead,
and the executors' deadlines appear in them through `phase`, `interrupted`
and `RunCompletes`.

### Thresholds

`Thresholds` writes the coupon rush's `options.thresholds` as a set of rules.
Rate bounds are in percent, so every comparison stays in the integers. k6's
evaluator is modelled from the spec: `RateHolds` judges one rate rule, and a
Rate with no observations fails a `>` rule and passes a `<` rule
(`NoObservationHolds`). The coupon model INSTANCEs `Thresholds` (as `Th`) and
evaluates the rate rule on its final `http_req_failed`
(`coupon_threshold_verdict`). The Trend rules are listed but never judged,
because the scenario models keep latencies only as sample counts.

### Fairness

Each VU's start, finish and receive steps are weakly fair, because k6 runs
every VU as its own goroutine. The target's handling is weakly fair, because a
live backend answers. The gracefulStop timer and `handleSummary` are weakly
fair, because k6 always runs them. Timeouts and maxDuration are not fair: they
are failures and deadlines that may never happen. The mixed workload's
`DurationElapsed` is weakly fair, because a constant-vus run has no other end.
In the stress model, `EndStage` and `RampDownElapsed` are weakly fair: stage
durations and ramp-down timers always elapse.

## 3. Runs

| Run | Expect | What it shows |
|---|---|---|
| `coupon_rush` (3 VUs, 5 iterations, stride 3, capacity 2, ≤ 1 timeout) | pass | `IterationAccounting`: at every moment, each started iteration is recorded in exactly one counter, still waiting, or interrupted; the trend, rate and `http_req_failed` have one sample per outcome. `ExactIterationCount`: without a deadline the report totals exactly `iterations`. `NoPhantomSuccess`: success ≤ coupons issued, even with late replies and timeouts. `ExactCapacityIssuance`: with unique ids, no timeout and no deadline, success = Capacity, sold_out = iterations − Capacity, and no duplicate or other failure. `IssuedCouponsAccountedFor`: every coupon the target issued is matched by a recorded success, a waiting iteration, a timeout or a gracefulStop cut-off, so with `NoPhantomSuccess` the gap between the success count and the coupons issued is bounded by the lost replies. `RunCompletes`: the run always reaches `handleSummary`. |
| `coupon_threshold_verdict` (the `coupon_rush` constants) | violation | `SoldOutToleratedByThresholds` fails: the target issues both coupons and answers the other three requests sold out. Nothing else fails, yet `http_req_failed` is 3/5, so the `rate<0.5` rule fails, although its comment says sold-out failures are tolerated. In the real run this happens for any coupon quantity up to 500 of the default 1000 iterations. With 3 iterations against 2 coupons the rule passes. |
| `coupon_lost_reply` (≤ 1 timeout) | violation | `ReportedSuccessIsIssued` fails: a coupon issued for a request that k6 had already timed out is counted as `other_error`, so the success count that handleSummary asks the operator to compare with the quantity is too low. |
| `classifier_vs_spec` | violation | `ClassifierFollowsSpec` fails at status 0: the code has no TransportError category. |
| `order_concurrency` (3 VUs, table of 3, 5 iterations, 2 options of stock 2, ≤ 1 timeout) | pass | `OrderAccounting`: each started iteration is counted once as a success or failure, still running, or interrupted, with matching trend and rate samples. `SuccessCountIsUnitsSold`: without a timeout or deadline, the reported successes equal the units the target sold. `OrderFailureMeansSoldOut` (an action property): while no request has timed out, every order step counted as a failure finds its own option at stock 0, so the charge and cart add reached the order's own user. `RunCompletes`. |
| `order_shared_user` (3 VUs, table of 2) | violation | `SuccessCountIsUnitsSold` fails: VUs 1 and 3 share user 1. Both add to one cart, one order buys two units, and the other fails on an empty cart. In the real run this happens whenever `VUS > 200`. |
| `mixed_workload` (2 VUs, 2 iterations each, user count = VU stride as in the code, ≤ 1 timeout) | pass | `RateConsistency`: `total_requests` = recorded outcomes + running + interrupted iterations. The trend has one sample per outcome, and the read and write rates split the api rate exactly. `TypeOK` includes the user id range of `getRandomUserId`. `RunCompletes`. |
| `mixed_shared_user` (user count = VU stride, as 1000 and 1000 in the code) | violation | `OwnCartIntactAtOrder` fails: VU 1's second iteration draws VU 2's id. VU 2's order takes the cart that VU 1 just filled, so VU 1's order fails on an empty cart. In the real run, any draw above 1000 − 10·`__ITER` does this. |
| `mixed_cutoff` (1 VU, 1 iteration) | violation | `TotalRequestsMatchOutcomes` fails: the duration elapses while the iteration waits, and gracefulStop cuts it off. Its `total_requests` sample was already added, so the result file's total exceeds the outcomes recorded (spec 8). |
| `stress_ramp` (2 VUs, targets 1, 2, 2, 0, 2 iterations per VU, stride 2, ≤ 1 timeout) | pass | `StressAccounting`: the sum of every VU's `__ITER` = `throughput` + running + cut-off iterations; `response_time` and `error_rate` have one sample per throughput, and errors are among them. `OwnCartIntactAtOrder`: a VU about to order, whose own charge and cart unit reached the target, finds its cart filled and its points charged. `RunCompletes`: every VU retires after the cooldown and the report is written. |
| `stress_rampdown_boundary` (1 VU, targets 1, 0) | violation | `NoVUsAboveTargetAtBoundary` fails: the VU is in its iteration when the cooldown stage ends. Under the default gracefulRampDown it keeps running, so more VUs are live than the stage's target at its boundary, whereas spec 4.5 says the profile matches the stage list exactly. |

**Bounds.** The coupon-rush bounds make every case reachable:
- issue, sold out, timeout before and after handling;
- a late reply while the VU waits on its next iteration;
- maxDuration with waiting VUs, and gracefulStop interruptions.

Two more VUs or iterations add only longer interleavings of the same cases.
In the order run:
- two VUs share an option, so they compete for its stock, and five orders
  against four units make some orders sell out;
- one timeout reaches each request kind with its change applied or lost.
The shared-user run shrinks the table below the VU count, as `VUS > 200` does
in the real run.
In the mixed run, each VU runs two iterations and every workload can be drawn.
The order path's charge, cart and order requests interleave with the other VU.
One timeout reaches each request with its change applied or lost. The user
draw spans the VU stride (`UserCount = VUStride`), the code's proportion, so
the VUs' id ranges overlap as in the real run; the main run makes no claim
that they stay apart, and `mixed_shared_user` shows that they do not.
In the stress run, two VUs with two iterations each go through a ramp-up, a
hold and the cooldown, so VUs are activated, retire when idle, and get cut
off in an iteration; every branch can be drawn. A larger stress instance
(3 VUs, targets 2, 3, 1, 0) passed 1.4M distinct states in 10 minutes
without finishing, so it is not a run.

Each property of a passing run has a mutant in `PROJECT.json`: a plausible bug
in the mapped code that TLC must catch.

## 4. Plan

Ordered by importance. Items 1–7 are done; item 8 was dropped.

1. `Classify`, `CouponIssueTest` and `ClassifyCheck`: the coupon rush, which is
   the harness's main correctness check. Done.
2. `WorkloadSelect`: the weighted choice algorithm, used by the mixed and
   stress models. Done; its shares are not checked on their own (see 5).
3. The findings above. Done.
4. `ConcurrentOrderTest` (scenario 1):
   - shared-iterations with the 200-entry user table, where VUs k and k+200
     share a user;
   - charge, cart and order against a stock-limited target that keeps per-user
     carts and points;
   - partial failure of charge or cart;
   - `handleSummary`.
   Properties: success + fail = orders placed; successes ≤ stock (no oversell
   is visible to the harness); distinct users per concurrent iteration. The
   last is a violation run with VUS > 200. Done: no oversell is expressed as
   successes = units sold, and failures mean sold out.
5. `MixedWorkloadTest` (scenario 3): a constant-vus executor with a duration
   deadline. It INSTANCEs `WorkloadSelect` for the choice. It models
   `createOrder`'s three requests and the api, read and write rates.
   Properties: rate consistency; colliding user ids. Done: the collision
   is a violation run of `OwnCartIntactAtOrder`, and the cut-off iteration
   is a violation run of `TotalRequestsMatchOutcomes`.
6. `StressTest` (scenario 4): ramping stages as a sequence of (target) steps,
   VUs added and retired, interrupted iterations, `error_rate` and
   `throughput`. Properties: throughput = error_rate samples; the live VU count
   matches the stage target at stage boundaries (spec 4.5). Done: the boundary property is a violation run
   (`stress_rampdown_boundary`).
7. `Thresholds` (from the spec): the coupon rush's rate rule, with the
   zero-observation asymmetry, evaluated on its final metrics
   (`coupon_threshold_verdict`). Done. The zero-observation rule gives the
   same verdict as reading an empty Rate as 0 for this table, so no property
   depends on it.
8. Refinement onto abstract executor specs. Dropped: the executors are k6's,
   and a refinement mapping would only restate the guards each scenario model
   already takes from spec 4.5.

## 5. Not modelled

- URL and JSON construction, headers, console logging and `JSON.stringify`
  output are formatting. The counts they print are modelled in
  `handleSummary`.
- `checkResponse` in `config.js` is never called.
- Latency values are abstracted to a sample count in the scenario models.
  So the Trend (`p(95)`, `p(99)`) rules are not evaluated on a scenario's
  metrics, and k6's percentile is not modelled: no code of this repository
  computes one.
- The other scenarios' rate thresholds (`api_success_rate > 0.95`,
  `order_success_rate > 0.8`, `error_rate < 0.3`) depend on backend data
  (stock, coupon quantities, seeded users) that the repository does not fix.
- The shares of `selectWorkload` and the stress ladder are not checked on
  their own: for a floating-point `Math.random()` against integer bounds they
  are the differences of the literal bounds, and a `<` / `<=` slip changes
  them only on a set of measure zero.
- The threshold tables in `config.js` (`DEFAULT_`, `ORDER_`,
  `COUPON_THRESHOLDS`) are never imported by a scenario.
- The stress scenario's `current_vus` Gauge (`currentVUs.add(__VU)`) and the
  per-API trends are read by no threshold or summary count.
- The backend's internals are out of scope (spec non-goal). Only the contract
  its responses follow is modelled.
