-------------------------- MODULE MixedWorkloadTest --------------------------
(***************************************************************************)
(* Scenario 3, the mixed workload test (src/k6/scenarios/                 *)
(* 03-mixed-workload-test.js), composed with the k6 constant-vus executor *)
(* and the endpoints it drives.                                            *)
(*                                                                         *)
(* Each VU loops until the run's duration elapses: it draws a user id and  *)
(* a workload (selectWorkload, taken from WorkloadSelect), counts the      *)
(* request, runs the workload's request or, for orderCreate, the charge,   *)
(* cart and order requests, and records the terminal response in the      *)
(* per-API trend and in the api and read or write success rates.  The     *)
(* target handles each request atomically; a request that times out       *)
(* (status 0) may or may not have been applied.  Reads and coupon issues   *)
(* do not change state a property looks at, so their status is any of a    *)
(* small set.  Per user the target keeps whether the balance is charged  *)
(* and whether the cart holds units: an order takes the whole cart and    *)
(* the scenario sets no stock, so the number of units never matters.     *)
(***************************************************************************)
EXTENDS Integers, Sequences, FiniteSets

CONSTANTS
    VUs,           \* number of VUs; __VU ranges over 1..VUs
    MaxIter,       \* bound on each VU's iterations (__ITER < MaxIter)
    UserCount,     \* TEST_USER_COUNT: getRandomUserId() is in 1..UserCount
    VUStride,      \* the literal 1000 multiplying __VU in the user id
    IterStride,    \* the literal 10 multiplying __ITER in the user id
    MaxTimeouts,   \* bound on requests that end in a k6 timeout (status 0)
    Weights,       \* WORKLOAD_WEIGHTS as a sequence of <<name, weight>>
    ReadStatuses,  \* statuses a product read can return
    CouponStatuses \* statuses a coupon issue can return

ASSUME VUs \in Nat \ {0} /\ MaxIter \in Nat /\ UserCount \in Nat \ {0}
ASSUME VUStride \in Nat /\ IterStride \in Nat /\ MaxTimeouts \in Nat

VARIABLES
    phase,         \* "running", "graceful" (duration elapsed), "stopped"
    vu,            \* per VU: pc, __ITER, user, workload, lost
    charged,       \* users whose point balance covers an order
    cart,          \* users whose cart holds at least one unit
    timeouts,      \* requests that ended in a transport error so far
    interrupted,   \* iterations cut off by gracefulStop
    m,             \* the scenario's metrics
    report         \* handleSummary's result, or NoReport

vars == <<phase, vu, charged, cart, timeouts, interrupted, m, report>>

\* selectWorkload over the scenario's weights; a draw d is rand = d.
Sel == INSTANCE WorkloadSelect
           WITH WORKLOAD_WEIGHTS <- Weights, Fallback <- "productList",
                Res <- 1

VU        == 1 .. VUs
UserIds   == 1 .. (UserCount + VUs * VUStride + (MaxIter - 1) * IterStride)
Workloads == {Weights[i][1] : i \in 1 .. Len(Weights)}
NoReport  == [total |-> -1]

\* Variant: Math.round in place of Math.floor, giving 1..UserCount + 1.
RandomUserIds_Round == 1 .. (UserCount + 1)

\* getRandomUserId(): Math.floor(Math.random() * TEST_USER_COUNT) + 1.
RandomUserIds == 1 .. UserCount

\* Variant: the user id without the __VU term.
UserIdOf_NoVUStride(r, v, i) == r + i * IterStride

\* getRandomUserId() + (__VU * 1000) + (__ITER * 10).
UserIdOf(r, v, i) == r + v * VUStride + i * IterStride

\* The workloads whose case sets isReadOperation = false.
IsWrite(w) == w \in {"cartAdd", "orderCreate", "couponIssue"}

Busy == {v \in VU : vu[v].pc \in {"charge", "cart", "request"}}

MetricsInit ==
    [total |-> 0, apiTrue |-> 0, apiTotal |-> 0, readTrue |-> 0,
     readTotal |-> 0, writeTrue |-> 0, writeTotal |-> 0, durations |-> 0]

\* Every variable has its type.
TypeOK ==
    /\ phase \in {"running", "graceful", "stopped"}
    /\ vu \in [VU -> [pc : {"idle", "charge", "cart", "request", "done"},
                      iter : Nat, user : UserIds \cup {0}, workload : Workloads \cup {"none"},
                      lost : BOOLEAN]]
    /\ charged \subseteq UserIds
    /\ cart \subseteq UserIds
    /\ timeouts \in 0 .. MaxTimeouts
    /\ interrupted \in Nat
    /\ m \in [DOMAIN MetricsInit -> Nat]
    /\ report = NoReport \/ report.total \in Nat

Init ==
    /\ phase = "running"
    /\ vu = [v \in VU |-> [pc |-> "idle", iter |-> 0, user |-> 0,
                           workload |-> "none", lost |-> FALSE]]
    /\ charged = {}
    /\ cart = {}
    /\ timeouts = 0
    /\ interrupted = 0
    /\ m = MetricsInit
    /\ report = NoReport

\* A request answered by the target, or one that ends in a k6 timeout.
Answered == UNCHANGED timeouts
TimedOut == timeouts < MaxTimeouts /\ timeouts' = timeouts + 1

(***************************************************************************)
(* The default function up to the first request: the user id, the         *)
(* workload, requestCounter.add(1), the switch's case (orderCreate starts *)
(* with the point charge) and the request's dispatch.                     *)
(***************************************************************************)
StartIteration(v) ==
    /\ phase = "running"
    /\ vu[v].pc = "idle"
    /\ vu[v].iter < MaxIter
    /\ \E r \in RandomUserIds, d \in Sel!Draws :
         LET w == Sel!selectWorkload(d)
         IN vu' = [vu EXCEPT ![v].pc = IF w = "orderCreate" THEN "charge"
                                                             ELSE "request",
                             ![v].user = UserIdOf(r, v, vu[v].iter),
                             ![v].workload = w, ![v].lost = FALSE]
    /\ m' = [m EXCEPT !.total = @ + 1]
    /\ UNCHANGED <<phase, charged, cart, timeouts, interrupted, report>>

(***************************************************************************)
(* createOrder's first two requests, whose responses are discarded: the  *)
(* point charge of 500000 and one unit added to the cart.  lost records   *)
(* that this iteration's own charge or cart unit never reached the target. *)
(***************************************************************************)
ChargeStep(v) ==
    /\ vu[v].pc = "charge"
    /\ \/ /\ Answered
          /\ charged' = charged \cup {vu[v].user}
          /\ vu' = [vu EXCEPT ![v].pc = "cart"]
       \/ /\ TimedOut
          /\ \E applied \in BOOLEAN :
               /\ charged' = IF applied THEN charged \cup {vu[v].user}
                             ELSE charged
               /\ vu' = [vu EXCEPT ![v].pc = "cart", ![v].lost = ~applied]
    /\ UNCHANGED <<phase, cart, interrupted, m, report>>

CartStep(v) ==
    /\ vu[v].pc = "cart"
    /\ \/ /\ Answered
          /\ cart' = cart \cup {vu[v].user}
          /\ vu' = [vu EXCEPT ![v].pc = "request"]
       \/ /\ TimedOut
          /\ \E applied \in BOOLEAN :
               /\ cart' = IF applied THEN cart \cup {vu[v].user}
                          ELSE cart
               /\ vu' = [vu EXCEPT ![v].pc = "request",
                                   ![v].lost = vu[v].lost \/ ~applied]
    /\ UNCHANGED <<phase, charged, interrupted, m, report>>

(***************************************************************************)
(* The terminal response: the workload's trend sample, the api success    *)
(* rate and the read or write rate (success is status 200), then the      *)
(* pacing sleep and the next iteration.  The checks and http_req_failed   *)
(* are left out: no property here reads them.                             *)
(***************************************************************************)
IsRead(w) == ~IsWrite(w)

\* Variant: writeSuccessRate.add left out of the else branch.
RecordOutcome_ReadOnly(v, st) ==
    LET ok   == IF st = 200 THEN 1 ELSE 0
        read == IsRead(vu[v].workload)
    IN /\ m' = [m EXCEPT
                    !.durations   = @ + 1,
                    !.apiTrue     = @ + ok,
                    !.apiTotal    = @ + 1,
                    !.readTrue    = @ + (IF read THEN ok ELSE 0),
                    !.readTotal   = @ + (IF read THEN 1 ELSE 0),
                    !.writeTrue   = @,
                    !.writeTotal  = @]
       /\ vu' = [vu EXCEPT ![v].pc = "idle", ![v].iter = @ + 1]

RecordOutcome(v, st) ==
    LET ok   == IF st = 200 THEN 1 ELSE 0
        read == IsRead(vu[v].workload)
    IN /\ m' = [m EXCEPT
                    !.durations   = @ + 1,
                    !.apiTrue     = @ + ok,
                    !.apiTotal    = @ + 1,
                    !.readTrue    = @ + (IF read THEN ok ELSE 0),
                    !.readTotal   = @ + (IF read THEN 1 ELSE 0),
                    !.writeTrue   = @ + (IF read THEN 0 ELSE ok),
                    !.writeTotal  = @ + (IF read THEN 0 ELSE 1)]
       /\ vu' = [vu EXCEPT ![v].pc = "idle", ![v].iter = @ + 1]

\* getProductList, getProductDetail, getPopularProducts.
RespondRead(v) ==
    /\ vu[v].pc = "request"
    /\ vu[v].workload \in Sel!ReadWorkloads
    /\ \/ Answered /\ \E st \in ReadStatuses : RecordOutcome(v, st)
       \/ TimedOut /\ RecordOutcome(v, 0)
    /\ UNCHANGED <<phase, charged, cart, interrupted, report>>

\* addToCart(userId): getRandomQuantity() (1..3) units of a random option.
RespondCartAdd(v) ==
    /\ vu[v].pc = "request"
    /\ vu[v].workload = "cartAdd"
    /\ \/ /\ Answered
          /\ cart' = cart \cup {vu[v].user}
          /\ RecordOutcome(v, 200)
       \/ /\ TimedOut
          /\ cart' \in {cart, cart \cup {vu[v].user}}
          /\ RecordOutcome(v, 0)
    /\ UNCHANGED <<phase, charged, interrupted, report>>

\* The order handler (from the spec): it takes the whole cart, and fails
\* on an empty cart or an uncharged balance.
OrderOk(u) == u \in cart /\ u \in charged

ApplyOrder(u) ==
    cart' = IF OrderOk(u) THEN cart \ {u} ELSE cart

\* createOrder's order request, the only response the iteration records.
RespondOrder(v) ==
    /\ vu[v].pc = "request"
    /\ vu[v].workload = "orderCreate"
    /\ \/ /\ Answered
          /\ ApplyOrder(vu[v].user)
          /\ RecordOutcome(v, IF OrderOk(vu[v].user) THEN 200 ELSE 400)
       \/ /\ TimedOut
          /\ ApplyOrder(vu[v].user) \/ UNCHANGED cart
          /\ RecordOutcome(v, 0)
    /\ UNCHANGED <<phase, charged, interrupted, report>>

\* issueCoupon(userId) for a random coupon 1..5.
RespondCoupon(v) ==
    /\ vu[v].pc = "request"
    /\ vu[v].workload = "couponIssue"
    /\ \/ Answered /\ \E st \in CouponStatuses : RecordOutcome(v, st)
       \/ TimedOut /\ RecordOutcome(v, 0)
    /\ UNCHANGED <<phase, charged, cart, interrupted, report>>

(***************************************************************************)
(* The constant-vus executor: a VU leaves its loop once the duration has  *)
(* elapsed; the iterations still running when gracefulStop (30 s by       *)
(* default) elapses after it are interrupted and record nothing.          *)
(***************************************************************************)
\* Variant: a VU leaves its loop only once gracefulStop has elapsed.
Finish_AfterStop(v) ==
    /\ vu[v].pc = "idle"
    /\ phase = "stopped"
    /\ vu' = [vu EXCEPT ![v].pc = "done"]
    /\ UNCHANGED <<phase, charged, cart, timeouts, interrupted, m, report>>

Finish(v) ==
    /\ vu[v].pc = "idle"
    /\ phase # "running"
    /\ vu' = [vu EXCEPT ![v].pc = "done"]
    /\ UNCHANGED <<phase, charged, cart, timeouts, interrupted, m, report>>

\* duration ('10m') elapses: no new iteration starts.
DurationElapsed ==
    /\ phase = "running"
    /\ phase' = "graceful"
    /\ UNCHANGED <<vu, charged, cart, timeouts, interrupted, m, report>>

GracefulStopElapsed ==
    /\ phase = "graceful"
    /\ Busy # {}
    /\ phase' = "stopped"
    /\ interrupted' = interrupted + Cardinality(Busy)
    /\ vu' = [v \in VU |-> IF v \in Busy
                           THEN [vu[v] EXCEPT !.pc = "done"] ELSE vu[v]]
    /\ UNCHANGED <<charged, cart, timeouts, m, report>>

(***************************************************************************)
(* handleSummary: it prints the three success rates and writes the whole  *)
(* metrics object, total_requests included, to the result file.           *)
(***************************************************************************)
handleSummary ==
    [total |-> m.total,
     api   |-> <<m.apiTrue, m.apiTotal>>,
     read  |-> <<m.readTrue, m.readTotal>>,
     write |-> <<m.writeTrue, m.writeTotal>>]

Summarize ==
    /\ \A v \in VU : vu[v].pc = "done"
    /\ report = NoReport
    /\ report' = handleSummary
    /\ UNCHANGED <<phase, vu, charged, cart, timeouts, interrupted, m>>

Next ==
    \/ \E v \in VU : \/ StartIteration(v) \/ ChargeStep(v) \/ CartStep(v)
                     \/ RespondRead(v) \/ RespondCartAdd(v)
                     \/ RespondOrder(v) \/ RespondCoupon(v) \/ Finish(v)
    \/ DurationElapsed
    \/ GracefulStopElapsed
    \/ Summarize

\* Every VU runs as its own goroutine and the target answers, so VU steps
\* are weakly fair; the run's duration always elapses (constant-vus has no
\* other end), and the gracefulStop timer and handleSummary always run.
\* Timeouts are not fair.
Fairness ==
    /\ \A v \in VU :
         /\ WF_vars(StartIteration(v)) /\ WF_vars(ChargeStep(v))
         /\ WF_vars(CartStep(v)) /\ WF_vars(RespondRead(v))
         /\ WF_vars(RespondCartAdd(v)) /\ WF_vars(RespondOrder(v))
         /\ WF_vars(RespondCoupon(v)) /\ WF_vars(Finish(v))
    /\ WF_vars(DurationElapsed)
    /\ WF_vars(GracefulStopElapsed)
    /\ WF_vars(Summarize)

Spec == Init /\ [][Next]_vars /\ Fairness

-----------------------------------------------------------------------------
(***************************************************************************)
(* Properties                                                              *)
(***************************************************************************)

\* total_requests counts every iteration once, when it starts: each is
\* either recorded in api_success_rate, still running, or cut off by
\* gracefulStop.  Every recorded outcome has one trend sample and one
\* sample in exactly one of read_success_rate and write_success_rate,
\* with the successes split the same way.
RateConsistency ==
    /\ m.total = m.apiTotal + Cardinality(Busy) + interrupted
    /\ m.durations = m.apiTotal
    /\ m.apiTotal = m.readTotal + m.writeTotal
    /\ m.apiTrue = m.readTrue + m.writeTrue
    /\ m.readTrue <= m.readTotal /\ m.writeTrue <= m.writeTotal

\* A VU about to send createOrder's order request, whose own charge and
\* cart unit reached the target, finds that user's cart non-empty and
\* balance charged: no other VU has ordered or otherwise used the same
\* user in between (the spec: units never share mutable per-user state).
OwnCartIntactAtOrder ==
    \A v \in VU :
        (vu[v].pc = "request" /\ vu[v].workload = "orderCreate"
           /\ ~vu[v].lost)
            => OrderOk(vu[v].user)

\* The result file's total_requests equals the number of outcomes in
\* api_success_rate: every invocation issued is recorded (spec section 8,
\* "for all runs").
TotalRequestsMatchOutcomes ==
    report # NoReport => report.total = report.api[2]

\* The run always ends with a report.
RunCompletes == <>(report # NoReport)

=============================================================================
