------------------------------ MODULE StressTest ------------------------------
(***************************************************************************)
(* Scenario 4, the stress test (src/k6/scenarios/04-stress-test.js),      *)
(* composed with k6's ramping-vus executor (the options' stages) and the  *)
(* endpoints it drives.                                                    *)
(*                                                                         *)
(* A stage is abstracted to its target VU count; the live VUs move toward *)
(* it one VU at a time.  When the target drops, idle VUs above it retire  *)
(* at once and busy ones finish their iteration and retire, unless the    *)
(* gracefulRampDown timer (gracefulStop after the last stage) cuts them   *)
(* off first.  An iteration draws rand, takes the branch of the ladder    *)
(* (StressWorkload, from WorkloadSelect), makes its request or, for an    *)
(* order, the charge, cart and order requests, and records throughput,    *)
(* response_time and error_rate.  The target keeps, per user, whether the *)
(* balance is charged and whether the cart holds units; reads answer with *)
(* any status of a small set.                                              *)
(***************************************************************************)
EXTENDS Integers, Sequences, FiniteSets, FiniteSetsExt

CONSTANTS
    MaxVUs,       \* VUs k6 initialises: the largest stage target
    Targets,      \* the stages' target VU counts, in order
    MaxIter,      \* bound on each VU's iterations (__ITER < MaxIter)
    IdStride,     \* the literal 10000 multiplying __VU in the user id
    MaxTimeouts,  \* bound on requests that end in a k6 timeout (status 0)
    Statuses      \* statuses a product read can return

ASSUME MaxVUs \in Nat \ {0} /\ MaxIter \in Nat /\ IdStride \in Nat
ASSUME Targets \in Seq(0 .. MaxVUs) /\ MaxTimeouts \in Nat

VARIABLES
    stage,        \* the current stage; Len(Targets) + 1 once all have run
    vu,           \* per VU: pc, __ITER, user, branch, lost
    charged,      \* users whose point balance covers an order
    cart,         \* users whose cart holds at least one unit
    timeouts,     \* requests that ended in a transport error so far
    interrupted,  \* iterations cut off by gracefulRampDown or gracefulStop
    m,            \* the scenario's metrics
    report        \* handleSummary's metrics snapshot, or NoReport

vars == <<stage, vu, charged, cart, timeouts, interrupted, m, report>>

\* The branch ladder on rand; the selector's other constants are unused.
Sel == INSTANCE WorkloadSelect
           WITH WORKLOAD_WEIGHTS <- << >>, Fallback <- "productList",
                Res <- 1

VU       == 1 .. MaxVUs
UserIds  == 1 .. (MaxVUs * IdStride + MaxIter)
Branches == {"productList", "productDetail", "cartAdd", "orderCreate"}
NoReport == [throughput |-> -1]

\* The target VU count: the current stage's, and 0 after the last.
Target == IF stage <= Len(Targets) THEN Targets[stage] ELSE 0

Live == {v \in VU : vu[v].pc # "off"}
Busy == {v \in VU : vu[v].pc \in {"charge", "cart", "request"}}
Idle == {v \in VU : vu[v].pc = "idle"}

\* Variant: the user id without the __VU term.
UserIdOf_NoVUStride(v, i) == i + 1

\* __VU * 10000 + __ITER.
UserIdOf(v, i) == v * IdStride + i

MetricsInit ==
    [throughput |-> 0, rtSamples |-> 0, errTrue |-> 0, errTotal |-> 0]

\* Every variable has its type.
TypeOK ==
    /\ stage \in 1 .. Len(Targets) + 1
    /\ vu \in [VU -> [pc : {"off", "idle", "charge", "cart", "request"},
                      iter : Nat, user : UserIds \cup {0},
                      branch : Branches \cup {"none"}, lost : BOOLEAN]]
    /\ charged \subseteq UserIds
    /\ cart \subseteq UserIds
    /\ timeouts \in 0 .. MaxTimeouts
    /\ interrupted \in Nat
    /\ m \in [DOMAIN MetricsInit -> Nat]
    /\ report = NoReport \/ report \in [DOMAIN MetricsInit -> Nat]

Init ==
    /\ stage = 1
    /\ vu = [v \in VU |-> [pc |-> "off", iter |-> 0, user |-> 0,
                           branch |-> "none", lost |-> FALSE]]
    /\ charged = {}
    /\ cart = {}
    /\ timeouts = 0
    /\ interrupted = 0
    /\ m = MetricsInit
    /\ report = NoReport

\* A request answered by the target, or one that ends in a k6 timeout.
Answered == UNCHANGED timeouts
TimedOut == timeouts < MaxTimeouts /\ timeouts' = timeouts + 1

(***************************************************************************)
(* The ramping-vus executor.                                              *)
(***************************************************************************)
\* A VU is started while the live count is below the stage's target.
Activate(v) ==
    /\ stage <= Len(Targets)
    /\ vu[v].pc = "off"
    /\ Cardinality(Live) < Target
    /\ vu' = [vu EXCEPT ![v].pc = "idle"]
    /\ UNCHANGED <<stage, charged, cart, timeouts, interrupted, m, report>>

\* Variant: the stage list advanced past its last stage.
EndStage_NoLastCheck ==
    /\ stage' = stage + 1
    /\ LET next   == IF stage + 1 <= Len(Targets) THEN Targets[stage + 1]
                     ELSE 0
           excess == Cardinality(Live) - next
       IN \E S \in SUBSET Idle :
            /\ Cardinality(S) = Min({Cardinality(Idle), Max({excess, 0})})
            /\ vu' = [v \in VU |-> IF v \in S THEN [vu[v] EXCEPT !.pc = "off"]
                                   ELSE vu[v]]
    /\ UNCHANGED <<charged, cart, timeouts, interrupted, m, report>>

\* The stage's duration elapses; idle VUs above the next target retire.
EndStage ==
    /\ stage <= Len(Targets)
    /\ stage' = stage + 1
    /\ LET next   == IF stage + 1 <= Len(Targets) THEN Targets[stage + 1]
                     ELSE 0
           excess == Cardinality(Live) - next
       IN \E S \in SUBSET Idle :
            /\ Cardinality(S) = Min({Cardinality(Idle), Max({excess, 0})})
            /\ vu' = [v \in VU |-> IF v \in S THEN [vu[v] EXCEPT !.pc = "off"]
                                   ELSE vu[v]]
    /\ UNCHANGED <<charged, cart, timeouts, interrupted, m, report>>

\* gracefulRampDown (or gracefulStop after the last stage) elapses for a
\* VU above the target still in its iteration: it is cut off.
RampDownElapsed(v) ==
    /\ Cardinality(Live) > Target
    /\ v \in Busy
    /\ vu' = [vu EXCEPT ![v].pc = "off"]
    /\ interrupted' = interrupted + 1
    /\ UNCHANGED <<stage, charged, cart, timeouts, m, report>>
(***************************************************************************)
(* The default function up to its first request: current_vus.add(__VU)   *)
(* (a gauge no property reads), the user id, the draw and the branch.     *)
(* A VU above the target starts no iteration.                             *)
(***************************************************************************)
StartIteration(v) ==
    /\ stage <= Len(Targets)
    /\ vu[v].pc = "idle"
    /\ Cardinality(Live) <= Target
    /\ vu[v].iter < MaxIter
    /\ \E d \in Sel!Draws :
         LET b == Sel!StressWorkload(d)
         IN vu' = [vu EXCEPT ![v].pc = IF b = "orderCreate" THEN "charge"
                                                             ELSE "request",
                             ![v].user = UserIdOf(v, vu[v].iter),
                             ![v].iter = @ + 1,
                             ![v].branch = b, ![v].lost = FALSE]
    /\ UNCHANGED <<stage, charged, cart, timeouts, interrupted, m, report>>

(***************************************************************************)
(* callOrderCreate's preparation: the point charge and one cart unit,     *)
(* whose responses are discarded.  lost records that this iteration's own *)
(* charge or cart unit never reached the target.                          *)
(***************************************************************************)
ChargeStep(v) ==
    /\ vu[v].pc = "charge"
    /\ \/ /\ Answered
          /\ charged' = charged \cup {vu[v].user}
          /\ vu' = [vu EXCEPT ![v].pc = "cart"]
       \/ /\ TimedOut
          /\ \E applied \in BOOLEAN :
               /\ charged' = IF applied THEN charged \cup {vu[v].user}
                             ELSE charged
               /\ vu' = [vu EXCEPT ![v].pc = "cart", ![v].lost = ~applied]
    /\ UNCHANGED <<stage, cart, interrupted, m, report>>

CartStep(v) ==
    /\ vu[v].pc = "cart"
    /\ \/ /\ Answered
          /\ cart' = cart \cup {vu[v].user}
          /\ vu' = [vu EXCEPT ![v].pc = "request"]
       \/ /\ TimedOut
          /\ \E applied \in BOOLEAN :
               /\ cart' = IF applied THEN cart \cup {vu[v].user} ELSE cart
               /\ vu' = [vu EXCEPT ![v].pc = "request",
                                   ![v].lost = vu[v].lost \/ ~applied]
    /\ UNCHANGED <<stage, charged, interrupted, m, report>>

(***************************************************************************)
(* The terminal response: throughput.add(1), the response_time sample    *)
(* and the error_rate sample (status >= 400 or 0), then the sleep; a VU   *)
(* now above the target retires instead of starting another iteration.   *)
(* The per-API trends and the checks are left out: no property reads them.*)
(***************************************************************************)
IsError(st) == st >= 400 \/ st = 0

\* Variant: throughput added only for responses that are not errors.
RecordOutcome_SuccessThroughput(v, st) ==
    /\ m' = [m EXCEPT !.throughput = @ + (IF IsError(st) THEN 0 ELSE 1),
                      !.rtSamples = @ + 1, !.errTotal = @ + 1,
                      !.errTrue = @ + (IF IsError(st) THEN 1 ELSE 0)]
    /\ vu' = [vu EXCEPT ![v].pc = IF Cardinality(Live) > Target THEN "off"
                                  ELSE "idle"]

\* Variant: the VU goes back to its loop even when above the target.
RecordOutcome_NoRetire(v, st) ==
    /\ m' = [m EXCEPT !.throughput = @ + 1, !.rtSamples = @ + 1,
                      !.errTotal = @ + 1,
                      !.errTrue = @ + (IF IsError(st) THEN 1 ELSE 0)]
    /\ vu' = [vu EXCEPT ![v].pc = "idle"]

RecordOutcome(v, st) ==
    /\ m' = [m EXCEPT !.throughput = @ + 1, !.rtSamples = @ + 1,
                      !.errTotal = @ + 1,
                      !.errTrue = @ + (IF IsError(st) THEN 1 ELSE 0)]
    /\ vu' = [vu EXCEPT ![v].pc = IF Cardinality(Live) > Target THEN "off"
                                  ELSE "idle"]

\* The target's order handler (from the spec): it takes the whole cart,
\* and fails on an empty cart or an uncharged balance.
OrderOk(u) == u \in cart /\ u \in charged

ApplyOrder(u) == cart' = IF OrderOk(u) THEN cart \ {u} ELSE cart

\* callProductList and callProductDetail.
RespondRead(v) ==
    /\ vu[v].pc = "request"
    /\ vu[v].branch \in {"productList", "productDetail"}
    /\ \/ Answered /\ \E st \in Statuses : RecordOutcome(v, st)
       \/ TimedOut /\ RecordOutcome(v, 0)
    /\ UNCHANGED <<stage, charged, cart, interrupted, report>>

\* callCartAdd(userId): one unit of a random option.
RespondCartAdd(v) ==
    /\ vu[v].pc = "request"
    /\ vu[v].branch = "cartAdd"
    /\ \/ Answered /\ cart' = cart \cup {vu[v].user} /\ RecordOutcome(v, 200)
       \/ /\ TimedOut
          /\ cart' \in {cart, cart \cup {vu[v].user}}
          /\ RecordOutcome(v, 0)
    /\ UNCHANGED <<stage, charged, interrupted, report>>

\* callOrderCreate's order request.
RespondOrder(v) ==
    /\ vu[v].pc = "request"
    /\ vu[v].branch = "orderCreate"
    /\ \/ /\ Answered
          /\ ApplyOrder(vu[v].user)
          /\ RecordOutcome(v, IF OrderOk(vu[v].user) THEN 200 ELSE 400)
       \/ /\ TimedOut
          /\ ApplyOrder(vu[v].user) \/ UNCHANGED cart
          /\ RecordOutcome(v, 0)
    /\ UNCHANGED <<stage, charged, interrupted, report>>

\* handleSummary: it prints and writes the final metrics.
handleSummary == m

Summarize ==
    /\ stage = Len(Targets) + 1
    /\ Live = {}
    /\ report = NoReport
    /\ report' = handleSummary
    /\ UNCHANGED <<stage, vu, charged, cart, timeouts, interrupted, m>>

Next ==
    \/ \E v \in VU : \/ Activate(v) \/ StartIteration(v) \/ ChargeStep(v)
                     \/ CartStep(v) \/ RespondRead(v) \/ RespondCartAdd(v)
                     \/ RespondOrder(v) \/ RampDownElapsed(v)
    \/ EndStage
    \/ Summarize

\* VUs run as their own goroutines and the target answers, so VU steps are
\* weakly fair; stage durations and the ramp-down timers always elapse,
\* and handleSummary always runs.  Timeouts are not fair.
Fairness ==
    /\ \A v \in VU :
         /\ WF_vars(Activate(v)) /\ WF_vars(StartIteration(v))
         /\ WF_vars(ChargeStep(v)) /\ WF_vars(CartStep(v))
         /\ WF_vars(RespondRead(v)) /\ WF_vars(RespondCartAdd(v))
         /\ WF_vars(RespondOrder(v)) /\ WF_vars(RampDownElapsed(v))
    /\ WF_vars(EndStage)
    /\ WF_vars(Summarize)

Spec == Init /\ [][Next]_vars /\ Fairness

-----------------------------------------------------------------------------
(***************************************************************************)
(* Properties                                                              *)
(***************************************************************************)

\* Across VUs started, retired and restarted by the stages, every iteration
\* begun (the sum of the VUs' __ITER counts) is counted once in throughput
\* with one response_time and one error_rate sample, is still running, or
\* was cut off by a ramp-down; and error_rate's errors are among them.
StressAccounting ==
    /\ MapThenSumSet(LAMBDA v : vu[v].iter, VU)
         = m.throughput + Cardinality(Busy) + interrupted
    /\ m.rtSamples = m.throughput /\ m.errTotal = m.throughput
    /\ m.errTrue <= m.errTotal

\* A VU about to send the order request, whose own charge and cart unit
\* reached the target, finds that user's cart filled and balance charged:
\* __VU * 10000 + __ITER keeps VUs' users apart while no VU runs 10000
\* iterations.
OwnCartIntactAtOrder ==
    \A v \in VU :
        (vu[v].pc = "request" /\ vu[v].branch = "orderCreate" /\ ~vu[v].lost)
            => OrderOk(vu[v].user)

\* The run always ends with a report.
RunCompletes == <>(report # NoReport)

\* When a stage ends, no more VUs are live than its target (spec 4.5: the
\* concurrency profile matches the stage list exactly at stage boundaries).
NoVUsAboveTargetAtBoundary ==
    [][stage' # stage => Cardinality(Live) <= Target]_vars

=============================================================================
