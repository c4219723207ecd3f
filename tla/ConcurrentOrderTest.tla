------------------------- MODULE ConcurrentOrderTest -------------------------
(***************************************************************************)
(* Scenario 1, the concurrent order test (src/k6/scenarios/               *)
(* 01-concurrent-order-test.js), composed with the k6 shared-iterations    *)
(* executor and the point, cart and order endpoints it drives.            *)
(*                                                                         *)
(* An iteration takes its user from the SharedArray of TableSize users    *)
(* (user i orders product option ((i-1) % 10) + 1), offsets the id by     *)
(* __ITER * 200, charges points, adds one unit to the cart, sleeps and    *)
(* creates the order; only the order's status is counted.  The target     *)
(* handles each request atomically; a request that times out may or may   *)
(* not have been applied.                                                  *)
(***************************************************************************)
EXTENDS Integers, FiniteSets, FiniteSetsExt, Classify

CONSTANTS
    VUs,          \* number of VUs; __VU ranges over 1..VUs
    Iterations,   \* the executor's shared iteration count
    TableSize,    \* length of the users SharedArray (200 in code)
    NumOptions,   \* product options cycled through by the table (10)
    InitStock,    \* stock of each option at the target before the run
    MaxTimeouts   \* bound on requests that end in a k6 timeout (status 0)

ASSUME VUs \in Nat \ {0} /\ Iterations \in Nat /\ TableSize \in Nat \ {0}
ASSUME NumOptions \in Nat \ {0} /\ InitStock \in Nat /\ MaxTimeouts \in Nat

VU      == 1 .. VUs
Options == 1 .. NumOptions
UserIds == 1 .. TableSize * (Iterations + 1)

VARIABLES
    started,      \* iterations taken from the shared counter
    phase,        \* "running", "graceful" (after maxDuration), "stopped"
    vu,           \* per VU: pc, __ITER, the iteration's user and option
    charged,      \* users whose point balance covers an order
    cart,         \* per user: units in the cart per option
    stock,        \* per option: units left at the target
    timeouts,     \* requests that ended in a transport error so far
    interrupted,  \* iterations cut off by gracefulStop
    m,            \* the scenario's custom and built-in metrics
    report        \* handleSummary's result, or NoReport

vars == <<started, phase, vu, charged, cart, stock, timeouts, interrupted,
          m, report>>

NoReport == [totalOrders |-> -1]

(***************************************************************************)
(* users[(__VU - 1) % users.length]: userId i, productOptionId             *)
(* ((i - 1) % 10) + 1; the iteration's user is userId + __ITER * 200.      *)
(***************************************************************************)
TableIndex(v) == ((v - 1) % TableSize) + 1

\* Variant: the user id offset by __ITER without the table size.
UserIdOf_NoStride(v, i) == TableIndex(v) + i

UserIdOf(v, i) == TableIndex(v) + i * TableSize

OptionOf(v) == ((TableIndex(v) - 1) % NumOptions) + 1

Busy == {v \in VU : vu[v].pc \in {"cart", "order"}}

Recorded == m.success + m.fail

UnitsSold == MapThenSumSet(LAMBDA o : InitStock - stock[o], Options)

MetricsInit ==
    [success |-> 0, fail |-> 0, rateTrue |-> 0, rateTotal |-> 0,
     durations |-> 0, reqFailed |-> 0, reqTotal |-> 0,
     checksPass |-> 0, checksTotal |-> 0]

\* Every variable has its type, and no option's stock goes below zero.
TypeOK ==
    /\ started \in Nat
    /\ phase \in {"running", "graceful", "stopped"}
    /\ vu \in [VU -> [pc : {"idle", "cart", "order", "done"}, iter : Nat,
                      user : Nat, option : Nat]]
    /\ charged \subseteq UserIds
    /\ cart \in [UserIds -> [Options -> Nat]]
    /\ stock \in [Options -> Nat]
    /\ timeouts \in 0 .. MaxTimeouts
    /\ interrupted \in Nat
    /\ m \in [DOMAIN MetricsInit -> Nat]
    /\ report = NoReport \/ report.totalOrders \in Nat

Init ==
    /\ started = 0
    /\ phase = "running"
    /\ vu = [v \in VU |-> [pc |-> "idle", iter |-> 0, user |-> 0,
                           option |-> 0]]
    /\ charged = {}
    /\ cart = [u \in UserIds |-> [o \in Options |-> 0]]
    /\ stock = [o \in Options |-> InitStock]
    /\ timeouts = 0
    /\ interrupted = 0
    /\ m = MetricsInit
    /\ report = NoReport

(***************************************************************************)
(* The target's handlers, each applied atomically.  An order takes the     *)
(* whole cart: it fails on an empty cart, on a balance that does not       *)
(* cover it, or on an option short of stock, and then leaves the cart.    *)
(***************************************************************************)
ApplyCharge(u) == charged' = charged \cup {u}

ApplyAddCart(u, o) == cart' = [cart EXCEPT ![u][o] = @ + 1]

\* Variant: the order handler without its stock check.
OrderOk_NoStock(u) ==
    /\ \E o \in Options : cart[u][o] > 0
    /\ u \in charged

OrderOk(u) ==
    /\ \E o \in Options : cart[u][o] > 0
    /\ u \in charged
    /\ \A o \in Options : cart[u][o] <= stock[o]

ApplyOrder(u) ==
    IF OrderOk(u)
    THEN /\ stock' = [o \in Options |-> stock[o] - cart[u][o]]
         /\ cart' = [cart EXCEPT ![u] = [o \in Options |-> 0]]
    ELSE UNCHANGED <<stock, cart>>

\* The http_req_failed sample of a request that returned status.
ReqFailed(status) == IF IsHttpReqFailed(Response(status, {})) THEN 1 ELSE 0

(***************************************************************************)
(* chargePoint(userId, 1000000) and its check: the charge is applied and  *)
(* answered, or the request times out with the charge applied or not.     *)
(***************************************************************************)
\* Variant: the charge posted for the table's userId, without the __ITER
\* offset.
chargePoint_TableUser(v, u) ==
    \/ /\ ApplyCharge(TableIndex(v))
       /\ UNCHANGED timeouts
       /\ m' = [m EXCEPT !.reqTotal = @ + 1,
                         !.checksPass = @ + 1, !.checksTotal = @ + 1]
    \/ /\ timeouts < MaxTimeouts
       /\ timeouts' = timeouts + 1
       /\ charged' \in {charged, charged \cup {TableIndex(v)}}
       /\ m' = [m EXCEPT !.reqTotal = @ + 1, !.reqFailed = @ + 1,
                         !.checksTotal = @ + 1]

chargePoint(v, u) ==
    \/ /\ ApplyCharge(u)
       /\ UNCHANGED timeouts
       /\ m' = [m EXCEPT !.reqTotal = @ + 1,
                         !.checksPass = @ + 1, !.checksTotal = @ + 1]
    \/ /\ timeouts < MaxTimeouts
       /\ timeouts' = timeouts + 1
       /\ charged' \in {charged, charged \cup {u}}
       /\ m' = [m EXCEPT !.reqTotal = @ + 1, !.reqFailed = @ + 1,
                         !.checksTotal = @ + 1]

(***************************************************************************)
(* setupCart(userId, productOptionId): one unit, answered, or timed out   *)
(* with the unit added or not.                                             *)
(***************************************************************************)
setupCart(u, o) ==
    \/ /\ ApplyAddCart(u, o)
       /\ UNCHANGED timeouts
       /\ m' = [m EXCEPT !.reqTotal = @ + 1,
                         !.checksPass = @ + 1, !.checksTotal = @ + 1]
    \/ /\ timeouts < MaxTimeouts
       /\ timeouts' = timeouts + 1
       /\ \/ ApplyAddCart(u, o)
          \/ UNCHANGED cart
       /\ m' = [m EXCEPT !.reqTotal = @ + 1, !.reqFailed = @ + 1,
                         !.checksTotal = @ + 1]

(***************************************************************************)
(* The executor hands VU v the next shared iteration; the default function *)
(* picks the user and option and runs the charge group.                   *)
(***************************************************************************)
\* Variant: the executor hands out iterations after maxDuration too.
StartIteration_NoPhaseCheck(v) ==
    /\ vu[v].pc = "idle"
    /\ started < Iterations
    /\ started' = started + 1
    /\ LET u == UserIdOf(v, vu[v].iter)
       IN /\ vu' = [vu EXCEPT ![v].pc = "cart", ![v].user = u,
                              ![v].option = OptionOf(v)]
          /\ chargePoint(v, u)
    /\ UNCHANGED <<phase, cart, stock, interrupted, report>>

StartIteration(v) ==
    /\ phase = "running"
    /\ vu[v].pc = "idle"
    /\ started < Iterations
    /\ started' = started + 1
    /\ LET u == UserIdOf(v, vu[v].iter)
       IN /\ vu' = [vu EXCEPT ![v].pc = "cart", ![v].user = u,
                              ![v].option = OptionOf(v)]
          /\ chargePoint(v, u)
    /\ UNCHANGED <<phase, cart, stock, interrupted, report>>

(***************************************************************************)
(* The cart group: setupCart for the user's option, its check, then the   *)
(* 0.1 s sleep.                                                            *)
(***************************************************************************)
AddToCart(v) ==
    /\ vu[v].pc = "cart"
    /\ vu' = [vu EXCEPT ![v].pc = "order"]
    /\ setupCart(vu[v].user, vu[v].option)
    /\ UNCHANGED <<started, phase, charged, stock, interrupted, report>>

(***************************************************************************)
(* The order group: the order request, the duration sample, the success   *)
(* or fail counter and rate sample, the two checks, then the 0.5 s sleep  *)
(* and the next iteration.                                                 *)
(***************************************************************************)
\* Variant: the else branch without orderFailCounter.add.
RecordOrder_NoFailCount(status) ==
    LET ok == status = 200
    IN m' = [m EXCEPT
               !.durations   = @ + 1,
               !.success     = @ + (IF ok THEN 1 ELSE 0),
               !.fail        = @,
               !.rateTrue    = @ + (IF ok THEN 1 ELSE 0),
               !.rateTotal   = @ + 1,
               !.reqFailed   = @ + ReqFailed(status),
               !.reqTotal    = @ + 1,
               !.checksPass  = @ + (IF status \in {200, 400, 409} THEN 1 ELSE 0)
                                 + (IF ok THEN 1 ELSE 0),
               !.checksTotal = @ + 2]

RecordOrder(status) ==
    LET ok == status = 200
    IN m' = [m EXCEPT
               !.durations   = @ + 1,
               !.success     = @ + (IF ok THEN 1 ELSE 0),
               !.fail        = @ + (IF ok THEN 0 ELSE 1),
               !.rateTrue    = @ + (IF ok THEN 1 ELSE 0),
               !.rateTotal   = @ + 1,
               !.reqFailed   = @ + ReqFailed(status),
               !.reqTotal    = @ + 1,
               !.checksPass  = @ + (IF status \in {200, 400, 409} THEN 1 ELSE 0)
                                 + (IF ok THEN 1 ELSE 0),
               !.checksTotal = @ + 2]

CreateOrder(v) ==
    /\ vu[v].pc = "order"
    /\ vu' = [vu EXCEPT ![v].pc = "idle", ![v].iter = @ + 1]
    /\ \/ /\ ApplyOrder(vu[v].user)
          /\ UNCHANGED timeouts
          /\ RecordOrder(IF OrderOk(vu[v].user) THEN 200 ELSE 400)
       \/ /\ timeouts < MaxTimeouts
          /\ timeouts' = timeouts + 1
          /\ \/ ApplyOrder(vu[v].user)
             \/ UNCHANGED <<stock, cart>>
          /\ RecordOrder(0)
    /\ UNCHANGED <<started, phase, charged, interrupted, report>>

(***************************************************************************)
(* The VU leaves the loop: the shared counter is exhausted or maxDuration  *)
(* has passed.                                                             *)
(***************************************************************************)
\* Variant: the VU leaves only when the shared counter is exhausted.
Finish_CounterOnly(v) ==
    /\ vu[v].pc = "idle"
    /\ started >= Iterations
    /\ vu' = [vu EXCEPT ![v].pc = "done"]
    /\ UNCHANGED <<started, phase, charged, cart, stock, timeouts,
                   interrupted, m, report>>

Finish(v) ==
    /\ vu[v].pc = "idle"
    /\ started >= Iterations \/ phase # "running"
    /\ vu' = [vu EXCEPT ![v].pc = "done"]
    /\ UNCHANGED <<started, phase, charged, cart, stock, timeouts,
                   interrupted, m, report>>

\* maxDuration ('5m') elapses: no new iteration starts.
MaxDurationElapsed ==
    /\ phase = "running"
    /\ phase' = "graceful"
    /\ UNCHANGED <<started, vu, charged, cart, stock, timeouts, interrupted,
                   m, report>>

\* gracefulStop elapses with iterations in progress: they are interrupted
\* and record no order outcome.
GracefulStopElapsed ==
    /\ phase = "graceful"
    /\ Busy # {}
    /\ phase' = "stopped"
    /\ interrupted' = interrupted + Cardinality(Busy)
    /\ vu' = [v \in VU |-> IF v \in Busy
                           THEN [vu[v] EXCEPT !.pc = "done"] ELSE vu[v]]
    /\ UNCHANGED <<started, charged, cart, stock, timeouts, m, report>>

(***************************************************************************)
(* handleSummary: the two counters (0 when absent), their total and the   *)
(* success rate, 0 when there were no orders.                              *)
(***************************************************************************)
handleSummary ==
    [totalOrders  |-> Recorded,
     successCount |-> m.success,
     failCount    |-> m.fail,
     successRate  |-> IF Recorded > 0 THEN <<m.success, Recorded>>
                      ELSE <<0, 1>>]

Summarize ==
    /\ \A v \in VU : vu[v].pc = "done"
    /\ report = NoReport
    /\ report' = handleSummary
    /\ UNCHANGED <<started, phase, vu, charged, cart, stock, timeouts,
                   interrupted, m>>

Next ==
    \/ \E v \in VU : \/ StartIteration(v) \/ AddToCart(v)
                     \/ CreateOrder(v) \/ Finish(v)
    \/ MaxDurationElapsed
    \/ GracefulStopElapsed
    \/ Summarize

\* VUs keep running, the gracefulStop timer fires and handleSummary runs
\* once every VU is done; timeouts and maxDuration are not fair.
Fairness ==
    /\ \A v \in VU : /\ WF_vars(StartIteration(v)) /\ WF_vars(AddToCart(v))
                     /\ WF_vars(CreateOrder(v)) /\ WF_vars(Finish(v))
    /\ WF_vars(GracefulStopElapsed)
    /\ WF_vars(Summarize)

Spec == Init /\ [][Next]_vars /\ Fairness

-----------------------------------------------------------------------------
(***************************************************************************)
(* Properties                                                              *)
(***************************************************************************)

\* Every iteration taken from the shared counter is, at every moment,
\* counted once as an order success or failure, still in progress, or cut
\* off by gracefulStop; the duration trend and the success rate have one
\* sample per counted order.
OrderAccounting ==
    /\ started = Recorded + Cardinality(Busy) + interrupted
    /\ m.durations = Recorded /\ m.rateTotal = Recorded
    /\ m.rateTrue = m.success

\* With no transport error and no cut-off, the number of successful orders
\* the run reports is the number of units the target sold (each order is
\* one user's single cart unit), the quantity checked against the stock.
SuccessCountIsUnitsSold ==
    (report # NoReport /\ timeouts = 0 /\ phase = "running")
        => report.successCount = UnitsSold

\* While no request has ended in a transport error, every order the run
\* counts as failed was refused because its own option had sold out: its
\* user was charged and its unit was in the cart, so the target's stock
\* check was the only one that could fail.  A charge or cart add posted
\* for another user than the order's would make it fail with stock left.
OrderFailureMeansSoldOut ==
    [][\A v \in VU :
         (/\ vu[v].pc = "order" /\ vu'[v].pc = "idle"
          /\ m'.fail > m.fail /\ timeouts' = 0)
            => stock[vu[v].option] = 0]_vars

\* The run always ends with a report.
RunCompletes == <>(report # NoReport)

=============================================================================
