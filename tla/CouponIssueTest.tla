--------------------------- MODULE CouponIssueTest ---------------------------
(***************************************************************************)
(* Scenario 2, the first-come coupon rush (src/k6/scenarios/               *)
(* 02-coupon-issue-test.js), composed with the k6 shared-iterations        *)
(* executor that runs it and with the coupon endpoint it drives.           *)
(*                                                                         *)
(* VUs pull iterations from one shared counter.  An iteration derives a    *)
(* user id from __VU and __ITER, posts an issue request, waits for the     *)
(* reply or for the request timeout, classifies the response and records  *)
(* it.  The target issues at most Capacity coupons, one per user.  After   *)
(* maxDuration no new iteration starts; after gracefulStop the iterations  *)
(* still waiting are interrupted.  When every VU is done handleSummary     *)
(* reads the counters.                                                     *)
(***************************************************************************)
EXTENDS Integers, FiniteSets, Classify

CONSTANTS
    VUs,          \* number of VUs; __VU ranges over 1..VUs
    Iterations,   \* the executor's shared iteration count
    IdStride,     \* the multiplier of __ITER in the user id (1000 in code)
    Capacity,     \* the coupon's total quantity at the target
    MaxTimeouts,  \* bound on requests that end in a k6 timeout (status 0)
    OkReply,      \* the target's response to a successful issue
    DupReply,     \* its response when the user already holds the coupon
    SoldOutReply  \* its response when the quantity is exhausted

ASSUME VUs \in Nat \ {0} /\ Iterations \in Nat /\ IdStride \in Nat \ {0}
ASSUME Capacity \in Nat /\ MaxTimeouts \in Nat

VU == 1 .. VUs

VARIABLES
    started,      \* iterations taken from the shared counter
    phase,        \* "running", "graceful" (after maxDuration), "stopped"
    vu,           \* per VU: state, __ITER and the user of its iteration
    reply,        \* per VU: the response delivered to it, or NoReply
    pending,      \* requests sent and not yet handled by the target
    issued,       \* users holding the coupon at the target
    timeouts,     \* requests that ended in a transport error so far
    interrupted,  \* iterations cut off by gracefulStop
    m,            \* the scenario's custom and built-in metrics
    report        \* handleSummary's result, or NoReport

vars == <<started, phase, vu, reply, pending, issued, timeouts,
          interrupted, m, report>>

NoReply  == [status |-> -1, words |-> {}]
NoReport == [totalRequests |-> -1]

TimeoutReply == Response(0, {})

(***************************************************************************)
(* userId = __VU + (__ITER * 1000)                                         *)
(***************************************************************************)
\* Variant: the user id without the __ITER multiplier.
UserIdOf_NoStride(v, i) == v + i

UserIdOf(v, i) == v + i * IdStride

Request(v) == [vu |-> v, iter |-> vu[v].iter, user |-> vu[v].user]

Waiting == {v \in VU : vu[v].state = "waiting"}

Recorded == m.success + m.duplicate + m.sold_out + m.other_error

MetricsInit ==
    [success |-> 0, duplicate |-> 0, sold_out |-> 0, other_error |-> 0,
     rateTrue |-> 0, rateTotal |-> 0, durations |-> 0,
     reqFailed |-> 0, reqTotal |-> 0, checksPass |-> 0, checksTotal |-> 0]

\* Every variable has its type, and the target never holds more coupons
\* than their quantity.
TypeOK ==
    /\ started \in Nat
    /\ phase \in {"running", "graceful", "stopped"}
    /\ vu \in [VU -> [state : {"idle", "waiting", "done"},
                      iter : Nat, user : Nat]]
    /\ \A v \in VU : reply[v] \in {NoReply, OkReply, DupReply, SoldOutReply}
    /\ \A r \in pending : r.vu \in VU /\ r.iter \in Nat /\ r.user \in Nat
    /\ issued \subseteq Nat /\ Cardinality(issued) <= Capacity
    /\ timeouts \in 0 .. MaxTimeouts
    /\ interrupted \in Nat
    /\ m \in [DOMAIN MetricsInit -> Nat]
    /\ report = NoReport \/ report.totalRequests \in Nat

Init ==
    /\ started = 0
    /\ phase = "running"
    /\ vu = [v \in VU |-> [state |-> "idle", iter |-> 0, user |-> 0]]
    /\ reply = [v \in VU |-> NoReply]
    /\ pending = {}
    /\ issued = {}
    /\ timeouts = 0
    /\ interrupted = 0
    /\ m = MetricsInit
    /\ report = NoReport

(***************************************************************************)
(* The executor hands VU v the next shared iteration; the default function *)
(* computes the user id and posts the issue request.                       *)
(***************************************************************************)
\* Variant: the shared counter compared with <= instead of <.
StartIteration_OffByOne(v) ==
    /\ phase = "running"
    /\ vu[v].state = "idle"
    /\ started <= Iterations
    /\ started' = started + 1
    /\ LET user == UserIdOf(v, vu[v].iter)
       IN /\ vu' = [vu EXCEPT ![v].state = "waiting", ![v].user = user]
          /\ pending' = pending \cup
                          {[vu |-> v, iter |-> vu[v].iter, user |-> user]}
    /\ reply' = [reply EXCEPT ![v] = NoReply]
    /\ UNCHANGED <<phase, issued, timeouts, interrupted, m, report>>

StartIteration(v) ==
    /\ phase = "running"
    /\ vu[v].state = "idle"
    /\ started < Iterations
    /\ started' = started + 1
    /\ LET user == UserIdOf(v, vu[v].iter)
       IN /\ vu' = [vu EXCEPT ![v].state = "waiting", ![v].user = user]
          /\ pending' = pending \cup
                          {[vu |-> v, iter |-> vu[v].iter, user |-> user]}
    /\ reply' = [reply EXCEPT ![v] = NoReply]
    /\ UNCHANGED <<phase, issued, timeouts, interrupted, m, report>>

(***************************************************************************)
(* The VU leaves the loop: the shared counter is exhausted or maxDuration  *)
(* has passed.                                                             *)
(***************************************************************************)
\* Variant: the VU leaves only when the shared counter is exhausted.
Finish_CounterOnly(v) ==
    /\ vu[v].state = "idle"
    /\ started >= Iterations
    /\ vu' = [vu EXCEPT ![v].state = "done"]
    /\ UNCHANGED <<started, phase, reply, pending, issued, timeouts,
                   interrupted, m, report>>

Finish(v) ==
    /\ vu[v].state = "idle"
    /\ started >= Iterations \/ phase # "running"
    /\ vu' = [vu EXCEPT ![v].state = "done"]
    /\ UNCHANGED <<started, phase, reply, pending, issued, timeouts,
                   interrupted, m, report>>

(***************************************************************************)
(* The target handles one request atomically: a user who already holds the *)
(* coupon is refused as a duplicate, an exhausted coupon is refused as     *)
(* sold out, otherwise the coupon is issued.  The reply reaches the VU     *)
(* only while it still waits on that iteration.                            *)
(***************************************************************************)
\* Variant: the target without its quantity check.
IssueResult_NoCapacity(user) ==
    IF user \in issued THEN DupReply ELSE OkReply

IssueResult(user) ==
    IF user \in issued THEN DupReply
    ELSE IF Cardinality(issued) >= Capacity THEN SoldOutReply
    ELSE OkReply

IssueCoupon(r) ==
    /\ r \in pending
    /\ pending' = pending \ {r}
    /\ issued' = IF IssueResult(r.user) = OkReply
                 THEN issued \cup {r.user} ELSE issued
    /\ reply' = IF vu[r.vu].state = "waiting" /\ vu[r.vu].iter = r.iter
                THEN [reply EXCEPT ![r.vu] = IssueResult(r.user)]
                ELSE reply
    /\ UNCHANGED <<started, phase, vu, timeouts, interrupted, m, report>>

(***************************************************************************)
(* The rest of the default function once http.post returns: the duration  *)
(* sample, classifyError and its switch, the checks, then sleep and the    *)
(* next iteration.                                                         *)
(***************************************************************************)
\* Variant: the default branch of the switch without couponFailCounter.add.
RecordOutcome_NoFailCount(v, resp) ==
    LET cat == classifyError(resp)
    IN m' = [m EXCEPT
               !.durations   = @ + 1,
               ![cat]        = @ + (IF cat = "other_error" THEN 0 ELSE 1),
               !.rateTrue    = @ + (IF cat = "success" THEN 1 ELSE 0),
               !.rateTotal   = @ + 1,
               !.reqFailed   = @ + (IF IsHttpReqFailed(resp) THEN 1 ELSE 0),
               !.reqTotal    = @ + 1,
               !.checksPass  = @ + CouponChecksPassed(resp),
               !.checksTotal = @ + 3]

RecordOutcome(v, resp) ==
    LET cat == classifyError(resp)
    IN m' = [m EXCEPT
               !.durations   = @ + 1,
               ![cat]        = @ + 1,
               !.rateTrue    = @ + (IF cat = "success" THEN 1 ELSE 0),
               !.rateTotal   = @ + 1,
               !.reqFailed   = @ + (IF IsHttpReqFailed(resp) THEN 1 ELSE 0),
               !.reqTotal    = @ + 1,
               !.checksPass  = @ + CouponChecksPassed(resp),
               !.checksTotal = @ + 3]

EndIteration(v, resp) ==
    /\ RecordOutcome(v, resp)
    /\ vu' = [vu EXCEPT ![v].state = "idle", ![v].iter = @ + 1]
    /\ reply' = [reply EXCEPT ![v] = NoReply]

ReceiveReply(v) ==
    /\ vu[v].state = "waiting"
    /\ reply[v] # NoReply
    /\ EndIteration(v, reply[v])
    /\ UNCHANGED <<started, phase, pending, issued, timeouts, interrupted,
                   report>>

(***************************************************************************)
(* The request times out before the reply arrives, whether or not the      *)
(* target has handled it; http.post returns status 0.  The request may     *)
(* still be on its way to the target, or may never reach it.               *)
(***************************************************************************)
RequestTimeout(v) ==
    /\ vu[v].state = "waiting"
    /\ timeouts < MaxTimeouts
    /\ timeouts' = timeouts + 1
    /\ EndIteration(v, TimeoutReply)
    /\ pending' \in {pending, pending \ {Request(v)}}
    /\ UNCHANGED <<started, phase, issued, interrupted, report>>

(***************************************************************************)
(* maxDuration elapses: the executor stops handing out iterations.         *)
(***************************************************************************)
MaxDurationElapsed ==
    /\ phase = "running"
    /\ phase' = "graceful"
    /\ UNCHANGED <<started, vu, reply, pending, issued, timeouts,
                   interrupted, m, report>>

(***************************************************************************)
(* gracefulStop elapses with iterations still waiting: they are           *)
(* interrupted and record nothing; their requests stay with the target.   *)
(***************************************************************************)
GracefulStopElapsed ==
    /\ phase = "graceful"
    /\ Waiting # {}
    /\ phase' = "stopped"
    /\ interrupted' = interrupted + Cardinality(Waiting)
    /\ vu' = [v \in VU |-> IF v \in Waiting
                           THEN [vu[v] EXCEPT !.state = "done"] ELSE vu[v]]
    /\ reply' = [v \in VU |-> NoReply]
    /\ UNCHANGED <<started, pending, issued, timeouts, m, report>>

(***************************************************************************)
(* handleSummary: each counter, or 0 when the metric is absent, and their  *)
(* sum as totalRequests.                                                   *)
(***************************************************************************)
handleSummary ==
    [totalRequests |-> Recorded,
     successCount  |-> m.success,
     soldOutCount  |-> m.sold_out,
     duplicateCount |-> m.duplicate,
     failCount     |-> m.other_error]

Summarize ==
    /\ \A v \in VU : vu[v].state = "done"
    /\ report = NoReport
    /\ report' = handleSummary
    /\ UNCHANGED <<started, phase, vu, reply, pending, issued, timeouts,
                   interrupted, m>>

Next ==
    \/ \E v \in VU : StartIteration(v) \/ Finish(v) \/ ReceiveReply(v)
                     \/ RequestTimeout(v)
    \/ \E r \in pending : IssueCoupon(r)
    \/ MaxDurationElapsed
    \/ GracefulStopElapsed
    \/ Summarize

(***************************************************************************)
(* VUs are goroutines that keep running, the target keeps serving, the     *)
(* gracefulStop timer fires and handleSummary runs once VUs are done.      *)
(* Timeouts and maxDuration are failures/deadlines, so they are not fair.  *)
(***************************************************************************)
Fairness ==
    /\ \A v \in VU : WF_vars(StartIteration(v)) /\ WF_vars(Finish(v))
                     /\ WF_vars(ReceiveReply(v))
    /\ WF_vars(\E r \in pending : IssueCoupon(r))
    /\ WF_vars(GracefulStopElapsed)
    /\ WF_vars(Summarize)

Spec == Init /\ [][Next]_vars /\ Fairness

-----------------------------------------------------------------------------
(***************************************************************************)
(* Properties                                                              *)
(***************************************************************************)

\* Every iteration taken from the shared counter is, at every moment,
\* either recorded in exactly one outcome counter, still waiting on its
\* request, or cut off by gracefulStop; and the duration trend, the
\* success rate and http_req_failed saw one sample per recorded outcome.
IterationAccounting ==
    /\ started = Recorded + Cardinality(Waiting) + interrupted
    /\ m.durations = Recorded /\ m.rateTotal = Recorded
    /\ m.reqTotal = Recorded

\* When maxDuration never elapsed, handleSummary reports exactly the
\* configured number of iterations (spec: FixedIterations executes the
\* configured count when the duration bound is not reached).
ExactIterationCount ==
    (report # NoReport /\ phase = "running")
        => report.totalRequests = Iterations

\* The harness never counts more successful issues than the target made,
\* whatever the interleaving of replies, timeouts and late handling.
NoPhantomSuccess ==
    m.success <= Cardinality(issued)

\* With unique user ids and no transport errors, a run of at least
\* Capacity iterations reports exactly Capacity successes and all other
\* requests as sold out, with no duplicate and no other failure.
ExactCapacityIssuance ==
    (report # NoReport /\ phase = "running" /\ timeouts = 0
       /\ Iterations >= Capacity)
        => /\ report.successCount = Capacity
           /\ report.soldOutCount = Iterations - Capacity
           /\ report.duplicateCount = 0
           /\ report.failCount = 0

\* Every coupon the target issued is accounted for by the harness: its
\* iteration recorded a success, or is still waiting on the reply, or its
\* request was one that timed out or was cut off by gracefulStop and then
\* handled by the target anyway.  Together with NoPhantomSuccess this
\* bounds the gap between successCount and the coupons issued by the
\* lost replies, whatever the order of replies, timeouts and cut-offs.
IssuedCouponsAccountedFor ==
    Cardinality(issued) <= m.success + Cardinality(Waiting)
                             + timeouts + interrupted

\* In a run that maxDuration never cut short, the success count
\* handleSummary prints is the number of coupons the target issued (the
\* first check handleSummary asks the operator to make).
ReportedSuccessIsIssued ==
    (report # NoReport /\ phase = "running")
        => report.successCount = Cardinality(issued)

\* The run always ends with a report.
RunCompletes == <>(report # NoReport)



(***************************************************************************)
(* Thresholds: after the run k6 judges options.thresholds on the final     *)
(* metrics.  The Trend rules read latencies, which this model abstracts;  *)
(* the rate rule reads http_req_failed.                                    *)
(***************************************************************************)
Th == INSTANCE Thresholds

\* The final value of each Rate that a rate rule names.
RateMetrics == [http_req_failed |-> [num |-> m.reqFailed, den |-> m.reqTotal]]

RateThresholdsPass ==
    \A r \in Th!RateRules(Th!Thresholds02) :
        Th!RateHolds(r, RateMetrics[r.metric].num, RateMetrics[r.metric].den)

\* The comment on the http_req_failed rule says the failures of the coupon
\* running out are tolerated: a run the target served as intended (every
\* coupon issued, every other request answered sold out, no timeout,
\* duplicate, other error or cut-off) passes the rate thresholds k6
\* evaluates on the final metrics.
SoldOutToleratedByThresholds ==
    LET servedAsIntended ==
            /\ report # NoReport
            /\ timeouts = 0 /\ interrupted = 0
            /\ m.success = Capacity
            /\ m.duplicate = 0 /\ m.other_error = 0
    IN  servedAsIntended => RateThresholdsPass

=============================================================================
