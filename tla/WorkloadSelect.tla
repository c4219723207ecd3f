---------------------------- MODULE WorkloadSelect ----------------------------
(***************************************************************************)
(* The weighted workload choice of the mixed-workload scenario            *)
(* (selectWorkload) and the fixed branch ladder of the stress scenario.   *)
(*                                                                         *)
(* Both draw rand = Math.random() * 100 and compare it with integer        *)
(* cumulative bounds.  A draw is modelled as an integer d standing for     *)
(* rand = d / Res: with integer bounds, rand < c holds exactly when        *)
(* d < c * Res, so each value of d stands for an interval of rand of equal *)
(* probability.                                                            *)
(***************************************************************************)
EXTENDS Integers, Sequences, FiniteSets

CONSTANTS
    WORKLOAD_WEIGHTS,  \* sequence of <<name, weight>>, in Object.entries order
    Fallback,          \* the name returned after the loop
    Res                \* draws per unit of rand

ASSUME Res \in Nat \ {0}

Draws == 0 .. (100 * Res - 1)

(***************************************************************************)
(* selectWorkload: walk the entries, accumulating weights, and return the  *)
(* first whose cumulative weight exceeds rand.                             *)
(***************************************************************************)
RECURSIVE SelectFrom(_, _, _)
SelectFrom(entries, d, cumulative) ==
    IF entries = <<>> THEN Fallback
    ELSE LET cum == cumulative + Head(entries)[2]
         IN IF d < cum * Res THEN Head(entries)[1]
            ELSE SelectFrom(Tail(entries), d, cum)

selectWorkload(d) == SelectFrom(WORKLOAD_WEIGHTS, d, 0)

(***************************************************************************)
(* The stress scenario's if / else-if ladder on rand.                      *)
(***************************************************************************)
StressWorkload(d) ==
    IF d < 50 * Res THEN "productList"
    ELSE IF d < 80 * Res THEN "productDetail"
    ELSE IF d < 95 * Res THEN "cartAdd"
    ELSE "orderCreate"

\* The mixed workload's cases that leave isReadOperation true.
ReadWorkloads == {"productList", "productDetail", "popularProducts"}

=============================================================================
