------------------------------ MODULE Classify ------------------------------
(***************************************************************************)
(* Response classification used by the k6 scenarios.                       *)
(*                                                                         *)
(* A response is abstracted to a record [status, words]: the HTTP status   *)
(* (0 when k6 received no response) and the set of keywords that occur in  *)
(* the body after body.toLowerCase().  Lower-casing is what makes the      *)
(* keyword tests case-insensitive, so a keyword is a case-folded token and *)
(* a body that mentions "SOLD OUT" carries the token "sold out".  A null   *)
(* body (k6 gives none for status 0) is the empty set of words.            *)
(***************************************************************************)
EXTENDS Integers

\* Tokens the classifier looks for; "suryang" stands for the Korean word
\* for quantity that src/k6/scenarios/02-coupon-issue-test.js:61 tests.
Keywords == {"already", "duplicate", "sold out", "exhausted", "suryang", "other"}

DuplicateWords == {"already", "duplicate"}
SoldOutWords   == {"sold out", "exhausted", "suryang"}

Response(st, ws) == [status |-> st, words |-> ws]

\* Variant: success tested as status < 300, without the lower bound.
classifyError_Below300(resp) ==
    IF resp.status < 300 THEN "success"
    ELSE IF resp.status = 409 \/ resp.words \cap DuplicateWords # {}
         THEN "duplicate"
    ELSE IF resp.status = 400 \/ resp.words \cap SoldOutWords # {}
         THEN "sold_out"
    ELSE "other_error"

\* Variant: success tested as 201 Created, the usual status of a create.
classifyError_Created(resp) ==
    IF resp.status = 201 THEN "success"
    ELSE IF resp.status = 409 \/ resp.words \cap DuplicateWords # {}
         THEN "duplicate"
    ELSE IF resp.status = 400 \/ resp.words \cap SoldOutWords # {}
         THEN "sold_out"
    ELSE "other_error"

\* classifyError of the coupon rush: status 200 first, then the duplicate
\* test, then the sold-out test, falling through to other_error.
classifyError(resp) ==
    IF resp.status = 200 THEN "success"
    ELSE IF resp.status = 409 \/ resp.words \cap DuplicateWords # {}
         THEN "duplicate"
    ELSE IF resp.status = 400 \/ resp.words \cap SoldOutWords # {}
         THEN "sold_out"
    ELSE "other_error"

\* k6's built-in http_req_failed: a request fails unless its status is one
\* of the default expected statuses 200..399 (status 0 fails).
IsHttpReqFailed(resp) == resp.status < 200 \/ resp.status > 399

\* The checks of the coupon rush: response received, success or a normal
\* rejection, success.  Returns how many of the three pass.
CouponChecksPassed(resp) ==
      (IF resp.status # 0 THEN 1 ELSE 0)
    + (IF resp.status \in {200, 400, 409} THEN 1 ELSE 0)
    + (IF resp.status = 200 THEN 1 ELSE 0)

=============================================================================
