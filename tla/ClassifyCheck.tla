----------------------------- MODULE ClassifyCheck -----------------------------
(***************************************************************************)
(* classifyError of the coupon rush against the outcome policy the spec    *)
(* states for the Outcome Classifier (spec section 4.2): every response   *)
(* the endpoint or the transport can produce is visited, and the code's   *)
(* category is compared with the spec's.                                   *)
(***************************************************************************)
EXTENDS Classify

CONSTANT Statuses   \* HTTP statuses to try, 0 standing for no response

VARIABLE resp

\* A body is only present when a response was received.
AllResponses ==
    {Response(st, ws) : st \in Statuses \ {0}, ws \in SUBSET Keywords}
        \cup {Response(0, {})}

Init == resp \in AllResponses
Next == resp' \in AllResponses
Spec == Init /\ [][Next]_resp

\* The spec's policy, in its priority order.
SpecCategory(r) ==
    IF r.status = 200 THEN "Success"
    ELSE IF r.status = 409 \/ r.words \cap DuplicateWords # {}
         THEN "Rejected_Duplicate"
    ELSE IF r.status = 400 \/ r.words \cap SoldOutWords # {}
         THEN "Rejected_Capacity"
    ELSE IF r.status = 0 THEN "TransportError"
    ELSE "Rejected_Other"

\* The code's four categories named as the spec names them.
AsSpecCategory ==
    [success |-> "Success", duplicate |-> "Rejected_Duplicate",
     sold_out |-> "Rejected_Capacity", other_error |-> "Rejected_Other"]

\* Every response falls in the category the spec's classifier policy gives
\* it, a transport failure (status 0) included.
ClassifierFollowsSpec ==
    AsSpecCategory[classifyError(resp)] = SpecCategory(resp)

=============================================================================
