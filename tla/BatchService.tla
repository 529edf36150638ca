----------------------------- MODULE BatchService -----------------------------
(***************************************************************************)
(* What a caller of VulkanContext may rely on.  Each call is answered once, *)
(* with the outputs its operations define in program order, or, under a    *)
(* driver that may fail, refused with an error.  A failed wait is a lapse: *)
(* the call it hits is refused, and answers after it may be wrong.         *)
(***************************************************************************)
VARIABLES
    pending,   \* a call is running
    reply,     \* what the last call returned
    faulty,    \* the driver may fail
    lapsed     \* a call was given up while the device ran it

svars == <<pending, reply, faulty, lapsed>>

Init ==
    /\ pending = FALSE /\ reply = "none"
    /\ faulty \in BOOLEAN /\ lapsed = FALSE

Ask ==
    /\ ~pending
    /\ pending' = TRUE /\ reply' = "none"
    /\ UNCHANGED <<faulty, lapsed>>

Reply ==
    /\ pending
    /\ pending' = FALSE
    /\ reply' \in {"right"} \cup (IF lapsed THEN {"wrong"} ELSE {})
    /\ UNCHANGED <<faulty, lapsed>>

Refuse ==
    /\ faulty /\ pending
    /\ pending' = FALSE /\ reply' = "error"
    /\ lapsed' \in {lapsed, TRUE}
    /\ UNCHANGED faulty

Next == Ask \/ Reply \/ Refuse

Spec == Init /\ [][Next]_svars

(* A call that was made is answered.                                       *)
FairSpec == Spec /\ WF_svars(Reply \/ Refuse)

=============================================================================
