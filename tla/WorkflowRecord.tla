---------------------------- MODULE WorkflowRecord ----------------------------
(***************************************************************************)
(* What the database promises the readers of a workflow (GET, the event    *)
(* stream, the feedback routes): a row appears once, in PROCESSING, and    *)
(* ends at most once, as SUCCESS with a result or as ERROR without one.    *)
(* Neither the API handler nor the Temporal execution that share the row   *)
(* are visible here; WorkflowLifecycle implements this record.  That every *)
(* row ends is no part of the promise: a crash may leave it in PROCESSING. *)
(***************************************************************************)

CONSTANT Workflows      \* the workflows a client may create

VARIABLES
    status,             \* status[w]: "none" while no row exists
    result              \* result[w]: the row holds a result

recordVars == <<status, result>>

Terminal == {"SUCCESS", "ERROR"}
WorkflowStatus == {"PROCESSING"} \cup Terminal

Init ==
    /\ status = [w \in Workflows |-> "none"]
    /\ result = [w \in Workflows |-> FALSE]

Create(w) ==
    /\ status[w] = "none"
    /\ status' = [status EXCEPT ![w] = "PROCESSING"]
    /\ UNCHANGED result

Succeed(w) ==
    /\ status[w] = "PROCESSING"
    /\ status' = [status EXCEPT ![w] = "SUCCESS"]
    /\ result' = [result EXCEPT ![w] = TRUE]

Fail(w) ==
    /\ status[w] = "PROCESSING"
    /\ status' = [status EXCEPT ![w] = "ERROR"]
    /\ UNCHANGED result

End(w) == Succeed(w) \/ Fail(w)

Next == \E w \in Workflows : Create(w) \/ End(w)

Spec == Init /\ [][Next]_recordVars

=============================================================================
