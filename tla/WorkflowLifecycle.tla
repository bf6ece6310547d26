-------------------------- MODULE WorkflowLifecycle --------------------------
(***************************************************************************)
(* The life of a workflow: the POST handler inserts a row and asks         *)
(* Temporal to start an execution, the execution runs its activities one   *)
(* after the other on a worker, and the update_workflow activity writes    *)
(* what becomes of it into the same row.  Three processes share the row    *)
(* (API server, worker, late attempts of the worker) and any of them may   *)
(* fail between two steps.                                                 *)
(***************************************************************************)
EXTENDS Naturals

CONSTANTS
    Workflows,      \* the requests to POST /workflows, one workflow each
    Types,          \* the registered workflow types the requests ask for
    Faults,         \* what may go wrong, a subset of FaultKinds
    RetryCap        \* bound: attempts are counted up to here when unlimited

FaultKinds ==
    {"refused",     \* Temporal rejects or never receives the start request
     "lost_reply",  \* the start request raises although Temporal has taken it
     "api_crash",   \* the API process dies inside the handler
     "worker_crash",\* the worker dies with an attempt in hand
     "timeout",     \* an attempt outlives its start_to_close_timeout
     "database",    \* a statement or a commit raises SQLAlchemyError
     "activity"}    \* a pipeline activity raises

WorkflowTypes == {"extract_metadata", "check_funding_relevance"}

ASSUME LifecycleAssumption ==
    /\ Types \subseteq WorkflowTypes
    /\ Faults \subseteq FaultKinds
    /\ RetryCap \in Nat \ {0}

\* A start request raises only if Temporal did not take it.
ReliableStart == "lost_reply" \notin Faults

VARIABLES
    wtype,          \* workflow_type of the row
    status,         \* status of the row, "none" while there is no row
    startTime,      \* start_time of the row, 0 when NULL
    endTime,        \* end_time of the row, 0 when NULL
    result,         \* the row's result is not NULL
    api,            \* where the POST handler stands
    rpc,            \* the StartWorkflow request on its way to Temporal
    exec,           \* the Temporal execution
    step,           \* the activity the execution is awaiting
    phase,          \* the current attempt of that activity
    attempt,        \* its number, from 1
    stamp,          \* the time the awaited update_workflow carries
    late,           \* updates still running after Temporal gave them up
    clock           \* the time, ticking once per timestamp taken

rowVars  == <<wtype, status, startTime, endTime, result>>
apiVars  == <<api, rpc>>
execVars == <<exec, step, phase, attempt, stamp>>
vars     == <<rowVars, apiVars, execVars, late, clock>>

Terminal == {"SUCCESS", "ERROR"}
Updates  == {"start", "error", "success"}
Pipeline == {"extract_pdf_text", "extract_metadata_with_llm",
             "resolve_metadata_suggestions", "check_funding_relevance"}
Steps    == Updates \cup Pipeline

\* The await that follows s in the body of the type's run().
NextStep(t, s) ==
    CASE s = "start" /\ t = "extract_metadata"        -> "extract_pdf_text"
      [] s = "start" /\ t = "check_funding_relevance" -> "check_funding_relevance"
      [] s = "extract_pdf_text"          -> "extract_metadata_with_llm"
      [] s = "extract_metadata_with_llm" -> "resolve_metadata_suggestions"
      [] OTHER                           -> "success"

\* Mutant of MaximumAttempts: the activity names no retry policy.
NoPolicy(s) == IF s \in Updates THEN 1 ELSE IF s = "extract_pdf_text" THEN 0 ELSE 3

\* RetryPolicy.maximum_attempts of the activity; 0 is Temporal's default for
\* an activity that names no policy, and means without limit.
MaximumAttempts(s) ==
    CASE s \in Updates                  -> 1
      [] s = "extract_pdf_text"         -> 2
      [] s = "check_funding_relevance"  -> 0
      [] OTHER                          -> 3

\* The activities with ApplicationErrors marked non_retryable.
RaisesNonRetryable == {"extract_pdf_text", "resolve_metadata_suggestions"}

Init ==
    /\ wtype     = [w \in Workflows |-> "none"]
    /\ status    = [w \in Workflows |-> "none"]
    /\ startTime = [w \in Workflows |-> 0]
    /\ endTime   = [w \in Workflows |-> 0]
    /\ result    = [w \in Workflows |-> FALSE]
    /\ api       = [w \in Workflows |-> "idle"]
    /\ rpc       = [w \in Workflows |-> "none"]
    /\ exec      = [w \in Workflows |-> "none"]
    /\ step      = [w \in Workflows |-> "start"]
    /\ phase     = [w \in Workflows |-> "scheduled"]
    /\ attempt   = [w \in Workflows |-> 1]
    /\ stamp     = [w \in Workflows |-> 0]
    /\ late      = [w \in Workflows |-> {}]
    /\ clock     = [w \in Workflows |-> 0]

-----------------------------------------------------------------------------
(* The POST handler *)

\* An unknown type (400) or params its model refuses (422): nothing is kept.
RejectRequest(w) ==
    /\ api[w] = "idle"
    /\ api' = [api EXCEPT ![w] = "rejected"]
    /\ UNCHANGED <<rowVars, rpc, execVars, late, clock>>

Inserted(w, t, next) ==
    /\ api[w] = "idle"
    /\ wtype'  = [wtype EXCEPT ![w] = t]
    /\ status' = [status EXCEPT ![w] = "PROCESSING"]
    /\ api'    = [api EXCEPT ![w] = next]
    /\ UNCHANGED <<startTime, endTime, result, rpc, execVars, late, clock>>

InsertRow(w, t) == Inserted(w, t, "committed")

\* Reading public_id after the commit refreshes the row; when that statement
\* fails the client is told "Could not create workflow", and the row stays.
InsertUnreadable(w, t) ==
    /\ "database" \in Faults
    /\ Inserted(w, t, "unreadable")

InsertFails(w) ==
    /\ "database" \in Faults
    /\ api[w] = "idle"
    /\ api' = [api EXCEPT ![w] = "not_created"]
    /\ UNCHANGED <<rowVars, rpc, execVars, late, clock>>

SendStart(w) ==
    /\ api[w] = "committed"
    /\ api' = [api EXCEPT ![w] = "starting"]
    /\ rpc' = [rpc EXCEPT ![w] = "sent"]
    /\ UNCHANGED <<rowVars, execVars, late, clock>>

StartReturns(w) ==
    /\ api[w] = "starting"
    /\ rpc[w] = "accepted"
    /\ api' = [api EXCEPT ![w] = "ok"]
    /\ UNCHANGED <<rowVars, rpc, execVars, late, clock>>

StartRaises(w) ==
    /\ api[w] = "starting"
    /\ rpc[w] = "refused" \/ "lost_reply" \in Faults
    /\ api' = [api EXCEPT ![w] = "handling"]
    /\ UNCHANGED <<rowVars, rpc, execVars, late, clock>>

\* The except branch writes the two attributes it assigned, and looks at no
\* other column: the row may have changed since the insert.
MarkError(w) ==
    /\ api[w] = "handling"
    /\ clock'   = [clock EXCEPT ![w] = @ + 1]
    /\ status'  = [status EXCEPT ![w] = "ERROR"]
    /\ endTime' = [endTime EXCEPT ![w] = clock'[w]]
    /\ api'     = [api EXCEPT ![w] = "marked"]
    /\ UNCHANGED <<wtype, startTime, result, rpc, execVars, late>>

MarkErrorFails(w) ==
    /\ "database" \in Faults
    /\ api[w] = "handling"
    /\ api' = [api EXCEPT ![w] = "unmarked"]
    /\ UNCHANGED <<rowVars, rpc, execVars, late, clock>>

InHandler == {"committed", "starting", "handling"}

ApiCrash(w) ==
    /\ "api_crash" \in Faults
    /\ api[w] \in InHandler
    /\ api' = [api EXCEPT ![w] = "crashed"]
    /\ UNCHANGED <<rowVars, rpc, execVars, late, clock>>

-----------------------------------------------------------------------------
(* The Temporal server *)

\* A request that is still on its way may be taken after the handler left.
AcceptStart(w) ==
    /\ rpc[w] = "sent"
    /\ rpc'  = [rpc EXCEPT ![w] = "accepted"]
    /\ exec' = [exec EXCEPT ![w] = "queued"]
    /\ UNCHANGED <<rowVars, api, step, phase, attempt, stamp, late, clock>>

RefuseStart(w) ==
    /\ "refused" \in Faults
    /\ rpc[w] = "sent"
    /\ rpc' = [rpc EXCEPT ![w] = "refused"]
    /\ UNCHANGED <<rowVars, api, execVars, late, clock>>

-----------------------------------------------------------------------------
(* run() of the workflow class, replayed by the worker *)

\* Mutant of Schedule: the time is taken once per run.
ScheduleOneStamp(w, s) ==
    /\ step'    = [step EXCEPT ![w] = s]
    /\ phase'   = [phase EXCEPT ![w] = "scheduled"]
    /\ attempt' = [attempt EXCEPT ![w] = 1]
    /\ IF s = "start"
       THEN /\ clock' = [clock EXCEPT ![w] = @ + 1]
            /\ stamp' = [stamp EXCEPT ![w] = clock'[w]]
       ELSE UNCHANGED <<clock, stamp>>

\* execute_activity(s): workflow.now() is taken for an update's timestamp.
Schedule(w, s) ==
    /\ step'    = [step EXCEPT ![w] = s]
    /\ phase'   = [phase EXCEPT ![w] = "scheduled"]
    /\ attempt' = [attempt EXCEPT ![w] = 1]
    /\ IF s \in Updates
       THEN /\ clock' = [clock EXCEPT ![w] = @ + 1]
            /\ stamp' = [stamp EXCEPT ![w] = clock'[w]]
       ELSE UNCHANGED <<clock, stamp>>

BeginRun(w) ==
    /\ exec[w] = "queued"
    /\ exec' = [exec EXCEPT ![w] = "running"]
    /\ Schedule(w, "start")
    /\ UNCHANGED <<rowVars, apiVars, late>>

\* Mutant of Advance: the except branch does not re-raise.
AdvanceSwallowing(w) ==
    IF step[w] \in {"success", "error"}
    THEN /\ exec' = [exec EXCEPT ![w] = "completed"]
         /\ UNCHANGED <<step, phase, attempt, stamp, clock>>
    ELSE /\ Schedule(w, NextStep(wtype[w], step[w]))
         /\ UNCHANGED exec

\* The awaited activity returned: go on, return the result, or re-raise.
Advance(w) ==
    IF step[w] \in {"success", "error"}
    THEN /\ exec' = [exec EXCEPT ![w] =
                        IF step[w] = "success" THEN "completed" ELSE "failed"]
         /\ UNCHANGED <<step, phase, attempt, stamp, clock>>
    ELSE /\ Schedule(w, NextStep(wtype[w], step[w]))
         /\ UNCHANGED exec

\* Mutant of Raise: there is no try.

RaiseUncaught(w) ==
    /\ exec' = [exec EXCEPT ![w] = "failed"]
    /\ phase' = [phase EXCEPT ![w] = "gone"]
    /\ UNCHANGED <<step, attempt, stamp, clock>>

\* ActivityError at the await: inside the try the row is marked, after it the
\* exception leaves run() and the execution fails.
Raise(w) ==
    IF step[w] \in {"success", "error"}
    THEN /\ exec' = [exec EXCEPT ![w] = "failed"]
         /\ phase' = [phase EXCEPT ![w] = "gone"]
         /\ UNCHANGED <<step, attempt, stamp, clock>>
    ELSE /\ Schedule(w, "error")
         /\ UNCHANGED exec

LastAttempt(w) ==
    /\ MaximumAttempts(step[w]) # 0
    /\ attempt[w] >= MaximumAttempts(step[w])

CountAttempt(w) ==
    IF MaximumAttempts(step[w]) = 0 /\ attempt[w] >= RetryCap
    THEN attempt[w]
    ELSE attempt[w] + 1

RetryOrRaise(w) ==
    \/ /\ ~LastAttempt(w)
       /\ phase'   = [phase EXCEPT ![w] = "scheduled"]
       /\ attempt' = [attempt EXCEPT ![w] = CountAttempt(w)]
       /\ UNCHANGED <<exec, step, stamp, clock>>
    \/ /\ LastAttempt(w)
       /\ Raise(w)

-----------------------------------------------------------------------------
(* An attempt of an activity on a worker *)

PickUp(w) ==
    /\ exec[w] = "running"
    /\ phase[w] = "scheduled"
    /\ phase' = [phase EXCEPT ![w] = "running"]
    /\ UNCHANGED <<rowVars, apiVars, exec, step, attempt, stamp, late, clock>>

\* The status of the update that follows the pipeline, or its failure.
Outcome(s) == IF s = "success" THEN "SUCCESS" ELSE "ERROR"

\* Mutant of Persist: the start update also sets the status.
PersistProcessing(w, s, at) ==
    /\ startTime' = [startTime EXCEPT ![w] = IF s = "start" THEN at ELSE @]
    /\ endTime'   = [endTime EXCEPT ![w] = IF s = "start" THEN @ ELSE at]
    /\ status'    = [status EXCEPT ![w] = IF s = "start" THEN "PROCESSING" ELSE Outcome(s)]
    /\ result'    = [result EXCEPT ![w] = IF s = "success" THEN TRUE ELSE @]
    /\ UNCHANGED wtype

\* The columns update_workflow changes: exclude_none drops the fields that are
\* None, so an ERROR leaves the result as it is.
Persist(w, s, at) ==
    /\ startTime' = [startTime EXCEPT ![w] = IF s = "start" THEN at ELSE @]
    /\ endTime'   = [endTime EXCEPT ![w] = IF s = "start" THEN @ ELSE at]
    /\ status'    = [status EXCEPT ![w] = IF s = "start" THEN @ ELSE Outcome(s)]
    /\ result'    = [result EXCEPT ![w] = IF s = "success" THEN TRUE ELSE @]
    /\ UNCHANGED wtype

\* update_workflow commits; it raises NoResultFound when there is no row.
Write(w) ==
    /\ exec[w] = "running"
    /\ step[w] \in Updates
    /\ phase[w] = "running"
    /\ status[w] # "none"
    /\ Persist(w, step[w], stamp[w])
    /\ phase' = [phase EXCEPT ![w] = "written"]
    /\ UNCHANGED <<apiVars, exec, step, attempt, stamp, late, clock>>

\* The attempt's result reaches the execution.
Report(w) ==
    /\ exec[w] = "running"
    /\ phase[w] = IF step[w] \in Updates THEN "written" ELSE "running"
    /\ Advance(w)
    /\ UNCHANGED <<rowVars, apiVars, late>>

\* update_workflow raises: a statement fails, a commit fails although it took
\* effect, or there is no row.
UpdateRaises(w) ==
    /\ step[w] \in Updates
    /\ \/ "database" \in Faults /\ phase[w] \in {"running", "written"}
       \/ status[w] = "none" /\ phase[w] = "running"

\* Any other activity raises: a download, a model or a lookup that fails.
ActivityRaises(w) ==
    /\ step[w] \notin Updates
    /\ "activity" \in Faults
    /\ phase[w] = "running"

Fail(w) ==
    /\ exec[w] = "running"
    /\ UpdateRaises(w) \/ ActivityRaises(w)
    /\ RetryOrRaise(w)
    /\ UNCHANGED <<rowVars, apiVars, late>>

FailForGood(w) ==
    /\ "activity" \in Faults
    /\ exec[w] = "running"
    /\ step[w] \in RaisesNonRetryable
    /\ phase[w] = "running"
    /\ Raise(w)
    /\ UNCHANGED <<rowVars, apiVars, late>>

\* Mutant of TimeOut: no start_to_close_timeout ends an attempt whose worker
\* is gone.
TimeOutOfTheLiving(w) ==
    /\ exec[w] = "running"
    /\ "timeout" \in Faults /\ phase[w] \in {"running", "written"}
    /\ RetryOrRaise(w)
    /\ UNCHANGED <<rowVars, apiVars, late>>

\* start_to_close_timeout runs out.  A worker that is still busy with an
\* update is not stopped by that: the update becomes a late one.
TimeOut(w) ==
    /\ exec[w] = "running"
    /\ \/ phase[w] = "lost"
       \/ "timeout" \in Faults /\ phase[w] \in {"running", "written"}
    /\ late' = IF step[w] \in Updates /\ phase[w] = "running"
               THEN [late EXCEPT ![w] = @ \cup {[step |-> step[w], at |-> stamp[w]]}]
               ELSE late
    /\ RetryOrRaise(w)
    /\ UNCHANGED <<rowVars, apiVars>>

WorkerCrash(w) ==
    /\ "worker_crash" \in Faults
    /\ exec[w] = "running"
    /\ phase[w] \in {"running", "written"}
    /\ phase' = [phase EXCEPT ![w] = "lost"]
    /\ UNCHANGED <<rowVars, apiVars, exec, step, attempt, stamp, late, clock>>

LateWrite(w) ==
    \E u \in late[w] :
        /\ status[w] # "none"
        /\ Persist(w, u.step, u.at)
        /\ late' = [late EXCEPT ![w] = @ \ {u}]
        /\ UNCHANGED <<apiVars, execVars, clock>>

LateWriteDies(w) ==
    \E u \in late[w] :
        /\ late' = [late EXCEPT ![w] = @ \ {u}]
        /\ UNCHANGED <<rowVars, apiVars, execVars, clock>>

-----------------------------------------------------------------------------

\* Nothing is left to happen to any workflow.
Resting ==
    /\ \A w \in Workflows : /\ api[w] \notin InHandler \cup {"idle"}
                            /\ rpc[w] # "sent"
                            /\ exec[w] \notin {"queued", "running"}
                            /\ late[w] = {}
    /\ UNCHANGED vars

Handler(w) ==
    \/ SendStart(w) \/ StartReturns(w) \/ StartRaises(w)
    \/ MarkError(w) \/ MarkErrorFails(w)

Server(w) == AcceptStart(w) \/ RefuseStart(w)

AttemptEnds(w) ==
    Write(w) \/ Report(w) \/ Fail(w) \/ FailForGood(w) \/ TimeOut(w)

Late(w) == LateWrite(w) \/ LateWriteDies(w)

Next ==
    \/ \E w \in Workflows :
        \/ RejectRequest(w) \/ InsertFails(w)
        \/ \E t \in Types : InsertRow(w, t) \/ InsertUnreadable(w, t)
        \/ Handler(w) \/ ApiCrash(w)
        \/ Server(w)
        \/ BeginRun(w) \/ PickUp(w) \/ AttemptEnds(w) \/ WorkerCrash(w)
        \/ Late(w)
    \/ Resting

Spec == Init /\ [][Next]_vars

(***************************************************************************)
(* The event loop of the API server runs a handler on, Temporal answers a  *)
(* request and keeps its tasks until a worker takes them, and an attempt   *)
(* that does not report is ended by its start_to_close_timeout.  Requests  *)
(* and faults are never owed.                                              *)
(***************************************************************************)
Fairness ==
    \A w \in Workflows :
        /\ WF_vars(Handler(w))
        /\ WF_vars(Server(w))
        /\ WF_vars(BeginRun(w))
        /\ WF_vars(PickUp(w))
        /\ WF_vars(AttemptEnds(w))
        /\ WF_vars(Late(w))

FairSpec == Spec /\ Fairness

-----------------------------------------------------------------------------
(* Properties *)

LateUpdate == [step : Updates, at : Nat]

RowType ==
    /\ wtype     \in [Workflows -> WorkflowTypes \cup {"none"}]
    /\ status    \in [Workflows -> Terminal \cup {"none", "PROCESSING"}]
    /\ startTime \in [Workflows -> Nat]
    /\ endTime   \in [Workflows -> Nat]
    /\ result    \in [Workflows -> BOOLEAN]

HandlerType ==
    /\ api \in [Workflows -> {"idle", "rejected", "not_created", "unreadable",
                              "committed", "starting", "handling", "ok",
                              "marked", "unmarked", "crashed"}]
    /\ rpc \in [Workflows -> {"none", "sent", "accepted", "refused"}]

ExecType ==
    /\ exec    \in [Workflows -> {"none", "queued", "running", "completed", "failed"}]
    /\ step    \in [Workflows -> Steps]
    /\ phase   \in [Workflows -> {"scheduled", "running", "written", "lost", "gone"}]
    /\ attempt \in [Workflows -> Nat \ {0}]
    /\ stamp   \in [Workflows -> Nat]
    /\ clock   \in [Workflows -> Nat]

\* Every variable holds a value the program can give it.
TypeOK ==
    /\ RowType
    /\ HandlerType
    /\ ExecType
    /\ late \in [Workflows -> SUBSET LateUpdate]

\* The handler commits before it starts: no update of an execution, not even a
\* late one, can miss its row (update_workflow reads it with .one()).
RowBeforeExecution ==
    \A w \in Workflows :
        exec[w] # "none" \/ late[w] # {} \/ rpc[w] # "none" => status[w] # "none"

\* The columns of a row agree with its status whichever writers raced for it:
\* end_time is set exactly at an end, and SUCCESS has a result and a start.
RowComplete ==
    \A w \in Workflows :
        /\ status[w] = "PROCESSING" => endTime[w] = 0 /\ ~result[w]
        /\ status[w] \in Terminal => endTime[w] # 0
        /\ status[w] = "SUCCESS" => result[w] /\ startTime[w] # 0

\* A row in ERROR carries no result: the handler's except branch and the
\* execution's SUCCESS update never both reach one row.
ErrorHasNoResult ==
    \A w \in Workflows : status[w] = "ERROR" => ~result[w]

\* start_time precedes end_time, even when the update that writes start_time
\* lands after the one that writes end_time.
TimesOrdered ==
    \A w \in Workflows :
        startTime[w] # 0 /\ endTime[w] # 0 => startTime[w] < endTime[w]

\* The row tells what became of the execution: an execution that completed has
\* a row in SUCCESS, and a row in SUCCESS has passed the whole pipeline.
StatusOfExecution ==
    \A w \in Workflows :
        /\ exec[w] = "completed" => status[w] = "SUCCESS"
        /\ status[w] = "SUCCESS" => exec[w] # "none" /\ step[w] = "success"

\* No activity with a limit is attempted more often than its policy allows,
\* and update_workflow is attempted once.
AttemptsWithinPolicy ==
    \A w \in Workflows :
        MaximumAttempts(step[w]) # 0 => attempt[w] <= MaximumAttempts(step[w])

Unattended(w) ==
    /\ api[w] \notin InHandler
    /\ rpc[w] # "sent"
    /\ exec[w] \notin {"queued", "running"}
    /\ late[w] = {}

\* A row is left in PROCESSING with nobody to end it only if the handler lost
\* it before an execution existed (a crash, a failed refresh, a failed error
\* update) or if the execution's last update failed.
OrphanExplained ==
    \A w \in Workflows :
        status[w] = "PROCESSING" /\ Unattended(w) =>
            \/ exec[w] = "none" /\ api[w] \in {"unreadable", "unmarked", "crashed"}
            \/ exec[w] = "failed" /\ step[w] \in {"success", "error"} /\ phase[w] = "gone"

\* A status that readers were told is the last one never changes again: the
\* event stream stops at the first terminal status it sees.
TerminalIsFinal ==
    [][\A w \in Workflows : status[w] \in Terminal => status'[w] = status[w]]_vars

\* Whatever happens, a row never leaves the database, never returns to
\* PROCESSING and never loses a result: exclude_none keeps it on an ERROR.
NothingIsTakenBack ==
    [][\A w \in Workflows :
        /\ status[w] # "none" => status'[w] # "none"
        /\ status[w] \in Terminal => status'[w] \in Terminal
        /\ result[w] => result'[w]]_vars

\* The row behaves as the record of WorkflowRecord.
Record == INSTANCE WorkflowRecord
RecordSpec == Record!Spec

\* Every execution ends, whatever fails: retries and timeouts are bounded.
ExecutionEnds ==
    \A w \in Workflows :
        exec[w] \in {"queued", "running"} ~> exec[w] \in {"completed", "failed"}

\* A row in PROCESSING is ended, or everybody who could end it is gone, for one
\* of the reasons OrphanExplained names: no row waits on a handler, a request
\* or an execution that hangs.
RowSettles ==
    \A w \in Workflows :
        status[w] = "PROCESSING" ~> status[w] \in Terminal \/ Unattended(w)

\* detail="Could not start workflow": the client that is told so has no
\* execution, now or later.
CouldNotStart ==
    \A w \in Workflows : api[w] \in {"marked", "unmarked"} => exec[w] = "none"

\* A client that was told its workflow runs is not misled.
AnswerIsTrue ==
    \A w \in Workflows : api[w] = "ok" => exec[w] # "none" /\ rpc[w] = "accepted"

=============================================================================
