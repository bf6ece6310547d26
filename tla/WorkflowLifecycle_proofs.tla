----------------------- MODULE WorkflowLifecycle_proofs -----------------------
(***************************************************************************)
(* What WorkflowLifecycle guarantees for every set of workflows, every     *)
(* choice of faults and every cap.  Each invariant is proved by one step   *)
(* per action; the actions that change the same variables the same way are *)
(* taken together.                                                         *)
(***************************************************************************)
EXTENDS WorkflowLifecycle, TLAPS

\* The await after any step is an await of run().
LEMMA NextStepType ==
    \A t, s : NextStep(t, s) \in Pipeline \cup {"success"}
  BY DEF NextStep, Pipeline

\* Going on, returning and re-raising keep the types of the execution.
LEMMA ScheduleType ==
    ASSUME ExecType, NEW w \in Workflows, NEW s \in Steps,
           Schedule(w, s), UNCHANGED exec
    PROVE  ExecType'
  BY DEF ExecType, Schedule

\* Raising out of run(), or into its except branch, keeps the types.
LEMMA RaiseType ==
    ASSUME ExecType, NEW w \in Workflows, Raise(w)
    PROVE  ExecType'
<1>1. CASE step[w] \in {"success", "error"}
  BY <1>1 DEF Raise, ExecType
<1>2. CASE step[w] \notin {"success", "error"}
  <2>1. "error" \in Steps  BY DEF Steps, Updates
  <2>2. Schedule(w, "error") /\ UNCHANGED exec  BY <1>2 DEF Raise
  <2>3. QED BY <2>1, <2>2, ScheduleType
<1>3. QED BY <1>1, <1>2

\* Going on to the next await, or returning, keeps the types.
LEMMA AdvanceType ==
    ASSUME ExecType, NEW w \in Workflows, Advance(w)
    PROVE  ExecType'
<1>1. CASE step[w] \in {"success", "error"}
  BY <1>1 DEF Advance, ExecType
<1>2. CASE step[w] \notin {"success", "error"}
  <2>1. Schedule(w, NextStep(wtype[w], step[w])) /\ UNCHANGED exec
    BY <1>2 DEF Advance
  <2>2. NextStep(wtype[w], step[w]) \in Steps
    BY NextStepType DEF Steps, Updates
  <2>3. QED BY <2>1, <2>2, ScheduleType
<1>3. QED BY <1>1, <1>2

\* The retry policy schedules an attempt with a number of its own, or raises.
LEMMA RetryOrRaiseType ==
    ASSUME ExecType, NEW w \in Workflows, RetryOrRaise(w)
    PROVE  ExecType'
<1>1. CASE Raise(w)  BY <1>1, RaiseType
<1>2. CASE ~Raise(w)
  <2>1. CountAttempt(w) \in Nat \ {0}
    BY DEF CountAttempt, ExecType
  <2>2. QED BY <1>2, <2>1 DEF RetryOrRaise, ExecType
<1>3. QED BY <1>1, <1>2

\* A write of update_workflow keeps the types of the row.
LEMMA PersistType ==
    ASSUME RowType, NEW w \in Workflows, NEW s \in Updates, NEW at \in Nat,
           Persist(w, s, at)
    PROVE  RowType'
  BY DEF RowType, Persist, Outcome, Updates, Terminal

\* Type correctness: every variable always holds a value the program gives it.
THEOREM TypeCorrect == Spec => []TypeOK
<1>1. Init => TypeOK
  BY DEF Init, TypeOK, RowType, HandlerType, ExecType, Steps, Updates
<1>2. TypeOK /\ [Next]_vars => TypeOK'
  <2> SUFFICES ASSUME TypeOK, [Next]_vars PROVE TypeOK'
    OBVIOUS
  <2>1. CASE UNCHANGED vars
    BY <2>1 DEF TypeOK, RowType, HandlerType, ExecType, LateUpdate,
                vars, rowVars, apiVars, execVars
  <2>2. CASE \E w \in Workflows :
                \/ RejectRequest(w) \/ InsertFails(w) \/ Handler(w) \/ ApiCrash(w)
                \/ Server(w)
                \/ \E t \in Types : InsertRow(w, t) \/ InsertUnreadable(w, t)
    <3> PICK w \in Workflows :
            \/ RejectRequest(w) \/ InsertFails(w) \/ Handler(w) \/ ApiCrash(w)
            \/ Server(w)
            \/ \E t \in Types : InsertRow(w, t) \/ InsertUnreadable(w, t)
      BY <2>2
    <3>1. ASSUME NEW t \in Types, InsertRow(w, t) \/ InsertUnreadable(w, t)
          PROVE  TypeOK'
      BY <3>1, LifecycleAssumption
         DEF InsertRow, InsertUnreadable, Inserted, TypeOK, RowType, HandlerType,
             ExecType, rowVars, apiVars, execVars
    <3>2. CASE RejectRequest(w) \/ InsertFails(w) \/ ApiCrash(w)
      BY <3>2 DEF RejectRequest, InsertFails, ApiCrash, TypeOK, RowType,
                  HandlerType, ExecType, rowVars, execVars
    <3>3. CASE SendStart(w) \/ StartReturns(w) \/ StartRaises(w) \/ MarkErrorFails(w)
      BY <3>3 DEF SendStart, StartReturns, StartRaises, MarkErrorFails, TypeOK,
                  RowType, HandlerType, ExecType, rowVars, execVars
    <3>4. CASE MarkError(w)
      BY <3>4 DEF MarkError, TypeOK, RowType, HandlerType, ExecType, execVars, Terminal
    <3>5. CASE Server(w)
      BY <3>5 DEF Server, AcceptStart, RefuseStart, TypeOK, RowType, HandlerType,
                  ExecType, rowVars, execVars
    <3>6. QED BY <3>1, <3>2, <3>3, <3>4, <3>5 DEF Handler
  <2>3. CASE \E w \in Workflows :
                BeginRun(w) \/ PickUp(w) \/ AttemptEnds(w) \/ WorkerCrash(w) \/ Late(w)
    <3> PICK w \in Workflows :
            BeginRun(w) \/ PickUp(w) \/ AttemptEnds(w) \/ WorkerCrash(w) \/ Late(w)
      BY <2>3
    <3>1. CASE BeginRun(w)
      BY <3>1 DEF BeginRun, Schedule, TypeOK, RowType, HandlerType, ExecType,
                  rowVars, apiVars, Steps, Updates
    <3>2. CASE PickUp(w) \/ WorkerCrash(w)
      BY <3>2 DEF PickUp, WorkerCrash, TypeOK, RowType, HandlerType, ExecType,
                  rowVars, apiVars
    <3>3. CASE Write(w)
      <4>1. RowType'
        BY <3>3, PersistType DEF Write, TypeOK, ExecType
      <4>2. QED BY <3>3, <4>1 DEF Write, TypeOK, HandlerType, ExecType, apiVars
    <3>4. CASE Report(w)
      <4>1. ExecType'  BY <3>4, AdvanceType DEF Report, TypeOK
      <4>2. QED BY <3>4, <4>1 DEF Report, TypeOK, RowType, HandlerType, rowVars, apiVars
    <3>5. CASE Fail(w) \/ FailForGood(w)
      <4>1. ExecType'
        BY <3>5, RaiseType, RetryOrRaiseType DEF Fail, FailForGood, TypeOK
      <4>2. QED BY <3>5, <4>1 DEF Fail, FailForGood, TypeOK, RowType, HandlerType,
                                  rowVars, apiVars
    <3>6. CASE TimeOut(w)
      <4>1. ExecType'  BY <3>6, RetryOrRaiseType DEF TimeOut, TypeOK
      <4>2. late' \in [Workflows -> SUBSET LateUpdate]
        BY <3>6 DEF TimeOut, TypeOK, ExecType, LateUpdate
      <4>3. QED BY <3>6, <4>1, <4>2 DEF TimeOut, TypeOK, RowType, HandlerType,
                                        rowVars, apiVars
    <3>7. CASE LateWrite(w)
      <4> PICK u \in late[w] :
              /\ Persist(w, u.step, u.at)
              /\ late' = [late EXCEPT ![w] = @ \ {u}]
              /\ UNCHANGED <<apiVars, execVars, clock>>
        BY <3>7 DEF LateWrite
      <4>1. u.step \in Updates /\ u.at \in Nat  BY DEF TypeOK, LateUpdate
      <4>2. RowType'  BY <4>1, PersistType DEF TypeOK
      <4>3. QED BY <4>2 DEF TypeOK, HandlerType, ExecType, apiVars, execVars
    <3>8. CASE LateWriteDies(w)
      BY <3>8 DEF LateWriteDies, TypeOK, RowType, HandlerType, ExecType,
                  rowVars, apiVars, execVars
    <3>9. QED BY <3>1, <3>2, <3>3, <3>4, <3>5, <3>6, <3>7, <3>8 DEF AttemptEnds, Late
  <2>4. CASE Resting
    BY <2>1, <2>4 DEF Resting
  <2>5. QED BY <2>1, <2>2, <2>3, <2>4 DEF Next
<1>3. QED BY <1>1, <1>2, PTL DEF Spec

-----------------------------------------------------------------------------
(***************************************************************************)
(* Safety under every fault.  The inductive invariant ties the handler to  *)
(* the start request, the request to the execution, and the execution's    *)
(* position to the columns its updates have filled.                        *)
(***************************************************************************)

Final == {"success", "error"}

HandlerInv(w) ==
    /\ status[w] = "none" <=> api[w] \in {"idle", "rejected", "not_created"}
    /\ api[w] \in {"idle", "rejected", "not_created", "unreadable", "committed"}
          => rpc[w] = "none"
    /\ api[w] \in {"starting", "handling", "ok", "marked", "unmarked"}
          => rpc[w] # "none"
    /\ api[w] = "ok" => rpc[w] = "accepted"
    /\ rpc[w] = "accepted" <=> exec[w] # "none"
    /\ api[w] = "marked" => status[w] \in Terminal
    /\ status[w] = "none" => endTime[w] = 0

ProgressInv(w) ==
    /\ exec[w] \in {"none", "queued"} =>
          /\ late[w] = {} /\ step[w] = "start" /\ startTime[w] = 0
          /\ ~result[w] /\ status[w] # "SUCCESS"
    /\ exec[w] \notin {"none", "queued"} => stamp[w] # 0
    /\ step[w] \in Pipeline \cup {"success"} => startTime[w] # 0
    /\ step[w] = "start" /\ phase[w] = "written" => startTime[w] # 0
    /\ \A u \in late[w] : u.at # 0 /\ (u.step = "success" => startTime[w] # 0)
    /\ exec[w] \in {"none", "queued"} => phase[w] = "scheduled" /\ attempt[w] = 1
    /\ exec[w] = "completed" => step[w] = "success" /\ status[w] \in Terminal
    /\ exec[w] = "failed" => /\ step[w] \in Final
                             /\ phase[w] = "gone" \/ status[w] \in Terminal
    /\ exec[w] = "running" /\ step[w] \in Final /\ phase[w] = "written"
          => status[w] \in Terminal

SafetyInv ==
    /\ RowComplete
    /\ AttemptsWithinPolicy
    /\ \A w \in Workflows : HandlerInv(w) /\ ProgressInv(w)

\* The strengthened invariant holds before the first request.
LEMMA SafetyInit == Init => SafetyInv
  BY DEF Init, SafetyInv, RowComplete, AttemptsWithinPolicy, HandlerInv,
         ProgressInv, MaximumAttempts, Updates, Pipeline, Terminal

\* The steps of the handler and of the server.
LEMMA SafetyHandler ==
    ASSUME TypeOK, SafetyInv, NEW w \in Workflows,
           \/ RejectRequest(w) \/ InsertFails(w) \/ Handler(w) \/ ApiCrash(w)
           \/ Server(w) \/ BeginRun(w)
           \/ \E t \in Types : InsertRow(w, t) \/ InsertUnreadable(w, t)
    PROVE  SafetyInv'
<1>1. CASE RejectRequest(w) \/ InsertFails(w) \/ ApiCrash(w)
  BY <1>1 DEF RejectRequest, InsertFails, ApiCrash, InHandler, TypeOK, HandlerType,
              SafetyInv, RowComplete, AttemptsWithinPolicy, HandlerInv, ProgressInv,
              rowVars, execVars
<1>2. CASE \E t \in Types : InsertRow(w, t) \/ InsertUnreadable(w, t)
  <2>. PICK t \in Types : InsertRow(w, t) \/ InsertUnreadable(w, t)  BY <1>2
  <2>. QED
    BY DEF InsertRow, InsertUnreadable, Inserted, TypeOK, HandlerType, RowType,
              SafetyInv, RowComplete, AttemptsWithinPolicy, HandlerInv, ProgressInv,
              Terminal, execVars
<1>3. CASE SendStart(w) \/ StartReturns(w) \/ StartRaises(w) \/ MarkErrorFails(w)
  BY <1>3 DEF SendStart, StartReturns, StartRaises, MarkErrorFails, TypeOK, HandlerType,
              SafetyInv, RowComplete, AttemptsWithinPolicy, HandlerInv, ProgressInv,
              rowVars, execVars
<1>4. CASE MarkError(w)
  BY <1>4 DEF MarkError, TypeOK, HandlerType, RowType, ExecType,
              SafetyInv, RowComplete, AttemptsWithinPolicy, HandlerInv, ProgressInv,
              Terminal, execVars
<1>5. CASE Server(w)
  BY <1>5 DEF Server, AcceptStart, RefuseStart, TypeOK, HandlerType, ExecType,
              SafetyInv, RowComplete, AttemptsWithinPolicy, HandlerInv, ProgressInv,
              rowVars, execVars
<1>6. CASE BeginRun(w)
  BY <1>6 DEF BeginRun, Schedule, TypeOK, ExecType,
              SafetyInv, RowComplete, AttemptsWithinPolicy, HandlerInv, ProgressInv,
              rowVars, apiVars, Updates, Pipeline, Final
<1>7. QED BY <1>1, <1>2, <1>3, <1>4, <1>5, <1>6 DEF Handler

\* maximum_attempts is a number; 0 stands for no limit.
LEMMA MaximumAttemptsType == \A s : MaximumAttempts(s) \in Nat
  BY DEF MaximumAttempts

\* update_workflow is never retried.
LEMMA MaximumAttemptsUpdates == \A s \in Updates : MaximumAttempts(s) = 1
  BY DEF MaximumAttempts, Updates

\* An attempt of w ends while the row and the handler stand still; an update
\* that is given up while it runs may join the late ones.
AttemptOver(w) ==
    /\ exec[w] = "running"
    /\ UNCHANGED <<rowVars, apiVars>>
    /\ \/ late' = late
       \/ /\ step[w] \in Updates
          /\ phase[w] = "running"
          /\ late' = [late EXCEPT ![w] = @ \cup {[step |-> step[w], at |-> stamp[w]]}]

\* An attempt that ends by raising out of the await.
LEMMA SafetyRaise ==
    ASSUME TypeOK, SafetyInv, NEW w \in Workflows, AttemptOver(w), Raise(w)
    PROVE  SafetyInv'
<1>1. CASE step[w] \in Final
  BY <1>1 DEF AttemptOver, Raise, TypeOK, ExecType, SafetyInv, RowComplete,
              AttemptsWithinPolicy, HandlerInv, ProgressInv, rowVars, apiVars, Final
<1>2. CASE step[w] \notin Final
  <2>1. Schedule(w, "error") /\ UNCHANGED exec  BY <1>2 DEF Raise, Final
  <2>2. MaximumAttempts("error") = 1  BY MaximumAttemptsUpdates DEF Updates
  <2>3. QED
    BY <2>1, <2>2 DEF AttemptOver, Schedule, TypeOK, ExecType, SafetyInv, RowComplete,
           AttemptsWithinPolicy, HandlerInv, ProgressInv, rowVars, apiVars, Final,
           Updates, Pipeline
<1>3. QED BY <1>1, <1>2

\* An attempt that ends by a retry, or by raising after the last one.
LEMMA SafetyRetry ==
    ASSUME TypeOK, SafetyInv, NEW w \in Workflows, AttemptOver(w), RetryOrRaise(w)
    PROVE  SafetyInv'
<1>1. CASE Raise(w)  BY <1>1, SafetyRaise
<1>2. CASE ~Raise(w)
  <2>1. ~LastAttempt(w)  BY <1>2 DEF RetryOrRaise
  <2>2. MaximumAttempts(step[w]) # 0 => CountAttempt(w) <= MaximumAttempts(step[w])
    <3>1. attempt[w] \in Nat  BY DEF TypeOK, ExecType
    <3>2. MaximumAttempts(step[w]) \in Nat  BY MaximumAttemptsType
    <3>3. QED BY <2>1, <3>1, <3>2 DEF LastAttempt, CountAttempt
  <2>3. QED
    BY <1>2, <2>2 DEF RetryOrRaise, AttemptOver, TypeOK, ExecType, SafetyInv, RowComplete,
           AttemptsWithinPolicy, HandlerInv, ProgressInv, rowVars, apiVars, Final
<1>3. QED BY <1>1, <1>2

\* The attempts of an execution and the late writes.
LEMMA SafetyWorker ==
    ASSUME TypeOK, SafetyInv, NEW w \in Workflows,
           PickUp(w) \/ AttemptEnds(w) \/ WorkerCrash(w) \/ Late(w)
    PROVE  SafetyInv'
<1>1. CASE PickUp(w) \/ WorkerCrash(w)
  BY <1>1 DEF PickUp, WorkerCrash, TypeOK, ExecType, SafetyInv, RowComplete,
              AttemptsWithinPolicy, HandlerInv, ProgressInv, rowVars, apiVars
<1>2. CASE Write(w)
  BY <1>2 DEF Write, Persist, Outcome, TypeOK, RowType, ExecType, SafetyInv, RowComplete,
              AttemptsWithinPolicy, HandlerInv, ProgressInv, apiVars, Updates,
              Pipeline, Final, Terminal
<1>3. CASE Report(w)
  <2>1. CASE step[w] \in Final
    BY <1>3, <2>1 DEF Report, Advance, TypeOK, ExecType, SafetyInv, RowComplete,
           AttemptsWithinPolicy, HandlerInv, ProgressInv, rowVars, apiVars, Final, Updates
  <2>2. CASE step[w] \notin Final
    <3> DEFINE s == NextStep(wtype[w], step[w])
    <3>1. s \in Pipeline \cup {"success"}  BY NextStepType
    <3>2. MaximumAttempts(s) # 0 => 1 <= MaximumAttempts(s)  BY MaximumAttemptsType
    <3>3. Schedule(w, s) /\ UNCHANGED exec  BY <1>3, <2>2 DEF Report, Advance, Final
    <3>4. startTime[w] # 0
      BY <1>3, <2>2 DEF Report, SafetyInv, ProgressInv, TypeOK, ExecType, Steps, Updates, Final
    <3> HIDE DEF s
    <3>5. QED
      BY <1>3, <3>1, <3>2, <3>3, <3>4 DEF Report, Schedule, TypeOK, ExecType, SafetyInv,
             RowComplete, AttemptsWithinPolicy, HandlerInv, ProgressInv, rowVars, apiVars,
             Final, Pipeline
  <2>3. QED BY <2>1, <2>2
<1>4. CASE Fail(w)
  <2>1. AttemptOver(w) /\ RetryOrRaise(w)  BY <1>4 DEF Fail, AttemptOver
  <2>2. QED BY <2>1, SafetyRetry
<1>5. CASE FailForGood(w)
  <2>1. AttemptOver(w) /\ Raise(w)  BY <1>5 DEF FailForGood, AttemptOver
  <2>2. QED BY <2>1, SafetyRaise
<1>6. CASE TimeOut(w)
  <2>1. AttemptOver(w) /\ RetryOrRaise(w)  BY <1>6 DEF TimeOut, AttemptOver
  <2>2. QED BY <2>1, SafetyRetry
<1>7. CASE Late(w)
  <2>1. ASSUME NEW u \in late[w], Persist(w, u.step, u.at), status[w] # "none",
               late' = [late EXCEPT ![w] = @ \ {u}],
               UNCHANGED <<apiVars, execVars, clock>>
        PROVE  SafetyInv'
    <3>1. u.step \in Updates /\ u.at \in Nat  BY DEF TypeOK, LateUpdate
    <3>2. QED
      BY <2>1, <3>1 DEF Persist, Outcome, TypeOK, RowType, ExecType, SafetyInv, RowComplete,
             AttemptsWithinPolicy, HandlerInv, ProgressInv, apiVars, execVars,
             Updates, Pipeline, Final, Terminal
  <2>2. CASE LateWriteDies(w)
    BY <2>2 DEF LateWriteDies, TypeOK, SafetyInv, RowComplete, AttemptsWithinPolicy,
                HandlerInv, ProgressInv, rowVars, apiVars, execVars
  <2>3. QED BY <1>7, <2>1, <2>2 DEF Late, LateWrite
<1>8. QED BY <1>1, <1>2, <1>3, <1>4, <1>5, <1>6, <1>7 DEF AttemptEnds

\* The strengthened invariant holds in every reachable state: the row of every
\* execution is there, complete, and where its handler and its last update left
\* it.
THEOREM SafetyInvariant == Spec => []SafetyInv
<1>1. TypeOK /\ SafetyInv /\ [Next]_vars => SafetyInv'
  <2> SUFFICES ASSUME TypeOK, SafetyInv, [Next]_vars PROVE SafetyInv'
    OBVIOUS
  <2>1. CASE UNCHANGED vars
    BY <2>1 DEF SafetyInv, RowComplete, AttemptsWithinPolicy, HandlerInv, ProgressInv,
                vars, rowVars, apiVars, execVars
  <2>2. CASE Resting  BY <2>1, <2>2 DEF Resting
  <2>3. CASE \E w \in Workflows :
                \/ RejectRequest(w) \/ InsertFails(w) \/ Handler(w) \/ ApiCrash(w)
                \/ Server(w) \/ BeginRun(w)
                \/ \E t \in Types : InsertRow(w, t) \/ InsertUnreadable(w, t)
    BY <2>3, SafetyHandler
  <2>4. CASE \E w \in Workflows :
                PickUp(w) \/ AttemptEnds(w) \/ WorkerCrash(w) \/ Late(w)
    BY <2>4, SafetyWorker
  <2>5. QED BY <2>1, <2>2, <2>3, <2>4 DEF Next
<1>2. QED BY <1>1, SafetyInit, TypeCorrect, PTL DEF Spec

(***************************************************************************)
(* When the start request raises only if Temporal did not take it, the     *)
(* handler and the execution never own a row at the same time, and each    *)
(* writes at most one terminal status.                                     *)
(***************************************************************************)

OwnerInv(w) ==
    /\ api[w] \in {"handling", "marked", "unmarked"} => rpc[w] = "refused"
    /\ exec[w] = "none" /\ status[w] \in Terminal => api[w] = "marked"
    /\ exec[w] = "queued" => status[w] = "PROCESSING"
    /\ exec[w] = "running" =>
          /\ phase[w] # "gone"
          /\ \A u \in late[w] : u.step = "start"
          /\ step[w] \notin Final \/ phase[w] \in {"scheduled", "running"}
                => status[w] = "PROCESSING"
          /\ step[w] \in Final => status[w] \in {"PROCESSING", Outcome(step[w])}
          /\ step[w] \in Final /\ phase[w] = "written" => status[w] = Outcome(step[w])
    /\ exec[w] = "completed" =>
          /\ status[w] = "SUCCESS"
          /\ \A u \in late[w] : u.step = "start"
    /\ exec[w] = "failed" =>
          /\ status[w] \in {"PROCESSING", Outcome(step[w])}
          /\ \A u \in late[w] : u.step # "start" =>
                u.step = step[w] /\ u.at = stamp[w] /\ status[w] = "PROCESSING"
    /\ status[w] = "SUCCESS" => step[w] = "success"
    /\ result[w] => status[w] = "SUCCESS"

TimeInv(w) ==
    /\ stamp[w] <= clock[w] /\ startTime[w] <= clock[w]
    /\ \A u \in late[w] : u.at <= clock[w]
    /\ step[w] \in Final =>
          /\ startTime[w] < stamp[w]
          /\ \A u \in late[w] : u.step = "start" => u.at < stamp[w]
          /\ endTime[w] \in {0, stamp[w]}

OwnershipInv == \A w \in Workflows : OwnerInv(w) /\ TimeInv(w)

\* The ownership of a row holds before the first request.
LEMMA OwnershipInit == Init => OwnershipInv
<1> SUFFICES ASSUME Init, NEW w \in Workflows PROVE OwnerInv(w) /\ TimeInv(w)
  BY DEF OwnershipInv
<1>1. OwnerInv(w)  BY DEF Init, OwnerInv, Final, Terminal
<1>2. TimeInv(w)   BY DEF Init, TimeInv, Final
<1>3. QED BY <1>1, <1>2

\* The steps of the handler and of the server, when a start that raises was not
\* taken: the except branch of the handler then owns the row alone.
LEMMA OwnershipHandler ==
    ASSUME ReliableStart, TypeOK, SafetyInv, OwnershipInv, NEW w \in Workflows,
           \/ RejectRequest(w) \/ InsertFails(w) \/ Handler(w) \/ ApiCrash(w)
           \/ Server(w) \/ BeginRun(w)
           \/ \E t \in Types : InsertRow(w, t) \/ InsertUnreadable(w, t)
    PROVE  OwnershipInv'
<1> USE DEF SafetyInv, RowComplete, HandlerInv, ProgressInv, OwnershipInv, OwnerInv, TimeInv
<1>1. CASE RejectRequest(w) \/ InsertFails(w) \/ ApiCrash(w)
  BY <1>1 DEF RejectRequest, InsertFails, ApiCrash, InHandler, TypeOK, HandlerType,
              rowVars, execVars
<1>2. CASE \E t \in Types : InsertRow(w, t) \/ InsertUnreadable(w, t)
  <2>. PICK t \in Types : InsertRow(w, t) \/ InsertUnreadable(w, t)  BY <1>2
  <2>. QED
    BY DEF InsertRow, InsertUnreadable, Inserted, TypeOK, HandlerType, RowType,
           Terminal, execVars
<1>3. CASE SendStart(w) \/ StartReturns(w) \/ StartRaises(w) \/ MarkErrorFails(w)
  BY <1>3 DEF SendStart, StartReturns, StartRaises, MarkErrorFails, ReliableStart,
              TypeOK, HandlerType, rowVars, execVars
<1>4. CASE MarkError(w)
  <2>1. exec[w] = "none"  BY <1>4 DEF MarkError
  <2>2. clock[w] \in Nat /\ clock'[w] = clock[w] + 1
    BY <1>4 DEF MarkError, TypeOK, ExecType
  <2>3. ~result[w] /\ step[w] = "start" /\ late[w] = {}  BY <2>1
  <2>4. QED
    BY <1>4, <2>1, <2>2, <2>3
       DEF MarkError, TypeOK, HandlerType, RowType, ExecType, Terminal, Final, execVars
<1>5. CASE Server(w)
  BY <1>5 DEF Server, AcceptStart, RefuseStart, TypeOK, HandlerType, RowType, ExecType,
              Terminal, rowVars, execVars
<1>6. CASE BeginRun(w)
  BY <1>6 DEF BeginRun, Schedule, TypeOK, ExecType, RowType, rowVars, apiVars, Updates, Final
<1>7. QED BY <1>1, <1>2, <1>3, <1>4, <1>5, <1>6 DEF Handler

\* An attempt that ends by raising leaves the row to the ERROR update.
LEMMA OwnershipRaise ==
    ASSUME TypeOK, SafetyInv, OwnershipInv, NEW w \in Workflows, AttemptOver(w), Raise(w)
    PROVE  OwnershipInv'
<1> USE DEF SafetyInv, RowComplete, ProgressInv, OwnershipInv, OwnerInv, TimeInv
<1>1. CASE step[w] \in Final
  BY <1>1 DEF AttemptOver, Raise, TypeOK, ExecType, RowType, rowVars, apiVars, Final, Updates
<1>2. CASE step[w] \notin Final
  <2>1. Schedule(w, "error") /\ UNCHANGED exec  BY <1>2 DEF Raise, Final
  <2>2. step[w] \in Updates => step[w] = "start"  BY <1>2 DEF Updates, Final
  <2>3. QED
    BY <1>2, <2>1, <2>2 DEF AttemptOver, Schedule, TypeOK, ExecType, RowType, LateUpdate,
           rowVars, apiVars, Final, Updates
<1>3. QED BY <1>1, <1>2

\* An attempt that ends by a retry leaves the row to the same update.
LEMMA OwnershipRetry ==
    ASSUME TypeOK, SafetyInv, OwnershipInv, NEW w \in Workflows,
           AttemptOver(w), RetryOrRaise(w)
    PROVE  OwnershipInv'
<1>1. CASE Raise(w)  BY <1>1, OwnershipRaise
<1>2. CASE ~Raise(w)
  <2>1. ~LastAttempt(w)  BY <1>2 DEF RetryOrRaise
  <2>2. step[w] \notin Updates
    BY <2>1, MaximumAttemptsUpdates DEF LastAttempt, TypeOK, ExecType
  <2>3. late' = late  BY <2>2 DEF AttemptOver
  <2>4. QED
    BY <1>2, <2>2, <2>3
       DEF RetryOrRaise, AttemptOver, TypeOK, ExecType, SafetyInv, ProgressInv,
           OwnershipInv, OwnerInv, TimeInv, rowVars, apiVars, Updates, Final
<1>3. QED BY <1>1, <1>2

\* The attempts of an execution and the late writes never meet a row that
\* another writer ended.
LEMMA OwnershipWorker ==
    ASSUME ReliableStart, TypeOK, SafetyInv, OwnershipInv, NEW w \in Workflows,
           PickUp(w) \/ AttemptEnds(w) \/ WorkerCrash(w) \/ Late(w)
    PROVE  OwnershipInv'
<1> USE DEF SafetyInv, RowComplete, ProgressInv, OwnershipInv, OwnerInv, TimeInv
<1>1. CASE PickUp(w) \/ WorkerCrash(w)
  BY <1>1 DEF PickUp, WorkerCrash, TypeOK, ExecType, rowVars, apiVars, Final
<1>2. CASE Write(w)
  <2>1. \A v \in Workflows : OwnerInv(v)'
    BY <1>2 DEF Write, Persist, Outcome, TypeOK, RowType, ExecType, HandlerInv, apiVars,
                Updates, Final, Terminal
  <2>2. \A v \in Workflows : TimeInv(v)'
    BY <1>2 DEF Write, Persist, Outcome, TypeOK, RowType, ExecType, apiVars, Updates, Final
  <2>3. QED BY <2>1, <2>2
<1>3. CASE Report(w)
  <2>1. CASE step[w] \in Final
    BY <1>3, <2>1 DEF Report, Advance, Outcome, TypeOK, ExecType, rowVars, apiVars,
                      Final, Updates
  <2>2. CASE step[w] \notin Final
    <3> DEFINE s == NextStep(wtype[w], step[w])
    <3>1. s \in Pipeline \cup {"success"}  BY NextStepType
    <3>2. Schedule(w, s) /\ UNCHANGED exec  BY <1>3, <2>2 DEF Report, Advance, Final
    <3> HIDE DEF s
    <3>3. QED
      BY <1>3, <2>2, <3>1, <3>2
         DEF Report, Schedule, TypeOK, RowType, ExecType, LateUpdate, rowVars, apiVars,
             Final, Updates, Pipeline, Terminal
  <2>3. QED BY <2>1, <2>2
<1>4. CASE Fail(w)
  <2>1. AttemptOver(w) /\ RetryOrRaise(w)  BY <1>4 DEF Fail, AttemptOver
  <2>2. QED BY <2>1, OwnershipRetry
<1>5. CASE FailForGood(w)
  <2>1. AttemptOver(w) /\ Raise(w)  BY <1>5 DEF FailForGood, AttemptOver
  <2>2. QED BY <2>1, OwnershipRaise
<1>6. CASE TimeOut(w)
  <2>1. AttemptOver(w) /\ RetryOrRaise(w)  BY <1>6 DEF TimeOut, AttemptOver
  <2>2. QED BY <2>1, OwnershipRetry
<1>7. CASE Late(w)
  <2>1. ASSUME NEW u \in late[w], Persist(w, u.step, u.at), status[w] # "none",
               late' = [late EXCEPT ![w] = @ \ {u}],
               UNCHANGED <<apiVars, execVars, clock>>
        PROVE  OwnershipInv'
    <3>1. u \in LateUpdate  BY DEF TypeOK
    <3>2. u.step \in Updates /\ u.at \in Nat  BY <3>1 DEF LateUpdate
    <3>3. \A v \in Workflows : OwnerInv(v)'
      <4>1. CASE u.step = "start"
        BY <2>1, <3>2, <4>1 DEF Persist, TypeOK, RowType, ExecType, apiVars, execVars, Final
      <4>2. CASE u.step # "start"
        <5>1. exec[w] = "failed" /\ u.step = step[w] /\ u.at = stamp[w]
          BY <4>2 DEF TypeOK, ExecType
        <5>2. \A x \in late'[w] : x.step = "start"
          BY <2>1, <4>2, <5>1, <3>1 DEF TypeOK, LateUpdate
        <5>3. QED
          BY <2>1, <3>2, <4>2, <5>1, <5>2
             DEF Persist, Outcome, TypeOK, RowType, ExecType, apiVars, execVars, Final,
                 Terminal, Updates
      <4>3. QED BY <4>1, <4>2
    <3>4. \A v \in Workflows : TimeInv(v)'
      BY <2>1, <3>2 DEF Persist, TypeOK, RowType, ExecType, apiVars, execVars, Final, Updates
    <3>5. QED BY <3>3, <3>4
  <2>2. CASE LateWriteDies(w)
    BY <2>2 DEF LateWriteDies, TypeOK, rowVars, apiVars, execVars
  <2>3. QED BY <1>7, <2>1, <2>2 DEF Late, LateWrite
<1>8. QED BY <1>1, <1>2, <1>3, <1>4, <1>5, <1>6, <1>7 DEF AttemptEnds

\* With a reliable start, every row has one writer that may end it: the handler
\* before an execution exists, one update of the execution afterwards.
THEOREM OwnershipInvariant ==
    ASSUME ReliableStart
    PROVE  Spec => []OwnershipInv
<1>1. TypeOK /\ SafetyInv /\ OwnershipInv /\ [Next]_vars => OwnershipInv'
  <2> SUFFICES ASSUME TypeOK, SafetyInv, OwnershipInv, [Next]_vars PROVE OwnershipInv'
    OBVIOUS
  <2>1. CASE UNCHANGED vars
    BY <2>1 DEF OwnershipInv, OwnerInv, TimeInv, vars, rowVars, apiVars, execVars
  <2>2. CASE Resting  BY <2>1, <2>2 DEF Resting
  <2>3. CASE \E w \in Workflows :
                \/ RejectRequest(w) \/ InsertFails(w) \/ Handler(w) \/ ApiCrash(w)
                \/ Server(w) \/ BeginRun(w)
                \/ \E t \in Types : InsertRow(w, t) \/ InsertUnreadable(w, t)
    BY <2>3, OwnershipHandler
  <2>4. CASE \E w \in Workflows :
                PickUp(w) \/ AttemptEnds(w) \/ WorkerCrash(w) \/ Late(w)
    BY <2>4, OwnershipWorker
  <2>5. QED BY <2>1, <2>2, <2>3, <2>4 DEF Next
<1>2. QED BY <1>1, OwnershipInit, SafetyInvariant, TypeCorrect, PTL DEF Spec

-----------------------------------------------------------------------------
(***************************************************************************)
(* The properties the runs check.                                          *)
(***************************************************************************)

\* An update of an execution always finds its row, whatever fails.
THEOREM RowFirst == Spec => []RowBeforeExecution
<1>1. SafetyInv => RowBeforeExecution
  BY DEF SafetyInv, HandlerInv, ProgressInv, RowBeforeExecution
<1>2. QED BY <1>1, SafetyInvariant, PTL

\* The columns of a row always agree with its status, whatever fails.
THEOREM RowAlwaysComplete == Spec => []RowComplete
<1>1. SafetyInv => RowComplete  BY DEF SafetyInv
<1>2. QED BY <1>1, SafetyInvariant, PTL

\* No activity is ever attempted more often than its retry policy allows.
THEOREM PolicyRespected == Spec => []AttemptsWithinPolicy
<1>1. SafetyInv => AttemptsWithinPolicy  BY DEF SafetyInv
<1>2. QED BY <1>1, SafetyInvariant, PTL

\* A row abandoned in PROCESSING is always one of the four known cases.
THEOREM OrphansExplained == Spec => []OrphanExplained
<1>1. TypeOK /\ SafetyInv => OrphanExplained
  <2> SUFFICES ASSUME TypeOK, SafetyInv, NEW w \in Workflows,
                      status[w] = "PROCESSING", Unattended(w)
               PROVE  \/ exec[w] = "none" /\ api[w] \in {"unreadable", "unmarked", "crashed"}
                      \/ /\ exec[w] = "failed" /\ step[w] \in {"success", "error"}
                         /\ phase[w] = "gone"
    BY DEF OrphanExplained
  <2>1. HandlerInv(w) /\ ProgressInv(w)  BY DEF SafetyInv
  <2>2. status[w] \notin Terminal  BY DEF Terminal
  <2>3. QED
    BY <2>1, <2>2 DEF HandlerInv, ProgressInv, Unattended, InHandler, TypeOK,
                      HandlerType, ExecType, Final
<1>2. QED BY <1>1, TypeCorrect, SafetyInvariant, PTL

\* A client that was answered 200 has an execution.
THEOREM AnswersAreTrue == Spec => []AnswerIsTrue
<1>1. SafetyInv => AnswerIsTrue
  BY DEF SafetyInv, HandlerInv, AnswerIsTrue
<1>2. QED BY <1>1, SafetyInvariant, PTL

\* No step but five kinds changes the status or the result of a row.
LEMMA RowSteps ==
    ASSUME [Next]_vars, NEW v \in Workflows, TypeOK
    PROVE  \/ status'[v] = status[v] /\ result'[v] = result[v]
           \/ \E t \in Types : Inserted(v, t, "committed") \/ Inserted(v, t, "unreadable")
           \/ MarkError(v)
           \/ Write(v)
           \/ LateWrite(v)
<1>1. CASE UNCHANGED vars \/ Resting
  BY <1>1 DEF Resting, vars, rowVars
<1>2. CASE \E w \in Workflows :
              \/ RejectRequest(w) \/ InsertFails(w) \/ ApiCrash(w) \/ SendStart(w)
              \/ StartReturns(w) \/ StartRaises(w) \/ MarkErrorFails(w) \/ Server(w)
              \/ BeginRun(w) \/ PickUp(w) \/ WorkerCrash(w) \/ LateWriteDies(w)
              \/ Report(w) \/ Fail(w) \/ FailForGood(w) \/ TimeOut(w)
  BY <1>2 DEF RejectRequest, InsertFails, ApiCrash, SendStart, StartReturns, StartRaises,
              MarkErrorFails, Server, AcceptStart, RefuseStart, BeginRun, PickUp,
              WorkerCrash, LateWriteDies, Report, Fail, FailForGood, TimeOut, rowVars
<1>3. CASE \E w \in Workflows, t \in Types : InsertRow(w, t) \/ InsertUnreadable(w, t)
  <2> PICK w \in Workflows, t \in Types : InsertRow(w, t) \/ InsertUnreadable(w, t)
    BY <1>3
  <2>1. CASE v = w  BY <2>1 DEF InsertRow, InsertUnreadable
  <2>2. CASE v # w
    BY <2>2 DEF InsertRow, InsertUnreadable, Inserted, TypeOK, RowType
  <2>3. QED BY <2>1, <2>2
<1>4. CASE \E w \in Workflows : MarkError(w) \/ Write(w)
  BY <1>4 DEF MarkError, Write, Persist, TypeOK, RowType
<1>5. CASE \E w \in Workflows : LateWrite(w)
  BY <1>5 DEF LateWrite, Persist, TypeOK, RowType
<1>6. QED BY <1>1, <1>2, <1>3, <1>4, <1>5 DEF Next, Handler, AttemptEnds, Late

\* No step deletes a row, reopens an ended one or clears a result.
THEOREM NothingTakenBack == Spec => NothingIsTakenBack
<1>1. TypeOK /\ SafetyInv /\ [Next]_vars =>
        [\A w \in Workflows :
            /\ status[w] # "none" => status'[w] # "none"
            /\ status[w] \in Terminal => status'[w] \in Terminal
            /\ result[w] => result'[w]]_vars
  <2> SUFFICES ASSUME TypeOK, SafetyInv, [Next]_vars, NEW w \in Workflows
               PROVE  /\ status[w] # "none" => status'[w] # "none"
                      /\ status[w] \in Terminal => status'[w] \in Terminal
                      /\ result[w] => result'[w]
    OBVIOUS
  <2>1. CASE status'[w] = status[w] /\ result'[w] = result[w]
    BY <2>1
  <2>2. CASE \E t \in Types : Inserted(w, t, "committed") \/ Inserted(w, t, "unreadable")
    BY <2>2 DEF Inserted, SafetyInv, HandlerInv, TypeOK, RowType, Terminal
  <2>3. CASE MarkError(w)
    BY <2>3 DEF MarkError, TypeOK, RowType, Terminal
  <2>4. CASE Write(w)
    BY <2>4 DEF Write, Persist, Outcome, TypeOK, RowType, Terminal
  <2>5. CASE LateWrite(w)
    BY <2>5 DEF LateWrite, Persist, Outcome, TypeOK, RowType, Terminal
  <2>6. QED BY <2>1, <2>2, <2>3, <2>4, <2>5, RowSteps
<1>2. QED BY <1>1, TypeCorrect, SafetyInvariant, PTL DEF Spec, NothingIsTakenBack

\* With a reliable start, an ERROR row never holds a result.
THEOREM ErrorWithoutResult ==
    ASSUME ReliableStart
    PROVE  Spec => []ErrorHasNoResult
<1>1. OwnershipInv => ErrorHasNoResult
  BY DEF OwnershipInv, OwnerInv, ErrorHasNoResult
<1>2. QED BY <1>1, OwnershipInvariant, PTL

\* With a reliable start, the status of the row is that of the execution.
THEOREM StatusIsOfExecution ==
    ASSUME ReliableStart
    PROVE  Spec => []StatusOfExecution
<1>1. SafetyInv /\ OwnershipInv => StatusOfExecution
  BY DEF SafetyInv, ProgressInv, OwnershipInv, OwnerInv, StatusOfExecution
<1>2. QED BY <1>1, SafetyInvariant, OwnershipInvariant, PTL

\* With a reliable start, start_time precedes end_time in every row.
THEOREM TimesAlwaysOrdered ==
    ASSUME ReliableStart
    PROVE  Spec => []TimesOrdered
<1>1. TypeOK /\ SafetyInv /\ OwnershipInv => TimesOrdered
  <2> SUFFICES ASSUME TypeOK, SafetyInv, OwnershipInv, NEW w \in Workflows,
                      startTime[w] # 0, endTime[w] # 0
               PROVE  startTime[w] < endTime[w]
    BY DEF TimesOrdered
  <2>1. exec[w] \in {"running", "completed", "failed"}
    BY DEF SafetyInv, ProgressInv, TypeOK, ExecType
  <2>2. status[w] # "PROCESSING"  BY DEF SafetyInv, RowComplete
  <2>3. step[w] \in Final
    BY <2>1, <2>2 DEF OwnershipInv, OwnerInv, SafetyInv, ProgressInv, Final
  <2>4. QED BY <2>3 DEF OwnershipInv, TimeInv
<1>2. QED BY <1>1, TypeCorrect, SafetyInvariant, OwnershipInvariant, PTL

\* With a reliable start, each step on a row is a step of the abstract record.
LEMMA RecordStep ==
    ASSUME ReliableStart, TypeOK, SafetyInv, OwnershipInv, [Next]_vars, TypeOK'
    PROVE  [Record!Next]_<<status, result>>
<1> SUFFICES ASSUME <<status, result>>' # <<status, result>> PROVE Record!Next
  OBVIOUS
<1>1. PICK w \in Workflows :
          \/ \E t \in Types : Inserted(w, t, "committed") \/ Inserted(w, t, "unreadable")
          \/ MarkError(w) \/ Write(w) \/ LateWrite(w)
  <2>1. ASSUME \A v \in Workflows : status'[v] = status[v] /\ result'[v] = result[v]
        PROVE  FALSE
    BY <2>1 DEF TypeOK, RowType
  <2>2. QED BY <2>1, RowSteps
<1>2. CASE \E t \in Types : Inserted(w, t, "committed") \/ Inserted(w, t, "unreadable")
  <2>1. status[w] = "none"
    BY <1>2 DEF Inserted, SafetyInv, HandlerInv
  <2>2. Record!Create(w)
    BY <1>2, <2>1 DEF Inserted, Record!Create
  <2>3. QED BY <2>2 DEF Record!Next
<1>3. CASE MarkError(w)
  <2>1. exec[w] = "none"
    BY <1>3 DEF MarkError, SafetyInv, HandlerInv, OwnershipInv, OwnerInv
  <2>2. status[w] = "PROCESSING"
    BY <1>3, <2>1 DEF MarkError, SafetyInv, HandlerInv, OwnershipInv, OwnerInv, TypeOK,
                      RowType, Terminal
  <2>3. Record!Fail(w)
    BY <1>3, <2>2 DEF MarkError, Record!Fail
  <2>4. QED BY <2>3 DEF Record!Next, Record!End
<1>4. ASSUME NEW s \in Updates, NEW at, Persist(w, s, at),
             s # "start" => status[w] = "PROCESSING"
      PROVE  Record!Next
  <2>1. CASE s = "start"
    BY <1>4, <2>1 DEF Persist, TypeOK, RowType
  <2>2. CASE s = "error"
    <3>1. Record!Fail(w)
      BY <1>4, <2>2 DEF Persist, Outcome, Record!Fail, TypeOK, RowType
    <3>2. QED BY <3>1 DEF Record!Next, Record!End
  <2>3. CASE s = "success"
    <3>1. Record!Succeed(w)
      BY <1>4, <2>3 DEF Persist, Outcome, Record!Succeed
    <3>2. QED BY <3>1 DEF Record!Next, Record!End
  <2>4. QED BY <1>4, <2>1, <2>2, <2>3 DEF Updates
<1>5. CASE Write(w)
  <2>1. step[w] # "start" => status[w] = "PROCESSING"
    BY <1>5 DEF Write, OwnershipInv, OwnerInv
  <2>2. QED BY <1>4, <1>5, <2>1 DEF Write
<1>6. CASE LateWrite(w)
  <2> PICK u \in late[w] : Persist(w, u.step, u.at)
    BY <1>6 DEF LateWrite
  <2>1. u.step \in Updates  BY DEF TypeOK, LateUpdate
  <2>2. u.step # "start" => status[w] = "PROCESSING"
    BY DEF OwnershipInv, OwnerInv, SafetyInv, ProgressInv, TypeOK, ExecType
  <2>3. QED BY <1>4, <2>1, <2>2
<1>7. QED BY <1>1, <1>2, <1>3, <1>5, <1>6

\* With a reliable start, the lifecycle implements the record of the database.
THEOREM ImplementsRecord ==
    ASSUME ReliableStart
    PROVE  Spec => RecordSpec
<1>1. Init => Record!Init
  BY DEF Init, Record!Init
<1>2. TypeOK /\ TypeOK' /\ SafetyInv /\ OwnershipInv /\ [Next]_vars
         => [Record!Next]_(Record!recordVars)
  BY RecordStep DEF Record!recordVars
<1>3. QED
  BY <1>1, <1>2, TypeCorrect, SafetyInvariant, OwnershipInvariant, PTL
     DEF Spec, RecordSpec, Record!Spec

\* With a reliable start, an ended row keeps its status: readers may stop.
THEOREM EndedStaysEnded ==
    ASSUME ReliableStart
    PROVE  Spec => TerminalIsFinal
<1>1. TypeOK /\ TypeOK' /\ SafetyInv /\ OwnershipInv /\ [Next]_vars
         => [\A w \in Workflows : status[w] \in Terminal => status'[w] = status[w]]_vars
  <2> SUFFICES ASSUME TypeOK, TypeOK', SafetyInv, OwnershipInv, [Next]_vars,
                      NEW w \in Workflows, status[w] \in Terminal
               PROVE  status'[w] = status[w]
    OBVIOUS
  <2>1. [Record!Next]_<<status, result>>  BY RecordStep
  <2>2. QED
    BY <2>1 DEF Record!Next, Record!Create, Record!End, Record!Succeed, Record!Fail,
                Terminal, TypeOK, RowType
<1>2. QED
  BY <1>1, TypeCorrect, SafetyInvariant, OwnershipInvariant, PTL DEF Spec, TerminalIsFinal

=============================================================================
