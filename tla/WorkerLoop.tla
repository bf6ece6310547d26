------------------------------ MODULE WorkerLoop ------------------------------
(***************************************************************************)
(* One worker process and the event loop it has for everything: decisions  *)
(* of executions and attempts of activities.  Every attempt has a stretch  *)
(* that never awaits: reading the PDF, matching the model's answer with    *)
(* the text, building suggestions, an update from its query to its commit. *)
(* Nothing else runs meanwhile, and the clocks of the attempts that        *)
(* Temporal has handed out run on.  Temporal gives up an attempt that is   *)
(* late; the worker may run it all the same.  Raised database errors and   *)
(* crashes are WorkflowLifecycle's.                                        *)
(***************************************************************************)
EXTENDS Integers, FiniteSets

CONSTANTS
    Workflows,      \* executions of extract_metadata
    Minute,         \* ticks of the clock to a minute
    Loads           \* per execution and activity, the ticks it blocks the loop for

Updates == {"update_start", "update_success", "update_error"}
Activities == Updates \cup {"extract_pdf_text", "extract_metadata_with_llm",
                            "resolve_metadata_suggestions"}

ASSUME WorkerLoopAssumption ==
    /\ IsFiniteSet(Workflows)
    /\ Minute \in Nat \ {0}
    /\ Loads \subseteq [Workflows -> [Activities -> Nat]]

MaximumAttempts(a) ==
    CASE a \in Updates -> 1
      [] a = "extract_pdf_text" -> 2
      [] OTHER -> 3

VARIABLES
    load,           \* which of Loads it is, the same throughout
    status,         \* status of the row of w
    step,           \* the activity the execution of w waits for, or waited for last
    answer,         \* how that ended, "none" while the execution waits
    attempt,        \* which of its attempts Temporal has handed out
    age,            \* the ticks since it did, of an update
    held,           \* attempts in the worker that have not finished
    loop            \* what blocks the event loop, and the ticks it has left

execVars == <<step, answer, attempt, age>>
vars == <<load, status, execVars, held, loop>>

Attempt == [of : Workflows, step : Activities, n : 1..3]
Free == [by |-> {}, left |-> 0]

Init ==
    /\ load \in Loads
    /\ status = [w \in Workflows |-> "none"]
    /\ step = [w \in Workflows |-> "none"]
    /\ answer = [w \in Workflows |-> "none"]
    /\ attempt = [w \in Workflows |-> 0]
    /\ age = [w \in Workflows |-> 0]
    /\ held = {}
    /\ loop = Free

-----------------------------------------------------------------------------
(* Executions *)

\* What run() awaits after an activity that is done.
Following == [
    none |-> "update_start",
    update_start |-> "extract_pdf_text",
    extract_pdf_text |-> "extract_metadata_with_llm",
    extract_metadata_with_llm |-> "resolve_metadata_suggestions",
    resolve_metadata_suggestions |-> "update_success"]

LastUpdates == {"update_success", "update_error"}

\* Mutant of FollowUp: the last update is inside the try as well.
SuccessInsideTry(a, ended) ==
    IF a = "update_error" \/ (a = "update_success" /\ ended = "done") THEN "over"
    ELSE IF ended = "failed" THEN "update_error" ELSE Following[a]

\* Mutant of FollowUp: an activity that fails ends the execution, and no row.
FailSilently(a, ended) ==
    IF a \in LastUpdates \/ ended = "failed" THEN "over" ELSE Following[a]

\* The updates after the try end the execution; what fails inside goes to the
\* except branch, whose update is awaited before the exception is raised again.
FollowUp(a, ended) ==
    IF a \in LastUpdates THEN "over"
    ELSE IF ended = "failed" THEN "update_error" ELSE Following[a]

\* Temporal hands attempt n of activity a to the worker, whose core takes it
\* whether or not the event loop runs.
HandOut(w, a, n) ==
    /\ step' = [step EXCEPT ![w] = a]
    /\ attempt' = [attempt EXCEPT ![w] = n]
    /\ age' = [age EXCEPT ![w] = 0]
    /\ answer' = [answer EXCEPT ![w] = "none"]

\* The row is there before the execution.
Start(w) ==
    /\ status[w] = "none"
    /\ status' = [status EXCEPT ![w] = "PROCESSING"]
    /\ answer' = [answer EXCEPT ![w] = "done"]
    /\ UNCHANGED <<step, attempt, age, held, loop>>

\* What the workflow code does next is asked for from the event loop too.
Decide(w) ==
    LET a == FollowUp(step[w], answer[w]) IN
    /\ loop = Free
    /\ answer[w] \in {"done", "failed"}
    /\ IF a = "over"
       THEN answer' = [answer EXCEPT ![w] = "over"] /\ UNCHANGED <<step, attempt, age, held>>
       ELSE HandOut(w, a, 1) /\ held' = held \cup {[of |-> w, step |-> a, n |-> 1]}
    /\ UNCHANGED <<status, loop>>

-----------------------------------------------------------------------------
(* Attempts *)

Awaited(t) ==
    /\ answer[t.of] = "none"
    /\ step[t.of] = t.step
    /\ attempt[t.of] = t.n

\* Mutant of Lost: every activity is retried for ever.
LostForEver(w, rest) ==
    /\ HandOut(w, step[w], attempt[w])
    /\ held' = rest \cup {[of |-> w, step |-> step[w], n |-> attempt[w]]}

\* Temporal retries an attempt that failed or was late, or gives the activity up.
Lost(w, rest) ==
    IF attempt[w] < MaximumAttempts(step[w])
    THEN /\ HandOut(w, step[w], attempt[w] + 1)
         /\ held' = rest \cup {[of |-> w, step |-> step[w], n |-> attempt[w] + 1]}
    ELSE /\ answer' = [answer EXCEPT ![w] = "failed"]
         /\ held' = rest
         /\ UNCHANGED <<step, attempt, age>>

\* The worker reports an attempt; Temporal takes the report of the one it awaits.
Report(t, ended) ==
    IF ~Awaited(t) THEN held' = held \ {t} /\ UNCHANGED execVars
    ELSE IF ended = "done"
    THEN /\ answer' = [answer EXCEPT ![t.of] = "done"]
         /\ held' = held \ {t}
         /\ UNCHANGED <<step, attempt, age>>
    ELSE Lost(t.of, held \ {t})

\* The download is there, or the answer of the model: the rest of the attempt
\* blocks the loop.  An update does so from its query to its commit.
Begin(t) ==
    /\ loop = Free
    /\ loop' = [by |-> {t}, left |-> load[t.of][t.step]]
    /\ UNCHANGED <<status, execVars, held>>

\* What an update commits, whether or not it is still awaited.
Committed(t) ==
    CASE t.step = "update_success" -> [status EXCEPT ![t.of] = "SUCCESS"]
      [] t.step = "update_error" -> [status EXCEPT ![t.of] = "ERROR"]
      [] OTHER -> status

End(t) ==
    /\ t \in loop.by
    /\ loop.left = 0
    /\ status' = Committed(t)
    /\ \E ended \in {"done", "failed"} :
        /\ t.step \in Updates => ended = "done"
        /\ Report(t, ended)
    /\ loop' = Free

\* A download fails, a model or a vocabulary does not answer.
Unanswered(t) ==
    /\ loop = Free
    /\ t.step \notin Updates
    /\ Report(t, "failed")
    /\ UNCHANGED <<status, loop>>

\* The worker learns that an attempt is no longer awaited before it runs it.
Drop(t) ==
    /\ ~Awaited(t) /\ t \notin loop.by
    /\ held' = held \ {t}
    /\ UNCHANGED <<status, execVars, loop>>

-----------------------------------------------------------------------------
(* Time *)

\* A late attempt goes on, which is noticed only if it blocks the loop or writes.
Lingers(t) == t.step \in Updates \/ load[t.of][t.step] > 0

Waits(w) == answer[w] = "none" /\ step[w] \in Activities

\* start_to_close_timeout of an update is one minute.
Late(w) == Waits(w) /\ step[w] \in Updates /\ age[w] >= Minute

\* The other activities wait for answers from elsewhere, and their three or five
\* minutes may run out on any of their attempts.
TimeOut(w) ==
    /\ \/ Late(w)
       \/ Waits(w) /\ step[w] \notin Updates
    /\ Lost(w, {t \in held : t.of # w \/ t \in loop.by \/ Lingers(t)})
    /\ UNCHANGED <<status, loop>>

\* Updates begin at once on a free loop, so time passes for them only while the
\* loop is blocked, by others or by themselves.
Tick ==
    /\ loop # Free /\ loop.left > 0
    /\ \A w \in Workflows : ~Late(w)
    /\ loop' = [loop EXCEPT !.left = @ - 1]
    /\ age' = [w \in Workflows |->
                 IF Waits(w) /\ step[w] \in Updates THEN age[w] + 1 ELSE age[w]]
    /\ UNCHANGED <<status, step, answer, attempt, held>>

Over == \A w \in Workflows : answer[w] = "over"

Run ==
    /\ \/ \E w \in Workflows : Start(w) \/ Decide(w) \/ TimeOut(w)
       \/ \E t \in held : Begin(t) \/ End(t) \/ Unanswered(t) \/ Drop(t)
       \/ Tick
    /\ UNCHANGED load

Next == Run \/ (Over /\ held = {} /\ UNCHANGED vars)

\* The loop keeps running what is ready, and time passes.
FairSpec == Init /\ [][Next]_vars /\ WF_vars(Run)

-----------------------------------------------------------------------------

TypeOK ==
    /\ load \in Loads
    /\ status \in [Workflows -> {"none", "PROCESSING", "SUCCESS", "ERROR"}]
    /\ step \in [Workflows -> Activities \cup {"none"}]
    /\ answer \in [Workflows -> {"none", "done", "failed", "over"}]
    /\ attempt \in [Workflows -> 0..3]
    /\ age \in [Workflows -> 0..Minute]
    /\ held \subseteq Attempt
    /\ loop.left \in Nat
    /\ \/ loop.by = {}
       \/ \E t \in held : loop.by = {t}

\* The row as its readers know it.
Record == INSTANCE WorkflowRecord
              WITH result <- [w \in Workflows |-> status[w] = "SUCCESS"]

\* Late updates included, rows keep the promise made to their readers
\* (extract_metadata_workflow.py:94-119: an ERROR is never written by an
\* execution that has tried to write its SUCCESS).
RecordSpec == Record!Spec

\* However long the loop is blocked, every execution ends: attempts are given up
\* and retried a bounded number of times (extract_metadata_workflow.py:62-119).
ExecutionsEnd == \A w \in Workflows : <>(answer[w] = "over")

\* An update has one attempt of a minute, so whatever blocks the loop may take it
\* from another workflow and leave its row in PROCESSING for good: a document that
\* is read, an answer that is matched, an update that waits for a lock.  That needs
\* a minute of blocking work after the update was handed out: while all of it, of
\* all attempts of all activities, takes less in sum, every ended execution has
\* ended its row.
BlockingTicks ==
    UNION {{w} \X {a} \X (1..MaximumAttempts(a)) \X (1..load[w][a]) :
               w \in Workflows, a \in Activities}

RowsEndWhenQuick ==
    Cardinality(BlockingTicks) < Minute =>
        \A w \in Workflows : answer[w] = "over" => status[w] \in {"SUCCESS", "ERROR"}
=============================================================================
