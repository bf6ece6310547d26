----------------------------- MODULE StatusStream -----------------------------
(***************************************************************************)
(* One API process: POST requests that create rows and event streams that  *)
(* poll them, on one event loop and one pool of database connections.      *)
(* The rows behave as WorkflowRecord says (WorkflowLifecycle implements    *)
(* it); the executions that end them belong to another process.            *)
(*                                                                         *)
(* A stream holds the connection of its Depends(get_db_session) until its  *)
(* response is over, and a second one from a poll until the event of that  *)
(* poll is sent.  A POST holds one while it awaits Temporal.  Waiting for  *)
(* a connection blocks the event loop, so nothing in this process gives    *)
(* one back meanwhile and the wait ends in sqlalchemy.exc.TimeoutError.    *)
(***************************************************************************)
EXTENDS Naturals, FiniteSets

CONSTANTS
    Workflows,      \* the workflows POST requests create
    Streams,        \* the clients' event streams
    Capacity,       \* connections of the pool, its overflow included
    DatabaseFaults  \* whether a statement may raise SQLAlchemyError

ASSUME StreamAssumption ==
    /\ IsFiniteSet(Workflows) /\ IsFiniteSet(Streams)
    /\ Workflows \cap Streams = {}
    /\ Capacity \in Nat
    /\ DatabaseFaults \in BOOLEAN

VARIABLES
    status, result, \* the rows, as in WorkflowRecord
    post,           \* where the POST of each workflow stands
    stream,         \* where each stream stands
    watched,        \* the workflow a stream polls
    sent,           \* the last event a stream has yielded
    gone,           \* the stream's client has disconnected
    held            \* connections each handler has checked out

Record == INSTANCE WorkflowRecord

rows       == <<status, result>>
streamVars == <<stream, watched, sent, gone>>
vars       == <<rows, post, streamVars, held>>

Terminal == Record!Terminal
Handlers == Workflows \cup Streams

\* The connections checked out of the pool: the k-th of each handler.
CheckedOut == UNION {{h} \X (1..held[h]) : h \in Handlers}

InUse == Cardinality(CheckedOut)
Available == InUse < Capacity

Polling == {"open", "sending"}

Init ==
    /\ Record!Init
    /\ post    = [w \in Workflows |-> "idle"]
    /\ stream  = [s \in Streams |-> "closed"]
    /\ watched \in [Streams -> Workflows]
    /\ sent    = [s \in Streams |-> "none"]
    /\ gone    = [s \in Streams |-> FALSE]
    /\ held    = [h \in Handlers |-> 0]

-----------------------------------------------------------------------------
(* POST /workflows *)

\* The refresh that follows the commit begins a new transaction, and the
\* handler awaits Temporal inside it.
Post(w) ==
    /\ post[w] = "idle"
    /\ Available
    /\ Record!Create(w)
    /\ post' = [post EXCEPT ![w] = "starting"]
    /\ held' = [held EXCEPT ![w] = 1]
    /\ UNCHANGED streamVars

PostRefused(w) ==
    /\ post[w] = "idle"
    /\ ~Available \/ DatabaseFaults
    /\ post' = [post EXCEPT ![w] = "failed"]
    /\ UNCHANGED <<rows, streamVars, held>>

\* Mutant of PostAnswers: the session is closed only when the start succeeds.
PostAnswersLeaking(w) ==
    /\ post[w] = "starting"
    /\ \/ /\ post' = [post EXCEPT ![w] = "started"]
          /\ held' = [held EXCEPT ![w] = 0]
          /\ UNCHANGED rows
       \/ /\ post' = [post EXCEPT ![w] = "failed"]
          /\ Record!Fail(w)
          /\ UNCHANGED held
    /\ UNCHANGED streamVars

PostAnswers(w) ==
    /\ post[w] = "starting"
    /\ \/ /\ post' = [post EXCEPT ![w] = "started"]
          /\ UNCHANGED rows
       \/ /\ post' = [post EXCEPT ![w] = "failed"]
          /\ Record!Fail(w)
    /\ held' = [held EXCEPT ![w] = 0]
    /\ UNCHANGED streamVars

\* The execution, in the worker's process, ends its row.
RowEnds(w) ==
    /\ post[w] \in {"starting", "started"}
    /\ Record!End(w)
    /\ UNCHANGED <<post, streamVars, held>>

-----------------------------------------------------------------------------
(* GET /workflows/{id}/stream *)

Open(s) ==
    /\ stream[s] = "closed"
    /\ status[watched[s]] # "none"
    /\ Available
    /\ stream' = [stream EXCEPT ![s] = "open"]
    /\ held'   = [held EXCEPT ![s] = 1]
    /\ UNCHANGED <<rows, post, watched, sent, gone>>

OpenFails(s) ==
    /\ stream[s] = "closed"
    /\ ~Available \/ DatabaseFaults
    /\ stream' = [stream EXCEPT ![s] = "failed"]
    /\ UNCHANGED <<rows, post, watched, sent, gone, held>>

\* One turn of the loop up to the yield: no await lies between the check for a
\* disconnect and the yield, so the event is the status of this very moment.
Poll(s) ==
    /\ stream[s] = "open"
    /\ ~gone[s]
    /\ Available
    /\ stream' = [stream EXCEPT ![s] = "sending"]
    /\ sent'   = [sent EXCEPT ![s] = status[watched[s]]]
    /\ held'   = [held EXCEPT ![s] = @ + 1]
    /\ UNCHANGED <<rows, post, watched, gone>>

\* The HTTPException of a failed poll ends a response that has begun.
PollFails(s) ==
    /\ stream[s] = "open"
    /\ ~gone[s]
    /\ ~Available \/ DatabaseFaults
    /\ stream' = [stream EXCEPT ![s] = "failed"]
    /\ held'   = [held EXCEPT ![s] = 0]
    /\ UNCHANGED <<rows, post, watched, sent, gone>>

\* Mutants of Sent, from LoopOn: the loop breaks on the row, or on one status.
LoopOn(s, break) ==
    /\ stream[s] = "sending"
    /\ ~gone[s]
    /\ stream' = [stream EXCEPT ![s] = IF break THEN "ended" ELSE "open"]
    /\ held'   = [held EXCEPT ![s] = IF break THEN 0 ELSE @ - 1]
    /\ UNCHANGED <<rows, post, watched, sent, gone>>

SentBreaksOnRow(s) == LoopOn(s, status[watched[s]] \in Terminal)
SentBreaksOnSuccess(s) == LoopOn(s, sent[s] = "SUCCESS")

\* The event is out: the poll's session closes, and the loop breaks on the
\* status it has yielded, not on the status the row has by now.
Sent(s) ==
    /\ stream[s] = "sending"
    /\ ~gone[s]
    /\ IF sent[s] \in Terminal
       THEN /\ stream' = [stream EXCEPT ![s] = "ended"]
            /\ held'   = [held EXCEPT ![s] = 0]
       ELSE /\ stream' = [stream EXCEPT ![s] = "open"]
            /\ held'   = [held EXCEPT ![s] = @ - 1]
    /\ UNCHANGED <<rows, post, watched, sent, gone>>

Disconnect(s) ==
    /\ stream[s] \in Polling
    /\ gone' = [gone EXCEPT ![s] = TRUE]
    /\ UNCHANGED <<rows, post, stream, watched, sent, held>>

\* Mutant of Leave: a cancelled response closes one session only.
LeaveKeepsSession(s) ==
    /\ stream[s] \in Polling
    /\ gone[s]
    /\ stream' = [stream EXCEPT ![s] = "left"]
    /\ held'   = [held EXCEPT ![s] = @ - 1]
    /\ UNCHANGED <<rows, post, watched, sent, gone>>

\* is_disconnected() at the head of the loop, or the cancellation of the
\* response: both leave the two sessions.
Leave(s) ==
    /\ stream[s] \in Polling
    /\ gone[s]
    /\ stream' = [stream EXCEPT ![s] = "left"]
    /\ held'   = [held EXCEPT ![s] = 0]
    /\ UNCHANGED <<rows, post, watched, sent, gone>>

-----------------------------------------------------------------------------

Loop(s) == Poll(s) \/ PollFails(s) \/ Sent(s) \/ Leave(s)

Resting ==
    /\ \A w \in Workflows : post[w] \in {"started", "failed"} /\ status[w] # "PROCESSING"
    /\ \A s \in Streams : stream[s] \notin Polling
    /\ UNCHANGED vars

Next ==
    \/ \E w \in Workflows : Post(w) \/ PostRefused(w) \/ PostAnswers(w) \/ RowEnds(w)
    \/ \E s \in Streams : Open(s) \/ OpenFails(s) \/ Loop(s) \/ Disconnect(s)
    \/ Resting

Spec == Init /\ [][Next]_vars

(***************************************************************************)
(* The loop sleeps one second between polls and is then run again; clients *)
(* read what they are sent or disconnect; a start request returns or       *)
(* raises.  Rows are not owed an end: an orphan keeps its streams polling. *)
(***************************************************************************)
LoopFairness ==
    /\ \A s \in Streams : WF_vars(Loop(s))
    /\ \A w \in Workflows : WF_vars(PostAnswers(w))

FairSpec == Spec /\ LoopFairness

-----------------------------------------------------------------------------
(* Properties *)

TypeOK ==
    /\ status  \in [Workflows -> {"none"} \cup Record!WorkflowStatus]
    /\ result  \in [Workflows -> BOOLEAN]
    /\ post    \in [Workflows -> {"idle", "starting", "started", "failed"}]
    /\ stream  \in [Streams -> Polling \cup {"closed", "failed", "ended", "left"}]
    /\ watched \in [Streams -> Workflows]
    /\ sent    \in [Streams -> {"none"} \cup Record!WorkflowStatus]
    /\ gone    \in [Streams -> BOOLEAN]
    /\ held    \in [Handlers -> Nat]

\* The sessions of a handler that is over are closed, on every way out of the
\* loop, and the pool is never overdrawn.
ConnectionsAccounted ==
    /\ \A s \in Streams : stream[s] \notin Polling => held[s] = 0
    /\ \A w \in Workflows : post[w] # "starting" => held[w] = 0
    /\ InUse <= Capacity

\* A stream that ended by itself has told its client the status the row still
\* has: nothing is missed between a poll and the break.
LastEventIsTrue ==
    \A s \in Streams :
        stream[s] = "ended" =>
            sent[s] \in Terminal /\ sent[s] = status[watched[s]]

\* Events never go back: after a terminal status the client is sent nothing
\* more, and after PROCESSING only PROCESSING or the end.
EventsOnlyAdvance ==
    [][\A s \in Streams :
        /\ sent[s] \in Terminal => sent'[s] = sent[s] /\ stream'[s] # "open"
        /\ sent[s] = "PROCESSING" => sent'[s] # "none"]_vars

\* A stream does not outlive its workflow: once the row has ended, so does
\* every stream that polls it, whether its client reads or disconnects.
StreamEnds ==
    \A s \in Streams :
        stream[s] \in Polling /\ status[watched[s]] \in Terminal
            ~> stream[s] \notin Polling

\* However short the pool is, a POST gives its connection back, and a stream
\* the second one it took for a poll.
ConnectionsReturn ==
    /\ \A w \in Workflows : held[w] > 0 ~> held[w] = 0
    /\ \A s \in Streams : held[s] > 1 ~> held[s] < 2

=============================================================================
