-------------------------- MODULE WorkerLoop_proofs --------------------------
(***************************************************************************)
(* What holds of the rows whatever the documents, however long the worker  *)
(* is blocked, and whichever late attempts it still runs.                  *)
(***************************************************************************)
EXTENDS WorkerLoop, FiniteSetTheorems, TLAPS

-----------------------------------------------------------------------------
(***************************************************************************)
(* An update is attempted once, and an execution that waits for its last   *)
(* update waits for no other ever after.  So an attempt of a last update   *)
(* that is still in the worker, late or not, is the only one of its        *)
(* workflow, and its row is in PROCESSING until it runs.                   *)
(***************************************************************************)

ExecInv(w) ==
    /\ step[w] \in Updates => attempt[w] = 1
    /\ step[w] # "none" \/ answer[w] # "none" => status[w] # "none"
    /\ status[w] = "SUCCESS" => step[w] = "update_success"
    /\ status[w] = "ERROR" => step[w] = "update_error"

AttemptInv(t) ==
    /\ t.step \in Updates => t.n = 1
    /\ t.step \in LastUpdates => step[t.of] = t.step /\ status[t.of] = "PROCESSING"

Inv ==
    /\ TypeOK
    /\ \A w \in Workflows : ExecInv(w)
    /\ \A t \in held : AttemptInv(t)

LEMMA InvInit == Init => Inv
  BY WorkerLoopAssumption DEF Init, Inv, TypeOK, ExecInv, AttemptInv, Free, Updates, Activities

\* What is retried is no update, and stays within three attempts.
LEMMA LostKeeps ==
    ASSUME Inv, NEW w \in Workflows, NEW rest, rest \subseteq held,
           answer[w] = "none", step[w] \in Activities,
           Lost(w, rest), UNCHANGED <<load, status>>,
           loop' = Free \/ (loop' = loop /\ loop.by \subseteq rest)
    PROVE  Inv'
<1>1. CASE attempt[w] < MaximumAttempts(step[w])
  <2> DEFINE n == attempt[w] + 1
             t == [of |-> w, step |-> step[w], n |-> n]
  <2>1. step[w] \notin Updates
    BY <1>1 DEF Inv, ExecInv, MaximumAttempts, Updates
  <2>2. n \in 1..3
    BY <1>1 DEF Inv, TypeOK, MaximumAttempts
  <2>3. /\ step' = [step EXCEPT ![w] = step[w]]
        /\ attempt' = [attempt EXCEPT ![w] = n]
        /\ age' = [age EXCEPT ![w] = 0]
        /\ answer' = [answer EXCEPT ![w] = "none"]
        /\ held' = rest \cup {t}
    BY <1>1 DEF Lost, HandOut
  <2>4. step' = step /\ answer' = answer
    BY <2>3 DEF Inv, TypeOK
  <2>5. t \in Attempt
    BY <2>2 DEF Attempt
  <2>l. loop'.left \in Nat /\ (loop'.by = {} \/ \E u \in held' : loop'.by = {u})
    BY <2>3 DEF Inv, TypeOK, Free
  <2>6. TypeOK'
    BY <2>2, <2>3, <2>4, <2>5, <2>l, WorkerLoopAssumption DEF Inv, TypeOK
  <2>7. \A v \in Workflows : ExecInv(v)'
    BY <2>1, <2>3, <2>4 DEF Inv, TypeOK, ExecInv
  <2>8. \A u \in held' : AttemptInv(u)'
    BY <2>1, <2>3, <2>4 DEF Inv, AttemptInv, LastUpdates, Updates
  <2>9. QED BY <2>6, <2>7, <2>8 DEF Inv
<1>2. CASE ~(attempt[w] < MaximumAttempts(step[w]))
  <2>1. /\ answer' = [answer EXCEPT ![w] = "failed"]
        /\ held' = rest
        /\ UNCHANGED <<step, attempt, age>>
    BY <1>2 DEF Lost
  <2>2. TypeOK'
    BY <2>1 DEF Inv, TypeOK, Free
  <2>3. status[w] # "none"
    BY DEF Inv, ExecInv, Activities, Updates
  <2>4. \A v \in Workflows : ExecInv(v)'
    BY <2>1, <2>3 DEF Inv, TypeOK, ExecInv
  <2>5. \A u \in held' : AttemptInv(u)'
    BY <2>1 DEF Inv, AttemptInv
  <2>6. QED BY <2>2, <2>4, <2>5 DEF Inv
<1>3. QED BY <1>1, <1>2

\* A report that nobody awaits changes nothing but what the worker holds.
LEMMA ReportKeeps ==
    ASSUME Inv, NEW t \in held, NEW ended \in {"done", "failed"},
           Report(t, ended), UNCHANGED <<load, status>>,
           loop' = Free \/ (loop' = loop /\ t \notin loop.by)
    PROVE  Inv'
<1> USE DEF Inv
<1>1. t \in Attempt /\ t.of \in Workflows /\ t.step \in Activities
  BY DEF TypeOK, Attempt
<1>2. loop' = Free \/ (loop' = loop /\ loop.by \subseteq held \ {t})
  BY DEF TypeOK
<1>3. CASE ~Awaited(t) \/ ended = "done"
  <2>1. /\ held' = held \ {t}
        /\ UNCHANGED <<step, attempt, age>>
        /\ \/ answer' = answer
           \/ answer' = [answer EXCEPT ![t.of] = "done"] /\ Awaited(t)
    BY <1>3 DEF Report, execVars
  <2>2. TypeOK'
    BY <1>1, <1>2, <2>1 DEF TypeOK, Free
  <2>3. \A w \in Workflows : ExecInv(w)'
    BY <1>1, <2>1 DEF TypeOK, ExecInv, Awaited, Activities, Updates
  <2>4. \A u \in held' : AttemptInv(u)'
    BY <2>1 DEF AttemptInv
  <2>5. QED BY <2>2, <2>3, <2>4
<1>4. CASE Awaited(t) /\ ended # "done"
  <2>1. Lost(t.of, held \ {t})
    BY <1>4 DEF Report
  <2>2. answer[t.of] = "none" /\ step[t.of] \in Activities
    BY <1>1, <1>4 DEF Awaited
  <2>3. QED BY <1>1, <1>2, <2>1, <2>2, LostKeeps
<1>5. QED BY <1>3, <1>4

\* The lemma for the end of an attempt, which ends the row before it reports if it
\* is one of a last update.  No other attempt in the worker is one of a last update
\* of the same workflow.
LEMMA EndKeeps ==
    ASSUME Inv, NEW t \in held, End(t), UNCHANGED load
    PROVE  Inv'
<1> USE DEF Inv
<1>1. t \in Attempt /\ t.of \in Workflows /\ t.step \in Activities
  BY DEF TypeOK, Attempt
<1>2. loop' = Free /\ status' = Committed(t)
  BY DEF End
<1>3. PICK ended \in {"done", "failed"} :
          Report(t, ended) /\ (t.step \in Updates => ended = "done")
  BY DEF End
<1>5. CASE t.step \notin LastUpdates
  <2>1. status' = status
    BY <1>2, <1>5 DEF Committed, LastUpdates
  <2>2. QED BY <1>2, <1>3, <2>1, ReportKeeps
<1>6. CASE t.step \in LastUpdates
  <2> DEFINE end == IF t.step = "update_success" THEN "SUCCESS" ELSE "ERROR"
  <2>1. status' = [status EXCEPT ![t.of] = end]
    <3>1. CASE t.step = "update_success"  BY <1>2, <3>1 DEF Committed
    <3>2. CASE t.step = "update_error"    BY <1>2, <3>2 DEF Committed
    <3>3. QED BY <1>6, <3>1, <3>2 DEF LastUpdates
  <2>2. AttemptInv(t)
    OBVIOUS
  <2>r. /\ held' = held \ {t} /\ UNCHANGED <<step, attempt, age>>
        /\ \/ answer' = answer
           \/ answer' = [answer EXCEPT ![t.of] = "done"] /\ Awaited(t)
    <3>1. ended = "done"
      BY <1>3, <1>6 DEF LastUpdates, Updates
    <3>2. QED BY <1>3, <3>1 DEF Report, execVars
  <2>3. TypeOK'
    BY <1>1, <1>2, <2>r, <2>1 DEF TypeOK, Free
  <2>4. \A w \in Workflows : ExecInv(w)'
    BY <1>1, <2>r, <1>6, <2>1, <2>2
       DEF TypeOK, ExecInv, AttemptInv, LastUpdates, Awaited
  <2>5. ASSUME NEW u \in held'
        PROVE  AttemptInv(u)'
    <3>1. u \in held /\ u # t /\ u \in Attempt /\ AttemptInv(u)
      BY <2>r, <2>5 DEF TypeOK
    <3>2. CASE u.step \in LastUpdates /\ u.of = t.of
      <4>1. u.step = t.step /\ u.n = 1 /\ t.n = 1
        BY <1>6, <2>2, <3>1, <3>2 DEF AttemptInv, LastUpdates, Updates
      <4>2. u = t
        BY <1>1, <3>1, <3>2, <4>1 DEF Attempt
      <4>3. QED BY <3>1, <4>2
    <3>3. CASE u.step \notin LastUpdates \/ u.of # t.of
      BY <1>1, <2>r, <2>1, <3>1, <3>3 DEF TypeOK, AttemptInv, Attempt
    <3>4. QED BY <3>2, <3>3
  <2>6. QED BY <2>3, <2>4, <2>5
<1>7. QED BY <1>5, <1>6

\* An execution that hands out a last update was waiting for another activity.
LEMMA DecideKeeps ==
    ASSUME Inv, NEW w \in Workflows, Decide(w), UNCHANGED load
    PROVE  Inv'
<1> USE DEF Inv
<1> DEFINE a == FollowUp(step[w], answer[w])
           t == [of |-> w, step |-> a, n |-> 1]
<1>1. loop = Free /\ loop' = loop /\ status' = status /\ answer[w] \in {"done", "failed"}
  BY DEF Decide
<1>2. status[w] # "none"
  BY <1>1 DEF ExecInv
<1>3. CASE a = "over"
  <2>1. answer' = [answer EXCEPT ![w] = "over"] /\ UNCHANGED <<step, attempt, age, held>>
    BY <1>3 DEF Decide
  <2>2. TypeOK'
    BY <1>1, <2>1 DEF TypeOK
  <2>3. \A v \in Workflows : ExecInv(v)'
    BY <1>1, <1>2, <2>1 DEF TypeOK, ExecInv
  <2>4. \A u \in held' : AttemptInv(u)'
    BY <1>1, <2>1 DEF AttemptInv
  <2>5. QED BY <2>2, <2>3, <2>4
<1>4. CASE a # "over"
  <2>1. /\ step' = [step EXCEPT ![w] = a]
        /\ attempt' = [attempt EXCEPT ![w] = 1]
        /\ age' = [age EXCEPT ![w] = 0]
        /\ answer' = [answer EXCEPT ![w] = "none"]
        /\ held' = held \cup {t}
    BY <1>4 DEF Decide, HandOut
  <2>2. a \in Activities /\ step[w] \notin LastUpdates
    <3>1. step[w] \notin LastUpdates
      BY <1>4 DEF FollowUp
    <3>2. CASE answer[w] = "failed"
      BY <3>1, <3>2 DEF FollowUp, LastUpdates, Activities, Updates
    <3>3. CASE answer[w] # "failed"
      <4>1. step[w] \in {"none", "update_start", "extract_pdf_text",
                         "extract_metadata_with_llm", "resolve_metadata_suggestions"}
        BY <3>1 DEF TypeOK, LastUpdates, Activities, Updates
      <4>2. a \in {"update_start", "extract_pdf_text", "extract_metadata_with_llm",
                   "resolve_metadata_suggestions", "update_success"}
        BY <1>4, <3>1, <3>3, <4>1 DEF FollowUp, Following
      <4>3. QED BY <3>1, <4>2 DEF Activities, Updates
    <3>4. QED BY <3>2, <3>3
  <2>3. status[w] = "PROCESSING"
    BY <1>2, <2>2 DEF TypeOK, ExecInv, LastUpdates
  <2>4. TypeOK'
    BY <1>1, <2>1, <2>2, WorkerLoopAssumption DEF TypeOK, Attempt, Free
  <2>5. \A v \in Workflows : ExecInv(v)'
    BY <1>1, <2>1, <2>2, <2>3 DEF TypeOK, ExecInv
  <2>6. ASSUME NEW u \in held'
        PROVE  AttemptInv(u)'
    <3>1. CASE u = t
      BY <1>1, <2>1, <2>3, <3>1 DEF TypeOK, AttemptInv
    <3>2. CASE u \in held
      <4>1. u.of = w => u.step \notin LastUpdates
        BY <2>2, <3>2 DEF AttemptInv
      <4>2. QED BY <1>1, <2>1, <3>2, <4>1 DEF TypeOK, AttemptInv, Attempt
    <3>3. QED BY <2>1, <3>1, <3>2
  <2>7. QED BY <2>4, <2>5, <2>6
<1>5. QED BY <1>3, <1>4

LEMMA InvNext == Inv /\ [Next]_vars => Inv'
<1> SUFFICES ASSUME Inv, [Next]_vars
             PROVE  Inv'
  OBVIOUS
<1> USE DEF Inv
<1>a. load' = load
  BY DEF Next, Run, vars
<1> USE <1>a
<1>1. ASSUME NEW w \in Workflows, Start(w)
      PROVE  Inv'
  <2>1. /\ status' = [status EXCEPT ![w] = "PROCESSING"]
        /\ answer' = [answer EXCEPT ![w] = "done"]
        /\ UNCHANGED <<step, attempt, age, held, loop>>
        /\ status[w] = "none" /\ step[w] = "none"
    BY <1>1 DEF Start, TypeOK, ExecInv
  <2>2. TypeOK'
    BY <2>1 DEF TypeOK
  <2>3. \A v \in Workflows : ExecInv(v)'
    BY <2>1 DEF TypeOK, ExecInv, Updates
  <2>4. \A u \in held' : AttemptInv(u)'
    BY <2>1 DEF TypeOK, AttemptInv, Attempt, LastUpdates
  <2>5. QED BY <2>2, <2>3, <2>4
<1>2. ASSUME NEW w \in Workflows, TimeOut(w)
      PROVE  Inv'
  <2> DEFINE rest == {t \in held : t.of # w \/ t \in loop.by \/ Lingers(t)}
  <2>1. /\ Lost(w, rest)
        /\ answer[w] = "none" /\ step[w] \in Activities
        /\ status' = status /\ loop' = loop
    BY <1>2 DEF TimeOut, Late, Waits
  <2>2. loop.by \subseteq rest /\ rest \subseteq held
    BY DEF TypeOK
  <2>3. QED BY <2>1, <2>2, LostKeeps
<1>3. ASSUME NEW t \in held, Begin(t)
      PROVE  Inv'
  <2>1. loop' = [by |-> {t}, left |-> load[t.of][t.step]] /\ UNCHANGED <<status, execVars, held>>
    BY <1>3 DEF Begin
  <2>2. load[t.of][t.step] \in Nat
    BY WorkerLoopAssumption DEF TypeOK, Attempt
  <2>3. t \in held' /\ loop'.by = {t} /\ loop'.left \in Nat
    BY <2>1, <2>2
  <2>4. TypeOK'
    BY <2>1, <2>3 DEF TypeOK, execVars
  <2>5. QED BY <2>1, <2>4 DEF execVars, ExecInv, AttemptInv
<1>5. ASSUME NEW t \in held, Unanswered(t)
      PROVE  Inv'
  <2>1. t \notin loop.by /\ loop' = loop /\ status' = status
    BY <1>5 DEF Unanswered, Free
  <2>2. QED BY <1>5, <2>1, ReportKeeps DEF Unanswered
<1>6. ASSUME NEW t \in held, Drop(t)
      PROVE  Inv'
  <2>1. Report(t, "done") /\ status' = status /\ loop' = loop /\ t \notin loop.by
    BY <1>6 DEF Drop, Report
  <2>2. QED BY <2>1, ReportKeeps
<1>7. ASSUME Tick
      PROVE  Inv'
  <2>1. /\ loop' = [loop EXCEPT !.left = @ - 1]
        /\ loop.left > 0
        /\ age' = [w \in Workflows |->
                     IF Waits(w) /\ step[w] \in Updates THEN age[w] + 1 ELSE age[w]]
        /\ UNCHANGED <<status, step, answer, attempt, held>>
    BY <1>7 DEF Tick
  <2>2. age' \in [Workflows -> 0..Minute]
    BY <1>7, <2>1, WorkerLoopAssumption DEF Tick, Late, TypeOK
  <2>3. TypeOK'
    BY <2>1, <2>2 DEF TypeOK
  <2>4. QED BY <2>1, <2>3 DEF ExecInv, AttemptInv
<1>8. CASE UNCHANGED vars
  BY <1>8 DEF vars, execVars, TypeOK, ExecInv, AttemptInv
<1>9. QED BY <1>1, <1>2, <1>3, <1>5, <1>6, <1>7, <1>8, EndKeeps, DecideKeeps
             DEF Next, Run

\* At most one attempt is on the loop at a time, attempts in the worker are attempts of
\* the plan, and no update is older than its minute when it is run or given up.
THEOREM TypeCorrect == FairSpec => []TypeOK
<1>1. Inv => TypeOK
  BY DEF Inv
<1>2. QED BY InvInit, InvNext, <1>1, PTL DEF FairSpec

-----------------------------------------------------------------------------
(***************************************************************************)
(* The rows implement the record that their readers know: only Start and   *)
(* the last updates change a row, and those find it in PROCESSING.         *)
(***************************************************************************)

LEMMA RecordInit == Init => Record!Init
  BY DEF Init, Record!Init

LEMMA StartCreates ==
    ASSUME Inv, NEW w \in Workflows, Start(w)
    PROVE  Record!Create(w)
<1>1. /\ status[w] = "none"
      /\ status' = [status EXCEPT ![w] = "PROCESSING"]
      /\ status \in [Workflows -> {"none", "PROCESSING", "SUCCESS", "ERROR"}]
  BY DEF Start, Inv, TypeOK
<1>2. \A v \in Workflows : (status'[v] = "SUCCESS") <=> (status[v] = "SUCCESS")
  BY <1>1
<1>3. [v \in Workflows |-> status[v] = "SUCCESS"]' = [v \in Workflows |-> status[v] = "SUCCESS"]
  BY <1>2, Zenon
<1>4. QED BY <1>1, <1>3 DEF Record!Create

\* An update that is late ends the row all the same, as the first to do so.
LEMMA UpdateEnds ==
    ASSUME Inv, NEW t \in held, End(t)
    PROVE  Record!End(t.of) \/ status' = status
<1>1. t.of \in Workflows /\ AttemptInv(t)
      /\ status \in [Workflows -> {"none", "PROCESSING", "SUCCESS", "ERROR"}]
  BY DEF Inv, TypeOK, Attempt
<1>2. CASE t.step = "update_success"
  <2>1. status[t.of] = "PROCESSING" /\ status' = [status EXCEPT ![t.of] = "SUCCESS"]
    BY <1>1, <1>2 DEF End, Committed, AttemptInv, LastUpdates
  <2>2. \A v \in Workflows :
            (status'[v] = "SUCCESS") <=> (IF v = t.of THEN TRUE ELSE status[v] = "SUCCESS")
    BY <1>1, <2>1
  <2>3. [v \in Workflows |-> status[v] = "SUCCESS"]' =
            [[v \in Workflows |-> status[v] = "SUCCESS"] EXCEPT ![t.of] = TRUE]
    BY <1>1, <2>2, Zenon
  <2>4. QED BY <2>1, <2>3 DEF Record!End, Record!Succeed
<1>3. CASE t.step = "update_error"
  <2>1. status[t.of] = "PROCESSING" /\ status' = [status EXCEPT ![t.of] = "ERROR"]
    BY <1>1, <1>3 DEF End, Committed, AttemptInv, LastUpdates
  <2>2. \A v \in Workflows : (status'[v] = "SUCCESS") <=> (status[v] = "SUCCESS")
    BY <1>1, <2>1
  <2>3. [v \in Workflows |-> status[v] = "SUCCESS"]' = [v \in Workflows |-> status[v] = "SUCCESS"]
    BY <2>2, Zenon
  <2>4. QED BY <2>1, <2>3 DEF Record!End, Record!Fail
<1>4. CASE t.step \notin LastUpdates
  BY <1>4 DEF End, Committed, LastUpdates
<1>5. QED BY <1>2, <1>3, <1>4 DEF LastUpdates

LEMMA RecordStep == Inv /\ [Next]_vars => [Record!Next]_Record!recordVars
<1> SUFFICES ASSUME Inv, [Next]_vars
             PROVE  Record!Next \/ UNCHANGED Record!recordVars
  OBVIOUS
<1>1. status' = status => UNCHANGED Record!recordVars
  BY Zenon DEF Record!recordVars
<1>2. ASSUME NEW w \in Workflows, Start(w)
      PROVE  Record!Next
  BY <1>2, StartCreates DEF Record!Next
<1>3. ASSUME NEW t \in held, End(t)
      PROVE  Record!Next \/ status' = status
  <2>1. t.of \in Workflows
    BY DEF Inv, TypeOK, Attempt
  <2>2. QED BY <1>3, <2>1, UpdateEnds DEF Record!Next
<1>4. ASSUME NEW w \in Workflows, Decide(w) \/ TimeOut(w)
      PROVE  status' = status
  BY <1>4 DEF Decide, TimeOut
<1>5. ASSUME NEW t \in held, Begin(t) \/ Unanswered(t) \/ Drop(t)
      PROVE  status' = status
  BY <1>5 DEF Begin, Unanswered, Drop
<1>6. ASSUME Tick \/ UNCHANGED vars
      PROVE  status' = status
  BY <1>6 DEF Tick, vars
<1>7. QED
  <2>1. Record!Next \/ status' = status
    BY <1>2, <1>3, <1>4, <1>5, <1>6 DEF Next, Run
  <2>2. QED BY <1>1, <2>1

\* However many workflows there are and however long the worker is blocked, rows
\* keep the promise made to their readers: a row appears in PROCESSING and ends at
\* most once, as SUCCESS with a result or as ERROR without one.
THEOREM RowsKeepTheirPromise == FairSpec => RecordSpec
<1>1. QED
  BY InvInit, InvNext, RecordInit, RecordStep, PTL DEF FairSpec, RecordSpec, Record!Spec
-----------------------------------------------------------------------------
(***************************************************************************)
(* The age of an update is paid for with ticks of blocking work, and no    *)
(* tick is spent twice: what has passed for an update and what may still   *)
(* come are together no more than all the blocking work there is.          *)
(***************************************************************************)

\* The plan of run(): an execution only moves on in it.
Place == [none |-> 0, update_start |-> 1, extract_pdf_text |-> 2,
          extract_metadata_with_llm |-> 3, resolve_metadata_suggestions |-> 4,
          update_success |-> 5, update_error |-> 5]

\* The attempt is yet to be handed out.
ToCome(t) ==
    \/ Place[step[t.of]] < Place[t.step]
    \/ step[t.of] = t.step /\ t.n > attempt[t.of]

\* The k-th tick from the end of an attempt that is to come, that waits for the
\* loop, or that is on it.
Pending(t, k) ==
    \/ ToCome(t)
    \/ t \in held /\ (t \in loop.by => k <= loop.left)

AttemptOf(x) == [of |-> x[1], step |-> x[2], n |-> x[3]]

Remaining == {x \in BlockingTicks : Pending(AttemptOf(x), x[4])}

HeldInv(t) == t.n \in 1..MaximumAttempts(t.step) /\ ~ToCome(t)

LoopInv ==
    /\ \A t \in loop.by : loop.left <= load[t.of][t.step]
    /\ loop.left > 0 => loop.by # {}

\* No update is given up, so an execution that is over has ended its row.
RowInv(w) ==
    /\ step[w] \in Updates => answer[w] # "failed"
    /\ step[w] \in LastUpdates /\ answer[w] = "done" => status[w] \in {"SUCCESS", "ERROR"}
    /\ answer[w] = "over" => status[w] \in {"SUCCESS", "ERROR"}

ClockInv ==
    /\ \A t \in held : HeldInv(t)
    /\ LoopInv
    /\ \A w \in Workflows : age[w] + Cardinality(Remaining) <= Cardinality(BlockingTicks)
    /\ Cardinality(BlockingTicks) < Minute => \A w \in Workflows : RowInv(w)

LEMMA PlaceType == \A a \in Activities \cup {"none"} : Place[a] \in 0..5
  BY DEF Place, Activities, Updates

LEMMA AttemptsType == \A a \in Activities : MaximumAttempts(a) \in 1..3
  BY DEF MaximumAttempts, Activities, Updates

LEMMA TickOf ==
    ASSUME Inv
    PROVE  \A x : x \in BlockingTicks <=>
               /\ x = <<x[1], x[2], x[3], x[4]>>
               /\ x[1] \in Workflows /\ x[2] \in Activities
               /\ x[3] \in 1..MaximumAttempts(x[2]) /\ x[4] \in 1..load[x[1]][x[2]]
<1> DEFINE Of(w, a) == {w} \X {a} \X (1..MaximumAttempts(a)) \X (1..load[w][a])
<1>0. BlockingTicks = UNION {Of(w, a) : w \in Workflows, a \in Activities}
  BY DEF BlockingTicks
<1>1. ASSUME NEW x, x \in BlockingTicks
      PROVE  /\ x = <<x[1], x[2], x[3], x[4]>>
             /\ x[1] \in Workflows /\ x[2] \in Activities
             /\ x[3] \in 1..MaximumAttempts(x[2]) /\ x[4] \in 1..load[x[1]][x[2]]
  <2>1. PICK w \in Workflows, a \in Activities : x \in Of(w, a)
    BY <1>1 DEF BlockingTicks
  <2>2. QED BY <2>1
<1>2. ASSUME NEW x, x = <<x[1], x[2], x[3], x[4]>>,
             x[1] \in Workflows, x[2] \in Activities,
             x[3] \in 1..MaximumAttempts(x[2]), x[4] \in 1..load[x[1]][x[2]]
      PROVE  x \in BlockingTicks
  <2>1. x \in Of(x[1], x[2])
    BY <1>2
  <2> HIDE DEF Of
  <2>2. Of(x[1], x[2]) \in {Of(w, a) : w \in Workflows, a \in Activities}
    BY <1>2
  <2>3. QED BY <2>1, <2>2, <1>0
<1>3. QED BY <1>1, <1>2

LEMMA TicksFinite ==
    ASSUME Inv
    PROVE  IsFiniteSet(BlockingTicks)
<1> DEFINE Of(w, a) == {w} \X {a} \X (1..MaximumAttempts(a)) \X (1..load[w][a])
           who == Workflows \X Activities
           of == [p \in who |-> Of(p[1], p[2])]
           all == {Of(w, a) : w \in Workflows, a \in Activities}
<1>1. of \in Surjection(who, all)
  <2>1. \A p \in who : of[p] \in all
    OBVIOUS
  <2>2. ASSUME NEW o \in all PROVE \E p \in who : of[p] = o
    <3>1. PICK w \in Workflows, a \in Activities : o = Of(w, a)
      OBVIOUS
    <3>2. <<w, a>> \in who /\ of[<<w, a>>] = Of(w, a)
      OBVIOUS
    <3>3. QED BY <3>1, <3>2
  <2>3. of \in [who -> all]
    BY <2>1
  <2> HIDE DEF who, of, all
  <2>4. QED BY <2>2, <2>3 DEF Surjection
<1>2. IsFiniteSet(all)
  <2>1. IsFiniteSet(Activities)
    <3>1. /\ IsFiniteSet({"update_start"})
          /\ IsFiniteSet({"extract_pdf_text"})
      BY FS_Singleton
    <3>2. /\ IsFiniteSet({"update_start"} \cup {"update_success"})
          /\ IsFiniteSet({"extract_pdf_text"} \cup {"extract_metadata_with_llm"})
      BY <3>1, FS_AddElement
    <3>3. /\ IsFiniteSet(({"update_start"} \cup {"update_success"}) \cup {"update_error"})
          /\ IsFiniteSet(({"extract_pdf_text"} \cup {"extract_metadata_with_llm"})
                             \cup {"resolve_metadata_suggestions"})
      BY <3>2, FS_AddElement
    <3>4. Activities = (({"update_start"} \cup {"update_success"}) \cup {"update_error"})
                       \cup (({"extract_pdf_text"} \cup {"extract_metadata_with_llm"})
                                \cup {"resolve_metadata_suggestions"})
      BY DEF Activities, Updates
    <3>5. QED
      BY <3>3, <3>4, FS_Union
  <2>2. IsFiniteSet(who)
    BY <2>1, FS_Product, WorkerLoopAssumption
  <2> HIDE DEF who, of, all
  <2>3. QED BY <1>1, <2>2, FS_Surjection
<1>3. ASSUME NEW w \in Workflows, NEW a \in Activities PROVE IsFiniteSet(Of(w, a))
  <2> DEFINE last == MaximumAttempts(a)
             end == load[w][a]
             grid == (1..last) \X (1..end)
             at == [g \in grid |-> <<w, a, g[1], g[2]>>]
  <2>1. last \in Int /\ end \in Int
    BY WorkerLoopAssumption, AttemptsType DEF Inv, TypeOK
  <2>3. at \in [grid -> Of(w, a)]
    OBVIOUS
  <2>4. ASSUME NEW x \in Of(w, a) PROVE \E g \in grid : at[g] = x
    <3>1. x = <<w, a, x[3], x[4]>> /\ <<x[3], x[4]>> \in grid
      OBVIOUS
    <3>2. QED BY <3>1
  <2>5. at \in Surjection(grid, Of(w, a))
    BY <2>3, <2>4 DEF Surjection
  <2>6. IsFiniteSet(grid)
    <3> HIDE DEF last, end
    <3>1. IsFiniteSet(1..last) /\ IsFiniteSet(1..end)
      <4>1. 1 \in Int
        OBVIOUS
      <4>2. QED BY <2>1, <4>1, FS_Interval, Zenon
    <3>2. QED BY <3>1, FS_Product
  <2> HIDE DEF grid, at, Of
  <2>7. QED BY <2>5, <2>6, FS_Surjection
<1>4. BlockingTicks = UNION all
  BY DEF BlockingTicks
<1>5. \A o \in all : IsFiniteSet(o)
  BY <1>3
<1> HIDE DEF all
<1>6. QED BY <1>2, <1>4, <1>5, FS_UNION

\* What may still come is part of all the blocking work.
LEMMA RemainingFinite ==
    ASSUME Inv
    PROVE  /\ IsFiniteSet(Remaining)
           /\ Cardinality(Remaining) \in Nat /\ Cardinality(BlockingTicks) \in Nat
<1>1. Remaining \subseteq BlockingTicks
  BY DEF Remaining
<1>2. QED BY <1>1, TicksFinite, FS_Subset, FS_CardinalityType

\* A tick is one of an attempt that the plan may hand out.
LEMMA TickTyped ==
    ASSUME Inv, NEW x \in BlockingTicks
    PROVE  AttemptOf(x) \in Attempt /\ x[4] \in Nat
<1>1. /\ x[1] \in Workflows /\ x[2] \in Activities
      /\ x[3] \in 1..MaximumAttempts(x[2]) /\ x[4] \in 1..load[x[1]][x[2]]
  BY TickOf
<1>2. x[3] \in 1..3 /\ x[4] \in Nat
  BY <1>1, AttemptsType
<1>3. QED BY <1>1, <1>2 DEF AttemptOf, Attempt

\* A step that spends no tick, and for which no update grows older.
LEMMA CheapStep ==
    ASSUME Inv, Inv', ClockInv, UNCHANGED load,
           \A t \in Attempt, k \in Nat : Pending(t, k)' => Pending(t, k),
           \A w \in Workflows : age'[w] <= age[w],
           \A t \in held' : HeldInv(t)',
           LoopInv',
           Cardinality(BlockingTicks) < Minute => \A w \in Workflows : RowInv(w)'
    PROVE  ClockInv'
<1>1. BlockingTicks' = BlockingTicks
  BY DEF BlockingTicks
<1>2. Remaining' \subseteq Remaining
  <2> SUFFICES ASSUME NEW x \in Remaining' PROVE x \in Remaining
    OBVIOUS
  <2>1. x \in BlockingTicks /\ Pending(AttemptOf(x), x[4])'
    BY <1>1 DEF Remaining
  <2>2. AttemptOf(x) \in Attempt /\ x[4] \in Nat
    BY <2>1, TickTyped
  <2>3. Pending(AttemptOf(x), x[4])
    BY <2>1, <2>2 DEF AttemptOf
  <2>4. QED BY <2>1, <2>3 DEF Remaining
<1>3. Cardinality(Remaining') <= Cardinality(Remaining) /\ Cardinality(Remaining') \in Nat
  BY <1>2, RemainingFinite, FS_Subset, FS_CardinalityType
<1>4. ASSUME NEW w \in Workflows
      PROVE  age'[w] + Cardinality(Remaining') <= Cardinality(BlockingTicks')
  <2>1. age[w] + Cardinality(Remaining) <= Cardinality(BlockingTicks)
    BY DEF ClockInv
  <2>2. age[w] \in Int /\ age'[w] \in Int
    BY WorkerLoopAssumption DEF Inv, TypeOK
  <2>3. QED BY <1>1, <1>3, <2>1, <2>2, RemainingFinite
<1>5. QED BY <1>1, <1>4 DEF ClockInv

\* What the worker holds, and what still holds of it when the plan moves on.
LEMMA HeldStays ==
    ASSUME ClockInv, NEW t \in held, t \in Attempt,
           \A u \in Attempt : ToCome(u)' => ToCome(u)
    PROVE  HeldInv(t)'
  BY DEF ClockInv, HeldInv

\* An attempt that is added to what the worker held, or kept, was to come.
LEMMA PendingMoves ==
    ASSUME \A u \in Attempt : ToCome(u)' => ToCome(u),
           \A u \in Attempt : u \in held' => u \in held \/ ToCome(u),
           loop' = loop \/ (loop' = Free /\ loop.by \cap held' = {})
    PROVE  \A t \in Attempt, k \in Nat : Pending(t, k)' => Pending(t, k)
  BY DEF Pending, Free

\* An update is given up only if it is late.
LEMMA LostClock ==
    ASSUME Inv, Inv', ClockInv, NEW w \in Workflows, NEW rest, rest \subseteq held,
           answer[w] = "none", step[w] \in Activities,
           Lost(w, rest), UNCHANGED <<load, status>>,
           loop' = loop \/ (loop' = Free /\ loop.by \cap rest = {}),
           loop.by \subseteq held,
           step[w] \in Updates => Cardinality(BlockingTicks) >= Minute
    PROVE  ClockInv'
<1>t. /\ step \in [Workflows -> Activities \cup {"none"}] /\ attempt \in [Workflows -> 0..3]
      /\ answer \in [Workflows -> {"none", "done", "failed", "over"}]
      /\ age \in [Workflows -> 0..Minute] /\ Minute \in Nat /\ held \subseteq Attempt
  BY WorkerLoopAssumption DEF Inv, TypeOK
<1>l. LoopInv'
  BY DEF ClockInv, LoopInv, Free
<1>c. Cardinality(BlockingTicks) \in Nat
  BY RemainingFinite
<1>1. CASE attempt[w] < MaximumAttempts(step[w])
  <2> DEFINE n == attempt[w] + 1
             t == [of |-> w, step |-> step[w], n |-> n]
  <2>1. /\ step' = [step EXCEPT ![w] = step[w]]
        /\ attempt' = [attempt EXCEPT ![w] = n]
        /\ age' = [age EXCEPT ![w] = 0]
        /\ answer' = [answer EXCEPT ![w] = "none"]
        /\ held' = rest \cup {t}
    BY <1>1 DEF Lost, HandOut
  <2>2. step' = step /\ answer' = answer /\ attempt'[w] = n
        /\ \A v \in Workflows : attempt'[v] \in Nat /\ attempt'[v] >= attempt[v]
    BY <2>1, <1>t
  <2>3. \A u \in Attempt : ToCome(u)' => ToCome(u)
    BY <2>2, <1>t DEF ToCome, Attempt
  <2>4. ToCome(t) /\ t \notin held
    <3>1. ToCome(t)
      BY <1>t DEF ToCome
    <3>2. QED BY <3>1 DEF ClockInv, HeldInv
  <2>p. \A u \in Attempt, k \in Nat : Pending(u, k)' => Pending(u, k)
    <3>1. \A u \in Attempt : u \in held' => u \in held \/ ToCome(u)
      BY <2>1, <2>4
    <3>2. loop' = Free => loop.by \cap held' = {} \/ loop' = loop
      BY <2>1, <2>4
    <3>3. QED BY <2>3, <3>1, <3>2, PendingMoves
  <2>5. ASSUME NEW u \in held' PROVE HeldInv(u)'
    <3>1. CASE u = t
      <4>1. u.of = w /\ u.step = step[w] /\ u.n = n
        BY <3>1
      <4>2. n \in 1..MaximumAttempts(step[w])
        BY <1>1, <1>t, AttemptsType
      <4>3. Place[step[w]] \in 0..5
        BY PlaceType
      <4>4. ~ToCome(u)'
        BY <4>1, <4>3, <2>2, <1>t DEF ToCome
      <4>5. QED BY <4>1, <4>2, <4>4 DEF HeldInv
    <3>2. CASE u \in rest
      BY <3>2, <2>3, <1>t, HeldStays
    <3>3. QED BY <2>1, <3>1, <3>2
  <2>6. \A v \in Workflows : age'[v] <= age[v]
    BY <2>1, <1>t
  <2>7. Cardinality(BlockingTicks) < Minute => \A v \in Workflows : RowInv(v)'
    BY <2>2 DEF ClockInv, RowInv
  <2>8. QED BY <1>l, <2>p, <2>5, <2>6, <2>7, CheapStep
<1>2. CASE ~(attempt[w] < MaximumAttempts(step[w]))
  <2>1. /\ answer' = [answer EXCEPT ![w] = "failed"]
        /\ held' = rest
        /\ UNCHANGED <<step, attempt, age>>
    BY <1>2 DEF Lost
  <2>2. \A u \in Attempt : ToCome(u)' => ToCome(u)
    BY <2>1 DEF ToCome
  <2>3. \A u \in Attempt, k \in Nat : Pending(u, k)' => Pending(u, k)
    BY <2>1, <2>2, PendingMoves
  <2>4. \A u \in held' : HeldInv(u)'
    BY <2>1, <2>2, <1>t, HeldStays
  <2>5. \A v \in Workflows : age'[v] <= age[v]
    BY <2>1, <1>t
  <2>6. ASSUME Cardinality(BlockingTicks) < Minute, NEW v \in Workflows
        PROVE  RowInv(v)'
    <3>1. RowInv(v) /\ step[w] \notin Updates
      BY <2>6, <1>c, <1>t DEF ClockInv
    <3>2. QED BY <2>1, <3>1, <1>t DEF RowInv, LastUpdates, Updates
  <2>7. QED BY <1>l, <2>3, <2>4, <2>5, <2>6, CheapStep
<1>3. QED BY <1>1, <1>2

\* A report of an attempt, one of an update if its row is written.
LEMMA ReportClock ==
    ASSUME Inv, Inv', ClockInv, NEW t \in held, NEW ended \in {"done", "failed"},
           Report(t, ended), UNCHANGED load,
           (loop' = loop /\ t \notin loop.by) \/ (loop' = Free /\ loop.by = {t}),
           t.step \in Updates => ended = "done",
           status' = status \/ ended = "done",
           t.step \in LastUpdates => status'[t.of] \in {"SUCCESS", "ERROR"},
           \A v \in Workflows :
               status[v] \in {"SUCCESS", "ERROR"} => status'[v] \in {"SUCCESS", "ERROR"}
    PROVE  ClockInv'
<1>t. /\ answer \in [Workflows -> {"none", "done", "failed", "over"}]
      /\ age \in [Workflows -> 0..Minute] /\ Minute \in Nat /\ held \subseteq Attempt
      /\ loop.by \subseteq held
  BY WorkerLoopAssumption DEF Inv, TypeOK
<1>1. t.of \in Workflows /\ t.step \in Activities
  BY <1>t DEF Attempt
<1>2. CASE Awaited(t) /\ ended = "failed"
  <2>1. Lost(t.of, held \ {t})
    BY <1>2 DEF Report
  <2>2. answer[t.of] = "none" /\ step[t.of] = t.step /\ t.step \notin Updates
    BY <1>2 DEF Awaited
  <2>3. status' = status /\ held \ {t} \subseteq held
    BY <1>2
  <2>4. loop' = loop \/ (loop' = Free /\ loop.by \cap (held \ {t}) = {})
    OBVIOUS
  <2>5. QED BY <1>1, <1>t, <2>1, <2>2, <2>3, <2>4, LostClock
<1>3. CASE ~Awaited(t) \/ ended = "done"
  <2>1. /\ held' = held \ {t}
        /\ UNCHANGED <<step, attempt, age>>
        /\ \/ answer' = answer
           \/ answer' = [answer EXCEPT ![t.of] = "done"] /\ step[t.of] = t.step
    BY <1>3 DEF Report, execVars, Awaited
  <2>2. \A u \in Attempt : ToCome(u)' => ToCome(u)
    BY <2>1 DEF ToCome
  <2>3. \A u \in Attempt, k \in Nat : Pending(u, k)' => Pending(u, k)
    BY <2>1, <2>2, PendingMoves
  <2>4. \A u \in held' : HeldInv(u)'
    BY <2>1, <2>2, <1>t, HeldStays
  <2>5. \A v \in Workflows : age'[v] <= age[v]
    BY <2>1, <1>t
  <2>6. ASSUME Cardinality(BlockingTicks) < Minute, NEW v \in Workflows
        PROVE  RowInv(v)'
    <3>1. RowInv(v)
      BY <2>6 DEF ClockInv
    <3>2. CASE v = t.of /\ answer' = [answer EXCEPT ![t.of] = "done"] /\ step[t.of] = t.step
      BY <3>2, <1>1, <2>1, <1>t DEF RowInv
    <3>3. CASE answer'[v] = answer[v]
      BY <3>1, <3>3, <2>1 DEF RowInv
    <3>4. QED BY <3>2, <3>3, <2>1, <1>1, <1>t
  <2>7. LoopInv'
    BY DEF ClockInv, LoopInv, Free
  <2>8. QED BY <2>3, <2>4, <2>5, <2>6, <2>7, CheapStep
<1>4. QED BY <1>2, <1>3

\* An attempt that ends: an update has ended its row when it reports.
LEMMA EndClock ==
    ASSUME Inv, Inv', ClockInv, NEW t \in held, End(t), UNCHANGED load
    PROVE  ClockInv'
<1>t. /\ status \in [Workflows -> {"none", "PROCESSING", "SUCCESS", "ERROR"}]
      /\ held \subseteq Attempt
  BY DEF Inv, TypeOK
<1>1. t.of \in Workflows /\ loop' = Free /\ status' = Committed(t) /\ loop.by = {t}
  <2>1. loop.by = {t}
    BY DEF End, Inv, TypeOK
  <2>2. QED BY <1>t, <2>1 DEF Attempt, End
<1>2. PICK ended \in {"done", "failed"} :
          Report(t, ended) /\ (t.step \in Updates => ended = "done")
  BY DEF End
<1>3. /\ t.step \in LastUpdates => status'[t.of] \in {"SUCCESS", "ERROR"}
      /\ \A v \in Workflows :
             status[v] \in {"SUCCESS", "ERROR"} => status'[v] \in {"SUCCESS", "ERROR"}
      /\ status' = status \/ t.step \in Updates
  <2>1. CASE t.step = "update_success"
    BY <2>1, <1>1, <1>t DEF Committed, Updates
  <2>2. CASE t.step = "update_error"
    BY <2>2, <1>1, <1>t DEF Committed, Updates
  <2>3. CASE t.step \notin LastUpdates
    BY <2>3, <1>1, <1>t DEF Committed, LastUpdates
  <2>4. QED BY <2>1, <2>2, <2>3 DEF LastUpdates
<1>4. QED BY <1>1, <1>2, <1>3, ReportClock

\* What run() awaits next stands later in its plan.
LEMMA PlanMovesOn ==
    ASSUME NEW s \in Activities \cup {"none"}, NEW ended \in {"done", "failed"},
           FollowUp(s, ended) # "over"
    PROVE  FollowUp(s, ended) \in Activities /\ Place[s] < Place[FollowUp(s, ended)]
<1>1. s \notin LastUpdates
  BY DEF FollowUp
<1>2. s \in {"none", "update_start", "extract_pdf_text",
             "extract_metadata_with_llm", "resolve_metadata_suggestions"}
  BY <1>1 DEF LastUpdates, Activities, Updates
<1>3. CASE ended = "failed"
  <2>1. FollowUp(s, ended) = "update_error"
    BY <1>1, <1>3 DEF FollowUp
  <2>2. QED BY <1>2, <2>1 DEF Place, Activities, Updates
<1>4. CASE ended = "done"
  <2>1. FollowUp(s, ended) = Following[s]
    BY <1>1, <1>4 DEF FollowUp
  <2>2. QED BY <1>2, <2>1 DEF Following, Place, Activities, Updates
<1>5. QED BY <1>3, <1>4

\* An execution that hands out an attempt had it to come.
LEMMA DecideClock ==
    ASSUME Inv, Inv', ClockInv, NEW w \in Workflows, Decide(w), UNCHANGED load
    PROVE  ClockInv'
<1> DEFINE a == FollowUp(step[w], answer[w])
           t == [of |-> w, step |-> a, n |-> 1]
<1>t. /\ step \in [Workflows -> Activities \cup {"none"}] /\ attempt \in [Workflows -> 0..3]
      /\ answer \in [Workflows -> {"none", "done", "failed", "over"}]
      /\ age \in [Workflows -> 0..Minute] /\ Minute \in Nat /\ held \subseteq Attempt
  BY WorkerLoopAssumption DEF Inv, TypeOK
<1>1. loop' = loop /\ status' = status /\ answer[w] \in {"done", "failed"}
  BY DEF Decide
<1>l. LoopInv'
  BY <1>1 DEF ClockInv, LoopInv
<1>2. CASE a = "over"
  <2>1. answer' = [answer EXCEPT ![w] = "over"] /\ UNCHANGED <<step, attempt, age, held>>
    BY <1>2 DEF Decide
  <2>2. step[w] \in LastUpdates
    <3>1. a # "update_error" /\ (step[w] \notin LastUpdates => step[w] \in DOMAIN Following)
      BY <1>2, <1>t DEF Following, LastUpdates, Activities, Updates
    <3>2. QED BY <1>2, <3>1 DEF FollowUp, Following
  <2>3. \A u \in Attempt : ToCome(u)' => ToCome(u)
    BY <2>1 DEF ToCome
  <2>4. \A u \in Attempt, k \in Nat : Pending(u, k)' => Pending(u, k)
    BY <1>1, <2>1, <2>3, PendingMoves
  <2>5. \A u \in held' : HeldInv(u)'
    BY <2>1, <2>3, <1>t, HeldStays
  <2>6. \A v \in Workflows : age'[v] <= age[v]
    BY <2>1, <1>t
  <2>7. ASSUME Cardinality(BlockingTicks) < Minute, NEW v \in Workflows
        PROVE  RowInv(v)'
    <3>1. RowInv(v) /\ RowInv(w)
      BY <2>7 DEF ClockInv
    <3>2. status[w] \in {"SUCCESS", "ERROR"}
      BY <3>1, <1>1, <2>2 DEF RowInv, LastUpdates, Updates
    <3>3. QED BY <3>1, <3>2, <2>1, <1>1, <1>t DEF RowInv
  <2>8. QED BY <1>l, <2>4, <2>5, <2>6, <2>7, CheapStep
<1>3. CASE a # "over"
  <2>1. /\ step' = [step EXCEPT ![w] = a]
        /\ attempt' = [attempt EXCEPT ![w] = 1]
        /\ age' = [age EXCEPT ![w] = 0]
        /\ answer' = [answer EXCEPT ![w] = "none"]
        /\ held' = held \cup {t}
    BY <1>3 DEF Decide, HandOut
  <2>2. a \in Activities /\ Place[step[w]] < Place[a]
        /\ Place[a] \in 0..5 /\ Place[step[w]] \in 0..5
    BY <1>1, <1>3, <1>t, PlanMovesOn, PlaceType
  <2> HIDE DEF a
  <2>3. step'[w] = a /\ attempt'[w] = 1 /\ answer'[w] = "none"
        /\ \A v \in Workflows : v # w =>
               step'[v] = step[v] /\ attempt'[v] = attempt[v] /\ answer'[v] = answer[v]
    BY <2>1, <1>t
  <2>4. ASSUME NEW u \in Attempt, ToCome(u)'
        PROVE  ToCome(u)
    <3>1. u.of \in Workflows /\ u.step \in Activities /\ Place[u.step] \in 0..5
      BY PlaceType DEF Attempt
    <3>2. CASE u.of = w
      <4>1. Place[a] <= Place[u.step]
        BY <2>2, <2>3, <2>4, <3>1, <3>2 DEF ToCome
      <4>2. QED BY <2>2, <3>1, <3>2, <4>1 DEF ToCome
    <3>3. CASE u.of # w
      BY <2>3, <2>4, <3>1, <3>3 DEF ToCome
    <3>4. QED BY <3>2, <3>3
  <2>5. ToCome(t)
    BY <2>2 DEF ToCome
  <2>6. \A u \in Attempt, k \in Nat : Pending(u, k)' => Pending(u, k)
    <3>1. \A u \in Attempt : u \in held' => u \in held \/ ToCome(u)
      BY <2>1, <2>5
    <3>2. QED BY <1>1, <2>4, <3>1, PendingMoves
  <2>7. ASSUME NEW u \in held' PROVE HeldInv(u)'
    <3>1. CASE u = t
      <4>1. u.of = w /\ u.step = a /\ u.n = 1
        BY <3>1
      <4>2. ~ToCome(u)'
        BY <4>1, <2>2, <2>3 DEF ToCome
      <4>3. 1 \in 1..MaximumAttempts(a)
        BY <2>2, AttemptsType
      <4>4. QED BY <4>1, <4>2, <4>3 DEF HeldInv
    <3>2. CASE u \in held
      BY <3>2, <2>4, <1>t, HeldStays
    <3>3. QED BY <2>1, <3>1, <3>2
  <2>8. \A v \in Workflows : age'[v] <= age[v]
    BY <2>1, <1>t
  <2>9. Cardinality(BlockingTicks) < Minute => \A v \in Workflows : RowInv(v)'
    BY <2>3, <1>1, <1>t DEF ClockInv, RowInv
  <2>10. QED BY <1>l, <2>6, <2>7, <2>8, <2>9, CheapStep
<1>4. QED BY <1>2, <1>3

\* A tick of the clock is the next one of the attempt on the loop: it is spent.
LEMMA TickClock ==
    ASSUME Inv, Inv', ClockInv, Tick, UNCHANGED load
    PROVE  ClockInv'
<1>t. /\ age \in [Workflows -> 0..Minute] /\ Minute \in Nat /\ held \subseteq Attempt
      /\ loop.left \in Nat /\ load \in [Workflows -> [Activities -> Nat]]
  BY WorkerLoopAssumption DEF Inv, TypeOK
<1>1. /\ loop'.left = loop.left - 1 /\ loop'.by = loop.by /\ loop.left > 0
      /\ \A w \in Workflows : age'[w] = age[w] \/ age'[w] = age[w] + 1
      /\ UNCHANGED <<status, step, answer, attempt, held>>
  <2>1. loop' = [loop EXCEPT !.left = @ - 1] /\ loop.left > 0
    BY DEF Tick
  <2>2. loop'.left = loop.left - 1 /\ loop'.by = loop.by
    BY <2>1
  <2>3. QED BY <2>1, <2>2 DEF Tick
<1>2. PICK t \in held : loop.by = {t}
  BY <1>1 DEF Inv, TypeOK, ClockInv, LoopInv
<1> DEFINE x == <<t.of, t.step, t.n, loop.left>>
<1>3. /\ t.of \in Workflows /\ t.step \in Activities /\ t \in Attempt
      /\ t.n \in 1..MaximumAttempts(t.step) /\ ~ToCome(t)
      /\ loop.left \in 1..load[t.of][t.step]
  BY <1>1, <1>2, <1>t DEF ClockInv, HeldInv, LoopInv, Attempt
<1>4. BlockingTicks' = BlockingTicks
  BY DEF BlockingTicks
<1>x. x[1] = t.of /\ x[2] = t.step /\ x[3] = t.n /\ x[4] = loop.left
      /\ x = <<x[1], x[2], x[3], x[4]>> /\ AttemptOf(x) = t
  BY <1>3 DEF AttemptOf, Attempt
<1> HIDE DEF x
<1>5. x \in Remaining
  <2>1. x \in BlockingTicks
    BY <1>3, <1>x, TickOf
  <2>2. Pending(t, loop.left)
    BY <1>2, <1>t DEF Pending
  <2>3. QED BY <1>x, <2>1, <2>2 DEF Remaining
<1>6. Remaining' \subseteq Remaining \ {x}
  <2> SUFFICES ASSUME NEW y \in Remaining' PROVE y \in Remaining /\ y # x
    OBVIOUS
  <2>1. y \in BlockingTicks /\ Pending(AttemptOf(y), y[4])'
    BY <1>4 DEF Remaining
  <2>2. AttemptOf(y) \in Attempt /\ y[4] \in Nat
    BY <2>1, TickTyped
  <2> DEFINE u == AttemptOf(y)
  <2>u. Pending(u, y[4])' /\ u \in Attempt
    BY <2>1, <2>2
  <2> HIDE DEF u
  <2>5. ToCome(u)' => ToCome(u)
    BY <1>1 DEF ToCome
  <2>6. Pending(u, y[4])
    BY <2>u, <2>2, <2>5, <1>1, <1>t DEF Pending
  <2>7. ~(u = t /\ y[4] = loop.left)
    BY <2>u, <2>5, <1>1, <1>2, <1>3 DEF Pending
  <2>8. QED BY <1>x, <2>1, <2>6, <2>7 DEF Remaining, u
<1>7. /\ Cardinality(Remaining') + 1 <= Cardinality(Remaining)
      /\ Cardinality(Remaining') \in Nat
  <2>1. IsFiniteSet(Remaining)
    BY RemainingFinite
  <2>2. IsFiniteSet(Remaining \ {x}) /\ Cardinality(Remaining \ {x}) = Cardinality(Remaining) - 1
    BY <1>5, <2>1, FS_RemoveElement
  <2>3. IsFiniteSet(Remaining') /\ Cardinality(Remaining') <= Cardinality(Remaining \ {x})
    BY <1>6, <2>2, FS_Subset
  <2>4. QED BY <2>2, <2>3, RemainingFinite, FS_CardinalityType
<1>8. ASSUME NEW w \in Workflows
      PROVE  age'[w] + Cardinality(Remaining') <= Cardinality(BlockingTicks')
  <2>1. age[w] + Cardinality(Remaining) <= Cardinality(BlockingTicks) /\ age[w] \in Nat
    BY <1>t DEF ClockInv
  <2>2. age'[w] = age[w] \/ age'[w] = age[w] + 1
    BY <1>1
  <2>3. QED BY <1>4, <1>7, <2>1, <2>2, RemainingFinite
<1>9. \A u \in held' : HeldInv(u)'
  BY <1>1 DEF ClockInv, HeldInv, ToCome
<1>10. LoopInv'
  BY <1>1, <1>2, <1>3, <1>t DEF LoopInv
<1>11. Cardinality(BlockingTicks') < Minute => \A w \in Workflows : RowInv(w)'
  BY <1>1, <1>4 DEF ClockInv, RowInv
<1>12. QED BY <1>8, <1>9, <1>10, <1>11 DEF ClockInv

LEMMA ClockInit == Init => ClockInv
<1> SUFFICES ASSUME Init PROVE ClockInv
  OBVIOUS
<1>1. Inv
  BY InvInit
<1>2. Remaining \subseteq BlockingTicks
  BY DEF Remaining
<1>3. Cardinality(Remaining) <= Cardinality(BlockingTicks)
  BY <1>1, <1>2, TicksFinite, FS_Subset
<1>4. \A w \in Workflows : age[w] + Cardinality(Remaining) <= Cardinality(BlockingTicks)
  BY <1>1, <1>3, RemainingFinite DEF Init
<1>5. QED
  BY <1>4 DEF Init, ClockInv, LoopInv, RowInv, Free, Updates, LastUpdates

LEMMA ClockNext == Inv /\ ClockInv /\ [Next]_vars => ClockInv'
<1> SUFFICES ASSUME Inv, ClockInv, [Next]_vars PROVE ClockInv'
  OBVIOUS
<1>i. Inv' /\ load' = load
  BY InvNext DEF Next, Run, vars
<1>t. /\ step \in [Workflows -> Activities \cup {"none"}]
      /\ answer \in [Workflows -> {"none", "done", "failed", "over"}]
      /\ status \in [Workflows -> {"none", "PROCESSING", "SUCCESS", "ERROR"}]
      /\ age \in [Workflows -> 0..Minute] /\ Minute \in Nat /\ held \subseteq Attempt
      /\ load \in [Workflows -> [Activities -> Nat]] /\ loop.by \subseteq held
  BY WorkerLoopAssumption DEF Inv, TypeOK
<1>1. ASSUME NEW w \in Workflows, Start(w) PROVE ClockInv'
  <2>1. /\ status' = [status EXCEPT ![w] = "PROCESSING"]
        /\ answer' = [answer EXCEPT ![w] = "done"]
        /\ UNCHANGED <<step, attempt, age, held, loop>>
        /\ status[w] = "none" /\ step[w] = "none"
    BY <1>1 DEF Start, Inv, ExecInv
  <2>2. \A u \in Attempt, k \in Nat : Pending(u, k)' => Pending(u, k)
    BY <2>1 DEF Pending, ToCome
  <2>3. \A u \in held' : HeldInv(u)'
    BY <2>1 DEF ClockInv, HeldInv, ToCome
  <2>4. Cardinality(BlockingTicks) < Minute => \A v \in Workflows : RowInv(v)'
    BY <2>1, <1>t DEF ClockInv, RowInv, Updates, LastUpdates
  <2>5. LoopInv' /\ \A v \in Workflows : age'[v] <= age[v]
    BY <2>1, <1>i, <1>t DEF ClockInv, LoopInv
  <2>6. QED BY <1>i, <2>2, <2>3, <2>4, <2>5, CheapStep
<1>2. ASSUME NEW w \in Workflows, TimeOut(w) PROVE ClockInv'
  <2> DEFINE rest == {t \in held : t.of # w \/ t \in loop.by \/ Lingers(t)}
  <2>1. /\ Lost(w, rest) /\ rest \subseteq held /\ UNCHANGED <<status, loop>>
        /\ answer[w] = "none" /\ step[w] \in Activities
        /\ step[w] \in Updates => Late(w)
    BY <1>2 DEF TimeOut, Late, Waits
  <2>2. step[w] \in Updates => Cardinality(BlockingTicks) >= Minute
    <3>1. age[w] + Cardinality(Remaining) <= Cardinality(BlockingTicks) /\ age[w] \in Nat
      BY <1>t DEF ClockInv
    <3>2. QED BY <3>1, <2>1, <1>t, RemainingFinite DEF Late
  <2> HIDE DEF rest
  <2>3. QED BY <1>i, <1>t, <2>1, <2>2, LostClock
<1>3. ASSUME NEW t \in held, Begin(t) PROVE ClockInv'
  <2>1. /\ loop'.by = {t} /\ loop'.left = load[t.of][t.step] /\ loop.by = {}
        /\ UNCHANGED <<status, execVars, held>>
    BY <1>3, <1>t DEF Begin, Free
  <2>2. \A u \in Attempt, k \in Nat : Pending(u, k)' => Pending(u, k)
    BY <2>1 DEF Pending, ToCome, execVars
  <2>3. \A u \in held' : HeldInv(u)'
    BY <2>1 DEF ClockInv, HeldInv, ToCome, execVars
  <2>4. Cardinality(BlockingTicks) < Minute => \A v \in Workflows : RowInv(v)'
    BY <2>1 DEF ClockInv, RowInv, execVars
  <2>5. LoopInv' /\ \A v \in Workflows : age'[v] <= age[v]
    <3>1. load[t.of][t.step] \in Nat
      BY <1>t DEF Attempt
    <3>2. QED BY <2>1, <3>1, <1>i, <1>t DEF LoopInv, execVars
  <2>6. QED BY <1>i, <2>2, <2>3, <2>4, <2>5, CheapStep
<1>5. ASSUME NEW t \in held, Unanswered(t) PROVE ClockInv'
  <2>1. /\ Report(t, "failed") /\ status' = status /\ loop' = loop /\ t \notin loop.by
        /\ t.step \notin Updates /\ t.step \notin LastUpdates
    BY <1>5 DEF Unanswered, Free, Updates, LastUpdates
  <2>2. QED BY <1>i, <2>1, ReportClock
<1>6. ASSUME NEW t \in held, Drop(t) PROVE ClockInv'
  <2>1. held' = held \ {t} /\ UNCHANGED <<status, execVars, loop>>
    BY <1>6 DEF Drop
  <2>2. \A u \in Attempt, k \in Nat : Pending(u, k)' => Pending(u, k)
    BY <2>1 DEF Pending, ToCome, execVars
  <2>3. \A u \in held' : HeldInv(u)'
    BY <2>1 DEF ClockInv, HeldInv, ToCome, execVars
  <2>4. Cardinality(BlockingTicks) < Minute => \A v \in Workflows : RowInv(v)'
    BY <2>1 DEF ClockInv, RowInv, execVars
  <2>5. LoopInv' /\ \A v \in Workflows : age'[v] <= age[v]
    BY <2>1, <1>i, <1>t DEF ClockInv, LoopInv, execVars
  <2>6. QED BY <1>i, <2>2, <2>3, <2>4, <2>5, CheapStep
<1>7. CASE UNCHANGED vars
  <2>1. UNCHANGED <<status, step, answer, attempt, age, held, loop>>
    BY <1>7 DEF vars, execVars
  <2>2. \A u \in Attempt, k \in Nat : Pending(u, k)' => Pending(u, k)
    BY <2>1 DEF Pending, ToCome
  <2>3. \A u \in held' : HeldInv(u)'
    BY <2>1 DEF ClockInv, HeldInv, ToCome
  <2>4. Cardinality(BlockingTicks) < Minute => \A v \in Workflows : RowInv(v)'
    BY <2>1 DEF ClockInv, RowInv
  <2>5. LoopInv' /\ \A v \in Workflows : age'[v] <= age[v]
    BY <2>1, <1>i, <1>t DEF ClockInv, LoopInv
  <2>6. QED BY <1>i, <2>2, <2>3, <2>4, <2>5, CheapStep
<1>8. QED BY <1>1, <1>2, <1>3, <1>5, <1>6, <1>7, <1>i, EndClock, DecideClock, TickClock
             DEF Next, Run

\* However many executions there are: while all the work of all their attempts that
\* blocks the loop takes less than a minute in sum, no update is given up, and every
\* execution that is over has ended its row.
THEOREM QuickWorkEndsRows == FairSpec => []RowsEndWhenQuick
<1>1. ClockInv => RowsEndWhenQuick
  BY DEF ClockInv, RowInv, RowsEndWhenQuick
<1>2. QED BY InvInit, InvNext, ClockInit, ClockNext, <1>1, PTL DEF FairSpec
=============================================================================
