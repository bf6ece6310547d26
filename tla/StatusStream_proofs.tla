-------------------------- MODULE StatusStream_proofs --------------------------
(***************************************************************************)
(* What a stream tells its client, the sessions each handler holds, and    *)
(* the pool they share, for any number of workflows, streams and           *)
(* connections.                                                            *)
(***************************************************************************)
EXTENDS StatusStream, FiniteSetTheorems, TLAPS

RowOK ==
    /\ status \in [Workflows -> {"none"} \cup Record!WorkflowStatus]
    /\ result \in [Workflows -> BOOLEAN]

HandlerOK ==
    /\ post \in [Workflows -> {"idle", "starting", "started", "failed"}]
    /\ stream \in [Streams -> Polling \cup {"closed", "failed", "ended", "left"}]
    /\ watched \in [Streams -> Workflows]
    /\ sent \in [Streams -> {"none"} \cup Record!WorkflowStatus]
    /\ gone \in [Streams -> BOOLEAN]
    /\ held \in [Handlers -> Nat]

\* A stream holds its own session while its loop runs, and that of the poll
\* until the event is out.
Sessions(s) ==
    /\ stream[s] = "open" => held[s] = 1
    /\ stream[s] = "sending" => held[s] = 2
    /\ stream[s] \notin Polling => held[s] = 0

PostSession(w) ==
    /\ post[w] = "starting" => held[w] = 1
    /\ post[w] # "starting" => held[w] = 0

\* What a stream has sent was true of its row, which has a status that only a
\* terminal one follows.
Told(s) ==
    /\ stream[s] # "closed" /\ stream[s] # "failed" => status[watched[s]] # "none"
    /\ sent[s] # "none" => status[watched[s]] # "none"
    /\ sent[s] \in Terminal => sent[s] = status[watched[s]]
    /\ stream[s] = "sending" => sent[s] # "none"
    /\ stream[s] = "closed" => sent[s] = "none"
    /\ stream[s] = "open" => sent[s] \notin Terminal
    /\ stream[s] = "ended" => sent[s] \in Terminal

StreamInv ==
    /\ RowOK /\ HandlerOK
    /\ \A s \in Streams : Sessions(s) /\ Told(s)
    /\ \A w \in Workflows : PostSession(w)

LEMMA InitStream == Init => StreamInv
<1> SUFFICES ASSUME Init PROVE StreamInv
  OBVIOUS
<1>1. RowOK
  BY DEF Init, RowOK, Record!Init, Record!WorkflowStatus
<1>2. HandlerOK
  BY DEF Init, HandlerOK, Polling
<1>3. ASSUME NEW s \in Streams PROVE Sessions(s) /\ Told(s)
  BY DEF Init, Sessions, Told, Handlers, Terminal, Record!Terminal, Polling
<1>4. ASSUME NEW w \in Workflows PROVE PostSession(w)
  BY DEF Init, PostSession, Handlers
<1>5. QED BY <1>1, <1>2, <1>3, <1>4 DEF StreamInv

\* What any step does to the rows: a row stays, and so does a terminal status.
RowsAdvance ==
    /\ RowOK'
    /\ \A w \in Workflows :
           /\ status[w] # "none" => status'[w] # "none"
           /\ status[w] \in Terminal => status'[w] = status[w]

LEMMA CreateAdvances ==
    ASSUME RowOK, NEW w \in Workflows, Record!Create(w)
    PROVE  RowsAdvance
  BY DEF RowOK, RowsAdvance, Terminal, Record!Create, Record!WorkflowStatus, Record!Terminal

LEMMA EndAdvances ==
    ASSUME RowOK, NEW w \in Workflows, Record!End(w)
    PROVE  RowsAdvance
<1>1. CASE Record!Succeed(w)
  BY <1>1 DEF RowOK, RowsAdvance, Terminal, Record!Succeed, Record!WorkflowStatus, Record!Terminal
<1>2. CASE Record!Fail(w)
  BY <1>2 DEF RowOK, RowsAdvance, Terminal, Record!Fail, Record!WorkflowStatus, Record!Terminal
<1>3. QED BY <1>1, <1>2 DEF Record!End

LEMMA StayAdvances ==
    ASSUME RowOK, UNCHANGED rows
    PROVE  RowsAdvance
  BY DEF RowOK, RowsAdvance, rows

\* Streams that a step leaves alone keep what they have told.
LEMMA ToldStays ==
    ASSUME StreamInv, RowsAdvance, NEW s \in Streams,
           stream'[s] = stream[s], watched' = watched, sent'[s] = sent[s]
    PROVE  Told(s)'
<1>1. watched[s] \in Workflows
  BY DEF StreamInv, HandlerOK
<1>2. Told(s)
  BY DEF StreamInv
<1>3. QED BY <1>1, <1>2 DEF Told, RowsAdvance, Terminal

\* The sessions of a handler that a step leaves alone.
LEMMA SessionsStay ==
    ASSUME StreamInv, NEW s \in Streams, stream'[s] = stream[s], held'[s] = held[s]
    PROVE  Sessions(s)'
  BY DEF StreamInv, Sessions

LEMMA PostSessionStays ==
    ASSUME StreamInv, NEW w \in Workflows, post'[w] = post[w], held'[w] = held[w]
    PROVE  PostSession(w)'
  BY DEF StreamInv, PostSession

-----------------------------------------------------------------------------
(* A step of the handler of POST *)

PostStep(w) ==
    /\ post' \in [Workflows -> {"idle", "starting", "started", "failed"}]
    /\ \A v \in Workflows \ {w} : post'[v] = post[v]
    /\ held' \in [Handlers -> Nat]
    /\ \A h \in Handlers \ {w} : held'[h] = held[h]
    /\ PostSession(w)'
    /\ UNCHANGED streamVars
    /\ RowsAdvance

LEMMA PostStepKeeps ==
    ASSUME StreamInv, NEW w \in Workflows, PostStep(w)
    PROVE  StreamInv'
<1>1. HandlerOK'
  BY DEF StreamInv, HandlerOK, PostStep, streamVars
<1>2. ASSUME NEW s \in Streams PROVE Sessions(s)' /\ Told(s)'
  <2>1. s \in Handlers /\ s # w
    BY StreamAssumption DEF Handlers
  <2>2. /\ held'[s] = held[s] /\ stream'[s] = stream[s]
        /\ watched' = watched /\ sent'[s] = sent[s]
    BY <2>1 DEF PostStep, streamVars
  <2>3. QED BY <2>2, SessionsStay, ToldStays DEF PostStep
<1>3. ASSUME NEW v \in Workflows PROVE PostSession(v)'
  <2>1. CASE v = w
    BY <2>1 DEF PostStep
  <2>2. CASE v # w
    <3>1. post'[v] = post[v] /\ held'[v] = held[v]
      BY <2>2 DEF PostStep, Handlers
    <3>2. QED BY <3>1, PostSessionStays
  <2>3. QED BY <2>1, <2>2
<1>4. RowOK'
  BY DEF PostStep, RowsAdvance
<1>5. QED BY <1>1, <1>2, <1>3, <1>4 DEF StreamInv

LEMMA PostSteps ==
    ASSUME StreamInv, NEW w \in Workflows,
           Post(w) \/ PostRefused(w) \/ PostAnswers(w) \/ RowEnds(w)
    PROVE  StreamInv'
<1> USE DEF StreamInv, HandlerOK
<1>w. w \in Handlers
  BY DEF Handlers
<1>1. CASE Post(w)
  BY <1>1, <1>w, CreateAdvances, PostStepKeeps DEF Post, PostStep, PostSession
<1>2. CASE PostRefused(w)
  BY <1>2, <1>w, StayAdvances, PostStepKeeps DEF PostRefused, PostStep, PostSession
<1>3. CASE PostAnswers(w)
  <2>1. RowsAdvance
    BY <1>3, EndAdvances, StayAdvances DEF PostAnswers, Record!End
  <2>2. QED BY <1>3, <1>w, <2>1, PostStepKeeps DEF PostAnswers, PostStep, PostSession
<1>4. CASE RowEnds(w)
  BY <1>4, <1>w, EndAdvances, PostStepKeeps DEF RowEnds, PostStep, PostSession
<1>5. QED BY <1>1, <1>2, <1>3, <1>4

-----------------------------------------------------------------------------
(* A step of a stream, or of its client *)

StreamStep(s) ==
    /\ stream' \in [Streams -> Polling \cup {"closed", "failed", "ended", "left"}]
    /\ sent' \in [Streams -> {"none"} \cup Record!WorkflowStatus]
    /\ gone' \in [Streams -> BOOLEAN]
    /\ held' \in [Handlers -> Nat]
    /\ \A t \in Streams \ {s} : stream'[t] = stream[t] /\ sent'[t] = sent[t]
    /\ \A h \in Handlers \ {s} : held'[h] = held[h]
    /\ Sessions(s)' /\ Told(s)'
    /\ UNCHANGED <<rows, post, watched>>

LEMMA StreamStepKeeps ==
    ASSUME StreamInv, NEW s \in Streams, StreamStep(s)
    PROVE  StreamInv'
<1>1. RowsAdvance
  BY StayAdvances DEF StreamInv, StreamStep
<1>2. HandlerOK'
  BY DEF StreamInv, HandlerOK, StreamStep
<1>3. ASSUME NEW t \in Streams PROVE Sessions(t)' /\ Told(t)'
  <2>1. CASE t = s
    BY <2>1 DEF StreamStep
  <2>2. CASE t # s
    <3>1. /\ held'[t] = held[t] /\ stream'[t] = stream[t]
          /\ watched' = watched /\ sent'[t] = sent[t]
      BY <2>2 DEF StreamStep, Handlers
    <3>2. QED BY <3>1, <1>1, SessionsStay, ToldStays
  <2>3. QED BY <2>1, <2>2
<1>4. ASSUME NEW w \in Workflows PROVE PostSession(w)'
  <2>1. w \in Handlers /\ w # s
    BY StreamAssumption DEF Handlers
  <2>2. post'[w] = post[w] /\ held'[w] = held[w]
    BY <2>1 DEF StreamStep
  <2>3. QED BY <2>2, PostSessionStays
<1>5. RowOK'
  BY <1>1 DEF RowsAdvance
<1>6. QED BY <1>2, <1>3, <1>4, <1>5 DEF StreamInv

LEMMA StreamSteps ==
    ASSUME StreamInv, NEW s \in Streams,
           Open(s) \/ OpenFails(s) \/ Loop(s) \/ Disconnect(s)
    PROVE  StreamInv'
<1> USE DEF StreamInv, HandlerOK, Polling
<1>s. s \in Handlers /\ watched[s] \in Workflows
  BY DEF Handlers
<1>t. Sessions(s) /\ Told(s)
  OBVIOUS
<1>1. CASE Open(s)
  BY <1>1, <1>s, <1>t, StreamStepKeeps
  DEF Open, StreamStep, Sessions, Told, rows, Terminal, Record!Terminal
<1>2. CASE OpenFails(s)
  BY <1>2, <1>s, <1>t, StreamStepKeeps DEF OpenFails, StreamStep, Sessions, Told, rows
<1>3. CASE Poll(s)
  <2>1. status[watched[s]] \in Record!WorkflowStatus /\ sent[s] \notin Terminal
    BY <1>3, <1>s, <1>t DEF Poll, Told, RowOK
  <2>2. QED BY <1>3, <1>s, <1>t, <2>1, StreamStepKeeps DEF Poll, StreamStep, Sessions, Told, rows
<1>4. CASE PollFails(s)
  BY <1>4, <1>s, <1>t, StreamStepKeeps DEF PollFails, StreamStep, Sessions, Told, rows
<1>5. CASE Sent(s)
  BY <1>5, <1>s, <1>t, StreamStepKeeps DEF Sent, StreamStep, Sessions, Told, rows
<1>6. CASE Leave(s)
  BY <1>6, <1>s, <1>t, StreamStepKeeps DEF Leave, StreamStep, Sessions, Told, rows
<1>7. CASE Disconnect(s)
  BY <1>7, <1>s, <1>t, StreamStepKeeps DEF Disconnect, StreamStep, Sessions, Told, rows
<1>8. QED BY <1>1, <1>2, <1>3, <1>4, <1>5, <1>6, <1>7 DEF Loop

LEMMA NextStream == StreamInv /\ [Next]_vars => StreamInv'
<1> SUFFICES ASSUME StreamInv, [Next]_vars PROVE StreamInv'
  OBVIOUS
<1>1. CASE UNCHANGED vars
  BY <1>1 DEF vars, rows, streamVars, StreamInv, RowOK, HandlerOK, Sessions, Told, PostSession
<1>2. CASE Next
  BY <1>1, <1>2, PostSteps, StreamSteps DEF Next, Resting
<1>3. QED BY <1>1, <1>2

-----------------------------------------------------------------------------
(* The pool *)

\* CheckedOut, for any numbers of sessions held.
Connections(f) == UNION {{h} \X (1..f[h]) : h \in Handlers}

LEMMA ConnectionsMember ==
    ASSUME NEW f, NEW c
    PROVE  c \in Connections(f) <=> c \in Handlers \X Nat /\ c[2] \in 1..f[c[1]]
<1>1. ASSUME c \in Connections(f)
      PROVE  c \in Handlers \X Nat /\ c[2] \in 1..f[c[1]]
  <2>1. PICK h \in Handlers : c \in {h} \X (1..f[h])
    BY <1>1 DEF Connections
  <2>2. QED BY <2>1
<1>2. ASSUME c \in Handlers \X Nat, c[2] \in 1..f[c[1]]
      PROVE  c \in Connections(f)
  <2>1. c = <<c[1], c[2]>> /\ c[1] \in Handlers
    BY <1>2
  <2>2. c \in {c[1]} \X (1..f[c[1]])
    BY <1>2, <2>1
  <2>3. QED BY <2>1, <2>2 DEF Connections
<1>3. QED BY <1>1, <1>2

\* No handler holds more than two, so finitely many are out.
LEMMA CheckedOutFinite ==
    ASSUME StreamInv
    PROVE  IsFiniteSet(CheckedOut) /\ InUse \in Nat
<1>1. ASSUME NEW h \in Handlers PROVE held[h] \in 0..2
  <2>1. CASE h \in Workflows
    BY <2>1 DEF StreamInv, HandlerOK, PostSession
  <2>2. CASE h \in Streams
    BY <2>2 DEF StreamInv, HandlerOK, Sessions, Polling
  <2>3. QED BY <2>1, <2>2 DEF Handlers
<1>2. IsFiniteSet(Handlers \X (1..2))
  <2>1. IsFiniteSet(Handlers)
    BY StreamAssumption, FS_Union DEF Handlers
  <2>2. IsFiniteSet(1..2)
    <3>1. 1 \in Int /\ 2 \in Int
      OBVIOUS
    <3>2. QED BY <3>1, FS_Interval, Zenon
  <2>3. QED BY <2>1, <2>2, FS_Product, Zenon
<1>3. CheckedOut \subseteq Handlers \X (1..2)
  <2> SUFFICES ASSUME NEW c \in CheckedOut PROVE c \in Handlers \X (1..2)
    OBVIOUS
  <2>1. c \in Handlers \X Nat /\ c[2] \in 1..held[c[1]]
    BY ConnectionsMember DEF CheckedOut, Connections
  <2>2. c[1] \in Handlers /\ held[c[1]] \in 0..2
    BY <2>1, <1>1
  <2>3. QED BY <2>1, <2>2
<1>4. IsFiniteSet(CheckedOut)
  BY <1>2, <1>3, FS_Subset
<1>5. QED BY <1>4, FS_CardinalityType DEF InUse

\* A step after which no handler holds more overdraws nothing.
LEMMA GivingBack ==
    ASSUME StreamInv, StreamInv', InUse <= Capacity,
           \A h \in Handlers : held'[h] <= held[h]
    PROVE  InUse' <= Capacity
<1>1. CheckedOut' \subseteq CheckedOut
  <2> SUFFICES ASSUME NEW c \in CheckedOut' PROVE c \in CheckedOut
    OBVIOUS
  <2>1. c \in Handlers \X Nat /\ c[2] \in 1..held'[c[1]]
    BY ConnectionsMember DEF CheckedOut, Connections
  <2>2. /\ c[1] \in Handlers /\ held'[c[1]] <= held[c[1]]
        /\ held[c[1]] \in Nat /\ held'[c[1]] \in Nat
    BY <2>1 DEF StreamInv, HandlerOK
  <2>3. c[2] \in 1..held[c[1]]
    BY <2>1, <2>2
  <2>4. QED BY <2>1, <2>3, ConnectionsMember DEF CheckedOut, Connections
<1>2. InUse' <= InUse
  BY <1>1, CheckedOutFinite, FS_Subset DEF InUse
<1>3. InUse \in Nat /\ InUse' \in Nat
  <2>1. IsFiniteSet(CheckedOut')
    BY <1>1, CheckedOutFinite, FS_Subset
  <2>2. QED BY <2>1, CheckedOutFinite, FS_CardinalityType DEF InUse
<1>4. QED BY <1>2, <1>3, StreamAssumption

\* A step that takes one connection takes it from what is available.
LEMMA TakingOne ==
    ASSUME StreamInv, Available, NEW h \in Handlers,
           held' = [held EXCEPT ![h] = held[h] + 1]
    PROVE  InUse' <= Capacity
<1> DEFINE new == <<h, held[h] + 1>>
<1>1. held \in [Handlers -> Nat]
  BY DEF StreamInv, HandlerOK
<1>2. CheckedOut' \subseteq CheckedOut \cup {new}
  <2> SUFFICES ASSUME NEW c \in CheckedOut', c # new PROVE c \in CheckedOut
    OBVIOUS
  <2>1. c \in Handlers \X Nat /\ c[2] \in 1..held'[c[1]]
    BY ConnectionsMember DEF CheckedOut, Connections
  <2>2. c[2] \in 1..held[c[1]]
    <3>1. CASE c[1] = h
      <4>1. c = <<h, c[2]>> /\ c[2] \in 1..(held[h] + 1) /\ held[h] \in Nat
        BY <2>1, <3>1, <1>1
      <4>2. c[2] # held[h] + 1
        BY <4>1
      <4>3. QED BY <4>1, <4>2, <3>1
    <3>2. CASE c[1] # h
      BY <2>1, <3>2, <1>1
    <3>3. QED BY <3>1, <3>2
  <2>3. QED BY <2>1, <2>2, ConnectionsMember DEF CheckedOut, Connections
<1>3. /\ IsFiniteSet(CheckedOut \cup {new})
      /\ Cardinality(CheckedOut \cup {new}) <= InUse + 1
  BY CheckedOutFinite, FS_AddElement DEF InUse
<1>4. /\ IsFiniteSet(CheckedOut')
      /\ InUse' <= Cardinality(CheckedOut \cup {new})
  BY <1>2, <1>3, FS_Subset DEF InUse
<1>5. InUse' \in Nat /\ Cardinality(CheckedOut \cup {new}) \in Nat
  BY <1>3, <1>4, FS_CardinalityType DEF InUse
<1>6. QED BY <1>3, <1>4, <1>5, CheckedOutFinite, StreamAssumption DEF Available

PoolInv == StreamInv /\ InUse <= Capacity

LEMMA InitPool == Init => PoolInv
<1> SUFFICES ASSUME Init PROVE PoolInv
  OBVIOUS
<1>1. CheckedOut = {}
  <2> SUFFICES ASSUME NEW c \in CheckedOut PROVE FALSE
    OBVIOUS
  <2>1. c \in Handlers \X Nat /\ c[2] \in 1..held[c[1]]
    BY ConnectionsMember DEF CheckedOut, Connections
  <2>2. held[c[1]] = 0
    BY <2>1 DEF Init
  <2>3. QED BY <2>1, <2>2
<1>2. InUse = 0
  BY <1>1, FS_EmptySet DEF InUse
<1>3. QED BY <1>2, InitStream, StreamAssumption DEF PoolInv

\* Post, Open and Poll take the one connection they found available; every
\* other step leaves each handler with no more than it had.
LEMMA NextPool == PoolInv /\ [Next]_vars => PoolInv'
<1> SUFFICES ASSUME PoolInv, [Next]_vars PROVE PoolInv'
  OBVIOUS
<1>i. StreamInv /\ StreamInv' /\ InUse <= Capacity
  BY NextStream DEF PoolInv
<1>h. held \in [Handlers -> Nat] /\ held' \in [Handlers -> Nat]
  BY <1>i DEF StreamInv, HandlerOK
<1> DEFINE Less == \A h \in Handlers : held'[h] <= held[h]
<1>u. held' = held => Less
  BY <1>h
<1>1. ASSUME NEW w \in Workflows, Post(w) PROVE InUse' <= Capacity
  <2>1. w \in Handlers /\ held[w] = 0
    BY <1>1, <1>i DEF Post, StreamInv, PostSession, Handlers
  <2>2. Available /\ held' = [held EXCEPT ![w] = held[w] + 1]
    BY <1>1, <2>1 DEF Post
  <2>3. QED BY <1>i, <2>1, <2>2, TakingOne
<1>2. ASSUME NEW w \in Workflows, PostRefused(w) \/ PostAnswers(w) \/ RowEnds(w)
      PROVE  Less
  BY <1>2, <1>h, <1>u DEF PostRefused, PostAnswers, RowEnds
<1>3. ASSUME NEW s \in Streams, Open(s) \/ Poll(s) PROVE InUse' <= Capacity
  <2>1. s \in Handlers /\ Sessions(s)
    BY <1>i DEF StreamInv, Handlers
  <2>2. Available /\ held' = [held EXCEPT ![s] = held[s] + 1]
    BY <1>3, <2>1 DEF Open, Poll, Sessions, Polling
  <2>3. QED BY <1>i, <2>1, <2>2, TakingOne
<1>4. ASSUME NEW s \in Streams,
             OpenFails(s) \/ PollFails(s) \/ Sent(s) \/ Leave(s) \/ Disconnect(s)
      PROVE  Less
  <2>1. s \in Handlers /\ Sessions(s)
    BY <1>i DEF StreamInv, Handlers
  <2>2. CASE Sent(s)
    BY <2>2, <2>1, <1>h DEF Sent, Sessions
  <2>3. CASE OpenFails(s) \/ Disconnect(s)
    BY <2>3, <1>u DEF OpenFails, Disconnect
  <2>4. CASE PollFails(s) \/ Leave(s)
    BY <2>4, <2>1, <1>h DEF PollFails, Leave
  <2>5. QED BY <1>4, <2>2, <2>3, <2>4
<1>5. CASE UNCHANGED vars
  BY <1>5, <1>u, <1>i, GivingBack DEF vars, PoolInv
<1>6. Less => PoolInv'
  BY <1>i, GivingBack DEF PoolInv
<1>7. CASE Next
  BY <1>7, <1>i, <1>1, <1>2, <1>3, <1>4, <1>5, <1>6 DEF Next, Loop, Resting, PoolInv
<1>8. QED BY <1>5, <1>7

-----------------------------------------------------------------------------

\* Every variable keeps its type for any workflows, streams and capacity.
THEOREM TypeCorrect == Spec => []TypeOK
<1>1. StreamInv => TypeOK
  BY DEF StreamInv, RowOK, HandlerOK, TypeOK
<1>2. QED BY <1>1, InitStream, NextStream, PTL DEF Spec

\* However many streams and clients there are, one that ended by itself has
\* told its client the status the row still has.
THEOREM LastEventTrue == Spec => []LastEventIsTrue
<1>1. StreamInv => LastEventIsTrue
  BY DEF StreamInv, Told, LastEventIsTrue
<1>2. QED BY <1>1, InitStream, NextStream, PTL DEF Spec

\* On every way out of a handler its sessions are closed, and none ever holds
\* more than two.
THEOREM SessionsClosed ==
    Spec => [](/\ \A s \in Streams : Sessions(s)
               /\ \A w \in Workflows : PostSession(w))
<1>1. StreamInv => /\ \A s \in Streams : Sessions(s)
                   /\ \A w \in Workflows : PostSession(w)
  BY DEF StreamInv
<1>2. QED BY <1>1, InitStream, NextStream, PTL DEF Spec

\* For any pool, the handlers that are over hold nothing of it, and together
\* the others never have more connections out than there are.
THEOREM PoolAccounted == Spec => []ConnectionsAccounted
<1>1. PoolInv => ConnectionsAccounted
  BY DEF PoolInv, StreamInv, Sessions, PostSession, ConnectionsAccounted
<1>2. QED BY <1>1, InitPool, NextPool, PTL DEF Spec

\* A client is sent nothing after a terminal status, and never loses a row it
\* was told of.
THEOREM EventsAdvance == Spec => EventsOnlyAdvance
<1> DEFINE Advance(s) ==
        /\ sent[s] \in Terminal => sent'[s] = sent[s] /\ stream'[s] # "open"
        /\ sent[s] = "PROCESSING" => sent'[s] # "none"
<1>1. ASSUME StreamInv, [Next]_vars, NEW s \in Streams PROVE Advance(s)
  <2>1. /\ Told(s) /\ watched[s] \in Workflows
        /\ sent \in [Streams -> {"none"} \cup Record!WorkflowStatus]
        /\ stream \in [Streams -> Polling \cup {"closed", "failed", "ended", "left"}]
    BY <1>1 DEF StreamInv, HandlerOK
  <2>2. "PROCESSING" \notin Terminal
    BY DEF Terminal, Record!Terminal
  <2>3. sent'[s] = sent[s] /\ (stream'[s] = stream[s] \/ stream'[s] # "open")
        => Advance(s)
    BY <2>1 DEF Told
  <2>4. ASSUME NEW w \in Workflows,
               Post(w) \/ PostRefused(w) \/ PostAnswers(w) \/ RowEnds(w)
        PROVE  Advance(s)
    BY <2>3, <2>4 DEF Post, PostRefused, PostAnswers, RowEnds, streamVars
  <2>5. ASSUME NEW t \in Streams, Open(t) PROVE Advance(s)
    <3>1. CASE t = s
      BY <3>1, <2>1, <2>5 DEF Open, Told, Terminal, Record!Terminal
    <3>2. CASE t # s
      BY <3>2, <2>1, <2>3, <2>5 DEF Open
    <3>3. QED BY <3>1, <3>2
  <2>6. ASSUME NEW t \in Streams, Poll(t) PROVE Advance(s)
    <3>1. CASE t = s
      <4>1. sent[s] \notin Terminal /\ status[watched[s]] # "none"
        BY <3>1, <2>1, <2>6 DEF Poll, Told
      <4>2. QED BY <3>1, <4>1, <2>1, <2>6 DEF Poll
    <3>2. CASE t # s
      BY <3>2, <2>1, <2>3, <2>6 DEF Poll
    <3>3. QED BY <3>1, <3>2
  <2>7. ASSUME NEW t \in Streams, Sent(t) PROVE Advance(s)
    <3>1. CASE t = s
      BY <3>1, <2>1, <2>2, <2>7 DEF Sent
    <3>2. CASE t # s
      BY <3>2, <2>1, <2>3, <2>7 DEF Sent
    <3>3. QED BY <3>1, <3>2
  <2>8. ASSUME NEW t \in Streams,
               OpenFails(t) \/ PollFails(t) \/ Leave(t) \/ Disconnect(t)
        PROVE  Advance(s)
    BY <2>1, <2>3, <2>8 DEF OpenFails, PollFails, Leave, Disconnect
  <2>9. CASE UNCHANGED vars
    BY <2>3, <2>9 DEF vars, streamVars
  <2>10. QED
    BY <1>1, <2>4, <2>5, <2>6, <2>7, <2>8, <2>9 DEF Next, Loop, Resting
<1>2. StreamInv /\ [Next]_vars => \A s \in Streams : Advance(s)
  BY <1>1
<1>3. QED BY <1>2, InitStream, NextStream, PTL DEF Spec, EventsOnlyAdvance

=============================================================================
