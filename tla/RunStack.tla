------------------------------- MODULE RunStack -------------------------------
(***************************************************************************)
(* `orcha run`: a supervisor that migrates the database, spawns Temporal,  *)
(* waits for its port, spawns the API and the worker, and then waits for   *)
(* any of them to exit.  SIGINT and SIGTERM run a handler between any two  *)
(* steps of the main program, and between two steps of a handler that is   *)
(* already running: the newest handler always leaves through sys.exit, so  *)
(* the frames below it never run again.                                    *)
(***************************************************************************)
EXTENDS Naturals, Sequences, FiniteSets

CONSTANTS
    MaxSignals,     \* bound: signals the user sends
    SpawnMayFail    \* whether Popen may raise (a command that is not there)

ASSUME StackAssumption == MaxSignals \in Nat /\ SpawnMayFail \in BOOLEAN

Order == <<"temporal", "api", "worker">>
Children == {"temporal", "api", "worker"}

VARIABLES
    pc,             \* where the newest frame of the supervisor stands
    frame,          \* "main" or "handler"
    child,          \* what became of each child
    procs,          \* the registered children, in the order of registration
    turn,           \* the entry of procs a loop of _terminate_all looks at
    ready,          \* _wait_for_temporal has returned
    signals,        \* signals received
    code            \* the exit code of the supervisor

supervising == <<pc, frame, child, procs, turn, ready, signals, code>>

Alive(c) == child[c] \in {"running", "terminating"}

InitStack ==
    /\ pc = "migrate"
    /\ frame = "main"
    /\ child = [c \in Children |-> "none"]
    /\ procs = <<>>
    /\ turn = 1
    /\ ready = FALSE
    /\ signals = 0
    /\ code = 0

Exit(n) == pc' = "exited" /\ code' = n

\* An exception that nothing catches: a traceback, and the interpreter's 1.
Raise == pc' = "raised" /\ code' = 1

Ended == pc \in {"exited", "raised"}

-----------------------------------------------------------------------------
(* The main program *)

Migrate ==
    /\ pc = "migrate"
    /\ pc' = "spawn"
    /\ UNCHANGED <<frame, child, procs, turn, ready, signals, code>>

MigrateFails ==
    /\ pc = "migrate"
    /\ Raise
    /\ UNCHANGED <<frame, child, procs, turn, ready, signals>>

Next3(n) == Order[n + 1]

\* Popen has started the child; the next step tells procs.
Popen ==
    /\ pc = "spawn"
    /\ child' = [child EXCEPT ![Next3(Len(procs))] = "running"]
    /\ pc' = "register"
    /\ UNCHANGED <<frame, procs, turn, ready, signals, code>>

\* Nothing around _spawn catches what Popen raises.
PopenRaises ==
    /\ SpawnMayFail
    /\ pc = "spawn"
    /\ Raise
    /\ UNCHANGED <<frame, child, procs, turn, ready, signals>>

Register ==
    /\ pc = "register"
    /\ procs' = Append(procs, Next3(Len(procs)))
    /\ pc' = CASE Len(procs') = 1 -> "wait_ready"
               [] Len(procs') = 2 -> "spawn"
               [] OTHER           -> "wait_exit"
    /\ UNCHANGED <<frame, child, turn, ready, signals, code>>

TemporalReady ==
    /\ pc = "wait_ready"
    /\ child["temporal"] = "running"
    /\ ready' = TRUE
    /\ pc' = "spawn"
    /\ UNCHANGED <<frame, child, procs, turn, signals, code>>

\* RuntimeError when Temporal has exited, TimeoutError after 30 seconds.
NotReady ==
    /\ pc = "wait_ready"
    /\ pc' = "terminate"
    /\ turn' = 1
    /\ UNCHANGED <<frame, child, procs, ready, signals, code>>

\* Mutant of SomeChildExited: only Temporal is watched.
TemporalExited ==
    /\ pc = "wait_exit"
    /\ child["temporal"] = "exited"
    /\ pc' = "terminate"
    /\ turn' = 1
    /\ UNCHANGED <<frame, child, procs, ready, signals, code>>

SomeChildExited ==
    /\ pc = "wait_exit"
    /\ \E c \in Children : child[c] = "exited"
    /\ pc' = "terminate"
    /\ turn' = 1
    /\ UNCHANGED <<frame, child, procs, ready, signals, code>>

-----------------------------------------------------------------------------
(* _terminate_all, called by the main program and by the handler *)

Terminate ==
    /\ pc = "terminate"
    /\ \/ /\ turn <= Len(procs)
          /\ child' = IF child[procs[turn]] = "running"
                      THEN [child EXCEPT ![procs[turn]] = "terminating"]
                      ELSE child
          /\ turn' = turn + 1
          /\ UNCHANGED pc
       \/ /\ turn > Len(procs)
          /\ pc' = "reap"
          /\ turn' = 1
          /\ UNCHANGED child
    /\ UNCHANGED <<frame, procs, ready, signals, code>>

\* Mutant of Reap: it waits for the child without a timeout and never kills it.
ReapPatiently ==
    /\ pc = "reap"
    /\ turn <= Len(procs)
    /\ child[procs[turn]] = "exited"
    /\ turn' = turn + 1
    /\ UNCHANGED <<pc, frame, child, procs, ready, signals, code>>

\* wait(timeout=10) returns, or kill() ends a child that does not listen.
Reap ==
    /\ pc = "reap"
    /\ turn <= Len(procs)
    /\ child' = [child EXCEPT ![procs[turn]] = "exited"]
    /\ turn' = turn + 1
    /\ UNCHANGED <<pc, frame, procs, ready, signals, code>>

\* Mutant of Leave: before the last child was waited for.
LeaveEarly ==
    /\ pc = "reap"
    /\ turn >= Len(procs)
    /\ Exit(IF frame = "handler" THEN 0 ELSE 1)
    /\ UNCHANGED <<frame, child, procs, turn, ready, signals>>

Leave ==
    /\ pc = "reap"
    /\ turn > Len(procs)
    /\ Exit(IF frame = "handler" THEN 0 ELSE 1)
    /\ UNCHANGED <<frame, child, procs, turn, ready, signals>>

-----------------------------------------------------------------------------
(* The world *)

Signal ==
    /\ signals < MaxSignals
    /\ pc # "migrate" /\ ~Ended
    /\ signals' = signals + 1
    /\ frame' = "handler"
    /\ pc' = "terminate"
    /\ turn' = 1
    /\ UNCHANGED <<child, procs, ready, code>>

ChildExits(c) ==
    /\ Alive(c)
    /\ ~Ended
    /\ child' = [child EXCEPT ![c] = "exited"]
    /\ UNCHANGED <<pc, frame, procs, turn, ready, signals, code>>

-----------------------------------------------------------------------------

Supervise ==
    \/ Migrate \/ MigrateFails \/ Popen \/ PopenRaises \/ Register
    \/ TemporalReady \/ NotReady \/ SomeChildExited
    \/ Terminate \/ Reap \/ Leave

Stopped == Ended /\ UNCHANGED supervising

NextStack == Supervise \/ Signal \/ (\E c \in Children : ChildExits(c)) \/ Stopped

SpecStack == InitStack /\ [][NextStack]_supervising

\* The main thread is scheduled, and every wait in it has a timeout.
FairSpecStack == SpecStack /\ WF_supervising(Supervise)

-----------------------------------------------------------------------------
(* Properties *)

TypeOKStack ==
    /\ pc \in {"migrate", "spawn", "register", "wait_ready", "wait_exit",
               "terminate", "reap", "exited", "raised"}
    /\ frame \in {"main", "handler"}
    /\ child \in [Children -> {"none", "running", "terminating", "exited"}]
    /\ \E n \in 0..3 : procs = SubSeq(Order, 1, n)
    /\ turn \in 1..4
    /\ ready \in BOOLEAN
    /\ signals \in 0..MaxSignals
    /\ code \in 0..1

\* A supervisor that ends by an exit of its own leaves no child behind, except
\* one that a signal came too early for, between Popen and procs[name].  What
\* an exception of Popen leaves behind is not spoken of.
LeftBehindExplained ==
    pc = "exited" =>
        \A c \in Children : Alive(c) => \A i \in 1..Len(procs) : procs[i] # c

\* The exit code is 0 exactly when a signal stopped the stack.  Why a stack was
\* not stopped by a signal the code does not tell: 1 stands for a child that
\* exited, for Temporal not getting ready, for a failed migration and for a
\* command that is not there.
ExitCodeTellsWhy ==
    Ended => (code = 0 <=> frame = "handler")

\* "If any managed process exits on its own, tear down the rest and fail."
TornDownTogether ==
    \A c \in Children :
        child[c] = "exited" /\ pc = "wait_exit"
            ~> pc = "exited" /\ \A d \in Children : ~Alive(d)

\* A signal always ends the supervisor, however often it is repeated.
SignalStops == signals > 0 ~> pc = "exited"

=============================================================================
