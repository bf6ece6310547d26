------------------------------- MODULE Cli_proofs -------------------------------
(***************************************************************************)
(* The commands of the CLI.  `orcha run`: who may outlive it, and what its *)
(* exit code says, for any number of signals.  `tenants add`: who the API  *)
(* answers, for any number of commands that race for the file and any      *)
(* number of tenants, keys and restarts.  Races may lose registrations     *)
(* (see RegistrationsKept), but never make one up.                         *)
(***************************************************************************)
EXTENDS RunStack, TenantAccess, TLAPS

Labels == {"migrate", "spawn", "register", "wait_ready", "wait_exit",
           "terminate", "reap", "exited", "raised"}
MainOnly == {"migrate", "spawn", "register", "wait_ready", "wait_exit"}

Typed ==
    /\ pc \in Labels
    /\ frame \in {"main", "handler"}
    /\ child \in [Children -> {"none", "running", "terminating", "exited"}]
    /\ procs \in Seq(Children)
    /\ turn \in 1..4
    /\ ready \in BOOLEAN
    /\ signals \in 0..MaxSignals
    /\ code \in 0..1

\* Children are registered in the order of _spawn, and one is still to come
\* while the main program spawns.
Registered ==
    /\ Len(procs) \in 0..3
    /\ \A i \in 1..Len(procs) : procs[i] = Order[i]
    /\ pc \in {"spawn", "register"} => Len(procs) < 3
    /\ pc = "migrate" => Len(procs) = 0
    /\ pc = "wait_ready" => Len(procs) = 1

\* The loops of _terminate_all stay within procs, and the second leaves a
\* registered child behind it only once that has exited.
Reaped ==
    /\ turn <= Len(procs) + 1
    /\ pc = "reap" => \A i \in 1..Len(procs) : i < turn => child[procs[i]] = "exited"
    /\ pc = "exited" => \A i \in 1..Len(procs) : child[procs[i]] = "exited"

\* The main program's own steps are over once a handler has run.
Frames ==
    /\ pc \in MainOnly => frame = "main"
    /\ ExitCodeTellsWhy

StackInv == Typed /\ Registered /\ Reaped /\ Frames

LEMMA OrderChildren == \A n \in 1..3 : Order[n] \in Children
  BY DEF Order, Children

LEMMA StackInvInit == InitStack => StackInv
<1> SUFFICES ASSUME InitStack PROVE StackInv
  OBVIOUS
<1>1. procs \in Seq(Children) /\ Len(procs) = 0
  BY DEF InitStack
<1>2. child \in [Children -> {"none", "running", "terminating", "exited"}]
  BY DEF InitStack
<1>3. signals \in 0..MaxSignals /\ turn \in 1..4 /\ code \in 0..1
  BY StackAssumption DEF InitStack
<1>4. pc \in Labels /\ frame \in {"main", "handler"}
  BY DEF InitStack, Labels
<1>5. ready \in BOOLEAN
  BY Zenon DEF InitStack
<1>6. Typed
  BY <1>1, <1>2, <1>3, <1>4, <1>5 DEF Typed
<1>7. Registered /\ Reaped /\ Frames
  BY <1>1 DEF InitStack, Registered, Reaped, Frames, MainOnly, ExitCodeTellsWhy, Ended
<1>8. QED BY <1>6, <1>7 DEF StackInv

LEMMA StackInvNext == StackInv /\ [NextStack]_supervising => StackInv'
<1> SUFFICES ASSUME StackInv, [NextStack]_supervising PROVE StackInv'
  OBVIOUS
<1> USE StackAssumption DEF StackInv, Typed, Registered, Reaped, Frames, Labels, MainOnly,
        ExitCodeTellsWhy, Exit, Raise, Ended
<1>1. CASE Migrate
  BY <1>1 DEF Migrate
<1>2. CASE MigrateFails
  BY <1>2 DEF MigrateFails
<1>3. CASE Popen
  <2>1. Next3(Len(procs)) \in Children
    BY <1>3, OrderChildren DEF Popen, Next3
  <2>2. QED BY <1>3, <2>1 DEF Popen
<1>4. CASE PopenRaises
  BY <1>4 DEF PopenRaises
<1>5. CASE Register
  <2>1. Next3(Len(procs)) \in Children
    BY <1>5, OrderChildren DEF Register, Next3
  <2>2. /\ procs' \in Seq(Children)
        /\ Len(procs') = Len(procs) + 1
        /\ procs'[Len(procs) + 1] = Order[Len(procs) + 1]
        /\ \A i \in 1..Len(procs) : procs'[i] = procs[i]
    BY <1>5, <2>1 DEF Register, Next3
  <2>3. ASSUME NEW i \in 1..Len(procs') PROVE procs'[i] = Order[i]
    <3>1. CASE i = Len(procs) + 1
      BY <3>1, <2>2
    <3>2. CASE i # Len(procs) + 1
      <4>1. i \in 1..Len(procs)
        BY <3>2, <2>2
      <4>2. QED BY <4>1, <2>2
    <3>3. QED BY <3>1, <3>2
  <2>4. /\ pc = "register"
        /\ pc' \in {"wait_ready", "spawn", "wait_exit"}
        /\ pc' = "wait_ready" => Len(procs') = 1
        /\ pc' = "spawn" => Len(procs') = 2
        /\ UNCHANGED <<frame, child, turn, ready, signals, code>>
    BY <1>5, <2>2 DEF Register
  <2>5. QED BY <2>2, <2>3, <2>4
<1>6. CASE TemporalReady
  <2>1. Typed'
    BY <1>6 DEF TemporalReady
  <2>2. /\ pc = "wait_ready" /\ pc' = "spawn"
        /\ UNCHANGED <<frame, child, procs, turn, signals, code>>
    BY <1>6 DEF TemporalReady
  <2>3. Registered'
    <3>1. procs' = procs /\ Len(procs) = 1
      BY <2>2
    <3>2. QED BY <3>1, <2>2
  <2>4. Reaped'
    BY <2>2
  <2>5. Frames'
    BY <2>2
  <2>6. QED BY <2>1, <2>3, <2>4, <2>5
<1>7. CASE NotReady
  BY <1>7 DEF NotReady
<1>8. CASE SomeChildExited
  BY <1>8 DEF SomeChildExited
<1>9. CASE Terminate
  <2>1. CASE turn <= Len(procs)
    <3>1. procs[turn] \in Children
      BY <2>1
    <3>2. /\ pc = "terminate" /\ pc' = pc /\ turn' = turn + 1
          /\ child' \in [Children -> {"none", "running", "terminating", "exited"}]
          /\ UNCHANGED <<frame, procs, ready, signals, code>>
      BY <1>9, <2>1, <3>1 DEF Terminate
    <3>3. QED BY <2>1, <3>2
  <2>2. CASE turn > Len(procs)
    BY <1>9, <2>2 DEF Terminate
  <2>3. QED BY <2>1, <2>2
<1>10. CASE Reap
  <2>1. procs[turn] \in Children
    BY <1>10 DEF Reap
  <2>2. \A i \in 1..Len(procs) : i < turn' => child'[procs[i]] = "exited"
    BY <1>10, <2>1 DEF Reap
  <2>3. QED BY <1>10, <2>1, <2>2 DEF Reap
<1>11. CASE Leave
  BY <1>11 DEF Leave
<1>12. CASE Signal
  BY <1>12 DEF Signal
<1>13. ASSUME NEW c \in Children, ChildExits(c) PROVE StackInv'
  BY <1>13 DEF ChildExits, Alive
<1>14. CASE UNCHANGED supervising
  BY <1>14 DEF supervising
<1>15. QED
  BY <1>1, <1>2, <1>3, <1>4, <1>5, <1>6, <1>7, <1>8, <1>9, <1>10, <1>11, <1>12, <1>13, <1>14
  DEF NextStack, Supervise, Stopped

LEMMA StackConsequences == StackInv => TypeOKStack /\ LeftBehindExplained
<1> SUFFICES ASSUME StackInv PROVE TypeOKStack /\ LeftBehindExplained
  OBVIOUS
<1>1. procs = SubSeq(Order, 1, Len(procs))
  BY DEF StackInv, Typed, Registered, Order, Children
<1>2. TypeOKStack
  BY <1>1 DEF StackInv, Typed, Registered, TypeOKStack, Labels
<1>3. LeftBehindExplained
  BY DEF StackInv, Typed, Registered, Reaped, LeftBehindExplained, Alive, Children
<1>4. QED BY <1>2, <1>3

-----------------------------------------------------------------------------

\* The supervisor's state keeps its types however signals fall.
THEOREM StackTypeCorrect == SpecStack => []TypeOKStack
  BY StackInvInit, StackInvNext, StackConsequences, PTL DEF SpecStack

\* Whatever signals fall between whichever steps, a supervisor that exits leaves
\* behind only a child that was never registered.
THEOREM OnlyUnregisteredLeft == SpecStack => []LeftBehindExplained
  BY StackInvInit, StackInvNext, StackConsequences, PTL DEF SpecStack

\* The exit code is 0 exactly when a signal ended the stack, and 1 otherwise;
\* 1 says no more than that.
THEOREM ExitCodeTrue == SpecStack => []ExitCodeTellsWhy
<1>1. StackInv => ExitCodeTellsWhy
  BY DEF StackInv, Frames
<1>2. QED BY <1>1, StackInvInit, StackInvNext, PTL DEF SpecStack

-----------------------------------------------------------------------------

\* Every key of the registry r was registered for its tenant by some admin.
Backed(r) ==
    \A t \in Tenants, k \in Kids :
        r[t][k] # NoKey => [tenant |-> t, key |-> r[t][k]] \in vouched

\* Wherever entries are kept, they are backed: in the file, in the memory of a
\* command that is about to write them, in the running API.
RegistryInv ==
    /\ file \notin Unreadable => Backed(file)
    /\ \A a \in Admins : Backed(cli[a].new)
    /\ Backed(registry)

AccessInv == TypeOK /\ RegistryInv /\ AnsweredToOwner

-----------------------------------------------------------------------------
(* What is written is of the registry, and backed *)

LEMMA EmptyRegistry == Empty \in Registry /\ Backed(Empty)
  BY DEF Empty, Registry, Backed

LEMMA NoAnswerTyped ==
    /\ NoAnswer \in [code : {0, 200, 401, 403, 404}, key : Keys \cup {NoKey},
                     scope : Workflows \cup {"none", "*"},
                     workflow : Workflows \cup {"none"}]
    /\ NoAnswer.code = 0
  BY DEF NoAnswer

LEMMA OverwrittenTorn ==
    ASSUME NEW now, NEW new \in Registry, NEW f \in Overwritten(now, new)
    PROVE  f \in {new, Torn}
<1>1. CASE now = Torn
  BY <1>1 DEF Overwritten
<1>2. CASE now # Torn /\ (now = Empty \/ now = new)
  BY <1>2 DEF Overwritten
<1>3. CASE now # Torn /\ ~(now = Empty \/ now = new)
  BY <1>3 DEF Overwritten
<1> QED
  BY <1>1, <1>2, <1>3

LEMMA AccessInit == Init => AccessInv
<1> SUFFICES ASSUME Init PROVE AccessInv
  OBVIOUS
<1> USE EmptyRegistry
<1>1. file \in Registry \cup Unreadable /\ cli = [a \in Admins |-> Idle]
  BY DEF Init, Unreadable
<1>2. Idle \in [at : {"idle", "read", "open"}, new : Registry, force : BOOLEAN]
      /\ Idle.new = Empty
  BY DEF Idle
<1>3. TypeOK
  <2>1. cli \in [Admins -> [at : {"idle", "read", "open"}, new : Registry,
                         force : BOOLEAN]]
    BY <1>1, <1>2
  <2>2. owner \in [Workflows -> Tenants \cup {"none"}]
    BY DEF Init
  <2>3. feedback \in [Workflows -> [Tenants -> Nat]]
    BY DEF Init
  <2> QED
    BY <1>1, <2>1, <2>2, <2>3, NoAnswerTyped DEF Init, TypeOK
<1>4. file \notin Unreadable => Backed(file)
  BY DEF Init, Unreadable
<1>5. RegistryInv
  BY <1>1, <1>2, <1>4 DEF Init, RegistryInv
<1>6. AnsweredToOwner
  BY NoAnswerTyped DEF Init, AnsweredToOwner
<1> QED
  BY <1>3, <1>5, <1>6 DEF AccessInv

-----------------------------------------------------------------------------
(* One lemma per kind of step *)

\* A command: the only one that adds an entry vouches for it.
LEMMA CommandKeeps ==
    ASSUME AccessInv, NEW a \in Admins, AddCommand(a)
    PROVE  AccessInv'
<1> USE DEF AccessInv
<1>1. ASSUME NEW t \in Tenants, NEW k \in Kids, NEW key \in Keys,
             NEW force \in BOOLEAN, ReadFile(a, t, k, key, force)
      PROVE  AccessInv'
  <2> DEFINE read == IF file = Missing THEN Empty ELSE file
             new == Added(read, t, k, key)
  <2>1. read \in Registry /\ Backed(read)
    <3>1. CASE file = Missing
      BY <3>1, EmptyRegistry
    <3>2. CASE file # Missing
      <4>1. file \notin Unreadable
        BY <1>1, <3>2 DEF ReadFile, Unreadable
      <4> QED
        BY <4>1, <3>2 DEF TypeOK, RegistryInv
    <3> QED
      BY <3>1, <3>2
  <2>2. new \in Registry
    BY <2>1 DEF Added, Registry
  <2>3. /\ cli' = [cli EXCEPT ![a] = [at |-> "read", new |-> new, force |-> force]]
        /\ adds' = adds + 1
        /\ vouched' = vouched \cup {[tenant |-> t, key |-> key]}
        /\ answer' = NoAnswer
        /\ UNCHANGED <<file, apiVars, rowVars>>
    BY <1>1 DEF ReadFile
  <2>4. TypeOK'
    BY <2>2, <2>3, NoAnswerTyped DEF TypeOK, apiVars, rowVars
  <2>5. \A u \in Tenants, j \in Kids :
            new[u][j] # NoKey => [tenant |-> u, key |-> new[u][j]] \in vouched'
    <3>1. SUFFICES ASSUME NEW u \in Tenants, NEW j \in Kids, new[u][j] # NoKey
                   PROVE  [tenant |-> u, key |-> new[u][j]] \in vouched'
      OBVIOUS
    <3>2. CASE u = t /\ j = k
      BY <3>2, <2>1, <2>3 DEF Added, Registry
    <3>3. CASE ~(u = t /\ j = k)
      <4>1. new[u][j] = read[u][j]
        BY <3>3, <2>1 DEF Added, Registry
      <4> QED
        BY <4>1, <3>1, <2>1, <2>3 DEF Backed
    <3> QED
      BY <3>2, <3>3
  <2>6. \A b \in Admins : cli'[b].new = IF b = a THEN new ELSE cli[b].new
    BY <2>3 DEF TypeOK
  <2>7. RegistryInv'
    <3>1. (file \notin Unreadable => Backed(file))'
      BY <2>3 DEF RegistryInv, Backed
    <3>2. \A b \in Admins : Backed(cli[b].new)'
      <4>1. SUFFICES ASSUME NEW b \in Admins, NEW u \in Tenants, NEW j \in Kids,
                            cli'[b].new[u][j] # NoKey
                     PROVE  [tenant |-> u, key |-> cli'[b].new[u][j]] \in vouched'
        BY DEF Backed
      <4>2. CASE b = a
        BY <4>1, <4>2, <2>5, <2>6
      <4>3. CASE b # a
        BY <4>1, <4>3, <2>3, <2>6 DEF RegistryInv, Backed
      <4> QED
        BY <4>2, <4>3
    <3>3. Backed(registry)'
      BY <2>3 DEF RegistryInv, Backed, apiVars
    <3> QED
      BY <3>1, <3>2, <3>3 DEF RegistryInv, Unreadable
  <2> QED
    BY <2>3, <2>4, <2>7, NoAnswerTyped DEF AnsweredToOwner
<1>2. CASE Truncate(a)
  <2>1. /\ cli' = [cli EXCEPT ![a].at = "open"]
        /\ file' = Torn /\ answer' = NoAnswer
        /\ UNCHANGED <<adds, vouched, apiVars, rowVars>>
    BY <1>2 DEF Truncate
  <2>2. \A b \in Admins : cli'[b].new = cli[b].new
    BY <2>1 DEF TypeOK
  <2>3. TypeOK'
    BY <2>1, NoAnswerTyped DEF TypeOK, Unreadable, apiVars, rowVars
  <2>4. RegistryInv'
    BY <2>1, <2>2 DEF RegistryInv, Unreadable, Backed, apiVars
  <2> QED
    BY <2>1, <2>3, <2>4, NoAnswerTyped DEF AnsweredToOwner
<1>3. CASE WriteFile(a)
  <2>1. /\ file' \in Overwritten(file, cli[a].new)
        /\ cli' = [cli EXCEPT ![a] = Idle]
        /\ answer' = NoAnswer
        /\ UNCHANGED <<adds, vouched, apiVars, rowVars>>
    BY <1>3 DEF WriteFile
  <2>2. cli[a].new \in Registry
    BY DEF TypeOK
  <2>3. file' \in {cli[a].new, Torn}
    BY <2>1, <2>2, OverwrittenTorn
  <2>4. Idle \in [at : {"idle", "read", "open"}, new : Registry, force : BOOLEAN]
        /\ Idle.new = Empty
    BY EmptyRegistry DEF Idle
  <2>5. \A b \in Admins : cli'[b].new = IF b = a THEN Empty ELSE cli[b].new
    BY <2>1, <2>4 DEF TypeOK
  <2>6. TypeOK'
    BY <2>1, <2>2, <2>3, <2>4, NoAnswerTyped DEF TypeOK, Unreadable, apiVars, rowVars
  <2>7. RegistryInv'
    <3>1. (file \notin Unreadable => Backed(file))'
      BY <2>1, <2>3 DEF RegistryInv, Unreadable, Backed
    <3>2. \A b \in Admins : Backed(cli[b].new)'
      BY <2>1, <2>5, EmptyRegistry DEF RegistryInv, Backed
    <3> QED
      BY <3>1, <3>2, <2>1 DEF RegistryInv, Backed, apiVars
  <2> QED
    BY <2>1, <2>6, <2>7, NoAnswerTyped DEF AnsweredToOwner
<1> QED
  BY <1>1, <1>2, <1>3 DEF AddCommand

\* The life of the API: it takes entries from the file, and none of its own.
LEMMA ProcessKeeps ==
    ASSUME AccessInv, Start \/ OpenNewFile \/ WriteNewFile \/ Stop
    PROVE  AccessInv'
<1> USE DEF AccessInv
<1>1. answer' = NoAnswer /\ UNCHANGED <<cli, adds, vouched, rowVars>>
  BY DEF Start, OpenNewFile, WriteNewFile, Stop, registryVars
<1>2. api' \in {"down", "creating", "writing", "up"}
  BY DEF Start, OpenNewFile, WriteNewFile, Stop, TypeOK
<1>3. authOff' \in BOOLEAN
  BY TenantAssumption DEF Start, OpenNewFile, WriteNewFile, Stop, TypeOK
<1>4. file' \in {file, Empty, Torn}
  <2>1. CASE WriteNewFile
    BY <2>1, EmptyRegistry, OverwrittenTorn DEF WriteNewFile
  <2> QED
    BY <2>1 DEF Start, OpenNewFile, Stop, registryVars
<1>5. registry' \in {registry, Empty} \/ (file \notin Unreadable /\ registry' = file)
  BY DEF Start, OpenNewFile, WriteNewFile, Stop
<1>6. TypeOK'
  <2>1. registry' \in Registry
    BY <1>5, EmptyRegistry DEF TypeOK
  <2>2. file' \in Registry \cup Unreadable
    BY <1>4, EmptyRegistry DEF TypeOK, Unreadable
  <2> QED
    BY <1>1, <1>2, <1>3, <2>1, <2>2, NoAnswerTyped DEF TypeOK, rowVars
<1>7. RegistryInv'
  <2>1. (file \notin Unreadable => Backed(file))'
    BY <1>1, <1>4, EmptyRegistry DEF RegistryInv, Unreadable, Backed
  <2>2. Backed(registry)'
    BY <1>1, <1>5, EmptyRegistry DEF RegistryInv, Backed
  <2> QED
    BY <1>1, <2>1, <2>2 DEF RegistryInv, Backed
<1> QED
  BY <1>1, <1>6, <1>7, NoAnswerTyped DEF AnsweredToOwner

\* Whoever is let in without a key is the dev tenant, and whoever presents one
\* acts for the tenant it was registered for.
LEMMA ContextIsBacked ==
    ASSUME AccessInv, NEW auth \in Contexts
    PROVE  /\ auth.tenant \in Tenants
           /\ auth.key \in Keys \cup {NoKey}
           /\ auth.scope \in Workflows \cup {"none", "*"}
           /\ IF auth.key = NoKey
              THEN auth.tenant = DevTenant
              ELSE [tenant |-> auth.tenant, key |-> auth.key] \in vouched
<1>1. CASE authOff
  <2>1. auth = [tenant |-> DevTenant, scope |-> "none", key |-> NoKey]
    BY <1>1 DEF Contexts
  <2> QED
    BY <2>1, TenantAssumption
<1>2. CASE ~authOff
  <2>1. PICK tok \in Token : /\ Verified(tok)
                             /\ auth = [tenant |-> tok.iss, scope |-> tok.scope,
                                        key |-> tok.key]
    BY <1>2 DEF Contexts
  <2>2. tok.iss \in Tenants /\ tok.kid \in Kids /\ tok.key \in Keys
        /\ tok.scope \in Workflows \cup {"none", "*"}
    BY DEF Token
  <2>3. tok.key # NoKey
    BY <2>2, TenantAssumption
  <2>4. [tenant |-> tok.iss, key |-> tok.key] \in vouched
    BY <2>1, <2>2, <2>3 DEF Verified, AccessInv, RegistryInv, Backed
  <2> QED
    BY <2>1, <2>2, <2>3, <2>4
<1> QED
  BY <1>1, <1>2

\* A request is answered 200 only for a row of its tenant, within its scope.
LEMMA RequestKeeps ==
    ASSUME AccessInv, NEW auth \in Contexts, NEW w \in Workflows,
           Create(auth, w) \/ Read(auth, w) \/ Rate(auth, w)
    PROVE  AccessInv'
<1> USE DEF AccessInv
<1> DEFINE Answers == [code : {0, 200, 401, 403, 404}, key : Keys \cup {NoKey},
                       scope : Workflows \cup {"none", "*"},
                       workflow : Workflows \cup {"none"}]
<1>1. UNCHANGED <<registryVars, apiVars>>
  BY DEF Create, Read, Rate
<1>2. RegistryInv'
  BY <1>1 DEF RegistryInv, Backed, Unreadable, registryVars, apiVars
<1>3. /\ owner' \in [Workflows -> Tenants \cup {"none"}]
      /\ feedback' \in [Workflows -> [Tenants -> Nat]]
      /\ answer' \in Answers
      /\ AnsweredToOwner'
  <2> USE ContextIsBacked
  <2>1. CASE Create(auth, w)
    <3>1. /\ owner' = [owner EXCEPT ![w] = auth.tenant]
          /\ answer' = [code |-> 200, key |-> auth.key, scope |-> "none", workflow |-> w]
          /\ feedback' = feedback
      BY <2>1 DEF Create, Answered
    <3>2. owner'[w] = auth.tenant
      BY <3>1 DEF TypeOK
    <3> QED
      BY <3>1, <3>2, <1>1 DEF TypeOK, AnsweredToOwner, registryVars
  <2>2. CASE Read(auth, w)
    <3> DEFINE reply == AuthorizedCode(auth, w)
    <3>1. /\ answer' = [code |-> reply, key |-> auth.key, scope |-> auth.scope,
                        workflow |-> w]
          /\ owner' = owner /\ feedback' = feedback
      BY <2>2 DEF Read, Answered, rowVars
    <3>2. reply \in {200, 403, 404}
      BY DEF AuthorizedCode
    <3>3. reply = 200 => owner[w] = auth.tenant /\ auth.scope \in {"none", "*", w}
      BY DEF AuthorizedCode, Owns, InScope
    <3>4. answer' \in Answers
      BY <3>1, <3>2
    <3>5. AnsweredToOwner'
      BY <3>1, <3>3, <1>1 DEF AnsweredToOwner, registryVars
    <3> QED
      BY <3>1, <3>4, <3>5 DEF TypeOK
  <2>3. CASE Rate(auth, w)
    <3> DEFINE reply == TenantCode(auth, w)
    <3>1. /\ answer' = [code |-> reply, key |-> auth.key, scope |-> "none",
                        workflow |-> w]
          /\ owner' = owner
          /\ feedback' = feedback
                \/ feedback' = [feedback EXCEPT ![w][auth.tenant] = @ + 1]
      BY <2>3 DEF Rate, Answered, AppendFeedback
    <3>2. reply \in {200, 403, 404}
      BY DEF TenantCode
    <3>3. reply = 200 => owner[w] = auth.tenant
      BY DEF TenantCode, Owns
    <3>4. answer' \in Answers
      BY <3>1, <3>2
    <3>5. AnsweredToOwner'
      BY <3>1, <3>3, <1>1 DEF AnsweredToOwner, registryVars
    <3>6. feedback' \in [Workflows -> [Tenants -> Nat]]
      <4>1. auth.tenant \in Tenants /\ feedback[w] \in [Tenants -> Nat]
        BY DEF TypeOK
      <4>2. [feedback[w] EXCEPT ![auth.tenant] = @ + 1] \in [Tenants -> Nat]
        BY <4>1
      <4> QED
        BY <3>1, <4>2 DEF TypeOK
    <3> QED
      BY <3>1, <3>4, <3>5, <3>6 DEF TypeOK
  <2> QED
    BY <2>1, <2>2, <2>3
<1>4. TypeOK'
  BY <1>1, <1>3 DEF TypeOK, registryVars, apiVars
<1> QED
  BY <1>2, <1>3, <1>4

LEMMA AccessNext == AccessInv /\ [Next]_vars => AccessInv'
<1> SUFFICES ASSUME AccessInv, [Next]_vars PROVE AccessInv'
  OBVIOUS
<1>1. CASE \E a \in Admins : AddCommand(a)
  BY <1>1, CommandKeeps
<1>2. CASE Start \/ OpenNewFile \/ WriteNewFile \/ Stop
  BY <1>2, ProcessKeeps
<1>3. CASE Unauthorized
  <2>1. answer' = [NoAnswer EXCEPT !.code = 401]
        /\ UNCHANGED <<registryVars, apiVars, rowVars>>
    BY <1>3 DEF Unauthorized
  <2>2. answer'.code = 401
    BY <2>1 DEF NoAnswer
  <2>3. answer' \in [code : {0, 200, 401, 403, 404}, key : Keys \cup {NoKey},
                     scope : Workflows \cup {"none", "*"},
                     workflow : Workflows \cup {"none"}]
    BY <2>1 DEF NoAnswer
  <2>4. TypeOK'
    BY <2>1, <2>3 DEF AccessInv, TypeOK, registryVars, apiVars, rowVars
  <2>5. RegistryInv'
    BY <2>1 DEF AccessInv, RegistryInv, Backed, Unreadable, registryVars, apiVars
  <2> QED
    BY <2>2, <2>4, <2>5 DEF AccessInv, AnsweredToOwner
<1>4. CASE Request
  BY <1>4, RequestKeeps DEF Request
<1>5. CASE UNCHANGED vars
  BY <1>5 DEF AccessInv, TypeOK, RegistryInv, Backed, Unreadable, AnsweredToOwner,
              vars, registryVars, apiVars, rowVars
<1> QED
  BY <1>1, <1>2, <1>3, <1>4, <1>5 DEF Next

THEOREM AccessInvariant == Spec => []AccessInv
<1> QED
  BY AccessInit, AccessNext, PTL DEF Spec

-----------------------------------------------------------------------------

\* Files, commands, the API and its answers keep their types, whatever is run
\* beside what.
THEOREM TypeCorrect == Spec => []TypeOK
<1>1. AccessInv => TypeOK
  BY DEF AccessInv
<1> QED
  BY <1>1, AccessInvariant, PTL

\* get_authorized_workflow and get_tenant_workflow answer a workflow only to its
\* tenant, on a key that was registered for that tenant, and within the scope of
\* the token, also when any number of `tenants add` race for the file.
THEOREM AnsweredToOwnerAlways == Spec => []AnsweredToOwner
<1>1. AccessInv => AnsweredToOwner
  BY DEF AccessInv
<1> QED
  BY <1>1, AccessInvariant, PTL

-----------------------------------------------------------------------------
(***************************************************************************)
(* One command at a time.  The file can still change between its reading   *)
(* and its writing, but only to nothing, by an API that thinks it missing. *)
(***************************************************************************)

OneAdmin == \E a \in Admins : Admins = {a}

\* What the command is about to write has the keys that are in the file.
Supersedes(new, old, force) ==
    \A t \in Tenants, k \in Kids :
        old[t][k] # NoKey => new[t][k] # NoKey /\ (new[t][k] = old[t][k] \/ force)

AloneInv ==
    /\ TypeOK
    /\ \A a \in Admins :
          /\ cli[a].at = "read" /\ file \notin Unreadable =>
                Supersedes(cli[a].new, file, cli[a].force)
          /\ cli[a].at = "open" => file \in {Torn, Empty}

LEMMA SettledAlone ==
    ASSUME NEW a \in Admins, Admins = {a}, NEW f, NEW c
    PROVE  Settled(f, c) = IF c[a].at = "open" THEN c[a].new
                           ELSE IF f \in Unreadable THEN Empty ELSE f
<1>1. CASE c[a].at = "open"
  <2>1. (CHOOSE b \in Admins : c[b].at = "open") = a
    BY <1>1
  <2> QED
    BY <1>1, <2>1 DEF Settled
<1>2. CASE c[a].at # "open"
  BY <1>2 DEF Settled
<1> QED
  BY <1>1, <1>2

LEMMA NothingToSupersede ==
    ASSUME NEW new, NEW force PROVE Supersedes(new, Empty, force)
  BY DEF Supersedes, Empty

LEMMA AloneNext ==
    ASSUME OneAdmin, AloneInv, TypeOK', [Next]_vars
    PROVE  AloneInv'
<1> PICK a \in Admins : Admins = {a}
  BY DEF OneAdmin
<1> USE DEF AloneInv
<1>0. Torn \in Unreadable /\ Missing \in Unreadable /\ Torn # Empty
  BY EmptyRegistry, TenantAssumption DEF Unreadable
<1> SUFFICES /\ cli'[a].at = "read" /\ file' \notin Unreadable =>
                  Supersedes(cli'[a].new, file', cli'[a].force)
             /\ cli'[a].at = "open" => file' \in {Torn, Empty}
  BY DEF Supersedes, Unreadable
<1>1. ASSUME NEW t \in Tenants, NEW k \in Kids, NEW key \in Keys,
             NEW force \in BOOLEAN, ReadFile(a, t, k, key, force)
      PROVE  /\ cli'[a].at = "read" /\ file' \notin Unreadable =>
                  Supersedes(cli'[a].new, file', cli'[a].force)
             /\ cli'[a].at = "open" => file' \in {Torn, Empty}
  <2> DEFINE read == IF file = Missing THEN Empty ELSE file
  <2>1. cli'[a] = [at |-> "read", new |-> Added(read, t, k, key), force |-> force]
    BY <1>1 DEF ReadFile, TypeOK
  <2>2. file' = file /\ (read[t][k] = NoKey \/ force)
    BY <1>1 DEF ReadFile
  <2>3. ASSUME file \notin Unreadable
        PROVE  Supersedes(Added(file, t, k, key), file, force)
    <3>1. file \in Registry /\ read = file
      BY <2>3, <1>0 DEF TypeOK
    <3>2. SUFFICES ASSUME NEW u \in Tenants, NEW j \in Kids, file[u][j] # NoKey
                   PROVE  /\ Added(file, t, k, key)[u][j] # NoKey
                          /\ Added(file, t, k, key)[u][j] = file[u][j] \/ force
      BY DEF Supersedes
    <3>3. CASE u = t /\ j = k
      BY <3>1, <3>2, <3>3, <2>2, TenantAssumption DEF Added, Registry
    <3>4. CASE ~(u = t /\ j = k)
      BY <3>1, <3>2, <3>4 DEF Added, Registry
    <3> QED
      BY <3>3, <3>4
  <2>4. file \notin Unreadable => read = file
    BY <1>0
  <2> QED
    BY <2>1, <2>2, <2>3, <2>4
<1>2. CASE Truncate(a)
  BY <1>2, <1>0 DEF Truncate, TypeOK
<1>3. CASE WriteFile(a)
  <2>1. cli'[a].at = "idle"
    BY <1>3 DEF WriteFile, TypeOK, Idle
  <2> QED
    BY <2>1
<1>4. CASE WriteNewFile
  <2>1. cli' = cli /\ file' \in Overwritten(file, Empty)
    BY <1>4 DEF WriteNewFile
  <2>2. file' \in {Torn, Empty}
    BY <2>1, OverwrittenTorn, EmptyRegistry
  <2> QED
    BY <2>1, <2>2, <1>0, NothingToSupersede
<1>5. CASE OpenNewFile
  BY <1>5, <1>0 DEF OpenNewFile
<1>6. CASE UNCHANGED <<file, cli>>
  BY <1>6
<1>7. CASE Start \/ Stop \/ Unauthorized \/ Request \/ UNCHANGED vars
  <2>1. UNCHANGED <<file, cli>>
    BY <1>7 DEF Start, Stop, Unauthorized, Request, Create, Read, Rate, vars,
                registryVars
  <2> QED
    BY <2>1, <1>6
<1> QED
  BY <1>1, <1>2, <1>3, <1>4, <1>5, <1>7 DEF Next, AddCommand

\* The step of RegistrationsKept.
KeptStep ==
    api \notin {"creating", "writing"} =>
        \A t \in Tenants, k \in Kids :
            LET before == Settled(file, cli)[t][k]
                after  == Settled(file', cli')[t][k]
            IN  before # NoKey =>
                    \/ after = before
                    \/ after # NoKey /\ \E a \in Admins : cli[a].force

LEMMA AloneKeeps ==
    ASSUME OneAdmin, AloneInv, TypeOK', [Next]_vars
    PROVE  [KeptStep]_vars
<1> PICK a \in Admins : Admins = {a}
  BY DEF OneAdmin
<1> SUFFICES ASSUME api \notin {"creating", "writing"}, NEW t \in Tenants, NEW k \in Kids,
                    Settled(file, cli)[t][k] # NoKey
             PROVE  \/ Settled(file', cli')[t][k] = Settled(file, cli)[t][k]
                    \/ Settled(file', cli')[t][k] # NoKey /\ \E b \in Admins : cli[b].force
  BY DEF KeptStep
<1>0. Torn \in Unreadable /\ Missing \in Unreadable /\ Torn # Empty
  BY EmptyRegistry, TenantAssumption DEF Unreadable
<1>1. Settled(file, cli) = IF cli[a].at = "open" THEN cli[a].new
                           ELSE IF file \in Unreadable THEN Empty ELSE file
  BY SettledAlone
<1>2. Settled(file', cli') = IF cli'[a].at = "open" THEN cli'[a].new
                             ELSE IF file' \in Unreadable THEN Empty ELSE file'
  BY SettledAlone
<1>3. CASE UNCHANGED <<file, cli>>
  BY <1>3
<1>4. CASE \E u \in Tenants, j \in Kids, key \in Keys, force \in BOOLEAN :
               ReadFile(a, u, j, key, force)
  <2>1. cli[a].at # "open" /\ cli'[a].at # "open" /\ file' = file
    BY <1>4 DEF ReadFile, AloneInv, TypeOK
  <2> QED
    BY <2>1, <1>1, <1>2
<1>5. CASE Truncate(a)
  <2>1. /\ cli[a].at = "read" /\ cli'[a].at = "open"
        /\ cli'[a].new = cli[a].new
    BY <1>5 DEF Truncate, AloneInv, TypeOK
  <2>2. CASE file \in Unreadable
    BY <2>1, <2>2, <1>1 DEF Empty
  <2>3. CASE file \notin Unreadable
    BY <2>1, <2>3, <1>1, <1>2 DEF AloneInv, Supersedes
  <2> QED
    BY <2>2, <2>3
<1>6. CASE WriteFile(a)
  <2>1. cli[a].at = "open" /\ cli'[a].at = "idle" /\ file' \in Overwritten(file, cli[a].new)
    BY <1>6 DEF WriteFile, AloneInv, TypeOK, Idle
  <2>2. file \in {Torn, Empty}
    BY <2>1 DEF AloneInv
  <2>3. file' = cli[a].new
    BY <2>1, <2>2 DEF Overwritten
  <2>4. file' \notin Unreadable
    BY <2>3, TenantAssumption DEF Unreadable, AloneInv, TypeOK
  <2> QED
    BY <2>1, <2>3, <2>4, <1>1, <1>2
<1>7. CASE Start \/ Stop \/ Unauthorized \/ Request \/ UNCHANGED vars
  <2>1. UNCHANGED <<file, cli>>
    BY <1>7 DEF Start, Stop, Unauthorized, Request, Create, Read, Rate, vars,
                registryVars
  <2> QED
    BY <2>1, <1>3
<1>8. ~OpenNewFile /\ ~WriteNewFile
  BY DEF OpenNewFile, WriteNewFile
<1> QED
  BY <1>4, <1>5, <1>6, <1>7, <1>8 DEF Next, AddCommand

\* Command by command, a registration stays until --force replaces it: cli/tenants.py
\* writes back what it read.  With two commands at a time this fails (tenants_race).
THEOREM RegistrationsKeptOneByOne ==
    ASSUME OneAdmin
    PROVE  Spec => RegistrationsKept
<1>1. Spec => []TypeOK
  BY TypeCorrect
<1>2. Init /\ TypeOK => AloneInv
  BY DEF Init, AloneInv, Idle
<1>3. AloneInv /\ TypeOK' /\ [Next]_vars => AloneInv'
  BY AloneNext
<1>4. AloneInv /\ TypeOK' /\ [Next]_vars => [KeptStep]_vars
  BY AloneKeeps
<1>5. Spec => [][KeptStep]_vars
  BY <1>1, <1>2, <1>3, <1>4, PTL DEF Spec
<1> QED
  BY <1>5 DEF RegistrationsKept, KeptStep

=============================================================================
