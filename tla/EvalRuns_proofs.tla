---------------------------- MODULE EvalRuns_proofs ----------------------------
(***************************************************************************)
(* What a sweep leaves behind, for any dataset, any list of combinations,  *)
(* any number of sweeps and whatever fails in them.                        *)
(***************************************************************************)
EXTENDS EvalRuns, TLAPS

N == Len(Combinations)
Names == ToSet(Combinations)

LEMMA CombinationFacts ==
    /\ N \in Nat /\ N >= 1
    /\ DOMAIN Combinations = 1..N
    /\ \A i \in 1..N : Combinations[i] \in Names
    /\ \A c \in Names : \E i \in 1..N : c = Combinations[i]
    /\ \A i, j \in 1..N : Combinations[i] = Combinations[j] => i = j
<1> DEFINE C == Combinations
<1>1. C \in Seq(Names) /\ C # <<>>
  BY EvalRunsAssumption DEF Names
<1>2. N \in Nat /\ DOMAIN C = 1..N
  BY <1>1 DEF N
<1>3. N >= 1
  BY <1>1, <1>2 DEF N
<1>4. \A i, j \in DOMAIN C : C[i] = C[j] => i = j
  BY EvalRunsAssumption DEF IsInjective
<1> QED
  BY <1>1, <1>2, <1>3, <1>4 DEF Names, ToSet

\* While the loops run, the combinations before turn are behind them; once the
\* sweep is at its table, all are.
Past == IF at \in {"csv", "listing", "ended"} THEN 1..N ELSE 1..(turn - 1)

SavedOnly(c) == json[c] = sweep /\ errors[c] < sweep

\* Each combination behind the loops has been reported, none before them has,
\* and rows are of runs that were saved and had no error.
SweepInv ==
    /\ \A c \in Names : json[c] <= sweep /\ errors[c] <= sweep
    /\ csv.sweep <= sweep
    /\ sweep = 0 => at = "ended"
    /\ at # "died" /\ sweep > 0 =>
          /\ \A i \in 1..N :
                IF i \in Past
                THEN errors[Combinations[i]] = sweep \/ json[Combinations[i]] = sweep
                ELSE errors[Combinations[i]] < sweep
          /\ \A row \in rows : \E i \in Past : row[1] = Combinations[i] /\ SavedOnly(row[1])
          /\ at = "flatten" => json[Current] = sweep
    /\ csv.sweep = sweep /\ sweep > 0 => at = "ended" /\ csv.rows = rows
    /\ at = "ended" /\ sweep > 0 /\ rows # {} => csv.sweep = sweep

\* Unless its filling can fail or be killed, the dataset is empty or whole
\* whenever a run looks at it.
FillInv ==
    faults \cap {"fill", "kill"} = {} =>
        /\ IF at = "populate" THEN remote \cup todo = Items ELSE remote \in {{}, Items}
        /\ at = "reget" => remote = Items
        /\ at \in {"experiment", "save", "saving", "flatten"} => data = Items

RunInv == TypeOK /\ SweepInv /\ FillInv

-----------------------------------------------------------------------------

LEMMA RunInit == Init => RunInv
<1> SUFFICES ASSUME Init PROVE RunInv
  OBVIOUS
<1> USE CombinationFacts, EvalRunsAssumption
<1>1. TypeOK
  BY DEF Init, TypeOK, Steps, Names, Torn
<1>2. SweepInv
  BY DEF Init, SweepInv, Names
<1>3. FillInv
  BY DEF Init, FillInv
<1> QED
  BY <1>1, <1>2, <1>3 DEF RunInv

InLoops == {"prompt", "get", "create", "populate", "reget", "experiment", "save",
            "saving", "flatten", "error", "reporting"}

\* A file of results or of an error is truncated and then written; one that is not
\* the current run's is left alone.
LEMMA FileWritten ==
    ASSUME NEW f, NEW v, f \in [Names -> Torn..MaxSweeps], turn \in 1..N
    PROVE  /\ [f EXCEPT ![Current] = v][Current] = v
           /\ \A c \in Names : c # Current => [f EXCEPT ![Current] = v][c] = f[c]
           /\ \A i \in 1..N : i # turn =>
                 /\ Combinations[i] # Current
                 /\ [f EXCEPT ![Current] = v][Combinations[i]] = f[Combinations[i]]
<1>1. Current \in Names /\ Current = Combinations[turn]
  BY CombinationFacts DEF Current
<1>2. \A i \in 1..N : i # turn => Combinations[i] # Current /\ Combinations[i] \in Names
  BY <1>1, CombinationFacts
<1> QED
  BY <1>1, <1>2

\* A step within a run leaves what sweeps are judged by as it was.
LEMMA WithinRun ==
    ASSUME TypeOK, SweepInv, at \in InLoops, at' \in InLoops,
           UNCHANGED <<json, errors, csv, sweep, turn, rows>>,
           at' = "flatten" => json[Current] = sweep
    PROVE  SweepInv'
<1>1. Past' = Past /\ Current' = Current
  BY DEF Past, InLoops, Current
<1>2. \A c : SavedOnly(c)' = SavedOnly(c)
  BY DEF SavedOnly
<1>3. sweep \in Nat /\ sweep # 0
  BY EvalRunsAssumption DEF TypeOK, SweepInv, InLoops
<1>4. csv.sweep # sweep
  BY <1>3 DEF SweepInv, InLoops
<1> QED
  BY <1>1, <1>2, <1>3, <1>4 DEF SweepInv, InLoops, SavedOnly

\* When the loops go on, the current combination joins those behind them.
LEMMA PastNext ==
    ASSUME TypeOK, at \in InLoops, NextTurn
    PROVE  /\ Past' = Past \cup {turn} /\ turn \notin Past
           /\ Past = 1..(turn - 1) /\ turn \in 1..N
           /\ at' # "flatten" /\ at' # "ended" /\ at' # "died"
<1> USE CombinationFacts
<1>1. turn \in 1..N /\ Past = 1..(turn - 1)
  BY DEF TypeOK, Past, InLoops
<1>2. CASE turn < N
  <2>1. at' = "prompt" /\ turn' = turn + 1
    BY <1>2 DEF NextTurn, N
  <2> QED
    BY <1>1, <2>1 DEF Past
<1>3. CASE ~(turn < N)
  <2>1. at' = "csv" /\ turn' = turn
    BY <1>3 DEF NextTurn, N
  <2> QED
    BY <1>1, <1>3, <2>1 DEF Past
<1> QED
  BY <1>2, <1>3

-----------------------------------------------------------------------------
(* TypeOK, FillInv and SweepInv, step by step *)

LEMMA StepTyped == RunInv /\ [Next]_vars => TypeOK'
<1> SUFFICES ASSUME RunInv, [Next]_vars PROVE TypeOK'
  OBVIOUS
<1> USE CombinationFacts, EvalRunsAssumption
<1>0. TypeOK /\ at \in Steps /\ turn \in 1..N /\ Current \in Names
  BY DEF RunInv, TypeOK, Current
<1>1. CASE StartSweep /\ UNCHANGED faults
  BY <1>0, <1>1 DEF StartSweep, TypeOK, Steps, stored
<1>2. CASE Kill \/ ReportFails
  BY <1>0, <1>2 DEF Kill, ReportFails, Die, TypeOK, Steps, stored
<1>3. CASE SyncPrompt \/ GetDataset \/ CreateDataset \/ CreateItem \/ GetFilledDataset
  <2>1. at' \in Steps /\ UNCHANGED <<json, errors, csv, sweep, turn, rows>>
    BY <1>3 DEF SyncPrompt, GetDataset, CreateDataset, CreateItem, GetFilledDataset,
                Goto, Steps, stored
  <2>2. remote' \subseteq Items /\ todo' \subseteq Items
    BY <1>0, <1>3 DEF SyncPrompt, GetDataset, CreateDataset, CreateItem,
                GetFilledDataset, TypeOK, stored
  <2>3. data' \in {data, remote} /\ result' = result
    BY <1>3 DEF SyncPrompt, GetDataset, CreateDataset, CreateItem, GetFilledDataset
  <2> QED
    BY <1>0, <1>3, <2>1, <2>2, <2>3 DEF TypeOK
<1>4. CASE CreateItemFails \/ OtherRequestFails \/ SaveFails
  BY <1>0, <1>4 DEF CreateItemFails, OtherRequestFails, SaveFails, RequestFails, Raise,
                    Goto, TypeOK, Steps, stored
<1>5. CASE RunExperiment
  BY <1>0, <1>5 DEF RunExperiment, TaskResults, Goto, TypeOK, Steps, stored
<1>6. CASE OpenJson \/ SaveJson \/ OpenError
  <2>1. Torn \in Torn..MaxSweeps /\ sweep \in Torn..MaxSweeps
    BY <1>0 DEF TypeOK, Torn
  <2>2. /\ \/ json' = json
           \/ \E v \in {Torn, sweep} : json' = [json EXCEPT ![Current] = v]
        /\ errors' = errors \/ errors' = [errors EXCEPT ![Current] = Torn]
        /\ at' \in Steps
        /\ UNCHANGED <<remote, csv, sweep, turn, todo, data, result, rows>>
    BY <1>6 DEF OpenJson, SaveJson, OpenError, Goto, Steps
  <2>3. /\ json' \in [Names -> Torn..MaxSweeps]
        /\ errors' \in [Names -> Torn..MaxSweeps]
    BY <1>0, <2>1, <2>2 DEF TypeOK, Names
  <2> QED
    BY <1>0, <2>2, <2>3 DEF TypeOK, Names
<1>7. CASE FlattenRows \/ ReportError
  <2>1. NextTurn
    BY <1>7 DEF FlattenRows, ReportError
  <2>2. at' \in Steps /\ turn' \in 1..N /\ todo' = {} /\ data' = {} /\ result' = {}
        /\ sweep' = sweep
    BY <1>0, <2>1 DEF NextTurn, Steps, N
  <2>3. rows' \subseteq Names \X Items
    BY <1>0, <1>7 DEF FlattenRows, ReportError, TypeOK, Names
  <2>4. errors' \in [Names -> Torn..MaxSweeps] /\ UNCHANGED <<remote, json, csv>>
    BY <1>0, <1>7 DEF FlattenRows, ReportError, TypeOK, Names, stored, Torn
  <2> QED
    BY <1>0, <2>2, <2>3, <2>4 DEF TypeOK, Names
<1>8. CASE OpenCsv \/ WriteCsv
  BY <1>0, <1>8 DEF OpenCsv, WriteCsv, TypeOK, Steps, Torn
<1>9. CASE UNCHANGED vars
  BY <1>0, <1>9 DEF vars, stored, working, TypeOK
<1> QED
  BY <1>1, <1>2, <1>3, <1>4, <1>5, <1>6, <1>7, <1>8, <1>9 DEF Next, Work, AllDone

LEMMA StepFilled == RunInv /\ [Next]_vars => FillInv'
<1> SUFFICES ASSUME RunInv, [Next]_vars, faults \cap {"fill", "kill"} = {}
             PROVE  FillInv'
  BY DEF Next, Work, AllDone, vars, FillInv
<1> USE DEF FillInv
<1>0. TypeOK /\ FillInv
  BY DEF RunInv
<1>1. CASE StartSweep
  BY <1>0, <1>1 DEF StartSweep, stored
<1>2. CASE ReportFails
  BY <1>0, <1>2 DEF ReportFails, Die, stored
<1>3. ~Kill /\ ~CreateItemFails
  BY DEF Kill, CreateItemFails, RequestFails
<1>4. CASE SyncPrompt \/ CreateDataset \/ GetFilledDataset
  BY <1>0, <1>4 DEF SyncPrompt, CreateDataset, GetFilledDataset, Goto, stored, TypeOK
<1>5. CASE GetDataset
  BY <1>0, <1>5 DEF GetDataset, Goto, stored
<1>6. CASE CreateItem
  <2>1. CASE todo = {}
    BY <1>0, <1>6, <2>1 DEF CreateItem, Goto
  <2>2. CASE todo # {}
    BY <1>0, <1>6, <2>2 DEF CreateItem, Goto
  <2> QED
    BY <2>1, <2>2
<1>7. CASE \/ RunExperiment \/ OtherRequestFails \/ OpenJson \/ SaveJson \/ SaveFails
           \/ OpenError
  BY <1>0, <1>7 DEF RunExperiment, OtherRequestFails, RequestFails, OpenJson, SaveJson,
                    SaveFails, OpenError, Raise, Goto, stored
<1>8. CASE FlattenRows \/ ReportError
  BY <1>0, <1>8 DEF FlattenRows, ReportError, NextTurn, stored
<1>9. CASE OpenCsv \/ WriteCsv
  BY <1>0, <1>9 DEF OpenCsv, WriteCsv
<1>10. CASE UNCHANGED vars
  BY <1>0, <1>10 DEF vars, stored, working
<1> QED
  BY <1>1, <1>2, <1>3, <1>4, <1>5, <1>6, <1>7, <1>8, <1>9, <1>10 DEF Next, Work, AllDone

LEMMA StepReported == RunInv /\ TypeOK' /\ [Next]_vars => SweepInv'
<1> SUFFICES ASSUME RunInv, TypeOK', [Next]_vars PROVE SweepInv'
  OBVIOUS
<1> USE CombinationFacts, EvalRunsAssumption
<1>0. /\ TypeOK /\ SweepInv /\ turn \in 1..N /\ Current \in Names
      /\ sweep \in Nat /\ sweep' \in Nat
  <2>1. sweep \in Nat /\ sweep' \in Nat
    BY DEF RunInv, TypeOK
  <2> QED
    BY <2>1 DEF RunInv, TypeOK, Current
\* All reports are of earlier sweeps than one that starts.
<1>1. CASE StartSweep
  <2>1. /\ sweep' = sweep + 1 /\ at' = "prompt" /\ turn' = 1 /\ rows' = {}
        /\ UNCHANGED <<json, errors, csv>>
    BY <1>1 DEF StartSweep, stored
  <2>2. Past' = {}
    BY <2>1 DEF Past
  <2>3. /\ \A c \in Names : json[c] \in Int /\ errors[c] \in Int
        /\ csv.sweep \in Int
    BY <1>0 DEF TypeOK, Names, Torn
  <2>4. \A c \in Names : json[c] < sweep' /\ errors[c] < sweep'
    BY <1>0, <2>1, <2>3 DEF SweepInv
  <2>5. csv.sweep < sweep'
    BY <1>0, <2>1, <2>3 DEF SweepInv
  <2> QED
    BY <1>0, <2>1, <2>2, <2>3, <2>4, <2>5 DEF SweepInv
<1>2. CASE Kill \/ ReportFails
  <2>1. at' = "died" /\ at \notin {"ended", "died"} /\ UNCHANGED <<stored, sweep, rows>>
    BY <1>2 DEF Kill, ReportFails, Die
  <2>2. sweep # 0 /\ csv.sweep # sweep
    BY <1>0, <2>1 DEF SweepInv
  <2> QED
    BY <1>0, <2>1, <2>2 DEF SweepInv, stored
<1>3. CASE SyncPrompt \/ GetDataset \/ CreateDataset \/ CreateItem \/ GetFilledDataset
             \/ RunExperiment
  <2>1. /\ at \in InLoops /\ at' \in InLoops /\ at' # "flatten"
        /\ UNCHANGED <<json, errors, csv, sweep, turn, rows>>
    BY <1>3 DEF SyncPrompt, GetDataset, CreateDataset, CreateItem, GetFilledDataset,
                RunExperiment, Goto, InLoops, stored
  <2> QED
    BY <1>0, <2>1, WithinRun
<1>4. CASE CreateItemFails \/ OtherRequestFails \/ SaveFails
  <2>1. /\ at \in InLoops /\ at' = "error"
        /\ UNCHANGED <<json, errors, csv, sweep, turn, rows>>
    BY <1>4 DEF CreateItemFails, OtherRequestFails, SaveFails, RequestFails, Raise,
                Goto, InLoops, stored
  <2> QED
    BY <1>0, <2>1, WithinRun DEF InLoops
<1>5. CASE OpenJson \/ SaveJson
  <2>1. /\ at \in {"save", "saving"} /\ at' \in {"saving", "flatten"}
        /\ UNCHANGED <<errors, csv, sweep, turn, rows>>
    BY <1>5 DEF OpenJson, SaveJson, Goto
  <2>2. Past' = Past /\ Current' = Current /\ turn \notin Past /\ Past \subseteq 1..N
    BY <1>0, <2>1 DEF Past, Current
  <2>3. /\ json'[Current] \in {Torn, sweep}
        /\ at' = "flatten" => json'[Current] = sweep
        /\ \A c \in Names : c # Current => json'[c] = json[c]
        /\ \A i \in 1..N : i # turn => /\ Combinations[i] # Current
                                     /\ json'[Combinations[i]] = json[Combinations[i]]
    <3>1. json \in [Names -> Torn..MaxSweeps]
      BY <1>0 DEF TypeOK, Names
    <3>2. PICK v \in {Torn, sweep} : /\ json' = [json EXCEPT ![Current] = v]
                                     /\ at' = "flatten" => v = sweep
      BY <1>5 DEF OpenJson, SaveJson, Goto
    <3> QED
      BY <1>0, <3>1, <3>2, FileWritten
  <2>4. sweep # 0 /\ csv.sweep # sweep
    BY <1>0, <2>1 DEF SweepInv
  <2>5. \A i \in 1..N :
            IF i \in Past
            THEN errors[Combinations[i]] = sweep \/ json'[Combinations[i]] = sweep
            ELSE errors[Combinations[i]] < sweep
    BY <1>0, <2>1, <2>2, <2>3, <2>4 DEF SweepInv
  <2>6. \A row \in rows :
            \E i \in Past : row[1] = Combinations[i] /\ SavedOnly(row[1])'
    <3>1. SUFFICES ASSUME NEW row \in rows
                   PROVE  \E i \in Past : row[1] = Combinations[i] /\ SavedOnly(row[1])'
      OBVIOUS
    <3>2. PICK i \in Past : row[1] = Combinations[i] /\ SavedOnly(row[1])
      BY <1>0, <2>1, <2>4 DEF SweepInv
    <3>3. json'[row[1]] = json[row[1]]
      BY <3>2, <2>2, <2>3
    <3> QED
      BY <3>2, <3>3, <2>1 DEF SavedOnly
  <2>7. \A c \in Names : json'[c] <= sweep
    BY <1>0, <2>3 DEF SweepInv, Torn
  <2> QED
    BY <1>0, <2>1, <2>2, <2>3, <2>4, <2>5, <2>6, <2>7 DEF SweepInv
<1>6. CASE FlattenRows
  <2>1. /\ at = "flatten" /\ NextTurn /\ UNCHANGED <<json, errors, csv, sweep>>
        /\ rows' = rows \cup {<<Current, i>> : i \in result}
    BY <1>6 DEF FlattenRows, NextTurn, stored
  <2>2. /\ Past' = Past \cup {turn} /\ turn \notin Past
        /\ at' # "flatten" /\ at' # "ended" /\ at' # "died"
    BY <1>0, <2>1, PastNext DEF InLoops
  <2>3. sweep # 0 /\ csv.sweep # sweep
    BY <1>0, <2>1 DEF SweepInv
  <2>4. SavedOnly(Current) /\ Current = Combinations[turn]
    BY <1>0, <2>1, <2>2, <2>3 DEF SweepInv, SavedOnly, Current
  <2>5. \A i \in 1..N :
            IF i \in Past'
            THEN errors[Combinations[i]] = sweep \/ json[Combinations[i]] = sweep
            ELSE errors[Combinations[i]] < sweep
    BY <1>0, <2>1, <2>2, <2>3, <2>4 DEF SweepInv, SavedOnly
  <2>6. \A row \in rows' : \E i \in Past' : row[1] = Combinations[i] /\ SavedOnly(row[1])
    <3>1. SUFFICES ASSUME NEW row \in rows'
                   PROVE  \E i \in Past' : row[1] = Combinations[i] /\ SavedOnly(row[1])
      OBVIOUS
    <3>2. CASE row \in rows
      BY <1>0, <2>1, <2>2, <2>3, <3>2 DEF SweepInv
    <3>3. CASE row \notin rows
      <4>1. row[1] = Current
        BY <2>1, <3>1, <3>3
      <4> QED
        BY <4>1, <2>2, <2>4
    <3> QED
      BY <3>2, <3>3
  <2>7. \A c : SavedOnly(c)' = SavedOnly(c)
    BY <2>1 DEF SavedOnly
  <2> QED
    BY <1>0, <2>1, <2>2, <2>3, <2>5, <2>6, <2>7 DEF SweepInv
<1>7. CASE OpenError
  <2>1. /\ at = "error" /\ at' = "reporting" /\ UNCHANGED <<json, csv, rows, sweep, turn>>
        /\ errors' = [errors EXCEPT ![Current] = Torn]
    BY <1>7 DEF OpenError, Goto
  <2>2. Past' = Past /\ Current' = Current /\ turn \notin Past /\ Past \subseteq 1..N
    BY <1>0, <2>1 DEF Past, Current
  <2>3. sweep # 0 /\ csv.sweep # sweep
    BY <1>0, <2>1 DEF SweepInv
  <2>4. /\ errors'[Current] = Torn
        /\ \A c \in Names : c # Current => errors'[c] = errors[c]
        /\ \A i \in 1..N : i # turn => errors'[Combinations[i]] = errors[Combinations[i]]
    BY <1>0, <2>1, FileWritten DEF TypeOK, Names
  <2>5. \A i \in 1..N :
            IF i \in Past
            THEN errors'[Combinations[i]] = sweep \/ json[Combinations[i]] = sweep
            ELSE errors'[Combinations[i]] < sweep
    <3>1. SUFFICES ASSUME NEW i \in 1..N
                   PROVE  IF i \in Past
                          THEN errors'[Combinations[i]] = sweep
                                  \/ json[Combinations[i]] = sweep
                          ELSE errors'[Combinations[i]] < sweep
      OBVIOUS
    <3>2. CASE i = turn
      BY <3>2, <1>0, <2>2, <2>4 DEF Current, Torn
    <3>3. CASE i # turn
      BY <3>1, <3>3, <1>0, <2>1, <2>3, <2>4 DEF SweepInv
    <3> QED
      BY <3>2, <3>3
  <2>6. \A row \in rows :
            \E i \in Past : row[1] = Combinations[i] /\ SavedOnly(row[1])'
    <3>1. SUFFICES ASSUME NEW row \in rows
                   PROVE  \E i \in Past : row[1] = Combinations[i] /\ SavedOnly(row[1])'
      OBVIOUS
    <3>2. PICK i \in Past : row[1] = Combinations[i] /\ SavedOnly(row[1])
      BY <1>0, <2>1, <2>3 DEF SweepInv
    <3>3. errors'[row[1]] = errors[row[1]]
      BY <3>2, <2>2, <2>4
    <3> QED
      BY <3>2, <3>3, <2>1 DEF SavedOnly
  <2>7. \A c \in Names : errors'[c] <= sweep
    BY <1>0, <2>4 DEF SweepInv, Torn
  <2> QED
    BY <1>0, <2>1, <2>2, <2>3, <2>5, <2>6, <2>7 DEF SweepInv
<1>8. CASE ReportError
  <2>1. /\ at = "reporting" /\ NextTurn /\ UNCHANGED <<json, csv, rows, sweep>>
        /\ errors' = [errors EXCEPT ![Current] = sweep]
    BY <1>8 DEF ReportError, NextTurn
  <2>2. /\ Past' = Past \cup {turn} /\ turn \notin Past /\ Past \subseteq 1..N
        /\ at' # "flatten" /\ at' # "ended" /\ at' # "died"
    BY <1>0, <2>1, PastNext DEF InLoops
  <2>3. sweep # 0 /\ csv.sweep # sweep
    BY <1>0, <2>1 DEF SweepInv
  <2>4. /\ errors'[Current] = sweep
        /\ \A c \in Names : c # Current => errors'[c] = errors[c]
        /\ \A i \in 1..N : i # turn => errors'[Combinations[i]] = errors[Combinations[i]]
    BY <1>0, <2>1, FileWritten DEF TypeOK, Names
  <2>5. \A i \in 1..N :
            IF i \in Past'
            THEN errors'[Combinations[i]] = sweep \/ json[Combinations[i]] = sweep
            ELSE errors'[Combinations[i]] < sweep
    <3>1. SUFFICES ASSUME NEW i \in 1..N
                   PROVE  IF i \in Past'
                          THEN errors'[Combinations[i]] = sweep
                                  \/ json[Combinations[i]] = sweep
                          ELSE errors'[Combinations[i]] < sweep
      OBVIOUS
    <3>2. CASE i = turn
      BY <3>2, <2>2, <2>4 DEF Current
    <3>3. CASE i # turn
      BY <3>1, <3>3, <1>0, <2>1, <2>2, <2>3, <2>4 DEF SweepInv
    <3> QED
      BY <3>2, <3>3
  <2>6. \A row \in rows :
            \E i \in Past' : row[1] = Combinations[i] /\ SavedOnly(row[1])'
    <3>1. SUFFICES ASSUME NEW row \in rows
                   PROVE  \E i \in Past' : row[1] = Combinations[i] /\ SavedOnly(row[1])'
      OBVIOUS
    <3>2. PICK i \in Past : row[1] = Combinations[i] /\ SavedOnly(row[1])
      BY <1>0, <2>1, <2>3 DEF SweepInv
    <3>3. errors'[row[1]] = errors[row[1]]
      BY <3>2, <2>2, <2>4
    <3> QED
      BY <3>2, <3>3, <2>1, <2>2 DEF SavedOnly
  <2>7. \A c \in Names : errors'[c] <= sweep
    BY <1>0, <2>4 DEF SweepInv
  <2> QED
    BY <1>0, <2>1, <2>2, <2>3, <2>5, <2>6, <2>7 DEF SweepInv
<1>9. CASE OpenCsv
  <2>1. /\ at = "csv"
        /\ IF rows = {} THEN at' = "ended" /\ UNCHANGED csv
                        ELSE at' = "listing" /\ csv' = [sweep |-> Torn, rows |-> {}]
        /\ UNCHANGED <<json, errors, sweep, turn, rows>>
    BY <1>9 DEF OpenCsv
  <2>2. Past' = Past
    BY <2>1 DEF Past
  <2>3. sweep # 0 /\ csv.sweep # sweep /\ csv.sweep <= sweep
    BY <1>0, <2>1 DEF SweepInv
  <2>4. \A c : SavedOnly(c)' = SavedOnly(c)
    BY <2>1 DEF SavedOnly
  <2>5. csv'.sweep <= sweep /\ csv'.sweep # sweep
    BY <1>0, <2>1, <2>3 DEF Torn
  <2> QED
    BY <1>0, <2>1, <2>2, <2>3, <2>4, <2>5 DEF SweepInv
<1>10. CASE WriteCsv
  <2>1. /\ at = "listing" /\ at' = "ended"
        /\ csv' = [sweep |-> sweep, rows |-> rows]
        /\ UNCHANGED <<json, errors, sweep, turn, rows>>
    BY <1>10 DEF WriteCsv
  <2>2. Past' = Past
    BY <2>1 DEF Past
  <2>3. sweep # 0 /\ csv.sweep # sweep
    BY <1>0, <2>1 DEF SweepInv
  <2>4. \A c : SavedOnly(c)' = SavedOnly(c)
    BY <2>1 DEF SavedOnly
  <2>5. /\ csv'.sweep <= sweep
        /\ csv'.sweep = sweep => csv'.rows = rows
        /\ rows # {} => csv'.sweep = sweep
    BY <1>0, <2>1, <2>3 DEF SweepInv
  <2> QED
    BY <1>0, <2>1, <2>2, <2>3, <2>4, <2>5 DEF SweepInv
<1>11. CASE UNCHANGED vars
  BY <1>0, <1>11 DEF vars, stored, working, SweepInv, SavedOnly, Past, Current
<1> QED
  BY <1>1, <1>2, <1>3, <1>4, <1>5, <1>6, <1>7, <1>8, <1>9, <1>10, <1>11
     DEF Next, Work, AllDone

THEOREM RunInvariant == Spec => []RunInv
<1>1. RunInv /\ [Next]_vars => RunInv'
  BY StepTyped, StepFilled, StepReported DEF RunInv
<1> QED
  BY RunInit, <1>1, PTL DEF Spec

-----------------------------------------------------------------------------

\* Files, steps and results keep their types.
THEOREM TypeCorrect == Spec => []TypeOK
<1>1. RunInv => TypeOK
  BY DEF RunInv
<1> QED
  BY <1>1, RunInvariant, PTL

\* However many combinations there are and whatever fails in which of them, the
\* except clause of run_sweep leaves each with results or an error of this sweep.
THEOREM EveryRunIsReported == Spec => []EveryRunReported
<1>1. RunInv => EveryRunReported
  <2> SUFFICES ASSUME RunInv, at = "ended", sweep > 0
               PROVE  Failed \cup Saved = Names
    BY DEF EveryRunReported, Names
  <2>1. Past = 1..N
    BY DEF Past
  <2>2. \A c \in Names : c \in Failed \cup Saved
    BY <2>1, CombinationFacts DEF RunInv, SweepInv, Failed, Saved, Names
  <2> QED
    BY <2>2 DEF Failed, Saved, Names
<1> QED
  BY <1>1, RunInvariant, PTL

\* The table of a sweep has rows of runs that were saved and did not fail, and
\* only a sweep without a row leaves an older table in place.
THEOREM TableIsOfSavedRuns == Spec => []TableOfSavedRuns
<1>1. RunInv => TableOfSavedRuns
  <2> SUFFICES ASSUME RunInv, at = "ended", sweep > 0
               PROVE  IF csv.sweep = sweep
                      THEN {row[1] : row \in csv.rows} \subseteq Saved \ Failed
                      ELSE csv.sweep < sweep /\ rows = {}
    BY DEF TableOfSavedRuns
  <2>1. sweep \in Nat /\ csv.sweep \in Int /\ \A c \in Names : errors[c] \in Int
    BY EvalRunsAssumption DEF RunInv, TypeOK, Names, Torn
  <2>2. ASSUME csv.sweep = sweep, NEW row \in csv.rows
        PROVE  row[1] \in Saved \ Failed
    <3>1. PICK i \in Past : row[1] = Combinations[i] /\ SavedOnly(row[1])
      BY <2>2 DEF RunInv, SweepInv
    <3>2. row[1] \in Names
      BY <3>1, CombinationFacts DEF Past
    <3> QED
      BY <3>1, <3>2, <2>1 DEF SavedOnly, Saved, Failed, Names
  <2>3. csv.sweep # sweep => csv.sweep < sweep /\ rows = {}
    BY <2>1 DEF RunInv, SweepInv
  <2> QED
    BY <2>2, <2>3
<1> QED
  BY <1>1, RunInvariant, PTL

\* Unless its filling fails or is killed, get_or_create_langfuse_dataset gives every
\* run the whole dataset, whichever other requests fail.
THEOREM WholeDatasetIsScored == Spec => []WholeDatasetScored
<1>1. RunInv => WholeDatasetScored
  BY DEF RunInv, FillInv, WholeDatasetScored, ScoresAll
<1> QED
  BY <1>1, RunInvariant, PTL
=============================================================================
