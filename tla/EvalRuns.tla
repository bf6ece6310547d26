-------------------------------- MODULE EvalRuns --------------------------------
(***************************************************************************)
(* Sweeps: one evaluation run per combination of model, extractor and      *)
(* prompt, over a dataset that Langfuse keeps and the first run fills.     *)
(* Requests fail one by one; a sweep may be killed; results of earlier     *)
(* sweeps stay on disk.                                                    *)
(***************************************************************************)
EXTENDS Integers, Sequences, FiniteSets, SequencesExt

CONSTANTS
    Combinations,   \* the run names of a sweep, in the order of the loops
    Items,          \* the local dataset, by the ids of its items
    FaultSets,      \* what may go wrong, sets of FaultKinds
    MaxSweeps       \* bound: sweeps started

FaultKinds == {
    "request",      \* a request to Langfuse raises, taken or not
    "fill",         \* so does one that creates an item of the dataset
    "item",         \* the task of an item raises
    "disk",         \* a file of results cannot be written or flattened
    "kill"}         \* the process is killed

ASSUME EvalRunsAssumption ==
    /\ Combinations # <<>> /\ Combinations \in Seq(ToSet(Combinations))
    /\ IsInjective(Combinations)
    /\ \A f \in FaultSets : f \subseteq FaultKinds
    /\ MaxSweeps \in Nat

Steps == {"prompt", "get", "create", "populate", "reget", "experiment", "save", "saving",
          "flatten", "error", "reporting", "csv", "listing", "ended", "died"}

\* In place of a sweep: the file was truncated for a write that has not ended.
Torn == -1

VARIABLES
    faults,         \* the one of FaultSets that applies, the same throughout
    remote,         \* ids in the Langfuse dataset
    json, errors,   \* per run: the sweep its file is of, 0 if there is none, or Torn
    csv,            \* all_items.csv: [sweep, rows]
    sweep,          \* sweeps started
    at,             \* the step of the current sweep
    turn,           \* the combination it is at
    todo,           \* items it has yet to create
    data,           \* what get_or_create_langfuse_dataset returned
    result,         \* items the experiment has results for
    rows            \* all_item_rows

stored == <<remote, json, errors, csv>>
working == <<at, turn, todo, data, result, rows>>
vars == <<faults, stored, sweep, working>>

Current == Combinations[turn]

Init ==
    /\ faults \in FaultSets
    /\ remote = {}
    /\ json = [c \in ToSet(Combinations) |-> 0]
    /\ errors = [c \in ToSet(Combinations) |-> 0]
    /\ csv = [sweep |-> 0, rows |-> {}]
    /\ sweep = 0 /\ at = "ended" /\ turn = 1
    /\ todo = {} /\ data = {} /\ result = {} /\ rows = {}

-----------------------------------------------------------------------------

StartSweep ==
    /\ at \in {"ended", "died"}
    /\ sweep < MaxSweeps
    /\ sweep' = sweep + 1
    /\ at' = "prompt" /\ turn' = 1
    /\ todo' = {} /\ data' = {} /\ result' = {} /\ rows' = {}
    /\ UNCHANGED stored

Goto(step) == at' = step /\ UNCHANGED <<sweep, turn, rows>>

\* The exception of a run is caught by the sweep.
Raise == Goto("error") /\ UNCHANGED <<todo, data, result>>

RequestFails(step) ==
    /\ at = step
    /\ IF step = "populate" THEN "fill" \in faults ELSE "request" \in faults
    /\ Raise

\* sync_extraction_prompt.
SyncPrompt ==
    /\ at = "prompt"
    /\ Goto("get")
    /\ UNCHANGED <<stored, todo, data, result>>

\* Mutant of GetDataset: a request that raises gives no items.
GetDatasetOrNothing ==
    /\ at = "get"
    /\ \/ data' = remote /\ Goto(IF remote = {} THEN "create" ELSE "experiment")
       \/ "request" \in faults /\ data' = {} /\ Goto("experiment")
    /\ UNCHANGED <<stored, todo, result>>

\* A dataset that has items is taken as it is; one that has none, is missing or
\* could not be read is created and filled.
GetDataset ==
    /\ at = "get"
    /\ \/ data' = remote /\ Goto(IF remote = {} THEN "create" ELSE "experiment")
       \/ "request" \in faults /\ Goto("create") /\ UNCHANGED data
    /\ UNCHANGED <<stored, todo, result>>

CreateDataset ==
    /\ at = "create"
    /\ Goto("populate")
    /\ todo' = Items
    /\ UNCHANGED <<stored, data, result>>

\* One request per item, in the order of rglob; the same id is the same item.
CreateItem ==
    /\ at = "populate"
    /\ IF todo = {}
       THEN Goto("reget") /\ UNCHANGED <<remote, todo>>
       ELSE \E i \in todo :
                /\ remote' = remote \cup {i}
                /\ todo' = todo \ {i}
                /\ Goto("populate")
    /\ UNCHANGED <<json, errors, csv, data, result>>

\* The request for an item raises, although the item may have been taken.
CreateItemFails ==
    /\ RequestFails("populate")
    /\ todo # {}
    /\ remote' \in {remote} \cup {remote \cup {i} : i \in todo}
    /\ UNCHANGED <<json, errors, csv>>

GetFilledDataset ==
    /\ at = "reget"
    /\ data' = remote
    /\ Goto("experiment")
    /\ UNCHANGED <<stored, todo, result>>

\* The tasks run side by side; one whose extraction raises, or whose model still
\* refuses after the last retry, has no result.
TaskResults == IF "item" \in faults THEN SUBSET data ELSE {data}

\* Mutant of RunExperiment: the rows are taken before the results are saved.
RunExperimentAndFlatten ==
    /\ at = "experiment"
    /\ result' \in TaskResults
    /\ rows' = rows \cup {<<Current, i>> : i \in result'}
    /\ at' = "save"
    /\ UNCHANGED <<stored, sweep, turn, todo, data>>

RunExperiment ==
    /\ at = "experiment"
    /\ result' \in TaskResults
    /\ Goto("save")
    /\ UNCHANGED <<stored, todo, data>>

OtherRequestFails ==
    /\ \E step \in {"prompt", "create", "reget", "experiment"} : RequestFails(step)
    /\ UNCHANGED stored

\* write_text truncates the file, then writes it.
OpenJson ==
    /\ at = "save"
    /\ json' = [json EXCEPT ![Current] = Torn]
    /\ Goto("saving")
    /\ UNCHANGED <<remote, errors, csv, todo, data, result>>

SaveJson ==
    /\ at = "saving"
    /\ json' = [json EXCEPT ![Current] = sweep]
    /\ Goto("flatten")
    /\ UNCHANGED <<remote, errors, csv, todo, data, result>>

\* Opening or writing the JSON, or flattening the items, raises.
SaveFails ==
    /\ "disk" \in faults
    /\ at \in {"save", "saving", "flatten"}
    /\ Raise
    /\ UNCHANGED stored

\* On to the next combination, or out of the loops.
NextTurn ==
    /\ at' = IF turn < Len(Combinations) THEN "prompt" ELSE "csv"
    /\ turn' = IF turn < Len(Combinations) THEN turn + 1 ELSE turn
    /\ todo' = {} /\ data' = {} /\ result' = {}
    /\ UNCHANGED sweep

FlattenRows ==
    /\ at = "flatten"
    /\ rows' = rows \cup {<<Current, i>> : i \in result}
    /\ NextTurn
    /\ UNCHANGED stored

OpenError ==
    /\ at = "error"
    /\ errors' = [errors EXCEPT ![Current] = Torn]
    /\ Goto("reporting")
    /\ UNCHANGED <<remote, json, csv, todo, data, result>>

\* Mutant of ReportError: the first error ends the loops.
ReportErrorAndStop ==
    /\ at = "reporting"
    /\ errors' = [errors EXCEPT ![Current] = sweep]
    /\ at' = "csv" /\ todo' = {} /\ data' = {} /\ result' = {}
    /\ UNCHANGED <<remote, json, csv, sweep, turn, rows>>

ReportError ==
    /\ at = "reporting"
    /\ errors' = [errors EXCEPT ![Current] = sweep]
    /\ NextTurn
    /\ UNCHANGED <<remote, json, csv, rows>>

\* Without a row the table of an earlier sweep is left alone.
OpenCsv ==
    /\ at = "csv"
    /\ IF rows = {} THEN at' = "ended" /\ UNCHANGED csv
                    ELSE at' = "listing" /\ csv' = [sweep |-> Torn, rows |-> {}]
    /\ UNCHANGED <<remote, json, errors, sweep, turn, todo, data, result, rows>>

WriteCsv ==
    /\ at = "listing"
    /\ csv' = [sweep |-> sweep, rows |-> rows]
    /\ at' = "ended"
    /\ UNCHANGED <<remote, json, errors, sweep, turn, todo, data, result, rows>>

Die == at' = "died" /\ UNCHANGED <<stored, sweep, turn, todo, data, result, rows>>

\* An exception of the handler itself, or of the CSV, ends the sweep.
ReportFails ==
    /\ "disk" \in faults
    /\ \/ at \in {"error", "reporting", "listing"}
       \/ at = "csv" /\ rows # {}
    /\ Die

Kill == "kill" \in faults /\ at \notin {"ended", "died"} /\ Die

Work ==
    /\ \/ SyncPrompt \/ GetDataset \/ CreateDataset \/ CreateItem \/ CreateItemFails
       \/ GetFilledDataset \/ RunExperiment \/ OtherRequestFails \/ OpenJson
       \/ SaveJson \/ SaveFails \/ FlattenRows \/ OpenError \/ ReportError
       \/ ReportFails \/ OpenCsv \/ WriteCsv
    /\ UNCHANGED faults

\* The bound on sweeps is reached.
AllDone == sweep = MaxSweeps /\ at \in {"ended", "died"} /\ UNCHANGED vars

Next == Work \/ ((StartSweep \/ Kill) /\ UNCHANGED faults) \/ AllDone

Spec == Init /\ [][Next]_vars

-----------------------------------------------------------------------------

TypeOK ==
    /\ remote \subseteq Items
    /\ json \in [ToSet(Combinations) -> Torn..MaxSweeps]
    /\ errors \in [ToSet(Combinations) -> Torn..MaxSweeps]
    /\ csv \in [sweep : Torn..MaxSweeps, rows : SUBSET (ToSet(Combinations) \X Items)]
    /\ sweep \in 0..MaxSweeps /\ at \in Steps /\ turn \in DOMAIN Combinations
    /\ todo \subseteq Items /\ data \subseteq Items /\ result \subseteq Items
    /\ rows \subseteq ToSet(Combinations) \X Items

Failed == {c \in ToSet(Combinations) : errors[c] = sweep}
Saved == {c \in ToSet(Combinations) : json[c] = sweep}

\* One run's failure is no other's (sweep.py:100): a sweep that reaches its end
\* has left, for each combination, this sweep's results or this sweep's error.
EveryRunReported ==
    at = "ended" /\ sweep > 0 => Failed \cup Saved = ToSet(Combinations)

\* The table (sweep.py:94-115) compares runs whose results are saved: after a
\* sweep it has no row of a run that the sweep reports as failed, and a table that
\* an earlier sweep wrote, or was killed writing, is still there only when this
\* one had no row at all.
TableOfSavedRuns ==
    at = "ended" /\ sweep > 0 =>
        LET shown == {row[1] : row \in csv.rows} IN
        IF csv.sweep = sweep THEN shown \subseteq Saved \ Failed
                             ELSE csv.sweep < sweep /\ rows = {}

\* A run scores the whole local dataset, however often the dataset was looked
\* for, created and filled before and whichever requests failed, unless it was
\* the filling that failed or was killed (dataset.py:72-94).
ScoresAll == at \in {"experiment", "save", "saving", "flatten"} => data = Items
WholeDatasetScored == faults \cap {"fill", "kill"} = {} => ScoresAll

\* dataset.py:72: "If not, create and populate it."
DatasetIsPopulated == ScoresAll
=============================================================================
