# A TLA+ model of Orcha (airdec-workflows)

Orcha runs AI-assisted workflows for a document repository: a client posts a
request, the API keeps a row for it and has Temporal start an execution, a
worker runs the execution's activities, and the client follows the row by
reading it or through a stream of events.  This directory holds TLA+ models of
the parts of the system where order, failure and shared state make it hard to
test, TLC configurations that check them, and machine-checked proofs of the
safety properties that they check.  Paths below are relative to the root of the repository; the
entries of `PROJECT.json` (`map`) give the lines each definition stands for.

## The system

| component | state it keeps | operations | where it is hard |
|---|---|---|---|
| API routes (`app/routers`) | rows of `workflow` and `workflow_feedback`; one database session per request | POST, GET, stream, feedback | three writers of one row; a commit and a remote call that cannot be one step; sessions held across awaits |
| workflow classes (`app/workflows`) | Temporal's history of an execution | one await after the other, an `except` that records the error and re-raises | retries, timeouts, the last update outside the `try` |
| `update_workflow` (`app/activities`) | the same row | writes the fields that are not None | an attempt that outlives its timeout commits late |
| extraction and metadata activities (`app/activities`, `app/extractors`) | none between activities | download, page selection, splicing of ORCIDs, text, model, checks against the text | boundary page numbers; an icon's place against the text; a model that answers anything |
| suggestion resolution (`resolve_metadata.py`, `metadata_suggestions.py`) | none | lookups of licences and awards with fallbacks, alignment of parallel lists | lookups that fail, raise or return in any order |
| worker (`app/workers.py`) | one event loop | runs the decisions and activities of every execution | blocking code on the loop, timeouts that run on meanwhile, crashes |
| tenants and access (`app/tenants.py`, `app/auth.py`, `app/services`, `app/cli/tenants.py`) | `tenants.json`, the registry read from it at start | `tenants add`, start of the API, verification and checks of each request | an unlocked file, a registry that grows stale |
| local stack (`orcha run`, `app/cli/main.py`) | child processes | migrate, spawn, wait, tear down | signals between any two steps |
| evaluation dataset (`evals/dataset_sync.py`) | a cache of objects, a tree of links, a state file | sync one commit | kills, concurrent syncs, refusals midway |
| evaluators (`evals/evaluators.py`) | none | align creators, score, compare | ties in a greedy alignment; fields without a ground truth |
| runs and sweeps (`evals/run.py`, `sweep.py`, `dataset.py`, `prompts.py`) | a remote dataset, files of results | sync, fill, run, save, tabulate | requests that fail halfway, results of earlier sweeps |

Interaction: the POST handler calls Temporal over RPC; Temporal hands tasks to
the worker; worker and API share the database; the event stream polls it;
the CLI and a starting API share `tenants.json`; the supervisor only starts and
stops the processes; dataset syncs share the file system with one another.

What makes each part correct is stated in its section below.  `PROJECT.json`
lists the components that are not modelled, with the reason, and the hazards,
each at its line with the properties that would catch it.

## Modules

    WorkflowRecord            what readers of a row may rely on
      ^ implemented by   ^ implemented by   ^ used by
    WorkflowLifecycle   WorkerLoop        StatusStream     TenantAccess
      (one request)      (one worker)      (one API process)

    MetadataExtraction   OrcidSplicing    CreatorAlignment
              \             /                    ^ extended by
              DocumentText                  Evaluators
         (text of one document)

    SuggestionResolver    RunStack    DatasetSync    EvalRuns

    InOrder: ranks and positions in order, for MetadataExtraction and
    SuggestionResolver

Every `MC*` module extends a module with the values its configurations need.
The `*_proofs` modules hold the theorems: about the module of the same name, or,
in `Cli_proofs`, about the two programs of the command line (`RunStack` and
`TenantAccess`) and, in `Activities_proofs`, about the activities of
`extract_metadata` (`DocumentText` and `SuggestionResolver`).  Modules that are
composed in one proof module name their specifications apart (`SpecStack`,
`SpecResolver`).  Operators introduced by "Mutant of X"
change X the way a plausible bug would.  They occur in no specification; they
stand beside the definition they are a variant of, so that one can put them in
its place and see which property notices.

### WorkflowRecord and WorkflowLifecycle

`WorkflowRecord` is the abstract promise: a row appears once, in PROCESSING,
and ends at most once, as SUCCESS with a result or as ERROR without one.

`WorkflowLifecycle` follows one POST through the system.  `api` is the program
counter of the handler `create` (`committed` after line 84, `starting` during
the await of `start_workflow`, `handling` inside its `except`), `rpc` the start
request between the handler and Temporal, `exec`, `step`, `phase` and `attempt`
the execution: which activity `run()` awaits and how far its current attempt
is.  An update is two steps, its commit (`Write`) and the report of its result
(`Report`), so that a crash, an error or a timeout may fall between them.  A
timeout of an update that has not committed does not stop it: it joins `late`
and may commit at any later time.  `stamp` and `clock` keep the order of the
timestamps, from one clock.  `Persist` is the rule of `exclude_none`.

Faults are a constant, so that a run can say which it allows: `refused` and
`lost_reply` (the start request was not taken, or was taken although the client
call raised), `api_crash`, `worker_crash`, `timeout`, `database` (a statement or
commit raises, the latter possibly after it took effect) and `activity`.

- `lifecycle_faults` allows everything but `lost_reply`, for both types: start
  precedes end even with late writes, the status is that of the execution, and
  the lifecycle implements `WorkflowRecord` (`RecordSpec`).
- `lifecycle_ends` allows every fault, for `extract_metadata`: an abandoned row
  is one of the named cases (`OrphanExplained`), every execution ends and every
  row ends or is abandoned.
- `funding_retries` is a counterexample; see Findings.

Bounds: one workflow, because every action touches one workflow and guards on
it alone (the theorems below cover any number); `RetryCap` caps the counter of
the attempts of the one activity without a limit, at 2 in the passing runs, so
that it still distinguishes the first attempt from later ones.

Fairness: the handler's coroutine is run on, Temporal answers requests and
keeps tasks until a worker takes them, an attempt is ended at the latest by its
`start_to_close_timeout`, and a late attempt finishes or dies.  Requests and
faults are never owed.

### WorkerLoop

The timeouts that `WorkflowLifecycle` allows at will have a cause in the code,
which this module models with a clock.  A worker has one event loop for the
decisions of all executions and all attempts of their activities, and every
activity has a stretch that never awaits: reading the PDF
(`extract_pdf_content.py:71-72`), matching the model's answer with the text
(`extract_metadata.py:57-82`), building suggestions, an update from its query to
its commit (`update_workflow.py:54-70`, up to the lock timeout of the database).
An attempt `Begin`s that stretch on a free loop, blocks it for the ticks `load`
gives for its execution and activity, and `End`s; `loop` says what blocks it and
for how long.  What is awaited before (a download, the model, the vocabularies)
takes any time or fails (`Unanswered`).  Temporal gives an update up after
`Minute` ticks (`Tick` advances the clock), and the worker may run the attempt
afterwards all the same: `held` keeps attempts until they have run, whether or
not somebody still waits for them.

`loop_blocked` has two executions and four `Loads`, one of which is chosen at
the start: reading, matching and an update take a tick each, six in all with
their retries; or one document takes longer to read than an update may wait, or
to be matched, or one update takes longer, as on a locked database.  It checks that rows keep the promise of
`WorkflowRecord` however long the loop is blocked, that every execution ends, and
that an ended execution has ended its row if everything that may block the loop,
all attempts together, takes less than a minute.  Otherwise the row of *another*
execution may be left in PROCESSING, which is the case `OrphanExplained` names;
reading that is short is not enough, as another row's update may hold the loop.
Two executions are the least in which one blocks the other, and `Minute = 7` is
the least that leaves room for the six ticks.
Fairness is `WF_vars(Run)`: time passes and the loop takes up what waits for it.

### StatusStream

POSTs and event streams of one API process over the pool of its engine, with
the rows behaving as `WorkflowRecord`.  FastAPI keeps the session of
`Depends(get_db_session)` until the streamed response is over, so a stream holds
one connection throughout and a second one from a poll until its event is sent;
a POST holds one while it awaits Temporal.  Waiting for a connection blocks the
event loop, so no handler of the process can return one meanwhile, and the wait
ends in an error: that is why an action either finds a connection `Available` or
fails.  `stream_short` gives two POSTs and two streams, which want six
connections, three, with statements that may fail.  It checks that every way
out of the loop returns its sessions, that the last event of a stream that
ended is the status the row still has, that a stream ends once its row has, and
that connections come back.  Two of each suffice for every pair of handlers to
compete; three connections let one stream proceed while the others are refused,
and also let all be refused.  Fairness: a loop that slept is run again, clients
read or disconnect, a start request returns or raises.  Rows are not owed an
end: the stream of an abandoned row polls on.

### TenantAccess

`tenants add`, the life of the API process and its requests.  Reading,
truncating and writing `tenants.json` are steps of their own, of any number of
commands (`Admins`).  The registry is what the file held when the API started.
A token is its claims and the key that signed it; `Verified` is what
`decode_access_token` accepts.  `tenants_access` runs one command at a time (up
to three), restarts with authentication on or off, and two tenants with one key
id and two keys, so that a shared `kid` and a replaced key both occur.  It checks
that a workflow is answered only to its tenant on a key some admin registered
for that tenant (or, without authentication, to the dev tenant), that a scoped
token reads no other workflow, and that a registration is replaced only with
`--force`.  POST and feedback ignore the scope of a token, as the tests of the
repository have it.  An API that creates the file while a command runs can lose
a registration; `RegistrationsKept` excepts that case by name.

### DocumentText: MetadataExtraction and OrcidSplicing

`MetadataExtraction` is the data of one execution up to the metadata of the
model.  A document is a number of pages, some of them blank.  A value of the
model is the sequence of its parts, runs of characters each of which stands on a
page or nowhere (0).  `_clear_absent_fields` keeps a title or description that is
in the text as it is (`Contained`, also over a page break), and may keep one of
which parts in the order of the text make up 85 or 80 % (`Covered`): as
`_coverage` sums matching blocks of any size, such a value need not be readable
anywhere.  Which blocks `SequenceMatcher` settles on is its own affair, so it may
also find too few.  A DOI must be one (`Dois`) and in the text as it is.
`OrcidSplicing` is `_inline_orcids`: words and icons have
places on the page, each icon is looked at in turn (`Look`), and one pass puts
the ORCIDs into the text, an edit at a time (`Put`) and then what is left of the
page (`PutRest`).  The sort of the edits is the order in which they are put: the
next is the least of those that remain (`IsNext`).  Words and text of a page
come from two calls of pdfplumber: `tokens` is as a rule what the words say, and
may be one of `Texts` instead, in which an icon's word is found by counting equal
words or, when there are not as many, passed over.  `DocumentText` composes the two: a page of
the document is laid out when it was downloaded, and its ORCIDs are spliced
before the text goes to the model.

`document_read` takes every selection of up to two numbers from -4 to 4 on
documents of up to three pages, so that every number is inside, at and beyond
both ends, and every page of up to three words on two lines with up to two
icons at distances within, at and beyond the limits of line and gap.  Two bounds
keep the two from multiplying: only a document of one page has icons, in a
request for all of it (`HasIcons`), and a file that does not open is found so
before a page is looked at (`FailsToOpen`).  The model's values (`Written`) stand on
one page, nowhere, on two pages in the wrong order, on two pages with 6/7 on the
first, and to 4/5 on a page, so that each threshold is met and missed with and
without the other page; two texts have fewer words than a page may, more of them,
or others (`Texts`).  The run checks that a selection with a page of the
document is honoured exactly; that of a value that survives the share of its
threshold stands on pages that were asked for, in the order of the document
(`NothingInvented`, which is all the code promises of a title); that an ORCID goes to the
author its icon stands at where the page is clear about it and its text has its
words; and that splicing adds ORCIDs and changes nothing else, each ORCID at most
as often as it is shown.  `resolve_pages` has a copy under `evals/`, which raises
where this one drops a number; it is not modelled.

### SuggestionResolver

`resolve_metadata_suggestions`: parallel lists are paired by position, licences
and then funding entries are looked up at the same time, and an answer is
success, failure or malformed.  A failure is what the lookups catch: an
`httpx.HTTPError`, a status other than success, a body that raises
`JSONDecodeError`.  Malformed are a body without the keys that are read and one
that is not UTF-8, whose `KeyError`, `AttributeError` or `UnicodeDecodeError` no
lookup catches; nor do they catch `httpx.InvalidURL`, which a licence with a
control character in it raises, as it stands in the path of the URL (`Unsendable`
are the texts that make no request).  What is not caught leaves `asyncio.gather`
and fails the attempt (`Uncaught`), and three attempts are made.  `funding` says
where the coroutine of each position is, so that answers arrive in any order.
The catalogue has awards that share a number or are found by one title; the
query `number:...` is not quoted and the number of the hit not compared, so what
a number finds is data of the catalogue (`foundByNumber`) and not equality.
`suggestions_resolved` takes all lists of up to two entries with gaps and
of different lengths, a licence that makes no request, and an instance that is
absent, not allowed, well-behaved or odd.  It checks that a known funder is kept, that each entry is of its
position, that the title decides between awards, that a creator keeps its own
ORCID, and that failures of the kinds that are caught cost detail and never the
result nor a second attempt.  A
third entry adds no new pairing, as a coroutine sees only its own position.

### CreatorAlignment and Evaluators

`CreatorAlignment` is the greedy loop of `align_creators` over candidates in the
order of `sorted(..., reverse=True)`, one pair per step.  `Ratio` is any function
of two names that is full exactly for equal names; it need not be symmetric, as
`SequenceMatcher` is not.  `Evaluators` puts the scores of `sym_score`,
`creators_score` and `build_comparison_payload` on top, as fractions.
`scores_compared` takes all pairs of lists of up to two creators, with equal,
close and distant names, swapped and missing ORCIDs, and single fields that are
right, wrong, missing, made up and absent.  It checks that the alignment does
not depend on the order of the lists unless names tie, that a repetition scores
full marks, that an ORCID given to the wrong author earns nothing, that made-up
fields are counted once, and that a clean report means a right prediction.

### EvalRuns

A sweep of runs over a dataset in Langfuse: `at` is the step of the run whose
`turn` it is, `json`, `errors` and `csv` the files on disk with the sweep they
are of, `remote` the items of the dataset, which outlive sweeps.  `faults` is
chosen at the start from `FaultSets`: requests that raise, taken or not, items
whose task raises, files that cannot be written, kills.  A file is opened, which
truncates it (`Torn`), and then written, with a full disk or a kill in between.  `sweeps_reported` has
two sweeps (so that files of an earlier one are there) of two runs (so that one
fails and the other goes on) over two items, with every fault, or with all but
those of the filling.  It checks that a sweep that ends has left results or an error
of its own for each run, that the table shows only saved runs, and that runs
score the whole dataset unless its filling failed.

### DatasetSync

`sync_dataset` step by step: seed the cache from the archive of the last
release, fetch what is missing, then `_materialize`: unlink stale links, place
links in the order of the manifest, write the state file.  Each look at a path is
a step of its own and so is each unlink and symlink, so that another sync may
clear or fill the path in between (`vanished`, `exists`).  `write_text` truncates
the state file first; a kill, or two syncs that write it at a time, may leave it
empty or torn, and every sync that reads it then raises.  Syncs share cache, archive path and target, may
be killed between any two steps, and users may own files in the target.

`dataset_shared` has two paths and two commits that change one and add the
other.  Two syncs run side by side under every fault, or (`apart`, chosen in the
initial state) they follow each other, of which none is killed, and the user has
no file in the way; requests may fail in either case.  Links resolve and no run
hangs whichever it is, and runs that follow each other leave the target as
exactly one commit and never refuse a link of an earlier one.  That a torn state
file makes the target unusable, and a refusal leaves links nobody manages, no
property excludes: the code does so (`dataset_refused` shows the second).  A path is an object or nothing;
manifest syntax, hashing and HTTP are abstracted to "the bytes match or the sync
raises".  Two syncs are enough for every interference, as each step looks at one
file.  Fairness: a sync that is not killed goes on, its requests return or raise.

### RunStack

The supervisor, its children and signals.  A signal handler starts between any
two steps and always leaves through `sys.exit`, so only the newest frame
matters.  `stack_signals` allows three signals (one in the main program, one in
a handler, one more in that one's successor; a fourth would repeat the third),
children that exit at any time, and a migration and a `Popen` that raise.  It
checks that a supervisor that leaves by an exit of its own outlives every child
that was registered, that a dead child tears the stack down and that signals
always end it.  An exception of `Popen` is caught nowhere: it leaves the children
that run, exits with 1 as `typer.Exit(1)` does, and no property speaks of what it
leaves behind.
Fairness: the main thread is scheduled and each of its waits has a timeout.

## Findings

`funding_retries` is a run in which TLC finds a statement of the repository
violated: the activity of `check_funding_relevance` names no retry policy and is
retried without limit, although the changelog says retries are limited per
activity.

More counterexamples, for configurations that check one sentence about the code
each.  They are not among the runs of `PROJECT.json` and end with a violation:

| configuration (module) | what TLC shows |
|---|---|
| `lost_reply_status` (`MCWorkflowLifecycle`) | a start request that raised after it was taken is answered "Could not start workflow", and its execution runs and overwrites the ERROR |
| `dataset_refused` (`MCDatasetSync`) | a sync refuses, as unmanaged, a link an earlier sync made before it was refused a file of the user |
| `pages_fallback` (`MCDocumentText`) | a selection that resolves to no page of the document reads all pages |
| `orcid_far_icon` (`MCDocumentText`) | an ORCID goes to a word whose icon is further from it than the documented gap |
| `license_fallback` (`MCSuggestionResolver`) | a vocabulary entry that is not UTF-8 or lacks the expected keys, or a licence that makes no URL, fails the activity instead of falling back to the id |
| `ambiguous_number` (`MCSuggestionResolver`) | a number that awards of two funders have is resolved to one of them, where a comment says that it stays a custom award |
| `missing_namesake` (`MCEvaluators`) | a predicted author who stands for two namesakes costs nothing in the symmetric score |
| `partial_dataset` (`MCEvalRuns`) | a dataset whose filling failed halfway is scored as if it were whole |
| `tenants_race` (`MCTenantAccess`) | of two `tenants add` at a time, one drops the registration of the other |

## Proofs

All theorems hold for any values of the constants under the named ASSUME of the
module; further assumptions are stated in the theorem.

`WorkflowLifecycle_proofs`, for any sets of workflows and faults, either or both
types and any cap:

1. `TypeCorrect`, by one step per action.
2. `SafetyInvariant`.  `RowComplete` and the others are not inductive: that an
   ended row has an end time needs what the position of the execution says about
   the updates that ran before.  `SafetyInv` adds, per workflow, what the handler's
   position says about row and request (`HandlerInv`) and what the execution's
   position says about columns, stamps and late updates (`ProgressInv`).  From it
   follow `RowFirst`, `RowAlwaysComplete`, `PolicyRespected`,
   `OrphansExplained`, `AnswersAreTrue` and `NothingTakenBack`.
3. `OwnershipInvariant`, under the assumption `ReliableStart`: a start request
   raises only if it was not taken.  It says who may still end a row (the handler
   before an execution exists, then one update) and orders the timestamps.  From
   it follow `ErrorWithoutResult`, `StatusIsOfExecution`, `TimesAlwaysOrdered`,
   `EndedStaysEnded` and the refinement `ImplementsRecord`: each step is a step of
   `WorkflowRecord` or leaves the row alone.  `lost_reply_status` shows why the
   assumption is needed.

`WorkerLoop_proofs` proves the second refinement of `WorkflowRecord`, for any
number of executions and reading times.  The danger is an attempt that was given
up and still runs.  `Inv` says that updates are attempted once, and that any
attempt of a *last* update in the worker, given up or not, is of the step its
execution has reached, with its row still in PROCESSING; so it is the only one
that may end the row.

`WorkerLoop_proofs` also shows how little blocking work saves a row
(`QuickWorkEndsRows`).  An update is given up only after `Minute` ticks, and
time passes for it only while something blocks the loop.  `ClockInv` keeps the
account: the age of an update and the ticks of blocking work still to come,
counted as a set of single ticks (`BlockingTicks`), are together at most all there
is; no tick is in both, as an attempt is handed out once.  If all of it, updates
included, is less than `Minute`, no update is ever given up.

`StatusStream_proofs` proves for any number of streams, POSTs and connections
that the last event is true, that events advance, and `SessionsClosed`: the
sessions each handler holds are those of the place it has reached, by
`StreamInv`.  Their sum is the size of the set `CheckedOut`, which has one
element per connection in use; so a step that takes one connection adds one
element and needs room for it, and the pool is never overdrawn
(`PoolAccounted`).

`Cli_proofs`, `TenantAccess`: `AnsweredToOwner` needs that every key of the file, of the
memory of a command and of the running API was registered for its tenant
(`RegistryInv`).  It holds for any number of racing commands: a race may lose
entries or tear the file, but the file is at any time nothing, torn, or what one
command had in memory.  `RegistrationsKeptOneByOne` has the assumption
`OneAdmin`; its invariant `AloneInv` says that between reading and writing the
file can only have become empty, through an API that thinks it missing.
`tenants_race` shows why the assumption is needed.

`Evaluators_proofs` proves what a greedy alignment gives: `LoopInv` says that
a candidate the loop has passed over without taking is blocked by a taken one
that ranks above it and shares an author or a prediction.  At the end this makes
the alignment one to one and stable; hence it is unique, whatever the order of
the lists, unless names tie for somebody (`OnlyStableAlignment`), aligns a
repetition author by author, and is at least half as large as any pairing.

The scores rest on it.  `EvalInv` adds that a payload is the comparison of two
lists that are fully aligned.  A repetition is aligned author by author, so that
each part of both scores is a sum of full shares (`SymPerfect`, `IndexedPerfect`).
`CleanReportAlwaysTrue` goes the other way: the symmetric score is a harmonic mean,
which is full only if both parts are, and a sum of shares is full only if each
share is; so every author is paired with one of the same name and attributes.  The
property speaks of expected authors that have names and different ones:
`missing_namesake` shows what happens otherwise.

`EvalRuns_proofs`: `SweepInv` splits the combinations at `turn`: those behind the
loops are reported for this sweep and those before them are not, and rows are of
combinations behind them that were saved without an error.  That an error of a
combination cannot arrive after its rows follows because the names of the runs
are different.  A file that was truncated is of no sweep, and only the file of
the current combination, or the table, can be.  `FillInv` follows the remote dataset, empty or whole whenever a
run looks at it if its filling cannot fail.

`Cli_proofs`, `RunStack`: `StackInv` ties the registered children to the order of
`_spawn`, the loops of `_terminate_all` to how many it has dealt with, and the
exit code to whether a handler has run, for any number of signals: 0 says that a
signal stopped the stack, and 1 everything else (`ExitCodeTrue`).

`DatasetSync_proofs` proves, for any number of syncs, any commits and manifests
and every fault, `TypeCorrect`, `CacheAlwaysSound`, `LinksAlwaysResolve` and
`ForeignAlwaysKept`.  The looks at the target are steps of their own, so what a sync has seen may
be out of date; the proofs of these need none of it.  That a new link resolves needs to know that its object was
fetched, which is long past when the link is made: `Inv` adds that a sync past
fetching has every object its commit wants and that the paths it has left to
link are paths of its commit.  Both survive the steps of other syncs because
nothing removes an object from the cache.  For runs that follow each other,
`ApartInv` says how far the one at work has got: while it unlinks, a link that
stands is one of the managed paths it read, and either still to be passed or of
the new commit (`Unlinking`); while it links, the paths behind it have the objects
of the commit and those before it are free or were managed (`Linking`).  Between
runs the target is `Settled`: empty before the first, or the tree of the state
file.
`TargetAlwaysOneCommit` and `OwnLinksAlwaysAccepted` follow.

`Activities_proofs`: the loops of the activities keep some members of a list in
order.  `InOrder` says so without a loop: the n-th kept position is the one with
n kept positions up to it.  `RankGrows` makes ranks injective, so that each rank
from one to the number of positions is taken (`AscendingOfRank`), and this is all
the proofs need of order.

- `ExtractionInv`: the text is the resolved pages in ascending order, the report
  is the same, and of a checked field that is set the share of its threshold
  stands in the text, in its order.  With
  `ResolvedAsRequested`, by which numbers that overshoot drop out and the others
  mean what the docstring says, `SelectionAlwaysHonoured` and
  `NothingEverInvented` follow for documents of any length and values of any
  number of parts.
- `SplicingInv`: each icon that was looked at and has a word to its left has left
  its edit, if the text has that word, and no other was made (`EditsInv`); the text so far is the page's up to
  the word `prev`, and no remaining edit lies before that word (`TextInv`).
  `SplicedTo` says this of a text by counting the words up to a token, which tells
  of every word which of the page's it is: copying words raises the count one by
  one (`CopyWords`), putting an ORCID leaves it (`PutOrcid`).  That no edit lies
  behind is what the sort is for.  `OccurrenceIsWord` shows that counting equal
  tokens finds the word again, since the counts of equal words differ.  At the end
  all edits are put and `prev` is the last word: `OnlyOrcidsAlwaysAdded` and
  `OwnAuthorAlwaysCredited` follow, for pages of any size with any icons, the second
  where the text is that of the words.  A text of
  a word is not an ORCID (`SplicingAssumption`): the model writes the ORCIDs that
  were put in as tokens of their own kind, as the code does with " (ORCID: ...)".
- `ResolverInv`: each coroutine has the number, title and funder of its own
  position (`Asking`), and an award it holds is one of its funder that its number
  or its title found (`Justified`).  Coroutines change only themselves, so any
  order of answers keeps it.  A position has an entry exactly if it says anything
  (`EntryIfSaid`), so the entry of a position is found by its rank
  (`EntriesByPosition`).  `KnownFunderAlwaysKept`, `EntryAlwaysOfItsPosition`,
  `TitleAlwaysDecides`, `CreatorAlwaysKeepsOrcid` and
  `FailureAlwaysOnlyCostsDetail` follow, for any metadata, catalogue and instance;
  the last under `OnlyCaught`, its precondition, that every text makes a request
  and no answer raises more than the lookups catch.
  The assumptions on the constants are those of the schema: the model may name
  none but the known funders, and None is no award and no ROR id.

Properties of the modules that no run names (the type invariants, `RowComplete`,
`ErrorHasNoResult`, `ExitCodeTellsWhy`, `CacheSound` and others) are those that are
proved.

Only model-checked: liveness under fairness (`ExecutionEnds`, `RowSettles`,
`ExecutionsEnd`, `StreamEnds`, `ConnectionsReturn`, `SyncEnds`, `TornDownTogether`,
`SignalStops`), of which the prover can show none.  Where the code sorts or loops
over a list, the model takes the members in order (`InOrder`) or one per step, so
that the proofs count positions and need no induction over data.

## Not modelled

Cancellation and termination of workflows by an operator; Temporal's own
persistence; several clocks; the `--reset` and the output streaming of `orcha
run`; `check_funding_relevance` beyond its retries (a length check and one
prompt); tables and links of a PDF, which matching blocks the
similarity measure settles on, and the copy of `resolve_pages` under `evals/`; the prefix rule
of publication dates, several affiliations per creator and the rounding of
scores; migrations, configuration, tracing and the model provider (straight-line
code around libraries).  `PROJECT.json` says why, component by component.

## Plan

Done: lifecycle and record, streams, dataset, stack, access, extraction and
splicing, resolution, the worker's loop, alignment and scores, sweeps; proofs of
their safety properties.

Left: several affiliations per creator; crashes of the worker in `WorkerLoop`.
