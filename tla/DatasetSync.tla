------------------------------ MODULE DatasetSync ------------------------------
(***************************************************************************)
(* evals.dataset_sync: put the files of one Git commit of the evaluation   *)
(* dataset in place.  A sync seeds a cache of objects, named by their      *)
(* checksums, from the archive of the last Zenodo release, fetches what is *)
(* missing from GitHub, and then makes the target directory a tree of      *)
(* symbolic links into the cache, with a state file that says which links  *)
(* are its own.  Syncs may run side by side on one cache and one target,   *)
(* and each may die between any two system calls.                          *)
(***************************************************************************)
EXTENDS Naturals, FiniteSetsExt

CONSTANTS
    Syncs,          \* processes running sync_dataset
    Objects,        \* checksums
    Commits,        \* commits a sync may be asked for
    LastPath,       \* paths are numbered 1..LastPath in the order of _entries
    Manifest,       \* Manifest[c]: the object of each path of commit c
    Published,      \* the objects of the Zenodo archive, {} without a release
    Faults          \* a subset of FaultKinds

FaultKinds == {"network",   \* a request fails, or delivers other bytes
               "crash",     \* a sync is killed
               "foreign"}   \* files the user put into the target

Paths == 1..LastPath

ASSUME DatasetAssumption ==
    /\ LastPath \in Nat
    /\ Published \subseteq Objects
    /\ \A c \in Commits : /\ DOMAIN Manifest[c] \subseteq Paths
                          /\ \A p \in DOMAIN Manifest[c] : Manifest[c][p] \in Objects
    /\ Faults \subseteq FaultKinds
    /\ {"none", "foreign"} \cap Objects = {}
    /\ {"none", "empty", "torn"} \cap Commits = {}

VARIABLES
    cache,          \* the file at _object_path: "absent", "good" or "bad"
    archive,        \* the archive file exists
    links,          \* what stands at a path of the target
    stateCommit,    \* commit named by .dataset-state.json, "none" without the
                    \* file, "empty" or "torn"
    managed,        \* its managed_paths
    pc,             \* where a sync stands
    commit,         \* the commit it was asked for
    previous,       \* the managed_paths it has read
    todo,           \* paths it has yet to look at or to link
    stale,          \* the stale path it has seen a link at
    outcome,        \* how the last run of a sync ended
    apart           \* runs follow each other, none is killed, and the user has
                    \* no file in the way: a choice of the initial state

disk  == <<cache, archive, links, stateCommit, managed>>
local == <<commit, previous, todo, stale, outcome>>
vars  == <<disk, pc, local, apart>>

Files(c) == DOMAIN Manifest[c]
Wanted(c) == {Manifest[c][p] : p \in Files(c)}
Missing(os) == {o \in os : cache[o] = "absent"}

Init ==
    /\ cache = [o \in Objects |-> "absent"]
    /\ archive = FALSE
    /\ apart \in BOOLEAN
    /\ links \in [Paths -> IF "foreign" \in Faults /\ ~apart
                          THEN {"none", "foreign"} ELSE {"none"}]
    /\ stateCommit = "none"
    /\ managed = {}
    /\ pc = [s \in Syncs |-> "idle"]
    /\ commit \in [Syncs -> Commits]
    /\ previous = [s \in Syncs |-> {}]
    /\ todo = [s \in Syncs |-> {}]
    /\ stale = [s \in Syncs |-> 0]
    /\ outcome = [s \in Syncs |-> "none"]

Goto(s, label) == pc' = [pc EXCEPT ![s] = label]

\* The run of s ends, a return, an exception or a kill, and its locals with it.
Ends(s, how) ==
    /\ Goto(s, "idle")
    /\ outcome' = [outcome EXCEPT ![s] = how]
    /\ previous' = [previous EXCEPT ![s] = {}]
    /\ todo' = [todo EXCEPT ![s] = {}]
    /\ stale' = [stale EXCEPT ![s] = 0]
    /\ UNCHANGED commit

Start(s, c) ==
    /\ pc[s] = "idle"
    /\ Goto(s, "seed")
    /\ commit' = [commit EXCEPT ![s] = c]
    /\ outcome' = [outcome EXCEPT ![s] = "none"]
    /\ UNCHANGED <<disk, previous, todo, stale>>

\* A request of s fails, or the archive does not open: nothing stays behind.
NetworkFails(s) ==
    /\ "network" \in Faults
    /\ pc[s] \in {"seed", "extract", "fetch"}
    /\ archive' = IF pc[s] = "extract" THEN FALSE ELSE archive
    /\ Ends(s, "failed")
    /\ UNCHANGED <<cache, links, stateCommit, managed>>

-----------------------------------------------------------------------------
(* _seed_zenodo and _fetch_current_objects *)

SkipSeed(s) ==
    /\ pc[s] = "seed"
    /\ Missing(Published) = {}
    /\ Goto(s, "fetch")
    /\ UNCHANGED <<disk, local>>

\* The archive of every sync has the same path.
Download(s) ==
    /\ pc[s] = "seed"
    /\ Missing(Published) # {}
    /\ archive' = TRUE
    /\ Goto(s, "open")
    /\ UNCHANGED <<cache, links, stateCommit, managed, local>>

\* Mutant of OpenArchive: it waits for the archive to be there.
OpenArchiveWaits(s) ==
    /\ pc[s] = "open"
    /\ archive
    /\ Goto(s, "extract")
    /\ UNCHANGED <<disk, local>>

OpenArchive(s) ==
    /\ pc[s] = "open"
    /\ \/ archive /\ Goto(s, "extract") /\ UNCHANGED local
       \/ ~archive /\ Ends(s, "no_archive")
    /\ UNCHANGED disk

\* The bytes a source delivers under the name of an object.
Received == IF "network" \in Faults THEN {"good", "bad"} ELSE {"good"}

\* _store_object: the bytes are hashed in a temporary file.  It replaces the
\* destination, so that a checksum's path appears with its content or not at
\* all, or it is dropped and DatasetSyncError raised.
StoreObject(s, o, bytes) ==
    \/ /\ bytes = "good"
       /\ cache' = [cache EXCEPT ![o] = "good"]
       /\ UNCHANGED <<pc, local>>
    \/ /\ bytes # "good"
       /\ Ends(s, "failed")
       /\ UNCHANGED cache

\* The archive goes when a file of it does not match.
Extract(s) ==
    /\ pc[s] = "extract"
    /\ \E o \in Missing(Published), bytes \in Received :
        /\ StoreObject(s, o, bytes)
        /\ archive' = (archive /\ bytes = "good")
    /\ UNCHANGED <<links, stateCommit, managed>>

CloseArchive(s) ==
    /\ pc[s] = "extract"
    /\ Missing(Published) = {}
    /\ archive' = FALSE
    /\ Goto(s, "fetch")
    /\ UNCHANGED <<cache, links, stateCommit, managed, local>>

Fetch(s) ==
    /\ pc[s] = "fetch"
    /\ \E o \in Missing(Wanted(commit[s])), bytes \in Received :
        StoreObject(s, o, bytes)
    /\ UNCHANGED <<archive, links, stateCommit, managed>>

-----------------------------------------------------------------------------
(* _materialize *)

Unparsable == {"empty", "torn"}

\* Mutants of ReadState: stale links are left alone, and nobody waits for the
\* objects to be there.
ReadStateKeepsStale(s) ==
    /\ pc[s] = "fetch"
    /\ Missing(Wanted(commit[s])) = {}
    /\ stateCommit \notin Unparsable
    /\ Goto(s, "stale")
    /\ previous' = [previous EXCEPT ![s] = managed]
    /\ UNCHANGED <<disk, todo, stale, commit, outcome>>

ReadStateEarly(s) ==
    /\ pc[s] = "fetch"
    /\ stateCommit \notin Unparsable
    /\ Goto(s, "stale")
    /\ previous' = [previous EXCEPT ![s] = managed]
    /\ todo' = [todo EXCEPT ![s] = managed \ Files(commit[s])]
    /\ UNCHANGED <<disk, stale, commit, outcome>>

\* A state file that is being written, or that a kill left in the midst of it,
\* does not parse.
ReadState(s) ==
    /\ pc[s] = "fetch"
    /\ Missing(Wanted(commit[s])) = {}
    /\ \/ /\ stateCommit \in Unparsable
          /\ Ends(s, "torn")
       \/ /\ stateCommit \notin Unparsable
          /\ Goto(s, "stale")
          /\ previous' = [previous EXCEPT ![s] = managed]
          /\ todo' = [todo EXCEPT ![s] = managed \ Files(commit[s])]
          /\ UNCHANGED <<commit, stale, outcome>>
    /\ UNCHANGED disk

IsLink(p) == links[p] \notin {"none", "foreign"}

\* The paths only the last commit had, in any order, each looked at once.
LookAtStale(s) ==
    /\ pc[s] = "stale"
    /\ \E p \in todo[s] :
        /\ todo' = [todo EXCEPT ![s] = @ \ {p}]
        /\ \/ IsLink(p) /\ stale' = [stale EXCEPT ![s] = p] /\ Goto(s, "unlink")
           \/ ~IsLink(p) /\ UNCHANGED <<stale, pc>>
    /\ UNCHANGED <<disk, commit, previous, outcome>>

\* unlink of a path that another sync may have cleared since: FileNotFoundError.
Unlink(s, p, label) ==
    \/ /\ links[p] # "none"
       /\ links' = [links EXCEPT ![p] = "none"]
       /\ Goto(s, label)
       /\ UNCHANGED local
    \/ /\ links[p] = "none"
       /\ Ends(s, "vanished")
       /\ UNCHANGED links

UnlinkStale(s) ==
    /\ pc[s] = "unlink"
    /\ Unlink(s, stale[s], "stale")
    /\ UNCHANGED <<cache, archive, stateCommit, managed>>

StaleGone(s) ==
    /\ pc[s] = "stale"
    /\ todo[s] = {}
    /\ todo' = [todo EXCEPT ![s] = Files(commit[s])]
    /\ Goto(s, "link")
    /\ UNCHANGED <<disk, commit, previous, stale, outcome>>

Entry(s) == Min(todo[s])
EntryObject(s) == Manifest[commit[s]][Entry(s)]

\* One turn of the loop over the entries, look by look: the link is right,
LinkNext(s) ==
    /\ pc[s] = "link"
    /\ todo[s] # {}
    /\ \/ /\ links[Entry(s)] = EntryObject(s)
          /\ todo' = [todo EXCEPT ![s] = @ \ {Entry(s)}]
          /\ UNCHANGED <<pc, commit, previous, stale, outcome>>
       \/ /\ links[Entry(s)] # EntryObject(s)
          /\ Goto(s, "own")
          /\ UNCHANGED local
    /\ UNCHANGED disk

\* or it is one of the links it has read of,
LookForOwn(s) ==
    /\ pc[s] = "own"
    /\ Goto(s, IF IsLink(Entry(s)) /\ Entry(s) \in previous[s] THEN "replace" ELSE "vacant")
    /\ UNCHANGED <<disk, local>>

\* which makes way,
Replace(s) ==
    /\ pc[s] = "replace"
    /\ Unlink(s, Entry(s), "vacant")
    /\ UNCHANGED <<cache, archive, stateCommit, managed>>

\* and whatever stands in the place now is refused.
LookIfVacant(s) ==
    /\ pc[s] = "vacant"
    /\ LET here == links[Entry(s)]
       IN  \/ here = "none" /\ Goto(s, "symlink") /\ UNCHANGED local
          \/ /\ here # "none"
             /\ Ends(s, IF here = "foreign" THEN "refused" ELSE "refused_link")
    /\ UNCHANGED disk

\* Another sync may have filled the place since: FileExistsError.
Symlink(s) ==
    /\ pc[s] = "symlink"
    /\ \/ /\ links[Entry(s)] = "none"
          /\ links' = [links EXCEPT ![Entry(s)] = EntryObject(s)]
          /\ todo' = [todo EXCEPT ![s] = @ \ {Entry(s)}]
          /\ Goto(s, "link")
          /\ UNCHANGED <<commit, previous, stale, outcome>>
       \/ /\ links[Entry(s)] # "none"
          /\ Ends(s, "exists")
          /\ UNCHANGED links
    /\ UNCHANGED <<cache, archive, stateCommit, managed>>

\* write_text opens the file, which empties it, and then writes.
TruncateState(s) ==
    /\ pc[s] = "link"
    /\ todo[s] = {}
    /\ stateCommit' = "empty"
    /\ managed' = {}
    /\ Goto(s, "write")
    /\ UNCHANGED <<cache, archive, links, local>>

\* The file holds what the sync writes.  Where another one has written since it
\* was emptied, a longer text shows behind a shorter one; syncs of one commit
\* write the same.
Written(s) == {commit[s]} \cup IF stateCommit \in {"empty", commit[s]} THEN {} ELSE {"torn"}

\* Mutant of WriteState: the paths of the last commit are written again.
WriteStateStale(s) ==
    /\ pc[s] = "write"
    /\ stateCommit' \in Written(s)
    /\ managed' = IF stateCommit' = "torn" THEN {} ELSE previous[s]
    /\ Ends(s, "done")
    /\ UNCHANGED <<cache, archive, links>>

WriteState(s) ==
    /\ pc[s] = "write"
    /\ stateCommit' \in Written(s)
    /\ managed' = IF stateCommit' = "torn" THEN {} ELSE Files(commit[s])
    /\ Ends(s, "done")
    /\ UNCHANGED <<cache, archive, links>>

\* Killed while it writes the state, it may leave a part of it.
Crash(s) ==
    /\ "crash" \in Faults
    /\ pc[s] # "idle"
    /\ Ends(s, "crashed")
    /\ \/ UNCHANGED <<stateCommit, managed>>
       \/ pc[s] = "write" /\ stateCommit' = "torn" /\ managed' = {}
    /\ UNCHANGED <<cache, archive, links>>

-----------------------------------------------------------------------------

Resting == \A s \in Syncs : pc[s] = "idle"

Work(s) ==
    /\ \/ SkipSeed(s) \/ Download(s) \/ OpenArchive(s) \/ Extract(s) \/ CloseArchive(s)
       \/ Fetch(s) \/ ReadState(s) \/ LookAtStale(s) \/ UnlinkStale(s) \/ StaleGone(s)
       \/ LinkNext(s) \/ LookForOwn(s) \/ Replace(s) \/ LookIfVacant(s) \/ Symlink(s)
       \/ TruncateState(s) \/ WriteState(s)
    /\ UNCHANGED apart

\* A run begins, or something happens to one.
Other(s) ==
    /\ \/ (apart => Resting) /\ \E c \in Commits : Start(s, c)
       \/ NetworkFails(s)
       \/ ~apart /\ Crash(s)
    /\ UNCHANGED apart

Next == \E s \in Syncs : Work(s) \/ Other(s)

Spec == Init /\ [][Next]_vars

\* A sync that is not killed goes on.
FairSpec == Spec /\ \A s \in Syncs : WF_vars(Work(s))

-----------------------------------------------------------------------------
(* Properties *)

Labels == {"idle", "seed", "open", "extract", "fetch", "stale", "unlink", "link", "own",
           "replace", "vacant", "symlink", "write"}
Outcomes == {"none", "done", "failed", "crashed", "no_archive", "torn",
             "refused", "refused_link", "exists", "vanished"}

TypeOK ==
    /\ cache \in [Objects -> {"absent", "good", "bad"}]
    /\ archive \in BOOLEAN
    /\ links \in [Paths -> Objects \cup {"none", "foreign"}]
    /\ stateCommit \in Commits \cup {"none", "empty", "torn"}
    /\ managed \subseteq Paths
    /\ pc \in [Syncs -> Labels]
    /\ commit \in [Syncs -> Commits]
    /\ previous \in [Syncs -> SUBSET Paths]
    /\ todo \in [Syncs -> SUBSET Paths]
    /\ stale \in [Syncs -> {0} \cup Paths]
    /\ outcome \in [Syncs -> Outcomes]
    /\ apart \in BOOLEAN

\* The comment of _valid_object: a file of the cache holds the bytes its name
\* promises, so that its size is all there is to look at.
CacheSound == \A o \in Objects : cache[o] # "bad"

\* A link of the target always leads to an object that is there, with several
\* syncs at work and whatever died.
LinksResolve == \A p \in Paths : IsLink(p) => cache[links[p]] = "good"

\* The files of the user are never replaced, removed or adopted.
ForeignFilesKept ==
    [][\A p \in Paths : links[p] = "foreign" => links'[p] = "foreign"]_vars

\* When no sync is at work, the target is the tree of the commit that the
\* state file names: every path of the commit links to its object and no other
\* link is left.  Runs before it may have failed anywhere in the cache.
TargetIsOneCommit ==
    apart /\ Resting /\ stateCommit \in Commits =>
        \A p \in Paths :
            IF p \in Files(stateCommit)
            THEN links[p] = Manifest[stateCommit][p]
            ELSE ~IsLink(p)

\* A sync refuses only files of the user, never links that a sync made.
OwnLinksAccepted == \A s \in Syncs : outcome[s] # "refused_link"

\* managed_paths names all the links that are there (dataset_sync.py:262-280),
\* as long as runs follow each other and none stops midway through the links.
OwnLinksAcceptedApart == apart => OwnLinksAccepted

\* A run that is not killed returns or raises.
SyncEnds == \A s \in Syncs : pc[s] # "idle" ~> pc[s] = "idle"

=============================================================================
