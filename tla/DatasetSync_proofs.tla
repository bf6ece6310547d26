-------------------------- MODULE DatasetSync_proofs --------------------------
(***************************************************************************)
(* What holds of the cache and of the target for any number of syncs, any  *)
(* commits and every fault.                                                *)
(***************************************************************************)
EXTENDS DatasetSync, WellFoundedInduction, TLAPS

\* The next entry is an entry that is left to be placed.
LEMMA EntryIsLeft ==
    ASSUME NEW S, S \subseteq Nat, S # {}
    PROVE  Min(S) \in S
<1>1. IsWellFoundedOn(OpToRel(<, Nat), Nat)
  BY NatLessThanWellFounded
<1>2. PICK x \in S : \A y \in S : ~ (<<y, x>> \in OpToRel(<, Nat))
  BY <1>1, WFMin
<1>3. \A y \in S : ~ (y < x)
  BY <1>2 DEF OpToRel
<1>4. \A y \in S : x =< y
  BY <1>3
<1>5. QED BY <1>4 DEF Min

\* The paths of a commit are paths, and what it wants are objects.
LEMMA ManifestType ==
    \A c \in Commits :
        /\ Files(c) \subseteq Paths
        /\ Wanted(c) \subseteq Objects
        /\ \A p \in Files(c) : Manifest[c][p] \in Wanted(c)
  BY DatasetAssumption DEF Files, Wanted

-----------------------------------------------------------------------------
(***************************************************************************)
(* A sync that is past fetching has all its objects, and the paths it has  *)
(* left to link are paths of its commit.  Nothing removes an object, so    *)
(* both survive the steps of every other sync.  No step makes a file of    *)
(* the user, so what was seen to be a link is none when it is unlinked.    *)
(***************************************************************************)

Placing == {"stale", "unlink", "link", "own", "replace", "vacant", "symlink", "write"}
AtEntry == {"own", "replace", "vacant", "symlink"}

SyncInv(s) ==
    /\ pc[s] \in Placing => \A o \in Wanted(commit[s]) : cache[o] = "good"
    /\ pc[s] \in AtEntry \cup {"link"} => todo[s] \subseteq Files(commit[s])
    /\ pc[s] \in AtEntry => todo[s] # {}
    /\ pc[s] = "unlink" => stale[s] \in Paths /\ links[stale[s]] # "foreign"
    /\ pc[s] = "replace" => links[Entry(s)] # "foreign"

Inv ==
    /\ TypeOK
    /\ CacheSound
    /\ LinksResolve
    /\ \A s \in Syncs : SyncInv(s)

\* An empty cache and a target without links.
LEMMA InvInit == Init => Inv
<1> SUFFICES ASSUME Init PROVE Inv
  OBVIOUS
<1>1. links \in [Paths -> {"none", "foreign"}]
  <2>1. CASE "foreign" \in Faults  BY <2>1 DEF Init
  <2>2. CASE "foreign" \notin Faults
    <3>1. links \in [Paths -> {"none"}]  BY <2>2 DEF Init
    <3>2. QED BY <3>1
  <2>3. QED BY <2>1, <2>2
<1>2. links \in [Paths -> Objects \cup {"none", "foreign"}]
  BY <1>1
<1>3. TypeOK
  BY <1>2 DEF Init, TypeOK, Labels, Outcomes
<1>4. CacheSound
  BY DEF Init, CacheSound
<1>5. LinksResolve
  BY <1>1 DEF LinksResolve, IsLink
<1>6. \A s \in Syncs : SyncInv(s)
  BY DEF Init, SyncInv, Placing, AtEntry
<1>7. QED BY <1>3, <1>4, <1>5, <1>6 DEF Inv

\* A sync that ends leaves nothing to be shown of it.
LEMMA EndsSync ==
    ASSUME Inv, NEW s \in Syncs, NEW how \in Outcomes, Ends(s, how), UNCHANGED disk,
           UNCHANGED apart
    PROVE  Inv'
  BY DEF Inv, TypeOK, CacheSound, LinksResolve, SyncInv, IsLink, Labels, Placing, AtEntry, Entry,
         Ends, Goto, disk

\* Storing an object keeps every object that is there.
LEMMA StoreKeepsInv ==
    ASSUME Inv, NEW s \in Syncs, NEW o \in Objects, cache[o] = "absent",
           NEW bytes, StoreObject(s, o, bytes), archive' \in BOOLEAN,
           UNCHANGED <<links, stateCommit, managed, apart>>
    PROVE  Inv'
<1>1. CASE UNCHANGED <<pc, local>> /\ cache' = [cache EXCEPT ![o] = "good"]
  <2>1. \A x \in Objects : cache'[x] = cache[x] \/ cache'[x] = "good"
    BY <1>1 DEF Inv, TypeOK
  <2>2. TypeOK'
    BY <1>1 DEF Inv, TypeOK, local
  <2>3. CacheSound'
    BY <2>1 DEF Inv, CacheSound
  <2>4. LinksResolve'
    BY <2>1 DEF Inv, TypeOK, LinksResolve, IsLink
  <2>5. ASSUME NEW r \in Syncs PROVE SyncInv(r)'
    <3>1. Wanted(commit[r]) \subseteq Objects
      BY ManifestType DEF Inv, TypeOK
    <3>2. QED BY <1>1, <2>1, <3>1 DEF Inv, SyncInv, local, Wanted, Files, Entry, AtEntry
  <2>6. QED BY <2>2, <2>3, <2>4, <2>5 DEF Inv
<1>2. CASE Ends(s, "failed") /\ UNCHANGED cache
  BY <1>2 DEF Inv, TypeOK, CacheSound, LinksResolve, SyncInv, IsLink, Labels, Outcomes,
              Placing, AtEntry, Entry, Ends, Goto
<1>3. QED BY <1>1, <1>2 DEF StoreObject

\* Seeding and fetching.
LEMMA SeedKeepsInv ==
    ASSUME Inv, NEW s \in Syncs, UNCHANGED apart,
           \/ \E c \in Commits : Start(s, c)
           \/ SkipSeed(s) \/ Download(s) \/ OpenArchive(s) \/ Extract(s)
           \/ CloseArchive(s) \/ Fetch(s) \/ NetworkFails(s) \/ Crash(s)
    PROVE  Inv'
<1>1. CASE \E c \in Commits : Start(s, c)
  BY <1>1 DEF Start, Goto, Inv, TypeOK, CacheSound, LinksResolve, SyncInv, IsLink,
              Labels, Outcomes, Placing, AtEntry, Entry, disk
<1>2. CASE SkipSeed(s) \/ Download(s) \/ CloseArchive(s)
  BY <1>2 DEF SkipSeed, Download, CloseArchive, Goto, Inv, TypeOK, CacheSound,
              LinksResolve, SyncInv, IsLink, Labels, Placing, AtEntry, Entry, disk, local
<1>3. CASE OpenArchive(s)
  <2>1. CASE Ends(s, "no_archive") /\ UNCHANGED disk
    BY <2>1, EndsSync DEF Outcomes
  <2>2. CASE Goto(s, "extract") /\ UNCHANGED local /\ UNCHANGED disk
    BY <2>2 DEF Goto, Inv, TypeOK, CacheSound, LinksResolve, SyncInv, IsLink, Labels,
                Placing, AtEntry, Entry, disk, local
  <2>3. QED BY <1>3, <2>1, <2>2 DEF OpenArchive
<1>4. CASE Extract(s)
  <2>1. PICK o \in Missing(Published), bytes \in Received :
            StoreObject(s, o, bytes) /\ archive' = (archive /\ bytes = "good")
    BY <1>4 DEF Extract
  <2>2. o \in Objects /\ cache[o] = "absent"
    BY DatasetAssumption DEF Missing
  <2>3. archive' \in BOOLEAN
    BY <2>1
  <2>4. QED BY <1>4, <2>1, <2>2, <2>3, StoreKeepsInv DEF Extract
<1>5. CASE Fetch(s)
  <2>1. PICK o \in Missing(Wanted(commit[s])), bytes \in Received :
            StoreObject(s, o, bytes)
    BY <1>5 DEF Fetch
  <2>2. o \in Objects /\ cache[o] = "absent"
    BY ManifestType DEF Missing, Inv, TypeOK
  <2>3. archive' \in BOOLEAN
    BY <1>5 DEF Fetch, Inv, TypeOK
  <2>4. QED BY <1>5, <2>1, <2>2, <2>3, StoreKeepsInv DEF Fetch
<1>6. CASE NetworkFails(s)
  BY <1>6 DEF NetworkFails, Ends, Goto, Inv, TypeOK, CacheSound, LinksResolve, SyncInv,
              IsLink, Labels, Outcomes, Placing, AtEntry, Entry
<1>7. CASE Crash(s)
  BY <1>7 DEF Crash, Ends, Goto, Inv, TypeOK, CacheSound, LinksResolve, SyncInv,
              IsLink, Labels, Outcomes, Placing, AtEntry, Entry
<1>8. QED BY <1>1, <1>2, <1>3, <1>4, <1>5, <1>6, <1>7

\* A step that makes a file of the user of nothing keeps what the other syncs rely on.
LEMMA OthersStay ==
    ASSUME Inv, NEW s \in Syncs, NEW r \in Syncs, r # s,
           UNCHANGED <<cache, commit[r], pc[r], todo[r], stale[r]>>,
           \A p \in Paths : links'[p] = "foreign" => links[p] = "foreign"
    PROVE  SyncInv(r)'
<1>1. ASSUME pc[r] = "replace" PROVE Entry(r) \in Paths
  <2>1. todo[r] # {} /\ todo[r] \subseteq Files(commit[r]) /\ Files(commit[r]) \subseteq Paths
    BY <1>1, ManifestType DEF Inv, SyncInv, AtEntry, TypeOK
  <2>2. QED BY <2>1, EntryIsLeft, DatasetAssumption DEF Entry, Paths
<1>2. Entry(r)' = Entry(r) /\ Wanted(commit[r])' = Wanted(commit[r])
      /\ Files(commit[r])' = Files(commit[r])
  BY DEF Entry, Wanted, Files
<1>3. QED BY <1>1, <1>2 DEF Inv, SyncInv

\* Unlinking leaves no link that leads nowhere.
LEMMA UnlinkKeepsInv ==
    ASSUME Inv, NEW s \in Syncs, NEW p \in Paths, NEW l \in Labels, UNCHANGED apart,
           pc[s] \in Placing, Unlink(s, p, l),
           l = "stale" \/ (l = "vacant" /\ pc[s] = "replace"),
           UNCHANGED <<cache, archive, stateCommit, managed>>
    PROVE  Inv'
<1>1. CASE links' = [links EXCEPT ![p] = "none"] /\ Goto(s, l) /\ UNCHANGED local
  <2>1. links \in [Paths -> Objects \cup {"none", "foreign"}] /\ pc \in [Syncs -> Labels]
    BY DEF Inv, TypeOK
  <2>2. pc' = [pc EXCEPT ![s] = l]
    BY <1>1 DEF Goto
  <2>3. TypeOK'
    BY <1>1, <2>2 DEF Inv, TypeOK, local
  <2>4. LinksResolve' /\ CacheSound'
    BY <1>1, <2>1 DEF Inv, LinksResolve, CacheSound, IsLink
  <2>5. SyncInv(s)'
    BY <1>1, <2>1, <2>2 DEF Inv, SyncInv, Placing, AtEntry, local
  <2>6. \A q \in Paths : links'[q] = "foreign" => links[q] = "foreign"
    BY <1>1, <2>1
  <2>7. \A r \in Syncs : r # s => SyncInv(r)'
    BY <1>1, <2>1, <2>2, <2>6, OthersStay DEF local
  <2>8. QED BY <2>3, <2>4, <2>5, <2>7 DEF Inv
<1>2. CASE Ends(s, "vanished") /\ UNCHANGED disk
  BY <1>2, EndsSync DEF Outcomes
<1>3. QED BY <1>1, <1>2 DEF Unlink, disk

\* Steps that only go to another place of the loop.
LEMMA MoveKeepsInv ==
    ASSUME Inv, NEW s \in Syncs, NEW l \in Labels, UNCHANGED <<apart, disk, local>>,
           Goto(s, l), pc[s] \in AtEntry \cup {"link"}, l \in AtEntry, todo[s] # {},
           l = "replace" => links[Entry(s)] # "foreign"
    PROVE  Inv'
<1>1. pc \in [Syncs -> Labels] /\ pc' = [pc EXCEPT ![s] = l]
  BY DEF Inv, TypeOK, Goto
<1>2. TypeOK' /\ CacheSound' /\ LinksResolve'
  BY <1>1 DEF Inv, TypeOK, CacheSound, LinksResolve, IsLink, disk, local
<1>3. SyncInv(s)'
  BY <1>1 DEF Inv, SyncInv, Placing, AtEntry, Entry, disk, local
<1>4. \A r \in Syncs : r # s => SyncInv(r)'
  BY <1>1, OthersStay DEF disk, local
<1>5. QED BY <1>2, <1>3, <1>4 DEF Inv

\* The steps of _materialize.
LEMMA PlaceKeepsInv ==
    ASSUME Inv, NEW s \in Syncs, UNCHANGED apart,
           \/ ReadState(s) \/ LookAtStale(s) \/ UnlinkStale(s) \/ StaleGone(s)
           \/ LinkNext(s) \/ LookForOwn(s) \/ Replace(s) \/ LookIfVacant(s)
           \/ Symlink(s) \/ TruncateState(s) \/ WriteState(s)
    PROVE  Inv'
<1>0. commit[s] \in Commits /\ Files(commit[s]) \subseteq Paths
  BY ManifestType DEF Inv, TypeOK
<1>e. pc[s] \in AtEntry \cup {"link"} /\ todo[s] # {} => Entry(s) \in Files(commit[s])
  BY <1>0, EntryIsLeft, DatasetAssumption DEF Entry, Paths, Inv, SyncInv
<1>1. CASE ReadState(s)
  <2>1. CASE Ends(s, "torn")
    BY <1>1, <2>1, EndsSync DEF ReadState, Outcomes
  <2>2. CASE /\ Goto(s, "stale")
             /\ previous' = [previous EXCEPT ![s] = managed]
             /\ todo' = [todo EXCEPT ![s] = managed \ Files(commit[s])]
             /\ UNCHANGED <<commit, stale, outcome>>
    <3>1. \A o \in Wanted(commit[s]) : cache[o] = "good"
      BY <1>0, <1>1, ManifestType DEF ReadState, Missing, Inv, TypeOK, CacheSound
    <3>2. UNCHANGED disk
      BY <1>1 DEF ReadState
    <3>3. pc \in [Syncs -> Labels] /\ pc' = [pc EXCEPT ![s] = "stale"]
      BY <2>2 DEF Inv, TypeOK, Goto
    <3>4. TypeOK' /\ CacheSound' /\ LinksResolve'
      BY <2>2, <3>2, <3>3
         DEF Inv, TypeOK, CacheSound, LinksResolve, IsLink, disk, Labels
    <3>5. SyncInv(s)'
      BY <2>2, <3>1, <3>2, <3>3 DEF SyncInv, AtEntry, disk
    <3>6. \A r \in Syncs : r # s => SyncInv(r)'
      BY <2>2, <3>2, <3>3, OthersStay DEF disk, Inv, TypeOK
    <3>7. QED BY <3>4, <3>5, <3>6 DEF Inv
  <2>3. QED BY <1>1, <2>1, <2>2 DEF ReadState
<1>2. CASE LookAtStale(s)
  <2>1. PICK p \in todo[s] :
            /\ todo' = [todo EXCEPT ![s] = @ \ {p}]
            /\ \/ IsLink(p) /\ stale' = [stale EXCEPT ![s] = p] /\ Goto(s, "unlink")
               \/ ~IsLink(p) /\ UNCHANGED <<stale, pc>>
    BY <1>2 DEF LookAtStale
  <2>2. p \in Paths /\ pc[s] = "stale" /\ UNCHANGED <<disk, commit, previous, outcome>>
    BY <1>2 DEF LookAtStale, Inv, TypeOK
  <2>3. TypeOK' /\ CacheSound' /\ LinksResolve'
    BY <2>1, <2>2 DEF Inv, TypeOK, CacheSound, LinksResolve, IsLink, disk, Labels, Goto
  <2>4. SyncInv(s)'
    BY <2>1, <2>2 DEF Inv, TypeOK, SyncInv, AtEntry, Placing, disk, IsLink, Goto
  <2>5. \A r \in Syncs : r # s => SyncInv(r)'
    BY <2>1, <2>2, OthersStay DEF disk, Inv, TypeOK, Goto
  <2>6. QED BY <2>3, <2>4, <2>5 DEF Inv
<1>3. CASE UnlinkStale(s)
  BY <1>3, UnlinkKeepsInv DEF UnlinkStale, Labels, Placing, Inv, SyncInv
<1>4. CASE StaleGone(s)
  BY <1>0, <1>4 DEF StaleGone, Goto, Inv, TypeOK, CacheSound, LinksResolve, SyncInv,
                    IsLink, Labels, Placing, AtEntry, Entry, disk
<1>5. CASE LinkNext(s)
  <2>1. pc[s] = "link" /\ todo[s] # {} /\ UNCHANGED disk
    BY <1>5 DEF LinkNext
  <2>2. CASE Goto(s, "own") /\ UNCHANGED local
    BY <2>1, <2>2, MoveKeepsInv DEF Labels, AtEntry
  <2>3. CASE /\ todo' = [todo EXCEPT ![s] = @ \ {Entry(s)}]
             /\ UNCHANGED <<pc, commit, previous, stale, outcome>>
    <3>1. TypeOK' /\ CacheSound' /\ LinksResolve'
      BY <2>1, <2>3 DEF Inv, TypeOK, CacheSound, LinksResolve, IsLink, disk
    <3>2. SyncInv(s)'
      BY <2>1, <2>3 DEF Inv, TypeOK, SyncInv, AtEntry, disk
    <3>3. \A r \in Syncs : r # s => SyncInv(r)'
      BY <2>1, <2>3, OthersStay DEF disk, Inv, TypeOK
    <3>4. QED BY <3>1, <3>2, <3>3 DEF Inv
  <2>4. QED BY <1>5, <2>2, <2>3 DEF LinkNext
<1>6. CASE LookForOwn(s)
  <2>1. PICK l \in {"replace", "vacant"} : Goto(s, l) /\ (l = "replace" => IsLink(Entry(s)))
    BY <1>6 DEF LookForOwn
  <2>2. pc[s] = "own" /\ todo[s] # {} /\ UNCHANGED <<disk, local>>
    BY <1>6 DEF LookForOwn, Inv, SyncInv, AtEntry
  <2>3. QED BY <2>1, <2>2, MoveKeepsInv DEF Labels, AtEntry, IsLink
<1>7. CASE Replace(s)
  <2>1. pc[s] = "replace" /\ todo[s] # {}
    BY <1>7 DEF Replace, Inv, SyncInv, AtEntry
  <2>2. Entry(s) \in Paths
    BY <1>0, <1>e, <2>1 DEF AtEntry
  <2>3. QED BY <1>7, <2>1, <2>2, UnlinkKeepsInv DEF Replace, Labels, Placing
<1>8. CASE LookIfVacant(s)
  <2>1. pc[s] = "vacant" /\ todo[s] # {} /\ UNCHANGED disk
    BY <1>8 DEF LookIfVacant, Inv, SyncInv, AtEntry
  <2>2. CASE Goto(s, "symlink") /\ UNCHANGED local
    BY <2>1, <2>2, MoveKeepsInv DEF Labels, AtEntry
  <2>3. CASE \E how \in {"refused", "refused_link"} : Ends(s, how)
    BY <2>1, <2>3, EndsSync DEF Outcomes
  <2>4. QED BY <1>8, <2>2, <2>3 DEF LookIfVacant
<1>9. CASE Symlink(s)
  <2>1. pc[s] = "symlink" /\ todo[s] # {} /\ todo[s] \subseteq Files(commit[s])
    BY <1>9 DEF Symlink, Inv, SyncInv, AtEntry
  <2>2. Entry(s) \in Files(commit[s])
    BY <1>e, <2>1 DEF AtEntry
  <2>3. EntryObject(s) \in Objects /\ cache[EntryObject(s)] = "good"
    BY <1>0, <2>1, <2>2, ManifestType DEF EntryObject, Inv, SyncInv, Placing
  <2>4. CASE links[Entry(s)] = "none"
    <3>1. /\ links' = [links EXCEPT ![Entry(s)] = EntryObject(s)]
          /\ todo' = [todo EXCEPT ![s] = @ \ {Entry(s)}] /\ Goto(s, "link")
          /\ UNCHANGED <<commit, previous, stale, outcome, cache, archive, stateCommit, managed>>
      BY <1>9, <2>4 DEF Symlink
    <3>2. EntryObject(s) # "foreign"
      BY <2>3, DatasetAssumption
    <3>3. TypeOK' /\ CacheSound'
      BY <2>3, <3>1 DEF Inv, TypeOK, CacheSound, Goto, Labels
    <3>4. LinksResolve'
      BY <2>3, <3>1 DEF Inv, TypeOK, LinksResolve, IsLink
    <3>5. SyncInv(s)'
      BY <2>1, <3>1 DEF Inv, TypeOK, SyncInv, AtEntry, Placing, Goto
    <3>6. \A q \in Paths : links'[q] = "foreign" => links[q] = "foreign"
      BY <3>1, <3>2 DEF Inv, TypeOK
    <3>7. \A r \in Syncs : r # s => SyncInv(r)'
      BY <3>1, <3>6, OthersStay DEF Inv, TypeOK, Goto
    <3>8. QED BY <3>3, <3>4, <3>5, <3>7 DEF Inv
  <2>5. CASE links[Entry(s)] # "none"
    BY <1>9, <2>5, EndsSync DEF Symlink, Outcomes, disk
  <2>6. QED BY <2>4, <2>5
<1>10. CASE TruncateState(s)
  BY <1>10 DEF TruncateState, Goto, Inv, TypeOK, CacheSound, LinksResolve, SyncInv, IsLink,
               Labels, Placing, AtEntry, Entry, local
<1>11. CASE WriteState(s)
  <2>1. /\ stateCommit' \in Commits \cup {"none", "empty", "torn"} /\ managed' \subseteq Paths
        /\ Ends(s, "done") /\ UNCHANGED <<cache, archive, links>>
    BY <1>0, <1>11 DEF WriteState, Written
  <2>2. QED
    BY <2>1 DEF Ends, Goto, Inv, TypeOK, CacheSound, LinksResolve, SyncInv,
                IsLink, Labels, Outcomes, Placing, AtEntry, Entry
<1>12. QED
  BY <1>1, <1>2, <1>3, <1>4, <1>5, <1>6, <1>7, <1>8, <1>9, <1>10, <1>11

\* The invariant holds whatever syncs run side by side and die.
THEOREM Invariance == Spec => []Inv
<1>1. Inv /\ [Next]_vars => Inv'
  <2> SUFFICES ASSUME Inv, [Next]_vars PROVE Inv'
    OBVIOUS
  <2>1. CASE UNCHANGED vars
    BY <2>1 DEF vars, disk, local, Inv, TypeOK, CacheSound, LinksResolve, SyncInv, IsLink,
                Entry
  <2>2. CASE Next
    BY <2>2, SeedKeepsInv, PlaceKeepsInv DEF Next, Work, Other
  <2>3. QED BY <2>1, <2>2
<1>2. QED BY InvInit, <1>1, PTL DEF Spec

\* Type correctness of the files and of every sync.
THEOREM TypeCorrect == Spec => []TypeOK
<1>1. Inv => TypeOK  BY DEF Inv
<1>2. QED BY <1>1, Invariance, PTL

\* A file of the cache always holds the bytes its name promises.
THEOREM CacheAlwaysSound == Spec => []CacheSound
<1>1. Inv => CacheSound  BY DEF Inv
<1>2. QED BY <1>1, Invariance, PTL

\* A link of the target always leads to an object that is there.
THEOREM LinksAlwaysResolve == Spec => []LinksResolve
<1>1. Inv => LinksResolve  BY DEF Inv
<1>2. QED BY <1>1, Invariance, PTL

\* No step of any sync replaces, removes or adopts a file of the user.
THEOREM ForeignAlwaysKept == Spec => ForeignFilesKept
<1>1. Inv /\ [Next]_vars =>
        [\A p \in Paths : links[p] = "foreign" => links'[p] = "foreign"]_vars
  <2> SUFFICES ASSUME Inv, [Next]_vars, NEW p \in Paths, links[p] = "foreign"
               PROVE  links'[p] = "foreign"
    OBVIOUS
  <2>1. links \in [Paths -> Objects \cup {"none", "foreign"}]
    BY DEF Inv, TypeOK
  <2>2. CASE UNCHANGED links  BY <2>2
  <2>3. ASSUME NEW s \in Syncs, NEW q, NEW l, Unlink(s, q, l),
               q \in Paths => links[q] # "foreign"
        PROVE  links'[p] = "foreign"
    BY <2>1, <2>3 DEF Unlink
  <2>4. CASE \E s \in Syncs : UnlinkStale(s) \/ Replace(s)
    BY <2>3, <2>4 DEF UnlinkStale, Replace, Inv, SyncInv
  <2>5. CASE \E s \in Syncs : Symlink(s)
    BY <2>1, <2>5 DEF Symlink
  <2>6. QED
    BY <2>2, <2>4, <2>5
       DEF Next, Work, Other, vars, disk, Start, SkipSeed, Download, OpenArchive, Extract,
           CloseArchive, Fetch, ReadState, LookAtStale, StaleGone, LinkNext, LookForOwn,
           LookIfVacant, TruncateState, WriteState, NetworkFails, Crash
<1>2. QED BY <1>1, Invariance, PTL DEF ForeignFilesKept, Spec

-----------------------------------------------------------------------------
(***************************************************************************)
(* Runs that follow each other.  Between runs, and until a run reads the   *)
(* state file, the target is the tree that file names; the run that reads  *)
(* it then takes the links of the old tree for its own, one by one.        *)
(***************************************************************************)

Linked(c) == \A p \in Paths : links[p] = IF p \in Files(c) THEN Manifest[c][p] ELSE "none"

Settled ==
    \/ stateCommit = "none" /\ managed = {} /\ \A p \in Paths : links[p] = "none"
    \/ stateCommit \in Commits /\ managed = Files(stateCommit) /\ Linked(stateCommit)

\* A link to be removed or replaced was there when the state file was read.
Unlinking(s, left) ==
    \A p \in Paths : links[p] # "none" => p \in previous[s] /\ p \in left \cup Files(commit[s])

Linking(s) ==
    \A p \in Paths :
        /\ p \notin Files(commit[s]) => links[p] = "none"
        /\ p \in todo[s] => links[p] = "none" \/ p \in previous[s]
        /\ p \in Files(commit[s]) \ todo[s] => links[p] = Manifest[commit[s]][p]

PlaceInv(s) ==
    /\ pc[s] = "stale" => Unlinking(s, todo[s])
    /\ pc[s] = "unlink" => Unlinking(s, todo[s] \cup {stale[s]}) /\ links[stale[s]] # "none"
    /\ pc[s] \in AtEntry \cup {"link"} => Linking(s)
    /\ pc[s] = "replace" => links[Entry(s)] # "none"
    /\ pc[s] \in {"vacant", "symlink"} => links[Entry(s)] = "none"
    /\ pc[s] = "write" => Linked(commit[s]) /\ stateCommit = "empty"

ApartInv ==
    /\ \A p \in Paths : links[p] # "foreign"
    /\ \A s, t \in Syncs : pc[s] # "idle" /\ pc[t] # "idle" => s = t
    /\ (\A s \in Syncs : pc[s] \notin Placing) => Settled
    /\ \A s \in Syncs : PlaceInv(s) /\ outcome[s] # "refused_link"

LEMMA ApartInit == Init => (apart => ApartInv)
<1> SUFFICES ASSUME Init, apart PROVE ApartInv
  OBVIOUS
<1>1. \A p \in Paths : links[p] = "none"
  BY DEF Init
<1>2. Settled
  BY <1>1 DEF Init, Settled
<1>3. QED BY <1>1, <1>2 DEF Init, ApartInv, PlaceInv, AtEntry

\* A run that is not among its links leaves the target as it is.
LEMMA TargetStays ==
    ASSUME Inv, ApartInv, NEW s \in Syncs,
           pc[s] = "idle" => Resting,
           pc[s] \notin Placing, NEW l \in Labels \ Placing, Goto(s, l),
           outcome' = outcome \/ \E how \in Outcomes \ {"refused_link"} :
                                     outcome' = [outcome EXCEPT ![s] = how],
           UNCHANGED <<links, stateCommit, managed>>
    PROVE  ApartInv'
<1>1. pc' = [pc EXCEPT ![s] = l] /\ pc \in [Syncs -> Labels]
  BY DEF Goto, Inv, TypeOK
<1>2. \A t \in Syncs \ {s} : pc[t] = "idle" /\ pc'[t] = "idle"
  BY <1>1 DEF Resting, ApartInv
<1>3. \A t \in Syncs : pc[t] \notin Placing /\ pc'[t] \notin Placing
  BY <1>1, <1>2 DEF Placing
<1>4. Settled'
  BY <1>3 DEF ApartInv, Settled, Linked
<1>5. \A t \in Syncs : outcome'[t] # "refused_link"
  BY DEF ApartInv, Inv, TypeOK
<1>6. \A t \in Syncs : PlaceInv(t)'
  BY <1>3 DEF PlaceInv, Placing, AtEntry
<1>7. QED BY <1>1, <1>2, <1>4, <1>5, <1>6 DEF ApartInv

\* What a run does among its links: it is the only one at work.
LEMMA PlacingStep ==
    ASSUME Inv, ApartInv, NEW s \in Syncs, pc[s] # "idle",
           NEW l \in Labels, Goto(s, l), UNCHANGED outcome,
           l \in Placing, PlaceInv(s)',
           \A p \in Paths : links'[p] # "foreign"
    PROVE  ApartInv'
<1>1. pc' = [pc EXCEPT ![s] = l] /\ pc \in [Syncs -> Labels]
  BY DEF Goto, Inv, TypeOK
<1>2. \A t \in Syncs \ {s} : pc'[t] = "idle"
  BY <1>1 DEF ApartInv
<1>3. \A t \in Syncs : PlaceInv(t)'
  BY <1>2 DEF PlaceInv, AtEntry
<1>4. QED BY <1>1, <1>2, <1>3 DEF ApartInv

\* A run ends before it has touched a link, or after the last one.
LEMMA SeedApart ==
    ASSUME Inv, ApartInv, NEW s \in Syncs,
           \/ Resting /\ \E c \in Commits : Start(s, c)
           \/ SkipSeed(s) \/ Download(s) \/ OpenArchive(s) \/ Extract(s)
           \/ CloseArchive(s) \/ Fetch(s) \/ NetworkFails(s)
    PROVE  ApartInv'
<1> DEFINE Moves(l) == Goto(s, l) /\ UNCHANGED outcome
           Fails(how) == Goto(s, "idle") /\ outcome' = [outcome EXCEPT ![s] = how]
<1> USE DEF Placing, Labels, Outcomes
<1>t. pc \in [Syncs -> Labels] /\ UNCHANGED <<links, stateCommit, managed>>
  BY DEF Inv, TypeOK, Start, SkipSeed, Download, OpenArchive, Extract, CloseArchive,
         Fetch, NetworkFails, disk
<1>1. CASE Resting /\ \E c \in Commits : Start(s, c)
  BY <1>1, <1>t, TargetStays DEF Start
<1>2. ASSUME pc[s] \in {"seed", "open", "extract", "fetch"},
             NEW l \in {"fetch", "open", "extract"}, Moves(l)
      PROVE  ApartInv'
  BY <1>2, <1>t, TargetStays
<1>3. ASSUME pc[s] \in {"seed", "open", "extract", "fetch"},
             NEW how \in {"failed", "no_archive"}, Fails(how)
      PROVE  ApartInv'
  BY <1>3, <1>t, TargetStays
<1>4. CASE SkipSeed(s) \/ Download(s) \/ CloseArchive(s)
  BY <1>4, <1>2 DEF SkipSeed, Download, CloseArchive, local
<1>5. CASE OpenArchive(s)
  BY <1>5, <1>2, <1>3 DEF OpenArchive, Ends, local
<1>6. ASSUME pc[s] \in {"extract", "fetch"}, NEW o, NEW bytes, StoreObject(s, o, bytes)
      PROVE  ApartInv'
  <2>1. CASE UNCHANGED <<pc, local>>
    <3>1. Moves(pc[s])
      BY <2>1, <1>t DEF Goto, local
    <3>2. QED BY <3>1, <1>6, <1>2
  <2>2. CASE Ends(s, "failed")
    BY <2>2, <1>6, <1>3 DEF Ends
  <2>3. QED BY <1>6, <2>1, <2>2 DEF StoreObject
<1>7. CASE Extract(s) \/ Fetch(s)
  BY <1>7, <1>6 DEF Extract, Fetch
<1>8. CASE NetworkFails(s)
  BY <1>8, <1>3 DEF NetworkFails, Ends
<1>9. QED BY <1>1, <1>4, <1>5, <1>7, <1>8

\* A settled target: only the links that the state file lists.
LEMMA SettledLinks ==
    ASSUME Inv, Settled, NEW p \in Paths, links[p] # "none"
    PROVE  p \in managed
  BY DEF Settled, Linked

LEMMA PlaceApart ==
    ASSUME Inv, ApartInv, NEW s \in Syncs,
           \/ ReadState(s) \/ LookAtStale(s) \/ UnlinkStale(s) \/ StaleGone(s)
           \/ LinkNext(s) \/ LookForOwn(s) \/ Replace(s) \/ LookIfVacant(s)
           \/ Symlink(s) \/ TruncateState(s) \/ WriteState(s)
    PROVE  ApartInv'
<1>t. /\ links \in [Paths -> Objects \cup {"none", "foreign"}]
      /\ pc \in [Syncs -> Labels] /\ todo \in [Syncs -> SUBSET Paths]
      /\ previous \in [Syncs -> SUBSET Paths] /\ stale \in [Syncs -> {0} \cup Paths]
      /\ commit[s] \in Commits /\ Files(commit[s]) \subseteq Paths
  BY ManifestType DEF Inv, TypeOK
<1>f. \A p \in Paths : links[p] # "foreign"
  BY DEF ApartInv
<1>p. PlaceInv(s) /\ SyncInv(s)
  BY DEF ApartInv, Inv
<1>e. pc[s] \in AtEntry \cup {"link"} /\ todo[s] # {} =>
          Entry(s) \in todo[s] /\ Entry(s) \in Files(commit[s]) /\ Entry(s) \in Paths
  BY <1>t, <1>p, EntryIsLeft DEF Entry, Paths, SyncInv
<1> DEFINE Stay == pc' = pc
<1>s. Stay => Goto(s, pc[s])
  BY <1>t DEF Goto
<1>1. CASE ReadState(s)
  <2>1. \A r \in Syncs : pc[r] \notin Placing
    BY <1>1 DEF ReadState, ApartInv, Placing
  <2>2. Settled
    BY <2>1 DEF ApartInv
  <2>3. stateCommit \notin Unparsable
    BY <2>2, DatasetAssumption DEF Settled, Unparsable
  <2>4. /\ Goto(s, "stale") /\ UNCHANGED <<links, commit, outcome>>
        /\ previous' = [previous EXCEPT ![s] = managed]
        /\ todo' = [todo EXCEPT ![s] = managed \ Files(commit[s])]
    BY <1>1, <2>3 DEF ReadState, disk
  <2>5. previous'[s] = managed /\ todo'[s] = managed \ Files(commit[s]) /\ pc'[s] = "stale"
    BY <2>4, <1>t DEF Goto
  <2>6. Unlinking(s, todo[s])'
    <3> SUFFICES ASSUME NEW p \in Paths, links[p] # "none"
                 PROVE  p \in managed
      BY <2>4, <2>5 DEF Unlinking
    <3>1. QED BY <2>2, SettledLinks
  <2>7. QED
    BY <1>1, <1>f, <2>4, <2>5, <2>6, PlacingStep DEF ReadState, PlaceInv, Labels, Placing, AtEntry
<1>2. CASE LookAtStale(s)
  <2>1. PICK p \in todo[s] :
            /\ todo' = [todo EXCEPT ![s] = @ \ {p}]
            /\ \/ IsLink(p) /\ stale' = [stale EXCEPT ![s] = p] /\ Goto(s, "unlink")
               \/ ~IsLink(p) /\ UNCHANGED <<stale, pc>>
    BY <1>2 DEF LookAtStale
  <2>2. /\ pc[s] = "stale" /\ p \in Paths /\ todo'[s] = todo[s] \ {p}
        /\ UNCHANGED <<disk, commit, previous, outcome, links>> /\ Unlinking(s, todo[s])
    BY <1>2, <1>p, <1>t, <2>1 DEF LookAtStale, PlaceInv, disk
  <2>3. CASE IsLink(p) /\ stale' = [stale EXCEPT ![s] = p] /\ Goto(s, "unlink")
    <3>1. stale'[s] = p /\ pc'[s] = "unlink" /\ links[p] # "none"
      BY <2>3, <1>t DEF Goto, IsLink
    <3>2. Unlinking(s, todo[s] \cup {stale[s]})'
      BY <2>2, <3>1 DEF Unlinking
    <3>3. PlaceInv(s)'
      BY <2>2, <3>1, <3>2 DEF PlaceInv, AtEntry
    <3>4. QED BY <2>2, <2>3, <3>3, <1>f, PlacingStep DEF Labels, Placing
  <2>4. CASE ~IsLink(p) /\ UNCHANGED <<stale, pc>>
    <3>1. links[p] = "none"
      BY <2>2, <2>4, <1>f DEF IsLink
    <3>2. Unlinking(s, todo[s])'
      BY <2>2, <2>4, <3>1 DEF Unlinking
    <3>3. PlaceInv(s)'
      BY <2>2, <2>4, <3>2 DEF PlaceInv, AtEntry
    <3>4. QED BY <2>2, <2>4, <3>3, <1>f, <1>s, PlacingStep DEF Labels, Placing
  <2>5. QED BY <2>1, <2>3, <2>4
<1>3. CASE UnlinkStale(s)
  <2>1. /\ pc[s] = "unlink" /\ stale[s] \in Paths /\ links[stale[s]] # "none"
        /\ Unlinking(s, todo[s] \cup {stale[s]})
    BY <1>3, <1>p DEF UnlinkStale, PlaceInv, SyncInv
  <2>2. links' = [links EXCEPT ![stale[s]] = "none"] /\ Goto(s, "stale") /\ UNCHANGED local
    BY <1>3, <2>1 DEF UnlinkStale, Unlink
  <2>3. /\ pc'[s] = "stale" /\ links'[stale[s]] = "none"
        /\ \A q \in Paths : q # stale[s] => links'[q] = links[q]
    BY <2>1, <2>2, <1>t DEF Goto
  <2>4. Unlinking(s, todo[s])'
    BY <2>1, <2>2, <2>3 DEF Unlinking, local
  <2>5. \A q \in Paths : links'[q] # "foreign"
    BY <2>3, <1>f
  <2>6. QED
    BY <2>1, <2>2, <2>3, <2>4, <2>5, PlacingStep
       DEF PlaceInv, Labels, Placing, AtEntry, local
<1>4. CASE StaleGone(s)
  <2>1. todo'[s] = Files(commit[s]) /\ pc'[s] = "link"
    BY <1>4, <1>t DEF StaleGone, Goto
  <2>2. Unlinking(s, todo[s]) /\ todo[s] = {}
    BY <1>4, <1>p DEF StaleGone, PlaceInv
  <2>3. Linking(s)'
    BY <1>4, <2>1, <2>2 DEF StaleGone, Linking, Unlinking, disk
  <2>4. QED
    BY <1>4, <1>f, <2>1, <2>3, PlacingStep
       DEF StaleGone, PlaceInv, Labels, Placing, AtEntry, disk
<1> DEFINE Moves(l) == Goto(s, l) /\ UNCHANGED <<disk, local>>
<1>m. ASSUME pc[s] \in AtEntry \cup {"link"}, Linking(s), NEW l \in AtEntry, Moves(l),
             l = "replace" => links[Entry(s)] # "none",
             l \in {"vacant", "symlink"} => links[Entry(s)] = "none"
      PROVE  ApartInv'
  <2>1. pc'[s] = l /\ Entry(s)' = Entry(s) /\ links' = links
    BY <1>m, <1>t DEF Goto, Entry, disk, local
  <2>2. Linking(s)'
    BY <1>m, <2>1 DEF Linking, disk, local
  <2>3. PlaceInv(s)'
    BY <1>m, <2>1, <2>2 DEF PlaceInv, AtEntry
  <2>4. QED BY <1>m, <2>1, <2>3, <1>f, PlacingStep DEF Labels, Placing, AtEntry, local
<1>8. CASE LinkNext(s)
  <2>1. pc[s] = "link" /\ todo[s] # {} /\ Linking(s) /\ UNCHANGED disk
    BY <1>8, <1>p DEF LinkNext, PlaceInv
  <2>2. Entry(s) \in todo[s] /\ Entry(s) \in Files(commit[s]) /\ Entry(s) \in Paths
    BY <2>1, <1>e
  <2>3. CASE /\ links[Entry(s)] = EntryObject(s)
             /\ todo' = [todo EXCEPT ![s] = @ \ {Entry(s)}]
             /\ UNCHANGED <<pc, commit, previous, stale, outcome>>
    <3>1. todo'[s] = todo[s] \ {Entry(s)} /\ links' = links
      BY <2>1, <2>3, <1>t DEF disk
    <3>2. Linking(s)'
      BY <2>1, <2>2, <2>3, <3>1 DEF Linking, EntryObject
    <3>3. PlaceInv(s)'
      BY <2>1, <2>3, <3>2 DEF PlaceInv, AtEntry
    <3>4. QED BY <2>1, <2>3, <3>1, <3>3, <1>s, <1>f, PlacingStep DEF Labels, Placing
  <2>4. CASE Moves("own")
    BY <1>m, <2>1, <2>4 DEF AtEntry
  <2>5. QED BY <1>8, <2>1, <2>3, <2>4 DEF LinkNext
<1>9. CASE LookForOwn(s)
  <2>1. pc[s] = "own" /\ todo[s] # {} /\ Linking(s)
    BY <1>9, <1>p DEF LookForOwn, PlaceInv, SyncInv, AtEntry
  <2>2. Entry(s) \in todo[s] /\ Entry(s) \in Paths
    BY <2>1, <1>e DEF AtEntry
  <2>3. links[Entry(s)] # "none" => IsLink(Entry(s)) /\ Entry(s) \in previous[s]
    BY <2>1, <2>2, <1>f DEF Linking, IsLink
  <2>4. PICK l \in {"replace", "vacant"} :
            /\ Moves(l)
            /\ l = "replace" <=> (IsLink(Entry(s)) /\ Entry(s) \in previous[s])
    BY <1>9 DEF LookForOwn
  <2>5. QED BY <1>m, <2>1, <2>3, <2>4 DEF AtEntry, IsLink
<1>10. CASE Replace(s)
  <2>1. /\ pc[s] = "replace" /\ todo[s] # {} /\ Linking(s) /\ links[Entry(s)] # "none"
    BY <1>10, <1>p DEF Replace, PlaceInv, SyncInv, AtEntry
  <2>2. Entry(s) \in todo[s] /\ Entry(s) \in Paths
    BY <2>1, <1>e DEF AtEntry
  <2>3. /\ links' = [links EXCEPT ![Entry(s)] = "none"]
        /\ Goto(s, "vacant")
        /\ UNCHANGED local
    BY <1>10, <2>1 DEF Replace, Unlink
  <2>4. links'[Entry(s)] = "none" /\ \A q \in Paths \ {Entry(s)} : links'[q] = links[q]
    BY <2>2, <2>3, <1>t
  <2>5. Linking(s)'
    BY <2>1, <2>2, <2>3, <2>4 DEF Linking, local
  <2>6. Entry(s)' = Entry(s) /\ pc'[s] = "vacant"
    BY <2>3, <1>t DEF Entry, local, Goto
  <2>7. PlaceInv(s)'
    BY <2>3, <2>4, <2>5, <2>6 DEF PlaceInv
  <2>8. \A q \in Paths : links'[q] # "foreign"
    BY <2>4, <1>f
  <2>9. QED BY <2>1, <2>3, <2>7, <2>8, PlacingStep DEF Labels, Placing, local
<1>11. CASE LookIfVacant(s)
  <2>1. pc[s] = "vacant" /\ Linking(s) /\ links[Entry(s)] = "none"
    BY <1>11, <1>p DEF LookIfVacant, PlaceInv, AtEntry
  <2>2. Moves("symlink")
    BY <1>11, <2>1 DEF LookIfVacant
  <2>3. QED BY <1>m, <2>1, <2>2 DEF AtEntry
<1>5. CASE Symlink(s)
  <2>1. pc[s] = "symlink" /\ todo[s] # {} /\ Linking(s) /\ links[Entry(s)] = "none"
    BY <1>5, <1>p DEF Symlink, PlaceInv, SyncInv, AtEntry
  <2>2. Entry(s) \in todo[s] /\ Entry(s) \in Files(commit[s]) /\ Entry(s) \in Paths
    BY <2>1, <1>e DEF AtEntry
  <2>3. /\ links' = [links EXCEPT ![Entry(s)] = EntryObject(s)]
        /\ todo' = [todo EXCEPT ![s] = @ \ {Entry(s)}]
        /\ Goto(s, "link") /\ UNCHANGED <<commit, previous, stale, outcome>>
    BY <1>5, <2>1 DEF Symlink
  <2>4. /\ links'[Entry(s)] = Manifest[commit[s]][Entry(s)]
        /\ \A q \in Paths \ {Entry(s)} : links'[q] = links[q]
        /\ todo'[s] = todo[s] \ {Entry(s)} /\ pc'[s] = "link"
    BY <2>2, <2>3, <1>t DEF EntryObject, Goto
  <2>5. Linking(s)'
    BY <2>1, <2>2, <2>3, <2>4 DEF Linking
  <2>6. \A q \in Paths : links'[q] # "foreign"
    <3>1. Manifest[commit[s]][Entry(s)] \in Objects
      BY <2>2, <1>t, ManifestType
    <3>2. QED BY <3>1, <2>4, <1>f, DatasetAssumption
  <2>7. QED BY <2>1, <2>3, <2>4, <2>5, <2>6, PlacingStep DEF PlaceInv, Labels, Placing, AtEntry
<1>6. CASE TruncateState(s)
  <2>1. pc[s] = "link" /\ todo[s] = {} /\ Linking(s)
    BY <1>6, <1>p DEF TruncateState, PlaceInv
  <2>2. Linked(commit[s])'
    BY <1>6, <2>1 DEF TruncateState, Linking, Linked, local
  <2>3. QED
    BY <1>6, <1>f, <1>t, <2>1, <2>2, PlacingStep
       DEF TruncateState, PlaceInv, Labels, Placing, AtEntry, local, Goto
<1>7. CASE WriteState(s)
  <2>1. pc[s] = "write" /\ Linked(commit[s]) /\ stateCommit = "empty"
    BY <1>7, <1>p DEF WriteState, PlaceInv
  <2>2. /\ pc' = [pc EXCEPT ![s] = "idle"] /\ outcome' = [outcome EXCEPT ![s] = "done"]
        /\ stateCommit' = commit[s] /\ managed' = Files(commit[s]) /\ UNCHANGED links
    BY <1>7, <1>t, <2>1, DatasetAssumption DEF WriteState, Written, Ends, Goto
  <2>3. \A r \in Syncs : pc'[r] = "idle"
    BY <2>1, <2>2, <1>t DEF ApartInv
  <2>4. Settled'
    BY <2>1, <2>2, <1>t DEF Settled, Linked
  <2>5. \A r \in Syncs : outcome'[r] # "refused_link"
    BY <2>2 DEF ApartInv, Inv, TypeOK
  <2>6. QED BY <2>2, <2>3, <2>4, <2>5, <1>f DEF ApartInv, PlaceInv, Placing, AtEntry
<1>12. QED
  BY <1>1, <1>2, <1>3, <1>4, <1>5, <1>6, <1>7, <1>8, <1>9, <1>10, <1>11

\* The target of runs that follow each other.
THEOREM ApartInvariance == Spec => [](apart => ApartInv)
<1>1. Inv /\ (apart => ApartInv) /\ [Next]_vars => (apart => ApartInv)'
  <2> SUFFICES ASSUME Inv, apart => ApartInv, [Next]_vars, apart' PROVE ApartInv'
    OBVIOUS
  <2>1. CASE UNCHANGED vars
    BY <2>1 DEF vars, disk, local, ApartInv, Settled, Linked, PlaceInv, Unlinking, Linking,
                Entry
  <2>2. CASE Next
    <3>1. apart /\ ApartInv
      BY <2>2 DEF Next, Work, Other
    <3>2. QED BY <2>2, <3>1, SeedApart, PlaceApart DEF Next, Work, Other
  <2>3. QED BY <2>1, <2>2
<1>2. QED BY <1>1, ApartInit, Invariance, PTL DEF Spec

\* Whatever commits and objects there are, and whichever requests failed: runs
\* that follow each other leave the tree of one commit.
THEOREM TargetAlwaysOneCommit == Spec => []TargetIsOneCommit
<1>1. (apart => ApartInv) => TargetIsOneCommit
  <2> SUFFICES ASSUME ApartInv, Resting, stateCommit \in Commits
               PROVE  Linked(stateCommit)
    BY DEF TargetIsOneCommit, Linked, IsLink
  <2>1. Settled
    BY DEF ApartInv, Resting, Placing
  <2>2. QED BY <2>1, DatasetAssumption DEF Settled
<1>2. QED BY <1>1, ApartInvariance, PTL

\* They never take a link of an earlier run for a file of the user.
THEOREM OwnLinksAlwaysAccepted == Spec => []OwnLinksAcceptedApart
<1>1. (apart => ApartInv) => OwnLinksAcceptedApart
  BY DEF ApartInv, OwnLinksAcceptedApart, OwnLinksAccepted
<1>2. QED BY <1>1, ApartInvariance, PTL

=============================================================================
