--------------------------- MODULE Activities_proofs ---------------------------
(***************************************************************************)
(* What the activities of extract_metadata return, for documents of any    *)
(* length, any selection, any lists of the model and any catalogue.        *)
(***************************************************************************)
EXTENDS DocumentText, SuggestionResolver, FiniteSetTheorems, TLAPS

-----------------------------------------------------------------------------
(***************************************************************************)
(* Members in ascending order.  The rank of a member tells it from every   *)
(* other, and there are as many members as ranks: so each rank is taken.   *)
(***************************************************************************)

LEMMA RankGrows ==
    ASSUME NEW S \in SUBSET Int, IsFiniteSet(S), NEW k \in S, NEW l \in S
    PROVE  /\ Rank(S, k) \in 1..Cardinality(S)
           /\ k < l => Rank(S, k) < Rank(S, l)
<1> DEFINE To(m) == {j \in S : j <= m}
<1>1. \A m \in S : IsFiniteSet(To(m)) /\ Cardinality(To(m)) <= Cardinality(S)
                   /\ Cardinality(To(m)) \in Nat /\ Cardinality(To(m)) # 0
  <2> SUFFICES ASSUME NEW m \in S
               PROVE  IsFiniteSet(To(m)) /\ Cardinality(To(m)) <= Cardinality(S)
                      /\ Cardinality(To(m)) \in Nat /\ Cardinality(To(m)) # 0
    OBVIOUS
  <2>1. To(m) \in SUBSET S /\ m \in To(m)
    OBVIOUS
  <2> HIDE DEF To
  <2>2. IsFiniteSet(To(m)) /\ Cardinality(To(m)) <= Cardinality(S)
    BY <2>1, FS_Subset
  <2>3. Cardinality(To(m)) \in Nat /\ Cardinality(To(m)) # 0
    BY <2>1, <2>2, FS_CardinalityType, FS_EmptySet
  <2>4. QED BY <2>2, <2>3
<1>2. Cardinality(S) \in Nat
  BY FS_CardinalityType
<1>3. ASSUME k < l PROVE Cardinality(To(k)) < Cardinality(To(l))
  <2>1. To(k) \in SUBSET To(l) /\ l \in To(l) /\ l \notin To(k)
    <3>1. k \in Int /\ l \in Int /\ \A j \in S : j \in Int
      OBVIOUS
    <3>2. \A j \in S : j <= k => j <= l
      BY <1>3, <3>1
    <3>3. l <= l /\ ~(l <= k)
      BY <1>3, <3>1
    <3>4. QED BY <3>2, <3>3
  <2> HIDE DEF To
  <2>2. IsFiniteSet(To(l)) /\ Cardinality(To(l)) \in Nat /\ Cardinality(To(k)) \in Nat
    BY <1>1
  <2>3. /\ Cardinality(To(k)) <= Cardinality(To(l))
        /\ Cardinality(To(l)) = Cardinality(To(k)) => To(l) = To(k)
    BY <2>1, <2>2, FS_Subset
  <2>4. QED BY <2>1, <2>2, <2>3
<1>4. QED BY <1>1, <1>2, <1>3 DEF Rank

LEMMA AscendingOfRank ==
    ASSUME NEW S \in SUBSET Int, IsFiniteSet(S)
    PROVE  /\ Cardinality(S) \in Nat
           /\ Ascending(S) \in [1..Cardinality(S) -> S]
           /\ \A n \in 1..Cardinality(S) : Rank(S, Ascending(S)[n]) = n
           /\ \A k \in S : Rank(S, k) \in 1..Cardinality(S) /\ Ascending(S)[Rank(S, k)] = k
           /\ \A m, n \in 1..Cardinality(S) : m < n => Ascending(S)[m] < Ascending(S)[n]
<1> DEFINE N == Cardinality(S)
           r == [k \in S |-> Rank(S, k)]
<1>1. N \in Nat
  BY FS_CardinalityType
<1>2. IsFiniteSet(1..N) /\ Cardinality(1..N) = N
  <2>1. N \in Int /\ 1 \in Int
    BY <1>1
  <2>2. IsFiniteSet(1..N) /\ Cardinality(1..N) = IF 1 > N THEN 0 ELSE N - 1 + 1
    BY <2>1, FS_Interval, Zenon
  <2>3. QED BY <1>1, <2>2
<1>3. \A k, l \in S : Rank(S, k) = Rank(S, l) => k = l
  <2> SUFFICES ASSUME NEW k \in S, NEW l \in S, Rank(S, k) = Rank(S, l) PROVE k = l
    OBVIOUS
  <2>1. Rank(S, k) \in Int /\ Rank(S, l) \in Int
    BY <1>1, RankGrows
  <2>2. ~(k < l) /\ ~(l < k)
    BY <2>1, RankGrows
  <2>3. QED BY <2>2
<1>4. r \in [S -> 1..N]
  BY RankGrows
<1>5. r \in Injection(S, 1..N)
  BY <1>3, <1>4 DEF Injection, IsInjective
<1>6. Cardinality(S) = Cardinality(1..N)
  BY <1>2
<1> HIDE DEF r, N
<1>7. r \in Surjection(S, 1..N)
  BY <1>2, <1>5, <1>6, FS_Injection
<1>8. \A n \in 1..N : \E k \in S : Rank(S, k) = n
  BY <1>7 DEF Surjection, r
<1>9. \A n \in 1..N : Ascending(S)[n] \in S /\ Rank(S, Ascending(S)[n]) = n
  BY <1>8 DEF Ascending, N
<1>10. Ascending(S) \in [1..N -> S]
  BY <1>9 DEF Ascending, N
<1>11. \A k \in S : Rank(S, k) \in 1..N /\ Ascending(S)[Rank(S, k)] = k
  BY <1>3, <1>4, <1>9 DEF r
<1>12. \A m, n \in 1..N : m < n => Ascending(S)[m] < Ascending(S)[n]
  <2> SUFFICES ASSUME NEW m \in 1..N, NEW n \in 1..N, m < n
               PROVE  Ascending(S)[m] < Ascending(S)[n]
    OBVIOUS
  <2> DEFINE a == Ascending(S)[m]
             b == Ascending(S)[n]
  <2>1. a \in S /\ b \in S /\ Rank(S, a) = m /\ Rank(S, b) = n
    BY <1>9
  <2>2. a \in Int /\ b \in Int
    BY <2>1
  <2> HIDE DEF a, b
  <2>3. b < a => Rank(S, b) < Rank(S, a)
    BY <2>1, RankGrows
  <2>4. m \in Int /\ n \in Int
    BY <1>1
  <2>5. ~(b < a) /\ a # b
    BY <2>1, <2>3, <2>4
  <2>6. QED BY <2>2, <2>5 DEF a, b
<1>13. QED BY <1>1, <1>9, <1>10, <1>11, <1>12 DEF N

LEMMA FinitePositions ==
    ASSUME NEW n \in Nat, NEW K \in SUBSET (1..n) PROVE IsFiniteSet(K) /\ K \in SUBSET Int
<1>1. 1 \in Int /\ n \in Int
  OBVIOUS
<1>2. IsFiniteSet(1..n)
  BY <1>1, FS_Interval, Zenon
<1>3. IsFiniteSet(K)
  BY <1>2, FS_Subset
<1>4. QED BY <1>1, <1>3

\* A list that is picked has as many items as there are positions.
LEMMA PickedAt ==
    ASSUME NEW s, NEW K \in SUBSET Int, IsFiniteSet(K)
    PROVE  /\ Cardinality(K) \in Nat
           /\ DOMAIN Picked(s, K) = 1..Cardinality(K)
           /\ Len(Picked(s, K)) = Cardinality(K)
           /\ (K = {}) = (Picked(s, K) = <<>>)
           /\ \A j \in 1..Cardinality(K) : \E k \in K : Picked(s, K)[j] = s[k]
           /\ \A k \in K : Rank(K, k) \in 1..Cardinality(K) /\ Picked(s, K)[Rank(K, k)] = s[k]
<1>4. /\ Cardinality(K) \in Nat
      /\ Ascending(K) \in [1..Cardinality(K) -> K]
      /\ \A k \in K : Rank(K, k) \in 1..Cardinality(K) /\ Ascending(K)[Rank(K, k)] = k
  BY AscendingOfRank
<1>5. (K = {}) = (Cardinality(K) = 0)
  BY FS_EmptySet
<1> DEFINE p == Picked(s, K)
<1>6. p = [j \in 1..Cardinality(K) |-> s[Ascending(K)[j]]]
  BY DEF Picked
<1> HIDE DEF p
<1>7. DOMAIN p = 1..Cardinality(K) /\ Len(p) = Cardinality(K)
  <2>1. p \in Seq({s[Ascending(K)[j]] : j \in 1..Cardinality(K)})
    BY <1>4, <1>6
  <2>2. QED BY <1>4, <1>6, <2>1
<1>8. (K = {}) = (p = <<>>)
  <2>1. ASSUME Cardinality(K) = 0 PROVE p = <<>>
    BY <1>6, <2>1
  <2>2. ASSUME p = <<>> PROVE Cardinality(K) = 0
    BY <1>7, <2>2
  <2>3. QED BY <1>5, <2>1, <2>2
<1>9. QED BY <1>4, <1>6, <1>7, <1>8 DEF p

-----------------------------------------------------------------------------
(***************************************************************************)
(* Pages.                                                                  *)
(***************************************************************************)

\* Enough parts of v stand on these pages, in their order.
SupportedBy(f, v, pages) ==
    \E parts \in SUBSET DOMAIN v :
        StandIn(v, parts, pages) /\ 100 * Cardinality(parts) >= Share[f] * Len(v)

\* What an extractor was given when it ran, and what the model's values became.
ExtractionInv ==
    /\ request \in Request
    /\ total \in 0..MaxPages
    /\ HasText =>
          /\ \E ps \in TextPages : text = Ascending(ps)
          /\ reported = Ascending(PageIndices(request, total))
          /\ request.all \/ ~InvalidSelection(request.pages, total)
    /\ at # "generated" => metadata = NothingFound
    /\ \A f \in Checked : metadata[f] # Unset => SupportedBy(f, metadata[f], Readable)

LEMMA NothingFoundIsUnset == \A f \in Checked : NothingFound[f] = Unset
BY DEF NothingFound

LEMMA ContainedIsSupported ==
    ASSUME NEW f \in Checked, NEW v \in Seq(Nat), Contained(v)
    PROVE  SupportedBy(f, v, Readable)
<1> DEFINE n == Len(v)
<1>1. n \in Nat /\ DOMAIN v = 1..n /\ StandIn(v, DOMAIN v, Readable)
  BY DEF Contained
<1> HIDE DEF n
<1>2. 1 \in Int /\ n \in Int /\ (1 > n => n = 0) /\ n - 1 + 1 = n
  BY <1>1
<1>3. Cardinality(1..n) = n
  BY <1>2, FS_Interval, Zenon
<1>4. Share[f] \in {80, 85, 100}
  BY DEF Share, Checked
<1>5. 100 * n >= Share[f] * n
  <2>1. 100 * n >= 80 * n /\ 100 * n >= 85 * n /\ 100 * n >= 100 * n
    BY <1>1
  <2>2. QED BY <1>4, <2>1
<1>6. QED BY <1>1, <1>3, <1>5 DEF SupportedBy, n

LEMMA KeptIsSupported ==
    ASSUME NEW f \in Checked, NEW v \in Written \cup {Unset}, NEW kept \in Kept(f, v), kept # Unset
    PROVE  SupportedBy(f, kept, Readable)
<1>1. v \in Seq(Nat)
  <2>1. CASE v \in Written
    <3> DEFINE S == 0..MaxPages
    <3>1. v \in Seq(S) /\ S \subseteq Nat
      BY <2>1, ExtractionAssumption
    <3> HIDE DEF S
    <3>2. Len(v) \in Nat /\ DOMAIN v = 1..Len(v) /\ \A i \in DOMAIN v : v[i] \in S
      BY <3>1
    <3> DEFINE n == Len(v)
    <3>3. n \in Nat /\ v = [i \in 1..n |-> v[i]] /\ \A i \in 1..n : v[i] \in Nat
      BY <3>1, <3>2
    <3> HIDE DEF n
    <3>4. v \in [1..n -> Nat]
      BY <3>3
    <3>5. QED BY <3>3, <3>4
  <2>2. CASE v = Unset
    BY <2>2 DEF Unset
  <2>3. QED BY <2>1, <2>2
<1>2. kept = v /\ (Contained(v) \/ Covered(f, v))
  BY DEF Kept
<1>3. Covered(f, v) => SupportedBy(f, v, Readable)
  BY DEF Covered, SupportedBy
<1>4. QED BY <1>1, <1>2, <1>3, ContainedIsSupported

LEMMA ExtractionInit == InitDocument => ExtractionInv
<1> SUFFICES ASSUME InitDocument PROVE ExtractionInv
  OBVIOUS
<1>1. QED BY NothingFoundIsUnset DEF InitDocument, Init, ExtractionInv, HasText

LEMMA ExtractionNext == ExtractionInv /\ [NextDocument]_document => ExtractionInv'
<1> SUFFICES ASSUME ExtractionInv, [NextDocument]_document PROVE ExtractionInv'
  OBVIOUS
<1> USE DEF ExtractionInv
<1>1. ASSUME UNCHANGED vars PROVE ExtractionInv'
  BY <1>1 DEF vars, docVars, HasText, TextPages, PageIndices, Readable
<1>2. ASSUME NEW how \in {"HostNotAllowed", "verified", "downloaded", "raised", "InvalidExtractor",
                          "InvalidPageSelection"}, Stops(how), at # "generated"
      PROVE  ExtractionInv'
  <2>1. UNCHANGED docVars /\ metadata' = NothingFound /\ ~HasText'
    BY <1>2 DEF Stops, HasText
  <2>2. QED BY <2>1, <1>2, NothingFoundIsUnset DEF docVars, Stops
<1>3. CASE CheckHost \/ Download \/ Unreadable \/ Refused \/ ModelFails
  BY <1>2, <1>3 DEF CheckHost, Download, Unreadable, Refused, ModelFails
<1>4. CASE Extract
  <2>1. UNCHANGED docVars /\ metadata' = NothingFound /\ at' = "extracted"
    BY <1>4 DEF Extract
  <2>2. /\ \E ps \in TextPages : text' = Ascending(ps)
        /\ reported' = Ascending(PageIndices(request, total))
        /\ request.all \/ ~InvalidSelection(request.pages, total)
    BY <1>4 DEF Extract
  <2>3. TextPages' = TextPages /\ PageIndices(request, total)' = PageIndices(request, total)
        /\ request' = request /\ total' = total
    BY <2>1 DEF docVars, TextPages, PageIndices
  <2>4. QED BY <2>1, <2>2, <2>3, NothingFoundIsUnset DEF HasText
<1>5. ASSUME UNCHANGED <<docVars, text, reported>>, at = "extracted", at' = "generated",
             \A f \in Checked : metadata'[f] # Unset => SupportedBy(f, metadata'[f], Readable)
      PROVE  ExtractionInv'
  <2>1. TextPages' = TextPages /\ PageIndices(request, total)' = PageIndices(request, total)
        /\ request' = request /\ total' = total /\ Readable' = Readable
    BY <1>5 DEF docVars, TextPages, PageIndices, Readable
  <2>2. QED BY <1>5, <2>1 DEF HasText
<1>6. CASE TooShort
  BY <1>5, <1>6, NothingFoundIsUnset DEF TooShort
<1>7. CASE Generate
  <2>1. PICK output \in Answers :
            metadata' \in [title : Kept("title", output["title"]),
                          description : Kept("description", output["description"]),
                          doi : Kept("doi", output["doi"])]
    BY <1>7 DEF Generate
  <2>2. \A f \in Checked : metadata'[f] \in Kept(f, output[f])
    BY <2>1 DEF Checked
  <2>3. \A f \in Checked : output[f] \in Written \cup {Unset}
    BY DEF Answers
  <2>4. \A f \in Checked : metadata'[f] # Unset => SupportedBy(f, metadata'[f], Readable)
    BY <2>2, <2>3, KeptIsSupported
  <2>5. QED BY <1>5, <1>7, <2>4 DEF Generate
<1>8. QED
  BY <1>1, <1>3, <1>4, <1>6, <1>7
  DEF NextDocument, document, DownloadDocument, FailsToOpen, OpenPages, InlineOrcids,
      ExtractDocument, OtherSteps, Resting

\* The invariant of the extraction: text and report are the pages in ascending
\* order, and enough of what is kept of a checked field stands in the text.
THEOREM ExtractionInvariant == SpecDocument => []ExtractionInv
<1>1. InitDocument => ExtractionInv  BY ExtractionInit
<1>2. ExtractionInv /\ [NextDocument]_document => ExtractionInv'  BY ExtractionNext
<1>3. QED BY <1>1, <1>2, PTL DEF SpecDocument

\* A selection without a zero means the pages its numbers count to.
LEMMA ResolvedAsRequested ==
    ASSUME NEW sel \in Seq(Int), NEW n \in Nat, ~InvalidSelection(sel, n)
    PROVE  ResolvePages(sel, n) = Requested(sel, n)
<1>1. \A i \in DOMAIN sel : sel[i] \in Int /\ sel[i] # 0
  BY DEF InvalidSelection
<1>2. \A p \in Int : p # 0 /\ ~OutOfRange(p, n) =>
         PageOf(p, n) \in 1..n /\ (p = PageOf(p, n) \/ p = PageOf(p, n) - n - 1)
  BY DEF OutOfRange, PageOf
<1>3. \A p \in Int, q \in 1..n : p # 0 /\ (p = q \/ p = q - n - 1) =>
         ~OutOfRange(p, n) /\ PageOf(p, n) = q
  BY DEF OutOfRange, PageOf
<1>4. ResolvePages(sel, n) \subseteq Requested(sel, n)
  <2> SUFFICES ASSUME NEW i \in DOMAIN sel, ~OutOfRange(sel[i], n)
               PROVE  PageOf(sel[i], n) \in Requested(sel, n)
    BY DEF ResolvePages
  <2>1. QED BY <1>1, <1>2 DEF Requested
<1>5. Requested(sel, n) \subseteq ResolvePages(sel, n)
  <2> SUFFICES ASSUME NEW q \in 1..n, NEW i \in DOMAIN sel, sel[i] = q \/ sel[i] = q - n - 1
               PROVE  q \in ResolvePages(sel, n)
    BY DEF Requested
  <2>1. QED BY <1>1, <1>3 DEF ResolvePages
<1>6. QED BY <1>4, <1>5

\* The text has each of its pages once and in ascending order.
LEMMA AscendingPages ==
    ASSUME NEW n \in Nat, NEW S \in SUBSET (1..n)
    PROVE  /\ Range(Ascending(S)) = S
           /\ Len(Ascending(S)) = Cardinality(S)
           /\ \A i, j \in DOMAIN Ascending(S) : i < j => Ascending(S)[i] < Ascending(S)[j]
<1>1. 1 \in Int /\ n \in Int /\ S \in SUBSET Int
  OBVIOUS
<1>2. IsFiniteSet(1..n)
  BY <1>1, FS_Interval, Zenon
<1>3. IsFiniteSet(S)
  BY <1>2, FS_Subset
<1>4. /\ Cardinality(S) \in Nat
      /\ Ascending(S) \in [1..Cardinality(S) -> S]
      /\ \A k \in S : Rank(S, k) \in 1..Cardinality(S) /\ Ascending(S)[Rank(S, k)] = k
      /\ \A i, j \in 1..Cardinality(S) : i < j => Ascending(S)[i] < Ascending(S)[j]
  BY <1>1, <1>3, AscendingOfRank
<1>5. DOMAIN Ascending(S) = 1..Cardinality(S)
  BY <1>4
<1>6. Ascending(S) \in Seq(S)
  BY <1>4
<1>7. Len(Ascending(S)) = Cardinality(S)
  BY <1>4, <1>5, <1>6
<1>8. Range(Ascending(S)) = S
  BY <1>4, <1>5 DEF Range
<1>9. QED BY <1>4, <1>5, <1>7, <1>8

\* Where some page of the document was selected, those pages are the text.
LEMMA TextOfSelection ==
    ASSUME ExtractionInv, HasText, ~request.all, Requested(request.pages, total) # {}
    PROVE  /\ text = Ascending(Requested(request.pages, total))
           /\ reported = text
           /\ total \in Nat /\ Requested(request.pages, total) \in SUBSET (1..total)
<1>1. total \in Nat /\ request.pages \in Seq(Int)
  BY ExtractionAssumption DEF ExtractionInv, Request
<1>2. ~InvalidSelection(request.pages, total)
  BY DEF ExtractionInv
<1>3. ResolvePages(request.pages, total) = Requested(request.pages, total)
  BY <1>1, <1>2, ResolvedAsRequested
<1>4. PageIndices(request, total) = Requested(request.pages, total)
      /\ TextPages = {Requested(request.pages, total)}
  BY <1>3 DEF PageIndices, TextPages
<1>5. QED BY <1>1, <1>4 DEF ExtractionInv, Requested

\* A selection is honoured, for documents of any length.
THEOREM SelectionAlwaysHonoured == SpecDocument => []SelectionHonoured
<1>1. ExtractionInv => SelectionHonoured
  BY TextOfSelection, AscendingPages DEF SelectionHonoured
<1>2. QED BY <1>1, ExtractionInvariant, PTL

\* The pages of the text were asked for.
LEMMA TextIsAskedFor ==
    ASSUME ExtractionInv, HasText
    PROVE  Range(text) \subseteq AskedFor
<1>1. total \in Nat /\ request.pages \in Seq(Int)
  BY ExtractionAssumption DEF ExtractionInv, Request
<1>2. CASE request.all \/ Requested(request.pages, total) = {}
  <2>1. ~request.all => ResolvePages(request.pages, total) = {}
    BY <1>1, <1>2, ResolvedAsRequested DEF ExtractionInv
  <2>2. PICK ps \in SUBSET (1..total) : text = Ascending(ps)
    BY <1>2, <2>1 DEF ExtractionInv, TextPages, PageIndices
  <2>3. Range(text) = ps
    BY <1>1, <2>2, AscendingPages
  <2>4. QED BY <1>2, <2>2, <2>3 DEF AskedFor
<1>3. CASE ~request.all /\ Requested(request.pages, total) # {}
  BY <1>3, TextOfSelection, AscendingPages DEF AskedFor
<1>4. QED BY <1>2, <1>3

\* Of a checked field that is kept, the share its threshold asks for stands on
\* pages that were asked for, in their order, whatever the model answers.
THEOREM NothingEverInvented == SpecDocument => []NothingInvented
<1>1. ExtractionInv => NothingInvented
  <2> SUFFICES ASSUME ExtractionInv, NEW f \in Checked, metadata[f] # Unset
               PROVE  SupportedBy(f, metadata[f], AskedFor \ blank)
    BY DEF NothingInvented, SupportedBy
  <2>1. HasText
    BY NothingFoundIsUnset DEF ExtractionInv, HasText
  <2>2. Readable \subseteq AskedFor \ blank
    BY <2>1, TextIsAskedFor DEF Readable
  <2>3. SupportedBy(f, metadata[f], Readable)
    BY DEF ExtractionInv
  <2>4. QED BY <2>2, <2>3 DEF SupportedBy, StandIn
<1>2. QED BY <1>1, ExtractionInvariant, PTL

-----------------------------------------------------------------------------
(***************************************************************************)
(* Splicing.                                                               *)
(***************************************************************************)

\* How many words s has up to its q-th token.
WordsUpTo(s, q) == Cardinality({r \in 1..q : s[r] \in Names})

\* Where s has the ORCID o.
With(s, o) == {q \in DOMAIN s : s[q] = o}

\* s is the text of the page up to word n, with the ORCIDs of the edits js, each
\* right behind its word.
SplicedTo(s, n, js) ==
    /\ s \in Seq(Names \cup Orcids)
    /\ WordsUpTo(s, Len(s)) = n
    /\ \A q \in DOMAIN s : s[q] \in Names => s[q] = tokens[WordsUpTo(s, q)]
    /\ \A o \in Orcids : Cardinality(With(s, o)) = Cardinality({j \in js : edits[j].orcid = o})
    /\ \A j \in js : \E q \in DOMAIN s :
           s[q] = edits[j].orcid /\ WordsUpTo(s, q) = edits[j].at

\* The icons that were looked at and have a word to their left that the text has.
Anchored(n) == {i \in Icons : i <= n /\ Candidates(annots[i]) # {}
                                     /\ Occurrences(Anchor(annots[i])) # {}}

EditOf(i) == [at |-> CHOOSE n \in Occurrences(Anchor(annots[i])) : TRUE,
              orcid |-> annots[i].orcid]

PageInv ==
    /\ words \in Seq(Word) /\ tokens \in Seq(Names) /\ annots \in Seq(Annot)
    /\ looked \in 0..Len(annots)
    /\ edits \in Seq([at : DOMAIN tokens, orcid : Orcids])

\* Each icon has left its edit, and no other was made.
EditsInv ==
    /\ \A i \in Anchored(looked) : \E j \in DOMAIN edits : edits[j] = EditOf(i)
    /\ \A o \in Orcids : Cardinality({j \in DOMAIN edits : edits[j].orcid = o})
                             = Cardinality({i \in Anchored(looked) : annots[i].orcid = o})

TextInv ==
    /\ placed \subseteq DOMAIN edits
    /\ prev \in 0..Len(tokens)
    /\ \A j \in Unplaced : prev <= edits[j].at
    /\ SplicedTo(spliced, prev, placed)

SplicingInv ==
    /\ PageInv
    /\ EditsInv
    /\ TextInv
    /\ looked < Len(annots) => placed = {} /\ prev = 0 /\ spliced = <<>>
    /\ inlining => at = "downloaded"
    /\ at \in {"requested", "verified"} => words = <<>> /\ tokens = <<>> /\ annots = <<>> /\ Unspliced
    /\ HasText /\ request.extractor = "pdfplumber" => Done

LEMMA PageFacts ==
    ASSUME PageInv
    PROVE  /\ Len(words) \in Nat /\ DOMAIN words = 1..Len(words)
           /\ \A k \in DOMAIN words : words[k] \in Word /\ words[k].text \in Names
           /\ Len(tokens) \in Nat /\ DOMAIN tokens = 1..Len(tokens)
           /\ \A n \in DOMAIN tokens : tokens[n] \in Names
           /\ DOMAIN WordTexts(words) = 1..Len(words)
           /\ \A k \in DOMAIN words : WordTexts(words)[k] = words[k].text
<1>1. words \in Seq(Word) /\ tokens \in Seq(Names)
  BY DEF PageInv
<1>2. Len(words) \in Nat /\ DOMAIN words = 1..Len(words)
      /\ \A k \in DOMAIN words : words[k] \in Word
  BY <1>1
<1>3. \A k \in DOMAIN words : words[k].text \in Names
  BY <1>2 DEF Word
<1>4. QED BY <1>1, <1>2, <1>3 DEF WordTexts

\* The equal ones before position m of a sequence.
EqualBefore(seq, w, m) == {l \in 1..(m - 1) : seq[l] = w}

LEMMA TokenCounts ==
    ASSUME NEW n, NEW k
    PROVE  IsToken(n, k) <=>
               /\ tokens[n] = words[k].text
               /\ Cardinality(EqualBefore(tokens, words[k].text, n))
                      = Cardinality(EqualBefore(WordTexts(words), words[k].text, k))
BY DEF IsToken, EqualBefore

LEMMA EqualBeforeIsFinite ==
    ASSUME NEW seq, NEW w, NEW m \in Nat \ {0}
    PROVE  IsFiniteSet(EqualBefore(seq, w, m))
<1>1. m - 1 \in Nat /\ EqualBefore(seq, w, m) \in SUBSET (1..(m - 1))
  BY DEF EqualBefore
<1>2. QED BY <1>1, FinitePositions

\* Where the text is that of the words, counting equal ones finds the word.
LEMMA OccurrenceIsWord ==
    ASSUME PageInv, tokens = WordTexts(words), NEW k \in DOMAIN words
    PROVE  Occurrences(k) = {k}
<1> DEFINE w == words[k].text
           E(m) == EqualBefore(tokens, w, m)
<1>1. /\ Len(words) \in Nat /\ k \in 1..Len(words) /\ DOMAIN tokens = 1..Len(words)
      /\ tokens[k] = w
  BY PageFacts
<1>2. \A m \in 1..Len(words) : IsFiniteSet(E(m))
  BY <1>1, EqualBeforeIsFinite
<1>3. ASSUME NEW m \in 1..Len(words), NEW n \in 1..Len(words), m < n, tokens[m] = w
      PROVE  Cardinality(E(m)) # Cardinality(E(n))
  <2>1. E(m) \in SUBSET E(n) /\ m \in E(n) /\ m \notin E(m)
    BY <1>3 DEF EqualBefore
  <2>2. IsFiniteSet(E(n))
    BY <1>2
  <2> HIDE DEF E
  <2>3. Cardinality(E(n)) = Cardinality(E(m)) => E(n) = E(m)
    BY <2>1, <2>2, FS_Subset
  <2>4. QED BY <2>1, <2>3
<1>4. \A n : IsToken(n, k) <=> tokens[n] = w /\ Cardinality(E(n)) = Cardinality(E(k))
  BY TokenCounts
<1> HIDE DEF E, w
<1>5. IsToken(k, k)
  BY <1>1, <1>4
<1>6. ASSUME NEW n \in DOMAIN tokens, IsToken(n, k) PROVE n = k
  <2>1. n \in 1..Len(words) /\ tokens[n] = w /\ Cardinality(E(n)) = Cardinality(E(k))
    BY <1>1, <1>4, <1>6
  <2>2. ~(n < k) /\ ~(k < n)
    BY <1>1, <1>3, <2>1
  <2>3. n \in Int /\ k \in Int
    BY <1>1, <2>1
  <2>4. QED BY <2>2, <2>3
<1>7. QED BY <1>1, <1>5, <1>6 DEF Occurrences

\* A text that has every word as often as the page has the one looked for.
LEMMA TextHasOccurrence ==
    ASSUME PageInv, TextHasWords, NEW k \in DOMAIN words
    PROVE  Occurrences(k) # {}
<1> DEFINE w == words[k].text
           B == EqualBefore(WordTexts(words), w, k)
           W == {l \in DOMAIN words : words[l].text = w}
           P == {n \in DOMAIN tokens : tokens[n] = w}
           a == Ascending(P)
           c == Cardinality(B)
<1>1. /\ Len(words) \in Nat /\ DOMAIN words = 1..Len(words) /\ k \in 1..Len(words)
      /\ Len(tokens) \in Nat /\ DOMAIN tokens = 1..Len(tokens) /\ w \in Names
      /\ \A l \in 1..Len(words) : WordTexts(words)[l] = words[l].text
  BY PageFacts
<1>2. W \in SUBSET (1..Len(words)) /\ P \in SUBSET (1..Len(tokens)) /\ P \in SUBSET Int
  BY <1>1
<1>3. IsFiniteSet(W) /\ IsFiniteSet(P)
  BY <1>1, <1>2, FinitePositions
<1>4. B \in SUBSET W /\ k \in W /\ k \notin B
  <2>1. \A l \in 1..(k - 1) : l \in 1..Len(words) /\ l # k
    BY <1>1
  <2>2. QED BY <1>1, <2>1 DEF EqualBefore
<1>5. IsFiniteSet(B)
  BY <1>3, <1>4, FS_Subset
<1>6. Cardinality(W) <= Cardinality(P)
  BY <1>1 DEF TextHasWords
<1>7. c \in Nat /\ c < Cardinality(W) /\ Cardinality(W) \in Nat /\ Cardinality(P) \in Nat
  <2> HIDE DEF B, W, P
  <2>1. Cardinality(B) <= Cardinality(W) /\ (Cardinality(W) = Cardinality(B) => W = B)
    BY <1>3, <1>4, FS_Subset
  <2>2. Cardinality(W) \in Nat /\ Cardinality(B) \in Nat /\ Cardinality(P) \in Nat
    BY <1>3, <1>5, FS_CardinalityType
  <2>3. QED BY <1>4, <2>1, <2>2
<1>8. \A p \in P : p \in 1..Len(tokens) /\ tokens[p] = w
  BY <1>1
<1>9. \A n \in P : EqualBefore(tokens, w, n) = {l \in P : l <= n} \ {n}
  <2> SUFFICES ASSUME NEW n \in P
               PROVE  EqualBefore(tokens, w, n) = {l \in P : l <= n} \ {n}
    OBVIOUS
  <2>1. n \in 1..Len(tokens)
    BY <1>8
  <2>2. \A l \in 1..(n - 1) : l \in 1..Len(tokens) /\ l <= n /\ l # n
    BY <1>1, <2>1
  <2>3. \A l \in 1..Len(tokens) : l <= n /\ l # n => l \in 1..(n - 1)
    BY <1>1, <2>1
  <2>4. QED BY <1>1, <2>2, <2>3 DEF EqualBefore
<1> HIDE DEF w, B, W, P, c
<1>10. a \in [1..Cardinality(P) -> P] /\ \A m \in 1..Cardinality(P) : Rank(P, a[m]) = m
  BY <1>2, <1>3, AscendingOfRank
<1> HIDE DEF a
<1>11. c + 1 \in 1..Cardinality(P)
  BY <1>6, <1>7
<1> DEFINE n == a[c + 1]
<1>12. n \in P /\ Rank(P, n) = c + 1
  BY <1>10, <1>11
<1> HIDE DEF n
<1>13. Cardinality(EqualBefore(tokens, w, n)) = c
  <2> DEFINE U == {l \in P : l <= n}
             E == EqualBefore(tokens, w, n)
  <2>1. U \in SUBSET P /\ n \in U
    BY <1>2, <1>12
  <2>2. IsFiniteSet(U) /\ Cardinality(U) = c + 1
    <3>1. IsFiniteSet(U)
      BY <1>3, <2>1, FS_Subset
    <3>2. QED BY <1>12, <3>1 DEF Rank
  <2>3. E = U \ {n}
    BY <1>9, <1>12
  <2> HIDE DEF U, E
  <2>4. Cardinality(U \ {n}) = Cardinality(U) - 1
    BY <2>1, <2>2, FS_RemoveElement
  <2>5. Cardinality(E) = c
    BY <1>7, <2>2, <2>3, <2>4
  <2>6. QED BY <2>5 DEF E
<1>14. IsToken(n, k)
  BY <1>8, <1>12, <1>13, TokenCounts DEF w, B, c
<1>15. n \in DOMAIN tokens
  BY <1>1, <1>8, <1>12
<1>16. QED BY <1>14, <1>15 DEF Occurrences

\* A finite set of numbers has a greatest and a least one.
LEMMA GreatestAndLeast ==
    ASSUME NEW S \in SUBSET Int, IsFiniteSet(S), S # {}
    PROVE  /\ \E x \in S : \A y \in S : y <= x
           /\ \E x \in S : \A y \in S : x <= y
<1> DEFINE N == Cardinality(S)
           a == Ascending(S)
<1>1. /\ N \in Nat /\ a \in [1..N -> S]
      /\ \A k \in S : Rank(S, k) \in 1..N /\ a[Rank(S, k)] = k
      /\ \A m, n \in 1..N : m < n => a[m] < a[n]
  BY AscendingOfRank
<1>2. N # 0
  BY FS_EmptySet
<1> HIDE DEF N, a
<1>3. 1 \in 1..N /\ N \in 1..N
  BY <1>1, <1>2
<1>4. \A m \in 1..N : a[m] \in Int
  BY <1>1
<1>5. \A y \in S : y <= a[N] /\ a[1] <= y
  <2> SUFFICES ASSUME NEW y \in S PROVE y <= a[N] /\ a[1] <= y
    OBVIOUS
  <2>1. PICK m \in 1..N : a[m] = y
    BY <1>1
  <2>2. (m < N \/ m = N) /\ (1 < m \/ m = 1)
    BY <1>1
  <2>3. (m < N => a[m] < a[N]) /\ (1 < m => a[1] < a[m])
    BY <1>1, <1>3
  <2>4. QED BY <1>3, <1>4, <2>1, <2>2, <2>3
<1>6. QED BY <1>1, <1>3, <1>5

\* The anchor of an icon is one of its candidates.
LEMMA AnchorIsCandidate ==
    ASSUME PageInv, NEW a \in Annot, Candidates(a) # {}
    PROVE  Anchor(a) \in Candidates(a)
<1> DEFINE C == Candidates(a)
           f == [k \in C |-> words[k].x1]
           X == {words[k].x1 : k \in C}
           K(x) == {k \in C : words[k].x1 = x}
<1>1. C \in SUBSET (1..Len(words)) /\ Len(words) \in Nat /\ \A k \in C : words[k] \in Word
  BY PageFacts DEF Candidates
<1>2. IsFiniteSet(C) /\ C \in SUBSET Int
  BY <1>1, FinitePositions
<1>3. \A k \in C : words[k].x1 \in Int
  BY <1>1, SplicingAssumption DEF Word
<1> HIDE DEF C
<1>4. f \in Surjection(C, X)
  BY DEF Surjection
<1>5. IsFiniteSet(X)
  BY <1>2, <1>4, FS_Surjection
<1>6. X \in SUBSET Int /\ X # {}
  BY <1>3 DEF C
<1>7. PICK x \in X : \A y \in X : y <= x
  BY <1>5, <1>6, GreatestAndLeast
<1>8. K(x) \in SUBSET C /\ K(x) \in SUBSET Int /\ K(x) # {}
  BY <1>2, <1>7
<1>9. IsFiniteSet(K(x))
  BY <1>2, <1>8, FS_Subset
<1>10. PICK k \in K(x) : \A l \in K(x) : k <= l
  <2> HIDE DEF K
  <2>1. QED BY <1>8, <1>9, GreatestAndLeast
<1>11. \A l \in C : words[l].x1 < words[k].x1 \/ (words[l].x1 = words[k].x1 /\ k <= l)
  <2> SUFFICES ASSUME NEW l \in C, words[l].x1 # words[k].x1 PROVE words[l].x1 < words[k].x1
    <3>1. \A l \in C : words[l].x1 = words[k].x1 => k <= l
      BY <1>10
    <3>2. QED BY <3>1
  <2>1. words[l].x1 <= x /\ words[k].x1 = x
    BY <1>7, <1>10
  <2>2. QED BY <1>3, <1>10, <2>1
<1>12. k \in C
  BY <1>10
<1>13. QED BY <1>11, <1>12 DEF Anchor, C

LEMMA SplicedNothing == SplicedTo(<<>>, 0, {})
<1>1. WordsUpTo(<<>>, 0) = 0
  <2>1. {r \in 1..0 : <<>>[r] \in Names} = {}
    OBVIOUS
  <2>2. QED BY <2>1, FS_EmptySet DEF WordsUpTo
<1>2. \A o : With(<<>>, o) = {} /\ {j \in {} : edits[j].orcid = o} = {}
  BY DEF With
<1>3. <<>> \in Seq(Names \cup Orcids) /\ Len(<<>>) = 0 /\ DOMAIN <<>> = {}
  OBVIOUS
<1>4. WordsUpTo(<<>>, Len(<<>>)) = 0
  BY <1>1, <1>3
<1>5. \A o \in Orcids : Cardinality(With(<<>>, o)) = Cardinality({j \in {} : edits[j].orcid = o})
  BY <1>2
<1>6. QED BY <1>3, <1>4, <1>5 DEF SplicedTo

\* What a longer text has of words and of an ORCID, up to the shorter one.
LEMMA LongerText ==
    ASSUME NEW s \in Seq(Names \cup Orcids), NEW t \in Seq(Names \cup Orcids)
    PROVE  /\ s \o t \in Seq(Names \cup Orcids)
           /\ Len(s) \in Nat /\ Len(t) \in Nat /\ Len(s \o t) = Len(s) + Len(t)
           /\ DOMAIN s = 1..Len(s) /\ DOMAIN (s \o t) = 1..(Len(s) + Len(t))
           /\ \A q \in 1..Len(s) : (s \o t)[q] = s[q] /\ WordsUpTo(s \o t, q) = WordsUpTo(s, q)
           /\ \A j \in 1..Len(t) : (s \o t)[Len(s) + j] = t[j]
           /\ \A q \in 0..Len(s) : WordsUpTo(s, q) \in Nat
           /\ \A o : IsFiniteSet(With(s, o))
<1> DEFINE u == s \o t
<1>1. /\ u \in Seq(Names \cup Orcids)
      /\ Len(s) \in Nat /\ Len(t) \in Nat /\ Len(u) = Len(s) + Len(t)
      /\ DOMAIN s = 1..Len(s) /\ DOMAIN u = 1..(Len(s) + Len(t))
      /\ \A q \in 1..Len(s) : u[q] = s[q]
      /\ \A j \in 1..Len(t) : u[Len(s) + j] = t[j]
  OBVIOUS
<1> HIDE DEF u
<1>2. ASSUME NEW q \in 1..Len(s) PROVE WordsUpTo(u, q) = WordsUpTo(s, q)
  <2>1. \A r \in 1..q : u[r] = s[r]
    BY <1>1
  <2>2. {r \in 1..q : u[r] \in Names} = {r \in 1..q : s[r] \in Names}
    BY <2>1
  <2>3. QED BY <2>2 DEF WordsUpTo
<1>3. ASSUME NEW q \in 0..Len(s) PROVE WordsUpTo(s, q) \in Nat
  <2>1. {r \in 1..q : s[r] \in Names} \in SUBSET (1..q) /\ q \in Nat
    BY <1>1
  <2>2. IsFiniteSet({r \in 1..q : s[r] \in Names})
    BY <2>1, FinitePositions
  <2>3. QED BY <2>2, FS_CardinalityType DEF WordsUpTo
<1>4. ASSUME NEW o PROVE IsFiniteSet(With(s, o))
  <2>1. With(s, o) \in SUBSET (1..Len(s))
    BY <1>1 DEF With
  <2>2. QED BY <1>1, <2>1, FinitePositions
<1>5. QED BY <1>1, <1>2, <1>3, <1>4 DEF u

\* Copying the words up to another one.
LEMMA CopyWords ==
    ASSUME PageInv, NEW s, NEW n \in 0..Len(tokens), NEW js, SplicedTo(s, n, js),
           NEW to \in n..Len(tokens)
    PROVE  SplicedTo(s \o SubSeq(tokens, n + 1, to), to, js)
<1> DEFINE t == SubSeq(tokens, n + 1, to)
           u == s \o t
           L == Len(s)
<1>1. /\ n \in Nat /\ to \in Nat /\ n <= to
      /\ tokens \in Seq(Names) /\ Len(tokens) \in Nat
      /\ \A k \in 1..Len(tokens) : tokens[k] \in Names
  <2>1. tokens \in Seq(Names)
    BY DEF PageInv
  <2>2. QED BY <2>1
<1>2. /\ t \in Seq(Names) /\ Len(t) = to - n
      /\ \A j \in 1..(to - n) : t[j] = tokens[n + j]
  BY <1>1
<1>3. s \in Seq(Names \cup Orcids) /\ WordsUpTo(s, L) = n
  BY DEF SplicedTo
<1>4. t \in Seq(Names \cup Orcids)
  BY <1>2
<1> HIDE DEF t, u
<1>5. /\ u \in Seq(Names \cup Orcids)
      /\ L \in Nat /\ Len(u) = L + (to - n)
      /\ DOMAIN s = 1..L /\ DOMAIN u = 1..(L + (to - n))
      /\ \A q \in 1..L : u[q] = s[q] /\ WordsUpTo(u, q) = WordsUpTo(s, q)
      /\ \A j \in 1..(to - n) : u[L + j] = t[j]
      /\ \A o : IsFiniteSet(With(s, o))
  BY <1>2, <1>3, <1>4, LongerText DEF u
<1>6. \A j \in 1..(to - n) : u[L + j] = tokens[n + j] /\ u[L + j] \in Names
  <2> SUFFICES ASSUME NEW j \in 1..(to - n)
               PROVE  u[L + j] = tokens[n + j] /\ u[L + j] \in Names
    OBVIOUS
  <2>1. n + j \in 1..Len(tokens)
    BY <1>1
  <2>2. QED BY <1>1, <1>2, <1>5, <2>1
<1>7. ASSUME NEW j \in 0..(to - n) PROVE WordsUpTo(u, L + j) = n + j
  <2> DEFINE A == {r \in 1..L : s[r] \in Names}
             B == (L + 1)..(L + j)
  <2>1. {r \in 1..(L + j) : u[r] \in Names} = A \cup B
    <3>1. j \in Nat /\ j <= to - n
      BY <1>1
    <3>2. \A r \in 1..L : r \in 1..(L + j) /\ (u[r] \in Names <=> s[r] \in Names)
      BY <1>5, <3>1
    <3>3. \A r \in B : r \in 1..(L + j) /\ u[r] \in Names
      <4> SUFFICES ASSUME NEW r \in B PROVE r \in 1..(L + j) /\ u[r] \in Names
        OBVIOUS
      <4>1. r - L \in 1..(to - n) /\ L + (r - L) = r /\ r \in 1..(L + j)
        BY <1>1, <1>5, <3>1
      <4>2. u[L + (r - L)] \in Names
        BY <1>6, <4>1
      <4>3. QED BY <4>1, <4>2
    <3>4. \A r \in 1..(L + j) : r \in 1..L \/ r \in B
      BY <1>5, <3>1
    <3>5. QED BY <3>2, <3>3, <3>4
  <2>2. A \in SUBSET (1..L)
    OBVIOUS
  <2>3. IsFiniteSet(A)
    BY <1>5, <2>2, FinitePositions
  <2>4. IsFiniteSet(B) /\ Cardinality(B) = j
    <3>1. j \in Nat /\ L + 1 \in Int /\ L + j \in Int
      BY <1>1, <1>5
    <3> DEFINE a == L + 1
               b == L + j
    <3>2. a \in Int /\ b \in Int /\ (a > b => j = 0) /\ (~(a > b) => b - a + 1 = j)
      BY <1>5, <3>1
    <3> HIDE DEF a, b
    <3>3. IsFiniteSet(a..b) /\ Cardinality(a..b) = IF a > b THEN 0 ELSE b - a + 1
      BY <3>2, FS_Interval, Zenon
    <3>4. IsFiniteSet(a..b) /\ Cardinality(a..b) = j
      BY <3>2, <3>3
    <3>5. QED BY <3>4 DEF a, b
  <2>5. A \cap B = {}
    BY <1>5
  <2>6. Cardinality(A) = n
    BY <1>3 DEF WordsUpTo
  <2> HIDE DEF A, B
  <2>7. Cardinality(A \cup B) = Cardinality(A) + Cardinality(B) - Cardinality(A \cap B)
    BY <2>3, <2>4, FS_Union
  <2>8. Cardinality(A \cup B) = n + j
    <3>1. Cardinality(A \cap B) = 0
      BY <2>5, FS_EmptySet
    <3>2. n \in Int /\ j \in Int
      BY <1>1
    <3>3. QED BY <2>4, <2>6, <2>7, <3>1, <3>2
  <2>9. QED BY <2>1, <2>8 DEF WordsUpTo
<1>8. WordsUpTo(u, Len(u)) = to
  <2>1. to - n \in 0..(to - n) /\ n + (to - n) = to
    BY <1>1
  <2>2. WordsUpTo(u, L + (to - n)) = n + (to - n)
    BY <1>7, <2>1
  <2>3. QED BY <1>5, <2>1, <2>2
<1>9. ASSUME NEW q \in DOMAIN u, u[q] \in Names PROVE u[q] = tokens[WordsUpTo(u, q)]
  <2>1. CASE q \in 1..L
    BY <1>5, <1>9, <2>1 DEF SplicedTo
  <2>2. CASE q \notin 1..L
    <3> DEFINE j == q - L
    <3>1. j \in 1..(to - n) /\ j \in 0..(to - n) /\ L + j = q
      BY <1>1, <1>5, <2>2
    <3> HIDE DEF j
    <3>2. u[L + j] = tokens[n + j] /\ WordsUpTo(u, L + j) = n + j
      BY <1>6, <1>7, <3>1
    <3>3. QED BY <3>1, <3>2
  <2>3. QED BY <2>1, <2>2
<1>10. ASSUME NEW o \in Orcids PROVE With(u, o) = With(s, o)
  <2>1. o \notin Names
    BY SplicingAssumption
  <2>2. ASSUME NEW q \in DOMAIN u, u[q] = o PROVE q \in 1..L
    <3> SUFFICES ASSUME q \notin 1..L PROVE FALSE
      OBVIOUS
    <3>1. q - L \in 1..(to - n) /\ L + (q - L) = q
      BY <1>1, <1>5
    <3>2. u[L + (q - L)] \in Names
      BY <1>6, <3>1
    <3>3. QED BY <2>1, <2>2, <3>1, <3>2
  <2>3. \A q \in 1..L : q \in DOMAIN u /\ u[q] = s[q]
    BY <1>1, <1>5
  <2>4. QED BY <1>5, <2>2, <2>3 DEF With
<1>11. ASSUME NEW j \in js
       PROVE  \E q \in DOMAIN u : u[q] = edits[j].orcid /\ WordsUpTo(u, q) = edits[j].at
  <2>1. PICK q \in 1..L : s[q] = edits[j].orcid /\ WordsUpTo(s, q) = edits[j].at
    BY <1>5 DEF SplicedTo
  <2>2. q \in DOMAIN u
    BY <1>1, <1>5
  <2>3. QED BY <1>5, <2>1, <2>2
<1>12. SplicedTo(u, to, js)
  BY <1>5, <1>8, <1>9, <1>10, <1>11 DEF SplicedTo
<1>13. QED BY <1>12 DEF u, t

\* Putting the ORCID of an edit behind the word it is for.
LEMMA PutOrcid ==
    ASSUME PageInv, NEW s, NEW js, js \subseteq DOMAIN edits, NEW i \in DOMAIN edits, i \notin js,
           SplicedTo(s, edits[i].at, js)
    PROVE  SplicedTo(s \o <<edits[i].orcid>>, edits[i].at, js \cup {i})
<1> DEFINE c == edits[i].orcid
           u == s \o <<c>>
           L == Len(s)
           n == edits[i].at
<1>1. c \in Orcids /\ c \notin Names
  <2> DEFINE T == [at : DOMAIN tokens, orcid : Orcids]
  <2>1. edits \in Seq(T)
    BY DEF PageInv
  <2> HIDE DEF T
  <2>2. edits[i] \in T
    BY <2>1
  <2>3. c \in Orcids
    BY <2>2 DEF T
  <2>4. QED BY <2>3, SplicingAssumption
<1>2. s \in Seq(Names \cup Orcids) /\ WordsUpTo(s, L) = n
  BY DEF SplicedTo
<1>3. <<c>> \in Seq(Names \cup Orcids) /\ Len(<<c>>) = 1 /\ <<c>>[1] = c
  BY <1>1
<1> HIDE DEF c, u, n
<1>4. /\ u \in Seq(Names \cup Orcids)
      /\ L \in Nat /\ Len(u) = L + 1
      /\ DOMAIN s = 1..L /\ DOMAIN u = 1..(L + 1)
      /\ \A q \in 1..L : u[q] = s[q] /\ WordsUpTo(u, q) = WordsUpTo(s, q)
      /\ u[L + 1] = c
      /\ \A o : IsFiniteSet(With(s, o))
  <2> DEFINE t == <<c>>
  <2>1. t \in Seq(Names \cup Orcids) /\ Len(t) = 1 /\ t[1] = c
    BY <1>3
  <2>2. u = s \o t
    BY DEF u
  <2> HIDE DEF t
  <2>3. /\ s \o t \in Seq(Names \cup Orcids)
        /\ L \in Nat /\ Len(t) \in Nat /\ Len(s \o t) = L + Len(t)
        /\ DOMAIN s = 1..L /\ DOMAIN (s \o t) = 1..(L + Len(t))
        /\ \A q \in 1..L : (s \o t)[q] = s[q] /\ WordsUpTo(s \o t, q) = WordsUpTo(s, q)
        /\ \A j \in 1..Len(t) : (s \o t)[L + j] = t[j]
        /\ \A o : IsFiniteSet(With(s, o))
    BY <1>2, <2>1, LongerText
  <2>4. 1 \in 1..Len(t)
    BY <2>1
  <2>5. QED BY <2>1, <2>2, <2>3, <2>4
<1>5. WordsUpTo(u, L + 1) = n
  <2>1. {r \in 1..(L + 1) : u[r] \in Names} = {r \in 1..L : s[r] \in Names}
    <3>1. \A r \in 1..(L + 1) : r \in 1..L \/ r = L + 1
      BY <1>4
    <3>2. \A r \in 1..L : r \in 1..(L + 1) /\ u[r] = s[r]
      BY <1>4
    <3>3. u[L + 1] \notin Names
      BY <1>1, <1>4
    <3>4. QED BY <3>1, <3>2, <3>3
  <2>2. QED BY <1>2, <2>1 DEF WordsUpTo
<1>6. ASSUME NEW q \in DOMAIN u, u[q] \in Names PROVE u[q] = tokens[WordsUpTo(u, q)]
  <2>1. q \in 1..L
    BY <1>1, <1>4, <1>6
  <2>2. QED BY <1>4, <1>6, <2>1 DEF SplicedTo
<1>7. ASSUME NEW o \in Orcids
      PROVE  Cardinality(With(u, o)) = Cardinality({j \in js \cup {i} : edits[j].orcid = o})
  <2> DEFINE J == {j \in js : edits[j].orcid = o}
  <2>1. Cardinality(With(s, o)) = Cardinality(J)
    BY DEF SplicedTo
  <2>2. IsFiniteSet(J) /\ i \notin J
    <3>1. PICK m \in Nat : DOMAIN edits = 1..m
      BY DEF PageInv
    <3>2. J \in SUBSET (1..m)
      BY <3>1
    <3>3. QED BY <3>1, <3>2, FinitePositions
  <2>3. CASE c = o
    <3>1. With(u, o) = With(s, o) \cup {L + 1} /\ L + 1 \notin With(s, o)
      BY <1>4, <2>3 DEF With
    <3>2. {j \in js \cup {i} : edits[j].orcid = o} = J \cup {i}
      BY <2>3 DEF c
    <3> HIDE DEF J
    <3>3. Cardinality(With(u, o)) = Cardinality(With(s, o)) + 1
      BY <1>4, <3>1, FS_AddElement
    <3>4. Cardinality(J \cup {i}) = Cardinality(J) + 1
      BY <2>2, FS_AddElement
    <3>5. QED BY <2>1, <3>2, <3>3, <3>4
  <2>4. CASE c # o
    <3>1. With(u, o) = With(s, o)
      BY <1>4, <2>4 DEF With
    <3>2. {j \in js \cup {i} : edits[j].orcid = o} = J
      BY <2>4 DEF c
    <3>3. QED BY <2>1, <3>1, <3>2
  <2>5. QED BY <2>3, <2>4
<1>8. ASSUME NEW j \in js \cup {i}
      PROVE  \E q \in DOMAIN u : u[q] = edits[j].orcid /\ WordsUpTo(u, q) = edits[j].at
  <2>1. CASE j \in js
    <3>1. PICK q \in 1..L : s[q] = edits[j].orcid /\ WordsUpTo(s, q) = edits[j].at
      BY <1>4, <2>1 DEF SplicedTo
    <3>2. q \in DOMAIN u
      BY <1>4
    <3>3. QED BY <1>4, <3>1, <3>2
  <2>2. CASE j = i
    <3>1. L + 1 \in DOMAIN u /\ u[L + 1] = edits[j].orcid /\ WordsUpTo(u, L + 1) = edits[j].at
      BY <1>4, <1>5, <2>2 DEF c, n
    <3>2. QED BY <3>1
  <2>3. QED BY <2>1, <2>2
<1>9. SplicedTo(u, n, js \cup {i})
  BY <1>4, <1>5, <1>6, <1>7, <1>8 DEF SplicedTo
<1>10. QED BY <1>9 DEF u, c, n

\* What is said of icons and words depends on the page alone.
LEMMA PageDecides ==
    ASSUME UNCHANGED page
    PROVE  /\ words' = words /\ tokens' = tokens /\ annots' = annots /\ Icons' = Icons
           /\ \A i : EditOf(i)' = EditOf(i)
<1>1. words' = words /\ tokens' = tokens /\ annots' = annots
  BY DEF page
<1>2. \A i : Candidates(annots[i])' = Candidates(annots[i]) /\ Anchor(annots[i])' = Anchor(annots[i])
  BY <1>1 DEF Candidates, Anchor, OnLine, LeftOf
<1>3. Icons' = Icons
  BY <1>1 DEF Icons
<1>4. \A i : Occurrences(Anchor(annots[i]))' = Occurrences(Anchor(annots[i]))
  BY <1>1, <1>2 DEF Occurrences, IsToken, WordTexts
<1>5. \A i : EditOf(i)' = EditOf(i)
  BY <1>1, <1>4 DEF EditOf
<1>6. QED BY <1>1, <1>3, <1>5

\* Both at once: the icons looked at may be others afterwards.
LEMMA AnchoredLater ==
    ASSUME UNCHANGED page
    PROVE  Anchored(looked)' = Anchored(looked')
<1>1. words' = words /\ tokens' = tokens /\ annots' = annots
  BY DEF page
<1>2. \A i : /\ Candidates(annots[i])' = Candidates(annots[i])
             /\ Anchor(annots[i])' = Anchor(annots[i])
  BY <1>1 DEF Candidates, Anchor, OnLine, LeftOf
<1>3. \A i : Occurrences(Anchor(annots[i]))' = Occurrences(Anchor(annots[i]))
  BY <1>1, <1>2 DEF Occurrences, IsToken, WordTexts
<1>4. Icons' = Icons
  BY <1>1 DEF Icons
<1>5. QED BY <1>2, <1>3, <1>4 DEF Anchored

LEMMA LookKeeps ==
    ASSUME PageInv, EditsInv, placed = {}, prev = 0, spliced = <<>>, Look
    PROVE  PageInv' /\ EditsInv' /\ TextInv'
<1> DEFINE a == annots[looked + 1]
           new == looked + 1
           e == EditOf(new)
           T == [at : DOMAIN tokens, orcid : Orcids]
           marks == a.orcid # NoOrcid /\ Candidates(a) # {} /\ Occurrences(Anchor(a)) # {}
<1>1. /\ looked < Len(annots) /\ looked' = new /\ UNCHANGED page
      /\ placed' = {} /\ prev' = 0 /\ spliced' = <<>>
      /\ edits' = IF marks THEN Append(edits, e) ELSE edits
  BY DEF Look, EditOf, Linked
<1>2. /\ looked \in Nat /\ new \in Nat /\ new \in 1..Len(annots) /\ new \in DOMAIN annots
      /\ Len(annots) \in Nat /\ a \in Annot /\ edits \in Seq(T) /\ words \in Seq(Word)
      /\ tokens \in Seq(Names) /\ annots \in Seq(Annot)
  BY <1>1 DEF PageInv
<1>3. words' = words /\ tokens' = tokens /\ annots' = annots /\ (\A i : EditOf(i)' = EditOf(i))
  BY <1>1, PageDecides
<1>4. looked' = new /\ Anchored(looked)' = Anchored(new)
  BY <1>1, AnchoredLater
<1>5. \A i \in Icons : i \in Nat /\ i \in DOMAIN annots
  BY <1>2 DEF Icons
<1>6. words' \in Seq(Word) /\ tokens' \in Seq(Names) /\ annots' \in Seq(Annot) /\ looked' \in 0..Len(annots')
  BY <1>1, <1>2, <1>3
<1>7. ASSUME PageInv' PROVE TextInv'
  <2>1. Unplaced' = DOMAIN edits' /\ \A j \in DOMAIN edits' : 0 <= edits'[j].at
    <3>1. edits' \in Seq(T)
      BY <1>3, <1>7 DEF PageInv
    <3>2. \A t \in T : t.at \in Nat
      BY <1>2
    <3> HIDE DEF T
    <3>3. \A j \in DOMAIN edits' : edits'[j] \in T
      BY <3>1
    <3>4. \A j \in DOMAIN edits' : edits'[j].at \in Nat
      BY <3>2, <3>3
    <3>5. QED BY <1>1, <3>4 DEF Unplaced
  <2>2. SplicedTo(spliced, prev, placed)'
    <3>1. SplicedTo(<<>>, 0, {})'
      BY SplicedNothing, PTL
    <3>2. QED BY <1>1, <3>1 DEF SplicedTo
  <2>3. prev' \in 0..Len(tokens')
    BY <1>1, <1>2, <1>3
  <2>4. QED BY <1>1, <2>1, <2>2, <2>3 DEF TextInv
<1>8. CASE ~marks
  <2>1. edits' = edits
    BY <1>1, <1>8
  <2>2. Anchored(new) = Anchored(looked)
    <3>1. new \notin Anchored(new)
      BY <1>8 DEF Anchored, Icons
    <3>2. \A i \in Nat : i <= new /\ i # new => i <= looked
      BY <1>2
    <3>3. \A i \in Nat : i <= looked => i <= new
      BY <1>2
    <3>4. QED BY <1>5, <3>1, <3>2, <3>3 DEF Anchored
  <2>3. PageInv'
    BY <1>2, <1>3, <1>6, <2>1 DEF PageInv
  <2>4. EditsInv'
    BY <1>3, <1>4, <2>1, <2>2 DEF EditsInv
  <2>5. QED BY <1>7, <2>3, <2>4
<1>9. CASE marks
  <2> DEFINE m == Len(edits)
  <2>1. edits' = Append(edits, e)
    BY <1>1, <1>9
  <2>2. e \in T /\ e.orcid = a.orcid /\ a.orcid \in Orcids
    <3>1. a.orcid \in Orcids
      BY <1>2, <1>9 DEF Annot
    <3>2. (CHOOSE n \in Occurrences(Anchor(a)) : TRUE) \in DOMAIN tokens
      BY <1>9 DEF Occurrences
    <3>3. QED BY <3>1, <3>2 DEF EditOf
  <2>3. Anchored(new) = Anchored(looked) \cup {new} /\ new \notin Anchored(looked)
    <3>1. new \in Icons /\ Candidates(annots[new]) # {} /\ Occurrences(Anchor(annots[new])) # {}
      BY <1>2, <1>9 DEF Icons
    <3>2. \A i \in Nat : i <= new <=> (i <= looked \/ i = new)
      BY <1>2
    <3>3. ~(new <= looked)
      BY <1>2
    <3>4. QED BY <1>5, <3>1, <3>2, <3>3 DEF Anchored
  <2> HIDE DEF T, e, a, marks
  <2>4. /\ edits' \in Seq(T) /\ m \in Nat /\ DOMAIN edits = 1..m /\ DOMAIN edits' = 1..(m + 1)
        /\ \A j \in 1..m : edits'[j] = edits[j]
        /\ edits'[m + 1] = e
    BY <1>2, <2>1, <2>2
  <2>5. PageInv'
    BY <1>2, <1>3, <1>6, <2>4 DEF PageInv, T
  <2>6. ASSUME NEW i \in Anchored(new) PROVE \E j \in DOMAIN edits' : edits'[j] = EditOf(i)
    <3>1. CASE i = new
      <4>1. m + 1 \in DOMAIN edits' /\ edits'[m + 1] = EditOf(i)
        BY <2>4, <3>1 DEF e
      <4>2. QED BY <4>1
    <3>2. CASE i \in Anchored(looked)
      <4>1. PICK j \in DOMAIN edits : edits[j] = EditOf(i)
        BY <3>2 DEF EditsInv
      <4>2. j \in DOMAIN edits' /\ edits'[j] = EditOf(i)
        BY <2>4, <4>1
      <4>3. QED BY <4>2
    <3>3. QED BY <2>3, <3>1, <3>2
  <2>7. ASSUME NEW o \in Orcids
        PROVE  Cardinality({j \in DOMAIN edits' : edits'[j].orcid = o})
                   = Cardinality({i \in Anchored(new) : annots[i].orcid = o})
    <3> DEFINE J == {j \in DOMAIN edits : edits[j].orcid = o}
               I == {i \in Anchored(looked) : annots[i].orcid = o}
    <3>1. Cardinality(J) = Cardinality(I)
      BY DEF EditsInv
    <3>2. IsFiniteSet(J) /\ m + 1 \notin J
      <4>1. J \in SUBSET (1..m)
        BY <2>4
      <4>2. m + 1 \notin 1..m
        BY <2>4
      <4>3. QED BY <2>4, <4>1, <4>2, FinitePositions
    <3>3. IsFiniteSet(I) /\ new \notin I
      <4>1. I \in SUBSET (1..Len(annots))
        BY <1>2, <1>5 DEF Anchored
      <4>2. QED BY <1>2, <2>3, <4>1, FinitePositions
    <3>4. CASE e.orcid = o
      <4>1. {j \in DOMAIN edits' : edits'[j].orcid = o} = J \cup {m + 1}
        BY <2>4, <3>4
      <4>2. {i \in Anchored(new) : annots[i].orcid = o} = I \cup {new}
        BY <2>2, <2>3, <3>4 DEF a
      <4> HIDE DEF I, J
      <4>3. Cardinality(J \cup {m + 1}) = Cardinality(J) + 1
        BY <3>2, FS_AddElement
      <4>4. Cardinality(I \cup {new}) = Cardinality(I) + 1
        BY <3>3, FS_AddElement
      <4>5. QED BY <3>1, <4>1, <4>2, <4>3, <4>4
    <3>5. CASE e.orcid # o
      <4>1. {j \in DOMAIN edits' : edits'[j].orcid = o} = J
        BY <2>4, <3>5
      <4>2. {i \in Anchored(new) : annots[i].orcid = o} = I
        BY <2>2, <2>3, <3>5 DEF a
      <4>3. QED BY <3>1, <4>1, <4>2
    <3>6. QED BY <3>4, <3>5
  <2>8. EditsInv'
    BY <1>3, <1>4, <2>6, <2>7 DEF EditsInv
  <2>9. QED BY <1>7, <2>5, <2>8
<1>10. QED BY <1>8, <1>9

LEMMA SpliceKeeps ==
    ASSUME PageInv, EditsInv, TextInv, looked = Len(annots), Splice
    PROVE  PageInv' /\ EditsInv' /\ TextInv'
<1>1. UNCHANGED page /\ looked' = looked /\ edits' = edits
  BY DEF Splice, Put, PutRest
<1>2. words' = words /\ tokens' = tokens /\ annots' = annots
      /\ (\A i : EditOf(i)' = EditOf(i))
  BY <1>1, PageDecides
<1>3. PageInv'
  BY <1>1, <1>2 DEF PageInv
<1>4. Anchored(looked)' = Anchored(looked)
  BY <1>1, AnchoredLater
<1>5. EditsInv'
  BY <1>1, <1>2, <1>4 DEF EditsInv
<1>6. \A s, n, js : SplicedTo(s, n, js)' <=> SplicedTo(s, n, js)
  BY <1>1, <1>2 DEF SplicedTo
<1>7. Len(tokens) \in Nat /\ prev \in 0..Len(tokens)
  BY PageFacts DEF TextInv
<1>8. CASE PutRest
  <2> DEFINE u == spliced \o SubSeq(tokens, prev + 1, Len(tokens))
  <2>1. Len(tokens) \in prev..Len(tokens)
    BY <1>7
  <2>2. SplicedTo(u, Len(tokens), placed)
    BY <1>7, <2>1, CopyWords DEF TextInv
  <2>3. spliced' = u /\ prev' = Len(tokens) /\ placed' = placed /\ Unplaced' = {}
    BY <1>1, <1>7, <1>8 DEF PutRest, Unplaced
  <2> HIDE DEF u
  <2>4. SplicedTo(spliced, prev, placed)'
    BY <1>1, <1>2, <2>2, <2>3 DEF SplicedTo
  <2>5. QED BY <1>1, <1>2, <1>3, <1>5, <1>7, <2>3, <2>4 DEF TextInv
<1>9. ASSUME NEW i \in Unplaced, Put(i) PROVE TextInv'
  <2> DEFINE n == edits[i].at
             u == spliced \o SubSeq(tokens, prev + 1, n)
             v == u \o <<edits[i].orcid>>
             T == [at : DOMAIN tokens, orcid : Orcids]
  <2>1. edits \in Seq(T) /\ (\A t \in T : t.at \in 1..Len(tokens))
    BY PageFacts DEF PageInv
  <2> HIDE DEF T
  <2>2. \A j \in DOMAIN edits : edits[j].at \in 1..Len(tokens)
    BY <2>1
  <2>3. i \in DOMAIN edits /\ i \notin placed /\ n \in prev..Len(tokens) /\ n \in 0..Len(tokens)
    BY <1>7, <2>2 DEF Unplaced, TextInv
  <2>4. SplicedTo(u, n, placed)
    BY <1>7, <2>3, CopyWords DEF TextInv
  <2> HIDE DEF u
  <2>5. SplicedTo(v, n, placed \cup {i})
    BY <2>3, <2>4, PutOrcid DEF TextInv
  <2> HIDE DEF v
  <2>6. spliced' = v /\ prev' = n /\ placed' = placed \cup {i}
    BY <1>9 DEF Put, u, v
  <2>7. \A j \in Unplaced : n <= edits[j].at
    <3>1. \A j \in Unplaced : j \in DOMAIN edits
      BY DEF Unplaced
    <3>2. \A j \in Unplaced : n < edits[j].at \/ n = edits[j].at
      BY <1>9 DEF Put, IsNext
    <3>3. QED BY <2>2, <2>3, <3>1, <3>2
  <2>8. Unplaced' \subseteq Unplaced
    BY <1>1, <2>6 DEF Unplaced
  <2>9. SplicedTo(spliced, prev, placed)'
    BY <1>1, <1>2, <2>5, <2>6 DEF SplicedTo
  <2>10. placed' \subseteq DOMAIN edits'
    BY <1>1, <2>3, <2>6 DEF TextInv
  <2>11. QED BY <1>1, <1>2, <2>3, <2>6, <2>7, <2>8, <2>9, <2>10 DEF TextInv
<1>10. QED BY <1>3, <1>5, <1>8, <1>9 DEF Splice

\* A page of which nothing was looked at.
LEMMA UnsplicedPage ==
    words \in Seq(Word) /\ tokens \in Seq(Names) /\ annots \in Seq(Annot) /\ Unspliced
        => PageInv /\ EditsInv /\ TextInv
<1> SUFFICES ASSUME words \in Seq(Word), tokens \in Seq(Names), annots \in Seq(Annot), Unspliced
             PROVE  PageInv /\ EditsInv /\ TextInv
  OBVIOUS
<1>1. /\ looked = 0 /\ edits = <<>> /\ placed = {} /\ prev = 0 /\ spliced = <<>>
      /\ Len(annots) \in Nat /\ Len(tokens) \in Nat
  BY DEF Unspliced
<1>2. PageInv
  BY <1>1 DEF PageInv
<1>3. Anchored(0) = {}
  <2>1. \A i \in DOMAIN annots : i \in Nat /\ ~(i <= 0)
    OBVIOUS
  <2>2. QED BY <2>1 DEF Anchored, Icons
<1>4. EditsInv
  <2>1. \A o : {j \in DOMAIN edits : edits[j].orcid = o} = {}
               /\ {i \in Anchored(looked) : annots[i].orcid = o} = {}
    BY <1>1, <1>3
  <2>2. QED BY <1>1, <1>3, <2>1 DEF EditsInv
<1>5. TextInv
  BY <1>1, SplicedNothing DEF TextInv, Unplaced
<1>6. QED BY <1>2, <1>4, <1>5

LEMMA SplicingInit == InitDocument => SplicingInv
<1> SUFFICES ASSUME InitDocument PROVE SplicingInv
  OBVIOUS
<1>1. /\ words = <<>> /\ tokens = <<>> /\ annots = <<>> /\ Unspliced
      /\ inlining = FALSE /\ at = "requested"
      /\ words \in Seq(Word) /\ tokens \in Seq(Names) /\ annots \in Seq(Annot)
  BY DEF InitDocument, Init
<1>2. PageInv /\ EditsInv /\ TextInv
  BY <1>1, UnsplicedPage
<1>3. QED BY <1>1, <1>2 DEF SplicingInv, Unspliced, HasText

\* A step that leaves the page alone.
LEMMA SplicingStays ==
    ASSUME SplicingInv, UNCHANGED splicing
    PROVE  /\ PageInv' /\ EditsInv' /\ TextInv' /\ Done' = Done
           /\ words' = words /\ tokens' = tokens /\ annots' = annots /\ looked' = looked
           /\ placed' = placed /\ prev' = prev /\ spliced' = spliced /\ edits' = edits
<1>1. /\ UNCHANGED page /\ words' = words /\ tokens' = tokens /\ annots' = annots
      /\ looked' = looked
      /\ placed' = placed /\ prev' = prev /\ spliced' = spliced /\ edits' = edits
  BY DEF splicing, page
<1>2. PageInv' /\ TextInv'
  <2>1. SplicedTo(spliced, prev, placed)' <=> SplicedTo(spliced, prev, placed)
    BY <1>1 DEF SplicedTo
  <2>2. QED BY <1>1, <2>1 DEF SplicingInv, PageInv, TextInv, Unplaced
<1>3. EditsInv'
  <2>1. Anchored(looked)' = Anchored(looked) /\ \A i : EditOf(i)' = EditOf(i)
    BY <1>1, PageDecides, AnchoredLater
  <2>2. QED BY <1>1, <2>1 DEF SplicingInv, EditsInv
<1>4. Done' = Done
  BY <1>1 DEF Done, Unplaced
<1>5. QED BY <1>1, <1>2, <1>3, <1>4

LEMMA DownloadKeeps == ASSUME SplicingInv, DownloadDocument PROVE SplicingInv'
<1>1. /\ at = "verified" /\ at' \in {"downloaded", "raised"} /\ UNCHANGED inlining /\ inlining' # TRUE
      /\ words = <<>> /\ tokens = <<>> /\ annots = <<>> /\ Unspliced
  BY DEF SplicingInv, DownloadDocument, Download, Stops
<1>2. Unspliced'
  BY <1>1 DEF DownloadDocument, Unspliced
<1>3. words' \in Seq(Word) /\ tokens' \in Seq(Names) /\ annots' \in Seq(Annot)
  <2>1. CASE UNCHANGED page
    BY <1>1, <2>1 DEF page
  <2>2. CASE LaidOut
    <3>1. /\ words' \in BoundedSeq(Word, MaxWords) /\ annots' \in BoundedSeq(Annot, MaxIcons)
          /\ tokens' \in Texts \cup {WordTexts(words')}
      BY <2>2 DEF LaidOut
    <3>2. \A S, n : BoundedSeq(S, n) = UNION {[1..m -> S] : m \in 0..n}
      BY DEF BoundedSeq, SeqOf
    <3>3. ASSUME NEW S, NEW n \in Nat, NEW q \in BoundedSeq(S, n) PROVE q \in Seq(S)
      <4>1. PICK m \in 0..n : q \in [1..m -> S]
        BY <3>2
      <4>2. m \in Nat
        OBVIOUS
      <4>3. QED BY <4>1, <4>2
    <3>4. words' \in Seq(Word) /\ annots' \in Seq(Annot)
      BY <3>1, <3>3, SplicingAssumption
    <3>5. WordTexts(words') \in Seq(Names)
      <4> DEFINE ws == words'
      <4>1. ws \in Seq(Word)
        BY <3>4
      <4> HIDE DEF ws
      <4>2. Len(ws) \in Nat /\ DOMAIN ws = 1..Len(ws) /\ \A k \in DOMAIN ws : ws[k] \in Word
        BY <4>1
      <4>3. \A k \in DOMAIN ws : ws[k].text \in Names
        BY <4>2 DEF Word
      <4>4. WordTexts(ws) \in [1..Len(ws) -> Names]
        BY <4>2, <4>3 DEF WordTexts
      <4>5. WordTexts(ws) \in Seq(Names)
        BY <4>2, <4>4
      <4>6. QED BY <4>5 DEF ws
    <3>6. QED BY <3>1, <3>4, <3>5, SplicingAssumption
  <2>3. QED BY <2>1, <2>2 DEF DownloadDocument
<1>4. (PageInv /\ EditsInv /\ TextInv)'
  <2>1. (words \in Seq(Word) /\ tokens \in Seq(Names) /\ annots \in Seq(Annot) /\ Unspliced
             => PageInv /\ EditsInv /\ TextInv)'
    BY UnsplicedPage, PTL
  <2>2. QED BY <1>2, <1>3, <2>1
<1>5. QED BY <1>1, <1>2, <1>4 DEF SplicingInv, Unspliced, HasText

LEMMA SplicingNext == SplicingInv /\ [NextDocument]_document => SplicingInv'
<1> SUFFICES ASSUME SplicingInv, [NextDocument]_document PROVE SplicingInv'
  OBVIOUS
<1>1. ASSUME UNCHANGED splicing,
             inlining' => at' = "downloaded",
             at' \in {"requested", "verified"} => at \in {"requested", "verified"},
             HasText' /\ request'.extractor = "pdfplumber" => Done
      PROVE  SplicingInv'
  <2>1. (at \in {"requested", "verified"} => Unspliced) /\ (Unspliced' <=> Unspliced)
    BY <1>1, SplicingStays DEF SplicingInv, Unspliced
  <2>2. QED BY <1>1, <2>1, SplicingStays DEF SplicingInv
<1>2. ASSUME NEW how, Stops(how), ~inlining, UNCHANGED <<splicing, inlining>>,
             how = "verified" => at = "requested", how # "requested",
             how \notin {"extracted", "generated"}
      PROVE  SplicingInv'
  <2>1. at' = how /\ ~HasText' /\ ~inlining' /\ UNCHANGED splicing
    BY <1>2 DEF Stops, HasText
  <2>2. QED BY <1>1, <1>2, <2>1
<1>3. at # "downloaded" => ~inlining
  BY DEF SplicingInv
<1>4. CASE DownloadDocument
  BY <1>4, DownloadKeeps
<1>5. CASE FailsToOpen
  BY <1>2, <1>5 DEF FailsToOpen, Unreadable, Refused
<1>6. CASE OpenPages
  BY <1>1, <1>6 DEF OpenPages, vars, HasText
<1>7. CASE InlineOrcids
  <2>1. inlining /\ at = "downloaded" /\ at' = at /\ inlining' = inlining /\ ~HasText'
    BY <1>7 DEF SplicingInv, InlineOrcids, vars, HasText
  <2>2. CASE Look
    <3>1. looked < Len(annots) /\ placed = {} /\ prev = 0 /\ spliced = <<>>
      BY <2>2 DEF Look, SplicingInv
    <3>2. placed' = {} /\ prev' = 0 /\ spliced' = <<>>
      BY <2>2, <3>1 DEF Look
    <3>3. PageInv' /\ EditsInv' /\ TextInv'
      BY <2>2, <3>1, LookKeeps DEF SplicingInv
    <3>4. QED BY <2>1, <3>2, <3>3 DEF SplicingInv
  <2>3. CASE Splice
    <3>1. looked = Len(annots) /\ looked' = looked /\ annots' = annots
      BY <2>3 DEF Splice, Put, PutRest, page
    <3>2. PageInv' /\ EditsInv' /\ TextInv'
      BY <2>3, <3>1, SpliceKeeps DEF SplicingInv
    <3>3. Len(annots) \in Nat
      BY DEF SplicingInv, PageInv
    <3>4. QED BY <2>1, <3>1, <3>2, <3>3 DEF SplicingInv
  <2>4. QED BY <1>7, <2>2, <2>3 DEF InlineOrcids
<1>8. CASE ExtractDocument
  <2>1. /\ at' = "extracted" /\ request' = request /\ ~inlining' /\ UNCHANGED splicing
        /\ request.extractor = "pdfplumber" => Done
    BY <1>8 DEF ExtractDocument, Extract, docVars
  <2>2. QED BY <1>1, <2>1
<1>9. CASE OtherSteps
  <2>1. UNCHANGED <<splicing, inlining>>
    BY <1>9 DEF OtherSteps
  <2>2. CASE CheckHost
    BY <1>2, <1>3, <2>1, <2>2 DEF CheckHost
  <2>3. CASE ModelFails
    BY <1>2, <1>3, <2>1, <2>3 DEF ModelFails
  <2>4. CASE TooShort \/ Generate
    <3>1. at = "extracted" /\ at' = "generated" /\ request' = request
      BY <2>4 DEF TooShort, Generate, docVars
    <3>2. QED BY <1>1, <1>3, <2>1, <3>1 DEF SplicingInv, HasText
  <2>5. CASE Resting
    <3>1. at' = at /\ request' = request
      BY <2>5 DEF Resting, vars, docVars
    <3>2. QED BY <1>1, <2>1, <3>1 DEF SplicingInv, HasText
  <2>6. QED BY <1>9, <2>2, <2>3, <2>4, <2>5 DEF OtherSteps
<1>10. CASE UNCHANGED document
  <2>1. at' = at /\ request' = request /\ inlining' = inlining /\ UNCHANGED splicing
    BY <1>10 DEF document, vars, docVars
  <2>2. QED BY <1>1, <2>1 DEF SplicingInv, HasText
<1>11. QED
  BY <1>4, <1>5, <1>6, <1>7, <1>8, <1>9, <1>10 DEF NextDocument

\* The invariant of the splicing: the edits are those of the icons that were
\* looked at, and the text so far is the page's up to a word, with the ORCIDs of
\* the edits that were put each right behind its word.
THEOREM SplicingInvariant == SpecDocument => []SplicingInv
<1>1. InitDocument => SplicingInv  BY SplicingInit
<1>2. SplicingInv /\ [NextDocument]_document => SplicingInv'  BY SplicingNext
<1>3. QED BY <1>1, <1>2, PTL DEF SpecDocument

\* In a text that is the page's up to a word, the words are the page's.
LEMMA WordsOfSpliced ==
    ASSUME NEW s \in Seq(Names \cup Orcids), NEW n \in Nat, WordsUpTo(s, Len(s)) = n,
           n = Len(tokens), tokens \in Seq(Names),
           \A q \in DOMAIN s : s[q] \in Names => s[q] = tokens[WordsUpTo(s, q)]
    PROVE  Picked(s, {p \in DOMAIN s : s[p] \in Names}) = tokens
<1> DEFINE P == {p \in DOMAIN s : s[p] \in Names}
           a == Ascending(P)
<1>1. Len(s) \in Nat /\ DOMAIN s = 1..Len(s) /\ Len(tokens) \in Nat /\ DOMAIN tokens = 1..n
  OBVIOUS
<1>2. P \in SUBSET (1..Len(s)) /\ P = {r \in 1..Len(s) : s[r] \in Names}
  BY <1>1
<1>3. Cardinality(P) = n
  BY <1>2 DEF WordsUpTo
<1>4. ASSUME NEW q \in P PROVE Rank(P, q) = WordsUpTo(s, q)
  <2>1. \A r \in 1..q : r \in DOMAIN s
    BY <1>1, <1>2
  <2>2. \A r \in P : r <= q => r \in 1..q
    BY <1>1, <1>2
  <2>3. \A r \in 1..q : r <= q
    BY <1>1, <1>2
  <2>4. {l \in P : l <= q} = {r \in 1..q : s[r] \in Names}
    BY <2>1, <2>2, <2>3
  <2>5. QED BY <2>4 DEF Rank, WordsUpTo
<1>5. IsFiniteSet(P) /\ P \in SUBSET Int
  BY <1>1, <1>2, FinitePositions
<1>6. \A q \in P : s[q] = tokens[WordsUpTo(s, q)]
  OBVIOUS
<1> HIDE DEF P
<1>7. a \in [1..n -> P] /\ \A m \in 1..n : Rank(P, a[m]) = m
  BY <1>3, <1>5, AscendingOfRank
<1> HIDE DEF a
<1>8. \A m \in 1..n : s[a[m]] = tokens[m]
  <2> SUFFICES ASSUME NEW m \in 1..n PROVE s[a[m]] = tokens[m]
    OBVIOUS
  <2>1. a[m] \in P /\ Rank(P, a[m]) = m
    BY <1>7
  <2>2. QED BY <1>4, <1>6, <2>1
<1>9. Picked(s, P) = [m \in 1..n |-> s[a[m]]]
  BY <1>3 DEF Picked, a
<1>10. tokens = [m \in 1..n |-> tokens[m]]
  BY <1>1
<1>11. Picked(s, P) = tokens
  BY <1>8, <1>9, <1>10
<1>12. QED BY <1>11 DEF P

\* Splicing never loses, doubles or reorders a word, adds the ORCID of no icon
\* twice, and adds that of every icon with a word to its left when the text has
\* the words, for every page, every text and any order of the icons.
THEOREM OnlyOrcidsAlwaysAdded == SpecDocument => []OnlyOrcidsAdded
<1>1. SplicingInv => OnlyOrcidsAdded
  <2> SUFFICES ASSUME SplicingInv, Done PROVE OnlyOrcidsAdded
    BY DEF OnlyOrcidsAdded
  <2>1. /\ looked = Len(annots) /\ prev = Len(tokens) /\ Len(tokens) \in Nat /\ Len(annots) \in Nat
        /\ annots \in Seq(Annot) /\ tokens \in Seq(Names) /\ PageInv
    BY DEF SplicingInv, PageInv, Done
  <2>2. placed = DOMAIN edits
    BY DEF SplicingInv, TextInv, Done, Unplaced
  <2>3. SplicedTo(spliced, Len(tokens), DOMAIN edits)
    BY <2>1, <2>2 DEF SplicingInv, TextInv
  <2>4. Picked(spliced, {p \in DOMAIN spliced : spliced[p] \in Names}) = tokens
    BY <2>1, <2>3, WordsOfSpliced DEF SplicedTo
  <2>5. ASSUME NEW o \in Orcids
        PROVE  LET added == Cardinality({p \in DOMAIN spliced : spliced[p] = o})
                   shown == Cardinality({i \in DOMAIN annots :
                                           Linked(annots[i]) /\ annots[i].orcid = o})
               IN  added <= shown /\ (TextHasWords => added = shown)
    <3> DEFINE added == Cardinality({p \in DOMAIN spliced : spliced[p] = o})
               I == {i \in Anchored(looked) : annots[i].orcid = o}
               L == {i \in DOMAIN annots : Linked(annots[i]) /\ annots[i].orcid = o}
    <3>1. Cardinality(With(spliced, o)) = Cardinality({j \in DOMAIN edits : edits[j].orcid = o})
      BY <2>3 DEF SplicedTo
    <3>2. added = Cardinality(I)
      BY <3>1 DEF SplicingInv, EditsInv, With
    <3>3. \A i \in DOMAIN annots : i \in Nat /\ i <= looked
      BY <2>1
    <3>4. I \in SUBSET L /\ L \in SUBSET (1..Len(annots))
      BY <2>1 DEF Anchored, Icons, Linked
    <3>5. ASSUME TextHasWords PROVE I = L
      <4>1. ASSUME NEW i \in L PROVE Occurrences(Anchor(annots[i])) # {}
        <5>1. annots[i] \in Annot /\ Candidates(annots[i]) # {}
          BY <2>1 DEF Linked
        <5>2. Anchor(annots[i]) \in DOMAIN words
          BY <2>1, <5>1, AnchorIsCandidate DEF Candidates
        <5>3. QED BY <2>1, <3>5, <5>2, TextHasOccurrence
      <4>2. QED BY <3>3, <3>4, <4>1 DEF Anchored, Icons, Linked
    <3>6. IsFiniteSet(L)
      BY <2>1, <3>4, FinitePositions
    <3> HIDE DEF I, L
    <3>7. Cardinality(I) <= Cardinality(L)
      BY <3>4, <3>6, FS_Subset
    <3>8. QED BY <3>2, <3>5, <3>7 DEF L
  <2>6. QED BY <2>4, <2>5 DEF OnlyOrcidsAdded
<1>2. QED BY <1>1, SplicingInvariant, PTL

\* A word that alone adjoins an icon is the icon's anchor.
LEMMA AdjoiningIsAnchor ==
    ASSUME PageInv, NEW i \in Icons, NEW k \in DOMAIN words,
           {l \in DOMAIN words : Adjoins(l, annots[i])} = {k}
    PROVE  Candidates(annots[i]) # {} /\ Anchor(annots[i]) = k
<1> DEFINE a == annots[i]
<1>1. a \in Annot /\ \A l \in DOMAIN words : words[l] \in Word
  BY PageFacts DEF PageInv, Icons
<1>2. a.x0 \in Int /\ \A l \in DOMAIN words : words[l].x1 \in Int
  BY <1>1, SplicingAssumption DEF Annot, Word
<1>3. Adjoins(k, a) /\ \A l \in DOMAIN words : Adjoins(l, a) => l = k
  OBVIOUS
<1> HIDE DEF a
<1>4. k \in Candidates(a)
  BY <1>2, <1>3 DEF Candidates, Adjoins, LeftOf, IconGapPt
<1>5. ASSUME NEW l \in Candidates(a), words[k].x1 <= words[l].x1 PROVE l = k
  <2>1. l \in DOMAIN words /\ OnLine(l, a) /\ words[l].x1 <= a.x0 + 2
    BY DEF Candidates, LeftOf, IconGapPt
  <2>2. words[k].x1 >= a.x0 - 2
    BY <1>2, <1>3 DEF Adjoins, IconGapPt
  <2>3. a.x0 - words[l].x1 \in (-2)..2
    BY <1>2, <1>5, <2>1, <2>2
  <2>4. Adjoins(l, a)
    BY <2>1, <2>3 DEF Adjoins, IconGapPt
  <2>5. QED BY <1>3, <2>1, <2>4
<1>6. \A l \in Candidates(a) : l \in DOMAIN words
  BY DEF Candidates
<1>7. \A l \in Candidates(a) : l # k => words[l].x1 < words[k].x1
  BY <1>2, <1>5, <1>6
<1> DEFINE Nearer(m, l) == \/ words[l].x1 < words[m].x1
                           \/ words[l].x1 = words[m].x1 /\ m <= l
<1>8. \A l \in Candidates(a) : Nearer(k, l)
  <2>1. k \in Nat /\ k <= k
    BY PageFacts
  <2>2. Nearer(k, k)
    BY <2>1
  <2>3. \A l \in Candidates(a) : l # k => Nearer(k, l)
    BY <1>7
  <2> HIDE DEF Nearer
  <2>4. QED BY <2>2, <2>3
<1>9. \A m \in Candidates(a) : (\A l \in Candidates(a) : Nearer(m, l)) => m = k
  <2> SUFFICES ASSUME NEW m \in Candidates(a), m # k, Nearer(m, k) PROVE FALSE
    BY <1>4
  <2>1. words[m].x1 < words[k].x1
    BY <1>7
  <2>2. QED BY <1>2, <1>6, <2>1
<1>10. Anchor(a) = k
  BY <1>4, <1>8, <1>9 DEF Anchor
<1>11. QED BY <1>4, <1>10 DEF a

\* An author alone next to an icon gets its ORCID in the text the model reads,
\* however many equal words and whatever other icons and words the page has, when
\* the text is that of the words.
THEOREM OwnAuthorAlwaysCredited == SpecDocument => []OwnAuthorCredited
<1>1. SplicingInv => OwnAuthorCredited
  <2> SUFFICES ASSUME SplicingInv, HasText, HasIcons, tokens = WordTexts(words),
                      NEW i \in Icons, NEW k \in DOMAIN words,
                      {l \in DOMAIN words : Adjoins(l, annots[i])} = {k}
               PROVE  annots[i].orcid \in CreditedTo(k)
    BY DEF OwnAuthorCredited
  <2> DEFINE o == annots[i].orcid
  <2>1. Done
    BY DEF SplicingInv, HasIcons
  <2>2. /\ PageInv /\ looked = Len(annots)
        /\ annots \in Seq(Annot) /\ Len(annots) \in Nat
    BY <2>1 DEF SplicingInv, PageInv, Done
  <2>3. placed = DOMAIN edits
    BY <2>1 DEF SplicingInv, TextInv, Done, Unplaced
  <2>4. Candidates(annots[i]) # {} /\ Anchor(annots[i]) = k
    BY <2>2, AdjoiningIsAnchor
  <2>5. Occurrences(k) = {k}
    BY <2>2, OccurrenceIsWord
  <2>6. i \in Anchored(looked) /\ EditOf(i) = [at |-> k, orcid |-> o]
    <3>1. i \in Nat /\ i <= looked
      BY <2>2 DEF Icons
    <3>2. k \in Occurrences(Anchor(annots[i])) /\ Occurrences(Anchor(annots[i])) = {k}
      BY <2>4, <2>5
    <3>3. (CHOOSE n \in Occurrences(Anchor(annots[i])) : TRUE) = k
      BY <3>2
    <3>4. QED BY <2>4, <3>1, <3>2, <3>3 DEF Anchored, EditOf
  <2>7. PICK j \in DOMAIN edits : edits[j] = EditOf(i)
    BY <2>6 DEF SplicingInv, EditsInv
  <2>8. edits[j].at = k /\ edits[j].orcid = o
    BY <2>6, <2>7
  <2>9. o \in Orcids
    <3>1. annots[i] \in Annot /\ o # NoOrcid
      BY <2>2 DEF Icons
    <3>2. QED BY <3>1 DEF Annot
  <2> HIDE DEF o
  <2>10. PICK q \in DOMAIN spliced : spliced[q] = edits[j].orcid
                                    /\ WordsUpTo(spliced, q) = edits[j].at
    BY <2>3 DEF SplicingInv, TextInv, SplicedTo
  <2>11. o \in CreditedTo(k)
    BY <2>8, <2>9, <2>10 DEF CreditedTo, WordsUpTo
  <2>12. QED BY <2>11 DEF o
<1>2. QED BY <1>1, SplicingInvariant, PTL

-----------------------------------------------------------------------------
(***************************************************************************)
(* Lookups.                                                                *)
(***************************************************************************)

\* The values a list of fields has for the field f.
ValuesOf(list, f) == {list[i].value : i \in {j \in DOMAIN list : list[j].field = f}}

IsList(list) == Len(list) \in Nat /\ list = [i \in 1..Len(list) |-> list[i]]

\* What the coroutine of a position may be asking and holding.
Asking(i) ==
    [asks : {"number", "title", "nothing"},
     number : {At(extracted.funding_numbers, i)},
     title : {At(extracted.funding_titles, i)},
     funder : {At(extracted.funding_funders, i)},
     award : Catalogue \cup {None}]

\* It asks for what the position has, and holds an award that was found by it.
Justified(e) ==
    /\ e.asks = "number" => e.number # None
    /\ e.asks = "title" => e.title # None
    /\ e.award # None =>
           /\ e.award \in OfFunder(e)
           /\ \/ e.number # None /\ e.number \in e.award.foundByNumber
              \/ /\ e.title # None
                 /\ e.award \in ByTitle(e)
                 /\ ByTitle(e) = {e.award} \/ e.title \in e.award.acronymIn

\* The field of the result that FundingGathered makes of the coroutines.
EntriesOf(f) ==
    LET resolved == [i \in DOMAIN f |-> Resolved(f[i])]
    IN  Picked(resolved, {i \in DOMAIN f :
                             resolved[i].award # None \/ resolved[i].funder # None})

ResolverInv ==
    /\ base_url \in BaseUrls
    /\ extracted \in Metadata
    /\ FailureOnlyCostsDetail
    /\ IsList(suggestions)
    /\ stage \in {"licenses", "funding"} => base_url # "none"
    /\ stage = "licenses" => \A k \in DOMAIN licenses : licenses[k].id \in Asked(extracted)
    /\ stage \in {"licenses", "funding", "returned"} /\ base_url # "none" =>
          /\ DOMAIN funding = 1..Size(extracted)
          /\ \A i \in 1..Size(extracted) : funding[i] \in Asking(i) /\ Justified(funding[i])
    /\ stage = "begin" \/ base_url = "none" => funding = <<>>
    /\ ValuesOf(suggestions, "creators") \subseteq {Creators(extracted)}
    /\ ValuesOf(suggestions, "funding") =
          IF stage = "returned" /\ base_url # "none" /\ EntriesOf(funding) # <<>>
          THEN {EntriesOf(funding)} ELSE {}

-----------------------------------------------------------------------------

LEMMA ValuesOfAppended ==
    ASSUME NEW list, IsList(list), NEW r, NEW f
    PROVE  /\ IsList(list \o <<r>>)
           /\ ValuesOf(list \o <<r>>, f) =
                 ValuesOf(list, f) \cup (IF r.field = f THEN {r.value} ELSE {})
<1> DEFINE n == Len(list)
           longer == list \o <<r>>
           T == Range(list) \cup {r}
<1>1. n \in Nat /\ DOMAIN list = 1..n
  BY DEF IsList
<1>2. list \in Seq(T)
  <2>1. list \in [1..n -> T]
    <3>1. \A i \in 1..n : list[i] \in T
      BY <1>1 DEF Range
    <3>2. QED BY <3>1 DEF IsList
  <2>2. QED BY <1>1, <2>1
<1>3. <<r>> \in Seq(T) /\ Len(<<r>>) = 1
  OBVIOUS
<1> HIDE DEF T
<1>4. longer \in Seq(T) /\ Len(longer) = n + 1
  BY <1>2, <1>3
<1>5. \A i \in 1..n + 1 : longer[i] = IF i <= n THEN list[i] ELSE r
  BY <1>1, <1>2, <1>3
<1>6. IsList(longer)
  BY <1>4 DEF IsList
<1>7. DOMAIN longer = 1..n + 1
  BY <1>4
<1> HIDE DEF longer
<1>8. ValuesOf(longer, f) \subseteq ValuesOf(list, f) \cup (IF r.field = f THEN {r.value} ELSE {})
  BY <1>1, <1>5, <1>7 DEF ValuesOf
<1>9. ValuesOf(list, f) \subseteq ValuesOf(longer, f)
  <2>1. \A i \in 1..n : i \in 1..n + 1 /\ longer[i] = list[i]
    BY <1>1, <1>5
  <2>2. QED BY <1>1, <1>7, <2>1 DEF ValuesOf
<1>10. r.field = f => r.value \in ValuesOf(longer, f)
  <2>1. n + 1 \in 1..n + 1 /\ longer[n + 1] = r
    BY <1>1, <1>5
  <2>2. QED BY <1>7, <2>1 DEF ValuesOf
<1>11. QED BY <1>6, <1>8, <1>9, <1>10 DEF longer

-----------------------------------------------------------------------------
LEMMA SizeIsNat == ASSUME NEW m \in Metadata PROVE Size(m) \in Nat
<1> DEFINE S == {Len(m.funding_titles), Len(m.funding_numbers), Len(m.funding_funders)}
<1>1. /\ m.funding_titles \in Seq(Range(m.funding_titles))
      /\ m.funding_numbers \in Seq(Range(m.funding_numbers))
      /\ m.funding_funders \in Seq(Range(m.funding_funders))
  <2>1. \A list \in Lists : m[list] \in Seq(Range(m[list]))
    BY ResolverAssumption
  <2>2. m["funding_titles"] \in Seq(Range(m["funding_titles"]))
    BY <2>1 DEF Lists
  <2>3. m["funding_numbers"] \in Seq(Range(m["funding_numbers"]))
    BY <2>1 DEF Lists
  <2>4. m["funding_funders"] \in Seq(Range(m["funding_funders"]))
    BY <2>1 DEF Lists
  <2>5. QED BY <2>2, <2>3, <2>4
<1>2. S \subseteq Nat
  <2>1. Len(m.funding_titles) \in Nat
    BY <1>1
  <2>2. Len(m.funding_numbers) \in Nat
    BY <1>1
  <2>3. Len(m.funding_funders) \in Nat
    BY <1>1
  <2>4. QED BY <2>1, <2>2, <2>3
<1>3. \E x \in S : \A y \in S : x >= y
  <2>1. \A a, b, c \in Nat : \E x \in {a, b, c} : \A y \in {a, b, c} : x >= y
    OBVIOUS
  <2>2. QED BY <1>2, <2>1
<1>4. Max(S) \in S
  BY <1>3 DEF Max
<1>5. QED BY <1>2, <1>4 DEF Size

\* The fields that need no lookup: the creators are theirs, and no funding yet.
LEMMA FieldsOfExtracted ==
    ASSUME NEW m \in Metadata
    PROVE  /\ IsList(FromExtracted(m))
           /\ ValuesOf(FromExtracted(m), "creators") \subseteq {Creators(m)}
           /\ ValuesOf(FromExtracted(m), "funding") = {}
<1> DEFINE given(f) == IF f = "creators" THEN Creators(m) # <<>> ELSE f \in m.texts
           K == {i \in DOMAIN TextFields : given(TextFields[i])}
           fields == Picked(TextFields, K)
           N == Cardinality(K)
           r == FromExtracted(m)
           value(f) == IF f = "creators" THEN Creators(m) ELSE f
<1>1. DOMAIN TextFields = 1..6
  BY DEF TextFields
<1>2. K \in SUBSET (1..6)
  BY <1>1
<1>3. r = [i \in DOMAIN fields |-> [field |-> fields[i], value |-> value(fields[i])]]
  BY DEF FromExtracted
<1> HIDE DEF K, r
<1>4. N \in Nat /\ DOMAIN fields = 1..N /\ \A j \in 1..N : \E k \in K : fields[j] = TextFields[k]
  <2>1. IsFiniteSet(K) /\ K \in SUBSET Int
    BY <1>2, FinitePositions
  <2>2. QED BY <2>1, PickedAt
<1>5. \A k \in 1..6 : TextFields[k] # "funding"
  BY DEF TextFields
<1> HIDE DEF fields, N
<1>6. r \in Seq({[field |-> fields[i], value |-> value(fields[i])] : i \in 1..N})
  BY <1>3, <1>4
<1>7. Len(r) = N /\ DOMAIN r = 1..N
  BY <1>3, <1>4, <1>6
<1>8. IsList(r)
  BY <1>3, <1>4, <1>7 DEF IsList
<1>9. \A i \in 1..N : r[i].field # "funding" /\ (r[i].field = "creators" => r[i].value = Creators(m))
  BY <1>2, <1>3, <1>4, <1>5
<1>10. QED BY <1>7, <1>8, <1>9 DEF ValuesOf, r

\* What a search shows: nothing, or one of the awards that match; and if it is
\* the only one although two were asked for, no other award matches.
LEMMA HitsMatch ==
    ASSUME NEW matching, IsFiniteSet(matching), NEW size \in {1, 2},
           NEW hits \in Hits(matching, size)
    PROVE  /\ Len(hits) \in Nat
           /\ hits # <<>> => hits[1] \in matching
           /\ size = 2 /\ Len(hits) = 1 => matching = {hits[1]}
<1> DEFINE n == Cardinality(matching)
           k == Min({size, n})
<1>1. n \in Nat
  BY FS_CardinalityType
<1>2. k \in {size, n} /\ k <= size /\ k <= n
  <2>1. \E x \in {size, n} : \A y \in {size, n} : x <= y
    BY <1>1
  <2> HIDE DEF n
  <2>2. QED BY <2>1 DEF Min
<1>3. hits \in [1..k -> matching]
  BY DEF Hits
<1>4. k \in Nat
  BY <1>1, <1>2
<1> HIDE DEF n, k
<1>5. Len(hits) = k /\ hits \in Seq(matching)
  BY <1>3, <1>4
<1>6. hits # <<>> => hits[1] \in matching
  BY <1>3, <1>4, <1>5
<1>7. ASSUME size = 2, k = 1 PROVE matching = {hits[1]}
  <2>1. Cardinality(matching) = 1
    BY <1>2, <1>7 DEF n
  <2>2. PICK x : matching = {x}
    BY <2>1, FS_Singleton
  <2>3. hits[1] \in matching
    BY <1>3, <1>7
  <2>4. QED BY <2>2, <2>3
<1>8. QED BY <1>4, <1>5, <1>6, <1>7

LEMMA AwardsFound ==
    ASSUME NEW e
    PROVE  /\ IsFiniteSet(ByNumber(e)) /\ IsFiniteSet(ByTitle(e))
           /\ ByNumber(e) \subseteq OfFunder(e) /\ ByTitle(e) \subseteq OfFunder(e)
           /\ OfFunder(e) \subseteq Catalogue
<1>1. OfFunder(e) \subseteq Catalogue /\ ByNumber(e) \subseteq OfFunder(e) /\ ByTitle(e) \subseteq OfFunder(e)
  BY DEF OfFunder, ByNumber, ByTitle
<1>2. ByNumber(e) \subseteq Catalogue /\ ByTitle(e) \subseteq Catalogue /\ IsFiniteSet(Catalogue)
  BY <1>1, ResolverAssumption
<1>3. QED BY <1>1, <1>2, FS_Subset

-----------------------------------------------------------------------------
LEMMA EmptyList == IsList(<<>>) /\ \A f : ValuesOf(<<>>, f) = {}
BY DEF IsList, ValuesOf

LEMMA ResolverInit == InitResolver => ResolverInv
BY EmptyList DEF InitResolver, ResolverInv, FailureOnlyCostsDetail

\* An attempt that raises starts from nothing, or ends.
LEMMA RaiseKeeps ==
    ASSUME ResolverInv, NEW retryable, RaiseInAttempt(retryable), ~OnlyCaught
    PROVE  ResolverInv'
<1>1. /\ base_url' = base_url /\ extracted' = extracted
      /\ stage' \in {"begin", "failed"} /\ funding' = <<>> /\ suggestions' = <<>>
  BY DEF RaiseInAttempt, argument
<1>2. IsList(suggestions)' /\ ValuesOf(suggestions, "creators")' = {}
      /\ ValuesOf(suggestions, "funding")' = {}
  BY <1>1, EmptyList
<1>3. QED BY <1>1, <1>2 DEF ResolverInv, FailureOnlyCostsDetail, OnlyCaught

\* Licences are resolved, or gathered.
LEMMA LicensesKeep ==
    ASSUME ResolverInv, stage = "licenses",
           UNCHANGED <<argument, attempt, funding>>, stage' \in {"licenses", "funding"},
           IsList(suggestions'),
           stage' = "licenses" =>
               \A k \in DOMAIN licenses' : licenses'[k].id \in Asked(extracted),
           ValuesOf(suggestions', "creators") = ValuesOf(suggestions, "creators"),
           ValuesOf(suggestions', "funding") = ValuesOf(suggestions, "funding")
    PROVE  ResolverInv'
<1>1. base_url' = base_url /\ extracted' = extracted /\ funding' = funding /\ attempt' = attempt
  BY DEF argument
<1>2. \A i : Asking(i)' = Asking(i)
  BY <1>1 DEF Asking
<1>3. QED BY <1>1, <1>2 DEF ResolverInv, FailureOnlyCostsDetail, OnlyCaught

\* A coroutine goes on with what a search said.
LEMMA ContinueKeeps ==
    ASSUME ResolverInv, stage = "funding", NEW i \in DOMAIN funding,
           NEW search \in {"number", "title", "nothing"}, NEW award \in Catalogue \cup {None},
           Justified([funding[i] EXCEPT !.asks = search, !.award = award]),
           Continue(i, search, award)
    PROVE  ResolverInv'
<1> DEFINE e == [funding[i] EXCEPT !.asks = search, !.award = award]
<1>1. /\ base_url' = base_url /\ extracted' = extracted /\ attempt' = attempt
      /\ stage' = stage /\ suggestions' = suggestions
  BY DEF Continue, argument
<1>2. \A j : Asking(j)' = Asking(j)
  BY <1>1 DEF Asking
<1>3. DOMAIN funding = 1..Size(extracted) /\ funding[i] \in Asking(i)
  BY DEF ResolverInv
<1>4. e \in Asking(i)
  BY <1>3 DEF Asking
<1>5. funding' = [funding EXCEPT ![i] = e]
  BY DEF Continue
<1>6. Justified(e)
  OBVIOUS
<1> HIDE DEF e
<1>7. DOMAIN funding' = DOMAIN funding
      /\ \A j \in DOMAIN funding : funding'[j] = IF j = i THEN e ELSE funding[j]
  BY <1>5
<1>8. \A j \in 1..Size(extracted) : funding'[j] \in Asking(j) /\ Justified(funding'[j])
  BY <1>3, <1>4, <1>6, <1>7 DEF ResolverInv
<1>9. QED BY <1>1, <1>2, <1>3, <1>7, <1>8 DEF ResolverInv, FailureOnlyCostsDetail, OnlyCaught

\* At is the item of a list, if there is one.
LEMMA AtIsItem ==
    ASSUME NEW m \in Metadata, NEW list \in Lists, NEW i \in Nat \ {0}
    PROVE  /\ i <= Len(m[list]) <=> i \in DOMAIN m[list]
           /\ At(m[list], i) = IF i \in DOMAIN m[list] THEN m[list][i] ELSE None
           /\ At(m[list], i) \in Values(list) \cup {None}
<1>1. m[list] \in Seq(Range(m[list]))
  BY ResolverAssumption
<1>2. i <= Len(m[list]) <=> i \in DOMAIN m[list]
  BY <1>1
<1>3. i \in DOMAIN m[list] => m[list][i] \in Values(list)
  BY DEF Values, Range
<1>4. QED BY <1>2, <1>3 DEF At

\* What a lookup raises uncaught, it raises of a malformed answer or of its text.
LEMMA UncaughtOnes ==
    ASSUME NEW asked \in Asked(extracted), NEW answer \in LookupAnswers,
           base_url # "none", Uncaught(asked, answer)
    PROVE  ~OnlyCaught
  BY DEF Uncaught, OnlyCaught, LookupAnswers, AnswerKinds

\* A position asks for texts of the metadata.
LEMMA AskedAt ==
    ASSUME NEW m \in Metadata, NEW i \in 1..Size(m)
    PROVE  /\ At(m.funding_numbers, i) # None => At(m.funding_numbers, i) \in Asked(m)
           /\ At(m.funding_titles, i) # None => At(m.funding_titles, i) \in Asked(m)
<1>1. ASSUME NEW list \in Lists, At(m[list], i) # None
      PROVE  At(m[list], i) \in Range(m[list])
  <2>1. i \in Nat \ {0}
    BY SizeIsNat
  <2>2. At(m[list], i) = IF i \in DOMAIN m[list] THEN m[list][i] ELSE None
    BY <2>1, AtIsItem
  <2>3. QED BY <1>1, <2>2 DEF Range
<1>2. /\ At(m["funding_numbers"], i) # None =>
             At(m["funding_numbers"], i) \in Range(m["funding_numbers"])
      /\ At(m["funding_titles"], i) # None =>
             At(m["funding_titles"], i) \in Range(m["funding_titles"])
  BY <1>1 DEF Lists
<1>3. QED BY <1>2 DEF Asked

LEMMA ByNumberKeeps ==
    ASSUME ResolverInv, NEW answer \in LookupAnswers, NEW i \in DOMAIN funding,
           ResolveAwardByNumber(i, answer)
    PROVE  ResolverInv'
<1> DEFINE e == funding[i]
           next == IF e.title = None THEN "nothing" ELSE "title"
           then(search, award) == [e EXCEPT !.asks = search, !.award = award]
<1>1. stage = "funding" /\ e.asks = "number"
  BY DEF ResolveAwardByNumber
<1>2. e \in Asking(i) /\ Justified(e)
  BY <1>1 DEF ResolverInv
<1>3. e.number # None
  BY <1>1, <1>2 DEF Justified
<1>4. Justified(then(next, None))
  BY <1>2 DEF Justified, Asking
<1>5. next \in {"number", "title", "nothing"}
  OBVIOUS
<1>6. ASSUME Uncaught(e.number, answer), RaiseInAttempt(TRUE) PROVE ResolverInv'
  <2>1. e.number \in Asked(extracted)
    BY <1>1, <1>2, <1>3, AskedAt DEF Asking, ResolverInv
  <2>2. QED BY <1>1, <1>6, <2>1, UncaughtOnes, RaiseKeeps DEF ResolverInv
<1>7. ASSUME Continue(i, next, None) PROVE ResolverInv'
  BY <1>1, <1>4, <1>5, <1>7, ContinueKeeps
<1>8. ASSUME NEW hits \in Hits(ByNumber(e), 1), hits # <<>>, Continue(i, "nothing", hits[1])
      PROVE  ResolverInv'
  <2>1. hits[1] \in ByNumber(e)
    BY <1>8, HitsMatch, AwardsFound
  <2>2. hits[1] \in OfFunder(e) /\ hits[1] \in Catalogue /\ e.number \in hits[1].foundByNumber
    BY <2>1, AwardsFound DEF ByNumber
  <2>3. Justified(then("nothing", hits[1]))
    BY <1>2, <1>3, <2>2 DEF Justified, Asking, OfFunder
  <2>4. QED BY <1>1, <1>8, <2>2, <2>3, ContinueKeeps
<1>9. QED BY <1>6, <1>7, <1>8 DEF ResolveAwardByNumber

LEMMA ByTitleKeeps ==
    ASSUME ResolverInv, NEW answer \in LookupAnswers, NEW i \in DOMAIN funding,
           ResolveAwardByTitle(i, answer)
    PROVE  ResolverInv'
<1> DEFINE e == funding[i]
           then(search, award) == [e EXCEPT !.asks = search, !.award = award]
<1>1. stage = "funding" /\ e.asks = "title"
  BY DEF ResolveAwardByTitle
<1>2. e \in Asking(i) /\ Justified(e)
  BY <1>1 DEF ResolverInv
<1>3. e.title # None
  BY <1>1, <1>2 DEF Justified
<1>4. Justified(then("nothing", None))
  BY <1>2 DEF Justified, Asking
<1>5. ASSUME Uncaught(e.title, answer), RaiseInAttempt(TRUE) PROVE ResolverInv'
  <2>1. e.title \in Asked(extracted)
    BY <1>1, <1>2, <1>3, AskedAt DEF Asking, ResolverInv
  <2>2. QED BY <1>1, <1>5, <2>1, UncaughtOnes, RaiseKeeps DEF ResolverInv
<1>6. ASSUME Continue(i, "nothing", None) PROVE ResolverInv'
  BY <1>1, <1>4, <1>6, ContinueKeeps
<1>7. ASSUME NEW hits \in Hits(ByTitle(e), 2), Unambiguous(hits, e), Continue(i, "nothing", hits[1])
      PROVE  ResolverInv'
  <2> DEFINE a == hits[1]
  <2>1. hits # <<>>
    BY <1>7 DEF Unambiguous
  <2>2. /\ a \in ByTitle(e)
        /\ Len(hits) = 1 => ByTitle(e) = {a}
    BY <2>1, HitsMatch, AwardsFound
  <2>3. a \in OfFunder(e) /\ a \in Catalogue
    BY <2>2, AwardsFound
  <2>4. ByTitle(e) = {a} \/ e.title \in a.acronymIn
    BY <1>7, <2>2 DEF Unambiguous
  <2> HIDE DEF a
  <2>5. /\ then("nothing", a).award = a /\ then("nothing", a).asks = "nothing"
        /\ then("nothing", a).title = e.title
        /\ OfFunder(then("nothing", a)) = OfFunder(e)
        /\ ByTitle(then("nothing", a)) = ByTitle(e)
    BY <1>2 DEF Asking, OfFunder, ByTitle
  <2>6. Justified(then("nothing", a))
    BY <1>3, <2>2, <2>3, <2>4, <2>5 DEF Justified
  <2>7. QED BY <1>1, <1>7, <2>3, <2>6, ContinueKeeps DEF a
<1>8. QED BY <1>5, <1>6, <1>7 DEF ResolveAwardByTitle

LEMMA GatheredKeeps == ASSUME ResolverInv, FundingGathered PROVE ResolverInv'
<1> DEFINE entries == EntriesOf(funding)
           r == [field |-> "funding", value |-> entries]
<1>1. /\ base_url' = base_url /\ extracted' = extracted /\ attempt' = attempt
      /\ funding' = funding /\ stage = "funding" /\ stage' = "returned"
      /\ suggestions' = suggestions \o IF entries = <<>> THEN <<>> ELSE <<r>>
  BY DEF FundingGathered, argument, EntriesOf
<1>2. \A i : Asking(i)' = Asking(i)
  BY <1>1 DEF Asking
<1>3. EntriesOf(funding)' = entries
  BY <1>1
<1> HIDE DEF entries
<1>4. IsList(suggestions) /\ suggestions \in Seq(Range(suggestions))
  BY DEF ResolverInv, IsList, Range
<1>5. base_url # "none" /\ ValuesOf(suggestions, "funding") = {}
      /\ ValuesOf(suggestions, "creators") \subseteq {Creators(extracted)}
  BY <1>1 DEF ResolverInv
<1>6. CASE entries = <<>>
  <2>1. suggestions' = suggestions
    BY <1>1, <1>4, <1>6
  <2>2. ValuesOf(suggestions, "funding")' = {} /\ IsList(suggestions)'
        /\ ValuesOf(suggestions, "creators")' \subseteq {Creators(extracted)}
    BY <1>4, <1>5, <2>1
  <2>3. QED BY <1>1, <1>2, <1>3, <1>5, <1>6, <2>2 DEF ResolverInv, FailureOnlyCostsDetail, OnlyCaught
<1>7. CASE entries # <<>>
  <2>1. suggestions' = suggestions \o <<r>> /\ r.field = "funding" /\ r.value = entries
    BY <1>1, <1>7
  <2> HIDE DEF r
  <2>2. /\ IsList(suggestions)'
        /\ ValuesOf(suggestions, "funding")' = {entries}
        /\ ValuesOf(suggestions, "creators")' \subseteq {Creators(extracted)}
    BY <1>4, <1>5, <2>1, ValuesOfAppended
  <2>3. QED BY <1>1, <1>2, <1>3, <1>5, <1>7, <2>2 DEF ResolverInv, FailureOnlyCostsDetail, OnlyCaught
<1>8. QED BY <1>6, <1>7

LEMMA BeginKeeps == ASSUME ResolverInv, BeginAttempt PROVE ResolverInv'
<1>1. /\ base_url' = base_url /\ extracted' = extracted /\ attempt' = attempt
      /\ extracted \in Metadata /\ stage = "begin"
      /\ suggestions' = FromExtracted(extracted)
  BY DEF BeginAttempt, argument, ResolverInv
<1>2. /\ IsList(suggestions)'
      /\ ValuesOf(suggestions, "creators")' \subseteq {Creators(extracted)}
      /\ ValuesOf(suggestions, "funding")' = {}
  BY <1>1, FieldsOfExtracted
<1>3. CASE base_url = "none"
  <2>1. stage' = "returned" /\ funding' = <<>>
    BY <1>3 DEF BeginAttempt, ResolverInv
  <2>2. QED BY <1>1, <1>2, <1>3, <2>1 DEF ResolverInv, FailureOnlyCostsDetail, OnlyCaught
<1>4. CASE base_url # "none"
  <2>1. stage' = "licenses" /\ funding' = [i \in 1..Size(extracted) |-> Entry(i)]
    BY <1>4 DEF BeginAttempt
  <2>2. \A i : Asking(i)' = Asking(i)
    BY <1>1 DEF Asking
  <2>3. \A i : Entry(i) \in Asking(i) /\ Justified(Entry(i))
    BY DEF Entry, Asking, Justified
  <2>l. \A k \in DOMAIN licenses' : licenses'[k].id \in Asked(extracted)
    <3>1. licenses' = [k \in DOMAIN extracted.license |->
                          [id |-> Lower[extracted.license[k]], known |-> "pending"]]
      BY <1>4 DEF BeginAttempt
    <3>2. QED BY <3>1 DEF Asked, Range
  <2>4. QED BY <1>1, <1>2, <1>4, <2>1, <2>2, <2>3, <2>l DEF ResolverInv, FailureOnlyCostsDetail, OnlyCaught
<1>5. QED BY <1>3, <1>4

LEMMA ResolverNext == ResolverInv /\ [NextResolver]_resolving => ResolverInv'
<1> SUFFICES ASSUME ResolverInv, [NextResolver]_resolving PROVE ResolverInv'
  OBVIOUS
<1>1. CASE UNCHANGED resolving
  <2>1. /\ base_url' = base_url /\ extracted' = extracted /\ attempt' = attempt
        /\ stage' = stage /\ licenses' = licenses /\ funding' = funding /\ suggestions' = suggestions
    BY <1>1 DEF resolving, argument
  <2>2. \A i : Asking(i)' = Asking(i)
    BY <2>1 DEF Asking
  <2>3. QED BY <2>1, <2>2 DEF ResolverInv, FailureOnlyCostsDetail, OnlyCaught
<1>2. CASE BeginAttempt
  BY <1>2, BeginKeeps
<1>3. CASE HostNotAllowed
  BY <1>3, RaiseKeeps DEF HostNotAllowed, OnlyCaught
<1>4. CASE LicensesGathered
  <2> DEFINE r == [field |-> "license", value |-> licenses]
  <2>1. /\ stage = "licenses" /\ stage' = "funding" /\ UNCHANGED <<argument, attempt, funding>>
        /\ suggestions' = suggestions \o IF licenses = <<>> THEN <<>> ELSE <<r>>
    BY <1>4 DEF LicensesGathered
  <2>2. IsList(suggestions) /\ suggestions \in Seq(Range(suggestions))
    BY DEF ResolverInv, IsList, Range
  <2>3. r.field = "license" /\ (suggestions' = suggestions \/ suggestions' = suggestions \o <<r>>)
    BY <2>1, <2>2
  <2> HIDE DEF r
  <2>4. /\ IsList(suggestions')
        /\ ValuesOf(suggestions', "creators") = ValuesOf(suggestions, "creators")
        /\ ValuesOf(suggestions', "funding") = ValuesOf(suggestions, "funding")
    <3>1. r.field # "creators" /\ r.field # "funding"
      BY <2>3
    <3>2. \A f : /\ IsList(suggestions \o <<r>>)
                 /\ ValuesOf(suggestions \o <<r>>, f) =
                       ValuesOf(suggestions, f) \cup (IF r.field = f THEN {r.value} ELSE {})
      BY <2>2, ValuesOfAppended
    <3>3. QED BY <2>2, <2>3, <3>1, <3>2
  <2>5. QED BY <2>1, <2>4, LicensesKeep
<1>5. CASE FundingGathered
  BY <1>5, GatheredKeeps
<1>6. ASSUME NEW answer \in LookupAnswers, NEW k \in DOMAIN licenses, ResolveLicense(k, answer)
      PROVE  ResolverInv'
  <2>0. stage = "licenses" /\ licenses[k].id \in Asked(extracted) /\ base_url # "none"
    BY <1>6 DEF ResolveLicense, ResolverInv
  <2>1. CASE Uncaught(licenses[k].id, answer) /\ RaiseInAttempt(TRUE)
    BY <1>6, <2>0, <2>1, UncaughtOnes, RaiseKeeps
  <2>2. CASE /\ licenses' = [licenses EXCEPT ![k].known = answer]
             /\ UNCHANGED <<argument, attempt, stage, funding, suggestions>>
    <3>1. DOMAIN licenses' = DOMAIN licenses
          /\ \A j \in DOMAIN licenses : licenses'[j].id = licenses[j].id
      BY <2>2
    <3>2. \A j \in DOMAIN licenses' : licenses'[j].id \in Asked(extracted)
      BY <2>0, <3>1 DEF ResolverInv
    <3>3. QED BY <2>0, <2>2, <3>2, LicensesKeep DEF ResolverInv
  <2>3. QED BY <1>6, <2>1, <2>2 DEF ResolveLicense
<1>7. QED
  BY <1>1, <1>2, <1>3, <1>4, <1>5, <1>6, ByNumberKeeps, ByTitleKeeps DEF NextResolver, Resolve

\* The invariant of the lookups: each coroutine keeps to its position, and
\* holds an award only for what that position says.
THEOREM ResolverInvariant == SpecResolver => []ResolverInv
<1>1. InitResolver => ResolverInv  BY ResolverInit
<1>2. ResolverInv /\ [NextResolver]_resolving => ResolverInv'  BY ResolverNext
<1>3. QED BY <1>1, <1>2, PTL DEF SpecResolver

\* Whatever the model extracted that makes requests: requests that fail, statuses
\* other than success and bodies that are no JSON never fail the activity, of
\* whichever lookups and in whichever order.
THEOREM FailureAlwaysOnlyCostsDetail == SpecResolver => []FailureOnlyCostsDetail
<1>1. ResolverInv => FailureOnlyCostsDetail  BY DEF ResolverInv
<1>2. QED BY <1>1, ResolverInvariant, PTL

\* An award taken for a title is the only one, or its acronym is in the title.
THEOREM TitleAlwaysDecides == SpecResolver => []TitleDecides
<1>1. ResolverInv => TitleDecides
  <2> SUFFICES ASSUME ResolverInv, stage = "returned", NEW i \in DOMAIN funding,
                      funding[i].award # None, funding[i].number \notin funding[i].award.foundByNumber
               PROVE  LET e == funding[i]
                      IN  ByTitle(e) = {e.award} \/ e.title \in e.award.acronymIn
    BY DEF TitleDecides
  <2>1. base_url # "none"
    BY DEF ResolverInv
  <2>2. Justified(funding[i])
    BY <2>1 DEF ResolverInv
  <2>3. QED BY <2>2 DEF Justified
<1>2. QED BY <1>1, ResolverInvariant, PTL

\* A creator keeps what was extracted with it, whatever lists the model gives.
THEOREM CreatorAlwaysKeepsOrcid == SpecResolver => []CreatorKeepsOrcid
<1>1. ASSUME NEW m \in Metadata, NEW j \in DOMAIN Creators(m)
      PROVE  \E i \in DOMAIN m.creators :
                LET c == Creators(m)[j]
                    own(list, v) == i \in DOMAIN list /\ list[i] = v
                IN  /\ c.name = m.creators[i]
                    /\ c.orcid = None \/ own(m.creator_orcids, c.orcid)
                    /\ c.affiliation = None \/ own(m.creator_affiliations, c.affiliation)
  <2> DEFINE creator(i) ==
               [name |-> m.creators[i],
                orcid |-> LET o == At(m.creator_orcids, i) IN IF o = Invalid THEN None ELSE o,
                affiliation |-> At(m.creator_affiliations, i)]
             K == {i \in DOMAIN m.creators : m.creators[i] # None}
             zipped == [i \in DOMAIN m.creators |-> creator(i)]
  <2>1. Creators(m) = Picked(zipped, K)
    BY DEF Creators
  <2>2. m["creators"] \in Seq(Range(m["creators"]))
        /\ m["creator_orcids"] \in Seq(Range(m["creator_orcids"]))
        /\ m["creator_affiliations"] \in Seq(Range(m["creator_affiliations"]))
    BY ResolverAssumption DEF Lists
  <2>3. PICK n \in Nat : DOMAIN m.creators = 1..n
    BY <2>2
  <2>4. K \in SUBSET (1..n)
    BY <2>3
  <2> HIDE DEF K, zipped
  <2>9. IsFiniteSet(K) /\ K \in SUBSET Int
    BY <2>3, <2>4, FinitePositions
  <2>13. /\ DOMAIN Picked(zipped, K) = 1..Cardinality(K)
         /\ \A l \in 1..Cardinality(K) : \E k \in K : Picked(zipped, K)[l] = zipped[k]
    BY <2>9, PickedAt
  <2>5. PICK i \in K : Creators(m)[j] = zipped[i]
    BY <2>1, <2>13
  <2>6. i \in DOMAIN m.creators /\ i \in Nat \ {0} /\ zipped[i] = creator(i)
    BY <2>3, <2>4 DEF zipped
  <2>7. \A list : list \in Seq(Range(list)) /\ At(list, i) # None => i \in DOMAIN list /\ list[i] = At(list, i)
    BY <2>6 DEF At
  <2> DEFINE c == Creators(m)[j]
             o == At(m.creator_orcids, i)
  <2>10. c.name = m.creators[i] /\ c.affiliation = At(m.creator_affiliations, i)
         /\ (c.orcid = None \/ c.orcid = o)
    BY <2>5, <2>6
  <2>11. c.orcid = None \/ (i \in DOMAIN m.creator_orcids /\ m.creator_orcids[i] = c.orcid)
    BY <2>2, <2>7, <2>10
  <2>12. c.affiliation = None
         \/ (i \in DOMAIN m.creator_affiliations /\ m.creator_affiliations[i] = c.affiliation)
    BY <2>2, <2>7, <2>10
  <2>8. QED BY <2>6, <2>10, <2>11, <2>12
<1>2. ResolverInv => CreatorKeepsOrcid
  BY <1>1 DEF ResolverInv, CreatorKeepsOrcid, Suggested, ValuesOf
<1>3. QED BY <1>2, ResolverInvariant, PTL

\* What a coroutine found is an entry exactly if its position says anything.
LEMMA EntryIfSaid ==
    ASSUME ResolverInv, NEW i \in Nat \ {0}, NEW e \in Asking(i), Justified(e)
    PROVE  (Resolved(e).award # None \/ Resolved(e).funder # None) <=> Said(i)
<1> DEFINE n == At(extracted.funding_numbers, i)
           t == At(extracted.funding_titles, i)
           f == At(extracted.funding_funders, i)
<1>1. e.number = n /\ e.title = t /\ e.funder = f /\ e.award \in Catalogue \cup {None}
  BY DEF Asking
<1>2. /\ n \in Values("funding_numbers") \cup {None}
      /\ t \in Values("funding_titles") \cup {None}
      /\ f \in Values("funding_funders") \cup {None}
  <2>1. extracted \in Metadata
    BY DEF ResolverInv
  <2>2. "funding_numbers" \in Lists /\ "funding_titles" \in Lists /\ "funding_funders" \in Lists
    BY DEF Lists
  <2>3. At(extracted["funding_numbers"], i) \in Values("funding_numbers") \cup {None}
    BY <2>1, <2>2, AtIsItem
  <2>4. At(extracted["funding_titles"], i) \in Values("funding_titles") \cup {None}
    BY <2>1, <2>2, AtIsItem
  <2>5. At(extracted["funding_funders"], i) \in Values("funding_funders") \cup {None}
    BY <2>1, <2>2, AtIsItem
  <2>6. QED BY <2>3, <2>4, <2>5
<1> HIDE DEF n, t, f
<1>3. Said(i) <=> n # None \/ t # None \/ f # None
  BY DEF Said, n, t, f
<1>4. CASE e.award # None
  <2> DEFINE a == e.award
             shown == [id |-> a.id, number |-> a.number, title |-> a.title]
  <2>1. a \in Catalogue
    BY <1>1, <1>4
  <2>2. shown \in AwardShown
    BY <2>1 DEF AwardShown
  <2>3. Resolved(e).award = shown
    BY <1>4 DEF Resolved
  <2>4. Resolved(e).award # None
    BY <2>2, <2>3, ResolverAssumption
  <2>5. n # None \/ t # None
    BY <1>1, <1>4 DEF Justified
  <2>6. QED BY <1>3, <2>4, <2>5
<1>5. CASE e.award = None /\ (n # None \/ t # None)
  <2> DEFINE shown == [id |-> None, number |-> n, title |-> t]
  <2>1. shown \in AwardShown
    BY <1>2 DEF AwardShown
  <2>2. Resolved(e).award = shown
    BY <1>1, <1>5 DEF Resolved
  <2>3. Resolved(e).award # None
    BY <2>1, <2>2, ResolverAssumption
  <2>4. QED BY <1>3, <1>5, <2>3
<1>6. CASE e.award = None /\ n = None /\ t = None
  <2>1. Resolved(e).award = None
        /\ Resolved(e).funder = IF f # None THEN FunderRorIds[f] ELSE None
    BY <1>1, <1>6 DEF Resolved
  <2>2. f # None => FunderRorIds[f] # None
    BY <1>2, ResolverAssumption DEF Range
  <2>3. QED BY <1>3, <1>6, <2>1, <2>2
<1>7. QED BY <1>4, <1>5, <1>6

\* The entries of the result, position by position.
LEMMA EntriesByPosition ==
    ASSUME ResolverInv, stage = "returned", base_url # "none"
    PROVE  /\ (Positions = {}) = (Suggested("funding") = {})
           /\ \A entries \in Suggested("funding") :
                  /\ Len(entries) = Cardinality(Positions)
                  /\ \A i \in Positions : EntryOf(entries, i) = Resolved(funding[i])
           /\ \A i \in Positions : i \in Nat \ {0} /\ funding[i] \in Asking(i) /\ Justified(funding[i])
<1> DEFINE resolved == [i \in DOMAIN funding |-> Resolved(funding[i])]
           entries == Picked(resolved, Positions)
           N == Size(extracted)
<1>1. /\ N \in Nat /\ DOMAIN funding = 1..N
      /\ \A i \in 1..N : i \in Nat \ {0} /\ funding[i] \in Asking(i) /\ Justified(funding[i])
  BY SizeIsNat DEF ResolverInv
<1>2. Positions \in SUBSET (1..N)
  BY DEF Positions
<1>3. \A i \in 1..N : (resolved[i].award # None \/ resolved[i].funder # None) <=> Said(i)
  BY <1>1, EntryIfSaid
<1>4. EntriesOf(funding) = entries
  <2>1. Positions = {i \in DOMAIN funding : resolved[i].award # None \/ resolved[i].funder # None}
    BY <1>1, <1>3 DEF Positions
  <2>2. QED BY <2>1 DEF EntriesOf
<1>5. IsFiniteSet(Positions) /\ Positions \in SUBSET Int
  BY <1>1, <1>2, FinitePositions
<1>6. \A i \in Positions : resolved[i] = Resolved(funding[i])
  BY <1>1, <1>2
<1> HIDE DEF resolved, N
<1>7. /\ Len(entries) = Cardinality(Positions)
      /\ (Positions = {}) = (entries = <<>>)
      /\ \A i \in Positions : entries[Rank(Positions, i)] = resolved[i]
  BY <1>5, PickedAt
<1>8. Suggested("funding") = IF entries # <<>> THEN {entries} ELSE {}
  BY <1>4 DEF ResolverInv, Suggested, ValuesOf
<1>9. QED BY <1>1, <1>2, <1>6, <1>7, <1>8 DEF EntryOf

\* A funder that is named is kept, whatever the instance answers.
THEOREM KnownFunderAlwaysKept == SpecResolver => []KnownFunderKept
<1>1. ResolverInv => KnownFunderKept
  <2> SUFFICES ASSUME ResolverInv, stage = "returned",
                      NEW entries \in Suggested("funding"), NEW i \in Positions,
                      i <= Len(extracted.funding_funders), extracted.funding_funders[i] # None
               PROVE  EntryOf(entries, i).funder = FunderRorIds[extracted.funding_funders[i]]
    BY DEF KnownFunderKept
  <2> DEFINE e == funding[i]
             f == extracted.funding_funders[i]
  <2>1. base_url # "none"
    BY DEF ResolverInv, Suggested, ValuesOf
  <2>2. EntryOf(entries, i) = Resolved(e) /\ e \in Asking(i) /\ Justified(e)
    BY <2>1, EntriesByPosition
  <2>3. e.funder = f
    BY <2>2 DEF Asking, At
  <2>4. e.award # None => e.award.funder = FunderRorIds[f]
    BY <2>2, <2>3 DEF Justified, OfFunder
  <2>5. Resolved(e).funder = IF e.award # None THEN e.award.funder
                             ELSE IF e.funder # None THEN FunderRorIds[e.funder] ELSE None
    BY DEF Resolved
  <2>6. QED BY <2>2, <2>3, <2>4, <2>5
<1>2. QED BY <1>1, ResolverInvariant, PTL

\* Entries belong to positions, for lists of any lengths and answers in any order.
THEOREM EntryAlwaysOfItsPosition == SpecResolver => []EntryOfItsPosition
<1>1. ResolverInv => EntryOfItsPosition
  <2> SUFFICES ASSUME ResolverInv, stage = "returned", base_url # "none",
                      NEW entries \in Suggested("funding"), NEW i \in Positions
               PROVE  LET item(list) == IF i \in DOMAIN list THEN list[i] ELSE None
                          n == item(extracted.funding_numbers)
                          t == item(extracted.funding_titles)
                          a == EntryOf(entries, i).award
                      IN  \/ a = None /\ n = None /\ t = None
                          \/ a = [id |-> None, number |-> n, title |-> t]
                          \/ \E c \in Catalogue :
                                /\ a = [id |-> c.id, number |-> c.number, title |-> c.title]
                                /\ n \in c.foundByNumber \/ t \in c.foundBy
    BY EntriesByPosition DEF EntryOfItsPosition
  <2> DEFINE e == funding[i]
             item(list) == IF i \in DOMAIN list THEN list[i] ELSE None
             n == item(extracted.funding_numbers)
             t == item(extracted.funding_titles)
             a == EntryOf(entries, i).award
  <2>1. a = Resolved(e).award /\ i \in Nat \ {0} /\ e \in Asking(i) /\ Justified(e)
    BY EntriesByPosition
  <2>2. e.number = n /\ e.title = t
    <3>1. extracted \in Metadata /\ "funding_numbers" \in Lists /\ "funding_titles" \in Lists
      BY DEF ResolverInv, Lists
    <3>2. At(extracted["funding_numbers"], i) = n
      BY <2>1, <3>1, AtIsItem
    <3>3. At(extracted["funding_titles"], i) = t
      BY <2>1, <3>1, AtIsItem
    <3>4. e.number = At(extracted.funding_numbers, i) /\ e.title = At(extracted.funding_titles, i)
      BY <2>1 DEF Asking
    <3>5. QED BY <3>2, <3>3, <3>4
  <2> HIDE DEF n, t, a
  <2>3. CASE e.award # None
    <3>1. e.award \in Catalogue /\ (n \in e.award.foundByNumber \/ t \in e.award.foundBy)
      BY <2>1, <2>2, <2>3, AwardsFound DEF Justified, ByTitle
    <3>2. a = [id |-> e.award.id, number |-> e.award.number, title |-> e.award.title]
      BY <2>1, <2>3 DEF Resolved
    <3>3. \E c \in Catalogue : /\ a = [id |-> c.id, number |-> c.number, title |-> c.title]
                               /\ n \in c.foundByNumber \/ t \in c.foundBy
      BY <3>1, <3>2
    <3>4. QED BY <3>3 DEF n, t, a
  <2>4. CASE e.award = None
    <3>1. \/ a = None /\ n = None /\ t = None
          \/ a = [id |-> None, number |-> n, title |-> t]
      BY <2>1, <2>2, <2>4 DEF Resolved
    <3>2. QED BY <3>1 DEF n, t, a
  <2>5. QED BY <2>3, <2>4
<1>2. QED BY <1>1, ResolverInvariant, PTL

=============================================================================
