-------------------------- MODULE MetadataExtraction --------------------------
(***************************************************************************)
(* The data of one extract_metadata execution, activity by activity:       *)
(* extract_pdf_text turns a page selection into text, and                  *)
(* extract_metadata_with_llm asks a model for metadata and clears what the *)
(* text does not support.  A document is its pages, and a page is blank or *)
(* has text.  A value of the model is the sequence of its parts, runs of   *)
(* characters each of which stands on one page or nowhere; parts that      *)
(* follow each other in a value and stand on one page do so there as well, *)
(* and a value that leaves a page does it at the end of its text.          *)
(***************************************************************************)
EXTENDS Integers, Sequences, FiniteSets, Functions, InOrder

CONSTANTS
    Selections,     \* page lists a request may name, sequences of integers
    MaxPages,       \* bound: pages of a document
    Extractors,     \* names a request may give
    Written,        \* what the model may write into a field
    Dois            \* those that is_doi accepts

ASSUME ExtractionAssumption ==
    /\ Selections \subseteq Seq(Int)
    /\ MaxPages \in Nat
    /\ Written \subseteq Seq(0..MaxPages) /\ <<>> \notin Written
    /\ Dois \subseteq Written

VARIABLES
    request,        \* url, extractor and pages of the workflow's params
    total,          \* pages of the document
    blank,          \* those without text, or with too little to read
    at,             \* the step the execution has reached
    text,           \* the pages in full_text, in their order
    reported,       \* pages_extracted
    metadata        \* the fields of ExtractedMetadata that are checked

docVars == <<request, total, blank>>
vars == <<docVars, at, text, reported, metadata>>

Pages == 1..MaxPages
Supported == {"pdfplumber", "pymupdf"}
\* The fields _clear_absent_fields looks at.
Checked == {"title", "description", "doi"}

Unset == <<>>       \* a field that is None or empty
Nowhere == 0        \* where a part stands that the document does not have
NothingFound == [f \in Checked |-> Unset]

\* The share of a value that has to be found, in percent: _PRESENCE_THRESHOLDS,
\* and all of a DOI.
Share == [f \in Checked |-> IF f = "title" THEN 85 ELSE IF f = "description" THEN 80 ELSE 100]

Request == [host : {"local", "allowed", "other"},
            extractor : Extractors,
            all : BOOLEAN,              \* pages is None
            pages : Selections]

Init ==
    /\ request \in {r \in Request : r.all => r.pages = <<>>}
    /\ total \in 0..MaxPages
    /\ blank \in SUBSET (1..total)
    /\ at = "requested"
    /\ text = <<>>
    /\ reported = <<>>
    /\ metadata = NothingFound

-----------------------------------------------------------------------------
(* resolve_pages *)

\* The 1-based page a number of the selection means.
PageOf(p, n) == IF p > 0 THEN p ELSE n + p + 1

\* Mutant of OutOfRange: the last page counts as beyond the end.
BeyondLast(p, n) == p >= n \/ p < -n

OutOfRange(p, n) == p > n \/ p < -n

InvalidSelection(sel, n) == n < 1 \/ \E i \in DOMAIN sel : sel[i] = 0

ResolvePages(sel, n) ==
    {PageOf(sel[i], n) : i \in {j \in DOMAIN sel : ~OutOfRange(sel[j], n)}}

\* The pages an extractor goes through: every page when none was selected, and
\* also when the selection has no page of the document.
PageIndices(r, n) ==
    IF r.all \/ ResolvePages(r.pages, n) = {}
    THEN 1..n
    ELSE ResolvePages(r.pages, n)

-----------------------------------------------------------------------------
(* extract_pdf_text *)

Stops(how) ==
    /\ at' = how
    /\ UNCHANGED <<docVars, text, reported, metadata>>

\* http_verify lets local hosts and those of the allowlist through.
CheckHost ==
    /\ at = "requested"
    /\ Stops(IF request.host = "other" THEN "HostNotAllowed" ELSE "verified")

Download ==
    /\ at = "verified"
    /\ \/ Stops("downloaded")
       \/ Stops("raised")

\* A file that is no PDF raises as well, and is retried like a failed request.
Unreadable ==
    /\ at = "downloaded"
    /\ request.extractor \in Supported
    /\ Stops("raised")

Refused ==
    /\ at = "downloaded"
    /\ \/ request.extractor \notin Supported /\ Stops("InvalidExtractor")
       \/ /\ request.extractor \in Supported
          /\ ~request.all
          /\ InvalidSelection(request.pages, total)
          /\ Stops("InvalidPageSelection")

\* pymupdf4llm is handed the resolved list as it is: an empty one is its own
\* affair, and may mean no page or every page.
TextPages ==
    IF request.extractor = "pymupdf" /\ ~request.all
       /\ ResolvePages(request.pages, total) = {}
    THEN {{}, 1..total}
    ELSE {PageIndices(request, total)}

Extract ==
    /\ at = "downloaded"
    /\ request.extractor \in Supported
    /\ request.all \/ ~InvalidSelection(request.pages, total)
    /\ \E ps \in TextPages : text' = Ascending(ps)
    /\ reported' = Ascending(PageIndices(request, total))
    /\ at' = "extracted"
    /\ UNCHANGED <<docVars, metadata>>

-----------------------------------------------------------------------------
(* extract_metadata_with_llm *)

\* The pages a reader of full_text can find something on.
Readable == {p \in Range(text) : p \notin blank}

\* Fewer than MIN_TEXT_CHARS characters: the model is not asked.
TooShort ==
    /\ at = "extracted"
    /\ Readable = {}
    /\ at' = "generated"
    /\ metadata' = NothingFound
    /\ UNCHANGED <<docVars, text, reported>>

\* The parts of v at these positions, all on these pages and in their order.
StandIn(v, parts, pages) ==
    /\ \A i \in parts : v[i] \in pages
    /\ \A i, j \in parts : i < j => v[i] <= v[j]

\* The text has the value as it is, from the end of one page over to the next.
Contained(v) ==
    /\ StandIn(v, DOMAIN v, Readable)
    /\ \A i \in 2..Len(v) : \A p \in Readable : ~(v[i - 1] < p /\ p < v[i])

\* Matching blocks, in the order of the text, may make up the share of the field.
\* Which blocks SequenceMatcher settles on is its own affair, and one character
\* is a block.
Covered(f, v) ==
    \E blocks \in SUBSET DOMAIN v :
        /\ StandIn(v, blocks, Readable)
        /\ 100 * Cardinality(blocks) >= Share[f] * Len(v)

\* Mutant of Kept: a DOI need not be in the text.
KeptDoi(f, v) ==
    IF f = "doi" THEN {IF v \in Dois THEN v ELSE Unset}
    ELSE IF Contained(v) THEN {v} ELSE {Unset} \cup {w \in {v} : Covered(f, w)}

\* What _clear_absent_fields may leave in a field.
Kept(f, v) ==
    IF f = "doi" THEN {IF v \in Dois /\ Contained(v) THEN v ELSE Unset}
    ELSE IF Contained(v) THEN {v} ELSE {Unset} \cup {w \in {v} : Covered(f, w)}

\* The model may return anything, from memory or invented.
Answers == [Checked -> Written \cup {Unset}]

Generate ==
    /\ at = "extracted"
    /\ Readable # {}
    /\ \E output \in Answers :
        metadata' \in [title : Kept("title", output["title"]),
                      description : Kept("description", output["description"]),
                      doi : Kept("doi", output["doi"])]
    /\ at' = "generated"
    /\ UNCHANGED <<docVars, text, reported>>

ModelFails ==
    /\ at = "extracted"
    /\ Readable # {}
    /\ Stops("raised")

Ended == {"HostNotAllowed", "InvalidExtractor", "InvalidPageSelection", "raised",
          "generated"}

Resting == at \in Ended /\ UNCHANGED vars

-----------------------------------------------------------------------------
(* Properties *)

HasText == at \in {"extracted", "generated"}

\* The selection as the docstring of BaseExtractor.extract puts it: page p, or
\* the page that is p-th from the end.
Requested(sel, n) ==
    {p \in 1..n : \E i \in DOMAIN sel : sel[i] = p \/ sel[i] = p - n - 1}

\* A selection with a page of the document is honoured: exactly those pages
\* are read, once each and in the order of the document, and are the ones
\* reported, however the numbers repeat, overlap or overshoot.
SelectionHonoured ==
    HasText /\ ~request.all /\ Requested(request.pages, total) # {} =>
        /\ Range(text) = Requested(request.pages, total)
        /\ Len(text) = Cardinality(Range(text))
        /\ \A i, j \in DOMAIN text : i < j => text[i] < text[j]
        /\ reported = text

\* The pages a request asks for: all of them where it names none of the document.
AskedFor ==
    IF request.all \/ Requested(request.pages, total) = {}
    THEN 1..total
    ELSE Requested(request.pages, total)

\* Whatever the model answers, of a title that reaches the suggestions 85 %, of
\* a description 80 % and of a DOI everything stands on pages the request asked
\* for, in the order of the document and not of the request, although other
\* pages might support more of it.  (Not that it stands there in one piece:
\* _coverage counts characters wherever they are, and pages that have enough of
\* them in the right order support a title they never had.)
NothingInvented ==
    \A f \in Checked :
        metadata[f] # Unset =>
            \E parts \in SUBSET DOMAIN metadata[f] :
                /\ StandIn(metadata[f], parts, AskedFor \ blank)
                /\ 100 * Cardinality(parts) >= Share[f] * Len(metadata[f])

\* base.py: "pages: Optional list of pages to extract".
OnlyRequestedPages ==
    HasText /\ ~request.all => Range(text) \subseteq Requested(request.pages, total)

=============================================================================
