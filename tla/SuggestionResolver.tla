--------------------------- MODULE SuggestionResolver ---------------------------
(***************************************************************************)
(* resolve_metadata_suggestions: what the model extracted becomes the      *)
(* suggestions of a workflow.  Licences, then funding entries, are looked  *)
(* up in parallel in the vocabularies of an Invenio instance; a lookup     *)
(* that fails falls back, one that raises fails the attempt.               *)
(***************************************************************************)
EXTENDS Integers, Sequences, FiniteSets, Functions, FiniteSetsExt, InOrder

CONSTANTS
    Metadata,       \* values of ExtractedMetadata, records of parallel lists
    FunderRorIds,   \* FUNDER_ROR_IDS, from the known funders to ROR ids
    Catalogue,      \* awards of the instance, see below
    BaseUrls,       \* what invenio_base_url may be, a subset of UrlKinds
    Lower,          \* str.lower, on the licences
    Unsendable,     \* texts of which httpx makes no request: control characters
                    \* in the path of a URL, and what makes it too long
    Invalid,        \* what the model gave for an ORCID and is none
    None            \* None and the empty string, both false

UrlKinds == {"none",    \* not configured
             "refused", \* by http_allowlist
             "sound",   \* an instance whose answers are a success or a failure
             "odd"}     \* one that also gives malformed ones

\* A failure is an httpx.HTTPError, a status other than success or a body that is
\* no JSON; a success that is malformed is not in UTF-8, or lacks what is read.
AnswerKinds == {"success", "failure", "malformed"}
MaximumAttempts == 3    \* RESOLVE_METADATA_RETRY_POLICY
TextFields == <<"title", "description", "creators", "doi", "publication_date", "copyright">>

Lists == {"creators", "creator_orcids", "creator_affiliations", "license",
          "funding_titles", "funding_numbers", "funding_funders"}
Values(list) == UNION {Range(m[list]) : m \in Metadata}

\* What an entry may say of its award: one of the catalogue, or a custom one.
AwardShown == [id : {a.id : a \in Catalogue} \cup {None},
               number : {a.number : a \in Catalogue} \cup Values("funding_numbers") \cup {None},
               title : {a.title : a \in Catalogue} \cup Values("funding_titles") \cup {None}]

\* The schema lets the model name none but the known funders.
ASSUME ResolverAssumption ==
    /\ BaseUrls \subseteq UrlKinds
    /\ \A m \in Metadata, list \in Lists : m[list] \in Seq(Range(m[list]))
    /\ Values("funding_funders") \subseteq DOMAIN FunderRorIds \cup {None}
    /\ None \notin Range(FunderRorIds)
    /\ Values("license") \subseteq DOMAIN Lower
    /\ IsFiniteSet(Catalogue)
    /\ None \notin Catalogue
    /\ None \notin AwardShown

VARIABLES
    base_url,       \* the setting
    extracted,      \* the metadata it is called with
    attempt,        \* attempts of the activity begun so far
    stage,          \* "begin", "licenses", "funding", "returned" or "failed"
    licenses,       \* per licence: the pending id, or what it resolved to
    funding,        \* per position: where its coroutine is and what it found
    suggestions     \* the result: fields with their values

argument == <<base_url, extracted>>
resolving == <<argument, attempt, stage, licenses, funding, suggestions>>

-----------------------------------------------------------------------------

\* Mutant of At: the list without its empty entries.
AtPacked(values, i) ==
    LET packed == SelectSeq(values, LAMBDA v : v # None)
    IN  IF i <= Len(packed) THEN packed[i] ELSE None

At(values, i) == IF i <= Len(values) THEN values[i] ELSE None

Size(m) == Max({Len(m.funding_titles), Len(m.funding_numbers), Len(m.funding_funders)})

\* Mutant of Creators: the nameless are dropped before the lists are zipped.
CreatorsZippedLate(m) ==
    LET named == SelectSeq(m.creators, LAMBDA n : n # None)
    IN  [i \in DOMAIN named |->
            [name |-> named[i], orcid |-> At(m.creator_orcids, i),
             affiliation |-> At(m.creator_affiliations, i)]]

\* is_orcid and normalize_orcid; a name of blanks is dropped with its creator.
Creators(m) ==
    LET creator(i) ==
            [name |-> m.creators[i],
             orcid |-> LET o == At(m.creator_orcids, i) IN IF o = Invalid THEN None ELSE o,
             affiliation |-> At(m.creator_affiliations, i)]
    IN  Picked([i \in DOMAIN m.creators |-> creator(i)],
               {i \in DOMAIN m.creators : m.creators[i] # None})

\* MetadataSuggestions.from_extracted.
FromExtracted(m) ==
    LET value(f) == IF f = "creators" THEN Creators(m) ELSE f
        given(f) == IF f = "creators" THEN Creators(m) # <<>> ELSE f \in m.texts
        fields == Picked(TextFields, {i \in DOMAIN TextFields : given(TextFields[i])})
    IN  [i \in DOMAIN fields |-> [field |-> fields[i], value |-> value(fields[i])]]

InitResolver ==
    /\ base_url \in BaseUrls
    /\ extracted \in Metadata
    /\ attempt = 1
    /\ stage = "begin"
    /\ licenses = <<>>
    /\ funding = <<>>
    /\ suggestions = <<>>

\* The attempt raises: Temporal starts the next one, or gives up.
RaiseInAttempt(retryable) ==
    /\ IF retryable /\ attempt < MaximumAttempts
       THEN stage' = "begin" /\ attempt' = attempt + 1
       ELSE stage' = "failed" /\ UNCHANGED attempt
    /\ licenses' = <<>> /\ funding' = <<>> /\ suggestions' = <<>>
    /\ UNCHANGED argument

\* A coroutine looks up by number, then by title, then takes what it has.
Entry(i) ==
    LET n == At(extracted.funding_numbers, i)
        t == At(extracted.funding_titles, i)
    IN  [asks |-> IF n # None THEN "number" ELSE IF t # None THEN "title" ELSE "nothing",
         number |-> n, title |-> t, funder |-> At(extracted.funding_funders, i),
         award |-> None]

BeginAttempt ==
    /\ stage = "begin"
    /\ base_url # "refused"
    /\ suggestions' = FromExtracted(extracted)
    /\ IF base_url = "none"
       THEN stage' = "returned" /\ UNCHANGED <<licenses, funding>>
       ELSE /\ stage' = "licenses"
            /\ licenses' = [k \in DOMAIN extracted.license |->
                               [id |-> Lower[extracted.license[k]], known |-> "pending"]]
            /\ funding' = [i \in 1..Size(extracted) |-> Entry(i)]
    /\ UNCHANGED <<argument, attempt>>

\* http_verify refuses the host: an ApplicationError that is not retried.
HostNotAllowed == stage = "begin" /\ base_url = "refused" /\ RaiseInAttempt(FALSE)

-----------------------------------------------------------------------------

\* What a lookup of the text raises and none of them catches: they catch
\* httpx.HTTPError and JSONDecodeError, of which neither InvalidURL nor
\* UnicodeDecodeError, KeyError or AttributeError is one.
Uncaught(text, answer) == answer = "malformed" \/ text \in Unsendable

\* Mutant of ResolveLicense: the request stands outside the try.
ResolveLicenseUncaught(k, answer) ==
    /\ stage = "licenses"
    /\ licenses[k].known = "pending"
    /\ \/ answer # "success" /\ RaiseInAttempt(TRUE)
       \/ /\ answer = "success"
          /\ licenses' = [licenses EXCEPT ![k].known = answer]
          /\ UNCHANGED <<argument, attempt, stage, funding, suggestions>>

\* A failure leaves the id as the model gave it, in lower case.
ResolveLicense(k, answer) ==
    /\ stage = "licenses"
    /\ licenses[k].known = "pending"
    /\ \/ Uncaught(licenses[k].id, answer) /\ RaiseInAttempt(TRUE)
       \/ /\ ~Uncaught(licenses[k].id, answer)
          /\ licenses' = [licenses EXCEPT ![k].known = answer]
          /\ UNCHANGED <<argument, attempt, stage, funding, suggestions>>

LicensesGathered ==
    /\ stage = "licenses"
    /\ \A k \in DOMAIN licenses : licenses[k].known # "pending"
    /\ stage' = "funding"
    /\ suggestions' = suggestions \o
           IF licenses = <<>> THEN <<>> ELSE <<[field |-> "license", value |-> licenses]>>
    /\ UNCHANGED <<argument, attempt, licenses, funding>>

\* Mutant of OfFunder: the search is not narrowed.
OfAnyFunder(e) == Catalogue

\* The awards a search may show for an entry: those of its funder, if known.
OfFunder(e) == IF e.funder = None THEN Catalogue
               ELSE {a \in Catalogue : a.funder = FunderRorIds[e.funder]}

\* The instance's search: at most `size` of the awards that match, best first.
Hits(matching, size) ==
    {h \in [1..Min({size, Cardinality(matching)}) -> matching] : IsInjective(h)}

\* The query is not quoted, and the number of the hit is not compared with it.
ByNumber(e) == {a \in OfFunder(e) : e.number \in a.foundByNumber}
ByTitle(e) == {a \in OfFunder(e) : e.title \in a.foundBy}

\* Mutant of Unambiguous: the best match will do.
BestMatch(hits, e) == hits # <<>>

\* One match, or the acronym of the best one is found in the title.
Unambiguous(hits, e) ==
    Len(hits) = 1 \/ (hits # <<>> /\ e.title \in hits[1].acronymIn)

\* The coroutine of a position goes on with this search, or with none.
Continue(i, search, award) ==
    /\ funding' = [funding EXCEPT ![i].asks = search, ![i].award = award]
    /\ UNCHANGED <<argument, attempt, stage, licenses, suggestions>>

\* A search that fails is a search without hits.
ResolveAwardByNumber(i, answer) ==
    LET e == funding[i]
        next == IF e.title = None THEN "nothing" ELSE "title"
    IN  /\ stage = "funding"
        /\ e.asks = "number"
        /\ \/ Uncaught(e.number, answer) /\ RaiseInAttempt(TRUE)
           \/ ~Uncaught(e.number, answer) /\ answer = "failure" /\ Continue(i, next, None)
           \/ /\ ~Uncaught(e.number, answer) /\ answer = "success"
              /\ \E hits \in Hits(ByNumber(e), 1) :
                     IF hits = <<>> THEN Continue(i, next, None)
                     ELSE Continue(i, "nothing", hits[1])

ResolveAwardByTitle(i, answer) ==
    LET e == funding[i]
    IN  /\ stage = "funding"
        /\ e.asks = "title"
        /\ \/ Uncaught(e.title, answer) /\ RaiseInAttempt(TRUE)
           \/ ~Uncaught(e.title, answer) /\ answer = "failure" /\ Continue(i, "nothing", None)
           \/ /\ ~Uncaught(e.title, answer) /\ answer = "success"
              /\ \E hits \in Hits(ByTitle(e), 2) :
                     Continue(i, "nothing", IF Unambiguous(hits, e) THEN hits[1] ELSE None)

\* The end of _resolve_funding_entry; without anything it is None.
Resolved(e) ==
    [award |-> IF e.award # None
               THEN [id |-> e.award.id, number |-> e.award.number, title |-> e.award.title]
               ELSE IF e.number # None \/ e.title # None
               THEN [id |-> None, number |-> e.number, title |-> e.title]
               ELSE None,
     funder |-> IF e.award # None THEN e.award.funder
                ELSE IF e.funder # None THEN FunderRorIds[e.funder] ELSE None]

FundingGathered ==
    /\ stage = "funding"
    /\ \A i \in DOMAIN funding : funding[i].asks = "nothing"
    /\ LET resolved == [i \in DOMAIN funding |-> Resolved(funding[i])]
           entries == Picked(resolved, {i \in DOMAIN funding :
                          resolved[i].award # None \/ resolved[i].funder # None})
       IN  suggestions' = suggestions \o
               IF entries = <<>> THEN <<>> ELSE <<[field |-> "funding", value |-> entries]>>
    /\ stage' = "returned"
    /\ UNCHANGED <<argument, attempt, licenses, funding>>

LookupAnswers == IF base_url = "odd" THEN AnswerKinds ELSE AnswerKinds \ {"malformed"}

Resolve ==
    \/ BeginAttempt \/ HostNotAllowed \/ LicensesGathered \/ FundingGathered
    \/ \E answer \in LookupAnswers :
           \/ \E k \in DOMAIN licenses : ResolveLicense(k, answer)
           \/ \E i \in DOMAIN funding : ResolveAwardByNumber(i, answer)
           \/ \E i \in DOMAIN funding : ResolveAwardByTitle(i, answer)

NextResolver == Resolve \/ (stage \in {"returned", "failed"} /\ UNCHANGED resolving)

SpecResolver == InitResolver /\ [][NextResolver]_resolving

-----------------------------------------------------------------------------

\* The value of a field of the result, if it has one.
Suggested(f) ==
    {suggestions[i].value : i \in {j \in DOMAIN suggestions : suggestions[j].field = f}}

\* Positions that say anything, and the entry the result has for them.
Said(i) == \/ At(extracted.funding_titles, i) # None
           \/ At(extracted.funding_numbers, i) # None
           \/ At(extracted.funding_funders, i) # None
Positions == {i \in 1..Size(extracted) : Said(i)}
EntryOf(entries, i) == entries[Rank(Positions, i)]

(***************************************************************************)
(* A funder the paper names is the funder of its entry, whichever search   *)
(* found the award or failed to: an award of another funder is never taken *)
(* (the narrowing of both searches and the fallback to FUNDER_ROR_IDS).    *)
(***************************************************************************)
KnownFunderKept ==
    stage = "returned" => \A entries \in Suggested("funding"), i \in Positions :
        LET f == extracted.funding_funders
        IN  i <= Len(f) /\ f[i] # None
                => EntryOf(entries, i).funder = FunderRorIds[f[i]]

(***************************************************************************)
(* The entries are those of the positions that say anything, in order and  *)
(* each with its own number and title, although the three lists are of     *)
(* different lengths, any of their items may be missing and the lookups    *)
(* end in any order: an award in the catalogue was found by the number or  *)
(* by the title of its position, and one that is not repeats both.  (That  *)
(* the award has the number it was found by nobody promises.)              *)
(***************************************************************************)
EntryOfItsPosition ==
    stage = "returned" /\ base_url # "none" =>
        /\ (Positions = {}) = (Suggested("funding") = {})
        /\ \A entries \in Suggested("funding") :
               /\ Len(entries) = Cardinality(Positions)
               /\ \A i \in Positions :
                      LET item(list) == IF i \in DOMAIN list THEN list[i] ELSE None
                          n == item(extracted.funding_numbers)
                          t == item(extracted.funding_titles)
                          a == EntryOf(entries, i).award
                      IN  \/ a = None /\ n = None /\ t = None
                          \/ a = [id |-> None, number |-> n, title |-> t]
                          \/ \E c \in Catalogue :
                                /\ a = [id |-> c.id, number |-> c.number, title |-> c.title]
                                /\ n \in c.foundByNumber \/ t \in c.foundBy

(***************************************************************************)
(* Taking an award for a title, as its number does not find it, means that *)
(* the paper says which one: no other award of the funder is found by the  *)
(* title, or its acronym is in it.                                         *)
(* (Line 144: "Use the result when unambiguous".)                          *)
(***************************************************************************)
TitleDecides ==
    stage = "returned" => \A i \in DOMAIN funding :
        LET e == funding[i]
        IN  e.award # None /\ e.number \notin e.award.foundByNumber =>
                ByTitle(e) = {e.award} \/ e.title \in e.award.acronymIn

(***************************************************************************)
(* An ORCID and an affiliation stay with the creator they were extracted   *)
(* with when creators without a name are dropped (filter_empty_names runs  *)
(* after the lists were zipped).                                           *)
(***************************************************************************)
CreatorKeepsOrcid ==
    \A creators \in Suggested("creators") : \A j \in DOMAIN creators :
        \E i \in DOMAIN extracted.creators :
            LET c == creators[j]
                own(list, v) == i \in DOMAIN list /\ list[i] = v
            IN  /\ c.name = extracted.creators[i]
                /\ c.orcid = None \/ own(extracted.creator_orcids, c.orcid)
                /\ c.affiliation = None \/ own(extracted.creator_affiliations, c.affiliation)

\* The texts that requests are made of, and an activity whose lookups raise
\* nothing but what they catch.
Asked(m) == {Lower[l] : l \in Range(m.license)}
                \cup Range(m.funding_numbers) \cup Range(m.funding_titles)
OnlyCaught ==
    base_url = "none" \/ (base_url = "sound" /\ Asked(extracted) \cap Unsendable = {})

(***************************************************************************)
(* An instance that is down, refuses or answers with something else than   *)
(* JSON costs details and never the suggestions: requests that raise an    *)
(* httpx.HTTPError, statuses other than success and bodies that raise      *)
(* JSONDecodeError, of whichever lookups and in whichever order, leave     *)
(* nothing for the gather, and the first attempt is the only one.  A text  *)
(* that makes no request, a body that is not in UTF-8 and one of another   *)
(* shape are not among them: they fail the attempt.                        *)
(***************************************************************************)
FailureOnlyCostsDetail == OnlyCaught => attempt = 1 /\ stage # "failed"

(***************************************************************************)
(* Line 219: "Resolve licenses in parallel, fall back to id if unable to   *)
(* resolve": no answer about a licence fails the activity.                 *)
(***************************************************************************)
LicenseFallsBack == Size(extracted) = 0 => stage # "failed"

(***************************************************************************)
(* Line 182: "0 or >1 award matches: pass whatever info we have as a       *)
(* custom award".                                                          *)
(***************************************************************************)
AmbiguousIsCustom ==
    stage = "returned" => \A i \in DOMAIN funding :
        LET e == funding[i]
        IN  e.number # None /\ e.title = None /\ Cardinality(ByNumber(e)) > 1
                => Resolved(e).award.id = None

=============================================================================
