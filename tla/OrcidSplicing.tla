----------------------------- MODULE OrcidSplicing -----------------------------
(***************************************************************************)
(* PdfplumberExtractor._inline_orcids: an ORCID is known only from the     *)
(* link behind an icon.  For each icon in turn the word it belongs to is   *)
(* looked for by its place on the page, found again in the text of the     *)
(* page by counting equal words, and noted; then one pass over the text    *)
(* puts every ORCID after its word.  Words and text come from two calls of *)
(* pdfplumber, which need not agree.                                       *)
(***************************************************************************)
EXTENDS Integers, Sequences, FiniteSets, SequencesExt, InOrder

CONSTANTS
    Names,          \* texts of words, model values; two words may be equal
    Tops,           \* vertical positions of words, in points
    Edges,          \* right edges of words
    IconTops,       \* vertical positions of icons
    IconEdges,      \* left edges of icons
    Orcids,         \* ORCIDs, numbered in the order of their digits
    Texts,          \* texts a page may have although its words are others
    MaxWords,       \* bound: words of a page
    MaxIcons        \* bound: link annotations of a page

SameLinePt == 6     \* _SAME_LINE_PT
IconGapPt == 2      \* _ICON_GAP_PT
NoOrcid == 0        \* a link is_orcid refuses

ASSUME SplicingAssumption ==
    /\ (Tops \cup Edges \cup IconTops \cup IconEdges) \subseteq Int
    /\ Orcids \subseteq Nat \ {NoOrcid}
    /\ Names \cap Orcids = {}
    /\ Texts \subseteq Seq(Names)
    /\ MaxWords \in Nat /\ MaxIcons \in Nat

VARIABLES
    words,          \* page.extract_words, in reading order
    tokens,         \* page.extract_text, between blanks and line breaks
    annots,         \* page.annots
    looked,         \* how many of them have been looked at
    edits,          \* the tokens to insert after, with the ORCID, as found
    placed,         \* those that are in the text
    prev,           \* the token up to which the text was copied
    spliced         \* the text so far: words and ORCIDs

page == <<words, tokens, annots>>
splicing == <<page, looked, edits, placed, prev, spliced>>

Word == [text : Names, top : Tops, x1 : Edges]
Annot == [orcid : Orcids \cup {NoOrcid}, top : IconTops, x0 : IconEdges]

\* Line after line, each from left to right.
InReadingOrder(ws) ==
    \A i \in 2..Len(ws) :
        \/ ws[i - 1].top < ws[i].top
        \/ ws[i - 1].top = ws[i].top /\ ws[i - 1].x1 < ws[i].x1

WordTexts(ws) == [k \in DOMAIN ws |-> ws[k].text]

\* A page: its text is that of its words, as a rule.
LaidOut ==
    /\ words' \in {ws \in BoundedSeq(Word, MaxWords) : InReadingOrder(ws)}
    /\ tokens' \in Texts \cup {WordTexts(words')}
    /\ annots' \in BoundedSeq(Annot, MaxIcons)

Unspliced == /\ looked = 0 /\ edits = <<>>
             /\ placed = {} /\ prev = 0 /\ spliced = <<>>

-----------------------------------------------------------------------------

OnLine(k, a) ==
    /\ words[k].top - a.top < SameLinePt
    /\ a.top - words[k].top < SameLinePt

LeftOf(k, a) == words[k].x1 <= a.x0 + IconGapPt

Candidates(a) == {k \in DOMAIN words : OnLine(k, a) /\ LeftOf(k, a)}

\* Mutant of Anchor: the first word of the line that qualifies.
FirstAnchor(a) == CHOOSE k \in Candidates(a) : \A l \in Candidates(a) : k <= l

\* The word that ends nearest left of the icon, the first of several.
Anchor(a) ==
    CHOOSE k \in Candidates(a) :
        \A l \in Candidates(a) :
            \/ words[l].x1 < words[k].x1
            \/ words[l].x1 = words[k].x1 /\ k <= l

\* Token n of the text is the word k: it is equal, and as many equal tokens
\* stand before it as equal words before the word.
IsToken(n, k) ==
    LET equal(seq, m) == {l \in 1..(m - 1) : seq[l] = words[k].text}
    IN  /\ tokens[n] = words[k].text
        /\ Cardinality(equal(tokens, n)) = Cardinality(equal(WordTexts(words), k))

\* Where the text has the word, if it has that many.
Occurrences(k) == {n \in DOMAIN tokens : IsToken(n, k)}

Linked(a) == a.orcid # NoOrcid /\ Candidates(a) # {}

\* An icon whose word the text does not have is passed over.
Look ==
    /\ looked < Len(annots)
    /\ looked' = looked + 1
    /\ LET a == annots[looked + 1]
       IN  edits' = IF Linked(a) /\ Occurrences(Anchor(a)) # {}
                    THEN Append(edits, [at |-> CHOOSE n \in Occurrences(Anchor(a)) : TRUE,
                                        orcid |-> a.orcid])
                    ELSE edits
    /\ UNCHANGED <<page, placed, prev, spliced>>

Unplaced == DOMAIN edits \ placed

\* Mutant of IsNext: the icons as they were met.
IsFirstMet(i) == \A j \in Unplaced : i <= j

\* edits.sort(): by the place in the text, then by the ORCID; equal ones stay
\* in their order.
IsNext(i) ==
    \A j \in Unplaced :
        \/ edits[i].at < edits[j].at
        \/ edits[i].at = edits[j].at /\ edits[i].orcid < edits[j].orcid
        \/ edits[i] = edits[j] /\ i <= j

\* The words from the last edit up to this one, and its ORCID.
Put(i) ==
    /\ IsNext(i)
    /\ spliced' = spliced \o SubSeq(tokens, prev + 1, edits[i].at) \o <<edits[i].orcid>>
    /\ prev' = edits[i].at
    /\ placed' = placed \cup {i}
    /\ UNCHANGED <<page, looked, edits>>

PutRest ==
    /\ Unplaced = {} /\ prev < Len(tokens)
    /\ spliced' = spliced \o SubSeq(tokens, prev + 1, Len(tokens))
    /\ prev' = Len(tokens)
    /\ UNCHANGED <<page, looked, edits, placed>>

Splice == looked = Len(annots) /\ (PutRest \/ \E i \in Unplaced : Put(i))

\* The page has its text.
Done == looked = Len(annots) /\ Unplaced = {} /\ prev = Len(tokens)

-----------------------------------------------------------------------------

\* The ORCIDs between the n-th word of the spliced text and the next one.
CreditedTo(n) ==
    {spliced[p] : p \in {q \in DOMAIN spliced :
        /\ spliced[q] \in Orcids
        /\ n = Cardinality({r \in 1..q : spliced[r] \in Names})}}

\* The icon stands at the right edge of the word, give or take the tolerance.
Adjoins(k, a) ==
    /\ OnLine(k, a)
    /\ a.x0 - words[k].x1 \in (-IconGapPt)..IconGapPt

Icons == {i \in DOMAIN annots : annots[i].orcid # NoOrcid}

\* The text has every word at least as often as the page.
TextHasWords ==
    \A w \in Names : Cardinality({k \in DOMAIN words : words[k].text = w})
                     <= Cardinality({n \in DOMAIN tokens : tokens[n] = w})

(***************************************************************************)
(* Splicing adds and never rewrites: without the ORCIDs the text is what   *)
(* the page said, in whatever order the icons were met (edits are applied  *)
(* from offset to offset, which is right only when the offsets grow).      *)
(* What it adds is the ORCID of an icon with a word to its left, at most   *)
(* once for each, also when two icons belong to one word or show the same  *)
(* ORCID; and of every one of them, when the text has the page's words.    *)
(***************************************************************************)
OnlyOrcidsAdded ==
    Done =>
        /\ Picked(spliced, {p \in DOMAIN spliced : spliced[p] \in Names}) = tokens
        /\ \A o \in Orcids :
               LET added == Cardinality({p \in DOMAIN spliced : spliced[p] = o})
                   shown == Cardinality({i \in DOMAIN annots :
                                           Linked(annots[i]) /\ annots[i].orcid = o})
               IN  added <= shown /\ (TextHasWords => added = shown)

(***************************************************************************)
(* _ICON_GAP_PT is documented as the "max horizontal gap from the word's   *)
(* right edge to the icon": no word gets an ORCID whose icon is further    *)
(* from it.                                                                *)
(***************************************************************************)
IconNearItsWord ==
    Done => \A k \in DOMAIN words : \A o \in CreditedTo(k) :
        \E i \in Icons : annots[i].orcid = o /\ Adjoins(k, annots[i])

=============================================================================
