----------------------------- MODULE DocumentText -----------------------------
(***************************************************************************)
(* The activities of MetadataExtraction with the splicing of ORCIDs that   *)
(* PdfplumberExtractor.extract does on the pages it goes through, before   *)
(* the model is asked.  What a page looks like is known once the document  *)
(* was downloaded.  Bound: only a document of one page with few words has  *)
(* icons, and only in a request for all of it.                             *)
(***************************************************************************)
EXTENDS MetadataExtraction, OrcidSplicing

VARIABLE inlining       \* the extractor is at work on its pages

document == <<vars, splicing, inlining>>

InitDocument ==
    /\ Init
    /\ words = <<>> /\ tokens = <<>> /\ annots = <<>> /\ Unspliced
    /\ inlining = FALSE

-----------------------------------------------------------------------------

HasIcons ==
    /\ total = 1 /\ blank = {1}
    /\ request.host = "local" /\ request.extractor = "pdfplumber" /\ request.all

DownloadDocument ==
    /\ Download
    /\ IF at' = "downloaded" /\ HasIcons
       THEN LaidOut
       ELSE UNCHANGED page
    /\ UNCHANGED <<looked, edits, placed, prev, spliced, inlining>>

\* The pages are resolved before the first of them is looked at.
OpenPages ==
    /\ at = "downloaded" /\ ~inlining
    /\ request.extractor = "pdfplumber"
    /\ request.all \/ ~InvalidSelection(request.pages, total)
    /\ inlining' = TRUE
    /\ UNCHANGED <<vars, splicing>>

\* _inline_orcids, on the page that has icons.
InlineOrcids ==
    /\ inlining /\ ~Done
    /\ Look \/ Splice
    /\ UNCHANGED <<vars, inlining>>

ExtractDocument ==
    /\ Extract
    /\ request.extractor = "pdfplumber" => inlining /\ Done
    /\ inlining' = FALSE
    /\ UNCHANGED splicing

\* A file that does not open, found before any page of it was looked at.
FailsToOpen ==
    /\ ~inlining
    /\ Unreadable \/ Refused
    /\ UNCHANGED <<splicing, inlining>>

OtherSteps ==
    /\ CheckHost \/ TooShort \/ Generate \/ ModelFails \/ Resting
    /\ UNCHANGED <<splicing, inlining>>

NextDocument ==
    \/ DownloadDocument \/ FailsToOpen \/ OpenPages \/ InlineOrcids \/ ExtractDocument
    \/ OtherSteps

SpecDocument == InitDocument /\ [][NextDocument]_document

-----------------------------------------------------------------------------

(***************************************************************************)
(* What the model reads of a page with icons is its text with the ORCIDs   *)
(* in place: each right after the very word that alone adjoins its icon,   *)
(* however many equal words the page has and whatever else stands on the   *)
(* line, as long as the text is that of the words (the anchor and the      *)
(* count of equal words in _inline_orcids).                                *)
(***************************************************************************)
OwnAuthorCredited ==
    HasText /\ HasIcons /\ tokens = WordTexts(words) => \A i \in Icons, k \in DOMAIN words :
        {l \in DOMAIN words : Adjoins(l, annots[i])} = {k}
            => annots[i].orcid \in CreditedTo(k)

=============================================================================
