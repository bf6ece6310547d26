---------------------------- MODULE MCDocumentText ----------------------------
(* Selections of up to two pages with numbers beyond both ends, and two lines  *)
(* of words: an icon at 2 is just on the first of them and one at 4 on both,   *)
(* and icons overlap, adjoin or stand far from a word.  What the model writes  *)
(* stands on one page, in two neighbouring ones, backwards, in part or nowhere.*)
(* A text may lack words of the page, have more of them, or have them in       *)
(* another order.                                                              *)
EXTENDS DocumentText

CONSTANTS Smith, Lee

Numbers == -4..4
MCSelections == {<<>>} \cup {<<p>> : p \in Numbers} \cup (Numbers \X Numbers)
MCExtractors == {"pdfplumber", "pymupdf", "tika"}

\* The selections of one page, enough for the fallback, and no selection.
SinglePages == {<<p>> : p \in Numbers}
NoSelection == {<<>>}

OnOnePage == <<1, 1>>
OverTwoPages == <<1, 1, 1, 1, 1, 1, 2>>     \* the first has 6/7, more than 85 %
FourFifths == <<2, 2, Nowhere, 2, 2>>
Backwards == <<3, 1>>
Invented == <<Nowhere>>
MCWritten == {OnOnePage, OverTwoPages, FourFifths, Backwards, Invented}
MCDois == {OnOnePage, OverTwoPages, Backwards, Invented}
FirstPageWritten == {OnOnePage, Invented}

MCTops == {0, 8}
MCEdges == {10, 20, 30}
MCIconTops == {2, 4}
MCIconEdges == {8, 12, 22}
MCOrcids == {1, 2}
MCNames == {Smith, Lee}
MCTexts == {<<Smith>>, <<Smith, Lee, Smith>>}

=============================================================================
