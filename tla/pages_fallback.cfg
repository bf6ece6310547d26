\* A selection with no page of the document.
SPECIFICATION SpecDocument
CONSTANTS
    Selections <- SinglePages
    Extractors = {"pdfplumber"}
    Written <- FirstPageWritten
    Dois <- FirstPageWritten
    MaxPages = 2
    Smith = Smith
    Lee = Lee
    Names <- MCNames
    Texts = {}
    Tops <- MCTops
    Edges <- MCEdges
    IconTops <- MCIconTops
    IconEdges <- MCIconEdges
    Orcids <- MCOrcids
    MaxWords = 1
    MaxIcons = 0
INVARIANT OnlyRequestedPages
