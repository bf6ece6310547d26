\* Every page of at most three words and one link.
SPECIFICATION SpecDocument
CONSTANTS
    Selections <- NoSelection
    Extractors = {"pdfplumber"}
    Written <- FirstPageWritten
    Dois <- FirstPageWritten
    MaxPages = 1
    Smith = Smith
    Lee = Lee
    Names <- MCNames
    Texts = {}
    Tops <- MCTops
    Edges <- MCEdges
    IconTops <- MCIconTops
    IconEdges <- MCIconEdges
    Orcids <- MCOrcids
    MaxWords = 3
    MaxIcons = 1
INVARIANT IconNearItsWord
