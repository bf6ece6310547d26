\* Every selection of up to two pages on documents of up to three, and every
\* page of at most three words and two links.
SPECIFICATION SpecDocument
CONSTANTS
    Selections <- MCSelections
    Extractors <- MCExtractors
    Written <- MCWritten
    Dois <- MCDois
    MaxPages = 3
    Smith = Smith
    Lee = Lee
    Names <- MCNames
    Texts <- MCTexts
    Tops <- MCTops
    Edges <- MCEdges
    IconTops <- MCIconTops
    IconEdges <- MCIconEdges
    Orcids <- MCOrcids
    MaxWords = 3
    MaxIcons = 2
INVARIANTS
    SelectionHonoured
    NothingInvented
    OwnAuthorCredited
    OnlyOrcidsAdded
