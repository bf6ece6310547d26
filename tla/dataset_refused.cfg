\* Two commits, and files of the user in the way.
SPECIFICATION FairSpec
CONSTANTS
    Syncs = {p1}
    o1 = o1
    o2 = o2
    c1 = c1
    c2 = c2
    Objects <- MCObjects
    Commits <- TwoCommits
    LastPath = 2
    Manifest <- MCManifest
    Published <- MCPublished
    Faults <- ForeignOnly
INVARIANTS OwnLinksAccepted
