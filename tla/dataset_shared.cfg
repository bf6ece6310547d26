\* Two syncs side by side under every fault, or one after the other.
SPECIFICATION FairSpec
CONSTANTS
    Syncs = {p1, p2}
    o1 = o1
    o2 = o2
    c1 = c1
    c2 = c2
    Objects <- MCObjects
    Commits <- TwoCommits
    LastPath = 2
    Manifest <- MCManifest
    Published <- MCPublished
    Faults <- AllFaults
INVARIANTS LinksResolve TargetIsOneCommit OwnLinksAcceptedApart
PROPERTIES SyncEnds
