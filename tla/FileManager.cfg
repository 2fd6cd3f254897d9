SPECIFICATION FairSpec
CONSTANTS
    Stored = {s1}
    Picks = {p1, p2, p3}
    Unsendable = {p3}
    Elsewhere = {s1}
    Handlers = {h1, h2}
    Opening = Opening
    MaxFiles = 2
    None = None
CHECK_DEADLOCK FALSE
INVARIANTS
    PageInv
    FreshWhenInOrder
    DownloadKeepsItsName
PROPERTIES
    SpinnerTruth
    HandlersFinish
