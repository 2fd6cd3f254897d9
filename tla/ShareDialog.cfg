SPECIFICATION FairSpec
CONSTANTS
    Files = {f1, f2}
    Confirms = {c1, c2, c3}
    Answers = {"answered", "failed"}
    None = None
INVARIANTS
    DialogInv
    ShareIsForItsFile
PROPERTIES
    SuccessClosesDialog
