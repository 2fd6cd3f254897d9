SPECIFICATION FairSpec
CONSTANTS
    Toasts = {t1, t2}
    Badges = 2
    Durations = {0, 20, 80, 150}
    Contents <- FewContents
INVARIANTS
    TypeOK
    HighlightMeansDrag
    ProgressEndsAt100
PROPERTIES
    ProgressOnlyAdvances
    ProgressEnds
    ToastIsRemoved
