SPECIFICATION Spec
CONSTANTS
    Toasts = {t1, t2}
    Badges = 2
    Durations = {0, 20, 80, 150}
    Contents <- SmallContents
INVARIANTS
    SavedFileIsTheContent
