CONSTANTS
    viewer = viewer
    Viewers = {viewer}
    Sizes <- AllSizes
    Limits <- AllLimits
    CutMarkerSize = 2
    MaxWritten = 4
    MaxPolls = 3
SPECIFICATION Spec
INVARIANTS
    ViewerCountsEach
PROPERTIES
    WithinLimits NothingKeptIsMissed
