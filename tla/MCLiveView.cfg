SPECIFICATION FairViewSpec
CONSTANTS
    Nothing = Nothing
    MaxRuns = 2
    MaxBehind = 1
    Scenes <- AllScenes
INVARIANT ActiveIsStreamed
PROPERTIES ChimeIsNews RowGoesWithReview RowSettles
CHECK_DEADLOCK FALSE
