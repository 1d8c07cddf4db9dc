\* Every view over one store: two revisions, two deviations at a time.
SPECIFICATION Spec
CONSTANTS
    World <- MCWorld
    MaxDeviations = 2
    Names <- MCNames
    Searches <- MCSearches
    Clicks <- MCClicks
    Tapped <- MCTapped
INVARIANTS
    TypeOK
    PanelAsksOneQuestion
    DrawnEdgesHaveEnds
    ArrowSpeaksForItsRules
    ClusterScopedAreListed
    CountsAnnounceRows
    BlockedSideIsNotConfirmed
    MarksAddUpToDrawer
    HeadlineMatchesDrawer
    DrillDownShowsCounted
    ResetShowsEverything
