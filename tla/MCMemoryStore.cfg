SPECIFICATION Spec
CONSTANTS
    None = None
    Moments <- MCMoments
    Signal <- MCSignal
    RULES <- MCRules
    Within <- MCWithin
    IMPORTANCE_THRESHOLD = 2500
    RECALL_BUMP = 2500
    MaxImportance = 10000
    DEDUPE_WINDOW = 1
    RECALL_COOLDOWN = 1
    CALLBACK_MIN_AGE = 1
    CALLBACK_MIN = 2
    RETRIEVE_LIMIT = 2
    Gaps = {1, 2}
    Filters <- MCFilters
    MaxNow = 7
    MaxTurns = 3
    MaxInterventions = 2
CHECK_DEADLOCK FALSE
INVARIANTS
    FactOnce
    FactsAreObserved
    ForgetHitsWhatWasShown
    PauseTakesEffect
    ResetWipes
