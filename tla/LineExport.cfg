SPECIFICATION Spec
CONSTANTS
    Responses <- MCResponses
    Times <- MCTimes
INVARIANTS RowsFollowTheStream NilMeansAll SeriesKeepTheirSamples LogEntryKept
CHECK_DEADLOCK FALSE
