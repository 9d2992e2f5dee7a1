SPECIFICATION Spec
CONSTANTS
    Values = {v}
    Empty = empty
    Other = other
    Errors = {13}
    Messages <- MCMessages
INVARIANTS DownloadIsWhole ListingIsWholeOrEmpty WholeAnswerDecides
CHECK_DEADLOCK FALSE
