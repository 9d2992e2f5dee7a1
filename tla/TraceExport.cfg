SPECIFICATION Spec
CONSTANTS
    Spans <- MCSpans
    TraceOf <- MCTraceOf
    ServiceOf <- MCServiceOf
INVARIANTS TypeOK KnownSpansExported TracesWhole OneCopyPerService
PROPERTY EveryServiceTried
CHECK_DEADLOCK FALSE
