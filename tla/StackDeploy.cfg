SPECIFICATION FairSpec
CONSTANTS
    MaxFaults = 1
    Configs = {
        {"logs", "parca_agent"},
        {"metrics", "traces", "parca_agent"},
        {"metrics", "prometheus_metrics"},
        {"traces", "otel"},
        {"profiling", "parca_agent"},
        {"metrics", "logs", "traces", "parca_agent"},
        {"logs", "otel", "profiling", "parca_agent"},
        {"traces", "prometheus_metrics"},
        {"otel", "profiling"},
        {"parca_agent"} }
INVARIANTS DepsRegistered NothingRunsTooEarly GrafanaIsLast NeverStuck
PROPERTIES ReadyOrFailed RetriesConverge
CHECK_DEADLOCK FALSE
