SPECIFICATION PlanningSpec
CONSTANTS
    Services <- MCServices
    DependsOn <- MCDependsOn
    BaseNets <- MCBaseNets
    hostnameOf <- MCHostnameOf
    Requests <- MCRequests
    Documents <- MCDocuments
    Emitters <- MCEmitters
    EmitDocuments <- MCEmitDocuments
    Callers = {c1, c2}
    Hosts = {"prom", "api", "outside"}
    serviceOf <- MCServiceOf
    MinRate = 100
    Projects <- MCPolyglot
    Predicates <- MCPredicates
    Served <- MCPolyglot
    Lines = {}
    MaxLines = 2
    MaxRuns = 2
INVARIANT NeverDeniesUnread
CHECK_DEADLOCK FALSE
