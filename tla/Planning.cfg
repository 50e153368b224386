SPECIFICATION PlanningSpec
CONSTANTS
    Services <- MCServices
    DependsOn <- MCDependsOn
    BaseNets <- MCBaseNets
    hostnameOf <- MCHostnameOf
    Requests <- MCRequests
    Documents <- MCDocuments
    Emitters <- MCEmitters
    EmitDocuments <- MCEmitDocuments
    Callers = {c1, c2}
    Hosts = {"prom", "api", "outside"}
    serviceOf <- MCServiceOf
    MinRate = 100
    Projects <- MCProjects
    Predicates <- MCPredicates
    Served <- MCServed
    Lines <- MCLines
    MaxLines = 2
    MaxRuns = 2
INVARIANTS
    Intercepted
    PlanMeansWhatItSays
    ScriptIsTheScenario
    ReachedAndLetGo
    KnowsOrSays
    AnswersAreOfThisSession
    StoppedAndTold
CHECK_DEADLOCK FALSE
