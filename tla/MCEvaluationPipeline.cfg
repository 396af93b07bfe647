CONSTANTS
    SingleOrderVenue = TRUE
    EvaluationCapacity = 2
    DecisionCapacity = 2
    MaxEvaluations = 5
SPECIFICATION Spec
INVARIANT PipelineInv
PROPERTIES ImplementsFresh NothingActedWhileDown EvaluationsSettle
CHECK_DEADLOCK FALSE
