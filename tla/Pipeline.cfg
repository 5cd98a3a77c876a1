\* Every kind of request through every kind of router, with handlers that panic.
SPECIFICATION PipelineSpec
CONSTANTS
    Origins = {"a", "b"}
INVARIANTS
    ReportedAsSent
    AnswersIdentified
    PanicsAnswered
    ErrorsAreEnvelopes
    PreflightsEndAtCors
