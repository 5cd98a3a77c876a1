\* Every chain of up to four links over two codes, and all payloads over two fields,
\* through any number of hands with two spans.
SPECIFICATION MCSpec
CONSTANTS
    s1 = s1
    s2 = s2
    Codes = {"ORDER_NOT_FOUND", "ORDER_NOT_ACCEPTABLE"}
    MaxLinks = 4
    Fields = {"eventId", "orderId"}
    Values = {"a", "b"}
    Spans = {s1, s2}
INVARIANTS
    JobFailsIffAnswerDoes
    MappedOnce
    FlatteningKeepsCode
    EventSurvives
    ContinuesLastTrace
