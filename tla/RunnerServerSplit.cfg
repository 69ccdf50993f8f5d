\* A line that arrives in two segments.
CONSTANTS
    a = a
    b = b
    c = c
    Clients = {a}
    Request <- MCRequest
    Numerals = {"1", "10", "20"}
    Silent = {}
    Backlog = 2
    Split = TRUE
    AcceptErrors = TRUE
SPECIFICATION Spec
INVARIANTS
    ReplyAnswersRequest
CHECK_DEADLOCK FALSE
