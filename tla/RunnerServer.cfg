\* Three clients whose lines arrive whole; they may close or reset
\* their connections at any moment.
CONSTANTS
    a = a
    b = b
    c = c
    Clients = {a, b, c}
    Request <- MCRequest
    Numerals = {"1", "10", "20"}
    Silent = {}
    Backlog = 2
    Split = FALSE
    AcceptErrors = TRUE
SPECIFICATION FairSpec
INVARIANTS
    ResultIsLogged
    ReplyAnswersRequest
PROPERTIES
    ClientIsServed
CHECK_DEADLOCK FALSE
