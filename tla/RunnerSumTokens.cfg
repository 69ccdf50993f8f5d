\* Payloads of at most four characters.
CONSTANTS
    Alphabet = {"1", "7", "-", " ", "x"}
    MaxLen = 4
    LLMax = 71
    LineMax = 7
    RunnerMax = 6
SPECIFICATION Spec
INVARIANTS
    NonNumericRejected
CHECK_DEADLOCK FALSE
