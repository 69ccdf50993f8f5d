\* Texts of at most six characters; a long long that ends at 71; a runner
\* whose lines are shorter than the listener's, and both can be overrun.
CONSTANTS
    Alphabet <- MCAlphabet
    MaxLen = 6
    LLMax = 71
    LineMax = 7
    RunnerMax = 6
SPECIFICATION Spec
INVARIANTS
    FunctionsOfTokens
    TransportsAgree
CHECK_DEADLOCK FALSE
