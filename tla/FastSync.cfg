SPECIFICATION Spec
CONSTANTS
    Last = 4
    Heights = {3, 4}
    MinFull = 2
    Interval = 2
    Gap = 2
    ForceVerify = 1
    SafetyNet = 2
    Trials = 2
    MaxChunk = 2
    Workers = 2
    MaxRestarts = 1
INVARIANTS ChainComplete HeadHasState  HonestServed
CHECK_DEADLOCK FALSE
