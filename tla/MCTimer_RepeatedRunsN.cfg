CONSTANTS
    MaxId <- MCMaxId
    MaxTime <- MCMaxTime
    Delays <- MCDelays
    RepeatCounts <- MCRepeatCounts

SPECIFICATION Spec

INVARIANT RepeatedRunsN

CHECK_DEADLOCK FALSE
