CONSTANTS
    MaxId <- MCMaxId
    MaxTime <- MCMaxTime
    Delays <- MCDelays
    RepeatCounts <- MCRepeatCounts

SPECIFICATION Spec

INVARIANT TypeOK
INVARIANT CancelStopsFiring
PROPERTY DueNodeFires

\* The timer stops for good once it is destroyed and its thread exits.
CHECK_DEADLOCK FALSE
