\* The logger set up with init(NULL) keeps writing to stdout.
CONSTANTS
    p1 = p1
    p2 = p2
    Producers <- MCProducers
    SplitLines <- MCSplitLines
    MaxLines <- MCMaxLines
    MaxDay <- MCMaxDay
SPECIFICATION Spec
INVARIANT StdoutKept
CHECK_DEADLOCK FALSE
