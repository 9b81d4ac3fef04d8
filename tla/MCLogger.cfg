\* The logger's ring buffer against the abstract FIFO, and line delivery.
CONSTANTS
    p1 = p1
    p2 = p2
    Producers <- MCProducers
    Capacity <- MCCapacity
    MaxLines <- MCMaxLines
SPECIFICATION Spec
INVARIANT TypeOK
INVARIANT LinesConserved
PROPERTY QueueRefinement
PROPERTY LineWritten
\* After the last line, with the writer waiting and no exit, nothing moves.
CHECK_DEADLOCK FALSE
