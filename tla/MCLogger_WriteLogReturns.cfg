\* write_log's push loop against a writer thread that has ended.
CONSTANTS
    p1 = p1
    p2 = p2
    Producers <- MCProducers
    Capacity <- MCCapacity
    MaxLines <- MCMaxLines
SPECIFICATION Spec
PROPERTY WriteLogReturns
CHECK_DEADLOCK FALSE
