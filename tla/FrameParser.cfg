CONSTANTS
    MaxPayload = 4
    TempBuf = 20
    UART_QUEUE_SIZE = 2
    Streams <- MCStreams
    Noise <- MCNoise
    MaxFaults = 1
SPECIFICATION Spec
INVARIANTS TypeOK InStep WholeFrameSurvives NoneWaits ShortReadFits
CHECK_DEADLOCK FALSE
