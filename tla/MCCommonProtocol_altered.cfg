SPECIFICATION Spec
CONSTANTS
    Message = {1, 2}
    Length <- MCLength
    NUL = 0
    NoFrame = NoFrame
    SimText = SimText
    BufSize = 2
    QueueSize = 2
    Input = "SERIAL_UART"
    Output = "SERIAL_UART"
    Exclusive = FALSE
    LowMemory = FALSE
    SimMayRun = FALSE
    PagePolls = FALSE
INVARIANTS
    WireIntact
