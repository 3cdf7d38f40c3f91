SPECIFICATION Spec
CONSTANTS
    Message = {1, 2}
    Length <- MCLength
    NUL = 0
    NoFrame = NoFrame
    SimText = SimText
    BufSize = 2
    QueueSize = 3
    Input = "SERIAL_UART"
    Output = "SERIAL_UART"
    Exclusive = TRUE
    LowMemory = TRUE
    SimMayRun = TRUE
    PagePolls = FALSE
INVARIANTS
    IntactInv
PROPERTIES
    RefinesRelay
    
