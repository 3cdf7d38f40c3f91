SPECIFICATION FairSpec
CONSTANTS
    Message = {2}
    Length <- MCLength
    NUL = 0
    NoFrame = NoFrame
    SimText = SimText
    BufSize = 2
    QueueSize = 2
    Input = "UDP"
    Output = "SERIAL_UART"
    Exclusive = FALSE
    LowMemory = FALSE
    SimMayRun = TRUE
    PagePolls = TRUE
INVARIANTS
    TypeOK
    NoEmptyFrame
PROPERTIES
    ServedWhileInputLasts
    ComesUpWhenQuiet
    PageShowsText
