SPECIFICATION FairSpec
CONSTANTS
    Pool = 3
    MaxWeb = 1
    MaxStarts = 2
    Boards <- Meeting
INVARIANTS
    TypeOK
    SocketsAreTheirs
    SoleSender
    BluetoothSetUpOnce
    SenderIsHeard
    NothingStrays
CHECK_DEADLOCK FALSE
PROPERTIES
    ClientRetries
    BridgeWrites
