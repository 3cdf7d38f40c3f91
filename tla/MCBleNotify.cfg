SPECIFICATION FairSpec
CONSTANTS
    Senders = {bridge, simulation}
    Handles = {1, 2}
    Blocks = 2
CHECK_DEADLOCK FALSE
INVARIANTS
    TypeOK
    OneLink
    NotifyFollowsClient
    NoAbortIfPrompt
PROPERTIES
    VisibleAgain
