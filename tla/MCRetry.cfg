SPECIFICATION Spec
CONSTANTS
    Delays <- CodeDelays
    AttemptMod = 256
    FirstInstants = {TRUE, FALSE}
    ShortCounts = {0, 1, 5}
    ShortDelays = {0, 1000, 2000, 7000, 4000000}
    MaxDelays = {0, 1500, 60000}
INVARIANTS
    TypeOK
    NeverBeyondMax
    DelayIsReference
PROPERTIES
    BackoffGrows
