SPECIFICATION FairSpec
CONSTANTS
    Forms <- MCForms
    MaxLosses = 1
    Segmented = TRUE
INVARIANTS
    TypeOK
    AcceptedIsKept
    RepostChangesNothing
    DriverMatchesInput
PROPERTIES
    PostTakesEffect
