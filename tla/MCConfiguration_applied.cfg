SPECIFICATION FairSpec
CONSTANTS
    Forms <- PageForms
    MaxLosses = 0
    Segmented = TRUE
PROPERTY
    SubmittedIsApplied
