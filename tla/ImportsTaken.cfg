SPECIFICATION Spec
CONSTANTS
    Uploads <- MCUploads
    CheckRows = 2
    Requests = {r1}
    Targets <- MCTargets
    Together <- MCTogether
    AddedText <- MCAdded
    MaxAsked = 1
PROPERTY
    ImportsTouchOnlyNewTables
CHECK_DEADLOCK FALSE
