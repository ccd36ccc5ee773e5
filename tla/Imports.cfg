SPECIFICATION Spec
CONSTANTS
    Uploads <- MCUploads
    CheckRows = 2
    Requests = {r1, r2}
    Targets <- MCTargets
    Together <- MCTogether
    AddedText <- MCAdded
    MaxAsked = 2
SYMMETRY MCSymmetry
INVARIANTS PromisedCastsWork SuggestionsFit NextIdIsFree CopiesHaveOwners
PROPERTIES TypeChangesKeepMeaning ImportedRowsAreTheFiles
CHECK_DEADLOCK FALSE
