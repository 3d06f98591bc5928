SPECIFICATION ReportSpec
CONSTANTS
    Reports <- MCReports
    Targets = {1, 2, 3, 4}
    Today = 4
    Lookbacks <- MCLookbacks
    PageSize = 2
    MaxPages = 6
    MaxCandidates = 4
    MaxSelected = 2
    MaxBytes = 3
    MaxRows = 2
INVARIANTS CompleteOrFlagged BudgetsHold
PROPERTIES NothingStartsLate
