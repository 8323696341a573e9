SPECIFICATION Spec
CONSTANTS
    Dialogs = {d1, d2}
    NoDialog = NoDialog
    Descriptions <- MCBoth
    MaxFaults = 2
    MaxToggles = 2
    RollbackFaults = FALSE
INVARIANT DestructorReadsLiveData
