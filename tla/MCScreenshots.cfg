\* Two screens, four shots before the analysis ends, take and upload may fail.
CONSTANTS
    s1 = s1
    s2 = s2
    Screens <- MC_Screens
    HavePil = {TRUE, FALSE}
    TakeMayFail = TRUE
    UploadMayFail = TRUE
    MaxTakes = 4
SPECIFICATION Spec
INVARIANT ShotsMatchReference
PROPERTY StopEndsRun
