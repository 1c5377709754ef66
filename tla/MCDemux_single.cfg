\* One worker, no scratch root yet, a container with more members than the cap.
CONSTANTS
    Tasks = {t1}
    Samples <- MC_SamplesBomb
    Packages <- MC_Packages
    Options <- MC_Options
    HAS_SFLOCK = TRUE
    use_sflock = TRUE
    InitDirs = {}
    WriteMayFail = TRUE
    DistinctNames = TRUE
SPECIFICATION Spec
INVARIANTS
    CandidateBounds
