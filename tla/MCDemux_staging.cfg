\* Two workers given documents with the same basename share the staging path.
CONSTANTS
    Tasks = {t1, t2}
    Samples <- MC_Samples
    Packages = {""}
    Options <- MC_Options
    HAS_SFLOCK = TRUE
    use_sflock = TRUE
    InitDirs = {"msoffice", "sflock"}
    WriteMayFail = FALSE
    DistinctNames = FALSE
SPECIFICATION Spec
INVARIANT CandidatesOwnContent
