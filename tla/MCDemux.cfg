\* Two workers with distinct sample names; both scratch roots exist.
CONSTANTS
    Tasks = {t1, t2}
    Samples <- MC_Samples
    Packages <- MC_Packages
    Options <- MC_Options
    HAS_SFLOCK = TRUE
    use_sflock = TRUE
    InitDirs = {"msoffice", "sflock"}
    WriteMayFail = FALSE
    DistinctNames = TRUE
SYMMETRY MC_Symmetry
SPECIFICATION Spec
INVARIANTS
    TypeOK
    CandidateBounds
    CandidatesOwnContent
