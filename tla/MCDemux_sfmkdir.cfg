\* Two workers find cuckoo-sflock missing at the same time.
CONSTANTS
    Tasks = {t1, t2}
    Samples <- MC_SamplesPair
    Packages = {""}
    Options <- MC_Options
    HAS_SFLOCK = TRUE
    use_sflock = TRUE
    InitDirs = {"msoffice"}
    WriteMayFail = FALSE
    DistinctNames = TRUE
SPECIFICATION Spec
INVARIANT AllAcceptedChildrenExtracted
