\* A RAR SFX archive with a one-character member name.
CONSTANTS
    Artifacts <- MC_ArtifactsOneChar
    Enabled <- MC_SomeTools
    Available <- MC_AllTools
    InitDests <- MC_InitDests
    TmpSuffixes <- MC_TmpSuffixes
    TridRuns = {"ok"}
    DieRuns = {"strings"}
SPECIFICATION Spec
INVARIANTS
    OutputsStored
