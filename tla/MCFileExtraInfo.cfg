\* Every extractor installed; all but batch_extract enabled.
CONSTANTS
    Artifacts <- MC_Artifacts
    Enabled <- MC_SomeTools
    Available <- MC_AllTools
    InitDests <- MC_InitDests
    TmpSuffixes <- MC_TmpSuffixes
    TridRuns <- MC_TridRuns
    DieRuns <- MC_DieRuns
SPECIFICATION Spec
INVARIANTS
    TypeOK
    
