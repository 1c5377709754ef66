\* Seven dumps in every listing order; all extractors enabled and installed;
\* die may print output json.loads rejects.
CONSTANTS
    Dumps <- MC_Dumps
    ProcdumpDir = TRUE
    Enabled <- MC_AllTools
    Available <- MC_AllTools
    InitDests <- MC_InitDests
    TmpSuffixes <- MC_TmpSuffixes
    TridRuns = {"ok"}
    DieRuns <- MC_DieRuns
SPECIFICATION Spec
INVARIANTS
    TypeOK
    ReportedExactly
    CapeTypeMatchesReference
