SPECIFICATION Spec
CONSTANTS
    Archives <- MC_Archives
    Payloads <- MC_Payloads
    Submissions <- MC_Clean
    Passwords = {"none"}
    FileOptions <- MC_FileOptions
INVARIANT TypeOK
INVARIANT ExpansionMatchesReference
INVARIANT OriginalPreserved
