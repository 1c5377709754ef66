SPECIFICATION Spec
CONSTANTS
    Archives <- MC_Archives
    Payloads <- MC_Payloads
    Submissions <- MC_SelfNested
    Passwords = {"none"}
    FileOptions <- MC_NoFileOption
INVARIANT OriginalPreserved
