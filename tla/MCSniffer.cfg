\* Local and remote captures; every external call may fail; tcpdump may die.
CONSTANTS
    Configs <- MC_Configs
    Fallible <- MC_AllCalls
    CanDie = TRUE
SPECIFICATION Spec
INVARIANT RemoteHostCleanOnStop
PROPERTY StopEndsCapture
