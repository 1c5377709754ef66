\* A remote capture with no BPF filter; no call fails and tcpdump never dies.
CONSTANTS
    Configs <- MC_RemoteNoBpf
    Fallible = {}
    CanDie = FALSE
SPECIFICATION Spec
INVARIANT RaisesOnlyOnFailure
