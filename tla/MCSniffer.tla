----------------------------- MODULE MCSniffer -----------------------------
(* Task configurations for Sniffer: every early return, local and remote *)
(* capture, with and without a BPF filter.                                *)
EXTENDS Sniffer

Cfg(r, h, b, t, i) == [remote |-> r, host |-> h, bpf |-> b, tcpdump |-> t, interface |-> i]

\* local captures and remote captures with a filter, each with every early return
MC_Configs ==
    {Cfg(FALSE, FALSE, b, t, i) : b \in BOOLEAN, t \in {"ok", "missing", "setuid"}, i \in BOOLEAN}
    \cup {Cfg(TRUE, h, TRUE, t, i) : h \in BOOLEAN, t \in {"ok", "missing", "setuid"}, i \in BOOLEAN}

\* a remote capture without a filter
MC_RemoteNoBpf == {Cfg(TRUE, TRUE, FALSE, "ok", TRUE)}

MC_AllCalls == Calls
=============================================================================
