------------------------------ MODULE Sniffer ------------------------------
(***************************************************************************)
(* The network sniffer auxiliary module (modules/auxiliary/sniffer.py).   *)
(* Sniffer.start checks tcpdump and the interface, builds the tcpdump      *)
(* argument list, and either runs tcpdump locally with Popen or, when the *)
(* "remote" option is set, writes a shell script, copies it to the        *)
(* capture host with scp, runs it over ssh, reads back the pid and removes *)
(* the script.  Sniffer.stop terminates the local process, or sends it    *)
(* SIGINT over ssh, copies the pcap back and removes the remote copy.     *)
(*                                                                         *)
(* The auxiliary manager calls stop only on modules whose start did not   *)
(* raise.  Every ssh/scp call may fail on its own (a dropped connection); *)
(* tcpdump may die on its own; a signalled tcpdump exits.                 *)
(***************************************************************************)
EXTENDS Integers, Sequences, SequencesExt, FiniteSets

CONSTANTS
    Configs,    \* [remote, host, bpf : BOOLEAN, tcpdump : {"ok","missing","setuid"}, interface : BOOLEAN]
    Fallible,   \* the external calls that may fail by themselves
    CanDie      \* whether tcpdump may exit before it is stopped

VARIABLES
    opt,        \* the options and machine of this task
    pc,         \* where start/stop are
    pargs,      \* the tcpdump argument list
    has_pid,    \* self.pid is set
    has_proc,   \* self.proc is set
    cap,        \* the tcpdump process: "none", "running", "signalled", "exited"
    rfiles,     \* /tmp/<id>.sh, /tmp/<id>.pid, /tmp/tcp.dump.<id>, /tmp/log, /tmp/err on the capture host
    pcap,       \* storage/analyses/<id>/dump.pcap exists
    faulted     \* the calls that failed by themselves

vars == <<opt, pc, pargs, has_pid, has_proc, cap, rfiles, pcap, faulted>>

\* the filter clauses that exclude agent and result-server traffic
NotAgent == <<"and", "not", "(", "agent", ")", "and", "not", "(", "agent", ")">>
NotResult == <<"and", "not", "(", "resultserver", ")", "and", "not", "(", "resultserver", ")">>

\* pargs, token by token; "'" is the quote the remote branch adds
Pargs(o, user) ==
    <<"tcpdump", "-U", "-q", "-s", "0", "-i", "iface", "-n">>
    \o (IF user /\ ~o.remote THEN <<"-Z", "user">> ELSE <<>>)
    \o <<"-w", "path">>
    \o (IF o.remote THEN <<"'", "host", "ip">> ELSE <<"host", "ip">>)
    \o NotAgent \o NotResult
    \o (CASE o.remote /\ o.bpf -> <<"and", "(", "bpf", ")", "'">>
          [] o.bpf -> <<"and", "(", "bpf", ")">>
          [] OTHER -> <<>>)

\* bash accepts the script only when its single quotes pair up; a quote
\* left open runs to the end of the file, a syntax error (exit status 2)
BashParses(p) == Len(SelectSeq(p, LAMBDA t : t = "'")) % 2 = 0

\* an external call: it succeeds with effect ok, or (when it may) fails,
\* check_output raises CalledProcessError and the caller's pc is raised
Call(cmd, ok, raised) ==
    \/ ok /\ UNCHANGED faulted
    \/ /\ cmd \in Fallible /\ faulted' = faulted \cup {cmd}
       /\ pc' = raised
       /\ UNCHANGED <<opt, pargs, has_pid, has_proc, cap, rfiles, pcap>>

Fail(raised) ==
    pc' = raised /\ UNCHANGED <<opt, pargs, has_pid, has_proc, cap, rfiles, pcap, faulted>>

-----------------------------------------------------------------------------
Init ==
    /\ opt \in Configs
    /\ pc = "start" /\ pargs = <<>>
    /\ has_pid = FALSE /\ has_proc = FALSE
    /\ cap = "none" /\ rfiles = {} /\ pcap = FALSE /\ faulted = {}

\* `if remote and not remote_host: log.exception(...); return`
NoSshString(o) == o.remote /\ ~o.host

(***************************************************************************)
(* start up to the branch: the three early returns, the argument list     *)
(* (getuser may raise, and then -Z is left out), the missing ssh string.  *)
(***************************************************************************)
StartChecks ==
    /\ pc = "start"
    /\ IF opt.tcpdump # "ok" \/ ~opt.interface
       THEN pc' = "aborted" /\ UNCHANGED pargs
       ELSE \E user \in IF "getuser" \in Fallible THEN BOOLEAN ELSE {TRUE} :
              /\ pargs' = Pargs(opt, user)
              /\ pc' = CASE NoSshString(opt) -> "aborted"
                          [] opt.remote -> "remote_scp"
                          [] OTHER -> "local_popen"
    /\ UNCHANGED <<opt, has_pid, has_proc, cap, rfiles, pcap, faulted>>

\* self.proc = Popen(pargs); OSError or ValueError is logged and start returns
LocalPopen ==
    /\ pc = "local_popen"
    /\ \/ /\ pc' = "started" /\ has_proc' = TRUE
          /\ cap' = "running" /\ pcap' = TRUE /\ UNCHANGED faulted
       \/ /\ "popen" \in Fallible /\ faulted' = faulted \cup {"popen"}
          /\ pc' = "aborted" /\ UNCHANGED <<has_proc, cap, pcap>>
    /\ UNCHANGED <<opt, pargs, has_pid, rfiles>>

\* write /tmp/<id>.sh and scp it to the capture host
ScpScript ==
    /\ pc = "remote_scp"
    /\ Call("scp_sh", /\ rfiles' = rfiles \cup {"sh"} /\ pc' = "remote_run"
                      /\ UNCHANGED <<opt, pargs, has_pid, has_proc, cap, pcap>>,
            "start_raised")

(***************************************************************************)
(* ssh host nohup /bin/bash /tmp/<id>.sh: the script starts tcpdump in the *)
(* background (which creates the dump file) and writes its pid; the      *)
(* remote shell's redirections create /tmp/log and /tmp/err.  A           *)
(* connection lost after the script ran raises all the same.              *)
(***************************************************************************)
SshRun ==
    /\ pc = "remote_run"
    /\ IF ~BashParses(pargs)
       THEN Fail("start_raised")
       ELSE \/ /\ pc' = "remote_cat" /\ cap' = "running"
               /\ rfiles' = rfiles \cup {"pid", "dump", "log", "err"}
               /\ UNCHANGED <<opt, pargs, has_pid, has_proc, pcap, faulted>>
            \/ /\ "ssh_run" \in Fallible /\ faulted' = faulted \cup {"ssh_run"}
               /\ pc' = "start_raised"
               /\ \E ran \in BOOLEAN :
                    /\ cap' = IF ran THEN "running" ELSE cap
                    /\ rfiles' = IF ran THEN rfiles \cup {"pid", "dump", "log", "err"} ELSE rfiles
               /\ UNCHANGED <<opt, pargs, has_pid, has_proc, pcap>>

\* self.pid = ssh host cat /tmp/<id>.pid (fails when the file is absent)
SshCat ==
    /\ pc = "remote_cat"
    /\ IF "pid" \notin rfiles
       THEN Fail("start_raised")
       ELSE Call("ssh_cat", /\ has_pid' = TRUE /\ pc' = "remote_rm"
                            /\ UNCHANGED <<opt, pargs, has_proc, cap, rfiles, pcap>>,
                 "start_raised")

\* mutant: the cleanup removes the pid file only
SshRmPidOnly ==
    /\ pc = "remote_rm"
    /\ Call("ssh_rm", /\ rfiles' = rfiles \ {"pid"} /\ pc' = "started"
                      /\ UNCHANGED <<opt, pargs, has_pid, has_proc, cap, pcap>>,
            "start_raised")

\* ssh host rm -f /tmp/<id>.pid /tmp/<id>.sh
SshRm ==
    /\ pc = "remote_rm"
    /\ Call("ssh_rm", /\ rfiles' = rfiles \ {"pid", "sh"} /\ pc' = "started"
                      /\ UNCHANGED <<opt, pargs, has_pid, has_proc, cap, pcap>>,
            "start_raised")

(***************************************************************************)
(* stop, remote: ssh host kill -2 <self.pid> (AttributeError when start   *)
(* never set self.pid; a non-zero exit when tcpdump is gone), then scp    *)
(* the dump back and ssh rm -f it.  kill returns before tcpdump exits.    *)
(***************************************************************************)
StopKill ==
    /\ pc \in {"started", "aborted"} /\ opt.remote
    /\ CASE ~has_pid -> Fail("stop_raised")
         [] cap \notin {"running", "signalled"} -> Fail("stop_raised")
         [] OTHER -> Call("ssh_kill", /\ cap' = "signalled" /\ pc' = "stop_scp"
                                      /\ UNCHANGED <<opt, pargs, has_pid, has_proc, rfiles, pcap>>,
                          "stop_raised")

StopScp ==
    /\ pc = "stop_scp"
    /\ IF "dump" \notin rfiles
       THEN Fail("stop_raised")
       ELSE Call("scp_pcap", /\ pcap' = TRUE /\ pc' = "stop_rm"
                             /\ UNCHANGED <<opt, pargs, has_pid, has_proc, cap, rfiles>>,
                 "stop_raised")

StopRm ==
    /\ pc = "stop_rm"
    /\ Call("ssh_rm_dump", /\ rfiles' = rfiles \ {"dump"} /\ pc' = "stopped"
                           /\ UNCHANGED <<opt, pargs, has_pid, has_proc, cap, pcap>>,
            "stop_raised")

\* mutant: the poll test without `not`
StopLocalPollInverted ==
    /\ pc \in {"started", "aborted"} /\ ~opt.remote
    /\ cap' = IF has_proc /\ cap = "exited" THEN "signalled" ELSE cap
    /\ pc' = "stopped"
    /\ UNCHANGED <<opt, pargs, has_pid, has_proc, rfiles, pcap, faulted>>

\* stop, local: `if self.proc and not self.proc.poll(): self.proc.terminate()`
\* (poll() is None while tcpdump runs, its non-zero exit status after)
StopLocal ==
    /\ pc \in {"started", "aborted"} /\ ~opt.remote
    /\ cap' = IF has_proc /\ cap \in {"running", "signalled"} THEN "signalled" ELSE cap
    /\ pc' = "stopped"
    /\ UNCHANGED <<opt, pargs, has_pid, has_proc, rfiles, pcap, faulted>>

\* a signalled tcpdump flushes and exits
CaptureExits ==
    /\ cap = "signalled" /\ cap' = "exited"
    /\ UNCHANGED <<opt, pc, pargs, has_pid, has_proc, rfiles, pcap, faulted>>

\* tcpdump exits by itself (interface gone, disk full)
CaptureDies ==
    /\ CanDie /\ cap = "running" /\ cap' = "exited"
    /\ UNCHANGED <<opt, pc, pargs, has_pid, has_proc, rfiles, pcap, faulted>>

SnifferStep ==
    \/ StartChecks \/ LocalPopen \/ ScpScript \/ SshRun \/ SshCat \/ SshRm
    \/ StopKill \/ StopScp \/ StopRm \/ StopLocal

Done == pc \in {"stopped", "stop_raised", "start_raised"}

Next ==
    \/ SnifferStep \/ CaptureExits \/ CaptureDies
    \/ Done /\ UNCHANGED vars

Spec == Init /\ [][Next]_vars /\ WF_vars(SnifferStep) /\ WF_vars(CaptureExits)

-----------------------------------------------------------------------------
Calls == {"getuser", "popen", "scp_sh", "ssh_run", "ssh_cat", "ssh_rm", "ssh_kill", "scp_pcap", "ssh_rm_dump"}

(* A remote capture that start and stop both completed leaves nothing of *)
(* the task on the capture host: start's cleanup removed the script and  *)
(* the pid file, stop's removed the dump (the shell's /tmp/log and       *)
(* /tmp/err are shared by all tasks and stay).                           *)
RemoteHostCleanOnStop ==
    pc = "stopped" /\ opt.remote => rfiles \subseteq {"log", "err"}

(* Once stop has returned normally, the tcpdump this sniffer started,    *)
(* local (terminate) or remote (kill -2 over ssh), eventually exits.      *)
StopEndsCapture == (pc = "stopped") ~> (cap \in {"none", "exited"})

(* start and stop raise only when an ssh/scp call failed by itself or    *)
(* tcpdump died: with tcpdump, the interface and the ssh string          *)
(* configured and every call succeeding, the capture runs and is stopped. *)
RaisesOnlyOnFailure ==
    pc \in {"start_raised", "stop_raised"} => faulted # {} \/ (CanDie /\ cap = "exited")
=============================================================================
