------------------------------- MODULE Demux -------------------------------
(***************************************************************************)
(* The sample demultiplexer of lib/cuckoo/common/demux.py: demux_sample,   *)
(* demux_office, demux_sflock and _sf_chlildren.  Several submission       *)
(* workers (Tasks) demux one sample each at the same time; they share the  *)
(* two scratch roots under tmppath (msoffice-crypt-tmp and cuckoo-sflock)  *)
(* and the files written below them.                                       *)
(*                                                                         *)
(* A step is one place where a worker touches the shared filesystem: the   *)
(* exists test and the mkdir that follows it are separate steps, because   *)
(* another worker may run between them.  The sflock library (unpack,      *)
(* OfficeFile.decrypt) is a black box described by the sample record.    *)
(***************************************************************************)
EXTENDS Integers, Sequences, SequencesExt, FiniteSets, TLC

CONSTANTS
    Tasks,         \* the workers, each demuxing one sample
    Samples,       \* the submitted artifacts a worker may be given
    Packages,      \* values of the package argument ("" when none is chosen)
    Options,       \* task options: [password |-> "none" or a password, file |-> BOOLEAN]
    HAS_SFLOCK,    \* the sflock import succeeded
    use_sflock,    \* the use_sflock argument of demux_sample
    InitDirs,      \* the scratch roots that already exist when the workers start
    WriteMayFail,  \* the write of an extracted child may fail (disk full, bad name)
    DistinctNames  \* no two workers are given samples with the same basename

VARIABLES
    pc,       \* pc[t]: where worker t is in demux_sample
    job,      \* job[t]: the arguments [sample, package, options] of worker t
    route,    \* route[t]: the branch of demux_sample worker t took
    work,     \* work[t]: the _sf_chlildren calls demux_sflock has still to make
    retlist,  \* retlist[t]: the candidate paths collected so far
    dirs,     \* the scratch roots that exist
    fs,       \* fs[p]: the worker whose data the file at path p holds
    read      \* read[t]: whose data the caller read at worker t's candidates

vars == <<pc, job, route, work, retlist, dirs, fs, read>>

NoFile == "no_such_file"
NotExtracted == <<"False">>   \* what _sf_chlildren returns for a child it skips
NoPassword == "none"

(* Paths.  The submitted file of each worker is its own; mkdtemp gives   *)
(* every materialized child a fresh directory; the office staging file   *)
(* is named after the basename of the sample only.                       *)
Orig(t) == <<"orig", t>>
Staging(name) == <<"staging", name>>
\* mutant: children written below cuckoo-sflock itself, without mkdtemp
ScratchPathShared(t, node) == <<"scratch", node>>
ScratchPath(t, node) == <<"scratch", t, node>>

(***************************************************************************)
(* Classification: a magic string is the set of the substrings the code   *)
(* tests for; "x in magic" is x \in magic.                                 *)
(***************************************************************************)
demux_extensions_list ==
    \* the b"..." entries; the list's "" is a str, which a bytes extension never equals
    {".exe", ".dll", ".jar", ".pdf", ".msi", ".zip", ".doc", ".js", ".vbs", ".bat", ".ps1", ".lnk"}
whitelist_extensions == {"doc", "xls", "ppt", "pub", "jar"}
blacklist_extensions == {"apk", "dmg"}
VALID_TYPES == {"PE32", "Java Jar", "Outlook", "Message", "MS Windows shortcut"}
VALID_LINUX_TYPES == {"Bourne-Again", "POSIX shell script", "ELF", "Python"}

\* is_valid_type extends VALID_TYPES with the Linux types before its first test
is_valid_type(magic) == magic \cap (VALID_TYPES \cup VALID_LINUX_TYPES) # {}

\* False, when the options name no password, is NoPassword here
options2passwd(opts) == opts.password

IsOffice(magic) ==
    /\ "Microsoft" \notin magic
    /\ {"Composite Document File", "CDFV2 Encrypted"} \cap magic # {}

IsFinal(magic) ==
    ({"Java Jar", "PE32", "MS-DOS executable"} \cup VALID_LINUX_TYPES) \cap magic # {}

(* sflock, outside this repository: unpack(path, password) opens an      *)
(* archive encrypted with no password or with that one, and raises       *)
(* UnpackException otherwise; OfficeFile.decrypt yields plain contents   *)
(* only for the document's own password.                                  *)
Unpacks(s, password) == s.arcPwd \in {NoPassword, password}
DecryptsWith(s, password) == s.docPwd = password

(***************************************************************************)
(* The order in which demux_sflock calls _sf_chlildren: the grandchildren *)
(* of a child that has children, then that child itself, since           *)
(* filter(None, retlist) is a filter object and always true in Python 3;  *)
(* a childless child alone.  node names the position in the tree.        *)
(***************************************************************************)
VisitsOf(c, i) ==
    IF c.children # <<>>
    THEN [j \in DOMAIN c.children |-> [node |-> <<i, j>>, child |-> c.children[j]]]
            \o << [node |-> <<i>>, child |-> c] >>
    ELSE << [node |-> <<i>>, child |-> c] >>

Visits(s) == FlattenSeq([i \in DOMAIN s.children |-> VisitsOf(s.children[i], i)])

\* _sf_chlildren extracts a child only on its extension or its magic
Accepted(c) == c.ext \in demux_extensions_list \/ is_valid_type(c.magic)

DEMUX_CAP == 10
Truncate(l) == IF Len(l) > DEMUX_CAP THEN SubSeq(l, 1, DEMUX_CAP) ELSE l

-----------------------------------------------------------------------------
Init ==
    /\ job \in [Tasks -> [sample : Samples, package : Packages, options : Options]]
    /\ DistinctNames =>
          \A t, u \in Tasks : t # u => job[t].sample.name # job[u].sample.name
    /\ pc = [t \in Tasks |-> "start"]
    /\ route = [t \in Tasks |-> "none"]
    /\ work = [t \in Tasks |-> <<>>]
    /\ retlist = [t \in Tasks |-> <<>>]
    /\ dirs = InitDirs
    /\ fs = [p \in {Orig(t) : t \in Tasks} |-> p[2]]
    /\ read = [t \in Tasks |-> {}]

Goto(t, l) == pc' = [pc EXCEPT ![t] = l]
Take(t, r) == route' = [route EXCEPT ![t] = r]
Return(t, l) == retlist' = [retlist EXCEPT ![t] = l] /\ Goto(t, "returned")

\* demux_sample: an explicit package returns the file unchanged
DemuxPackage(t) ==
    /\ pc[t] = "start"
    /\ job[t].package # ""
    /\ Return(t, <<Orig(t)>>) /\ Take(t, "package")
    /\ UNCHANGED <<job, work, dirs, fs, read>>

\* demux_sample: an encrypted compound document goes to demux_office
DemuxOffice(t) ==
    /\ pc[t] = "start"
    /\ job[t].package = ""
    /\ IsOffice(job[t].sample.magic) /\ HAS_SFLOCK /\ use_sflock
    /\ Goto(t, "office_dir") /\ Take(t, "office")
    /\ UNCHANGED <<job, work, retlist, dirs, fs, read>>

\* demux_sample: Java archives, executables and Linux binaries are final
DemuxFinal(t) ==
    /\ pc[t] = "start"
    /\ job[t].package = ""
    /\ ~(IsOffice(job[t].sample.magic) /\ HAS_SFLOCK /\ use_sflock)
    /\ IsFinal(job[t].sample.magic)
    /\ Return(t, <<Orig(t)>>) /\ Take(t, "final")
    /\ UNCHANGED <<job, work, dirs, fs, read>>

\* demux_sample: anything else is handed to demux_sflock, when it may be
DemuxOther(t) ==
    /\ pc[t] = "start"
    /\ job[t].package = ""
    /\ ~(IsOffice(job[t].sample.magic) /\ HAS_SFLOCK /\ use_sflock)
    /\ ~IsFinal(job[t].sample.magic)
    /\ IF HAS_SFLOCK /\ use_sflock
       THEN Goto(t, "sflock") /\ Take(t, "sflock") /\ UNCHANGED retlist
       ELSE Return(t, <<Orig(t)>>) /\ Take(t, "unchanged")
    /\ UNCHANGED <<job, work, dirs, fs, read>>

-----------------------------------------------------------------------------
(* demux_office *)
OfficeDirCheck(t) ==
    /\ pc[t] = "office_dir"
    /\ Goto(t, IF "msoffice" \in dirs THEN "office_decrypt" ELSE "office_mkdir")
    /\ UNCHANGED <<job, route, work, retlist, dirs, fs, read>>

\* os.makedirs without exist_ok: FileExistsError leaves demux_sample
OfficeMakedirs(t) ==
    /\ pc[t] = "office_mkdir"
    /\ \/ /\ "msoffice" \in dirs
          /\ Goto(t, "raised") /\ UNCHANGED dirs
       \/ /\ "msoffice" \notin dirs
          /\ dirs' = dirs \cup {"msoffice"} /\ Goto(t, "office_decrypt")
    /\ UNCHANGED <<job, route, work, retlist, fs, read>>

OfficeDecrypt(t) ==
    LET s == job[t].sample
        password == options2passwd(job[t].options)
    IN /\ pc[t] = "office_decrypt"
       /\ CASE ~DecryptsWith(s, password) ->
                 Return(t, <<Orig(t)>>) /\ UNCHANGED fs
            \* open(decrypted_name, "wb") raises when the directory is missing
            [] "msoffice" \notin dirs -> Goto(t, "raised") /\ UNCHANGED <<retlist, fs>>
            [] OTHER -> /\ fs' = (Staging(s.name) :> t) @@ fs
                        /\ Return(t, <<Staging(s.name)>>)
       /\ UNCHANGED <<job, route, work, dirs, read>>

-----------------------------------------------------------------------------
(* demux_sflock; its result goes back to demux_sample at "sf_done" *)
SflockReturn(t, l) ==
    /\ retlist' = [retlist EXCEPT ![t] = l] /\ Goto(t, "sf_done")
    /\ UNCHANGED work

DemuxSflock(t) ==
    LET s == job[t].sample
        opts == job[t].options
        password == IF options2passwd(opts) # NoPassword THEN options2passwd(opts) ELSE "infected"
        \* on UnpackException unpack is tried once more without a password
        opened == Unpacks(s, password) \/ Unpacks(s, NoPassword)
    IN /\ pc[t] = "sflock"
       /\ CASE s.ext = ".bin"                      -> SflockReturn(t, <<>>)
            [] opts.file                           -> SflockReturn(t, <<Orig(t)>>)
            [] ~opened                             -> SflockReturn(t, <<>>)
            [] s.package \in whitelist_extensions  -> SflockReturn(t, <<Orig(t)>>)
            [] s.package \in blacklist_extensions  -> SflockReturn(t, <<>>)
            [] Visits(s) = <<>>                    -> SflockReturn(t, <<>>)
            [] OTHER -> /\ work' = [work EXCEPT ![t] = Visits(s)]
                        /\ Goto(t, "child") /\ UNCHANGED retlist
       /\ route' = [route EXCEPT ![t] = IF pc'[t] = "child" THEN "walk" ELSE @]
       /\ UNCHANGED <<job, dirs, fs, read>>

\* mutant: False results kept in the list (no filter(None, ...))
MaterializeUnfiltered(t, v) ==
    LET path == ScratchPath(t, v.node)
    IN /\ work' = [work EXCEPT ![t] = Tail(@)]
       /\ Goto(t, IF Tail(work[t]) = <<>> THEN "sf_done" ELSE "child")
       /\ retlist' = [retlist EXCEPT ![t] = Append(@, IF v.child.contents THEN path ELSE NotExtracted)]
       /\ IF v.child.contents THEN fs' = (path :> t) @@ fs ELSE UNCHANGED fs

\* mkdtemp and the write of the child's contents; a failed write is logged
\* and the path, assigned before the open, is still returned
Materialize(t, v) ==
    LET path == ScratchPath(t, v.node)
    IN /\ work' = [work EXCEPT ![t] = Tail(@)]
       /\ Goto(t, IF Tail(work[t]) = <<>> THEN "sf_done" ELSE "child")
       /\ IF v.child.contents
          THEN /\ retlist' = [retlist EXCEPT ![t] = Append(@, path)]
               /\ \/ fs' = (path :> t) @@ fs
                  \/ WriteMayFail /\ UNCHANGED fs
          ELSE UNCHANGED <<retlist, fs>>

\* _sf_chlildren for the next child
SfChild(t) ==
    LET v == Head(work[t])
    IN /\ pc[t] = "child"
       /\ \/ /\ ~Accepted(v.child)
             /\ work' = [work EXCEPT ![t] = Tail(@)]
             /\ Goto(t, IF Tail(work[t]) = <<>> THEN "sf_done" ELSE "child")
             /\ UNCHANGED <<retlist, fs>>
          \/ Accepted(v.child) /\ "sflock" \in dirs /\ Materialize(t, v)
          \/ /\ Accepted(v.child) /\ "sflock" \notin dirs
             /\ Goto(t, "child_mkdir") /\ UNCHANGED <<work, retlist, fs>>
       /\ UNCHANGED <<job, route, dirs, read>>

\* os.mkdir(cuckoo-sflock): a FileExistsError leaves _sf_chlildren and ends
\* the whole loop in demux_sflock's except clause
SfMkdir(t) ==
    /\ pc[t] = "child_mkdir"
    /\ \/ /\ "sflock" \in dirs
          /\ Goto(t, "sf_done") /\ work' = [work EXCEPT ![t] = <<>>]
          /\ UNCHANGED <<retlist, dirs, fs>>
       \/ /\ "sflock" \notin dirs
          /\ dirs' = dirs \cup {"sflock"}
          /\ Materialize(t, Head(work[t]))
    /\ UNCHANGED <<job, route, read>>

\* mutant: no fallback to the submitted file
DemuxFinishNoFallback(t) ==
    /\ pc[t] = "sf_done"
    /\ Return(t, Truncate(retlist[t]))
    /\ UNCHANGED <<job, route, work, dirs, fs, read>>

\* mutant: no truncation to the first DEMUX_CAP
DemuxFinishNoCap(t) ==
    /\ pc[t] = "sf_done"
    /\ Return(t, IF retlist[t] = <<>> THEN <<Orig(t)>> ELSE retlist[t])
    /\ UNCHANGED <<job, route, work, dirs, fs, read>>

\* demux_sample after demux_sflock: fall back to the file, cap the list
DemuxFinish(t) ==
    /\ pc[t] = "sf_done"
    /\ Return(t, IF retlist[t] = <<>> THEN <<Orig(t)>> ELSE Truncate(retlist[t]))
    /\ UNCHANGED <<job, route, work, dirs, fs, read>>

\* the caller reads every candidate demux_sample returned
Consume(t) ==
    /\ pc[t] = "returned"
    /\ read' = [read EXCEPT ![t] =
                 {IF p \in DOMAIN fs THEN fs[p] ELSE NoFile : p \in ToSet(retlist[t])}]
    /\ Goto(t, "consumed")
    /\ UNCHANGED <<job, route, work, retlist, dirs, fs>>

Done == \A t \in Tasks : pc[t] \in {"consumed", "raised"}

Next ==
    \/ \E t \in Tasks :
          \/ DemuxPackage(t) \/ DemuxOffice(t) \/ DemuxFinal(t) \/ DemuxOther(t)
          \/ OfficeDirCheck(t) \/ OfficeMakedirs(t) \/ OfficeDecrypt(t)
          \/ DemuxSflock(t) \/ SfChild(t) \/ SfMkdir(t) \/ DemuxFinish(t)
          \/ Consume(t)
    \/ Done /\ UNCHANGED vars

Spec == Init /\ [][Next]_vars

-----------------------------------------------------------------------------
(***************************************************************************)
(* Properties                                                              *)
(***************************************************************************)
Path == {Orig(t) : t \in Tasks} \cup {Staging(s.name) : s \in Samples}
            \cup UNION {{ScratchPath(t, v.node) : v \in ToSet(Visits(s))} : t \in Tasks, s \in Samples}

TypeOK ==
    /\ pc \in [Tasks -> {"start", "office_dir", "office_mkdir", "office_decrypt", "sflock",
                         "child", "child_mkdir", "sf_done", "returned", "consumed", "raised"}]
    /\ route \in [Tasks -> {"none", "package", "office", "final", "sflock", "walk", "unchanged"}]
    /\ retlist \in [Tasks -> Seq(Path)]
    /\ dirs \subseteq {"msoffice", "sflock"}
    /\ DOMAIN fs \subseteq Path /\ \A p \in DOMAIN fs : fs[p] \in Tasks
    /\ read \in [Tasks -> SUBSET (Tasks \cup {NoFile})]

Finished(t) == pc[t] \in {"returned", "consumed"}

(* Every list demux_sample returns holds between one and DEMUX_CAP paths:  *)
(* the fallback to the submitted file and the truncation to the first 10. *)
CandidateBounds == \A t \in Tasks : Finished(t) => Len(retlist[t]) \in 1..DEMUX_CAP

(* Every candidate a worker's caller reads is a file holding that worker's *)
(* own data: no other worker wrote it, and it exists.  Scratch directories *)
(* from mkdtemp and the office staging path are what keep workers apart.   *)
CandidatesOwnContent == \A t \in Tasks : read[t] \subseteq {t}

(* When demux_sflock walks the unpacked tree, every child _sf_chlildren   *)
(* accepts and that has contents is extracted, in the order of the walk, *)
(* up to the cap: an error on one child never loses its siblings.         *)
Extracted(t) ==
    LET sel == SelectSeq(Visits(job[t].sample), LAMBDA v : Accepted(v.child) /\ v.child.contents)
    IN [i \in 1..Len(sel) |-> ScratchPath(t, sel[i].node)]

AllAcceptedChildrenExtracted ==
    \A t \in Tasks :
        route[t] = "walk" /\ Finished(t) =>
            retlist[t] = IF Extracted(t) = <<>> THEN <<Orig(t)>> ELSE Truncate(Extracted(t))

=============================================================================
