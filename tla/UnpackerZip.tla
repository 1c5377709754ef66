---------------------------- MODULE UnpackerZip ----------------------------
(***************************************************************************)
(* The CAPE "Unpacker_zip" analysis package                               *)
(* (analyzer/windows/modules/packages/Unpacker_zip.py): start() reads the *)
(* archive's member list, extract_zip() extracts it into %TEMP% and        *)
(* recurses into every member named *.zip down to recursion_depth 4, and  *)
(* start() then picks the member to launch.  The recursion is an explicit *)
(* stack of extract_zip frames, so that an exception raised in a nested   *)
(* call can be followed through the caller's except and finally clauses.  *)
(*                                                                         *)
(* Files are records [stem, ext]; an archive is an element of             *)
(* DOMAIN Archives, any other content a payload.  Passwords come from the *)
(* task options and are therefore str, never bytes.                        *)
(***************************************************************************)
EXTENDS Integers, Sequences, SequencesExt, FiniteSets, TLC

CONSTANTS
    Archives,     \* Archives[a].members: Seq of [name, content, enc, bad]
    Payloads,     \* contents that are not archives
    Submissions,  \* the submitted file: [name, content]; it lies in %TEMP% itself
    Passwords,    \* values of the "password" option ("none" when absent)
    FileOptions   \* values of the "file" option (NoOption when absent)

VARIABLES
    pc,        \* where start() is
    sub,       \* the submitted file
    password,  \* the password option
    fileopt,   \* the file option
    zipinfos,  \* the member list get_infos read before extracting
    fs,        \* fs[n]: the content of %TEMP%\n, or Absent
    stack,     \* the extract_zip frames, innermost last
    extracted, \* <<archive, recursion_depth>> of every extractall attempted
    err,       \* the exception start() ended with
    launched   \* [tool, name, content]: what start() executed

vars == <<pc, sub, password, fileopt, zipinfos, fs, stack, extracted, err, launched>>

Absent == "absent"
None == "none"
MAX_DEPTH == 4
NoOption == [stem |-> "", ext |-> ""]
NotLaunched == [tool |-> None, name |-> NoOption, content |-> Absent]

Old(n) == [stem |-> n.stem, ext |-> n.ext \o ".old"]
IsZipName(n) == n.ext = ".zip"
IsArchive(c) == c \in DOMAIN Archives
Members(a) == Archives[a].members
NameList(a) == [i \in DOMAIN Members(a) |-> Members(a)[i].name]

AllNames ==
    LET plain == {s.name : s \in Submissions}
                   \cup UNION {ToSet(NameList(a)) : a \in DOMAIN Archives}
    IN plain \cup {Old(n) : n \in plain}

(***************************************************************************)
(* ZipFile.extractall(path, pwd): members are written one by one; before  *)
(* each, ZipFile.open raises TypeError for a str pwd, BadZipFile for a     *)
(* damaged member and RuntimeError for an encrypted member without pwd.    *)
(* Result: [written: the members written, exc: the exception or None].    *)
(***************************************************************************)
MemberFails(m, pwd) == pwd # None \/ m.bad \/ m.enc
MemberExc(m, pwd) ==
    CASE pwd # None -> "TypeError"
      [] m.bad      -> "BadZipFile"
      [] OTHER      -> "RuntimeError"

ExtractAllResult(a, pwd) ==
    LET ms == Members(a)
        failing == {i \in DOMAIN ms : MemberFails(ms[i], pwd)}
        k == IF failing = {} THEN Len(ms) + 1 ELSE Min(failing)
    IN [written |-> SubSeq(ms, 1, k - 1),
        exc |-> IF failing = {} THEN None ELSE MemberExc(ms[k], pwd)]

\* the written members replace what %TEMP% held under their names, in order
WriteAll(f, ms) == [n \in DOMAIN f |->
    LET hits == {i \in DOMAIN ms : ms[i].name = n}
    IN IF hits = {} THEN f[n] ELSE ms[Max(hits)].content]

(***************************************************************************)
(* One try/except of extract_zip: pwd first; BadZipfile becomes           *)
(* CuckooPackageError; on RuntimeError extractall again with "infected",  *)
(* whose TypeError is not caught.  Result: [written, exc].                *)
(***************************************************************************)
TryExtract(a, pwd) ==
    LET first == ExtractAllResult(a, pwd)
        retry == ExtractAllResult(a, "infected")
    IN CASE first.exc = "BadZipFile" -> [first EXCEPT !.exc = "CuckooPackageError"]
         [] first.exc = "RuntimeError" ->
               [written |-> first.written \o retry.written,
                exc |-> CASE retry.exc = None -> None
                          [] retry.exc = "RuntimeError" -> "CuckooPackageError"
                          [] OTHER -> retry.exc]
         [] OTHER -> first

\* is_overwritten(): the archive lists a member with its own name
IsOverwritten(path, a) == path \in ToSet(NameList(a))

Frame(path, depth) ==
    [path |-> path, depth |-> depth, phase |-> "check", arc |-> None, todo |-> <<>>, exc |-> None]
Top == stack[Len(stack)]
SetTop(f) == stack' = [stack EXCEPT ![Len(stack)] = f]

\* exceptions the recursion loop of extract_zip catches and logs
CAUGHT == {None, "BadZipFile", "RuntimeError"}

-----------------------------------------------------------------------------
Init ==
    /\ sub \in Submissions
    /\ password \in Passwords
    /\ fileopt \in FileOptions
    /\ fs = [n \in AllNames |-> IF n = sub.name THEN sub.content ELSE Absent]
    /\ pc = "start"
    /\ zipinfos = <<>>
    /\ stack = <<>>
    /\ extracted = {}
    /\ err = None
    /\ launched = NotLaunched

\* start(): get_infos, then extract_zip(path, root, password, 0)
Start ==
    /\ pc = "start"
    /\ IF IsArchive(fs[sub.name])
       THEN /\ zipinfos' = NameList(fs[sub.name])
            /\ stack' = << Frame(sub.name, 0) >>
            /\ pc' = "extracting" /\ UNCHANGED err
       ELSE /\ pc' = "failed" /\ err' = "CuckooPackageError"
            /\ UNCHANGED <<zipinfos, stack>>
    /\ UNCHANGED <<sub, password, fileopt, fs, extracted, launched>>

\* mutant: the archive is extracted in place, with no is_overwritten test
CheckOverwrittenNoRename ==
    LET f == Top  c == fs[f.path]
    IN /\ pc = "extracting" /\ f.phase = "check"
       /\ CASE c = Absent ->
                 SetTop([f EXCEPT !.phase = "done", !.exc = "FileNotFoundError"])
            [] ~IsArchive(c) ->
                 SetTop([f EXCEPT !.phase = "done", !.exc = "BadZipFile"])
            [] OTHER ->
                 SetTop([f EXCEPT !.arc = c, !.phase = "extract"])
       /\ UNCHANGED <<fs, pc, sub, password, fileopt, zipinfos, extracted, err, launched>>

\* is_overwritten(), and the rename of the archive to <name>.old
CheckOverwritten ==
    LET f == Top  c == fs[f.path]
    IN /\ pc = "extracting" /\ f.phase = "check"
       /\ CASE c = Absent ->
                 SetTop([f EXCEPT !.phase = "done", !.exc = "FileNotFoundError"]) /\ UNCHANGED fs
            [] ~IsArchive(c) ->
                 SetTop([f EXCEPT !.phase = "done", !.exc = "BadZipFile"]) /\ UNCHANGED fs
            [] IsOverwritten(f.path, c) ->
                 /\ fs' = [fs EXCEPT ![Old(f.path)] = c, ![f.path] = Absent]
                 /\ SetTop([f EXCEPT !.path = Old(f.path), !.arc = c, !.phase = "extract"])
            [] OTHER ->
                 SetTop([f EXCEPT !.arc = c, !.phase = "extract"]) /\ UNCHANGED fs
       /\ UNCHANGED <<pc, sub, password, fileopt, zipinfos, extracted, err, launched>>

\* mutant: the finally clause tests recursion_depth < 3
ExtractZipShallow ==
    LET f == Top  r == TryExtract(f.arc, password)
        nested == SelectSeq(NameList(f.arc), IsZipName)
    IN /\ pc = "extracting" /\ f.phase = "extract"
       /\ fs' = WriteAll(fs, r.written)
       /\ extracted' = extracted \cup {<<f.arc, f.depth>>}
       /\ SetTop([f EXCEPT !.phase = "nested", !.exc = r.exc,
                           !.todo = IF f.depth < MAX_DEPTH - 1 THEN nested ELSE <<>>])
       /\ UNCHANGED <<pc, sub, password, fileopt, zipinfos, err, launched>>

\* the try/except around extractall; the finally clause then collects the
\* nested *.zip names when recursion_depth < 4
ExtractZip ==
    LET f == Top  r == TryExtract(f.arc, password)
        nested == SelectSeq(NameList(f.arc), IsZipName)
    IN /\ pc = "extracting" /\ f.phase = "extract"
       /\ fs' = WriteAll(fs, r.written)
       /\ extracted' = extracted \cup {<<f.arc, f.depth>>}
       /\ SetTop([f EXCEPT !.phase = "nested", !.exc = r.exc,
                           !.todo = IF f.depth < MAX_DEPTH THEN nested ELSE <<>>])
       /\ UNCHANGED <<pc, sub, password, fileopt, zipinfos, err, launched>>

\* mutant: the nested call passes recursion_depth unchanged
RecurseSameDepth ==
    LET f == Top
    IN /\ pc = "extracting" /\ f.phase = "nested" /\ f.todo # <<>>
       /\ stack' = [stack EXCEPT ![Len(stack)] = [f EXCEPT !.todo = Tail(f.todo)]]
                     \o << Frame(Head(f.todo), f.depth) >>
       /\ UNCHANGED <<pc, sub, password, fileopt, zipinfos, fs, extracted, err, launched>>

\* the finally loop calls extract_zip on the next nested name
Recurse ==
    LET f == Top
    IN /\ pc = "extracting" /\ f.phase = "nested" /\ f.todo # <<>>
       /\ stack' = [stack EXCEPT ![Len(stack)] = [f EXCEPT !.todo = Tail(f.todo)]]
                     \o << Frame(Head(f.todo), f.depth + 1) >>
       /\ UNCHANGED <<pc, sub, password, fileopt, zipinfos, fs, extracted, err, launched>>

\* the finally loop is over: the frame returns, re-raising its exception
LoopDone ==
    LET f == Top
    IN /\ pc = "extracting" /\ f.phase = "nested" /\ f.todo = <<>>
       /\ SetTop([f EXCEPT !.phase = "done"])
       /\ UNCHANGED <<pc, sub, password, fileopt, zipinfos, fs, extracted, err, launched>>

\* a finished frame returns to its caller: the loop catches BadZipfile and
\* RuntimeError; any other exception ends the caller's finally clause too
Unwind ==
    LET f == Top  rest == SubSeq(stack, 1, Len(stack) - 1)
    IN /\ pc = "extracting" /\ f.phase = "done"
       /\ IF rest = <<>>
          THEN /\ stack' = <<>>
               /\ pc' = IF f.exc = None THEN "select" ELSE "failed"
               /\ err' = f.exc
          ELSE /\ stack' = IF f.exc \in CAUGHT THEN rest
                           ELSE [rest EXCEPT ![Len(rest)] =
                                   [@ EXCEPT !.phase = "done", !.exc = f.exc]]
               /\ UNCHANGED <<pc, err>>
       /\ UNCHANGED <<sub, password, fileopt, zipinfos, fs, extracted, launched>>

(***************************************************************************)
(* start() after extract_zip: the member to run, then the launcher        *)
(***************************************************************************)
EXE_EXTS == {".exe", ".scr", ".msi", ".bat", ".lnk", ".js", ".jse", ".vbs", ".vbe", ".wsf"}
DLL_EXTS == {".dll", ".ocx"}
FirstWith(exts) == SelectSeq(zipinfos, LAMBDA n : n.ext \in exts)

SelectFile ==
    CASE fileopt # NoOption             -> fileopt
      [] FirstWith(EXE_EXTS) # <<>> -> Head(FirstWith(EXE_EXTS))
      [] FirstWith(DLL_EXTS) # <<>> -> Head(FirstWith(DLL_EXTS))
      [] OTHER                      -> Head(zipinfos)

\* the launcher and the file it is given; powershell is given path, the archive
Launcher(n) ==
    CASE n.ext = ".lnk" -> [tool |-> "cmd", file |-> n]
      [] n.ext = ".msi" -> [tool |-> "msiexec", file |-> n]
      [] n.ext \in {".js", ".jse", ".vbs", ".vbe", ".wsf"} -> [tool |-> "wscript", file |-> n]
      [] n.ext \in DLL_EXTS -> [tool |-> "rundll32", file |-> n]
      [] n.ext = ".ps1" -> [tool |-> "powershell", file |-> sub.name]
      [] OTHER -> [tool |-> "direct", file |-> n]

Launch ==
    /\ pc = "select"
    /\ IF fileopt = NoOption /\ zipinfos = <<>>
       THEN pc' = "failed" /\ err' = "CuckooPackageError" /\ UNCHANGED launched
       ELSE LET l == Launcher(SelectFile)
            IN /\ launched' = [tool |-> l.tool, name |-> SelectFile,
                               content |-> IF l.file \in DOMAIN fs THEN fs[l.file] ELSE Absent]
               /\ pc' = "launched" /\ UNCHANGED err
    /\ UNCHANGED <<sub, password, fileopt, zipinfos, fs, stack, extracted>>

Finished == pc \in {"launched", "failed"}

Next ==
    \/ Start \/ CheckOverwritten \/ ExtractZip \/ Recurse \/ LoopDone \/ Unwind \/ Launch
    \/ Finished /\ UNCHANGED vars

Spec == Init /\ [][Next]_vars

-----------------------------------------------------------------------------
(***************************************************************************)
(* Properties                                                              *)
(***************************************************************************)
Content == DOMAIN Archives \cup Payloads \cup {Absent}
FrameType == [path : AllNames, depth : 0..MAX_DEPTH, phase : {"check", "extract", "nested", "done"},
              arc : DOMAIN Archives \cup {None}, todo : Seq(AllNames), exc : STRING]

TypeOK ==
    /\ pc \in {"start", "extracting", "select", "launched", "failed"}
    /\ fs \in [AllNames -> Content]
    /\ stack \in Seq(FrameType) /\ Len(stack) <= MAX_DEPTH + 1
    /\ extracted \subseteq (DOMAIN Archives) \X (0..MAX_DEPTH)
    /\ err \in STRING

\* the members below archive a that extract_zip reaches from recursion_depth d
RECURSIVE TreeMembers(_, _)
TreeMembers(a, d) ==
    Members(a) \o FlattenSeq([i \in DOMAIN Members(a) |->
        LET m == Members(a)[i]
        IN IF IsZipName(m.name) /\ IsArchive(m.content) /\ d < MAX_DEPTH
           THEN TreeMembers(m.content, d + 1) ELSE <<>>])

\* reference: the archives extracted, with their depth, for a tree of distinct names
RECURSIVE Reach(_, _)
Reach(a, d) ==
    {<<a, d>>} \cup
      IF d < MAX_DEPTH
      THEN UNION {Reach(m.content, d + 1) :
                    m \in {m \in ToSet(Members(a)) : IsZipName(m.name) /\ IsArchive(m.content)}}
      ELSE {}

\* a non-empty archive with no damaged member (encrypted members use "infected")
WellFormed ==
    IsArchive(sub.content) /\ Members(sub.content) # <<>> /\ \A m \in ToSet(TreeMembers(sub.content, 0)) : ~m.bad

\* well formed, unencrypted, no password option, no name used twice
Clean ==
    LET tree == TreeMembers(sub.content, 0)
    IN /\ WellFormed /\ password = None
       /\ \A m \in ToSet(tree) : ~m.enc
       /\ IsInjective(<<sub.name>> \o [i \in DOMAIN tree |-> tree[i].name])

(* For a tree of distinct names, the explicit recursion of extract_zip    *)
(* extracts exactly the archives the recursive reference Reach names, at *)
(* the depths it names: every nested *.zip down to recursion_depth 4.     *)
ExpansionMatchesReference ==
    Clean /\ Finished => extracted = Reach(sub.content, 0)

(* After start(), the submitted archive's content is still in %TEMP%,     *)
(* under its own name or renamed aside to <name>.old (is_overwritten).    *)
OriginalPreserved ==
    Finished /\ IsArchive(sub.content) => \E n \in AllNames : fs[n] = sub.content

=============================================================================
