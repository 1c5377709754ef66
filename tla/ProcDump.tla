----------------------------- MODULE ProcDump -----------------------------
(***************************************************************************)
(* The ProcDump processing module (modules/processing/procdump.py):       *)
(* ProcDump.run reads the dump metadata, walks the procdump folder in     *)
(* os.listdir order, skips dumps without metadata, a module path or a     *)
(* three-word type, classifies the rest and runs static_file_info on each *)
(* with the task's dropped_path as destination.  The extraction chain is  *)
(* the FileExtraInfo module, instanced with its own variables except the  *)
(* destination, which every dump shares.                                  *)
(*                                                                         *)
(* A dump is [name, meta, pids, fields, type, pe, art]: meta says whether *)
(* files.json has an entry for it, fields how many ";?" parts its         *)
(* metadata has, type the words of its libmagic type, pe whether File     *)
(* returned a pefile object, art the file as the extraction chain sees it *)
(* (art.hash is its sha256).                                              *)
(***************************************************************************)
EXTENDS Integers, Sequences, SequencesExt, FiniteSets

CONSTANTS
    Dumps,          \* the files in the procdump folder
    ProcdumpDir,    \* whether the procdump folder exists
    Enabled, Available, InitDests, TmpSuffixes, TridRuns, DieRuns   \* as in FileExtraInfo

VARIABLES
    pc,             \* "start", "loop", "static", "returned" or "raised"
    files,          \* the os.listdir entries not yet visited
    cur,            \* the file_info of the dump being processed
    procdump_files, \* the file_info records appended so far
    pefiles,        \* results["pefiles"]: sha256 -> the dump whose pefile object is kept
    fx_art, fx_pc, fx_i, fx_dd, fx_raised,   \* static_file_info's chain
    dropped         \* the files in dropped_path (the chain's destination)

pvars == <<pc, files, cur, procdump_files, pefiles>>
fxvars == <<fx_art, fx_pc, fx_i, fx_dd, fx_raised>>
vars == <<pvars, fxvars, dropped>>

FX == INSTANCE FileExtraInfo WITH
    Artifacts <- {d.art : d \in Dumps}, art <- fx_art, pc <- fx_pc, i <- fx_i,
    dd <- fx_dd, dest <- dropped, raised <- fx_raised

(***************************************************************************)
(* file_info["cape_type"], kept as its parts: "DOS MZ image: executable",  *)
(* or "PE image" ++ ": 64-bit " / ": 32-bit " / "" ++ "DLL" / "executable" *)
(***************************************************************************)
\* mutant: the bitness test accepts PE32+ as PE32
CapeTypePrefix(ws) ==
    IF ws[1] = "MS-DOS" THEN [kind |-> "DOS", bits |-> 0, dll |-> FALSE]
    ELSE [kind |-> "PE", bits |-> CASE ws[1] \in {"PE32", "PE32+"} -> 32 [] OTHER -> 0,
          dll |-> ws[3] = "(DLL)"]

CapeType(ws) ==
    IF ws[1] = "MS-DOS" THEN [kind |-> "DOS", bits |-> 0, dll |-> FALSE]
    ELSE [kind |-> "PE", bits |-> CASE ws[1] = "PE32+" -> 64 [] ws[1] = "PE32" -> 32 [] OTHER -> 0,
          dll |-> ws[3] = "(DLL)"]

\* mutant: results["pefiles"] keyed by the dump's file name
PefilesByName(pf, d) ==
    IF d.pe /\ d.name \notin DOMAIN pf THEN pf @@ (d.name :> d.name) ELSE pf
\* `if pefile_object: results["pefiles"].setdefault(file_info["sha256"], pefile_object)`
PefilesSetdefault(pf, d) ==
    IF d.pe /\ d.art.hash \notin DOMAIN pf THEN pf @@ (d.art.hash :> d.name) ELSE pf

\* mutant: the metastrings test lets a dump without a module path through
KeptFieldsLoose(d) == d.fields >= 2
\* `if len(metastrings) < 3: continue`
KeptFields(d) == d.fields >= 3

\* a `continue`: on to the next entry of os.listdir
SkipDump == files' = Tail(files) /\ pc' = "loop" /\ UNCHANGED <<cur, procdump_files>>

\* static_file_info(file_info, file_path, ..., self.dropped_path)
StaticCall(d) ==
    /\ fx_art' = d.art /\ fx_pc' = "extract" /\ fx_i' = 1 /\ fx_raised' = {}
    /\ fx_dd' = [extracted_files |-> <<>>, extracted_files_tool |-> FX!None, die |-> FALSE]
    /\ UNCHANGED dropped

\* the file_info record before the loop fills it
NoDump == [name |-> "", pid |-> 0, cape_type |-> [kind |-> "", bits |-> 0, dll |-> FALSE],
           extracted |-> <<>>, tool |-> FX!None]

-----------------------------------------------------------------------------
Init ==
    /\ pc = "start"
    /\ files \in SetToSeqs(Dumps)
    /\ cur = NoDump /\ procdump_files = <<>> /\ pefiles = <<>>
    /\ fx_art \in {d.art : d \in Dumps} /\ fx_pc = "done" /\ fx_i = 1
    /\ fx_dd = [extracted_files |-> <<>>, extracted_files_tool |-> FX!None, die |-> FALSE]
    /\ fx_raised = {}
    /\ dropped \in InitDests

\* `if not os.path.exists(self.procdump_path): return None`
Start ==
    /\ pc = "start"
    /\ pc' = IF ProcdumpDir THEN "loop" ELSE "returned"
    /\ UNCHANGED <<files, cur, procdump_files, pefiles, fxvars, dropped>>

(***************************************************************************)
(* One iteration of the loop up to static_file_info: the metadata test,   *)
(* File.get_all and the pefiles setdefault, the metastrings test,         *)
(* meta["pids"][0] (IndexError on an empty list ends run), the type test  *)
(* and the cape_type.                                                     *)
(***************************************************************************)
VisitDump ==
    LET d == Head(files)
    IN /\ pc = "loop" /\ files # <<>>
       /\ pefiles' = IF d.meta THEN PefilesSetdefault(pefiles, d) ELSE pefiles
       /\ CASE ~d.meta \/ ~KeptFields(d) -> SkipDump /\ UNCHANGED <<fxvars, dropped>>
            [] d.pids = <<>> -> pc' = "raised" /\ UNCHANGED <<files, cur, procdump_files, fxvars, dropped>>
            [] Len(d.type) < 3 -> SkipDump /\ UNCHANGED <<fxvars, dropped>>
            [] OTHER -> /\ cur' = [NoDump EXCEPT !.name = d.name, !.pid = Head(d.pids),
                                                 !.cape_type = CapeType(d.type)]
                        /\ pc' = "static" /\ StaticCall(d)
                        /\ UNCHANGED <<files, procdump_files>>

\* one step of static_file_info's extraction chain, trid and die
StaticStep ==
    /\ pc = "static"
    /\ FX!Skip \/ FX!RunExtractor \/ FX!RunDecoder \/ FX!TridInfo \/ FX!DetectItEasy
    /\ UNCHANGED pvars

\* static_file_info raised; run has no try around it, so run raises too
StaticRaised ==
    /\ pc = "static" /\ fx_pc = "aborted"
    /\ pc' = "raised"
    /\ UNCHANGED <<files, cur, procdump_files, pefiles, fxvars, dropped>>

\* procdump_files.append(file_info), with the keys the chain added
AppendDump ==
    /\ pc = "static" /\ fx_pc = "done"
    /\ procdump_files' = Append(procdump_files, [cur EXCEPT !.extracted = fx_dd.extracted_files,
                                                              !.tool = fx_dd.extracted_files_tool])
    /\ files' = Tail(files) /\ pc' = "loop"
    /\ UNCHANGED <<cur, pefiles, fxvars, dropped>>

\* the loop ends; `return procdump_files`
EndRun ==
    /\ pc = "loop" /\ files = <<>>
    /\ pc' = "returned"
    /\ UNCHANGED <<files, cur, procdump_files, pefiles, fxvars, dropped>>

Next ==
    \/ Start \/ VisitDump \/ StaticStep \/ StaticRaised \/ AppendDump \/ EndRun
    \/ pc \in {"returned", "raised"} /\ UNCHANGED vars

Spec == Init /\ [][Next]_vars /\ WF_vars(Next)

-----------------------------------------------------------------------------
\* the dumps that reach procdump_files: in files.json, with a module path,
\* a pid, and a type of at least three words
Reported == {d \in Dumps : d.meta /\ d.fields >= 3 /\ d.pids # <<>> /\ Len(d.type) >= 3}
DumpNamed(n) == CHOOSE d \in Dumps : d.name = n

TypeOK ==
    /\ pc \in {"start", "loop", "static", "returned", "raised"}
    /\ ToSet(files) \subseteq Dumps
    /\ \A r \in ToSet(procdump_files) : r.name \in {d.name : d \in Dumps}
    /\ DOMAIN pefiles \subseteq {d.art.hash : d \in Dumps}
    /\ dropped \subseteq FX!Hashes

(* The loop over os.listdir reports every dump that has metadata, a      *)
(* module path, a pid and a classifiable type, once each, and no other,   *)
(* whatever the listing order and whatever the extraction chain does.    *)
ReportedExactly ==
    pc = "returned" =>
        /\ {r.name : r \in ToSet(procdump_files)} = {d.name : d \in Reported}
        /\ Len(procdump_files) = Cardinality(Reported)

(* cape_type agrees with the reference reading of the libmagic type: DOS *)
(* for MS-DOS, bitness from PE32+/PE32, DLL when the type says (DLL).     *)
RefCapeType(ws) ==
    [kind |-> IF ws[1] = "MS-DOS" THEN "DOS" ELSE "PE",
     bits |-> IF ws[1] = "PE32+" THEN 64 ELSE IF ws[1] = "PE32" THEN 32 ELSE 0,
     dll  |-> ws[1] # "MS-DOS" /\ "(DLL)" \in ToSet(ws)]

CapeTypeMatchesReference ==
    \A r \in ToSet(procdump_files) : r.cape_type = RefCapeType(DumpNamed(r.name).type)

=============================================================================
