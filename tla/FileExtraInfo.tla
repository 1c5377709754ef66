--------------------------- MODULE FileExtraInfo ---------------------------
(***************************************************************************)
(* The extraction tool chain of static_file_info                          *)
(* (lib/cuckoo/common/integrations/file_extra_info.py):                    *)
(* generic_file_extractors runs a fixed list of extractors on one file,   *)
(* each guarded by the file's type, its YARA hits or an earlier result,   *)
(* each catching what it can and the loop catching the rest; every        *)
(* extractor hands its output files to _extracted_files_metadata, which   *)
(* moves them into destination_folder under their sha256.  After the      *)
(* chain, trid_info and detect_it_easy_info add the "trid" and "die" keys. *)
(*                                                                         *)
(* An output file is a record [name, hash]; a name of one character is a  *)
(* string of length one, because three extractors list their tempdir by   *)
(* iterating over the characters of its path.                             *)
(***************************************************************************)
EXTENDS Integers, Sequences, SequencesExt, FiniteSets

CONSTANTS
    Artifacts,   \* [hash, tags, out : [TOOLS -> Seq([name, hash])], fails]
    Enabled,     \* the extractors enabled in selfextract.conf
    Available,   \* the extractors whose binary or Python decoder is installed
    InitDests,   \* what destination_folder may hold already (earlier files of the task)
    TmpSuffixes, \* the random part of a mkdtemp name, as a sequence of characters
    TridRuns,    \* what trid_info's check_output may do: "off", "ok", "error", "missing"
    DieRuns      \* what detect_it_easy_info may meet: "off", "no_binary", "error",
                 \* "no_detects", "bad_json", "empty", "strings"

VARIABLES
    art,     \* the file under analysis
    pc,      \* "extract", "trid", "die", "done", or "aborted" (static_file_info raised)
    i,       \* the index of the extractor the loop is at
    dd,      \* data_dictionary: the keys the chain reads or writes
    dest,    \* the sha256 names present in destination_folder
    raised   \* the extractors whose exception the loop caught and logged

vars == <<art, pc, i, dd, dest, raised>>

\* the order of the tuple in generic_file_extractors
TOOLS == <<"msi", "kixtart", "vbe", "batch", "UnAutoIt", "RarSFX", "UPX", "NSIS", "Inno">>
DECODERS == {"vbe", "batch"}
CHAR_LISTED == {"UnAutoIt", "RarSFX", "NSIS"}
None == "none"

\* the guard each extractor tests before running; Inno reads data_dictionary["die"]
Applies(t, a, die) ==
    CASE t = "msi"      -> "MSI Installer" \in a.tags
      [] t = "kixtart"  -> "kixtart magic" \in a.tags
      [] t = "vbe"      -> "#@~^" \in a.tags
      [] t = "batch"    -> ".bat" \in a.tags
      [] t = "UnAutoIt" -> "AutoIT_Compiled" \in a.tags
      [] t = "RarSFX"   -> "RAR self-extracting archive" \in a.tags
      [] t = "UPX"      -> "UPX compressed" \in a.tags
      [] t = "NSIS"     -> "Nullsoft Installer self-extracting archive" \in a.tags
      [] t = "Inno"     -> die /\ "Inno Setup" \in a.tags

\* tempfile.TemporaryDirectory(prefix=...): "/tmp/" ++ prefix ++ random part
PREFIX ==
    "UnAutoIt" :> <<"u", "n", "a", "u", "t", "o", "i", "t", "_">> @@
    "RarSFX"   :> <<"u", "n", "r", "a", "r", "_">> @@
    "NSIS"     :> <<"u", "n", "n", "s", "i", "s", "_">>
TempPath(t, sfx) == <<"/", "t", "m", "p", "/">> \o PREFIX[t] \o sfx

\* [os.path.join(tempdir, c) for c in tempdir if os.path.isfile(...)]
CharHits(t, outs, sfx) ==
    LET path == TempPath(t, sfx)
    IN FlattenSeq([k \in DOMAIN path |-> SelectSeq(outs, LAMBDA o : o.name = path[k])])

Listing(t, outs, sfx) ==
    LET hits == CharHits(t, outs, sfx)
    IN IF t \in CHAR_LISTED /\ hits # <<>> THEN hits ELSE outs

(***************************************************************************)
(* _extracted_files_metadata: for each file, File(path).get_all() (which  *)
(* raises once the file has been moved away), one record, and a move to   *)
(* destination_folder/<sha256> unless that name exists.  Result:          *)
(* [recs, dest, raised]; the files moved before a raise stay moved.       *)
(***************************************************************************)
\* mutant: the file is moved under its own name, not its sha256
MoveUnderName(acc, f) ==
    [acc EXCEPT !.dest = @ \cup {f.name},
                !.gone = IF f.name \in acc.dest THEN @ ELSE @ \cup {f.name}]

MoveUnlessExists(acc, f) ==
    [acc EXCEPT !.dest = @ \cup {f.hash},
                !.gone = IF f.hash \in acc.dest THEN @ ELSE @ \cup {f.name}]

CatalogueStep(acc, f) ==
    CASE acc.raised        -> acc
      [] f.name \in acc.gone -> [acc EXCEPT !.raised = TRUE]
      [] OTHER             -> [MoveUnlessExists(acc, f) EXCEPT !.recs = Append(@, f.hash)]

Catalogue(files, d) ==
    FoldLeft(CatalogueStep, [recs |-> <<>>, dest |-> d, gone |-> {}, raised |-> FALSE], files)

\* data_dictionary.setdefault("extracted_files", ...) and ..._tool
SetDefault(d, recs, t) ==
    IF d.extracted_files = <<>>
    THEN [d EXCEPT !.extracted_files = recs, !.extracted_files_tool = t]
    ELSE d

\* the for loop moves to the next extractor, whatever this one did
Advance(exc) ==
    /\ pc' = IF i = Len(TOOLS) THEN "trid" ELSE "extract"
    /\ i' = i + 1

-----------------------------------------------------------------------------
Init ==
    /\ art \in Artifacts
    /\ pc = "extract" /\ i = 1
    /\ dd = [extracted_files |-> <<>>, extracted_files_tool |-> None, die |-> FALSE]
    /\ dest \in InitDests
    /\ raised = {}

\* `if not ...get("enabled", False): continue`
Skip ==
    /\ pc = "extract" /\ TOOLS[i] \notin Enabled
    /\ Advance(FALSE)
    /\ UNCHANGED <<art, dd, dest, raised>>

(***************************************************************************)
(* An extractor with an external tool or in-process unpacker: its guard,  *)
(* the tool (whose CalledProcessError is caught inside), the listing of   *)
(* its tempdir, _extracted_files_metadata, and the setdefault.  An        *)
(* exception of the metadata step is caught inside too (kixtart has no    *)
(* try, and the loop catches it instead).                                 *)
(***************************************************************************)
RunExtractor ==
    LET t == TOOLS[i]  outs == art.out[t]
    IN /\ pc = "extract" /\ t \in Enabled /\ t \notin DECODERS
       /\ IF ~Applies(t, art, dd.die) \/ t \notin Available \/ t \in art.fails \/ outs = <<>>
          THEN UNCHANGED <<dd, dest, raised>> /\ Advance(FALSE)
          ELSE \E sfx \in TmpSuffixes :
                 LET c == Catalogue(Listing(t, outs, sfx), dest)
                 IN /\ dest' = c.dest
                    /\ dd' = IF c.raised THEN dd ELSE SetDefault(dd, c.recs, t)
                    /\ raised' = IF c.raised /\ t = "kixtart" THEN raised \cup {t} ELSE raised
                    /\ Advance(c.raised /\ t = "kixtart")
       /\ UNCHANGED art

(***************************************************************************)
(* vbe_extract and batch_extract: decode in process; batch returns when  *)
(* the decoded bytes hash like the file.  _generic_post_extraction_process *)
(* writes the decoded file into a TemporaryDirectory and leaves the with  *)
(* block, removing it, before _extracted_files_metadata opens the file:   *)
(* that raises, and the loop logs it.                                      *)
(***************************************************************************)
RunDecoder ==
    LET t == TOOLS[i]  decoded == art.out[t]
        decodes == /\ Applies(t, art, dd.die) /\ t \in Available /\ decoded # <<>>
                   /\ (t = "batch" => decoded[1].hash # art.hash)
    IN /\ pc = "extract" /\ t \in Enabled /\ t \in DECODERS
       /\ raised' = IF decodes THEN raised \cup {t} ELSE raised
       /\ Advance(decodes)
       /\ UNCHANGED <<art, dd, dest>>

(***************************************************************************)
(* `if processing_conf.trid.enabled: trid_info(...)`: a CalledProcessError *)
(* is logged; a trid binary that is not there raises FileNotFoundError,   *)
(* which nothing in static_file_info catches.                             *)
(***************************************************************************)
TridInfo ==
    /\ pc = "trid"
    /\ \E r \in TridRuns : pc' = IF r = "missing" THEN "aborted" ELSE "die"
    /\ UNCHANGED <<art, i, dd, dest, raised>>

(***************************************************************************)
(* `if processing_conf.die.enabled: detect_it_easy_info(...)`: it returns  *)
(* without the key when the binary is missing, die fails (logged), or the *)
(* output has no "detects"; json.loads of a malformed output raises out   *)
(* of static_file_info; "die" is set only when some string was found.    *)
(***************************************************************************)
DetectItEasy ==
    /\ pc = "die"
    /\ \E r \in DieRuns :
         /\ pc' = IF r = "bad_json" THEN "aborted" ELSE "done"
         /\ dd' = IF r = "strings" THEN [dd EXCEPT !.die = "Inno Setup" \in art.tags] ELSE dd
    /\ UNCHANGED <<art, i, dest, raised>>

Next ==
    \/ Skip \/ RunExtractor \/ RunDecoder \/ TridInfo \/ DetectItEasy
    \/ pc \in {"done", "aborted"} /\ UNCHANGED vars

Spec == Init /\ [][Next]_vars /\ WF_vars(Next)

-----------------------------------------------------------------------------
Hashes == {a.hash : a \in Artifacts} \cup
          UNION {{o.hash : o \in ToSet(a.out[t])} : a \in Artifacts, t \in ToSet(TOOLS)}

TypeOK ==
    /\ pc \in {"extract", "trid", "die", "done", "aborted"}
    /\ i \in 1..Len(TOOLS) + 1
    /\ dest \subseteq Hashes
    /\ dd.extracted_files \in Seq(Hashes)
    /\ dd.extracted_files_tool \in ToSet(TOOLS) \cup {None}
    /\ raised \subseteq ToSet(TOOLS)

(* Every file an enabled extractor whose guard the file meets (with the   *)
(* "die" strings it will get) produced without a tool error ends up in   *)
(* destination_folder under its sha256.                                   *)
OutputsStored ==
    pc = "done" =>
        \A t \in (Enabled \cap Available) \ (DECODERS \cup art.fails) :
            Applies(t, art, TRUE) => {o.hash : o \in ToSet(art.out[t])} \subseteq dest

=============================================================================
