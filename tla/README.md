# TLA+ models of the CAPEv2 file-reduction pipeline

This directory holds TLA+ specifications of the parts of CAPEv2 (under `src/`)
that decide which files get analysed: the sample demultiplexer, the ZIP
analysis package, the static extraction tool chain, the ProcDump module that feeds
process dumps into that chain, and two auxiliaries that run beside an
analysis: the network sniffer on the host and the screenshot thread in the guest. Each specification is
checked with TLC. `PROJECT.json` lists the components, the runs, the mutants,
the map from every definition to the source lines it translates, the findings
and the hazards.

## 1. The system and its parts

| Part | Source | What it does | Interacts with |
|---|---|---|---|
| Demux | `lib/cuckoo/common/demux.py` | `demux_sample` routes a submitted file. Package files, final types (PE, Jar, Linux scripts) and `.bin` files are kept. Office documents are decrypted by `demux_office` into a shared staging directory. Containers are unpacked by `demux_sflock`, and `_sf_chlildren` writes each accepted child into a shared scratch root. The result is a candidate list capped at 10 entries. | sflock (black box); the shared `tmp/cuckoo-tmp` root, which every worker process uses |
| Unpacker_zip | `analyzer/windows/modules/packages/Unpacker_zip.py` | In the guest, `start` reads the member list. `extract_zip` extracts the archive into `%TEMP%`: it renames the archive aside when the archive lists its own name, retries with `"infected"`, and recurses into nested `*.zip` names in its `finally` clause up to `recursion_depth` 4. `start` then picks and launches one member. | `zipfile`; `execute` |
| Extraction tool chain | `lib/cuckoo/common/integrations/file_extra_info.py` | `static_file_info` calls `generic_file_extractors`, which runs nine extractors in a fixed order. Each one is guarded and each failure is isolated. Every output goes through `_extracted_files_metadata`, which moves it into `destination_folder` under its sha256 unless that name already exists. `trid_info` (when enabled) then runs TrID, catching only `CalledProcessError`, and `detect_it_easy_info` (when enabled) adds the `die` strings: it returns early when the binary is missing or prints no `detects`, and lets a `json.loads` error escape. | external tools, `File`, `destination_folder` |
| ProcDump | `modules/processing/procdump.py` | `ProcDump.run` walks the procdump folder in `os.listdir` order. It skips a dump with no metadata, no module path or a type of fewer than three words, reads its pid, derives `cape_type`, and calls `static_file_info` with the task's `dropped_path`, then appends the record; it returns `procdump_files`. An exception from `static_file_info` is not caught and ends `run`. | the tool chain, through the shared `dropped_path` |
| Sniffer | `modules/auxiliary/sniffer.py` | `start` checks tcpdump and the interface, then builds the tcpdump arguments. A local capture runs tcpdump with `Popen`. A remote one writes a script, copies it with `scp`, runs it over `ssh`, reads back the pid and removes the script. `stop` terminates the local tcpdump, or sends `kill -2` over `ssh`, copies the pcap back and removes it. | tcpdump; the capture host over ssh; the auxiliary manager, which calls `stop` only after a `start` that did not raise |
| Screenshots | `analyzer/windows/modules/auxiliary/screenshots.py` | A `Thread` in the guest. `run` loops while `do_run` is set: it sleeps, takes a screenshot (an `IOError` skips the round), skips it when it equals the last uploaded shot, and otherwise numbers it and uploads it as `shots/<n>.jpg`. `stop` only clears `do_run`. | the analyzer's thread, which calls `stop`; the host, through `NetlogFile` |
| KVM backend, debug, parse_pdf, Shellcode_x64 | see `PROJECT.json` | External-process wrappers, pure I/O. | — |

### Hard behaviours

- **Concurrency.** Several analysis workers run demux at once. They share only the file system, through `cuckoo-tmp/msoffice-crypt-tmp/<basename>` and the sflock scratch root. The guest package and the tool chain run sequentially in a single thread. The sniffer's tcpdump is a separate process, local or on a capture host, that runs and exits independently of the calls that start and stop it. The screenshot loop is a thread of the guest analyzer; its `stop` is called from the analyzer's own thread and does not wait for the loop.
- **Recursion with exceptions.** In `extract_zip`, a raise inside a nested call is either caught by the caller's loop (`BadZipfile`, `RuntimeError`) or ends the caller's `finally` clause. The `finally` clause runs even after `extractall` raised.
- **Partial failure.** A child write can fail after its path was chosen. The catalogue step can raise after it has already moved some files. A `TemporaryDirectory` is removed at the end of its `with` block.
- **Bounds.** There are 10 candidates, recursion depth 4 and at most 9 extractors.

## 2. Modules

| Module | Models | State | Actions |
|---|---|---|---|
| `Demux` | `demux_sample`, `demux_office`, `demux_sflock`, `_sf_chlildren`, with `Tasks` worker processes interleaving | `pc`, `route` and `work` per task (where each worker is); `retlist`; the shared directories `dirs`; the file contents `fs`; what each task finally reads, `read` | `DemuxPackage`, `DemuxOffice`, `DemuxFinal` and `DemuxOther` are the branches of `demux_sample`. `OfficeDirCheck`, `OfficeMakedirs` and `OfficeDecrypt` are `demux_office` split at its file-system steps, because those steps are where another worker can interleave. `DemuxSflock` is the sflock unpack and the whitelist/blacklist branches. `SfChild` and `SfMkdir` are one `_sf_chlildren` call, split at its exists/mkdir. `DemuxFinish` is the fallback and the cap. `Consume` is the task analysing its candidates. |
| `UnpackerZip` | `Unpacker_zip.start`, `get_infos`, `is_overwritten`, `extract_zip` | `stack` of `extract_zip` frames (path, depth, phase, pending exception, nested names left); `fs` (the contents of `%TEMP%` by name); `zipinfos`; `extracted`; `launched` | `Start`; `CheckOverwritten` (is_overwritten and the rename); `ExtractZip` (the try/except and the start of `finally`); `Recurse`; `LoopDone`; `Unwind` (a frame returns or raises into its caller); `Launch` (file choice and launcher) |
| `FileExtraInfo` | `generic_file_extractors`, the nine extractors, `_generic_post_extraction_process`, `_extracted_files_metadata`, the `trid` and `die` steps of `static_file_info` | `pc` (extract, trid, die, done, aborted); `i` (the loop index); `dd` (the keys of `data_dictionary` the chain uses); `dest` (the sha256 names in `destination_folder`); `raised` | `Skip` (disabled extractor); `RunExtractor` (a whole extractor: guard, tool, listing, catalogue, setdefault); `RunDecoder` (vbe/batch); `TridInfo` (an outcome from `TridRuns`: disabled, ok, a caught error, or a missing binary whose `OSError` aborts); `DetectItEasy` (an outcome from `DieRuns`: disabled, each early return, the caught error, output `json.loads` rejects, which aborts, and strings, which set `die`). |
| `Sniffer` | `Sniffer.start`, `Sniffer.stop`; tcpdump as an environment process | `opt`; `pc`; `pargs` (the argument list as tokens); `has_pid`, `has_proc`; `cap` (the tcpdump process: none, running, signalled, exited); `rfiles` (the task's files on the capture host); `pcap`; `faulted` (the calls that failed) | `StartChecks` (the early returns and the argument list); `LocalPopen`; `ScpScript`, `SshRun`, `SshCat`, `SshRm` (remote start); `StopKill`, `StopScp`, `StopRm` (remote stop); `StopLocal`; `CaptureExits` and `CaptureDies` (tcpdump). `Call` is the pattern every `check_output` follows: it succeeds, or, when the call is in `Fallible`, it fails and raises. |
| `Screenshots` | `Screenshots.run` (the thread) and `Screenshots.stop` (the analyzer's thread) | `do_run`; `pc`; `run`'s locals `img_current`, `img_last`, `img_counter`; `shots` (the files uploaded, in order); `taken` (a history of the screens `take` returned) | `Stop`; `RunStart` (the `have_pil` test); `LoopTest` (the `while` test and `return True`); `Take` (sleep and `take`, or `IOError` and `continue`); `Compare` (the equality test and its `continue`); `Upload` (the counter, the upload, `img_last`; a send on a dead socket ends the thread). `Rest` is the analysis being over once the thread can step no more after `stop`. |
| `ProcDump` | `ProcDump.run`, composed with `FileExtraInfo` through `FX == INSTANCE FileExtraInfo WITH ...`; the chain's variables are renamed `fx_*`, and its `dest` is `dropped`, which all dumps share | `pc`; `files` (listing entries not yet visited); `cur` (the `file_info` being built); `procdump_files`; `pefiles`; `fx_*`; `dropped` | `Start` (folder test); `VisitDump` (one loop iteration up to `static_file_info`: the metadata test, `pefiles` setdefault, the metastrings test, `pids[0]`, the type test and `cape_type`); `StaticStep` (one step of the chain, trid or die, as an `FX!` action); `StaticRaised` (the chain aborted, so `run` raises); `AppendDump`; `EndRun` (`return procdump_files`) |

The MC modules (`MCDemux`, `MCUnpackerZip`, `MCFileExtraInfo`, `MCProcDump`, `MCSniffer`, `MCScreenshots`) define the inputs as records. A sample, an archive or a tool output names its members and its magic or type tags. Contents are model values. A one-character output name is kept as a one-character string, because the code compares names with the characters of a path.

### Abstractions

- **sflock's unpacking and OfficeFile.decrypt** are black boxes. A sample says which password opens it (`Unpacks`, `DecryptsWith`); these definitions are marked `spec_modelled`.
- **`zipfile`** is modelled by what it does on the paths the code uses:
  - extractall writes members in order;
  - `open` raises `TypeError` for a `str` pwd, `BadZipFile` for a damaged member and `RuntimeError` for an encrypted member without a pwd;
  - later members of the same name win.
- **Type strings** are sets of tags; the code only tests substrings.
- **`File.get_all` on a path that is gone** raises. The decoded file of `_generic_post_extraction_process` is such a path.
- **ProcDump's text-data read, `cape_name_from_yara` and capa** only add keys to `file_info` that nothing in the model reads, so they are left out. `cape_type` is kept as its parts (kind, bitness, DLL), which is what its string concatenation encodes.
- **The tcpdump argument list** is kept as a token sequence. The filter words are grouped into named tokens, but every `'` the code adds is kept. Bash accepts the script only when its quotes pair up (`BashParses`): that is how the script is used, so it is modelled by what it does.
- **A screen** is a model value, and `Screenshot().equal` with `SKIP_AREA = None` is equality. The JPEG encoding and the chunked send are one step, because nothing else reads them before it ends. The zero-padding of the shot names is left out: the properties are about the numbers.
- **TrID and DIE** are reduced to their outcomes (`TridRuns`, `DieRuns`); trid's output lines are not kept, since nothing the chain reads depends on them.
- **Logging, per-format analysers and `is_text_file`** are left out: none of them changes a key the chain reads.

## 3. Runs

There are 12 runs; the full list is in `PROJECT.json`. Every passing run also has one mutant per property (`PROJECT.json` "mutants"). A mutant is a plausible bug in a mapped definition, and TLC finds its property violated.

| Run | Expect | What it shows |
|---|---|---|
| `demux_two_workers` | pass | Two workers with distinct basenames and every routing branch: each list has 1..10 entries and no worker reads another's content. |
| `demux_single_fresh` | pass | One worker with no scratch roots yet, a container with 11 members, and failing child writes: the list is never empty and is cut to the first 10 entries. |
| `demux_staging_collision` | violation | Two documents named alike: one task analyses the other's decrypted document. |
| `demux_sflock_mkdir_race` | violation | The same race on the sflock root; children are silently lost. |
| `zip_clean` | pass | Nine archives (chain, self-named, self-containing, fake, damaged, empty, nested-damaged, non-zip), with and without a file option. For distinct names, expansion equals the recursive reference `Reach`. The original archive survives. |
| `zip_self_nested_twice` | violation | x.zip ⊃ x.zip ⊃ x.zip: `x.zip.old` is overwritten and the submission is lost. |
| `extractors_chain` | pass | Seven files accepted by zero, one or two extractors, with a failing tool, a raising decoder, every trid and die outcome, and a destination that may already hold the hash: each output is stored under its hash. |
| `procdump_dumps` | pass | Seven dumps in all 5040 listing orders; each dump goes through the whole chain into one shared `dropped_path`. Exactly the classifiable dumps are reported, once each. `cape_type` matches a reference reading of the type. `die` may print output `json.loads` rejects, so `run` may also raise part-way. |
| `extractors_one_char_name` | violation | A RAR member named `a` is the only file found, and the others are deleted with the tempdir. |
| `sniffer_lifecycle` | pass | Local and remote captures with a filter, every early return, every `ssh`/`scp`/`Popen` call able to fail, and tcpdump able to die. After a remote start and stop that both complete, the capture host keeps no file of the task. After a normal `stop`, tcpdump eventually exits. |
| `screenshots_stop` | pass | Two screens, four shots before the analysis ends, with `take` and the upload able to fail and `stop` arriving at any point. Whenever the loop is at its `while` test, the uploaded shots are numbered 1, 2, ... without a gap and are exactly the taken screens with each run of repeats collapsed (`Collapse`, a recursive reference). After `stop`, the thread ends. |
| `sniffer_remote_no_bpf` | violation | A remote capture with no `bpf` option. The script opens a `'` that only the `bpf` branch closes, so bash rejects the script and `start` raises although no call failed. Remote capture without a filter never works. |

### Behaviours found while modelling, without a run of their own

These are recorded as hazards in `PROJECT.json`.

- **PowerShell is handed the archive.** For a `.ps1` member, `Launch` passes the archive path (`Unpacker_zip.py:164`), not the script. `Launch` models it, but no run checks a property of the launched file.
- **`pids[0]` on an empty list.** `ProcDump.run` raises `IndexError`, and every dump not yet visited is dropped (`VisitDump` models the raise).
- **An exception from trid or die ends `ProcDump.run`.** A missing trid binary raises `OSError` and a malformed die output raises from `json.loads`; `run` does not catch either, so the dumps not yet visited are dropped (`StaticRaised`).
- **Sibling clobbering.** Unpacker_zip extracts nested archives flat into `%TEMP%`. In `{a.exe, i.zip ⊃ a.exe}`, the launched `a.exe` is the nested one. `SelectFile` models it; no run checks a property of the launched file.
- **The `"infected"` retry and any password option raise `TypeError`** (`Unpacker_zip.py:56`, `:61`). pwd is a `str`, and `ZipFile.open` wants `bytes`. `ExtractZip` models it. The violation run that showed it was given up for the sniffer runs, because TLC runs are capped at 12.
- **The office staging `exists`/`makedirs` race** (`demux.py:129`). Two workers both pass `exists`, and the second `makedirs` raises out of `demux_sample`. It is the same race that `demux_sflock_mkdir_race` shows on the sflock root. Its own violation run was given up for the same reason.
- **A remote tcpdump can leak.** An `ssh` failure after the remote script started tcpdump makes `start` raise. The manager then never calls `stop`, and tcpdump runs on. The model reaches this state (`cap = "running"` with `pc = "start_raised"`).
- **A remote `stop` after an early return of `start` raises `AttributeError`.** `self.pid` was never set.
- **Unpacker_zip extracts one level deeper than the spec says.** `extract_zip` recurses while `recursion_depth < 4` into a call that still extracts. The fifth nested archive, at depth 4, is therefore extracted, where the spec says depth 4 is left unexpanded (`Unpacker_zip.py:64`). `ExpansionMatchesReference` in `zip_clean` pins the code's real limit. The violation run against the spec's limit was given up for `screenshots_stop`, because TLC runs are capped at 12.
- **A dead socket ends the screenshot thread.** A send that raises is not caught; the host keeps a truncated shot and no later screen is captured. The model takes this path (`pc = "raised"`).
- **Dangling child path.** `_sf_chlildren` returns a path whose write failed.
- **The parent is always kept.** `filter(None, retlist)` is always true in Python 3, so a container is kept beside its extracted children, contrary to the comment above the test.
- **Inno_extract never runs from `static_file_info`.** It needs `die`, which is computed after the chain.
- **VBE and batch decodes are never recorded.** Their tempdir is gone before cataloguing.
- **`setdefault` keeps only the first extractor's list.** The spec says outputs accumulate.
- **`is_valid_type` grows `VALID_TYPES` on every call.**

## 4. Bounds and why they are enough

- **Demux.**
  - Two tasks are the fewest that can race.
  - The samples cover every branch of `demux_sample`: package, office (plain and encrypted), final, `.bin` and container.
  - Containers have nested children, an empty member, a rejected member and an extension-less script accepted by its magic.
  - The 11-member bomb exceeds the cap of 10 by one.
  - Symmetry over `Tasks` is sound because tasks are interchangeable in `Init` and in every action.
- **UnpackerZip.**
  - The five-archive chain is the least that reaches `recursion_depth` 4 and shows the depth boundary from both sides.
  - The self-containing `Q` shows the recursion ends at 4 even on a quine.
  - The frame stack is bounded by depth 4, so the state space is finite without extra limits.
- **FileExtraInfo.**
  - All nine extractors are in the loop and one is disabled.
  - Two random tempdir suffixes decide whether a one-character name is found.
  - `InitDests` lets the destination already hold a hash, which exercises the skip-on-exists branch.
  - `TridRuns` and `DieRuns` hold every outcome of the two tools, so each early return and each uncaught error is taken.

- **ProcDump.**
  - The seven dumps cover each skip: no metadata, no module path, and a one-word type. They also cover each `cape_type` branch: PE32, PE32+ DLL and MS-DOS.
  - Two dumps share a packed module's sha256, so `pefiles` deduplication and the shared-destination skip both happen.
  - `dropped_path` may already hold a dump's hash.
  - trid always succeeds and die either prints strings or output `json.loads` rejects: the second aborts `run` at any dump in any order.
  - All 5040 listing orders are explored, because `os.listdir` order is unspecified.

- **Sniffer.**
  - Every combination of tcpdump missing, setuid or present, interface set or not, and ssh string set or not is covered, for local captures and for remote ones with a filter.
  - Every external call may fail.
  - A start and a stop are one task's whole lifetime, so the state space is finite without counters.

- **Screenshots.**
  - Two screens are the fewest that give both a repeat and a change, and four shots let a screen come back after another (s1 s2 s1), which tells the comparison with the last uploaded shot from a comparison with any earlier one.
  - `MaxTakes` (`TakesLeft`) is the end of the analysis: at most four takes before `stop`, and the one already in progress after it.

## 5. Fairness

- **Demux and UnpackerZip** check only safety properties and have no fairness.
- **FileExtraInfo and ProcDump** state `WF_vars(Next)` (`static_file_info` and `run` are sequential code on one thread), but their runs check only invariants, so the fairness plays no part in them.
- **Sniffer** assumes weak fairness of the sniffer's own steps, `WF_vars(SnifferStep)`. The manager calls `stop` when the analysis ends, and each call returns. It also assumes `WF_vars(CaptureExits)`: a tcpdump that got SIGTERM or SIGINT exits. `CaptureDies` gets no fairness, because tcpdump need not die by itself.
- **Screenshots** assumes weak fairness of the thread, `WF_vars(Thread)`: a Python thread that can run is scheduled. `stop` gets no fairness; `StopEndsRun` is stated from the moment `do_run` is cleared.

## 6. Not modelled, and the plan for later sittings

- **The Demux → tool chain composition**: extracted children feed `static_file_info` with a shared `destination_folder`.
- **The Unpacker_zip frame stack** is a candidate for a refinement against an abstract specification of recursive extraction.
- **KVM backend** belongs to VM lifecycle, which the spec puts out of scope.
- **debug** reads a log file and lists the task's errors from the database: straight-line I/O with no state a property could relate.
- **parse_pdf** passes PDFiD's JSON through to peepdf; the parsing is in libraries outside the repository.
- **Shellcode_x64** copies the loader next to the sample and executes it: one call, no branch besides the optional offset argument.
