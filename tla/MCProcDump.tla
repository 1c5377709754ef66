---------------------------- MODULE MCProcDump ----------------------------
(* Process dumps for ProcDump: 32- and 64-bit PEs, a DLL, an MS-DOS stub, *)
(* a data blob, a dump without metadata and one without a module path;   *)
(* two dumps of the same packed module share a sha256.                    *)
EXTENDS ProcDump

MC_AllTools == {"msi", "kixtart", "vbe", "batch", "UnAutoIt", "RarSFX", "UPX", "NSIS", "Inno"}
O(n, h) == [name |-> n, hash |-> h]
NoOut == [t \in MC_AllTools |-> << >>]
Art(h, tags, out) == [hash |-> h, tags |-> tags, out |-> out @@ NoOut, fails |-> {}]
Dump(n, meta, pids, fields, type, pe, art) ==
    [name |-> n, meta |-> meta, pids |-> pids, fields |-> fields, type |-> type, pe |-> pe, art |-> art]

Packed == Art("P1", {"UPX compressed"}, "UPX" :> << O("P1_unpacked", "h3") >>)
Plain(h) == Art(h, {}, << >>)

MC_Dumps == {
    Dump("d1", TRUE, <<1>>, 3, <<"PE32", "executable", "(GUI)", "Intel", "80386">>, TRUE, Packed),
    Dump("d2", TRUE, <<2>>, 3, <<"PE32", "executable", "(GUI)", "Intel", "80386">>, TRUE, Packed),
    Dump("d3", TRUE, <<2>>, 3, <<"PE32+", "executable", "(DLL)", "(GUI)", "x86-64">>, TRUE, Plain("P3")),
    Dump("d4", TRUE, <<1>>, 3, <<"MS-DOS", "executable,", "MZ", "for", "MS-DOS">>, FALSE, Plain("P4")),
    Dump("d5", TRUE, <<1>>, 3, <<"data">>, FALSE, Plain("P5")),
    Dump("d7", TRUE, <<1>>, 2, <<"PE32", "executable", "(GUI)">>, TRUE, Plain("P7")),
    Dump("d6", FALSE, <<1>>, 3, <<"PE32", "executable", "(DLL)">>, TRUE, Plain("P6"))
}
MC_InitDests == {{}, {"P3"}}
MC_TmpSuffixes == {<<"z">>}
MC_DieRuns == {"strings", "bad_json"}
=============================================================================
