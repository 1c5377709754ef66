-------------------------- MODULE MCFileExtraInfo --------------------------
(* Files for FileExtraInfo: installers and packers that several extractors *)
(* accept, a failing tool, decoders, a repeated output.                    *)
EXTENDS FileExtraInfo

O(n, h) == [name |-> n, hash |-> h]
NoOut == [t \in ToSet(TOOLS) |-> << >>]
Art(h, tags, out, fails) == [hash |-> h, tags |-> tags, out |-> out @@ NoOut, fails |-> fails]

MC_Artifacts == {
    \* an MSI that is also UPX-packed; UPX yields a file MSI did not
    Art("A1", {"MSI Installer", "UPX compressed"},
        "msi" :> << O("setup.exe", "h1"), O("lib.dll", "h2") >> @@
        "UPX" :> << O("A1_unpacked", "h3") >>, {}),
    \* a KiXtart script
    Art("A2", {"kixtart magic"}, "kixtart" :> << O("script.kix", "h2") >>, {}),
    \* a compiled AutoIt NSIS installer: two extractors, a shared output
    Art("A3", {"Nullsoft Installer self-extracting archive", "AutoIT_Compiled"},
        "NSIS" :> << O("setup.exe", "h1"), O("readme.txt", "h2") >> @@
        "UnAutoIt" :> << O("script.au3", "h3"), O("setup.exe", "h1") >>, {}),
    \* an MSI whose msiextract fails
    Art("A4", {"MSI Installer"}, "msi" :> << O("setup.exe", "h1") >>, {"msi"}),
    \* a .bat file with encoded VBScript; the batch decoder changes nothing
    Art("A5", {"#@~^", ".bat"},
        "vbe" :> << O("A5_decoded", "h2") >> @@ "batch" :> << O("A5_decoded", "A5") >>, {}),
    \* a RAR SFX archive
    Art("A6", {"RAR self-extracting archive"}, "RarSFX" :> << O("payload.exe", "h1") >>, {}),
    \* a UPX file upx cannot unpack
    Art("A7", {"UPX compressed"}, << >>, {})
}

\* a RAR SFX archive holding a file named "a"
MC_ArtifactsOneChar == {
    Art("A8", {"RAR self-extracting archive"},
        "RarSFX" :> << O("a", "h1"), O("payload.exe", "h2") >>, {})
}

MC_InitDests == {{}, {"h1"}}
MC_TmpSuffixes == {<<"z">>, <<"a">>}
MC_AllTools == ToSet(TOOLS)
MC_SomeTools == ToSet(TOOLS) \ {"batch"}
MC_TridRuns == {"off", "ok", "error", "missing"}
MC_DieRuns == {"off", "no_binary", "error", "no_detects", "bad_json", "empty", "strings"}
=============================================================================
