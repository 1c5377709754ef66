------------------------------ MODULE MCDemux ------------------------------
(* Small artifacts for Demux: each sample's magic, extension, passwords   *)
(* and the tree sflock's unpack would return for it.                       *)
EXTENDS Demux

Node(n, e, m, c, kids) == [name |-> n, ext |-> e, magic |-> m, contents |-> c, children |-> kids]
Leaf(n, e, m, c) == Node(n, e, m, c, <<>>)
Artifact(n, e, m, arc, doc, pkg, kids) ==
    [name |-> n, ext |-> e, magic |-> m, arcPwd |-> arc, docPwd |-> doc,
     package |-> pkg, children |-> kids]

SPE == Artifact("a.exe", ".exe", {"PE32"}, "none", "never", "", <<>>)
SEncDoc == Artifact("inv.doc", ".doc", {"CDFV2 Encrypted"}, "none", "secret", "", <<>>)
SPlainDoc == Artifact("memo.doc", ".doc", {"Composite Document File", "Microsoft"},
                     "none", "never", "doc", <<>>)
SApk == Artifact("app.apk", ".apk", {"Zip archive data"}, "none", "never", "apk",
                <<Leaf("classes.dex", ".dex", {"Dalvik"}, TRUE)>>)
SBin == Artifact("x.bin", ".bin", {"Zip archive data"}, "none", "never", "zip",
                <<Leaf("a.exe", ".exe", {"PE32"}, TRUE)>>)
\* a.exe, readme.txt, inner.zip holding two binaries, an empty script and an
\* extensionless shell script, in an archive encrypted with "infected"
Members == << Leaf("a.exe", ".exe", {"PE32"}, TRUE),
              Leaf("readme.txt", ".txt", {"ASCII text"}, TRUE),
              Node("inner.zip", ".zip", {"Zip archive data"}, TRUE,
                   << Leaf("b.exe", ".exe", {"PE32"}, TRUE),
                      Leaf("c.dll", ".dll", {"PE32"}, TRUE) >>),
              Leaf("run.js", ".js", {"ASCII text"}, FALSE),
              Leaf("install", "", {"POSIX shell script"}, TRUE) >>
SZip == Artifact("s.zip", ".zip", {"Zip archive data"}, "infected", "never", "zip", Members)
SZip2 == Artifact("t.zip", ".zip", {"Zip archive data"}, "none", "never", "zip", Members)
SEncDoc2 == Artifact("q.doc", ".doc", {"CDFV2 Encrypted"}, "none", "secret", "", <<>>)
\* eleven payloads, one more than the cap
SBomb == Artifact("bomb.zip", ".zip", {"Zip archive data"}, "none", "never", "zip",
                 [i \in 1..11 |-> Leaf("p.exe", ".exe", {"PE32"}, TRUE)])

MC_Samples == {SPE, SEncDoc, SPlainDoc, SApk, SBin, SZip, SZip2}
MC_SamplesBomb == {SZip, SBomb, SEncDoc}
MC_SamplesPair == {SEncDoc, SEncDoc2, SZip, SZip2}
MC_Options == {[password |-> "none", file |-> FALSE],
               [password |-> "secret", file |-> FALSE],
               [password |-> "none", file |-> TRUE]}
MC_Packages == {"", "zip"}
MC_Symmetry == Permutations(Tasks)
=============================================================================
