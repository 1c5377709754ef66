--------------------------- MODULE MCUnpackerZip ---------------------------
(* Archives for UnpackerZip: nested chains, self-named and self-containing *)
(* archives, damaged and fake members, empty archives.                     *)
EXTENDS UnpackerZip

F(stem, ext) == [stem |-> stem, ext |-> ext]
M(n, c) == [name |-> n, content |-> c, enc |-> FALSE, bad |-> FALSE]
Bad(n, c) == [M(n, c) EXCEPT !.bad = TRUE]
A(ms) == [members |-> ms]

MC_Archives ==
    \* z1.zip > z2.zip > z3.zip > z4.zip > z5.zip > p.exe
    "Z1" :> A(<< M(F("z2", ".zip"), "Z2") >>) @@
    "Z2" :> A(<< M(F("z3", ".zip"), "Z3") >>) @@
    "Z3" :> A(<< M(F("z4", ".zip"), "Z4") >>) @@
    "Z4" :> A(<< M(F("z5", ".zip"), "Z5") >>) @@
    "Z5" :> A(<< M(F("p", ".exe"), "P1") >>) @@
    \* x.zip holding x.zip holding x.zip holding a.exe
    "X1" :> A(<< M(F("x", ".zip"), "X2") >>) @@
    "X2" :> A(<< M(F("x", ".zip"), "X3"), M(F("b", ".exe"), "P2") >>) @@
    "X3" :> A(<< M(F("a", ".exe"), "P1") >>) @@
    \* q.zip holding itself and a.exe
    "Q"  :> A(<< M(F("q", ".zip"), "Q"), M(F("a", ".exe"), "P1") >>) @@
    \* a fake nested zip beside a dll and a text file
    "N"  :> A(<< M(F("readme", ".txt"), "P3"), M(F("fake", ".zip"), "P3"),
                M(F("b", ".dll"), "P2") >>) @@
    \* a damaged member
    "B"  :> A(<< M(F("a", ".exe"), "P1"), Bad(F("c", ".exe"), "P2") >>) @@
    \* an empty archive; a damaged nested zip that is never written
    "Em" :> A(<< >>) @@
    "K"  :> A(<< M(F("a", ".exe"), "P1"), Bad(F("k", ".zip"), "Z5") >>) @@
    \* a plain archive with a nested damaged archive
    "D"  :> A(<< M(F("a", ".exe"), "P1"), M(F("in", ".zip"), "B") >>)

MC_Payloads == {"P1", "P2", "P3"}

Sub(stem, c) == [name |-> F(stem, ".zip"), content |-> c]
MC_Clean == {Sub("z1", "Z1"), Sub("x", "X2"), Sub("q", "Q"), Sub("n", "N"), Sub("d", "D"),
             Sub("b", "B"), Sub("notzip", "P1"),
             Sub("em", "Em"), Sub("k", "K")}
MC_FileOptions == {NoOption, F("b", ".dll")}
MC_SelfNested == {Sub("x", "X1")}
MC_NoFileOption == {NoOption}
=============================================================================
