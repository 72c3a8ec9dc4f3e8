------------------------------ MODULE MCDocSync ------------------------------
(* Small instances of DocSync: top reads leaf, and reads hdr by inclusion.    *)
EXTENDS DocSync, TLC

CONSTANTS top, leaf, hdr

TwoFiles == {top, leaf}
TwoDeps == (top :> {leaf}) @@ (leaf :> {})
IncludeFiles == {top, hdr}
IncludeDeps == (top :> {hdr}) @@ (hdr :> {})
OnlyTop == {top}
OnlyLeaf == {leaf}
OnlyHdr == {hdr}
=============================================================================
