------------------------------- MODULE MCLint --------------------------------
(* A top file that includes a header.                                          *)
EXTENDS Lint, TLC

CONSTANTS topSv, hdrSvh, toolA, toolB

TwoFiles == {topSv, hdrSvh}
Includes == (topSv :> {topSv, hdrSvh}) @@ (hdrSvh :> {hdrSvh})
TwoPaths == {toolA, toolB}
=============================================================================
