--------------------------- MODULE MCWindowsInput ---------------------------
(* WindowsInput for TLC. The windows are interchangeable model values where a *)
(* run has two of them.                                                       *)
EXTENDS WindowsInput, TLC

WindowSymmetry == Permutations(Windows)
=============================================================================
