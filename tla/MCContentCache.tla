--------------------------- MODULE MCContentCache ---------------------------
(***************************************************************************)
(* Two prompt versions.                                                    *)
(***************************************************************************)
EXTENDS ContentCache, TLC
CONSTANTS p1, p2

MCPromptOf == <<p1, p2>>
MCSymmetry == Permutations(Runs)
=============================================================================
