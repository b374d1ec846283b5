----------------------------- MODULE MCFileApi -----------------------------
(***************************************************************************)
(* The file handlers with two requests in progress.                        *)
(***************************************************************************)
EXTENDS FileApi, TLC

CONSTANTS f1, f2

MCFileIds == {f1, f2}
MCOneId == {f1}

\* ObjectIds are not compared with anything but each other.
Symm == Permutations(FileIds)
=============================================================================
