---------------------------- MODULE MCImportJob ----------------------------
(***************************************************************************)
(* Instances of ImportJob for TLC.                                         *)
(***************************************************************************)
EXTENDS ImportJob, TLC

CONSTANTS i1, i2, a

(* Two notes with the same slug.                                           *)
SameSlug == <<a, a>>

Both == [j \in {i1, i2} |-> IF j = i1 THEN "rename" ELSE "skip"]
=============================================================================
