-------------------------- MODULE MCObjectStorage --------------------------
(***************************************************************************)
(* Instances of ObjectStorage for TLC.                                     *)
(***************************************************************************)
EXTENDS ObjectStorage, TLC

CONSTANTS d1, d2, ta, tb, tc, w1, w2, r1, r2, r3

RequestSymmetry == Permutations(Requests)

(* One document whose second and third revision form a burst and whose     *)
(* third repeats the content of the first.                                 *)
OneHome == [d \in {d1} |-> w1]
BurstHistory == [d \in {d1} |-> <<ta, tb, ta>>]

(* One document with a single revision.                                    *)
ShortHistory == [d \in {d1} |-> <<ta>>]

(* The same, and a second document that does not exist yet anywhere.       *)
TwoHomes == [d \in {d1, d2} |-> IF d = d1 THEN w1 ELSE "none"]
TwoHistories == [d \in {d1, d2} |-> IF d = d1 THEN <<ta, tb, ta>> ELSE << >>]
=============================================================================
