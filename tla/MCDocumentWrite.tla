-------------------------- MODULE MCDocumentWrite --------------------------
(* Small instances of DocumentWrite.                                       *)
EXTENDS DocumentWrite, TLC

CONSTANTS r1, r2, r3, u1, u2, t1, t2

Two == {r1, r2}
Three == {r1, r2, r3}
Alice == {u1}
AliceAndBob == {u1, u2}
TwoTexts == {t1, t2}
OneText == {t1}

Writes == {"put", "push", "splice", "append", "upsert", "promote", "finalize"}
Saves == {"push", "append", "restore"}
Planning == {"put", "finalize"}

CanonicalOnly == {"canonical"}
DraftOrCanonical == {"draft", "canonical"}
AnyStatus == {"draft", "canonical", "superseded"}

AlwaysManager == {"manager"}
ViewerOrManager == {"viewer", "manager"}

Alike == Permutations(Requests) \cup Permutations(Texts)
BurstAlike == Permutations(Requests) \cup Permutations(Users) \cup Permutations(Texts)
=============================================================================
