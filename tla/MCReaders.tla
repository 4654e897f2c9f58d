----------------------------- MODULE MCReaders -----------------------------
(***************************************************************************)
(* The contents of documents, stored and read: a behaviour is one of those *)
(* who store and remove them (ObjectStorage) or one of a request that      *)
(* searches, lists, reads or rewrites documents (Reading); the other stays *)
(* as it is.                                                               *)
(***************************************************************************)
EXTENDS MCObjectStorage

CONSTANT nothing

VARIABLES doc, request, others, touched, slipped, saved, part

(* Names, links and rows; Curly is A with typographic characters.          *)
Plain(base) == [base |-> base, fancy |-> FALSE]
A == Plain("a")
B == Plain("b")
Curly == [A EXCEPT !.fancy = TRUE]
Link(form, name) == [form |-> form, to |-> name]
Row(space, role, title, slug, body, stamp) ==
    [live |-> TRUE, space |-> space, role |-> role, scoped |-> TRUE, title |-> title, slug |-> slug,
     body |-> body, stamp |-> stamp]

(* Three documents that have one word or the other, some of them hidden;   *)
(* the third is called by one of them.                                     *)
Words == {{Link("wiki", A)}, {Link("wiki", B)}}
Searched ==
    {[d \in 1..3 |-> Row(1, roles[d], Plain("t"), IF d = 3 THEN B ELSE Plain("t"), <<words[d]>>, d)] :
        roles \in [1..3 -> {"none", "viewer"}], words \in [1..3 -> Words]}

Searching == INSTANCE Reading WITH
    Docs <- 1..3, Spaces <- {1}, Contents <- Words, Starts <- Searched, Variants <- <<"a", "b">>,
    Replacements <- {}, PageSize <- 1, Limit <- 2, ScanCap <- 2, RecentCap <- 2,
    BacklinkCap <- 1, MaxOthers <- 2, Kinds <- {"search", "answer"}, None <- nothing

(* Three documents of one workspace, with decisions or not, and one of     *)
(* another.                                                                *)
Decided == {{}, {Link("decision", A)}}
Listed ==
    {[d \in 1..4 |-> Row(IF d < 4 THEN 1 ELSE 2, IF d \in hidden THEN "none" ELSE "viewer",
                         Plain("t"), Plain("t"), <<words[d]>>, (d * d) % 5)] :
        hidden \in SUBSET (1..3), words \in [1..4 -> Decided]}

Listing == INSTANCE Reading WITH
    Docs <- 1..4, Spaces <- {1, 2}, Contents <- Decided, Starts <- Listed, Variants <- <<"a">>,
    Replacements <- {}, PageSize <- 1, Limit <- 2, ScanCap <- 2, RecentCap <- 2,
    BacklinkCap <- 1, MaxOthers <- 1, Kinds <- {"recent", "decisions", "documents"}, None <- nothing

(* Two documents, the first at its second version and perhaps where agents *)
(* may not edit, and names that may stand for both.                        *)
AllLinks ==
    {Link(form, name) : form \in {"wiki", "code"}, name \in {A, Curly, B}} \cup
    {Link("alias", Curly), Link("markdown", A), Link("markdown", Curly)}
Linked ==
    {[d \in 1..2 |->
        IF d = 1 THEN [Row(1, "editor", title, A, <<{}, links>>, 1) EXCEPT !.scoped = scoped]
        ELSE Row(1, "editor", B, slug, <<{Link("wiki", A)}, {Link("wiki", B)}>>, 2)] :
        title \in {A, Curly, B}, slug \in {A, B}, scoped \in BOOLEAN,
        links \in {c \in SUBSET AllLinks : Cardinality(c) \in 1..2}}

Linking == INSTANCE Reading WITH
    Docs <- 1..2, Spaces <- {1}, Contents <- {{Link("wiki", A), Link("code", B)}, {Link("alias", A)}},
    Starts <- Linked, Variants <- <<"a">>,
    Replacements <- {<<<<A, B>>>>, <<<<A, B>>, <<B, A>>>>},
    PageSize <- 1, Limit <- 2, ScanCap <- 2, RecentCap <- 2,
    BacklinkCap <- 1, MaxOthers <- 1, Kinds <- {"chunks", "latest", "rewrite"}, None <- nothing

readVars == <<doc, request, others, touched, slipped, saved>>

ReadersInit ==
    /\ Init
    /\ \/ part \in {"stored", "searching"} /\ Searching!Init
       \/ part = "listing" /\ Listing!Init
       \/ part = "linking" /\ Linking!Init
    /\ part = "stored" => doc = CHOOSE start \in Searched : TRUE

ReadersNext ==
    /\ UNCHANGED part
    /\ \/ part = "stored" /\ Next /\ UNCHANGED readVars
       \/ /\ UNCHANGED vars
          /\ \/ part = "searching" /\ Searching!Next
             \/ part = "listing" /\ Listing!Next
             \/ part = "linking" /\ Linking!Next

ReadersSpec == ReadersInit /\ [][ReadersNext]_<<vars, readVars, part>>

(* Reading: searches, lists, links and rewrites agree with the documents.  *)
ReadsTellTruth ==
    /\ part = "searching" => Searching!ReadsTellTruth
    /\ part = "listing" => Listing!ReadsTellTruth
    /\ part = "linking" => Linking!ReadsTellTruth
=============================================================================
