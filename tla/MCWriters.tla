----------------------------- MODULE MCWriters -----------------------------
(***************************************************************************)
(* Those who write documents: a behaviour is one of the writers of one     *)
(* document (DocumentWrite) or one of agents that make and replace         *)
(* documents by their paths (AgentImports); the other stays as it is.      *)
(***************************************************************************)
EXTENDS MCDocumentWrite

CONSTANT nothing

VARIABLES folder, doc, access, scope, request, others, made, wrote, elsewhere, foretold, part

(* Files: three of one path, one of them a draft and one with a bad         *)
(* checksum, and one below a folder that may have to be made.              *)
Note == [path |-> <<"x", "d">>, content |-> <<"a", "canonical">>, bad |-> FALSE]
Draft == [Note EXCEPT !.content = <<"b", "draft">>]
Deep == [Note EXCEPT !.path = <<"x", "y", "e">>]
Broken == [Note EXCEPT !.bad = TRUE]

Trees == {<<Draft, Note>>, <<Broken, Deep>>}
FirstTrees == {[folders |-> {}, docs |-> <<>>],
               [folders |-> {<<"x">>}, docs |-> (Deep.path :> Deep.content)],
               [folders |-> {}, docs |-> (Note.path :> Draft.content)]}

Importing == INSTANCE AgentImports WITH
    Requests <- {1, 2}, Files <- {Note, Draft, Deep, Broken}, Contents <- {Note.content, Draft.content},
    Trees <- Trees, Starts <- FirstTrees, Scopes <- {<<>>, <<"x", "y">>}, None <- nothing,
    MaxVersion <- 3, MaxOthers <- 1, Ops <- {"import", "others"}

Upserting == INSTANCE AgentImports WITH
    Requests <- {1, 2}, Files <- {Draft, Deep}, Contents <- {Note.content, Draft.content},
    Trees <- {<<Draft, Deep>>}, Starts <- FirstTrees, Scopes <- {<<>>, <<"x", "y">>}, None <- nothing,
    MaxVersion <- 3, MaxOthers <- 1, Ops <- {"upsert", "plan", "create", "others"}

paths == <<folder, doc, access, scope, request, others, made, wrote, elsewhere, foretold>>

Parts == {"writes", "importing", "upserting"}

WritersInit ==
    /\ Init /\ Importing!Init
    /\ part \in Parts
    /\ part # "writes" => row.status = "canonical"
    /\ part = "writes" => access = "admin" /\ folder = {}

WritersNext ==
    \/ part = "writes" /\ Next /\ UNCHANGED <<paths, part>>
    \/ part = "importing" /\ Importing!Next /\ UNCHANGED <<vars, part>>
    \/ part = "upserting" /\ Upserting!Next /\ UNCHANGED <<vars, part>>

WritersSpec == WritersInit /\ [][WritersNext]_<<vars, paths, part>>

(* AgentImports: an import does what its report and its dry run say.       *)
ImportsReportTruly ==
    /\ part = "importing" => Importing!ImportsReportTruly
    /\ part = "upserting" => Upserting!ImportsReportTruly
=============================================================================
