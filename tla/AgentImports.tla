---------------------------- MODULE AgentImports ----------------------------
(***************************************************************************)
(* How agents make and replace documents by their paths: importing a tree  *)
(* of Markdown files, also as a dry run, the upsert of one document, the   *)
(* start of a plan, and the tools that make a document or a folder, make a *)
(* document canonical and delete one (mcp/routes.ts).                      *)
(*                                                                         *)
(* A tool call is a sequence of reads and transactions; a transaction is   *)
(* one step.  Other agents, users and administrators act in between.       *)
(***************************************************************************)
EXTENDS Naturals, FiniteSets, Sequences, SequencesExt

CONSTANTS
    Requests,
    Files,          \* what may be imported: records of a path as sequence of slugs,
                    \* the last one the document's, a content, and whether the
                    \* path or the checksum of the file is bad
    Trees,          \* the sequences of files a call may name
    Contents,       \* each with the status its frontmatter gives: <<text, status>>
    None,
    Scopes,         \* folders agents may be confined to, <<>> for none
    Starts,         \* trees there may be at first: [folders, docs]
    MaxVersion,     \* bound on the versions of a document
    MaxOthers,      \* bound on the changes of others
    Ops

Paths == {f.path : f \in Files}
FolderOf(p) == Front(p)
Above(p) == {SubSeq(p, 1, n) : n \in 1..(Len(p) - 1)}     \* predictedFolderPaths
Folders == UNION {Above(p) : p \in Paths}
Modes == {"upsert", "create_only", "dry_run"}

VARIABLES
    folder,     \* the live folders, by path
    doc,        \* the live document at a path, or None: [content, version]
    access,     \* the agent's role: "admin", "editor", "viewer"
    scope,      \* the folder agents are confined to
    request,
    others,     \* bound: changes of others so far
    made,       \* history: the folders a request made
    wrote,      \* history: the files of a request, by their number, whose document it
                \* made or replaced
    elsewhere,  \* history: the folders made by anybody else since a request began
    foretold    \* history: the last dry run, as long as nothing has changed

vars == <<folder, doc, access, scope, request, others, made, wrote, elsewhere, foretold>>

tables == <<folder, doc, access, scope>>
history == <<others, made, wrote, elsewhere, foretold>>

Idle == [at |-> "idle", tool |-> None, mode |-> None, files |-> <<>>, pos |-> 1,
         createFolders |-> FALSE, allowDraft |-> FALSE, base |-> None, seen |-> None,
         folders |-> {}, outcome |-> <<>>]

CanWrite == access \in {"admin", "editor"}
StatusOf(c) == c[2]

(* enforceAgentEditScope                                                   *)
InScope(p) == scope = <<>> \/ scope \in {SubSeq(p, 1, n) : n \in 1..Len(p)}

Init ==
    /\ \E s \in Starts : /\ folder = s.folders \cup UNION {Above(p) : p \in DOMAIN s.docs}
                          /\ doc = [p \in Paths |-> IF p \in DOMAIN s.docs
                                                   THEN [content |-> s.docs[p], version |-> 1]
                                                   ELSE None]
    /\ access \in {"admin", "editor"} /\ scope = <<>>
    /\ request = [r \in Requests |-> Idle]
    /\ others = 0
    /\ made = [r \in Requests |-> {}] /\ wrote = [r \in Requests |-> {}]
    /\ elsewhere = [r \in Requests |-> {}]
    /\ foretold = None

-----------------------------------------------------------------------------
File(r) == request[r].files[request[r].pos]
Missing(p) == Above(p) \ folder

(* The next step of a request, and the end of one file.                    *)
Go(r, q) == request' = [request EXCEPT ![r] = q]
Ends(r, q, outcome, folders) ==
    Go(r, [q EXCEPT !.outcome = Append(@, outcome), !.pos = @ + 1, !.seen = None,
                    !.folders = @ \cup folders,
                    !.at = IF q.pos = Len(q.files) THEN "done"
                           ELSE IF q.tool = "import" THEN "predict" ELSE "lookup"])
(* An error ends the file in an import, and the call in the other tools.   *)
Fails(r) == Ends(r, request[r], "failed", {})

Wrote(r, p) == wrote' = [wrote EXCEPT ![r] = @ \cup {<<request[r].pos, p>>}]

-----------------------------------------------------------------------------
(* The calls.                                                              *)

Start(r, q) ==
    /\ request[r].at = "idle" /\ q.tool \in Ops
    /\ Go(r, q)
    /\ elsewhere' = [elsewhere EXCEPT ![r] = {}]
    /\ UNCHANGED <<tables, others, made, wrote, foretold>>

(* pageden_import_markdown_tree                                            *)
StartImport(r, files, mode) ==
    Start(r, [Idle EXCEPT !.at = "predict", !.tool = "import", !.mode = mode, !.files = files,
                          !.createFolders = TRUE])

(* pageden_upsert_document_by_path                                         *)
StartUpsert(r, f, create, draft, base) ==
    /\ ~f.bad
    /\ Start(r, [Idle EXCEPT !.at = "lookup", !.tool = "upsert", !.mode = "upsert", !.files = <<f>>,
                             !.createFolders = create, !.allowDraft = draft, !.base = base])

(* pageden_start_planning_workflow, and pageden_create_document, which     *)
(* needs the folder to be there.                                           *)
StartPlan(r, f, create) ==
    /\ ~f.bad /\ StatusOf(f.content) = "draft"
    /\ Start(r, [Idle EXCEPT !.at = "lookup", !.tool = "plan", !.mode = "create_only",
                             !.files = <<f>>, !.createFolders = create])

StartCreate(r, f) ==
    /\ ~f.bad /\ CanWrite /\ FolderOf(f.path) \in folder
    /\ Start(r, [Idle EXCEPT !.at = "insert", !.tool = "create", !.files = <<f>>])

(* importMarkdownTree: a file is checked, and the folders it needs that    *)
(* are not there are put down as created, before anything is tried.        *)
Predict(r) ==
    LET q == request[r] IN
    /\ q.at = "predict"
    /\ IF File(r).bad THEN Fails(r)
       ELSE Go(r, [q EXCEPT !.at = "lookup", !.folders = @ \cup Missing(File(r).path)])
    /\ UNCHANGED <<tables, history>>

(* upsertDocumentAtPath, up to its writes.                                 *)
Unchanged(f) == doc[f.path].content = f.content

(* A bug: the content is not compared.                                     *)
ForetoldChange(f) == "updated"

(* What a dry run says of a document that is there.                        *)
Foretold(f) == IF Unchanged(f) THEN "skipped" ELSE "updated"

Lookup(r) ==
    LET q == request[r]
        f == File(r)
        there == doc[f.path] # None IN
    /\ q.at = "lookup"
    /\ CASE there /\ q.mode = "create_only" -> Ends(r, q, "skipped", {})
         [] there /\ q.mode # "create_only" /\ ~CanWrite -> Fails(r)
         [] there /\ q.mode = "dry_run" /\ CanWrite -> Ends(r, q, Foretold(f), {})
         [] there /\ q.mode = "upsert" /\ CanWrite ->
                IF Unchanged(f) THEN Ends(r, q, "skipped", {})
                ELSE Go(r, [q EXCEPT !.at = "update", !.seen = doc[f.path],
                                     !.base = IF @ = None THEN doc[f.path].version ELSE @])
         [] ~there /\ q.mode = "dry_run" -> Go(r, [q EXCEPT !.at = "foresee"])
         [] ~there /\ q.mode # "dry_run" ->
                IF q.createFolders \/ FolderOf(f.path) \in folder THEN Go(r, [q EXCEPT !.at = "create"])
                ELSE Fails(r)
    /\ UNCHANGED <<tables, history>>

(* The answer of a dry run for a document that is not there.               *)
Foresee(r) ==
    /\ request[r].at = "foresee"
    /\ Ends(r, request[r], "created", Missing(File(r).path))
    /\ UNCHANGED <<tables, history>>

-----------------------------------------------------------------------------
(* The writes.                                                             *)

(* applyDocumentWrite: the current version must be the base, and a draft   *)
(* is written only by who asked for it and saw one.                        *)
Update(r) ==
    LET q == request[r]
        f == File(r)
        now == doc[f.path] IN
    /\ q.at = "update"
    /\ now # None => now.version < MaxVersion
    /\ IF /\ now # None /\ CanWrite /\ InScope(f.path) /\ now.version = q.base
          /\ StatusOf(now.content) = "canonical" \/ (q.allowDraft /\ StatusOf(q.seen.content) = "draft")
       THEN /\ doc' = [doc EXCEPT ![f.path] = [content |-> f.content, version |-> now.version + 1]]
            /\ Ends(r, [q EXCEPT !.base = None], "updated", {}) /\ Wrote(r, f.path)
       ELSE Ends(r, [q EXCEPT !.base = None], "failed", {}) /\ UNCHANGED <<doc, wrote>>
    /\ UNCHANGED <<folder, access, scope, others, made, elsewhere, foretold>>

(* ensureFolderPath makes the folders from the top; each needs the rights  *)
(* on the one above it, which for the first are an administrator's.        *)
CanMake(p) == IF Len(p) = 1 THEN access = "admin" ELSE CanWrite /\ InScope(Front(p))
Reachable(r) ==
    LET p == File(r).path IN
    /\ request[r].createFolders \/ Missing(p) = {}
    /\ \A m \in Missing(p) : CanMake(m)
    /\ CanWrite /\ InScope(FolderOf(p))

(* The transaction that makes the document and the folders above it.       *)
Create(r) ==
    LET q == request[r]
        f == File(r) IN
    /\ q.at = "create"
    /\ IF Reachable(r) /\ doc[f.path] = None
       THEN /\ folder' = folder \cup Above(f.path)
            /\ doc' = [doc EXCEPT ![f.path] = [content |-> f.content, version |-> 1]]
            /\ made' = [made EXCEPT ![r] = @ \cup Missing(f.path)]
            /\ elsewhere' = [k \in Requests |-> elsewhere[k] \cup IF k = r THEN {} ELSE Missing(f.path)]
            /\ Ends(r, q, "created", Missing(f.path)) /\ Wrote(r, f.path)
       ELSE Fails(r) /\ UNCHANGED <<folder, doc, made, elsewhere, wrote>>
    /\ UNCHANGED <<access, scope, others, foretold>>

(* createDocument: the folder is looked at again, the rights are not.      *)
Insert(r) ==
    LET q == request[r]
        f == File(r) IN
    /\ q.at = "insert"
    /\ IF FolderOf(f.path) \in folder /\ doc[f.path] = None
       THEN /\ doc' = [doc EXCEPT ![f.path] = [content |-> f.content, version |-> 1]]
            /\ Ends(r, q, "created", {}) /\ Wrote(r, f.path)
       ELSE Fails(r) /\ UNCHANGED <<doc, wrote>>
    /\ UNCHANGED <<folder, access, scope, others, made, elsewhere, foretold>>

(* A dry run that has ended is remembered until something changes.         *)
Remember(r) ==
    /\ request[r].at = "done" /\ request[r].mode = "dry_run" /\ foretold = None
    /\ others = 0 /\ \A k \in Requests \ {r} : request[k].at = "idle"
    /\ foretold' = [files |-> request[r].files, outcome |-> request[r].outcome,
                    folders |-> request[r].folders, by |-> r]
    /\ UNCHANGED <<tables, request, others, made, wrote, elsewhere>>

-----------------------------------------------------------------------------
(* What others do meanwhile.                                               *)
Other == others < MaxOthers /\ others' = others + 1 /\ "others" \in Ops /\ foretold' = None

(* createFolder of another agent                                           *)
AddFolder(p) ==
    /\ Other /\ p \notin folder /\ Above(p) \subseteq folder
    /\ folder' = folder \cup {p}
    /\ elsewhere' = [r \in Requests |-> elsewhere[r] \cup {p}]
    /\ UNCHANGED <<doc, access, scope, request, made, wrote>>

(* A folder with nothing in it is deleted.                                 *)
RemoveFolder(p) ==
    /\ Other /\ p \in folder
    /\ \A k \in folder : p \notin Above(k)
    /\ \A k \in Paths : doc[k] # None => FolderOf(k) # p
    /\ folder' = folder \ {p}
    /\ UNCHANGED <<doc, access, scope, request, made, wrote, elsewhere>>

(* deleteDocument, a save, and markDocumentCanonical                       *)
Delete(p) ==
    /\ Other /\ doc[p] # None
    /\ doc' = [doc EXCEPT ![p] = None]
    /\ UNCHANGED <<folder, access, scope, request, made, wrote, elsewhere>>

Save(p, c) ==
    /\ Other /\ doc[p] # None /\ doc[p].version < MaxVersion /\ doc[p].content # c
    /\ doc' = [doc EXCEPT ![p] = [content |-> c, version |-> @.version + 1]]
    /\ UNCHANGED <<folder, access, scope, request, made, wrote, elsewhere>>

(* The agent's role and the folder of agents are changed.                  *)
Limit(a, s) ==
    /\ Other /\ <<a, s>> # <<access, scope>>
    /\ access' = a /\ scope' = s
    /\ UNCHANGED <<folder, doc, request, made, wrote, elsewhere>>

Next ==
    \/ \E r \in Requests :
         \/ \E t \in Trees, mode \in Modes : StartImport(r, t, mode)
         \/ \E f \in Files, create \in BOOLEAN :
              \/ \E draft \in BOOLEAN, base \in {None, 1} :
                   StartUpsert(r, f, create, draft, base)
              \/ StartPlan(r, f, create)
         \/ \E f \in Files : StartCreate(r, f)
         \/ Predict(r) \/ Lookup(r) \/ Foresee(r) \/ Update(r) \/ Create(r) \/ Insert(r)
         \/ Remember(r)
    \/ \E p \in Folders : AddFolder(p) \/ RemoveFolder(p)
    \/ \E p \in Paths : Delete(p) \/ \E c \in Contents : Save(p, c)
    \/ \E a \in {"admin", "editor", "viewer"}, s \in Scopes : Limit(a, s)

Spec == Init /\ [][Next]_vars

-----------------------------------------------------------------------------
(* Properties.                                                             *)
Done(r) == request[r].at = "done"
Outcomes(r) == request[r].outcome
FileAt(r, i) == request[r].files[i]

(* A document's folders are there.                                         *)
TreeOK == /\ \A p \in folder : Above(p) \subseteq folder
          /\ \A p \in Paths : doc[p] # None => FolderOf(p) \in folder

(* A report tells what was done: the document of each file it calls        *)
(* created or updated, and nothing for the others; every folder            *)
(* made, and no folder but those, those that somebody else made, or those  *)
(* of a file that failed (importMarkdownTree).                             *)
ReportsTellTruth ==
    \A r \in Requests : Done(r) /\ request[r].mode # "dry_run" =>
        /\ Len(Outcomes(r)) = Len(request[r].files)
        /\ wrote[r] = {<<i, FileAt(r, i).path>> :
                          i \in {j \in DOMAIN Outcomes(r) : Outcomes(r)[j] \in {"created", "updated"}}}
        /\ made[r] \subseteq request[r].folders
        /\ \A p \in request[r].folders \ made[r] :
              \/ p \in elsewhere[r]
              \/ \E i \in DOMAIN Outcomes(r) : /\ Outcomes(r)[i] = "failed"
                                               /\ p \in Above(FileAt(r, i).path)

(* If nothing changes after a dry run, importing the same files has the    *)
(* outcome it foretold for every file whose path comes once, unless the    *)
(* document is a draft or the folders may not be made; the folders are     *)
(* those foretold.                                                         *)
DryRunForetells ==
    \A r \in Requests :
        /\ Done(r) /\ request[r].tool = "import" /\ request[r].mode = "upsert"
        /\ foretold # None /\ foretold.files = request[r].files
        /\ \A k \in Requests \ {r, foretold.by} : request[k].at = "idle"
        => /\ request[r].folders = foretold.folders
           /\ \A i \in DOMAIN Outcomes(r) :
                \/ Outcomes(r)[i] = foretold.outcome[i]
                \/ \E j \in DOMAIN Outcomes(r) \ {i} : FileAt(r, i).path = FileAt(r, j).path
                \/ /\ Outcomes(r)[i] = "failed"
                   /\ \/ foretold.outcome[i] = "created" /\ access # "admin"
                      \/ foretold.outcome[i] = "updated"
                         /\ StatusOf(doc[FileAt(r, i).path].content) # "canonical"

ImportsReportTruly == TreeOK /\ ReportsTellTruth /\ DryRunForetells
=============================================================================
