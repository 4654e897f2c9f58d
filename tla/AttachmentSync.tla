--------------------------- MODULE AttachmentSync ---------------------------
(***************************************************************************)
(* The attachments of the notes of an Obsidian vault: syncDocumentAttach-  *)
(* ments of the plugin (obsidian-plugin/src/sync.ts), which runs after     *)
(* every pull and push of a note, against people who upload and delete     *)
(* attachments on the web and change files and notes in the vault.         *)
(*                                                                         *)
(* A run lists the document's attachments, and goes through deletions,     *)
(* downloads and uploads; a call that is refused or fails ends it.  The    *)
(* entries in .server-meta.json keep the order in which they were added.   *)
(* One run at a time; those of two tasks at once are ObsidianSync's.       *)
(***************************************************************************)
EXTENDS Naturals, Sequences, FiniteSetsExt

CONSTANTS
    Docs, Home,         \* the linked documents, the folder each note is in
    Names, Contents,    \* of files
    Missing,            \* the file is not there
    ReadOnly,           \* the documents of which the user is a viewer
    Faults,             \* whether calls fail and replies are lost
    MaxChanges          \* bound on what people change

Paths == {<<Home[d], n>> : d \in Docs, n \in Names}

VARIABLES
    row,        \* the attachments: [doc, name, content, live], in order of creation
    linked,     \* those whose URL is in their document
    file,       \* the files of the vault
    refs,       \* the files each note refers to
    meta,       \* the entries: [id, path, nth], nth being their order of addition
    frozen,     \* the notes with a conflict file beside them
    run,        \* the run in progress
    changes,    \* bound: what people changed so far
    author,     \* history: who a file, or its absence, is from
    shared      \* history: paths that stood for two attachments at once

server == <<row, linked>>
vault == <<file, refs, meta, frozen>>
vars == <<server, vault, run, changes, author, shared>>

Idle == [at |-> "idle", kind |-> "pass", doc |-> 0, wanted |-> {}, gone |-> {},
         remote |-> {}, todo |-> {}, old |-> 0, new |-> 0, by |-> "nobody"]

Init ==
    /\ row = <<>> /\ linked = {}
    /\ file \in [Paths -> Contents \cup {Missing}]
    /\ refs \in [Docs -> SUBSET Paths]
    /\ meta = {} /\ frozen = {} /\ run = Idle
    /\ changes = 0
    /\ author = [p \in Paths |-> IF file[p] = Missing THEN "nobody" ELSE "user"]
    /\ shared = {}

Live(d) == {i \in DOMAIN row : row[i].doc = d /\ row[i].live}

(* Entries.                                                                *)
Entries(d) == {e \in meta : row[e.id].doc = d}
Tracked(i) == \E e \in meta : e.id = i
PathOf(i) ==
    IF Tracked(i) THEN (CHOOSE e \in meta : e.id = i).path
    ELSE <<Home[row[i].doc], row[i].name>>
Without(i) == {e \in meta : e.id # i}
Entered(entries, i, p) ==
    entries \cup {[id |-> i, path |-> p, nth |-> 1 + Max({0} \cup {e.nth : e \in entries})]}

(* trackedByPath: of several entries the last one counts.                  *)
AtPath(d, p) ==
    LET there == {e \in Entries(d) : e.path = p} IN
    {e.id : e \in {f \in there : \A g \in there : g.nth <= f.nth}}

-----------------------------------------------------------------------------
(* A run.                                                                  *)

(* Two attachments of one path, but for the one that is being replaced.    *)
Collisions ==
    LET there == {i \in DOMAIN row : row[i].live \/ Tracked(i)} \ {run.new} IN
    {PathOf(i) : i \in {j \in there : \E k \in there \ {j} : PathOf(j) = PathOf(k)}}

Remember == shared' = shared \cup Collisions'

Go(r) == run' = r

First(entries) == {e \in entries : \A f \in entries : e.nth <= f.nth}
Newest(rows) == {i \in rows : \A k \in rows : k <= i}

(* In a pass, which leaves notes in conflict alone, or at the end of a     *)
(* push.                                                                   *)
Start(d, kind) ==
    /\ run.at = "idle"
    /\ kind = "pass" => d \notin frozen
    /\ kind = "push" => d \notin ReadOnly
    /\ Go([Idle EXCEPT !.at = "list", !.kind = kind, !.doc = d,
                       !.wanted = IF d \in ReadOnly THEN {} ELSE refs[d]])
    /\ UNCHANGED <<server, vault, changes, author, shared>>

(* A push takes every 409 for an edit by somebody else.                    *)
Ends(conflict) ==
    /\ Go(Idle)
    /\ frozen' = IF conflict /\ run.kind = "push" THEN frozen \cup {run.doc} ELSE frozen

(* The newest attachments come first; entries without one are dropped.     *)
List ==
    LET there == Live(run.doc)
        known == {e \in Entries(run.doc) : e.id \in there} IN
    /\ run.at = "list"
    /\ meta' = (meta \ Entries(run.doc)) \cup known
    /\ Go([run EXCEPT !.at = "check", !.remote = there,
                      !.gone = IF run.doc \in ReadOnly THEN {}
                               ELSE {e \in known : e.path \notin run.wanted}])
    /\ UNCHANGED <<server, file, refs, frozen, changes, author>> /\ Remember

(* A bug: what the note does not refer to is given up, file or not.        *)
GivenUpUnread(e) == TRUE

GivenUp(e) == file[e.path] = Missing

(* A file that is neither referred to nor there: its attachment goes.      *)
CheckGone ==
    /\ run.at = "check"
    /\ \/ run.gone = {} /\ Go([run EXCEPT !.at = "get"])
       \/ \E e \in First(run.gone) :
            Go(IF GivenUp(e) THEN [run EXCEPT !.at = "delete", !.by = author[e.path]]
               ELSE [run EXCEPT !.gone = @ \ {e}])
    /\ UNCHANGED <<server, vault, changes, author, shared>>

(* DELETE /attachments/:id                                                 *)
Accepted(i) == row[i].live /\ i \notin linked
Deleted(i) == [row EXCEPT ![i].live = FALSE]

(* A call that is refused, fails, or loses its reply after effect.         *)
Broken(i) ==
    /\ \/ ~Accepted(i) /\ UNCHANGED row /\ Ends(row[i].live)
       \/ Faults /\ row' \in {row, IF Accepted(i) THEN Deleted(i) ELSE row} /\ Ends(FALSE)
    /\ UNCHANGED meta

DeleteGone ==
    /\ run.at = "delete"
    /\ \E e \in First(run.gone) :
         \/ /\ Accepted(e.id)
            /\ row' = Deleted(e.id) /\ meta' = Without(e.id)
            /\ Go([run EXCEPT !.at = "check", !.gone = @ \ {e}, !.remote = @ \ {e.id},
                              !.by = "nobody"])
            /\ UNCHANGED frozen
         \/ Broken(e.id)
    /\ UNCHANGED <<linked, file, refs, changes, author>> /\ Remember

NeedsDownload(i) == file[PathOf(i)] = Missing \/ ~Tracked(i)

CheckNext ==
    /\ run.at = "get"
    /\ \/ /\ run.remote = {}
          /\ Go(IF run.doc \in ReadOnly THEN Idle ELSE [run EXCEPT !.at = "put", !.todo = run.wanted])
       \/ \E i \in Newest(run.remote) :
            Go(IF NeedsDownload(i) THEN [run EXCEPT !.at = "download"]
               ELSE [run EXCEPT !.remote = @ \ {i}])
    /\ UNCHANGED <<server, vault, changes, author, shared>>

Download ==
    /\ run.at = "download"
    /\ \E i \in Newest(run.remote) :
         LET p == PathOf(i) IN
         \/ /\ row[i].live
            /\ file' = [file EXCEPT ![p] = row[i].content]
            /\ author' = [author EXCEPT ![p] = "sync"]
            /\ meta' = IF Tracked(i) THEN meta ELSE Entered(meta, i, p)
            /\ Go([run EXCEPT !.at = "get", !.remote = @ \ {i}])
            /\ UNCHANGED frozen
         \/ (~row[i].live \/ Faults) /\ Ends(FALSE) /\ UNCHANGED <<file, author, meta>>
    /\ UNCHANGED <<server, refs, changes>> /\ Remember

(* POST /documents/:id/attachments; what an upload replaces is deleted     *)
(* after it, and the entry comes last.                                     *)
Upload(p) ==
    LET old == AtPath(run.doc, p)
        new == Len(row) + 1
        rest == [run EXCEPT !.todo = @ \ {p}] IN
    /\ run.at = "put" /\ p \in run.todo
    /\ IF file[p] = Missing \/ \E i \in old : row[i].content = file[p]
       THEN Go(rest) /\ UNCHANGED <<row, meta, frozen>>
       ELSE \/ /\ row' = Append(row, [doc |-> run.doc, name |-> p[2], content |-> file[p], live |-> TRUE])
               /\ \/ /\ \E i \in old :
                           Go([rest EXCEPT !.at = "drop", !.old = i, !.new = new, !.by = author[p]])
                     /\ UNCHANGED <<meta, frozen>>
                  \/ old = {} /\ Go(rest) /\ meta' = Entered(meta, new, p) /\ UNCHANGED frozen
                  \/ Faults /\ Ends(FALSE) /\ UNCHANGED meta
            \/ Faults /\ Ends(FALSE) /\ UNCHANGED <<row, meta>>
    /\ UNCHANGED <<linked, file, refs, changes, author>> /\ Remember

DropOld ==
    LET i == run.old IN
    /\ run.at = "drop"
    /\ \/ /\ Accepted(i)
          /\ row' = Deleted(i) /\ meta' = Entered(Without(i), run.new, PathOf(i))
          /\ Go([run EXCEPT !.at = "put", !.old = 0, !.new = 0, !.by = "nobody"])
          /\ UNCHANGED frozen
       \/ Broken(i)
    /\ UNCHANGED <<linked, file, refs, changes, author>> /\ Remember

EndRun ==
    /\ run.at = "put" /\ run.todo = {}
    /\ Ends(FALSE)
    /\ UNCHANGED <<server, file, refs, meta, changes, author, shared>>

-----------------------------------------------------------------------------
(* People.                                                                 *)
Changed == changes < MaxChanges /\ changes' = changes + 1 /\ UNCHANGED run

WebUpload(d, n, c) ==
    /\ row' = Append(row, [doc |-> d, name |-> n, content |-> c, live |-> TRUE])
    /\ Changed /\ UNCHANGED <<linked, vault, author>> /\ Remember

WebDelete(i) ==
    /\ Accepted(i) /\ row' = Deleted(i)
    /\ Changed /\ UNCHANGED <<linked, vault, author>> /\ Remember

(* An attachment's link is put into its document, or taken out.            *)
WebLink(i) ==
    /\ row[i].live
    /\ linked' = IF i \in linked THEN linked \ {i} ELSE linked \cup {i}
    /\ Changed /\ UNCHANGED <<row, vault, author, shared>>

EditFile(p, c) ==
    /\ file[p] # c
    /\ file' = [file EXCEPT ![p] = c] /\ author' = [author EXCEPT ![p] = "user"]
    /\ Changed /\ UNCHANGED <<server, refs, meta, frozen, shared>>

EditNote(d, p) ==
    /\ refs' = [refs EXCEPT ![d] = IF p \in @ THEN @ \ {p} ELSE @ \cup {p}]
    /\ Changed /\ UNCHANGED <<server, file, meta, frozen, author, shared>>

Resolve(d) ==
    /\ d \in frozen /\ frozen' = frozen \ {d}
    /\ UNCHANGED <<server, file, refs, meta, run, changes, author, shared>>

Disturb ==
    \/ \E d \in Docs : Start(d, "push")
    \/ \E d \in Docs, n \in Names, c \in Contents : WebUpload(d, n, c)
    \/ \E i \in DOMAIN row : WebDelete(i) \/ WebLink(i)
    \/ \E p \in Paths : \/ \E c \in Contents \cup {Missing} : EditFile(p, c)
                        \/ \E d \in Docs : EditNote(d, p)

Advance ==
    \/ List \/ CheckGone \/ DeleteGone \/ CheckNext \/ Download \/ DropOld \/ EndRun
    \/ \E p \in Paths : Upload(p)

Next == Disturb \/ Advance \/ \E d \in Docs : Start(d, "pass") \/ Resolve(d)

Fairness ==
    /\ WF_vars(Advance)
    /\ \A d \in Docs : SF_vars(Start(d, "pass")) /\ WF_vars(Resolve(d))

Spec == Init /\ [][Next]_vars /\ Fairness

-----------------------------------------------------------------------------
(* Properties.                                                             *)

(* The plugin deletes an attachment only if the user removed or changed    *)
(* its file, unless two attachments have stood for that file.              *)
DeletesByChoice ==
    \A i \in DOMAIN row : row[i].live /\ ~row'[i].live /\ run' # run =>
        run.by = "user" \/ PathOf(i) \in shared

DeletedByChoice == [][DeletesByChoice]_vars

(* A run that ends although its call would be accepted.                    *)
Fault ==
    /\ run' = Idle
    /\ \/ run.at = "put" /\ run.todo # {}
       \/ run.at = "delete" /\ (\E e \in First(run.gone) : Accepted(e.id))
       \/ run.at = "download" /\ \E i \in Newest(run.remote) : row[i].live
       \/ run.at = "drop" /\ Accepted(run.old)

(* An attachment that is linked where it has no file stops each run.       *)
Stuck(d) == \E i \in Live(d) \cap linked :
    Tracked(i) /\ file[PathOf(i)] = Missing /\ PathOf(i) \notin refs[d]

(* Unedited, a file that has one attachment only has its content, and what *)
(* a note refers to is attached to it as it is.                            *)
InStep ==
    \A d \in Docs : ~Stuck(d) =>
        /\ \A i \in Live(d) :
              /\ Tracked(i) /\ file[PathOf(i)] # Missing
              /\ PathOf(i) \notin shared /\ author[PathOf(i)] = "sync" => file[PathOf(i)] = row[i].content
        /\ d \notin ReadOnly =>
              \A p \in {q \in refs[d] : file[q] # Missing} :
                  \E i \in AtPath(d, p) : row[i].content = file[p]
=============================================================================
