---------------------------- MODULE ObsidianSync ----------------------------
(***************************************************************************)
(* The sync engine of the Obsidian plugin: one note of a vault, linked to  *)
(* one document that other people edit as well.                            *)
(*                                                                         *)
(* The note is a file the user edits at will; ".server-meta.json" records  *)
(* the version and the checksum it was last in step with; a conflict puts  *)
(* the server's copy beside it in "*.conflict.md".  The background pass,   *)
(* the debounced push after an edit and the user's commands each run       *)
(* through several awaits, and only passes are serialized among            *)
(* themselves.  A checksum stands for the text it is computed from.        *)
(***************************************************************************)
EXTENDS Naturals, Sequences

CONSTANTS
    Texts,        \* what a note can say
    Missing,      \* the file is not there
    Tasks,        \* Pass, and the ids of the debounced pushes and commands
    Pass,         \* the task of the background pass
    Kinds,        \* what the other tasks are started for in an instance
    Starts,       \* whether the note is linked to the document at first, or not
    Faults,       \* whether calls fail and replies are lost
    Others,       \* what other people do: "revise", "delete", "grant"
    MaxVersion    \* no edit and no push is begun at this many revisions

ASSUME ObsidianAssumption ==
    /\ Missing \notin Texts
    /\ Pass \in Tasks
    /\ Kinds \subseteq {"auto", "push", "download"}
    /\ Starts \subseteq BOOLEAN /\ Faults \in BOOLEAN

VARIABLES
    history,      \* the document's revisions; its current version is the last
    access,       \* "editor", "viewer", or "gone": deleted, or the grant revoked
    file,         \* the note
    sibling,      \* the version whose copy is in the conflict file, or 0
    meta,         \* the note's entry in .server-meta.json
    seen,         \* the versions whose content was put into the vault or pushed
    adopted,      \* the version recorded for a note that was just created
    task          \* what each task is doing

device == <<file, sibling, meta, seen, adopted>>
vars == <<history, access, device, task>>

Unlinked == [base |-> 0, sum |-> Missing, perm |-> "editor"]
Entry(v, perm) == [base |-> v, sum |-> history[v], perm |-> perm]

Idle == [at |-> "idle", kind |-> "none", entry |-> Unlinked, remote |-> 0,
         perm |-> "editor", text |-> Missing]

Current == Len(history)

Init ==
    /\ \E t \in Texts, linked \in Starts :
         /\ history = IF linked THEN <<t>> ELSE << >>
         /\ meta = IF linked THEN Entry(1, "editor") ELSE Unlinked
         /\ file = t
    /\ access = "editor"
    /\ sibling = 0
    /\ seen = 1..Current
    /\ adopted = 0
    /\ task = [k \in Tasks |-> Idle]

At(k, at) == task[k].at = at
Goes(k, to) == task' = [task EXCEPT ![k] = to]
Step(k, at) == Goes(k, [task[k] EXCEPT !.at = at])
Finish(k) == Goes(k, Idle)

(* On with the fetched document, or with nothing but the note.             *)
WithRemote(k, at) == Goes(k, [Idle EXCEPT !.kind = task[k].kind, !.at = at,
                                          !.remote = task[k].remote, !.perm = task[k].perm])
WithNote(k, at) == Goes(k, [Idle EXCEPT !.kind = task[k].kind, !.at = at])

-----------------------------------------------------------------------------
(* Starting a task.                                                        *)

(* A pass takes the entries of its documents when it starts; a note under  *)
(* the synced folder without one is created remotely.                      *)
StartPass ==
    /\ At(Pass, "idle")
    /\ meta.base # 0 \/ file # Missing
    /\ Goes(Pass, [Idle EXCEPT !.kind = "pass", !.entry = meta,
                               !.at = IF meta.base # 0 THEN "fetch" ELSE "tree",
                               !.text = IF meta.base # 0 THEN Missing ELSE file])
    /\ UNCHANGED <<history, access, device>>

(* The debounced push after an edit waits for the pass, and does nothing   *)
(* for a viewer, an unresolved conflict or a file that has not changed.    *)
StartAuto(k) ==
    /\ k # Pass /\ "auto" \in Kinds /\ At(k, "idle")
    /\ At(Pass, "idle")
    /\ file # Missing
    /\ meta.perm # "viewer" /\ sibling = 0 /\ file # meta.sum
    /\ Goes(k, [Idle EXCEPT !.kind = "auto", !.at = "link"])
    /\ UNCHANGED <<history, access, device>>

(* The user's commands: push this note, download the document.             *)
StartCommand(k) ==
    /\ k # Pass /\ At(k, "idle")
    /\ \/ /\ "push" \in Kinds /\ file # Missing
          /\ Goes(k, [Idle EXCEPT !.kind = "push", !.at = "link"])
       \/ /\ "download" \in Kinds /\ history # << >>
          /\ Goes(k, [Idle EXCEPT !.kind = "download", !.at = "fetch"])
    /\ UNCHANGED <<history, access, device>>

-----------------------------------------------------------------------------
(* The calls to the server.                                                *)

GetDocument(k, found) ==
    /\ IF access = "gone" THEN Finish(k)
       ELSE Goes(k, [task[k] EXCEPT !.at = found, !.remote = Current, !.perm = access,
                                    !.text = Missing])
    /\ UNCHANGED <<history, access, device>>

Fetch(k) ==
    /\ At(k, "fetch")
    /\ GetDocument(k, IF task[k].kind = "pass" THEN "decide" ELSE "apply")

(* POST /documents/:id/push: the base must be the current version, and the *)
(* same content makes no new one.                                          *)
Accepts(k) == access = "editor" /\ task[k].entry.base = Current

Push(k) ==
    /\ At(k, "push")
    /\ \/ access # "editor" /\ Finish(k) /\ UNCHANGED <<history, seen>>
       \/ /\ access = "editor" /\ ~Accepts(k)
          /\ WithNote(k, "refetch") /\ UNCHANGED <<history, seen>>
       \/ /\ Accepts(k)
          /\ history' = IF history[Current] = task[k].text THEN history
                        ELSE Append(history, task[k].text)
          /\ seen' = seen \cup {Len(history')}
          /\ \/ Goes(k, [task[k] EXCEPT !.at = "pushed", !.remote = Len(history')])
             \/ Faults /\ Finish(k)     \* the reply is lost
    /\ UNCHANGED <<access, file, sibling, meta, adopted>>

(* Mutant: the conflict is recorded without its file.                      *)
RefetchOnly(k) == At(k, "refetch") /\ GetDocument(k, "record")

Refetch(k) == At(k, "refetch") /\ GetDocument(k, "conflict")

(* A note without an entry: the path must be free in the workspace's tree, *)
(* the document is created and then read back for its version.             *)
ReadTree(k) ==
    /\ At(k, "tree")
    /\ IF history # << >> THEN Finish(k) ELSE Step(k, "create")
    /\ UNCHANGED <<history, access, device>>

CreateDocument(k) ==
    /\ At(k, "create")
    /\ \/ history # << >> /\ Finish(k) /\ UNCHANGED <<history, seen>>
       \/ /\ history = << >>
          /\ history' = <<task[k].text>> /\ seen' = {1}
          /\ \/ Step(k, "created")
             \/ Faults /\ Finish(k)
    /\ UNCHANGED <<access, file, sibling, meta, adopted>>

ReadCreated(k) ==
    /\ At(k, "created")
    /\ IF access = "gone" THEN Finish(k) /\ UNCHANGED adopted
       ELSE /\ Goes(k, [task[k] EXCEPT !.at = "record", !.remote = Current, !.perm = access,
                                       !.text = Missing])
            /\ adopted' = Current
    /\ UNCHANGED <<history, access, file, sibling, meta, seen>>

-----------------------------------------------------------------------------
(* What a task does in the vault.                                          *)

(* syncLinkedDocument's decision table, on the entry the pass started with *)
(* and the document it fetched.                                            *)
Moved(k) == task[k].remote # task[k].entry.base

Decide(k) ==
    /\ At(k, "decide")
    /\ \/ /\ sibling # 0 \/ file = Missing
          /\ Finish(k)
       \/ /\ sibling = 0 /\ file \notin {Missing, task[k].entry.sum}
          /\ \/ task[k].perm # "viewer" /\ WithNote(k, "link")
             \/ task[k].perm = "viewer" /\ Moved(k) /\ WithRemote(k, "conflict")
             \/ task[k].perm = "viewer" /\ ~Moved(k) /\ Step(k, "perm")
       \/ /\ sibling = 0 /\ file # Missing /\ file = task[k].entry.sum
          /\ \/ Moved(k) /\ Step(k, "fresh")
             \/ ~Moved(k) /\ task[k].perm # task[k].entry.perm /\ Step(k, "perm")
             \/ ~Moved(k) /\ task[k].perm = task[k].entry.perm /\ Finish(k)
    /\ UNCHANGED <<history, access, device>>

(* The file is read again right before a pull writes it.                   *)
ReadFresh(k) ==
    /\ At(k, "fresh")
    /\ \/ file = Missing /\ Finish(k)
       \/ file # Missing /\ WithRemote(k, IF file = task[k].entry.sum THEN "apply" ELSE "conflict")
    /\ UNCHANGED <<history, access, device>>

(* The entry is written back with the permission that was fetched.         *)
RecordPermission(k) ==
    /\ At(k, "perm")
    /\ meta' = [task[k].entry EXCEPT !.perm = task[k].perm]
    /\ Finish(k)
    /\ UNCHANGED <<history, access, file, sibling, seen, adopted>>

(* pushLocalDocument reads the entry again and then the file; a note that  *)
(* has no entry is created.                                                *)
ReadLink(k) ==
    /\ At(k, "link")
    /\ \/ (meta.perm = "viewer" \/ file = Missing) /\ Finish(k)
       \/ /\ meta.perm # "viewer" /\ file # Missing
          /\ Goes(k, [task[k] EXCEPT !.entry = meta, !.text = file,
                                     !.at = IF meta.base # 0 THEN "push" ELSE "tree"])
    /\ UNCHANGED <<history, access, device>>

Pushed(k) == [task[k].entry EXCEPT !.base = task[k].remote, !.sum = task[k].text]

RecordPush(k) ==
    /\ At(k, "pushed")
    /\ meta' = Pushed(k) /\ Finish(k)
    /\ UNCHANGED <<history, access, file, sibling, seen, adopted>>

(* The local file stays as it is and the server's copy is put beside it.   *)
WriteConflict(k) ==
    /\ At(k, "conflict")
    /\ sibling' = task[k].remote /\ seen' = seen \cup {task[k].remote}
    /\ Step(k, "record")
    /\ UNCHANGED <<history, access, file, meta, adopted>>

Apply(k) ==
    /\ At(k, "apply")
    /\ file' = history[task[k].remote] /\ seen' = seen \cup {task[k].remote}
    /\ Step(k, "record")
    /\ UNCHANGED <<history, access, sibling, meta, adopted>>

(* Mutant: the entry keeps the version it had before.                      *)
RecordStale(k) ==
    /\ At(k, "record")
    /\ meta' = [Entry(task[k].remote, task[k].perm) EXCEPT !.base = meta.base]
    /\ Finish(k)
    /\ UNCHANGED <<history, access, file, sibling, seen, adopted>>

Record(k) ==
    /\ At(k, "record")
    /\ meta' = Entry(task[k].remote, task[k].perm) /\ Finish(k)
    /\ UNCHANGED <<history, access, file, sibling, seen, adopted>>

-----------------------------------------------------------------------------
(* The user, the other editors, and failures.                              *)

EditFile ==
    /\ Current < MaxVersion
    /\ file' \in Texts \ {file}
    /\ UNCHANGED <<history, access, sibling, meta, seen, adopted, task>>

DeleteFile ==
    /\ file # Missing /\ file' = Missing
    /\ UNCHANGED <<history, access, sibling, meta, seen, adopted, task>>

ResolveConflict ==
    /\ sibling # 0 /\ sibling' = 0
    /\ UNCHANGED <<history, access, file, meta, seen, adopted, task>>

OthersAct ==
    /\ history # << >>
    /\ \/ /\ "revise" \in Others /\ access # "gone" /\ Current < MaxVersion
          /\ \E t \in Texts \ {history[Current]} : history' = Append(history, t)
          /\ UNCHANGED access
       \/ /\ "delete" \in Others
          /\ access' \in {"editor", "gone"} \ {access} /\ UNCHANGED history
       \/ /\ "grant" \in Others
          /\ access' \in {"editor", "viewer"} \ {access} /\ UNCHANGED history
    /\ UNCHANGED <<device, task>>

(* A call that fails ends the task; so does Obsidian when it is closed.    *)
Fail(k) ==
    /\ Faults /\ ~At(k, "idle") /\ Goes(k, [Idle EXCEPT !.kind = "failed"])
    /\ UNCHANGED <<history, access, device>>

Advance(k) ==
    \/ Fetch(k) \/ Push(k) \/ Refetch(k)
    \/ ReadTree(k) \/ CreateDocument(k) \/ ReadCreated(k)
    \/ Decide(k) \/ ReadFresh(k) \/ RecordPermission(k) \/ ReadLink(k)
    \/ RecordPush(k) \/ WriteConflict(k) \/ Apply(k) \/ Record(k)

Start(k) == Current < MaxVersion /\ (StartAuto(k) \/ StartCommand(k))

Disturb == EditFile \/ DeleteFile \/ OthersAct \/ \E k \in Tasks : Start(k) \/ Fail(k)

Next == StartPass \/ ResolveConflict \/ Disturb \/ \E k \in Tasks : Advance(k)

Spec == Init /\ [][Next]_vars

(* The timer of the plugin starts passes over and over, an await returns,  *)
(* and a user who is shown a conflict resolves it.                         *)
Fairness ==
    /\ WF_vars(StartPass)
    /\ WF_vars(ResolveConflict)
    /\ \A k \in Tasks : WF_vars(Advance(k))

FairSpec == Spec /\ Fairness

-----------------------------------------------------------------------------
(* Properties.                                                             *)

Versions == 1..Current
Entries == [base : Versions \cup {0}, sum : Texts \cup {Missing}, perm : {"editor", "viewer"}]

TypeOK ==
    /\ history \in Seq(Texts)
    /\ access \in {"editor", "viewer", "gone"}
    /\ file \in Texts \cup {Missing}
    /\ sibling \in Versions \cup {0}
    /\ meta \in Entries
    /\ seen \subseteq Versions /\ adopted \in Versions \cup {0}
    /\ task \in [Tasks -> [at : {"idle", "fetch", "decide", "fresh", "apply", "conflict",
                                 "record", "perm", "link", "push", "pushed", "refetch",
                                 "tree", "create", "created"},
                           kind : {"none", "failed", "pass"} \cup Kinds, entry : Entries,
                           remote : Versions \cup {0}, perm : {"editor", "viewer"},
                           text : Texts \cup {Missing}]]

(* A push of the plugin replaces only a version that was brought to the    *)
(* vault before: in the note, or beside it in the conflict file.  The one  *)
(* exception is a note the plugin has just created: the version it records *)
(* is the one the document has when it is read back.                       *)
Pushing(k) == At(k, "push") /\ history' # history /\ task'[k] # task[k]

SeenBeforeReplaced ==
    [][\A k \in Tasks : Pushing(k) => Current \in seen \cup {adopted}]_vars

(* Once nobody disturbs them, a linked note whose entry says editor and    *)
(* its document end up with the same text, the entry in step with both.    *)
InStep ==
    meta.base # 0 /\ access = "editor" /\ meta.perm = "editor" /\ file # Missing =>
        file = history[Current] /\ meta.base = Current /\ meta.sum = file

(* And the entry has the permission the document's reader has: "reconcile  *)
(* a permission change so the UI/gating stays accurate".                   *)
PermissionReconciled ==
    <>[][~Disturb]_vars =>
        <>[](meta.base # 0 /\ access # "gone" /\ file # Missing => meta.perm = access)
=============================================================================
