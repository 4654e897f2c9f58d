--------------------------- MODULE DocumentWrite ---------------------------
(***************************************************************************)
(* The write path of one document: every request that can change its      *)
(* content, from the reads it makes before its transaction to the          *)
(* transaction itself (apps/server/src/documents/routes.ts, and the MCP    *)
(* tools of apps/server/src/mcp/routes.ts that call it).                    *)
(*                                                                         *)
(* A request first reads the document without a lock, prepares the new     *)
(* content, and only then opens a transaction that takes the row lock      *)
(* (SELECT ... FOR UPDATE), reads again and writes.  Everything a request  *)
(* read before the lock may be stale when it commits.  A transaction is    *)
(* two steps here, what it reads once it has the lock and what it writes   *)
(* when it commits, because role changes, comments and revision labels     *)
(* take no lock on the row and fall in between.                             *)
(*                                                                         *)
(* Left out: titles, slugs and paths (no version guards them), the blob    *)
(* behind a revision, the audit trail, the search text.                     *)
(***************************************************************************)
EXTENDS Naturals, Sequences

CONSTANTS
    Requests,    \* the requests, each handled once
    Users,       \* the users who send them
    Texts,       \* what a document can say, its status line left aside
    Statuses,    \* the statuses a document can be given
    Roles,       \* the roles a user can be given on the document
    Kinds,       \* the endpoints requests are sent to
    NoRequest,   \* nobody holds the row lock
    AnyVersion   \* base of a request that replaces whatever is there (restore)

AllRoles == {"none", "viewer", "editor", "manager"}
AllKinds == {"put", "push", "splice", "append", "upsert", "promote",
             "finalize", "restore", "delete", "agent_delete"}

ASSUME RequestsAssumption == NoRequest \notin Requests
ASSUME StatusesAssumption ==
    "canonical" \in Statuses /\ Statuses \subseteq {"draft", "canonical", "superseded"}
ASSUME RolesAssumption == Roles \subseteq AllRoles
ASSUME KindsAssumption == Kinds \subseteq AllKinds
ASSUME AnyVersionAssumption == AnyVersion \notin Nat

(* A checksum stands for the content, and the status column is parsed out  *)
(* of the frontmatter, so a content is its text and its status line.       *)
Contents == [text : Texts, status : Statuses]

VARIABLES
    row,       \* the Document row
    revs,      \* the DocumentRevision rows, in the order they were inserted
    role,      \* the role of each user on the document
    comments,  \* TRUE iff the document has an unresolved comment
    lock,      \* the request whose transaction holds the row lock
    pc,        \* where each request is
    req        \* what each request has been sent, has read and has answered

vars == <<row, revs, role, comments, lock, pc, req>>

PCs == {"idle", "status", "body", "comments", "preflight", "locking",
        "commit", "done"}
Outcomes == {"none", "ok", "noop", "conflict", "not_found", "forbidden",
             "not_canonical", "not_ready", "failed", "deleted"}

Sources == {"web_app", "obsidian_plugin", "agent", "system"}

Row == [live : BOOLEAN, current : Nat, checksum : Contents, status : Statuses]

(* base, seen, optIn, by and openComments are history: what the request    *)
(* that wrote the revision replaced, had read, had opted into, and ignored.*)
Revision ==
    [number : Nat, checksum : Contents, user : Users, source : Sources,
     group : Nat, marked : BOOLEAN, by : AllKinds \cup {"create"},
     base : Nat \cup {AnyVersion}, seen : Nat, optIn : BOOLEAN,
     openComments : BOOLEAN]

Request ==
    [kind : AllKinds, user : Users, base : Nat \cup {AnyVersion},
     content : Contents, allowDraft : BOOLEAN, allow : BOOLEAN, seen : Nat,
     max : Nat, outcome : Outcomes, version : Nat]

TypeOK ==
    /\ row \in Row
    /\ revs \in Seq(Revision)
    /\ role \in [Users -> AllRoles]
    /\ comments \in BOOLEAN
    /\ lock \in Requests \cup {NoRequest}
    /\ pc \in [Requests -> PCs]
    /\ req \in [Requests -> Request]

-----------------------------------------------------------------------------
(* Helpers                                                                 *)

Current == row.current
CurrentContent == revs[row.current].checksum

Rank == [none |-> 0, viewer |-> 1, editor |-> 2, manager |-> 3]

AtLeast(user, needed) == Rank[role[user]] >= Rank[needed]

(* The document exists and the user may do this; its existence is hidden   *)
(* from users without a role.                                              *)
Refusal(user, needed) ==
    IF ~row.live \/ role[user] = "none" THEN "not_found"
    ELSE IF ~AtLeast(user, needed) THEN "forbidden"
    ELSE "none"

(* The same handler serves the web, the plugin and the agents.             *)
SourcesOf(kind) ==
    CASE kind = "push" -> {"obsidian_plugin"}
      [] kind \in {"append", "upsert"} -> {"agent"}
      [] kind = "restore" -> {"system"}
      [] OTHER -> {"web_app", "agent"}

(* The content of these requests is computed by the server from the body   *)
(* it read; the others send their own.                                     *)
DerivedKinds == {"splice", "append", "promote", "finalize"}

Goto(r, label) == pc' = [pc EXCEPT ![r] = label]

(* The request is answered without a new version.                          *)
Answer(r, outcome) ==
    /\ Goto(r, "done")
    /\ req' = [req EXCEPT ![r].outcome = outcome]

Unchanged == UNCHANGED <<row, revs, role, comments, lock>>

-----------------------------------------------------------------------------
(* The initial state is the one the create transaction leaves.             *)

Init ==
    \E c \in Contents, u \in Users :
        /\ row = [live |-> TRUE, current |-> 1, checksum |-> c,
                  status |-> c.status]
        /\ revs = <<[number |-> 1, checksum |-> c, user |-> u,
                     source |-> "web_app", group |-> 0, marked |-> FALSE,
                     by |-> "create", base |-> AnyVersion, seen |-> 0,
                     optIn |-> FALSE, openComments |-> FALSE]>>
        /\ role \in [Users -> Roles]
        /\ comments = FALSE
        /\ lock = NoRequest
        /\ pc = [r \in Requests |-> "idle"]
        /\ req = [r \in Requests |->
                    [kind |-> "put", user |-> u, base |-> 0, content |-> c,
                     allowDraft |-> FALSE, allow |-> FALSE, seen |-> 0,
                     max |-> 0, outcome |-> "none", version |-> 0]]

-----------------------------------------------------------------------------
(* Requests arrive.  A client can only name a version that exists.         *)

Arrive(r, kind, label) ==
    /\ pc[r] = "idle"
    /\ kind \in Kinds
    /\ Goto(r, label)
    /\ Unchanged

Send(r, kind, user, base, content, allowDraft) ==
    req' = [req EXCEPT ![r] =
              [@ EXCEPT !.kind = kind, !.user = user, !.base = base,
                        !.content = content, !.allowDraft = allowDraft]]

(* PUT /api/documents/:id and the MCP update tool: the status is read      *)
(* first when the client opts into writing a draft.                        *)
ArrivePut(r) ==
    \E u \in Users, b \in DOMAIN revs, c \in Contents, d \in BOOLEAN :
        /\ Arrive(r, "put", IF d THEN "status" ELSE "preflight")
        /\ Send(r, "put", u, b, c, d)

(* POST /api/documents/:id/push, from the Obsidian plugin.                 *)
ArrivePush(r) ==
    \E u \in Users, b \in DOMAIN revs, c \in Contents :
        /\ Arrive(r, "push", "preflight")
        /\ Send(r, "push", u, b, c, FALSE)

(* Section and decision writes: the server splices t into the body it      *)
(* reads, the client names the base.                                       *)
ArriveSplice(r) ==
    \E u \in Users, b \in DOMAIN revs, t \in Texts, d \in BOOLEAN :
        /\ Arrive(r, "splice", "body")
        /\ Send(r, "splice", u, b, [req[r].content EXCEPT !.text = t], d)

(* The MCP append tool takes no base: the version it reads is the base.    *)
ArriveAppend(r) ==
    \E u \in Users, t \in Texts :
        /\ Arrive(r, "append", "body")
        /\ Send(r, "append", u, 0, [req[r].content EXCEPT !.text = t], FALSE)

(* The MCP upsert tool sends its own content; its base is optional (0).    *)
ArriveUpsert(r) ==
    \E u \in Users, b \in {0} \cup DOMAIN revs, c \in Contents, d \in BOOLEAN :
        /\ Arrive(r, "upsert", "body")
        /\ Send(r, "upsert", u, b, c, d)

(* Mark as canonical.                                                      *)
ArrivePromote(r) ==
    \E u \in Users :
        /\ Arrive(r, "promote", "body")
        /\ Send(r, "promote", u, 0, req[r].content, FALSE)

(* Finalize a planning document.                                           *)
ArriveFinalize(r) ==
    \E u \in Users, b \in DOMAIN revs, t \in Texts :
        /\ Arrive(r, "finalize", "body")
        /\ Send(r, "finalize", u, b, [req[r].content EXCEPT !.text = t], FALSE)

(* Restore an older revision.                                              *)
ArriveRestore(r) ==
    \E u \in Users, b \in DOMAIN revs :
        /\ Arrive(r, "restore", "body")
        /\ Send(r, "restore", u, b, req[r].content, FALSE)

(* DELETE /api/documents/:id and the MCP delete tool.                      *)
ArriveDelete(r) ==
    \E u \in Users, kind \in {"delete", "agent_delete"} :
        /\ Arrive(r, kind, "body")
        /\ Send(r, kind, u, 0, req[r].content, FALSE)

-----------------------------------------------------------------------------
(* What handlers read before the shared write path.                        *)

(* Mutant: allowDraft alone decides, whatever the status is.               *)
ReadStatusOptsInAlways(r) ==
    /\ pc[r] = "status"
    /\ Goto(r, "preflight")
    /\ req' = [req EXCEPT ![r].allow = row.live, ![r].seen = Current]
    /\ Unchanged

(* PUT with allowDraft: only a draft is opted into.                        *)
ReadStatus(r) ==
    /\ pc[r] = "status"
    /\ Goto(r, "preflight")
    /\ req' = [req EXCEPT
                 ![r].allow = row.live /\ row.status = "draft",
                 ![r].seen = IF row.live THEN Current ELSE 0]
    /\ Unchanged

(* The other handlers read the row and the body of its current revision    *)
(* (a revision's body never changes, so the two reads are one).            *)
ReadBody(r, kinds) ==
    /\ pc[r] = "body"
    /\ req[r].kind \in kinds
    /\ row.live
    /\ Unchanged

BodyMissing(r) ==
    /\ pc[r] = "body"
    /\ ~row.live
    /\ Answer(r, "not_found")
    /\ Unchanged

Prepared(r, base, content, allow, label) ==
    /\ Goto(r, label)
    /\ req' = [req EXCEPT ![r] =
                 [@ EXCEPT !.base = base, !.content = content,
                           !.allow = allow, !.seen = Current]]

ReadForSplice(r) ==
    /\ ReadBody(r, {"splice"})
    /\ Prepared(r, req[r].base,
                [CurrentContent EXCEPT !.text = req[r].content.text],
                req[r].allowDraft /\ row.status = "draft", "preflight")

ReadForAppend(r) ==
    /\ ReadBody(r, {"append"})
    /\ Prepared(r, Current,
                [CurrentContent EXCEPT !.text = req[r].content.text],
                FALSE, "preflight")

(* The same content is skipped.  Without a base, the current version is it. *)
ReadForUpsert(r) ==
    /\ ReadBody(r, {"upsert"})
    /\ IF Refusal(req[r].user, "editor") # "none"
         THEN Answer(r, Refusal(req[r].user, "editor"))
       ELSE IF row.checksum = req[r].content
         THEN Answer(r, "noop")
       ELSE Prepared(r, IF req[r].base = 0 THEN Current ELSE req[r].base,
                     req[r].content,
                     req[r].allowDraft /\ row.status = "draft", "preflight")

ReadForPromote(r) ==
    /\ ReadBody(r, {"promote"})
    /\ IF Refusal(req[r].user, "editor") # "none"
         THEN Answer(r, Refusal(req[r].user, "editor"))
       ELSE IF row.status = "canonical"
         THEN Answer(r, "noop")
       ELSE Prepared(r, Current,
                     [CurrentContent EXCEPT !.status = "canonical"],
                     TRUE, "preflight")

ReadForFinalize(r) ==
    /\ ReadBody(r, {"finalize"})
    /\ IF Refusal(req[r].user, "editor") # "none"
         THEN Answer(r, Refusal(req[r].user, "editor"))
       ELSE IF Current # req[r].base
         THEN Answer(r, "conflict")
       ELSE IF row.status = "superseded"
         THEN Answer(r, "not_ready")
       ELSE Prepared(r, req[r].base,
                     [text |-> req[r].content.text, status |-> "canonical"],
                     row.status = "draft", "comments")

(* The blockers of a plan: an unresolved comment is one of them.           *)
ReadComments(r) ==
    /\ pc[r] = "comments"
    /\ Unchanged
    /\ IF comments
         THEN Answer(r, "not_ready")
         ELSE Goto(r, "preflight") /\ UNCHANGED req

(* The revision to restore is read before the lock.                        *)
ReadForRestore(r) ==
    /\ ReadBody(r, {"restore"})
    /\ IF Refusal(req[r].user, "manager") # "none"
         THEN Answer(r, Refusal(req[r].user, "manager"))
         ELSE Prepared(r, AnyVersion, revs[req[r].base].checksum, FALSE,
                       "locking")

ReadForDelete(r) ==
    /\ ReadBody(r, {"delete", "agent_delete"})
    /\ IF Refusal(req[r].user, "manager") # "none"
         THEN Answer(r, Refusal(req[r].user, "manager"))
         ELSE Goto(r, "locking") /\ UNCHANGED req

-----------------------------------------------------------------------------
(* applyDocumentWrite: the preflight, then the transaction.                *)

(* Mutant: the document's status is returned in place of the refusal.      *)
PreflightVerdictIsStatus(r) ==
    IF Refusal(req[r].user, "editor") # "none"
      THEN Refusal(req[r].user, "editor")
    ELSE IF ~req[r].allow /\ row.status # "canonical"
      THEN row.status
    ELSE IF Current # req[r].base
      THEN "conflict"
    ELSE "none"

(* Mutant: a document that is not canonical is answered as a conflict, the *)
(* other 409.                                                              *)
PreflightVerdictConfuses409(r) ==
    IF Refusal(req[r].user, "editor") # "none"
      THEN Refusal(req[r].user, "editor")
    ELSE IF (~req[r].allow /\ row.status # "canonical") \/ Current # req[r].base
      THEN "conflict"
    ELSE "none"

(* Why the preflight refuses, "none" when it does not.                     *)
PreflightVerdict(r) ==
    IF Refusal(req[r].user, "editor") # "none"
      THEN Refusal(req[r].user, "editor")
    ELSE IF ~req[r].allow /\ row.status # "canonical"
      THEN "not_canonical"
    ELSE IF Current # req[r].base
      THEN "conflict"
    ELSE "none"

(* Mutant: the preflight takes the version it finds as the base.           *)
PreflightRefreshesBase(r) ==
    /\ pc[r] = "preflight"
    /\ Unchanged
    /\ IF PreflightVerdict(r) \notin {"none", "conflict"}
         THEN Answer(r, PreflightVerdict(r))
         ELSE Goto(r, "locking") /\ req' = [req EXCEPT ![r].base = Current]

Preflight(r) ==
    /\ pc[r] = "preflight"
    /\ Unchanged
    /\ IF PreflightVerdict(r) # "none"
         THEN Answer(r, PreflightVerdict(r))
         ELSE Goto(r, "locking") /\ UNCHANGED req

(* Mutant: the base is not checked again under the lock.                   *)
TxVerdictTrustsPreflight(r) ==
    LET needed == IF req[r].kind = "restore" THEN "manager" ELSE "editor"
    IN  IF Refusal(req[r].user, needed) # "none"
          THEN Refusal(req[r].user, needed)
        ELSE IF row.checksum = req[r].content
          THEN "noop"
        ELSE "none"

(* What a transaction decides once it holds the row lock and has read the  *)
(* document, the role and the base again.  The MCP delete tool does not    *)
(* read the role again.                                                    *)
TxVerdict(r) ==
    LET kind == req[r].kind
        needed == IF kind \in {"restore", "delete"} THEN "manager" ELSE "editor"
    IN  IF kind = "agent_delete"
          THEN IF row.live THEN "none" ELSE "not_found"
        ELSE IF Refusal(req[r].user, needed) # "none"
          THEN Refusal(req[r].user, needed)
        ELSE IF kind \in {"restore", "delete"}
          THEN "none"
        ELSE IF Current # req[r].base
          THEN "conflict"
        ELSE IF row.checksum = req[r].content
          THEN "noop"
        ELSE "none"

(* A request that is refused, or whose content is already there, ends its  *)
(* transaction at once.                                                    *)
TxBegin(r) ==
    /\ pc[r] = "locking"
    /\ lock = NoRequest
    /\ IF TxVerdict(r) # "none"
         THEN Answer(r, TxVerdict(r)) /\ UNCHANGED lock
         ELSE /\ lock' = r
              /\ Goto(r, "commit")
              /\ req' = [req EXCEPT ![r].max = Len(revs)]
    /\ UNCHANGED <<row, revs, role, comments>>

(* Mutant: the group of a save is always the revision before it.           *)
BurstGroupIsPrevious(r, source, quick) ==
    LET prev == revs[Len(revs)]
    IN  IF /\ source # "system" /\ quick
           /\ prev.number > 1 /\ ~prev.marked
           /\ prev.user = req[r].user /\ prev.source = source
        THEN Len(revs)
        ELSE 0

(* revisionGroupIdForWrite: saves of one user from one source in quick     *)
(* succession share the id of the first of them.  quick: the previous      *)
(* revision is younger than the burst window.                              *)
BurstGroup(r, source, quick) ==
    LET prev == revs[Len(revs)]
    IN  IF /\ source # "system"
           /\ prev.number > 1
           /\ ~prev.marked
           /\ prev.user = req[r].user
           /\ prev.source = source
           /\ quick
        THEN IF prev.group # 0 THEN prev.group ELSE Len(revs)
        ELSE 0

NewRevision(r, source, quick) ==
    [number |-> req[r].max + 1, checksum |-> req[r].content,
     user |-> req[r].user, source |-> source,
     group |-> BurstGroup(r, source, quick),
     marked |-> req[r].kind = "restore", by |-> req[r].kind,
     base |-> req[r].base, seen |-> req[r].seen,
     optIn |-> req[r].allow, openComments |-> comments]

(* Mutant: a restore forgets the status of the content it restores.        *)
RowPointingToNewestKeepsStatus(r) ==
    [row EXCEPT !.current = Len(revs) + 1,
                !.checksum = req[r].content,
                !.status = IF req[r].kind = "restore" THEN @
                           ELSE req[r].content.status]

RowPointingToNewest(r) ==
    [row EXCEPT !.current = Len(revs) + 1,
                !.checksum = req[r].content,
                !.status = req[r].content.status]

(* The revision is inserted, the row points to it, the lock is released.   *)
TxCommit(r) ==
    /\ pc[r] = "commit"
    /\ req[r].kind \notin {"delete", "agent_delete"}
    /\ \E source \in SourcesOf(req[r].kind), quick \in BOOLEAN :
         revs' = Append(revs, NewRevision(r, source, quick))
    /\ row' = RowPointingToNewest(r)
    /\ lock' = NoRequest
    /\ Goto(r, "done")
    /\ req' = [req EXCEPT ![r] =
                 [@ EXCEPT !.outcome = "ok", !.version = Len(revs) + 1]]
    /\ UNCHANGED <<role, comments>>

TxDelete(r) ==
    /\ pc[r] = "commit"
    /\ req[r].kind \in {"delete", "agent_delete"}
    /\ row' = [row EXCEPT !.live = FALSE]
    /\ lock' = NoRequest
    /\ Answer(r, "deleted")
    /\ UNCHANGED <<revs, role, comments>>

(* Mutant: the revision is inserted outside the transaction.               *)
TxRollbackKeepsRevision(r) ==
    /\ pc[r] = "commit"
    /\ lock' = NoRequest
    /\ Answer(r, "failed")
    /\ \E source \in SourcesOf(req[r].kind) :
         revs' = Append(revs, NewRevision(r, source, FALSE))
    /\ UNCHANGED <<row, role, comments>>

(* Mutant: a failed transaction is never closed.                           *)
TxRollbackKeepsLock(r) ==
    /\ pc[r] = "commit"
    /\ Answer(r, "failed")
    /\ UNCHANGED <<row, revs, role, comments, lock>>

(* The connection fails or a statement raises: the transaction rolls back. *)
TxRollback(r) ==
    /\ pc[r] = "commit"
    /\ lock' = NoRequest
    /\ Answer(r, "failed")
    /\ UNCHANGED <<row, revs, role, comments>>

-----------------------------------------------------------------------------
(* What changes beside the requests, without a lock on the row.            *)

ChangeRole ==
    /\ \E u \in Users, newRole \in Roles : role' = [role EXCEPT ![u] = newRole]
    /\ UNCHANGED <<row, revs, comments, lock, pc, req>>

AddComment ==
    /\ row.live
    /\ comments' = TRUE
    /\ UNCHANGED <<row, revs, role, lock, pc, req>>

ResolveComment ==
    /\ comments' = FALSE
    /\ UNCHANGED <<row, revs, role, lock, pc, req>>

(* PATCH of a revision: it gets or loses its label or pin.                 *)
MarkRevision ==
    /\ row.live
    /\ \E i \in DOMAIN revs, m \in BOOLEAN :
          /\ revs[i].by # "restore"
          /\ revs' = [revs EXCEPT ![i].marked = m]
    /\ UNCHANGED <<row, role, comments, lock, pc, req>>

-----------------------------------------------------------------------------
ArriveAny(r) ==
    \/ ArrivePut(r) \/ ArrivePush(r) \/ ArriveSplice(r) \/ ArriveAppend(r)
    \/ ArriveUpsert(r) \/ ArrivePromote(r) \/ ArriveFinalize(r)
    \/ ArriveRestore(r) \/ ArriveDelete(r)

Handle(r) ==
    \/ ReadStatus(r) \/ BodyMissing(r) \/ ReadForSplice(r) \/ ReadForAppend(r)
    \/ ReadForUpsert(r) \/ ReadForPromote(r) \/ ReadForFinalize(r)
    \/ ReadForRestore(r) \/ ReadForDelete(r) \/ ReadComments(r) \/ Preflight(r) \/ TxBegin(r) \/ TxCommit(r)
    \/ TxDelete(r) \/ TxRollback(r)

Environment == ChangeRole \/ AddComment \/ ResolveComment \/ MarkRevision

Next == Environment \/ \E r \in Requests : ArriveAny(r) \/ Handle(r)

Spec == Init /\ [][Next]_vars

(* Node's event loop runs every handler on, a transaction ends, and the    *)
(* row lock it frees goes to a transaction that waits for it.              *)
Fairness == \A r \in Requests : WF_vars(Handle(r))

FairSpec == Spec /\ Fairness
-----------------------------------------------------------------------------
(* Properties.                                                             *)

ByWrite == AllKinds \ {"restore", "delete", "agent_delete"}

(* No lost update: a revision written over a base replaces exactly that    *)
(* base, however many requests raced between the client's read and the     *)
(* commit (the baseVersion check of applyDocumentWrite under the lock).    *)
HistoryIsLinear ==
    \A i \in DOMAIN revs : revs[i].by \in ByWrite => revs[i].base = i - 1

(* Content the server computed from a body it read (section, decision,     *)
(* append, promote, finalize) was computed from the very version it        *)
(* replaced: the body is read without a lock, but the base pins it.        *)
DerivedFromPredecessor ==
    \A i \in DOMAIN revs :
        revs[i].by \in DerivedKinds =>
            /\ revs[i].seen = i - 1
            /\ revs[i].by = "promote" =>
                 revs[i].checksum.text = revs[i - 1].checksum.text

(* A superseded version is replaced by no write but a promotion (or a      *)
(* restore), and a draft only by a writer that opted in: allowDraft is     *)
(* evaluated on a status read before the preflight, and must not outlive   *)
(* the draft.                                                              *)
OptInOnlyForDrafts ==
    \A i \in DOMAIN revs :
        revs[i].by \in ByWrite \ {"promote"} =>
            \/ revs[i - 1].checksum.status = "canonical"
            \/ revs[i - 1].checksum.status = "draft" /\ revs[i].optIn

(* Version numbers, allocated as max + 1 under the row lock, have neither  *)
(* gaps nor duplicates (a duplicate would be a unique violation, a 500).   *)
VersionsContiguous == \A i \in DOMAIN revs : revs[i].number = i

(* currentVersionId, currentChecksum and status denote the newest revision *)
(* between any two steps: readers and the no-op check rely on them.        *)
RowReflectsHead ==
    /\ row.current = Len(revs)
    /\ row.checksum = revs[Len(revs)].checksum
    /\ row.status = revs[Len(revs)].checksum.status

(* A group of quick saves is a contiguous run of revisions of one user     *)
(* from one source, headed by the revision whose id it carries.            *)
BurstGroupsAreContiguous ==
    \A i \in DOMAIN revs :
        LET g == revs[i].group
        IN  g # 0 =>
              /\ 1 < g /\ g < i
              /\ revs[g].group = 0
              /\ \A j \in g + 1 .. i : revs[j].group = g
              /\ \A j \in g .. i : /\ revs[j].user = revs[i].user
                                   /\ revs[j].source = revs[i].source

(* A request is told "ok" exactly for the revision it inserted, and every  *)
(* revision after the first was inserted by exactly one answered request:  *)
(* a client never retries a write that took place, or loses one that did.  *)
AnswersMatchRevisions ==
    /\ \A r \in Requests : req[r].outcome = "ok" =>
          /\ req[r].version \in DOMAIN revs
          /\ LET rev == revs[req[r].version]
             IN  /\ rev.checksum = req[r].content
                 /\ rev.user = req[r].user
                 /\ rev.by = req[r].kind
    /\ \A i \in DOMAIN revs : i > 1 =>
          \E r \in Requests :
             /\ req[r].outcome = "ok" /\ req[r].version = i
             /\ \A q \in Requests \ {r} :
                   ~(req[q].outcome = "ok" /\ req[q].version = i)

(* Every request is answered: the row lock is always given back.           *)
EveryRequestAnswered ==
    \A r \in Requests : pc[r] # "idle" ~> pc[r] = "done"

(* A plan is finalized only without unresolved comments, what the tool and *)
(* the integration test of finalize-plan say.  The code reads the comments *)
(* before the transaction.                                                 *)
FinalizedPlanHasNoOpenComments ==
    \A i \in DOMAIN revs : revs[i].by = "finalize" => ~revs[i].openComments

(* The versions as the clients of the API see them.                        *)
Told(r) ==
    CASE req[r].outcome = "none" -> <<"none", 0>>
      [] req[r].outcome = "ok" -> <<"saved", req[r].version>>
      [] req[r].outcome \in {"noop"} -> <<"kept", 0>>
      [] req[r].outcome \in {"conflict", "deleted"} -> <<req[r].outcome, 0>>
      [] OTHER -> <<"refused", 0>>

API == INSTANCE VersionedDocument WITH
    Clients <- Requests,
    hist <- [i \in DOMAIN revs |-> revs[i].checksum],
    alive <- row.live,
    want <- [r \in Requests |->
               IF req[r].kind = "restore" THEN AnyVersion ELSE req[r].base],
    answer <- [r \in Requests |-> Told(r)]

(* The write path implements the versioned document its clients rely on.   *)
ImplementsVersionedDocument == API!Spec

-----------------------------------------------------------------------------
(* What keeps the properties true: the inductive invariant of the proofs.  *)

PreparedPCs == {"comments", "preflight", "locking", "commit"}

(* The row always has a revision to point to.                              *)
HeadExists == Len(revs) >= 1 /\ revs[1].by = "create" /\ RowReflectsHead

(* The transaction that holds the row lock is the one about to commit, and *)
(* what it has read under the lock is still so.                            *)
LockProtects ==
    \A r \in Requests :
        /\ pc[r] = "commit" <=> lock = r
        /\ pc[r] = "commit" =>
             /\ row.live
             /\ req[r].max = Len(revs)
             /\ req[r].kind \in ByWrite => req[r].base = Len(revs)

(* The rest is said of one request q that has got to label p.              *)

(* Which handlers are where, and no opt-in is granted before a status has  *)
(* been read.                                                              *)
InPlace(p, q) ==
    /\ p \in {"idle", "status", "body"} => ~q.allow
    /\ p = "status" => q.kind = "put"
    /\ p = "comments" => q.kind = "finalize"
    /\ p = "preflight" => q.kind \in ByWrite
    /\ q.kind \in {"push", "append"} => ~q.allow

(* A base that is named is the number of a revision.                       *)
BaseExists(p, q) ==
    /\ p = "status" => q.base \in DOMAIN revs
    /\ p = "body" /\ q.kind \in {"splice", "finalize", "restore"}
         => q.base \in DOMAIN revs
    /\ p = "body" /\ q.kind = "upsert" => q.base \in {0} \cup DOMAIN revs
    /\ p \in PreparedPCs /\ q.kind \in ByWrite => q.base \in DOMAIN revs

(* A request that derived its content read a version no older than its     *)
(* base; when the base is still current under the lock, they are the same. *)
BodyIsSeen(p, q) ==
    p \in PreparedPCs /\ q.kind \in DerivedKinds =>
        /\ q.seen \in DOMAIN revs
        /\ q.base <= q.seen
        /\ q.kind = "promote" =>
             q.content.text = revs[q.seen].checksum.text

(* An opt-in was granted for a draft no older than the base, and a request *)
(* without one has a canonical base once it is past its preflight.         *)
OptInIsSeen(p, q) ==
    q.kind \in ByWrite \ {"promote"} =>
        /\ p \in PreparedPCs /\ q.allow =>
             /\ q.seen \in DOMAIN revs
             /\ q.base <= q.seen
             /\ revs[q.seen].checksum.status = "draft"
        /\ p \in {"locking", "commit"} /\ ~q.allow =>
             revs[q.base].checksum.status = "canonical"

RequestOK(p, q) ==
    InPlace(p, q) /\ BaseExists(p, q) /\ BodyIsSeen(p, q) /\ OptInIsSeen(p, q)

RequestsOK == \A r \in Requests : RequestOK(pc[r], req[r])

(* The properties of the chain of revisions.                               *)
ChainOK ==
    /\ VersionsContiguous
    /\ HistoryIsLinear
    /\ DerivedFromPredecessor
    /\ OptInOnlyForDrafts

(* The inductive invariant: the versions stay a gapless chain because the  *)
(* lock holder's reads cannot go stale, and stale reads before the lock    *)
(* are caught by the base.                                                 *)
IInv == TypeOK /\ HeadExists /\ LockProtects /\ RequestsOK /\ ChainOK
(* What the answers rest on: nobody is answered before being done, and no  *)
(* base is named before the handler has one.                               *)
Asking ==
    \A r \in Requests :
        /\ req[r].outcome # "none" => pc[r] = "done"
        /\ pc[r] = "idle" => req[r].base = 0 /\ req[r].kind # "restore"
        /\ pc[r] = "body" /\ req[r].kind \in {"append", "promote", "delete", "agent_delete"}
             => req[r].base = 0

HistoryInv == Asking /\ AnswersMatchRevisions /\ BurstGroupsAreContiguous
=============================================================================
