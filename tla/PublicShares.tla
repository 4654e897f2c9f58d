---------------------------- MODULE PublicShares ----------------------------
(***************************************************************************)
(* Public links to documents and to folders ("manuals"), the switch that   *)
(* turns them off for a workspace, and the visitors who follow them while  *)
(* members edit, move, delete and transfer what is shared.                 *)
(*                                                                         *)
(* A visit is a sequence of separate reads: the share's row, the           *)
(* workspace's switch, then the document, or the folder and after it the   *)
(* documents whose path lies under the folder's.                           *)
(***************************************************************************)
EXTENDS Naturals, FiniteSets, Sequences, SequencesExt

CONSTANTS
    Folders, Docs, Workspaces, Users,
    Requests,
    Visitors,     \* the requests that are visits
    Ops,          \* the operations of an instance
    Tree,         \* the folders at first: [ws, live, path]
    Placed,       \* the documents at first: [ws, folder, live, canonical]
    Given,        \* the shares there are at first
    MaxShares     \* bound on the rows of DocumentShare

VARIABLES
    folder, document,
    sharing,      \* publicSharingEnabled of each workspace
    share,        \* the DocumentShare rows, in the order of their creation
    role,         \* what the resolvers give each user on all of this
    request,
    bars          \* what has kept each document hidden ever since a visit began

vars == <<folder, document, sharing, share, role, request, bars>>
env == <<folder, document, sharing, role>>

Roles == 0..3     \* none, viewer, editor, manager
Manager == 3

ShareRow == [ws : Workspaces, target : Folders \cup Docs, author : Users,
             secret : BOOLEAN, revoked : BOOLEAN, expired : BOOLEAN]

Idle == [at |-> "idle", op |-> "none", user |-> "none", share |-> 0, target |-> "none",
         ws |-> "none", path |-> << >>, shown |-> {}, answer |-> "none"]

Ids == 1..Len(share)

-----------------------------------------------------------------------------
(* What is read.                                                           *)

Open(s) == ~s.revoked /\ ~s.expired

Row(x) == IF x \in Docs THEN document[x] ELSE folder[x]

Canonical(d) == document[d].live /\ document[d].canonical

Under(path, root) == IsPrefix(root, path)

(* A bug: documents of whatever workspace are in the manual.               *)
ManualDocsAnywhere(ws, root) ==
    {d \in Docs : Canonical(d) /\ Under(folder[document[d].folder].path, root)}

(* The documents of a manual: those of the share's workspace whose folder  *)
(* has the path read of the root, or one that starts with it.              *)
ManualDocs(ws, root) ==
    {d \in Docs : /\ Canonical(d) /\ document[d].ws = ws
                  /\ folder[document[d].folder].live
                  /\ Under(folder[document[d].folder].path, root)}

-----------------------------------------------------------------------------
Init ==
    /\ folder = Tree
    /\ document = Placed
    /\ sharing = [w \in Workspaces |-> TRUE]
    /\ share = Given
    /\ role = [u \in Users |-> Manager]
    /\ request = [r \in Requests |-> Idle]
    /\ bars = [r \in Requests |-> [d \in Docs |-> {}]]

At(r, at) == request[r].at = at
Answer(r, a) == request' = [request EXCEPT ![r].at = "done", ![r].answer = a]

(* POST .../share: the target must be live, its workspace must allow       *)
(* sharing, and the user must manage it.                                   *)
CreateCheck(r, u, x) ==
    LET ok == Row(x).live /\ sharing[Row(x).ws] /\ role[u] >= Manager IN
    /\ At(r, "idle") /\ "create" \in Ops
    /\ request' = [request EXCEPT ![r] =
         [Idle EXCEPT !.op = "create", !.user = u, !.target = x, !.ws = Row(x).ws,
                      !.at = IF ok THEN "create" ELSE "done", !.answer = "refused"]]
    /\ UNCHANGED <<env, share>>

CreateShare(r, secret) ==
    /\ At(r, "create") /\ Len(share) < MaxShares
    /\ share' = Append(share, [ws |-> request[r].ws, target |-> request[r].target,
                               author |-> request[r].user, secret |-> secret,
                               revoked |-> FALSE, expired |-> FALSE])
    /\ Answer(r, "ok")
    /\ UNCHANGED env

(* DELETE /api/shares/:id: its author, or who manages the target; a share  *)
(* whose target is gone gives no role, so it cannot be revoked.            *)
RevokeCheck(r, u, i) ==
    LET may == /\ Row(share[i].target).live /\ role[u] > 0
               /\ share[i].author = u \/ role[u] >= Manager IN
    /\ At(r, "idle") /\ "revoke" \in Ops
    /\ request' = [request EXCEPT ![r] =
         [Idle EXCEPT !.op = "revoke", !.user = u, !.share = i,
                      !.at = IF may /\ ~share[i].revoked THEN "revoke" ELSE "done",
                      !.answer = IF may THEN "ok" ELSE "refused"]]
    /\ UNCHANGED <<env, share>>

RevokeShare(r) ==
    /\ At(r, "revoke")
    /\ share' = [share EXCEPT ![request[r].share].revoked = TRUE]
    /\ Answer(r, "ok")
    /\ UNCHANGED env

-----------------------------------------------------------------------------
(* Visits, through GET /api/public/shares/:slug, .../page and              *)
(* .../attachments/:id.                                                    *)

VisitKinds == {"view", "page", "attachment"}

(* resolveValidShare, first read: an unknown, revoked or expired link.     *)
Visit(r, kind, i, d) ==
    /\ At(r, "idle") /\ "visit" \in Ops
    /\ request' = [request EXCEPT ![r] =
         [Idle EXCEPT !.op = kind, !.share = i, !.target = d, !.ws = share[i].ws,
                      !.at = IF Open(share[i]) THEN "switch" ELSE "done",
                      !.answer = "not_found"]]
    /\ UNCHANGED <<env, share>>

(* A bug: the switch is not looked at once a link has been created.        *)
CheckSwitchNever(r, password) ==
    /\ At(r, "switch")
    /\ request' = [request EXCEPT ![r].at =
         IF share[request[r].share].target \in Docs THEN "document" ELSE "root"]
    /\ UNCHANGED <<env, share>>

(* ... second read: the workspace's switch, and the password.              *)
CheckSwitch(r, password) ==
    LET s == share[request[r].share]
        next == CASE request[r].op = "attachment" -> "attachment"
                  [] s.target \in Docs /\ request[r].op = "view" -> "document"
                  [] s.target \in Folders -> "root"
                  [] OTHER -> "not_found" IN
    /\ At(r, "switch")
    /\ CASE ~sharing[request[r].ws] -> Answer(r, "not_found")
         [] s.secret /\ password = "none" -> Answer(r, "password_required")
         [] s.secret /\ password = "wrong" -> Answer(r, "wrong_password")
         [] next = "not_found" -> Answer(r, "not_found")
         [] OTHER -> request' = [request EXCEPT ![r].at = next]
    /\ UNCHANGED <<env, share>>

Show(r, docs) ==
    request' = [request EXCEPT ![r].at = "done", ![r].answer = "ok", ![r].shown = docs]

VisitDocument(r) ==
    LET d == share[request[r].share].target IN
    /\ At(r, "document")
    /\ IF Canonical(d) THEN Show(r, {d}) ELSE Answer(r, "not_found")
    /\ UNCHANGED <<env, share>>

VisitRoot(r) ==
    LET f == share[request[r].share].target IN
    /\ At(r, "root")
    /\ IF folder[f].live
       THEN request' = [request EXCEPT ![r].at = "manual", ![r].path = folder[f].path]
       ELSE Answer(r, "not_found")
    /\ UNCHANGED <<env, share>>

(* A view shows the titles of all the manual's documents, and the content  *)
(* of one; a page shows one, when it is among them.                        *)
VisitManual(r) ==
    LET docs == ManualDocs(request[r].ws, request[r].path) IN
    /\ At(r, "manual")
    /\ CASE request[r].op = "view" -> Show(r, docs)
         [] request[r].target \in docs -> Show(r, {request[r].target})
         [] OTHER -> Answer(r, "not_found")
    /\ UNCHANGED <<env, share>>

(* A ready attachment of a canonical document of the share's workspace:    *)
(* the shared document, or one under the shared folder, whose path is read *)
(* after the document's.                                                   *)
VisitAttachment(r) ==
    LET d == request[r].target
        x == share[request[r].share].target
        ready == Canonical(d) /\ document[d].ws = request[r].ws /\ folder[document[d].folder].live IN
    /\ At(r, "attachment")
    /\ CASE ready /\ x = d -> Show(r, {d})
         [] ready /\ x \in Folders ->
              request' = [request EXCEPT ![r].at = "attachmentRoot",
                                         ![r].path = folder[document[d].folder].path]
         [] OTHER -> Answer(r, "not_found")
    /\ UNCHANGED <<env, share>>

VisitAttachmentRoot(r) ==
    LET x == share[request[r].share].target IN
    /\ At(r, "attachmentRoot")
    /\ IF folder[x].live /\ Under(request[r].path, folder[x].path)
       THEN Show(r, {request[r].target}) ELSE Answer(r, "not_found")
    /\ UNCHANGED <<env, share>>

-----------------------------------------------------------------------------
(* What happens meanwhile.                                                 *)

Expire(i) ==
    /\ "expire" \in Ops /\ ~share[i].expired
    /\ share' = [share EXCEPT ![i].expired = TRUE]
    /\ UNCHANGED <<env, request>>

(* PUT /api/workspaces/:id/settings/public-sharing, by an admin.           *)
SetSharing(w) ==
    /\ "switch" \in Ops
    /\ sharing' = [sharing EXCEPT ![w] = ~@]
    /\ UNCHANGED <<folder, document, role, share, request>>

SetStatus(d) ==
    /\ "status" \in Ops /\ document[d].live
    /\ document' = [document EXCEPT ![d].canonical = ~@]
    /\ UNCHANGED <<folder, sharing, role, share, request>>

MoveDocument(d, f) ==
    /\ "move" \in Ops /\ document[d].live /\ folder[f].live
    /\ folder[f].ws = document[d].ws /\ f # document[d].folder
    /\ document' = [document EXCEPT ![d].folder = f]
    /\ UNCHANGED <<folder, sharing, role, share, request>>

DeleteDocument(d) ==
    /\ "delete" \in Ops /\ document[d].live
    /\ document' = [document EXCEPT ![d].live = FALSE]
    /\ UNCHANGED <<folder, sharing, role, share, request>>

(* A folder is deleted when nothing in it is live.                         *)
DeleteFolder(f) ==
    /\ "delete" \in Ops /\ folder[f].live
    /\ \A d \in Docs : document[d].live => document[d].folder # f
    /\ \A g \in Folders \ {f} : folder[g].live /\ folder[g].ws = folder[f].ws
                                => ~Under(folder[g].path, folder[f].path)
    /\ folder' = [folder EXCEPT ![f].live = FALSE]
    /\ UNCHANGED <<document, sharing, role, share, request>>

(* A bug: the shares of the document stay where they are.                  *)
TransferLeavesShares(d, f) ==
    /\ "transfer" \in Ops /\ document[d].live /\ folder[f].live
    /\ folder[f].ws # document[d].ws
    /\ document' = [document EXCEPT ![d].folder = f, ![d].ws = folder[f].ws]
    /\ UNCHANGED <<folder, sharing, role, share, request>>

(* A document's transfer takes its shares along.                           *)
TransferDocument(d, f) ==
    /\ "transfer" \in Ops /\ document[d].live /\ folder[f].live
    /\ folder[f].ws # document[d].ws
    /\ document' = [document EXCEPT ![d].folder = f, ![d].ws = folder[f].ws]
    /\ share' = [i \in Ids |-> IF share[i].target = d THEN [share[i] EXCEPT !.ws = folder[f].ws]
                               ELSE share[i]]
    /\ UNCHANGED <<folder, sharing, role, request>>

(* A folder's transfer, to the root of another workspace where no folder   *)
(* has its path, takes its folders, its documents and the documents'       *)
(* shares along; the shares of folders stay behind.                        *)
Inside(f) == {g \in Folders : folder[g].ws = folder[f].ws /\ Under(folder[g].path, folder[f].path)}

TransferFolder(f, w) ==
    LET moved == Inside(f)
        docs == {d \in Docs : document[d].folder \in moved}
        at(p) == <<Last(folder[f].path)>> \o SubSeq(p, Len(folder[f].path) + 1, Len(p)) IN
    /\ "transferFolder" \in Ops /\ folder[f].live /\ w # folder[f].ws
    /\ \A g \in Folders : folder[g].live /\ folder[g].ws = w => folder[g].path # at(folder[f].path)
    /\ folder' = [g \in Folders |-> IF g \in moved THEN [folder[g] EXCEPT !.ws = w, !.path = at(@)]
                                    ELSE folder[g]]
    /\ document' = [d \in Docs |-> IF d \in docs THEN [document[d] EXCEPT !.ws = w] ELSE document[d]]
    /\ share' = [i \in Ids |-> IF share[i].target \in docs THEN [share[i] EXCEPT !.ws = w] ELSE share[i]]
    /\ UNCHANGED <<sharing, role, request>>

GrantChanges(u, rl) ==
    /\ "grant" \in Ops /\ role[u] # rl
    /\ role' = [role EXCEPT ![u] = rl]
    /\ UNCHANGED <<folder, document, sharing, share, request>>

-----------------------------------------------------------------------------
(* Why a document is hidden from a visitor of a link.                      *)

WithinTarget(i, d) ==
    LET x == share[i].target IN
    IF x \in Docs THEN d = x
    ELSE folder[x].live /\ folder[x].ws = document[d].ws
         /\ Under(folder[document[d].folder].path, folder[x].path)

Reasons == {"closed", "draft", "outside"} \cup Workspaces

Bars(i, d) ==
    {b \in Reasons :
       CASE b = "closed" -> ~Open(share[i])
         [] b = "draft" -> ~Canonical(d)
         [] b = "outside" -> ~WithinTarget(i, d)
         [] OTHER -> document[d].ws = b /\ ~sharing[b]}

Visiting(r) == request[r].share # 0 /\ request[r].op \in VisitKinds

VisitBars(r) == [d \in Docs |-> Bars(request[r].share, d)]

(* Whatever has held ever since the visit began goes on being remembered,  *)
(* until the visit is answered.                                            *)
Watch ==
    bars' = [r \in Requests |->
        IF Visiting(r)' /\ request[r].at # "done"
        THEN IF request[r].at = "idle" THEN VisitBars(r)'
             ELSE [d \in Docs |-> bars[r][d] \cap VisitBars(r)'[d]]
        ELSE bars[r]]

Manage(r) ==
    \/ \E u \in Users : \E x \in Folders \cup Docs : CreateCheck(r, u, x)
    \/ \E u \in Users : \E i \in Ids : RevokeCheck(r, u, i)
    \/ \E secret \in BOOLEAN : CreateShare(r, secret)
    \/ RevokeShare(r)

FollowLink(r) ==
    \/ \E kind \in VisitKinds : \E i \in Ids : \E d \in Docs : Visit(r, kind, i, d)
    \/ \E password \in {"none", "wrong", "right"} : CheckSwitch(r, password)
    \/ VisitDocument(r) \/ VisitRoot(r) \/ VisitManual(r)
    \/ VisitAttachment(r) \/ VisitAttachmentRoot(r)

Environment ==
    \/ \E i \in Ids : Expire(i)
    \/ \E w \in Workspaces : SetSharing(w) \/ \E f \in Folders : TransferFolder(f, w)
    \/ \E f \in Folders : DeleteFolder(f)
    \/ \E d \in Docs : SetStatus(d) \/ DeleteDocument(d)
    \/ \E d \in Docs : \E f \in Folders : MoveDocument(d, f) \/ TransferDocument(d, f)
    \/ \E u \in Users : \E rl \in Roles : GrantChanges(u, rl)

Next ==
    /\ \/ \E r \in Requests \ Visitors : Manage(r)
       \/ \E r \in Visitors : FollowLink(r)
       \/ Environment
    /\ Watch

Spec == Init /\ [][Next]_vars

-----------------------------------------------------------------------------
(* Properties.                                                             *)

(* The rows keep their types.                                              *)
TypeOK ==
    /\ \A f \in Folders : folder[f].ws \in Workspaces /\ folder[f].live \in BOOLEAN
    /\ document \in [Docs -> [ws : Workspaces, folder : Folders, live : BOOLEAN,
                              canonical : BOOLEAN]]
    /\ sharing \in [Workspaces -> BOOLEAN]
    /\ share \in Seq(ShareRow)
    /\ \A r \in Requests : request[r].shown \subseteq Docs

(* A visitor is shown a document only when, in the course of the visit,    *)
(* the link was neither revoked nor expired, the document's workspace      *)
(* allowed sharing (or the document came from another), the document was   *)
(* canonical, and it was the target or lay under it: each at some moment,  *)
(* since the reads are separate.  What a link revoked before the visit, a  *)
(* switch turned off before it or a draft hides is not shown               *)
(* (shares.ts:271).                                                        *)
NothingHiddenIsShown ==
    \A r \in Requests : \A d \in request[r].shown : bars[r][d] = {}

(* What is shown was hidden, if at all, only in that it lay outside what   *)
(* the link leads to: transfers of folders leave their links behind        *)
(* (workspace-transfer.ts:65), and still no draft, no ended link and no    *)
(* switch is passed over.                                                  *)
HiddenByPlaceOnly ==
    \A r \in Requests : \A d \in request[r].shown : bars[r][d] \subseteq {"outside"}

(* A manual shows only documents of its own subtree, whatever was moved    *)
(* and transferred before the visit: docs/public-sharing.md:62 says that   *)
(* documents outside the shared subtree are hidden.                        *)
ManualIsItsSubtree ==
    \A r \in Requests : \A d \in request[r].shown : "outside" \notin bars[r][d]
=============================================================================
