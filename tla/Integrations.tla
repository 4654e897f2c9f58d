---------------------------- MODULE Integrations ----------------------------
(***************************************************************************)
(* An external integration of a workspace: its credentials, the sessions   *)
(* that link an external account to a user, and the actions it takes on a  *)
(* document and a folder on behalf of linked users.                        *)
(*                                                                         *)
(* An action authenticates, resolves the link, reads the document's row    *)
(* and then reads or writes; a confirmation reads the session and the link *)
(* in a transaction that locks neither.  A write is the whole of           *)
(* applyDocumentWrite, whose steps DocumentWrite has.  A call that is      *)
(* refused changes nothing and is no step.                                 *)
(***************************************************************************)
EXTENDS Naturals, Sequences

CONSTANTS
    Users, Accounts,    \* accounts of the external provider
    Sessions,           \* rows of ExternalConnectSession
    Requests,
    Ops,                \* the operations of an instance
    MaxRevisions        \* bound on the document's revisions

Anyone == "anyone"      \* an action that names no external account
NoUser == "nobody"
Scopes == {"connect:write", "documents:read", "documents:write"}
None == 0
Viewer == 1
Editor == 2

VARIABLES
    integration,    \* [live, secret, scopes, folders]: folders, whether the document is allowed
    member,         \* the members of the workspace
    role,           \* [Users -> roles on the document and the folder]
    session,        \* [account, used, expired], or NoSession
    link,           \* the row of each account: [row, user, active], or NoLink
    unlinked,       \* the accounts that were ever unlinked
    document,       \* [live, here]: here, whether it is in the workspace
    revision,       \* the document's revisions: [text, op, canonical, by]
    folder,         \* [live, slug]: what has taken a slug in it
    request

vars == <<integration, member, role, session, link, unlinked, document, revision, folder, request>>
admin == <<integration, member, role>>
links == <<session, link, unlinked>>
texts == <<document, revision, folder>>

NoSession == [account |-> "none", used |-> TRUE, expired |-> TRUE]
NoLink == [row |-> "none", user |-> NoUser, active |-> FALSE]
Idle == [at |-> "idle", op |-> "none", account |-> Anyone, user |-> NoUser, row |-> "none",
         session |-> "none", base |-> 0, answer |-> "none"]

ScopeOf(op) ==
    CASE op = "connect" -> "connect:write"
      [] op = "read" -> "documents:read"
      [] OTHER -> "documents:write"

Init ==
    /\ integration = [live |-> TRUE, secret |-> 1, scopes |-> Scopes, folders |-> TRUE]
    /\ member = Users /\ role = [u \in Users |-> Editor]
    /\ session = [k \in Sessions |-> NoSession]
    /\ link \in [Accounts -> {NoLink} \cup [row : {"earlier"}, user : Users, active : BOOLEAN]]
    /\ unlinked = {a \in Accounts : link[a] # NoLink /\ ~link[a].active}
    /\ document = [live |-> TRUE, here |-> TRUE]
    /\ revision = <<[text |-> {}, op |-> "create", canonical |-> TRUE, by |-> NoUser]>>
    /\ folder = [live |-> TRUE, slug |-> "free"]
    /\ request = [r \in Requests |-> Idle]

At(r, at) == request[r].at = at
Goto(r, at) == request' = [request EXCEPT ![r].at = at]
Finish(r, answer) == request' = [request EXCEPT ![r].at = "done", ![r].answer = answer]

-----------------------------------------------------------------------------
(* Actions of the integration.                                             *)

(* requireIntegrationAuth.                                                 *)
Authenticated(secret, op) ==
    integration.live /\ secret = integration.secret /\ ScopeOf(op) \in integration.scopes

(* Only a read may name no account; it then skips the link.                *)
Arrive(r, op, a, secret) ==
    /\ At(r, "idle") /\ op \in Ops /\ Authenticated(secret, op)
    /\ a = Anyone => op = "read"
    /\ request' = [request EXCEPT ![r] =
         [Idle EXCEPT !.op = op, !.account = a,
                      !.at = CASE op = "connect" -> "connect" [] a = Anyone -> "find"
                               [] OTHER -> "link"]]
    /\ UNCHANGED <<admin, links, texts>>

NewSession(k, a) ==
    /\ session[k] = NoSession
    /\ session' = [session EXCEPT ![k] = [account |-> a, used |-> FALSE, expired |-> FALSE]]

(* POST connect-sessions.                                                  *)
Connect(r, k) ==
    /\ At(r, "connect") /\ NewSession(k, request[r].account)
    /\ Finish(r, "session")
    /\ UNCHANGED <<admin, link, unlinked, texts>>

(* lookupLink: an account that is not linked is given a session.           *)
LookupLink(r) ==
    LET l == link[request[r].account] IN
    /\ At(r, "link") /\ l.active
    /\ request' = [request EXCEPT ![r].at = "find", ![r].user = l.user]
    /\ UNCHANGED <<admin, links, texts>>

LookupUnlinked(r, k) ==
    LET a == request[r].account IN
    /\ At(r, "link") /\ ~link[a].active
    /\ NewSession(k, a)
    /\ Finish(r, "not linked")
    /\ UNCHANGED <<admin, link, unlinked, texts>>

(* The document's row, with its current version; its content is that of    *)
(* the version read.                                                       *)
FindDocument(r) ==
    /\ At(r, "find") /\ request[r].op # "create"
    /\ IF document.live /\ document.here
       THEN request' = [request EXCEPT ![r].at = request[r].op, ![r].base = Len(revision)]
       ELSE Finish(r, "not found")
    /\ UNCHANGED <<admin, links, texts>>

(* A read without an account is of canonical documents in allowed folders, *)
(* one for a user of what the user may see.                                *)
ReadDocument(r) ==
    LET u == request[r].user
        may == IF u = NoUser THEN revision[request[r].base].canonical /\ integration.folders
               ELSE role[u] >= Viewer IN
    /\ At(r, "read")
    /\ request' = [request EXCEPT ![r].at = "done",
                                  ![r].answer = IF may THEN "ok" ELSE "forbidden"]
    /\ UNCHANGED <<admin, links, texts>>

(* The content an action writes: an append's is made from what it read, an *)
(* update's replaces it, and an update of the title alone repeats it.      *)
NewText(r) ==
    LET q == request[r] IN
    CASE q.op = "append" -> revision[q.base].text \cup {r}
      [] q.op = "update" -> {r}
      [] OTHER -> revision[q.base].text

Revised(op, text, canonical, u) ==
    revision' = revision \o <<[text |-> text, op |-> op, canonical |-> canonical, by |-> u]>>

Current == revision[Len(revision)]

(* applyDocumentWrite, for the linked user, from the version read.         *)
WriteFrom(r, base) ==
    LET q == request[r]
        verdict == CASE ~document.live \/ role[q.user] = None -> "not found"
                     [] role[q.user] < Editor -> "forbidden"
                     [] ~Current.canonical -> "not canonical"
                     [] base # Len(revision) -> "conflict"
                     [] OTHER -> "ok" IN
    /\ q.at \in {"append", "update", "retitle"}
    /\ IF verdict = "ok"
       THEN /\ Len(revision) < MaxRevisions
            /\ \E canonical \in IF q.op = "update" THEN BOOLEAN ELSE {TRUE} :
                  Revised(q.op, NewText(r), canonical, q.user)
       ELSE UNCHANGED revision
    /\ Finish(r, verdict)
    /\ UNCHANGED <<admin, links, document, folder>>

(* A bug: the base is the version current when the write is made.          *)
WriteLatest(r) == WriteFrom(r, Len(revision))
Write(r) == WriteFrom(r, request[r].base)

(* document-create: the folder and the role first, then, under the tree's  *)
(* lock, the folder again and whether the slug is free.                    *)
FindFolder(r) ==
    /\ At(r, "find") /\ request[r].op = "create"
    /\ IF folder.live /\ role[request[r].user] >= Editor THEN Goto(r, "create")
       ELSE Finish(r, "not found")
    /\ UNCHANGED <<admin, links, texts>>

CreateDocument(r) ==
    /\ At(r, "create")
    /\ IF folder.live /\ folder.slug = "free"
       THEN folder' = [folder EXCEPT !.slug = request[r].user] /\ Finish(r, "ok")
       ELSE UNCHANGED folder /\ Finish(r, "conflict")
    /\ UNCHANGED <<admin, links, document, revision>>

-----------------------------------------------------------------------------
(* Linking.                                                                *)

Usable(k) == session[k] # NoSession /\ ~session[k].used /\ ~session[k].expired

(* confirmConnectSession reads the session, the membership and the link.   *)
BeginConfirm(r, u, k) ==
    LET l == link[session[k].account] IN
    /\ At(r, "idle") /\ "confirm" \in Ops
    /\ Usable(k) /\ u \in member
    /\ request' = [request EXCEPT ![r] =
         [Idle EXCEPT !.op = "confirm", !.account = session[k].account, !.user = u, !.session = k,
                      !.row = l.row,
                      !.at = IF l.active /\ l.user # u THEN "done" ELSE "confirm",
                      !.answer = IF l.active /\ l.user # u THEN "elsewhere" ELSE "none"]]
    /\ UNCHANGED <<admin, links, texts>>

(* It then updates the link it found, whoever has it by then, or creates   *)
(* one, unless another has come; and the session is used.                  *)
ConfirmOver(r, taken) ==
    LET q == request[r] IN
    /\ At(r, "confirm")
    /\ IF taken \/ q.user \notin member
       THEN Finish(r, IF q.row = "none" THEN "elsewhere" ELSE "error") /\ UNCHANGED <<link, session>>
       ELSE /\ link' = [link EXCEPT ![q.account] =
                          [row |-> IF q.row = "none" THEN r ELSE q.row, user |-> q.user,
                           active |-> TRUE]]
            /\ session' = [session EXCEPT ![q.session].used = TRUE]
            /\ Finish(r, "linked")
    /\ UNCHANGED <<admin, unlinked, texts>>

(* A bug: the row is written whether or not another has come.              *)
ConfirmAnyway(r) == ConfirmOver(r, FALSE)
Confirm(r) == ConfirmOver(r, link[request[r].account].row # request[r].row)

(* DELETE /api/me/external-links/:id: the user's row is read, then revoked *)
(* by its id.                                                              *)
BeginUnlink(r, u, a) ==
    /\ At(r, "idle") /\ "unlink" \in Ops /\ link[a].user = u /\ u # NoUser
    /\ request' = [request EXCEPT ![r] = [Idle EXCEPT !.at = "unlink", !.op = "unlink",
                                            !.account = a, !.user = u, !.row = link[a].row]]
    /\ UNCHANGED <<admin, links, texts>>

Unlink(r) ==
    LET q == request[r] IN
    /\ At(r, "unlink")
    /\ IF link[q.account].row = q.row
       THEN /\ link' = [link EXCEPT ![q.account].active = FALSE]
            /\ unlinked' = unlinked \cup {q.account}
            /\ Finish(r, "ok")
       ELSE UNCHANGED <<link, unlinked>> /\ Finish(r, "error")
    /\ UNCHANGED <<admin, session, texts>>

ExpireSession(k) ==
    /\ "expire" \in Ops /\ Usable(k)
    /\ session' = [session EXCEPT ![k].expired = TRUE]
    /\ UNCHANGED <<admin, link, unlinked, texts, request>>

-----------------------------------------------------------------------------
(* What else happens: the workspace's admin, the users, the document.      *)

RotateSecret ==
    /\ "admin" \in Ops /\ integration.live /\ integration.secret = 1
    /\ integration' = [integration EXCEPT !.secret = 2]
    /\ UNCHANGED <<member, role, links, texts, request>>

RevokeIntegration ==
    /\ "admin" \in Ops /\ integration.live
    /\ integration' = [integration EXCEPT !.live = FALSE]
    /\ UNCHANGED <<member, role, links, texts, request>>

PatchIntegration(scopes, folders) ==
    /\ "admin" \in Ops /\ integration.live
    /\ integration' = [integration EXCEPT !.scopes = scopes, !.folders = folders]
    /\ UNCHANGED <<member, role, links, texts, request>>

ChangeRole(u, rl) ==
    /\ "roles" \in Ops /\ u \in member /\ role[u] # rl
    /\ role' = [role EXCEPT ![u] = rl]
    /\ UNCHANGED <<integration, member, links, texts, request>>

(* A user's account is deleted, with the links.                            *)
DeleteUser(u) ==
    /\ "erase" \in Ops /\ u \in member
    /\ member' = member \ {u}
    /\ role' = [role EXCEPT ![u] = None]
    /\ link' = [a \in Accounts |-> IF link[a].user = u THEN NoLink ELSE link[a]]
    /\ unlinked' = unlinked \cup {a \in Accounts : link[a].user = u}
    /\ UNCHANGED <<integration, session, texts, request>>

(* A user revises the document in the editor.                              *)
Revise(text, canonical) ==
    /\ "revise" \in Ops /\ document.live /\ Len(revision) < MaxRevisions
    /\ Revised("edit", text, canonical, NoUser)
    /\ UNCHANGED <<admin, links, document, folder, request>>

LoseDocument(how) ==
    /\ "lose" \in Ops /\ document.live /\ document.here
    /\ document' = [document EXCEPT ![how] = FALSE]
    /\ UNCHANGED <<admin, links, revision, folder, request>>

DeleteFolder ==
    /\ "lose" \in Ops /\ folder.live /\ folder.slug = "free"
    /\ folder' = [folder EXCEPT !.live = FALSE]
    /\ UNCHANGED <<admin, links, document, revision, request>>

-----------------------------------------------------------------------------
Next ==
    \/ \E r \in Requests :
         \/ \E op \in {"connect", "read", "append", "update", "retitle", "create"} :
               \E a \in Accounts \cup {Anyone}, s \in 1..2 : Arrive(r, op, a, s)
         \/ \E k \in Sessions : Connect(r, k) \/ LookupUnlinked(r, k)
         \/ LookupLink(r) \/ FindDocument(r) \/ ReadDocument(r) \/ Write(r)
         \/ FindFolder(r) \/ CreateDocument(r)
         \/ \E u \in Users, k \in Sessions : BeginConfirm(r, u, k)
         \/ \E u \in Users, a \in Accounts : BeginUnlink(r, u, a)
         \/ Confirm(r) \/ Unlink(r)
    \/ \E k \in Sessions : ExpireSession(k)
    \/ RotateSecret \/ RevokeIntegration
    \/ \E scopes \in {Scopes, {}}, folders \in BOOLEAN : PatchIntegration(scopes, folders)
    \/ \E u \in Users, rl \in None..Editor : ChangeRole(u, rl)
    \/ \E u \in Users : DeleteUser(u)
    \/ \E text \in {{}, Current.text}, c \in BOOLEAN : Revise(text, c)
    \/ \E how \in {"live", "here"} : LoseDocument(how)
    \/ DeleteFolder

Spec == Init /\ [][Next]_vars

-----------------------------------------------------------------------------
(* Properties.                                                             *)

(* Types of the state; a link in force is a member's.                      *)
TypeOK ==
    /\ integration.scopes \subseteq Scopes
    /\ session \in [Sessions -> {NoSession} \cup [account : Accounts, used : BOOLEAN,
                                                  expired : BOOLEAN]]
    /\ \A a \in Accounts : link[a].active => link[a].user \in member
    /\ \A n \in 1..Len(revision) : revision[n].text \subseteq Requests

(* Whoever is told that an external account is linked to them has it, and  *)
(* nobody else was told so, as long as nobody unlinked it: confirmations   *)
(* that overlap do not take it from each other (routes.ts:345).            *)
ConnectsAgree ==
    \A r \in Requests :
        LET q == request[r] IN
        q.answer = "linked" /\ q.account \notin unlinked =>
            link[q.account].active /\ link[q.account].user = q.user

(* What agents append stays: an append and a change of title keep all of   *)
(* the text they follow, whoever revised in the meantime                   *)
(* (routes.ts:999 reads the content, :1002 names its version).  And a read *)
(* that names no account gives the text of a revision that was canonical,  *)
(* though the document may turn into a draft meanwhile (routes.ts:711).    *)
TextsAreKept ==
    /\ \A n \in 1..(Len(revision) - 1) :
          revision[n + 1].op \in {"append", "retitle"} => revision[n].text \subseteq revision[n + 1].text
    /\ \A r \in Requests :
          LET q == request[r] IN
          q.op = "read" /\ q.account = Anyone /\ q.answer = "ok" => revision[q.base].canonical
=============================================================================
