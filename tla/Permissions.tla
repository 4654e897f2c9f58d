---------------------------- MODULE Permissions ----------------------------
(***************************************************************************)
(* Who may do what in a workspace: the grants on folders and documents,    *)
(* the default roles of folders, workspace roles and groups; the resolver  *)
(* that answers for one document or folder, the resolver that loads a      *)
(* whole workspace and answers for all of them, and the routes that change *)
(* the grants.                                                             *)
(*                                                                         *)
(* A grant's (subject, resource) pair is unique in the database, so the    *)
(* Permission rows are a function to roles.  The routes run in             *)
(* transactions that lock nothing they have read: at READ COMMITTED each   *)
(* statement sees what others have committed before it.                    *)
(***************************************************************************)
EXTENDS Naturals, FiniteSets

CONSTANTS
    Folders, Docs, Users, Groups,
    Parent,       \* [Folders -> Folders \cup {Root}]
    Root,
    Requests,
    Ops,          \* the routes that are called in an instance
    StartMembers, StartGroups, StartDefaults, StartLive, StartPlaced, StartGrants, StartScopes,
    NewGrants     \* the rows a replacement asks for, one of these

VARIABLES
    live,         \* the folders and documents that are not deleted
    defaultRole,  \* [Folders -> Roles]
    placed,       \* [Docs -> Folders]
    member,       \* [Users -> WorkspaceRoles \cup {NotMember}]
    group,        \* [Groups -> SUBSET Users]
    grant,        \* [Subjects \X Resources -> Roles], the Permission rows
    scope,        \* agentEditScopeFolderId of the workspace, or Root
    request

vars == <<live, defaultRole, placed, member, group, grant, scope, request>>
tree == <<live, defaultRole, placed>>

Subjects == Users \cup Groups
Resources == Folders \cup Docs
Roles == 0..3     \* no role, viewer, editor, manager
None == 0
Viewer == 1
Editor == 2
Manager == 3
NotMember == "none"
WorkspaceRoles == {"admin", "member", "viewer", "guest"}

ASSUME PermissionsAssumption ==
    /\ Parent \in [Folders -> Folders \cup {Root}]
    /\ Root \notin Folders
    /\ Folders \cap Docs = {} /\ Users \cap Groups = {}
    /\ IsFiniteSet(Folders)
    /\ StartMembers \subseteq [Users -> WorkspaceRoles \cup {NotMember}]
    /\ StartGroups \subseteq [Groups -> SUBSET Users]
    /\ StartDefaults \subseteq [Folders -> Roles]
    /\ StartLive \subseteq SUBSET Resources
    /\ StartPlaced \subseteq [Docs -> Folders]
    /\ StartGrants \subseteq [Subjects \X Resources -> Roles]
    /\ StartScopes \subseteq Folders \cup {Root}
    /\ NewGrants \subseteq [Subjects -> Roles]

-----------------------------------------------------------------------------
(* Roles.                                                                  *)

Strongest(roles) ==
    CHOOSE s \in Roles : /\ s \in roles \cup {None}
                         /\ \A t \in roles : t <= s

CapRole(role, cap) == IF role > cap THEN cap ELSE role

(* A folder and the folders above it, up to the first that is deleted.     *)
Above(f) ==
    LET up[n \in 0..Cardinality(Folders)] ==
          IF n = 0 THEN {f} \cap live
          ELSE up[n - 1] \cup ({Parent[g] : g \in up[n - 1]} \cap (Folders \cap live))
    IN  Folders \cap up[Cardinality(Folders)]

SubjectsOf(u) == {u} \cup {g \in Groups : u \in group[g]}

GrantsOn(u, x) == {grant[<<s, x>>] : s \in SubjectsOf(u)}

(* A bug: the viewer tier's cap is forgotten.                              *)
ItemRoleUncapped(u, folders, items) ==
    LET floors == IF member[u] = "guest" THEN {} ELSE {defaultRole[f] : f \in folders}
        tier == IF member[u] = "viewer" THEN {Viewer} ELSE {}
    IN  CASE member[u] = NotMember -> None
          [] member[u] = "admin" -> Manager
          [] OTHER -> Strongest(tier \cup floors \cup UNION {GrantsOn(u, x) : x \in items})

(* resolveDocumentRole and resolveFolderRole: the grants on the folders    *)
(* above and on the document itself, the folders' default roles (not for   *)
(* guests), and the floor and the cap of the viewer tier.                  *)
ItemRole(u, folders, items) ==
    LET floors == IF member[u] = "guest" THEN {} ELSE {defaultRole[f] : f \in folders}
        tier == IF member[u] = "viewer" THEN {Viewer} ELSE {}
        computed == Strongest(tier \cup floors \cup UNION {GrantsOn(u, x) : x \in items})
    IN  CASE member[u] = NotMember -> None
          [] member[u] = "admin" -> Manager
          [] member[u] = "viewer" -> CapRole(computed, Viewer)
          [] OTHER -> computed

ResolveFolderRole(u, f) ==
    IF f \notin live THEN None ELSE ItemRole(u, Above(f), Above(f))

ResolveDocumentRole(u, d) ==
    IF d \notin live THEN None
    ELSE ItemRole(u, Above(placed[d]), Above(placed[d]) \cup {d})

(* buildWorkspaceResolver: the folder's role first, then the document's    *)
(* from it and the document's own grants.                                  *)
Tiered(u, roles) ==
    LET computed == Strongest((IF member[u] = "viewer" THEN {Viewer} ELSE {}) \cup roles) IN
    CASE member[u] = NotMember -> None
      [] member[u] = "admin" -> Manager
      [] member[u] = "viewer" -> CapRole(computed, Viewer)
      [] OTHER -> computed

WorkspaceFolderRole(u, f) ==
    Tiered(u, UNION {(IF member[u] = "guest" THEN {} ELSE {defaultRole[g]}) \cup GrantsOn(u, g)
                       : g \in Above(f)})

WorkspaceDocumentRole(u, d) ==
    Tiered(u, {WorkspaceFolderRole(u, placed[d])} \cup GrantsOn(u, d))

(* What the permissions dialog says of a user's own grant: the grant, the  *)
(* default roles above, and the tier.                                      *)
DialogRole(u, d) ==
    LET floors == {defaultRole[f] : f \in Above(placed[d])}
        own == grant[<<u, d>>]
    IN  CASE member[u] = "admin" -> Manager
          [] member[u] = "guest" -> own
          [] member[u] = "viewer" -> CapRole(Strongest({own, Viewer} \cup floors), Viewer)
          [] OTHER -> Strongest({own} \cup floors)

(* Where an agent may write: the scope folder, and what is under it.       *)
InScope(f) == scope = Root \/ f = scope \/ scope \in Above(f)

(* authorizeDocumentRole and authorizeFolderRole for a write: an agent's   *)
(* token is confined to the scope, a session or a personal token is not.   *)
MayWrite(u, agent, x, needed) ==
    LET f == IF x \in Docs THEN placed[x] ELSE x IN
    /\ (IF x \in Docs THEN ResolveDocumentRole(u, x) ELSE ResolveFolderRole(u, x)) >= needed
    /\ agent => InScope(f)

-----------------------------------------------------------------------------
Gone == 4         \* stands for a row whose id is no more, in what a request has read

Calls == {"add", "update", "remove", "email", "replace"}
Places == Calls \cup {"idle", "wait", "insert", "done"}
Answers == {"none", "ok", "unchanged", "refused", "invalid_subject", "duplicate", "not_found",
            "conflict", "error"}

RequestType ==
    [at : Places, op : Calls \cup {"none"}, resource : Resources \cup {Root}, subject : Subjects \cup {"none"},
     role : Roles, rows : [Subjects -> Roles \cup {Gone}], new : [Subjects -> Roles],
     deleting : SUBSET Subjects, joins : BOOLEAN, answer : Answers]

Idle == [at |-> "idle", op |-> "none", resource |-> Root, subject |-> "none", role |-> None,
         rows |-> [s \in Subjects |-> None], new |-> [s \in Subjects |-> None],
         deleting |-> {}, joins |-> FALSE, answer |-> "none"]

Init ==
    /\ live \in StartLive /\ placed \in StartPlaced
    /\ defaultRole \in StartDefaults
    /\ member \in StartMembers /\ group \in StartGroups
    /\ grant \in StartGrants
    /\ scope \in StartScopes
    /\ request = [r \in Requests |-> Idle]

At(r, at) == request[r].at = at
Answer(rq, r, a) == [rq EXCEPT ![r].at = "done", ![r].answer = a]

RowsOn(x) == [s \in Subjects |-> grant[<<s, x>>]]

IsSubject(s) == s \in Groups \/ member[s] # NotMember

(* Every route authorizes its user as a manager of the resource, in its    *)
(* transaction, and then reads the rows.                                   *)
Begin(r, u, agent, x, op, q, answer) ==
    LET allowed == MayWrite(u, agent, x, Manager) IN
    /\ At(r, "idle") /\ op \in Ops
    /\ request' = [request EXCEPT ![r] =
         [q EXCEPT !.op = op, !.resource = x, !.rows = RowsOn(x),
                   !.at = IF allowed /\ answer = "ok" THEN op ELSE "done",
                   !.answer = IF allowed THEN answer ELSE "refused"]]
    /\ UNCHANGED <<tree, member, group, grant, scope>>

For(s, rl) == [Idle EXCEPT !.subject = s, !.role = rl]

AddCheck(r, u, agent, x, s, rl) ==
    Begin(r, u, agent, x, "add", For(s, rl), CASE ~IsSubject(s) -> "invalid_subject"
                                               [] grant[<<s, x>>] # None -> "duplicate"
                                               [] OTHER -> "ok")

UpdateCheck(r, u, agent, x, s, rl) ==
    Begin(r, u, agent, x, "update", For(s, rl), CASE grant[<<s, x>>] = None -> "not_found"
                                                  [] grant[<<s, x>>] = rl -> "unchanged"
                                                  [] OTHER -> "ok")

RemoveCheck(r, u, agent, x, s) ==
    Begin(r, u, agent, x, "remove", For(s, None), IF grant[<<s, x>>] = None THEN "not_found" ELSE "ok")

EmailCheck(r, u, agent, x, s, rl) ==
    Begin(r, u, agent, x, "email", [For(s, rl) EXCEPT !.joins = member[s] = NotMember], "ok")

(* Rows of a resource are deleted: what others have found of them is gone. *)
Forget(rq, x, gone) ==
    [r \in Requests |->
       IF rq[r].resource # x \/ rq[r].at = "done" THEN rq[r]
       ELSE [rq[r] EXCEPT !.deleting = @ \ gone,
                          !.rows = [s \in Subjects |-> IF s \in gone /\ @[s] # None
                                                       THEN Gone ELSE @[s]]]]

Deleting(x, subjects) ==
    \E r \in Requests : /\ At(r, "insert") /\ request[r].resource = x
                        /\ request[r].deleting \cap subjects # {}

(* One row is written, by the id that was found, or as a new one: a row    *)
(* that has gone makes an update or a delete fail, and one that has come   *)
(* an insert, by the unique index.  A grant by e-mail makes a user who is  *)
(* no member a guest.                                                      *)
WriteRow(r) ==
    LET q == request[r]
        s == q.subject
        now == grant[<<s, q.resource>>] IN
    /\ q.at \in {"add", "update", "remove", "email"} /\ ~Deleting(q.resource, {s})
    /\ IF \/ q.rows[s] = Gone \/ (q.rows[s] = None) # (now = None)
          \/ q.joins /\ member[s] # NotMember
       THEN request' = Answer(request, r, "error") /\ UNCHANGED <<grant, member>>
       ELSE /\ grant' = [grant EXCEPT ![<<s, q.resource>>] = q.role]
            /\ member' = IF q.joins THEN [member EXCEPT ![s] = "guest"] ELSE member
            /\ request' = Answer(IF q.op = "remove" THEN Forget(request, q.resource, {s})
                                 ELSE request, r, "ok")
    /\ UNCHANGED <<tree, group, scope>>

-----------------------------------------------------------------------------
(* PUT .../permissions: the whole set of a resource's grants is replaced,  *)
(* if it is what the caller last saw.                                      *)

ReplaceCheck(r, u, agent, x, base, new) ==
    Begin(r, u, agent, x, "replace", [Idle EXCEPT !.new = new],
          CASE \E s \in Subjects : new[s] # None /\ ~IsSubject(s) -> "invalid_subject"
            [] base # RowsOn(x) -> "conflict"
            [] OTHER -> "ok")

(* The delete is of the rows committed when it starts.                     *)
ReplaceDelete(r) ==
    LET x == request[r].resource IN
    /\ At(r, "replace")
    /\ request' = [request EXCEPT ![r].at = "wait",
                                  ![r].deleting = {s \in Subjects : grant[<<s, x>>] # None}]
    /\ UNCHANGED <<tree, member, group, grant, scope>>

(* It waits for another transaction that is deleting one of them.          *)
ReplaceWait(r) ==
    /\ At(r, "wait") /\ ~Deleting(request[r].resource, request[r].deleting)
    /\ request' = [request EXCEPT ![r].at = "insert"]
    /\ UNCHANGED <<tree, member, group, grant, scope>>

(* The new rows are inserted and all is committed.  Rows that the delete   *)
(* did not see stay, and one for the same subject refuses the new one.     *)
ReplaceInsert(r) ==
    LET q == request[r]
        x == q.resource
        stays(s) == s \notin q.deleting /\ grant[<<s, x>>] # None IN
    /\ At(r, "insert")
    /\ IF \E s \in Subjects : stays(s) /\ q.new[s] # None
       THEN request' = Answer(request, r, "error") /\ UNCHANGED grant
       ELSE /\ grant' = [p \in Subjects \X Resources |->
                           IF p[2] = x /\ ~stays(p[1]) THEN q.new[p[1]] ELSE grant[p]]
            /\ request' = Answer(Forget(request, x, q.deleting), r, "ok")
    /\ UNCHANGED <<tree, member, group, scope>>

-----------------------------------------------------------------------------
(* The administration of the rest: default roles of folders, the members   *)
(* of groups, new members, and the agents' scope.                          *)

SetDefaultRole(f, rl) ==
    /\ "default" \in Ops /\ f \in live /\ defaultRole[f] # rl
    /\ defaultRole' = [defaultRole EXCEPT ![f] = rl]
    /\ UNCHANGED <<live, placed, member, group, grant, scope, request>>

AddMember(u, wr) ==
    /\ "member" \in Ops /\ member[u] = NotMember
    /\ member' = [member EXCEPT ![u] = wr]
    /\ UNCHANGED <<tree, group, grant, scope, request>>

AddGroupMember(g, u) ==
    /\ "group" \in Ops /\ member[u] # NotMember /\ u \notin group[g]
    /\ group' = [group EXCEPT ![g] = @ \cup {u}]
    /\ UNCHANGED <<tree, member, grant, scope, request>>

RemoveGroupMember(g, u) ==
    /\ "group" \in Ops /\ u \in group[g]
    /\ group' = [group EXCEPT ![g] = @ \ {u}]
    /\ UNCHANGED <<tree, member, grant, scope, request>>

SetScope(f) ==
    /\ "scope" \in Ops /\ f \in (live \cap Folders) \cup {Root} /\ f # scope
    /\ scope' = f
    /\ UNCHANGED <<tree, member, group, grant, request>>

(* A folder or document is deleted with its own grants.                    *)
DeleteResource(x) ==
    /\ "delete" \in Ops /\ x \in live
    /\ x \in Folders => /\ \A d \in Docs \cap live : placed[d] # x
                        /\ \A f \in Folders \cap live : Parent[f] # x
    /\ live' = live \ {x}
    /\ grant' = [p \in Subjects \X Resources |-> IF p[2] = x THEN None ELSE grant[p]]
    /\ request' = Forget(request, x, Subjects)
    /\ UNCHANGED <<defaultRole, placed, member, group, scope>>

MoveDocument(d, f) ==
    /\ "move" \in Ops /\ {d, f} \subseteq live /\ placed[d] # f
    /\ placed' = [placed EXCEPT ![d] = f]
    /\ UNCHANGED <<live, defaultRole, member, group, grant, scope, request>>

-----------------------------------------------------------------------------
Handle(r) ==
    \/ WriteRow(r)
    \/ ReplaceDelete(r) \/ ReplaceWait(r) \/ ReplaceInsert(r)

(* No base version asks for nothing more than the one that is current.     *)
Arrive(r, u, agent, x) ==
    \/ \E s \in Subjects : \E rl \in Roles \ {None} :
          AddCheck(r, u, agent, x, s, rl) \/ UpdateCheck(r, u, agent, x, s, rl)
    \/ \E s \in Subjects : RemoveCheck(r, u, agent, x, s)
    \/ \E s \in Users : \E rl \in Roles \ {None} : EmailCheck(r, u, agent, x, s, rl)
    \/ \E new \in NewGrants : \E base \in {RowsOn(x)} \cup NewGrants :
          ReplaceCheck(r, u, agent, x, base, new)

Administer ==
    \/ \E f \in Folders : \E rl \in Roles : SetDefaultRole(f, rl)
    \/ \E u \in Users : \E wr \in WorkspaceRoles : AddMember(u, wr)
    \/ \E g \in Groups : \E u \in Users : AddGroupMember(g, u) \/ RemoveGroupMember(g, u)
    \/ \E f \in Folders \cup {Root} : SetScope(f)
    \/ \E x \in Resources : DeleteResource(x)
    \/ \E d \in Docs : \E f \in Folders : MoveDocument(d, f)

Next ==
    \/ \E r \in Requests : Handle(r)
    \/ \E r \in Requests : \E u \in Users : \E agent \in BOOLEAN : \E x \in Resources :
          Arrive(r, u, agent, x)
    \/ Administer

Spec == Init /\ [][Next]_vars

-----------------------------------------------------------------------------
(* Properties.                                                             *)

(* The rows keep their types.                                              *)
TypeOK ==
    /\ live \subseteq Resources
    /\ defaultRole \in [Folders -> Roles]
    /\ placed \in [Docs -> Folders]
    /\ member \in [Users -> WorkspaceRoles \cup {NotMember}]
    /\ group \in [Groups -> SUBSET Users]
    /\ grant \in [Subjects \X Resources -> Roles]
    /\ scope \in Folders \cup {Root}
    /\ request \in [Requests -> RequestType]

(* A list or a tree, made with the workspace's resolver, and the routes of *)
(* one document or folder, that resolve its role alone, give a user the    *)
(* same role, whatever the grants, the tiers and the tree: nothing is      *)
(* listed that cannot be opened, nor hidden that can (resolver.ts:78).     *)
ResolversAgree ==
    \A u \in Users :
        /\ \A f \in Folders \cap live : WorkspaceFolderRole(u, f) = ResolveFolderRole(u, f)
        /\ \A d \in Docs \cap live : WorkspaceDocumentRole(u, d) = ResolveDocumentRole(u, d)

(* A user of the viewer tier never writes, a guest has only what a grant   *)
(* gives, and who is no member has nothing, whichever resolver is asked.   *)
TiersHold ==
    \A u \in Users : \A d \in Docs \cap live :
        LET role == WorkspaceDocumentRole(u, d)
            granted == UNION {GrantsOn(u, x) : x \in Above(placed[d]) \cup {d}} IN
        /\ member[u] = NotMember => role = None
        /\ member[u] = "viewer" => role = Viewer
        /\ member[u] = "guest" => role = Strongest(granted)

(* What the dialog gives as the effective role of a user's own grant is    *)
(* never more than the role the user has, and no less when there is no     *)
(* other grant that reaches the document: the dialog looks at neither the  *)
(* folders' grants nor the groups' (permissions/routes.ts:488).            *)
DialogNeverOverstates ==
    \A u \in Users : \A d \in Docs \cap live :
        member[u] # NotMember /\ grant[<<u, d>>] # None =>
            LET shown == DialogRole(u, d)
                others == (UNION {GrantsOn(u, x) : x \in Above(placed[d])})
                          \cup {grant[<<s, d>>] : s \in SubjectsOf(u) \ {u}} IN
            /\ shown <= ResolveDocumentRole(u, d)
            /\ others \subseteq {None} => shown = ResolveDocumentRole(u, d)

(* Whoever asks, by whatever route, gets the role that the tier and the    *)
(* grants give, and is shown no more than that.                            *)
RolesHold == ResolversAgree /\ TiersHold /\ DialogNeverOverstates
=============================================================================
