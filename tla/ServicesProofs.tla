--------------------------- MODULE ServicesProofs ---------------------------
(***************************************************************************)
(* Proofs about the services around the documents: who may do what         *)
(* (Permissions), the credentials of accounts (Accounts), how actors       *)
(* coordinate on a document (Collaboration), and who belongs to which      *)
(* workspace (Workspaces).                                                 *)
(***************************************************************************)
EXTENDS Permissions, Naturals, Sequences, FiniteSetTheorems, TLAPS

CONSTANTS Codes, Devices, MaxPasswords,
          Actors, UserOf, Agents, Workspaces, Home, MaxVersion, MaxClaims, MaxComments

VARIABLES account, cookie, code, token, device, plugin, spent, granted,
          document, role, claim, comment, cursor, given, used

SignIn == INSTANCE Accounts
Team == INSTANCE Collaboration

(***************************************************************************)
(* Permissions: the two resolvers, for any tree, members, groups, grants.  *)
(***************************************************************************)
(* The strongest of some roles is one of them, or none, and no weaker than *)
(* any of them.                                                            *)
LEMMA StrongestBounds ==
    ASSUME NEW roles \in SUBSET Roles
    PROVE  /\ Strongest(roles) \in Roles
           /\ Strongest(roles) \in roles \cup {None}
           /\ \A t \in roles : t <= Strongest(roles)
<1>1. \E s \in Roles : s \in roles \cup {None} /\ \A t \in roles : t <= s
  <2>1. CASE 3 \in roles
    BY <2>1 DEF Roles
  <2>2. CASE 3 \notin roles /\ 2 \in roles
    BY <2>2 DEF Roles
  <2>3. CASE 3 \notin roles /\ 2 \notin roles /\ 1 \in roles
    BY <2>3 DEF Roles
  <2>4. CASE 3 \notin roles /\ 2 \notin roles /\ 1 \notin roles
    BY <2>4 DEF Roles, None
  <2> QED BY <2>1, <2>2, <2>3, <2>4
<1> QED BY <1>1 DEF Strongest

(* And whatever is such is the strongest.                                  *)
LEMMA StrongestIs ==
    ASSUME NEW roles \in SUBSET Roles, NEW s \in Roles, s \in roles \cup {None},
           \A t \in roles : t <= s
    PROVE  Strongest(roles) = s
<1>1. /\ Strongest(roles) \in Roles
      /\ Strongest(roles) \in roles \cup {None}
      /\ \A t \in roles : t <= Strongest(roles)
  BY StrongestBounds
<1>2. Strongest(roles) <= s
  BY <1>1 DEF Roles, None
<1>3. s <= Strongest(roles)
  BY <1>1 DEF Roles, None
<1> QED BY <1>1, <1>2, <1>3 DEF Roles

(* To take the strongest of some roles first changes nothing.              *)
LEMMA StrongestOfStrongest ==
    ASSUME NEW S \in SUBSET Roles, NEW G \in SUBSET Roles
    PROVE  Strongest({Strongest(S)} \cup G) = Strongest(S \cup G)
<1> DEFINE s == Strongest(S \cup G)
           m == Strongest(S)
<1>1. /\ s \in Roles /\ s \in S \cup G \cup {None} /\ \A t \in S \cup G : t <= s
  BY StrongestBounds, S \cup G \in SUBSET Roles
<1>2. /\ m \in Roles /\ m \in S \cup {None} /\ \A t \in S : t <= m
  BY StrongestBounds
<1> HIDE DEF s, m
<1>3. m <= s
  BY <1>1, <1>2 DEF Roles, None
<1>4. s \in {m} \cup G \cup {None}
  <2>1. CASE s \in S
    <3>1. s <= m
      BY <2>1, <1>2
    <3> QED BY <3>1, <1>3, <1>1, <1>2 DEF Roles
  <2> QED BY <2>1, <1>1
<1>5. \A t \in {m} \cup G : t <= s
  BY <1>1, <1>3
<1>6. Strongest({m} \cup G) = s
  BY <1>1, <1>2, <1>4, <1>5, StrongestIs, {m} \cup G \in SUBSET Roles
<1> QED BY <1>6 DEF s, m

(* Under the viewer tier's floor and cap every role is that of a viewer.   *)
LEMMA ViewerTier ==
    ASSUME NEW S \in SUBSET Roles, Viewer \in S
    PROVE  CapRole(Strongest(S), Viewer) = Viewer
<1>1. Strongest(S) \in Roles /\ Viewer <= Strongest(S)
  BY StrongestBounds
<1> QED BY <1>1 DEF CapRole, Viewer, Roles

-----------------------------------------------------------------------------
(* The rows keep their types, whatever is requested and administered.      *)

LEMMA BeginTypes ==
    ASSUME TypeOK, NEW r \in Requests, NEW u, NEW agent, NEW x \in Resources, NEW op \in Calls,
           NEW q \in RequestType, NEW answer \in Answers, Begin(r, u, agent, x, op, q, answer)
    PROVE  TypeOK'
<1>1. RowsOn(x) \in [Subjects -> Roles \cup {Gone}]
  BY DEF TypeOK, RowsOn
<1>2. request' \in [Requests -> RequestType]
  <2> DEFINE at == IF MayWrite(u, agent, x, Manager) /\ answer = "ok" THEN op ELSE "done"
             ans == IF MayWrite(u, agent, x, Manager) THEN answer ELSE "refused"
             rec == [q EXCEPT !.op = op, !.resource = x, !.rows = RowsOn(x), !.at = at, !.answer = ans]
  <2>1. rec \in RequestType
    <3>1. at \in Places
      BY DEF Places
    <3>2. ans \in Answers
      BY DEF Answers
    <3> HIDE DEF at, ans
    <3> QED BY <1>1, <3>1, <3>2 DEF RequestType
  <2>2. request' = [request EXCEPT ![r] = rec]
    BY DEF Begin
  <2> HIDE DEF rec
  <2> QED BY <2>1, <2>2 DEF TypeOK
<1> QED BY <1>2 DEF TypeOK, Begin, tree

LEMMA IdleType == Idle \in RequestType
<1>1. /\ [s \in Subjects |-> None] \in [Subjects -> Roles \cup {Gone}]
      /\ [s \in Subjects |-> None] \in [Subjects -> Roles]
      /\ None \in Roles
  BY DEF Roles, None
<1> QED BY <1>1 DEF Idle, RequestType, Places, Calls, Answers

LEMMA ForgetTypes ==
    ASSUME NEW rq \in [Requests -> RequestType], NEW x, NEW gone
    PROVE  Forget(rq, x, gone) \in [Requests -> RequestType]
<1> SUFFICES ASSUME NEW r \in Requests
             PROVE  Forget(rq, x, gone)[r] \in RequestType
  BY DEF Forget
<1>1. rq[r] \in RequestType
  OBVIOUS
<1> QED BY <1>1 DEF Forget, RequestType

LEMMA AnswerTypes ==
    ASSUME NEW rq \in [Requests -> RequestType], NEW r \in Requests, NEW a \in Answers
    PROVE  Answer(rq, r, a) \in [Requests -> RequestType]
<1> DEFINE rec == [rq[r] EXCEPT !.at = "done", !.answer = a]
<1>1. rec \in RequestType
  <2>1. rq[r] \in RequestType
    OBVIOUS
  <2> QED BY <2>1 DEF RequestType, Places
<1>2. Answer(rq, r, a) = [rq EXCEPT ![r] = rec]
  BY DEF Answer
<1> HIDE DEF rec
<1> QED BY <1>1, <1>2

LEMMA ForType ==
    ASSUME NEW s \in Subjects, NEW rl \in Roles
    PROVE  For(s, rl) \in RequestType
BY IdleType DEF For, RequestType

LEMMA CheckTypes ==
    ASSUME TypeOK, NEW r \in Requests, NEW u \in Users, NEW agent \in BOOLEAN,
           NEW x \in Resources, Arrive(r, u, agent, x)
    PROVE  TypeOK'
<1>1. ASSUME NEW s \in Subjects, NEW rl \in Roles \ {None}, AddCheck(r, u, agent, x, s, rl)
      PROVE  TypeOK'
  <2>1. PICK a \in Answers : Begin(r, u, agent, x, "add", For(s, rl), a)
    BY <1>1 DEF AddCheck, Answers
  <2> QED BY <2>1, ForType, BeginTypes DEF Calls
<1>2. ASSUME NEW s \in Subjects, NEW rl \in Roles \ {None}, UpdateCheck(r, u, agent, x, s, rl)
      PROVE  TypeOK'
  <2>1. PICK a \in Answers : Begin(r, u, agent, x, "update", For(s, rl), a)
    BY <1>2 DEF UpdateCheck, Answers
  <2> QED BY <2>1, ForType, BeginTypes DEF Calls
<1>3. ASSUME NEW s \in Subjects, RemoveCheck(r, u, agent, x, s)
      PROVE  TypeOK'
  <2>1. PICK a \in Answers : Begin(r, u, agent, x, "remove", For(s, None), a)
    BY <1>3 DEF RemoveCheck, Answers
  <2>2. For(s, None) \in RequestType
    BY ForType DEF Roles, None
  <2> QED BY <2>1, <2>2, BeginTypes DEF Calls
<1>4. ASSUME NEW s \in Users, NEW rl \in Roles \ {None}, EmailCheck(r, u, agent, x, s, rl)
      PROVE  TypeOK'
  <2> DEFINE j == member[s] = NotMember
             q == [For(s, rl) EXCEPT !.joins = j]
  <2>1. q \in RequestType
    <3>1. For(s, rl) \in RequestType
      BY ForType DEF Subjects
    <3>2. j \in BOOLEAN
      OBVIOUS
    <3> HIDE DEF j
    <3> QED BY <3>1, <3>2 DEF RequestType
  <2>2. Begin(r, u, agent, x, "email", q, "ok")
    BY <1>4 DEF EmailCheck
  <2> HIDE DEF q
  <2> QED BY <2>1, <2>2, BeginTypes DEF Calls, Answers
<1>5. ASSUME NEW new \in NewGrants, NEW base, ReplaceCheck(r, u, agent, x, base, new)
      PROVE  TypeOK'
  <2> DEFINE q == [Idle EXCEPT !.new = new]
  <2>1. q \in RequestType
    BY IdleType, PermissionsAssumption DEF RequestType
  <2>2. PICK a \in Answers : Begin(r, u, agent, x, "replace", q, a)
    BY <1>5 DEF ReplaceCheck, Answers
  <2> HIDE DEF q
  <2> QED BY <2>1, <2>2, BeginTypes DEF Calls
<1> QED BY <1>1, <1>2, <1>3, <1>4, <1>5 DEF Arrive

LEMMA HandleTypes ==
    ASSUME TypeOK, NEW r \in Requests, Handle(r)
    PROVE  TypeOK'
<1> DEFINE q == request[r]
<1>0. q \in RequestType
  BY DEF TypeOK
<1>1. CASE WriteRow(r)
  <2>1. request' \in [Requests -> RequestType]
    <3> DEFINE rq == IF q.op = "remove" THEN Forget(request, q.resource, {q.subject}) ELSE request
    <3>1. /\ request \in [Requests -> RequestType]
          /\ Forget(request, q.resource, {q.subject}) \in [Requests -> RequestType]
      BY ForgetTypes DEF TypeOK
    <3>2. rq \in [Requests -> RequestType]
      BY <3>1
    <3>3. request' = Answer(request, r, "error") \/ request' = Answer(rq, r, "ok")
      BY <1>1 DEF WriteRow
    <3> HIDE DEF rq
    <3>4. "error" \in Answers /\ "ok" \in Answers
      BY DEF Answers
    <3> QED BY <3>1, <3>2, <3>3, <3>4, AnswerTypes
  <2>2. grant' \in [Subjects \X Resources -> Roles]
    <3>1. CASE UNCHANGED grant
      BY <3>1 DEF TypeOK
    <3>2. CASE grant' = [grant EXCEPT ![<<q.subject, q.resource>>] = q.role]
      BY <1>0, <3>2 DEF TypeOK, RequestType
    <3> QED BY <1>1, <3>1, <3>2 DEF WriteRow
  <2>3. member' \in [Users -> WorkspaceRoles \cup {NotMember}]
    BY <1>1 DEF WriteRow, TypeOK, WorkspaceRoles
  <2> QED BY <1>1, <2>1, <2>2, <2>3 DEF WriteRow, TypeOK, tree
<1>2. CASE ReplaceDelete(r)
  <2> DEFINE rows == {s \in Subjects : grant[<<s, q.resource>>] # None}
             rec == [q EXCEPT !.at = "wait", !.deleting = rows]
  <2>1. rec \in RequestType
    <3>1. rows \in SUBSET Subjects
      OBVIOUS
    <3> HIDE DEF rows
    <3> QED BY <1>0, <3>1 DEF RequestType, Places
  <2>2. request' = [request EXCEPT ![r] = rec]
    BY <1>2 DEF ReplaceDelete
  <2> HIDE DEF rec
  <2> QED BY <1>2, <2>1, <2>2 DEF ReplaceDelete, TypeOK, tree
<1>3. CASE ReplaceWait(r)
  <2> DEFINE rec == [q EXCEPT !.at = "insert"]
  <2>1. rec \in RequestType
    BY <1>0 DEF RequestType, Places
  <2>2. request' = [request EXCEPT ![r] = rec]
    BY <1>3 DEF ReplaceWait
  <2> HIDE DEF rec
  <2> QED BY <1>3, <2>1, <2>2 DEF ReplaceWait, TypeOK, tree
<1>4. CASE ReplaceInsert(r)
  <2>1. request' \in [Requests -> RequestType]
    <3>1. /\ request \in [Requests -> RequestType]
          /\ Forget(request, q.resource, q.deleting) \in [Requests -> RequestType]
      BY ForgetTypes DEF TypeOK
    <3>2. \/ request' = Answer(request, r, "error")
          \/ request' = Answer(Forget(request, q.resource, q.deleting), r, "ok")
      BY <1>4 DEF ReplaceInsert
    <3>3. "error" \in Answers /\ "ok" \in Answers
      BY DEF Answers
    <3> QED BY <3>1, <3>2, <3>3, AnswerTypes
  <2>2. grant' \in [Subjects \X Resources -> Roles]
    <3>1. CASE UNCHANGED grant
      BY <3>1 DEF TypeOK
    <3>2. CASE ~UNCHANGED grant
      <4>1. q.new \in [Subjects -> Roles]
        BY <1>0 DEF RequestType
      <4>2. PICK keep \in SUBSET (Subjects \X Resources) :
                grant' = [p \in Subjects \X Resources |->
                            IF p \in keep THEN q.new[p[1]] ELSE grant[p]]
        <5> DEFINE keep == {p \in Subjects \X Resources :
                              p[2] = q.resource
                              /\ ~(p[1] \notin q.deleting /\ grant[<<p[1], q.resource>>] # None)}
        <5>1. grant' = [p \in Subjects \X Resources |->
                            IF p \in keep THEN q.new[p[1]] ELSE grant[p]]
          BY <1>4, <3>2 DEF ReplaceInsert
        <5> HIDE DEF keep
        <5>2. keep \in SUBSET (Subjects \X Resources)
          BY DEF keep
        <5> QED BY <5>1, <5>2
      <4> QED BY <4>1, <4>2 DEF TypeOK
    <3> QED BY <3>1, <3>2
  <2> QED BY <1>4, <2>1, <2>2 DEF ReplaceInsert, TypeOK, tree
<1> QED BY <1>1, <1>2, <1>3, <1>4 DEF Handle

LEMMA AdministerTypes ==
    ASSUME TypeOK, Administer
    PROVE  TypeOK'
<1>1. ASSUME NEW f \in Folders, NEW rl \in Roles, SetDefaultRole(f, rl)
      PROVE  TypeOK'
  BY <1>1 DEF SetDefaultRole, TypeOK
<1>2. ASSUME NEW u \in Users, NEW wr \in WorkspaceRoles, AddMember(u, wr)
      PROVE  TypeOK'
  BY <1>2 DEF AddMember, TypeOK, tree
<1>3. ASSUME NEW g \in Groups, NEW u \in Users, AddGroupMember(g, u) \/ RemoveGroupMember(g, u)
      PROVE  TypeOK'
  BY <1>3 DEF AddGroupMember, RemoveGroupMember, TypeOK, tree
<1>4. ASSUME NEW f \in Folders \cup {Root}, SetScope(f)
      PROVE  TypeOK'
  BY <1>4 DEF SetScope, TypeOK, tree
<1>5. ASSUME NEW x \in Resources, DeleteResource(x)
      PROVE  TypeOK'
  <2>1. request' \in [Requests -> RequestType]
    BY <1>5, ForgetTypes DEF DeleteResource, TypeOK
  <2>2. grant' \in [Subjects \X Resources -> Roles]
    BY <1>5 DEF DeleteResource, TypeOK, Roles, None
  <2> QED BY <1>5, <2>1, <2>2 DEF DeleteResource, TypeOK
<1>6. ASSUME NEW d \in Docs, NEW f \in Folders, MoveDocument(d, f)
      PROVE  TypeOK'
  BY <1>6 DEF MoveDocument, TypeOK
<1> QED BY <1>1, <1>2, <1>3, <1>4, <1>5, <1>6 DEF Administer

(* The rows keep their types in every behaviour.                           *)
THEOREM TypesHold == Spec => []TypeOK
<1>1. Init => TypeOK
  <2> SUFFICES ASSUME Init PROVE TypeOK
    OBVIOUS
  <2>1. request \in [Requests -> RequestType]
    BY IdleType DEF Init
  <2>2. /\ live \subseteq Resources /\ placed \in [Docs -> Folders]
        /\ defaultRole \in [Folders -> Roles] /\ group \in [Groups -> SUBSET Users]
        /\ grant \in [Subjects \X Resources -> Roles] /\ scope \in Folders \cup {Root}
    BY PermissionsAssumption, Zenon DEF Init
  <2>3. member \in [Users -> WorkspaceRoles \cup {NotMember}]
    BY PermissionsAssumption, Zenon DEF Init
  <2> QED BY <2>1, <2>2, <2>3 DEF TypeOK
<1>2. TypeOK /\ [Next]_vars => TypeOK'
  <2> SUFFICES ASSUME TypeOK, [Next]_vars PROVE TypeOK'
    OBVIOUS
  <2>1. CASE UNCHANGED vars
    BY <2>1 DEF vars, TypeOK
  <2>2. CASE Next
    BY <2>2, HandleTypes, CheckTypes, AdministerTypes DEF Next
  <2> QED BY <2>1, <2>2
<1> QED BY <1>1, <1>2, PTL DEF Spec

-----------------------------------------------------------------------------
(* The two resolvers.                                                      *)

(* What reaches a user of the folders above, in either resolver.           *)
LEMMA AboveTypes ==
    ASSUME TypeOK, NEW u \in Users, NEW f
    PROVE  /\ Above(f) \subseteq Folders
           /\ \A x \in Resources : GrantsOn(u, x) \subseteq Roles
           /\ \A g \in Above(f) : defaultRole[g] \in Roles
<1>1. Above(f) \subseteq Folders
  BY DEF Above
<1>2. \A s \in SubjectsOf(u) : s \in Subjects
  BY DEF SubjectsOf, Subjects
<1> QED BY <1>1, <1>2 DEF GrantsOn, TypeOK

(* For a folder, both take the strongest of the same roles.                *)
LEMMA FolderRolesAgree ==
    ASSUME TypeOK, NEW u \in Users, NEW f \in Folders, f \in live
    PROVE  WorkspaceFolderRole(u, f) = ResolveFolderRole(u, f)
<1> DEFINE A == Above(f)
           tier == IF member[u] = "viewer" THEN {Viewer} ELSE {}
           floors == IF member[u] = "guest" THEN {} ELSE {defaultRole[g] : g \in A}
           grants == UNION {GrantsOn(u, x) : x \in A}
           both == UNION {(IF member[u] = "guest" THEN {} ELSE {defaultRole[g]}) \cup GrantsOn(u, g)
                            : g \in A}
<1>1. tier \cup both = tier \cup floors \cup grants
  OBVIOUS
<1>2. Strongest(tier \cup both) = Strongest(tier \cup floors \cup grants)
  BY <1>1
<1>3. WorkspaceFolderRole(u, f) = Tiered(u, both)
  BY DEF WorkspaceFolderRole
<1>4. ResolveFolderRole(u, f) = ItemRole(u, A, A)
  BY DEF ResolveFolderRole
<1> QED BY <1>2, <1>3, <1>4 DEF Tiered, ItemRole

(* For a document, the workspace's resolver takes the strongest of the     *)
(* folder's roles first, which changes nothing.                            *)
LEMMA DocumentRolesAgree ==
    ASSUME TypeOK, NEW u \in Users, NEW d \in Docs, d \in live
    PROVE  WorkspaceDocumentRole(u, d) = ResolveDocumentRole(u, d)
<1> DEFINE A == Above(placed[d])
           G == GrantsOn(u, d)
           tier == IF member[u] = "viewer" THEN {Viewer} ELSE {}
           floors == IF member[u] = "guest" THEN {} ELSE {defaultRole[g] : g \in A}
           grants == UNION {GrantsOn(u, x) : x \in A \cup {d}}
           both == UNION {(IF member[u] = "guest" THEN {} ELSE {defaultRole[g]}) \cup GrantsOn(u, g)
                            : g \in A}
           inherited == WorkspaceFolderRole(u, placed[d])
<1>1. /\ G \in SUBSET Roles /\ floors \in SUBSET Roles /\ grants \in SUBSET Roles
      /\ both \in SUBSET Roles /\ tier \in SUBSET Roles
  <2>1. A \subseteq Resources /\ d \in Resources
    BY AboveTypes DEF Resources
  <2> QED BY <2>1, AboveTypes DEF Roles, Viewer
<1>2. both \cup G = floors \cup grants
  OBVIOUS
<1>3. inherited = Tiered(u, both)
  BY DEF WorkspaceFolderRole
<1>4. WorkspaceDocumentRole(u, d) = Tiered(u, {inherited} \cup G)
  BY DEF WorkspaceDocumentRole
<1>5. ResolveDocumentRole(u, d) = ItemRole(u, A, A \cup {d})
  BY DEF ResolveDocumentRole
<1> HIDE DEF A, G, grants, both, floors, inherited
<1>6. CASE member[u] = NotMember
  <2>1. WorkspaceDocumentRole(u, d) = None
    BY <1>6, <1>4 DEF Tiered, NotMember
  <2>2. ResolveDocumentRole(u, d) = None
    BY <1>6, <1>5 DEF ItemRole, NotMember
  <2> QED BY <2>1, <2>2
<1>7. CASE member[u] = "admin"
  BY <1>7, <1>4, <1>5 DEF Tiered, ItemRole, NotMember
<1>8. CASE member[u] = "viewer"
  <2>1. inherited = Viewer
    <3>1. inherited = CapRole(Strongest({Viewer} \cup both), Viewer)
      BY <1>8, <1>3 DEF Tiered, NotMember
    <3>2. {Viewer} \cup both \in SUBSET Roles
      BY <1>1 DEF Roles, Viewer
    <3> QED BY <3>1, <3>2, ViewerTier
  <2>2. WorkspaceDocumentRole(u, d) = Viewer
    <3>1. WorkspaceDocumentRole(u, d)
            = CapRole(Strongest({Viewer} \cup ({inherited} \cup G)), Viewer)
      BY <1>8, <1>4 DEF Tiered, NotMember
    <3>2. {Viewer} \cup ({inherited} \cup G) \in SUBSET Roles
      BY <1>1, <2>1 DEF Roles, Viewer
    <3> QED BY <3>1, <3>2, ViewerTier
  <2>3. ResolveDocumentRole(u, d) = Viewer
    <3>1. ResolveDocumentRole(u, d) = CapRole(Strongest({Viewer} \cup floors \cup grants), Viewer)
      BY <1>8, <1>5 DEF ItemRole, NotMember, floors, grants
    <3>2. {Viewer} \cup floors \cup grants \in SUBSET Roles
      BY <1>1 DEF Roles, Viewer
    <3> QED BY <3>1, <3>2, ViewerTier
  <2> QED BY <2>2, <2>3
<1>9. CASE member[u] \notin {NotMember, "admin", "viewer"}
  <2>1. inherited = Strongest(both)
    <3>1. inherited = Strongest({} \cup both)
      BY <1>9, <1>3 DEF Tiered
    <3>2. {} \cup both = both
      OBVIOUS
    <3> QED BY <3>1, <3>2
  <2>2. WorkspaceDocumentRole(u, d) = Strongest({Strongest(both)} \cup G)
    <3>1. WorkspaceDocumentRole(u, d) = Strongest({} \cup ({inherited} \cup G))
      BY <1>9, <1>4 DEF Tiered
    <3>2. {} \cup ({inherited} \cup G) = {inherited} \cup G
      OBVIOUS
    <3> QED BY <3>1, <3>2, <2>1
  <2>3. ResolveDocumentRole(u, d) = Strongest(floors \cup grants)
    <3>1. ResolveDocumentRole(u, d) = Strongest({} \cup floors \cup grants)
      BY <1>9, <1>5 DEF ItemRole, floors, grants
    <3>2. {} \cup floors \cup grants = floors \cup grants
      OBVIOUS
    <3> QED BY <3>1, <3>2
  <2>4. Strongest({Strongest(both)} \cup G) = Strongest(both \cup G)
    BY <1>1, StrongestOfStrongest
  <2> QED BY <1>2, <2>2, <2>3, <2>4
<1> QED BY <1>6, <1>7, <1>8, <1>9

(* Whatever a user may do with a document or a folder is the same whether  *)
(* it is looked up alone or with the whole workspace.                      *)
THEOREM SameRolesEverywhere == Spec => []ResolversAgree
<1>1. TypeOK => ResolversAgree
  BY FolderRolesAgree, DocumentRolesAgree DEF ResolversAgree
<1> QED BY <1>1, TypesHold, PTL

-----------------------------------------------------------------------------
(* The tiers and the dialog.                                               *)

(* What the resolver answers, in each tier.                                *)
LEMMA RoleOfTier ==
    ASSUME TypeOK, NEW u \in Users, NEW d \in Docs, d \in live
    PROVE  LET A == Above(placed[d])
               floors == {defaultRole[g] : g \in A}
               grants == UNION {GrantsOn(u, x) : x \in A \cup {d}}
               got == ResolveDocumentRole(u, d)
           IN  /\ floors \in SUBSET Roles /\ grants \in SUBSET Roles
               /\ member[u] = NotMember => got = None
               /\ member[u] = "admin" => got = Manager
               /\ member[u] = "viewer" => got = Viewer
               /\ member[u] = "guest" => got = Strongest(grants)
               /\ member[u] = "member" => got = Strongest(floors \cup grants)
<1> DEFINE A == Above(placed[d])
           floors == {defaultRole[g] : g \in A}
           grants == UNION {GrantsOn(u, x) : x \in A \cup {d}}
           got == ResolveDocumentRole(u, d)
<1>1. floors \in SUBSET Roles /\ grants \in SUBSET Roles
  <2>1. A \subseteq Resources /\ d \in Resources
    BY AboveTypes DEF Resources
  <2> QED BY <2>1, AboveTypes
<1>2. got = ItemRole(u, A, A \cup {d})
  BY DEF ResolveDocumentRole
<1> HIDE DEF A, got
<1>3. member[u] = NotMember => got = None
  BY <1>2 DEF ItemRole, NotMember
<1>4. member[u] = "admin" => got = Manager
  BY <1>2 DEF ItemRole, NotMember
<1>5. ASSUME member[u] = "viewer" PROVE got = Viewer
  <2>1. got = CapRole(Strongest({Viewer} \cup floors \cup grants), Viewer)
    BY <1>5, <1>2 DEF ItemRole, NotMember
  <2>2. {Viewer} \cup floors \cup grants \in SUBSET Roles
    BY <1>1 DEF Roles, Viewer
  <2> QED BY <2>1, <2>2, ViewerTier
<1>6. ASSUME member[u] = "guest" PROVE got = Strongest(grants)
  <2>1. got = Strongest({} \cup {} \cup grants)
    BY <1>6, <1>2 DEF ItemRole, NotMember
  <2>2. {} \cup {} \cup grants = grants
    OBVIOUS
  <2> QED BY <2>1, <2>2
<1>7. ASSUME member[u] = "member" PROVE got = Strongest(floors \cup grants)
  <2>1. got = Strongest({} \cup floors \cup grants)
    BY <1>7, <1>2 DEF ItemRole, NotMember
  <2>2. {} \cup floors \cup grants = floors \cup grants
    OBVIOUS
  <2> QED BY <2>1, <2>2
<1> QED BY <1>1, <1>3, <1>4, <1>5, <1>6, <1>7 DEF A, got

(* A viewer of the workspace never writes, a guest has what grants give,   *)
(* and who is no member has nothing.                                       *)
THEOREM TiersAlwaysHold == Spec => []TiersHold
<1>1. TypeOK => TiersHold
  <2> SUFFICES ASSUME TypeOK, NEW u \in Users, NEW d \in Docs \cap live
               PROVE  LET got == WorkspaceDocumentRole(u, d)
                          held == UNION {GrantsOn(u, x) : x \in Above(placed[d]) \cup {d}}
                      IN  /\ member[u] = NotMember => got = None
                          /\ member[u] = "viewer" => got = Viewer
                          /\ member[u] = "guest" => got = Strongest(held)
    BY DEF TiersHold
  <2>1. WorkspaceDocumentRole(u, d) = ResolveDocumentRole(u, d)
    BY DocumentRolesAgree
  <2> QED BY <2>1, RoleOfTier
<1> QED BY <1>1, TypesHold, PTL

(* More roles are at least as strong.                                      *)
LEMMA StrongestMonotone ==
    ASSUME NEW S \in SUBSET Roles, NEW T \in SUBSET Roles, S \subseteq T \cup {None}
    PROVE  Strongest(S) <= Strongest(T)
<1>1. Strongest(S) \in Roles /\ Strongest(S) \in S \cup {None}
  BY StrongestBounds
<1>2. Strongest(T) \in Roles /\ \A t \in T : t <= Strongest(T)
  BY StrongestBounds
<1> QED BY <1>1, <1>2 DEF Roles, None

(* What the permissions dialog calls effective is no more than the user's  *)
(* role, and no less when nothing else is granted.                         *)
THEOREM DialogHolds == Spec => []DialogNeverOverstates
<1>1. TypeOK => DialogNeverOverstates
  <2> SUFFICES ASSUME TypeOK, NEW u \in Users, NEW d \in Docs \cap live,
                      member[u] # NotMember, grant[<<u, d>>] # None
               PROVE  LET shown == DialogRole(u, d)
                          others == (UNION {GrantsOn(u, x) : x \in Above(placed[d])})
                                    \cup {grant[<<s, d>>] : s \in SubjectsOf(u) \ {u}}
                      IN  /\ shown <= ResolveDocumentRole(u, d)
                          /\ others \subseteq {None} => shown = ResolveDocumentRole(u, d)
    BY DEF DialogNeverOverstates
  <2> DEFINE A == Above(placed[d])
             floors == {defaultRole[g] : g \in A}
             grants == UNION {GrantsOn(u, x) : x \in A \cup {d}}
             others == (UNION {GrantsOn(u, x) : x \in A})
                       \cup {grant[<<s, d>>] : s \in SubjectsOf(u) \ {u}}
             own == grant[<<u, d>>]
             got == ResolveDocumentRole(u, d)
             shown == DialogRole(u, d)
  <2>1. /\ floors \in SUBSET Roles /\ grants \in SUBSET Roles
        /\ member[u] = "admin" => got = Manager
        /\ member[u] = "viewer" => got = Viewer
        /\ member[u] = "guest" => got = Strongest(grants)
        /\ member[u] = "member" => got = Strongest(floors \cup grants)
    BY RoleOfTier
  <2>2. own \in grants /\ others \cup {own} = grants
    <3>1. grants = (UNION {GrantsOn(u, x) : x \in A}) \cup GrantsOn(u, d)
      OBVIOUS
    <3>2. GrantsOn(u, d) = {grant[<<s, d>>] : s \in SubjectsOf(u) \ {u}} \cup {own}
      <4>1. u \in SubjectsOf(u)
        BY DEF SubjectsOf
      <4> QED BY <4>1 DEF GrantsOn
    <3> QED BY <3>1, <3>2
  <2>3. /\ member[u] = "admin" => shown = Manager
        /\ member[u] = "guest" => shown = own
        /\ member[u] = "viewer" => shown = CapRole(Strongest({own, Viewer} \cup floors), Viewer)
        /\ member[u] = "member" => shown = Strongest({own} \cup floors)
    BY DEF DialogRole
  <2>4. member[u] \in {"admin", "member", "viewer", "guest"}
    BY DEF TypeOK, WorkspaceRoles
  <2> HIDE DEF A, floors, grants, others, own, got, shown
  <2>5. own \in Roles
    BY <2>1, <2>2
  <2>6. CASE member[u] = "admin"
    BY <2>6, <2>1, <2>3 DEF Manager, shown, got, others, A
  <2>7. CASE member[u] = "viewer"
    <3>1. {own, Viewer} \cup floors \in SUBSET Roles
      BY <2>1, <2>5 DEF Roles, Viewer
    <3>2. shown = Viewer
      BY <3>1, <2>7, <2>3, ViewerTier
    <3> QED BY <3>2, <2>7, <2>1 DEF Viewer, shown, got, others, A
  <2>8. CASE member[u] = "guest"
    <3>1. \A t \in grants : t <= Strongest(grants)
      BY <2>1, StrongestBounds
    <3>2. others \subseteq {None} => Strongest(grants) = own
      <4> SUFFICES ASSUME others \subseteq {None} PROVE Strongest(grants) = own
        OBVIOUS
      <4>1. \A t \in grants : t <= own
        BY <2>2, <2>5 DEF Roles, None
      <4> QED BY <4>1, <2>1, <2>2, <2>5, StrongestIs
    <3> QED BY <3>1, <3>2, <2>8, <2>1, <2>2, <2>3 DEF shown, got, others, A
  <2>9. CASE member[u] = "member"
    <3>1. {own} \cup floors \in SUBSET Roles /\ floors \cup grants \in SUBSET Roles
      BY <2>1, <2>5
    <3>2. shown <= got
      BY <3>1, <2>2, <2>9, <2>1, <2>3, StrongestMonotone
    <3>3. ASSUME others \subseteq {None} PROVE got <= shown
      <4>1. floors \cup grants \subseteq ({own} \cup floors) \cup {None}
        BY <3>3, <2>2
      <4> QED BY <4>1, <3>1, <2>9, <2>1, <2>3, StrongestMonotone
    <3>4. shown \in Roles /\ got \in Roles
      BY <3>1, <2>9, <2>1, <2>3, StrongestBounds
    <3>5. others \subseteq {None} => shown = got
      BY <3>2, <3>3, <3>4 DEF Roles
    <3> QED BY <3>2, <3>5 DEF shown, got, others, A
  <2> QED BY <2>4, <2>6, <2>7, <2>8, <2>9 DEF shown, got, others, A
<1> QED BY <1>1, TypesHold, PTL

(* Whoever asks, by whatever route, gets the role that the tier and the    *)
(* grants give, and is shown no more than that.                            *)
THEOREM RolesAlwaysHold == Spec => []RolesHold
<1> QED BY SameRolesEverywhere, TiersAlwaysHold, DialogHolds, PTL DEF RolesHold

(***************************************************************************)
(* Accounts: sessions and one-time codes.                                  *)
(***************************************************************************)
Steps == {"idle", "login", "change", "replace", "token", "revoke", "approve", "send",
          "issue", "claim", "erase", "done"}

Handler == [at : Steps, op : Steps \cup {"none"}, user : Users \cup {"none"}, typed : Nat,
            password : Nat, version : Nat, code : Codes \cup {"none"},
            kind : SignIn!Kinds \cup {"none"}]

Account == [live : BOOLEAN, password : Nat, version : Nat, verified : BOOLEAN]
Sealed == [user : Users, version : Nat, password : Nat]
Sent == [user : Users, kind : SignIn!Kinds, used : BOOLEAN, expired : BOOLEAN]
CodeRow == {SignIn!Unsent} \cup Sent

(* What a handler under way has found out about whom it serves.            *)
Posed(q) ==
    /\ q.at # "idle" => q.user \in Users
    /\ q.at \in {"send", "issue"} => q.kind \in SignIn!Kinds
    /\ q.at = "claim" => q.code \in Codes

AccountTypes ==
    /\ account \in [Users -> Account]
    /\ cookie \subseteq Sealed
    /\ code \in [Codes -> CodeRow]
    /\ spent \in [Codes -> Nat]
    /\ request \in [Requests -> Handler]
    /\ \A r \in Requests : Posed(request[r])

(* The password goes with the version: it is changed only with it.         *)
Knows(x, accounts) ==
    /\ x.version <= accounts[x.user].version
    /\ x.version = accounts[x.user].version => x.password = accounts[x.user].password

(* A login knows the password of the version it read, and so does every    *)
(* cookie.                                                                 *)
LoginKnows == \A r \in Requests : request[r].at = "login" => Knows(request[r], account)
CookieKnows == \A c \in cookie : Knows(c, account)

(* A code that was honoured is used, and never another one again.          *)
CodesOnce ==
    \A k \in Codes : spent[k] # 0 => spent[k] = 1 /\ code[k].used /\ code[k] # SignIn!Unsent

SessionInv == AccountTypes /\ LoginKnows /\ CookieKnows /\ CodesOnce

LEMMA InitSession == SignIn!Init => SessionInv
  <1> SUFFICES ASSUME SignIn!Init PROVE SessionInv
      OBVIOUS
  <1>1. SignIn!Idle \in Handler /\ SignIn!Idle.at = "idle"
      BY DEF SignIn!Idle, Handler, Steps
  <1>2. request \in [Requests -> Handler] /\ \A r \in Requests : request[r].at = "idle"
      BY <1>1 DEF SignIn!Init
  <1>3. code \in [Codes -> CodeRow] /\ spent \in [Codes -> Nat] /\ \A k \in Codes : spent[k] = 0
      BY DEF SignIn!Init, CodeRow
  <1>4. /\ account \in [Users -> Account]
        /\ \A u \in Users : account[u].version = 0 /\ account[u].password = 1
      BY DEF SignIn!Init, Account
  <1>5. cookie \subseteq Sealed /\ \A c \in cookie : c.version = 0 /\ c.password = 1 /\ c.user \in Users
      BY DEF SignIn!Init, Sealed
  <1>6. AccountTypes
      BY <1>2, <1>3, <1>4, <1>5 DEF AccountTypes, Posed
  <1>7. LoginKnows
      BY <1>2 DEF LoginKnows
  <1>8. CookieKnows
      BY <1>4, <1>5 DEF CookieKnows, Knows
  <1>9. CodesOnce
      BY <1>3 DEF CodesOnce
  <1> QED
      BY <1>6, <1>7, <1>8, <1>9 DEF SessionInv

(* One request goes on, passwords change only with their versions, and     *)
(* what is sealed anew is known.                                           *)
LEMMA SessionStep ==
    ASSUME SessionInv,
           account' \in [Users -> Account],
           \A u \in Users :
               \/ /\ account'[u].version = account[u].version
                  /\ account'[u].password = account[u].password
               \/ account'[u].version = account[u].version + 1,
           NEW r \in Requests, NEW q \in Handler, Posed(q),
           request' = [request EXCEPT ![r] = q], q.at = "login" => Knows(q, account'),
           cookie' \subseteq Sealed, \A c \in cookie' \ cookie : Knows(c, account'),
           code' \in [Codes -> CodeRow], spent' \in [Codes -> Nat], CodesOnce'
    PROVE  SessionInv'
  <1>1. \A k \in Requests : request'[k] = IF k = r THEN q ELSE request[k]
      BY DEF SessionInv, AccountTypes
  <1>2. AccountTypes'
    <2>1. request' \in [Requests -> Handler]
        BY DEF SessionInv, AccountTypes
    <2>2. \A k \in Requests : Posed(request'[k])
        BY <1>1 DEF SessionInv, AccountTypes
    <2> QED
        BY <2>1, <2>2 DEF AccountTypes, Posed
  <1>3. ASSUME NEW u \in Users, NEW n \in Nat, NEW p \in Nat,
               n <= account[u].version, n = account[u].version => p = account[u].password
        PROVE  n <= account'[u].version /\ (n = account'[u].version => p = account'[u].password)
    <2>1. account[u].version \in Nat
        BY DEF SessionInv, AccountTypes, Account
    <2>2. CASE account'[u].version = account[u].version + 1
        BY <1>3, <2>1, <2>2
    <2> QED
        BY <1>3, <2>2
  <1>4. LoginKnows'
    <2> SUFFICES ASSUME NEW k \in Requests, request'[k].at = "login"
                 PROVE  Knows(request'[k], account')
        BY DEF LoginKnows, Knows
    <2>1. CASE k = r
        BY <1>1, <2>1
    <2>2. CASE k # r
      <3> DEFINE x == request[k]
      <3>1. request'[k] = x /\ x.at = "login"
          BY <1>1, <2>2
      <3>2. x \in Handler /\ x.user \in Users
          BY <3>1 DEF SessionInv, AccountTypes, Posed
      <3>3. Knows(x, account)
          BY <3>1 DEF SessionInv, LoginKnows
      <3> HIDE DEF x
      <3>4. x.version \in Nat /\ x.password \in Nat
          BY <3>2 DEF Handler
      <3>5. Knows(x, account')
          BY <1>3, <3>2, <3>3, <3>4 DEF Knows
      <3> QED
          BY <3>1, <3>5 DEF Knows
    <2> QED
        BY <2>1, <2>2
  <1>5. CookieKnows'
    <2> SUFFICES ASSUME NEW x \in cookie' PROVE Knows(x, account')
        BY DEF CookieKnows, Knows
    <2>1. CASE x \in cookie
      <3>1. x \in Sealed /\ Knows(x, account)
          BY <2>1 DEF SessionInv, AccountTypes, CookieKnows
      <3>2. x.user \in Users /\ x.version \in Nat /\ x.password \in Nat
          BY <3>1 DEF Sealed
      <3> QED
          BY <1>3, <3>1, <3>2 DEF Knows
    <2> QED
        BY <2>1
  <1> QED
      BY <1>2, <1>4, <1>5 DEF SessionInv

(* A handler that goes on to its next step.                                *)
LEMMA GotoStep ==
    ASSUME SessionInv,
           account' \in [Users -> Account],
           \A u \in Users :
               \/ /\ account'[u].version = account[u].version
                  /\ account'[u].password = account[u].password
               \/ account'[u].version = account[u].version + 1,
           NEW r \in Requests, NEW at \in {"replace", "issue", "erase", "done"},
           SignIn!Goto(r, at), ~SignIn!At(r, "idle"),
           at = "issue" => request[r].kind \in SignIn!Kinds,
           cookie' \subseteq Sealed, \A c \in cookie' \ cookie : Knows(c, account'),
           code' \in [Codes -> CodeRow], spent' \in [Codes -> Nat], CodesOnce'
    PROVE  SessionInv'
  <1> DEFINE q == [request[r] EXCEPT !.at = at]
  <1>1. request[r] \in Handler /\ Posed(request[r]) /\ request[r].at # "idle"
      BY DEF SessionInv, AccountTypes, SignIn!At
  <1>2. q \in Handler /\ q.at = at /\ q.user = request[r].user /\ q.kind = request[r].kind
      BY <1>1 DEF Handler, Steps
  <1>3. request' = [request EXCEPT ![r] = q]
      BY DEF SignIn!Goto
  <1> HIDE DEF q
  <1>4. Posed(q) /\ q.at # "login"
      BY <1>1, <1>2 DEF Posed
  <1> QED
      BY <1>2, <1>3, <1>4, SessionStep

(* A handler that goes on and leaves the rows alone.                       *)
LEMMA QuietStep ==
    ASSUME SessionInv, UNCHANGED <<account, cookie, code, spent>>,
           NEW r \in Requests, NEW q \in Handler, Posed(q),
           request' = [request EXCEPT ![r] = q], q.at = "login" => Knows(q, account)
    PROVE  SessionInv'
  <1>1. account' \in [Users -> Account] /\ cookie' \subseteq Sealed
        /\ code' \in [Codes -> CodeRow] /\ spent' \in [Codes -> Nat]
      BY DEF SessionInv, AccountTypes
  <1>2. CodesOnce'
      BY DEF SessionInv, CodesOnce
  <1>3. q.at = "login" => Knows(q, account')
      BY DEF Knows
  <1> QED
      BY <1>1, <1>2, <1>3, SessionStep

LEMMA QuietGoto ==
    ASSUME SessionInv, UNCHANGED <<account, cookie, code, spent>>,
           NEW r \in Requests, NEW at \in {"replace", "issue", "erase", "done"},
           SignIn!Goto(r, at), ~SignIn!At(r, "idle"),
           at = "issue" => request[r].kind \in SignIn!Kinds
    PROVE  SessionInv'
  <1>1. account' \in [Users -> Account] /\ cookie' \subseteq Sealed
        /\ code' \in [Codes -> CodeRow] /\ spent' \in [Codes -> Nat]
      BY DEF SessionInv, AccountTypes
  <1>2. CodesOnce'
      BY DEF SessionInv, CodesOnce
  <1> QED
      BY <1>1, <1>2, GotoStep

LEMMA LoginSteps ==
    ASSUME SessionInv, NEW r \in Requests,
           \/ \E u \in Users, p \in 1 .. MaxPasswords : SignIn!BeginLogin(r, u, p)
           \/ SignIn!Login(r)
           \/ \E u \in Users, op \in {"change", "token", "revoke", "approve"} :
                 SignIn!Authenticate(r, op, u)
           \/ \E p \in 1 .. MaxPasswords : SignIn!VerifyPassword(r, p)
           \/ \E u \in Users, kind \in SignIn!Kinds : SignIn!BeginSend(r, u, kind)
           \/ \E k \in Codes : SignIn!ReadCode(r, k)
    PROVE  SessionInv'
  <1>1. /\ \A u \in Users : account[u] \in Account
        /\ request[r] \in Handler /\ Posed(request[r])
      BY DEF SessionInv, AccountTypes
  <1>2. ASSUME NEW u \in Users, NEW p \in 1 .. MaxPasswords, SignIn!BeginLogin(r, u, p)
        PROVE  SessionInv'
    <2> DEFINE q == [SignIn!Begin(r, "login", u) EXCEPT !.typed = p,
                       !.password = account[u].password, !.version = account[u].version]
    <2>1. account[u].password \in Nat /\ account[u].version \in Nat /\ p \in Nat
        BY <1>1 DEF Account
    <2>2. q \in Handler /\ q.at = "login" /\ q.user = u /\ q.version = account[u].version
          /\ q.password = account[u].password
        BY <2>1 DEF Handler, Steps, SignIn!Begin, SignIn!Idle
    <2>3. request' = [request EXCEPT ![r] = q] /\ UNCHANGED <<account, cookie, code, spent>>
        BY <1>2 DEF SignIn!BeginLogin
    <2> HIDE DEF q
    <2>4. Posed(q) /\ Knows(q, account)
        BY <2>1, <2>2 DEF Posed, Knows
    <2> QED
        BY <2>2, <2>3, <2>4, QuietStep
  <1>3. ASSUME SignIn!Login(r)
        PROVE  SessionInv'
    <2> DEFINE q == request[r]
               c == [user |-> q.user, version |-> q.version, password |-> q.typed]
    <2>1. /\ q.at = "login" /\ SignIn!Goto(r, "done") /\ ~SignIn!At(r, "idle")
          /\ UNCHANGED <<account, code, spent>>
        BY <1>3 DEF SignIn!Login, SignIn!At
    <2>2. cookie' = cookie \/ (q.typed = q.password /\ cookie' = cookie \cup {c})
        BY <1>3 DEF SignIn!Login
    <2>3. Knows(q, account) /\ q.user \in Users /\ q.version \in Nat /\ q.typed \in Nat
        BY <1>1, <2>1 DEF SessionInv, LoginKnows, Posed, Handler
    <2>4. /\ c \in Sealed /\ c.user = q.user /\ c.version = q.version
          /\ c.password = q.typed
        BY <2>3 DEF Sealed
    <2> HIDE DEF c
    <2>5. q.typed = q.password => Knows(c, account')
        BY <2>1, <2>3, <2>4 DEF Knows
    <2>6. cookie' \subseteq Sealed /\ \A x \in cookie' \ cookie : Knows(x, account')
        BY <2>2, <2>4, <2>5 DEF SessionInv, AccountTypes
    <2>7. /\ account' \in [Users -> Account] /\ code' \in [Codes -> CodeRow]
          /\ spent' \in [Codes -> Nat] /\ CodesOnce'
        BY <2>1 DEF SessionInv, AccountTypes, CodesOnce
    <2> QED
        BY <2>1, <2>6, <2>7, GotoStep
  <1>4. ASSUME NEW u \in Users, NEW op \in {"change", "token", "revoke", "approve"},
               SignIn!Authenticate(r, op, u)
        PROVE  SessionInv'
    <2> DEFINE q == SignIn!Begin(r, op, u)
    <2>1. q \in Handler /\ q.at = op /\ q.user = u
        BY DEF Handler, Steps, SignIn!Begin, SignIn!Idle
    <2>2. request' = [request EXCEPT ![r] = q] /\ UNCHANGED <<account, cookie, code, spent>>
        BY <1>4 DEF SignIn!Authenticate
    <2> HIDE DEF q
    <2>3. Posed(q) /\ q.at # "login"
        BY <2>1 DEF Posed
    <2> QED
        BY <2>1, <2>2, <2>3, QuietStep
  <1>5. ASSUME NEW p \in 1 .. MaxPasswords, SignIn!VerifyPassword(r, p)
        PROVE  SessionInv'
    <2> DEFINE at == IF p = account[request[r].user].password THEN "replace" ELSE "done"
               q == [request[r] EXCEPT !.typed = p, !.at = at]
    <2>1. at \in {"replace", "done"} /\ p \in Nat
        OBVIOUS
    <2>2. request' = [request EXCEPT ![r] = q] /\ UNCHANGED <<account, cookie, code, spent>>
          /\ request[r].at # "idle"
        BY <1>5 DEF SignIn!VerifyPassword, SignIn!At
    <2> HIDE DEF at
    <2>3. q \in Handler /\ q.at = at /\ q.user = request[r].user
        BY <1>1, <2>1 DEF Handler, Steps
    <2> HIDE DEF q
    <2>4. Posed(q) /\ q.at # "login"
        BY <1>1, <2>1, <2>2, <2>3 DEF Posed
    <2> QED
        BY <2>2, <2>3, <2>4, QuietStep
  <1>6. ASSUME NEW u \in Users, NEW kind \in SignIn!Kinds, SignIn!BeginSend(r, u, kind)
        PROVE  SessionInv'
    <2> DEFINE q == [SignIn!Begin(r, "send", u) EXCEPT !.kind = kind]
    <2>1. q \in Handler /\ q.at = "send" /\ q.user = u /\ q.kind = kind
        BY DEF Handler, Steps, SignIn!Begin, SignIn!Idle
    <2>2. request' = [request EXCEPT ![r] = q] /\ UNCHANGED <<account, cookie, code, spent>>
        BY <1>6 DEF SignIn!BeginSend
    <2> HIDE DEF q
    <2>3. Posed(q) /\ q.at # "login"
        BY <2>1 DEF Posed
    <2> QED
        BY <2>1, <2>2, <2>3, QuietStep
  <1>7. ASSUME NEW k \in Codes, SignIn!ReadCode(r, k)
        PROVE  SessionInv'
    <2> DEFINE u == code[k].user
               q == [SignIn!Begin(r, "claim", u) EXCEPT !.code = k, !.kind = code[k].kind]
    <2>1. u \in Users /\ code[k].kind \in SignIn!Kinds
      <3>1. code[k] \in Sent
          BY <1>7 DEF SessionInv, AccountTypes, CodeRow, SignIn!ReadCode
      <3> QED
          BY <3>1 DEF Sent
    <2>2. q \in Handler /\ q.at = "claim" /\ q.user = u /\ q.code = k
        BY <2>1 DEF Handler, Steps, SignIn!Begin, SignIn!Idle
    <2>3. request' = [request EXCEPT ![r] = q] /\ UNCHANGED <<account, cookie, code, spent>>
        BY <1>7 DEF SignIn!ReadCode
    <2> HIDE DEF q
    <2>4. Posed(q) /\ q.at # "login"
        BY <2>1, <2>2 DEF Posed
    <2> QED
        BY <2>2, <2>3, <2>4, QuietStep
  <1> QED
      BY <1>2, <1>3, <1>4, <1>5, <1>6, <1>7

(* A code marked used is a row of the table as before.                     *)
LEMMA UsedRow ==
    ASSUME NEW c \in CodeRow
    PROVE  /\ [c EXCEPT !.used = TRUE] \in CodeRow
           /\ [c EXCEPT !.used = TRUE].used
           /\ c # SignIn!Unsent => [c EXCEPT !.used = TRUE] # SignIn!Unsent
           /\ [c EXCEPT !.expired = TRUE] \in CodeRow
           /\ c.used => [c EXCEPT !.expired = TRUE].used
           /\ c # SignIn!Unsent => [c EXCEPT !.expired = TRUE] # SignIn!Unsent
  <1>1. SignIn!Unsent \notin Sent
      BY DEF SignIn!Unsent, Sent, SignIn!Kinds
  <1>2. CASE c = SignIn!Unsent
    <2> DEFINE Row == [user : {"none"}, kind : {"none"}, used : {TRUE}, expired : {TRUE}]
    <2>0. ASSUME NEW x \in Row PROVE x = SignIn!Unsent
        BY DEF SignIn!Unsent
    <2>1. c \in Row
        BY <1>2 DEF SignIn!Unsent
    <2>2. [c EXCEPT !.used = TRUE] \in Row /\ [c EXCEPT !.expired = TRUE] \in Row
        BY <2>1
    <2> HIDE DEF Row
    <2>3. [c EXCEPT !.used = TRUE] = c /\ [c EXCEPT !.expired = TRUE] = c
        BY <1>2, <2>0, <2>2
    <2>4. c.used
        BY <1>2 DEF SignIn!Unsent
    <2> QED
        BY <1>2, <2>3, <2>4
  <1>3. CASE c \in Sent
    <2>1. /\ [c EXCEPT !.used = TRUE] \in Sent /\ [c EXCEPT !.expired = TRUE] \in Sent
          /\ [c EXCEPT !.used = TRUE].used /\ [c EXCEPT !.expired = TRUE].used = c.used
        BY <1>3 DEF Sent
    <2> QED
        BY <1>1, <2>1 DEF CodeRow
  <1> QED
      BY <1>2, <1>3 DEF CodeRow

LEMMA RetiredCodes ==
    ASSUME SessionInv, NEW u, NEW kind
    PROVE  /\ SignIn!Retired(u, kind) \in [Codes -> CodeRow]
           /\ \A k \in Codes : spent[k] = 1 =>
                 /\ SignIn!Retired(u, kind)[k].used
                 /\ SignIn!Retired(u, kind)[k] # SignIn!Unsent
  <1>1. \A k \in Codes : code[k] \in CodeRow
      BY DEF SessionInv, AccountTypes
  <1>2. \A k \in Codes : \/ SignIn!Retired(u, kind)[k] = code[k]
                         \/ SignIn!Retired(u, kind)[k] = [code[k] EXCEPT !.used = TRUE]
      BY DEF SignIn!Retired
  <1>3. \A k \in Codes : SignIn!Retired(u, kind)[k] \in CodeRow
      BY <1>1, <1>2, UsedRow
  <1>4. SignIn!Retired(u, kind) \in [Codes -> CodeRow]
      BY <1>3 DEF SignIn!Retired
  <1>5. ASSUME NEW k \in Codes, spent[k] = 1
        PROVE  SignIn!Retired(u, kind)[k].used /\ SignIn!Retired(u, kind)[k] # SignIn!Unsent
    <2>1. code[k].used /\ code[k] # SignIn!Unsent /\ code[k] \in CodeRow
        BY <1>1, <1>5 DEF SessionInv, CodesOnce
    <2>2. /\ [code[k] EXCEPT !.used = TRUE].used
          /\ [code[k] EXCEPT !.used = TRUE] # SignIn!Unsent
        BY <2>1, UsedRow
    <2> QED
        BY <1>2, <2>1, <2>2
  <1> QED
      BY <1>4, <1>5

(* Steps that change codes only.                                           *)
LEMMA CodeSteps ==
    ASSUME SessionInv, NEW r \in Requests,
           SignIn!RetireCodes(r) \/ \E k \in Codes : SignIn!IssueCode(r, k)
    PROVE  SessionInv'
  <1> DEFINE q == request[r]
             Retired == SignIn!Retired(q.user, q.kind)
  <1>1. /\ q \in Handler /\ Posed(q) /\ account \in [Users -> Account] /\ cookie \subseteq Sealed
        /\ code \in [Codes -> CodeRow] /\ spent \in [Codes -> Nat]
      BY DEF SessionInv, AccountTypes
  <1>2. Retired \in [Codes -> CodeRow] /\ \A k \in Codes : spent[k] = 1 => Retired[k].used /\ Retired[k] # SignIn!Unsent
      BY RetiredCodes
  <1>3. \A k \in Codes : spent[k] = 0 \/ (spent[k] = 1 /\ code[k].used /\ code[k] # SignIn!Unsent)
      BY DEF SessionInv, CodesOnce
  <1>4. CASE SignIn!RetireCodes(r)
    <2>1. /\ q.at = "send" /\ code' = Retired /\ SignIn!Goto(r, "issue")
          /\ UNCHANGED <<account, cookie, spent>>
        BY <1>4 DEF SignIn!RetireCodes, SignIn!At
    <2> HIDE DEF Retired
    <2>2. CodesOnce' /\ code' \in [Codes -> CodeRow]
        BY <1>2, <1>3, <2>1 DEF CodesOnce
    <2>3. ~SignIn!At(r, "idle") /\ q.kind \in SignIn!Kinds
        BY <1>1, <2>1 DEF SignIn!At, Posed
    <2> QED
        BY <1>1, <2>1, <2>2, <2>3, GotoStep
  <1>5. ASSUME NEW k \in Codes, SignIn!IssueCode(r, k)
        PROVE  SessionInv'
    <2> DEFINE before == IF q.kind = "delete" THEN Retired ELSE code
               c == [user |-> q.user, kind |-> q.kind, used |-> FALSE, expired |-> FALSE]
    <2>1. /\ q.at \in {"send", "issue"} /\ code[k] = SignIn!Unsent
          /\ code' = [before EXCEPT ![k] = c] /\ SignIn!Goto(r, "done")
          /\ UNCHANGED <<account, cookie, spent>>
        BY <1>5 DEF SignIn!IssueCode, SignIn!At
    <2>2. q.user \in Users /\ q.kind \in SignIn!Kinds
        BY <1>1, <2>1 DEF Posed
    <2>3. c \in CodeRow
        BY <2>2 DEF CodeRow, Sent
    <2>4. /\ before \in [Codes -> CodeRow]
          /\ \A j \in Codes : spent[j] = 1 => before[j].used /\ before[j] # SignIn!Unsent
        BY <1>1, <1>2, <1>3
    <2> HIDE DEF before, c, Retired
    <2>5. spent[k] = 0
        BY <1>3, <2>1
    <2>6. code' \in [Codes -> CodeRow]
        BY <2>1, <2>3, <2>4
    <2>7. CodesOnce'
        BY <1>3, <2>1, <2>4, <2>5 DEF CodesOnce
    <2>8. ~SignIn!At(r, "idle")
        BY <2>1 DEF SignIn!At
    <2> QED
        BY <1>1, <2>1, <2>6, <2>7, <2>8, GotoStep
  <1> QED
      BY <1>4, <1>5

(* The one who claims a code finds it unused.                              *)
LEMMA ClaimSpends ==
    ASSUME SessionInv, NEW r \in Requests, SignIn!Claimable(r),
           code' = [code EXCEPT ![request[r].code].used = TRUE],
           spent' = [spent EXCEPT ![request[r].code] = @ + 1]
    PROVE  code' \in [Codes -> CodeRow] /\ spent' \in [Codes -> Nat] /\ CodesOnce'
  <1> DEFINE k == request[r].code
             c == [code[k] EXCEPT !.used = TRUE]
  <1>1. k \in Codes /\ ~code[k].used
      BY DEF SessionInv, AccountTypes, Posed, SignIn!Claimable, SignIn!At, SignIn!Usable
  <1>2. code[k] \in CodeRow /\ code \in [Codes -> CodeRow] /\ spent \in [Codes -> Nat]
      BY <1>1 DEF SessionInv, AccountTypes
  <1>3. spent[k] = 0
      BY <1>1 DEF SessionInv, CodesOnce
  <1>4. code[k] # SignIn!Unsent
      BY <1>1 DEF SignIn!Unsent
  <1>5. c \in CodeRow /\ c.used /\ c # SignIn!Unsent
      BY <1>2, <1>4, UsedRow
  <1>6. code' = [code EXCEPT ![k] = c]
      OBVIOUS
  <1> HIDE DEF c, k
  <1>7. spent' = [spent EXCEPT ![k] = 1]
      BY <1>1, <1>2, <1>3 DEF k
  <1>8. code' \in [Codes -> CodeRow] /\ spent' \in [Codes -> Nat]
      BY <1>1, <1>2, <1>5, <1>6, <1>7
  <1>9. \A j \in Codes : code'[j] = (IF j = k THEN c ELSE code[j])
                         /\ spent'[j] = (IF j = k THEN 1 ELSE spent[j])
      BY <1>1, <1>2, <1>6, <1>7
  <1>10. CodesOnce'
    <2>1. ASSUME NEW j \in Codes, spent'[j] # 0
          PROVE  spent'[j] = 1 /\ code'[j].used /\ code'[j] # SignIn!Unsent
      <3>1. CASE j = k
          BY <1>5, <1>9, <3>1
      <3>2. CASE j # k
          BY <1>9, <2>1, <3>2 DEF SessionInv, CodesOnce
      <3> QED
          BY <3>1, <3>2
    <2> QED
        BY <2>1 DEF CodesOnce
  <1> QED
      BY <1>8, <1>10

(* The password of one account is replaced together with its version.      *)
LEMMA NextVersion ==
    ASSUME SessionInv, NEW u \in Users, NEW p \in Nat,
           account' = [account EXCEPT ![u].password = p, ![u].version = @ + 1]
    PROVE  /\ account' \in [Users -> Account]
           /\ account[u].version + 1 \in Nat
           /\ account'[u].password = p /\ account'[u].version = account[u].version + 1
           /\ \A v \in Users :
                 \/ /\ account'[v].version = account[v].version
                    /\ account'[v].password = account[v].password
                 \/ account'[v].version = account[v].version + 1
  <1> DEFINE n == account[u].version + 1
             a == [account[u] EXCEPT !.password = p, !.version = n]
  <1>1. account \in [Users -> Account] /\ account[u] \in Account
      BY DEF SessionInv, AccountTypes
  <1>2. n \in Nat
      BY <1>1 DEF Account
  <1>3. account' = [account EXCEPT ![u] = a]
      BY <1>1 DEF Account
  <1> HIDE DEF n
  <1>4. a \in Account /\ a.password = p /\ a.version = n
      BY <1>1, <1>2 DEF Account
  <1> HIDE DEF a
  <1>5. account' \in [Users -> Account] /\ account'[u] = a
        /\ \A v \in Users : v # u => account'[v] = account[v]
      BY <1>1, <1>3, <1>4
  <1> QED
      BY <1>2, <1>4, <1>5 DEF n

(* Versions and passwords stay while another flag of a row changes.        *)
LEMMA FlagChange ==
    ASSUME SessionInv, NEW u \in Users,
           \/ account' = account
           \/ account' = [account EXCEPT ![u].verified = TRUE]
           \/ account' = [account EXCEPT ![u].live = FALSE]
    PROVE  /\ account' \in [Users -> Account]
           /\ \A v \in Users : /\ account'[v].version = account[v].version
                               /\ account'[v].password = account[v].password
  <1>1. account \in [Users -> Account] /\ account[u] \in Account
      BY DEF SessionInv, AccountTypes
  <1>2. CASE account' = account
      BY <1>1, <1>2
  <1>3. ASSUME NEW a \in Account, a.version = account[u].version, a.password = account[u].password,
               account' = [account EXCEPT ![u] = a]
        PROVE  /\ account' \in [Users -> Account]
               /\ \A v \in Users : /\ account'[v].version = account[v].version
                                   /\ account'[v].password = account[v].password
      BY <1>1, <1>3
  <1>4. CASE account' = [account EXCEPT ![u].verified = TRUE]
    <2> DEFINE a == [account[u] EXCEPT !.verified = TRUE]
    <2>1. a \in Account /\ a.version = account[u].version /\ a.password = account[u].password
        BY <1>1 DEF Account
    <2>2. account' = [account EXCEPT ![u] = a]
        BY <1>4
    <2> HIDE DEF a
    <2> QED
        BY <1>3, <2>1, <2>2
  <1>5. CASE account' = [account EXCEPT ![u].live = FALSE]
    <2> DEFINE a == [account[u] EXCEPT !.live = FALSE]
    <2>1. a \in Account /\ a.version = account[u].version /\ a.password = account[u].password
        BY <1>1 DEF Account
    <2>2. account' = [account EXCEPT ![u] = a]
        BY <1>5
    <2> HIDE DEF a
    <2> QED
        BY <1>3, <2>1, <2>2
  <1> QED
      BY <1>2, <1>4, <1>5

LEMMA PasswordSteps ==
    ASSUME SessionInv, NEW r \in Requests, NEW p \in 1 .. MaxPasswords,
           SignIn!ChangePassword(r, p) \/ SignIn!ResetPassword(r, p)
    PROVE  SessionInv'
  <1> DEFINE q == request[r]
             u == q.user
  <1>1. q \in Handler /\ Posed(q) /\ cookie \subseteq Sealed /\ p \in Nat
      BY DEF SessionInv, AccountTypes
  <1>2. CASE SignIn!ChangePassword(r, p)
    <2> DEFINE c == [user |-> u, version |-> account[u].version + 1, password |-> p]
    <2>1. /\ q.at = "replace"
          /\ account' = [account EXCEPT ![u].password = p, ![u].version = @ + 1]
          /\ cookie' = cookie \cup {c} /\ SignIn!Goto(r, "done") /\ UNCHANGED <<code, spent>>
        BY <1>2 DEF SignIn!ChangePassword, SignIn!At
    <2>2. u \in Users /\ ~SignIn!At(r, "idle")
        BY <1>1, <2>1 DEF Posed, SignIn!At
    <2> HIDE DEF u
    <2>3. /\ account' \in [Users -> Account]
          /\ account[u].version + 1 \in Nat
          /\ account'[u].password = p /\ account'[u].version = account[u].version + 1
          /\ \A v \in Users :
                \/ /\ account'[v].version = account[v].version
                   /\ account'[v].password = account[v].password
                \/ account'[v].version = account[v].version + 1
        BY <1>1, <2>1, <2>2, NextVersion
    <2>4. c \in Sealed /\ c.user = u /\ c.version = account[u].version + 1 /\ c.password = p
        BY <1>1, <2>2, <2>3 DEF Sealed
    <2> HIDE DEF c
    <2>5. Knows(c, account')
        BY <2>3, <2>4 DEF Knows
    <2>6. cookie' \subseteq Sealed /\ \A x \in cookie' \ cookie : Knows(x, account')
        BY <1>1, <2>1, <2>4, <2>5
    <2>7. code' \in [Codes -> CodeRow] /\ spent' \in [Codes -> Nat] /\ CodesOnce'
        BY <2>1 DEF SessionInv, AccountTypes, CodesOnce
    <2> QED
        BY <2>1, <2>2, <2>3, <2>6, <2>7, GotoStep
  <1>3. CASE SignIn!ResetPassword(r, p)
    <2>1. /\ SignIn!Claimable(r) /\ code' = [code EXCEPT ![q.code].used = TRUE]
          /\ spent' = [spent EXCEPT ![q.code] = @ + 1]
          /\ account' = [account EXCEPT ![u].password = p, ![u].version = @ + 1]
          /\ cookie' = cookie /\ SignIn!Goto(r, "done")
        BY <1>3 DEF SignIn!ResetPassword
    <2>2. u \in Users /\ ~SignIn!At(r, "idle")
        BY <1>1, <2>1 DEF Posed, SignIn!At, SignIn!Claimable
    <2> HIDE DEF u
    <2>3. /\ account' \in [Users -> Account]
          /\ \A v \in Users :
                \/ /\ account'[v].version = account[v].version
                   /\ account'[v].password = account[v].password
                \/ account'[v].version = account[v].version + 1
        BY <1>1, <2>1, <2>2, NextVersion
    <2>4. code' \in [Codes -> CodeRow] /\ spent' \in [Codes -> Nat] /\ CodesOnce'
        BY <2>1, ClaimSpends
    <2>5. cookie' \subseteq Sealed /\ \A x \in cookie' \ cookie : Knows(x, account')
        BY <1>1, <2>1
    <2> QED
        BY <2>1, <2>2, <2>3, <2>4, <2>5, GotoStep
  <1> QED
      BY <1>2, <1>3

LEMMA ClaimSteps ==
    ASSUME SessionInv, NEW r \in Requests, SignIn!VerifyEmail(r) \/ SignIn!ClaimDeletion(r)
    PROVE  SessionInv'
  <1> DEFINE q == request[r]
             u == q.user
  <1>1. q \in Handler /\ Posed(q) /\ cookie \subseteq Sealed
      BY DEF SessionInv, AccountTypes
  <1>2. /\ SignIn!Claimable(r) /\ code' = [code EXCEPT ![q.code].used = TRUE]
        /\ spent' = [spent EXCEPT ![q.code] = @ + 1]
        /\ account' = account \/ account' = [account EXCEPT ![u].verified = TRUE]
        /\ cookie' = cookie
        /\ SignIn!Goto(r, "done") \/ SignIn!Goto(r, "erase")
      BY DEF SignIn!VerifyEmail, SignIn!ClaimDeletion
  <1>3. u \in Users /\ ~SignIn!At(r, "idle")
      BY <1>1, <1>2 DEF Posed, SignIn!At, SignIn!Claimable
  <1> HIDE DEF u
  <1>4. /\ account' \in [Users -> Account]
        /\ \A v \in Users : /\ account'[v].version = account[v].version
                            /\ account'[v].password = account[v].password
      BY <1>2, <1>3, FlagChange
  <1>5. code' \in [Codes -> CodeRow] /\ spent' \in [Codes -> Nat] /\ CodesOnce'
      BY <1>2, ClaimSpends
  <1>6. cookie' \subseteq Sealed /\ \A x \in cookie' \ cookie : Knows(x, account')
      BY <1>1, <1>2
  <1> QED
      BY <1>2, <1>3, <1>4, <1>5, <1>6, GotoStep

LEMMA EraseStep ==
    ASSUME SessionInv, NEW r \in Requests, SignIn!DeleteAccount(r)
    PROVE  SessionInv'
  <1> DEFINE q == request[r]
             u == q.user
  <1>1. q \in Handler /\ Posed(q) /\ cookie \subseteq Sealed /\ code \in [Codes -> CodeRow]
      BY DEF SessionInv, AccountTypes
  <1>2. /\ q.at = "erase"
        /\ account' = account \/ account' = [account EXCEPT ![u].live = FALSE]
        /\ \/ code' = code
           \/ code' = [k \in Codes |-> IF code[k].user = u THEN [code[k] EXCEPT !.used = TRUE]
                                       ELSE code[k]]
        /\ UNCHANGED <<cookie, spent>> /\ SignIn!Goto(r, "done")
      BY DEF SignIn!DeleteAccount, SignIn!At
  <1>3. u \in Users /\ ~SignIn!At(r, "idle")
      BY <1>1, <1>2 DEF Posed, SignIn!At
  <1> HIDE DEF u
  <1>4. /\ account' \in [Users -> Account]
        /\ \A v \in Users : /\ account'[v].version = account[v].version
                            /\ account'[v].password = account[v].password
      BY <1>2, <1>3, FlagChange
  <1>5. \A k \in Codes : code'[k] = code[k] \/ code'[k] = [code[k] EXCEPT !.used = TRUE]
      BY <1>2
  <1>6. \A k \in Codes : code'[k] \in CodeRow /\ (code[k].used => code'[k].used)
                         /\ (code[k] # SignIn!Unsent => code'[k] # SignIn!Unsent)
      BY <1>1, <1>5, UsedRow
  <1>7. code' \in [Codes -> CodeRow]
    <2>1. DOMAIN code' = Codes /\ code' = [k \in Codes |-> code'[k]]
        BY <1>1, <1>2
    <2> QED
        BY <1>6, <2>1
  <1>8. spent' \in [Codes -> Nat] /\ CodesOnce'
      BY <1>2, <1>6 DEF SessionInv, AccountTypes, CodesOnce
  <1>9. cookie' \subseteq Sealed /\ \A x \in cookie' \ cookie : Knows(x, account')
      BY <1>1, <1>2
  <1> QED
      BY <1>2, <1>3, <1>4, <1>7, <1>8, <1>9, GotoStep

(* A code runs out, or a device goes on.                                   *)
LEMMA OtherSteps ==
    ASSUME SessionInv, UNCHANGED <<account, cookie, spent, request>>,
           code' = code \/ \E k \in Codes : SignIn!ExpireCode(k)
    PROVE  SessionInv'
  <1>1. code \in [Codes -> CodeRow]
      BY DEF SessionInv, AccountTypes
  <1>2. \A j \in Codes : code'[j] = code[j] \/ code'[j] = [code[j] EXCEPT !.expired = TRUE]
    <2>1. ASSUME NEW k \in Codes, code' = [code EXCEPT ![k].expired = TRUE]
          PROVE  \A j \in Codes : code'[j] = code[j] \/ code'[j] = [code[j] EXCEPT !.expired = TRUE]
        BY <1>1, <2>1
    <2> QED
        BY <2>1 DEF SignIn!ExpireCode
  <1>3. \A j \in Codes : code'[j] \in CodeRow /\ (code[j].used => code'[j].used)
                         /\ (code[j] # SignIn!Unsent => code'[j] # SignIn!Unsent)
      BY <1>1, <1>2, UsedRow
  <1>4. code' \in [Codes -> CodeRow]
    <2>1. ASSUME NEW k \in Codes, code' = [code EXCEPT ![k].expired = TRUE]
          PROVE  code' \in [Codes -> CodeRow]
      <3>1. DOMAIN code' = Codes /\ code' = [j \in Codes |-> code'[j]]
          BY <1>1, <2>1
      <3> QED
          BY <1>3, <3>1
    <2> QED
        BY <1>1, <2>1 DEF SignIn!ExpireCode
  <1>5. CodesOnce'
      BY <1>3 DEF SessionInv, CodesOnce
  <1>6. AccountTypes'
      BY <1>4 DEF SessionInv, AccountTypes, Posed
  <1>7. LoginKnows' /\ CookieKnows'
      BY DEF SessionInv, LoginKnows, CookieKnows, Knows
  <1> QED
      BY <1>5, <1>6, <1>7 DEF SessionInv

LEMMA NextSession ==
    ASSUME SessionInv, [SignIn!Next]_SignIn!vars
    PROVE  SessionInv'
  <1>1. CASE UNCHANGED SignIn!vars
      BY <1>1, OtherSteps DEF SignIn!vars
  <1>2. ASSUME NEW r \in Requests,
               \/ \E u \in Users, p \in 1..MaxPasswords : SignIn!BeginLogin(r, u, p)
               \/ SignIn!Login(r)
               \/ \E u \in Users, op \in {"change", "token", "revoke", "approve"} :
                     SignIn!Authenticate(r, op, u)
               \/ \E p \in 1..MaxPasswords : SignIn!VerifyPassword(r, p) \/ SignIn!ChangePassword(r, p)
               \/ \E u \in Users, kind \in SignIn!Kinds : SignIn!BeginSend(r, u, kind)
               \/ SignIn!RetireCodes(r)
               \/ \E k \in Codes : SignIn!IssueCode(r, k) \/ SignIn!ReadCode(r, k)
               \/ \E p \in 1..MaxPasswords : SignIn!ResetPassword(r, p)
               \/ SignIn!VerifyEmail(r) \/ SignIn!ClaimDeletion(r) \/ SignIn!DeleteAccount(r)
        PROVE  SessionInv'
    <2>1. ASSUME NEW p \in 1..MaxPasswords,
                 SignIn!ChangePassword(r, p) \/ SignIn!ResetPassword(r, p)
          PROVE  SessionInv'
        BY <2>1, PasswordSteps
    <2>2. CASE SignIn!RetireCodes(r) \/ \E k \in Codes : SignIn!IssueCode(r, k)
        BY <2>2, CodeSteps
    <2>3. CASE SignIn!VerifyEmail(r) \/ SignIn!ClaimDeletion(r)
        BY <2>3, ClaimSteps
    <2>4. CASE SignIn!DeleteAccount(r)
        BY <2>4, EraseStep
    <2>5. CASE \/ \E u \in Users, p \in 1..MaxPasswords : SignIn!BeginLogin(r, u, p)
               \/ SignIn!Login(r)
               \/ \E u \in Users, op \in {"change", "token", "revoke", "approve"} :
                     SignIn!Authenticate(r, op, u)
               \/ \E p \in 1..MaxPasswords : SignIn!VerifyPassword(r, p)
               \/ \E u \in Users, kind \in SignIn!Kinds : SignIn!BeginSend(r, u, kind)
               \/ \E k \in Codes : SignIn!ReadCode(r, k)
        BY <2>5, LoginSteps
    <2> QED
        BY <1>2, <2>1, <2>2, <2>3, <2>4, <2>5
  <1>3. ASSUME NEW r \in Requests,
               \/ SignIn!RefuseCode(r) \/ SignIn!CreateToken(r) \/ SignIn!GiveUp(r)
               \/ \E t \in DOMAIN token : SignIn!RevokeToken(r, t)
               \/ \E d \in Devices, s \in {"approved", "denied"} : SignIn!AnswerDevice(r, d, s)
        PROVE  SessionInv'
    <2>1. SignIn!Goto(r, "done") /\ ~SignIn!At(r, "idle") /\ UNCHANGED <<account, cookie, code, spent>>
        BY <1>3 DEF SignIn!RefuseCode, SignIn!CreateToken, SignIn!GiveUp, SignIn!RevokeToken,
                    SignIn!AnswerDevice, SignIn!At
    <2> QED
        BY <2>1, QuietGoto
  <1>4. ASSUME NEW k \in Codes, SignIn!ExpireCode(k)
        PROVE  SessionInv'
    <2>1. UNCHANGED <<account, cookie, spent, request>>
        BY <1>4 DEF SignIn!ExpireCode
    <2> QED
        BY <1>4, <2>1, OtherSteps
  <1>5. ASSUME NEW d \in Devices,
               \/ SignIn!StartDevice(d) \/ SignIn!Poll(d) \/ SignIn!PollAgain(d)
               \/ SignIn!MintToken(d) \/ SignIn!ExpireDevice(d) \/ SignIn!CleanupDevice(d)
        PROVE  SessionInv'
    <2>1. UNCHANGED <<account, cookie, spent, request, code>>
        BY <1>5 DEF SignIn!StartDevice, SignIn!Poll, SignIn!PollAgain, SignIn!MintToken,
                    SignIn!ExpireDevice, SignIn!CleanupDevice
    <2> QED
        BY <2>1, OtherSteps
  <1> QED
      BY <1>1, <1>2, <1>3, <1>4, <1>5 DEF SignIn!Next

(***************************************************************************)
(* Accounts: pairings.                                                     *)
(***************************************************************************)
Pairing == [status : {"none", "pending", "approved", "denied", "consumed", "deleted"},
            user : Users \cup {"none"}, expired : BOOLEAN]

Waiting == {"none", "polling", "minting", "minting twice", "ended"}

PairingTypes == device \in [Devices -> Pairing] /\ plugin \in [Devices -> Waiting]

(* A pairing that gave a token was started and can be approved no more.    *)
GrantedOnce ==
    /\ DOMAIN granted = Devices
    /\ \A d \in Devices :
          \/ granted[d] = {}
          \/ /\ \E x : granted[d] = {x}
             /\ device[d].status \in {"consumed", "deleted"} /\ plugin[d] # "none"

DeviceInv == SessionInv /\ PairingTypes /\ GrantedOnce

LEMMA InitDevice == SignIn!Init => PairingTypes /\ GrantedOnce
  BY DEF SignIn!Init, PairingTypes, GrantedOnce, Pairing, Waiting

(* One pairing goes on without a token.                                    *)
LEMMA PairingStep ==
    ASSUME DeviceInv, granted' = granted, NEW d \in Devices,
           NEW x \in Pairing, device' = [device EXCEPT ![d] = x],
           NEW y \in Waiting, plugin' = [plugin EXCEPT ![d] = y],
           plugin[d] # "none" => y # "none",
           \/ x.status = device[d].status \/ x.status = "deleted"
           \/ plugin[d] = "none" \/ device[d].status = "pending"
    PROVE  PairingTypes' /\ GrantedOnce'
  <1>1. PairingTypes' /\ \A e \in Devices : device'[e] = (IF e = d THEN x ELSE device[e])
                              /\ plugin'[e] = (IF e = d THEN y ELSE plugin[e])
      BY DEF DeviceInv, PairingTypes
  <1>2. ASSUME NEW e \in Devices, granted[e] # {}
        PROVE  /\ \E z : granted[e] = {z}
               /\ device'[e].status \in {"consumed", "deleted"} /\ plugin'[e] # "none"
      BY <1>1, <1>2 DEF DeviceInv, GrantedOnce
  <1>3. GrantedOnce'
      BY <1>2 DEF DeviceInv, GrantedOnce
  <1> QED
      BY <1>1, <1>3

LEMMA DeviceSteps ==
    ASSUME DeviceInv, NEW d \in Devices,
           \/ SignIn!StartDevice(d) \/ SignIn!Poll(d) \/ SignIn!PollAgain(d)
           \/ SignIn!ExpireDevice(d) \/ SignIn!CleanupDevice(d)
    PROVE  PairingTypes' /\ GrantedOnce'
  <1>1. /\ device \in [Devices -> Pairing] /\ plugin \in [Devices -> Waiting]
        /\ device[d] \in Pairing /\ plugin[d] \in Waiting
        /\ device = [device EXCEPT ![d] = device[d]] /\ plugin = [plugin EXCEPT ![d] = plugin[d]]
      BY DEF DeviceInv, PairingTypes
  <1>2. CASE SignIn!StartDevice(d)
    <2> DEFINE x == [device[d] EXCEPT !.status = "pending"]
    <2>1. x \in Pairing
        BY <1>1 DEF Pairing
    <2>2. device' = [device EXCEPT ![d] = x] /\ plugin' = [plugin EXCEPT ![d] = "polling"]
          /\ granted' = granted /\ plugin[d] = "none"
        BY <1>2 DEF SignIn!StartDevice
    <2>3. "polling" \in Waiting
        BY DEF Waiting
    <2> HIDE DEF x
    <2> QED
        BY <2>1, <2>2, <2>3, PairingStep
  <1>3. CASE SignIn!Poll(d) \/ SignIn!PollAgain(d)
    <2>1. PICK y \in {"minting", "minting twice", "ended"} : plugin' = [plugin EXCEPT ![d] = y]
        BY <1>3 DEF SignIn!Poll, SignIn!PollAgain
    <2>2. device' = device /\ granted' = granted /\ y \in Waiting /\ y # "none"
        BY <1>3 DEF SignIn!Poll, SignIn!PollAgain, Waiting
    <2> QED
        BY <1>1, <2>1, <2>2, PairingStep
  <1>4. CASE SignIn!ExpireDevice(d)
    <2> DEFINE x == [device[d] EXCEPT !.expired = TRUE]
    <2>1. x \in Pairing /\ x.status = device[d].status
        BY <1>1 DEF Pairing
    <2>2. device' = [device EXCEPT ![d] = x] /\ plugin' = plugin /\ granted' = granted
        BY <1>4 DEF SignIn!ExpireDevice
    <2> HIDE DEF x
    <2> QED
        BY <1>1, <2>1, <2>2, PairingStep
  <1>5. CASE SignIn!CleanupDevice(d)
    <2> DEFINE x == [device[d] EXCEPT !.status = "deleted"]
    <2>1. x \in Pairing /\ x.status = "deleted"
        BY <1>1 DEF Pairing
    <2>2. device' = [device EXCEPT ![d] = x] /\ plugin' = plugin /\ granted' = granted
        BY <1>5 DEF SignIn!CleanupDevice
    <2> HIDE DEF x
    <2> QED
        BY <1>1, <2>1, <2>2, PairingStep
  <1> QED
      BY <1>2, <1>3, <1>4, <1>5

(* The owner of an account answers.                                        *)
LEMMA AnswerStep ==
    ASSUME DeviceInv, NEW r \in Requests, NEW d \in Devices, NEW s \in {"approved", "denied"},
           SignIn!AnswerDevice(r, d, s)
    PROVE  PairingTypes' /\ GrantedOnce'
  <1> DEFINE u == IF s = "approved" THEN request[r].user ELSE device[d].user
             x == [device[d] EXCEPT !.status = s, !.user = u]
  <1>1. /\ device[d] \in Pairing /\ plugin[d] \in Waiting
        /\ device \in [Devices -> Pairing] /\ plugin = [plugin EXCEPT ![d] = plugin[d]]
      BY DEF DeviceInv, PairingTypes
  <1>2. u \in Users \cup {"none"}
    <2>1. request[r].user \in Users
        BY DEF DeviceInv, SessionInv, AccountTypes, Posed, SignIn!AnswerDevice, SignIn!At
    <2> QED
        BY <1>1, <2>1 DEF Pairing
  <1>3. /\ device' = [device EXCEPT ![d] = x] /\ plugin' = plugin /\ granted' = granted
        /\ device[d].status = "pending"
      BY <1>1 DEF SignIn!AnswerDevice, SignIn!Pending, Pairing
  <1> HIDE DEF u
  <1>4. x \in Pairing
      BY <1>1, <1>2 DEF Pairing
  <1> HIDE DEF x
  <1> QED
      BY <1>1, <1>3, <1>4, PairingStep

(* The token is created under the lock of a pairing approved still.        *)
LEMMA MintStep ==
    ASSUME DeviceInv, NEW d \in Devices, SignIn!MintToken(d)
    PROVE  PairingTypes' /\ GrantedOnce'
  <1>1. /\ device[d] \in Pairing /\ plugin[d] \in Waiting
        /\ device \in [Devices -> Pairing] /\ plugin \in [Devices -> Waiting]
        /\ DOMAIN granted = Devices
      BY DEF DeviceInv, PairingTypes, GrantedOnce
  <1>2. PICK y \in {"minting", "ended"} : plugin' = [plugin EXCEPT ![d] = y]
      BY DEF SignIn!MintToken
  <1>3. plugin[d] # "none" /\ y \in Waiting /\ y # "none"
      BY DEF SignIn!MintToken, Waiting
  <1>4. CASE ~SignIn!StillApproved(d)
    <2>1. device' = [device EXCEPT ![d] = device[d]] /\ granted' = granted
        BY <1>1, <1>4 DEF SignIn!MintToken
    <2> QED
        BY <1>1, <1>2, <1>3, <2>1, PairingStep
  <1>5. CASE SignIn!StillApproved(d)
    <2> DEFINE x == [device[d] EXCEPT !.status = "consumed"]
               t == <<device[d].user, Cardinality(granted[d])>>
    <2>1. x \in Pairing /\ x.status = "consumed"
        BY <1>1 DEF Pairing
    <2>2. /\ device' = [device EXCEPT ![d] = x]
          /\ granted' = [granted EXCEPT ![d] = granted[d] \cup {t}]
      <3>1. device' = [device EXCEPT ![d].status = "consumed"]
          BY <1>5 DEF SignIn!MintToken
      <3>2. granted' = [granted EXCEPT ![d] = @ \cup {<<device[d].user, SignIn!Cardinality(@)>>}]
          BY <1>5 DEF SignIn!MintToken
      <3>3. SignIn!Cardinality(granted[d]) = Cardinality(granted[d])
          BY Zenon DEF SignIn!Cardinality, Cardinality
      <3> QED
          BY <3>1, <3>2, <3>3
    <2>3. granted[d] = {}
        BY <1>5 DEF DeviceInv, GrantedOnce, SignIn!StillApproved
    <2> HIDE DEF x, t
    <2>4. PairingTypes'
        BY <1>1, <1>2, <1>3, <2>1, <2>2 DEF PairingTypes
    <2>5. granted'[d] = {t} /\ DOMAIN granted' = Devices
          /\ \A e \in Devices : e # d => granted'[e] = granted[e]
        BY <1>1, <2>2, <2>3
    <2>6. \A e \in Devices : device'[e] = (IF e = d THEN x ELSE device[e])
                             /\ plugin'[e] = (IF e = d THEN y ELSE plugin[e])
        BY <1>1, <1>2, <2>2
    <2>7. GrantedOnce'
        BY <1>3, <2>1, <2>5, <2>6 DEF DeviceInv, GrantedOnce
    <2> QED
        BY <2>4, <2>7
  <1> QED
      BY <1>4, <1>5

(* With an account its pairings go.                                        *)
LEMMA ErasePairings ==
    ASSUME DeviceInv, NEW r \in Requests, SignIn!DeleteAccount(r)
    PROVE  PairingTypes' /\ GrantedOnce'
  <1> DEFINE u == request[r].user
  <1>1. device \in [Devices -> Pairing] /\ plugin' = plugin /\ granted' = granted
      BY DEF DeviceInv, PairingTypes, SignIn!DeleteAccount
  <1>2. \/ device' = device
        \/ device' = [d \in Devices |-> IF device[d].user = u
                                        THEN [device[d] EXCEPT !.status = "deleted"]
                                        ELSE device[d]]
      BY DEF SignIn!DeleteAccount
  <1> HIDE DEF u
  <1>3. \A d \in Devices : /\ [device[d] EXCEPT !.status = "deleted"] \in Pairing
                           /\ [device[d] EXCEPT !.status = "deleted"].status = "deleted"
      BY <1>1 DEF Pairing
  <1>4. \A d \in Devices : device'[d] = device[d] \/ device'[d].status = "deleted"
      BY <1>2, <1>3
  <1>5. PairingTypes'
      BY <1>1, <1>2, <1>3 DEF DeviceInv, PairingTypes
  <1>6. GrantedOnce'
      BY <1>1, <1>4 DEF DeviceInv, GrantedOnce
  <1> QED
      BY <1>5, <1>6

LEMMA NextDevice ==
    ASSUME DeviceInv, [SignIn!Next]_SignIn!vars
    PROVE  DeviceInv'
  <1>1. SessionInv'
      BY NextSession DEF DeviceInv
  <1>2. CASE UNCHANGED <<device, plugin, granted>>
    <2>1. PairingTypes'
        BY <1>2 DEF DeviceInv, PairingTypes
    <2>2. GrantedOnce'
        BY <1>2 DEF DeviceInv, GrantedOnce
    <2> QED
        BY <1>1, <2>1, <2>2 DEF DeviceInv
  <1>3. ASSUME NEW r \in Requests,
               \/ \E u \in Users, p \in 1..MaxPasswords : SignIn!BeginLogin(r, u, p)
               \/ SignIn!Login(r)
               \/ \E u \in Users, op \in {"change", "token", "revoke", "approve"} :
                     SignIn!Authenticate(r, op, u)
               \/ \E p \in 1..MaxPasswords : SignIn!VerifyPassword(r, p) \/ SignIn!ChangePassword(r, p)
               \/ \E u \in Users, kind \in SignIn!Kinds : SignIn!BeginSend(r, u, kind)
               \/ SignIn!RetireCodes(r)
               \/ \E k \in Codes : SignIn!IssueCode(r, k) \/ SignIn!ReadCode(r, k)
               \/ \E p \in 1..MaxPasswords : SignIn!ResetPassword(r, p)
               \/ SignIn!VerifyEmail(r) \/ SignIn!ClaimDeletion(r) \/ SignIn!RefuseCode(r)
               \/ SignIn!CreateToken(r) \/ SignIn!GiveUp(r)
               \/ \E t \in DOMAIN token : SignIn!RevokeToken(r, t)
        PROVE  UNCHANGED <<device, plugin, granted>>
      BY <1>3 DEF SignIn!BeginLogin, SignIn!Login, SignIn!Authenticate, SignIn!VerifyPassword,
                  SignIn!ChangePassword, SignIn!BeginSend, SignIn!RetireCodes, SignIn!IssueCode,
                  SignIn!ReadCode, SignIn!ResetPassword, SignIn!VerifyEmail,
                  SignIn!ClaimDeletion, SignIn!RefuseCode, SignIn!CreateToken, SignIn!GiveUp,
                  SignIn!RevokeToken, SignIn!pairing
  <1>4. ASSUME NEW k \in Codes, SignIn!ExpireCode(k)
        PROVE  UNCHANGED <<device, plugin, granted>>
      BY <1>4 DEF SignIn!ExpireCode, SignIn!pairing
  <1>5. CASE UNCHANGED SignIn!vars
      BY <1>2, <1>5 DEF SignIn!vars
  <1>6. CASE \/ \E r \in Requests : \/ SignIn!DeleteAccount(r)
                                    \/ \E d \in Devices, s \in {"approved", "denied"} :
                                         SignIn!AnswerDevice(r, d, s)
             \/ \E d \in Devices :
                  \/ SignIn!StartDevice(d) \/ SignIn!Poll(d) \/ SignIn!PollAgain(d)
                  \/ SignIn!MintToken(d) \/ SignIn!ExpireDevice(d) \/ SignIn!CleanupDevice(d)
    <2>1. PairingTypes' /\ GrantedOnce'
        BY <1>6, ErasePairings, AnswerStep, DeviceSteps, MintStep
    <2> QED
        BY <1>1, <2>1 DEF DeviceInv
  <1> QED
      BY <1>2, <1>3, <1>4, <1>5, <1>6 DEF SignIn!Next

-----------------------------------------------------------------------------
(* The invariants, and what follows from them.                             *)
LEMMA SignInInvariant == SignIn!Spec => []DeviceInv
  <1>1. SignIn!Init => DeviceInv
      BY InitSession, InitDevice DEF DeviceInv
  <1>2. DeviceInv /\ [SignIn!Next]_SignIn!vars => DeviceInv'
      BY NextDevice
  <1> QED
      BY <1>1, <1>2, PTL DEF SignIn!Spec

(* However logins, changes and resets of a password overlap, a session     *)
(* that is accepted was opened with the password the account has now       *)
(* (User.sessionVersion).                                                  *)
THEOREM SessionsAreCurrent == SignIn!Spec => []SignIn!SessionsFollowPassword
  <1>1. DeviceInv => SignIn!SessionsFollowPassword
    <2> SUFFICES ASSUME DeviceInv, NEW c \in cookie, SignIn!Valid(c)
                 PROVE  c.password = account[c.user].password
        BY DEF SignIn!SessionsFollowPassword
    <2> QED
        BY DEF DeviceInv, SessionInv, CookieKnows, Knows, SignIn!Valid
  <1> QED
      BY <1>1, SignInInvariant, PTL

(* A reset link, a verification link and a deletion code are honoured      *)
(* once, and a device code gives one token, for any number of requests     *)
(* and polls at once.                                                      *)
THEOREM CodesAreSpentOnce == SignIn!Spec => []SignIn!HonouredOnce
  <1>1. DeviceInv => SignIn!HonouredOnce
    <2> SUFFICES ASSUME DeviceInv PROVE SignIn!HonouredOnce
        OBVIOUS
    <2>1. \A k \in Codes : spent[k] <= 1
        BY DEF DeviceInv, SessionInv, CodesOnce
    <2>2. ASSUME NEW d \in Devices
          PROVE  Cardinality(granted[d]) <= 1
      <3>1. granted[d] = {} \/ \E x : granted[d] = {x}
          BY DEF DeviceInv, GrantedOnce
      <3>2. CASE granted[d] = {}
        <4>1. Cardinality(granted[d]) = 0
            BY <3>2, FS_EmptySet
        <4> QED
            BY <4>1
      <3>3. ASSUME NEW x, granted[d] = {x}
            PROVE  Cardinality(granted[d]) <= 1
        <4>1. Cardinality({x}) = 1
            BY FS_Singleton
        <4> QED
            BY <3>3, <4>1
      <3> QED
          BY <3>1, <3>2, <3>3
    <2>3. \A d \in Devices : SignIn!Cardinality(granted[d]) = Cardinality(granted[d])
        BY Zenon DEF SignIn!Cardinality, Cardinality
    <2> QED
        BY <2>1, <2>2, <2>3 DEF SignIn!HonouredOnce
  <1> QED
      BY <1>1, SignInInvariant, PTL

-----------------------------------------------------------------------------
(***************************************************************************)
(* Collaboration: claims and read cursors.                                 *)
(***************************************************************************)
Homes == Workspaces \cup {Home}

ClaimRow == [actor : Actors, ws : Homes, released : BOOLEAN, expired : BOOLEAN]
CommentRow == [author : Actors, ws : Homes, resolver : Actors \cup {Team!Nobody},
               events : Nat, gone : BOOLEAN]

Asked == [at : Team!Places, op : Team!Places \cup {"none", "adminRelease"},
          actor : Actors \cup {Team!Nobody}, target : Nat, ws : Homes, version : Nat,
          rivals : SUBSET Nat, answer : Team!Answers]

TeamTypes ==
    /\ document \in [ws : Homes, live : BOOLEAN, version : Nat \ {0}]
    /\ claim \in Seq(ClaimRow)
    /\ comment \in Seq(CommentRow)
    /\ cursor \in [Actors -> [version : Nat, seen : SUBSET Nat, ws : Homes]]
    /\ given \in [Actors -> SUBSET Nat] /\ used \in [Actors -> SUBSET Nat]
    /\ request \in [Requests -> Asked]

(* The rivals a claim remembers are rivals still, and gone once it has     *)
(* looked for them.                                                        *)
Alone(q, claims) == q.op = "claim" =>
    /\ q.at \in {"claim", "own", "refresh", "create", "done"}
    /\ q.at = "claim" => q.answer # "ok" /\ q.rivals \subseteq Team!Rivals(q.actor, claims)
    /\ q.at \in {"own", "refresh", "create"} \/ q.answer = "ok" => q.rivals = {}

(* A cursor is at a version that a call of its actor has read, and so is   *)
(* the document where an unread list leaves it out.                        *)
Abreast(q, had, tools) ==
    /\ q.at # "idle" => q.actor \in Actors
    /\ q.at = "unread" => q.version # 0
    /\ q.answer = "omitted" => q.actor \in Actors /\ q.version \in had[q.actor] \cup tools[q.actor]

CursorsTrue == \A a \in Actors : cursor[a].version \in given[a] \cup used[a] \cup {0}

TeamInv ==
    /\ TeamTypes /\ CursorsTrue
    /\ \A r \in Requests : Alone(request[r], claim) /\ Abreast(request[r], given, used)

LEMMA InitTeam == Team!Init => TeamInv
  <1> SUFFICES ASSUME Team!Init PROVE TeamInv
      OBVIOUS
  <1> USE DEF Team!Init
  <1>1. Team!Idle \in Asked
      BY DEF Team!Idle, Asked, Homes, Team!Places, Team!Answers
  <1>2. TeamTypes
    <2>1. Team!NoCursor \in [version : Nat, seen : SUBSET Nat, ws : Homes]
        BY DEF Team!NoCursor, Homes
    <2>2. document \in [ws : Homes, live : BOOLEAN, version : Nat \ {0}]
        BY DEF Homes
    <2> QED
        BY <1>1, <2>1, <2>2 DEF TeamTypes
  <1>3. CursorsTrue
      BY DEF CursorsTrue, Team!NoCursor
  <1>4. \A r \in Requests : Alone(request[r], claim) /\ Abreast(request[r], given, used)
      BY DEF Alone, Abreast, Team!Idle
  <1> QED
      BY <1>2, <1>3, <1>4 DEF TeamInv

LEMMA WithAsked ==
    ASSUME NEW q \in Asked, NEW p \in Team!Places, NEW x \in Team!Answers, NEW i \in Nat
    PROVE  /\ [q EXCEPT !.at = p] \in Asked
           /\ [q EXCEPT !.at = p, !.answer = x] \in Asked
           /\ [q EXCEPT !.at = p, !.target = i] \in Asked
  BY DEF Asked

(* Only the request itself goes on.                                        *)
LEMMA OnlyAsked ==
    ASSUME TeamInv, NEW r \in Requests, NEW q \in Asked, Alone(q, claim), Abreast(q, given, used),
           request' = [request EXCEPT ![r] = q],
           UNCHANGED <<document, claim, comment, cursor, given, used>>
    PROVE  TeamInv'
  <1>1. TeamTypes' /\ CursorsTrue'
      BY DEF TeamInv, TeamTypes, CursorsTrue
  <1>2. ASSUME NEW k \in Requests
        PROVE  Alone(request'[k], claim') /\ Abreast(request'[k], given', used')
      BY DEF TeamInv, TeamTypes
  <1> QED
      BY <1>1, <1>2 DEF TeamInv

LEMMA EnterTeam ==
    ASSUME TeamInv, NEW r \in Requests, NEW a \in Actors,
           NEW op \in Team!DocumentOps, Team!Enter(r, a, op)
    PROVE  TeamInv'
  <1> DEFINE high == role[UserOf[a]] >= (IF op = "claim" THEN Team!Editor ELSE Team!Viewer)
             in == document.live /\ Team!TokenSees(a, document.ws) /\ high
             q == [Team!Idle EXCEPT !.op = op, !.actor = a, !.ws = document.ws,
                      !.version = document.version,
                      !.rivals = IF op = "claim" THEN Team!Rivals(a, claim) ELSE {},
                      !.at = IF in THEN op ELSE "done",
                      !.answer = "not_found"]
  <1>1. request' = [request EXCEPT ![r] = q]
        /\ UNCHANGED <<document, claim, comment, cursor, given, used>>
      BY DEF Team!Enter, Team!history
  <1>2. /\ q.op = op /\ q.actor = a /\ q.answer = "not_found" /\ q.at \in {op, "done"}
        /\ q.rivals = IF op = "claim" THEN Team!Rivals(a, claim) ELSE {}
      BY DEF Team!Idle
  <1>3. q \in Asked
    <2>1. Team!Rivals(a, claim) \subseteq Nat
        BY DEF Team!Rivals, Team!Ids, TeamInv, TeamTypes
    <2>2. document.ws \in Homes /\ document.version \in Nat
        BY DEF TeamInv, TeamTypes
    <2>3. (IF in THEN op ELSE "done") \in Team!Places /\ op \in Team!Places
        BY DEF Team!Places, Team!DocumentOps, Team!Reading
    <2>4. "not_found" \in Team!Answers
        BY DEF Team!Answers
    <2> HIDE DEF in
    <2> QED
        BY <2>1, <2>2, <2>3, <2>4 DEF Asked, Team!Idle
  <1> HIDE DEF q
  <1>4. Alone(q, claim) /\ Abreast(q, given, used)
      BY <1>2 DEF Alone, Abreast, Team!DocumentOps, Team!Reading
  <1> QED
      BY <1>1, <1>3, <1>4, OnlyAsked

LEMMA OtherArrivals ==
    ASSUME TeamInv, NEW r \in Requests, NEW a \in Actors,
           \/ \E i \in Team!Ids(claim) : Team!AdminRelease(r, a, i)
           \/ \E i \in Team!Ids(comment), op \in {"resolve", "deleteComment"} : Team!OnComment(r, a, i, op)
           \/ \E ws \in Workspaces : Team!UnreadDocuments(r, a, ws)
    PROVE  TeamInv'
  <1>1. UNCHANGED <<document, claim, comment, cursor, given, used>>
      BY DEF Team!AdminRelease, Team!OnComment, Team!UnreadDocuments, Team!history
  <1>2. ASSUME NEW q \in Asked, request' = [request EXCEPT ![r] = q], q.op # "claim",
               q.actor = a, q.answer # "omitted", q.at = "unread" => q.version # 0
        PROVE  TeamInv'
    <2>1. Alone(q, claim) /\ Abreast(q, given, used)
        BY <1>2 DEF Alone, Abreast
    <2> QED
        BY <1>1, <1>2, <2>1, OnlyAsked
  <1>3. \A i : i \in Team!Ids(claim) \cup Team!Ids(comment) => i \in Nat
      BY DEF Team!Ids, TeamInv, TeamTypes
  <1>4. ASSUME NEW i \in Team!Ids(claim), Team!AdminRelease(r, a, i)
        PROVE  TeamInv'
    <2>1. PICK answer : answer = (CASE ~Team!TokenSees(a, claim[i].ws) \/ ~Team!Reads(a) -> "not_found"
                       [] claim[i].actor # a /\ ~Team!Manages(a) -> "forbidden"
                       [] OTHER -> "ok")
        OBVIOUS
    <2>2. answer \in {"not_found", "forbidden", "ok"}
        BY <2>1
    <2>3. PICK at : at = IF answer = "ok" /\ ~claim[i].released THEN "free" ELSE "done"
        OBVIOUS
    <2> DEFINE q == [Team!Idle EXCEPT !.op = "adminRelease", !.actor = a, !.target = i,
                                      !.answer = answer, !.at = at]
    <2>4. request' = [request EXCEPT ![r] = q]
        BY <1>4, <2>1, <2>3, Zenon DEF Team!AdminRelease
    <2>5. q \in Asked /\ q.op = "adminRelease" /\ q.actor = a /\ q.answer = answer /\ q.at = at
        BY <1>3, <1>4, <2>2, <2>3 DEF Asked, Team!Idle, Team!Places, Team!Answers, Homes
    <2> HIDE DEF q
    <2> QED
        BY <1>2, <2>2, <2>3, <2>4, <2>5
  <1>5. ASSUME NEW i \in Team!Ids(comment), NEW op \in {"resolve", "deleteComment"},
               Team!OnComment(r, a, i, op)
        PROVE  TeamInv'
    <2>1. PICK answer : answer = Team!CommentAnswer(a, comment[i])
        OBVIOUS
    <2>2. answer \in {"not_found", "forbidden", "ok"}
        BY <2>1 DEF Team!CommentAnswer
    <2>3. PICK at : at = IF answer = "ok" /\ (op = "resolve" => comment[i].resolver = Team!Nobody)
                         THEN op ELSE "done"
        OBVIOUS
    <2> DEFINE q == [Team!Idle EXCEPT !.op = op, !.actor = a, !.target = i,
                                      !.answer = answer, !.at = at]
    <2>4. request' = [request EXCEPT ![r] = q]
        BY <1>5, <2>1, <2>3, Zenon DEF Team!OnComment
    <2>5. q \in Asked /\ q.op = op /\ q.actor = a /\ q.answer = answer /\ q.at = at
        BY <1>3, <1>5, <2>2, <2>3 DEF Asked, Team!Idle, Team!Places, Team!Answers, Homes
    <2> HIDE DEF q
    <2> QED
        BY <1>2, <2>2, <2>3, <2>4, <2>5
  <1>6. ASSUME NEW ws \in Workspaces, Team!UnreadDocuments(r, a, ws)
        PROVE  TeamInv'
    <2>1. PICK at : at = IF document.live /\ document.ws = ws THEN "unread" ELSE "done"
        OBVIOUS
    <2> DEFINE q == [Team!Idle EXCEPT !.op = "unread", !.actor = a, !.ws = ws,
                                      !.version = document.version, !.at = at, !.answer = "absent"]
    <2>2. request' = [request EXCEPT ![r] = q]
        BY <1>6, <2>1, Zenon DEF Team!UnreadDocuments
    <2>3. document.version \in Nat \ {0}
        BY DEF TeamInv, TeamTypes
    <2>4. q \in Asked /\ q.op = "unread" /\ q.actor = a /\ q.answer = "absent" /\ q.at = at
          /\ q.version = document.version
        BY <2>1, <2>3 DEF Asked, Team!Idle, Team!Places, Team!Answers, Homes
    <2> HIDE DEF q
    <2> QED
        BY <1>2, <2>2, <2>3, <2>4
  <1> QED
      BY <1>4, <1>5, <1>6

(* A request that only reads, and goes on or is answered.                  *)
LEMMA ReadTeam ==
    ASSUME TeamInv, NEW r \in Requests,
           \/ Team!ClaimCheck(r) \/ Team!ClaimFind(r) \/ Team!ReleaseFind(r)
           \/ Team!Throws(r) \/ Team!UnreadList(r)
    PROVE  TeamInv'
  <1>1. UNCHANGED <<document, claim, comment, cursor, given, used>>
      BY DEF Team!ClaimCheck, Team!ClaimFind, Team!ReleaseFind, Team!FindOwn, Team!Throws,
             Team!UnreadList, Team!history
  <1>2. PICK q \in Asked : q = request[r]
      BY DEF TeamInv, TeamTypes
  <1>3. request \in [Requests -> Asked] /\ Alone(q, claim) /\ Abreast(q, given, used)
      BY <1>2 DEF TeamInv, TeamTypes
  <1> DEFINE Answered(x) == [q EXCEPT !.at = "done", !.answer = x]
  <1>4. ASSUME NEW x \in Team!Answers, Team!Answer(r, x), q.at # "idle",
               x # "ok" \/ q.op # "claim",
               x = "omitted" => q.version \in given[q.actor] \cup used[q.actor]
        PROVE  TeamInv'
    <2>1. request' = [request EXCEPT ![r] = Answered(x)]
        BY <1>2, <1>3, <1>4 DEF Team!Answer
    <2>2. Answered(x) \in Asked
        BY <1>4, WithAsked DEF Team!Places
    <2>3. Alone(Answered(x), claim) /\ Abreast(Answered(x), given, used)
        BY <1>3, <1>4 DEF Alone, Abreast, Asked
    <2> QED
        BY <1>1, <2>1, <2>2, <2>3, OnlyAsked
  <1>5. CASE Team!ClaimCheck(r)
    <2>1. q.at = "claim"
        BY <1>2, <1>5 DEF Team!ClaimCheck, Team!At
    <2>2. CASE Team!Rivals(q.actor, claim) # {}
      <3>1. Team!Answer(r, "conflict")
          BY <1>2, <1>5, <2>2 DEF Team!ClaimCheck
      <3> QED
          BY <1>4, <2>1, <3>1 DEF Team!Answers
    <2>3. CASE Team!Rivals(q.actor, claim) = {}
      <3> DEFINE p == [q EXCEPT !.at = "own"]
      <3>1. request' = [request EXCEPT ![r] = p]
          BY <1>2, <1>3, <1>5, <2>3 DEF Team!ClaimCheck, Team!Step
      <3>2. p \in Asked
          BY WithAsked DEF Team!Places, Team!Answers
      <3>3. Alone(p, claim) /\ Abreast(p, given, used)
          BY <1>3, <2>1, <2>3 DEF Alone, Abreast, Asked
      <3> HIDE DEF p
      <3> QED
          BY <1>1, <3>1, <3>2, <3>3, OnlyAsked
    <2> QED
        BY <2>2, <2>3
  <1>6. CASE Team!ClaimFind(r)
    <2>1. q.at = "own"
        BY <1>2, <1>6 DEF Team!ClaimFind, Team!At
    <2>2. \E i \in Nat : request' = [request EXCEPT ![r] = [q EXCEPT !.at = "refresh", !.target = i]]
          \/ request' = [request EXCEPT ![r] = [q EXCEPT !.at = "create"]]
      <3>1. CASE \E i \in Team!Own(request[r].actor) :
                   request' = [request EXCEPT ![r].at = "refresh", ![r].target = i]
        <4>1. PICK i \in Team!Own(request[r].actor) :
                   request' = [request EXCEPT ![r].at = "refresh", ![r].target = i]
            BY <3>1
        <4>2. i \in Nat
            BY DEF Team!Own, Team!Ids, TeamInv, TeamTypes
        <4>3. request' = [request EXCEPT ![r] = [q EXCEPT !.at = "refresh", !.target = i]]
            BY <1>2, <1>3, <4>1
        <4> QED
            BY <4>2, <4>3
      <3>2. CASE Team!Step(r, "create")
        <4>1. request' = [request EXCEPT ![r] = [q EXCEPT !.at = "create"]]
            BY <1>2, <1>3, <3>2 DEF Team!Step
        <4> QED
            BY <4>1
      <3> QED
          BY <1>6, <3>1, <3>2 DEF Team!ClaimFind, Team!FindOwn
    <2>3. PICK i \in Nat :
            \/ request' = [request EXCEPT ![r] = [q EXCEPT !.at = "refresh", !.target = i]]
            \/ request' = [request EXCEPT ![r] = [q EXCEPT !.at = "create"]]
        BY <2>2
    <2>6. PICK p \in {[q EXCEPT !.at = "refresh", !.target = i], [q EXCEPT !.at = "create"]} :
            request' = [request EXCEPT ![r] = p]
        BY <2>3
    <2>4. p \in Asked
      <3>1. [q EXCEPT !.at = "refresh", !.target = i] \in Asked
          BY WithAsked DEF Team!Places, Team!Answers
      <3>2. [q EXCEPT !.at = "create"] \in Asked
          BY DEF Asked, Team!Places
      <3> QED
          BY <2>6, <3>1, <3>2
    <2>5. Alone(p, claim) /\ Abreast(p, given, used)
        BY <1>3, <2>1, <2>6 DEF Alone, Abreast, Asked
    <2> QED
        BY <1>1, <2>6, <2>4, <2>5, OnlyAsked
  <1>7. CASE Team!ReleaseFind(r)
    <2>1. q.at = "release" /\ q.op # "claim"
        BY <1>2, <1>3, <1>7 DEF Team!ReleaseFind, Team!At, Alone
    <2>2. CASE Team!Answer(r, "ok")
        BY <1>4, <2>1, <2>2 DEF Team!Answers
    <2>3. CASE \E i \in Team!Own(request[r].actor) :
                 request' = [request EXCEPT ![r].at = "free", ![r].target = i]
      <3>1. PICK i \in Team!Own(request[r].actor) :
                 request' = [request EXCEPT ![r].at = "free", ![r].target = i]
          BY <2>3
      <3>2. i \in Nat
          BY DEF Team!Own, Team!Ids, TeamInv, TeamTypes
      <3> DEFINE p == [q EXCEPT !.at = "free", !.target = i]
      <3>3. request' = [request EXCEPT ![r] = p]
          BY <1>2, <1>3, <3>1
      <3>4. p \in Asked
          BY <3>2, WithAsked DEF Team!Places, Team!Answers
      <3>5. Alone(p, claim) /\ Abreast(p, given, used)
          BY <1>3, <2>1 DEF Alone, Abreast, Asked
      <3> HIDE DEF p
      <3> QED
          BY <1>1, <3>3, <3>4, <3>5, OnlyAsked
    <2> QED
        BY <1>7, <2>2, <2>3 DEF Team!ReleaseFind, Team!FindOwn
  <1>8. CASE Team!Throws(r)
      BY <1>2, <1>4, <1>8 DEF Team!Throws, Team!Answers
  <1>9. CASE Team!UnreadList(r)
    <2>1. q.at = "unread" /\ q.op # "claim" /\ q.actor \in Actors /\ q.version # 0
        BY <1>2, <1>3, <1>9 DEF Team!UnreadList, Team!At, Alone, Abreast
    <2>2. PICK x \in {"absent", "omitted", "listed"} :
            /\ Team!Answer(r, x)
            /\ x = "omitted" => Team!UpToDate(q.actor, q.ws, q.version)
        BY <1>2, <1>9 DEF Team!UnreadList
    <2>3. x = "omitted" => q.version \in given[q.actor] \cup used[q.actor]
        BY <2>1, <2>2 DEF Team!UpToDate, TeamInv, CursorsTrue
    <2> QED
        BY <1>4, <2>1, <2>2, <2>3 DEF Team!Answers
  <1> QED
      BY <1>5, <1>6, <1>7, <1>8, <1>9

(* The claims change, and nobody's claim becomes another's.                *)
LEMMA ClaimsChange ==
    ASSUME TeamInv, NEW claims \in Seq(ClaimRow), Len(claims) >= Len(claim),
           \A i \in 1..Len(claim) : claims[i].actor = claim[i].actor,
           NEW rq \in [Requests -> Asked],
           \A r \in Requests : Alone(rq[r], claim) /\ Abreast(rq[r], given, used),
           claim' = claims, request' = Team!Watched(rq, claims),
           UNCHANGED <<document, comment, cursor, given, used>>
    PROVE  TeamInv'
  <1> DEFINE Still(q) == {i \in q.rivals : Team!Active(claims[i])}
             Seen(q) == [q EXCEPT !.rivals = Still(q)]
  <1>1. \A r \in Requests : request'[r] = IF rq[r].at = "done" THEN rq[r] ELSE Seen(rq[r])
      BY DEF Team!Watched
  <1>2. ASSUME NEW q \in Asked
        PROVE  /\ Seen(q) \in Asked /\ Seen(q).at = q.at /\ Seen(q).op = q.op
               /\ Seen(q).actor = q.actor /\ Seen(q).version = q.version
               /\ Seen(q).answer = q.answer /\ Seen(q).rivals = Still(q)
      BY <1>2 DEF Asked
  <1>3. ASSUME NEW q \in Asked, Alone(q, claim), q.at = "claim", q.op = "claim"
        PROVE  Still(q) \subseteq Team!Rivals(q.actor, claims)
    <2>1. ASSUME NEW i \in Still(q)
          PROVE  i \in Team!Rivals(q.actor, claims)
      <3>1. i \in Team!Rivals(q.actor, claim) /\ Team!Active(claims[i])
          BY <1>3, <2>1 DEF Alone
      <3>2. Len(claim) \in Nat /\ Len(claims) \in Nat
          BY DEF TeamInv, TeamTypes
      <3>3. i \in 1..Len(claim) /\ i \in 1..Len(claims)
          BY <3>1, <3>2 DEF Team!Rivals, Team!Ids
      <3> QED
          BY <3>1, <3>3 DEF Team!Rivals, Team!Ids
    <2> QED
        BY <2>1
  <1>4. ASSUME NEW r \in Requests
        PROVE  request'[r] \in Asked /\ Alone(request'[r], claims) /\ Abreast(request'[r], given, used)
    <2>1. PICK q \in Asked : q = rq[r]
        OBVIOUS
    <2>2. Alone(q, claim) /\ Abreast(q, given, used)
        BY <2>1
    <2>3. CASE q.at = "done"
        BY <1>1, <2>1, <2>2, <2>3 DEF Alone
    <2>4. CASE q.at # "done"
      <3>1. request'[r] = Seen(q)
          BY <1>1, <2>1, <2>4
      <3>2. q.rivals = {} => Still(q) = {}
          OBVIOUS
      <3> HIDE DEF Seen, Still
      <3>3. Alone(Seen(q), claims)
          BY <1>2, <1>3, <2>2, <3>2 DEF Alone
      <3>4. Abreast(Seen(q), given, used)
          BY <1>2, <2>2 DEF Abreast
      <3> QED
          BY <1>2, <3>1, <3>3, <3>4
    <2> QED
        BY <2>3, <2>4
  <1>5. request' \in [Requests -> Asked]
      BY <1>4 DEF Team!Watched
  <1>6. TeamTypes' /\ CursorsTrue'
      BY <1>5 DEF TeamInv, TeamTypes, CursorsTrue
  <1> QED
      BY <1>4, <1>6 DEF TeamInv

(* The claims change, and the request that changed them is answered.       *)
LEMMA AnsweredChange ==
    ASSUME TeamInv, NEW r \in Requests, request[r].at \in {"refresh", "create", "free"},
           NEW claims \in Seq(ClaimRow), Len(claims) >= Len(claim),
           \A i \in 1..Len(claim) : claims[i].actor = claim[i].actor,
           Team!SetClaims(r, claims, "ok")
    PROVE  TeamInv'
  <1>1. PICK q \in Asked : q = request[r]
      BY DEF TeamInv, TeamTypes
  <1>2. request \in [Requests -> Asked] /\ Alone(q, claim) /\ Abreast(q, given, used)
      BY <1>1 DEF TeamInv, TeamTypes
  <1> DEFINE p == [q EXCEPT !.at = "done", !.answer = "ok"]
             rq == [request EXCEPT ![r] = p]
  <1>3. rq = [request EXCEPT ![r].at = "done", ![r].answer = "ok"]
      BY <1>1, <1>2
  <1>4. p \in Asked
      BY WithAsked DEF Team!Places, Team!Answers
  <1>5. Alone(p, claim) /\ Abreast(p, given, used)
      BY <1>1, <1>2 DEF Alone, Abreast, Asked
  <1> HIDE DEF p
  <1>6. rq \in [Requests -> Asked]
      BY <1>2, <1>4
  <1>7. \A k \in Requests : Alone(rq[k], claim) /\ Abreast(rq[k], given, used)
      BY <1>2, <1>5 DEF TeamInv
  <1>8. /\ claim' = claims /\ request' = Team!Watched(rq, claims)
        /\ UNCHANGED <<document, comment, cursor, given, used>>
      BY <1>3 DEF Team!SetClaims, Team!history
  <1> HIDE DEF rq
  <1> QED
      BY <1>6, <1>7, <1>8, ClaimsChange

LEMMA RowsChange ==
    ASSUME TeamInv, NEW i \in 1..Len(claim), NEW row \in ClaimRow, row.actor = claim[i].actor
    PROVE  /\ [claim EXCEPT ![i] = row] \in Seq(ClaimRow)
           /\ Len([claim EXCEPT ![i] = row]) = Len(claim)
           /\ \A j \in 1..Len(claim) : [claim EXCEPT ![i] = row][j].actor = claim[j].actor
  <1>1. claim \in Seq(ClaimRow) /\ Len(claim) \in Nat /\ DOMAIN claim = 1..Len(claim)
      BY DEF TeamInv, TeamTypes
  <1>2. claim \in [1..Len(claim) -> ClaimRow]
      BY <1>1
  <1>3. [claim EXCEPT ![i] = row] \in [1..Len(claim) -> ClaimRow]
      BY <1>2
  <1>4. [claim EXCEPT ![i] = row] \in Seq(ClaimRow)
      BY <1>1, <1>3
  <1>5. Len([claim EXCEPT ![i] = row]) = Len(claim)
      BY <1>1, <1>3, <1>4
  <1> QED
      BY <1>2, <1>4, <1>5

LEMMA RowChange ==
    ASSUME TeamInv, NEW i, NEW b \in BOOLEAN,
           NEW claims \in {[claim EXCEPT ![i].expired = b], [claim EXCEPT ![i].released = b]}
    PROVE  /\ claims \in Seq(ClaimRow) /\ Len(claims) >= Len(claim)
           /\ \A j \in 1..Len(claim) : claims[j].actor = claim[j].actor
  <1>1. claim \in Seq(ClaimRow) /\ Len(claim) \in Nat /\ DOMAIN claim = 1..Len(claim)
      BY DEF TeamInv, TeamTypes
  <1>2. CASE i \in 1..Len(claim)
    <2>1. PICK row \in {[claim[i] EXCEPT !.expired = b], [claim[i] EXCEPT !.released = b]} :
            claims = [claim EXCEPT ![i] = row]
        BY <1>1
    <2>2. claim[i] \in ClaimRow
        BY <1>1, <1>2
    <2>3. row \in ClaimRow /\ row.actor = claim[i].actor
        BY <2>1, <2>2 DEF ClaimRow
    <2> QED
        BY <1>1, <1>2, <2>1, <2>3, RowsChange
  <1>3. CASE i \notin 1..Len(claim)
    <2>1. claims = claim
        BY <1>1, <1>3
    <2> QED
        BY <1>1, <2>1
  <1> QED
      BY <1>2, <1>3

LEMMA ClaimTeam ==
    ASSUME TeamInv,
           \/ \E r \in Requests : Team!ClaimRefresh(r) \/ Team!ClaimCreate(r) \/ Team!ReleaseRow(r)
           \/ \E i \in Team!Ids(claim) : Team!Expire(i)
    PROVE  TeamInv'
  <1>1. ASSUME NEW r \in Requests, Team!ClaimRefresh(r)
        PROVE  TeamInv'
    <2> DEFINE claims == [claim EXCEPT ![request[r].target].expired = FALSE]
    <2>1. request[r].at = "refresh" /\ Team!SetClaims(r, claims, "ok")
        BY <1>1 DEF Team!ClaimRefresh, Team!At
    <2> QED
        BY <2>1, RowChange, AnsweredChange
  <1>2. ASSUME NEW r \in Requests, Team!ReleaseRow(r)
        PROVE  TeamInv'
    <2> DEFINE claims == [claim EXCEPT ![request[r].target].released = TRUE]
    <2>1. request[r].at = "free" /\ Team!SetClaims(r, claims, "ok")
        BY <1>2 DEF Team!ReleaseRow, Team!At
    <2> QED
        BY <2>1, RowChange, AnsweredChange
  <1>3. ASSUME NEW r \in Requests, Team!ClaimCreate(r)
        PROVE  TeamInv'
    <2> DEFINE row == [actor |-> request[r].actor, ws |-> request[r].ws,
                       released |-> FALSE, expired |-> FALSE]
    <2>1. request[r].at = "create" /\ Team!SetClaims(r, Append(claim, row), "ok")
        BY <1>3 DEF Team!ClaimCreate, Team!At
    <2>2. request[r] \in Asked /\ request[r].actor \in Actors
        BY <2>1 DEF TeamInv, TeamTypes, Abreast
    <2>3. row \in ClaimRow
        BY <2>2 DEF ClaimRow, Asked
    <2> HIDE DEF row
    <2>4. claim \in Seq(ClaimRow) /\ Len(claim) \in Nat
        BY DEF TeamInv, TeamTypes
    <2>5. /\ Append(claim, row) \in Seq(ClaimRow) /\ Len(Append(claim, row)) >= Len(claim)
          /\ \A i \in 1..Len(claim) : Append(claim, row)[i].actor = claim[i].actor
        BY <2>3, <2>4
    <2> QED
        BY <2>1, <2>5, AnsweredChange
  <1>4. ASSUME NEW i \in Team!Ids(claim), Team!Expire(i)
        PROVE  TeamInv'
    <2> DEFINE claims == [claim EXCEPT ![i].expired = TRUE]
    <2>1. /\ claim' = claims /\ request' = Team!Watched(request, claims)
          /\ UNCHANGED <<document, comment, cursor, given, used>>
        BY <1>4 DEF Team!Expire, Team!history
    <2>2. request \in [Requests -> Asked]
          /\ \A r \in Requests : Alone(request[r], claim) /\ Abreast(request[r], given, used)
        BY DEF TeamInv, TeamTypes
    <2>3. /\ claims \in Seq(ClaimRow) /\ Len(claims) >= Len(claim)
          /\ \A j \in 1..Len(claim) : claims[j].actor = claim[j].actor
        BY RowChange
    <2> HIDE DEF claims
    <2> QED
        BY <2>1, <2>2, <2>3, ClaimsChange
  <1> QED
      BY <1>1, <1>2, <1>3, <1>4

(* A comment is made, resolved or deleted.                                 *)
LEMMA CommentTeam ==
    ASSUME TeamInv, NEW r \in Requests,
           Team!CreateComment(r) \/ Team!ResolveComment(r) \/ Team!DeleteComment(r)
    PROVE  TeamInv'
  <1>1. PICK q \in Asked : q = request[r]
      BY DEF TeamInv, TeamTypes
  <1>2. request \in [Requests -> Asked] /\ Alone(q, claim) /\ Abreast(q, given, used)
      BY <1>1 DEF TeamInv, TeamTypes
  <1>3. q.at \in {"comment", "resolve", "deleteComment"} /\ q.actor \in Actors /\ q.op # "claim"
      BY <1>1, <1>2 DEF Team!CreateComment, Team!ResolveComment, Team!DeleteComment, Team!At,
                        Alone, Abreast
  <1> DEFINE p == [q EXCEPT !.at = "done", !.answer = "ok"]
  <1>4. request' = [request EXCEPT ![r] = p] /\ UNCHANGED <<document, claim, cursor, given, used>>
      BY <1>1, <1>2 DEF Team!CreateComment, Team!ResolveComment, Team!DeleteComment, Team!Answer,
                       Team!history
  <1>5. p \in Asked
      BY WithAsked DEF Team!Places, Team!Answers
  <1>6. Alone(p, claim) /\ Abreast(p, given, used)
      BY <1>2, <1>3 DEF Alone, Abreast, Asked
  <1> HIDE DEF p
  <1>7. comment \in Seq(CommentRow) /\ Len(comment) \in Nat
      BY DEF TeamInv, TeamTypes
  <1>8. comment' \in Seq(CommentRow)
    <2>1. CASE Team!CreateComment(r)
      <3> DEFINE row == [author |-> request[r].actor, ws |-> request[r].ws,
                         resolver |-> Team!Nobody, events |-> 0, gone |-> FALSE]
      <3>1. row \in CommentRow
          BY <1>1, <1>3 DEF CommentRow, Asked
      <3>2. comment' = Append(comment, row)
          BY <2>1 DEF Team!CreateComment
      <3> HIDE DEF row
      <3> QED
          BY <1>7, <3>1, <3>2
    <2>2. CASE Team!ResolveComment(r) \/ Team!DeleteComment(r)
      <3> DEFINE i == q.target
      <3>1. comment' \in {[comment EXCEPT ![i].resolver = q.actor, ![i].events = @ + 1],
                          [comment EXCEPT ![i].gone = TRUE]}
          BY <1>1, <2>2 DEF Team!ResolveComment, Team!DeleteComment
      <3> HIDE DEF i
      <3>2. CASE i \in 1..Len(comment)
        <4>1. comment[i] \in CommentRow
            BY <1>7, <3>2
        <4>2. PICK row \in {[comment[i] EXCEPT !.resolver = q.actor, !.events = @ + 1],
                            [comment[i] EXCEPT !.gone = TRUE]} :
                comment' = [comment EXCEPT ![i] = row]
            BY <1>7, <3>1, <3>2
        <4>3. row \in CommentRow
          <5>1. [comment[i] EXCEPT !.gone = TRUE] \in CommentRow
              BY <4>1 DEF CommentRow
          <5>2. ASSUME NEW c \in CommentRow, NEW x \in Actors, NEW n \in Nat
                PROVE  [c EXCEPT !.resolver = x, !.events = n] \in CommentRow
              BY <5>2 DEF CommentRow
          <5>3. comment[i].events + 1 \in Nat
              BY <4>1 DEF CommentRow
          <5>4. [comment[i] EXCEPT !.resolver = q.actor, !.events = @ + 1] \in CommentRow
              BY <1>3, <4>1, <5>2, <5>3
          <5> QED
              BY <4>2, <5>1, <5>4
        <4>4. comment' \in [1..Len(comment) -> CommentRow]
            BY <1>7, <3>2, <4>2, <4>3
        <4> QED
            BY <1>7, <4>4
      <3>3. CASE i \notin 1..Len(comment)
          BY <1>7, <3>1, <3>3
      <3> QED
          BY <3>2, <3>3
    <2> QED
        BY <2>1, <2>2
  <1>9. TeamTypes' /\ CursorsTrue'
      BY <1>4, <1>5, <1>8 DEF TeamInv, TeamTypes, CursorsTrue
  <1>10. \A k \in Requests : Alone(request'[k], claim') /\ Abreast(request'[k], given', used')
      BY <1>2, <1>4, <1>6 DEF TeamInv
  <1> QED
      BY <1>9, <1>10 DEF TeamInv

(* A document is read for an actor, and the cursor set to the version read. *)
LEMMA TouchTeam ==
    ASSUME TeamInv, NEW r \in Requests, Team!TouchReadCursor(r)
    PROVE  TeamInv'
  <1>1. PICK q \in Asked : q = request[r]
      BY DEF TeamInv, TeamTypes
  <1>2. request \in [Requests -> Asked] /\ Alone(q, claim) /\ Abreast(q, given, used)
      BY <1>1 DEF TeamInv, TeamTypes
  <1>3. q.at \in Team!Reading /\ q.actor \in Actors /\ q.op # "claim"
      BY <1>1, <1>2 DEF Team!TouchReadCursor, Team!Reading, Alone, Abreast
  <1> DEFINE a == q.actor
             More(f) == [f EXCEPT ![a] = @ \cup {q.version}]
             ws == IF cursor[a] = Team!NoCursor THEN q.ws ELSE cursor[a].ws
             row == [version |-> q.version, seen |-> Team!Ids(comment), ws |-> ws]
  <1>4. Team!WorkOn(r) /\ cursor' \in {cursor, [cursor EXCEPT ![a] = row]}
      BY <1>1 DEF Team!TouchReadCursor
  <1>5. UNCHANGED <<document, claim, comment>>
        /\ \/ given' = More(given) /\ used' = used
           \/ given' = given /\ used' = More(used)
      BY <1>1, <1>4 DEF Team!WorkOn
  <1>6. PICK p \in {[q EXCEPT !.at = "done", !.answer = "ok"],
                    [q EXCEPT !.at = "done", !.answer = "error"], [q EXCEPT !.at = "write"]} :
          request' = [request EXCEPT ![r] = p]
    <2>1. Team!Step(r, "write") \/ Team!Answer(r, "error") \/ Team!Answer(r, "ok")
        BY <1>4 DEF Team!WorkOn
    <2> QED
        BY <1>1, <1>2, <2>1 DEF Team!Step, Team!Answer
  <1>7. p \in Asked
    <2>1. [q EXCEPT !.at = "done", !.answer = "ok"] \in Asked
        BY WithAsked DEF Team!Places, Team!Answers
    <2>2. [q EXCEPT !.at = "done", !.answer = "error"] \in Asked
        BY WithAsked DEF Team!Places, Team!Answers
    <2>3. [q EXCEPT !.at = "write"] \in Asked
        BY WithAsked DEF Team!Places, Team!Answers
    <2> QED
        BY <1>6, <2>1, <2>2, <2>3
  <1>8. /\ p.at \in {"done", "write"} /\ p.op = q.op /\ p.actor = q.actor /\ p.version = q.version
        /\ p.answer = "omitted" => q.answer = "omitted"
      BY <1>6 DEF Asked
  <1>9. /\ cursor \in [Actors -> [version : Nat, seen : SUBSET Nat, ws : Homes]]
        /\ given \in [Actors -> SUBSET Nat] /\ used \in [Actors -> SUBSET Nat]
        /\ CursorsTrue /\ Len(comment) \in Nat
      BY DEF TeamInv, TeamTypes
  <1>10. q.version \in Nat /\ row \in [version : Nat, seen : SUBSET Nat, ws : Homes]
    <2>1. q.version \in Nat /\ q.ws \in Homes
        BY DEF Asked
    <2>2. ws \in Homes
        BY <1>3, <1>9, <2>1
    <2>3. Team!Ids(comment) \subseteq Nat
        BY <1>9 DEF Team!Ids
    <2> QED
        BY <2>1, <2>2, <2>3
  <1>11. row.version = q.version
      OBVIOUS
  <1> HIDE DEF row
  <1>12. /\ given' \in [Actors -> SUBSET Nat] /\ used' \in [Actors -> SUBSET Nat]
         /\ \A x \in Actors : given[x] \subseteq given'[x] /\ used[x] \subseteq used'[x]
         /\ q.version \in given'[a] \cup used'[a]
    <2>1. ASSUME NEW f \in [Actors -> SUBSET Nat]
          PROVE  /\ More(f) \in [Actors -> SUBSET Nat] /\ q.version \in More(f)[a]
                 /\ \A x \in Actors : f[x] \subseteq More(f)[x]
        BY <1>3, <1>10
    <2> HIDE DEF More
    <2> QED
        BY <1>5, <1>9, <2>1
  <1>13. CursorsTrue'
    <2>1. ASSUME NEW x \in Actors
          PROVE  cursor'[x].version \in given'[x] \cup used'[x] \cup {0}
      <3>1. CASE x = a /\ cursor' # cursor
          BY <1>3, <1>4, <1>9, <1>11, <1>12, <3>1
      <3>2. CASE x # a \/ cursor' = cursor
        <4>1. cursor'[x] = cursor[x]
            BY <1>3, <1>4, <1>9, <3>2
        <4> QED
            BY <1>9, <1>12, <4>1 DEF CursorsTrue
      <3> QED
          BY <3>1, <3>2
    <2> QED
        BY <2>1 DEF CursorsTrue
  <1>14. cursor' \in [Actors -> [version : Nat, seen : SUBSET Nat, ws : Homes]]
      BY <1>3, <1>4, <1>9, <1>10
  <1>15. TeamTypes'
      BY <1>2, <1>5, <1>6, <1>7, <1>12, <1>14 DEF TeamInv, TeamTypes
  <1>16. ASSUME NEW k \in Requests
         PROVE  Alone(request'[k], claim') /\ Abreast(request'[k], given', used')
    <2>1. CASE k = r
      <3>1. request'[k] = p
          BY <1>2, <1>6, <2>1
      <3>2. Alone(p, claim')
          BY <1>3, <1>8 DEF Alone
      <3>3. Abreast(p, given', used')
          BY <1>2, <1>3, <1>8, <1>12 DEF Abreast
      <3> QED
          BY <3>1, <3>2, <3>3
    <2>2. CASE k # r
      <3>1. request'[k] = request[k] /\ claim' = claim
          BY <1>2, <1>5, <1>6, <2>2
      <3>2. Alone(request[k], claim) /\ Abreast(request[k], given, used)
          BY DEF TeamInv
      <3>3. Abreast(request[k], given', used')
          BY <1>12, <3>2 DEF Abreast
      <3> QED
          BY <3>1, <3>2, <3>3
    <2> QED
        BY <2>1, <2>2
  <1> QED
      BY <1>13, <1>15, <1>16 DEF TeamInv

(* A tool that writes makes a version of its own, or none.                 *)
LEMMA WriteTeam ==
    ASSUME TeamInv, NEW r \in Requests, Team!Write(r)
    PROVE  TeamInv'
  <1>1. PICK q \in Asked : q = request[r]
      BY DEF TeamInv, TeamTypes
  <1>2. request \in [Requests -> Asked] /\ Alone(q, claim) /\ Abreast(q, given, used)
      BY <1>1 DEF TeamInv, TeamTypes
  <1>3. q.at = "write" /\ q.actor \in Actors /\ q.op # "claim"
      BY <1>1, <1>2 DEF Team!Write, Team!At, Alone, Abreast
  <1>4. PICK x \in {"not_found", "forbidden", "conflict", "ok"} : Team!Answer(r, x)
    <2>1. PICK base : Team!Answer(r, Team!WriteAnswer(r, base))
        BY DEF Team!Write
    <2>2. Team!WriteAnswer(r, base) \in {"not_found", "forbidden", "conflict", "ok"}
        BY DEF Team!WriteAnswer
    <2> QED
        BY <2>1, <2>2
  <1> DEFINE p == [q EXCEPT !.at = "done", !.answer = x]
  <1>5. request' = [request EXCEPT ![r] = p]
      BY <1>1, <1>2, <1>4 DEF Team!Answer
  <1>6. p \in Asked
    <2>1. x \in Team!Answers /\ "done" \in Team!Places
        BY <1>4 DEF Team!Answers, Team!Places
    <2> QED
        BY <2>1, WithAsked
  <1>7. p.at = "done" /\ p.op = q.op /\ p.actor = q.actor /\ p.answer = x
      BY DEF Asked
  <1> HIDE DEF p
  <1>8. Alone(p, claim) /\ Abreast(p, given, used)
      BY <1>3, <1>4, <1>7 DEF Alone, Abreast
  <1>9. UNCHANGED <<claim, comment, cursor, given, used>>
        /\ document' \in {document, [document EXCEPT !.version = @ + 1]}
      BY DEF Team!Write, Team!history
  <1>10. document' \in [ws : Homes, live : BOOLEAN, version : Nat \ {0}]
    <2>1. document \in [ws : Homes, live : BOOLEAN, version : Nat \ {0}]
        BY DEF TeamInv, TeamTypes
    <2>2. [document EXCEPT !.version = @ + 1] \in [ws : Homes, live : BOOLEAN, version : Nat \ {0}]
        BY <2>1
    <2> QED
        BY <1>9, <2>1, <2>2
  <1>11. TeamTypes' /\ CursorsTrue'
      BY <1>5, <1>6, <1>9, <1>10 DEF TeamInv, TeamTypes, CursorsTrue
  <1>12. \A k \in Requests : Alone(request'[k], claim') /\ Abreast(request'[k], given', used')
      BY <1>2, <1>5, <1>8, <1>9 DEF TeamInv
  <1> QED
      BY <1>11, <1>12 DEF TeamInv

(* What happens to the document meanwhile.                                 *)
LEMMA DocumentTeam ==
    ASSUME TeamInv,
           \/ Team!Revise \/ Team!DeleteDocument
           \/ \E u \in Users, rl \in Team!Roles : Team!GrantChanges(u, rl)
           \/ UNCHANGED Team!vars
    PROVE  TeamInv'
  <1>1. UNCHANGED <<claim, comment, cursor, given, used, request>>
      BY DEF Team!Revise, Team!DeleteDocument, Team!GrantChanges, Team!vars, Team!history
  <1>2. document \in [ws : Homes, live : BOOLEAN, version : Nat \ {0}]
      BY DEF TeamInv, TeamTypes
  <1>3. document' \in [ws : Homes, live : BOOLEAN, version : Nat \ {0}]
    <2>1. [document EXCEPT !.live = FALSE] \in [ws : Homes, live : BOOLEAN, version : Nat \ {0}]
        BY <1>2
    <2>2. [document EXCEPT !.version = @ + 1] \in [ws : Homes, live : BOOLEAN, version : Nat \ {0}]
        BY <1>2
    <2> QED
        BY <1>2, <2>1, <2>2 DEF Team!Revise, Team!DeleteDocument, Team!GrantChanges, Team!vars
  <1>4. TeamTypes' /\ CursorsTrue'
      BY <1>1, <1>3 DEF TeamInv, TeamTypes, CursorsTrue
  <1>5. \A r \in Requests : Alone(request'[r], claim') /\ Abreast(request'[r], given', used')
      BY <1>1 DEF TeamInv
  <1> QED
      BY <1>4, <1>5 DEF TeamInv

(* A transfer takes the rows along as they are.                            *)
LEMMA TransferTeam ==
    ASSUME TeamInv, NEW ws \in Workspaces, Team!Transfer(ws)
    PROVE  TeamInv'
  <1>1. ws \in Homes /\ UNCHANGED <<given, used, request>>
      BY DEF Homes, Team!Transfer, Team!history
  <1>2. /\ claim \in Seq(ClaimRow) /\ Len(claim) \in Nat
        /\ comment \in Seq(CommentRow) /\ Len(comment) \in Nat
        /\ cursor \in [Actors -> [version : Nat, seen : SUBSET Nat, ws : Homes]]
        /\ document \in [ws : Homes, live : BOOLEAN, version : Nat \ {0}]
      BY DEF TeamInv, TeamTypes
  <1>3. document' \in [ws : Homes, live : BOOLEAN, version : Nat \ {0}]
      BY <1>1, <1>2 DEF Team!Transfer
  <1>4. claim' = [i \in 1..Len(claim) |-> [claim[i] EXCEPT !.ws = ws]]
      BY DEF Team!Transfer, Team!Ids
  <1>5. ASSUME NEW c \in ClaimRow
        PROVE  /\ [c EXCEPT !.ws = ws] \in ClaimRow /\ [c EXCEPT !.ws = ws].actor = c.actor
               /\ [c EXCEPT !.ws = ws].released = c.released
               /\ [c EXCEPT !.ws = ws].expired = c.expired
      BY <1>1 DEF ClaimRow
  <1>6. claim' \in [1..Len(claim) -> ClaimRow]
    <2>1. \A i \in 1..Len(claim) : claim[i] \in ClaimRow
        BY <1>2
    <2>2. \A i \in 1..Len(claim) : [claim[i] EXCEPT !.ws = ws] \in ClaimRow
        BY <1>5, <2>1, Zenon
    <2> QED
        BY <1>4, <2>2, Zenon
  <1>7. claim' \in Seq(ClaimRow) /\ Len(claim') = Len(claim)
    <2>1. PICK n \in Nat : n = Len(claim)
        BY <1>2
    <2>2. PICK f : f = claim'
        OBVIOUS
    <2>3. f \in [1..n -> ClaimRow]
        BY <1>6, <2>1, <2>2
    <2>4. f \in Seq(ClaimRow) /\ Len(f) = n
        BY <2>3
    <2> QED
        BY <2>1, <2>2, <2>4
  <1>8. comment' = [i \in 1..Len(comment) |-> [comment[i] EXCEPT !.ws = ws]]
      BY DEF Team!Transfer, Team!Ids
  <1>9. comment' \in Seq(CommentRow)
    <2>1. \A c \in CommentRow : [c EXCEPT !.ws = ws] \in CommentRow
        BY <1>1 DEF CommentRow
    <2>2. comment' \in [1..Len(comment) -> CommentRow]
        BY <1>2, <1>8, <2>1
    <2>3. PICK n \in Nat : n = Len(comment)
        BY <1>2
    <2>4. PICK f : f = comment'
        OBVIOUS
    <2>5. f \in [1..n -> CommentRow]
        BY <2>2, <2>3, <2>4
    <2>6. f \in Seq(CommentRow)
        BY <2>5
    <2> QED
        BY <2>4, <2>6
  <1>10. /\ cursor' \in [Actors -> [version : Nat, seen : SUBSET Nat, ws : Homes]]
         /\ \A a \in Actors : cursor'[a].version = cursor[a].version
    <2>1. cursor' = [a \in Actors |-> IF cursor[a] = Team!NoCursor THEN Team!NoCursor
                                      ELSE [cursor[a] EXCEPT !.ws = ws]]
        BY DEF Team!Transfer
    <2>2. ASSUME NEW x \in [version : Nat, seen : SUBSET Nat, ws : Homes]
          PROVE  /\ [x EXCEPT !.ws = ws] \in [version : Nat, seen : SUBSET Nat, ws : Homes]
                 /\ [x EXCEPT !.ws = ws].version = x.version
        BY <1>1
    <2> QED
        BY <1>2, <2>1, <2>2
  <1>11. TeamTypes'
      BY <1>1, <1>3, <1>7, <1>9, <1>10 DEF TeamInv, TeamTypes
  <1>12. CursorsTrue'
      BY <1>1, <1>10 DEF TeamInv, CursorsTrue
  <1>13. \A a : Team!Rivals(a, claim') = Team!Rivals(a, claim)
    <2>1. \A i \in 1..Len(claim) : /\ claim'[i].actor = claim[i].actor
                                   /\ claim'[i].released = claim[i].released
                                   /\ claim'[i].expired = claim[i].expired
      <3>1. ASSUME NEW i \in 1..Len(claim)
            PROVE  claim[i] \in ClaimRow /\ claim'[i] = [claim[i] EXCEPT !.ws = ws]
          BY <1>2, <1>4, <3>1
      <3> QED
          BY <1>5, <3>1
    <2> QED
        BY <1>7, <2>1 DEF Team!Rivals, Team!Ids, Team!Active
  <1>14. ASSUME NEW r \in Requests
         PROVE  Alone(request'[r], claim') /\ Abreast(request'[r], given', used')
      BY <1>1, <1>13 DEF TeamInv, Alone, Abreast
  <1> QED
      BY <1>11, <1>12, <1>14 DEF TeamInv

LEMMA StepTeam == TeamInv /\ [Team!Next]_Team!vars => TeamInv'
  <1> SUFFICES ASSUME TeamInv, [Team!Next]_Team!vars PROVE TeamInv'
      OBVIOUS
  <1>1. ASSUME NEW r \in Requests, Team!Handle(r)
        PROVE  TeamInv'
    <2>1. CASE Team!ClaimRefresh(r) \/ Team!ClaimCreate(r) \/ Team!ReleaseRow(r)
        BY <2>1, ClaimTeam
    <2>2. CASE Team!CreateComment(r) \/ Team!ResolveComment(r) \/ Team!DeleteComment(r)
        BY <2>2, CommentTeam
    <2>3. CASE Team!TouchReadCursor(r)
        BY <2>3, TouchTeam
    <2>5. CASE Team!Write(r)
        BY <2>5, WriteTeam
    <2>4. CASE Team!ClaimCheck(r) \/ Team!ClaimFind(r) \/ Team!ReleaseFind(r)
               \/ Team!Throws(r) \/ Team!UnreadList(r)
        BY <2>4, ReadTeam
    <2> QED
        BY <1>1, <2>1, <2>2, <2>3, <2>4, <2>5 DEF Team!Handle
  <1>2. ASSUME NEW r \in Requests, NEW a \in Actors, Team!Arrive(r, a)
        PROVE  TeamInv'
    <2>1. CASE \E op \in Team!DocumentOps : Team!Enter(r, a, op)
        BY <2>1, EnterTeam
    <2>2. CASE \/ \E i \in Team!Ids(claim) : Team!AdminRelease(r, a, i)
               \/ \E i \in Team!Ids(comment), op \in {"resolve", "deleteComment"} :
                    Team!OnComment(r, a, i, op)
               \/ \E ws \in Workspaces : Team!UnreadDocuments(r, a, ws)
        BY <2>2, OtherArrivals
    <2> QED
        BY <1>2, <2>1, <2>2 DEF Team!Arrive
  <1>3. CASE Team!Environment
    <2>1. CASE \E i \in Team!Ids(claim) : Team!Expire(i)
        BY <2>1, ClaimTeam
    <2>2. ASSUME NEW ws \in Workspaces, Team!Transfer(ws)
          PROVE  TeamInv'
        BY <2>2, TransferTeam
    <2>3. CASE Team!Revise \/ Team!DeleteDocument
               \/ \E u \in Users, rl \in Team!Roles : Team!GrantChanges(u, rl)
        BY <2>3, DocumentTeam
    <2> QED
        BY <1>3, <2>1, <2>2, <2>3 DEF Team!Environment
  <1>4. CASE UNCHANGED Team!vars
      BY <1>4, DocumentTeam
  <1> QED
      BY <1>1, <1>2, <1>3, <1>4 DEF Team!Next

(* What a claim and a cursor remember is so in every reachable state.      *)
THEOREM TeamInvariant == Team!Spec => []TeamInv
  BY InitTeam, StepTeam, PTL DEF Team!Spec

(* A claim is granted only when no rival's claim has been active all the   *)
(* while (claims.ts:100), for any actors and any claims of theirs.         *)
THEOREM ClaimsStandAlone == Team!Spec => []Team!GrantedAlone
  <1>1. TeamInv => Team!GrantedAlone
      BY DEF TeamInv, Alone, Team!GrantedAlone
  <1> QED
      BY <1>1, TeamInvariant, PTL

(* A document left out of an unread list is in a version that a call of    *)
(* the actor has read, to give it or for a tool to work on                 *)
(* (read-cursors.ts:8, called at mcp/routes.ts:1177).                      *)
THEOREM UnreadIsComplete == Team!Spec => []Team!NoRevisionMissed
  <1>1. TeamInv => Team!NoRevisionMissed
      BY DEF TeamInv, Abreast, Team!NoRevisionMissed
  <1> QED
      BY <1>1, TeamInvariant, PTL

-----------------------------------------------------------------------------
(***************************************************************************)
(* Workspaces: who belongs to them, and by which hosts they are reached.   *)
(***************************************************************************)
CONSTANTS Rows, Emails, Subs, Spaces, ShapeOf, Domains, Slugs, Cloud, SignupOpen, NoOne,
          Founders, EmailOf

VARIABLES user, space, linked, profiles, crossed, late, taken

Tenants == INSTANCE Workspaces WITH None <- NoOne

(* No row, name, domain or role is the word for none; the first workspace  *)
(* has somebody in it, and the table of users is finite.                   *)
TenantsGiven ==
    /\ IsFiniteSet(Rows)
    /\ NoOne \notin Rows \cup Tenants!Names \cup Domains \cup Tenants!Roles
    /\ "form" \notin Subs
    /\ Home \in Spaces
    /\ DOMAIN Founders # {} /\ DOMAIN Founders \subseteq Rows
    /\ \A u \in DOMAIN Founders : Founders[u] \in Tenants!Roles /\ EmailOf[u] \in Emails

PersonRow == [state : {"none", "live", "gone"}, email : Emails \cup {NoOne},
              verified : BOOLEAN, by : Subs \cup {"admin", "form", NoOne}]
SpaceRow == [state : {"none", "live", "gone"}, name : Tenants!Names \cup {NoOne},
             domain : Domains \cup {NoOne}, status : {"pending", "active"}]
Errand == [at : {"idle", "done", "register", "find", "link", "confirm", "signup", "enter", "create",
                 "domain", "invite", "found", "add", "drop", "erase"},
           actor : Rows \cup {NoOne}, row : Rows \cup {NoOne}, email : Emails \cup {NoOne},
           name : Tenants!Names \cup Domains \cup Slugs \cup {NoOne},
           space : Spaces \cup {NoOne}, sub : Subs \cup {NoOne}, verified : BOOLEAN,
           role : Tenants!Roles \cup {NoOne}, sole : SUBSET Spaces]

TenantTypes ==
    /\ user \in [Rows -> PersonRow] /\ space \in [Spaces -> SpaceRow]
    /\ member \in [Spaces -> [Rows -> Tenants!Roles \cup {NoOne}]]
    /\ linked \in [Subs -> Rows \cup {NoOne}]
    /\ group \in [Spaces -> [Slugs -> (SUBSET Rows) \cup {NoOne}]]
    /\ request \in [Requests -> Errand]

(* No two workspaces have a subdomain, or a custom domain, in common.      *)
HostsDiffer ==
    \A v, w \in Spaces : v # w /\ Tenants!Open(v) /\ Tenants!Open(w) =>
        /\ space[v].name # NoOne => space[v].name # space[w].name
        /\ space[v].domain # NoOne => space[v].domain # space[w].domain

Sound == HostsDiffer /\ Tenants!GroupsAreMembers /\ Tenants!LinksFollowEmail

(* What a request has checked still holds, or what it is about is gone for *)
(* good: an address that Google vouched for is the account's, and who is   *)
(* about to be added to a group is a member.                               *)
ErrandOK(q) ==
    /\ q.at \in {"find", "link", "signup"} =>
         q.sub \in Subs /\ <<q.sub, q.email, q.verified>> \in profiles
    /\ q.at = "link" => /\ q.verified = TRUE /\ q.row \in Rows
                        /\ user[q.row].state # "none" /\ user[q.row].email = q.email
    /\ q.at = "confirm" => q.row \in Rows
    /\ q.at = "add" => /\ q.row \in Rows /\ q.space \in Spaces
                       /\ \/ Tenants!Belongs(q.row, q.space)
                          \/ user[q.row].state = "gone" \/ space[q.space].state = "gone"
    /\ q.at \in {"found", "add", "drop"} => q.space \in Spaces /\ q.name \in Slugs
    /\ q.at = "invite" => q.space \in Spaces /\ q.role \in Tenants!Roles
    /\ q.at = "domain" => q.space \in Spaces /\ q.name \in Domains \cup {NoOne}
    /\ q.at \in {"create", "register"} => q.name \in Tenants!Names \cup {NoOne}
    /\ q.at \in {"create", "erase"} => q.actor \in Rows

Joined(u, w) == <<u, w>> \in late

(* Who came into a workspace that a deletion had listed came late; a       *)
(* workspace that a deletion leaves behind has somebody else in it.        *)
DeletionOK(q) ==
    /\ \A w \in q.sole : \A k \in Rows : Tenants!Belongs(k, w) /\ k # q.actor => Joined(k, w)
    /\ \A w \in Spaces \ q.sole :
         Tenants!Belongs(q.actor, w) =>
           w \in crossed \/ \E k \in Rows : Joined(k, w) \/ (k # q.actor /\ Tenants!Belongs(k, w))

(* Two members who leave at once have crossed, unless one came late.       *)
PairOK(q, p) ==
    q.actor # p.actor =>
        \A w \in Spaces : Tenants!Belongs(q.actor, w) /\ Tenants!Belongs(p.actor, w) =>
            w \in crossed \/ Joined(q.actor, w) \/ Joined(p.actor, w)

Races ==
    /\ Tenants!OnlyRacesAbandon
    /\ \A r \in Requests : request[r].at = "erase" => DeletionOK(request[r])
    /\ \A r, s \in Requests : request[r].at = "erase" /\ request[s].at = "erase"
                                => PairOK(request[r], request[s])

TenantsInv == /\ TenantTypes /\ Sound
              /\ \A r \in Requests : ErrandOK(request[r])
              /\ Races

-----------------------------------------------------------------------------
(* What every step keeps, and what every step but a deletion keeps.        *)
Keeps ==
    /\ \A u \in Rows : user[u].state # "none" =>
         /\ user'[u].state # "none" /\ user'[u].email = user[u].email
         /\ user[u].state = "gone" => user'[u].state = "gone"
    /\ \A w \in Spaces : space[w].state = "gone" => space'[w].state = "gone"
    /\ \A w \in Spaces, u \in Rows : Tenants!Belongs(u, w) =>
         \/ Tenants!Belongs(u, w)'
         \/ user'[u].state = "gone" \/ space'[w].state = "gone"
    /\ profiles \subseteq profiles'

Settles ==
    /\ \A w \in Spaces, u \in Rows : Tenants!Belongs(u, w) => Tenants!Belongs(u, w)'
    /\ \A w \in Spaces, u \in Rows :
         Tenants!Belongs(u, w)' /\ ~Tenants!Belongs(u, w) =>
           (Tenants!Listed(w) \/ Tenants!Leaving(u) => <<u, w>> \in late')
    /\ late \subseteq late' /\ crossed \subseteq crossed' /\ taken' = taken
    /\ \A w \in Spaces : Tenants!Open(w)' =>
         Tenants!Open(w) \/ \E u \in Rows : Tenants!Belongs(u, w)'
    /\ \A j \in Requests : request'[j].at = "erase" => request'[j] = request[j]

LEMMA ErrandKeeps == ASSUME Keeps, NEW q \in Errand, ErrandOK(q) PROVE ErrandOK(q)'
  <1>1. q.at = "add" => \/ Tenants!Belongs(q.row, q.space)'
                        \/ user'[q.row].state = "gone" \/ space'[q.space].state = "gone"
      BY DEF ErrandOK, Keeps
  <1>2. q.at = "link" => user'[q.row].state # "none" /\ user'[q.row].email = q.email
      BY DEF ErrandOK, Keeps
  <1>3. profiles \subseteq profiles'
      BY DEF Keeps
  <1> QED
      BY <1>1, <1>2, <1>3 DEF ErrandOK

LEMMA RacesSettle == ASSUME TenantsInv, Settles PROVE Races'
  <1>1. Tenants!OnlyRacesAbandon'
    <2>1. taken' \subseteq late'
        BY DEF Settles, TenantsInv, Races, Tenants!OnlyRacesAbandon
    <2>2. ASSUME NEW w \in Spaces, Tenants!Open(w)'
          PROVE  \/ Tenants!MembersOf(w)' # {} \/ w \in crossed'
                 \/ \E u \in Rows : <<u, w>> \in late'
      <3>1. CASE Tenants!Open(w)
        <4>1. \/ \E u \in Rows : Tenants!Belongs(u, w)
              \/ w \in crossed \/ \E u \in Rows : <<u, w>> \in late
            BY <3>1 DEF TenantsInv, Races, Tenants!OnlyRacesAbandon, Tenants!MembersOf
        <4>2. \/ \E u \in Rows : Tenants!Belongs(u, w)'
              \/ w \in crossed' \/ \E u \in Rows : <<u, w>> \in late'
            BY <4>1 DEF Settles
        <4> QED
            BY <4>2 DEF Tenants!MembersOf
      <3>2. CASE ~Tenants!Open(w)
        <4>1. \E u \in Rows : Tenants!Belongs(u, w)'
            BY <2>2, <3>2 DEF Settles
        <4> QED
            BY <4>1 DEF Tenants!MembersOf
      <3> QED
          BY <3>1, <3>2
    <2> QED
        BY <2>1, <2>2 DEF Tenants!OnlyRacesAbandon
  <1>2. ASSUME NEW r \in Requests, request'[r].at = "erase"
        PROVE  /\ request'[r] = request[r] /\ request[r].at = "erase"
               /\ request[r].actor \in Rows /\ request[r].sole \subseteq Spaces
               /\ Tenants!Leaving(request[r].actor)
               /\ \A w \in request[r].sole : Tenants!Listed(w)
    <2>1. request'[r] = request[r]
        BY <1>2 DEF Settles
    <2>2. request[r] \in Errand /\ ErrandOK(request[r])
        BY DEF TenantsInv, TenantTypes
    <2>3. request[r].actor \in Rows /\ request[r].sole \subseteq Spaces
        BY <1>2, <2>1, <2>2 DEF Errand, ErrandOK
    <2> QED
        BY <1>2, <2>1, <2>3 DEF Tenants!Leaving, Tenants!Listed, Tenants!AtStep
  <1>3. ASSUME NEW r \in Requests, request'[r].at = "erase" PROVE DeletionOK(request[r])'
    <2>1. PICK q : q = request[r]
        OBVIOUS
    <2>2. /\ request'[r] = q /\ q.actor \in Rows /\ q.sole \subseteq Spaces
          /\ Tenants!Leaving(q.actor) /\ \A w \in q.sole : Tenants!Listed(w)
          /\ DeletionOK(q)
        BY <1>2, <1>3, <2>1 DEF TenantsInv, Races
    <2>3. ASSUME NEW w \in q.sole, NEW k \in Rows, Tenants!Belongs(k, w)', k # q.actor
          PROVE  <<k, w>> \in late'
        BY <2>2, <2>3 DEF DeletionOK, Joined, Settles
    <2>4. ASSUME NEW w \in Spaces \ q.sole, Tenants!Belongs(q.actor, w)'
          PROVE  \/ w \in crossed'
                 \/ \E k \in Rows : <<k, w>> \in late' \/ (k # q.actor /\ Tenants!Belongs(k, w)')
      <3>1. CASE ~Tenants!Belongs(q.actor, w)
          BY <2>2, <2>4, <3>1 DEF Settles
      <3>2. CASE Tenants!Belongs(q.actor, w)
        <4>1. \/ w \in crossed
              \/ \E k \in Rows : <<k, w>> \in late \/ (k # q.actor /\ Tenants!Belongs(k, w))
            BY <2>2, <2>4, <3>2 DEF DeletionOK, Joined
        <4> QED
            BY <4>1 DEF Settles
      <3> QED
          BY <3>1, <3>2
    <2> QED
        BY <2>2, <2>3, <2>4 DEF DeletionOK, Joined
  <1>4. ASSUME NEW r \in Requests, NEW s \in Requests,
               request'[r].at = "erase", request'[s].at = "erase"
        PROVE  PairOK(request[r], request[s])'
    <2>1. PICK q, p : q = request[r] /\ p = request[s]
        OBVIOUS
    <2>2. /\ request'[r] = q /\ request'[s] = p /\ q.actor \in Rows /\ p.actor \in Rows
          /\ Tenants!Leaving(q.actor) /\ Tenants!Leaving(p.actor) /\ PairOK(q, p)
        BY <1>2, <1>4, <2>1 DEF TenantsInv, Races
    <2>3. ASSUME NEW w \in Spaces, q.actor # p.actor,
                 Tenants!Belongs(q.actor, w)', Tenants!Belongs(p.actor, w)'
          PROVE  w \in crossed' \/ <<q.actor, w>> \in late' \/ <<p.actor, w>> \in late'
      <3>1. CASE Tenants!Belongs(q.actor, w) /\ Tenants!Belongs(p.actor, w)
        <4>1. w \in crossed \/ <<q.actor, w>> \in late \/ <<p.actor, w>> \in late
            BY <2>2, <2>3, <3>1 DEF PairOK, Joined
        <4> QED
            BY <4>1 DEF Settles
      <3>2. CASE ~Tenants!Belongs(q.actor, w)
          BY <2>2, <2>3, <3>2 DEF Settles
      <3>3. CASE ~Tenants!Belongs(p.actor, w)
          BY <2>2, <2>3, <3>3 DEF Settles
      <3> QED
          BY <3>1, <3>2, <3>3
    <2> QED
        BY <2>2, <2>3 DEF PairOK, Joined
  <1> QED
      BY <1>1, <1>3, <1>4 DEF Races

(* A request goes on: what is to show of a step that is not a deletion.    *)
LEMMA Assemble ==
    ASSUME TenantsInv, NEW r \in Requests, NEW q \in Errand,
           request' = [request EXCEPT ![r] = q],
           TenantTypes', Sound', Keeps, Settles, ErrandOK(q)'
    PROVE  TenantsInv'
  <1>1. Races'
      BY RacesSettle
  <1>2. ASSUME NEW j \in Requests PROVE ErrandOK(request[j])'
    <2>1. request[j] \in Errand /\ ErrandOK(request[j])
        BY DEF TenantsInv, TenantTypes
    <2>2. CASE j = r
      <3>1. request'[j] = q
          BY <2>2 DEF TenantsInv, TenantTypes
      <3> QED
          BY <3>1 DEF ErrandOK
    <2>3. CASE j # r
      <3>1. PICK x : x = request[j]
          OBVIOUS
      <3>2. ErrandOK(x)'
          BY <2>1, <3>1, ErrandKeeps
      <3>3. request'[j] = x
          BY <2>3, <3>1 DEF TenantsInv, TenantTypes
      <3> QED
          BY <3>2, <3>3 DEF ErrandOK
    <2> QED
        BY <2>2, <2>3
  <1> QED
      BY <1>1, <1>2 DEF TenantsInv

LEMMA TablesStill == ASSUME UNCHANGED <<user, space, member>>
                     PROVE  /\ \A u : Tenants!Live(u)' = Tenants!Live(u)
                            /\ \A w : Tenants!Open(w)' = Tenants!Open(w)
                            /\ \A u, w : Tenants!Belongs(u, w)' = Tenants!Belongs(u, w)
                            /\ \A w : Tenants!MembersOf(w)' = Tenants!MembersOf(w)
  BY DEF Tenants!Live, Tenants!Open, Tenants!Belongs, Tenants!MembersOf

(* A request goes on and changes no table.                                 *)
LEMMA ErrandOnly ==
    ASSUME TenantsInv, NEW r \in Requests, NEW q \in Errand,
           request' = [request EXCEPT ![r] = q], q.at # "erase",
           UNCHANGED Tenants!tables, UNCHANGED <<crossed, late, taken>>,
           profiles \subseteq profiles', ErrandOK(q)'
    PROVE  TenantsInv'
  <1>1. UNCHANGED <<user, space, member, linked, group>>
      BY DEF Tenants!tables
  <1>2. TenantTypes'
      BY <1>1 DEF TenantsInv, TenantTypes
  <1>3. Sound'
    <2>1. HostsDiffer'
        BY <1>1 DEF TenantsInv, Sound, HostsDiffer, Tenants!Open
    <2>2. Tenants!GroupsAreMembers'
        BY <1>1, TablesStill DEF TenantsInv, Sound, Tenants!GroupsAreMembers
    <2>3. Tenants!LinksFollowEmail'
        BY <1>1 DEF TenantsInv, Sound, Tenants!LinksFollowEmail, Tenants!Live
    <2> QED
        BY <2>1, <2>2, <2>3 DEF Sound
  <1>4. Keeps
      BY <1>1, TablesStill DEF Keeps
  <1>5. Settles
    <2>1. \A j \in Requests : request'[j].at = "erase" => request'[j] = request[j]
        BY DEF TenantsInv, TenantTypes
    <2> QED
        BY <1>1, <2>1, TablesStill DEF Settles
  <1> QED
      BY <1>2, <1>3, <1>4, <1>5, Assemble

LEMMA InitTenants == ASSUME TenantsGiven, Tenants!Init PROVE TenantsInv
  <1>1. PICK n, z, i : n = Tenants!NoRow /\ z = Tenants!NoSpace /\ i = Tenants!Idle
      OBVIOUS
  <1>2. n \in PersonRow /\ n.state = "none"
      BY <1>1 DEF Tenants!NoRow, PersonRow
  <1>3. z \in SpaceRow /\ z.state = "none" /\ z.name = NoOne /\ z.domain = NoOne
      BY <1>1 DEF Tenants!NoSpace, SpaceRow
  <1>4. i \in Errand /\ i.at = "idle"
      BY <1>1 DEF Tenants!Idle, Errand
  <1>5. PICK y : y = [z EXCEPT !.state = "live"]
      OBVIOUS
  <1>6. y \in SpaceRow /\ y.state = "live"
      BY <1>3, <1>5 DEF SpaceRow
  <1>7. \A u \in Rows : user[u] = IF u \in DOMAIN Founders
                                  THEN [state |-> "live", email |-> EmailOf[u], verified |-> TRUE,
                                        by |-> "admin"]
                                  ELSE n
      BY <1>1 DEF Tenants!Init
  <1>8. user \in [Rows -> PersonRow]
    <2>1. ASSUME NEW u \in Rows PROVE user[u] \in PersonRow
      <3>1. CASE u \in DOMAIN Founders
        <4>1. EmailOf[u] \in Emails
            BY <3>1 DEF TenantsGiven
        <4>2. user[u] = [state |-> "live", email |-> EmailOf[u], verified |-> TRUE, by |-> "admin"]
            BY <1>7, <3>1
        <4> QED
            BY <4>1, <4>2 DEF PersonRow
      <3>2. CASE u \notin DOMAIN Founders
          BY <1>2, <1>7, <3>2
      <3> QED
          BY <3>1, <3>2
    <2> QED
        BY <2>1 DEF Tenants!Init
  <1>9. space = [w \in Spaces |-> IF w = Home THEN y ELSE z]
      BY <1>1, <1>5 DEF Tenants!Init
  <1>10. \A w \in Spaces, u \in Rows :
           member[w][u] = IF w = Home /\ u \in DOMAIN Founders THEN Founders[u] ELSE NoOne
      BY DEF Tenants!Init
  <1>11. member \in [Spaces -> [Rows -> Tenants!Roles \cup {NoOne}]]
      BY DEF Tenants!Init, TenantsGiven
  <1>12. /\ linked = [s \in Subs |-> NoOne] /\ group = [w \in Spaces |-> [g \in Slugs |-> NoOne]]
         /\ request = [r \in Requests |-> i]
         /\ profiles = {} /\ crossed = {} /\ late = {} /\ taken = {}
      BY <1>1 DEF Tenants!Init
  <1>13. TenantTypes
      BY <1>3, <1>4, <1>6, <1>8, <1>9, <1>11, <1>12 DEF TenantTypes
  <1>14. \A w \in Spaces : Tenants!Open(w) <=> w = Home
      BY <1>3, <1>6, <1>9 DEF Tenants!Open
  <1>15. \A w \in Spaces, u \in Rows : Tenants!Belongs(u, w) <=> w = Home /\ u \in DOMAIN Founders
      BY <1>10 DEF Tenants!Belongs, TenantsGiven
  <1>16. Sound
    <2>1. HostsDiffer
        BY <1>14 DEF HostsDiffer
    <2>2. ASSUME NEW u \in DOMAIN Founders PROVE Tenants!Live(u)
      <3>1. u \in Rows
          BY DEF TenantsGiven
      <3>2. user[u] = [state |-> "live", email |-> EmailOf[u], verified |-> TRUE, by |-> "admin"]
          BY <1>7, <3>1
      <3> QED
          BY <3>2 DEF Tenants!Live
    <2>3. Tenants!GroupsAreMembers
        BY <1>12, <1>14, <1>15, <2>2 DEF Tenants!GroupsAreMembers
    <2>4. Tenants!LinksFollowEmail
        BY <1>12 DEF Tenants!LinksFollowEmail
    <2> QED
        BY <2>1, <2>3, <2>4 DEF Sound
  <1>17. \A r \in Requests : request[r].at = "idle" /\ ErrandOK(request[r])
      BY <1>4, <1>12 DEF ErrandOK
  <1>18. Tenants!OnlyRacesAbandon
    <2>1. Tenants!MembersOf(Home) # {}
        BY <1>15 DEF Tenants!MembersOf, TenantsGiven
    <2> QED
        BY <1>12, <1>14, <2>1 DEF Tenants!OnlyRacesAbandon
  <1> QED
      BY <1>13, <1>16, <1>17, <1>18 DEF TenantsInv, Races

(* The requests as they begin.  The values that the record of a request    *)
(* takes are those its operation asks for.                                 *)
LEMMA IdleErrand == /\ Tenants!Idle \in Errand /\ Tenants!Idle.at = "idle"
  <1>1. Tenants!Idle = [at |-> "idle", actor |-> NoOne, row |-> NoOne, email |-> NoOne,
                        name |-> NoOne, space |-> NoOne, sub |-> NoOne, verified |-> FALSE,
                        role |-> NoOne, sole |-> {}]
      BY DEF Tenants!Idle
  <1> QED
      BY <1>1 DEF Errand

(* A request ends, its tables and its histories as they are.               *)
LEMMA EndedErrand ==
    ASSUME TenantsInv, NEW r \in Requests, Tenants!End(r)
    PROVE  \E q \in Errand : /\ request' = [request EXCEPT ![r] = q] /\ q.at = "done"
                             /\ ErrandOK(q) /\ ErrandOK(q)'
  <1>1. PICK i \in Errand : i = Tenants!Idle
      BY IdleErrand
  <1>2. PICK row \in Rows \cup {NoOne} : row = request[r].row
      BY DEF TenantsInv, TenantTypes, Errand
  <1>3. PICK q : q = [i EXCEPT !.at = "done", !.row = row]
      OBVIOUS
  <1>4. q \in Errand /\ q.at = "done"
      BY <1>3 DEF Errand
  <1>5. ErrandOK(q) /\ ErrandOK(q)'
      BY <1>4 DEF ErrandOK
  <1> QED
      BY <1>1, <1>2, <1>3, <1>4, <1>5 DEF Tenants!End

LEMMA BeginSteps ==
    ASSUME TenantsInv, NEW r \in Requests,
           \/ \E e \in Emails, n \in Tenants!Names \cup {NoOne} : Tenants!BeginRegister(r, e, n)
           \/ \E u \in Rows, n \in Tenants!Names \cup {NoOne} : Tenants!BeginCreate(r, u, n)
           \/ \E u \in Rows, w \in Spaces, d \in Domains \cup {NoOne} :
                Tenants!BeginDomain(r, u, w, d)
    PROVE  TenantsInv'
  <1>1. PICK i \in Errand : i = Tenants!Idle
      BY IdleErrand
  <1>2. UNCHANGED Tenants!tables /\ UNCHANGED <<profiles, crossed, late, taken>>
      BY DEF Tenants!BeginRegister, Tenants!BeginCreate, Tenants!BeginDomain, Tenants!history
  <1>3. SUFFICES \E q \in Errand : /\ request' = [request EXCEPT ![r] = q] /\ q.at # "erase"
                                   /\ ErrandOK(q)'
      BY <1>2, ErrandOnly
  <1>4. ASSUME NEW e \in Emails, NEW n \in Tenants!Names \cup {NoOne},
               Tenants!BeginRegister(r, e, n)
        PROVE  \E q \in Errand : /\ request' = [request EXCEPT ![r] = q] /\ q.at # "erase"
                                 /\ ErrandOK(q)'
    <2>1. PICK q : q = [i EXCEPT !.at = "register", !.email = e, !.name = n]
        OBVIOUS
    <2>2. q \in Errand
        BY <2>1 DEF Errand
    <2>3. q.at = "register" /\ q.name = n
        BY <2>1 DEF Errand
    <2> QED
        BY <1>1, <1>4, <2>1, <2>2, <2>3 DEF Tenants!BeginRegister, Tenants!Begin, ErrandOK
  <1>5. ASSUME NEW u \in Rows, NEW n \in Tenants!Names \cup {NoOne}, Tenants!BeginCreate(r, u, n)
        PROVE  \E q \in Errand : /\ request' = [request EXCEPT ![r] = q] /\ q.at # "erase"
                                 /\ ErrandOK(q)'
    <2>1. PICK q : q = [i EXCEPT !.at = "create", !.actor = u, !.name = n]
        OBVIOUS
    <2>2. q \in Errand
        BY <2>1 DEF Errand
    <2>3. q.at = "create" /\ q.name = n /\ q.actor = u
        BY <2>1 DEF Errand
    <2> QED
        BY <1>1, <1>5, <2>1, <2>2, <2>3 DEF Tenants!BeginCreate, Tenants!Begin, ErrandOK
  <1>6. ASSUME NEW u \in Rows, NEW w \in Spaces, NEW d \in Domains \cup {NoOne},
               Tenants!BeginDomain(r, u, w, d)
        PROVE  \E q \in Errand : /\ request' = [request EXCEPT ![r] = q] /\ q.at # "erase"
                                 /\ ErrandOK(q)'
    <2>1. PICK q : q = [i EXCEPT !.at = "domain", !.actor = u, !.space = w, !.name = d]
        OBVIOUS
    <2>2. q \in Errand
        BY <2>1 DEF Errand
    <2>3. q.at = "domain" /\ q.name = d /\ q.space = w
        BY <2>1 DEF Errand
    <2> QED
        BY <1>1, <1>6, <2>1, <2>2, <2>3 DEF Tenants!BeginDomain, Tenants!Begin, ErrandOK
  <1> QED
      BY <1>4, <1>5, <1>6

LEMMA GoogleSteps ==
    ASSUME TenantsInv, NEW r \in Requests,
           \/ \E e \in Emails, s \in Subs, v \in BOOLEAN : Tenants!BeginGoogle(r, s, e, v)
           \/ Tenants!FindByEmail(r) \/ Tenants!Enter(r) \/ Tenants!Fail(r)
    PROVE  TenantsInv'
  <1>1. PICK i \in Errand : i = Tenants!Idle
      BY IdleErrand
  <1>2. PICK x : x = request[r]
      OBVIOUS
  <1>3. x \in Errand /\ ErrandOK(x)
      BY <1>2 DEF TenantsInv, TenantTypes
  <1>4. ASSUME NEW e \in Emails, NEW s \in Subs, NEW v \in BOOLEAN, Tenants!BeginGoogle(r, s, e, v)
        PROVE  TenantsInv'
    <2>1. PICK at \in {"enter", "find"} : at = IF linked[s] # NoOne THEN "enter" ELSE "find"
        OBVIOUS
    <2>2. PICK u \in Rows \cup {NoOne} : u = linked[s]
        BY DEF TenantsInv, TenantTypes
    <2>3. PICK q : q = [i EXCEPT !.at = at, !.row = u, !.sub = s, !.email = e, !.verified = v]
        OBVIOUS
    <2>4. q \in Errand
        BY <2>3 DEF Errand
    <2>5. q.at = at /\ q.sub = s /\ q.email = e /\ q.verified = v
        BY <2>3 DEF Errand
    <2>6. /\ profiles' = profiles \cup {<<s, e, v>>}
          /\ UNCHANGED Tenants!tables /\ UNCHANGED <<crossed, late, taken>>
        BY <1>4 DEF Tenants!BeginGoogle
    <2>7. request' = [request EXCEPT ![r] = q]
        BY <1>1, <1>4, <2>1, <2>2, <2>3 DEF Tenants!BeginGoogle, Tenants!Begin
    <2>8. ErrandOK(q)'
        BY <2>5, <2>6 DEF ErrandOK
    <2> QED
        BY <2>4, <2>5, <2>6, <2>7, <2>8, ErrandOnly
  <1>5. ASSUME Tenants!End(r), UNCHANGED Tenants!tables, UNCHANGED <<profiles, crossed, late, taken>>
        PROVE  TenantsInv'
    <2>1. PICK q \in Errand : /\ request' = [request EXCEPT ![r] = q] /\ q.at = "done"
                              /\ ErrandOK(q)'
        BY <1>5, EndedErrand
    <2> QED
        BY <1>5, <2>1, ErrandOnly
  <1>6. CASE Tenants!Enter(r) \/ Tenants!Fail(r)
      BY <1>5, <1>6 DEF Tenants!Enter, Tenants!Fail, Tenants!history
  <1>7. CASE Tenants!FindByEmail(r)
    <2>1. UNCHANGED Tenants!tables /\ UNCHANGED <<profiles, crossed, late, taken>> /\ x.at = "find"
        BY <1>2, <1>7 DEF Tenants!FindByEmail, Tenants!history, Tenants!AtStep
    <2>2. x.sub \in Subs /\ <<x.sub, x.email, x.verified>> \in profiles
        BY <1>3, <2>1 DEF ErrandOK
    <2>3. CASE /\ Tenants!RowOf(x.email) # {} /\ x.verified
               /\ request' = [request EXCEPT ![r].at = "link",
                                             ![r].row = CHOOSE u \in Tenants!RowOf(x.email) : TRUE]
      <3>1. PICK k \in Tenants!RowOf(x.email) : k = CHOOSE u \in Tenants!RowOf(x.email) : TRUE
          BY <2>3
      <3>2. k \in Rows /\ user[k].state = "live" /\ user[k].email = x.email
          BY <3>1 DEF Tenants!RowOf, Tenants!Live
      <3>3. PICK q : q = [x EXCEPT !.at = "link", !.row = k]
          OBVIOUS
      <3>4. q \in Errand
          BY <1>3, <3>2, <3>3 DEF Errand
      <3>5. q.at = "link" /\ q.row = k /\ q.sub = x.sub /\ q.email = x.email
            /\ q.verified = x.verified /\ x.verified \in BOOLEAN
          BY <1>3, <3>3 DEF Errand
      <3>6. request' = [request EXCEPT ![r] = q]
          BY <1>2, <2>3, <3>1, <3>3 DEF TenantsInv, TenantTypes
      <3>7. ErrandOK(q)
          BY <2>2, <2>3, <3>2, <3>5 DEF ErrandOK
      <3>8. ErrandOK(q)'
          BY <2>1, <3>7, TablesStill DEF ErrandOK, Tenants!tables
      <3> QED
          BY <2>1, <3>4, <3>5, <3>6, <3>8, ErrandOnly
    <2>4. CASE request' = [request EXCEPT ![r].at = "signup"]
      <3>1. PICK q : q = [x EXCEPT !.at = "signup"]
          OBVIOUS
      <3>2. q \in Errand
          BY <1>3, <3>1 DEF Errand
      <3>3. q.at = "signup" /\ q.sub = x.sub /\ q.email = x.email /\ q.verified = x.verified
          BY <1>3, <3>1 DEF Errand
      <3>4. request' = [request EXCEPT ![r] = q]
          BY <1>2, <2>4, <3>1 DEF TenantsInv, TenantTypes
      <3>5. ErrandOK(q)'
          BY <2>1, <2>2, <3>3 DEF ErrandOK
      <3> QED
          BY <2>1, <3>2, <3>3, <3>4, <3>5, ErrandOnly
    <2> QED
        BY <1>2, <1>5, <1>7, <2>1, <2>3, <2>4 DEF Tenants!FindByEmail
  <1> QED
      BY <1>4, <1>6, <1>7

LEMMA AskSteps ==
    ASSUME TenantsInv, NEW r \in Requests, NEW u \in Rows, NEW w \in Spaces,
           \/ \E e \in Emails, rank \in {"admin", "member"} : Tenants!BeginInvite(r, u, w, e, rank)
           \/ \E g \in Slugs, op \in {"found", "add", "drop"}, k \in Rows :
                Tenants!BeginGroup(r, u, w, g, op, k)
    PROVE  TenantsInv'
  <1>1. PICK i \in Errand : i = Tenants!Idle
      BY IdleErrand
  <1>2. UNCHANGED Tenants!tables /\ UNCHANGED <<profiles, crossed, late, taken>>
      BY DEF Tenants!BeginInvite, Tenants!BeginGroup, Tenants!history
  <1>3. SUFFICES \E q \in Errand : /\ request' = [request EXCEPT ![r] = q] /\ q.at # "erase"
                                   /\ ErrandOK(q)'
      BY <1>2, ErrandOnly
  <1>4. ASSUME NEW e \in Emails, NEW rank \in {"admin", "member"},
               Tenants!BeginInvite(r, u, w, e, rank)
        PROVE  \E q \in Errand : /\ request' = [request EXCEPT ![r] = q] /\ q.at # "erase"
                                 /\ ErrandOK(q)'
    <2>1. PICK k \in Rows \cup {NoOne} :
            k = IF Tenants!RowOf(e) = {} THEN NoOne ELSE CHOOSE z \in Tenants!RowOf(e) : TRUE
      <3>1. Tenants!RowOf(e) \subseteq Rows
          BY DEF Tenants!RowOf
      <3>2. CASE Tenants!RowOf(e) = {}
          BY <3>2
      <3>3. CASE Tenants!RowOf(e) # {}
        <4>1. (CHOOSE z \in Tenants!RowOf(e) : TRUE) \in Tenants!RowOf(e)
            BY <3>3
        <4> QED
            BY <3>1, <3>3, <4>1
      <3> QED
          BY <3>2, <3>3
    <2>2. PICK q : q = [i EXCEPT !.at = "invite", !.actor = u, !.space = w, !.email = e,
                                 !.role = rank, !.row = k]
        OBVIOUS
    <2>3. rank \in Tenants!Roles
        BY DEF Tenants!Roles
    <2>4. q \in Errand
        BY <2>2, <2>3 DEF Errand
    <2>5. q.at = "invite" /\ q.space = w /\ q.role = rank
        BY <2>2 DEF Errand
    <2>6. request' = [request EXCEPT ![r] = q]
        BY <1>1, <1>4, <2>1, <2>2 DEF Tenants!BeginInvite, Tenants!Begin
    <2>7. ErrandOK(q)'
        BY <2>3, <2>5 DEF ErrandOK
    <2> QED
        BY <2>4, <2>5, <2>6, <2>7
  <1>5. ASSUME NEW g \in Slugs, NEW op \in {"found", "add", "drop"}, NEW k \in Rows,
               Tenants!BeginGroup(r, u, w, g, op, k)
        PROVE  \E q \in Errand : /\ request' = [request EXCEPT ![r] = q] /\ q.at # "erase"
                                 /\ ErrandOK(q)'
    <2>1. PICK q : q = [i EXCEPT !.at = op, !.actor = u, !.space = w, !.name = g, !.row = k]
        OBVIOUS
    <2>2. q \in Errand
        BY <2>1 DEF Errand
    <2>3. q.at = op /\ q.space = w /\ q.name = g /\ q.row = k
        BY <2>1 DEF Errand
    <2>4. request' = [request EXCEPT ![r] = q] /\ (op = "add" => Tenants!Belongs(k, w))
        BY <1>1, <1>5, <2>1 DEF Tenants!BeginGroup, Tenants!Begin
    <2>5. Tenants!Belongs(k, w)' = Tenants!Belongs(k, w)
        BY <1>2, TablesStill DEF Tenants!tables
    <2>6. ErrandOK(q)'
        BY <2>3, <2>4, <2>5 DEF ErrandOK
    <2> QED
        BY <2>2, <2>3, <2>4, <2>6
  <1> QED
      BY <1>4, <1>5

(* A deletion that begins lists the workspaces its user has alone, and     *)
(* crosses those that are under way in the others.                         *)
LEMMA BeginDeleteStep ==
    ASSUME TenantsGiven, TenantsInv, NEW r \in Requests, NEW u \in Rows, Tenants!BeginDelete(r, u)
    PROVE  TenantsInv'
  <1>1. PICK i \in Errand : i = Tenants!Idle
      BY IdleErrand
  <1>2. PICK sole \in SUBSET Spaces : sole = Tenants!SoleOf(u)
      BY DEF Tenants!SoleOf
  <1>3. PICK q : q = [i EXCEPT !.at = "erase", !.actor = u, !.sole = sole]
      OBVIOUS
  <1>4. q \in Errand
      BY <1>3 DEF Errand
  <1>5. q.at = "erase" /\ q.actor = u /\ q.sole = sole
      BY <1>3 DEF Errand
  <1>6. /\ request' = [request EXCEPT ![r] = q] /\ request \in [Requests -> Errand]
        /\ request[r].at = "idle"
      BY <1>1, <1>2, <1>3 DEF Tenants!BeginDelete, Tenants!Begin, Tenants!AtStep,
                              TenantsInv, TenantTypes
  <1>7. /\ UNCHANGED <<user, space, member, linked, group, profiles, late, taken>>
        /\ crossed' = crossed \cup {w \in Spaces : Tenants!Belongs(u, w) /\
             \E k \in Requests : Tenants!AtStep(k, "erase") /\ Tenants!Belongs(request[k].actor, w)}
      BY DEF Tenants!BeginDelete, Tenants!tables
  <1>8. TenantTypes'
      BY <1>4, <1>6, <1>7 DEF TenantsInv, TenantTypes
  <1>9. Sound'
    <2>1. HostsDiffer'
        BY <1>7 DEF TenantsInv, Sound, HostsDiffer, Tenants!Open
    <2>2. Tenants!GroupsAreMembers'
        BY <1>7, TablesStill DEF TenantsInv, Sound, Tenants!GroupsAreMembers
    <2>3. Tenants!LinksFollowEmail'
        BY <1>7 DEF TenantsInv, Sound, Tenants!LinksFollowEmail, Tenants!Live
    <2> QED
        BY <2>1, <2>2, <2>3 DEF Sound
  <1>10. \A j \in Requests : request'[j] = IF j = r THEN q ELSE request[j]
      BY <1>6
  <1>11. \A j \in Requests : ErrandOK(request[j])'
    <2>1. ErrandOK(q)
        BY <1>5 DEF ErrandOK
    <2>2. ASSUME NEW x \in Errand, ErrandOK(x) PROVE ErrandOK(x)'
        BY <1>7, <2>2, TablesStill DEF ErrandOK
    <2>3. \A j \in Requests : request[j] \in Errand /\ ErrandOK(request[j])
        BY DEF TenantsInv, TenantTypes
    <2>4. ASSUME NEW j \in Requests PROVE ErrandOK(request[j])'
      <3>1. PICK x \in Errand : x = request'[j] /\ ErrandOK(x)
          BY <1>4, <1>10, <2>1, <2>3
      <3> QED
          BY <2>2, <3>1 DEF ErrandOK
    <2> QED
        BY <2>4
  <1>12. Tenants!OnlyRacesAbandon'
    <2>1. crossed \subseteq crossed'
        BY <1>7
    <2> QED
        BY <1>7, <2>1, TablesStill DEF TenantsInv, Races, Tenants!OnlyRacesAbandon
  <1>13. ASSUME NEW x, DeletionOK(x) PROVE DeletionOK(x)'
      BY <1>7, <1>13, TablesStill DEF DeletionOK, Joined
  <1>14. ASSUME NEW x, NEW y, PairOK(x, y) PROVE PairOK(x, y)'
      BY <1>7, <1>14, TablesStill DEF PairOK, Joined
  <1>15. DeletionOK(q)
    <2>0. ASSUME NEW w \in Spaces
          PROVE  Tenants!Cardinality(Tenants!MembersOf(w)) = Cardinality(Tenants!MembersOf(w))
        BY Zenon DEF Tenants!Cardinality, Cardinality
    <2>1. ASSUME NEW w \in Spaces, NEW k \in Rows, Tenants!Belongs(k, w), Tenants!Belongs(u, w)
          PROVE  /\ Cardinality(Tenants!MembersOf(w)) <= 1 => k = u
                 /\ Tenants!Open(w)
      <3>1. Tenants!MembersOf(w) \subseteq Rows /\ {k, u} \subseteq Tenants!MembersOf(w)
          BY <2>1 DEF Tenants!MembersOf
      <3>2. IsFiniteSet(Tenants!MembersOf(w))
          BY <3>1, FS_Subset DEF TenantsGiven
      <3>3. Cardinality({k, u}) <= Cardinality(Tenants!MembersOf(w))
          BY <3>1, <3>2, FS_Subset
      <3>4. k # u => Cardinality({k, u}) = 2
        <4>1. IsFiniteSet({u}) /\ Cardinality({u}) = 1
            BY FS_Singleton
        <4>2. k # u => Cardinality({u} \cup {k}) = 2
            BY <4>1, FS_AddElement
        <4>3. {u} \cup {k} = {k, u}
            OBVIOUS
        <4> QED
            BY <4>2, <4>3
      <3>5. Cardinality(Tenants!MembersOf(w)) \in Nat
          BY <3>2, FS_CardinalityType
      <3>6. Tenants!Open(w)
          BY <2>1 DEF TenantsInv, Sound, Tenants!GroupsAreMembers
      <3> QED
          BY <3>3, <3>4, <3>5, <3>6
    <2>2. ASSUME NEW w \in Spaces, Tenants!Belongs(u, w), \A k \in Rows : Tenants!Belongs(k, w) => k = u
          PROVE  w \in sole
      <3>1. Tenants!MembersOf(w) = {u}
          BY <2>2 DEF Tenants!MembersOf
      <3>2. Cardinality(Tenants!MembersOf(w)) = 1
          BY <3>1, FS_Singleton
      <3>3. Tenants!Open(w) /\ Cardinality(Tenants!MembersOf(w)) <= 1
          BY <2>1, <2>2, <3>2
      <3> QED
          BY <1>2, <2>0, <2>2, <3>3 DEF Tenants!SoleOf
    <2>3. ASSUME NEW w \in sole, NEW k \in Rows, Tenants!Belongs(k, w) PROVE k = u
      <3>1. /\ w \in Spaces /\ Tenants!Belongs(u, w)
            /\ Cardinality(Tenants!MembersOf(w)) <= 1
          BY <1>2, <2>0, <2>3 DEF Tenants!SoleOf
      <3> QED
          BY <2>1, <2>3, <3>1
    <2> QED
        BY <1>2, <1>5, <2>2, <2>3 DEF DeletionOK
  <1>16. ASSUME NEW j \in Requests, request[j].at = "erase"
         PROVE  PairOK(q, request[j])' /\ PairOK(request[j], q)'
    <2>1. PICK x : x = request[j]
        OBVIOUS
    <2>2. \A w \in Spaces : Tenants!Belongs(u, w) /\ Tenants!Belongs(x.actor, w) => w \in crossed'
        BY <1>7, <1>16, <2>1 DEF Tenants!AtStep
    <2>3. j # r /\ request'[j] = x
        BY <1>6, <1>10, <1>16, <2>1
    <2>4. \A w \in Spaces : Tenants!Belongs(u, w)' /\ Tenants!Belongs(x.actor, w)' => w \in crossed'
        BY <1>7, <2>2, TablesStill
    <2> QED
        BY <1>5, <2>3, <2>4 DEF PairOK
  <1>17. PairOK(q, q)'
      BY DEF PairOK
  <1>18. ASSUME NEW j \in Requests, request'[j].at = "erase" PROVE DeletionOK(request[j])'
    <2>1. PICK x : x = request'[j] /\ DeletionOK(x)
        BY <1>10, <1>15, <1>18 DEF TenantsInv, Races
    <2> QED
        BY <1>13, <2>1 DEF DeletionOK
  <1>19. ASSUME NEW j \in Requests, NEW k \in Requests,
                request'[j].at = "erase", request'[k].at = "erase"
         PROVE  PairOK(request[j], request[k])'
    <2>1. CASE j = r /\ k = r
        BY <1>10, <1>17, <2>1 DEF PairOK
    <2>2. CASE j = r /\ k # r
        BY <1>10, <1>16, <1>19, <2>2 DEF PairOK
    <2>3. CASE j # r /\ k = r
        BY <1>10, <1>16, <1>19, <2>3 DEF PairOK
    <2>4. CASE j # r /\ k # r
      <3>1. PICK x, y : x = request'[j] /\ y = request'[k] /\ PairOK(x, y)
          BY <1>10, <1>19, <2>4 DEF TenantsInv, Races
      <3> QED
          BY <1>14, <3>1 DEF PairOK
    <2> QED
        BY <2>1, <2>2, <2>3, <2>4
  <1> QED
      BY <1>8, <1>9, <1>11, <1>12, <1>18, <1>19 DEF TenantsInv, Races

-----------------------------------------------------------------------------
(* Steps that change the tables.                                           *)

LEMMA UnusedRow == ASSUME TenantsInv, Tenants!Unused(user) # {}
                   PROVE  Tenants!Next1(user) \in Rows /\ user[Tenants!Next1(user)].state = "none"
  BY DEF Tenants!Next1, Tenants!Unused, TenantsInv, TenantTypes

LEMMA UnusedSpace == ASSUME TenantsInv, Tenants!Unused(space) # {}
                     PROVE  /\ Tenants!Next1(space) \in Spaces
                            /\ space[Tenants!Next1(space)].state = "none"
  BY DEF Tenants!Next1, Tenants!Unused, TenantsInv, TenantTypes

LEMMA NamesApart ==
    ASSUME TenantsGiven, TenantsInv, NEW n \in Tenants!Names \cup {NoOne}, ~Tenants!NameTaken(n),
           NEW w \in Spaces, NEW z \in SpaceRow, z.name = n, z.domain = NoOne,
           space' = [space EXCEPT ![w] = z]
    PROVE  HostsDiffer'
  <1>1. \A v \in Spaces : space'[v] = IF v = w THEN z ELSE space[v]
      BY DEF TenantsInv, TenantTypes
  <1>2. \A v \in Spaces : Tenants!Open(v) /\ n # NoOne => space[v].name # n
      BY DEF Tenants!NameTaken
  <1>3. ASSUME NEW v \in Spaces, NEW x \in Spaces, v # x, Tenants!Open(v)', Tenants!Open(x)'
        PROVE  /\ space'[v].name # NoOne => space'[v].name # space'[x].name
               /\ space'[v].domain # NoOne => space'[v].domain # space'[x].domain
    <2>1. CASE v = w
      <3>1. space'[v] = z /\ space'[x] = space[x] /\ Tenants!Open(x)
          BY <1>1, <1>3, <2>1 DEF Tenants!Open
      <3> QED
          BY <1>2, <3>1
    <2>2. CASE x = w
      <3>1. space'[x] = z /\ space'[v] = space[v] /\ Tenants!Open(v)
          BY <1>1, <1>3, <2>2 DEF Tenants!Open
      <3> QED
          BY <1>2, <3>1
    <2>3. CASE v # w /\ x # w
      <3>1. space'[x] = space[x] /\ space'[v] = space[v] /\ Tenants!Open(v) /\ Tenants!Open(x)
          BY <1>1, <1>3, <2>3 DEF Tenants!Open
      <3> QED
          BY <1>3, <3>1 DEF TenantsInv, Sound, HostsDiffer
    <2> QED
        BY <2>1, <2>2, <2>3
  <1> QED
      BY <1>3 DEF HostsDiffer

(* Somebody joins a workspace.                                             *)
LEMMA JoinStep ==
    ASSUME TenantsGiven, TenantsInv, NEW r \in Requests, NEW q \in Errand,
           request' = [request EXCEPT ![r] = q], q.at \in {"done", "enter"},
           NEW u \in Rows, NEW w \in Spaces, NEW rank \in Tenants!Roles, Tenants!Join(u, w, rank),
           user' \in [Rows -> PersonRow], space' \in [Spaces -> SpaceRow],
           linked' \in [Subs -> Rows \cup {NoOne}],
           HostsDiffer', Tenants!LinksFollowEmail', Tenants!Live(u)', Tenants!Open(w)',
           \A k \in Rows : user[k].state # "none" =>
             user'[k].state = user[k].state /\ user'[k].email = user[k].email,
           \A v \in Spaces : /\ space[v].state # "none" => space'[v].state = space[v].state
                             /\ v # w => space'[v].state = space[v].state,
           UNCHANGED <<group, profiles, crossed, taken>>
    PROVE  TenantsInv'
  <1>1. rank # NoOne /\ member \in [Spaces -> [Rows -> Tenants!Roles \cup {NoOne}]]
      BY DEF TenantsGiven, TenantsInv, TenantTypes
  <1>2. /\ member' = [member EXCEPT ![w][u] = rank] /\ late \subseteq late'
        /\ Tenants!Listed(w) \/ Tenants!Leaving(u) => <<u, w>> \in late'
      BY DEF Tenants!Join
  <1>3. member' \in [Spaces -> [Rows -> Tenants!Roles \cup {NoOne}]]
      BY <1>1, <1>2
  <1>4. \A v \in Spaces, k \in Rows :
          Tenants!Belongs(k, v)' <=> Tenants!Belongs(k, v) \/ (k = u /\ v = w)
      BY <1>1, <1>2 DEF Tenants!Belongs
  <1>5. TenantTypes'
      BY <1>3 DEF TenantsInv, TenantTypes
  <1>6. Tenants!GroupsAreMembers'
    <2>1. ASSUME NEW v \in Spaces, NEW k \in Rows, Tenants!Belongs(k, v)'
          PROVE  Tenants!Open(v)' /\ Tenants!Live(k)'
      <3>1. CASE k = u /\ v = w
          BY <3>1
      <3>2. CASE Tenants!Belongs(k, v)
        <4>1. Tenants!Open(v) /\ Tenants!Live(k)
            BY <3>2 DEF TenantsInv, Sound, Tenants!GroupsAreMembers
        <4> QED
            BY <4>1 DEF Tenants!Open, Tenants!Live
      <3> QED
          BY <1>4, <2>1, <3>1, <3>2
    <2>2. \A v \in Spaces : Tenants!MembersOf(v) \subseteq Tenants!MembersOf(v)'
        BY <1>4 DEF Tenants!MembersOf
    <2>3. ASSUME NEW v \in Spaces, NEW g \in Slugs, group'[v][g] # NoOne
          PROVE  group'[v][g] \subseteq Tenants!MembersOf(v)'
        BY <2>2, <2>3 DEF TenantsInv, Sound, Tenants!GroupsAreMembers
    <2> QED
        BY <2>1, <2>3 DEF Tenants!GroupsAreMembers
  <1>7. Keeps
      BY <1>4 DEF Keeps
  <1>8. Settles
    <2>1. \A j \in Requests : request'[j].at = "erase" => request'[j] = request[j]
        BY DEF TenantsInv, TenantTypes
    <2>2. \A v \in Spaces : Tenants!Open(v)' =>
            Tenants!Open(v) \/ \E k \in Rows : Tenants!Belongs(k, v)'
        BY <1>4 DEF Tenants!Open
    <2> QED
        BY <1>2, <1>4, <2>1, <2>2 DEF Settles
  <1>9. ErrandOK(q)'
      BY DEF ErrandOK
  <1> QED
      BY <1>5, <1>6, <1>7, <1>8, <1>9, Assemble DEF Sound

LEMMA AccountStep ==
    ASSUME TenantsGiven, TenantsInv, NEW r \in Requests, NEW q \in Errand,
           request' = [request EXCEPT ![r] = q], q.at \in {"done", "enter"},
           NEW e \in Emails \cup {NoOne}, NEW v \in BOOLEAN, NEW by \in Subs \cup {"form"},
           NEW n \in Tenants!Names \cup {NoOne}, ~Tenants!NameTaken(n),
           by \in Subs => <<by, e, v>> \in profiles,
           Tenants!MakeAccount(e, v, by, n), UNCHANGED <<group, profiles, crossed, taken>>
    PROVE  TenantsInv'
  <1>1. PICK u \in Rows : u = Tenants!Next1(user) /\ user[u].state = "none"
      BY UnusedRow DEF Tenants!MakeAccount
  <1>2. PICK w \in Spaces : w = Tenants!Next1(space) /\ space[w].state = "none"
      BY UnusedSpace DEF Tenants!MakeAccount
  <1>3. PICK p : p = [state |-> "live", email |-> e, verified |-> v, by |-> by]
      OBVIOUS
  <1>4. p \in PersonRow /\ p.state = "live" /\ p.email = e /\ p.by = by
      BY <1>3 DEF PersonRow
  <1>5. PICK z : z = Tenants!NoSpace
      OBVIOUS
  <1>6. PICK y : y = [z EXCEPT !.state = "live", !.name = n]
      OBVIOUS
  <1>7. y \in SpaceRow /\ y.state = "live" /\ y.name = n /\ y.domain = NoOne
    <2>1. z = [state |-> "none", name |-> NoOne, domain |-> NoOne, status |-> "pending"]
        BY <1>5 DEF Tenants!NoSpace
    <2>2. y = [state |-> "live", name |-> n, domain |-> NoOne, status |-> "pending"]
        BY <1>6, <2>1
    <2> QED
        BY <2>2 DEF SpaceRow
  <1>8. /\ user' = [user EXCEPT ![u] = p] /\ space' = [space EXCEPT ![w] = y]
        /\ Tenants!Join(u, w, "admin")
        /\ linked' = IF by \in Subs THEN [linked EXCEPT ![by] = u] ELSE linked
      BY <1>1, <1>2, <1>3, <1>5, <1>6 DEF Tenants!MakeAccount
  <1>9. /\ \A k \in Rows : user'[k] = IF k = u THEN p ELSE user[k]
        /\ \A x \in Spaces : space'[x] = IF x = w THEN y ELSE space[x]
        /\ user' \in [Rows -> PersonRow] /\ space' \in [Spaces -> SpaceRow]
        /\ linked' \in [Subs -> Rows \cup {NoOne}]
      BY <1>4, <1>7, <1>8 DEF TenantsInv, TenantTypes
  <1>10. HostsDiffer'
      BY <1>7, <1>8, NamesApart
  <1>11. Tenants!LinksFollowEmail'
    <2>1. ASSUME NEW s \in Subs, linked'[s] # NoOne
          PROVE  /\ Tenants!Live(linked[s])'
                 /\ \/ <<s, user'[linked'[s]].email, TRUE>> \in profiles'
                    \/ user'[linked'[s]].by = s /\ <<s, user'[linked'[s]].email, FALSE>> \in profiles'
      <3>1. CASE s = by
        <4>1. linked'[s] = u /\ user'[u] = p
            BY <1>8, <1>9, <3>1 DEF TenantsInv, TenantTypes
        <4>2. v = TRUE \/ v = FALSE
            OBVIOUS
        <4> QED
            BY <1>4, <3>1, <4>1, <4>2 DEF Tenants!Live
      <3>2. CASE s # by
        <4>1. linked'[s] = linked[s] /\ linked[s] \in Rows
            BY <1>8, <2>1, <3>2 DEF TenantsInv, TenantTypes
        <4>2. /\ Tenants!Live(linked[s])
              /\ \/ <<s, user[linked[s]].email, TRUE>> \in profiles
                 \/ user[linked[s]].by = s /\ <<s, user[linked[s]].email, FALSE>> \in profiles
            BY <2>1, <4>1 DEF TenantsInv, Sound, Tenants!LinksFollowEmail
        <4>3. user'[linked[s]] = user[linked[s]]
            BY <1>1, <1>9, <4>1, <4>2 DEF Tenants!Live
        <4> QED
            BY <4>1, <4>2, <4>3 DEF Tenants!Live
      <3> QED
          BY <3>1, <3>2
    <2> QED
        BY <2>1 DEF Tenants!LinksFollowEmail
  <1>12. Tenants!Live(u)' /\ Tenants!Open(w)' /\ "admin" \in Tenants!Roles
      BY <1>4, <1>7, <1>9 DEF Tenants!Live, Tenants!Open, Tenants!Roles
  <1>13. /\ \A k \in Rows : user[k].state # "none" =>
              user'[k].state = user[k].state /\ user'[k].email = user[k].email
         /\ \A x \in Spaces : /\ space[x].state # "none" => space'[x].state = space[x].state
                              /\ x # w => space'[x].state = space[x].state
      BY <1>1, <1>2, <1>9
  <1> QED
      BY <1>8, <1>9, <1>10, <1>11, <1>12, <1>13, JoinStep

LEMMA RegisterStep ==
    ASSUME TenantsGiven, TenantsInv, NEW r \in Requests,
           Tenants!CommitRegister(r) \/ Tenants!GoogleSignup(r)
    PROVE  TenantsInv'
  <1>1. PICK x : x = request[r]
      OBVIOUS
  <1>2. x \in Errand /\ ErrandOK(x)
      BY <1>1 DEF TenantsInv, TenantTypes
  <1>3. ASSUME Tenants!End(r), UNCHANGED Tenants!tables, UNCHANGED <<profiles, crossed, late, taken>>
        PROVE  TenantsInv'
    <2>1. PICK q \in Errand : /\ request' = [request EXCEPT ![r] = q] /\ q.at = "done"
                              /\ ErrandOK(q)'
        BY <1>3, EndedErrand
    <2> QED
        BY <1>3, <2>1, ErrandOnly
  <1>4. CASE Tenants!CommitRegister(r)
    <2>1. Tenants!End(r) /\ x.at = "register"
        BY <1>1, <1>4 DEF Tenants!CommitRegister, Tenants!AtStep
    <2>2. CASE UNCHANGED <<Tenants!tables, Tenants!history>>
        BY <1>3, <2>1, <2>2 DEF Tenants!history
    <2>3. CASE /\ ~Tenants!NameTaken(x.name)
               /\ Tenants!MakeAccount(x.email, FALSE, "form", x.name)
               /\ UNCHANGED <<group, profiles, crossed, taken>>
      <3>1. PICK q \in Errand : request' = [request EXCEPT ![r] = q] /\ q.at = "done"
          BY <2>1, EndedErrand
      <3>2. x.email \in Emails \cup {NoOne} /\ x.name \in Tenants!Names \cup {NoOne}
          BY <1>2, <2>1 DEF Errand, ErrandOK
      <3>3. "form" \notin Subs
          BY DEF TenantsGiven
      <3> QED
          BY <2>3, <3>1, <3>2, <3>3, AccountStep
    <2> QED
        BY <1>1, <1>4, <2>2, <2>3 DEF Tenants!CommitRegister
  <1>5. CASE Tenants!GoogleSignup(r)
    <2>1. x.at = "signup"
        BY <1>1, <1>5 DEF Tenants!GoogleSignup, Tenants!AtStep
    <2>2. CASE Tenants!End(r) /\ UNCHANGED <<Tenants!tables, Tenants!history>>
        BY <1>3, <2>2 DEF Tenants!history
    <2>3. CASE /\ Tenants!MakeAccount(x.email, x.verified, x.sub, NoOne)
               /\ request' = [request EXCEPT ![r].at = "enter", ![r].row = Tenants!Next1(user)]
               /\ UNCHANGED <<group, profiles, crossed, taken>>
      <3>1. PICK u \in Rows : u = Tenants!Next1(user)
          BY <2>3, UnusedRow DEF Tenants!MakeAccount
      <3>2. PICK q : q = [x EXCEPT !.at = "enter", !.row = u]
          OBVIOUS
      <3>3. q \in Errand
          BY <1>2, <3>2 DEF Errand
      <3>4. q.at = "enter"
          BY <1>2, <3>2 DEF Errand
      <3>5. request' = [request EXCEPT ![r] = q]
          BY <1>1, <2>3, <3>1, <3>2 DEF TenantsInv, TenantTypes
      <3>6. /\ x.sub \in Subs /\ <<x.sub, x.email, x.verified>> \in profiles
            /\ x.email \in Emails \cup {NoOne} /\ x.verified \in BOOLEAN
          BY <1>2, <2>1 DEF Errand, ErrandOK
      <3>7. ~Tenants!NameTaken(NoOne)
          BY DEF Tenants!NameTaken
      <3> QED
          BY <2>3, <3>3, <3>4, <3>5, <3>6, <3>7, AccountStep
    <2> QED
        BY <1>1, <1>5, <2>2, <2>3 DEF Tenants!GoogleSignup
  <1> QED
      BY <1>4, <1>5

LEMMA CreateStep ==
    ASSUME TenantsGiven, TenantsInv, NEW r \in Requests, Tenants!CommitCreate(r)
    PROVE  TenantsInv'
  <1>1. PICK x : x = request[r]
      OBVIOUS
  <1>2. x \in Errand /\ ErrandOK(x) /\ x.at = "create"
      BY <1>1 DEF TenantsInv, TenantTypes, Tenants!CommitCreate, Tenants!AtStep
  <1>3. PICK q \in Errand : /\ request' = [request EXCEPT ![r] = q] /\ q.at = "done"
                            /\ ErrandOK(q)'
      BY EndedErrand DEF Tenants!CommitCreate
  <1>4. UNCHANGED <<user, linked, group, profiles, crossed, taken>>
      BY DEF Tenants!CommitCreate
  <1>5. PICK w \in Spaces : w = Tenants!Next1(space) /\ space[w].state = "none"
      BY UnusedSpace DEF Tenants!CommitCreate
  <1>6. CASE UNCHANGED <<space, member, late>>
      BY <1>3, <1>4, <1>6, ErrandOnly DEF Tenants!tables
  <1>7. CASE /\ ~Tenants!NameTaken(x.name) /\ Tenants!Live(x.actor)
             /\ space' = [space EXCEPT ![w] =
                            [Tenants!NoSpace EXCEPT !.state = "live", !.name = x.name]]
             /\ Tenants!Join(x.actor, w, "admin")
    <2>1. PICK n \in Tenants!Names \cup {NoOne} : n = x.name
        BY <1>2 DEF ErrandOK
    <2>2. PICK z : z = Tenants!NoSpace
        OBVIOUS
    <2>3. z = [state |-> "none", name |-> NoOne, domain |-> NoOne, status |-> "pending"]
        BY <2>2 DEF Tenants!NoSpace
    <2>4. PICK y : y = [z EXCEPT !.state = "live", !.name = n]
        OBVIOUS
    <2>5. y = [state |-> "live", name |-> n, domain |-> NoOne, status |-> "pending"]
        BY <2>3, <2>4
    <2>6. y \in SpaceRow /\ y.state = "live" /\ y.name = n /\ y.domain = NoOne
        BY <2>5 DEF SpaceRow
    <2>7. space' = [space EXCEPT ![w] = y]
        BY <1>7, <2>1, <2>2, <2>4
    <2>8. /\ \A v \in Spaces : space'[v] = IF v = w THEN y ELSE space[v]
          /\ space' \in [Spaces -> SpaceRow]
        BY <2>6, <2>7 DEF TenantsInv, TenantTypes
    <2>9. HostsDiffer'
        BY <1>7, <2>1, <2>6, <2>7, NamesApart
    <2>10. Tenants!LinksFollowEmail'
        BY <1>4 DEF TenantsInv, Sound, Tenants!LinksFollowEmail, Tenants!Live
    <2>11. Tenants!Live(x.actor)' /\ Tenants!Open(w)' /\ x.actor \in Rows
           /\ "admin" \in Tenants!Roles
        BY <1>2, <1>4, <1>7, <2>6, <2>8
           DEF Tenants!Live, Tenants!Open, ErrandOK, Tenants!Roles
    <2>12. /\ user' \in [Rows -> PersonRow] /\ linked' \in [Subs -> Rows \cup {NoOne}]
           /\ \A k \in Rows : user[k].state # "none" =>
                user'[k].state = user[k].state /\ user'[k].email = user[k].email
           /\ \A v \in Spaces : /\ space[v].state # "none" => space'[v].state = space[v].state
                                /\ v # w => space'[v].state = space[v].state
        BY <1>4, <1>5, <2>8 DEF TenantsInv, TenantTypes
    <2> QED
        BY <1>3, <1>4, <1>7, <2>8, <2>9, <2>10, <2>11, <2>12, JoinStep
  <1> QED
      BY <1>1, <1>5, <1>6, <1>7 DEF Tenants!CommitCreate

LEMMA InviteStep ==
    ASSUME TenantsGiven, TenantsInv, NEW r \in Requests, Tenants!CommitInvite(r)
    PROVE  TenantsInv'
  <1>1. PICK x : x = request[r]
      OBVIOUS
  <1>2. x \in Errand /\ ErrandOK(x) /\ x.at = "invite"
      BY <1>1 DEF TenantsInv, TenantTypes, Tenants!CommitInvite, Tenants!AtStep
  <1>3. PICK q \in Errand : /\ request' = [request EXCEPT ![r] = q] /\ q.at = "done"
                            /\ ErrandOK(q)'
      BY EndedErrand DEF Tenants!CommitInvite
  <1>4. UNCHANGED <<space, linked, group, profiles, crossed, taken>>
      BY DEF Tenants!CommitInvite
  <1>5. CASE UNCHANGED <<user, member, late>>
      BY <1>3, <1>4, <1>5, ErrandOnly DEF Tenants!tables
  <1>6. x.space \in Spaces /\ x.role \in Tenants!Roles /\ x.row \in Rows \cup {NoOne}
        /\ x.email \in Emails \cup {NoOne} /\ NoOne \notin Rows
      BY <1>2 DEF ErrandOK, Errand, TenantsGiven
  <1>7. ASSUME NEW u \in Rows, Tenants!Open(x.space), Tenants!Join(u, x.space, x.role),
               user' \in [Rows -> PersonRow], Tenants!Live(u)',
               \A k \in Rows : user[k].state # "none" => user'[k] = user[k]
        PROVE  TenantsInv'
    <2>1. HostsDiffer' /\ Tenants!Open(x.space)'
        BY <1>4, <1>7 DEF TenantsInv, Sound, HostsDiffer, Tenants!Open
    <2>2. Tenants!LinksFollowEmail'
      <3>1. ASSUME NEW s \in Subs, linked[s] # NoOne
            PROVE  linked[s] \in Rows /\ Tenants!Live(linked[s]) /\ user'[linked[s]] = user[linked[s]]
          BY <1>7, <3>1 DEF TenantsInv, TenantTypes, Sound, Tenants!LinksFollowEmail, Tenants!Live
      <3> QED
          BY <1>4, <3>1 DEF TenantsInv, Sound, Tenants!LinksFollowEmail, Tenants!Live
    <2>3. /\ space' \in [Spaces -> SpaceRow] /\ linked' \in [Subs -> Rows \cup {NoOne}]
          /\ \A v \in Spaces : space'[v].state = space[v].state
        BY <1>4 DEF TenantsInv, TenantTypes
    <2> QED
        BY <1>3, <1>4, <1>6, <1>7, <2>1, <2>2, <2>3, JoinStep
  <1>8. CASE /\ x.row = NoOne /\ Tenants!Open(x.space)
             /\ Tenants!Unused(user) # {}
             /\ user' = [user EXCEPT ![Tenants!Next1(user)] =
                           [state |-> "live", email |-> x.email, verified |-> TRUE, by |-> "admin"]]
             /\ Tenants!Join(Tenants!Next1(user), x.space, x.role)
    <2>1. PICK u \in Rows : u = Tenants!Next1(user) /\ user[u].state = "none"
        BY <1>8, UnusedRow
    <2>2. PICK p : p = [state |-> "live", email |-> x.email, verified |-> TRUE, by |-> "admin"]
        OBVIOUS
    <2>3. p \in PersonRow /\ p.state = "live"
        BY <1>6, <2>2 DEF PersonRow
    <2>4. user' = [user EXCEPT ![u] = p] /\ user \in [Rows -> PersonRow]
        BY <1>8, <2>1, <2>2 DEF TenantsInv, TenantTypes
    <2>5. user' \in [Rows -> PersonRow] /\ Tenants!Live(u)'
        BY <2>3, <2>4 DEF Tenants!Live
    <2>6. \A k \in Rows : user[k].state # "none" => user'[k] = user[k]
        BY <2>1, <2>4
    <2> QED
        BY <1>7, <1>8, <2>1, <2>5, <2>6
  <1>9. CASE /\ x.row # NoOne /\ Tenants!Open(x.space) /\ Tenants!Live(x.row)
             /\ user' = user /\ Tenants!Join(x.row, x.space, x.role)
    <2>1. x.row \in Rows /\ user' \in [Rows -> PersonRow] /\ Tenants!Live(x.row)'
        BY <1>6, <1>9 DEF TenantsInv, TenantTypes, Tenants!Live
    <2> QED
        BY <1>7, <1>9, <2>1
  <1> QED
      BY <1>1, <1>5, <1>8, <1>9 DEF Tenants!CommitInvite

(* A step that moves nobody: who there is and who belongs where stays.     *)
Quiet ==
    /\ \A k \in Rows : user'[k].state = user[k].state /\ user'[k].email = user[k].email
                       /\ user'[k].by = user[k].by
    /\ \A v \in Spaces : space'[v].state = space[v].state
    /\ UNCHANGED <<member, profiles, crossed, late, taken>>
    /\ \A j \in Requests : request'[j].at = "erase" => request'[j] = request[j]

LEMMA QuietStays ==
    ASSUME TenantsInv, Quiet
    PROVE  /\ Keeps /\ Settles
           /\ \A v \in Spaces, k \in Rows : Tenants!Belongs(k, v)' = Tenants!Belongs(k, v)
           /\ \A v \in Spaces : Tenants!Open(v)' = Tenants!Open(v)
           /\ \A v \in Spaces : Tenants!MembersOf(v)' = Tenants!MembersOf(v)
           /\ \A k \in Rows : Tenants!Live(k)' = Tenants!Live(k)
  <1>1. \A v \in Spaces, k \in Rows : Tenants!Belongs(k, v)' = Tenants!Belongs(k, v)
      BY DEF Quiet, Tenants!Belongs
  <1>2. \A v \in Spaces : Tenants!Open(v)' = Tenants!Open(v)
      BY DEF Quiet, Tenants!Open
  <1>3. \A v \in Spaces : Tenants!MembersOf(v)' = Tenants!MembersOf(v)
      BY <1>1 DEF Tenants!MembersOf
  <1>4. \A k \in Rows : Tenants!Live(k)' = Tenants!Live(k)
      BY DEF Quiet, Tenants!Live
  <1>5. Keeps
      BY <1>1 DEF Quiet, Keeps
  <1>6. Settles
      BY <1>1, <1>2 DEF Quiet, Settles
  <1> QED
      BY <1>1, <1>2, <1>3, <1>4, <1>5, <1>6

LEMMA QuietSound ==
    ASSUME TenantsInv, Quiet
    PROVE  /\ UNCHANGED space => HostsDiffer'
           /\ UNCHANGED group => Tenants!GroupsAreMembers'
           /\ UNCHANGED linked => Tenants!LinksFollowEmail'
  <1>1. UNCHANGED space => HostsDiffer'
      BY DEF TenantsInv, Sound, HostsDiffer, Tenants!Open
  <1>2. UNCHANGED group => Tenants!GroupsAreMembers'
      BY QuietStays DEF TenantsInv, Sound, Tenants!GroupsAreMembers
  <1>3. UNCHANGED linked => Tenants!LinksFollowEmail'
    <2> SUFFICES ASSUME UNCHANGED linked, NEW s \in Subs, linked[s] # NoOne
                 PROVE  /\ Tenants!Live(linked[s])'
                        /\ \/ <<s, user'[linked[s]].email, TRUE>> \in profiles'
                           \/ /\ user'[linked[s]].by = s
                              /\ <<s, user'[linked[s]].email, FALSE>> \in profiles'
        BY DEF Tenants!LinksFollowEmail
    <2>1. linked[s] \in Rows
        BY DEF TenantsInv, TenantTypes
    <2>2. /\ Tenants!Live(linked[s])
          /\ \/ <<s, user[linked[s]].email, TRUE>> \in profiles
             \/ user[linked[s]].by = s /\ <<s, user[linked[s]].email, FALSE>> \in profiles
        BY DEF TenantsInv, Sound, Tenants!LinksFollowEmail
    <2> QED
        BY <2>1, <2>2 DEF Quiet, Tenants!Live
  <1> QED
      BY <1>1, <1>2, <1>3

LEMMA LinkStep ==
    ASSUME TenantsInv, NEW r \in Requests, Tenants!LinkGoogle(r) \/ Tenants!ConfirmEmail(r)
    PROVE  TenantsInv'
  <1>1. PICK x : x = request[r]
      OBVIOUS
  <1>2. x \in Errand /\ ErrandOK(x) /\ request \in [Requests -> Errand]
      BY <1>1 DEF TenantsInv, TenantTypes
  <1>3. ASSUME Tenants!End(r), UNCHANGED Tenants!tables, UNCHANGED <<profiles, crossed, late, taken>>
        PROVE  TenantsInv'
    <2>1. PICK q \in Errand : /\ request' = [request EXCEPT ![r] = q] /\ q.at = "done"
                              /\ ErrandOK(q)'
        BY <1>3, EndedErrand
    <2> QED
        BY <1>3, <2>1, ErrandOnly
  <1>4. CASE Tenants!LinkGoogle(r)
    <2>1. /\ x.at = "link" /\ UNCHANGED <<user, space, member, group>>
          /\ UNCHANGED <<profiles, crossed, late, taken>>
        BY <1>1, <1>4 DEF Tenants!LinkGoogle, Tenants!AtStep, Tenants!history
    <2>2. CASE Tenants!End(r) /\ UNCHANGED linked
        BY <1>3, <2>1, <2>2 DEF Tenants!tables
    <2>3. CASE /\ Tenants!Live(x.row) /\ linked' = [linked EXCEPT ![x.sub] = x.row]
               /\ request' = [request EXCEPT ![r].at = "confirm"]
      <3>1. /\ x.sub \in Subs /\ <<x.sub, x.email, x.verified>> \in profiles /\ x.verified = TRUE
            /\ x.row \in Rows /\ user[x.row].email = x.email
          BY <1>2, <2>1 DEF ErrandOK
      <3>2. PICK q : q = [x EXCEPT !.at = "confirm"]
          OBVIOUS
      <3>3. q \in Errand
          BY <1>2, <3>2 DEF Errand
      <3>4. q.at = "confirm" /\ q.row = x.row
          BY <1>2, <3>2 DEF Errand
      <3>5. request' = [request EXCEPT ![r] = q]
          BY <1>1, <1>2, <2>3, <3>2
      <3>6. ErrandOK(q)'
          BY <3>1, <3>4 DEF ErrandOK
      <3>7. Quiet
          BY <1>2, <2>1, <3>4, <3>5 DEF Quiet
      <3>8. TenantTypes'
          BY <1>2, <2>1, <2>3, <3>1, <3>3, <3>5 DEF TenantsInv, TenantTypes
      <3>9. Tenants!LinksFollowEmail'
        <4>1. linked \in [Subs -> Rows \cup {NoOne}]
            BY DEF TenantsInv, TenantTypes
        <4>2. ASSUME NEW s \in Subs, linked'[s] # NoOne
              PROVE  /\ Tenants!Live(linked'[s])
                     /\ \/ <<s, user[linked'[s]].email, TRUE>> \in profiles
                        \/ /\ user[linked'[s]].by = s
                           /\ <<s, user[linked'[s]].email, FALSE>> \in profiles
          <5>1. CASE s = x.sub
              BY <2>3, <3>1, <4>1, <5>1
          <5>2. CASE s # x.sub
              BY <2>3, <4>1, <4>2, <5>2 DEF TenantsInv, Sound, Tenants!LinksFollowEmail
          <5> QED
              BY <5>1, <5>2
        <4> QED
            BY <2>1, <4>2 DEF Tenants!LinksFollowEmail, Tenants!Live
      <3>10. Sound'
          BY <2>1, <3>7, <3>9, QuietSound DEF Sound
      <3> QED
          BY <3>3, <3>5, <3>6, <3>7, <3>8, <3>10, QuietStays, Assemble
    <2> QED
        BY <1>1, <1>4, <2>2, <2>3 DEF Tenants!LinkGoogle
  <1>5. CASE Tenants!ConfirmEmail(r)
    <2>1. /\ x.at = "confirm" /\ UNCHANGED <<space, member, linked, group>>
          /\ UNCHANGED <<profiles, crossed, late, taken>>
        BY <1>1, <1>5 DEF Tenants!ConfirmEmail, Tenants!AtStep, Tenants!history
    <2>2. CASE Tenants!End(r) /\ UNCHANGED user
        BY <1>3, <2>1, <2>2 DEF Tenants!tables
    <2>3. CASE /\ user' = [user EXCEPT ![x.row].verified = TRUE]
               /\ request' = [request EXCEPT ![r].at = "enter"]
      <3>1. x.row \in Rows /\ user \in [Rows -> PersonRow]
          BY <1>2, <2>1 DEF ErrandOK, TenantsInv, TenantTypes
      <3>2. PICK q : q = [x EXCEPT !.at = "enter"]
          OBVIOUS
      <3>3. q \in Errand
          BY <1>2, <3>2 DEF Errand
      <3>4. q.at = "enter"
          BY <1>2, <3>2 DEF Errand
      <3>5. request' = [request EXCEPT ![r] = q]
          BY <1>1, <1>2, <2>3, <3>2
      <3>6. ErrandOK(q)'
          BY <3>4 DEF ErrandOK
      <3>7. PICK o \in PersonRow : o = user[x.row]
          BY <3>1
      <3>8. PICK p : p = [o EXCEPT !.verified = TRUE]
          OBVIOUS
      <3>9. p \in PersonRow
          BY <3>7, <3>8 DEF PersonRow
      <3>10. p.state = o.state /\ p.email = o.email /\ p.by = o.by
          BY <3>7, <3>8 DEF PersonRow
      <3>11. user' = [user EXCEPT ![x.row] = p]
          BY <2>3, <3>1, <3>7, <3>8
      <3>12. Quiet
          BY <1>2, <2>1, <3>1, <3>4, <3>5, <3>7, <3>10, <3>11 DEF Quiet
      <3>13. TenantTypes'
          BY <1>2, <2>1, <3>1, <3>3, <3>5, <3>9, <3>11 DEF TenantsInv, TenantTypes
      <3>14. Sound'
          BY <2>1, <3>12, QuietSound DEF Sound
      <3> QED
          BY <3>3, <3>5, <3>6, <3>12, <3>13, <3>14, QuietStays, Assemble
    <2> QED
        BY <1>1, <1>5, <2>2, <2>3 DEF Tenants!ConfirmEmail
  <1> QED
      BY <1>4, <1>5

(* A workspace's domain is set, or goes into force.                        *)
LEMMA DomainStep ==
    ASSUME TenantsGiven, TenantsInv, NEW w \in Spaces, NEW d \in Domains \cup {NoOne},
           NEW st \in {"pending", "active"},
           space' = [space EXCEPT ![w].domain = d, ![w].status = st],
           space[w].domain = d \/ ~Tenants!DomainTaken(d, w)
    PROVE  /\ space' \in [Spaces -> SpaceRow] /\ HostsDiffer'
           /\ \A v \in Spaces : space'[v].state = space[v].state
  <1>1. PICK o \in SpaceRow : o = space[w]
      BY DEF TenantsInv, TenantTypes
  <1>2. PICK y : y = [o EXCEPT !.domain = d, !.status = st]
      OBVIOUS
  <1>3. y \in SpaceRow
      BY <1>1, <1>2 DEF SpaceRow
  <1>4. y.state = o.state /\ y.name = o.name /\ y.domain = d
      BY <1>1, <1>2 DEF SpaceRow
  <1>5. space' = [space EXCEPT ![w] = y] /\ space \in [Spaces -> SpaceRow]
      BY <1>1, <1>2 DEF TenantsInv, TenantTypes
  <1>6. \A v \in Spaces : space'[v] = IF v = w THEN y ELSE space[v]
      BY <1>5
  <1>7. \A v \in Spaces : /\ Tenants!Open(v)' = Tenants!Open(v)
                          /\ space'[v].state = space[v].state /\ space'[v].name = space[v].name
      BY <1>1, <1>4, <1>6 DEF Tenants!Open
  <1>8. \A v, x \in Spaces : v # x /\ Tenants!Open(v) /\ Tenants!Open(x) =>
          /\ space[v].name # NoOne => space[v].name # space[x].name
          /\ space[v].domain # NoOne => space[v].domain # space[x].domain
      BY DEF TenantsInv, Sound, HostsDiffer
  <1>9. ASSUME NEW v \in Spaces, v # w, Tenants!Open(v), Tenants!Open(w), d # NoOne
        PROVE  space[v].domain # d
      BY <1>8, <1>9 DEF Tenants!DomainTaken
  <1>10. ASSUME NEW v \in Spaces, NEW x \in Spaces, v # x, Tenants!Open(v)', Tenants!Open(x)'
         PROVE  /\ space'[v].name # NoOne => space'[v].name # space'[x].name
                /\ space'[v].domain # NoOne => space'[v].domain # space'[x].domain
    <2>1. Tenants!Open(v) /\ Tenants!Open(x)
        BY <1>7, <1>10
    <2>2. /\ space[v].name # NoOne => space[v].name # space[x].name
          /\ space[v].domain # NoOne => space[v].domain # space[x].domain
        BY <1>8, <1>10, <2>1
    <2>3. space'[v].name = space[v].name /\ space'[x].name = space[x].name
        BY <1>7
    <2>4. CASE v = w
      <3>1. space'[v].domain = d /\ space'[x].domain = space[x].domain
          BY <1>4, <1>6, <1>10, <2>4
      <3> QED
          BY <1>9, <1>10, <2>1, <2>2, <2>3, <2>4, <3>1
    <2>5. CASE x = w
      <3>1. space'[x].domain = d /\ space'[v].domain = space[v].domain
          BY <1>4, <1>6, <1>10, <2>5
      <3> QED
          BY <1>9, <1>10, <2>1, <2>2, <2>3, <2>5, <3>1
    <2>6. CASE v # w /\ x # w
        BY <1>6, <2>2, <2>6
    <2> QED
        BY <2>4, <2>5, <2>6
  <1>11. HostsDiffer'
      BY <1>10 DEF HostsDiffer
  <1> QED
      BY <1>3, <1>5, <1>7, <1>11

LEMMA HostStep ==
    ASSUME TenantsGiven, TenantsInv,
           (\E r \in Requests : Tenants!SetDomain(r)) \/ (\E w \in Spaces : Tenants!Activate(w))
    PROVE  TenantsInv'
  <1>1. UNCHANGED <<user, member, linked, group>> /\ UNCHANGED <<profiles, crossed, late, taken>>
      BY DEF Tenants!SetDomain, Tenants!Activate, Tenants!history
  <1>2. ASSUME space' \in [Spaces -> SpaceRow], HostsDiffer',
               \A v \in Spaces : space'[v].state = space[v].state,
               request' \in [Requests -> Errand],
               \A j \in Requests : request'[j].at = "erase" => request'[j] = request[j]
        PROVE  TenantTypes' /\ Sound' /\ Keeps /\ Settles
    <2>1. Quiet
        BY <1>1, <1>2 DEF Quiet
    <2>2. TenantTypes'
        BY <1>1, <1>2 DEF TenantsInv, TenantTypes
    <2> QED
        BY <1>1, <1>2, <2>1, <2>2, QuietStays, QuietSound DEF Sound
  <1>3. ASSUME NEW r \in Requests, Tenants!SetDomain(r) PROVE TenantsInv'
    <2>1. PICK x : x = request[r]
        OBVIOUS
    <2>2. x \in Errand /\ ErrandOK(x) /\ x.at = "domain" /\ request \in [Requests -> Errand]
        BY <1>3, <2>1 DEF TenantsInv, TenantTypes, Tenants!SetDomain, Tenants!AtStep
    <2>3. x.space \in Spaces /\ x.name \in Domains \cup {NoOne}
        BY <2>2 DEF ErrandOK
    <2>4. PICK q \in Errand : /\ request' = [request EXCEPT ![r] = q] /\ q.at = "done"
                              /\ ErrandOK(q)'
        BY <1>3, EndedErrand DEF Tenants!SetDomain
    <2>5. /\ request' \in [Requests -> Errand]
          /\ \A j \in Requests : request'[j].at = "erase" => request'[j] = request[j]
        BY <2>2, <2>4
    <2>6. CASE space' = space
      <3>1. /\ space' \in [Spaces -> SpaceRow] /\ HostsDiffer'
            /\ \A v \in Spaces : space'[v].state = space[v].state
          BY <2>6 DEF TenantsInv, TenantTypes, Sound, HostsDiffer, Tenants!Open
      <3> QED
          BY <1>2, <2>4, <2>5, <3>1, Assemble
    <2>7. CASE /\ ~Tenants!DomainTaken(x.name, x.space)
               /\ space' = [space EXCEPT ![x.space].domain = x.name, ![x.space].status = "pending"]
      <3>1. /\ space' \in [Spaces -> SpaceRow] /\ HostsDiffer'
            /\ \A v \in Spaces : space'[v].state = space[v].state
          BY <2>3, <2>7, DomainStep
      <3> QED
          BY <1>2, <2>4, <2>5, <3>1, Assemble
    <2> QED
        BY <1>3, <2>1, <2>6, <2>7 DEF Tenants!SetDomain
  <1>4. ASSUME NEW w \in Spaces, Tenants!Activate(w) PROVE TenantsInv'
    <2>1. PICK o \in SpaceRow : o = space[w] /\ space \in [Spaces -> SpaceRow]
        BY DEF TenantsInv, TenantTypes
    <2>2. PICK d \in Domains \cup {NoOne} : d = space[w].domain
        BY <2>1 DEF SpaceRow
    <2>3. space' = [space EXCEPT ![w].domain = d, ![w].status = "active"]
      <3>1. space' = [space EXCEPT ![w].status = "active"]
          BY <1>4 DEF Tenants!Activate
      <3>2. [o EXCEPT !.status = "active"] = [o EXCEPT !.domain = d, !.status = "active"]
          BY <2>1, <2>2 DEF SpaceRow
      <3> QED
          BY <2>1, <3>1, <3>2
    <2>4. /\ space' \in [Spaces -> SpaceRow] /\ HostsDiffer'
          /\ \A v \in Spaces : space'[v].state = space[v].state
        BY <2>2, <2>3, DomainStep
    <2>5. request' = request /\ request \in [Requests -> Errand]
        BY <1>4 DEF Tenants!Activate, TenantsInv, TenantTypes
    <2>6. TenantTypes' /\ Sound' /\ Keeps /\ Settles
        BY <1>2, <2>4, <2>5
    <2>7. ASSUME NEW j \in Requests PROVE ErrandOK(request[j])'
      <3>1. PICK x \in Errand : x = request[j] /\ ErrandOK(x)
          BY DEF TenantsInv, TenantTypes
      <3>2. ErrandOK(x)'
          BY <2>6, <3>1, ErrandKeeps
      <3> QED
          BY <2>5, <3>1, <3>2 DEF ErrandOK
    <2> QED
        BY <2>6, <2>7, RacesSettle DEF TenantsInv
  <1> QED
      BY <1>3, <1>4

LEMMA GroupStep ==
    ASSUME TenantsInv, NEW r \in Requests, Tenants!CommitGroup(r)
    PROVE  TenantsInv'
  <1>1. PICK x : x = request[r]
      OBVIOUS
  <1>2. /\ x \in Errand /\ ErrandOK(x) /\ x.at \in {"found", "add", "drop"}
        /\ request \in [Requests -> Errand]
        /\ group \in [Spaces -> [Slugs -> (SUBSET Rows) \cup {NoOne}]]
      BY <1>1 DEF TenantsInv, TenantTypes, Tenants!CommitGroup
  <1>3. PICK q \in Errand : /\ request' = [request EXCEPT ![r] = q] /\ q.at = "done"
                            /\ ErrandOK(q)'
      BY EndedErrand DEF Tenants!CommitGroup
  <1>4. UNCHANGED <<user, space, member, linked>> /\ UNCHANGED <<profiles, crossed, late, taken>>
      BY DEF Tenants!CommitGroup, Tenants!history
  <1>5. PICK w \in Spaces, g \in Slugs : w = x.space /\ g = x.name
      BY <1>2 DEF ErrandOK
  <1>6. PICK old \in (SUBSET Rows) \cup {NoOne} : old = group[w][g]
      BY <1>2
  <1>7. CASE group' = group
      BY <1>3, <1>4, <1>7, ErrandOnly DEF Tenants!tables
  <1>8. ASSUME NEW val \in SUBSET Rows, val \subseteq Tenants!MembersOf(w),
               group' = [group EXCEPT ![w][g] = val]
        PROVE  TenantsInv'
    <2>1. group' \in [Spaces -> [Slugs -> (SUBSET Rows) \cup {NoOne}]]
        BY <1>2, <1>8
    <2>2. TenantTypes'
        BY <1>2, <1>3, <1>4, <2>1 DEF TenantsInv, TenantTypes
    <2>3. Quiet
        BY <1>2, <1>3, <1>4 DEF Quiet
    <2>4. ASSUME NEW v \in Spaces, NEW h \in Slugs, group'[v][h] # NoOne
          PROVE  group'[v][h] \subseteq Tenants!MembersOf(v)
      <3>1. CASE v = w /\ h = g
          BY <1>2, <1>8, <3>1
      <3>2. CASE ~(v = w /\ h = g)
        <4>1. group'[v][h] = group[v][h]
            BY <1>2, <1>8, <3>2
        <4> QED
            BY <2>4, <4>1 DEF TenantsInv, Sound, Tenants!GroupsAreMembers
      <3> QED
          BY <3>1, <3>2
    <2>5. Tenants!GroupsAreMembers'
      <3>1. \A v \in Spaces, k \in Rows : Tenants!Belongs(k, v)' => Tenants!Open(v)' /\ Tenants!Live(k)'
          BY <1>4, TablesStill DEF TenantsInv, Sound, Tenants!GroupsAreMembers
      <3>2. \A v \in Spaces : Tenants!MembersOf(v)' = Tenants!MembersOf(v)
          BY <1>4, TablesStill
      <3> QED
          BY <2>4, <3>1, <3>2 DEF Tenants!GroupsAreMembers
    <2>6. Sound'
        BY <1>4, <2>3, <2>5, QuietSound DEF Sound
    <2> QED
        BY <1>3, <2>2, <2>3, <2>6, QuietStays, Assemble
  <1>9. old # NoOne => old \in SUBSET Rows /\ old \subseteq Tenants!MembersOf(w)
      BY <1>6 DEF TenantsInv, Sound, Tenants!GroupsAreMembers
  <1>10. CASE x.at = "found" /\ group' = [group EXCEPT ![w][g] = {}]
    <2>1. {} \in SUBSET Rows /\ {} \subseteq Tenants!MembersOf(w)
        OBVIOUS
    <2> QED
        BY <1>8, <1>10, <2>1
  <1>11. CASE /\ x.at = "add" /\ group' = [group EXCEPT ![w][g] = old \cup {x.row}]
              /\ old # NoOne /\ Tenants!Open(w) /\ Tenants!Live(x.row)
    <2>1. x.row \in Rows /\ Tenants!Belongs(x.row, w)
        BY <1>2, <1>5, <1>11 DEF ErrandOK, Tenants!Open, Tenants!Live
    <2>2. old \cup {x.row} \in SUBSET Rows /\ old \cup {x.row} \subseteq Tenants!MembersOf(w)
        BY <1>9, <1>11, <2>1 DEF Tenants!MembersOf
    <2> QED
        BY <1>8, <1>11, <2>2
  <1>12. CASE /\ x.at = "drop" /\ group' = [group EXCEPT ![w][g] = old \ {x.row}]
              /\ old # NoOne
      BY <1>8, <1>9, <1>12
  <1>13. CASE x.at = "found"
      BY <1>1, <1>5, <1>7, <1>10, <1>13 DEF Tenants!CommitGroup
  <1>14. CASE x.at = "add"
      BY <1>1, <1>5, <1>6, <1>7, <1>11, <1>14 DEF Tenants!CommitGroup
  <1>15. CASE x.at = "drop"
      BY <1>1, <1>5, <1>6, <1>7, <1>12, <1>15 DEF Tenants!CommitGroup
  <1> QED
      BY <1>2, <1>13, <1>14, <1>15

(* An account goes, with the workspaces its deletion had listed.           *)
LEMMA LeaveStep ==
    ASSUME TenantsInv, NEW r \in Requests, Tenants!Erase(r)
    PROVE  TenantsInv'
  <1>1. PICK x : x = request[r]
      OBVIOUS
  <1>2. x \in Errand /\ ErrandOK(x) /\ x.at = "erase" /\ request \in [Requests -> Errand]
      BY <1>1 DEF TenantsInv, TenantTypes, Tenants!Erase, Tenants!AtStep
  <1>3. PICK q \in Errand : /\ request' = [request EXCEPT ![r] = q] /\ q.at = "done"
                            /\ ErrandOK(q) /\ ErrandOK(q)'
      BY EndedErrand DEF Tenants!Erase
  <1>4. PICK u \in Rows : u = x.actor
      BY <1>2 DEF ErrandOK
  <1>5. PICK gone \in SUBSET Spaces : gone = {w \in x.sole : Tenants!Open(w)}
      BY <1>2 DEF Errand
  <1>6. UNCHANGED <<profiles, crossed, late>>
      BY DEF Tenants!Erase
  <1>7. CASE UNCHANGED <<Tenants!tables, taken>>
      BY <1>3, <1>6, <1>7, ErrandOnly
  <1>8. SUFFICES ASSUME
             Tenants!Live(u),
             user' = [user EXCEPT ![u].state = "gone"],
             space' = [w \in Spaces |-> IF w \in gone THEN [space[w] EXCEPT !.state = "gone"]
                                        ELSE space[w]],
             member' = [w \in Spaces |-> [k \in Rows |-> IF w \in gone \/ k = u THEN NoOne
                                                         ELSE member[w][k]]],
             linked' = [s \in Subs |-> IF linked[s] = u THEN NoOne ELSE linked[s]],
             group' = [w \in Spaces |-> [g \in Slugs |->
                         IF w \in gone \/ group[w][g] = NoOne THEN NoOne
                         ELSE group[w][g] \ {u}]],
             taken' = taken \cup {p \in Rows \X gone : Tenants!Belongs(p[1], p[2]) /\ p[1] # u}
         PROVE  TenantsInv'
      BY <1>1, <1>4, <1>5, <1>7 DEF Tenants!Erase
  <1>9. /\ user \in [Rows -> PersonRow] /\ space \in [Spaces -> SpaceRow]
        /\ member \in [Spaces -> [Rows -> Tenants!Roles \cup {NoOne}]]
        /\ linked \in [Subs -> Rows \cup {NoOne}]
        /\ group \in [Spaces -> [Slugs -> (SUBSET Rows) \cup {NoOne}]]
      BY DEF TenantsInv, TenantTypes
  <1>10. PICK p \in PersonRow : /\ user' = [user EXCEPT ![u] = p]
                                /\ p.state = "gone" /\ p.email = user[u].email
    <2>1. PICK o \in PersonRow : o = user[u]
        BY <1>9
    <2>2. PICK z : z = [o EXCEPT !.state = "gone"]
        OBVIOUS
    <2>3. z \in PersonRow
        BY <2>1, <2>2 DEF PersonRow
    <2>4. z.state = "gone" /\ z.email = o.email
        BY <2>1, <2>2 DEF PersonRow
    <2>5. user' = [user EXCEPT ![u] = z]
        BY <1>8, <1>9, <2>1, <2>2
    <2> QED
        BY <2>1, <2>3, <2>4, <2>5
  <1>11. ASSUME NEW w \in Spaces
         PROVE  /\ space'[w] \in SpaceRow
                /\ w \in gone => space'[w].state = "gone" /\ Tenants!Open(w)
                /\ w \notin gone => space'[w] = space[w]
    <2>1. CASE w \in gone
      <3>1. PICK o \in SpaceRow : o = space[w]
          BY <1>9
      <3>2. PICK z : z = [o EXCEPT !.state = "gone"]
          OBVIOUS
      <3>3. z \in SpaceRow
          BY <3>1, <3>2 DEF SpaceRow
      <3>4. z.state = "gone"
          BY <3>1, <3>2 DEF SpaceRow
      <3>5. space'[w] = z
          BY <1>8, <2>1, <3>1, <3>2
      <3> QED
          BY <1>5, <2>1, <3>3, <3>4, <3>5
    <2>2. CASE w \notin gone
        BY <1>8, <1>9, <2>2
    <2> QED
        BY <2>1, <2>2
  <1>12. \A w \in Spaces, k \in Rows :
           Tenants!Belongs(k, w)' <=> Tenants!Belongs(k, w) /\ w \notin gone /\ k # u
      BY <1>8 DEF Tenants!Belongs
  <1>13. /\ \A w \in Spaces : Tenants!Open(w)' <=> Tenants!Open(w) /\ w \notin gone
         /\ \A k \in Rows : Tenants!Live(k)' <=> Tenants!Live(k) /\ k # u
    <2>1. \A w \in Spaces : Tenants!Open(w)' <=> Tenants!Open(w) /\ w \notin gone
        BY <1>11 DEF Tenants!Open
    <2>2. \A k \in Rows : Tenants!Live(k)' <=> Tenants!Live(k) /\ k # u
        BY <1>9, <1>10 DEF Tenants!Live
    <2> QED
        BY <2>1, <2>2
  <1>14. TenantTypes'
    <2>1. user' \in [Rows -> PersonRow]
        BY <1>9, <1>10
    <2>2. space' \in [Spaces -> SpaceRow]
        BY <1>8, <1>11
    <2>3. member' \in [Spaces -> [Rows -> Tenants!Roles \cup {NoOne}]]
        BY <1>8, <1>9
    <2>4. linked' \in [Subs -> Rows \cup {NoOne}]
        BY <1>8, <1>9
    <2>5. group' \in [Spaces -> [Slugs -> (SUBSET Rows) \cup {NoOne}]]
      <3>1. \A w \in Spaces, g \in Slugs :
              group[w][g] # NoOne => group[w][g] \ {u} \in SUBSET Rows
          BY <1>9
      <3> QED
          BY <1>8, <3>1
    <2>6. request' \in [Requests -> Errand]
        BY <1>2, <1>3
    <2> QED
        BY <2>1, <2>2, <2>3, <2>4, <2>5, <2>6 DEF TenantTypes
  <1>15. Sound'
    <2>1. HostsDiffer'
      <3>1. \A v \in Spaces : Tenants!Open(v)' => Tenants!Open(v) /\ space'[v] = space[v]
          BY <1>11, <1>13
      <3> QED
          BY <3>1 DEF TenantsInv, Sound, HostsDiffer
    <2>2. Tenants!GroupsAreMembers'
      <3>1. ASSUME NEW v \in Spaces, NEW k \in Rows, Tenants!Belongs(k, v)'
            PROVE  Tenants!Open(v)' /\ Tenants!Live(k)'
        <4>1. Tenants!Open(v) /\ Tenants!Live(k)
            BY <1>12, <3>1 DEF TenantsInv, Sound, Tenants!GroupsAreMembers
        <4> QED
            BY <1>12, <1>13, <3>1, <4>1
      <3>2. ASSUME NEW v \in Spaces, NEW g \in Slugs, group'[v][g] # NoOne
            PROVE  group'[v][g] \subseteq Tenants!MembersOf(v)'
        <4>1. v \notin gone /\ group[v][g] # NoOne /\ group'[v][g] = group[v][g] \ {u}
            BY <1>8, <3>2
        <4>2. group[v][g] \subseteq Tenants!MembersOf(v)
            BY <4>1 DEF TenantsInv, Sound, Tenants!GroupsAreMembers
        <4> QED
            BY <1>12, <4>1, <4>2 DEF Tenants!MembersOf
      <3> QED
          BY <3>1, <3>2 DEF Tenants!GroupsAreMembers
    <2>3. Tenants!LinksFollowEmail'
      <3>1. SUFFICES ASSUME NEW s \in Subs, linked'[s] # NoOne
                     PROVE  /\ Tenants!Live(linked[s])'
                            /\ \/ <<s, user'[linked'[s]].email, TRUE>> \in profiles'
                               \/ /\ user'[linked'[s]].by = s
                                  /\ <<s, user'[linked'[s]].email, FALSE>> \in profiles'
                            /\ linked'[s] = linked[s]
          BY DEF Tenants!LinksFollowEmail, Tenants!Live
      <3>2. linked'[s] = linked[s] /\ linked[s] # u /\ linked[s] \in Rows
          BY <1>8, <1>9, <3>1
      <3>3. /\ Tenants!Live(linked[s])
            /\ \/ <<s, user[linked[s]].email, TRUE>> \in profiles
               \/ user[linked[s]].by = s /\ <<s, user[linked[s]].email, FALSE>> \in profiles
          BY <3>1, <3>2 DEF TenantsInv, Sound, Tenants!LinksFollowEmail
      <3>4. user'[linked[s]] = user[linked[s]]
          BY <1>9, <1>10, <3>2
      <3> QED
          BY <1>6, <3>2, <3>3, <3>4 DEF Tenants!Live
    <2> QED
        BY <2>1, <2>2, <2>3 DEF Sound
  <1>16. Keeps
    <2>1. \A k \in Rows : user[k].state # "none" =>
            /\ user'[k].state # "none" /\ user'[k].email = user[k].email
            /\ user[k].state = "gone" => user'[k].state = "gone"
        BY <1>9, <1>10
    <2>2. \A w \in Spaces : space[w].state = "gone" => space'[w].state = "gone"
        BY <1>11
    <2>3. ASSUME NEW w \in Spaces, NEW k \in Rows, Tenants!Belongs(k, w)
          PROVE  \/ Tenants!Belongs(k, w)' \/ user'[k].state = "gone" \/ space'[w].state = "gone"
        BY <1>9, <1>10, <1>11, <1>12, <2>3
    <2> QED
        BY <1>6, <2>1, <2>2, <2>3 DEF Keeps
  <1>17. \A j \in Requests : request'[j] = IF j = r THEN q ELSE request[j]
      BY <1>2, <1>3
  <1>18. ASSUME NEW j \in Requests PROVE ErrandOK(request[j])'
    <2>1. CASE j = r
        BY <1>3, <1>17, <2>1 DEF ErrandOK
    <2>2. CASE j # r
      <3>1. PICK y \in Errand : y = request[j] /\ ErrandOK(y)
          BY DEF TenantsInv, TenantTypes
      <3>2. ErrandOK(y)'
          BY <1>16, <3>1, ErrandKeeps
      <3> QED
          BY <1>17, <2>2, <3>1, <3>2 DEF ErrandOK
    <2> QED
        BY <2>1, <2>2
  <1>19. DeletionOK(x)
      BY <1>1, <1>2 DEF TenantsInv, Races
  <1>20. Tenants!OnlyRacesAbandon'
    <2>1. taken' \subseteq late'
      <3>1. ASSUME NEW t \in Rows \X gone, Tenants!Belongs(t[1], t[2]), t[1] # u
            PROVE  t \in late
        <4>1. t = <<t[1], t[2]>> /\ t[1] \in Rows /\ t[2] \in x.sole
            BY <1>5
        <4> QED
            BY <1>4, <1>19, <3>1, <4>1 DEF DeletionOK, Joined
      <3>2. taken \subseteq late
          BY DEF TenantsInv, Races, Tenants!OnlyRacesAbandon
      <3> QED
          BY <1>6, <1>8, <3>1, <3>2
    <2>2. ASSUME NEW w \in Spaces, Tenants!Open(w)'
          PROVE  \/ \E k \in Rows : Tenants!Belongs(k, w)'
                 \/ w \in crossed' \/ \E k \in Rows : <<k, w>> \in late'
      <3>1. Tenants!Open(w) /\ w \notin gone
          BY <1>13, <2>2
      <3>2. CASE \E k \in Rows : k # u /\ Tenants!Belongs(k, w)
          BY <1>12, <3>1, <3>2
      <3>3. CASE Tenants!Belongs(u, w)
        <4>1. w \notin x.sole
            BY <1>5, <3>1
        <4>2. w \in crossed \/ \E k \in Rows : Joined(k, w) \/ (k # u /\ Tenants!Belongs(k, w))
            BY <1>4, <1>19, <3>3, <4>1 DEF DeletionOK
        <4> QED
            BY <1>6, <3>2, <4>2 DEF Joined
      <3>4. CASE \A k \in Rows : ~Tenants!Belongs(k, w)
        <4>1. Tenants!MembersOf(w) = {}
            BY <3>4 DEF Tenants!MembersOf
        <4> QED
            BY <1>6, <3>1, <4>1 DEF TenantsInv, Races, Tenants!OnlyRacesAbandon
      <3> QED
          BY <3>2, <3>3, <3>4
    <2>3. ASSUME NEW w \in Spaces, Tenants!Open(w)'
          PROVE  \/ Tenants!MembersOf(w)' # {} \/ w \in crossed'
                 \/ \E k \in Rows : <<k, w>> \in late'
        BY <2>2, <2>3 DEF Tenants!MembersOf
    <2> QED
        BY <2>1, <2>3 DEF Tenants!OnlyRacesAbandon
  <1>21. ASSUME NEW j \in Requests, request'[j].at = "erase" PROVE DeletionOK(request[j])'
    <2>1. PICK y : y = request[j]
        OBVIOUS
    <2>2. request'[j] = y /\ DeletionOK(y) /\ PairOK(x, y) /\ y.actor \in Rows /\ j # r
          /\ y \in Errand
      <3>1. j # r /\ request'[j] = y /\ request[j].at = "erase"
          BY <1>3, <1>17, <1>21, <2>1
      <3>2. DeletionOK(y) /\ PairOK(x, y) /\ ErrandOK(y) /\ y \in Errand
          BY <1>1, <1>2, <2>1, <3>1 DEF TenantsInv, TenantTypes, Races
      <3> QED
          BY <2>1, <3>1, <3>2 DEF ErrandOK
    <2>3. \A w \in y.sole : \A k \in Rows : Tenants!Belongs(k, w)' /\ k # y.actor => <<k, w>> \in late
      <3>1. y.sole \subseteq Spaces
          BY <2>2 DEF Errand
      <3> QED
          BY <1>12, <2>2, <3>1 DEF DeletionOK, Joined
    <2>4. ASSUME NEW w \in Spaces \ y.sole, Tenants!Belongs(y.actor, w)'
          PROVE  \/ w \in crossed
                 \/ \E k \in Rows : <<k, w>> \in late \/ (k # y.actor /\ Tenants!Belongs(k, w)')
      <3>1. Tenants!Belongs(y.actor, w) /\ w \notin gone /\ y.actor # u
          BY <1>12, <2>2, <2>4
      <3>2. \/ w \in crossed
            \/ \E k \in Rows : <<k, w>> \in late \/ (k # y.actor /\ Tenants!Belongs(k, w))
          BY <2>2, <3>1 DEF DeletionOK, Joined
      <3>3. CASE Tenants!Belongs(u, w)
          BY <1>4, <2>2, <3>1, <3>3 DEF PairOK, Joined
      <3>4. CASE ~Tenants!Belongs(u, w)
          BY <1>12, <3>1, <3>2, <3>4
      <3> QED
          BY <3>3, <3>4
    <2> QED
        BY <1>6, <2>2, <2>3, <2>4 DEF DeletionOK, Joined
  <1>22. ASSUME NEW j \in Requests, NEW i \in Requests,
                request'[j].at = "erase", request'[i].at = "erase"
         PROVE  PairOK(request[j], request[i])'
    <2>1. PICK y, z : y = request[j] /\ z = request[i]
        OBVIOUS
    <2>2. request'[j] = y /\ request'[i] = z /\ y.at = "erase" /\ z.at = "erase"
        BY <1>3, <1>17, <1>22, <2>1
    <2>3. PairOK(y, z) /\ y.actor \in Rows /\ z.actor \in Rows
        BY <2>1, <2>2 DEF TenantsInv, Races, ErrandOK
    <2>4. \A w \in Spaces : Tenants!Belongs(y.actor, w)' /\ Tenants!Belongs(z.actor, w)' =>
            Tenants!Belongs(y.actor, w) /\ Tenants!Belongs(z.actor, w)
        BY <1>12, <2>3
    <2> QED
        BY <1>6, <2>2, <2>3, <2>4 DEF PairOK, Joined
  <1> QED
      BY <1>14, <1>15, <1>18, <1>20, <1>21, <1>22 DEF TenantsInv, Races

LEMMA TenantsStep ==
    ASSUME TenantsGiven, TenantsInv, [Tenants!Next]_(Tenants!vars) PROVE TenantsInv'
  <1>1. CASE UNCHANGED Tenants!vars
    <2>1. /\ UNCHANGED <<user, space, member, linked, group>> /\ request' = request
          /\ UNCHANGED <<profiles, crossed, late, taken>>
        BY <1>1 DEF Tenants!vars
    <2>2. TenantTypes' /\ Quiet
        BY <2>1 DEF TenantsInv, TenantTypes, Quiet
    <2>3. Sound'
        BY <2>1 DEF TenantsInv, Sound, HostsDiffer, Tenants!GroupsAreMembers,
                    Tenants!LinksFollowEmail, Tenants!Open, Tenants!Live, Tenants!Belongs,
                    Tenants!MembersOf
    <2>4. \A j \in Requests : ErrandOK(request[j])'
        BY <2>1 DEF TenantsInv, ErrandOK, Tenants!Belongs
    <2>5. Races'
        BY <2>1 DEF TenantsInv, Races, Tenants!OnlyRacesAbandon, DeletionOK, PairOK, Joined,
                    Tenants!Open, Tenants!Belongs, Tenants!MembersOf
    <2> QED
        BY <2>2, <2>3, <2>4, <2>5 DEF TenantsInv
  <1>2. CASE \E w \in Spaces : Tenants!Activate(w)
      BY <1>2, HostStep
  <1>3. ASSUME NEW r \in Requests,
               \/ \E e \in Emails :
                    \/ \E n \in Tenants!Names \cup {NoOne} : Tenants!BeginRegister(r, e, n)
                    \/ \E s \in Subs, v \in BOOLEAN : Tenants!BeginGoogle(r, s, e, v)
               \/ Tenants!CommitRegister(r) \/ Tenants!FindByEmail(r) \/ Tenants!LinkGoogle(r)
               \/ Tenants!ConfirmEmail(r) \/ Tenants!GoogleSignup(r) \/ Tenants!Enter(r)
        PROVE  TenantsInv'
      BY <1>3, BeginSteps, GoogleSteps, RegisterStep, LinkStep
  <1>4. ASSUME NEW r \in Requests, NEW u \in Rows,
               \/ \E n \in Tenants!Names \cup {NoOne} : Tenants!BeginCreate(r, u, n)
               \/ Tenants!BeginDelete(r, u)
        PROVE  TenantsInv'
      BY <1>4, BeginSteps, BeginDeleteStep
  <1>5. ASSUME NEW r \in Requests, NEW u \in Rows, NEW w \in Spaces,
               \/ \E d \in Domains \cup {NoOne} : Tenants!BeginDomain(r, u, w, d)
               \/ \E e \in Emails, rank \in {"admin", "member"} :
                    Tenants!BeginInvite(r, u, w, e, rank)
               \/ \E g \in Slugs, op \in {"found", "add", "drop"}, k \in Rows :
                    Tenants!BeginGroup(r, u, w, g, op, k)
        PROVE  TenantsInv'
      BY <1>5, BeginSteps, AskSteps
  <1>6. ASSUME NEW r \in Requests,
               \/ Tenants!CommitCreate(r) \/ Tenants!SetDomain(r) \/ Tenants!CommitInvite(r)
               \/ Tenants!CommitGroup(r) \/ Tenants!Erase(r) \/ Tenants!Fail(r)
        PROVE  TenantsInv'
      BY <1>6, CreateStep, HostStep, InviteStep, GroupStep, LeaveStep, GoogleSteps
  <1> QED
      BY <1>1, <1>2, <1>3, <1>4, <1>5, <1>6 DEF Tenants!Next

THEOREM TenantsInvariant == TenantsGiven => (Tenants!Spec => []TenantsInv)
  <1> SUFFICES ASSUME TenantsGiven PROVE Tenants!Spec => []TenantsInv
      OBVIOUS
  <1>1. Tenants!Init => TenantsInv
      BY InitTenants
  <1>2. TenantsInv /\ [Tenants!Next]_(Tenants!vars) => TenantsInv'
      BY TenantsStep
  <1> QED
      BY <1>1, <1>2, PTL DEF Tenants!Spec

-----------------------------------------------------------------------------
(* No host shows two workspaces: subdomains and domains differ.            *)
LEMMA OneShown ==
    ASSUME TenantsGiven, TenantsInv, NEW h \in Tenants!Hosts
    PROVE  Tenants!Cardinality(Tenants!Shown(h)) <= 1
  <1>1. \A S : Tenants!Cardinality(S) = Cardinality(S)
      BY Zenon DEF Tenants!Cardinality, Cardinality
  <1>2. ASSUME NEW v \in Tenants!Shown(h), NEW w \in Tenants!Shown(h) PROVE v = w
    <2>1. /\ Tenants!Routed(h) /\ v \in Spaces /\ w \in Spaces
          /\ v \in Tenants!At(h) /\ w \in Tenants!At(h)
        BY <1>2 DEF Tenants!Shown, Tenants!At
    <2>2. Tenants!Open(v) /\ Tenants!Open(w)
        BY <2>1 DEF Tenants!At
    <2>3. \/ h.kind = "sub" /\ h.name \in Tenants!Names
          \/ h.kind = "domain" /\ h.domain \in Domains
        BY <2>1 DEF Tenants!Routed, Tenants!IsSubdomain, Tenants!Hosts, Tenants!Base
    <2>4. CASE h.kind = "sub" /\ h.name \in Tenants!Names
      <3>1. space[v].name = h.name /\ space[w].name = h.name /\ h.name # NoOne
          BY <2>1, <2>4 DEF Tenants!At, TenantsGiven
      <3> QED
          BY <2>1, <2>2, <3>1 DEF TenantsInv, Sound, HostsDiffer
    <2>5. CASE h.kind = "domain" /\ h.domain \in Domains
      <3>1. space[v].domain = h.domain /\ space[w].domain = h.domain /\ h.domain # NoOne
          BY <2>1, <2>5 DEF Tenants!At, TenantsGiven
      <3> QED
          BY <2>1, <2>2, <3>1 DEF TenantsInv, Sound, HostsDiffer
    <2> QED
        BY <2>3, <2>4, <2>5
  <1>3. CASE Tenants!Shown(h) = {}
    <2>1. Cardinality({}) = 0
        BY FS_EmptySet
    <2> QED
        BY <1>1, <1>3, <2>1
  <1>4. CASE Tenants!Shown(h) # {}
    <2>1. PICK v : Tenants!Shown(h) = {v}
        BY <1>2, <1>4
    <2>2. Cardinality({v}) = 1
        BY FS_Singleton
    <2> QED
        BY <1>1, <2>1, <2>2
  <1> QED
      BY <1>3, <1>4

LEMMA HostsFollow == ASSUME TenantsGiven, TenantsInv PROVE Tenants!HostsAgree
  <1>1. ASSUME NEW h \in Tenants!Hosts, NEW u \in Rows, NEW w \in Spaces \cup {NoOne},
               Tenants!Routed(h)
        PROVE  Tenants!Contexts(u, h, w) \subseteq Tenants!Shown(h)
      BY <1>1 DEF Tenants!Contexts, Tenants!Shown
  <1>2. Tenants!Shown(Tenants!Base) = {}
      BY DEF Tenants!Shown, Tenants!Routed, Tenants!IsSubdomain, Tenants!Base
  <1>3. \A h : Tenants!ReturnHost(h) = h \/ Tenants!Shown(Tenants!ReturnHost(h)) = {}
      BY <1>2 DEF Tenants!ReturnHost
  <1> QED
      BY <1>1, <1>3, OneShown DEF Tenants!HostsAgree

(* Whatever requests do between one another's steps, a workspace is left   *)
(* without anybody only when two of its members left at once, or when the  *)
(* last came while being deleted, and nobody loses a workspace with        *)
(* another's account but who came into it after the deletion had listed it *)
(* (account-deletion.ts).                                                  *)
THEOREM AbandonedByRaces == TenantsGiven => (Tenants!Spec => []Tenants!OnlyRacesAbandon)
  <1>1. TenantsInv => Tenants!OnlyRacesAbandon
      BY DEF TenantsInv, Races
  <1> QED
      BY <1>1, TenantsInvariant, PTL

(* A Google account opens only the account of an address that Google       *)
(* vouched for or one that it made itself (resolveGoogleUser); who is in a *)
(* group is in its workspace, and who is in a workspace exists; and a host *)
(* gives who signs in there the one workspace that it showed, or none.     *)
THEOREM TenantTablesAgree == TenantsGiven => (Tenants!Spec => []Tenants!TablesAgree)
  <1> SUFFICES ASSUME TenantsGiven PROVE Tenants!Spec => []Tenants!TablesAgree
      OBVIOUS
  <1>1. TenantsInv => Tenants!TablesAgree
      BY HostsFollow DEF TenantsInv, Sound, Tenants!TablesAgree
  <1> QED
      BY <1>1, TenantsInvariant, PTL
=============================================================================
