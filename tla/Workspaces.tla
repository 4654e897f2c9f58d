----------------------------- MODULE Workspaces -----------------------------
(***************************************************************************)
(* Who belongs to which workspace, and by which host a workspace is        *)
(* reached: sign-up by form and by Google, members made by an              *)
(* administrator, groups, workspaces with their subdomain and custom       *)
(* domain, and the deletion of an account with the workspaces it alone     *)
(* belongs to.                                                             *)
(*                                                                         *)
(* A handler checks in one step and writes in a later one; a transaction   *)
(* is one step, which the unique indexes and the foreign keys may refuse.  *)
(***************************************************************************)
EXTENDS Naturals, FiniteSets

CONSTANTS
    Rows,           \* the rows a User table may get
    Emails, Subs,   \* addresses, and the accounts Google knows
    Spaces,         \* the rows a Workspace table may get
    ShapeOf,        \* subdomains, each "good", "reserved", or otherwise "refused"
    Domains,        \* custom domains, as validateCustomDomain accepts them
    Slugs,          \* names of groups
    Requests,
    Cloud, SignupOpen,  \* env.cloudHosted, AUTH_ALLOW_SIGNUP
    None,
    Home, Founders, \* the first workspace; the roles there of those who exist
    EmailOf,        \* the address of each row that exists at first
    Ops             \* the operations of an instance

Roles == {"admin", "member", "viewer", "guest"}

VARIABLES
    user,       \* [state, email, verified, by]: by is who made the row
    space,      \* [state, name, domain, status]
    member,     \* the role of a row in a workspace, or None
    linked,     \* OAuthAccount: the row of a Google account, or None
    group,      \* the members of a workspace's group, or None
    request,    \* the handlers under way
    profiles,   \* history: what Google has said, <<account, address, verified>>
    crossed,    \* history: workspaces two members of which were leaving at once
    late,       \* history: who joined a workspace while a deletion was under way
    taken       \* history: who lost a workspace by a deletion

vars == <<user, space, member, linked, group, request, profiles, crossed, late, taken>>

NoRow == [state |-> "none", email |-> None, verified |-> FALSE, by |-> None]
NoSpace == [state |-> "none", name |-> None, domain |-> None, status |-> "pending"]
Idle == [at |-> "idle", actor |-> None, row |-> None, email |-> None, name |-> None,
         space |-> None, sub |-> None, verified |-> FALSE, role |-> None, sole |-> {}]

Live(u) == user[u].state = "live"
Open(w) == space[w].state = "live"
Belongs(u, w) == member[w][u] # None
MembersOf(w) == {u \in Rows : Belongs(u, w)}

(* canManageWorkspace                                                      *)
Manages(u, w) == Live(u) /\ member[w][u] = "admin"

(* The unique columns.                                                     *)
RowOf(e) == {u \in Rows : Live(u) /\ user[u].email = e}
NameTaken(n) == n # None /\ \E w \in Spaces : Open(w) /\ space[w].name = n
DomainTaken(d, but) == d # None /\ \E w \in Spaces \ {but} : Open(w) /\ space[w].domain = d

Unused(rows) == {k \in DOMAIN rows : rows[k].state = "none"}
Next1(rows) == CHOOSE k \in Unused(rows) : TRUE

-----------------------------------------------------------------------------
(* The host of a request.  A host under the base domain names a workspace  *)
(* by its subdomain, any other by its custom domain, the base domain none. *)

Names == DOMAIN ShapeOf

(* validateWorkspaceSubdomain: neither reserved nor malformed, too short,  *)
(* too long or of blocked terms.  Without the cloud it is not asked.       *)
Acceptable(n) == Cloud => (n \in Names /\ ShapeOf[n] = "good")

Base == [kind |-> "base"]
Hosts == {Base} \cup [kind : {"sub"}, name : Names] \cup [kind : {"domain"}, domain : Domains]

(* workspaceSubdomainFromHost                                              *)
IsSubdomain(h) == Cloud /\ h.kind = "sub" /\ ShapeOf[h.name] # "reserved"

(* workspaceRouteFromHost, and the rows that the where clauses find for it. *)
Routed(h) == IsSubdomain(h) \/ (Cloud /\ h.kind = "domain")

At(h) == {w \in Spaces :
            /\ Open(w)
            /\ \/ h.kind = "sub" /\ space[w].name = h.name
               \/ h.kind = "domain" /\ space[w].domain = h.domain /\ space[w].status = "active"}

(* GET /api/workspaces/current-public                                      *)
Shown(h) == IF Routed(h) THEN At(h) ELSE {}

(* A bug: the domain counts before it has been verified.                   *)
ContextsAnyDomain(u, h, w) ==
    {k \in Spaces : /\ Open(k) /\ Belongs(u, k)
                    /\ IF Routed(h) THEN \/ k \in At(h)
                                         \/ h.kind = "domain" /\ space[k].domain = h.domain
                       ELSE w \in {None, k}}

(* resolveWorkspaceContext: what a user may get for a host and an id that  *)
(* the client names (None if it names none).                               *)
Contexts(u, h, w) ==
    {k \in Spaces : /\ Open(k) /\ Belongs(u, k)
                    /\ IF Routed(h) THEN k \in At(h) ELSE w \in {None, k}}

(* resolveReturnOrigin: where Google's callback sends the browser that came *)
(* from a host; sessions are valid on all subdomains (sharedCookieDomain). *)
ReturnHost(h) == IF IsSubdomain(h) THEN h ELSE Base

-----------------------------------------------------------------------------
Init ==
    /\ user = [u \in Rows |-> IF u \in DOMAIN Founders
                              THEN [state |-> "live", email |-> EmailOf[u], verified |-> TRUE,
                                    by |-> "admin"]
                              ELSE NoRow]
    /\ space = [w \in Spaces |-> IF w = Home THEN [NoSpace EXCEPT !.state = "live"] ELSE NoSpace]
    /\ member = [w \in Spaces |-> [u \in Rows |->
                   IF w = Home /\ u \in DOMAIN Founders THEN Founders[u] ELSE None]]
    /\ linked = [s \in Subs |-> None]
    /\ group = [w \in Spaces |-> [g \in Slugs |-> None]]
    /\ request = [r \in Requests |-> Idle]
    /\ profiles = {} /\ crossed = {} /\ late = {} /\ taken = {}

AtStep(r, at) == request[r].at = at
Begin(r, op, q) == /\ AtStep(r, "idle") /\ op \in Ops
                   /\ request' = [request EXCEPT ![r] = q]
End(r) == request' = [request EXCEPT ![r] = [Idle EXCEPT !.at = "done", !.row = request[r].row]]

history == <<profiles, crossed, late, taken>>
tables == <<user, space, member, linked, group>>

(* A deletion under way, of the user, or one that has listed w as its own. *)
Leaving(u) == \E r \in Requests : AtStep(r, "erase") /\ request[r].actor = u
Listed(w) == \E r \in Requests : AtStep(r, "erase") /\ w \in request[r].sole

(* WorkspaceMembership.create                                              *)
Join(u, w, role) ==
    /\ member' = [member EXCEPT ![w][u] = role]
    /\ late' = late \cup IF Listed(w) \/ Leaving(u) THEN {<<u, w>>} ELSE {}

(* The transaction that makes an account with a workspace of its own.      *)
MakeAccount(e, verified, by, n) ==
    LET u == Next1(user)
        w == Next1(space) IN
    /\ Unused(user) # {} /\ Unused(space) # {}      \* bounds
    /\ user' = [user EXCEPT ![u] = [state |-> "live", email |-> e, verified |-> verified, by |-> by]]
    /\ space' = [space EXCEPT ![w] = [NoSpace EXCEPT !.state = "live", !.name = n]]
    /\ Join(u, w, "admin")
    /\ linked' = IF by \in Subs THEN [linked EXCEPT ![by] = u] ELSE linked

-----------------------------------------------------------------------------
(* POST /api/auth/register.  The signup guard, an extension, may refuse    *)
(* before anything is read; hashing the password takes its time.           *)
BeginRegister(r, e, n) ==
    /\ SignupOpen
    /\ Acceptable(n)
    /\ RowOf(e) = {}
    /\ Begin(r, "register", [Idle EXCEPT !.at = "register", !.email = e, !.name = n])
    /\ UNCHANGED <<tables, history>>

CommitRegister(r) ==
    LET q == request[r] IN
    /\ AtStep(r, "register") /\ End(r)
    /\ IF NameTaken(q.name) \/ RowOf(q.email) # {}
       THEN UNCHANGED <<tables, history>>
       ELSE /\ MakeAccount(q.email, FALSE, "form", q.name)
            /\ UNCHANGED <<group, profiles, crossed, taken>>

(* GET /api/auth/google/callback, resolveGoogleUser: an account that is    *)
(* linked, then an account with the address, then a new one.               *)
BeginGoogle(r, s, e, v) ==
    /\ Begin(r, "google", [Idle EXCEPT !.at = IF linked[s] # None THEN "enter" ELSE "find",
                                       !.row = linked[s], !.sub = s, !.email = e, !.verified = v])
    /\ profiles' = profiles \cup {<<s, e, v>>}
    /\ UNCHANGED <<tables, crossed, late, taken>>

FindByEmail(r) ==
    LET q == request[r]
        found == RowOf(q.email) IN
    /\ AtStep(r, "find")
    /\ \/ /\ found # {} /\ q.verified
          /\ request' = [request EXCEPT ![r].at = "link", ![r].row = CHOOSE u \in found : TRUE]
       \/ /\ found = {} /\ SignupOpen
          /\ request' = [request EXCEPT ![r].at = "signup"]
       \/ /\ IF found # {} THEN ~q.verified ELSE ~SignupOpen
          /\ End(r)
    /\ UNCHANGED <<tables, history>>

(* The link and the mark that the address is verified are two writes.      *)
LinkGoogle(r) ==
    LET q == request[r] IN
    /\ AtStep(r, "link")
    /\ IF linked[q.sub] = None /\ Live(q.row)
       THEN /\ linked' = [linked EXCEPT ![q.sub] = q.row]
            /\ request' = [request EXCEPT ![r].at = "confirm"]
       ELSE End(r) /\ UNCHANGED linked
    /\ UNCHANGED <<user, space, member, group, history>>

ConfirmEmail(r) ==
    LET q == request[r] IN
    /\ AtStep(r, "confirm")
    /\ IF Live(q.row)
       THEN /\ user' = [user EXCEPT ![q.row].verified = TRUE]
            /\ request' = [request EXCEPT ![r].at = "enter"]
       ELSE End(r) /\ UNCHANGED user
    /\ UNCHANGED <<space, member, linked, group, history>>

GoogleSignup(r) ==
    LET q == request[r] IN
    /\ AtStep(r, "signup")
    /\ IF RowOf(q.email) # {} \/ linked[q.sub] # None
       THEN End(r) /\ UNCHANGED <<tables, history>>
       ELSE /\ MakeAccount(q.email, q.verified, q.sub, None)
            /\ request' = [request EXCEPT ![r].at = "enter", ![r].row = Next1(user)]
            /\ UNCHANGED <<group, profiles, crossed, taken>>

(* The session is sealed for the row, unless it is gone.                   *)
Enter(r) ==
    /\ AtStep(r, "enter") /\ End(r)
    /\ UNCHANGED <<tables, history>>

-----------------------------------------------------------------------------
(* POST /api/workspaces                                                    *)
BeginCreate(r, u, n) ==
    /\ Live(u) /\ Acceptable(n) /\ ~NameTaken(n)
    /\ Begin(r, "create", [Idle EXCEPT !.at = "create", !.actor = u, !.name = n])
    /\ UNCHANGED <<tables, history>>

CommitCreate(r) ==
    LET q == request[r]
        w == Next1(space) IN
    /\ AtStep(r, "create") /\ End(r) /\ Unused(space) # {}
    /\ IF ~NameTaken(q.name) /\ Live(q.actor)
       THEN /\ space' = [space EXCEPT ![w] = [NoSpace EXCEPT !.state = "live", !.name = q.name]]
            /\ Join(q.actor, w, "admin")
       ELSE UNCHANGED <<space, member, late>>
    /\ UNCHANGED <<user, linked, group, profiles, crossed, taken>>

(* PUT /api/workspaces/:id/custom-domain; None takes the domain away.      *)
BeginDomain(r, u, w, d) ==
    /\ Manages(u, w) /\ ~DomainTaken(d, w)
    /\ Begin(r, "domain", [Idle EXCEPT !.at = "domain", !.actor = u, !.space = w, !.name = d])
    /\ UNCHANGED <<tables, history>>

SetDomain(r) ==
    LET q == request[r] IN
    /\ AtStep(r, "domain") /\ End(r)
    /\ space' = IF Open(q.space) /\ ~DomainTaken(q.name, q.space)
                THEN [space EXCEPT ![q.space].domain = q.name, ![q.space].status = "pending"]
                ELSE space
    /\ UNCHANGED <<user, member, linked, group, history>>

(* The verification of a domain, which is done elsewhere.                  *)
Activate(w) ==
    /\ "domain" \in Ops /\ Open(w) /\ space[w].domain # None /\ space[w].status = "pending"
    /\ space' = [space EXCEPT ![w].status = "active"]
    /\ UNCHANGED <<user, member, linked, group, request, history>>

(* POST /api/users: a member is an account that exists or a new one.       *)
BeginInvite(r, u, w, e, role) ==
    LET found == RowOf(e) IN
    /\ Manages(u, w) /\ \A k \in found : ~Belongs(k, w)
    /\ Begin(r, "invite", [Idle EXCEPT !.at = "invite", !.actor = u, !.space = w, !.email = e,
                             !.role = role,
                             !.row = IF found = {} THEN None ELSE CHOOSE k \in found : TRUE])
    /\ UNCHANGED <<tables, history>>

CommitInvite(r) ==
    LET q == request[r]
        new == q.row = None IN
    /\ AtStep(r, "invite") /\ End(r)
    /\ new => Unused(user) # {}                     \* bound
    /\ LET u == IF new THEN Next1(user) ELSE q.row IN
       IF /\ Open(q.space)
          /\ IF new THEN RowOf(q.email) = {} ELSE Live(u) /\ ~Belongs(u, q.space)
       THEN /\ user' = IF new THEN [user EXCEPT ![u] = [state |-> "live", email |-> q.email,
                                                        verified |-> TRUE, by |-> "admin"]]
                       ELSE user
            /\ Join(u, q.space, q.role)
       ELSE UNCHANGED <<user, member, late>>
    /\ UNCHANGED <<space, linked, group, profiles, crossed, taken>>

(* POST /api/groups; POST and DELETE /api/groups/:id/members.              *)
BeginGroup(r, u, w, g, op, k) ==
    /\ Manages(u, w)
    /\ op = "found" <=> group[w][g] = None
    /\ op = "add" => Belongs(k, w)
    /\ Begin(r, "group", [Idle EXCEPT !.at = op, !.actor = u, !.space = w, !.name = g, !.row = k])
    /\ UNCHANGED <<tables, history>>

CommitGroup(r) ==
    LET q == request[r]
        old == group[q.space][q.name] IN
    /\ request[r].at \in {"found", "add", "drop"} /\ End(r)
    /\ group' = IF \/ ~Open(q.space) \/ (q.at = "found" /\ old # None)
                   \/ (q.at # "found" /\ old = None) \/ (q.at = "add" /\ ~Live(q.row))
                THEN group
                ELSE [group EXCEPT ![q.space][q.name] =
                        CASE q.at = "found" -> {}
                          [] q.at = "add" -> old \cup {q.row}
                          [] OTHER -> old \ {q.row}]
    /\ UNCHANGED <<user, space, member, linked, history>>

(* A bug: a workspace of one member does not count.                        *)
SoleOfNone(u) == {w \in Spaces : Open(w) /\ Belongs(u, w) /\ Cardinality(MembersOf(w)) < 1}

-----------------------------------------------------------------------------
(* POST /api/account/delete, deleteAccountAndData: the workspaces with no  *)
(* other member are listed before the transaction that removes them.       *)
SoleOf(u) == {w \in Spaces : Open(w) /\ Belongs(u, w) /\ Cardinality(MembersOf(w)) <= 1}

BeginDelete(r, u) ==
    /\ Live(u)
    /\ Begin(r, "delete", [Idle EXCEPT !.at = "erase", !.actor = u, !.sole = SoleOf(u)])
    /\ crossed' = crossed \cup {w \in Spaces : Belongs(u, w) /\
                    \E k \in Requests : AtStep(k, "erase") /\ Belongs(request[k].actor, w)}
    /\ UNCHANGED <<tables, profiles, late, taken>>

(* What goes with a workspace and with a user by ON DELETE CASCADE.        *)
Erase(r) ==
    LET u == request[r].actor
        gone == {w \in request[r].sole : Open(w)} IN
    /\ AtStep(r, "erase") /\ End(r)
    /\ IF ~Live(u) THEN UNCHANGED <<tables, taken>> ELSE
       /\ user' = [user EXCEPT ![u].state = "gone"]
       /\ space' = [w \in Spaces |-> IF w \in gone THEN [space[w] EXCEPT !.state = "gone"] ELSE space[w]]
       /\ member' = [w \in Spaces |-> [k \in Rows |-> IF w \in gone \/ k = u THEN None ELSE member[w][k]]]
       /\ linked' = [s \in Subs |-> IF linked[s] = u THEN None ELSE linked[s]]
       /\ group' = [w \in Spaces |-> [g \in Slugs |->
                      IF w \in gone \/ group[w][g] = None THEN None ELSE group[w][g] \ {u}]]
       /\ taken' = taken \cup {p \in Rows \X gone : Belongs(p[1], p[2]) /\ p[1] # u}
    /\ UNCHANGED <<profiles, crossed, late>>

(* A handler that fails, or the server that stops, between two steps.      *)
Fail(r) ==
    /\ request[r].at \notin {"idle", "done", "enter"} /\ "fail" \in Ops
    /\ End(r)
    /\ UNCHANGED <<tables, history>>

-----------------------------------------------------------------------------
Next ==
    \/ \E r \in Requests :
         \/ \E e \in Emails : \/ \E n \in Names \cup {None} : BeginRegister(r, e, n)
                              \/ \E s \in Subs, v \in BOOLEAN : BeginGoogle(r, s, e, v)
         \/ CommitRegister(r) \/ FindByEmail(r) \/ LinkGoogle(r) \/ ConfirmEmail(r)
         \/ GoogleSignup(r) \/ Enter(r)
         \/ \E u \in Rows : \/ \E n \in Names \cup {None} : BeginCreate(r, u, n)
                            \/ BeginDelete(r, u)
         \/ \E u \in Rows, w \in Spaces :
              \/ \E d \in Domains \cup {None} : BeginDomain(r, u, w, d)
              \/ \E e \in Emails, role \in {"admin", "member"} : BeginInvite(r, u, w, e, role)
              \/ \E g \in Slugs, op \in {"found", "add", "drop"}, k \in Rows :
                   BeginGroup(r, u, w, g, op, k)
         \/ CommitCreate(r) \/ SetDomain(r) \/ CommitInvite(r) \/ CommitGroup(r)
         \/ Erase(r) \/ Fail(r)
    \/ \E w \in Spaces : Activate(w)

Spec == Init /\ [][Next]_vars

-----------------------------------------------------------------------------
(* Properties.                                                             *)

(* Types of the tables.                                                    *)
TypeOK ==
    /\ \A u \in Rows : user[u].state \in {"none", "live", "gone"} /\ user[u].email \in Emails \cup {None}
    /\ \A w \in Spaces : space[w].state \in {"none", "live", "gone"}
    /\ \A w \in Spaces, u \in Rows : member[w][u] \in Roles \cup {None}
    /\ \A s \in Subs : linked[s] \in Rows \cup {None}

(* A workspace is left without anybody only when two of its members delete *)
(* their accounts at once, each counting the other, or its last one joins  *)
(* or makes it while being deleted (account-deletion.ts); and somebody's   *)
(* workspace goes with another's account only if they came in after the    *)
(* deletion had listed it.                                                 *)
OnlyRacesAbandon ==
    /\ \A w \in Spaces : Open(w) => \/ MembersOf(w) # {} \/ w \in crossed
                                    \/ \E u \in Rows : <<u, w>> \in late
    /\ taken \subseteq late

(* A Google account opens the account of an address that Google vouched    *)
(* for, or one that it made itself, whatever registers and deletes in      *)
(* between (resolveGoogleUser).                                            *)
LinksFollowEmail ==
    \A s \in Subs : linked[s] # None =>
        LET u == linked[s] IN
        /\ Live(u)
        /\ \/ <<s, user[u].email, TRUE>> \in profiles
           \/ user[u].by = s /\ <<s, user[u].email, FALSE>> \in profiles

(* Who is in a group is in its workspace, who is a member exists.          *)
GroupsAreMembers ==
    /\ \A w \in Spaces, u \in Rows : Belongs(u, w) => Open(w) /\ Live(u)
    /\ \A w \in Spaces, g \in Slugs : group[w][g] # None => group[w][g] \subseteq MembersOf(w)

(* A user who signs in on a host gets the one workspace that the host      *)
(* showed before, or none, and comes back from Google to that host or to   *)
(* one that shows none.                                                    *)
HostsAgree ==
    \A h \in Hosts, u \in Rows, w \in Spaces \cup {None} :
        Routed(h) => /\ Contexts(u, h, w) \subseteq Shown(h)
                     /\ Cardinality(Shown(h)) <= 1
                     /\ ReturnHost(h) = h \/ Shown(ReturnHost(h)) = {}

TablesAgree == LinksFollowEmail /\ GroupsAreMembers /\ HostsAgree
=============================================================================
