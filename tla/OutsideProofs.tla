--------------------------- MODULE OutsideProofs ----------------------------
(***************************************************************************)
(* Proofs about those who are not at home in a workspace: external         *)
(* integrations (Integrations), agents that work out a plan                *)
(* (PlanningWorkflow), and visitors of public links (PublicShares).        *)
(***************************************************************************)
EXTENDS Naturals, Sequences, FiniteSets, TLAPS

CONSTANTS Users, Accounts, Sessions, Requests, Ops, MaxRevisions,
          Comments, Starts, Edited, MaxVersions, MaxRound,
          WorkflowWords, DecisionWords    \* what stands in the text for a step, a decision's status
CONSTANTS Folders, Docs, Workspaces, Visitors, Tree, Placed, Given, MaxShares,
          Paths                           \* the paths folders may have

VARIABLES request, revision,
          integration, member, role, session, link, unlinked, document, folder,
          comment, sharing, share, bars

Outside == INSTANCE Integrations
Plan == INSTANCE PlanningWorkflow
Public == INSTANCE PublicShares

(***************************************************************************)
(* Integrations: who an external account is linked to, and the texts.      *)
(***************************************************************************)
Actions == {"read", "append", "update", "retitle", "create"}
Working == {"read", "append", "update", "retitle"}
Rows == {"none", "earlier"} \cup Requests

Call == [at : Actions \cup {"idle", "connect", "link", "find", "confirm", "unlink", "done"},
         op : Actions \cup {"none", "connect", "confirm", "unlink"},
         account : Accounts \cup {Outside!Anyone, "none"}, user : Users \cup {Outside!NoUser},
         row : Rows, session : Sessions \cup {"none"}, base : Nat,
         answer : {"none", "session", "not linked", "not found", "ok", "forbidden", "conflict",
                   "not canonical", "elsewhere", "error", "linked"}]

LinkRow == [row : Rows, user : Users \cup {Outside!NoUser}, active : BOOLEAN]
SessionRow == [account : Accounts \cup {"none"}, used : BOOLEAN, expired : BOOLEAN]
RevisionRow == [text : SUBSET Requests, op : Actions \cup {"edit"}, canonical : BOOLEAN,
                by : Users \cup {Outside!NoUser}]

OutsideTypes ==
    /\ link \in [Accounts -> LinkRow]
    /\ session \in [Sessions -> SessionRow]
    /\ \A k \in Sessions : ~session[k].used => session[k].account \in Accounts
    /\ revision \in Seq(RevisionRow) /\ Len(revision) >= 1
    /\ request \in [Requests -> Call]

(* A link has a row, and one that is out of force was unlinked once.       *)
LinksStand(links, un) ==
    \A a \in Accounts :
        /\ links[a].active => links[a].row # "none"
        /\ links[a].row # "none" /\ ~links[a].active => a \in un

(* A request goes through the steps of its operation, about an account and *)
(* a version that there are.                                               *)
CallPosed(q, versions) ==
    /\ q.at # "done" => q.answer = "none"
    /\ q.at \in {"connect", "link", "confirm", "unlink"} => q.account \in Accounts
    /\ q.at = "link" => q.account # Outside!Anyone
    /\ q.at \in {"link", "find"} => q.op \in Actions
    /\ q.at \in Working => q.op = q.at /\ q.base \in 1..versions
    /\ q.at \in {"create", "confirm", "unlink"} => q.op = q.at
    /\ q.at = "confirm" => q.session \in Sessions /\ q.user \in Users
    /\ q.op = "read" /\ q.account = Outside!Anyone => q.user = Outside!NoUser

(* A confirmation found no link, or one that is its user's still; unless   *)
(* the account was unlinked.                                               *)
Confirms(q, links, un) ==
    q.at = "confirm" /\ q.account \notin un =>
        \/ q.row = "none"
        \/ /\ links[q.account].row = q.row /\ links[q.account].active
           /\ links[q.account].user = q.user

Linked(q, links, un) ==
    q.answer = "linked" =>
        /\ q.account \in Accounts
        /\ q.account \notin un => links[q.account].active /\ links[q.account].user = q.user

ReadTrue(q, revs) ==
    q.op = "read" /\ q.answer = "ok" =>
        q.base \in 1..Len(revs) /\ (q.account = Outside!Anyone => revs[q.base].canonical)

CallOK(q, links, un, revs) ==
    CallPosed(q, Len(revs)) /\ Confirms(q, links, un) /\ Linked(q, links, un) /\ ReadTrue(q, revs)

TextsFollow(revs) ==
    \A n \in 1..(Len(revs) - 1) :
        revs[n + 1].op \in {"append", "retitle"} => revs[n].text \subseteq revs[n + 1].text

OutsideInv ==
    /\ OutsideTypes
    /\ LinksStand(link, unlinked)
    /\ TextsFollow(revision)
    /\ \A r \in Requests : CallOK(request[r], link, unlinked, revision)

LEMMA InitOutside == Outside!Init => OutsideInv
  <1> SUFFICES ASSUME Outside!Init PROVE OutsideInv
      OBVIOUS
  <1>1. Outside!Idle \in Call /\ Outside!Idle.at = "idle" /\ Outside!Idle.answer = "none"
        /\ Outside!Idle.op = "none"
      BY DEF Outside!Idle, Call, Rows
  <1>2. request \in [Requests -> Call]
        /\ \A r \in Requests : request[r].at = "idle" /\ request[r].answer = "none"
                               /\ request[r].op = "none"
      BY <1>1 DEF Outside!Init
  <1>3. link \in [Accounts -> LinkRow] /\ LinksStand(link, unlinked)
    <2>1. Outside!NoLink \in LinkRow /\ Outside!NoLink.row = "none" /\ ~Outside!NoLink.active
        BY DEF Outside!NoLink, LinkRow, Rows
    <2>2. \A x \in [row : {"earlier"}, user : Users, active : BOOLEAN] :
              x \in LinkRow /\ x.row = "earlier"
        BY DEF LinkRow, Rows
    <2>3. \A a \in Accounts : link[a] \in LinkRow
                              /\ (link[a] = Outside!NoLink \/ link[a].row = "earlier")
        BY <2>1, <2>2 DEF Outside!Init
    <2> QED
        BY <2>1, <2>3 DEF Outside!Init, LinksStand
  <1>4. session \in [Sessions -> SessionRow] /\ \A k \in Sessions : session[k].used
      BY DEF Outside!Init, Outside!NoSession, SessionRow
  <1>5. revision \in Seq(RevisionRow) /\ Len(revision) = 1
      BY DEF Outside!Init, RevisionRow, Actions
  <1>6. TextsFollow(revision)
      BY <1>5 DEF TextsFollow
  <1>7. \A r \in Requests : CallOK(request[r], link, unlinked, revision)
      BY <1>2 DEF CallOK, CallPosed, Confirms, Linked, ReadTrue, Working
  <1> QED
      BY <1>2, <1>3, <1>4, <1>5, <1>6, <1>7 DEF OutsideInv, OutsideTypes

(* One more revision: what there was stays, with its number.               *)
LEMMA OneMoreRevision ==
    ASSUME NEW revs \in Seq(RevisionRow), NEW x \in RevisionRow
    PROVE  LET more == revs \o <<x>>
           IN  /\ more \in Seq(RevisionRow) /\ Len(more) = Len(revs) + 1 /\ Len(revs) \in Nat
               /\ more[Len(revs) + 1] = x /\ \A n \in 1..Len(revs) : more[n] = revs[n]
  OBVIOUS

(* A request that goes on leaves the links, the sessions and the texts.    *)
LEMMA OnlyOutside ==
    ASSUME OutsideInv, NEW r \in Requests, NEW p \in Call, CallOK(p, link, unlinked, revision),
           request' = [request EXCEPT ![r] = p], UNCHANGED <<link, unlinked, revision>>,
           session' \in [Sessions -> SessionRow],
           \A k \in Sessions : ~session'[k].used => session'[k].account \in Accounts
    PROVE  OutsideInv'
  <1>1. OutsideTypes'
      BY DEF OutsideInv, OutsideTypes
  <1>2. \A t \in Requests : CallOK(request'[t], link, unlinked, revision)
      BY DEF OutsideInv, OutsideTypes
  <1> QED
      BY <1>1, <1>2 DEF OutsideInv

(* The steps of a request before it writes.                                *)
LEMMA CallSteps ==
    ASSUME OutsideInv, NEW r \in Requests,
           \/ \E op \in {"connect", "read", "append", "update", "retitle", "create"} :
                \E a \in Accounts \cup {Outside!Anyone}, s \in 1..2 : Outside!Arrive(r, op, a, s)
           \/ Outside!LookupLink(r) \/ Outside!FindDocument(r) \/ Outside!ReadDocument(r)
           \/ Outside!FindFolder(r) \/ Outside!CreateDocument(r)
    PROVE  OutsideInv'
  <1>1. PICK q \in Call : q = request[r]
      BY DEF OutsideInv, OutsideTypes
  <1>2. /\ request \in [Requests -> Call] /\ CallOK(q, link, unlinked, revision)
        /\ CallPosed(q, Len(revision)) /\ ReadTrue(q, revision)
        /\ link \in [Accounts -> LinkRow] /\ Len(revision) \in Nat \ {0}
      BY <1>1 DEF OutsideInv, OutsideTypes, CallOK
  <1>3. /\ UNCHANGED <<link, unlinked, revision, session>>
        /\ session' \in [Sessions -> SessionRow]
        /\ \A k \in Sessions : ~session'[k].used => session'[k].account \in Accounts
      BY DEF Outside!Arrive, Outside!LookupLink, Outside!FindDocument, Outside!ReadDocument,
             Outside!FindFolder, Outside!CreateDocument, Outside!links, Outside!texts,
             OutsideInv, OutsideTypes
  <1>4. ASSUME NEW answer \in {"not found", "ok", "forbidden", "conflict"},
               Outside!Finish(r, answer), q.op = "read" /\ answer = "ok" =>
                   q.base \in 1..Len(revision)
                   /\ (q.account = Outside!Anyone => revision[q.base].canonical)
        PROVE  OutsideInv'
    <2>1. PICK p : p = [q EXCEPT !.at = "done", !.answer = answer]
        OBVIOUS
    <2>2. /\ p \in Call /\ p.at = "done" /\ p.answer = answer /\ p.op = q.op
          /\ p.account = q.account /\ p.base = q.base /\ p.user = q.user
        BY <2>1, <1>4 DEF Call
    <2>3. request' = [request EXCEPT ![r] = p]
        BY <1>1, <1>2, <1>4, <2>1 DEF Outside!Finish
    <2>4. CallOK(p, link, unlinked, revision)
        BY <1>2, <1>4, <2>2 DEF CallOK, CallPosed, Confirms, Linked, ReadTrue, Working
    <2> QED
        BY <1>3, <2>2, <2>3, <2>4, OnlyOutside
  <1>5. ASSUME NEW op \in {"connect", "read", "append", "update", "retitle", "create"},
               NEW a \in Accounts \cup {Outside!Anyone}, NEW s \in 1..2, Outside!Arrive(r, op, a, s)
        PROVE  OutsideInv'
    <2>1. PICK at \in {"connect", "find", "link"} :
             at = CASE op = "connect" -> "connect" [] a = Outside!Anyone -> "find"
                    [] OTHER -> "link"
        OBVIOUS
    <2>2. PICK p : p = [Outside!Idle EXCEPT !.op = op, !.account = a, !.at = at]
        OBVIOUS
    <2>3. /\ p \in Call /\ p.at = at /\ p.op = op /\ p.account = a /\ p.answer = "none"
          /\ p.user = Outside!NoUser
        BY <2>2, <1>5 DEF Call, Outside!Idle, Actions, Rows
    <2>4. request' = [request EXCEPT ![r] = p]
        BY <1>5, <2>1, <2>2 DEF Outside!Arrive
    <2>5. a = Outside!Anyone => op = "read"
        BY <1>5 DEF Outside!Arrive
    <2>6. CallOK(p, link, unlinked, revision)
        BY <2>1, <2>3, <2>5, <1>5 DEF CallOK, CallPosed, Confirms, Linked, ReadTrue, Actions, Working
    <2> QED
        BY <1>3, <2>3, <2>4, <2>6, OnlyOutside
  <1>6. CASE Outside!LookupLink(r)
    <2>1. q.at = "link" /\ q.account \in Accounts
        BY <1>1, <1>2, <1>6 DEF Outside!LookupLink, Outside!At, CallPosed
    <2>2. PICK u \in Users \cup {Outside!NoUser} : u = link[q.account].user
        BY <1>2, <2>1 DEF LinkRow
    <2>3. PICK p : p = [q EXCEPT !.at = "find", !.user = u]
        OBVIOUS
    <2>4. /\ p \in Call /\ p.at = "find" /\ p.op = q.op /\ p.account = q.account
          /\ p.answer = q.answer
        BY <2>3 DEF Call
    <2>5. request' = [request EXCEPT ![r] = p]
        BY <1>1, <1>2, <1>6, <2>2, <2>3 DEF Outside!LookupLink
    <2>6. CallOK(p, link, unlinked, revision)
        BY <1>2, <2>1, <2>4 DEF CallOK, CallPosed, Confirms, Linked, ReadTrue, Working
    <2> QED
        BY <1>3, <2>4, <2>5, <2>6, OnlyOutside
  <1>7. CASE Outside!FindDocument(r)
    <2>1. q.at = "find" /\ q.op # "create" /\ q.op \in Working /\ q.answer = "none"
        BY <1>1, <1>2, <1>7 DEF Outside!FindDocument, Outside!At, CallPosed, Actions, Working
    <2>2. CASE document.live /\ document.here
      <3>1. PICK p : p = [q EXCEPT !.at = q.op, !.base = Len(revision)]
          OBVIOUS
      <3>2. /\ p \in Call /\ p.at = q.op /\ p.op = q.op /\ p.account = q.account
            /\ p.answer = "none" /\ p.base = Len(revision) /\ p.user = q.user
          BY <1>2, <2>1, <3>1 DEF Call, Actions, Working
      <3>3. request' = [request EXCEPT ![r] = p]
          BY <1>1, <1>2, <1>7, <2>2, <3>1 DEF Outside!FindDocument
      <3>4. CallOK(p, link, unlinked, revision)
          BY <1>2, <2>1, <3>2 DEF CallOK, CallPosed, Confirms, Linked, ReadTrue, Actions, Working
      <3> QED
          BY <1>3, <3>2, <3>3, <3>4, OnlyOutside
    <2>3. CASE ~(document.live /\ document.here)
        BY <1>4, <1>7, <2>3 DEF Outside!FindDocument
    <2> QED
        BY <2>2, <2>3
  <1>8. CASE Outside!ReadDocument(r)
    <2>1. q.at = "read" /\ q.op = "read" /\ q.base \in 1..Len(revision)
        BY <1>1, <1>2, <1>8 DEF Outside!ReadDocument, Outside!At, CallPosed, Working
    <2>2. q.account = Outside!Anyone => q.user = Outside!NoUser
        BY <1>2, <2>1 DEF CallPosed
    <2> DEFINE may == IF q.user = Outside!NoUser
                      THEN revision[q.base].canonical /\ integration.folders
                      ELSE role[q.user] >= Outside!Viewer
    <2>3. Outside!Finish(r, IF may THEN "ok" ELSE "forbidden")
        BY <1>1, <1>8 DEF Outside!ReadDocument, Outside!Finish
    <2>4. CASE may
      <3>1. Outside!Finish(r, "ok")
          BY <2>3, <2>4, Zenon
      <3>2. q.account = Outside!Anyone => revision[q.base].canonical
          BY <2>2, <2>4
      <3> HIDE DEF may
      <3> QED
          BY <1>4, <2>1, <3>1, <3>2
    <2>5. CASE ~may
      <3>1. Outside!Finish(r, "forbidden")
          BY <2>3, <2>5, Zenon
      <3> HIDE DEF may
      <3> QED
          BY <1>4, <3>1
    <2> QED
        BY <2>4, <2>5
  <1>9. CASE Outside!FindFolder(r)
    <2>1. q.at = "find" /\ q.op = "create" /\ q.answer = "none"
        BY <1>1, <1>2, <1>9 DEF Outside!FindFolder, Outside!At, CallPosed
    <2>2. CASE Outside!Goto(r, "create")
      <3>1. PICK p : p = [q EXCEPT !.at = "create"]
          OBVIOUS
      <3>2. p \in Call /\ p.at = "create" /\ p.op = "create" /\ p.answer = "none"
          BY <2>1, <3>1 DEF Call, Actions
      <3>3. request' = [request EXCEPT ![r] = p]
          BY <1>1, <1>2, <2>2, <3>1 DEF Outside!Goto
      <3>4. CallOK(p, link, unlinked, revision)
          BY <3>2 DEF CallOK, CallPosed, Confirms, Linked, ReadTrue, Working
      <3> QED
          BY <1>3, <3>2, <3>3, <3>4, OnlyOutside
    <2>3. CASE Outside!Finish(r, "not found")
        BY <1>4, <2>3
    <2> QED
        BY <1>9, <2>2, <2>3 DEF Outside!FindFolder
  <1>10. CASE Outside!CreateDocument(r)
    <2>1. q.op = "create"
        BY <1>1, <1>2, <1>10 DEF Outside!CreateDocument, Outside!At, CallPosed
    <2>2. Outside!Finish(r, "ok") \/ Outside!Finish(r, "conflict")
        BY <1>10 DEF Outside!CreateDocument
    <2> QED
        BY <1>4, <2>1, <2>2
  <1> QED
      BY <1>5, <1>6, <1>7, <1>8, <1>9, <1>10

(* An account that is not linked is given a session.                       *)
LEMMA SessionSteps ==
    ASSUME OutsideInv, NEW r \in Requests, NEW k \in Sessions,
           Outside!Connect(r, k) \/ Outside!LookupUnlinked(r, k)
    PROVE  OutsideInv'
  <1>1. PICK q \in Call : q = request[r]
      BY DEF OutsideInv, OutsideTypes
  <1>2. /\ request \in [Requests -> Call] /\ CallPosed(q, Len(revision))
        /\ session \in [Sessions -> SessionRow]
        /\ \A t \in Sessions : ~session[t].used => session[t].account \in Accounts
      BY <1>1 DEF OutsideInv, OutsideTypes, CallOK
  <1>3. PICK answer \in {"session", "not linked"} :
            Outside!Finish(r, answer) /\ Outside!NewSession(k, q.account)
      BY <1>1 DEF Outside!Connect, Outside!LookupUnlinked
  <1>4. q.account \in Accounts /\ UNCHANGED <<link, unlinked, revision>>
      BY <1>1, <1>2 DEF Outside!Connect, Outside!LookupUnlinked, Outside!At, CallPosed, Outside!texts
  <1>5. PICK s : s = [account |-> q.account, used |-> FALSE, expired |-> FALSE]
      OBVIOUS
  <1>6. s \in SessionRow /\ s.account \in Accounts
      BY <1>4, <1>5 DEF SessionRow
  <1>7. session' = [session EXCEPT ![k] = s]
      BY <1>3, <1>5 DEF Outside!NewSession
  <1>8. /\ session' \in [Sessions -> SessionRow]
        /\ \A t \in Sessions : ~session'[t].used => session'[t].account \in Accounts
      BY <1>2, <1>6, <1>7
  <1>9. PICK p : p = [q EXCEPT !.at = "done", !.answer = answer]
      OBVIOUS
  <1>10. /\ p \in Call /\ p.at = "done" /\ p.answer = answer /\ p.op = q.op
         /\ p.account = q.account /\ p.user = q.user
      BY <1>3, <1>9 DEF Call
  <1>11. request' = [request EXCEPT ![r] = p]
      BY <1>1, <1>2, <1>3, <1>9 DEF Outside!Finish
  <1>12. CallOK(p, link, unlinked, revision)
      BY <1>2, <1>3, <1>10 DEF CallOK, CallPosed, Confirms, Linked, ReadTrue, Working
  <1> QED
      BY <1>4, <1>8, <1>10, <1>11, <1>12, OnlyOutside

(* A confirmation and an unlinking read the link's row.                    *)
LEMMA BeginSteps ==
    ASSUME OutsideInv, NEW r \in Requests, NEW u \in Users,
           \/ \E k \in Sessions : Outside!BeginConfirm(r, u, k)
           \/ \E a \in Accounts : Outside!BeginUnlink(r, u, a)
    PROVE  OutsideInv'
  <1>1. /\ UNCHANGED <<link, unlinked, revision, session>> /\ Outside!Idle \in Call
        /\ session' \in [Sessions -> SessionRow] /\ session \in [Sessions -> SessionRow]
        /\ link \in [Accounts -> LinkRow]
        /\ \A k \in Sessions : ~session'[k].used => session'[k].account \in Accounts
      BY DEF Outside!BeginConfirm, Outside!BeginUnlink, Outside!links, Outside!texts,
             OutsideInv, OutsideTypes, Outside!Idle, Call, Rows
  <1>2. ASSUME NEW k \in Sessions, Outside!BeginConfirm(r, u, k)
        PROVE  OutsideInv'
    <2>1. PICK a \in Accounts : a = session[k].account
        BY <1>1, <1>2 DEF Outside!BeginConfirm, Outside!Usable
    <2>2. PICK l \in LinkRow : l = link[a]
        BY <1>1
    <2>3. l.row \in Rows /\ l.user \in Users \cup {Outside!NoUser}
        BY DEF LinkRow
    <2>4. PICK at \in {"done", "confirm"}, answer \in {"elsewhere", "none"} :
            /\ at = IF l.active /\ l.user # u THEN "done" ELSE "confirm"
            /\ answer = IF l.active /\ l.user # u THEN "elsewhere" ELSE "none"
        OBVIOUS
    <2>5. PICK p : p = [Outside!Idle EXCEPT !.op = "confirm", !.account = a, !.user = u,
                          !.session = k, !.row = l.row, !.at = at, !.answer = answer]
        OBVIOUS
    <2>6. /\ p \in Call /\ p.op = "confirm" /\ p.account = a /\ p.user = u /\ p.session = k
          /\ p.row = l.row /\ p.at = at /\ p.answer = answer
        BY <2>3, <2>5 DEF Call, Outside!Idle
    <2>7. request' = [request EXCEPT ![r] = p]
        BY <1>2, <2>1, <2>2, <2>4, <2>5 DEF Outside!BeginConfirm
    <2>8. Confirms(p, link, unlinked)
        BY <2>2, <2>4, <2>6 DEF OutsideInv, LinksStand, Confirms
    <2>9. CallOK(p, link, unlinked, revision)
        BY <2>4, <2>6, <2>8 DEF CallOK, CallPosed, Linked, ReadTrue, Working
    <2> QED
        BY <1>1, <2>6, <2>7, <2>9, OnlyOutside
  <1>3. ASSUME NEW a \in Accounts, Outside!BeginUnlink(r, u, a)
        PROVE  OutsideInv'
    <2>1. PICK row \in Rows : row = link[a].row
        BY <1>1 DEF LinkRow
    <2>2. PICK p : p = [Outside!Idle EXCEPT !.at = "unlink", !.op = "unlink",
                          !.account = a, !.user = u, !.row = row]
        OBVIOUS
    <2>3. /\ p \in Call /\ p.at = "unlink" /\ p.op = "unlink" /\ p.account = a
          /\ p.answer = "none"
        BY <2>2 DEF Call, Outside!Idle
    <2>4. request' = [request EXCEPT ![r] = p]
        BY <1>3, <2>1, <2>2 DEF Outside!BeginUnlink
    <2>5. CallOK(p, link, unlinked, revision)
        BY <2>3 DEF CallOK, CallPosed, Confirms, Linked, ReadTrue, Working
    <2> QED
        BY <1>1, <2>3, <2>4, <2>5, OnlyOutside
  <1> QED
      BY <1>2, <1>3

(* The user's confirmation: the row it found is written, or a new one.     *)
LEMMA ConfirmStep ==
    ASSUME "none" \notin Requests, OutsideInv, NEW r \in Requests, Outside!Confirm(r)
    PROVE  OutsideInv'
  <1>1. PICK q \in Call : q = request[r]
      BY DEF OutsideInv, OutsideTypes
  <1>2. /\ request \in [Requests -> Call] /\ CallOK(q, link, unlinked, revision)
        /\ CallPosed(q, Len(revision)) /\ Confirms(q, link, unlinked)
        /\ link \in [Accounts -> LinkRow] /\ session \in [Sessions -> SessionRow]
        /\ \A k \in Sessions : ~session[k].used => session[k].account \in Accounts
      BY <1>1 DEF OutsideInv, OutsideTypes, CallOK
  <1>3. q.at = "confirm" /\ q.op = "confirm" /\ q.account \in Accounts /\ q.session \in Sessions
        /\ q.user \in Users /\ UNCHANGED <<unlinked, revision>>
      BY <1>1, <1>2 DEF Outside!Confirm, Outside!ConfirmOver, Outside!At, CallPosed, Outside!texts
  <1>4. ASSUME NEW answer \in {"elsewhere", "error"}, Outside!Finish(r, answer),
               UNCHANGED <<link, session>>
        PROVE  OutsideInv'
    <2>1. PICK p : p = [q EXCEPT !.at = "done", !.answer = answer]
        OBVIOUS
    <2>2. p \in Call /\ p.at = "done" /\ p.answer = answer /\ p.op = "confirm"
        BY <1>3, <1>4, <2>1 DEF Call
    <2>3. request' = [request EXCEPT ![r] = p]
        BY <1>1, <1>2, <1>4, <2>1 DEF Outside!Finish
    <2>4. CallOK(p, link, unlinked, revision)
        BY <1>4, <2>2 DEF CallOK, CallPosed, Confirms, Linked, ReadTrue, Working
    <2> QED
        BY <1>2, <1>3, <1>4, <2>2, <2>3, <2>4, OnlyOutside
  <1>5. ASSUME link[q.account].row = q.row, Outside!Finish(r, "linked"),
               link' = [link EXCEPT ![q.account] =
                          [row |-> IF q.row = "none" THEN r ELSE q.row, user |-> q.user,
                           active |-> TRUE]],
               session' = [session EXCEPT ![q.session].used = TRUE]
        PROVE  OutsideInv'
    <2>1. PICK row \in Rows : row = IF q.row = "none" THEN r ELSE q.row
        BY DEF Call, Rows
    <2>2. row # "none" /\ (q.row # "none" => row = q.row)
        BY <2>1
    <2>3. PICK l : l = [row |-> row, user |-> q.user, active |-> TRUE]
        OBVIOUS
    <2>4. l \in LinkRow /\ l.row = row /\ l.user = q.user /\ l.active
        BY <1>3, <2>3 DEF LinkRow
    <2>5. link' = [link EXCEPT ![q.account] = l]
        BY <1>5, <2>1, <2>3
    <2>6. /\ link' \in [Accounts -> LinkRow] /\ link'[q.account] = l
          /\ \A a \in Accounts : a # q.account => link'[a] = link[a]
        BY <1>2, <1>3, <2>4, <2>5
    <2>7. /\ session' \in [Sessions -> SessionRow]
          /\ \A k \in Sessions : ~session'[k].used => session'[k].account \in Accounts
      <3>1. \A x \in SessionRow : [x EXCEPT !.used = TRUE] \in SessionRow
                                  /\ [x EXCEPT !.used = TRUE].used
          BY DEF SessionRow
      <3>2. PICK x \in SessionRow : x = [session[q.session] EXCEPT !.used = TRUE] /\ x.used
          BY <1>2, <1>3, <3>1
      <3>3. session' = [session EXCEPT ![q.session] = x]
          BY <1>5, <3>2
      <3> QED
          BY <1>2, <1>3, <3>2, <3>3
    <2>8. PICK p : p = [q EXCEPT !.at = "done", !.answer = "linked"]
        OBVIOUS
    <2>9. /\ p \in Call /\ p.at = "done" /\ p.answer = "linked" /\ p.op = "confirm"
          /\ p.account = q.account /\ p.user = q.user
        BY <1>3, <2>8 DEF Call
    <2>10. request' = [request EXCEPT ![r] = p]
        BY <1>1, <1>2, <1>5, <2>8 DEF Outside!Finish
    <2>11. CallOK(p, link', unlinked, revision)
        BY <1>3, <2>4, <2>6, <2>9 DEF CallOK, CallPosed, Confirms, Linked, ReadTrue, Working
    <2>12. LinksStand(link', unlinked)
        BY <1>3, <2>2, <2>4, <2>6 DEF OutsideInv, LinksStand
    <2>13. ASSUME NEW t \in Requests, t # r
           PROVE  CallOK(request[t], link', unlinked, revision)
      <3>1. CallOK(request[t], link, unlinked, revision)
          BY DEF OutsideInv
      <3>2. PICK x \in Call : x = request[t]
          BY <1>2
      <3>3. ASSUME x.account = q.account, x.account \notin unlinked, x.at = "confirm",
                   x.row # "none"
            PROVE  l.row = x.row /\ l.user = x.user
        <4>1. link[x.account].row = x.row /\ link[x.account].user = x.user
            BY <3>1, <3>2, <3>3 DEF CallOK, Confirms
        <4>2. q.row # "none" /\ link[q.account].user = q.user
            BY <1>2, <1>3, <1>5, <3>3, <4>1 DEF Confirms
        <4> QED
            BY <1>5, <2>2, <2>4, <3>3, <4>1, <4>2
      <3>4. ASSUME x.account = q.account, x.account \notin unlinked, x.answer = "linked"
            PROVE  l.user = x.user
        <4>1. link[x.account].active /\ link[x.account].user = x.user
            BY <3>1, <3>2, <3>4 DEF CallOK, Linked
        <4>2. q.row # "none"
            BY <1>3, <1>5, <3>4, <4>1 DEF OutsideInv, LinksStand
        <4>3. link[q.account].user = q.user
            BY <1>2, <1>3, <3>4, <4>2 DEF Confirms
        <4> QED
            BY <2>4, <3>4, <4>1, <4>3
      <3>5. x.at = "confirm" => x.account \in Accounts
          BY <3>1, <3>2 DEF CallOK, CallPosed
      <3>6. Confirms(x, link', unlinked)
          BY <2>4, <2>6, <3>1, <3>2, <3>3, <3>5 DEF CallOK, Confirms
      <3>7. Linked(x, link', unlinked)
          BY <2>4, <2>6, <3>1, <3>2, <3>4 DEF CallOK, Linked
      <3> QED
          BY <3>1, <3>2, <3>6, <3>7 DEF CallOK
    <2>14. \A t \in Requests : CallOK(request'[t], link', unlinked, revision)
        BY <1>2, <2>10, <2>11, <2>13
    <2>15. OutsideTypes'
        BY <1>2, <1>3, <2>6, <2>7, <2>9, <2>10 DEF OutsideInv, OutsideTypes
    <2> QED
        BY <1>3, <2>12, <2>14, <2>15 DEF OutsideInv
  <1> QED
      BY <1>1, <1>4, <1>5 DEF Outside!Confirm, Outside!ConfirmOver

(* Accounts that are unlinked, of links that go out of force.              *)
LEMMA Unlinked ==
    ASSUME OutsideInv, NEW gone \in SUBSET Accounts, unlinked' = unlinked \cup gone,
           link' \in [Accounts -> LinkRow], \A a \in gone : ~link'[a].active,
           \A a \in Accounts : a \notin gone => link'[a] = link[a],
           request' \in [Requests -> Call],
           \A t \in Requests : CallOK(request'[t], link, unlinked, revision),
           UNCHANGED <<session, revision>>
    PROVE  OutsideInv'
  <1>1. OutsideTypes'
      BY DEF OutsideInv, OutsideTypes
  <1>2. LinksStand(link', unlinked')
      BY DEF OutsideInv, LinksStand
  <1>3. ASSUME NEW x \in Call, CallOK(x, link, unlinked, revision)
        PROVE  CallOK(x, link', unlinked', revision)
    <2>1. Confirms(x, link', unlinked')
        BY <1>3 DEF CallOK, Confirms, CallPosed
    <2>2. Linked(x, link', unlinked')
        BY <1>3 DEF CallOK, Linked
    <2> QED
        BY <1>3, <2>1, <2>2 DEF CallOK
  <1>4. \A t \in Requests : CallOK(request'[t], link', unlinked', revision)
      BY <1>3
  <1> QED
      BY <1>1, <1>2, <1>4 DEF OutsideInv

LEMMA UnlinkStep ==
    ASSUME OutsideInv, NEW r \in Requests, Outside!Unlink(r)
    PROVE  OutsideInv'
  <1>1. PICK q \in Call : q = request[r]
      BY DEF OutsideInv, OutsideTypes
  <1>2. /\ request \in [Requests -> Call] /\ CallPosed(q, Len(revision))
        /\ link \in [Accounts -> LinkRow] /\ session \in [Sessions -> SessionRow]
        /\ \A k \in Sessions : ~session[k].used => session[k].account \in Accounts
      BY <1>1 DEF OutsideInv, OutsideTypes, CallOK
  <1>3. q.at = "unlink" /\ q.op = "unlink" /\ q.account \in Accounts
        /\ UNCHANGED <<revision, session>>
      BY <1>1, <1>2 DEF Outside!Unlink, Outside!At, CallPosed, Outside!texts
  <1>4. PICK answer \in {"ok", "error"} :
          /\ Outside!Finish(r, answer)
          /\ \/ /\ link' = [link EXCEPT ![q.account].active = FALSE]
                /\ unlinked' = unlinked \cup {q.account}
             \/ UNCHANGED <<link, unlinked>>
      BY <1>1 DEF Outside!Unlink
  <1>5. PICK p : p = [q EXCEPT !.at = "done", !.answer = answer]
      OBVIOUS
  <1>6. p \in Call /\ p.at = "done" /\ p.answer = answer /\ p.op = "unlink"
      BY <1>3, <1>4, <1>5 DEF Call
  <1>7. request' = [request EXCEPT ![r] = p]
      BY <1>1, <1>2, <1>4, <1>5 DEF Outside!Finish
  <1>8. CallOK(p, link, unlinked, revision)
      BY <1>4, <1>6 DEF CallOK, CallPosed, Confirms, Linked, ReadTrue, Working
  <1>9. CASE UNCHANGED <<link, unlinked>>
      BY <1>2, <1>3, <1>6, <1>7, <1>8, <1>9, OnlyOutside
  <1>10. CASE /\ link' = [link EXCEPT ![q.account].active = FALSE]
              /\ unlinked' = unlinked \cup {q.account}
    <2>1. \A x \in LinkRow : [x EXCEPT !.active = FALSE] \in LinkRow
                             /\ ~[x EXCEPT !.active = FALSE].active
        BY DEF LinkRow
    <2>2. PICK x \in LinkRow : x = [link[q.account] EXCEPT !.active = FALSE] /\ ~x.active
        BY <1>2, <1>3, <2>1
    <2>3. link' = [link EXCEPT ![q.account] = x]
        BY <1>10, <2>2
    <2>4. /\ link' \in [Accounts -> LinkRow] /\ ~link'[q.account].active
          /\ \A a \in Accounts : a \notin {q.account} => link'[a] = link[a]
        BY <1>2, <1>3, <2>2, <2>3
    <2>5. /\ request' \in [Requests -> Call]
          /\ \A t \in Requests : CallOK(request'[t], link, unlinked, revision)
        BY <1>2, <1>6, <1>7, <1>8 DEF OutsideInv
    <2> QED
        BY <1>3, <1>10, <2>4, <2>5, Unlinked
  <1> QED
      BY <1>4, <1>9, <1>10

LEMMA DeleteStep ==
    ASSUME OutsideInv, NEW u \in Users, Outside!DeleteUser(u)
    PROVE  OutsideInv'
  <1>1. PICK gone : gone = {a \in Accounts : link[a].user = u}
      OBVIOUS
  <1>2. /\ link' = [a \in Accounts |-> IF link[a].user = u THEN Outside!NoLink ELSE link[a]]
        /\ unlinked' = unlinked \cup gone
        /\ UNCHANGED <<session, revision, request>>
      BY <1>1 DEF Outside!DeleteUser, Outside!texts
  <1>3. Outside!NoLink \in LinkRow /\ ~Outside!NoLink.active
      BY DEF Outside!NoLink, LinkRow, Rows
  <1>4. /\ link' \in [Accounts -> LinkRow] /\ \A a \in gone : ~link'[a].active
        /\ \A a \in Accounts : a \notin gone => link'[a] = link[a]
    <2>1. \A a \in Accounts : link'[a] = IF link[a].user = u THEN Outside!NoLink ELSE link[a]
        BY <1>2
    <2>2. \A a \in Accounts : link'[a] \in LinkRow
        BY <1>3, <2>1 DEF OutsideInv, OutsideTypes
    <2> QED
        BY <1>1, <1>2, <1>3, <2>1, <2>2
  <1>5. /\ request' \in [Requests -> Call]
        /\ \A t \in Requests : CallOK(request'[t], link, unlinked, revision)
      BY <1>2 DEF OutsideInv, OutsideTypes
  <1>6. gone \in SUBSET Accounts
      BY <1>1
  <1> QED
      BY <1>2, <1>4, <1>5, <1>6, Unlinked

(* A revision is added: requests go on about the versions they have read.  *)
LEMMA Added ==
    ASSUME OutsideInv, NEW x \in RevisionRow, revision' = revision \o <<x>>,
           x.op \in {"append", "retitle"} => revision[Len(revision)].text \subseteq x.text,
           request' \in [Requests -> Call],
           \A t \in Requests : CallOK(request'[t], link, unlinked, revision),
           UNCHANGED <<link, unlinked, session>>
    PROVE  OutsideInv'
  <1>1. /\ revision' \in Seq(RevisionRow) /\ Len(revision') = Len(revision) + 1
        /\ Len(revision) \in Nat \ {0} /\ revision'[Len(revision) + 1] = x
        /\ \A n \in 1..Len(revision) : revision'[n] = revision[n]
      BY OneMoreRevision DEF OutsideInv, OutsideTypes
  <1>2. OutsideTypes'
      BY <1>1 DEF OutsideInv, OutsideTypes
  <1>3. TextsFollow(revision')
    <2> SUFFICES ASSUME NEW n \in 1..(Len(revision') - 1),
                        revision'[n + 1].op \in {"append", "retitle"}
                 PROVE  revision'[n].text \subseteq revision'[n + 1].text
        BY DEF TextsFollow
    <2>1. CASE n = Len(revision)
        BY <1>1, <2>1
    <2>2. CASE n # Len(revision)
      <3>1. n \in 1..(Len(revision) - 1) /\ n \in 1..Len(revision) /\ n + 1 \in 1..Len(revision)
          BY <1>1, <2>2
      <3> QED
          BY <1>1, <3>1 DEF OutsideInv, TextsFollow
    <2> QED
        BY <2>1, <2>2
  <1>4. ASSUME NEW q \in Call, CallOK(q, link, unlinked, revision)
        PROVE  CallOK(q, link, unlinked, revision')
    <2>1. CallPosed(q, Len(revision'))
        BY <1>1, <1>4 DEF CallOK, CallPosed
    <2>2. ReadTrue(q, revision')
        BY <1>1, <1>4 DEF CallOK, ReadTrue
    <2> QED
        BY <1>4, <2>1, <2>2 DEF CallOK
  <1> QED
      BY <1>2, <1>3, <1>4 DEF OutsideInv

(* A write is made from the version it was read from, when that is still   *)
(* the current one.                                                        *)
LEMMA WriteStep ==
    ASSUME OutsideInv, NEW r \in Requests, Outside!Write(r)
    PROVE  OutsideInv'
  <1>1. PICK q \in Call : q = request[r]
      BY DEF OutsideInv, OutsideTypes
  <1>2. /\ request \in [Requests -> Call] /\ CallPosed(q, Len(revision))
        /\ revision \in Seq(RevisionRow) /\ Len(revision) \in Nat \ {0}
        /\ session \in [Sessions -> SessionRow]
        /\ \A k \in Sessions : ~session[k].used => session[k].account \in Accounts
      BY <1>1 DEF OutsideInv, OutsideTypes, CallOK
  <1>3. /\ q.at \in {"append", "update", "retitle"} /\ q.op = q.at
        /\ q.base \in 1..Len(revision) /\ UNCHANGED <<link, unlinked, session>>
      BY <1>1, <1>2 DEF Outside!Write, Outside!WriteFrom, CallPosed, Outside!links, Working
  <1>4. PICK answer \in {"not found", "forbidden", "not canonical", "conflict", "ok"} :
          /\ Outside!Finish(r, answer)
          /\ answer = "ok" => q.base = Len(revision)
          /\ IF answer = "ok"
             THEN \E c \in BOOLEAN : Outside!Revised(q.op, Outside!NewText(r), c, q.user)
             ELSE UNCHANGED revision
    <2> DEFINE v == CASE ~document.live \/ role[q.user] = Outside!None -> "not found"
                      [] role[q.user] < Outside!Editor -> "forbidden"
                      [] ~Outside!Current.canonical -> "not canonical"
                      [] q.base # Len(revision) -> "conflict"
                      [] OTHER -> "ok"
    <2>1. v \in {"not found", "forbidden", "not canonical", "conflict", "ok"}
        OBVIOUS
    <2>2. v = "ok" => q.base = Len(revision)
        OBVIOUS
    <2>3. /\ Outside!Finish(r, v)
          /\ IF v = "ok"
             THEN \E c \in BOOLEAN : Outside!Revised(q.op, Outside!NewText(r), c, q.user)
             ELSE UNCHANGED revision
        BY <1>1 DEF Outside!Write, Outside!WriteFrom
    <2> HIDE DEF v
    <2> QED
        BY <2>1, <2>2, <2>3
  <1>5. PICK p : p = [q EXCEPT !.at = "done", !.answer = answer]
      OBVIOUS
  <1>6. p \in Call /\ p.at = "done" /\ p.answer = answer /\ p.op = q.op
      BY <1>4, <1>5 DEF Call
  <1>7. request' = [request EXCEPT ![r] = p]
      BY <1>1, <1>2, <1>4, <1>5 DEF Outside!Finish
  <1>8. CallOK(p, link, unlinked, revision)
      BY <1>3, <1>4, <1>6 DEF CallOK, CallPosed, Confirms, Linked, ReadTrue, Working
  <1>9. /\ request' \in [Requests -> Call]
        /\ \A t \in Requests : CallOK(request'[t], link, unlinked, revision)
      BY <1>2, <1>6, <1>7, <1>8 DEF OutsideInv
  <1>10. CASE answer # "ok"
      BY <1>2, <1>3, <1>4, <1>6, <1>7, <1>8, <1>10, OnlyOutside
  <1>11. CASE answer = "ok"
    <2>1. PICK c \in BOOLEAN : Outside!Revised(q.op, Outside!NewText(r), c, q.user)
        BY <1>4, <1>11
    <2>2. PICK x : x = [text |-> Outside!NewText(r), op |-> q.op, canonical |-> c, by |-> q.user]
        OBVIOUS
    <2>3. revision[q.base] \in RevisionRow /\ q.base = Len(revision)
        BY <1>2, <1>3, <1>4, <1>11
    <2>4. /\ Outside!NewText(r) \in SUBSET Requests
          /\ q.op # "update" => revision[Len(revision)].text \subseteq Outside!NewText(r)
      <3>1. revision[q.base].text \in SUBSET Requests
          BY <2>3 DEF RevisionRow
      <3> QED
          BY <1>1, <1>3, <2>3, <3>1 DEF Outside!NewText
    <2>5. x \in RevisionRow /\ x.op = q.op /\ x.text = Outside!NewText(r)
        BY <1>3, <2>2, <2>4 DEF RevisionRow, Actions, Call
    <2>6. revision' = revision \o <<x>>
        BY <2>1, <2>2 DEF Outside!Revised
    <2> QED
        BY <1>3, <1>9, <2>4, <2>5, <2>6, Added
  <1> QED
      BY <1>10, <1>11

LEMMA ReviseStep ==
    ASSUME OutsideInv, NEW text \in {{}, Outside!Current.text}, NEW c \in BOOLEAN,
           Outside!Revise(text, c)
    PROVE  OutsideInv'
  <1>1. /\ revision' = revision \o <<[text |-> text, op |-> "edit", canonical |-> c,
                                      by |-> Outside!NoUser]>>
        /\ UNCHANGED <<link, unlinked, session, request>>
      BY DEF Outside!Revise, Outside!Revised, Outside!links
  <1>2. revision[Len(revision)] \in RevisionRow
      BY DEF OutsideInv, OutsideTypes
  <1>3. text \in SUBSET Requests
      BY <1>2 DEF RevisionRow, Outside!Current
  <1>4. PICK x : x = [text |-> text, op |-> "edit", canonical |-> c, by |-> Outside!NoUser]
      OBVIOUS
  <1>5. x \in RevisionRow /\ x.op = "edit"
      BY <1>3, <1>4 DEF RevisionRow
  <1>6. /\ request' \in [Requests -> Call]
        /\ \A t \in Requests : CallOK(request'[t], link, unlinked, revision)
      BY <1>1 DEF OutsideInv, OutsideTypes
  <1> QED
      BY <1>1, <1>4, <1>5, <1>6, Added

(* What leaves the links, the texts and the requests alone.                *)
LEMMA OtherOutside ==
    ASSUME OutsideInv,
           \/ \E k \in Sessions : Outside!ExpireSession(k)
           \/ Outside!RotateSecret \/ Outside!RevokeIntegration
           \/ \E scopes \in {Outside!Scopes, {}}, folders \in BOOLEAN :
                 Outside!PatchIntegration(scopes, folders)
           \/ \E u \in Users, rl \in Outside!None..Outside!Editor : Outside!ChangeRole(u, rl)
           \/ \E how \in {"live", "here"} : Outside!LoseDocument(how)
           \/ Outside!DeleteFolder \/ UNCHANGED Outside!vars
    PROVE  OutsideInv'
  <1>1. UNCHANGED <<link, unlinked, revision, request>>
      BY DEF Outside!ExpireSession, Outside!RotateSecret, Outside!RevokeIntegration,
             Outside!PatchIntegration, Outside!ChangeRole, Outside!LoseDocument,
             Outside!DeleteFolder, Outside!vars, Outside!links, Outside!texts
  <1>2. /\ session \in [Sessions -> SessionRow]
        /\ \A k \in Sessions : ~session[k].used => session[k].account \in Accounts
      BY DEF OutsideInv, OutsideTypes
  <1>3. /\ session' \in [Sessions -> SessionRow]
        /\ \A k \in Sessions : ~session'[k].used => session'[k].account \in Accounts
    <2>1. CASE UNCHANGED session
        BY <1>2, <2>1
    <2>2. ASSUME NEW k \in Sessions, Outside!ExpireSession(k)
          PROVE  /\ session' \in [Sessions -> SessionRow]
                 /\ \A t \in Sessions : ~session'[t].used => session'[t].account \in Accounts
      <3>1. \A x \in SessionRow : LET y == [x EXCEPT !.expired = TRUE]
                                  IN  y \in SessionRow /\ y.account = x.account /\ y.used = x.used
          BY DEF SessionRow
      <3>2. PICK y \in SessionRow : /\ y = [session[k] EXCEPT !.expired = TRUE]
                                    /\ y.account = session[k].account /\ y.used = session[k].used
          BY <1>2, <3>1
      <3>3. session' = [session EXCEPT ![k] = y]
          BY <2>2, <3>2 DEF Outside!ExpireSession
      <3> QED
          BY <1>2, <3>2, <3>3
    <2> QED
        BY <2>1, <2>2 DEF Outside!RotateSecret, Outside!RevokeIntegration,
             Outside!PatchIntegration, Outside!ChangeRole, Outside!LoseDocument,
             Outside!DeleteFolder, Outside!vars, Outside!links
  <1>4. OutsideTypes'
      BY <1>1, <1>3 DEF OutsideInv, OutsideTypes
  <1> QED
      BY <1>1, <1>4 DEF OutsideInv

LEMMA StepOutside ==
    ASSUME "none" \notin Requests, OutsideInv, [Outside!Next]_Outside!vars
    PROVE  OutsideInv'
  <1>1. ASSUME NEW r \in Requests,
               \/ \E op \in {"connect", "read", "append", "update", "retitle", "create"} :
                     \E a \in Accounts \cup {Outside!Anyone}, s \in 1..2 : Outside!Arrive(r, op, a, s)
               \/ \E k \in Sessions : Outside!Connect(r, k) \/ Outside!LookupUnlinked(r, k)
               \/ Outside!LookupLink(r) \/ Outside!FindDocument(r) \/ Outside!ReadDocument(r)
               \/ Outside!Write(r) \/ Outside!FindFolder(r) \/ Outside!CreateDocument(r)
               \/ \E u \in Users, k \in Sessions : Outside!BeginConfirm(r, u, k)
               \/ \E u \in Users, a \in Accounts : Outside!BeginUnlink(r, u, a)
               \/ Outside!Confirm(r) \/ Outside!Unlink(r)
        PROVE  OutsideInv'
      BY <1>1, CallSteps, SessionSteps, BeginSteps, ConfirmStep, UnlinkStep, WriteStep
  <1>2. ASSUME NEW u \in Users, Outside!DeleteUser(u)
        PROVE  OutsideInv'
      BY <1>2, DeleteStep
  <1>3. ASSUME NEW text \in {{}, Outside!Current.text}, NEW c \in BOOLEAN, Outside!Revise(text, c)
        PROVE  OutsideInv'
      BY <1>3, ReviseStep
  <1> QED
      BY <1>1, <1>2, <1>3, OtherOutside DEF Outside!Next

(* Everything the integration and its users know of the links, in every    *)
(* reachable state: a confirmation found no link, or one that is its       *)
(* user's still.  The row of a link is never the one that stands for none. *)
THEOREM OutsideInvariant ==
    ASSUME "none" \notin Requests PROVE Outside!Spec => []OutsideInv
  <1>1. OutsideInv /\ [Outside!Next]_Outside!vars => OutsideInv'
      BY StepOutside
  <1> QED
      BY <1>1, InitOutside, PTL DEF Outside!Spec

(* Whoever is told that an external account is linked to them has it, and  *)
(* nobody else was told so, as long as nobody unlinked it                  *)
(* (routes.ts:345).                                                        *)
THEOREM LinksAreNotTaken ==
    ASSUME "none" \notin Requests PROVE Outside!Spec => []Outside!ConnectsAgree
  <1>1. OutsideInv => Outside!ConnectsAgree
      BY DEF OutsideInv, CallOK, Linked, Outside!ConnectsAgree
  <1> QED
      BY <1>1, OutsideInvariant, PTL

(* An append and a change of title keep all of the text they follow, and a *)
(* read that names no account gives a text that was canonical              *)
(* (routes.ts:999, :711).                                                  *)
THEOREM AppendsKeepTexts ==
    ASSUME "none" \notin Requests PROVE Outside!Spec => []Outside!TextsAreKept
  <1>1. OutsideInv => Outside!TextsAreKept
      BY DEF OutsideInv, CallOK, ReadTrue, TextsFollow, Outside!TextsAreKept
  <1> QED
      BY <1>1, OutsideInvariant, PTL

(***************************************************************************)
(* PlanningWorkflow: a plan that is made final was ready.                  *)
(***************************************************************************)
Statuses == {"canonical", "draft", "superseded", "archived"}

PlanContent == [status : Statuses, step : WorkflowWords, round : Nat,
                section : [Plan!Sections -> Plan!Fillings], asked : BOOLEAN, decision : DecisionWords]

PlanOps == {"start", "section", "question", "decide", "put", "promote", "review", "finalizeWeb",
            "finalizeMcp"}
Places == {"idle", "read", "write", "comment", "comments", "done"}
Answers == {Plan!None, "refused", "ok", "duplicate", "plan_not_ready", "failed"}

Version == [content : PlanContent, op : PlanOps, base : Nat, ignored : SUBSET Comments]

Args == {Plan!None, "comments", "round", "edit", "decide", "proposed", "accepted"}
        \cup BOOLEAN \cup PlanContent \cup (Plan!Sections \X Plan!Fillings)

Asking == [op : PlanOps \cup {Plan!None}, pc : Places, base : Nat, read : Nat,
           since : SUBSET Comments, arg : Args, answer : Answers]

Finals == {"finalizeWeb", "finalizeMcp"}

(* What plans start from and what is put into a section are contents.      *)
ContentsGiven ==
    /\ Starts \subseteq PlanContent /\ Edited \subseteq Plan!Fillings
    /\ Plan!Steps \subseteq WorkflowWords /\ {"proposed", "accepted"} \subseteq DecisionWords

PlanTypes ==
    /\ revision \in Seq(Version) /\ Len(revision) >= 1
    /\ comment \in [Comments -> {"none", "open", "closed"}]
    /\ request \in [Requests -> Asking]

(* What the request was given is what its operation takes.                 *)
ArgOK(q) ==
    /\ q.op = "section" => q.arg \in Plan!Sections \X Plan!Fillings
    /\ q.op = "decide" => q.arg \in DecisionWords
    /\ q.op = "put" => q.arg \in PlanContent

(* A request under way names a version that there is and has read none     *)
(* older; the comments open all the time are open.                         *)
Underway(q, versions, open) ==
    q.pc \notin {"idle", "done"} =>
        /\ q.base \in 1..versions /\ q.since \subseteq open /\ ArgOK(q)
        /\ q.pc \in {"write", "comments"} => q.read \in 1..versions /\ q.base <= q.read

(* A plan about to be made final is ready in the content that was read,    *)
(* and no comment was open all the time.                                   *)
AboutToFinalize(q, revs) ==
    q.op \in Finals /\ q.pc = "write" =>
        /\ q.since = {}
        /\ Plan!Ready(q.op = "finalizeWeb",
                      Plan!Completed(q.op = "finalizeWeb", revs[q.read].content, q.arg), {})

AskOK(q, revs, open) == Underway(q, Len(revs), open) /\ AboutToFinalize(q, revs)

(* The version was made final from one that was ready.                     *)
FinalFrom(old, new, base) ==
    new.op \in Finals =>
        /\ new.base = base /\ new.ignored = {}
        /\ old.step # Plan!None /\ ~old.asked /\ old.decision # "proposed"
        /\ old.section["plan"] # "tbd" /\ old.section["acceptance-criteria"] = "filled"
        /\ new.content.section["final-plan"] # "tbd"
        /\ new.content.round = old.round

PlanInv ==
    /\ PlanTypes
    /\ \A i \in 2..Len(revision) : FinalFrom(revision[i - 1].content, revision[i], i - 1)
    /\ \A k \in Requests : AskOK(request[k], revision, Plan!OpenComments)

LEMMA InitPlan == ASSUME ContentsGiven, Plan!PlanInit PROVE PlanInv
  <1>1. PICK content \in PlanContent :
            revision = <<[content |-> content, op |-> "start", base |-> 0, ignored |-> {}]>>
      BY DEF Plan!PlanInit, ContentsGiven
  <1>2. revision \in Seq(Version) /\ Len(revision) = 1
      BY <1>1 DEF Version, PlanOps
  <1>3. Plan!Idle \in Asking /\ Plan!Idle.pc = "idle"
    <2>1. Plan!None \in Args
        BY DEF Args
    <2> QED
        BY <2>1 DEF Plan!Idle, Asking, Places, Answers
  <1>4. request \in [Requests -> Asking] /\ \A k \in Requests : request[k].pc = "idle"
      BY <1>3 DEF Plan!PlanInit
  <1>5. \A k \in Requests : AskOK(request[k], revision, Plan!OpenComments)
      BY <1>4 DEF AskOK, Underway, AboutToFinalize
  <1>6. comment \in [Comments -> {"none", "open", "closed"}]
      BY DEF Plan!PlanInit, Plan!None
  <1> QED
      BY <1>2, <1>4, <1>5, <1>6 DEF PlanInv, PlanTypes

(* A request that goes on leaves the versions and the comments.            *)
LEMMA OnlyAsking ==
    ASSUME PlanInv, NEW k \in Requests, NEW p \in Asking, AskOK(p, revision, Plan!OpenComments),
           request' = [request EXCEPT ![k] = p], UNCHANGED <<revision, comment>>
    PROVE  PlanInv'
  <1>1. PlanTypes'
      BY DEF PlanInv, PlanTypes
  <1>2. \A t \in Requests : AskOK(request'[t], revision, Plan!OpenComments)
      BY DEF PlanInv, PlanTypes
  <1>3. Plan!OpenComments' = Plan!OpenComments
      BY DEF Plan!OpenComments
  <1> QED
      BY <1>1, <1>2, <1>3 DEF PlanInv

(* A step that changes the request's place, its version and its answer.    *)
LEMMA WithAsking ==
    ASSUME NEW q \in Asking, NEW pc \in Places, NEW read \in Nat, NEW base \in Nat,
           NEW answer \in Answers
    PROVE  LET p == [q EXCEPT !.pc = pc, !.read = read, !.base = base, !.answer = answer]
           IN  /\ p \in Asking /\ p.pc = pc /\ p.read = read /\ p.base = base
               /\ p.answer = answer /\ p.op = q.op /\ p.arg = q.arg /\ p.since = q.since
  BY DEF Asking

(* What is put into a plan's content leaves a content.                     *)
LEMMA ContentsStay ==
    ASSUME NEW c \in PlanContent
    PROVE  /\ \A s \in Plan!Sections, f \in Plan!Fillings : [c EXCEPT !.section[s] = f] \in PlanContent
           /\ [c EXCEPT !.asked = ~@] \in PlanContent
           /\ \A d \in DecisionWords : [c EXCEPT !.decision = d] \in PlanContent
           /\ [c EXCEPT !.status = "canonical"] \in PlanContent
           /\ \A next \in WorkflowWords, n \in Nat :
                 [c EXCEPT !.step = next, !.round = n] \in PlanContent
  <1>1. ASSUME NEW s \in Plan!Sections, NEW f \in Plan!Fillings
        PROVE  [c EXCEPT !.section[s] = f] \in PlanContent
    <2>1. PICK g : g = [c.section EXCEPT ![s] = f]
        OBVIOUS
    <2>2. g \in [Plan!Sections -> Plan!Fillings]
        BY <2>1 DEF PlanContent
    <2>3. [c EXCEPT !.section = g] \in PlanContent
        BY <2>2 DEF PlanContent
    <2> QED
        BY <2>1, <2>3
  <1>2. [c EXCEPT !.asked = ~@] \in PlanContent
    <2>1. PICK b \in BOOLEAN : b = ~c.asked
        OBVIOUS
    <2>2. [c EXCEPT !.asked = b] \in PlanContent
        BY DEF PlanContent
    <2> QED
        BY <2>1, <2>2, Zenon
  <1>3. \A d \in DecisionWords : [c EXCEPT !.decision = d] \in PlanContent
      BY DEF PlanContent
  <1>4. [c EXCEPT !.status = "canonical"] \in PlanContent
      BY DEF PlanContent, Statuses
  <1>5. \A next \in WorkflowWords, n \in Nat : [c EXCEPT !.step = next, !.round = n] \in PlanContent
      BY DEF PlanContent
  <1> QED
      BY <1>1, <1>2, <1>3, <1>4, <1>5

(* Filling in the final plan leaves the rest of a content, and so does     *)
(* making it final, but for its step, its status and its decision.         *)
LEMMA CompletedContent ==
    ASSUME ContentsGiven, NEW c \in PlanContent, NEW byWeb \in BOOLEAN, NEW given \in Args
    PROVE  LET d == Plan!Completed(byWeb, c, given)
               f == Plan!Finalized(d)
           IN  /\ d \in PlanContent /\ f \in PlanContent
               /\ d.step = c.step /\ d.asked = c.asked /\ d.decision = c.decision
               /\ d.round = c.round
               /\ d.section["plan"] = c.section["plan"]
               /\ d.section["acceptance-criteria"] = c.section["acceptance-criteria"]
               /\ f.section = d.section /\ f.round = d.round
  <1> DEFINE e == [c EXCEPT !.section["final-plan"] = "filled"]
  <1>1. e \in PlanContent
      BY ContentsStay DEF Plan!Sections, Plan!Fillings
  <1>2. /\ e.step = c.step /\ e.asked = c.asked /\ e.decision = c.decision /\ e.round = c.round
        /\ e.section["plan"] = c.section["plan"]
        /\ e.section["acceptance-criteria"] = c.section["acceptance-criteria"]
    <2>1. PICK g : g = [c.section EXCEPT !["final-plan"] = "filled"]
        OBVIOUS
    <2>2. /\ g["plan"] = c.section["plan"]
          /\ g["acceptance-criteria"] = c.section["acceptance-criteria"]
        BY <2>1 DEF PlanContent, Plan!Sections
    <2>3. /\ [c EXCEPT !.section = g].section = g /\ [c EXCEPT !.section = g].step = c.step
          /\ [c EXCEPT !.section = g].asked = c.asked
          /\ [c EXCEPT !.section = g].decision = c.decision
          /\ [c EXCEPT !.section = g].round = c.round
        BY DEF PlanContent
    <2> QED
        BY <2>1, <2>2, <2>3
  <1>3. PICK d \in PlanContent :
          /\ d = Plan!Completed(byWeb, c, given) /\ d \in {c, e}
    <2>1. Plan!Completed(byWeb, c, given) \in {c, e}
        BY DEF Plan!Completed
    <2> HIDE DEF e
    <2> QED
        BY <1>1, <2>1
  <1>4. PICK f : f = Plan!Finalized(d)
      OBVIOUS
  <1>5. f \in PlanContent /\ f.section = d.section /\ f.round = d.round
      BY <1>4 DEF Plan!Finalized, PlanContent, Statuses, Plan!Steps, ContentsGiven
  <1> HIDE DEF e
  <1> QED
      BY <1>2, <1>3, <1>4, <1>5

(* What is ready is complete, but for what differs between the two checks. *)
LEMMA ReadyMeans ==
    ASSUME ContentsGiven, NEW c \in PlanContent, NEW byWeb \in BOOLEAN, NEW given \in Args,
           Plan!Ready(byWeb, Plan!Completed(byWeb, c, given), {}), NEW base,
           NEW v, v.base = base, v.ignored = {},
           v.content = Plan!Finalized(Plan!Completed(byWeb, c, given))
    PROVE  FinalFrom(c, v, base)
  <1>1. PICK d \in PlanContent :
          /\ d = Plan!Completed(byWeb, c, given) /\ Plan!Ready(byWeb, d, {})
          /\ d.step = c.step /\ d.asked = c.asked /\ d.decision = c.decision
          /\ d.round = c.round
          /\ d.section["plan"] = c.section["plan"]
          /\ d.section["acceptance-criteria"] = c.section["acceptance-criteria"]
          /\ v.content.section = d.section /\ v.content.round = d.round
      BY CompletedContent
  <1>2. \A s \in Plan!Sections : d.section[s] \in Plan!Fillings /\ d.section[s] # "tbd"
    <2>1. \A s \in Plan!Sections : ~Plan!Placeholder(byWeb, d, s)
        BY <1>1 DEF Plan!Ready
    <2> QED
        BY <2>1 DEF Plan!Placeholder, Plan!PlaceholderForWeb, Plan!PlaceholderForMcp, PlanContent
  <1>3. /\ d.section["plan"] # "tbd" /\ d.section["final-plan"] # "tbd"
        /\ d.section["acceptance-criteria"] = "filled"
      BY <1>1, <1>2 DEF Plan!Sections, Plan!Ready, Plan!HasCriteria
  <1>4. d.step # Plan!None /\ ~d.asked /\ d.decision # "proposed"
      BY <1>1 DEF Plan!Ready, Plan!None
  <1> QED
      BY <1>1, <1>3, <1>4 DEF FinalFrom

(* A write from the current version, or none.                              *)
LEMMA PlanWrite ==
    ASSUME ContentsGiven, PlanInv, NEW k \in Requests, NEW content \in PlanContent, NEW optedIn,
           NEW then \in {"done", "comment"}, request[k].pc = "write",
           request[k].op \in Finals => then = "done",
           request[k].op \in PlanOps,
           request[k].op \in Finals =>
               content = Plan!Finalized(Plan!Completed(request[k].op = "finalizeWeb",
                                                       Plan!ContentRead(k), request[k].arg)),
           Plan!Write(k, content, optedIn, then)
    PROVE  PlanInv'
  <1>1. PICK q \in Asking : q = request[k]
      BY DEF PlanInv, PlanTypes
  <1>2. /\ request \in [Requests -> Asking] /\ revision \in Seq(Version)
        /\ Len(revision) \in Nat \ {0} /\ AskOK(q, revision, Plan!OpenComments)
      BY <1>1 DEF PlanInv, PlanTypes
  <1>3. /\ q.pc = "write" /\ q.base \in 1..Len(revision) /\ q.read \in 1..Len(revision)
        /\ q.base <= q.read /\ q.since \subseteq Plan!OpenComments /\ ArgOK(q)
        /\ UNCHANGED comment
      BY <1>1, <1>2 DEF AskOK, Underway, Plan!Write
  <1>4. ASSUME NEW p, NEW pc \in {"done", "comment"}, NEW answer \in Answers,
               p = [q EXCEPT !.pc = pc, !.answer = answer], q.op \in Finals => pc = "done"
        PROVE  /\ p \in Asking /\ p.op = q.op
               /\ \A n \in Nat : Len(revision) <= n => Underway(p, n, Plan!OpenComments)
               /\ \A revs : AboutToFinalize(p, revs)
    <2>1. /\ p \in Asking /\ p.pc = pc /\ p.base = q.base /\ p.op = q.op /\ p.arg = q.arg
          /\ p.since = q.since
        BY <1>4 DEF Asking, Places
    <2> QED
        BY <1>2, <1>3, <1>4, <2>1 DEF Underway, AboutToFinalize, ArgOK
  <1>5. CASE Plan!Answer(k, "refused") /\ UNCHANGED revision
    <2>1. PICK p : p = [q EXCEPT !.pc = "done", !.answer = "refused"]
        OBVIOUS
    <2>2. p \in Asking /\ AskOK(p, revision, Plan!OpenComments)
        BY <1>2, <1>4, <2>1 DEF AskOK, Answers
    <2>3. request' = [request EXCEPT ![k] = p]
        BY <1>1, <1>2, <1>5, <2>1 DEF Plan!Answer
    <2> QED
        BY <1>3, <1>5, <2>2, <2>3, OnlyAsking
  <1>6. CASE /\ q.base = Len(revision)
             /\ request' = [request EXCEPT ![k].pc = then, ![k].answer = "ok"]
             /\ \/ UNCHANGED revision
                \/ revision' = Append(revision, [content |-> content, op |-> q.op,
                                                 base |-> q.base, ignored |-> q.since])
    <2>1. PICK p : p = [q EXCEPT !.pc = then, !.answer = "ok"]
        OBVIOUS
    <2>2. /\ p \in Asking /\ p.op = q.op
          /\ \A n \in Nat : Len(revision) <= n => Underway(p, n, Plan!OpenComments)
          /\ \A revs : AboutToFinalize(p, revs)
        BY <1>1, <1>4, <2>1 DEF Answers
    <2>3. request' = [request EXCEPT ![k] = p]
        BY <1>1, <1>2, <1>6, <2>1
    <2>4. CASE UNCHANGED revision
      <3>1. AskOK(p, revision, Plan!OpenComments)
          BY <1>2, <2>2 DEF AskOK
      <3> QED
          BY <1>3, <2>2, <2>3, <2>4, <3>1, OnlyAsking
    <2>5. CASE revision' = Append(revision, [content |-> content, op |-> q.op,
                                             base |-> q.base, ignored |-> q.since])
      <3>1. PICK v : v = [content |-> content, op |-> q.op, base |-> q.base,
                          ignored |-> q.since]
          OBVIOUS
      <3>2. /\ v \in Version /\ v.content = content /\ v.op = q.op /\ v.base = q.base
            /\ v.ignored = q.since
          BY <1>1, <3>1 DEF Version, Asking
      <3>3. revision' = Append(revision, v)
          BY <2>5, <3>1
      <3>4. /\ revision' \in Seq(Version) /\ Len(revision') = Len(revision) + 1
            /\ revision'[Len(revision) + 1] = v
            /\ \A i \in 1..Len(revision) : revision'[i] = revision[i]
          BY <1>2, <3>2, <3>3
      <3>5. PICK old \in PlanContent : old = revision[q.base].content
        <4>1. revision[q.base] \in Version
            BY <1>2, <1>3
        <4> QED
            BY <4>1 DEF Version
      <3>6. FinalFrom(old, v, q.base)
        <4> SUFFICES ASSUME q.op \in Finals PROVE FinalFrom(old, v, q.base)
            BY <3>2 DEF FinalFrom
        <4>1. q.read = q.base
            BY <1>2, <1>3, <1>6
        <4>2. q.since = {} /\ Plan!Ready(q.op = "finalizeWeb",
                                Plan!Completed(q.op = "finalizeWeb", old, q.arg), {})
            BY <1>2, <1>3, <3>5, <4>1 DEF AskOK, AboutToFinalize
        <4>3. content = Plan!Finalized(Plan!Completed(q.op = "finalizeWeb", old, q.arg))
            BY <1>1, <3>5, <4>1 DEF Plan!ContentRead
        <4>4. (q.op = "finalizeWeb") \in BOOLEAN /\ q.arg \in Args
            BY DEF Asking
        <4>5. PICK byWeb \in BOOLEAN : byWeb = (q.op = "finalizeWeb")
            BY <4>4
        <4>6. /\ Plan!Ready(byWeb, Plan!Completed(byWeb, old, q.arg), {})
              /\ content = Plan!Finalized(Plan!Completed(byWeb, old, q.arg))
            BY <4>2, <4>3, <4>5, Zenon
        <4> QED
            BY <3>2, <4>2, <4>4, <4>6, ReadyMeans
      <3>7. \A i \in 2..Len(revision') : FinalFrom(revision'[i - 1].content, revision'[i], i - 1)
        <4> SUFFICES ASSUME NEW i \in 2..Len(revision')
                     PROVE  FinalFrom(revision'[i - 1].content, revision'[i], i - 1)
            OBVIOUS
        <4>1. CASE i = Len(revision) + 1
          <5>1. i - 1 = Len(revision) /\ i - 1 \in 1..Len(revision) /\ i - 1 = q.base
              BY <1>2, <1>6, <4>1
          <5> QED
              BY <3>4, <3>5, <3>6, <4>1, <5>1
        <4>2. CASE i # Len(revision) + 1
          <5>1. i \in 2..Len(revision) /\ i \in 1..Len(revision) /\ i - 1 \in 1..Len(revision)
              BY <1>2, <3>4, <4>2
          <5> QED
              BY <3>4, <5>1 DEF PlanInv
        <4> QED
            BY <4>1, <4>2
      <3>8. ASSUME NEW t \in Requests
            PROVE  AskOK(request'[t], revision', Plan!OpenComments)
        <4>1. CASE t = k
            BY <1>2, <2>2, <2>3, <3>4, <4>1 DEF AskOK
        <4>2. CASE t # k
          <5>1. request'[t] = request[t] /\ AskOK(request[t], revision, Plan!OpenComments)
              BY <1>2, <2>3, <4>2 DEF PlanInv
          <5>2. PICK x \in Asking : x = request[t]
              BY <1>2
          <5>3. Underway(x, Len(revision'), Plan!OpenComments)
              BY <1>2, <3>4, <5>1, <5>2 DEF AskOK, Underway
          <5>4. AboutToFinalize(x, revision')
            <6> SUFFICES ASSUME x.op \in Finals, x.pc = "write"
                         PROVE  AboutToFinalize(x, revision')
                BY DEF AboutToFinalize
            <6>1. x.read \in 1..Len(revision)
                BY <5>1, <5>2 DEF AskOK, Underway
            <6>2. revision'[x.read] = revision[x.read]
                BY <3>4, <6>1
            <6> QED
                BY <5>1, <5>2, <6>2 DEF AskOK, AboutToFinalize
          <5> QED
              BY <5>1, <5>2, <5>3, <5>4 DEF AskOK
        <4> QED
            BY <4>1, <4>2
      <3>9. PlanTypes'
          BY <1>2, <1>3, <2>2, <2>3, <3>4 DEF PlanInv, PlanTypes
      <3>10. Plan!OpenComments' = Plan!OpenComments
          BY <1>3 DEF Plan!OpenComments
      <3> QED
          BY <3>7, <3>8, <3>9, <3>10 DEF PlanInv
    <2> QED
        BY <1>6, <2>4, <2>5
  <1> QED
      BY <1>1, <1>5, <1>6 DEF Plan!Write, Plan!Current

(* Edits, promotions and reviews.                                          *)
LEMMA EditSteps ==
    ASSUME ContentsGiven, PlanInv, NEW k \in Requests,
           \/ Plan!ReplaceSection(k) \/ Plan!EditQuestions(k) \/ Plan!AddDecision(k)
           \/ Plan!UpdateDocument(k) \/ Plan!Promote(k) \/ Plan!ReviewPlan(k)
           \/ Plan!FinalizePlan(k)
    PROVE  PlanInv'
  <1>1. PICK q \in Asking : q = request[k]
      BY DEF PlanInv, PlanTypes
  <1>2. q.pc = "write"
      BY <1>1 DEF Plan!ReplaceSection, Plan!EditQuestions, Plan!AddDecision, Plan!UpdateDocument,
             Plan!Promote, Plan!ReviewPlan, Plan!FinalizePlan, Plan!At
  <1>3. /\ request \in [Requests -> Asking] /\ AskOK(q, revision, Plan!OpenComments)
        /\ revision \in Seq(Version) /\ q.read \in 1..Len(revision) /\ ArgOK(q)
        /\ q.base \in 1..Len(revision) /\ q.since \subseteq Plan!OpenComments
      BY <1>1, <1>2 DEF PlanInv, PlanTypes, AskOK, Underway
  <1>4. PICK c \in PlanContent : c = Plan!ContentRead(k)
    <2>1. revision[q.read] \in Version
        BY <1>3
    <2> QED
        BY <1>1, <2>1 DEF Version, Plan!ContentRead
  <1>5. ASSUME NEW pc \in {"done", "comment"}, NEW answer \in Answers,
               request' = [request EXCEPT ![k] = [q EXCEPT !.pc = pc, !.answer = answer]],
               UNCHANGED <<revision, comment>>
        PROVE  PlanInv'
    <2>1. PICK p : p = [q EXCEPT !.pc = pc, !.answer = answer]
        OBVIOUS
    <2>2. /\ p \in Asking /\ p.pc = pc /\ p.base = q.base /\ p.op = q.op /\ p.arg = q.arg
          /\ p.since = q.since
        BY <2>1 DEF Asking, Places
    <2>3. AskOK(p, revision, Plan!OpenComments)
        BY <1>3, <2>2 DEF AskOK, Underway, AboutToFinalize, ArgOK
    <2> QED
        BY <1>5, <2>1, <2>2, <2>3, OnlyAsking
  <1>6. CASE Plan!ReplaceSection(k)
    <2>1. q.op = "section" /\ q.arg \in Plan!Sections \X Plan!Fillings
        BY <1>1, <1>3, <1>6 DEF Plan!ReplaceSection, Plan!At, ArgOK
    <2>2. PICK d \in PlanContent : d = [c EXCEPT !.section[q.arg[1]] = q.arg[2]]
        BY <2>1, ContentsStay
    <2>3. Plan!Write(k, d, Plan!OptsIn(k), "done")
        BY <1>1, <1>4, <1>6, <2>2 DEF Plan!ReplaceSection
    <2> QED
        BY <1>1, <1>2, <2>1, <2>3, PlanWrite DEF Finals, PlanOps
  <1>7. CASE Plan!EditQuestions(k)
    <2>1. q.op = "question"
        BY <1>1, <1>7 DEF Plan!EditQuestions, Plan!At
    <2>2. PICK d \in PlanContent : d = [c EXCEPT !.asked = ~@]
        BY ContentsStay
    <2>3. Plan!Write(k, d, Plan!OptsIn(k), "done")
        BY <1>1, <1>4, <1>7, <2>2 DEF Plan!EditQuestions
    <2> QED
        BY <1>1, <1>2, <2>1, <2>3, PlanWrite DEF Finals, PlanOps
  <1>8. CASE Plan!AddDecision(k)
    <2>1. q.op = "decide" /\ q.arg \in DecisionWords
        BY <1>1, <1>3, <1>8 DEF Plan!AddDecision, Plan!At, ArgOK
    <2>2. PICK d \in PlanContent : d = [c EXCEPT !.decision = q.arg]
        BY <2>1, ContentsStay
    <2>3. CASE Plan!Write(k, d, Plan!OptsIn(k), "done")
        BY <1>1, <1>2, <2>1, <2>3, PlanWrite DEF Finals, PlanOps
    <2>4. CASE Plan!Answer(k, "duplicate") /\ UNCHANGED <<revision, comment>>
        BY <1>1, <1>5, <2>4 DEF Plan!Answer, Answers
    <2> QED
        BY <1>1, <1>4, <1>8, <2>2, <2>3, <2>4 DEF Plan!AddDecision
  <1>9. CASE Plan!UpdateDocument(k)
    <2>1. q.op = "put" /\ q.arg \in PlanContent
        BY <1>1, <1>3, <1>9 DEF Plan!UpdateDocument, Plan!At, ArgOK
    <2>2. Plan!Write(k, q.arg, Plan!OptsIn(k), "done")
        BY <1>1, <1>9 DEF Plan!UpdateDocument
    <2> QED
        BY <1>1, <1>2, <2>1, <2>2, PlanWrite DEF Finals, PlanOps
  <1>10. CASE Plan!Promote(k)
    <2>1. q.op = "promote"
        BY <1>1, <1>10 DEF Plan!Promote, Plan!At
    <2>2. PICK d \in PlanContent : d = [c EXCEPT !.status = "canonical"]
        BY ContentsStay
    <2>3. Plan!Write(k, d, TRUE, "done")
        BY <1>4, <1>10, <2>2 DEF Plan!Promote
    <2> QED
        BY <1>1, <1>2, <2>1, <2>3, PlanWrite DEF Finals, PlanOps
  <1>11. CASE Plan!ReviewPlan(k)
    <2>1. q.op = "review"
        BY <1>1, <1>11 DEF Plan!ReviewPlan, Plan!At
    <2>2. PICK d \in PlanContent : d = Plan!Reviewed(c, q.arg)
      <3>1. PICK s \in [Plan!Sections -> Plan!Fillings] :
               s = IF q.arg = "edit" THEN [c.section EXCEPT !["plan"] = "filled"] ELSE c.section
          BY DEF PlanContent, Plan!Fillings
      <3>2. PICK w \in DecisionWords : w = IF q.arg = "decide" THEN "proposed" ELSE c.decision
          BY DEF PlanContent, ContentsGiven
      <3>3. PICK n \in Nat : n = c.round + 1
          BY DEF PlanContent
      <3>4. [c EXCEPT !.round = n, !.section = s, !.decision = w] \in PlanContent
          BY DEF PlanContent
      <3>5. Plan!Reviewed(c, q.arg) = [c EXCEPT !.round = n, !.section = s, !.decision = w]
        <4>1. CASE q.arg = "edit"
          <5>1. c.section \in [Plan!Sections -> Plan!Fillings]
              BY DEF PlanContent
          <5> QED
              BY <3>1, <3>2, <3>3, <4>1, <5>1 DEF Plan!Reviewed, PlanContent, Plan!Sections
        <4>2. CASE q.arg # "edit"
          <5>1. [c.section EXCEPT !["plan"] = c.section["plan"]] = c.section
              BY DEF PlanContent
          <5> QED
              BY <3>1, <3>2, <3>3, <4>2, <5>1 DEF Plan!Reviewed
        <4> QED
            BY <4>1, <4>2
      <3> QED
          BY <3>4, <3>5
    <2>3. CASE Plan!Write(k, d, Plan!OptsIn(k), "comment")
        BY <1>1, <1>2, <2>1, <2>3, PlanWrite DEF Finals, PlanOps
    <2>4. CASE Plan!Answer(k, "duplicate") /\ UNCHANGED <<revision, comment>>
        BY <1>1, <1>5, <2>4 DEF Plan!Answer, Answers
    <2>5. CASE Plan!Go(k, "comment") /\ UNCHANGED <<revision, comment>>
      <3>1. request' = [request EXCEPT ![k] = [q EXCEPT !.pc = "comment", !.answer = q.answer]]
        <4>1. [q EXCEPT !.pc = "comment"] = [q EXCEPT !.pc = "comment", !.answer = q.answer]
            BY DEF Asking
        <4> QED
            BY <1>1, <2>5, <4>1 DEF Plan!Go
      <3> QED
          BY <1>5, <2>5, <3>1 DEF Asking
    <2> QED
        BY <1>1, <1>4, <1>11, <2>2, <2>3, <2>4, <2>5 DEF Plan!ReviewPlan
  <1>12. CASE Plan!FinalizePlan(k)
    <2>1. q.op \in Finals
        BY <1>1, <1>12 DEF Plan!FinalizePlan, Finals
    <2>2. PICK byWeb \in BOOLEAN : byWeb = (q.op = "finalizeWeb")
      <3>1. (q.op = "finalizeWeb") \in BOOLEAN
          OBVIOUS
      <3> QED
          BY <3>1
    <2>3. PICK d : d = Plan!Finalized(Plan!Completed(q.op = "finalizeWeb", c, q.arg))
        OBVIOUS
    <2>4. d \in PlanContent
      <3>1. d = Plan!Finalized(Plan!Completed(byWeb, c, q.arg))
          BY <2>2, <2>3, Zenon
      <3> QED
          BY <3>1, CompletedContent DEF Asking
    <2>5. Plan!Write(k, d, Plan!OptsIn(k), "done")
        BY <1>1, <1>4, <1>12, <2>3 DEF Plan!FinalizePlan, Plan!ByWeb
    <2> QED
        BY <1>1, <1>2, <1>4, <2>1, <2>3, <2>4, <2>5, PlanWrite DEF Finals, PlanOps
  <1> QED
      BY <1>6, <1>7, <1>8, <1>9, <1>10, <1>11, <1>12

(* The content is read; a plan to be made final is looked at.              *)
LEMMA ReadSteps ==
    ASSUME ContentsGiven, PlanInv, NEW k \in Requests,
           \/ Plan!ReadForEdit(k) \/ Plan!ReadForReview(k) \/ Plan!ReadForFinal(k)
           \/ Plan!ReadComments(k) \/ Plan!Crash(k)
    PROVE  PlanInv'
  <1>1. PICK q \in Asking : q = request[k]
      BY DEF PlanInv, PlanTypes
  <1>2. q.pc \notin {"idle", "done"} /\ UNCHANGED <<revision, comment>>
      BY <1>1 DEF Plan!ReadForEdit, Plan!ReadForReview, Plan!ReadForFinal, Plan!ReadComments,
             Plan!Crash, Plan!At, Plan!Read
  <1>3. /\ request \in [Requests -> Asking] /\ AskOK(q, revision, Plan!OpenComments)
        /\ Len(revision) \in Nat \ {0} /\ ArgOK(q)
        /\ q.base \in 1..Len(revision) /\ q.since \subseteq Plan!OpenComments
      BY <1>1, <1>2 DEF PlanInv, PlanTypes, AskOK, Underway
  <1>4. ASSUME NEW answer \in Answers, Plan!Answer(k, answer)
        PROVE  PlanInv'
    <2>1. PICK p : p = [q EXCEPT !.pc = "done", !.answer = answer]
        OBVIOUS
    <2>2. p \in Asking /\ p.pc = "done"
        BY <2>1 DEF Asking, Places
    <2>3. request' = [request EXCEPT ![k] = p]
        BY <1>1, <1>3, <1>4, <2>1 DEF Plan!Answer
    <2>4. AskOK(p, revision, Plan!OpenComments)
        BY <2>2 DEF AskOK, Underway, AboutToFinalize
    <2> QED
        BY <1>2, <2>2, <2>3, <2>4, OnlyAsking
  <1>5. ASSUME NEW pc \in {"write", "comments"}, NEW base \in {q.base, Len(revision)},
               q.op \in Finals => pc = "comments",
               request' = [request EXCEPT ![k].pc = pc, ![k].read = Len(revision), ![k].base = base]
        PROVE  PlanInv'
    <2>1. PICK p : p = [q EXCEPT !.pc = pc, !.read = Len(revision), !.base = base]
        OBVIOUS
    <2>2. /\ p \in Asking /\ p.pc = pc /\ p.read = Len(revision) /\ p.base = base
          /\ p.op = q.op /\ p.arg = q.arg /\ p.since = q.since
        BY <1>3, <2>1 DEF Asking, Places
    <2>3. request' = [request EXCEPT ![k] = p]
        BY <1>1, <1>3, <1>5, <2>1
    <2>4. AskOK(p, revision, Plan!OpenComments)
        BY <1>3, <1>5, <2>2 DEF AskOK, Underway, AboutToFinalize, ArgOK
    <2> QED
        BY <1>2, <2>2, <2>3, <2>4, OnlyAsking
  <1>6. ASSUME NEW pc \in {"write", "comments"}, q.op \in Finals => pc = "comments", Plan!Read(k, pc)
        PROVE  PlanInv'
    <2>1. [q EXCEPT !.pc = pc, !.read = Len(revision)]
          = [q EXCEPT !.pc = pc, !.read = Len(revision), !.base = q.base]
        BY DEF Asking
    <2>2. request' = [request EXCEPT ![k].pc = pc, ![k].read = Len(revision), ![k].base = q.base]
        BY <1>1, <1>3, <1>6, <2>1 DEF Plan!Read, Plan!Current
    <2> QED
        BY <1>5, <1>6, <2>2
  <1>7. CASE Plan!ReadForEdit(k)
    <2>1. q.op \notin Finals
        BY <1>1, <1>7 DEF Plan!ReadForEdit, Finals
    <2>2. CASE q.op = "promote"
      <3>1. request' = [request EXCEPT ![k].pc = "write", ![k].read = Len(revision),
                                       ![k].base = Len(revision)]
          BY <1>1, <1>7, <2>2 DEF Plan!ReadForEdit, Plan!Current
      <3> QED
          BY <1>5, <2>1, <3>1
    <2>3. CASE q.op # "promote"
      <3>1. Plan!Read(k, "write")
          BY <1>1, <1>7, <2>3 DEF Plan!ReadForEdit
      <3> QED
          BY <1>6, <2>1, <3>1
    <2> QED
        BY <2>2, <2>3
  <1>8. CASE Plan!ReadForReview(k)
    <2>1. q.op \notin Finals
        BY <1>1, <1>8 DEF Plan!ReadForReview, Plan!At, Finals
    <2>2. Plan!Answer(k, "refused") \/ Plan!Read(k, "write")
        BY <1>8 DEF Plan!ReadForReview
    <2> QED
        BY <1>4, <1>6, <2>1, <2>2 DEF Answers
  <1>9. CASE Plan!ReadForFinal(k)
    <2>1. Plan!Answer(k, "refused") \/ Plan!Read(k, "comments")
        BY <1>9 DEF Plan!ReadForFinal
    <2> QED
        BY <1>4, <1>6, <2>1 DEF Answers
  <1>10. CASE Plan!ReadComments(k)
    <2>1. q.pc = "comments" /\ q.op \in Finals /\ q.read \in 1..Len(revision) /\ q.base <= q.read
        BY <1>1, <1>3, <1>10 DEF Plan!ReadComments, Finals, AskOK, Underway
    <2> DEFINE ready == Plan!Ready(q.op = "finalizeWeb",
                          Plan!Completed(q.op = "finalizeWeb", revision[q.read].content, q.arg),
                          Plan!OpenComments)
    <2>2. IF ready THEN Plan!Go(k, "write") ELSE Plan!Answer(k, "plan_not_ready")
        BY <1>1, <1>10 DEF Plan!ReadComments, Plan!ByWeb, Plan!ContentRead
    <2>3. CASE ready
      <3>1. Plan!OpenComments = {}
          BY <2>3 DEF Plan!Ready
      <3>2. Plan!Ready(q.op = "finalizeWeb",
              Plan!Completed(q.op = "finalizeWeb", revision[q.read].content, q.arg), {})
          BY <2>3, <3>1, Zenon
      <3>3. PICK p : p = [q EXCEPT !.pc = "write"]
          OBVIOUS
      <3>4. /\ p \in Asking /\ p.pc = "write" /\ p.base = q.base /\ p.read = q.read
            /\ p.op = q.op /\ p.arg = q.arg /\ p.since = q.since
          BY <3>3 DEF Asking, Places
      <3>5. request' = [request EXCEPT ![k] = p]
          BY <1>1, <1>3, <2>2, <2>3, <3>3 DEF Plan!Go
      <3>6. Underway(p, Len(revision), Plan!OpenComments)
          BY <1>3, <2>1, <3>4 DEF Underway, ArgOK
      <3>7. AboutToFinalize(p, revision)
        <4>1. p.since = {}
            BY <1>3, <3>1, <3>4
        <4>2. Plan!Ready(p.op = "finalizeWeb",
                Plan!Completed(p.op = "finalizeWeb", revision[p.read].content, p.arg), {})
            BY <3>2, <3>4, Zenon
        <4> QED
            BY <4>1, <4>2, Zenon DEF AboutToFinalize
      <3> QED
          BY <1>2, <3>4, <3>5, <3>6, <3>7, OnlyAsking DEF AskOK
    <2>4. CASE ~ready
      <3>1. Plan!Answer(k, "plan_not_ready")
          BY <2>2, <2>4, Zenon
      <3> QED
          BY <1>4, <3>1 DEF Answers
    <2> QED
        BY <2>3, <2>4
  <1>11. CASE Plan!Crash(k)
      BY <1>4, <1>11 DEF Plan!Crash, Answers
  <1> QED
      BY <1>7, <1>8, <1>9, <1>10, <1>11

(* Requests name a version that there is.                                  *)
LEMMA ArriveSteps ==
    ASSUME ContentsGiven, PlanInv, NEW k \in Requests, NEW base \in 1..Len(revision),
           \/ \E s \in Plan!Sections, f \in Edited : Plan!Arrive(k, "section", base, <<s, f>>)
           \/ Plan!Arrive(k, "question", base, Plan!None)
           \/ \E status \in {"proposed", "accepted"} : Plan!Arrive(k, "decide", base, status)
           \/ \E content \in Starts : Plan!Arrive(k, "put", base, content)
           \/ Plan!Arrive(k, "promote", base, Plan!None)
           \/ \E arg \in {"comments", "round", "edit", "decide"} :
                Plan!Arrive(k, "review", base, arg)
           \/ \E op \in Finals, given \in BOOLEAN : Plan!Arrive(k, op, base, given)
           \/ \E packet \in 1..Len(revision) :
                \/ \E next \in Plan!Steps : Plan!Transition(k, base, packet, next)
                \/ Plan!PanelDecides(k, base, packet)
                \/ Plan!PanelFinalizes(k, base, packet)
    PROVE  PlanInv'
  <1>1. /\ request \in [Requests -> Asking] /\ revision \in Seq(Version)
        /\ Len(revision) \in Nat \ {0} /\ Plan!OpenComments \subseteq Comments
      BY DEF PlanInv, PlanTypes, Plan!OpenComments
  <1>2. ASSUME NEW op \in PlanOps, NEW arg \in Args, UNCHANGED <<revision, comment>>,
               op = "section" => arg \in Plan!Sections \X Plan!Fillings,
               op = "decide" => arg \in DecisionWords, op = "put" => arg \in PlanContent,
               request' = [request EXCEPT ![k] = [Plan!Idle EXCEPT !.op = op, !.pc = "read",
                             !.base = base, !.arg = arg, !.since = Plan!OpenComments]]
        PROVE  PlanInv'
    <2>1. PICK p : p = [Plan!Idle EXCEPT !.op = op, !.pc = "read", !.base = base, !.arg = arg,
                                         !.since = Plan!OpenComments]
        OBVIOUS
    <2>2. /\ p \in Asking /\ p.pc = "read" /\ p.base = base /\ p.op = op /\ p.arg = arg
          /\ p.since = Plan!OpenComments
      <3>1. Plan!Idle \in Asking
        <4>1. Plan!None \in Args
            BY DEF Args
        <4> QED
            BY <4>1 DEF Plan!Idle, Asking, Places, Answers
      <3>2. PICK o \in PlanOps \cup {Plan!None} : o = op
          BY <1>2
      <3>3. PICK n \in Nat : n = base
          BY <1>1
      <3>4. PICK open \in SUBSET Comments : open = Plan!OpenComments
          BY <1>1
      <3>5. PICK x \in Asking : x = Plan!Idle
          BY <3>1
      <3>6. p = [x EXCEPT !.op = o, !.pc = "read", !.base = n, !.arg = arg, !.since = open]
          BY <2>1, <3>2, <3>3, <3>4, <3>5
      <3>7. p \in Asking
          BY <3>6 DEF Asking, Places
      <3>8. p.pc = "read" /\ p.base = n /\ p.op = o /\ p.arg = arg /\ p.since = open
          BY <3>6 DEF Asking
      <3> QED
          BY <3>2, <3>3, <3>4, <3>7, <3>8
    <2>3. AskOK(p, revision, Plan!OpenComments)
        BY <1>2, <2>2 DEF AskOK, Underway, AboutToFinalize, ArgOK
    <2> QED
        BY <1>2, <2>1, <2>2, <2>3, OnlyAsking
  <1>3. ASSUME NEW op \in PlanOps, NEW arg \in Args, Plan!Arrive(k, op, base, arg),
               op = "section" => arg \in Plan!Sections \X Plan!Fillings,
               op = "decide" => arg \in DecisionWords, op = "put" => arg \in PlanContent
        PROVE  PlanInv'
      BY <1>2, <1>3 DEF Plan!Arrive
  <1>4. ASSUME NEW packet \in 1..Len(revision), NEW next \in Plan!Steps,
               Plan!Transition(k, base, packet, next)
        PROVE  PlanInv'
    <2>1. PICK c \in PlanContent : c = revision[base].content
      <3>1. revision[base] \in Version
          BY <1>1
      <3> QED
          BY <3>1 DEF Version
    <2>2. PICK shown \in PlanContent : shown = revision[packet].content
      <3>1. revision[packet] \in Version
          BY <1>1
      <3> QED
          BY <3>1 DEF Version
    <2>3. PICK n \in Nat : n = Plan!ReviewRoundAfter(shown.step, next, shown.round)
        BY DEF PlanContent, Plan!ReviewRoundAfter
    <2>4. PICK arg \in PlanContent :
            arg = IF c.step = Plan!None THEN c ELSE [c EXCEPT !.step = next, !.round = n]
        BY ContentsStay DEF ContentsGiven
    <2>5. request' = [request EXCEPT ![k] = [Plan!Idle EXCEPT !.op = "put", !.pc = "read",
                        !.base = base, !.since = Plan!OpenComments, !.arg = arg]]
        BY <1>4, <2>1, <2>2, <2>3, <2>4 DEF Plan!Transition
    <2>6. request' = [request EXCEPT ![k] = [Plan!Idle EXCEPT !.op = "put", !.pc = "read",
                        !.base = base, !.arg = arg, !.since = Plan!OpenComments]]
      <3>1. [Plan!Idle EXCEPT !.op = "put", !.pc = "read", !.base = base,
                              !.since = Plan!OpenComments, !.arg = arg]
            = [Plan!Idle EXCEPT !.op = "put", !.pc = "read", !.base = base, !.arg = arg,
                                !.since = Plan!OpenComments]
          BY DEF Plan!Idle
      <3> QED
          BY <2>5, <3>1
    <2>7. UNCHANGED <<revision, comment>>
        BY <1>4 DEF Plan!Transition
    <2> QED
        BY <1>2, <2>6, <2>7 DEF Args, PlanOps
  <1>5. ASSUME NEW s \in Plan!Sections, NEW f \in Edited, Plan!Arrive(k, "section", base, <<s, f>>)
        PROVE  PlanInv'
    <2>1. <<s, f>> \in Plan!Sections \X Plan!Fillings
        BY DEF ContentsGiven
    <2> QED
        BY <1>3, <1>5, <2>1 DEF Args, PlanOps
  <1>6. CASE Plan!Arrive(k, "question", base, Plan!None) \/ Plan!Arrive(k, "promote", base, Plan!None)
      BY <1>3, <1>6 DEF Args, PlanOps
  <1>7. ASSUME NEW status \in {"proposed", "accepted"}, Plan!Arrive(k, "decide", base, status)
        PROVE  PlanInv'
      BY <1>3, <1>7 DEF Args, PlanOps, ContentsGiven
  <1>8. ASSUME NEW content \in Starts, Plan!Arrive(k, "put", base, content)
        PROVE  PlanInv'
      BY <1>3, <1>8 DEF Args, PlanOps, ContentsGiven
  <1>9. ASSUME NEW arg \in {"comments", "round", "edit", "decide"},
               Plan!Arrive(k, "review", base, arg)
        PROVE  PlanInv'
      BY <1>3, <1>9 DEF Args, PlanOps
  <1>10. ASSUME NEW op \in Finals, NEW given \in BOOLEAN, Plan!Arrive(k, op, base, given)
         PROVE  PlanInv'
      BY <1>3, <1>10 DEF Args, PlanOps, Finals
  <1>11. ASSUME NEW packet \in 1..Len(revision),
                Plan!PanelDecides(k, base, packet) \/ Plan!PanelFinalizes(k, base, packet)
         PROVE  PlanInv'
    <2>1. Plan!Arrive(k, "decide", base, "accepted") \/ Plan!Arrive(k, "finalizeWeb", base, FALSE)
        BY <1>11 DEF Plan!PanelDecides, Plan!PanelFinalizes
    <2> QED
        BY <1>7, <1>10, <2>1 DEF Finals
  <1> QED
      BY <1>4, <1>5, <1>6, <1>7, <1>8, <1>9, <1>10, <1>11

(* Comments come and go.  One that is closed has not been open all along.  *)
LEMMA CommentSteps ==
    ASSUME PlanInv, NEW c \in Comments,
           \/ \E k \in Requests : Plan!ReviewComment(k, c)
           \/ Plan!CreateComment(c) \/ Plan!CloseComment(c)
    PROVE  PlanInv'
  <1>1. /\ request \in [Requests -> Asking] /\ comment \in [Comments -> {"none", "open", "closed"}]
        /\ UNCHANGED revision
      BY DEF PlanInv, PlanTypes, Plan!ReviewComment, Plan!CreateComment, Plan!CloseComment
  <1>2. ASSUME NEW q \in Asking, NEW open, AskOK(q, revision, Plan!OpenComments),
               q.since \subseteq open
        PROVE  AskOK(q, revision, open)
      BY <1>2 DEF AskOK, Underway
  <1>3. ASSUME comment' = [comment EXCEPT ![c] = "open"]
        PROVE  Plan!OpenComments \subseteq Plan!OpenComments'
      BY <1>1, <1>3 DEF Plan!OpenComments
  <1>4. CASE Plan!CreateComment(c)
    <2>1. comment' = [comment EXCEPT ![c] = "open"] /\ UNCHANGED request
        BY <1>4 DEF Plan!CreateComment
    <2>2. \A k \in Requests : AskOK(request'[k], revision, Plan!OpenComments')
        BY <1>1, <1>3, <2>1 DEF PlanInv, AskOK, Underway
    <2>3. PlanTypes'
        BY <1>1, <2>1 DEF PlanInv, PlanTypes
    <2> QED
        BY <1>1, <2>2, <2>3 DEF PlanInv
  <1>5. ASSUME NEW k \in Requests, Plan!ReviewComment(k, c)
        PROVE  PlanInv'
    <2>1. PICK q \in Asking : q = request[k]
        BY <1>1
    <2>2. q.pc = "comment" /\ q.op = "review" /\ comment' = [comment EXCEPT ![c] = "open"]
        BY <1>5, <2>1 DEF Plan!ReviewComment, Plan!At
    <2>3. PICK p : /\ p \in {[q EXCEPT !.pc = "done", !.answer = "ok"], [q EXCEPT !.pc = "comment"]}
                   /\ request' = [request EXCEPT ![k] = p]
      <3>1. CASE Plan!Answer(k, "ok")
          BY <1>1, <2>1, <3>1 DEF Plan!Answer
      <3>2. CASE Plan!Go(k, "comment")
          BY <1>1, <2>1, <3>2 DEF Plan!Go
      <3> QED
          BY <1>5, <3>1, <3>2 DEF Plan!ReviewComment
    <2>4. /\ p \in Asking /\ p.pc \in {"done", "comment"} /\ p.base = q.base /\ p.op = q.op
          /\ p.arg = q.arg /\ p.since = q.since
        BY <2>2, <2>3 DEF Asking, Places, Answers
    <2>5. AskOK(q, revision, Plan!OpenComments)
        BY <2>1 DEF PlanInv
    <2>6. AskOK(p, revision, Plan!OpenComments')
        BY <1>3, <2>2, <2>4, <2>5 DEF AskOK, Underway, AboutToFinalize, ArgOK
    <2>7. \A t \in Requests : AskOK(request'[t], revision, Plan!OpenComments')
        BY <1>1, <1>3, <2>2, <2>3, <2>6 DEF PlanInv, AskOK, Underway
    <2>8. PlanTypes'
        BY <1>1, <2>2, <2>3, <2>4 DEF PlanInv, PlanTypes
    <2> QED
        BY <1>1, <2>7, <2>8 DEF PlanInv
  <1>6. CASE Plan!CloseComment(c)
    <2>1. /\ comment' = [comment EXCEPT ![c] = "closed"]
          /\ request' = [k \in Requests |-> IF request[k].pc = "done" THEN request[k]
                                            ELSE [request[k] EXCEPT !.since = @ \ {c}]]
        BY <1>6 DEF Plan!CloseComment
    <2>2. Plan!OpenComments \ {c} \subseteq Plan!OpenComments'
        BY <1>1, <2>1 DEF Plan!OpenComments
    <2>3. ASSUME NEW k \in Requests
          PROVE  request'[k] \in Asking /\ AskOK(request'[k], revision, Plan!OpenComments')
      <3>1. PICK q \in Asking : q = request[k] /\ AskOK(q, revision, Plan!OpenComments)
          BY <1>1 DEF PlanInv
      <3>2. CASE q.pc = "done"
        <4>1. request'[k] = q
            BY <2>1, <3>1, <3>2
        <4> QED
            BY <3>1, <3>2, <4>1 DEF AskOK, Underway, AboutToFinalize
      <3>3. CASE q.pc # "done"
        <4>1. PICK p : p = [q EXCEPT !.since = @ \ {c}]
            OBVIOUS
        <4>2. /\ p \in Asking /\ p.pc = q.pc /\ p.base = q.base /\ p.read = q.read /\ p.op = q.op
              /\ p.arg = q.arg /\ p.since = q.since \ {c}
            BY <4>1 DEF Asking
        <4>3. request'[k] = p
            BY <2>1, <3>1, <3>3, <4>1
        <4>4. Underway(p, Len(revision), Plan!OpenComments')
            BY <2>2, <3>1, <4>2 DEF AskOK, Underway, ArgOK
        <4>5. AboutToFinalize(p, revision)
            BY <3>1, <4>2 DEF AskOK, AboutToFinalize
        <4> QED
            BY <4>2, <4>3, <4>4, <4>5 DEF AskOK
      <3> QED
          BY <3>2, <3>3
    <2>4. PlanTypes'
        BY <1>1, <2>1, <2>3 DEF PlanInv, PlanTypes
    <2> QED
        BY <1>1, <2>3, <2>4 DEF PlanInv
  <1> QED
      BY <1>4, <1>5, <1>6

LEMMA StepPlan ==
    ASSUME ContentsGiven, PlanInv, [Plan!PlanNext]_Plan!planVars
    PROVE  PlanInv'
  <1>1. CASE UNCHANGED Plan!planVars
    <2>1. UNCHANGED <<revision, comment, request>>
        BY <1>1 DEF Plan!planVars
    <2>2. PlanTypes' /\ Plan!OpenComments' = Plan!OpenComments
        BY <2>1 DEF PlanInv, PlanTypes, Plan!OpenComments
    <2> QED
        BY <2>1, <2>2 DEF PlanInv
  <1>2. CASE Plan!PlanNext
      BY <1>2, ArriveSteps, ReadSteps, EditSteps, CommentSteps DEF Plan!PlanNext, Plan!Current, Finals
  <1> QED
      BY <1>1, <1>2

(* What requests for a plan have read and found, in every reachable state. *)
THEOREM PlanInvariant == ASSUME ContentsGiven PROVE Plan!PlanSpec => []PlanInv
  <1>1. Plan!PlanInit => PlanInv
      BY InitPlan
  <1>2. PlanInv /\ [Plan!PlanNext]_Plan!planVars => PlanInv'
      BY StepPlan
  <1> QED
      BY <1>1, <1>2, PTL DEF Plan!PlanSpec

(* A plan that was made final was complete in the version it replaced, and *)
(* no comment was open from before the request until it was final          *)
(* (documents/routes.ts:563).                                              *)
THEOREM FinalPlansAreReady == ASSUME ContentsGiven PROVE Plan!PlanSpec => []Plan!FinalPlansWereReady
  <1>1. PlanInv => Plan!FinalPlansWereReady
      BY DEF PlanInv, FinalFrom, Finals, Plan!FinalPlansWereReady
  <1> QED
      BY <1>1, PlanInvariant, PTL

(***************************************************************************)
(* PublicShares: what is hidden is not shown.                              *)
(***************************************************************************)
FolderRow == [ws : Workspaces, live : BOOLEAN, path : Paths]
DocRow == [ws : Workspaces, folder : Folders, live : BOOLEAN, canonical : BOOLEAN]

Stages == {"switch", "document", "root", "manual", "attachment", "attachmentRoot"}

Replies == {"none", "refused", "ok", "not_found", "password_required", "wrong_password"}

Visitor == [at : Stages \cup {"idle", "create", "revoke", "done"},
            op : Public!VisitKinds \cup {"none", "create", "revoke"},
            user : Users \cup {"none"}, share : Nat, target : Folders \cup Docs \cup {"none"},
            ws : Workspaces \cup {"none"}, path : Paths \cup {<< >>}, shown : SUBSET Docs,
            answer : Replies]

FoldersStay == "transferFolder" \notin Ops

(* As long as folders stay in their workspace, nothing that is live lies   *)
(* under a folder that is not.                                             *)
Gone(folders) ==
    FoldersStay => \A f \in Folders, g \in Folders :
        ~folders[f].live /\ folders[g].live /\ folders[g].ws = folders[f].ws
            => ~Public!Under(folders[g].path, folders[f].path)

(* Documents are in folders of their workspace, links in that of what they *)
(* lead to; those to folders, as long as folders stay in theirs.           *)
InPlace(docs, folders, shares) ==
    /\ \A d \in Docs : folders[docs[d].folder].ws = docs[d].ws
    /\ \A i \in 1..Len(shares) :
          /\ shares[i].target \in Docs => shares[i].ws = docs[shares[i].target].ws
          /\ FoldersStay /\ shares[i].target \in Folders
                => shares[i].ws = folders[shares[i].target].ws

(* The path that a folder's transfer gives what has path q under path p.   *)
Relocated(p, q) == <<Public!Last(p)>> \o SubSeq(q, Len(p) + 1, Len(q))

(* The tree there is at first is sound, and transfers find a path for what *)
(* they take along.  The links to documents stay in place, unless the      *)
(* documents are transferred while links are made to them.                 *)
LinksFollow ==
    /\ "create" \notin Ops \/ ("transfer" \notin Ops /\ FoldersStay)
    /\ FoldersStay \/ \A p \in Paths, q \in Paths : Public!Under(q, p) => Relocated(p, q) \in Paths
    /\ Docs \cap Folders = {} /\ Visitors \subseteq Requests
    /\ Tree \in [Folders -> FolderRow] /\ Placed \in [Docs -> DocRow]
    /\ Given \in Seq(Public!ShareRow) /\ Gone(Tree) /\ InPlace(Placed, Tree, Given)

SharesTypes ==
    /\ folder \in [Folders -> FolderRow] /\ document \in [Docs -> DocRow]
    /\ share \in Seq(Public!ShareRow)
    /\ request \in [Requests -> Visitor]
    /\ bars \in [Requests -> [Docs -> SUBSET Public!Reasons]]

(* The reasons that are not a workspace's switch.                          *)
Words == {"closed", "draft", "outside"}

(* A link that is being made is for what lies in the workspace it was      *)
(* asked for.                                                              *)
Making(q, docs, folders) ==
    q.at = "create" =>
        /\ "create" \in Ops /\ q.target \in Folders \cup Docs /\ q.user \in Users
        /\ q.ws \in Workspaces
        /\ q.target \in Docs => q.ws = docs[q.target].ws
        /\ q.target \in Folders => q.ws = folders[q.target].ws

(* What a visit has seen of the reasons: the link was open when it began,  *)
(* then the switch was on, and the path is the shared folder's.            *)
VisitPosed(q, folders, shares) ==
    /\ q.at # "done" => q.shown = {}
    /\ q.at \in Stages =>
         /\ q.share \in 1..Len(shares) /\ q.op \in Public!VisitKinds /\ q.target \in Docs
         /\ q.ws \in Workspaces
         /\ FoldersStay /\ shares[q.share].target \in Folders
               => q.ws = folders[shares[q.share].target].ws
    /\ q.at = "document" => shares[q.share].target \in Docs
    /\ q.at \in {"root", "manual", "attachmentRoot"} => shares[q.share].target \in Folders
    /\ FoldersStay /\ q.at = "manual" => q.path = folders[shares[q.share].target].path

Elsewhere(q) == Workspaces \ ({q.ws} \cup Words)

VisitSaw(q, b, folders, shares) ==
    /\ \A d \in q.shown : b[d] \subseteq {"outside"} /\ (FoldersStay => b[d] = {})
    /\ q.at \in Stages => \A d \in Docs : "closed" \notin b[d]
    /\ q.at \in Stages /\ shares[q.share].target \in Docs =>
         b[shares[q.share].target] \cap Elsewhere(q) = {}
    /\ q.at \in Stages \ {"switch"} => \A d \in Docs : q.ws \in Words \/ q.ws \notin b[d]
    /\ q.at = "attachmentRoot" =>
         /\ "draft" \notin b[q.target] /\ b[q.target] \cap Elsewhere(q) = {}
         /\ LET f == folders[shares[q.share].target]
            IN  FoldersStay /\ f.live /\ Public!Under(q.path, f.path) => "outside" \notin b[q.target]

VisitOK(q, b, docs, folders, shares) ==
    Making(q, docs, folders) /\ VisitPosed(q, folders, shares) /\ VisitSaw(q, b, folders, shares)

SharesInv ==
    /\ SharesTypes /\ Gone(folder) /\ InPlace(document, folder, share)
    /\ \A r \in Requests : VisitOK(request[r], bars[r], document, folder, share)

LEMMA InitShares == ASSUME LinksFollow, Public!Init PROVE SharesInv
  <1>1. Public!Idle \in Visitor /\ Public!Idle.at = "idle" /\ Public!Idle.shown = {}
      BY DEF Public!Idle, Visitor, Replies
  <1>2. request \in [Requests -> Visitor]
        /\ \A r \in Requests : request[r].at = "idle" /\ request[r].shown = {}
      BY <1>1 DEF Public!Init
  <1>3. SharesTypes
      BY <1>2 DEF Public!Init, SharesTypes, LinksFollow
  <1>4. \A r \in Requests : VisitOK(request[r], bars[r], document, folder, share)
      BY <1>2 DEF VisitOK, Making, VisitPosed, VisitSaw, Stages
  <1> QED
      BY <1>3, <1>4 DEF Public!Init, SharesInv, LinksFollow

(* What Watch makes of the reasons, after a step of the visit.             *)
LEMMA Watching ==
    ASSUME Public!Watch, NEW r \in Requests, NEW p, p = request'[r], p.share # 0,
           p.op \in Public!VisitKinds, request[r].at # "done", NEW d \in Docs
    PROVE  /\ request[r].at # "idle" => bars'[r][d] \subseteq bars[r][d]
           /\ bars'[r][d] \subseteq Public!Reasons
           /\ ~share'[p.share].revoked /\ ~share'[p.share].expired => "closed" \notin bars'[r][d]
           /\ document'[d].live /\ document'[d].canonical => "draft" \notin bars'[r][d]
           /\ \A b \in bars'[r][d] \ Words : document'[d].ws = b /\ ~sharing'[b]
           /\ LET x == share'[p.share].target
              IN  (IF x \in Docs THEN d = x
                   ELSE folder'[x].live /\ folder'[x].ws = document'[d].ws
                        /\ Public!Under(folder'[document'[d].folder].path, folder'[x].path))
                  => "outside" \notin bars'[r][d]
  <1> DEFINE Now == {b \in Public!Reasons :
                       CASE b = "closed" -> ~(~share'[p.share].revoked /\ ~share'[p.share].expired)
                         [] b = "draft" -> ~(document'[d].live /\ document'[d].canonical)
                         [] b = "outside" ->
                              ~(LET x == share'[p.share].target
                                IN  IF x \in Docs THEN d = x
                                    ELSE folder'[x].live /\ folder'[x].ws = document'[d].ws
                                         /\ Public!Under(folder'[document'[d].folder].path,
                                                         folder'[x].path))
                         [] OTHER -> document'[d].ws = b /\ ~sharing'[b]}
  <1>1. bars'[r][d] = IF request[r].at = "idle" THEN Now ELSE bars[r][d] \cap Now
      BY DEF Public!Watch, Public!Visiting, Public!VisitBars, Public!Bars, Public!Open,
             Public!Canonical, Public!WithinTarget, Public!Under
  <1>2. /\ Now \subseteq Public!Reasons
        /\ ~share'[p.share].revoked /\ ~share'[p.share].expired => "closed" \notin Now
        /\ document'[d].live /\ document'[d].canonical => "draft" \notin Now
        /\ \A b \in Now \ Words : document'[d].ws = b /\ ~sharing'[b]
      BY DEF Words
  <1>3. LET x == share'[p.share].target
        IN  (IF x \in Docs THEN d = x
             ELSE folder'[x].live /\ folder'[x].ws = document'[d].ws
                  /\ Public!Under(folder'[document'[d].folder].path, folder'[x].path))
            => "outside" \notin Now
      OBVIOUS
  <1> HIDE DEF Now
  <1> QED
      BY <1>1, <1>2, <1>3

LEMMA BarsStay ==
    ASSUME SharesInv, Public!Watch
    PROVE  bars' \in [Requests -> [Docs -> SUBSET Public!Reasons]]
  <1>1. ASSUME NEW t \in Requests
        PROVE  bars'[t] \in [Docs -> SUBSET Public!Reasons]
    <2>1. bars[t] \in [Docs -> SUBSET Public!Reasons]
        BY DEF SharesInv, SharesTypes
    <2>2. bars'[t] \in {bars[t], [d \in Docs |-> bars[t][d] \cap Public!VisitBars(t)'[d]],
                        Public!VisitBars(t)'}
        BY DEF Public!Watch
    <2>3. Public!VisitBars(t)' \in [Docs -> SUBSET Public!Reasons]
        BY DEF Public!VisitBars, Public!Bars
    <2> QED
        BY <2>1, <2>2, <2>3
  <1>2. bars' = [t \in Requests |-> bars'[t]]
      BY DEF Public!Watch
  <1> QED
      BY <1>1, <1>2

(* Requests that a step leaves alone remember less, and what they have     *)
(* found out stays: folders keep their place and do not come back.         *)
LEMMA WatchedOn ==
    ASSUME LinksFollow, SharesInv, Public!Watch,
           NEW r \in Requests, request'[r] = request[r],
           Len(share') \in Nat, Len(share) <= Len(share'),
           \A i \in 1..Len(share) : share'[i].target = share[i].target,
           FoldersStay => \A f \in Folders :
              /\ folder'[f].ws = folder[f].ws /\ folder'[f].path = folder[f].path
              /\ folder'[f].live => folder[f].live,
           request[r].at = "create" => \A d \in Docs : document'[d].ws = document[d].ws
    PROVE  VisitOK(request[r], bars'[r], document', folder', share')
  <1>1. PICK q \in Visitor : q = request[r]
      BY DEF SharesInv, SharesTypes
  <1>2. VisitOK(q, bars[r], document, folder, share) /\ Len(share) \in Nat
      BY <1>1 DEF SharesInv, SharesTypes
  <1>3. Making(q, document', folder')
    <2>1. q.at = "create" => FoldersStay
        BY <1>2 DEF VisitOK, Making, LinksFollow
    <2> QED
        BY <1>1, <1>2, <2>1 DEF VisitOK, Making
  <1>4. ASSUME q.at \in Stages, share[q.share].target \in Folders \cup Docs
        PROVE  /\ q.share \in 1..Len(share) /\ q.share \in 1..Len(share')
               /\ share'[q.share].target = share[q.share].target
      BY <1>2, <1>4 DEF VisitOK, VisitPosed
  <1>5. \A i \in 1..Len(share) : share[i].target \in Folders \cup Docs
    <2>1. \A i \in 1..Len(share) : share[i] \in Public!ShareRow
        BY DEF SharesInv, SharesTypes
    <2> QED
        BY <2>1 DEF Public!ShareRow
  <1>6. q.at \in Stages => /\ q.share \in 1..Len(share) /\ q.share \in 1..Len(share')
                           /\ share'[q.share].target = share[q.share].target
      BY <1>2, <1>4, <1>5 DEF VisitOK, VisitPosed
  <1>7. VisitPosed(q, folder', share')
      BY <1>2, <1>6 DEF VisitOK, VisitPosed, Stages
  <1>8. /\ q.at = "done" => bars'[r] = bars[r]
        /\ q.at \in Stages => \A d \in Docs : bars'[r][d] \subseteq bars[r][d]
    <2>1. q.at = "done" => bars'[r] = bars[r]
        BY <1>1 DEF Public!Watch
    <2>2. ASSUME q.at \in Stages, NEW d \in Docs
          PROVE  bars'[r][d] \subseteq bars[r][d]
      <3>1. q.at \notin {"idle", "done"} /\ q.share # 0 /\ q.op \in Public!VisitKinds
          BY <1>2, <2>2 DEF VisitOK, VisitPosed, Stages
      <3> QED
          BY <1>1, <3>1, Watching
    <2> QED
        BY <2>1, <2>2
  <1>9. VisitSaw(q, bars'[r], folder', share')
    <2>1. CASE q.at \in Stages
      <3>1. q.at # "done" /\ q.shown = {} /\ q.target \in Docs
            /\ share[q.share].target \in Folders \cup Docs
          BY <1>2, <1>5, <2>1 DEF VisitOK, VisitPosed, Stages
      <3>2. \A d \in Docs : bars'[r][d] \subseteq bars[r][d]
          BY <1>8, <2>1
      <3>3. q.at = "attachmentRoot" => share[q.share].target \in Folders
          BY <1>2 DEF VisitOK, VisitPosed
      <3>4. VisitSaw(q, bars[r], folder, share)
          BY <1>2 DEF VisitOK
      <3>5. \A d \in Docs : "closed" \notin bars'[r][d]
          BY <2>1, <3>2, <3>4 DEF VisitSaw
      <3>6. share'[q.share].target \in Docs =>
              bars'[r][share'[q.share].target] \cap Elsewhere(q) = {}
          BY <1>6, <2>1, <3>2, <3>4 DEF VisitSaw
      <3>7. q.at # "switch" => \A d \in Docs : q.ws \in Words \/ q.ws \notin bars'[r][d]
          BY <2>1, <3>2, <3>4 DEF VisitSaw
      <3>8. ASSUME q.at = "attachmentRoot"
            PROVE  /\ "draft" \notin bars'[r][q.target]
                   /\ bars'[r][q.target] \cap Elsewhere(q) = {}
                   /\ LET f == folder'[share'[q.share].target]
                      IN  FoldersStay /\ f.live /\ Public!Under(q.path, f.path) =>
                            "outside" \notin bars'[r][q.target]
        <4>1. bars'[r][q.target] \subseteq bars[r][q.target]
            BY <3>1, <3>2
        <4>2. /\ "draft" \notin bars[r][q.target] /\ bars[r][q.target] \cap Elsewhere(q) = {}
              /\ LET f == folder[share[q.share].target]
                 IN  FoldersStay /\ f.live /\ Public!Under(q.path, f.path)
                       => "outside" \notin bars[r][q.target]
            BY <3>4, <3>8 DEF VisitSaw
        <4>3. PICK x \in Folders : x = share[q.share].target /\ x = share'[q.share].target
            BY <1>6, <2>1, <3>3, <3>8
        <4>4. FoldersStay => folder'[x].path = folder[x].path /\ (folder'[x].live => folder[x].live)
            OBVIOUS
        <4> QED
            BY <4>1, <4>2, <4>3, <4>4
      <3> QED
          BY <2>1, <3>1, <3>5, <3>6, <3>7, <3>8 DEF VisitSaw
    <2>2. CASE q.at \notin Stages
      <3>1. q.at = "done" \/ q.shown = {}
          BY <1>2 DEF VisitOK, VisitPosed
      <3> QED
          BY <1>2, <1>8, <2>2, <3>1 DEF VisitOK, VisitSaw, Stages
    <2> QED
        BY <2>1, <2>2
  <1> QED
      BY <1>1, <1>3, <1>7, <1>9 DEF VisitOK

(* A request that goes on while nothing else happens.                      *)
LEMMA OnlyVisiting ==
    ASSUME LinksFollow, SharesInv, Public!Watch, NEW r \in Requests, NEW p \in Visitor,
           request' = [request EXCEPT ![r] = p], UNCHANGED Public!env, UNCHANGED share,
           VisitOK(p, bars'[r], document, folder, share)
    PROVE  SharesInv'
  <1>1. /\ UNCHANGED <<folder, document, sharing, role, share>>
        /\ request \in [Requests -> Visitor] /\ Len(share) \in Nat
      BY DEF Public!env, SharesInv, SharesTypes
  <1>2. \A t \in Requests : VisitOK(request'[t], bars'[t], document', folder', share')
    <2>1. ASSUME NEW t \in Requests, t # r
          PROVE  VisitOK(request'[t], bars'[t], document', folder', share')
      <3>1. request'[t] = request[t]
          BY <1>1, <2>1
      <3> QED
          BY <1>1, <3>1, WatchedOn
    <2>2. VisitOK(request'[r], bars'[r], document', folder', share')
        BY <1>1
    <2> QED
        BY <2>1, <2>2
  <1>3. bars' \in [Requests -> [Docs -> SUBSET Public!Reasons]]
      BY BarsStay
  <1>4. SharesTypes'
      BY <1>1, <1>3 DEF SharesInv, SharesTypes
  <1> QED
      BY <1>1, <1>2, <1>4 DEF SharesInv

(* What a step of a visit does to the reasons it remembers, when nothing   *)
(* else happens.                                                           *)
LEMMA VisitWatched ==
    ASSUME LinksFollow, SharesInv, Public!Watch, NEW r \in Requests, NEW p \in Visitor,
           request' = [request EXCEPT ![r] = p], UNCHANGED Public!env, UNCHANGED share,
           p.share \in 1..Len(share), p.op \in Public!VisitKinds, request[r].at # "done",
           NEW d \in Docs
    PROVE  /\ request[r].at # "idle" => bars'[r][d] \subseteq bars[r][d]
           /\ bars'[r][d] \subseteq Public!Reasons
           /\ Public!Open(share[p.share]) => "closed" \notin bars'[r][d]
           /\ Public!Canonical(d) => "draft" \notin bars'[r][d]
           /\ \A b \in bars'[r][d] \ Words : document[d].ws = b /\ ~sharing[b]
           /\ LET x == share[p.share].target
              IN  (IF x \in Docs THEN d = x
                   ELSE folder[x].live /\ folder[x].ws = document[d].ws
                        /\ Public!Under(folder[document[d].folder].path, folder[x].path))
                  => "outside" \notin bars'[r][d]
  <1>1. /\ UNCHANGED <<folder, document, sharing, share>> /\ p = request'[r]
        /\ p.share # 0
      BY DEF Public!env, SharesInv, SharesTypes
  <1> QED
      BY <1>1, Watching DEF Public!Open, Public!Canonical

(* The first read of a visit: the link's row.                              *)
LEMMA VisitStep ==
    ASSUME LinksFollow, SharesInv, Public!Watch, NEW r \in Requests,
           NEW kind \in Public!VisitKinds, NEW i \in 1..Len(share), NEW d \in Docs,
           Public!Visit(r, kind, i, d)
    PROVE  SharesInv'
  <1>1. /\ UNCHANGED Public!env /\ UNCHANGED share /\ request[r].at = "idle"
        /\ request \in [Requests -> Visitor] /\ share[i] \in Public!ShareRow
      BY DEF Public!Visit, Public!At, SharesInv, SharesTypes
  <1>2. PICK at \in {"switch", "done"} :
            at = IF Public!Open(share[i]) THEN "switch" ELSE "done"
      OBVIOUS
  <1>3. PICK p : p = [Public!Idle EXCEPT !.op = kind, !.share = i, !.target = d,
                        !.ws = share[i].ws, !.at = at, !.answer = "not_found"]
      OBVIOUS
  <1>4. PICK w \in Workspaces : w = share[i].ws
      BY <1>1 DEF Public!ShareRow
  <1>5. /\ p \in Visitor /\ p.op = kind /\ p.share = i /\ p.target = d /\ p.ws = w
        /\ p.at = at /\ p.shown = {}
    <2>1. PICK x \in Visitor : x = Public!Idle /\ x.shown = {}
      <3>1. Public!Idle \in Visitor /\ Public!Idle.shown = {}
          BY DEF Public!Idle, Visitor, Replies
      <3> QED
          BY <3>1
    <2>2. /\ kind \in Public!VisitKinds \cup {"none", "create", "revoke"}
          /\ d \in Folders \cup Docs \cup {"none"}
          /\ w \in Workspaces \cup {"none"} /\ at \in Stages \cup {"idle", "create", "revoke", "done"}
          /\ "not_found" \in Replies
        BY <1>1 DEF Stages, SharesInv, SharesTypes, Replies
    <2>5. PICK n \in Nat : n = i
        OBVIOUS
    <2>3. p = [x EXCEPT !.op = kind, !.share = n, !.target = d, !.ws = w, !.at = at,
                        !.answer = "not_found"]
        BY <1>3, <1>4, <2>1, <2>5
    <2>4. p \in Visitor
        BY <2>2, <2>3 DEF Visitor
    <2> QED
        BY <2>1, <2>3, <2>4, <2>5 DEF Visitor
  <1>6. request' = [request EXCEPT ![r] = p]
      BY <1>2, <1>3 DEF Public!Visit
  <1>7. VisitPosed(p, folder, share) /\ Making(p, document, folder)
      BY <1>4, <1>5 DEF VisitPosed, Making, SharesInv, InPlace, Stages
  <1>8. VisitSaw(p, bars'[r], folder, share)
    <2>1. CASE at = "done"
        BY <1>5, <2>1 DEF VisitSaw, Stages
    <2>2. CASE at = "switch"
      <3>1. \A e \in Docs : "closed" \notin bars'[r][e]
          BY <1>1, <1>2, <1>5, <1>6, <2>2, VisitWatched
      <3>2. ASSUME share[i].target \in Docs
            PROVE  bars'[r][share[i].target] \cap Elsewhere(p) = {}
        <4>1. PICK e \in Docs : e = share[i].target
            BY <3>2
        <4>2. document[e].ws = w
            BY <1>4, <4>1 DEF SharesInv, InPlace
        <4>3. ASSUME NEW b \in bars'[r][e] \ Words
              PROVE  document[e].ws = b
          <5>1. p.share \in 1..Len(share) /\ p.op \in Public!VisitKinds /\ request[r].at # "done"
              BY <1>1, <1>5
          <5>2. p \in Visitor /\ request' = [request EXCEPT ![r] = p]
              BY <1>5, <1>6
          <5>3. \A c \in bars'[r][e] \ Words : document[e].ws = c /\ ~sharing[c]
              BY <1>1, <5>1, <5>2, VisitWatched
          <5> QED
              BY <4>3, <5>3
        <4> QED
            BY <1>5, <4>1, <4>2, <4>3 DEF Elsewhere
      <3> QED
          BY <1>5, <2>2, <3>1, <3>2 DEF VisitSaw
    <2> QED
        BY <2>1, <2>2
  <1> QED
      BY <1>1, <1>5, <1>6, <1>7, <1>8, OnlyVisiting DEF VisitOK

(* A visit that is refused shows nothing.                                  *)
LEMMA Refused ==
    ASSUME LinksFollow, SharesInv, Public!Watch, NEW r \in Requests, NEW answer \in Replies,
           request[r].at # "done",
           Public!Answer(r, answer), UNCHANGED Public!env, UNCHANGED share
    PROVE  SharesInv'
  <1>1. PICK q \in Visitor : q = request[r] /\ q.shown = {}
    <2>1. request[r] \in Visitor /\ VisitOK(request[r], bars[r], document, folder, share)
        BY DEF SharesInv, SharesTypes
    <2> QED
        BY <2>1 DEF VisitOK, VisitPosed
  <1>2. PICK p : p = [q EXCEPT !.at = "done", !.answer = answer]
      OBVIOUS
  <1>3. p \in Visitor /\ p.at = "done" /\ p.shown = {}
      BY <1>1, <1>2 DEF Visitor
  <1>4. request' = [request EXCEPT ![r] = p]
      BY <1>1, <1>2 DEF Public!Answer, SharesInv, SharesTypes
  <1>5. VisitOK(p, bars'[r], document, folder, share)
      BY <1>3 DEF VisitOK, Making, VisitPosed, VisitSaw, Stages
  <1> QED
      BY <1>3, <1>4, <1>5, OnlyVisiting

(* A visit shows what nothing keeps hidden.                                *)
LEMMA Showing ==
    ASSUME LinksFollow, SharesInv, Public!Watch, NEW r \in Requests, NEW docs \in SUBSET Docs,
           request[r].at # "done",
           \A d \in docs : bars'[r][d] \subseteq {"outside"} /\ (FoldersStay => bars'[r][d] = {}),
           Public!Show(r, docs), UNCHANGED Public!env, UNCHANGED share
    PROVE  SharesInv'
  <1>1. PICK q \in Visitor : q = request[r]
      BY DEF SharesInv, SharesTypes
  <1>2. PICK p : p = [q EXCEPT !.at = "done", !.answer = "ok", !.shown = docs]
      OBVIOUS
  <1>3. p \in Visitor /\ p.at = "done" /\ p.shown = docs
    <2>1. "ok" \in Replies
        BY DEF Replies
    <2> QED
        BY <1>2, <2>1 DEF Visitor
  <1>4. request' = [request EXCEPT ![r] = p]
      BY <1>1, <1>2 DEF Public!Show, SharesInv, SharesTypes
  <1>5. VisitOK(p, bars'[r], document, folder, share)
      BY <1>3 DEF VisitOK, Making, VisitPosed, VisitSaw, Stages
  <1> QED
      BY <1>3, <1>4, <1>5, OnlyVisiting

(* What a document has to be to lie within what a link leads to.           *)
Within(d, x) ==
    IF x \in Docs THEN d = x
    ELSE folder[x].live /\ folder[x].ws = document[d].ws
         /\ Public!Under(folder[document[d].folder].path, folder[x].path)

(* The reasons a visit remembers as it goes on.                            *)
LEMMA VisitSees ==
    ASSUME LinksFollow, SharesInv, Public!Watch, NEW r \in Requests, NEW p \in Visitor,
           NEW q \in Visitor, q = request[r], q.at \in Stages, p.share = q.share, p.op = q.op,
           request' = [request EXCEPT ![r] = p], UNCHANGED Public!env, UNCHANGED share,
           NEW d \in Docs
    PROVE  /\ bars'[r][d] \subseteq bars[r][d]
           /\ bars'[r][d] \subseteq Public!Reasons
           /\ "closed" \notin bars'[r][d]
           /\ Public!Canonical(d) => "draft" \notin bars'[r][d]
           /\ \A b \in bars'[r][d] \ Words : document[d].ws = b /\ ~sharing[b]
           /\ Within(d, share[q.share].target) => "outside" \notin bars'[r][d]
  <1>1. VisitOK(q, bars[r], document, folder, share)
      BY DEF SharesInv
  <1>2. /\ p.share \in 1..Len(share) /\ p.op \in Public!VisitKinds
        /\ request[r].at # "done" /\ request[r].at # "idle" /\ "closed" \notin bars[r][d]
      BY <1>1 DEF VisitOK, VisitPosed, VisitSaw, Stages
  <1>3. /\ request[r].at # "idle" => bars'[r][d] \subseteq bars[r][d]
        /\ bars'[r][d] \subseteq Public!Reasons
        /\ Public!Canonical(d) => "draft" \notin bars'[r][d]
        /\ \A b \in bars'[r][d] \ Words : document[d].ws = b /\ ~sharing[b]
        /\ LET x == share[p.share].target
           IN  (IF x \in Docs THEN d = x
                ELSE folder[x].live /\ folder[x].ws = document[d].ws
                     /\ Public!Under(folder[document[d].folder].path, folder[x].path))
               => "outside" \notin bars'[r][d]
      BY <1>2, VisitWatched
  <1>4. Within(d, share[q.share].target) => "outside" \notin bars'[r][d]
      BY <1>3 DEF Within
  <1> QED
      BY <1>2, <1>3, <1>4

(* A visit that goes on has still seen what it saw.                        *)
LEMMA GoesOn ==
    ASSUME LinksFollow, SharesInv, Public!Watch, NEW r \in Requests, NEW p \in Visitor,
           NEW q \in Visitor, q = request[r], q.at \in Stages, p.at \in Stages,
           p.share = q.share, p.op = q.op, p.target = q.target, p.ws = q.ws, p.shown = q.shown,
           request' = [request EXCEPT ![r] = p], UNCHANGED Public!env, UNCHANGED share,
           q.at # "switch" \/ q.ws \in Words \/ sharing[q.ws],
           p.at # "switch", VisitPosed(p, folder, share),
           p.at = "attachmentRoot" =>
             /\ "draft" \notin bars'[r][p.target] /\ bars'[r][p.target] \cap Elsewhere(p) = {}
             /\ LET f == folder[share[p.share].target]
                IN  FoldersStay /\ f.live /\ Public!Under(p.path, f.path)
                      => "outside" \notin bars'[r][p.target]
    PROVE  SharesInv'
  <1>1. VisitOK(q, bars[r], document, folder, share)
      BY DEF SharesInv
  <1>2. \A d \in Docs : bars'[r][d] \subseteq bars[r][d] /\ "closed" \notin bars'[r][d]
      BY VisitSees
  <1>3. \A d \in Docs : p.ws \in Words \/ p.ws \notin bars'[r][d]
    <2>1. CASE q.at = "switch" /\ q.ws \notin Words
      <3>1. \A d \in Docs : \A b \in bars'[r][d] \ Words : ~sharing[b]
          BY VisitSees
      <3> QED
          BY <2>1, <3>1
    <2>2. CASE q.at # "switch"
        BY <1>1, <1>2, <2>2 DEF VisitOK, VisitSaw
    <2> QED
        BY <2>1, <2>2
  <1>4. p.shown = {} /\ Making(p, document, folder)
      BY <1>1 DEF VisitOK, VisitPosed, Making, Stages
  <1>5. share[p.share].target \in Docs =>
          bars'[r][share[p.share].target] \cap Elsewhere(p) = {}
    <2>1. Elsewhere(p) = Elsewhere(q)
        BY DEF Elsewhere
    <2> QED
        BY <1>1, <1>2, <2>1 DEF VisitOK, VisitSaw
  <1>6. VisitSaw(p, bars'[r], folder, share)
      BY <1>2, <1>3, <1>4, <1>5 DEF VisitSaw
  <1> QED
      BY <1>4, <1>6, OnlyVisiting DEF VisitOK

(* A visit that shows documents that nothing has kept hidden.              *)
LEMMA Shows ==
    ASSUME LinksFollow, SharesInv, Public!Watch, NEW r \in Requests,
           NEW q \in Visitor, q = request[r], q.at \in Stages \ {"switch"}, NEW docs \in SUBSET Docs,
           \A d \in docs : /\ Public!Canonical(d) \/ "draft" \notin bars[r][d]
                           /\ document[d].ws = q.ws \/ bars[r][d] \cap Elsewhere(q) = {}
                           /\ FoldersStay => \/ Within(d, share[q.share].target)
                                             \/ "outside" \notin bars[r][d],
           Public!Show(r, docs), UNCHANGED Public!env, UNCHANGED share
    PROVE  SharesInv'
  <1>1. PICK p : p = [q EXCEPT !.at = "done", !.answer = "ok", !.shown = docs]
      OBVIOUS
  <1>2. p \in Visitor /\ p.share = q.share /\ p.op = q.op
    <2>1. "ok" \in Replies
        BY DEF Replies
    <2>2. p \in Visitor
        BY <1>1, <2>1 DEF Visitor
    <2> QED
        BY <1>1, <2>2 DEF Visitor
  <1>3. request' = [request EXCEPT ![r] = p]
      BY <1>1 DEF Public!Show, SharesInv, SharesTypes
  <1>4. request[r].at # "done" /\ q.at \in Stages
      BY DEF Stages
  <1>5. VisitOK(q, bars[r], document, folder, share)
      BY DEF SharesInv
  <1>6. ASSUME NEW d \in docs
        PROVE  bars'[r][d] \subseteq {"outside"} /\ (FoldersStay => bars'[r][d] = {})
    <2>1. /\ bars'[r][d] \subseteq bars[r][d]
          /\ bars'[r][d] \subseteq Public!Reasons
          /\ "closed" \notin bars'[r][d]
          /\ Public!Canonical(d) => "draft" \notin bars'[r][d]
          /\ \A b \in bars'[r][d] \ Words : document[d].ws = b /\ ~sharing[b]
          /\ Within(d, share[q.share].target) => "outside" \notin bars'[r][d]
        BY <1>2, <1>3, <1>4, VisitSees
    <2>2. q.ws \in Words \/ q.ws \notin bars[r][d]
        BY <1>5 DEF VisitOK, VisitSaw
    <2>3. bars'[r][d] \cap Words \subseteq {"outside"} /\ (FoldersStay => "outside" \notin bars'[r][d])
        BY <2>1 DEF Words
    <2>4. ASSUME NEW b \in bars'[r][d], b # "outside"
          PROVE  FALSE
      <3>1. b \in Workspaces /\ b \notin Words /\ document[d].ws = b /\ b \in bars[r][d]
          BY <2>1, <2>3, <2>4 DEF Public!Reasons, Words
      <3>2. b # q.ws
          BY <2>2, <3>1
      <3>3. b \in Elsewhere(q)
          BY <3>1, <3>2 DEF Elsewhere
      <3> QED
          BY <3>1, <3>2, <3>3
    <2> QED
        BY <2>3, <2>4
  <1> QED
      BY <1>4, <1>6, Showing

(* The later reads of a visit, one by one.                                 *)
LEMMA SwitchStep ==
    ASSUME LinksFollow, SharesInv, Public!Watch, NEW r \in Requests, NEW password,
           Public!CheckSwitch(r, password)
    PROVE  SharesInv'
  <1>1. PICK q \in Visitor : q = request[r]
      BY DEF SharesInv, SharesTypes
  <1>2. q.at = "switch" /\ request[r].at # "done" /\ q.at \in Stages
      BY <1>1 DEF Public!CheckSwitch, Public!At, Stages
  <1>3. UNCHANGED Public!env /\ UNCHANGED share /\ VisitOK(q, bars[r], document, folder, share)
      BY <1>1 DEF Public!CheckSwitch, SharesInv
  <1>4. CASE \E a \in Replies : Public!Answer(r, a)
      BY <1>2, <1>3, <1>4, Refused
  <1>5. ASSUME NEW next \in {"attachment", "document", "root"}, sharing[q.ws],
               next = "document" => share[q.share].target \in Docs,
               next = "root" => share[q.share].target \in Folders,
               request' = [request EXCEPT ![r].at = next]
        PROVE  SharesInv'
    <2>1. PICK p : p = [q EXCEPT !.at = next]
        OBVIOUS
    <2>2. p \in Visitor
      <3>1. next \in Stages
          BY <1>5 DEF Stages
      <3> QED
          BY <2>1, <3>1 DEF Visitor
    <2>3. /\ p.at = next /\ p.share = q.share /\ p.op = q.op /\ p.target = q.target
          /\ p.ws = q.ws /\ p.shown = q.shown
        BY <2>1, <2>2 DEF Visitor
    <2>4. request' = [request EXCEPT ![r] = p]
        BY <1>1, <1>5, <2>1 DEF SharesInv, SharesTypes
    <2>5. VisitPosed(p, folder, share)
        BY <1>2, <1>3, <1>5, <2>3 DEF VisitOK, VisitPosed, Stages
    <2>6. p.at \in Stages /\ p.at # "switch" /\ p.at # "attachmentRoot"
        BY <1>5, <2>3 DEF Stages
    <2> QED
        BY <1>1, <1>2, <1>3, <1>5, <2>2, <2>3, <2>4, <2>5, <2>6, GoesOn
  <1> DEFINE s == share[request[r].share]
             next == CASE request[r].op = "attachment" -> "attachment"
                       [] s.target \in Docs /\ request[r].op = "view" -> "document"
                       [] s.target \in Folders -> "root"
                       [] OTHER -> "not_found"
  <1>6. /\ next \in {"attachment", "document", "root", "not_found"}
        /\ next = "document" => share[q.share].target \in Docs
        /\ next = "root" => share[q.share].target \in Folders
      BY <1>1
  <1>7. (CASE ~sharing[request[r].ws] -> Public!Answer(r, "not_found")
           [] s.secret /\ password = "none" -> Public!Answer(r, "password_required")
           [] s.secret /\ password = "wrong" -> Public!Answer(r, "wrong_password")
           [] next = "not_found" -> Public!Answer(r, "not_found")
           [] OTHER -> request' = [request EXCEPT ![r].at = next])
      BY DEF Public!CheckSwitch
  <1> HIDE DEF next, s
  <1>8. \/ \E a \in Replies : Public!Answer(r, a)
        \/ /\ sharing[q.ws] /\ next # "not_found"
           /\ request' = [request EXCEPT ![r].at = next]
    <2>1. {"not_found", "password_required", "wrong_password"} \subseteq Replies
        BY DEF Replies
    <2> QED
        BY <1>1, <1>7, <2>1
  <1> QED
      BY <1>4, <1>5, <1>6, <1>8

LEMMA DocumentStep ==
    ASSUME LinksFollow, SharesInv, Public!Watch, NEW r \in Requests, Public!VisitDocument(r)
    PROVE  SharesInv'
  <1>1. PICK q \in Visitor : q = request[r]
      BY DEF SharesInv, SharesTypes
  <1>2. q.at = "document" /\ request[r].at # "done" /\ q.at \in Stages \ {"switch"}
      BY <1>1 DEF Public!VisitDocument, Public!At, Stages
  <1>3. UNCHANGED Public!env /\ UNCHANGED share /\ VisitOK(q, bars[r], document, folder, share)
      BY <1>1 DEF Public!VisitDocument, SharesInv
  <1>4. PICK d \in Docs : d = share[q.share].target
      BY <1>2, <1>3 DEF VisitOK, VisitPosed
  <1>5. CASE Public!Answer(r, "not_found")
    <2>1. "not_found" \in Replies
        BY DEF Replies
    <2> QED
        BY <1>2, <1>3, <1>5, <2>1, Refused
  <1>6. CASE Public!Canonical(d) /\ Public!Show(r, {d})
    <2>1. bars[r][d] \cap Elsewhere(q) = {}
        BY <1>2, <1>3, <1>4 DEF VisitOK, VisitSaw
    <2>2. Within(d, share[q.share].target)
        BY <1>4 DEF Within
    <2> QED
        BY <1>1, <1>2, <1>3, <1>6, <2>1, <2>2, Shows
  <1> QED
      BY <1>1, <1>4, <1>5, <1>6 DEF Public!VisitDocument

LEMMA RootStep ==
    ASSUME LinksFollow, SharesInv, Public!Watch, NEW r \in Requests, Public!VisitRoot(r)
    PROVE  SharesInv'
  <1>1. PICK q \in Visitor : q = request[r]
      BY DEF SharesInv, SharesTypes
  <1>2. q.at = "root" /\ request[r].at # "done" /\ q.at \in Stages
      BY <1>1 DEF Public!VisitRoot, Public!At, Stages
  <1>3. UNCHANGED Public!env /\ UNCHANGED share /\ VisitOK(q, bars[r], document, folder, share)
      BY <1>1 DEF Public!VisitRoot, SharesInv
  <1>4. PICK f \in Folders : f = share[q.share].target
      BY <1>2, <1>3 DEF VisitOK, VisitPosed
  <1>5. CASE Public!Answer(r, "not_found")
    <2>1. "not_found" \in Replies
        BY DEF Replies
    <2> QED
        BY <1>2, <1>3, <1>5, <2>1, Refused
  <1>6. CASE request' = [request EXCEPT ![r].at = "manual", ![r].path = folder[f].path]
    <2>1. PICK path \in Paths : path = folder[f].path
      <3>1. folder[f] \in FolderRow
          BY DEF SharesInv, SharesTypes
      <3> QED
          BY <3>1 DEF FolderRow
    <2>2. PICK p : p = [q EXCEPT !.at = "manual", !.path = path]
        OBVIOUS
    <2>3. p \in Visitor
      <3>1. "manual" \in Stages
          BY DEF Stages
      <3> QED
          BY <2>1, <2>2, <3>1 DEF Visitor
    <2>4. /\ p.at = "manual" /\ p.share = q.share /\ p.op = q.op /\ p.target = q.target
          /\ p.ws = q.ws /\ p.shown = q.shown /\ p.path = path
        BY <2>2, <2>3 DEF Visitor
    <2>5. request' = [request EXCEPT ![r] = p]
        BY <1>1, <1>6, <2>1, <2>2 DEF SharesInv, SharesTypes
    <2>6. VisitPosed(p, folder, share)
        BY <1>2, <1>3, <1>4, <2>1, <2>4 DEF VisitOK, VisitPosed, Stages
    <2>7. p.at \in Stages /\ p.at # "switch" /\ p.at # "attachmentRoot" /\ q.at # "switch"
        BY <1>2, <2>4 DEF Stages
    <2> QED
        BY <1>1, <1>2, <1>3, <2>3, <2>4, <2>5, <2>6, <2>7, GoesOn
  <1> QED
      BY <1>1, <1>4, <1>5, <1>6 DEF Public!VisitRoot

LEMMA ManualStep ==
    ASSUME LinksFollow, SharesInv, Public!Watch, NEW r \in Requests, Public!VisitManual(r)
    PROVE  SharesInv'
  <1>1. PICK q \in Visitor : q = request[r]
      BY DEF SharesInv, SharesTypes
  <1>2. q.at = "manual" /\ request[r].at # "done" /\ q.at \in Stages \ {"switch"}
      BY <1>1 DEF Public!VisitManual, Public!At, Stages
  <1>3. UNCHANGED Public!env /\ UNCHANGED share /\ VisitOK(q, bars[r], document, folder, share)
      BY <1>1 DEF Public!VisitManual, SharesInv
  <1>4. PICK x \in Folders :
           /\ x = share[q.share].target
           /\ FoldersStay => q.path = folder[x].path /\ q.ws = folder[x].ws
      BY <1>2, <1>3 DEF VisitOK, VisitPosed
  <1> DEFINE docs == Public!ManualDocs(q.ws, q.path)
  <1>5. ASSUME NEW d \in docs
        PROVE  /\ d \in Docs /\ Public!Canonical(d) /\ document[d].ws = q.ws
               /\ FoldersStay => Within(d, share[q.share].target)
    <2>1. /\ d \in Docs /\ Public!Canonical(d) /\ document[d].ws = q.ws
          /\ folder[document[d].folder].live
          /\ Public!Under(folder[document[d].folder].path, q.path)
        BY <1>5 DEF Public!ManualDocs, Public!Canonical, Public!Under
    <2>2. PICK g \in Folders : g = document[d].folder
      <3>1. document[d] \in DocRow
          BY <2>1 DEF SharesInv, SharesTypes
      <3> QED
          BY <3>1 DEF DocRow
    <2>3. folder[g].ws = q.ws
        BY <2>1, <2>2 DEF SharesInv, InPlace
    <2>4. FoldersStay => folder[x].live
        BY <1>4, <2>1, <2>2, <2>3 DEF SharesInv, Gone
    <2>5. x \notin Docs
        BY <1>4 DEF LinksFollow
    <2> QED
        BY <1>4, <2>1, <2>4, <2>5 DEF Within
  <1>6. CASE Public!Answer(r, "not_found")
    <2>1. "not_found" \in Replies
        BY DEF Replies
    <2> QED
        BY <1>2, <1>3, <1>6, <2>1, Refused
  <1>7. CASE \E shown \in SUBSET docs : Public!Show(r, shown)
    <2>1. PICK shown \in SUBSET docs : Public!Show(r, shown)
        BY <1>7
    <2> HIDE DEF docs
    <2>2. shown \in SUBSET Docs
        BY <1>5
    <2>3. \A d \in shown : /\ Public!Canonical(d) \/ "draft" \notin bars[r][d]
                           /\ document[d].ws = q.ws \/ bars[r][d] \cap Elsewhere(q) = {}
                           /\ FoldersStay => \/ Within(d, share[q.share].target)
                                             \/ "outside" \notin bars[r][d]
        BY <1>5
    <2> QED
        BY <1>1, <1>2, <1>3, <2>1, <2>2, <2>3, Shows
  <1>8. \/ Public!Answer(r, "not_found")
        \/ Public!Show(r, docs)
        \/ request[r].target \in docs /\ Public!Show(r, {request[r].target})
    <2>1. (CASE request[r].op = "view" -> Public!Show(r, docs)
             [] request[r].target \in docs -> Public!Show(r, {request[r].target})
             [] OTHER -> Public!Answer(r, "not_found"))
        BY <1>1 DEF Public!VisitManual
    <2> HIDE DEF docs
    <2> QED
        BY <2>1
  <1> HIDE DEF docs
  <1>9. docs \in SUBSET docs /\ (request[r].target \in docs => {request[r].target} \in SUBSET docs)
      OBVIOUS
  <1> QED
      BY <1>6, <1>7, <1>8, <1>9

LEMMA AttachmentStep ==
    ASSUME LinksFollow, SharesInv, Public!Watch, NEW r \in Requests,
           Public!VisitAttachment(r)
    PROVE  SharesInv'
  <1>1. PICK q \in Visitor : q = request[r]
      BY DEF SharesInv, SharesTypes
  <1>2. q.at = "attachment" /\ request[r].at # "done" /\ q.at \in Stages \ {"switch"}
      BY <1>1 DEF Public!VisitAttachment, Public!At, Stages
  <1>3. UNCHANGED Public!env /\ UNCHANGED share /\ VisitOK(q, bars[r], document, folder, share)
      BY <1>1 DEF Public!VisitAttachment, SharesInv
  <1>4. PICK d \in Docs : d = q.target
      BY <1>2, <1>3 DEF VisitOK, VisitPosed
  <1> DEFINE ready == /\ Public!Canonical(d) /\ document[d].ws = q.ws
                      /\ folder[document[d].folder].live
             x == share[q.share].target
  <1>5. CASE Public!Answer(r, "not_found")
    <2>1. "not_found" \in Replies
        BY DEF Replies
    <2> QED
        BY <1>2, <1>3, <1>5, <2>1, Refused
  <1>6. CASE ready /\ x = d /\ Public!Show(r, {d})
    <2>1. Within(d, share[q.share].target)
        BY <1>6 DEF Within
    <2> QED
        BY <1>1, <1>2, <1>3, <1>6, <2>1, Shows
  <1>7. CASE /\ ready /\ x \in Folders
             /\ request' = [request EXCEPT ![r].at = "attachmentRoot",
                                           ![r].path = folder[document[d].folder].path]
    <2>1. PICK path \in Paths : path = folder[document[d].folder].path
      <3>1. document[d] \in DocRow
          BY DEF SharesInv, SharesTypes
      <3>2. PICK g \in Folders : g = document[d].folder
          BY <3>1 DEF DocRow
      <3>3. folder[g] \in FolderRow
          BY DEF SharesInv, SharesTypes
      <3> QED
          BY <3>2, <3>3 DEF FolderRow
    <2>2. PICK p : p = [q EXCEPT !.at = "attachmentRoot", !.path = path]
        OBVIOUS
    <2>3. p \in Visitor
      <3>1. "attachmentRoot" \in Stages
          BY DEF Stages
      <3> QED
          BY <2>1, <2>2, <3>1 DEF Visitor
    <2>4. /\ p.at = "attachmentRoot" /\ p.share = q.share /\ p.op = q.op /\ p.target = d
          /\ p.ws = q.ws /\ p.shown = q.shown /\ p.path = path
        BY <1>4, <2>2, <2>3 DEF Visitor
    <2>5. request' = [request EXCEPT ![r] = p]
        BY <1>1, <1>7, <2>1, <2>2 DEF SharesInv, SharesTypes
    <2>6. VisitPosed(p, folder, share)
        BY <1>2, <1>3, <1>4, <1>7, <2>4 DEF VisitOK, VisitPosed, Stages
    <2>7. p.at \in Stages /\ p.at # "switch" /\ q.at # "switch" /\ q.at \in Stages
        BY <1>2, <2>4 DEF Stages
    <2>8. /\ Public!Canonical(d) => "draft" \notin bars'[r][d]
          /\ \A b \in bars'[r][d] \ Words : document[d].ws = b /\ ~sharing[b]
          /\ Within(d, share[q.share].target) => "outside" \notin bars'[r][d]
        BY <1>1, <1>3, <1>4, <2>3, <2>4, <2>5, <2>7, VisitSees
    <2>9. /\ "draft" \notin bars'[r][d] /\ bars'[r][d] \cap Elsewhere(p) = {}
          /\ LET f == folder[share[p.share].target]
             IN  FoldersStay /\ f.live /\ Public!Under(p.path, f.path) => "outside" \notin bars'[r][d]
      <3>1. "draft" \notin bars'[r][d]
          BY <1>7, <2>8
      <3>2. bars'[r][d] \cap Elsewhere(p) = {}
          BY <1>7, <2>4, <2>8 DEF Elsewhere
      <3>3. FoldersStay => folder[x].ws = document[d].ws
          BY <1>2, <1>3, <1>7 DEF VisitOK, VisitPosed
      <3>4. x \notin Docs
          BY <1>7 DEF LinksFollow
      <3>5. FoldersStay /\ folder[x].live /\ Public!Under(p.path, folder[x].path) => Within(d, x)
          BY <2>1, <2>4, <3>3, <3>4 DEF Within
      <3> QED
          BY <2>4, <2>8, <3>1, <3>2, <3>5
    <2> QED
        BY <1>1, <1>3, <1>4, <2>3, <2>4, <2>5, <2>6, <2>7, <2>9, GoesOn
  <1>8. (CASE ready /\ x = d -> Public!Show(r, {d})
           [] ready /\ x \in Folders ->
                request' = [request EXCEPT ![r].at = "attachmentRoot",
                                           ![r].path = folder[document[d].folder].path]
           [] OTHER -> Public!Answer(r, "not_found"))
      BY <1>1, <1>4 DEF Public!VisitAttachment, Public!Canonical
  <1> HIDE DEF ready, x
  <1> QED
      BY <1>5, <1>6, <1>7, <1>8

LEMMA AttachmentRootStep ==
    ASSUME LinksFollow, SharesInv, Public!Watch, NEW r \in Requests,
           Public!VisitAttachmentRoot(r)
    PROVE  SharesInv'
  <1>1. PICK q \in Visitor : q = request[r]
      BY DEF SharesInv, SharesTypes
  <1>2. q.at = "attachmentRoot" /\ request[r].at # "done" /\ q.at \in Stages \ {"switch"}
      BY <1>1 DEF Public!VisitAttachmentRoot, Public!At, Stages
  <1>3. UNCHANGED Public!env /\ UNCHANGED share /\ VisitOK(q, bars[r], document, folder, share)
      BY <1>1 DEF Public!VisitAttachmentRoot, SharesInv
  <1>4. PICK d \in Docs : d = q.target
      BY <1>2, <1>3 DEF VisitOK, VisitPosed
  <1> DEFINE x == share[q.share].target
  <1>5. CASE Public!Answer(r, "not_found")
    <2>1. "not_found" \in Replies
        BY DEF Replies
    <2> QED
        BY <1>2, <1>3, <1>5, <2>1, Refused
  <1>6. CASE folder[x].live /\ Public!Under(q.path, folder[x].path) /\ Public!Show(r, {d})
    <2>1. /\ "draft" \notin bars[r][d] /\ bars[r][d] \cap Elsewhere(q) = {}
          /\ FoldersStay => "outside" \notin bars[r][d]
        BY <1>2, <1>3, <1>4, <1>6 DEF VisitOK, VisitSaw
    <2> QED
        BY <1>1, <1>2, <1>3, <1>6, <2>1, Shows
  <1>7. IF folder[x].live /\ Public!Under(q.path, folder[x].path)
        THEN Public!Show(r, {d}) ELSE Public!Answer(r, "not_found")
      BY <1>1, <1>4 DEF Public!VisitAttachmentRoot, Public!Under
  <1> QED
      BY <1>5, <1>6, <1>7

(* A step that is no read of a visit keeps what visits have found out.     *)
LEMMA Meanwhile ==
    ASSUME LinksFollow, SharesInv, Public!Watch,
           folder' \in [Folders -> FolderRow], document' \in [Docs -> DocRow],
           share' \in Seq(Public!ShareRow), request' \in [Requests -> Visitor],
           Len(share) <= Len(share'),
           \A i \in 1..Len(share) : share'[i].target = share[i].target,
           FoldersStay => \A f \in Folders :
              /\ folder'[f].ws = folder[f].ws /\ folder'[f].path = folder[f].path
              /\ folder'[f].live => folder[f].live,
           Gone(folder'), InPlace(document', folder', share'),
           "create" \in Ops => \A d \in Docs : document'[d].ws = document[d].ws,
           \A t \in Requests : \/ request'[t] = request[t]
                               \/ request'[t].at \in {"revoke", "done"} /\ request'[t].shown = {}
    PROVE  SharesInv'
  <1>1. ASSUME NEW t \in Requests
        PROVE  VisitOK(request'[t], bars'[t], document', folder', share')
    <2>1. CASE request'[t] = request[t]
      <3>1. VisitOK(request[t], bars[t], document, folder, share)
          BY DEF SharesInv
      <3>2. request[t].at = "create" => \A d \in Docs : document'[d].ws = document[d].ws
          BY <3>1 DEF VisitOK, Making
      <3>3. Len(share') \in Nat
          OBVIOUS
      <3> QED
          BY <2>1, <3>2, <3>3, WatchedOn
    <2>2. CASE request'[t].at \in {"revoke", "done"} /\ request'[t].shown = {}
        BY <2>2 DEF VisitOK, Making, VisitPosed, VisitSaw, Stages
    <2> QED
        BY <2>1, <2>2
  <1>2. SharesTypes'
      BY BarsStay DEF SharesTypes
  <1> QED
      BY <1>1, <1>2 DEF SharesInv

(* Links that are asked for, made, and revoked.                            *)
LEMMA CreateCheckStep ==
    ASSUME LinksFollow, SharesInv, Public!Watch, NEW r \in Requests, NEW u \in Users,
           NEW x \in Folders \cup Docs, Public!CreateCheck(r, u, x)
    PROVE  SharesInv'
  <1>1. UNCHANGED Public!env /\ UNCHANGED share /\ "create" \in Ops
      BY DEF Public!CreateCheck
  <1>2. PICK w \in Workspaces : w = Public!Row(x).ws
    <2>1. x \in Docs => document[x] \in DocRow
        BY DEF SharesInv, SharesTypes
    <2>2. x \in Folders => folder[x] \in FolderRow
        BY DEF SharesInv, SharesTypes
    <2> QED
        BY <2>1, <2>2 DEF Public!Row, DocRow, FolderRow
  <1>3. PICK at \in {"create", "done"} :
          at = IF Public!Row(x).live /\ sharing[Public!Row(x).ws] /\ role[u] >= Public!Manager
               THEN "create" ELSE "done"
      OBVIOUS
  <1>4. PICK p : p = [Public!Idle EXCEPT !.op = "create", !.user = u, !.target = x, !.ws = w,
                                         !.at = at, !.answer = "refused"]
      OBVIOUS
  <1>5. p \in Visitor /\ p.user = u /\ p.target = x /\ p.ws = w /\ p.at = at /\ p.shown = {}
    <2>1. PICK y \in Visitor : y = Public!Idle /\ y.shown = {}
      <3>1. Public!Idle \in Visitor /\ Public!Idle.shown = {}
          BY DEF Public!Idle, Visitor, Replies
      <3> QED
          BY <3>1
    <2>2. /\ u \in Users \cup {"none"} /\ x \in Folders \cup Docs \cup {"none"}
          /\ w \in Workspaces \cup {"none"} /\ at \in Stages \cup {"idle", "create", "revoke", "done"}
          /\ "refused" \in Replies
        BY <1>3 DEF Replies
    <2>3. p = [y EXCEPT !.op = "create", !.user = u, !.target = x, !.ws = w, !.at = at,
                        !.answer = "refused"]
        BY <1>4, <2>1
    <2>4. p \in Visitor
        BY <2>2, <2>3 DEF Visitor
    <2> QED
        BY <2>1, <2>3, <2>4 DEF Visitor
  <1>6. request' = [request EXCEPT ![r] = p]
      BY <1>2, <1>3, <1>4 DEF Public!CreateCheck
  <1>7. Making(p, document, folder)
    <2>1. x \in Folders => x \notin Docs
        BY DEF LinksFollow
    <2> QED
        BY <1>1, <1>2, <1>5, <2>1 DEF Making, Public!Row
  <1>8. VisitOK(p, bars'[r], document, folder, share)
      BY <1>3, <1>5, <1>7 DEF VisitOK, VisitPosed, VisitSaw, Stages
  <1> QED
      BY <1>1, <1>5, <1>6, <1>8, OnlyVisiting

LEMMA RevokeCheckStep ==
    ASSUME LinksFollow, SharesInv, Public!Watch, NEW r \in Requests, NEW u \in Users,
           NEW i \in 1..Len(share), Public!RevokeCheck(r, u, i)
    PROVE  SharesInv'
  <1>1. UNCHANGED Public!env /\ UNCHANGED share
      BY DEF Public!RevokeCheck
  <1> DEFINE may == /\ Public!Row(share[i].target).live /\ role[u] > 0
                    /\ share[i].author = u \/ role[u] >= Public!Manager
  <1>2. PICK at \in {"revoke", "done"} :
          at = IF may /\ ~share[i].revoked THEN "revoke" ELSE "done"
      OBVIOUS
  <1>3. PICK answer \in {"ok", "refused"} : answer = IF may THEN "ok" ELSE "refused"
      OBVIOUS
  <1>4. PICK n \in Nat : n = i
      OBVIOUS
  <1>5. PICK p : p = [Public!Idle EXCEPT !.op = "revoke", !.user = u, !.share = n, !.at = at,
                                         !.answer = answer]
      OBVIOUS
  <1>6. p \in Visitor /\ p.at = at /\ p.shown = {}
    <2>1. PICK y \in Visitor : y = Public!Idle /\ y.shown = {}
      <3>1. Public!Idle \in Visitor /\ Public!Idle.shown = {}
          BY DEF Public!Idle, Visitor, Replies
      <3> QED
          BY <3>1
    <2>2. /\ u \in Users \cup {"none"} /\ at \in Stages \cup {"idle", "create", "revoke", "done"}
          /\ answer \in Replies
        BY <1>2, <1>3 DEF Replies
    <2>3. p = [y EXCEPT !.op = "revoke", !.user = u, !.share = n, !.at = at, !.answer = answer]
        BY <1>5, <2>1
    <2>4. p \in Visitor
        BY <2>2, <2>3 DEF Visitor
    <2> QED
        BY <2>1, <2>3, <2>4 DEF Visitor
  <1>7. request' = [request EXCEPT ![r] = p]
      BY <1>2, <1>3, <1>4, <1>5 DEF Public!RevokeCheck
  <1>8. VisitOK(p, bars'[r], document, folder, share)
      BY <1>2, <1>6 DEF VisitOK, Making, VisitPosed, VisitSaw, Stages
  <1> QED
      BY <1>1, <1>6, <1>7, <1>8, OnlyVisiting

(* A request that is answered, whatever happens to the links.              *)
LEMMA Answered ==
    ASSUME SharesInv, NEW r \in Requests, request[r].at # "done", Public!Answer(r, "ok")
    PROVE  /\ request' \in [Requests -> Visitor]
           /\ \A t \in Requests : \/ request'[t] = request[t]
                                  \/ request'[t].at \in {"revoke", "done"} /\ request'[t].shown = {}
  <1>1. PICK q \in Visitor : q = request[r] /\ q.shown = {}
    <2>1. request[r] \in Visitor /\ VisitOK(request[r], bars[r], document, folder, share)
        BY DEF SharesInv, SharesTypes
    <2> QED
        BY <2>1 DEF VisitOK, VisitPosed
  <1>2. PICK p : p = [q EXCEPT !.at = "done", !.answer = "ok"]
      OBVIOUS
  <1>3. p \in Visitor /\ p.at = "done" /\ p.shown = {}
    <2>1. "ok" \in Replies
        BY DEF Replies
    <2>2. p \in Visitor
        BY <1>2, <2>1 DEF Visitor
    <2> QED
        BY <1>1, <1>2, <2>2 DEF Visitor
  <1>4. request' = [request EXCEPT ![r] = p] /\ request \in [Requests -> Visitor]
      BY <1>1, <1>2 DEF Public!Answer, SharesInv, SharesTypes
  <1> QED
      BY <1>3, <1>4

LEMMA CreateShareStep ==
    ASSUME LinksFollow, SharesInv, Public!Watch, NEW r \in Requests, NEW secret \in BOOLEAN,
           Public!CreateShare(r, secret)
    PROVE  SharesInv'
  <1>1. /\ UNCHANGED <<folder, document>> /\ request[r].at = "create" /\ Public!Answer(r, "ok")
        /\ share \in Seq(Public!ShareRow) /\ Len(share) \in Nat
      BY DEF Public!CreateShare, Public!At, Public!env, SharesInv, SharesTypes
  <1>2. PICK q \in Visitor : q = request[r]
      BY DEF SharesInv, SharesTypes
  <1>3. Making(q, document, folder) /\ q.at = "create"
      BY <1>1, <1>2 DEF SharesInv, VisitOK
  <1>4. PICK s : s = [ws |-> q.ws, target |-> q.target, author |-> q.user, secret |-> secret,
                      revoked |-> FALSE, expired |-> FALSE]
      OBVIOUS
  <1>5. s \in Public!ShareRow /\ s.ws = q.ws /\ s.target = q.target
      BY <1>3, <1>4 DEF Making, Public!ShareRow
  <1>6. share' = Append(share, s)
      BY <1>2, <1>4 DEF Public!CreateShare
  <1>7. /\ share' \in Seq(Public!ShareRow) /\ Len(share') = Len(share) + 1
        /\ \A i \in 1..Len(share) : share'[i] = share[i]
        /\ share'[Len(share) + 1] = s
      BY <1>1, <1>5, <1>6
  <1>8. InPlace(document', folder', share')
    <2>1. ASSUME NEW i \in 1..Len(share')
          PROVE  /\ share'[i].target \in Docs => share'[i].ws = document[share'[i].target].ws
                 /\ FoldersStay /\ share'[i].target \in Folders => share'[i].ws = folder[share'[i].target].ws
      <3>1. CASE i = Len(share) + 1
          BY <1>3, <1>5, <1>7, <3>1 DEF Making
      <3>2. CASE i \in 1..Len(share)
          BY <1>7, <3>2 DEF SharesInv, InPlace
      <3> QED
          BY <1>1, <1>7, <3>1, <3>2
    <2>2. \A d \in Docs : folder[document[d].folder].ws = document[d].ws
        BY DEF SharesInv, InPlace
    <2> QED
        BY <1>1, <2>1, <2>2 DEF InPlace
  <1>9. request[r].at # "done"
      BY <1>1
  <1> QED
      BY <1>1, <1>7, <1>8, <1>9, Answered, Meanwhile DEF SharesInv, SharesTypes

(* A link that stops being followed stays what it is otherwise.            *)
LEMMA Closing ==
    ASSUME SharesInv, NEW k, \/ share' = [share EXCEPT ![k].revoked = TRUE]
                             \/ share' = [share EXCEPT ![k].expired = TRUE]
    PROVE  /\ share' \in Seq(Public!ShareRow) /\ Len(share') = Len(share)
           /\ \A i \in 1..Len(share) : /\ share'[i].target = share[i].target
                                       /\ share'[i].ws = share[i].ws
  <1>1. share \in Seq(Public!ShareRow) /\ Len(share) \in Nat
      BY DEF SharesInv, SharesTypes
  <1>2. DOMAIN share' = 1..Len(share) /\ share' = [i \in 1..Len(share) |-> share'[i]]
      BY <1>1
  <1>3. ASSUME NEW i \in 1..Len(share)
        PROVE  /\ share'[i] \in Public!ShareRow /\ share'[i].target = share[i].target
               /\ share'[i].ws = share[i].ws
    <2>1. PICK s \in Public!ShareRow : s = share[i]
        BY <1>1
    <2>2. share'[i] \in {s, [s EXCEPT !.revoked = TRUE], [s EXCEPT !.expired = TRUE]}
        BY <1>1, <2>1
    <2>3. \A x \in {s, [s EXCEPT !.revoked = TRUE], [s EXCEPT !.expired = TRUE]} :
            x \in Public!ShareRow /\ x.target = s.target /\ x.ws = s.ws
        BY DEF Public!ShareRow
    <2> QED
        BY <2>1, <2>2, <2>3
  <1>4. PICK n \in Nat : n = Len(share)
      BY <1>1
  <1>5. share' \in [1..n -> Public!ShareRow]
      BY <1>2, <1>3, <1>4
  <1> QED
      BY <1>2, <1>3, <1>4, <1>5

LEMMA ClosingStep ==
    ASSUME LinksFollow, SharesInv, Public!Watch,
           \/ \E r \in Requests : Public!RevokeShare(r)
           \/ \E i \in 1..Len(share) : Public!Expire(i)
    PROVE  SharesInv'
  <1>1. /\ UNCHANGED <<folder, document>> /\ request \in [Requests -> Visitor]
        /\ folder \in [Folders -> FolderRow] /\ document \in [Docs -> DocRow]
        /\ \E k : \/ share' = [share EXCEPT ![k].revoked = TRUE]
                  \/ share' = [share EXCEPT ![k].expired = TRUE]
      BY DEF Public!RevokeShare, Public!Expire, Public!env, SharesInv, SharesTypes
  <1>2. /\ share' \in Seq(Public!ShareRow) /\ Len(share') = Len(share) /\ Len(share) \in Nat
        /\ \A i \in 1..Len(share) : /\ share'[i].target = share[i].target
                                    /\ share'[i].ws = share[i].ws
      BY <1>1, Closing DEF SharesInv, SharesTypes
  <1>3. /\ request' \in [Requests -> Visitor]
        /\ \A t \in Requests : \/ request'[t] = request[t]
                               \/ request'[t].at \in {"revoke", "done"} /\ request'[t].shown = {}
    <2>1. CASE \E r \in Requests : Public!RevokeShare(r)
      <3>1. PICK r \in Requests : Public!RevokeShare(r)
          BY <2>1
      <3>2. request[r].at # "done" /\ Public!Answer(r, "ok")
          BY <3>1 DEF Public!RevokeShare, Public!At
      <3> QED
          BY <3>2, Answered
    <2>2. CASE \E i \in 1..Len(share) : Public!Expire(i)
        BY <1>1, <2>2 DEF Public!Expire
    <2> QED
        BY <2>1, <2>2
  <1>4. InPlace(document', folder', share') /\ Gone(folder')
      BY <1>1, <1>2 DEF SharesInv, InPlace
  <1> QED
      BY <1>1, <1>2, <1>3, <1>4, Meanwhile

(* What happens to documents, folders and switches meanwhile.              *)
LEMMA DocumentChanges ==
    ASSUME LinksFollow, SharesInv, Public!Watch, UNCHANGED <<folder, share, request>>,
           NEW d \in Docs, NEW row \in DocRow, document' = [document EXCEPT ![d] = row],
           row.ws = document[d].ws, folder[row.folder].ws = row.ws
    PROVE  SharesInv'
  <1>1. /\ folder \in [Folders -> FolderRow] /\ document \in [Docs -> DocRow]
        /\ share \in Seq(Public!ShareRow) /\ request \in [Requests -> Visitor]
        /\ Len(share) \in Nat
      BY DEF SharesInv, SharesTypes
  <1>2. document' \in [Docs -> DocRow] /\ \A e \in Docs : document'[e].ws = document[e].ws
      BY <1>1
  <1>3. \A e \in Docs : folder[document'[e].folder].ws = document'[e].ws
    <2>1. \A e \in Docs \ {d} : document'[e] = document[e]
        BY <1>1
    <2>2. document'[d] = row
        BY <1>1
    <2> QED
        BY <2>1, <2>2 DEF SharesInv, InPlace
  <1>4. InPlace(document', folder', share')
      BY <1>1, <1>2, <1>3 DEF SharesInv, InPlace
  <1>5. Gone(folder')
      BY DEF SharesInv
  <1> QED
      BY <1>1, <1>2, <1>4, <1>5, Meanwhile

LEMMA DocumentSteps ==
    ASSUME LinksFollow, SharesInv, Public!Watch, NEW d \in Docs,
           \/ Public!SetStatus(d) \/ Public!DeleteDocument(d)
           \/ \E f \in Folders : Public!MoveDocument(d, f)
    PROVE  SharesInv'
  <1>1. PICK row \in DocRow : row = document[d]
      BY DEF SharesInv, SharesTypes
  <1>2. UNCHANGED <<folder, share, request>> /\ folder[row.folder].ws = row.ws
        /\ document \in [Docs -> DocRow]
      BY <1>1 DEF Public!SetStatus, Public!DeleteDocument, Public!MoveDocument, SharesInv, InPlace,
                  SharesTypes
  <1>3. CASE Public!SetStatus(d)
    <2>1. PICK c \in BOOLEAN : c = ~document[d].canonical
        OBVIOUS
    <2>2. PICK new : new = [row EXCEPT !.canonical = c]
        OBVIOUS
    <2>3. new \in DocRow /\ new.ws = row.ws /\ new.folder = row.folder
        BY <2>2 DEF DocRow
    <2>4. document' = [document EXCEPT ![d] = new]
        BY <1>1, <1>2, <1>3, <2>1, <2>2 DEF Public!SetStatus
    <2> QED
        BY <1>1, <1>2, <2>3, <2>4, DocumentChanges
  <1>4. CASE Public!DeleteDocument(d)
    <2>1. PICK new : new = [row EXCEPT !.live = FALSE]
        OBVIOUS
    <2>2. new \in DocRow /\ new.ws = row.ws /\ new.folder = row.folder
        BY <2>1 DEF DocRow
    <2>3. document' = [document EXCEPT ![d] = new]
        BY <1>1, <1>2, <1>4, <2>1 DEF Public!DeleteDocument
    <2> QED
        BY <1>1, <1>2, <2>2, <2>3, DocumentChanges
  <1>5. CASE \E f \in Folders : Public!MoveDocument(d, f)
    <2>1. PICK f \in Folders : Public!MoveDocument(d, f)
        BY <1>5
    <2>2. PICK new : new = [row EXCEPT !.folder = f]
        OBVIOUS
    <2>3. new \in DocRow /\ new.ws = row.ws /\ new.folder = f
        BY <2>2 DEF DocRow
    <2>4. document' = [document EXCEPT ![d] = new] /\ folder[f].ws = row.ws
        BY <1>1, <1>2, <2>1, <2>2 DEF Public!MoveDocument
    <2> QED
        BY <1>1, <1>2, <2>3, <2>4, DocumentChanges
  <1> QED
      BY <1>3, <1>4, <1>5

LEMMA DeleteFolderStep ==
    ASSUME LinksFollow, SharesInv, Public!Watch, NEW f \in Folders, Public!DeleteFolder(f)
    PROVE  SharesInv'
  <1>1. /\ folder \in [Folders -> FolderRow] /\ document \in [Docs -> DocRow]
        /\ share \in Seq(Public!ShareRow) /\ request \in [Requests -> Visitor]
        /\ Len(share) \in Nat /\ UNCHANGED <<document, share, request>>
      BY DEF SharesInv, SharesTypes, Public!DeleteFolder
  <1>2. PICK row \in FolderRow : row = folder[f]
      BY <1>1
  <1>3. PICK new : new = [row EXCEPT !.live = FALSE]
      OBVIOUS
  <1>4. new \in FolderRow /\ new.ws = row.ws /\ new.path = row.path /\ ~new.live
      BY <1>3 DEF FolderRow
  <1>5. folder' = [folder EXCEPT ![f] = new]
      BY <1>1, <1>2, <1>3 DEF Public!DeleteFolder
  <1>6. /\ folder' \in [Folders -> FolderRow]
        /\ \A g \in Folders : /\ folder'[g].ws = folder[g].ws /\ folder'[g].path = folder[g].path
                              /\ folder'[g].live => folder[g].live /\ g # f
        /\ \A g \in Folders \ {f} : folder'[g] = folder[g]
      BY <1>1, <1>2, <1>4, <1>5
  <1>7. Gone(folder')
    <2>1. ASSUME FoldersStay, NEW h \in Folders, NEW g \in Folders, ~folder'[h].live, folder'[g].live,
                 folder'[g].ws = folder'[h].ws
          PROVE  ~Public!Under(folder'[g].path, folder'[h].path)
      <3>1. folder[g].live /\ g # f /\ folder[g].ws = folder[h].ws
            /\ folder'[g].path = folder[g].path /\ folder'[h].path = folder[h].path
          BY <1>6, <2>1
      <3>2. CASE h = f
        <4>1. \A k \in Folders \ {f} : folder[k].live /\ folder[k].ws = folder[f].ws
                                       => ~Public!Under(folder[k].path, folder[f].path)
            BY DEF Public!DeleteFolder, Public!Under
        <4> QED
            BY <3>1, <3>2, <4>1
      <3>3. CASE h # f
        <4>1. ~folder[h].live
            BY <1>6, <2>1, <3>3
        <4>2. ~Public!Under(folder[g].path, folder[h].path)
            BY <2>1, <3>1, <4>1 DEF SharesInv, Gone
        <4> QED
            BY <3>1, <4>2
      <3> QED
          BY <3>2, <3>3
    <2> QED
        BY <2>1 DEF Gone
  <1>8. InPlace(document', folder', share')
    <2>1. \A d \in Docs : document[d].folder \in Folders
      <3>1. \A d \in Docs : document[d] \in DocRow
          BY <1>1
      <3> QED
          BY <3>1 DEF DocRow
    <2> QED
        BY <1>1, <1>6, <2>1 DEF SharesInv, InPlace
  <1> QED
      BY <1>1, <1>6, <1>7, <1>8, Meanwhile

LEMMA TransferStep ==
    ASSUME LinksFollow, SharesInv, Public!Watch, NEW d \in Docs, NEW f \in Folders,
           Public!TransferDocument(d, f)
    PROVE  SharesInv'
  <1>1. /\ folder \in [Folders -> FolderRow] /\ document \in [Docs -> DocRow]
        /\ share \in Seq(Public!ShareRow) /\ request \in [Requests -> Visitor]
        /\ Len(share) \in Nat /\ UNCHANGED <<folder, request>> /\ "create" \notin Ops
      BY DEF SharesInv, SharesTypes, Public!TransferDocument, LinksFollow
  <1>2. PICK w \in Workspaces : w = folder[f].ws
    <2>1. folder[f] \in FolderRow
        BY <1>1
    <2> QED
        BY <2>1 DEF FolderRow
  <1>3. PICK row \in DocRow : row = document[d]
      BY <1>1
  <1>4. PICK new : new = [row EXCEPT !.folder = f, !.ws = w]
      OBVIOUS
  <1>5. new \in DocRow /\ new.ws = w /\ new.folder = f
      BY <1>4 DEF DocRow
  <1>6. document' = [document EXCEPT ![d] = new]
      BY <1>1, <1>2, <1>3, <1>4 DEF Public!TransferDocument
  <1>7. /\ document' \in [Docs -> DocRow] /\ document'[d] = new
        /\ \A e \in Docs \ {d} : document'[e] = document[e]
      BY <1>1, <1>5, <1>6
  <1>8. share' = [i \in 1..Len(share) |-> IF share[i].target = d THEN [share[i] EXCEPT !.ws = w]
                                          ELSE share[i]]
      BY <1>2 DEF Public!TransferDocument, Public!Ids
  <1>9. ASSUME NEW i \in 1..Len(share)
        PROVE  /\ share'[i] \in Public!ShareRow /\ share'[i].target = share[i].target
               /\ share[i].target = d => share'[i].ws = w
               /\ share[i].target # d => share'[i].ws = share[i].ws
    <2>1. PICK s \in Public!ShareRow : s = share[i]
        BY <1>1
    <2>2. PICK moved : moved = [s EXCEPT !.ws = w]
        OBVIOUS
    <2>3. moved \in Public!ShareRow /\ moved.target = s.target /\ moved.ws = w
        BY <2>2 DEF Public!ShareRow
    <2>4. share'[i] = IF s.target = d THEN moved ELSE s
        BY <1>8, <2>1, <2>2
    <2> QED
        BY <2>1, <2>3, <2>4
  <1>10. PICK n \in Nat : n = Len(share)
      BY <1>1
  <1>11. share' \in Seq(Public!ShareRow) /\ Len(share') = Len(share)
    <2>1. share' \in [1..n -> Public!ShareRow]
        BY <1>8, <1>9, <1>10
    <2> QED
        BY <1>10, <2>1
  <1>12. InPlace(document', folder', share')
    <2>1. \A e \in Docs : folder'[document'[e].folder].ws = document'[e].ws
        BY <1>1, <1>2, <1>5, <1>7 DEF SharesInv, InPlace
    <2>2. ASSUME NEW i \in 1..Len(share')
          PROVE  /\ share'[i].target \in Docs => share'[i].ws = document'[share'[i].target].ws
                 /\ FoldersStay /\ share'[i].target \in Folders => share'[i].ws = folder'[share'[i].target].ws
      <3>1. i \in 1..Len(share) /\ d \notin Folders
          BY <1>11 DEF LinksFollow
      <3>2. CASE share[i].target = d
          BY <1>5, <1>7, <1>9, <3>1, <3>2
      <3>3. CASE share[i].target # d
          BY <1>1, <1>7, <1>9, <3>1, <3>3 DEF SharesInv, InPlace
      <3> QED
          BY <3>2, <3>3
    <2> QED
        BY <2>1, <2>2 DEF InPlace
  <1>13. Gone(folder')
      BY <1>1 DEF SharesInv
  <1> QED
      BY <1>1, <1>7, <1>9, <1>11, <1>12, <1>13, Meanwhile

(* A transfer of a folder takes along what lies under it, and the shares   *)
(* of the documents in it, but not those of the folders                    *)
(* (workspace-transfer.ts:65).                                             *)
LEMMA TransferFolderStep ==
    ASSUME LinksFollow, SharesInv, Public!Watch, NEW f \in Folders, NEW w \in Workspaces,
           Public!TransferFolder(f, w)
    PROVE  SharesInv'
  <1>1. /\ folder \in [Folders -> FolderRow] /\ document \in [Docs -> DocRow]
        /\ share \in Seq(Public!ShareRow) /\ request \in [Requests -> Visitor]
        /\ Len(share) \in Nat /\ request' = request /\ ~FoldersStay /\ "create" \notin Ops
    <2>1. request' = request /\ ~FoldersStay
        BY DEF Public!TransferFolder, FoldersStay
    <2>2. "create" \notin Ops
        BY <2>1 DEF LinksFollow
    <2>3. /\ folder \in [Folders -> FolderRow] /\ document \in [Docs -> DocRow]
          /\ share \in Seq(Public!ShareRow) /\ request \in [Requests -> Visitor]
        BY DEF SharesInv, SharesTypes
    <2> QED
        BY <2>1, <2>2, <2>3
  <1> DEFINE moved == {g \in Folders : /\ folder[g].ws = folder[f].ws
                                       /\ Public!Under(folder[g].path, folder[f].path)}
             docs == {d \in Docs : document[d].folder \in moved}
  <1>2. /\ folder' = [g \in Folders |->
                        IF g \in moved
                        THEN [folder[g] EXCEPT !.ws = w, !.path = Relocated(folder[f].path, @)]
                        ELSE folder[g]]
        /\ document' = [d \in Docs |-> IF d \in docs THEN [document[d] EXCEPT !.ws = w]
                                       ELSE document[d]]
        /\ share' = [i \in 1..Len(share) |-> IF share[i].target \in docs
                                             THEN [share[i] EXCEPT !.ws = w] ELSE share[i]]
      BY DEF Public!TransferFolder, Public!Inside, Public!Ids, Relocated
  <1>3. ASSUME NEW g \in Folders
        PROVE  /\ folder'[g] \in FolderRow
               /\ folder'[g].ws = IF g \in moved THEN w ELSE folder[g].ws
    <2>1. PICK row \in FolderRow : row = folder[g]
        BY <1>1
    <2>2. PICK root \in Paths : root = folder[f].path
      <3>1. folder[f] \in FolderRow
          BY <1>1
      <3> QED
          BY <3>1 DEF FolderRow
    <2>3. CASE g \in moved
      <3>1. Public!Under(row.path, root) /\ row.path \in Paths
          BY <2>1, <2>2, <2>3 DEF FolderRow
      <3>2. PICK new \in Paths : new = Relocated(root, row.path)
          BY <1>1, <3>1 DEF LinksFollow
      <3>3. folder'[g] = [row EXCEPT !.ws = w, !.path = new]
          BY <1>2, <2>1, <2>2, <2>3, <3>2
      <3> QED
          BY <2>3, <3>3 DEF FolderRow
    <2>4. CASE g \notin moved
        BY <1>1, <1>2, <2>4
    <2> QED
        BY <2>3, <2>4
  <1>4. ASSUME NEW d \in Docs
        PROVE  /\ document'[d] \in DocRow /\ document'[d].folder = document[d].folder
               /\ document'[d].ws = IF d \in docs THEN w ELSE document[d].ws
    <2>1. PICK row \in DocRow : row = document[d]
        BY <1>1
    <2>2. document'[d] = IF d \in docs THEN [row EXCEPT !.ws = w] ELSE row
        BY <1>2, <2>1
    <2> HIDE DEF docs
    <2> QED
        BY <2>1, <2>2 DEF DocRow
  <1>5. ASSUME NEW i \in 1..Len(share)
        PROVE  /\ share'[i] \in Public!ShareRow /\ share'[i].target = share[i].target
               /\ share'[i].ws = IF share[i].target \in docs THEN w ELSE share[i].ws
    <2>1. PICK s \in Public!ShareRow : s = share[i]
        BY <1>1
    <2>2. share'[i] = IF s.target \in docs THEN [s EXCEPT !.ws = w] ELSE s
        BY <1>2, <2>1
    <2> HIDE DEF docs
    <2> QED
        BY <2>1, <2>2 DEF Public!ShareRow
  <1>6. folder' \in [Folders -> FolderRow] /\ document' \in [Docs -> DocRow]
      BY <1>2, <1>3, <1>4
  <1>7. PICK n \in Nat : n = Len(share)
      BY <1>1
  <1>8. share' \in Seq(Public!ShareRow) /\ Len(share') = Len(share)
    <2>1. share' \in [1..n -> Public!ShareRow]
        BY <1>2, <1>5, <1>7
    <2> QED
        BY <1>7, <2>1
  <1>9. InPlace(document', folder', share')
    <2>1. ASSUME NEW d \in Docs
          PROVE  folder'[document'[d].folder].ws = document'[d].ws
      <3>1. PICK g \in Folders : g = document[d].folder
        <4>1. document[d] \in DocRow
            BY <1>1
        <4> QED
            BY <4>1 DEF DocRow
      <3>2. folder[g].ws = document[d].ws /\ (d \in docs <=> g \in moved)
          BY <3>1 DEF SharesInv, InPlace
      <3> HIDE DEF docs, moved
      <3> QED
          BY <1>3, <1>4, <3>1, <3>2
    <2> HIDE DEF docs, moved
    <2>2. ASSUME NEW i \in 1..Len(share'), share'[i].target \in Docs
          PROVE  share'[i].ws = document'[share'[i].target].ws
      <3>1. i \in 1..Len(share) /\ share[i].target = share'[i].target
          BY <1>5, <1>8
      <3>2. share[i].ws = document[share[i].target].ws
          BY <2>2, <3>1 DEF SharesInv, InPlace
      <3> QED
          BY <1>4, <1>5, <2>2, <3>1, <3>2
    <2> QED
        BY <1>1, <2>1, <2>2 DEF InPlace
  <1>10. Gone(folder')
      BY <1>1 DEF Gone
  <1> HIDE DEF docs, moved
  <1> QED
      BY <1>1, <1>5, <1>6, <1>8, <1>9, <1>10, Meanwhile

LEMMA NothingMoves ==
    ASSUME LinksFollow, SharesInv, Public!Watch, UNCHANGED <<folder, document, share, request>>
    PROVE  SharesInv'
  <1>1. /\ folder' \in [Folders -> FolderRow] /\ document' \in [Docs -> DocRow]
        /\ share' \in Seq(Public!ShareRow) /\ request' \in [Requests -> Visitor]
        /\ Len(share) <= Len(share')
      BY DEF SharesInv, SharesTypes
  <1>2. Gone(folder') /\ InPlace(document', folder', share')
      BY DEF SharesInv
  <1> QED
      BY <1>1, <1>2, Meanwhile

LEMMA StepShares == ASSUME LinksFollow PROVE SharesInv /\ [Public!Next]_Public!vars => SharesInv'
  <1>1. ASSUME SharesInv, Public!Next
        PROVE  SharesInv'
    <2>1. Public!Watch
        BY <1>1 DEF Public!Next
    <2>2. ASSUME NEW r \in Requests, Public!Manage(r)
          PROVE  SharesInv'
      <3>1. CASE \E u \in Users : \E x \in Folders \cup Docs : Public!CreateCheck(r, u, x)
          BY <1>1, <2>1, <3>1, CreateCheckStep
      <3>2. CASE \E u \in Users : \E i \in 1..Len(share) : Public!RevokeCheck(r, u, i)
          BY <1>1, <2>1, <3>2, RevokeCheckStep
      <3>3. CASE \E secret \in BOOLEAN : Public!CreateShare(r, secret)
          BY <1>1, <2>1, <3>3, CreateShareStep
      <3>4. CASE Public!RevokeShare(r)
          BY <1>1, <2>1, <3>4, ClosingStep
      <3> QED
          BY <2>2, <3>1, <3>2, <3>3, <3>4 DEF Public!Manage, Public!Ids
    <2>3. ASSUME NEW r \in Requests, Public!FollowLink(r)
          PROVE  SharesInv'
      <3>1. CASE \E kind \in Public!VisitKinds : \E i \in 1..Len(share) : \E d \in Docs :
                   Public!Visit(r, kind, i, d)
          BY <1>1, <2>1, <3>1, VisitStep
      <3>2. CASE \E password \in {"none", "wrong", "right"} : Public!CheckSwitch(r, password)
          BY <1>1, <2>1, <3>2, SwitchStep
      <3>3. CASE Public!VisitDocument(r) \/ Public!VisitRoot(r) \/ Public!VisitManual(r)
          BY <1>1, <2>1, <3>3, DocumentStep, RootStep, ManualStep
      <3>4. CASE Public!VisitAttachment(r) \/ Public!VisitAttachmentRoot(r)
          BY <1>1, <2>1, <3>4, AttachmentStep, AttachmentRootStep
      <3> QED
          BY <2>3, <3>1, <3>2, <3>3, <3>4 DEF Public!FollowLink, Public!Ids
    <2>4. ASSUME Public!Environment
          PROVE  SharesInv'
      <3>1. CASE \E i \in 1..Len(share) : Public!Expire(i)
          BY <1>1, <2>1, <3>1, ClosingStep
      <3>2. CASE \E w \in Workspaces : Public!SetSharing(w)
          BY <1>1, <2>1, <3>2, NothingMoves DEF Public!SetSharing
      <3>3. CASE \E w \in Workspaces : \E f \in Folders : Public!TransferFolder(f, w)
          BY <1>1, <2>1, <3>3, TransferFolderStep
      <3>4. CASE \E f \in Folders : Public!DeleteFolder(f)
          BY <1>1, <2>1, <3>4, DeleteFolderStep
      <3>5. CASE \E d \in Docs : \/ Public!SetStatus(d) \/ Public!DeleteDocument(d)
                                 \/ \E f \in Folders : Public!MoveDocument(d, f)
          BY <1>1, <2>1, <3>5, DocumentSteps
      <3>6. CASE \E d \in Docs : \E f \in Folders : Public!TransferDocument(d, f)
          BY <1>1, <2>1, <3>6, TransferStep
      <3>7. CASE \E u \in Users : \E rl \in Public!Roles : Public!GrantChanges(u, rl)
          BY <1>1, <2>1, <3>7, NothingMoves DEF Public!GrantChanges
      <3> QED
          BY <2>4, <3>1, <3>2, <3>3, <3>4, <3>5, <3>6, <3>7 DEF Public!Environment, Public!Ids
    <2> QED
        BY <1>1, <2>2, <2>3, <2>4 DEF Public!Next, LinksFollow
  <1>2. ASSUME SharesInv, UNCHANGED Public!vars
        PROVE  SharesInv'
    <2>1. UNCHANGED <<folder, document, share, request, bars>>
        BY <1>2 DEF Public!vars
    <2>2. SharesTypes' /\ Gone(folder') /\ InPlace(document', folder', share')
        BY <1>2, <2>1 DEF SharesInv, SharesTypes
    <2>3. \A r \in Requests : VisitOK(request'[r], bars'[r], document', folder', share')
        BY <1>2, <2>1 DEF SharesInv
    <2> QED
        BY <2>2, <2>3 DEF SharesInv
  <1> QED
      BY <1>1, <1>2

(* What visits have found out of the reasons to hide a document, in every  *)
(* reachable state.                                                        *)
THEOREM SharesInvariant == ASSUME LinksFollow PROVE Public!Spec => []SharesInv
  <1>1. Public!Init => SharesInv
      BY InitShares
  <1>2. SharesInv /\ [Public!Next]_Public!vars => SharesInv'
      BY StepShares
  <1> QED
      BY <1>1, <1>2, PTL DEF Public!Spec

(* Folders stay in their workspace, and so do the links to them.           *)
NoLinksLeftBehind == LinksFollow /\ FoldersStay

(* A visitor is shown only documents that nothing kept hidden all through  *)
(* the visit: not the link's end, not the workspace's switch, not a draft, *)
(* not a place outside of what was shared (shares.ts:271).                 *)
THEOREM HiddenStaysHidden ==
    ASSUME NoLinksLeftBehind PROVE Public!Spec => []Public!NothingHiddenIsShown
  <1>1. SharesInv => Public!NothingHiddenIsShown
      BY DEF SharesInv, VisitOK, VisitSaw, Public!NothingHiddenIsShown, NoLinksLeftBehind
  <1> QED
      BY <1>1, SharesInvariant, PTL DEF NoLinksLeftBehind

(* Also when folders are transferred, and the links to them stay behind:   *)
(* nothing but its place can have kept a document hidden that a visitor is *)
(* shown (workspace-transfer.ts:65).                                      *)
THEOREM OnlyPlacesAreMissed ==
    ASSUME LinksFollow PROVE Public!Spec => []Public!HiddenByPlaceOnly
  <1>1. SharesInv => Public!HiddenByPlaceOnly
      BY DEF SharesInv, VisitOK, VisitSaw, Public!HiddenByPlaceOnly
  <1> QED
      BY <1>1, SharesInvariant, PTL
=============================================================================
