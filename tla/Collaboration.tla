--------------------------- MODULE Collaboration ---------------------------
(***************************************************************************)
(* How several actors, web users and agents with their tokens, coordinate  *)
(* on one document: claims ("I am working on this"), comments, and the     *)
(* read cursors that answer "what changed since I last looked".            *)
(*                                                                         *)
(* None of these handlers opens a transaction: each is a sequence of       *)
(* separate reads and writes, and requests interleave between them.  The   *)
(* first read of a request, with the checks of its rights, is one step.    *)
(* Time shows only in what is compared with it: a claim has expired or     *)
(* not, and the comments older than a cursor are the ones that existed     *)
(* when the cursor was set.                                                *)
(***************************************************************************)
EXTENDS Naturals, FiniteSets, Sequences

CONSTANTS
    Users,
    Actors,       \* who sends requests
    UserOf,       \* [Actors -> Users]: a token acts for the user it belongs to
    Agents,       \* the actors that are tokens; the others are web sessions
    Workspaces,
    Home,         \* the document's workspace at first, the agents' tokens' own
    Requests,
    Ops,          \* the operations requests are made for in an instance
    MaxVersion,   \* bound on the revisions of the document
    MaxClaims,    \* bound on the rows of DocumentClaim
    MaxComments   \* bound on the rows of DocumentComment

VARIABLES
    document,     \* the Document row
    role,         \* [Users -> Roles], what resolveDocumentRole gives
    claim,        \* the DocumentClaim rows, in the order of their creation
    comment,      \* the DocumentComment rows, in the order of their creation
    cursor,       \* the TokenReadCursor row of each actor, if there is one
    given,        \* history: the versions whose whole content each actor was given
    used,         \* history: the versions each actor had a tool work on, without being given them
    request       \* what each request is doing

vars == <<document, role, claim, comment, cursor, given, used, request>>
history == <<given, used>>

Nobody == "nobody"
NoCursor == [version |-> 0, seen |-> {}, ws |-> Home]

Roles == 0..3     \* none, viewer, editor, manager
Viewer == 1
Editor == 2
Manager == 3

Ids(rows) == 1..Len(rows)

Idle == [at |-> "idle", op |-> "none", actor |-> Nobody, target |-> 0,
         ws |-> Home, version |-> 0, rivals |-> {}, answer |-> "none"]

-----------------------------------------------------------------------------
(* Which rows a query sees.                                                *)

Active(c) == ~c.released /\ ~c.expired

(* claims.ts excludes the actor's own claims with NOT tokenId = mine (or   *)
(* NOT userId = mine).  An agent's claim has no userId, a web user's no    *)
(* tokenId, and NOT of a comparison with NULL is not true: only claims of  *)
(* the actor's own kind are ever found.                                    *)
Rivals(a, claims) ==
    {i \in Ids(claims) : /\ Active(claims[i])
                         /\ claims[i].actor # a
                         /\ claims[i].actor \in Agents <=> a \in Agents}

Own(a) == {i \in Ids(claim) : claim[i].actor = a /\ ~claim[i].released}

TokenSees(a, ws) == a \in Agents => ws = Home

Reads(a) == role[UserOf[a]] >= Viewer
Edits(a) == role[UserOf[a]] >= Editor
Manages(a) == role[UserOf[a]] >= Manager

(* The comments of others created after the actor's cursor was set.        *)
OwnComment(a, m) == IF a \in Agents THEN m.author = a
                    ELSE m.author \notin Agents /\ UserOf[m.author] = UserOf[a]
UnreadComments(a) ==
    {i \in Ids(comment) : /\ ~comment[i].gone
                          /\ ~OwnComment(a, comment[i])
                          /\ i \notin cursor[a].seen}

-----------------------------------------------------------------------------
Init ==
    /\ document = [ws |-> Home, live |-> TRUE, version |-> 1]
    /\ role = [u \in Users |-> Manager]
    /\ claim = << >>
    /\ comment = << >>
    /\ cursor = [a \in Actors |-> NoCursor]
    /\ given = [a \in Actors |-> {}]
    /\ used = [a \in Actors |-> {}]
    /\ request = [r \in Requests |-> Idle]

At(r, at) == request[r].at = at
Step(r, at) == request' = [request EXCEPT ![r].at = at]
Answer(r, a) == request' = [request EXCEPT ![r].at = "done", ![r].answer = a]

(* A request remembers the rivals' claims that have been active ever since *)
(* it arrived, until it is answered.                                       *)
Watched(rq, claims) ==
    [r \in Requests |->
       IF rq[r].at = "done" THEN rq[r]
       ELSE [rq[r] EXCEPT !.rivals = {i \in @ : Active(claims[i])}]]

(* The handlers on a document id begin alike: the document must be live,   *)
(* in the workspace of an agent's token, and the role high enough (editor  *)
(* to claim); all else is "not found".                                     *)
Reading == {"read", "inspect", "append", "edit"}
DocumentOps == {"claim", "release", "comment"} \cup Reading

Enter(r, a, op) ==
    /\ At(r, "idle") /\ op \in DocumentOps \cap Ops
    /\ request' = [request EXCEPT ![r] =
         [Idle EXCEPT !.op = op, !.actor = a, !.ws = document.ws,
                      !.version = document.version,
                      !.rivals = IF op = "claim" THEN Rivals(a, claim) ELSE {},
                      !.at = IF /\ document.live /\ TokenSees(a, document.ws)
                                /\ role[UserOf[a]] >= IF op = "claim" THEN Editor ELSE Viewer
                             THEN op ELSE "done",
                      !.answer = "not_found"]]
    /\ UNCHANGED <<document, role, claim, comment, cursor, history>>

-----------------------------------------------------------------------------
(* Claims.                                                                 *)

(* A bug: nobody looks for the claims of others.                           *)
ClaimCheckNone(r) ==
    /\ At(r, "claim") /\ Step(r, "own")
    /\ UNCHANGED <<document, role, claim, comment, cursor, history>>

(* Only claims that have not expired stop another.                         *)
ClaimCheck(r) ==
    /\ At(r, "claim")
    /\ IF Rivals(request[r].actor, claim) # {} THEN Answer(r, "conflict") ELSE Step(r, "own")
    /\ UNCHANGED <<document, role, claim, comment, cursor, history>>

FindOwn(r, then, none) ==
    /\ \/ \E i \in Own(request[r].actor) :
            request' = [request EXCEPT ![r].at = then, ![r].target = i]
       \/ Own(request[r].actor) = {} /\ none
    /\ UNCHANGED <<document, role, claim, comment, cursor, history>>

ClaimFind(r) == At(r, "own") /\ FindOwn(r, "refresh", Step(r, "create"))

SetClaims(r, claims, answer) ==
    /\ claim' = claims
    /\ request' = Watched([request EXCEPT ![r].at = "done", ![r].answer = answer], claims)
    /\ UNCHANGED <<document, role, comment, cursor, history>>

(* The row found is given a new expiry, whether or not it was released     *)
(* since.                                                                  *)
ClaimRefresh(r) ==
    /\ At(r, "refresh")
    /\ SetClaims(r, [claim EXCEPT ![request[r].target].expired = FALSE], "ok")

ClaimCreate(r) ==
    /\ At(r, "create") /\ Len(claim) < MaxClaims
    /\ SetClaims(r, Append(claim, [actor |-> request[r].actor, ws |-> request[r].ws,
                                   released |-> FALSE, expired |-> FALSE]), "ok")

ReleaseFind(r) == At(r, "release") /\ FindOwn(r, "free", Answer(r, "ok"))

ReleaseRow(r) ==
    /\ At(r, "free")
    /\ SetClaims(r, [claim EXCEPT ![request[r].target].released = TRUE], "ok")

(* A manager, or the claim's owner, releases one claim by its id.          *)
AdminRelease(r, a, i) ==
    /\ At(r, "idle") /\ "adminRelease" \in Ops
    /\ LET answer == CASE ~TokenSees(a, claim[i].ws) \/ ~Reads(a) -> "not_found"
                       [] claim[i].actor # a /\ ~Manages(a) -> "forbidden"
                       [] OTHER -> "ok"
       IN  request' = [request EXCEPT ![r] =
             [Idle EXCEPT !.op = "adminRelease", !.actor = a, !.target = i, !.answer = answer,
                          !.at = IF answer = "ok" /\ ~claim[i].released THEN "free" ELSE "done"]]
    /\ UNCHANGED <<document, role, claim, comment, cursor, history>>

(* A claim's time runs out: its agent crashed, or works on.                *)
Expire(i) ==
    /\ Active(claim[i])
    /\ claim' = [claim EXCEPT ![i].expired = TRUE]
    /\ request' = Watched(request, claim')
    /\ UNCHANGED <<document, role, comment, cursor, history>>

-----------------------------------------------------------------------------
(* Comments.                                                               *)

CreateComment(r) ==
    /\ At(r, "comment") /\ Len(comment) < MaxComments
    /\ comment' = Append(comment, [author |-> request[r].actor, ws |-> request[r].ws,
                                   resolver |-> Nobody, events |-> 0, gone |-> FALSE])
    /\ Answer(r, "ok")
    /\ UNCHANGED <<document, role, claim, cursor, history>>

CommentAnswer(a, m) ==
    CASE m.gone \/ ~TokenSees(a, m.ws) \/ ~Reads(a) -> "not_found"
      [] UserOf[m.author] # UserOf[a] /\ ~Manages(a) -> "forbidden"
      [] OTHER -> "ok"

(* resolve and delete read the comment and the role; a comment already     *)
(* resolved is answered as it is.                                          *)
OnComment(r, a, i, op) ==
    /\ At(r, "idle") /\ op \in {"resolve", "deleteComment"} \cap Ops
    /\ LET answer == CommentAnswer(a, comment[i])
           write == answer = "ok" /\ (op = "resolve" => comment[i].resolver = Nobody)
       IN  request' = [request EXCEPT ![r] =
             [Idle EXCEPT !.op = op, !.actor = a, !.target = i, !.answer = answer,
                          !.at = IF write THEN op ELSE "done"]]
    /\ UNCHANGED <<document, role, claim, comment, cursor, history>>

(* An update or a delete of a row deleted since then throws.               *)
Throws(r) ==
    /\ request[r].at \in {"resolve", "deleteComment"} /\ comment[request[r].target].gone
    /\ Answer(r, "error")
    /\ UNCHANGED <<document, role, claim, comment, cursor, history>>

ResolveComment(r) ==
    /\ At(r, "resolve") /\ ~comment[request[r].target].gone
    /\ comment' = [comment EXCEPT ![request[r].target].resolver = request[r].actor,
                                  ![request[r].target].events = @ + 1]
    /\ Answer(r, "ok")
    /\ UNCHANGED <<document, role, claim, cursor, history>>

DeleteComment(r) ==
    /\ At(r, "deleteComment") /\ ~comment[request[r].target].gone
    /\ comment' = [comment EXCEPT ![request[r].target].gone = TRUE]
    /\ Answer(r, "ok")
    /\ UNCHANGED <<document, role, claim, cursor, history>>

-----------------------------------------------------------------------------
(* Read cursors.                                                           *)

(* pageden_read_document and the resources return what readDocument read   *)
(* ("read").  Other tools call it as well: they return a section, a part,  *)
(* headings, decisions, counts or citations ("inspect"), or write: a text  *)
(* appended to the one read ("append"), or an edit of it on the base that  *)
(* the client names ("edit").                                              *)
WorkOn(r) ==
    LET a == request[r].actor
        version == request[r].version IN
    /\ IF request[r].op = "read"
       THEN given' = [given EXCEPT ![a] = @ \cup {version}] /\ UNCHANGED used
       ELSE used' = [used EXCEPT ![a] = @ \cup {version}] /\ UNCHANGED given
    /\ IF request[r].op \in {"append", "edit"}
       THEN Step(r, "write") \/ Answer(r, "error")
       ELSE Answer(r, "ok")
    /\ UNCHANGED <<document, role, claim, comment>>

(* A bug: the cursor is set to the version there is by now.                *)
TouchCurrent(r) ==
    LET a == request[r].actor IN
    /\ request[r].at \in Reading
    /\ cursor' = [cursor EXCEPT ![a] = [version |-> document.version, seen |-> Ids(comment),
                                        ws |-> document.ws]]
    /\ WorkOn(r)

(* readDocument sets the cursor of whoever called the tool to the version  *)
(* it read, and to the time of now: the comments there are by now count as *)
(* seen.  A cursor that cannot be written does not fail the tool.          *)
TouchReadCursor(r) ==
    LET a == request[r].actor IN
    /\ request[r].at \in Reading
    /\ \/ cursor' = [cursor EXCEPT ![a] =
            [version |-> request[r].version, seen |-> Ids(comment),
             ws |-> IF cursor[a] = NoCursor THEN request[r].ws ELSE cursor[a].ws]]
       \/ UNCHANGED cursor
    /\ WorkOn(r)

(* applyDocumentWrite in one step: the cursor stays with the version that  *)
(* was read, whether or not the write is refused.  A refusal for the       *)
(* document's status is one of the errors above.                           *)
WriteAnswer(r, base) ==
    CASE ~document.live \/ ~Reads(request[r].actor) -> "not_found"
      [] document.live /\ role[UserOf[request[r].actor]] = Viewer -> "forbidden"
      [] document.live /\ Edits(request[r].actor) /\ base # document.version -> "conflict"
      [] OTHER -> "ok"

(* An edit may change nothing, and then makes no version.                  *)
Write(r) ==
    /\ At(r, "write")
    /\ \E base \in IF request[r].op = "append" THEN {request[r].version} ELSE 1..document.version :
         LET answer == WriteAnswer(r, base) IN
         /\ Answer(r, answer)
         /\ \/ answer = "ok" /\ document.version < MaxVersion
               /\ document' = [document EXCEPT !.version = @ + 1]
            \/ (answer = "ok" => request[r].op = "edit") /\ UNCHANGED document
    /\ UNCHANGED <<role, claim, comment, cursor, history>>

(* pageden_my_unread reads the live documents of a workspace, and then the *)
(* cursors and the comments.                                               *)
UnreadDocuments(r, a, ws) ==
    /\ At(r, "idle") /\ "unread" \in Ops /\ TokenSees(a, ws)
    /\ request' = [request EXCEPT ![r] =
         [Idle EXCEPT !.op = "unread", !.actor = a, !.ws = ws, !.version = document.version,
                      !.at = IF document.live /\ document.ws = ws THEN "unread" ELSE "done",
                      !.answer = "absent"]]
    /\ UNCHANGED <<document, role, claim, comment, cursor, history>>

UpToDate(a, ws, version) ==
    /\ cursor[a].version = version /\ cursor[a].ws = ws
    /\ UnreadComments(a) = {}

UnreadList(r) ==
    LET a == request[r].actor IN
    /\ At(r, "unread")
    /\ Answer(r, CASE ~Reads(a) -> "absent"
                   [] UpToDate(a, request[r].ws, request[r].version) -> "omitted"
                   [] OTHER -> "listed")
    /\ UNCHANGED <<document, role, claim, comment, cursor, history>>

-----------------------------------------------------------------------------
(* What happens to the document meanwhile.                                 *)

Revise ==
    /\ "revise" \in Ops /\ document.live /\ document.version < MaxVersion
    /\ document' = [document EXCEPT !.version = @ + 1]
    /\ UNCHANGED <<role, claim, comment, cursor, history, request>>

DeleteDocument ==
    /\ "delete" \in Ops /\ document.live
    /\ document' = [document EXCEPT !.live = FALSE]
    /\ UNCHANGED <<role, claim, comment, cursor, history, request>>

(* A transfer takes the rows of the document with it; the cursors of the   *)
(* actors that have none stay none.                                        *)
Transfer(ws) ==
    /\ "transfer" \in Ops /\ document.live /\ ws # document.ws
    /\ document' = [document EXCEPT !.ws = ws]
    /\ claim' = [i \in Ids(claim) |-> [claim[i] EXCEPT !.ws = ws]]
    /\ comment' = [i \in Ids(comment) |-> [comment[i] EXCEPT !.ws = ws]]
    /\ cursor' = [a \in Actors |-> IF cursor[a] = NoCursor THEN NoCursor
                                   ELSE [cursor[a] EXCEPT !.ws = ws]]
    /\ UNCHANGED <<role, history, request>>

GrantChanges(u, rl) ==
    /\ "grant" \in Ops /\ role[u] # rl
    /\ role' = [role EXCEPT ![u] = rl]
    /\ UNCHANGED <<document, claim, comment, cursor, history, request>>

-----------------------------------------------------------------------------
Handle(r) ==
    \/ ClaimCheck(r) \/ ClaimFind(r) \/ ClaimRefresh(r) \/ ClaimCreate(r)
    \/ ReleaseFind(r) \/ ReleaseRow(r)
    \/ CreateComment(r) \/ ResolveComment(r) \/ DeleteComment(r) \/ Throws(r)
    \/ TouchReadCursor(r) \/ Write(r) \/ UnreadList(r)

Arrive(r, a) ==
    \/ \E op \in DocumentOps : Enter(r, a, op)
    \/ \E i \in Ids(claim) : AdminRelease(r, a, i)
    \/ \E i \in Ids(comment) : \E op \in {"resolve", "deleteComment"} : OnComment(r, a, i, op)
    \/ \E ws \in Workspaces : UnreadDocuments(r, a, ws)

Environment ==
    \/ \E i \in Ids(claim) : Expire(i)
    \/ Revise \/ DeleteDocument
    \/ \E ws \in Workspaces : Transfer(ws)
    \/ \E u \in Users : \E rl \in Roles : GrantChanges(u, rl)

Next ==
    \/ \E r \in Requests : Handle(r) \/ \E a \in Actors : Arrive(r, a)
    \/ Environment

Spec == Init /\ [][Next]_vars

-----------------------------------------------------------------------------
(* Properties.                                                             *)

ClaimRow == [actor : Actors, ws : Workspaces, released : BOOLEAN, expired : BOOLEAN]
CommentRow == [author : Actors, ws : Workspaces, resolver : Actors \cup {Nobody},
               events : 0..Cardinality(Requests), gone : BOOLEAN]
Places == {"idle", "claim", "own", "refresh", "create", "release", "free", "comment",
           "resolve", "deleteComment", "write", "unread", "done"} \cup Reading
Answers == {"none", "ok", "conflict", "not_found", "forbidden", "error",
            "absent", "omitted", "listed"}

(* The rows and the requests keep their types.                             *)
TypeOK ==
    /\ document \in [ws : Workspaces, live : BOOLEAN, version : 1..MaxVersion]
    /\ role \in [Users -> Roles]
    /\ claim \in Seq(ClaimRow) /\ Len(claim) <= MaxClaims
    /\ comment \in Seq(CommentRow) /\ Len(comment) <= MaxComments
    /\ \A a \in Actors : /\ cursor[a].version \in 0..MaxVersion
                         /\ cursor[a].seen \subseteq Ids(comment)
                         /\ given[a] \cup used[a] \subseteq 1..MaxVersion
    /\ \A r \in Requests : /\ request[r].at \in Places
                           /\ request[r].answer \in Answers
                           /\ request[r].rivals \subseteq Ids(claim)

(* A claim is granted only when every rival's claim was released or ran    *)
(* out while the request went on: whoever asks after a claim was granted,  *)
(* and while it stays active, is told of the conflict (claims.ts:100).     *)
(* Two requests at once may both be granted; a later one never is.         *)
GrantedAlone ==
    \A r \in Requests : request[r].op = "claim" /\ request[r].answer = "ok" =>
        request[r].rivals = {}

(* A document is left out of an actor's unread list only in a version that *)
(* a call of the actor has read: one the actor was given or had a tool     *)
(* work on.  Revisions, reads, the actor's own writes and transfers in any *)
(* order never take the cursor past it (read-cursors.ts:8).                *)
NoRevisionMissed ==
    \A r \in Requests : request[r].answer = "omitted" =>
        request[r].version \in given[request[r].actor] \cup used[request[r].actor]
=============================================================================
