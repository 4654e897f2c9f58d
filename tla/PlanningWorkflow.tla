-------------------------- MODULE PlanningWorkflow --------------------------
(***************************************************************************)
(* A plan that several agents and people work out in one document: drafted *)
(* from a template, reviewed in rounds, commented on, decided and made     *)
(* final.  The state of the workflow is in the document's own text, so     *)
(* every step is a write of the document, while the comments are rows      *)
(* beside it and change without a new version.                             *)
(*                                                                         *)
(* A content is what the readiness checks read out of it.  A write is one  *)
(* step here, since DocumentWrite shows what the shared write path does    *)
(* with a base version: it writes when that is still the current one.      *)
(***************************************************************************)
EXTENDS Naturals, Sequences, FiniteSets

CONSTANTS
    Requests,
    Comments,     \* bound on the comments
    Starts,       \* the contents a plan has at first, and that clients send
    Edited,       \* what agents put into a section
    Ops,          \* the operations requests are made for in an instance
    MaxVersions,  \* bound on the versions
    MaxRound      \* bound on the review rounds

VARIABLES
    revision,     \* the versions, each with how it came about
    comment,      \* [Comments -> {"none", "open", "closed"}]
    request

planVars == <<revision, comment, request>>

None == "none"
Steps == {"drafting", "review", "revision", "final-review", "accepted", "deferred"}
Sections == {"plan", "final-plan", "acceptance-criteria"}

(* A section of the template holds a placeholder.  One that is nested has  *)
(* its text below a heading of its own.                                    *)
Fillings == {"tbd", "nested", "filled"}

Template ==
    [status |-> "draft", step |-> "drafting", round |-> 0,
     section |-> [s \in Sections |-> "tbd"],
     asked |-> TRUE,          \* a bullet under "open questions"
     decision |-> None]       \* the status of the decision final-plan

Current == Len(revision)
Content == revision[Current].content
OpenComments == {c \in Comments : comment[c] = "open"}

Idle == [op |-> None, pc |-> "idle", base |-> 0, read |-> 0, since |-> {}, arg |-> None,
         answer |-> None]

-----------------------------------------------------------------------------
(* What the code reads out of a content.                                   *)

(* The web's check reads a section up to the next heading of its level or  *)
(* above, the one for agents up to the next heading.                       *)
PlaceholderForWeb(content, s) == content.section[s] = "tbd"
PlaceholderForMcp(content, s) == content.section[s] # "filled"

Placeholder(byWeb, content, s) ==
    IF byWeb THEN PlaceholderForWeb(content, s) ELSE PlaceholderForMcp(content, s)

(* Acceptance criteria are the bullets up to the next heading.             *)
HasCriteria(content) ==
    content.section["acceptance-criteria"] \in {"filled", "tbd"}

(* A bug: comments do not block.                                           *)
ReadyWithComments(byWeb, content, open) ==
    /\ content.step # None
    /\ ~content.asked
    /\ HasCriteria(content)
    /\ \A s \in Sections : ~Placeholder(byWeb, content, s)
    /\ content.decision \in {None, "accepted"}

Ready(byWeb, content, open) ==
    /\ content.step # None
    /\ open = {}
    /\ ~content.asked
    /\ HasCriteria(content)
    /\ \A s \in Sections : ~Placeholder(byWeb, content, s)
    /\ content.decision \in {None, "accepted"}

(* The text of the final decision also fills in the final plan.            *)
Completed(byWeb, content, given) ==
    IF given /\ Placeholder(byWeb, content, "final-plan")
    THEN [content EXCEPT !.section["final-plan"] = "filled"] ELSE content

Finalized(content) ==
    [content EXCEPT !.decision = "accepted", !.step = "accepted", !.status = "canonical"]

(* What a review makes of a content when the agent's token may update.     *)
Reviewed(content, arg) ==
    [content EXCEPT !.round = @ + 1,
                    !.section["plan"] = IF arg = "edit" THEN "filled" ELSE @,
                    !.decision = IF arg = "decide" THEN "proposed" ELSE @]

RecommendedAction(content, open) ==
    CASE content.step = None -> None
      [] content.status \notin {"draft", "canonical"} -> "human_review"
      [] content.step = "review" -> "comment_only"
      [] content.step = "revision" -> IF open # {} THEN "revise" ELSE "safe_edit"
      [] content.step = "final-review" ->
           IF content.asked \/ open # {} THEN "comment_only" ELSE "human_review"
      [] content.step = "accepted" ->
           IF content.asked \/ open # {} THEN "human_review" ELSE "finalize"
      [] content.step = "drafting" -> "safe_edit"
      [] OTHER -> "human_review"

WorkflowActions(step) ==
    CASE step = "drafting" -> {"review", "deferred"}
      [] step = "review" -> {"revision", "final-review", "deferred"}
      [] step = "revision" -> {"review", "final-review", "deferred"}
      [] step = "final-review" -> {"accepted", "revision", "deferred"}
      [] step = "accepted" -> {"revision"}
      [] step = "deferred" -> {"drafting"}
      [] OTHER -> {"review"}

ReviewRoundAfter(step, next, round) ==
    IF next = "review" /\ step = "revision" THEN round + 1 ELSE round

-----------------------------------------------------------------------------
PlanInit ==
    /\ \E content \in Starts :
         revision = <<[content |-> content, op |-> "start", base |-> 0, ignored |-> {}]>>
    /\ comment = [c \in Comments |-> None]
    /\ request = [k \in Requests |-> Idle]

At(k, op, pc) == request[k].op = op /\ request[k].pc = pc

(* A client asks for something, naming a version that there is.            *)
Arrive(k, op, base, arg) ==
    /\ request[k].pc = "idle" /\ op \in Ops
    /\ request' = [request EXCEPT ![k] =
         [Idle EXCEPT !.op = op, !.pc = "read", !.base = base, !.arg = arg,
                      !.since = OpenComments]]
    /\ UNCHANGED <<revision, comment>>

Answer(k, answer) ==
    request' = [request EXCEPT ![k].pc = "done", ![k].answer = answer]

Go(k, pc) == request' = [request EXCEPT ![k].pc = pc]

(* applyDocumentWrite: drafts are written only by those who opted in.      *)
Write(k, content, optedIn, then) ==
    /\ IF request[k].base # Current \/ (~optedIn /\ Content.status # "canonical")
       THEN Answer(k, "refused") /\ UNCHANGED revision
       ELSE /\ request' = [request EXCEPT ![k].pc = then, ![k].answer = "ok"]
            /\ IF content = Content THEN UNCHANGED revision
               ELSE /\ Current < MaxVersions
                    /\ revision' = Append(revision,
                         [content |-> content, op |-> request[k].op, base |-> request[k].base,
                          ignored |-> request[k].since])
    /\ UNCHANGED comment

ContentRead(k) == revision[request[k].read].content

(* The handlers read the current content first, and edit that.             *)
Read(k, pc) ==
    /\ request' = [request EXCEPT ![k].pc = pc, ![k].read = Current]
    /\ UNCHANGED <<revision, comment>>

-----------------------------------------------------------------------------
(* Edits.                                                                  *)

ReadForEdit(k) ==
    /\ request[k].op \in {"section", "question", "decide", "put", "promote"}
    /\ request[k].pc = "read"
    /\ IF request[k].op = "promote"
       THEN /\ request' = [request EXCEPT ![k].pc = "write", ![k].read = Current,
                                          ![k].base = Current]
            /\ UNCHANGED <<revision, comment>>
       ELSE Read(k, "write")

OptsIn(k) == ContentRead(k).status = "draft"

(* Agents and people fill in sections.                                     *)
ReplaceSection(k) ==
    /\ At(k, "section", "write")
    /\ Write(k, [ContentRead(k) EXCEPT !.section[request[k].arg[1]] = request[k].arg[2]],
             OptsIn(k), "done")

(* They answer the questions, or ask some.                                 *)
EditQuestions(k) ==
    /\ At(k, "question", "write")
    /\ Write(k, [ContentRead(k) EXCEPT !.asked = ~@], OptsIn(k), "done")

(* The decision final-plan is recorded; there must be none of that id.     *)
AddDecision(k) ==
    /\ At(k, "decide", "write")
    /\ IF ContentRead(k).decision # None
       THEN Answer(k, "duplicate") /\ UNCHANGED <<revision, comment>>
       ELSE Write(k, [ContentRead(k) EXCEPT !.decision = request[k].arg], OptsIn(k), "done")

(* A client sends a whole content.                                         *)
UpdateDocument(k) ==
    /\ At(k, "put", "write")
    /\ Write(k, request[k].arg, OptsIn(k), "done")

(* Promotion does not look at the plan.                                    *)
Promote(k) ==
    /\ At(k, "promote", "write")
    /\ Write(k, [ContentRead(k) EXCEPT !.status = "canonical"], TRUE, "done")

-----------------------------------------------------------------------------
(* A review by an agent: a new round, if its token may update, and then    *)
(* the comments, one after the other.                                      *)

ReadForReview(k) ==
    /\ At(k, "review", "read")
    /\ IF request[k].base # Current \/ Content.step = None
       THEN Answer(k, "refused") /\ UNCHANGED <<revision, comment>>
       ELSE Read(k, "write")

ReviewPlan(k) ==
    LET content == ContentRead(k)
        arg == request[k].arg
    IN
    /\ At(k, "review", "write")
    /\ content.round < MaxRound
    /\ CASE arg = "decide" /\ content.decision # None ->
               Answer(k, "duplicate") /\ UNCHANGED <<revision, comment>>
         [] arg = "comments" -> Go(k, "comment") /\ UNCHANGED <<revision, comment>>
         [] OTHER -> Write(k, Reviewed(content, arg), OptsIn(k), "comment")

ReviewComment(k, c) ==
    /\ At(k, "review", "comment")
    /\ comment[c] = None
    /\ comment' = [comment EXCEPT ![c] = "open"]
    /\ \/ Answer(k, "ok")
       \/ Go(k, "comment")
    /\ UNCHANGED revision

-----------------------------------------------------------------------------
(* Making a plan final.                                                    *)

ByWeb(k) == request[k].op = "finalizeWeb"

(* The web's handler compares the versions already here.                   *)
ReadForFinal(k) ==
    /\ request[k].op \in {"finalizeWeb", "finalizeMcp"} /\ request[k].pc = "read"
    /\ IF \/ ByWeb(k) /\ request[k].base # Current
          \/ Content.status \notin {"draft", "canonical"}
       THEN Answer(k, "refused") /\ UNCHANGED <<revision, comment>>
       ELSE Read(k, "comments")

ReadComments(k) ==
    /\ request[k].op \in {"finalizeWeb", "finalizeMcp"} /\ request[k].pc = "comments"
    /\ LET content == Completed(ByWeb(k), ContentRead(k), request[k].arg)
       IN  IF Ready(ByWeb(k), content, OpenComments)
           THEN Go(k, "write")
           ELSE Answer(k, "plan_not_ready")
    /\ UNCHANGED <<revision, comment>>

FinalizePlan(k) ==
    /\ request[k].op \in {"finalizeWeb", "finalizeMcp"} /\ request[k].pc = "write"
    /\ Write(k, Finalized(Completed(ByWeb(k), ContentRead(k), request[k].arg)),
             OptsIn(k), "done")

-----------------------------------------------------------------------------
(* The panel of the web application.  It has the content of one version    *)
(* and, from a query of its own, the packet of another.                    *)

(* The workflow is moved on, in the frontmatter of the content.            *)
Transition(k, base, packet, next) ==
    /\ request[k].pc = "idle" /\ "panel" \in Ops
    /\ LET content == revision[base].content
           shown == revision[packet].content
       IN  /\ shown.step # None
           /\ next \in WorkflowActions(shown.step)
           /\ ReviewRoundAfter(shown.step, next, shown.round) <= MaxRound
           /\ request' = [request EXCEPT ![k] =
                [Idle EXCEPT !.op = "put", !.pc = "read", !.base = base, !.since = OpenComments,
                   !.arg = IF content.step = None THEN content
                           ELSE [content EXCEPT !.step = next,
                                   !.round = ReviewRoundAfter(shown.step, next, shown.round)]]]
    /\ UNCHANGED <<revision, comment>>

(* "Add accepted final decision" and "Mark canonical"; open is what the    *)
(* packet says of the comments, which may have changed.                    *)
PanelDecides(k, base, packet) ==
    LET shown == revision[packet].content IN
    /\ "panel" \in Ops
    /\ shown.step # None /\ ~shown.asked /\ HasCriteria(shown) /\ shown.decision # "accepted"
    /\ Arrive(k, "decide", base, "accepted")

PanelFinalizes(k, base, packet) ==
    LET shown == revision[packet].content IN
    /\ "panel" \in Ops
    /\ RecommendedAction(shown, {}) = "finalize" /\ HasCriteria(shown)
    /\ shown.decision = "accepted"
    /\ Arrive(k, "finalizeWeb", base, FALSE)

-----------------------------------------------------------------------------
(* The comments, and failures.                                             *)

CreateComment(c) ==
    /\ "comment" \in Ops /\ comment[c] = None
    /\ comment' = [comment EXCEPT ![c] = "open"]
    /\ UNCHANGED <<revision, request>>

(* A comment that is resolved or deleted has not been open all the time    *)
(* any more.                                                               *)
CloseComment(c) ==
    /\ comment[c] = "open"
    /\ comment' = [comment EXCEPT ![c] = "closed"]
    /\ request' = [k \in Requests |->
                     IF request[k].pc = "done" THEN request[k]
                     ELSE [request[k] EXCEPT !.since = @ \ {c}]]
    /\ UNCHANGED revision

(* The server goes down, or the database fails: what was written stays.    *)
Crash(k) ==
    /\ request[k].pc \notin {"idle", "done"}
    /\ Answer(k, "failed")
    /\ UNCHANGED <<revision, comment>>

PlanNext ==
    \/ \E k \in Requests, base \in 1..Current :
         \/ \E s \in Sections, filling \in Edited : Arrive(k, "section", base, <<s, filling>>)
         \/ Arrive(k, "question", base, None)
         \/ \E status \in {"proposed", "accepted"} : Arrive(k, "decide", base, status)
         \/ \E content \in Starts : Arrive(k, "put", base, content)
         \/ Arrive(k, "promote", base, None)
         \/ \E arg \in {"comments", "round", "edit", "decide"} :
              Arrive(k, "review", base, arg)
         \/ \E op \in {"finalizeWeb", "finalizeMcp"}, given \in BOOLEAN : Arrive(k, op, base, given)
         \/ \E packet \in 1..Current :
              \/ \E next \in Steps : Transition(k, base, packet, next)
              \/ PanelDecides(k, base, packet)
              \/ PanelFinalizes(k, base, packet)
    \/ \E k \in Requests :
         \/ ReadForEdit(k) \/ ReplaceSection(k) \/ EditQuestions(k) \/ AddDecision(k)
         \/ UpdateDocument(k) \/ Promote(k)
         \/ ReadForReview(k) \/ ReviewPlan(k) \/ (\E c \in Comments : ReviewComment(k, c))
         \/ ReadForFinal(k) \/ ReadComments(k) \/ FinalizePlan(k)
         \/ Crash(k)
    \/ \E c \in Comments : CreateComment(c) \/ CloseComment(c)

PlanSpec == PlanInit /\ [][PlanNext]_planVars

-----------------------------------------------------------------------------
(* Properties.                                                             *)

PlanTypeOK ==
    /\ \A i \in 1..Len(revision) : revision[i].base \in 0..MaxVersions
    /\ comment \in [Comments -> {None, "open", "closed"}]

(* A plan that was made final was complete in the version it replaced, but *)
(* for the text of the final decision, and no comment was open from before *)
(* the request until the plan was final.                                   *)
FinalPlansWereReady ==
    \A i \in 2..Len(revision) :
      LET old == revision[i - 1].content
          new == revision[i]
      IN  new.op \in {"finalizeWeb", "finalizeMcp"} =>
            /\ new.base = i - 1
            /\ new.ignored = {}
            /\ old.step # None /\ ~old.asked /\ old.decision # "proposed"
            /\ old.section["plan"] # "tbd" /\ old.section["acceptance-criteria"] = "filled"
            /\ new.content.section["final-plan"] # "tbd"
            /\ new.content.round = old.round
=============================================================================
