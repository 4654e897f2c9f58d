------------------------------ MODULE Reading ------------------------------
(***************************************************************************)
(* Reading a workspace: search (search/service.ts), the tools with which   *)
(* agents read, list and cite documents (mcp/routes.ts), the links between *)
(* documents as three parts of the server resolve them (ai-readiness.ts,   *)
(* documents/relationships.ts, documents/wikilinks.ts) and their rewriting.*)
(*                                                                         *)
(* One request reads in several steps, while others save, delete, create   *)
(* and share documents in between.                                         *)
(***************************************************************************)
EXTENDS Naturals, FiniteSets, Sequences, SequencesExt

CONSTANTS
    Docs,           \* document ids, numbers
    Spaces,         \* the workspaces of the user, numbers in the order they are asked
    Contents,       \* sets of links: [form, to], a name being [base, fancy]
    Starts,         \* what the documents may be at first
    Variants,       \* what is searched for: the query, then its words
    Replacements,   \* sequences of pairs of names a rewrite may have, the two different
                    \* (a link replaced by itself is replaced forever)
    PageSize, Limit, ScanCap, RecentCap, BacklinkCap,
    MaxOthers,      \* bound on the changes of others
    Kinds,
    None

VARIABLES
    doc,        \* [live, space, role, scoped, title, slug, body, stamp]; scoped: where agents
                \* may edit; body: the versions' contents
    request,
    others,     \* bound: changes of others so far
    touched,    \* history: the documents others changed since the request began
    slipped,    \* history: those that moved over to the pages already read
    saved       \* history: the versions that others made, <<document, number>>

vars == <<doc, request, others, touched, slipped, saved>>
changes == <<others, touched, slipped, saved>>

Idle == [at |-> "idle", kind |-> None, space |-> 0, roles |-> <<>>, rows |-> <<>>, variant |-> 1,
         offset |-> 0, found |-> <<>>, todo |-> <<>>, seen |-> 0, said |-> <<>>, failed |-> FALSE,
         lists |-> <<>>, pairs |-> <<>>, dry |-> FALSE, agent |-> FALSE]

Init ==
    /\ doc \in Starts
    /\ request = Idle
    /\ others = 0 /\ touched = {} /\ slipped = {}
    /\ saved = UNION {{d} \X DOMAIN doc[d].body : d \in Docs}

Version(d) == Len(doc[d].body)
Content(d) == Last(doc[d].body)
Live(space) == {d \in Docs : doc[d].live /\ doc[d].space = space}
Roles == [d \in Docs |-> IF doc[d].live THEN doc[d].role ELSE "none"]
NextStamp == 1 + Cardinality(Docs) + others + Len(request.said)

(* The sequences of the members of a set in an order, a set of pairs.      *)
InOrder(S, order) == {s \in SetToSeqs(S) : \A i, j \in DOMAIN s : i < j => <<s[i], s[j]>> \in order}
Along(s) == {p \in Range(s) \X Range(s) : \E i, j \in DOMAIN s : i < j /\ p = <<s[i], s[j]>>}
Kept(s, S) == InOrder(Range(s) \cap S, Along(s))

ByTime(S) == InOrder(S, {p \in Docs \X Docs : doc[p[1]].stamp >= doc[p[2]].stamp})
Slice(s, from, n) == SubSeq(s, from + 1, IF Len(s) < from + n THEN Len(s) ELSE from + n)
FirstOf(s, n) == Slice(s, 0, n)

-----------------------------------------------------------------------------
(* Links.                                                                  *)
Fuzzy(n) == [n EXCEPT !.fancy = FALSE]                      \* applyTypographic
LinkedBy(c, forms) == {l.to : l \in {k \in c : k.form \in forms}}
Wikilinks(c) == LinkedBy(c, {"wiki", "alias"})              \* extractWikiLinks, code masked
Targets(c) == Wikilinks(c) \cup LinkedBy(c, {"markdown"})   \* extractMarkdownLinkTargets
Tokens(d) == {doc[d].title, doc[d].slug}                    \* tokensForDoc

Readable(space) == {d \in Live(space) : doc[d].role # "none"}

(* brokenWikiLinks and countBrokenWikilinks: in the whole workspace        *)
Unknown(space, c) == {t \in Wikilinks(c) : \A d \in Live(space) : t \notin Tokens(d)}

(* resolveWikilink: by title, by path, by slug, then without typography    *)
Resolves(t, space) ==
    \E d \in Readable(space) : {t, Fuzzy(t)} \cap {Fuzzy(n) : n \in Tokens(d)} # {}
LintBroken(space, c) == {t \in Wikilinks(c) : ~Resolves(t, space)}

(* documentRelationships: a token that several documents have leads to one *)
(* of them.  Of the other documents so many are looked at for backlinks, in *)
(* the order in which the database happens to give them.                   *)
Hits(t, space) == {d \in Readable(space) : t \in Tokens(d)}
Scans(d, space) ==
    LET rest == Readable(space) \ {d} IN
    {S \in SUBSET rest : \/ S = rest /\ Cardinality(rest) <= BacklinkCap
                         \/ Cardinality(S) = BacklinkCap}
ReferencedBy(d, scan) == {e \in scan : Targets(Content(e)) \cap Tokens(d) # {}}

-----------------------------------------------------------------------------
(* Search.                                                                 *)
Words(d) == {l.to.base : l \in Content(d)}
Rank(d, w) == IF w = doc[d].title.base THEN 1 ELSE IF w = doc[d].slug.base THEN 2 ELSE 4
Matching(w) == {d \in Live(request.space) : w \in {doc[d].title.base, doc[d].slug.base} \cup Words(d)}

(* By rank, then the newest, then by id.                                   *)
Precedes(a, b, w) ==
    \/ Rank(a, w) < Rank(b, w)
    \/ /\ Rank(a, w) = Rank(b, w)
       /\ doc[a].stamp > doc[b].stamp \/ (doc[a].stamp = doc[b].stamp /\ a < b)
Ordered(w) == InOrder(Matching(w), {p \in Docs \X Docs : Precedes(p[1], p[2], w)})
Place(d, w) == 1 + Cardinality({e \in Matching(w) : Precedes(e, d, w)})

Go(q) == request' = q
Begin(kind, at, q) ==
    /\ request.at = "idle" /\ kind \in Kinds
    /\ Go([q EXCEPT !.at = at, !.kind = kind])
    /\ UNCHANGED <<doc, changes>>

(* buildWorkspaceResolver                                                  *)
StartSearch(kind, space) == Begin(kind, "page", [Idle EXCEPT !.space = space, !.roles = Roles])

(* A bug: a page with nothing to show is taken for the last one.           *)
LastPageIfEmpty(rows, shown) == shown = <<>>

LastPage(rows, shown) == Len(rows) < PageSize

(* searchCandidatePage, and what its rows add                              *)
SearchPage ==
    LET q == request IN
    /\ q.at = "page"
    /\ \E all \in Ordered(Variants[q.variant]) :
       \E shown \in Kept(Slice(all, q.offset, PageSize),
                         {d \in Docs : q.roles[d] # "none"} \ Range(q.found)) :
         LET found == FirstOf(q.found \o shown, Limit)
             ended == \/ LastPage(Slice(all, q.offset, PageSize), shown)
                      \/ q.offset + PageSize >= ScanCap IN
         Go([q EXCEPT !.found = found,
                      !.offset = IF ended THEN 0 ELSE @ + PageSize,
                      !.variant = IF ended THEN @ + 1 ELSE @,
                      !.at = IF Len(found) = Limit \/ (ended /\ q.variant = Len(Variants))
                             THEN "snippets" ELSE "page"])
    /\ UNCHANGED <<doc, changes>>

(* The bodies of what was found are read at the end; answerFromDocs then   *)
(* reads each document.                                                    *)
Snippets ==
    LET q == request IN
    /\ q.at = "snippets"
    /\ Go([q EXCEPT !.rows = {d \in Range(q.found) : doc[d].live}, !.todo = q.found,
                    !.at = IF q.kind = "answer" /\ q.found # <<>> THEN "row" ELSE "done"])
    /\ UNCHANGED <<doc, changes>>

-----------------------------------------------------------------------------
(* Reading a document: in chunks, with the section changed last, or as a   *)
(* citation.                                                               *)
StartRead(kind, d) == Begin(kind, "row", [Idle EXCEPT !.todo = <<d>>])

Fail == Go([request EXCEPT !.at = "done", !.failed = TRUE])

(* readDocument: the row with its version                                  *)
ReadRow ==
    LET q == request
        d == Head(q.todo) IN
    /\ q.at = "row"
    /\ IF doc[d].live THEN Go([q EXCEPT !.at = "body", !.seen = Version(d)]) ELSE Fail
    /\ UNCHANGED <<doc, changes>>

(* ... then the role, and the content of that version                      *)
ReadBody ==
    LET q == request
        d == Head(q.todo)
        chunk == [version |-> q.seen, content |-> doc[d].body[q.seen]]
        again == \/ q.kind = "chunks" /\ Len(q.said) = 0
                 \/ q.kind = "answer" /\ Len(q.todo) > 1
        at == IF again THEN "row" ELSE IF q.kind = "latest" THEN "latest" ELSE "done" IN
    /\ q.at = "body"
    /\ IF Roles[d] = "none" THEN Fail
       ELSE Go([q EXCEPT !.at = at, !.said = Append(@, chunk),
                         !.todo = IF q.kind = "answer" THEN Tail(@) ELSE @])
    /\ UNCHANGED <<doc, changes>>

(* latestChangedSectionFor: the version before the one the document has by *)
(* now, compared with the content that was read                            *)
ReadLatest ==
    LET q == request
        d == Head(q.todo)
        previous == Version(d) - 1 IN
    /\ q.at = "latest"
    /\ Go([q EXCEPT !.at = "done",
                    !.said = Append(@, [version |-> previous,
                                        content |-> IF previous = 0 THEN None ELSE doc[d].body[previous]])])
    /\ UNCHANGED <<doc, changes>>

-----------------------------------------------------------------------------
(* Lists over one workspace or over all of the user's: what changed        *)
(* lately, the decisions, all documents.  The workspaces are asked at once.*)
StartList(kind, asked) ==
    Begin(kind, "list", [Idle EXCEPT !.roles = [s \in asked |-> None], !.lists = [s \in asked |-> None]])

ResolveIn(s) ==
    /\ request.at = "list" /\ s \in DOMAIN request.lists /\ request.roles[s] = None
    /\ Go([request EXCEPT !.roles[s] = Roles])
    /\ UNCHANGED <<doc, changes>>

HasDecision(d) == LinkedBy(Content(d), {"decision"}) # {}

Readables(s) == {d \in Live(s) : request.roles[s][d] # "none"}

Asked(kind, s) ==
    /\ request.kind = kind /\ request.at = "list" /\ s \in DOMAIN request.lists
    /\ request.roles[s] # None /\ request.lists[s] = None
Answer(s, rows) ==
    /\ Go([request EXCEPT !.lists[s] = [i \in DOMAIN rows |-> <<rows[i], doc[rows[i]].stamp>>]])
    /\ UNCHANGED <<doc, changes>>

(* Of the newest up to a cap, those that may be read.                      *)
RecentIn(s) ==
    /\ Asked("recent", s)
    /\ \E all \in ByTime(Live(s)) : \E open \in Kept(FirstOf(all, RecentCap), Readables(s)) :
          Answer(s, FirstOf(open, Limit))

(* Of the newest that may be read, up to a cap, those with decisions.      *)
DecisionsIn(s) ==
    /\ Asked("decisions", s)
    /\ \E open \in ByTime(Readables(s)) :
       \E decided \in Kept(FirstOf(open, RecentCap), {d \in Docs : HasDecision(d)}) :
          Answer(s, FirstOf(decided, Limit))

DocumentsIn(s) ==
    /\ Asked("documents", s)
    /\ \E open \in InOrder(Readables(s), {p \in Docs \X Docs : p[1] < p[2]}) : Answer(s, open)

(* The rows of all workspaces: those of one behind those of another, or    *)
(* sorted again, as recent changes are and decisions are not.              *)
AllRows(lists) == UNION {Range(lists[s]) : s \in DOMAIN lists}
Concatenated(lists) ==
    InOrder(AllRows(lists),
            UNION {Along(lists[s]) : s \in DOMAIN lists} \cup
            UNION {UNION {Range(lists[s]) \X Range(lists[t]) : t \in {r \in DOMAIN lists : r > s}} :
                   s \in DOMAIN lists})
SortedRows(lists) ==
    InOrder(AllRows(lists), {p \in AllRows(lists) \X AllRows(lists) : p[1][2] >= p[2][2]})

Answered(kind) == request.at = "list" /\ request.kind = kind /\ None \notin Range(request.lists)
Finish(found) ==
    /\ Go([request EXCEPT !.at = "done", !.found = found])
    /\ UNCHANGED <<doc, changes>>

MergeRecent ==
    Answered("recent") /\ \E rows \in SortedRows(request.lists) : Finish(FirstOf(rows, Limit))
MergeDecisions ==
    Answered("decisions") /\ \E rows \in Concatenated(request.lists) : Finish(FirstOf(rows, Limit))
MergeDocuments ==
    Answered("documents") /\ \E rows \in Concatenated(request.lists) : Finish(rows)

-----------------------------------------------------------------------------
(* rewriteWikilinks                                                        *)
(* What a link says while the pairs are replaced one after the other.      *)
Trails(name, pairs) ==
    {w \in [0..Len(pairs) -> {name} \cup {pairs[i][2] : i \in DOMAIN pairs}] :
        /\ w[0] = name
        /\ \A i \in DOMAIN pairs : w[i] = IF w[i - 1] = pairs[i][1] THEN pairs[i][2] ELSE w[i - 1]}

Exact == {"wiki", "code"}
Rewritten(c, pairs) ==
    {l \in c : l.form \notin Exact} \cup
    UNION {{[l EXCEPT !.to = w[Len(pairs)]] : w \in Trails(l.to, pairs)} : l \in {k \in c : k.form \in Exact}}
Occurs(c, pairs) ==
    \E l \in c : /\ l.form \in Exact
                 /\ \E w \in Trails(l.to, pairs) : \E i \in DOMAIN pairs : w[i - 1] = pairs[i][1]

StartRewrite(space, pairs, dry, agent) ==
    LET mine == {d \in Live(space) : doc[d].role = "editor"} IN
    \E todo \in SetToSeqs(mine) :
      Begin("rewrite", IF mine = {} THEN "done" ELSE "rewrite",
            [Idle EXCEPT !.space = space, !.pairs = pairs, !.dry = dry, !.agent = agent,
                         !.todo = todo, !.rows = [d \in mine |-> Version(d)]])

(* authorizeDocumentRole: an agent's token writes only where agents may.   *)
(* The documents to rewrite were chosen without regard to that.            *)
InScope(d) == request.agent => doc[d].scoped
MayWrite(d) == Roles[d] = "editor" /\ InScope(d)

(* The listed version is read, and what it becomes is written from it.     *)
RewriteNext ==
    LET q == request
        d == Head(q.todo)
        content == doc[d].body[q.rows[d]]
        next == Rewritten(content, q.pairs)
        accepted == MayWrite(d) /\ Version(d) = q.rows[d]
        outcome == IF ~Occurs(content, q.pairs) THEN "skipped"
                   ELSE IF q.dry THEN "would_write"
                   ELSE IF accepted THEN "written" ELSE "error" IN
    /\ q.at = "rewrite"
    /\ Go([q EXCEPT !.todo = Tail(@), !.said = Append(@, <<d, outcome>>),
                    !.at = IF Len(q.todo) = 1 THEN "done" ELSE @])
    /\ doc' = IF outcome = "written" /\ next # content
              THEN [doc EXCEPT ![d].body = Append(@, next), ![d].stamp = NextStamp] ELSE doc
    /\ UNCHANGED changes

-----------------------------------------------------------------------------
(* What others do meanwhile.                                               *)
Other(d) ==
    /\ request.at \notin {"idle", "done"}
    /\ others < MaxOthers /\ others' = others + 1
    /\ touched' = touched \cup {d}
    /\ UNCHANGED request
    /\ slipped' = slipped \cup
         IF request.at # "page" THEN {}
         ELSE LET w == Variants[request.variant] IN
              {e \in Matching(w) \cap Matching(w)' :
                  Place(e, w) > request.offset /\ Place(e, w)' <= request.offset}

Save(d, c) ==
    /\ doc[d].live /\ Content(d) # c
    /\ doc' = [doc EXCEPT ![d].body = Append(@, c), ![d].stamp = NextStamp]
    /\ saved' = saved \cup {<<d, Version(d) + 1>>}
    /\ Other(d)

Delete(d) ==
    /\ doc[d].live
    /\ doc' = [doc EXCEPT ![d].live = FALSE]
    /\ Other(d) /\ UNCHANGED saved

(* A grant on the document is made, changed or taken.                      *)
Grant(d, role) ==
    /\ doc[d].live /\ doc[d].role # role
    /\ doc' = [doc EXCEPT ![d].role = role]
    /\ Other(d) /\ UNCHANGED saved

(* The document moves into the agents' scope or out of it, or the scope is *)
(* set elsewhere; only a rewrite looks at it.                              *)
Rescope(d) ==
    /\ doc[d].live /\ request.kind = "rewrite"
    /\ doc' = [doc EXCEPT ![d].scoped = ~@]
    /\ Other(d) /\ UNCHANGED saved

Next ==
    \/ \E s \in Spaces : \E kind \in {"search", "answer"} : StartSearch(kind, s)
    \/ \E d \in Docs : \E kind \in {"chunks", "latest"} : doc[d].live /\ StartRead(kind, d)
    \/ \E asked \in (SUBSET Spaces) \ {{}} : \E kind \in {"recent", "decisions", "documents"} : StartList(kind, asked)
    \/ \E s \in Spaces : \E pairs \in Replacements : \E dry, agent \in BOOLEAN : StartRewrite(s, pairs, dry, agent)
    \/ SearchPage \/ Snippets \/ ReadRow \/ ReadBody \/ ReadLatest \/ MergeRecent \/ MergeDecisions
    \/ MergeDocuments \/ RewriteNext
    \/ \E s \in Spaces : ResolveIn(s) \/ RecentIn(s) \/ DecisionsIn(s) \/ DocumentsIn(s)
    \/ \E d \in Docs : \/ \E c \in Contents : Save(d, c)
                       \/ Delete(d) \/ Rescope(d)
                       \/ \E role \in {"none", "viewer", "editor"} : Grant(d, role)

Spec == Init /\ [][Next]_vars

-----------------------------------------------------------------------------
(* Properties.                                                             *)
Done(kinds) == request.at = "done" /\ request.kind \in kinds

(* A search finds nothing twice; if it finds less than its limit, it has   *)
(* every document that matched and could be read, except those that        *)
(* changed, that slipped to a page already read because others went, or    *)
(* that come after the cap.                                                *)
SearchFinds ==
    Done({"search", "answer"}) =>
        /\ IsInjective(request.found)
        /\ Len(request.found) < Limit =>
             \A i \in DOMAIN Variants : \A d \in Matching(Variants[i]) \ (touched \cup slipped) :
                 \/ request.roles[d] = "none" \/ d \in Range(request.found)
                 \/ Cardinality(Matching(Variants[i]) \cup touched) > ScanCap

(* The tools that follow links agree: what the panel of relationships      *)
(* resolves, neither the lint nor the readiness score calls broken, and a  *)
(* reference that can only mean one document is among that document's      *)
(* backlinks, unless there are more documents than are looked at; a        *)
(* backlink is a document that has such a reference.                       *)
LinksAgree ==
    \A s \in Spaces : \A d \in Readable(s) :
        /\ \A t \in Wikilinks(Content(d)) : Hits(t, s) # {} =>
               t \notin LintBroken(s, Content(d)) \cup Unknown(s, Content(d))
        /\ \A e \in Readable(s) \ {d} : \A scan \in Scans(e, s) :
               /\ (\E t \in Targets(Content(d)) : Hits(t, s) = {e}) =>
                      \/ d \in ReferencedBy(e, scan)
                      \/ Cardinality(Readable(s) \ {e}) > BacklinkCap
               /\ d \in ReferencedBy(e, scan) => \E t \in Targets(Content(d)) : e \in Hits(t, s)

(* Chunks that name one version are of one text; the section changed last  *)
(* is the one changed by the version read, unless a newer one came in      *)
(* between; a document cannot be read only if it went or was shut, and an  *)
(* answer fails only for such a one.                                       *)
ReadsAreOfOneVersion ==
    Done({"chunks", "latest", "answer"}) =>
        LET said == request.said IN
        /\ request.failed => \/ Head(request.todo) \in touched
                             \/ Roles[Head(request.todo)] = "none" /\ request.kind # "answer"
        /\ request.kind = "chunks" /\ ~request.failed /\ said[1].version = said[2].version =>
               said[1].content = said[2].content
        /\ request.kind = "latest" /\ ~request.failed =>
               /\ said[2].version = said[1].version - 1 \/ Head(request.todo) \in touched
               /\ said[2].version # 0 => said[2].content # said[1].content \/ Head(request.todo) \in touched
        /\ request.kind = "answer" /\ ~request.failed => Len(said) = Len(request.found)

(* A list has every document that could be read all along - all documents  *)
(* without exception, the others unless the list has reached its limit,    *)
(* with newer ones where the newest are asked for, or there are more newer *)
(* rows than are looked at.                                                *)
ListsAreNewest ==
    Done({"recent", "decisions", "documents"}) =>
        \A d \in Docs \ touched :
            /\ doc[d].live /\ doc[d].role # "none" /\ doc[d].space \in DOMAIN request.lists
            /\ request.kind = "decisions" => HasDecision(d)
            => \/ \E i \in DOMAIN request.found : request.found[i][1] = d
               \/ /\ request.kind # "documents" /\ Len(request.found) = Limit
                  /\ request.kind = "recent" =>
                       \A i \in DOMAIN request.found : request.found[i][2] >= doc[d].stamp
               \/ /\ request.kind # "documents"
                  /\ Cardinality({e \in Docs \ {d} : /\ doc[e].space = doc[d].space
                                                     /\ doc[e].stamp >= doc[d].stamp \/ e \in touched}) >= RecentCap

(* A rewrite makes a version only from the one before it, with its links   *)
(* replaced and nothing else changed; it reports each document it may      *)
(* write by its role, fails only for those that others changed and, for an *)
(* agent, those outside the agents' scope, and leaves no link that it      *)
(* replaces in the rest.                                                   *)
RewritesKeep ==
    Done({"rewrite"}) =>
        /\ \A d \in Docs : \A n \in DOMAIN doc[d].body : <<d, n>> \notin saved =>
               ~request.dry /\ doc[d].body[n] = Rewritten(doc[d].body[n - 1], request.pairs)
        /\ {request.said[i][1] : i \in DOMAIN request.said} = DOMAIN request.rows
        /\ \A i \in DOMAIN request.said : request.said[i][2] = "error" =>
               request.said[i][1] \in touched \/ ~InScope(request.said[i][1])
        /\ ~request.dry =>
             \A d \in DOMAIN request.rows \ touched : InScope(d) => \A i \in DOMAIN request.pairs :
                 \/ request.pairs[i][1] \notin LinkedBy(Content(d), Exact)
                 \/ \E j \in (i + 1)..Len(request.pairs) : request.pairs[j][2] = request.pairs[i][1]

ReadsTellTruth ==
    SearchFinds /\ LinksAgree /\ ReadsAreOfOneVersion /\ ListsAreNewest /\ RewritesKeep
=============================================================================
