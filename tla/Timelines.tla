----------------------------- MODULE Timelines -----------------------------
(***************************************************************************)
(* Lists of audit events read page by page: the activity of a workspace,   *)
(* its audit log and the security activity of an account (two pages of the *)
(* web application and their routes), and the audit log of administration. *)
(*                                                                         *)
(* Events are stored, pruned by retention and, with their documents,       *)
(* hidden from the reader while he loads one page after the other.  A      *)
(* route's reads are steps, and so is the arrival of its answer.           *)
(***************************************************************************)
EXTENDS Naturals, FiniteSets, Sequences, SequencesExt

CONSTANTS
    N,              \* events 1 .. N, numbered by id
    TimeOf,         \* createdAt of each, equal for some
    KindOf,         \* "agent" and "user": document actions; "other": any other action
    DocOf,          \* the document an event is about, or None
    Docs, None,
    Early,          \* the events that are there at first
    PageSize, ExportCap,
    Lists,          \* "activity", "audit", "admin": what the reader may read
    Filters,        \* the filters he may enter: sets of kinds
    MaxAsks,        \* bound on the requests of a reading
    Ops

Events == 1..N

VARIABLES
    row,        \* of each event: "absent", "stored", "pruned"
    doc,        \* of each document, for the reader: "shown", "hidden", "gone"
    page,       \* what the reader's page holds
    asks,       \* its requests under way
    exported,   \* the last export
    due,        \* history: the events a whole reading has to show
    cuts,       \* history: the times of events that ended a page unshown
    restarted   \* history: the reading did not go on where it had stopped

vars == <<row, doc, page, asks, exported, due, cuts, restarted>>

Stored == {e \in Events : row[e] = "stored"}

(* The rows of a list: DOCUMENT_ACTIONS, or what the filters let through.  *)
Matches(list, f, e) == IF list = "activity" THEN KindOf[e] # "other" ELSE KindOf[e] \in f

(* Newest first.  The order of events of one time is the database's unless *)
(* the query names the id as well.                                         *)
Before(list, a, b) == \/ TimeOf[a] > TimeOf[b]
                      \/ TimeOf[a] = TimeOf[b] /\ (list = "admin" => a > b)
Orders(list, S) ==
    {s \in SetToSeqs(S) : \A i, j \in DOMAIN s : i < j => Before(list, s[i], s[j])}

(* A bug: the page after an event begins below its time.                   *)
BelowTime(list, cursor, e) ==
    cursor # None => TimeOf[e] < IF list = "admin" THEN TimeOf[cursor] ELSE cursor

(* The cursor is a time, and for administration an event, which counts for *)
(* nothing when it is no longer there.                                     *)
Below(list, cursor, e) ==
    cursor # None =>
        IF list = "admin"
        THEN cursor \in Stored =>
                \/ TimeOf[e] < TimeOf[cursor]
                \/ TimeOf[e] = TimeOf[cursor] /\ e < cursor
        ELSE TimeOf[e] < cursor

Selected(list, f, cursor) == {e \in Stored : Matches(list, f, e) /\ Below(list, cursor, e)}

(* One more row than the page has is read, to know whether there is more:  *)
(* its time is the next cursor, or else the last event of the page is.     *)
Cut(s, size) == SubSeq(s, 1, IF Len(s) < size THEN Len(s) ELSE size)
NextOf(list, s) ==
    IF Len(s) <= PageSize THEN None
    ELSE IF list = "admin" THEN s[PageSize] ELSE TimeOf[s[PageSize + 1]]

(* What of a document's events the reader may see: those of a deleted one  *)
(* stay, without its title.                                                *)
Visible(e) == DocOf[e] # None => doc[DocOf[e]] # "hidden"

(* The visible ones of some rows, in the same order.                       *)
VisibleOf(s) ==
    {t \in SetToSeqs({e \in Range(s) : Visible(e)}) :
        \A i, j \in DOMAIN t : i < j =>
            \E k, l \in DOMAIN s : k < l /\ s[k] = t[i] /\ s[l] = t[j]}

-----------------------------------------------------------------------------
Init ==
    /\ row = [e \in Events |-> IF e \in Early THEN "stored" ELSE "absent"]
    /\ doc = [d \in Docs |-> "shown"]
    /\ \E l \in Lists : \E f \in Filters :
         page = [list |-> l, filter |-> f, first |-> <<>>, more |-> <<>>, next |-> None,
                 firstNext |-> None, loading |-> FALSE, opened |-> FALSE, asked |-> 0]
    /\ asks = {} /\ exported = None
    /\ due = {} /\ cuts = {} /\ restarted = FALSE

Shown == page.first \o page.more

reading == <<page, asks, exported, cuts, restarted>>

(* writeAuditEvent, whose transaction may commit after that of a later one *)
Store(e) ==
    /\ row[e] = "absent"
    /\ row' = [row EXCEPT ![e] = "stored"]
    /\ UNCHANGED <<doc, due, reading>>

(* pruneAuditEvents: retention removes what is older than a time.          *)
Prune(t) ==
    /\ "prune" \in Ops
    /\ \E e \in Stored : TimeOf[e] < t
    /\ row' = [e \in Events |-> IF row[e] = "stored" /\ TimeOf[e] < t THEN "pruned" ELSE row[e]]
    /\ due' = {e \in due : row'[e] = "stored"}
    /\ UNCHANGED <<doc, reading>>

(* A document is deleted, or the reader loses his role in it.              *)
Change(d, s) ==
    /\ doc[d] = "shown"
    /\ doc' = [doc EXCEPT ![d] = s]
    /\ due' = IF s = "hidden" /\ page.list = "activity" THEN {e \in due : DocOf[e] # d} ELSE due
    /\ UNCHANGED <<row, reading>>

-----------------------------------------------------------------------------
(* The pages.  The first page of the activity is a query of its own, which *)
(* is fetched again when the window gets the focus, and "Load more" goes   *)
(* on from the first page whenever there is no later cursor.               *)

Cursor == IF page.list = "activity" /\ page.next = None THEN page.firstNext ELSE page.next

(* A request begins.  A reading that does not go on where it had stopped   *)
(* has begun anew.                                                         *)
Ask(q) ==
    /\ page.asked < MaxAsks
    /\ asks' = asks \cup {q}
    /\ exported' = exported

Request(f, cursor) == [id |-> page.asked, at |-> "query", filter |-> f, cursor |-> cursor,
                       rows |-> <<>>, next |-> None]

Open ==
    /\ ~page.opened
    /\ Ask(Request(page.filter, None))
    /\ page' = [page EXCEPT !.opened = TRUE, !.loading = page.list # "activity", !.asked = @ + 1]
    /\ UNCHANGED <<row, doc, due, cuts, restarted>>

LoadMore ==
    /\ page.opened /\ ~page.loading /\ Cursor # None
    /\ Ask(Request(page.filter, Cursor))
    /\ page' = [page EXCEPT !.loading = TRUE, !.asked = @ + 1]
    /\ restarted' = (restarted \/ (page.next = None /\ page.more # <<>>))
    /\ UNCHANGED <<row, doc, due, cuts>>

Refetch ==
    /\ page.list = "activity" /\ page.opened /\ \A q \in asks : q.cursor # None
    /\ Ask(Request(page.filter, None))
    /\ page' = [page EXCEPT !.asked = @ + 1]
    /\ restarted' = TRUE
    /\ UNCHANGED <<row, doc, due, cuts>>

(* Entering a filter loads at once, whatever is still loading.             *)
Enter(f) ==
    /\ page.list = "audit" /\ page.opened /\ f # page.filter
    /\ Ask(Request(f, None))
    /\ page' = [page EXCEPT !.filter = f, !.loading = TRUE, !.asked = @ + 1]
    /\ restarted' = (asks # {})
    /\ UNCHANGED <<row, doc, due, cuts>>

-----------------------------------------------------------------------------
(* The routes.                                                             *)

(* auditEvent.findMany                                                     *)
QueryRows(q) ==
    /\ q.at = "query" /\ q \in asks
    /\ \E s \in Orders(page.list, Selected(page.list, q.filter, q.cursor)) :
         LET next == NextOf(page.list, s) IN
         /\ asks' = (asks \ {q}) \cup
              {[q EXCEPT !.at = IF page.list = "activity" THEN "documents" ELSE "answer",
                         !.rows = Cut(s, PageSize), !.next = next]}
         /\ cuts' = (IF q.cursor = None THEN {} ELSE cuts)
                      \cup (IF next = None \/ page.list = "admin" THEN {} ELSE {next})
    (* What is stored when the first page is read has to be shown in the end. *)
    /\ due' = IF q.cursor = None
              THEN {e \in Stored : Matches(page.list, q.filter, e)
                                     /\ (page.list = "activity" => Visible(e))}
              ELSE due
    (* A cursor whose row has gone begins the list again.                  *)
    /\ restarted' = (restarted \/ (page.list = "admin" /\ q.cursor \notin Stored \cup {None}))
    /\ UNCHANGED <<row, doc, page, exported>>

(* The documents of the events and the reader's roles in them.             *)
ReadDocuments(q) ==
    /\ q.at = "documents" /\ q \in asks
    /\ \E s \in VisibleOf(q.rows) :
         asks' = (asks \ {q}) \cup {[q EXCEPT !.at = "answer", !.rows = s]}
    /\ UNCHANGED <<row, doc, page, exported, due, cuts, restarted>>

(* The rows of the first page replace what is shown, those of a later one  *)
(* are added to it.  Neighbours that the activity joins in one row keep    *)
(* their ids in it and count as two here.                                  *)
Receive(q) ==
    /\ q.at = "answer" /\ q \in asks /\ asks' = asks \ {q}
    /\ page' = IF q.cursor # None
               THEN [page EXCEPT !.more = @ \o q.rows, !.next = q.next, !.loading = FALSE]
               ELSE IF page.list = "activity"
               THEN [page EXCEPT !.first = q.rows, !.firstNext = q.next]
               ELSE [page EXCEPT !.first = q.rows, !.more = <<>>, !.next = q.next, !.loading = FALSE]
    /\ UNCHANGED <<row, doc, exported, due, cuts, restarted>>

(* A request that is refused or lost; it may be made again.                *)
Fails(q) ==
    /\ "fail" \in Ops /\ q \in asks /\ asks' = asks \ {q}
    /\ page' = [page EXCEPT !.loading = FALSE]
    /\ restarted' = (restarted \/ q.cursor = None)
    /\ UNCHANGED <<row, doc, exported, due, cuts>>

(* GET /api/workspaces/:id/audit/export                                    *)
Export ==
    /\ page.list = "audit" /\ page.opened /\ exported = None
    /\ \E s \in Orders("audit", Selected("audit", page.filter, None)) :
         exported' = [rows |-> Range(Cut(s, ExportCap)), truncated |-> Len(s) > ExportCap,
                      filter |-> page.filter, shown |-> Range(Shown)]
    /\ UNCHANGED <<row, doc, page, asks, due, cuts, restarted>>

Next ==
    \/ \E e \in Events : Store(e)
    \/ \E t \in Range(TimeOf) : Prune(t)
    \/ \E d \in Docs : Change(d, "hidden") \/ Change(d, "gone")
    \/ Open \/ LoadMore \/ Refetch \/ \E f \in Filters : Enter(f)
    \/ \E q \in asks : QueryRows(q) \/ ReadDocuments(q) \/ Receive(q) \/ Fails(q)
    \/ Export

Spec == Init /\ [][Next]_vars

-----------------------------------------------------------------------------
(* Properties.                                                             *)

(* A reader who has come to the end, without beginning anew on the way,    *)
(* has seen every event that was there all the time, in the audit log of   *)
(* administration, and in the other lists all but those that have the time *)
(* of an event with which a page ended.                                    *)
AtEnd == page.first # <<>> /\ page.next = None /\ (page.firstNext = None \/ page.more # <<>>)
WholeReading ==
    (asks = {} /\ AtEnd /\ ~restarted)
        => \A e \in due : e \in Range(Shown) \/ TimeOf[e] \in cuts

(* He sees no event twice, and the events in their order, whenever he is   *)
(* not waiting for a first page.                                           *)
OneOrder ==
    (~restarted /\ \A q \in asks : q.cursor # None)
        => \A i, j \in DOMAIN Shown :
              i < j => Shown[i] # Shown[j] /\ Before(page.list, Shown[i], Shown[j])

(* An export that does not call itself truncated has what the page showed, *)
(* unless retention has removed it.                                        *)
ExportHasPage ==
    exported # None /\ ~exported.truncated =>
        \A e \in exported.shown : e \in exported.rows \/ row[e] = "pruned"
                                    \/ ~Matches(page.list, exported.filter, e)

PagesTellAll == WholeReading /\ OneOrder /\ ExportHasPage
=============================================================================
