--------------------------- MODULE ObjectStorage ---------------------------
(***************************************************************************)
(* The objects that hold the content of revisions, and everything that     *)
(* writes, copies or removes them: document writes, restores, transfers to *)
(* another workspace, the orphan sweep, the pruning of collapsed revisions *)
(* and account deletion (apps/server/src/storage.ts and its callers).      *)
(*                                                                         *)
(* An object is stored before the transaction that references it, and the  *)
(* sweep reads the references, then looks at and removes objects one by    *)
(* one.  No lock is shared between the two: what keeps them apart is the   *)
(* age of an object, which a writer refreshes.                              *)
(*                                                                         *)
(* Left out: attachments and logos (stored and referenced the same way),   *)
(* the import zips (outside the swept prefixes), who may do what, and how  *)
(* a write is judged beyond its base version (module DocumentWrite).       *)
(***************************************************************************)
EXTENDS Naturals, Sequences, FiniteSets

CONSTANTS
    Docs,        \* the documents
    Texts,       \* the contents; an object is named by workspace and content
    Workspaces,
    Requests,    \* the requests, each handled once
    Ops,         \* which of the operations happen
    Backend,     \* the storage driver, "fs" or "s3"
    Home,        \* the workspace each document starts in, or "none"
    History,     \* the contents of the revisions each document starts with
    MaxRevs,     \* bound: revisions of a document
    MaxAborts    \* bound: sweeps that stop on a storage error

AllOps == {"write", "restore", "transfer", "prune", "pin", "sweep", "erase"}
Homes == Workspaces \cup {"none", "erased"}

ASSUME OpsAssumption == Ops \subseteq AllOps
ASSUME BackendAssumption == Backend \in {"fs", "s3"}
ASSUME HomeAssumption == Home \in [Docs -> Workspaces \cup {"none"}]
ASSUME SpacesAssumption == {"none", "erased"} \cap Workspaces = {}
ASSUME HistoryAssumption ==
    /\ History \in [Docs -> Seq(Texts)]
    /\ \A d \in Docs : Home[d] = "none" <=> History[d] = << >>
ASSUME BoundsAssumption == MaxRevs \in Nat /\ MaxAborts \in Nat

Keys == [ws : Workspaces, text : Texts]

VARIABLES
    home,      \* the workspace of each document
    revs,      \* the DocumentRevision rows of each document, in order
    spaces,    \* the workspaces that exist
    blob,      \* each object: absent, or how it compares to the grace period
    pc,        \* where each request is
    req,       \* what each request works on
    sweep,     \* the orphan sweep
    prune,     \* the pruning of collapsed revisions
    erase,     \* the removal of a deleted workspace's objects
    aborts,    \* sweeps that stopped on an error, bounded by MaxAborts
    orphaned   \* history: keys some state saw old and unreferenced

docVars == <<home, revs, spaces>>
reqVars == <<pc, req>>
jobVars == <<sweep, prune, erase, aborts>>
vars == <<docVars, blob, reqVars, jobVars, orphaned>>

(* group: version number of the revision that names the burst (its own     *)
(* when it has no revisionGroupId); kept: pinned or labelled; system: a    *)
(* restore, which has a message.                                           *)
Revision == [key : Keys, group : Nat, kept : BOOLEAN, system : BOOLEAN,
             pruned : BOOLEAN]

(* keys: the object of a write, the source of a restore, or the objects of *)
(* the revisions a transfer copies; ws: where it stores; from: where the   *)
(* document was when the request began; base: the revision it replaces.    *)
Request == [op : {"write", "restore", "transfer"}, doc : Docs, ws : Workspaces,
            from : Workspaces \cup {"none"}, keys : Seq(Keys), pos : Nat, base : Nat]

PCs == {"idle", "put", "touch", "create", "tx", "restoring", "done"}

TypeOK ==
    /\ home \in [Docs -> Homes]
    /\ revs \in [Docs -> Seq(Revision)]
    /\ spaces \subseteq Workspaces
    /\ blob \in [Keys -> {"absent", "fresh", "old"}]
    /\ pc \in [Requests -> PCs]
    /\ DOMAIN req = Requests
    /\ \A r \in Requests :
          pc[r] # "idle" => req[r] \in Request /\ req[r].pos \in 1..Len(req[r].keys)
    /\ sweep \in [pc : {"idle", "listed", "judging"},
                  todo : SUBSET Keys, doomed : SUBSET Keys]
    /\ prune \in [pc : {"idle", "update"}, ids : SUBSET (Docs \X Nat)]
    /\ erase \in [pc : {"idle", "list", "remove"}, ws : Homes,
                  todo : SUBSET Keys]
    /\ aborts \in 0..MaxAborts
    /\ orphaned \subseteq Keys

-----------------------------------------------------------------------------
(* What the database references.                                           *)

RowsOf(d) == 1..Len(revs[d])

Live(d, i) == i \in RowsOf(d) /\ ~revs[d][i].pruned

(* The keys the sweep keeps: those of the revisions that are not pruned.   *)
Referenced ==
    {k \in Keys : \E d \in Docs : \E i \in RowsOf(d) : Live(d, i) /\ revs[d][i].key = k}

(* A restore reads the source object while its transaction holds the row.  *)
RowLocked(d) == \E r \in Requests : pc[r] = "restoring" /\ req[r].doc = d

(* Where a request stores its i-th object, and the one it is storing.      *)
DestKey(r, i) == [ws |-> req[r].ws, text |-> req[r].keys[i].text]
Target(r) == DestKey(r, req[r].pos)

(* How many objects a request in flight has stored.                        *)
StoredCount(r) ==
    CASE pc[r] \in {"idle", "done"} \/ req[r].op = "restore" -> 0
      [] pc[r] = "tx" /\ req[r].op # "restore" -> Len(req[r].keys)
      [] OTHER -> req[r].pos - 1

-----------------------------------------------------------------------------
InitialRow(d, i) ==
    [key |-> [ws |-> Home[d], text |-> History[d][i]],
     group |-> IF i <= 2 THEN i ELSE 2,
     kept |-> FALSE, system |-> FALSE, pruned |-> FALSE]

(* Documents written long ago: one burst from the second revision on, every*)
(* object older than the grace period.                                     *)
Init ==
    /\ home = Home
    /\ revs = [d \in Docs |-> [i \in 1..Len(History[d]) |-> InitialRow(d, i)]]
    /\ spaces = Workspaces
    /\ blob = [k \in Keys |->
                 IF \E d \in Docs : /\ Home[d] = k.ws
                                    /\ \E i \in 1..Len(History[d]) :
                                          History[d][i] = k.text
                 THEN "old" ELSE "absent"]
    /\ pc = [r \in Requests |-> "idle"]
    /\ req = [r \in Requests |-> << >>]
    /\ sweep = [pc |-> "idle", todo |-> {}, doomed |-> {}]
    /\ erase = [pc |-> "idle", ws |-> "none", todo |-> {}]
    /\ prune = [pc |-> "idle", ids |-> {}]
    /\ aborts = 0
    /\ orphaned = {}

-----------------------------------------------------------------------------
(* The requests.                                                           *)

Begin(r, next, request) ==
    /\ pc[r] = "idle"
    /\ pc' = [pc EXCEPT ![r] = next]
    /\ req' = [req EXCEPT ![r] = request]
    /\ UNCHANGED <<docVars, blob, jobVars>>

(* A request ends: refused, failed (its transaction rolled back) or done.  *)
End(r) == pc' = [pc EXCEPT ![r] = "done"] /\ UNCHANGED <<req, jobVars>>

LastText(d) == revs[d][Len(revs[d])].key.text

(* commitDocumentWrite before its transaction: the base must be current,   *)
(* and content equal to the current one is not stored.  The workspace it   *)
(* stores in is read here.  A document that is not there yet is created.    *)
BeginWrite(r, d, t) ==
    /\ "write" \in Ops
    /\ Len(revs[d]) < MaxRevs
    /\ revs[d] # << >> => LastText(d) # t
    /\ \E w \in spaces :
          /\ home[d] \in {w, "none"}
          /\ Begin(r, "put", [op |-> "write", doc |-> d, ws |-> w, from |-> home[d],
                              keys |-> <<[ws |-> w, text |-> t]>>, pos |-> 1,
                              base |-> Len(revs[d])])

(* Restore reads the revision to bring back outside its transaction.       *)
BeginRestore(r, d, i) ==
    /\ "restore" \in Ops
    /\ home[d] \in spaces
    /\ Live(d, i)
    /\ Begin(r, "tx", [op |-> "restore", doc |-> d, ws |-> home[d], from |-> home[d],
                       keys |-> <<revs[d][i].key>>, pos |-> 1, base |-> Len(revs[d])])

(* copyDocumentStorageForWorkspace lists every revision, pruned or not.    *)
BeginTransfer(r, d, w) ==
    /\ "transfer" \in Ops
    /\ home[d] \in spaces /\ w \in spaces \ {home[d]}
    /\ revs[d] # << >>
    /\ Begin(r, "put", [op |-> "transfer", doc |-> d, ws |-> w, from |-> home[d],
                        keys |-> [i \in RowsOf(d) |-> revs[d][i].key], pos |-> 1,
                        base |-> Len(revs[d])])

(* putText.  The fs backend looks whether the object is there and only     *)
(* refreshes its age if so; the s3 backend stores it again.  A transfer    *)
(* first reads the object it copies.                                       *)
Put(r) ==
    /\ pc[r] = "put"
    /\ req[r].op = "transfer" => blob[req[r].keys[req[r].pos]] # "absent"
    /\ pc' = [pc EXCEPT ![r] = IF Backend = "fs" /\ blob[Target(r)] # "absent"
                               THEN "touch" ELSE "create"]
    /\ UNCHANGED <<docVars, blob, req, jobVars>>

(* Mutant: the copy loop goes one revision too far.                        *)
PutNextTooFar(r) ==
    /\ IF req[r].pos > Len(req[r].keys)
       THEN /\ pc' = [pc EXCEPT ![r] = "tx"]
            /\ UNCHANGED req
       ELSE /\ pc' = [pc EXCEPT ![r] = "put"]
            /\ req' = [req EXCEPT ![r].pos = @ + 1]
    /\ UNCHANGED <<docVars, jobVars>>

PutNext(r) ==
    /\ IF req[r].pos = Len(req[r].keys)
       THEN /\ pc' = [pc EXCEPT ![r] = "tx"]
            /\ UNCHANGED req
       ELSE /\ pc' = [pc EXCEPT ![r] = "put"]
            /\ req' = [req EXCEPT ![r].pos = @ + 1]
    /\ UNCHANGED <<docVars, jobVars>>

(* The rename of a temporary file, or PutObject.                           *)
Create(r) ==
    /\ pc[r] = "create"
    /\ blob' = [blob EXCEPT ![Target(r)] = "fresh"]
    /\ PutNext(r)

(* utimes; that the object is gone by now goes unnoticed.                  *)
Touch(r) ==
    /\ pc[r] = "touch"
    /\ blob' = [blob EXCEPT ![Target(r)] = IF @ = "absent" THEN "absent" ELSE "fresh"]
    /\ PutNext(r)

(* revisionGroupIdForWrite: whether a write may join the burst of the      *)
(* revision before it (module DocumentWrite has the other conditions).     *)
JoinableGroups(d) ==
    LET n == Len(revs[d])
    IN  {n + 1} \cup (IF n > 1 /\ ~revs[d][n].system /\ ~revs[d][n].kept
                      THEN {revs[d][n].group} ELSE {})

AppendRevision(d, k, group, system) ==
    revs' = [revs EXCEPT ![d] = Append(@, [key |-> k, group |-> group, kept |-> FALSE,
                                           system |-> system, pruned |-> FALSE])]

(* The transaction of a write: still the same base, or nothing is written. *)
CommitWrite(r) ==
    LET d == req[r].doc IN
    /\ pc[r] = "tx" /\ req[r].op = "write"
    /\ ~RowLocked(d)
    /\ home[d] \in spaces \/ (home[d] = "none" /\ req[r].ws \in spaces)
    /\ Len(revs[d]) = req[r].base
    /\ \E g \in JoinableGroups(d) : AppendRevision(d, DestKey(r, 1), g, FALSE)
    /\ home' = [home EXCEPT ![d] = IF @ = "none" THEN req[r].ws ELSE @]
    /\ End(r)
    /\ UNCHANGED <<spaces, blob>>

(* Restore in its transaction: the object is read while the row is held... *)
ReadRestored(r) ==
    LET d == req[r].doc IN
    /\ pc[r] = "tx" /\ req[r].op = "restore"
    /\ ~RowLocked(d)
    /\ home[d] \in spaces
    /\ Len(revs[d]) < MaxRevs
    /\ blob[req[r].keys[1]] # "absent"
    /\ pc' = [pc EXCEPT ![r] = "restoring"]
    /\ UNCHANGED <<docVars, blob, req, jobVars>>

(* ... and the new revision reuses the source's object as it is.           *)
CommitRestore(r) ==
    LET d == req[r].doc IN
    /\ pc[r] = "restoring"
    /\ AppendRevision(d, req[r].keys[1], Len(revs[d]) + 1, TRUE)
    /\ End(r)
    /\ UNCHANGED <<home, spaces, blob>>

(* applyDocumentStorageTransfer rewrites the keys of the revisions that    *)
(* were copied, and the document moves.                                    *)
CommitTransfer(r) ==
    LET d == req[r].doc IN
    /\ pc[r] = "tx" /\ req[r].op = "transfer"
    /\ ~RowLocked(d)
    /\ home[d] = req[r].from /\ req[r].ws \in spaces
    /\ revs' = [revs EXCEPT ![d] =
                  [i \in RowsOf(d) |->
                     IF i <= Len(req[r].keys)
                     THEN [@[i] EXCEPT !.key = [ws |-> req[r].ws,
                                                text |-> req[r].keys[i].text]]
                     ELSE @[i]]]
    /\ home' = [home EXCEPT ![d] = req[r].ws]
    /\ End(r)
    /\ UNCHANGED <<spaces, blob>>

(* Refused, crashed or rolled back, at any point: objects stored stay.     *)
Fail(r) ==
    /\ pc[r] \notin {"idle", "done"}
    /\ End(r)
    /\ UNCHANGED <<docVars, blob>>

RequestStep(r) ==
    \/ Put(r) \/ Create(r) \/ Touch(r)
    \/ CommitWrite(r) \/ ReadRestored(r) \/ CommitRestore(r) \/ CommitTransfer(r)
    \/ Fail(r)

-----------------------------------------------------------------------------
(* The jobs that prune and remove.                                         *)

(* sweepOrphanObjects lists the objects ...                                *)
ListObjects ==
    /\ "sweep" \in Ops
    /\ sweep.pc = "idle"
    /\ sweep' = [pc |-> "listed", todo |-> {k \in Keys : blob[k] # "absent"},
                 doomed |-> {}]
    /\ UNCHANGED <<docVars, blob, reqVars, prune, erase, aborts>>

(* ... then reads the references, and the clock it judges ages by ...      *)
ReadReferences ==
    /\ sweep.pc = "listed"
    /\ sweep' = [sweep EXCEPT !.pc = "judging", !.todo = @ \ Referenced]
    /\ UNCHANGED <<docVars, blob, reqVars, prune, erase, aborts>>

(* Mutants: an object is removed whatever its age; the age test is swapped. *)
JudgeWithoutGrace(k) ==
    /\ sweep.pc = "judging" /\ sweep.doomed = {} /\ k \in sweep.todo
    /\ sweep' = [sweep EXCEPT !.todo = @ \ {k},
                              !.doomed = IF blob[k] # "absent" THEN {k} ELSE {}]
    /\ UNCHANGED <<docVars, blob, reqVars, prune, erase, aborts>>

JudgeAgeSwapped(k) ==
    /\ sweep.pc = "judging" /\ sweep.doomed = {} /\ k \in sweep.todo
    /\ sweep' = [sweep EXCEPT !.todo = @ \ {k},
                              !.doomed = IF blob[k] = "fresh" THEN {k} ELSE {}]
    /\ UNCHANGED <<docVars, blob, reqVars, prune, erase, aborts>>

(* ... and for each object they do not name, reads its age ...  *)
JudgeObject(k) ==
    /\ sweep.pc = "judging" /\ sweep.doomed = {} /\ k \in sweep.todo
    /\ sweep' = [sweep EXCEPT !.todo = @ \ {k},
                              !.doomed = IF blob[k] = "old" THEN {k} ELSE {}]
    /\ UNCHANGED <<docVars, blob, reqVars, prune, erase, aborts>>

(* ... and removes it if it was old, whatever happened in between.         *)
RemoveObject(k) ==
    /\ sweep.pc = "judging" /\ k \in sweep.doomed
    /\ blob' = [blob EXCEPT ![k] = "absent"]
    /\ sweep' = [sweep EXCEPT !.doomed = {}]
    /\ UNCHANGED <<docVars, reqVars, prune, erase, aborts>>

EndSweep ==
    /\ sweep.pc = "judging" /\ sweep.todo = {} /\ sweep.doomed = {}
    /\ sweep' = [sweep EXCEPT !.pc = "idle"]
    /\ UNCHANGED <<docVars, blob, reqVars, prune, erase, aborts>>

(* A storage or database error ends the sweep until the next day.          *)
AbortSweep ==
    /\ sweep.pc # "idle" /\ aborts < MaxAborts
    /\ sweep' = [pc |-> "idle", todo |-> {}, doomed |-> {}]
    /\ aborts' = aborts + 1
    /\ UNCHANGED <<docVars, blob, reqVars, prune, erase>>

SweepStep ==
    \/ ListObjects \/ ReadReferences \/ EndSweep
    \/ \E k \in Keys : JudgeObject(k) \/ RemoveObject(k)

(* Time passes.  A running sweep judges by the clock it read, and requests *)
(* finish within the grace period, so an object does not age while one     *)
(* that has stored it is in flight.                                        *)
Age(k) ==
    /\ blob[k] = "fresh"
    /\ sweep.pc # "judging"
    /\ \A r \in Requests : \A i \in 1..StoredCount(r) : DestKey(r, i) # k
    /\ blob' = [blob EXCEPT ![k] = "old"]
    /\ UNCHANGED <<docVars, reqVars, jobVars>>

(* Of the first n rows, the newest of its burst.                           *)
Newest(d, j, n) ==
    /\ Live(d, j)
    /\ \A l \in (j + 1)..n : ~(Live(d, l) /\ revs[d][l].group = revs[d][j].group)

OldestOf(d, j) ==
    /\ Live(d, j)
    /\ \A l \in 1..(j - 1) : ~(Live(d, l) /\ revs[d][l].group = revs[d][j].group)

(* Mutant: the burst is sorted the other way, so its oldest is kept.       *)
CollapsedOntoOldest(d, n) ==
    {i \in 1..n : /\ Live(d, i) /\ ~revs[d][i].kept /\ ~revs[d][i].system
                  /\ \E j \in 1..(i - 1) : OldestOf(d, j) /\ revs[d][j].group = revs[d][i].group}

(* pruneCollapsedRevisions: of the rows of each document older than the    *)
(* cutoff (the first n), every burst keeps its newest; the rest may go     *)
(* unless protected.                                                        *)
Collapsed(d, n) ==
    {i \in 1..n : /\ Live(d, i) /\ ~revs[d][i].kept /\ ~revs[d][i].system
                  /\ \E j \in (i + 1)..n : Newest(d, j, n) /\ revs[d][j].group = revs[d][i].group}

ReadCollapsed ==
    /\ "prune" \in Ops
    /\ prune.pc = "idle"
    /\ \E cutoff \in [Docs -> 0..MaxRevs] :
          LET ids == {x \in Docs \X (1..MaxRevs) : x[2] \in Collapsed(x[1], cutoff[x[1]])}
          IN  /\ ids # {}
              /\ prune' = [pc |-> "update", ids |-> ids]
    /\ UNCHANGED <<docVars, blob, reqVars, sweep, erase, aborts>>

MarkPruned ==
    /\ prune.pc = "update"
    /\ revs' = [d \in Docs |-> [i \in RowsOf(d) |->
                  [revs[d][i] EXCEPT !.pruned = @ \/ <<d, i>> \in prune.ids]]]
    /\ prune' = [pc |-> "idle", ids |-> {}]
    /\ UNCHANGED <<home, spaces, blob, reqVars, sweep, erase, aborts>>

(* PATCH .../revisions/:revisionId pins, labels or releases one revision.  *)
SetKept(d, i, kept) ==
    /\ "pin" \in Ops
    /\ home[d] \in spaces
    /\ Live(d, i) /\ revs[d][i].kept # kept
    /\ revs' = [revs EXCEPT ![d][i].kept = kept]
    /\ UNCHANGED <<home, spaces, blob, reqVars, jobVars>>

(* Account deletion removes a workspace and its rows in a transaction ...  *)
EraseWorkspace(w) ==
    /\ "erase" \in Ops
    /\ erase.pc = "idle" /\ w \in spaces
    /\ \A d \in Docs : home[d] = w => ~RowLocked(d)
    /\ spaces' = spaces \ {w}
    /\ home' = [d \in Docs |-> IF home[d] = w THEN "erased" ELSE home[d]]
    /\ revs' = [d \in Docs |-> IF home[d] = w THEN << >> ELSE revs[d]]
    /\ erase' = [pc |-> "list", ws |-> w, todo |-> {}]
    /\ UNCHANGED <<blob, reqVars, sweep, prune, aborts>>

(* Mutant: the listing is not confined to the workspace's prefix.          *)
ListEverything ==
    /\ erase.pc = "list"
    /\ erase' = [erase EXCEPT !.pc = "remove", !.todo = {k \in Keys : blob[k] # "absent"}]
    /\ UNCHANGED <<docVars, blob, reqVars, sweep, prune, aborts>>

(* ... and then every object under the workspace's prefix.                 *)
ListPrefix ==
    /\ erase.pc = "list"
    /\ erase' = [erase EXCEPT !.pc = "remove",
                              !.todo = {k \in Keys : k.ws = erase.ws /\ blob[k] # "absent"}]
    /\ UNCHANGED <<docVars, blob, reqVars, sweep, prune, aborts>>

RemovePrefixed(k) ==
    /\ erase.pc = "remove" /\ k \in erase.todo
    /\ blob' = [blob EXCEPT ![k] = "absent"]
    /\ erase' = [erase EXCEPT !.todo = @ \ {k}]
    /\ UNCHANGED <<docVars, reqVars, sweep, prune, aborts>>

(* Done, or given up on an error: deletion reports it and goes on.         *)
EndErase ==
    /\ erase.pc # "idle"
    /\ erase' = [pc |-> "idle", ws |-> "none", todo |-> {}]
    /\ UNCHANGED <<docVars, blob, reqVars, sweep, prune, aborts>>

Step ==
    \/ \E r \in Requests, d \in Docs :
          \/ \E t \in Texts : BeginWrite(r, d, t)
          \/ \E i \in RowsOf(d) : BeginRestore(r, d, i)
          \/ \E w \in Workspaces : BeginTransfer(r, d, w)
    \/ \E r \in Requests : RequestStep(r)
    \/ SweepStep \/ AbortSweep
    \/ \E k \in Keys : Age(k)
    \/ ReadCollapsed \/ MarkPruned
    \/ \E d \in Docs : \E i \in RowsOf(d), kept \in BOOLEAN : SetKept(d, i, kept)
    \/ \E w \in Workspaces : EraseWorkspace(w)
    \/ ListPrefix \/ EndErase
    \/ \E k \in Keys : RemovePrefixed(k)

OldOrphans == {k \in Keys : blob[k] = "old" /\ k \notin Referenced}

Next == Step /\ orphaned' = orphaned \cup OldOrphans'

Spec == Init /\ [][Next]_vars

(* Handlers run on and transactions end; the sweep is scheduled every day  *)
(* of a server's life, and between two sweeps more than the grace period   *)
(* passes, which is why aging is strongly fair.                            *)
Fairness ==
    /\ \A r \in Requests : WF_vars(RequestStep(r) /\ orphaned' = orphaned \cup OldOrphans')
    /\ WF_vars(SweepStep /\ orphaned' = orphaned \cup OldOrphans')
    /\ \A k \in Keys : SF_vars(Age(k) /\ orphaned' = orphaned \cup OldOrphans')

FairSpec == Spec /\ Fairness

-----------------------------------------------------------------------------
(* Properties.                                                             *)

(* The content of a revision that was not pruned is stored, unless its key *)
(* had once been an old object nobody referenced: brand-new content, and   *)
(* content that stays referenced, outlives every interleaving of writes,   *)
(* restores, transfers and pruning with the sweep (storage.ts:167).        *)
FreshContentSurvives ==
    \A d \in Docs : \A i \in RowsOf(d) :
        Live(d, i) /\ blob[revs[d][i].key] = "absent" => revs[d][i].key \in orphaned

(* Pruning leaves every burst a later revision that is still readable, so  *)
(* the head of a document is never pruned, whatever is written, restored   *)
(* or pinned between reading the rows and marking them                     *)
(* (revision-retention.ts:42).                                             *)
BurstKeepsNewest ==
    \A d \in Docs : \A i \in RowsOf(d) :
        revs[d][i].pruned =>
            \E j \in RowsOf(d) : j > i /\ Live(d, j) /\ revs[d][j].group = revs[d][i].group

(* What rolled-back writes, pruned revisions, transfers and deleted        *)
(* workspaces leave behind is removed in the end, unless it is referenced  *)
(* again (storage.ts:147).                                                 *)
OrphansAreCollected ==
    \A k \in Keys : []<>(blob[k] = "absent" \/ k \in Referenced)

(* The comment at storage.ts:150: the grace period keeps the sweep from    *)
(* racing a write in flight, so what a write has stored is there when its  *)
(* transaction runs.                                                       *)
GraceCoversInFlightWrites ==
    \A r \in Requests :
        pc[r] = "tx" /\ req[r].op = "write" => blob[DestKey(r, 1)] # "absent"
=============================================================================
