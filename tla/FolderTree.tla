----------------------------- MODULE FolderTree -----------------------------
(***************************************************************************)
(* The folders and documents of the workspaces, their parents and their    *)
(* stored paths, and the requests that create, rename, move, transfer,     *)
(* delete and empty them, or import into them (apps/server/src/folders,    *)
(* documents/routes.ts, import/vault.ts).                                  *)
(*                                                                         *)
(* A request first looks at the row it is about, then runs a transaction   *)
(* under the advisory lock of the workspace it saw (lockFolderTree), in    *)
(* which it reads, checks and writes.  A path is stored in every row and   *)
(* rewritten for a whole subtree when a folder moves.                      *)
(*                                                                         *)
(* Left out: who may do what (any request may be refused), names, content, *)
(* default roles and permission rows.  The statements of a transaction     *)
(* that check are one step, those that write another.                      *)
(***************************************************************************)
EXTENDS Naturals, Sequences, FiniteSets, SequencesExt

CONSTANTS
    Folders,
    Docs,
    Slugs,
    Workspaces,
    Requests,    \* the requests, each handled once
    Ops,         \* which of the operations happen
    Sorted,      \* the workspaces in the order their locks are taken
    Tree         \* the folders and documents at the start

AllOps == {"create", "rename", "move", "transfer", "delete", "empty", "import"}
Nodes == Folders \cup Docs

ASSUME OpsAssumption == Ops \subseteq AllOps
ASSUME NodesAssumption == Folders \cap Docs = {} /\ "root" \notin Nodes
ASSUME SortedAssumption ==
    /\ Sorted \in Seq(Workspaces)
    /\ \A w \in Workspaces : \E i \in 1..Len(Sorted) : Sorted[i] = w
    /\ \A i, j \in 1..Len(Sorted) : Sorted[i] = Sorted[j] => i = j
ASSUME FreeAssumption == "free" \notin Requests

VARIABLES
    node,   \* the Folder and Document rows
    lock,   \* the advisory lock of each workspace's tree
    pc,     \* where each request is
    req     \* what each request asks for and has read

vars == <<node, lock, pc, req>>

(* A document is a node whose parent is its folder, never "root".          *)
Row == [state : {"absent", "live", "deleted"}, ws : Workspaces,
        parent : Folders \cup {"root"}, slug : Slugs, path : Seq(Slugs)]

(* id: the row; ws, to: the workspace it was seen in and the one it goes   *)
(* to; dest: its new parent; slug: the new slug, or the slug it was seen   *)
(* with; old, new: its path before and after, read in the transaction;     *)
(* locks: the locks it still has to take.                                  *)
Request == [op : AllOps, id : Nodes, ws : Workspaces, to : Workspaces,
            dest : Folders \cup {"root"}, slug : Slugs,
            old : Seq(Slugs), new : Seq(Slugs), locks : Seq(Workspaces)]


TypeOK ==
    /\ node \in [Nodes -> Row]
    /\ lock \in [Workspaces -> Requests \cup {"free"}]
    /\ pc \in [Requests -> {"idle", "lock", "read", "write", "done"}]
    /\ DOMAIN req = Requests
    /\ \A r \in Requests : pc[r] # "idle" => req[r] \in Request
    /\ \A w \in Workspaces : lock[w] # "free" => pc[lock[w]] \in {"lock", "read", "write"}

-----------------------------------------------------------------------------
(* What the rows say.                                                      *)

Live(n) == node[n].state = "live"

(* "root" always exists. *)
LiveIn(p, w) == p # "root" => Live(p) /\ node[p].ws = w

PathOf(p) == IF p = "root" THEN << >> ELSE node[p].path

(* n and the folders of S reached from it by parents.                      *)
Below(n, S) ==
    {f \in S \cup {n} : \A T \in SUBSET (S \cup {n}) :
        (n \in T /\ \A g \in S : node[g].parent \in T => g \in T) => f \in T}

(* descendantFolders, and the folder itself: live folders of workspace w.  *)
Subtree(w, n) == Below(n, {f \in Folders : Live(f) /\ node[f].ws = w})

LiveDocsIn(S) == {d \in Docs : Live(d) /\ node[d].parent \in S}

(* The rows a foreign key with ON UPDATE CASCADE takes along.              *)
Attached(n) ==
    LET fs == Below(n, {f \in Folders : node[f].state # "absent"})
    IN  fs \cup {d \in Docs : node[d].state # "absent" /\ node[d].parent \in fs}

(* A live node of the same kind that already has this place.  Documents    *)
(* are compared within the folder only.                                    *)
SiblingTaken(kind, w, p, s, except) ==
    \E n \in kind \ except :
        /\ Live(n) /\ node[n].parent = p /\ node[n].slug = s
        /\ kind = Folders => node[n].ws = w

KindOf(n) == IF n \in Folders THEN Folders ELSE Docs

(* rerootPath *)
Reroot(path, old, new) ==
    IF IsPrefix(old, path) THEN new \o SubSeq(path, Len(old) + 1, Len(path)) ELSE path

(* The unique indexes on live rows and the (parent, workspace) foreign     *)
(* keys: what the database accepts.                                        *)
Accepted(rows) ==
    /\ \A m, n \in Nodes :
          m # n /\ KindOf(m) = KindOf(n) /\ rows[m].state = "live" /\ rows[n].state = "live" =>
              /\ ~(rows[m].ws = rows[n].ws /\ rows[m].path = rows[n].path)
              /\ ~(/\ rows[m].ws = rows[n].ws /\ rows[m].parent = rows[n].parent
                   /\ rows[m].slug = rows[n].slug)
    /\ \A n \in Nodes : rows[n].state # "absent" /\ rows[n].parent # "root" =>
          /\ rows[rows[n].parent].state # "absent"
          /\ rows[rows[n].parent].ws = rows[n].ws

(* The rows at the start are a tree, as the requests before left it.       *)
ASSUME TreeAssumption ==
    /\ Tree \in [Nodes -> Row]
    /\ Accepted(Tree)
    /\ \A S \in SUBSET Folders : S # {} => \E f \in S : Tree[f].parent \notin S
    /\ \A n \in Nodes : Tree[n].state = "live" =>
          LET p == Tree[n].parent IN
          /\ p # "root" => Tree[p].state = "live"
          /\ Tree[n].path # << >>
          /\ Front(Tree[n].path) = IF p = "root" THEN << >> ELSE Tree[p].path

-----------------------------------------------------------------------------
Init ==
    /\ node = Tree
    /\ lock = [w \in Workspaces |-> "free"]
    /\ pc = [r \in Requests |-> "idle"]
    /\ req = [r \in Requests |-> << >>]

(* Before the transaction.                                                 *)

(* lockFolderTrees sorts the workspaces it locks.                          *)
LocksUnsorted(w, to) == IF w = to THEN <<w>> ELSE <<w, to>>

Before(v, w) == \E i, j \in DOMAIN Sorted : i < j /\ Sorted[i] = v /\ Sorted[j] = w

Locks(w, to) ==
    IF w = to THEN <<w>> ELSE IF Before(w, to) THEN <<w, to>> ELSE <<to, w>>

Begin(r, op, n, w, to, p, s, path) ==
    /\ op \in Ops
    /\ pc[r] = "idle"
    /\ pc' = [pc EXCEPT ![r] = "lock"]
    /\ req' = [req EXCEPT ![r] =
                 [op |-> op, id |-> n, ws |-> w, to |-> to, dest |-> p, slug |-> s,
                  old |-> << >>, new |-> path, locks |-> Locks(w, to)]]
    /\ UNCHANGED <<node, lock>>

(* A row not used yet, for a request that creates one.                     *)
Fresh(n) ==
    /\ node[n].state = "absent"
    /\ \A q \in Requests : pc[q] # "idle" => req[q].id # n

(* Root folders exist, root documents do not.                              *)
Place(n, p, w) == LiveIn(p, w) /\ (n \in Docs => p # "root")

BeginCreate(r, n, w, p, s) ==
    /\ Fresh(n) /\ Place(n, p, w)
    /\ Begin(r, "create", n, w, w, p, s, << >>)

(* The import worker remembers the id and path of the folders it has made  *)
(* or found, and creates in them later.                                    *)
BeginImport(r, n, w, p, s) ==
    /\ Fresh(n) /\ Place(n, p, w)
    /\ Begin(r, "import", n, w, w, p, s, Append(PathOf(p), s))

BeginRename(r, n, s) ==
    /\ Live(n)
    /\ Begin(r, "rename", n, node[n].ws, node[n].ws, "root", s, << >>)

BeginMove(r, n, p) ==
    /\ Live(n) /\ p # n /\ Place(n, p, node[n].ws)
    /\ Begin(r, "move", n, node[n].ws, node[n].ws, p, node[n].slug, << >>)

BeginTransfer(r, n, w, p) ==
    /\ Live(n) /\ w # node[n].ws /\ Place(n, p, w)
    /\ Begin(r, "transfer", n, node[n].ws, w, p, node[n].slug, << >>)

BeginRemove(r, n, op) ==
    /\ op \in {"delete", "empty"} /\ (op = "empty" => n \in Folders)
    /\ Live(n)
    /\ Begin(r, op, n, node[n].ws, node[n].ws, "root", node[n].slug, << >>)

Arrive(r) ==
    \E n \in Nodes :
        \/ \E p \in Folders \cup {"root"}, s \in Slugs, w \in Workspaces :
              BeginCreate(r, n, w, p, s) \/ BeginImport(r, n, w, p, s)
        \/ \E s \in Slugs : BeginRename(r, n, s)
        \/ \E p \in Folders \cup {"root"} :
              BeginMove(r, n, p) \/ \E w \in Workspaces : BeginTransfer(r, n, w, p)
        \/ \E op \in {"delete", "empty"} : BeginRemove(r, n, op)

-----------------------------------------------------------------------------
(* The transaction.                                                        *)

Lock(r) ==
    LET next == Head(req[r].locks) IN
    /\ pc[r] = "lock"
    /\ lock[next] = "free"
    /\ lock' = [lock EXCEPT ![next] = r]
    /\ req' = [req EXCEPT ![r].locks = Tail(@)]
    /\ pc' = [pc EXCEPT ![r] = IF Len(req[r].locks) = 1 THEN "read" ELSE "lock"]
    /\ UNCHANGED node

(* Mutant: a refused request leaves its advisory lock behind.              *)
EndKeepsLock(r) ==
    /\ pc' = [pc EXCEPT ![r] = "done"]
    /\ UNCHANGED <<lock, req>>

(* Commit or rollback gives the locks back.                                *)
End(r) ==
    /\ pc' = [pc EXCEPT ![r] = "done"]
    /\ lock' = [w \in Workspaces |-> IF lock[w] = r THEN "free" ELSE lock[w]]
    /\ UNCHANGED req

(* The rows a request takes with FOR UPDATE, and those others hold.        *)
RowsTaken(r) ==
    CASE req[r].op \in {"create", "import"} -> {}
      [] req[r].op \in {"move", "transfer"} /\ req[r].id \in Folders ->
            {req[r].id, req[r].dest} \ {"root"}
      [] OTHER -> {req[r].id}

RowsHeldBesides(r) == UNION {RowsTaken(q) : q \in {q \in Requests \ {r} : pc[q] = "write"}}

(* The new parent; a rename keeps the parent the row has by now.           *)
NewParent(r) == IF req[r].op = "rename" THEN node[req[r].id].parent ELSE req[r].dest

(* A folder keeps the slug it was seen with, a document the one it has by  *)
(* now.                                                                    *)
NewSlug(r) ==
    IF req[r].op \in {"move", "transfer"} /\ req[r].id \in Docs
    THEN node[req[r].id].slug ELSE req[r].slug

(* Where the siblings are looked up, and which row is not one.  Moving a   *)
(* document excludes nothing.                                              *)
FreePlace(r) ==
    LET n == req[r].id
        except == IF req[r].op = "rename" \/ (req[r].op = "move" /\ n \in Folders)
                  THEN {n} ELSE {}
    IN  ~SiblingTaken(KindOf(n), req[r].to, NewParent(r), NewSlug(r), except)

(* The checks of a transaction: the row is still there, a transfer still   *)
(* finds it in its workspace, emptying still finds its name confirmed ...  *)
SourceOK(r) ==
    \/ req[r].op \in {"create", "import"}
    \/ /\ Live(req[r].id)
       /\ req[r].op = "transfer" => node[req[r].id].ws = req[r].ws
       /\ req[r].op = "empty" => node[req[r].id].slug = req[r].slug

(* ... the new parent is there; a folder is renamed in any case, import    *)
(* does not look ...                                                       *)
DestOK(r) ==
    CASE req[r].op \in {"create", "move", "transfer"} -> LiveIn(req[r].dest, req[r].to)
      [] req[r].op = "rename" /\ req[r].id \in Docs -> Live(node[req[r].id].parent)
      [] OTHER -> TRUE

(* Mutant: the cycle check is left to the check before the transaction.    *)
NoCycleUnderLock(r) == TRUE

(* ... a folder does not move below itself ...                             *)
NoCycle(r) == req[r].op = "move" => req[r].dest \notin Subtree(req[r].ws, req[r].id)

(* Mutant: only folders are looked for.                                    *)
NoFolderLeft(r) == req[r].op = "delete" => ~\E m \in Folders : Live(m) /\ node[m].parent = req[r].id

(* ... and a folder that is deleted has nothing left in it.                *)
NothingLeft(r) == req[r].op = "delete" => ~\E m \in Nodes : Live(m) /\ node[m].parent = req[r].id

Admits(r) ==
    /\ SourceOK(r) /\ DestOK(r)
    /\ req[r].op \in {"delete", "empty"} \/ FreePlace(r)
    /\ NoCycle(r) /\ NothingLeft(r)

NewPath(r) ==
    IF req[r].op = "import" THEN req[r].new
    ELSE LET p == NewParent(r)
         IN  Append(IF LiveIn(p, IF p = "root" THEN req[r].ws ELSE node[p].ws)
                    THEN PathOf(p) ELSE << >>, NewSlug(r))

(* The row locks, the checks and the new path.                             *)
TxRead(r) ==
    /\ pc[r] = "read"
    /\ RowsTaken(r) \cap RowsHeldBesides(r) = {}
    /\ UNCHANGED node
    /\ IF Admits(r)
       THEN /\ pc' = [pc EXCEPT ![r] = "write"]
            /\ req' = [req EXCEPT ![r].old = node[req[r].id].path, ![r].new = NewPath(r)]
            /\ UNCHANGED lock
       ELSE End(r)

(* Mutant: only the folder's own documents follow, not its descendants'.   *)
CascadeOneLevel(r) ==
    LET fs == Subtree(req[r].ws, req[r].id) IN (fs \cup LiveDocsIn({req[r].id})) \ {req[r].id}

(* cascadePaths: what follows the path of the row, in the workspace the    *)
(* request saw.                                                             *)
Cascade(r) ==
    LET fs == Subtree(req[r].ws, req[r].id) IN (fs \cup LiveDocsIn(fs)) \ {req[r].id}

Created(r) ==
    [node EXCEPT ![req[r].id] =
        [state |-> "live", ws |-> req[r].ws, parent |-> req[r].dest,
         slug |-> req[r].slug, path |-> req[r].new]]

Rehung(r) ==
    LET n == req[r].id
        op == req[r].op
        taken == IF op = "transfer" THEN Attached(n) \cup {n} ELSE {}
        under == Cascade(r)
    IN  [m \in Nodes |->
           [node[m] EXCEPT
              !.ws = IF m \in taken THEN req[r].to ELSE @,
              !.parent = IF m = n /\ op # "rename" THEN req[r].dest ELSE @,
              !.slug = IF m = n /\ op = "rename" THEN req[r].slug ELSE @,
              !.path = IF m = n THEN req[r].new
                       ELSE IF m \in under THEN Reroot(@, req[r].old, req[r].new) ELSE @]]

(* Emptying takes the folders below, and the documents of that workspace.  *)
Emptied(r) == {m \in Cascade(r) : node[m].ws = req[r].ws}

Removed(r) ==
    LET gone == IF req[r].op = "delete" THEN {req[r].id} ELSE Emptied(r)
    IN  [m \in Nodes |-> [node[m] EXCEPT !.state = IF m \in gone THEN "deleted" ELSE @]]

Rows(r) ==
    CASE req[r].op \in {"create", "import"} -> Created(r)
      [] req[r].op \in {"delete", "empty"} -> Removed(r)
      [] OTHER -> Rehung(r)

(* The rows written, and the parent the foreign key is checked against.    *)
RowsWritten(r) ==
    {m \in Nodes : Rows(r)[m] # node[m]} \cup ({req[r].dest} \ {"root"})

(* All writes, or none when the database refuses them.                     *)
TxWrite(r) ==
    /\ pc[r] = "write"
    /\ RowsWritten(r) \cap RowsHeldBesides(r) = {}
    /\ node' = IF Accepted(Rows(r)) THEN Rows(r) ELSE node
    /\ End(r)

(* Refused, timed out or crashed: nothing is written.                      *)
Fail(r) ==
    /\ pc[r] \in {"lock", "read", "write"}
    /\ End(r)
    /\ UNCHANGED node

Handle(r) == Lock(r) \/ TxRead(r) \/ TxWrite(r)

Next == \E r \in Requests : Arrive(r) \/ Handle(r) \/ Fail(r)

Spec == Init /\ [][Next]_vars

(* A handler runs on, and a lock that is free goes to one that waits.      *)
FairSpec == Spec /\ \A r \in Requests : WF_vars(Handle(r))

-----------------------------------------------------------------------------
(* Properties.                                                             *)

(* Whatever moves and transfers race, no folder gets below itself: every   *)
(* set of live folders has one whose parent is outside of it               *)
(* (folders/routes.ts:275).                                                *)
NoCycles ==
    \A S \in SUBSET {f \in Folders : Live(f)} :
        S # {} => \E f \in S : node[f].parent \notin S

LiveRows(w) == {n \in DOMAIN node : Live(n) /\ node[n].ws = w}

(* Within a workspace every stored path is the path of the parent and one  *)
(* segment more, after any race of creates, renames, moves and deletions:  *)
(* a subtree is rewritten as a whole and nothing is created with a path    *)
(* read too early (db.ts:3 says of the lock that it "guarantees            *)
(* cascadePaths sees a consistent subtree").                                *)
PathsFollowParents ==
    \A w \in Workspaces : \A n \in LiveRows(w) :
        node[n].path # << >> /\ Front(node[n].path) = PathOf(node[n].parent)

(* Nothing live is below something deleted: nothing attaches to a folder   *)
(* between its emptiness check and its deletion, or after (the comments at *)
(* folders/routes.ts:484 and documents/routes.ts:1190).                    *)
NothingUnderDeleted ==
    \A w \in Workspaces : \A n \in LiveRows(w) : LiveIn(node[n].parent, w)

(* Transfers lock two workspaces, in whatever order they name them, and    *)
(* every request still comes to its end (db.ts:4 "eliminates the           *)
(* deadlock").                                                             *)
EveryRequestEnds == \A r \in Requests : pc[r] # "idle" ~> pc[r] = "done"
-----------------------------------------------------------------------------
(* What keeps the properties true: the inductive invariants of the proofs. *)

Working == {"lock", "read", "write"}

(* A transaction holds the locks of both workspaces or has yet to ask.     *)
LocksTaken ==
    \A r \in Requests : pc[r] \in Working => \A w \in {req[r].ws, req[r].to} :
        \/ lock[w] = r
        \/ pc[r] = "lock" /\ \E i \in DOMAIN req[r].locks : req[r].locks[i] = w

(* Only a transfer has two workspaces, and nothing is created in itself.   *)
WellPosed ==
    \A r \in Requests : pc[r] \in Working =>
        /\ req[r].op = "transfer" <=> req[r].ws # req[r].to
        /\ req[r].op \in {"create", "import"} => req[r].dest # req[r].id
        /\ pc[r] = "lock" => req[r].locks # << >>

(* The row a request creates is its own.                                   *)
StillAbsent ==
    \A r \in Requests : pc[r] \in Working /\ req[r].op \in {"create", "import"} =>
        /\ node[req[r].id].state = "absent"
        /\ \A q \in Requests \ {r} : pc[q] # "idle" => req[q].id # req[r].id

(* What the transaction has read under its locks is still so.              *)
StillTrue ==
    \A r \in Requests : pc[r] = "write" =>
        /\ req[r].op = "transfer" =>
             node[req[r].id].state # "absent" /\ node[req[r].id].ws = req[r].ws
        /\ req[r].op \in {"move", "transfer"} /\ req[r].dest # "root" =>
             node[req[r].dest].state # "absent" /\ node[req[r].dest].ws = req[r].to
        /\ NoCycle(r)

IInv ==
    /\ TypeOK /\ Accepted(node) /\ NoCycles
    /\ LocksTaken /\ WellPosed /\ StillAbsent /\ StillTrue

(* Where nothing moves between workspaces, a request works on a row of     *)
(* the workspace it has locked ...                                         *)
NoTransfers == Ops \cap {"transfer", "import"} = {}

SeenThere ==
    \A r \in Requests : pc[r] \in Working =>
        /\ req[r].op \in Ops
        /\ req[r].op # "create" =>
             node[req[r].id].state # "absent" /\ node[req[r].id].ws = req[r].ws

(* ... and what it has read there is what it writes by.                    *)
ReadsAreFresh ==
    \A r \in Requests : pc[r] = "write" =>
        /\ req[r].op # "create" => Live(req[r].id) /\ req[r].old = node[req[r].id].path
        /\ req[r].op \in {"create", "move"} => LiveIn(req[r].dest, req[r].to)
        /\ req[r].op \in {"create", "rename", "move"} => req[r].new = NewPath(r)
        /\ NothingLeft(r)

SoundTree == PathsFollowParents /\ NothingUnderDeleted

JInv == IInv /\ SeenThere /\ ReadsAreFresh /\ SoundTree
=============================================================================
