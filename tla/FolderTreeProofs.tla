-------------------------- MODULE FolderTreeProofs --------------------------
(***************************************************************************)
(* Proofs about FolderTree: whatever creates, moves, transfers and          *)
(* deletions race in any number of workspaces, no folder gets below itself; *)
(* and in a workspace of its own every stored path is that of the parent    *)
(* and one segment more, and nothing live lies under something deleted.     *)
(***************************************************************************)
EXTENDS FolderTree, SequenceTheorems, TLAPS

(***************************************************************************)
(* Paths.                                                                  *)
(***************************************************************************)
LEMMA FrontFacts ==
    ASSUME NEW A, NEW s \in Seq(A), s # << >>
    PROVE  /\ Len(s) \in Nat /\ Len(s) >= 1
           /\ Front(s) \in Seq(A) /\ Len(Front(s)) = Len(s) - 1
           /\ \A i \in 1 .. Len(s) - 1 : Front(s)[i] = s[i]
  <1>1. Len(s) \in Nat /\ Len(s) >= 1
      BY EmptySeq
  <1>2. \A i \in 1 .. Len(s) - 1 : s[i] \in A
      BY <1>1
  <1> DEFINE n == Len(s) - 1
  <1>3. n \in Int /\ 1 \in Int
      BY <1>1
  <1> HIDE DEF n
  <1>4. /\ SubSeq(s, 1, n) \in Seq(A)
        /\ Len(SubSeq(s, 1, n)) = IF 1 <= n THEN n - 1 + 1 ELSE 0
        /\ \A i \in 1 .. n - 1 + 1 : SubSeq(s, 1, n)[i] = s[1 + i - 1]
      BY <1>2, <1>3, SubSeqProperties DEF n
  <1>5. Len(s) - 1 = n /\ n \in Nat
      BY <1>1 DEF n
  <1>6. Front(s) = SubSeq(s, 1, n)
      BY DEF Front, n
  <1> QED
      BY <1>1, <1>4, <1>5, <1>6

LEMMA FrontOfAppend ==
    ASSUME NEW A, NEW s \in Seq(A), NEW e \in A
    PROVE  /\ Append(s, e) \in Seq(A) /\ Append(s, e) # << >>
           /\ Front(Append(s, e)) = s
  BY DEF Front

(* rerootPath gives the new path to the moved row itself ...               *)
LEMMA RerootItself ==
    ASSUME NEW A, NEW old \in Seq(A), NEW new \in Seq(A)
    PROVE  IsPrefix(old, old) /\ Reroot(old, old, new) = new
  BY DEF Reroot, IsPrefix

LEMMA RerootType ==
    ASSUME NEW A, NEW path \in Seq(A), NEW old \in Seq(A), NEW new \in Seq(A)
    PROVE  Reroot(path, old, new) \in Seq(A)
  BY DEF Reroot, IsPrefix

(* ... and keeps the rest of the path of what is below it.                 *)
LEMMA RerootBelow ==
    ASSUME NEW A, NEW path \in Seq(A), path # << >>, NEW old \in Seq(A),
           NEW new \in Seq(A), IsPrefix(old, Front(path))
    PROVE  /\ IsPrefix(old, path)
           /\ Reroot(path, old, new) # << >>
           /\ Front(Reroot(path, old, new)) = Reroot(Front(path), old, new)
  <1>0. Len(path) \in Nat /\ Len(path) >= 1
      BY FrontFacts
  <1>1. /\ Front(path) \in Seq(A) /\ Len(Front(path)) = Len(path) - 1 /\ Len(path) \in Nat
        /\ \A i \in 1 .. Len(path) - 1 : Front(path)[i] = path[i]
      BY <1>0, FrontFacts
  <1>2. Len(old) <= Len(path) - 1 /\ Len(old) \in Nat
        /\ \A i \in 1 .. Len(old) : old[i] = Front(path)[i]
      BY <1>1 DEF IsPrefix
  <1>3. IsPrefix(old, path)
      BY <1>1, <1>2 DEF IsPrefix
  <1> DEFINE p == Front(path)
             k == Len(old)
             tail == SubSeq(path, k + 1, Len(path))
             rest == SubSeq(p, k + 1, Len(p))
  <1>4. /\ tail \in Seq(A) /\ Len(tail) = Len(path) - k
        /\ \A i \in 1 .. Len(path) - k : tail[i] = path[i + k]
      BY <1>0, <1>2
  <1>5. /\ rest \in Seq(A) /\ Len(rest) = Len(tail) - 1
        /\ \A i \in 1 .. Len(tail) - 1 : rest[i] = tail[i]
      BY <1>0, <1>1, <1>2, <1>4
  <1>6. Reroot(path, old, new) = new \o tail /\ Reroot(p, old, new) = new \o rest
      BY <1>3 DEF Reroot
  <1>7. Len(tail) >= 1
      BY <1>1, <1>2, <1>4
  <1> HIDE DEF p, k, tail, rest
  <1>8. /\ new \o tail \in Seq(A) /\ Len(new \o tail) = Len(new) + Len(tail)
        /\ new \o rest \in Seq(A) /\ Len(new \o rest) = Len(new) + Len(tail) - 1
        /\ Len(new) \in Nat /\ Len(tail) \in Nat
    <2>1. Len(new) \in Nat /\ Len(tail) \in Nat
        BY <1>4
    <2>2. new \o tail \in Seq(A) /\ Len(new \o tail) = Len(new) + Len(tail)
        BY <1>4, ConcatProperties
    <2>3. new \o rest \in Seq(A) /\ Len(new \o rest) = Len(new) + Len(rest)
        BY <1>5, ConcatProperties
    <2> QED
        BY <1>5, <2>1, <2>2, <2>3
  <1>9. \A i \in 1 .. Len(new) + Len(tail) - 1 : (new \o tail)[i] = (new \o rest)[i]
      BY <1>4, <1>5, <1>7
  <1>10. Front(new \o tail) = new \o rest
    <2>1. /\ Front(new \o tail) \in Seq(A)
          /\ Len(Front(new \o tail)) = Len(new) + Len(tail) - 1
          /\ \A i \in 1 .. Len(new) + Len(tail) - 1 : Front(new \o tail)[i] = (new \o tail)[i]
      <3>1. new \o tail # << >>
          BY <1>7, <1>8
      <3> DEFINE t == new \o tail
      <3>2. t \in Seq(A) /\ t # << >> /\ Len(t) - 1 = Len(new) + Len(tail) - 1
          BY <1>8, <3>1
      <3> HIDE DEF t
      <3>3. /\ Front(t) \in Seq(A) /\ Len(Front(t)) = Len(t) - 1
            /\ \A i \in 1 .. Len(t) - 1 : Front(t)[i] = t[i]
          BY <3>2, FrontFacts
      <3> QED
          BY <3>2, <3>3 DEF t
    <2> QED
        BY <1>8, <1>9, <2>1, SeqEqual
  <1>11. new \o tail # << >>
      BY <1>7, <1>8
  <1> QED
      BY <1>3, <1>6, <1>10, <1>11 DEF p

(***************************************************************************)
(* Subtrees.                                                               *)
(***************************************************************************)
LEMMA BelowFacts ==
    ASSUME NEW n, NEW S
    PROVE  /\ n \in Below(n, S)
           /\ Below(n, S) \subseteq S \cup {n}
           /\ \A g \in S : node[g].parent \in Below(n, S) => g \in Below(n, S)
  BY DEF Below

(* A set that has n and the children of what it has, has all below n.      *)
LEMMA BelowLeast ==
    ASSUME NEW n, NEW S, NEW T, n \in T,
           \A g \in S : node[g].parent \in T /\ node[g].parent \in S \cup {n} => g \in T
    PROVE  Below(n, S) \subseteq T
  <1> DEFINE U == T \cap (S \cup {n})
  <1>1. U \in SUBSET (S \cup {n}) /\ n \in U
      OBVIOUS
  <1>2. \A g \in S : node[g].parent \in U => g \in U
      OBVIOUS
  <1>3. U \subseteq T
      OBVIOUS
  <1> HIDE DEF U
  <1>4. Below(n, S) \subseteq U
      BY <1>1, <1>2 DEF Below
  <1> QED
      BY <1>3, <1>4

LEMMA BelowParent ==
    ASSUME NEW n, NEW S, NEW f \in Below(n, S), f # n
    PROVE  node[f].parent \in Below(n, S)
  <1> SUFFICES ASSUME node[f].parent \notin Below(n, S) PROVE FALSE
      OBVIOUS
  <1> DEFINE T == Below(n, S) \ {f}
  <1>1. n \in T /\ \A g \in S : node[g].parent \in T => g \in T
      BY BelowFacts
  <1>2. f \notin T
      OBVIOUS
  <1> HIDE DEF T
  <1>3. Below(n, S) \subseteq T
      BY <1>1, BelowLeast
  <1> QED
      BY <1>2, <1>3

(* No child of a document, and no folder above one that is in no circle.   *)
LEMMA BelowDoc ==
    ASSUME TypeOK, NEW d \in Docs, NEW S \in SUBSET Folders
    PROVE  Below(d, S) = {d}
  <1>1. \A g \in S : node[g].parent # d
      BY NodesAssumption DEF TypeOK, Row, Nodes
  <1>2. Below(d, S) \subseteq {d}
      BY <1>1, BelowLeast
  <1> QED
      BY <1>2, BelowFacts

LEMMA ParentOutside ==
    ASSUME TypeOK, NoCycles, NEW w, NEW n \in Folders, Live(n)
    PROVE  node[n].parent \notin Subtree(w, n)
  <1> DEFINE S == {f \in Folders : Live(f) /\ node[f].ws = w}
  <1> SUFFICES ASSUME node[n].parent \in Below(n, S) PROVE FALSE
      BY DEF Subtree
  <1>1. \A f \in Below(n, S) : node[f].parent \in Below(n, S)
      BY BelowParent
  <1>2. Below(n, S) \in SUBSET {f \in Folders : Live(f)} /\ Below(n, S) # {}
      BY BelowFacts
  <1> QED
      BY <1>1, <1>2 DEF NoCycles
(***************************************************************************)
(* What is written is well typed.                                          *)
(***************************************************************************)
LEMMA LocksFacts ==
    ASSUME NEW w \in Workspaces, NEW to \in Workspaces
    PROVE  /\ Locks(w, to) \in Seq(Workspaces) /\ Locks(w, to) # << >>
           /\ \A v \in {w, to} : \E i \in DOMAIN Locks(w, to) : Locks(w, to)[i] = v
  <1>1. CASE w = to
    <2>1. Locks(w, to) = <<w>>
        BY <1>1 DEF Locks
    <2> QED
        BY <1>1, <2>1
  <1>2. CASE w # to /\ Before(w, to)
    <2>1. Locks(w, to) = <<w, to>>
        BY <1>2 DEF Locks
    <2> QED
        BY <2>1
  <1>3. CASE w # to /\ ~Before(w, to)
    <2>1. Locks(w, to) = <<to, w>>
        BY <1>3 DEF Locks
    <2> QED
        BY <2>1
  <1> QED
      BY <1>1, <1>2, <1>3

LEMMA RowFields ==
    ASSUME TypeOK, NEW n \in Nodes
    PROVE  /\ node[n] \in Row /\ node[n].ws \in Workspaces /\ node[n].slug \in Slugs
           /\ node[n].parent \in Folders \cup {"root"} /\ node[n].path \in Seq(Slugs)
           /\ node[n].state \in {"absent", "live", "deleted"}
           /\ node[n].parent # "root" => node[n].parent \in Nodes
  BY DEF TypeOK, Row, Nodes

LEMMA RequestFields ==
    ASSUME TypeOK, NEW r \in Requests, pc[r] # "idle"
    PROVE  /\ req[r] \in Request /\ req[r].op \in AllOps /\ req[r].id \in Nodes
           /\ req[r].ws \in Workspaces /\ req[r].to \in Workspaces
           /\ req[r].dest \in Folders \cup {"root"} /\ req[r].slug \in Slugs
           /\ req[r].old \in Seq(Slugs) /\ req[r].new \in Seq(Slugs)
           /\ req[r].locks \in Seq(Workspaces)
           /\ req[r].dest # "root" => req[r].dest \in Nodes
  BY DEF TypeOK, Request, Nodes

LEMMA PathOfType ==
    ASSUME TypeOK, NEW p \in Folders \cup {"root"}
    PROVE  PathOf(p) \in Seq(Slugs)
  BY DEF PathOf, TypeOK, Row, Nodes

LEMMA NewPathType ==
    ASSUME TypeOK, NEW r \in Requests, pc[r] # "idle"
    PROVE  /\ NewParent(r) \in Folders \cup {"root"} /\ NewSlug(r) \in Slugs
           /\ NewPath(r) \in Seq(Slugs)
  <1>1. NewParent(r) \in Folders \cup {"root"} /\ NewSlug(r) \in Slugs
      BY RequestFields, RowFields DEF NewParent, NewSlug
  <1>2. PathOf(NewParent(r)) \in Seq(Slugs) /\ << >> \in Seq(Slugs)
      BY <1>1, PathOfType
  <1> QED
      BY <1>1, <1>2, RequestFields DEF NewPath

LEMMA RowsType ==
    ASSUME TypeOK, NEW r \in Requests, pc[r] # "idle"
    PROVE  Rows(r) \in [Nodes -> Row]
  <1>1. Created(r) \in [Nodes -> Row]
    <2>1. [state |-> "live", ws |-> req[r].ws, parent |-> req[r].dest,
           slug |-> req[r].slug, path |-> req[r].new] \in Row
        BY RequestFields DEF Row
    <2> QED
        BY <2>1, RequestFields DEF Created, TypeOK
  <1>2. Removed(r) \in [Nodes -> Row]
    <2>1. ASSUME NEW m \in Nodes, NEW s \in {"deleted", node[m].state}
          PROVE  [node[m] EXCEPT !.state = s] \in Row
        BY <2>1, RowFields DEF Row
    <2> QED
        BY <2>1 DEF Removed
  <1>3. Rehung(r) \in [Nodes -> Row]
    <2>1. ASSUME NEW m \in Nodes, NEW w \in Workspaces, NEW p \in Folders \cup {"root"},
                 NEW s \in Slugs, NEW path \in Seq(Slugs)
          PROVE  [node[m] EXCEPT !.ws = w, !.parent = p, !.slug = s, !.path = path] \in Row
      <3>1. node[m] \in Row
          BY RowFields
      <3> QED
          BY <3>1 DEF Row
    <2>2. ASSUME NEW m \in Nodes
          PROVE  Reroot(node[m].path, req[r].old, req[r].new) \in Seq(Slugs)
        BY <2>2, RowFields, RequestFields, RerootType
    <2> QED
        BY <2>1, <2>2, RowFields, RequestFields DEF Rehung
  <1> QED
      BY <1>1, <1>2, <1>3 DEF Rows
(***************************************************************************)
(* What a write changes.                                                   *)
(***************************************************************************)
Making == {"create", "import"}

LEMMA RowsChange ==
    ASSUME TypeOK, NEW r \in Requests, pc[r] # "idle", NEW m \in Nodes
    PROVE  LET n == req[r].id
               op == req[r].op
               row == Rows(r)[m]
           IN  /\ node[m].state # "absent" => row.state # "absent"
               /\ m # n /\ node[m].state = "absent" => row.state = "absent"
               /\ (m # n \/ op \notin Making) /\ row.state = "live" => Live(m)
               /\ m # n \/ op \notin Making \cup {"move", "transfer"} => row.parent = node[m].parent
               /\ m = n /\ op \in Making \cup {"move", "transfer"} => row.parent = req[r].dest
               /\ op \notin Making \cup {"transfer"} \/ (m # n /\ op \in Making) => row.ws = node[m].ws
               /\ m = n /\ op \in Making => row.ws = req[r].ws /\ row.state = "live"
               /\ op = "transfer" =>
                    row.ws = IF m \in Attached(n) \cup {n} THEN req[r].to ELSE node[m].ws
  <1> DEFINE n == req[r].id
             op == req[r].op
  <1>1. node[m] \in Row /\ n \in Nodes /\ op \in AllOps /\ req[r].to \in Workspaces
      BY RowFields, RequestFields
  <1>2. CASE op \in Making
    <2>1. Rows(r)[m] = IF m = n THEN [state |-> "live", ws |-> req[r].ws, parent |-> req[r].dest,
                                      slug |-> req[r].slug, path |-> req[r].new]
                       ELSE node[m]
        BY <1>1, <1>2 DEF Rows, Created, Making, TypeOK
    <2> QED
        BY <1>1, <1>2, <2>1 DEF Making, Live
  <1>3. CASE op \in {"delete", "empty"}
    <2> DEFINE gone == IF op = "delete" THEN {n} ELSE Emptied(r)
    <2>1. Rows(r)[m] = [node[m] EXCEPT !.state = IF m \in gone THEN "deleted" ELSE @]
        BY <1>1, <1>3 DEF Rows, Removed
    <2>2. m \in gone /\ m # n => Live(m)
        BY BelowFacts DEF Emptied, Cascade, Subtree, LiveDocsIn
    <2> HIDE DEF gone
    <2> QED
        BY <1>1, <1>3, <2>1, <2>2 DEF Making, Live, Row
  <1>4. CASE op \in {"rename", "move", "transfer"}
    <2> DEFINE taken == IF op = "transfer" THEN Attached(n) \cup {n} ELSE {}
    <2>1. PICK slug, path :
            Rows(r)[m] = [node[m] EXCEPT
                            !.ws = IF m \in taken THEN req[r].to ELSE @,
                            !.parent = IF m = n /\ op # "rename" THEN req[r].dest ELSE @,
                            !.slug = slug, !.path = path]
        BY <1>1, <1>4 DEF Rows, Rehung
    <2>2. /\ Rows(r)[m].state = node[m].state
          /\ Rows(r)[m].parent = IF m = n /\ op # "rename" THEN req[r].dest ELSE node[m].parent
          /\ Rows(r)[m].ws = IF m \in taken THEN req[r].to ELSE node[m].ws
        BY <1>1, <2>1 DEF Row
    <2> QED
        BY <1>4, <2>2 DEF Making, Live
  <1> QED
      BY <1>1, <1>2, <1>3, <1>4 DEF AllOps, Making

(* What is attached to a row is in its workspace.                          *)
LEMMA AttachedWs ==
    ASSUME TypeOK, Accepted(node), NEW n \in Nodes, NEW m \in Attached(n), node[n].state # "absent"
    PROVE  m \in Nodes /\ node[m].ws = node[n].ws
  <1> DEFINE S == {f \in Folders : node[f].state # "absent"}
             T == {k \in Nodes : node[k].ws = node[n].ws}
  <1>1. \A g \in S : node[g].parent \in T /\ node[g].parent \in S \cup {n} => g \in T
      BY NodesAssumption DEF Accepted, Nodes
  <1>2. n \in T
      OBVIOUS
  <1> HIDE DEF S, T
  <1>3. Below(n, S) \subseteq T
      BY <1>1, <1>2, BelowLeast
  <1>4. CASE m \in Below(n, S)
      BY <1>3, <1>4 DEF T
  <1>5. CASE m \in Docs /\ node[m].state # "absent" /\ node[m].parent \in Below(n, S)
    <2>1. node[m].parent \in T
        BY <1>3, <1>5
    <2> QED
        BY <1>5, <2>1, NodesAssumption DEF T, Accepted, Nodes
  <1> QED
      BY <1>4, <1>5 DEF Attached, S

(* A row stays in its workspace while a request holds its lock.            *)
LEMMA WsKept ==
    ASSUME IInv, NEW r \in Requests, pc[r] = "write", NEW q \in Requests \ {r},
           NEW m \in Nodes, node[m].state # "absent", lock[node[m].ws] = q
    PROVE  Rows(r)[m].state # "absent" /\ Rows(r)[m].ws = node[m].ws
  <1>1. TypeOK /\ Accepted(node) /\ pc[r] # "idle" /\ pc[r] \in Working
      BY DEF IInv, Working
  <1>2. Rows(r)[m].state # "absent"
      BY <1>1, RowsChange
  <1>3. CASE req[r].op \in Making
    <2>1. node[req[r].id].state = "absent"
        BY <1>1, <1>3 DEF IInv, StillAbsent, Making
    <2> QED
        BY <1>1, <1>2, <1>3, <2>1, RowsChange
  <1>4. CASE req[r].op = "transfer"
    <2>1. node[req[r].id].state # "absent" /\ node[req[r].id].ws = req[r].ws
        BY <1>4 DEF IInv, StillTrue
    <2>2. lock[req[r].ws] = r
        BY <1>1 DEF IInv, LocksTaken
    <2>3. m \notin Attached(req[r].id) \cup {req[r].id}
        BY <1>1, <2>1, <2>2, AttachedWs, RequestFields
    <2> QED
        BY <1>1, <1>2, <1>4, <2>3, RowsChange
  <1>5. CASE req[r].op \notin Making \cup {"transfer"}
      BY <1>1, <1>2, <1>5, RowsChange
  <1> QED
      BY <1>3, <1>4, <1>5
(* What lies below a row in a workspace another request has locked only    *)
(* gets less.                                                              *)
LEMMA SubtreeKept ==
    ASSUME IInv, NEW r \in Requests, pc[r] = "write", Accepted(Rows(r)), node' = Rows(r),
           NEW q \in Requests \ {r}, NEW w \in Workspaces, lock[w] = q, NEW n \in Nodes
    PROVE  Subtree(w, n)' \subseteq Subtree(w, n)
  <1> DEFINE id == req[r].id
             op == req[r].op
             S == {f \in Folders : Live(f) /\ node[f].ws = w}
             Later == {f \in Folders : node'[f].state = "live" /\ node'[f].ws = w}
             U == Below(n, S) \cap (Later \cup {n})
  <1>1. /\ TypeOK /\ Accepted(node) /\ pc[r] # "idle" /\ pc[r] \in Working
        /\ Folders \subseteq Nodes /\ "root" \notin Nodes
      BY NodesAssumption DEF IInv, Working, Nodes
  <1>2. lock[req[r].ws] = r /\ lock[req[r].to] = r
      BY <1>1 DEF IInv, LocksTaken
  <1>3. ASSUME NEW f \in Later
        PROVE  f \in S /\ (node'[f].parent = node[f].parent \/ node'[f].parent = "root")
    <2>1. ~(f = id /\ op \in Making)
        BY <1>1, <1>2, RowsChange
    <2>2. Live(f)
        BY <1>1, <2>1, RowsChange
    <2>3. node[f].ws = w
        BY <1>1, <1>2, <2>1, RowsChange
    <2>4. ~(f = id /\ op = "transfer")
        BY <1>1, <1>2, RowsChange
    <2>5. ASSUME f = id, op = "move", req[r].dest # "root"
          PROVE  FALSE
      <3>1. /\ req[r].dest \in Nodes
            /\ node[req[r].dest].state # "absent" /\ node[req[r].dest].ws = req[r].to
          BY <1>1, <2>5, RequestFields DEF IInv, StillTrue
      <3>2. Rows(r)[req[r].dest].ws = req[r].to
          BY <1>1, <2>5, <3>1, RowsChange DEF Making
      <3>3. Rows(r)[id].parent = req[r].dest /\ Rows(r)[id].state = "live" /\ Rows(r)[id].ws = w
          BY <1>1, <2>5, RowsChange
      <3>4. Rows(r)[req[r].dest].ws = w
          BY <1>1, <2>5, <3>3, RequestFields DEF Accepted
      <3> QED
          BY <1>2, <3>2, <3>4
    <2>6. node'[f].parent = node[f].parent \/ node'[f].parent = "root"
      <3>1. CASE f # id \/ op \notin Making \cup {"move", "transfer"}
          BY <1>1, <3>1, RowsChange
      <3>2. CASE f = id /\ op = "move"
          BY <1>1, <2>5, <3>2, RowsChange
      <3> QED
          BY <2>1, <2>4, <3>1, <3>2
    <2> QED
        BY <2>2, <2>3, <2>6
  <1>4. Below(n, S) \subseteq Nodes
      BY <1>1, BelowFacts
  <1>5. n \in U /\ U \in SUBSET (Later \cup {n})
      BY BelowFacts
  <1>6. \A g \in Later : node'[g].parent \in U => g \in U
      BY <1>1, <1>3, <1>4, BelowFacts
  <1>7. Subtree(w, n)' \subseteq U
    <2>1. Subtree(w, n)' = {f \in Later \cup {n} : \A T \in SUBSET (Later \cup {n}) :
             (n \in T /\ \A g \in Later : node'[g].parent \in T => g \in T) => f \in T}
        BY DEF Subtree, Below, Live
    <2> HIDE DEF U, Later
    <2> QED
        BY <1>5, <1>6, <2>1
  <1>8. U \subseteq Subtree(w, n)
      BY DEF Subtree
  <1> QED
      BY <1>7, <1>8

(* No write makes a circle.                                                *)
LEMMA WriteNoCycles ==
    ASSUME IInv, NEW r \in Requests, pc[r] = "write", Accepted(Rows(r)), node' = Rows(r)
    PROVE  NoCycles'
  <1> DEFINE id == req[r].id
             op == req[r].op
             dest == req[r].dest
  <1>1. /\ TypeOK /\ Accepted(node) /\ NoCycles /\ pc[r] # "idle" /\ pc[r] \in Working
        /\ Folders \subseteq Nodes /\ "root" \notin Nodes
      BY NodesAssumption DEF IInv, Working, Nodes
  <1> SUFFICES ASSUME NEW S \in SUBSET {f \in Folders : node'[f].state = "live"}, S # {},
                      \A f \in S : node'[f].parent \in S
               PROVE  FALSE
      BY DEF NoCycles, Live
  <1>2. ASSUME NEW T \in SUBSET S, T # {}, \A f \in T : Live(f) /\ node[f].parent \in T
        PROVE  FALSE
      BY <1>1, <1>2 DEF NoCycles
  <1>3. \A f \in S : f # id => Live(f) /\ node[f].parent \in S
      BY <1>1, RowsChange
  <1>4. CASE id \notin S
      BY <1>2, <1>3, <1>4
  <1>5. CASE id \in S /\ op \notin Making \cup {"move", "transfer"}
    <2>1. \A f \in S : Live(f) /\ node[f].parent \in S
        BY <1>1, <1>5, RowsChange
    <2> QED
        BY <1>2, <2>1
  <1>6. CASE id \in S /\ op \in Making
    <2>1. node[id].state = "absent" /\ dest # id
        BY <1>1, <1>6 DEF IInv, StillAbsent, WellPosed, Making
    <2>2. dest \in S
        BY <1>1, <1>6, RowsChange
    <2>3. \A f \in S \ {id} : node[f].parent # id
        BY <1>1, <1>3, <2>1 DEF Accepted, Live
    <2> DEFINE T == S \ {id}
    <2>4. T \in SUBSET S /\ T # {} /\ \A f \in T : Live(f) /\ node[f].parent \in T
        BY <1>3, <2>1, <2>2, <2>3
    <2> HIDE DEF T
    <2> QED
        BY <1>2, <2>4
  <1>7. CASE id \in S /\ op = "move"
    <2> DEFINE w == req[r].ws
               T == {f \in S : node[f].ws = w /\ f \notin Subtree(w, id)}
    <2>1. dest \in S /\ dest # "root"
        BY <1>1, <1>7, RowsChange
    <2>2. dest \in T
      <3>1. node[dest].ws = req[r].to /\ dest \notin Subtree(w, id)
          BY <1>7, <2>1 DEF IInv, StillTrue, NoCycle
      <3>2. req[r].to = w
          BY <1>1, <1>7 DEF IInv, WellPosed
      <3> QED
          BY <2>1, <3>1, <3>2
    <2>3. id \in Subtree(w, id)
        BY BelowFacts DEF Subtree
    <2>4. ASSUME NEW f \in T
          PROVE  Live(f) /\ node[f].parent \in T
      <3>1. f # id /\ Live(f) /\ node[f].parent \in S
          BY <1>3, <2>3
      <3>2. node[node[f].parent].ws = w
          BY <1>1, <3>1 DEF Accepted, Live
      <3>3. node[f].parent \notin Subtree(w, id)
          BY <3>1, BelowFacts DEF Subtree
      <3> QED
          BY <3>1, <3>2, <3>3
    <2> HIDE DEF T
    <2>5. T \in SUBSET S
        BY DEF T
    <2> QED
        BY <1>2, <2>2, <2>4, <2>5
  <1>8. CASE id \in S /\ op = "transfer"
    <2> DEFINE T == {f \in S : node[f].ws = req[r].to}
    <2>1. dest \in S /\ dest # "root"
        BY <1>1, <1>8, RowsChange
    <2>2. dest \in T
        BY <1>8, <2>1 DEF IInv, StillTrue
    <2>3. node[id].ws # req[r].to
        BY <1>1, <1>8 DEF IInv, StillTrue, WellPosed
    <2>4. ASSUME NEW f \in T
          PROVE  Live(f) /\ node[f].parent \in T
      <3>1. f # id /\ Live(f) /\ node[f].parent \in S
          BY <1>3, <2>3
      <3>2. node[node[f].parent].ws = req[r].to
          BY <1>1, <3>1 DEF Accepted, Live
      <3> QED
          BY <3>1, <3>2
    <2> HIDE DEF T
    <2>5. T \in SUBSET S
        BY DEF T
    <2> QED
        BY <1>2, <2>2, <2>4, <2>5
  <1> QED
      BY <1>4, <1>5, <1>6, <1>7, <1>8
(***************************************************************************)
(* The inductive invariant.                                                *)
(***************************************************************************)
LEMMA InitIInv == Init => IInv
  <1> SUFFICES ASSUME Init PROVE IInv
      OBVIOUS
  <1>1. TypeOK
      BY TreeAssumption DEF Init, TypeOK
  <1>2. Accepted(node)
      BY TreeAssumption DEF Init
  <1>3. NoCycles
    <2> SUFFICES ASSUME NEW S \in SUBSET {f \in Folders : Live(f)}, S # {}
                 PROVE  \E f \in S : node[f].parent \notin S
        BY DEF NoCycles
    <2> QED
        BY TreeAssumption DEF Init
  <1>4. LocksTaken /\ WellPosed /\ StillAbsent /\ StillTrue
      BY DEF Init, LocksTaken, WellPosed, StillAbsent, StillTrue, Working
  <1> QED
      BY <1>1, <1>2, <1>3, <1>4 DEF IInv

(* Nothing is written.                                                     *)
LEMMA SameRows ==
    ASSUME IInv, UNCHANGED node
    PROVE  /\ Accepted(node)' /\ NoCycles'
           /\ \A w, n : Subtree(w, n)' = Subtree(w, n)
  <1>1. Accepted(node)'
      BY DEF IInv
  <1>2. NoCycles'
      BY DEF IInv, NoCycles, Live
  <1>3. \A w, n : Subtree(w, n)' = Subtree(w, n)
      BY DEF Subtree, Below, Live
  <1> QED
      BY <1>1, <1>2, <1>3

LEMMA BeginIInv ==
    ASSUME IInv, NEW r \in Requests, NEW op \in AllOps, NEW n \in Nodes,
           NEW w \in Workspaces, NEW to \in Workspaces, NEW p \in Folders \cup {"root"},
           NEW s \in Slugs, NEW path \in Seq(Slugs),
           Begin(r, op, n, w, to, p, s, path),
           op = "transfer" <=> w # to,
           op \in Making => Fresh(n) /\ p # n,
           op \notin Making => Live(n)
    PROVE  IInv'
  <1> DEFINE z == [op |-> op, id |-> n, ws |-> w, to |-> to, dest |-> p, slug |-> s,
                   old |-> << >>, new |-> path, locks |-> Locks(w, to)]
  <1>1. pc[r] = "idle" /\ pc' = [pc EXCEPT ![r] = "lock"] /\ req' = [req EXCEPT ![r] = z]
        /\ UNCHANGED <<node, lock>>
      BY DEF Begin
  <1>2. TypeOK
      BY DEF IInv
  <1>3. /\ Locks(w, to) \in Seq(Workspaces) /\ Locks(w, to) # << >>
        /\ \A v \in {w, to} : \E i \in DOMAIN Locks(w, to) : Locks(w, to)[i] = v
      BY LocksFacts
  <1>4. z \in Request /\ z.op = op /\ z.id = n /\ z.ws = w /\ z.to = to /\ z.dest = p
        /\ z.locks = Locks(w, to)
      BY <1>3 DEF Request
  <1> HIDE DEF z
  <1>5. \A q \in Requests : /\ pc'[q] = IF q = r THEN "lock" ELSE pc[q]
                            /\ req'[q] = IF q = r THEN z ELSE req[q]
      BY <1>1, <1>2 DEF TypeOK
  <1>6. TypeOK'
      BY <1>1, <1>2, <1>4, <1>5 DEF TypeOK
  <1>7. Accepted(node)' /\ NoCycles' /\ \A v, k : Subtree(v, k)' = Subtree(v, k)
      BY <1>1, SameRows
  <1>8. LocksTaken'
      BY <1>1, <1>3, <1>4, <1>5 DEF IInv, LocksTaken, Working
  <1>9. WellPosed'
      BY <1>3, <1>4, <1>5 DEF IInv, WellPosed, Working, Making
  <1>10. StillAbsent'
      BY <1>1, <1>4, <1>5 DEF IInv, StillAbsent, Working, Making, Fresh, Live
  <1>11. StillTrue'
      BY <1>1, <1>5, <1>7 DEF IInv, StillTrue, NoCycle
  <1> QED
      BY <1>6, <1>7, <1>8, <1>9, <1>10, <1>11 DEF IInv

LEMMA ArriveIInv ==
    ASSUME IInv, NEW r \in Requests, Arrive(r)
    PROVE  IInv'
  <1>1. PICK n \in Nodes :
        \/ \E p \in Folders \cup {"root"}, s \in Slugs, w \in Workspaces :
              BeginCreate(r, n, w, p, s) \/ BeginImport(r, n, w, p, s)
        \/ \E s \in Slugs : BeginRename(r, n, s)
        \/ \E p \in Folders \cup {"root"} :
              BeginMove(r, n, p) \/ \E w \in Workspaces : BeginTransfer(r, n, w, p)
        \/ \E op \in {"delete", "empty"} : BeginRemove(r, n, op)
      BY DEF Arrive
  <1>2. /\ TypeOK /\ node[n].ws \in Workspaces /\ node[n].slug \in Slugs
        /\ << >> \in Seq(Slugs) /\ "root" \in Folders \cup {"root"}
      BY RowFields DEF IInv
  <1>ops. /\ \A op \in {"rename", "move", "delete", "empty"} :
                op \in AllOps /\ op \notin Making /\ op # "transfer"
          /\ "transfer" \in AllOps /\ "transfer" \notin Making
          /\ \A op \in Making : op \in AllOps /\ op # "transfer"
          /\ "create" \in Making /\ "import" \in Making
      BY DEF Making, AllOps
  <1>3. ASSUME NEW p \in Folders \cup {"root"}, NEW s \in Slugs, NEW w \in Workspaces,
               BeginCreate(r, n, w, p, s) \/ BeginImport(r, n, w, p, s)
        PROVE  IInv'
    <2>1. Fresh(n) /\ p # n
        BY <1>3, NodesAssumption DEF BeginCreate, BeginImport, Place, LiveIn, Live, Fresh, Nodes
    <2>2. Append(PathOf(p), s) \in Seq(Slugs)
        BY <1>2, PathOfType
    <2>3. CASE BeginCreate(r, n, w, p, s)
        BY <1>2, <1>ops, <2>1, <2>3, BeginIInv DEF BeginCreate
    <2>4. CASE BeginImport(r, n, w, p, s)
        BY <1>2, <1>ops, <2>1, <2>2, <2>4, BeginIInv DEF BeginImport
    <2> QED
        BY <1>3, <2>3, <2>4
  <1>4. ASSUME NEW s \in Slugs, BeginRename(r, n, s)
        PROVE  IInv'
      BY <1>2, <1>ops, <1>4, BeginIInv DEF BeginRename
  <1>5. ASSUME NEW op \in {"move", "delete", "empty"}, NEW p \in Folders \cup {"root"},
               NEW s \in Slugs, NEW w \in Workspaces, Live(n), Begin(r, op, n, w, w, p, s, << >>)
        PROVE  IInv'
    <2>1. op \in AllOps /\ op \notin Making /\ op # "transfer"
        BY <1>5, <1>ops
    <2> QED
        BY <1>2, <1>5, <2>1, BeginIInv
  <1>6. ASSUME NEW p \in Folders \cup {"root"}, BeginMove(r, n, p)
        PROVE  IInv'
    <2>1. Live(n) /\ Begin(r, "move", n, node[n].ws, node[n].ws, p, node[n].slug, << >>)
        BY <1>6 DEF BeginMove
    <2> QED
        BY <1>2, <1>5, <1>6, <2>1
  <1>7. ASSUME NEW p \in Folders \cup {"root"}, NEW w \in Workspaces, BeginTransfer(r, n, w, p)
        PROVE  IInv'
    <2>1. /\ Live(n) /\ w # node[n].ws
          /\ Begin(r, "transfer", n, node[n].ws, w, p, node[n].slug, << >>)
        BY <1>7 DEF BeginTransfer
    <2>2. ASSUME NEW op \in AllOps, op = "transfer", NEW s \in Slugs, NEW v \in Workspaces, v # w,
                 Begin(r, op, n, v, w, p, s, << >>)
          PROVE  IInv'
        BY <1>2, <1>ops, <1>7, <2>1, <2>2, BeginIInv
    <2> QED
        BY <1>2, <1>ops, <2>1, <2>2
  <1>8. ASSUME NEW op \in {"delete", "empty"}, BeginRemove(r, n, op)
        PROVE  IInv'
    <2>1. Live(n) /\ Begin(r, op, n, node[n].ws, node[n].ws, "root", node[n].slug, << >>)
        BY <1>8 DEF BeginRemove
    <2> QED
        BY <1>2, <1>5, <1>8, <2>1
  <1> QED
      BY <1>1, <1>3, <1>4, <1>6, <1>7, <1>8

LEMMA LockIInv ==
    ASSUME IInv, NEW r \in Requests, Lock(r)
    PROVE  IInv'
  <1> DEFINE locks == req[r].locks
             p == IF Len(locks) = 1 THEN "read" ELSE "lock"
             z == [req[r] EXCEPT !.locks = Tail(locks)]
  <1>1. /\ pc[r] = "lock" /\ lock[Head(locks)] = "free" /\ UNCHANGED node
        /\ lock' = [lock EXCEPT ![Head(locks)] = r]
        /\ req' = [req EXCEPT ![r] = z]
        /\ pc' = [pc EXCEPT ![r] = p]
      BY DEF Lock
  <1>2. TypeOK /\ req[r] \in Request /\ locks \in Seq(Workspaces) /\ locks # << >>
      BY <1>1, RequestFields DEF IInv, WellPosed, Working
  <1>3. /\ Len(locks) \in Nat /\ Len(locks) >= 1 /\ Head(locks) = locks[1]
        /\ Head(locks) \in Workspaces /\ Tail(locks) \in Seq(Workspaces)
        /\ Len(Tail(locks)) = Len(locks) - 1
        /\ \A i \in 1 .. Len(locks) - 1 : Tail(locks)[i] = locks[i + 1]
      BY <1>2, EmptySeq, HeadTailProperties
  <1>4. /\ z \in Request /\ z.locks = Tail(locks) /\ z.op = req[r].op /\ z.id = req[r].id
        /\ z.ws = req[r].ws /\ z.to = req[r].to /\ z.dest = req[r].dest
      BY <1>2, <1>3 DEF Request
  <1> HIDE DEF z
  <1>5. \A q \in Requests : /\ pc'[q] = IF q = r THEN p ELSE pc[q]
                            /\ req'[q] = IF q = r THEN z ELSE req[q]
      BY <1>1, <1>2 DEF TypeOK
  <1>6. \A w \in Workspaces : lock'[w] = IF w = Head(locks) THEN r ELSE lock[w]
      BY <1>1, <1>2 DEF TypeOK
  <1>7. TypeOK'
      BY <1>1, <1>2, <1>3, <1>4, <1>5, <1>6 DEF TypeOK
  <1>8. Accepted(node)' /\ NoCycles' /\ \A v, k : Subtree(v, k)' = Subtree(v, k)
      BY <1>1, SameRows
  <1>9. LocksTaken'
    <2> SUFFICES ASSUME NEW q \in Requests, pc'[q] \in Working, NEW w \in {req'[q].ws, req'[q].to}
                 PROVE  \/ lock'[w] = q
                        \/ pc'[q] = "lock" /\ \E i \in DOMAIN req'[q].locks : req'[q].locks[i] = w
        BY DEF LocksTaken
    <2>1. pc[q] \in Working /\ w \in {req[q].ws, req[q].to} /\ w \in Workspaces
      <3>1. pc[q] \in Working /\ w \in {req[q].ws, req[q].to}
          BY <1>1, <1>4, <1>5 DEF Working
      <3> QED
          BY <1>2, <3>1, RequestFields DEF Working
    <2>2. \/ lock[w] = q
          \/ pc[q] = "lock" /\ \E i \in DOMAIN req[q].locks : req[q].locks[i] = w
        BY <2>1 DEF IInv, LocksTaken
    <2>3. CASE q # r
        BY <1>1, <1>5, <1>6, <2>1, <2>2, <2>3, FreeAssumption
    <2>4. CASE q = r /\ lock[w] = r
        BY <1>6, <2>1, <2>4
    <2>5. CASE q = r /\ \E i \in DOMAIN locks : locks[i] = w
      <3>1. PICK i \in 1 .. Len(locks) : locks[i] = w
          BY <1>2, <2>5
      <3>2. CASE i = 1
          BY <1>3, <1>6, <2>1, <2>5, <3>1, <3>2
      <3>3. CASE i # 1
        <4>1. /\ i - 1 \in 1 .. Len(locks) - 1 /\ Tail(locks)[i - 1] = w
              /\ DOMAIN Tail(locks) = 1 .. Len(locks) - 1 /\ Len(locks) # 1
            BY <1>3, <3>1, <3>3
        <4>2. pc'[q] = "lock" /\ req'[q].locks = Tail(locks)
            BY <1>4, <1>5, <2>5, <4>1
        <4> QED
            BY <4>1, <4>2
      <3> QED
          BY <3>2, <3>3
    <2> QED
        BY <2>2, <2>3, <2>4, <2>5
  <1>10. WellPosed'
    <2>1. ASSUME Len(locks) # 1
          PROVE  Tail(locks) # << >>
      <3>1. \A m \in Nat : m # 1 /\ m >= 1 => m - 1 # 0
          OBVIOUS
      <3>2. Len(Tail(locks)) # 0
          BY <1>3, <2>1, <3>1
      <3>3. Len(<< >>) = 0
          OBVIOUS
      <3> QED
          BY <3>2, <3>3, Zenon
    <2>2. p = "lock" => Tail(locks) # << >>
        BY <2>1
    <2> HIDE DEF p, locks
    <2> SUFFICES ASSUME NEW q \in Requests, pc'[q] \in Working
                 PROVE  /\ req'[q].op = "transfer" <=> req'[q].ws # req'[q].to
                        /\ req'[q].op \in {"create", "import"} => req'[q].dest # req'[q].id
                        /\ pc'[q] = "lock" => req'[q].locks # << >>
        BY DEF WellPosed
    <2>3. CASE q # r
        BY <1>5, <2>3 DEF IInv, WellPosed
    <2>4. CASE q = r
        BY <1>1, <1>4, <1>5, <2>2, <2>4 DEF IInv, WellPosed, Working
    <2> QED
        BY <2>3, <2>4
  <1>11. StillAbsent'
      BY <1>1, <1>4, <1>5 DEF IInv, StillAbsent, Working
  <1>12. StillTrue'
      BY <1>1, <1>5, <1>8 DEF IInv, StillTrue, NoCycle
  <1> QED
      BY <1>7, <1>8, <1>9, <1>10, <1>11, <1>12 DEF IInv
(* The end of a transaction.                                               *)
LEMMA EndFacts ==
    ASSUME IInv, NEW r \in Requests, pc[r] \in Working, End(r), node' \in [Nodes -> Row]
    PROVE  /\ TypeOK' /\ LocksTaken' /\ WellPosed'
           /\ req' = req
           /\ \A q \in Requests : pc'[q] = IF q = r THEN "done" ELSE pc[q]
  <1>1. /\ TypeOK /\ pc' = [pc EXCEPT ![r] = "done"] /\ req' = req
        /\ lock' = [w \in Workspaces |-> IF lock[w] = r THEN "free" ELSE lock[w]]
      BY DEF IInv, End
  <1>2. \A q \in Requests : pc'[q] = IF q = r THEN "done" ELSE pc[q]
      BY <1>1 DEF TypeOK
  <1>3. TypeOK'
      BY <1>1, <1>2 DEF TypeOK, Working
  <1>4. LocksTaken'
    <2> SUFFICES ASSUME NEW q \in Requests, pc'[q] \in Working, NEW w \in {req[q].ws, req[q].to}
                 PROVE  \/ lock'[w] = q
                        \/ pc'[q] = "lock" /\ \E i \in DOMAIN req[q].locks : req[q].locks[i] = w
        BY <1>1 DEF LocksTaken
    <2>1. q # r /\ pc[q] \in Working /\ pc'[q] = pc[q]
        BY <1>2 DEF Working
    <2>2. w \in Workspaces
        BY <1>1, <2>1, RequestFields DEF Working
    <2> QED
        BY <1>1, <2>1, <2>2 DEF IInv, LocksTaken
  <1>5. WellPosed'
      BY <1>1, <1>2 DEF IInv, WellPosed, Working
  <1> QED
      BY <1>1, <1>2, <1>3, <1>4, <1>5

(* ... that writes nothing.                                                *)
LEMMA EndIInv ==
    ASSUME IInv, NEW r \in Requests, pc[r] \in Working, End(r), UNCHANGED node
    PROVE  IInv'
  <1>1. /\ TypeOK' /\ LocksTaken' /\ WellPosed' /\ req' = req
        /\ \A q \in Requests : pc'[q] = IF q = r THEN "done" ELSE pc[q]
      BY EndFacts DEF IInv, TypeOK
  <1>2. Accepted(node)' /\ NoCycles' /\ \A v, k : Subtree(v, k)' = Subtree(v, k)
      BY SameRows
  <1>3. StillAbsent'
      BY <1>1 DEF IInv, StillAbsent, Working
  <1>4. StillTrue'
      BY <1>1, <1>2 DEF IInv, StillTrue, NoCycle
  <1> QED
      BY <1>1, <1>2, <1>3, <1>4 DEF IInv

LEMMA AdmitFacts ==
    ASSUME IInv, NEW r \in Requests, TxRead(r), Admits(r)
    PROVE  /\ pc[r] = "read" /\ UNCHANGED <<node, lock>>
           /\ req'[r] = [req[r] EXCEPT !.old = node[req[r].id].path, !.new = NewPath(r)]
           /\ \A q \in Requests : /\ pc'[q] = IF q = r THEN "write" ELSE pc[q]
                                  /\ q # r => req'[q] = req[q]
           /\ DOMAIN req' = Requests /\ pc' = [pc EXCEPT ![r] = "write"]
  BY DEF TxRead, IInv, TypeOK

LEMMA AdmitIInv ==
    ASSUME IInv, NEW r \in Requests, TxRead(r), Admits(r)
    PROVE  IInv'
  <1> DEFINE z == [req[r] EXCEPT !.old = node[req[r].id].path, !.new = NewPath(r)]
  <1>1. /\ pc[r] = "read" /\ UNCHANGED <<node, lock>> /\ req'[r] = z
        /\ \A q \in Requests : /\ pc'[q] = IF q = r THEN "write" ELSE pc[q]
                               /\ q # r => req'[q] = req[q]
        /\ DOMAIN req' = Requests /\ pc' = [pc EXCEPT ![r] = "write"]
      BY AdmitFacts
  <1>2. TypeOK /\ pc[r] # "idle" /\ req[r] \in Request
      BY <1>1, RequestFields DEF IInv
  <1>3. node[req[r].id].path \in Seq(Slugs) /\ NewPath(r) \in Seq(Slugs)
      BY <1>2, NewPathType, RequestFields, RowFields
  <1>4. /\ z \in Request /\ z.op = req[r].op /\ z.id = req[r].id /\ z.ws = req[r].ws
        /\ z.to = req[r].to /\ z.dest = req[r].dest /\ z.locks = req[r].locks
      BY <1>2, <1>3 DEF Request
  <1> HIDE DEF z
  <1>5. TypeOK'
      BY <1>1, <1>2, <1>4 DEF TypeOK
  <1>6. Accepted(node)' /\ NoCycles' /\ \A v, k : Subtree(v, k)' = Subtree(v, k)
      BY <1>1, SameRows
  <1>7. LocksTaken'
      BY <1>1, <1>4 DEF IInv, LocksTaken, Working
  <1>8. WellPosed'
      BY <1>1, <1>4 DEF IInv, WellPosed, Working
  <1>9. StillAbsent'
      BY <1>1, <1>4 DEF IInv, StillAbsent, Working
  <1>10. StillTrue'
    <2> SUFFICES ASSUME NEW q \in Requests, pc'[q] = "write"
                 PROVE  /\ req'[q].op = "transfer" =>
                             node[req'[q].id].state # "absent" /\ node[req'[q].id].ws = req'[q].ws
                        /\ req'[q].op \in {"move", "transfer"} /\ req'[q].dest # "root" =>
                             /\ node[req'[q].dest].state # "absent"
                             /\ node[req'[q].dest].ws = req'[q].to
                        /\ req'[q].op = "move" => req'[q].dest \notin Subtree(req'[q].ws, req'[q].id)
        BY <1>1, <1>6 DEF StillTrue, NoCycle
    <2>1. CASE q # r
        BY <1>1, <2>1 DEF IInv, StillTrue, NoCycle
    <2>2. CASE q = r
        BY <1>1, <1>4, <2>2 DEF Admits, SourceOK, DestOK, NoCycle, LiveIn, Live
    <2> QED
        BY <2>1, <2>2
  <1> QED
      BY <1>5, <1>6, <1>7, <1>8, <1>9, <1>10 DEF IInv

(* What the other transactions have read is still so after a write.        *)
LEMMA WriteIInv ==
    ASSUME IInv, NEW r \in Requests, pc[r] = "write", Accepted(Rows(r)), node' = Rows(r), End(r)
    PROVE  IInv'
  <1>1. TypeOK /\ pc[r] # "idle" /\ pc[r] \in Working /\ node' \in [Nodes -> Row]
      BY RowsType DEF IInv, Working
  <1>2. /\ TypeOK' /\ LocksTaken' /\ WellPosed' /\ req' = req
        /\ \A q \in Requests : pc'[q] = IF q = r THEN "done" ELSE pc[q]
      BY <1>1, EndFacts
  <1>3. Accepted(node)'
      OBVIOUS
  <1>4. NoCycles'
      BY WriteNoCycles
  <1>5. StillAbsent'
    <2> SUFFICES ASSUME NEW q \in Requests, pc'[q] \in Working, req[q].op \in Making
                 PROVE  /\ node'[req[q].id].state = "absent"
                        /\ \A k \in Requests \ {q} : pc'[k] # "idle" => req[k].id # req[q].id
        BY <1>2 DEF StillAbsent, Making
    <2>1. q # r /\ pc[q] \in Working
        BY <1>2 DEF Working
    <2>2. /\ node[req[q].id].state = "absent"
          /\ \A k \in Requests \ {q} : pc[k] # "idle" => req[k].id # req[q].id
        BY <2>1 DEF IInv, StillAbsent, Making
    <2>3. node'[req[q].id].state = "absent"
        BY <1>1, <2>1, <2>2, RowsChange, RequestFields DEF Working
    <2> QED
        BY <1>1, <1>2, <2>1, <2>2, <2>3
  <1>6. StillTrue'
    <2> SUFFICES ASSUME NEW q \in Requests, pc'[q] = "write"
                 PROVE  /\ req[q].op = "transfer" =>
                             node'[req[q].id].state # "absent" /\ node'[req[q].id].ws = req[q].ws
                        /\ req[q].op \in {"move", "transfer"} /\ req[q].dest # "root" =>
                             /\ node'[req[q].dest].state # "absent"
                             /\ node'[req[q].dest].ws = req[q].to
                        /\ req[q].op = "move" => req[q].dest \notin Subtree(req[q].ws, req[q].id)'
        BY <1>2 DEF StillTrue, NoCycle
    <2>1. q \in Requests \ {r} /\ pc[q] = "write" /\ pc[q] # "idle" /\ pc[q] \in Working
        BY <1>2 DEF Working
    <2>2. lock[req[q].ws] = q /\ lock[req[q].to] = q
        BY <2>1 DEF IInv, LocksTaken
    <2>3. /\ req[q].id \in Nodes /\ req[q].ws \in Workspaces
          /\ req[q].dest # "root" => req[q].dest \in Nodes
        BY <1>1, <2>1, RequestFields
    <2>4. ASSUME req[q].op = "transfer"
          PROVE  node'[req[q].id].state # "absent" /\ node'[req[q].id].ws = req[q].ws
        BY <2>1, <2>2, <2>3, <2>4, WsKept DEF IInv, StillTrue
    <2>5. ASSUME req[q].op \in {"move", "transfer"}, req[q].dest # "root"
          PROVE  node'[req[q].dest].state # "absent" /\ node'[req[q].dest].ws = req[q].to
        BY <2>1, <2>2, <2>3, <2>5, WsKept DEF IInv, StillTrue
    <2>6. ASSUME req[q].op = "move"
          PROVE  req[q].dest \notin Subtree(req[q].ws, req[q].id)'
      <3>1. req[q].dest \notin Subtree(req[q].ws, req[q].id)
          BY <2>1, <2>6 DEF IInv, StillTrue, NoCycle
      <3>2. Subtree(req[q].ws, req[q].id)' \subseteq Subtree(req[q].ws, req[q].id)
        <4>1. \A w \in Workspaces, n \in Nodes : lock[w] = q => Subtree(w, n)' \subseteq Subtree(w, n)
            BY <2>1, SubtreeKept
        <4>2. PICK w \in Workspaces, n \in Nodes : w = req[q].ws /\ n = req[q].id
            BY <2>3
        <4>3. Subtree(w, n)' \subseteq Subtree(w, n)
            BY <2>2, <4>1, <4>2
        <4>4. w = req[q].ws /\ n = req[q].id /\ w = req'[q].ws /\ n = req'[q].id
            BY <1>2, <4>2
        <4>5. Subtree(req[q].ws, req[q].id)' = Subtree(w, n)'
            BY <4>4 DEF Subtree, Below, Live
        <4>6. Subtree(req[q].ws, req[q].id) = Subtree(w, n)
            BY <4>2
        <4> QED
            BY <4>3, <4>5, <4>6
      <3> QED
          BY <3>1, <3>2
    <2> QED
        BY <2>4, <2>5, <2>6
  <1> QED
      BY <1>2, <1>3, <1>4, <1>5, <1>6 DEF IInv
LEMMA NextIInv == IInv /\ [Next]_vars => IInv'
  <1> SUFFICES ASSUME IInv, [Next]_vars PROVE IInv'
      OBVIOUS
  <1>1. ASSUME NEW r \in Requests, Arrive(r) PROVE IInv'
      BY <1>1, ArriveIInv
  <1>2. ASSUME NEW r \in Requests, Lock(r) PROVE IInv'
      BY <1>2, LockIInv
  <1>3. ASSUME NEW r \in Requests, TxRead(r) PROVE IInv'
    <2>1. CASE Admits(r)
        BY <1>3, <2>1, AdmitIInv
    <2>2. CASE ~Admits(r)
      <3>1. End(r) /\ pc[r] \in Working /\ UNCHANGED node
          BY <1>3, <2>2 DEF TxRead, Working
      <3> QED
          BY <1>3, <3>1, EndIInv
    <2> QED
        BY <2>1, <2>2
  <1>4. ASSUME NEW r \in Requests, TxWrite(r) PROVE IInv'
    <2>1. pc[r] = "write" /\ pc[r] \in Working /\ End(r)
        BY <1>4 DEF TxWrite, Working
    <2>2. CASE Accepted(Rows(r))
      <3>1. node' = Rows(r)
          BY <1>4, <2>2 DEF TxWrite
      <3> QED
          BY <1>4, <2>1, <2>2, <3>1, WriteIInv
    <2>3. CASE ~Accepted(Rows(r))
      <3>1. UNCHANGED node
          BY <1>4, <2>3 DEF TxWrite
      <3> QED
          BY <1>4, <2>1, <3>1, EndIInv
    <2> QED
        BY <2>2, <2>3
  <1>5. ASSUME NEW r \in Requests, Fail(r) PROVE IInv'
    <2>1. pc[r] \in Working /\ End(r) /\ UNCHANGED node
        BY <1>5 DEF Fail, Working
    <2> QED
        BY <1>5, <2>1, EndIInv
  <1>6. CASE UNCHANGED vars
    <2>1. UNCHANGED <<node, lock, pc, req>>
        BY <1>6 DEF vars
    <2>2. Accepted(node)' /\ NoCycles' /\ \A v, k : Subtree(v, k)' = Subtree(v, k)
        BY <2>1, SameRows
    <2>3. TypeOK' /\ LocksTaken' /\ WellPosed' /\ StillAbsent'
        BY <2>1 DEF IInv, TypeOK, LocksTaken, WellPosed, StillAbsent
    <2>4. StillTrue'
        BY <2>1, <2>2 DEF IInv, StillTrue, NoCycle
    <2> QED
        BY <2>2, <2>3, <2>4 DEF IInv
  <1> QED
      BY <1>1, <1>2, <1>3, <1>4, <1>5, <1>6 DEF Next, Handle

(* Rows, requests and locks stay what the type invariant says, and the     *)
(* strengthening that the cycle check needs holds of every race.           *)
THEOREM Invariant == Spec => []IInv
  BY InitIInv, NextIInv, PTL DEF Spec

(* Every field of every row and request stays in its type.                 *)
THEOREM TypeCorrect == Spec => []TypeOK
  <1>1. IInv => TypeOK
      BY DEF IInv
  <1> QED
      BY <1>1, Invariant, PTL

(* Whatever moves and transfers race, in any number of workspaces and of   *)
(* requests, no live folder is its own ancestor (folders/routes.ts:275).   *)
THEOREM NoFolderBelowItself == Spec => []NoCycles
  <1>1. IInv => NoCycles
      BY DEF IInv
  <1> QED
      BY <1>1, Invariant, PTL
(***************************************************************************)
(* Where nothing is transferred: what a request writes.                    *)
(***************************************************************************)

(* A row that is neither the request's nor in its cascade stays as it is.  *)
LEMMA RowsSame ==
    ASSUME TypeOK, NEW r \in Requests, pc[r] # "idle", req[r].op # "transfer",
           NEW m \in Nodes, m # req[r].id, m \notin Cascade(r)
    PROVE  Rows(r)[m] = node[m]
  <1>1. node[m] \in Row /\ req[r].op \in AllOps
      BY RowFields, RequestFields
  <1>2. CASE req[r].op \in Making
      BY <1>2 DEF Rows, Created, Making, TypeOK
  <1>3. CASE req[r].op \in {"delete", "empty"}
    <2>1. Rows(r)[m] = [node[m] EXCEPT !.state = node[m].state]
        BY <1>3 DEF Rows, Removed, Emptied
    <2> QED
        BY <1>1, <2>1 DEF Row
  <1>4. CASE req[r].op \in {"rename", "move"}
    <2>1. Rows(r)[m] = [node[m] EXCEPT !.ws = node[m].ws, !.parent = node[m].parent,
                                       !.slug = node[m].slug, !.path = node[m].path]
        BY <1>4 DEF Rows, Rehung
    <2> QED
        BY <1>1, <2>1 DEF Row
  <1> QED
      BY <1>1, <1>2, <1>3, <1>4 DEF AllOps, Making

(* The paths a rename or a move writes.                                    *)
LEMMA RowsPath ==
    ASSUME TypeOK, NEW r \in Requests, pc[r] # "idle", req[r].op \in {"rename", "move"},
           NEW m \in Nodes
    PROVE  /\ Rows(r)[m].path = IF m = req[r].id THEN req[r].new
                                ELSE IF m \in Cascade(r)
                                     THEN Reroot(node[m].path, req[r].old, req[r].new)
                                     ELSE node[m].path
           /\ Rows(r)[m].state = node[m].state
           /\ Rows(r)[m].ws = node[m].ws
           /\ Rows(r)[m].parent = IF m = req[r].id /\ req[r].op = "move"
                                  THEN req[r].dest ELSE node[m].parent
  <1>1. node[m] \in Row
      BY RowFields
  <1> DEFINE path == IF m = req[r].id THEN req[r].new
                     ELSE IF m \in Cascade(r)
                          THEN Reroot(node[m].path, req[r].old, req[r].new)
                          ELSE node[m].path
  <1>2. PICK slug : Rows(r)[m] = [node[m] EXCEPT
            !.ws = node[m].ws,
            !.parent = IF m = req[r].id /\ req[r].op = "move" THEN req[r].dest ELSE node[m].parent,
            !.slug = slug, !.path = path]
      BY DEF Rows, Rehung
  <1> HIDE DEF path
  <1>3. /\ Rows(r)[m].path = path /\ Rows(r)[m].state = node[m].state
        /\ Rows(r)[m].ws = node[m].ws
        /\ Rows(r)[m].parent = IF m = req[r].id /\ req[r].op = "move" THEN req[r].dest
                               ELSE node[m].parent
      BY <1>1, <1>2 DEF Row
  <1> QED
      BY <1>3 DEF path

(* Removing rows changes their states only.                                *)
LEMMA RowsRemoved ==
    ASSUME TypeOK, NEW r \in Requests, pc[r] # "idle", req[r].op \in {"delete", "empty"},
           NEW m \in Nodes
    PROVE  /\ Rows(r)[m].path = node[m].path /\ Rows(r)[m].ws = node[m].ws
           /\ Rows(r)[m].parent = node[m].parent
           /\ Rows(r)[m].state =
                IF m \in (IF req[r].op = "delete" THEN {req[r].id} ELSE Emptied(r))
                THEN "deleted" ELSE node[m].state
  <1>1. node[m] \in Row
      BY RowFields
  <1>2. Rows(r)[m] = [node[m] EXCEPT !.state =
            IF m \in (IF req[r].op = "delete" THEN {req[r].id} ELSE Emptied(r))
            THEN "deleted" ELSE node[m].state]
      BY DEF Rows, Removed
  <1> QED
      BY <1>1, <1>2 DEF Row

(* What follows a row is in its workspace.                                 *)
LEMMA CascadeWs ==
    ASSUME TypeOK, Accepted(node), NEW r \in Requests, pc[r] # "idle",
           node[req[r].id].state # "absent", node[req[r].id].ws = req[r].ws,
           NEW m \in Cascade(r)
    PROVE  m \in Nodes /\ Live(m) /\ node[m].ws = req[r].ws
  <1> DEFINE id == req[r].id
             w == req[r].ws
             S == {f \in Folders : Live(f) /\ node[f].ws = w}
  <1>1. id \in Nodes /\ Folders \subseteq Nodes /\ Docs \subseteq Nodes /\ "root" \notin Nodes
      BY RequestFields, NodesAssumption DEF Nodes
  <1>2. \A f \in Subtree(w, id) : f \in Nodes /\ node[f].ws = w /\ (f # id => f \in S)
      BY <1>1, BelowFacts DEF Subtree
  <1>3. CASE m \in Subtree(w, id)
      BY <1>2, <1>3 DEF Cascade
  <1>4. CASE m \in LiveDocsIn(Subtree(w, id))
    <2>1. m \in Docs /\ Live(m) /\ node[m].parent \in Subtree(w, id)
        BY <1>4 DEF LiveDocsIn
    <2>2. node[node[m].parent].ws = w /\ node[m].parent # "root"
        BY <1>1, <1>2, <2>1
    <2> QED
        BY <1>1, <2>1, <2>2 DEF Accepted, Live
  <1> QED
      BY <1>3, <1>4 DEF Cascade

(* One request's write leaves the workspaces of the others alone.          *)
LEMMA OthersKept ==
    ASSUME JInv, NoTransfers, NEW r \in Requests, pc[r] = "write",
           NEW q \in Requests \ {r}, pc[q] = "write",
           NEW m \in Nodes, node[m].ws = req[q].ws, node[m].state # "absent"
    PROVE  Rows(r)[m] = node[m]
  <1>1. /\ TypeOK /\ Accepted(node) /\ pc[r] \in Working /\ pc[q] \in Working
        /\ pc[r] # "idle" /\ req[r].op \in Ops /\ req[r].op \in AllOps
      BY RequestFields DEF JInv, IInv, SeenThere, Working
  <1>2. req[r].ws # req[q].ws
      BY <1>1 DEF JInv, IInv, LocksTaken
  <1>3. req[r].op # "transfer" /\ req[r].op # "import"
      BY <1>1 DEF NoTransfers
  <1>4. CASE req[r].op = "create"
    <2>1. node[req[r].id].state = "absent"
        BY <1>1, <1>4 DEF JInv, IInv, StillAbsent
    <2> QED
        BY <1>4, <2>1 DEF Rows, Created, JInv, IInv, TypeOK
  <1>5. CASE req[r].op # "create"
    <2>1. node[req[r].id].state # "absent" /\ node[req[r].id].ws = req[r].ws
        BY <1>1, <1>5 DEF JInv, SeenThere
    <2>2. m # req[r].id /\ m \notin Cascade(r)
        BY <1>1, <1>2, <2>1, CascadeWs
    <2> QED
        BY <1>1, <1>3, <2>2, RowsSame
  <1> QED
      BY <1>4, <1>5
(***************************************************************************)
(* A write leaves a sound tree.                                            *)
(***************************************************************************)
Sound(rows, n) ==
    LET p == rows[n].parent IN
    /\ rows[n].path # << >>
    /\ Front(rows[n].path) = IF p = "root" THEN << >> ELSE rows[p].path
    /\ p # "root" => rows[p].state = "live" /\ rows[p].ws = rows[n].ws

LEMMA SoundMeans ==
    ASSUME TypeOK
    PROVE  SoundTree <=> \A n \in Nodes : Live(n) => Sound(node, n)
  <1>1. \A n \in Nodes : Live(n) => n \in LiveRows(node[n].ws) /\ node[n].ws \in Workspaces
      BY RowFields DEF LiveRows, TypeOK
  <1>2. \A w \in Workspaces : \A n \in LiveRows(w) : n \in Nodes /\ Live(n) /\ node[n].ws = w
      BY DEF LiveRows, TypeOK
  <1> QED
      BY <1>1, <1>2 DEF SoundTree, PathsFollowParents, NothingUnderDeleted, Sound, PathOf,
                        LiveIn, Live

LEMMA SoundMeansLater ==
    ASSUME TypeOK', \A n \in Nodes : node'[n].state = "live" => Sound(node', n)
    PROVE  SoundTree'
  <1>1. \A w \in Workspaces : \A n \in LiveRows(w)' :
            n \in Nodes /\ node'[n].state = "live" /\ node'[n].ws = w
      BY DEF LiveRows, TypeOK, Live
  <1> QED
      BY <1>1 DEF SoundTree, PathsFollowParents, NothingUnderDeleted, Sound, PathOf,
                  LiveIn, Live

LEMMA CreateSound ==
    ASSUME JInv, NEW r \in Requests, pc[r] = "write", req[r].op = "create",
           NEW n \in Nodes, Rows(r)[n].state = "live"
    PROVE  Sound(Rows(r), n)
  <1> DEFINE id == req[r].id
             dest == req[r].dest
             row == [state |-> "live", ws |-> req[r].ws, parent |-> dest,
                     slug |-> req[r].slug, path |-> req[r].new]
  <1>1. /\ TypeOK /\ Accepted(node) /\ pc[r] # "idle" /\ pc[r] \in Working
        /\ id \in Nodes /\ dest \in Folders \cup {"root"} /\ req[r].slug \in Slugs
        /\ dest # "root" => dest \in Nodes
      BY RequestFields DEF JInv, IInv, Working
  <1>2. \A m \in Nodes : Rows(r)[m] = IF m = id THEN row ELSE node[m]
      BY <1>1 DEF Rows, Created, TypeOK
  <1>3. /\ node[id].state = "absent" /\ dest # id /\ req[r].ws = req[r].to
        /\ LiveIn(dest, req[r].to) /\ req[r].new = NewPath(r)
      BY <1>1 DEF JInv, IInv, StillAbsent, WellPosed, ReadsAreFresh
  <1>4. CASE n = id
    <2>1. NewPath(r) = Append(PathOf(dest), req[r].slug)
        BY <1>3 DEF NewPath, NewParent, NewSlug, LiveIn
    <2>2. PathOf(dest) \in Seq(Slugs)
        BY <1>1, PathOfType
    <2>3. req[r].new # << >> /\ Front(req[r].new) = PathOf(dest)
        BY <1>1, <1>3, <2>1, <2>2, FrontOfAppend
    <2> QED
        BY <1>1, <1>2, <1>3, <1>4, <2>3 DEF Sound, PathOf, LiveIn, Live
  <1>5. CASE n # id
    <2>1. Live(n) /\ Sound(node, n) /\ node[n] = Rows(r)[n]
        BY <1>1, <1>2, <1>5, SoundMeans DEF JInv, Live
    <2>2. node[n].parent # "root" => node[n].parent \in Nodes /\ node[n].parent # id
        BY <1>1, <1>3, <2>1, RowFields DEF Accepted, Live
    <2> QED
        BY <1>2, <2>1, <2>2 DEF Sound
  <1> QED
      BY <1>4, <1>5

(* Nothing is left below what is deleted; emptying takes what is below.    *)
LEMMA RemoveSound ==
    ASSUME JInv, NEW r \in Requests, pc[r] = "write", req[r].op \in {"delete", "empty"},
           NEW n \in Nodes, Rows(r)[n].state = "live"
    PROVE  Sound(Rows(r), n)
  <1> DEFINE id == req[r].id
             w == req[r].ws
             gone == IF req[r].op = "delete" THEN {id} ELSE Emptied(r)
             S == {f \in Folders : Live(f) /\ node[f].ws = w}
  <1>1. /\ TypeOK /\ Accepted(node) /\ NoCycles /\ pc[r] # "idle" /\ pc[r] \in Working
        /\ id \in Nodes /\ Folders \subseteq Nodes /\ "root" \notin Nodes
      BY RequestFields, NodesAssumption DEF JInv, IInv, Working, Nodes
  <1>2. \A m \in Nodes : /\ Rows(r)[m].path = node[m].path /\ Rows(r)[m].ws = node[m].ws
                         /\ Rows(r)[m].parent = node[m].parent
                         /\ Rows(r)[m].state = IF m \in gone THEN "deleted" ELSE node[m].state
      BY <1>1, RowsRemoved
  <1> HIDE DEF gone
  <1>3. Live(n) /\ n \notin gone /\ Sound(node, n)
      BY <1>1, <1>2, SoundMeans DEF JInv, Live
  <1>4. node[n].parent \notin gone
    <2>1. CASE req[r].op = "delete"
        BY <1>3, <2>1 DEF JInv, ReadsAreFresh, NothingLeft, gone
    <2>2. CASE req[r].op = "empty"
      <3> SUFFICES ASSUME node[n].parent \in Emptied(r) PROVE FALSE
          BY <2>2 DEF gone
      <3> DEFINE p == node[n].parent
      <3>1. node[id].state # "absent" /\ node[id].ws = w /\ Live(id)
          BY <1>1, <2>2 DEF JInv, SeenThere, ReadsAreFresh
      <3>2. p \in Folders /\ p \in Subtree(w, id) /\ node[p].ws = w
        <4>1. p \in Folders \cup {"root"}
            BY <1>1, RowFields
        <4>2. p \in Cascade(r) /\ node[p].ws = w /\ p \in Nodes
            BY <1>1, <3>1, CascadeWs DEF Emptied
        <4> QED
            BY <1>1, <4>1, <4>2, NodesAssumption DEF Cascade, LiveDocsIn
      <3>3. node[n].ws = w
          BY <1>1, <1>3, <3>2 DEF Sound
      <3>4. CASE n = id
        <4>1. id \notin Docs
            BY <1>1, <3>2, <3>4, BelowDoc, NodesAssumption, BelowFacts DEF Subtree, Emptied, Cascade, LiveDocsIn
        <4> QED
            BY <1>1, <3>1, <3>2, <3>4, <4>1, ParentOutside DEF Nodes
      <3>5. CASE n # id
        <4>1. n \in Folders => n \in Subtree(w, id)
            BY <1>3, <3>2, <3>3, BelowFacts DEF Subtree
        <4>2. n \in Cascade(r)
            BY <1>3, <3>2, <3>5, <4>1 DEF Cascade, LiveDocsIn, Nodes
        <4> QED
            BY <1>3, <2>2, <3>3, <4>2 DEF Emptied, gone
      <3> QED
          BY <3>4, <3>5
    <2> QED
        BY <2>1, <2>2
  <1>5. node[n].parent # "root" => node[n].parent \in Nodes
      BY <1>1, RowFields
  <1> QED
      BY <1>2, <1>3, <1>4, <1>5 DEF Sound
(* All below a row have its path at the front of theirs.                   *)
LEMMA PrefixBelow ==
    ASSUME TypeOK, SoundTree, NEW w, NEW n \in Nodes, Live(n), NEW m \in Subtree(w, n)
    PROVE  IsPrefix(node[n].path, node[m].path)
  <1> DEFINE S == {f \in Folders : Live(f) /\ node[f].ws = w}
             T == {f \in Nodes : IsPrefix(node[n].path, node[f].path)}
  <1>1. node[n].path \in Seq(Slugs) /\ Folders \subseteq Nodes /\ "root" \notin Nodes
      BY RowFields, NodesAssumption DEF Nodes
  <1>2. n \in T
      BY <1>1, RerootItself
  <1>3. ASSUME NEW g \in S, node[g].parent \in T
        PROVE  g \in T
    <2>1. Live(g) /\ g \in Nodes /\ node[g].path \in Seq(Slugs)
        BY <1>1, <1>3, RowFields
    <2>2. node[g].path # << >> /\ Front(node[g].path) = node[node[g].parent].path
        BY <1>1, <1>3, <2>1, SoundMeans DEF Sound
    <2>3. IsPrefix(node[n].path, Front(node[g].path))
        BY <1>3, <2>2
    <2>4. IsPrefix(node[n].path, node[g].path)
        BY <1>1, <2>1, <2>2, <2>3, RerootBelow
    <2> QED
        BY <2>1, <2>4
  <1> HIDE DEF S, T
  <1>4. Below(n, S) \subseteq T
      BY <1>2, <1>3, BelowLeast
  <1> QED
      BY <1>4 DEF Subtree, S, T

(* A rename or a move rewrites the paths of a whole subtree.               *)
LEMMA RehungSound ==
    ASSUME JInv, NEW r \in Requests, pc[r] = "write", req[r].op \in {"rename", "move"},
           NEW n \in Nodes, Rows(r)[n].state = "live"
    PROVE  Sound(Rows(r), n)
  <1> DEFINE id == req[r].id
             w == req[r].ws
             old == req[r].old
             new == req[r].new
             under == Cascade(r)
             sub == Subtree(w, id)
             up == NewParent(r)
  <1>1. /\ TypeOK /\ Accepted(node) /\ NoCycles /\ SoundTree
        /\ pc[r] # "idle" /\ pc[r] \in Working
        /\ id \in Nodes /\ Folders \subseteq Nodes /\ Docs \subseteq Nodes /\ "root" \notin Nodes
        /\ Folders \cap Docs = {}
        /\ old \in Seq(Slugs) /\ new \in Seq(Slugs)
        /\ up \in Folders \cup {"root"} /\ NewSlug(r) \in Slugs /\ req[r].to = w
      BY RequestFields, NewPathType, NodesAssumption DEF JInv, IInv, WellPosed, Working, Nodes
  <1>2. \A m \in Nodes :
          /\ Rows(r)[m].path = IF m = id THEN new
                               ELSE IF m \in under THEN Reroot(node[m].path, old, new)
                               ELSE node[m].path
          /\ Rows(r)[m].state = node[m].state
          /\ Rows(r)[m].ws = node[m].ws
          /\ Rows(r)[m].parent = IF m = id THEN up ELSE node[m].parent
    <2>1. \A m \in Nodes :
          /\ Rows(r)[m].path = IF m = id THEN new
                               ELSE IF m \in under THEN Reroot(node[m].path, old, new)
                               ELSE node[m].path
          /\ Rows(r)[m].state = node[m].state
          /\ Rows(r)[m].ws = node[m].ws
          /\ Rows(r)[m].parent = IF m = id /\ req[r].op = "move" THEN req[r].dest
                                 ELSE node[m].parent
        BY <1>1, RowsPath
    <2> QED
        BY <2>1 DEF NewParent
  <1>3. /\ Live(id) /\ node[id].ws = w /\ old = node[id].path /\ new = NewPath(r)
        /\ req[r].op = "move" => LiveIn(req[r].dest, w) /\ req[r].dest \notin sub
      BY <1>1 DEF JInv, IInv, SeenThere, ReadsAreFresh, StillTrue, NoCycle
  <1>4. Sound(node, id) /\ Live(n) /\ Sound(node, n)
      BY <1>1, <1>2, <1>3, SoundMeans DEF Live
  <1>5. up # "root" => up \in Folders /\ Live(up) /\ node[up].ws = w
      BY <1>1, <1>3, <1>4 DEF NewParent, Sound, LiveIn, Live
  <1>6. up \notin sub
    <2>1. CASE req[r].op = "move"
        BY <1>3, <2>1 DEF NewParent
    <2>2. CASE req[r].op = "rename" /\ id \in Folders
        BY <1>1, <1>3, <2>2, ParentOutside DEF NewParent
    <2>3. CASE id \in Docs
      <3>1. sub = {id}
          BY <1>1, <2>3, BelowDoc DEF Subtree
      <3> QED
          BY <1>1, <2>3, <3>1
    <2> QED
        BY <1>1, <2>1, <2>2, <2>3 DEF Nodes
  <1>7. new # << >> /\ Front(new) = PathOf(up)
    <2>1. NewPath(r) = Append(PathOf(up), NewSlug(r))
        BY <1>3, <1>5 DEF NewPath, LiveIn
    <2> QED
        BY <1>1, <1>3, <2>1, PathOfType, FrontOfAppend
  <1>8. id \in sub /\ sub \subseteq {f \in Folders : Live(f) /\ node[f].ws = w} \cup {id}
      BY BelowFacts DEF Subtree
  <1>9. \A f \in Folders : f \in under <=> f \in sub /\ f # id
      BY <1>1 DEF Cascade, LiveDocsIn
  <1>10. CASE n = id
    <2>1. up # id /\ up \notin under
        BY <1>1, <1>5, <1>6, <1>8, <1>9 DEF Cascade, LiveDocsIn
    <2> QED
        BY <1>1, <1>2, <1>3, <1>5, <1>7, <1>10, <2>1 DEF Sound, PathOf, Live
  <1>11. CASE n # id /\ node[n].parent \in sub
    <2> DEFINE p == node[n].parent
    <2>1. p \in Folders
        BY <1>1, <1>11, <1>8, RowFields
    <2>2. node[n].ws = w /\ p # "root"
        BY <1>1, <1>3, <1>4, <1>8, <1>11, <2>1 DEF Sound
    <2>3. n \in under
      <3>1. n \in Folders => n \in sub
          BY <1>4, <1>11, <2>2, BelowFacts DEF Subtree
      <3> QED
          BY <1>4, <1>11, <3>1 DEF Cascade, LiveDocsIn, Nodes
    <2>4. IsPrefix(old, node[p].path)
        BY <1>1, <1>3, <1>11, PrefixBelow
    <2>5. node[n].path \in Seq(Slugs) /\ node[n].path # << >> /\ Front(node[n].path) = node[p].path
        BY <1>1, <1>4, <2>2, RowFields DEF Sound
    <2>6. /\ Reroot(node[n].path, old, new) # << >>
          /\ Front(Reroot(node[n].path, old, new)) = Reroot(node[p].path, old, new)
        BY <1>1, <2>4, <2>5, RerootBelow
    <2>7. Rows(r)[p].path = Reroot(node[p].path, old, new)
      <3>1. CASE p = id
        <4>1. Reroot(old, old, new) = new
            BY <1>1, RerootItself
        <4> QED
            BY <1>1, <1>2, <1>3, <3>1, <4>1
      <3>2. CASE p # id
          BY <1>1, <1>2, <1>9, <1>11, <2>1, <3>2
      <3> QED
          BY <3>1, <3>2
    <2>8. Rows(r)[p].state = "live" /\ Rows(r)[p].ws = Rows(r)[n].ws
        BY <1>1, <1>2, <1>4, <2>1, <2>2 DEF Sound
    <2> QED
        BY <1>2, <1>11, <2>2, <2>3, <2>6, <2>7, <2>8 DEF Sound
  <1>12. CASE n # id /\ node[n].parent \notin sub
    <2> DEFINE p == node[n].parent
    <2>1. n \notin under
        BY <1>12, BelowParent DEF Cascade, LiveDocsIn, Subtree
    <2>2. p # "root" => p \in Folders /\ p # id /\ p \notin under
        BY <1>1, <1>8, <1>9, <1>12, RowFields
    <2> QED
        BY <1>1, <1>2, <1>4, <1>12, <2>1, <2>2 DEF Sound
  <1> QED
      BY <1>10, <1>11, <1>12
(***************************************************************************)
(* The inductive invariant where nothing is transferred.                   *)
(***************************************************************************)
LEMMA InitJInv == Init => JInv
  <1> SUFFICES ASSUME Init PROVE JInv
      OBVIOUS
  <1>1. IInv
      BY InitIInv
  <1>2. SeenThere /\ ReadsAreFresh
      BY DEF Init, SeenThere, ReadsAreFresh, Working
  <1>3. SoundTree
    <2>1. TypeOK
        BY <1>1 DEF IInv
    <2> SUFFICES ASSUME NEW n \in Nodes, Live(n) PROVE Sound(node, n)
        BY <2>1, SoundMeans
    <2>2. node[n].state = "live" /\ node = Tree
        BY DEF Init, Live
    <2>3. node[n].parent # "root" => node[node[n].parent].ws = node[n].ws
        BY <2>2, TreeAssumption DEF Accepted
    <2> QED
        BY <2>2, <2>3, TreeAssumption DEF Sound
  <1> QED
      BY <1>1, <1>2, <1>3 DEF JInv

(* Steps that write nothing.                                               *)
LEMMA SameReads ==
    ASSUME UNCHANGED node, NEW q \in Requests, req'[q] = req[q]
    PROVE  /\ NewPath(q)' = NewPath(q)
           /\ NothingLeft(q)' <=> NothingLeft(q)
  BY DEF NewPath, NewParent, NewSlug, NothingLeft, LiveIn, Live, PathOf

LEMMA QuietJInv ==
    ASSUME JInv, IInv', UNCHANGED node, NEW r \in Requests,
           \A q \in Requests \ {r} : pc'[q] = pc[q] /\ req'[q] = req[q],
           pc'[r] \in Working =>
              /\ req'[r].op \in Ops
              /\ req'[r].op # "create" =>
                   node[req'[r].id].state # "absent" /\ node[req'[r].id].ws = req'[r].ws,
           pc'[r] # "write"
    PROVE  JInv'
  <1>1. SeenThere'
      BY DEF JInv, SeenThere
  <1>2. ReadsAreFresh'
    <2> SUFFICES ASSUME NEW q \in Requests, pc'[q] = "write"
                 PROVE  /\ req'[q].op # "create" =>
                             node[req'[q].id].state = "live" /\ req'[q].old = node[req'[q].id].path
                        /\ req'[q].op \in {"create", "move"} => LiveIn(req'[q].dest, req'[q].to)
                        /\ req'[q].op \in {"create", "rename", "move"} => req'[q].new = NewPath(q)'
                        /\ NothingLeft(q)'
        BY DEF ReadsAreFresh, LiveIn, Live
    <2>1. q # r /\ pc[q] = "write" /\ req'[q] = req[q]
        OBVIOUS
    <2>2. NewPath(q)' = NewPath(q) /\ (NothingLeft(q)' <=> NothingLeft(q))
        BY <2>1, SameReads
    <2> QED
        BY <2>1, <2>2 DEF JInv, ReadsAreFresh, Live
  <1>3. SoundTree'
      BY DEF JInv, SoundTree, PathsFollowParents, NothingUnderDeleted, LiveRows, PathOf, LiveIn, Live
  <1> QED
      BY <1>1, <1>2, <1>3 DEF JInv

LEMMA ArriveFacts ==
    ASSUME NoTransfers, TypeOK, NEW r \in Requests, Arrive(r)
    PROVE  /\ UNCHANGED node /\ pc' = [pc EXCEPT ![r] = "lock"]
           /\ \A q \in Requests \ {r} : req'[q] = req[q]
           /\ req'[r].op \in Ops
           /\ req'[r].op # "create" =>
                node[req'[r].id].state = "live" /\ node[req'[r].id].ws = req'[r].ws
  <1>1. ASSUME NEW op, NEW n, NEW w, NEW to, NEW p, NEW s, NEW path,
               Begin(r, op, n, w, to, p, s, path)
        PROVE  /\ UNCHANGED node /\ pc' = [pc EXCEPT ![r] = "lock"]
               /\ \A q \in Requests \ {r} : req'[q] = req[q]
               /\ op \in Ops /\ req'[r].op = op /\ req'[r].id = n /\ req'[r].ws = w
      BY <1>1 DEF Begin, TypeOK
  <1>2. PICK n \in Nodes :
        \/ \E p \in Folders \cup {"root"}, s \in Slugs, w \in Workspaces :
              BeginCreate(r, n, w, p, s) \/ BeginImport(r, n, w, p, s)
        \/ \E s \in Slugs : BeginRename(r, n, s)
        \/ \E p \in Folders \cup {"root"} :
              BeginMove(r, n, p) \/ \E w \in Workspaces : BeginTransfer(r, n, w, p)
        \/ \E op \in {"delete", "empty"} : BeginRemove(r, n, op)
      BY DEF Arrive
  <1>3. \/ \E op, to, p, s, path : Begin(r, op, n, node[n].ws, to, p, s, path) /\ Live(n)
        \/ \E w, to, p, s, path : Begin(r, "create", n, w, to, p, s, path)
        \/ \E w, to, p, s, path : Begin(r, "import", n, w, to, p, s, path)
      BY <1>2 DEF BeginCreate, BeginImport, BeginRename, BeginMove, BeginTransfer, BeginRemove
  <1>4. "import" \notin Ops
      BY DEF NoTransfers
  <1> QED
      BY <1>1, <1>3, <1>4 DEF Live

LEMMA ArriveJInv ==
    ASSUME JInv, NoTransfers, NEW r \in Requests, Arrive(r)
    PROVE  JInv'
  <1>1. IInv' /\ TypeOK
      BY ArriveIInv DEF JInv, IInv
  <1>2. /\ UNCHANGED node /\ pc' = [pc EXCEPT ![r] = "lock"]
        /\ \A q \in Requests \ {r} : req'[q] = req[q]
        /\ req'[r].op \in Ops
        /\ req'[r].op # "create" =>
             node[req'[r].id].state = "live" /\ node[req'[r].id].ws = req'[r].ws
      BY <1>1, ArriveFacts
  <1>3. pc'[r] = "lock" /\ \A q \in Requests \ {r} : pc'[q] = pc[q]
      BY <1>1, <1>2 DEF TypeOK
  <1> QED
      BY <1>1, <1>2, <1>3, QuietJInv

LEMMA LockJInv ==
    ASSUME JInv, NEW r \in Requests, Lock(r)
    PROVE  JInv'
  <1>1. IInv' /\ TypeOK /\ pc[r] = "lock"
      BY LockIInv DEF JInv, IInv, Lock
  <1>2. /\ UNCHANGED node /\ pc'[r] # "write"
        /\ \A q \in Requests \ {r} : pc'[q] = pc[q] /\ req'[q] = req[q]
      BY <1>1 DEF Lock, TypeOK
  <1>3. /\ req'[r].op = req[r].op /\ req'[r].id = req[r].id /\ req'[r].ws = req[r].ws
    <2>1. req'[r] = [req[r] EXCEPT !.locks = Tail(@)] /\ req[r] \in Request
        BY <1>1, RequestFields DEF Lock, TypeOK
    <2> QED
        BY <2>1 DEF Request
  <1>4. /\ req[r].op \in Ops
        /\ req[r].op # "create" =>
             node[req[r].id].state # "absent" /\ node[req[r].id].ws = req[r].ws
      BY <1>1 DEF JInv, SeenThere, Working
  <1> QED
      BY <1>1, <1>2, <1>3, <1>4, QuietJInv

LEMMA EndJInv ==
    ASSUME JInv, NEW r \in Requests, pc[r] \in Working, End(r), UNCHANGED node
    PROVE  JInv'
  <1>1. IInv' /\ TypeOK
      BY EndIInv DEF JInv, IInv
  <1>2. /\ pc'[r] = "done" /\ \A q \in Requests \ {r} : pc'[q] = pc[q] /\ req'[q] = req[q]
      BY <1>1 DEF End, TypeOK
  <1> QED
      BY <1>1, <1>2, QuietJInv DEF Working
LEMMA AdmitJInv ==
    ASSUME JInv, NoTransfers, NEW r \in Requests, TxRead(r), Admits(r)
    PROVE  JInv'
  <1>1. IInv' /\ TypeOK
      BY AdmitIInv DEF JInv, IInv
  <1> DEFINE z == [req[r] EXCEPT !.old = node[req[r].id].path, !.new = NewPath(r)]
  <1>2. /\ pc[r] = "read" /\ UNCHANGED node /\ req'[r] = z
        /\ \A q \in Requests : /\ pc'[q] = IF q = r THEN "write" ELSE pc[q]
                               /\ q # r => req'[q] = req[q]
      BY AdmitFacts DEF JInv
  <1>3. /\ z.op = req[r].op /\ z.id = req[r].id /\ z.ws = req[r].ws /\ z.to = req[r].to
        /\ z.dest = req[r].dest /\ z.slug = req[r].slug
        /\ z.old = node[req[r].id].path /\ z.new = NewPath(r)
      BY <1>1, <1>2, RequestFields DEF Request
  <1> HIDE DEF z
  <1>4. /\ req[r].op \in Ops /\ req[r].op # "import"
        /\ req[r].op # "create" =>
             node[req[r].id].state # "absent" /\ node[req[r].id].ws = req[r].ws
      BY <1>2 DEF JInv, SeenThere, Working, NoTransfers
  <1>5. SeenThere'
      BY <1>2, <1>3, <1>4 DEF JInv, SeenThere, Working
  <1>6. ReadsAreFresh'
    <2> SUFFICES ASSUME NEW q \in Requests, pc'[q] = "write"
                 PROVE  /\ req'[q].op # "create" =>
                             node[req'[q].id].state = "live" /\ req'[q].old = node[req'[q].id].path
                        /\ req'[q].op \in {"create", "move"} =>
                             (req'[q].dest # "root" =>
                                node[req'[q].dest].state = "live" /\ node[req'[q].dest].ws = req'[q].to)
                        /\ req'[q].op \in {"create", "rename", "move"} => req'[q].new = NewPath(q)'
                        /\ NothingLeft(q)'
        BY <1>2 DEF ReadsAreFresh, LiveIn, Live
    <2>1. CASE q # r
      <3>1. pc[q] = "write" /\ req'[q] = req[q]
          BY <1>2, <2>1
      <3>2. NewPath(q)' = NewPath(q) /\ (NothingLeft(q)' <=> NothingLeft(q))
          BY <1>2, <3>1, SameReads
      <3> QED
          BY <3>1, <3>2 DEF JInv, ReadsAreFresh, LiveIn, Live
    <2>2. CASE q = r
      <3>1. NewPath(r)' = NewPath(r)
        <4>1. NewParent(r)' = NewParent(r) /\ NewSlug(r)' = NewSlug(r)
            BY <1>2, <1>3 DEF NewParent, NewSlug
        <4> QED
            BY <1>2, <1>3, <1>4, <4>1 DEF NewPath, LiveIn, Live, PathOf
      <3>2. NothingLeft(r)'
          BY <1>2, <1>3 DEF Admits, NothingLeft, Live
      <3> QED
          BY <1>2, <1>3, <1>4, <2>2, <3>1, <3>2 DEF Admits, SourceOK, DestOK, LiveIn, Live
    <2> QED
        BY <2>1, <2>2
  <1>7. SoundTree'
      BY <1>2 DEF JInv, SoundTree, PathsFollowParents, NothingUnderDeleted, LiveRows, PathOf,
                  LiveIn, Live
  <1> QED
      BY <1>1, <1>5, <1>6, <1>7 DEF JInv

(* What another transaction has read survives a write.                     *)
LEMMA FreshAfterWrite ==
    ASSUME JInv, NoTransfers, NEW r \in Requests, pc[r] = "write", Accepted(Rows(r)),
           node' = Rows(r), NEW q \in Requests \ {r}, pc[q] = "write", req' = req
    PROVE  /\ req[q].op # "create" =>
                node'[req[q].id].state = "live" /\ req[q].old = node'[req[q].id].path
           /\ req[q].op \in {"create", "move"} /\ req[q].dest # "root" =>
                node'[req[q].dest].state = "live" /\ node'[req[q].dest].ws = req[q].to
           /\ req[q].op \in {"create", "rename", "move"} => req[q].new = NewPath(q)'
           /\ NothingLeft(q)'
  <1> DEFINE id == req[q].id
             op == req[q].op
             dest == req[q].dest
  <1>1. /\ TypeOK /\ Accepted(node) /\ SoundTree
        /\ pc[q] # "idle" /\ pc[q] \in Working /\ pc[r] # "idle" /\ pc[r] \in Working
        /\ id \in Nodes /\ (dest # "root" => dest \in Nodes) /\ dest \in Folders \cup {"root"}
        /\ op \in Ops /\ op \notin {"import", "transfer"} /\ op \in AllOps
        /\ req[r].op \in Ops /\ req[r].op \notin {"import", "transfer"} /\ req[r].op \in AllOps
        /\ req[q].to = req[q].ws /\ req[r].to = req[r].ws /\ req[r].ws # req[q].ws
        /\ "root" \notin Nodes
      BY RequestFields, NodesAssumption
      DEF JInv, IInv, SeenThere, WellPosed, LocksTaken, Working, NoTransfers
  <1>2. \A m \in Nodes : node[m].ws = req[q].ws /\ node[m].state # "absent" => node'[m] = node[m]
      BY <1>1, OthersKept
  <1>3. op # "create" => Live(id) /\ node[id].ws = req[q].ws /\ node'[id] = node[id]
      BY <1>1, <1>2 DEF JInv, SeenThere, ReadsAreFresh, Live
  <1>4. op \in {"create", "move"} /\ dest # "root" =>
          Live(dest) /\ node[dest].ws = req[q].to /\ node'[dest] = node[dest]
      BY <1>1, <1>2 DEF JInv, ReadsAreFresh, LiveIn, Live
  <1>5. /\ op # "create" => node'[id].state = "live" /\ req[q].old = node'[id].path
        /\ op \in {"create", "move"} /\ dest # "root" =>
             node'[dest].state = "live" /\ node'[dest].ws = req[q].to
      BY <1>1, <1>3, <1>4 DEF JInv, ReadsAreFresh, Live
  <1>6. ASSUME op \in {"create", "rename", "move"}
        PROVE  req[q].new = NewPath(q)'
    <2>1. NewSlug(q)' = NewSlug(q) /\ NewParent(q)' = NewParent(q)
        BY <1>3, <1>6 DEF NewSlug, NewParent
    <2> DEFINE p == NewParent(q)
    <2>2. p # "root" => node'[p] = node[p]
      <3>1. CASE op = "rename"
        <4>1. Sound(node, id) /\ node[id].parent \in Folders \cup {"root"}
            BY <1>1, <1>3, <3>1, SoundMeans, RowFields
        <4>2. p = node[id].parent
            BY <3>1 DEF NewParent
        <4> QED
            BY <1>1, <1>2, <1>3, <3>1, <4>1, <4>2 DEF Sound, Nodes
      <3>2. CASE op # "rename"
          BY <1>4, <1>6, <3>2 DEF NewParent
      <3> QED
          BY <3>1, <3>2
    <2>3. NewPath(q)' = NewPath(q)
        BY <1>1, <2>1, <2>2 DEF NewPath, LiveIn, Live, PathOf
    <2> QED
        BY <1>6, <2>3 DEF JInv, ReadsAreFresh
  <1>7. NothingLeft(q)'
    <2> SUFFICES ASSUME op = "delete", NEW m \in Nodes, node'[m].state = "live",
                        node'[m].parent = id
                 PROVE  FALSE
        BY DEF NothingLeft, Live
    <2>1. ~(Live(m) /\ node[m].parent = id)
        BY DEF JInv, ReadsAreFresh, NothingLeft
    <2>2. m = req[r].id /\ req[r].op \in {"create", "move"}
        BY <1>1, <2>1, RowsChange DEF Making, AllOps
    <2>3. node'[m].parent = req[r].dest
        BY <1>1, <2>2, RowsChange DEF Making
    <2>4. id # "root" => node[id].ws = req[r].to
        BY <2>2, <2>3 DEF JInv, ReadsAreFresh, LiveIn
    <2> QED
        BY <1>1, <1>3, <2>4
  <1> QED
      BY <1>5, <1>6, <1>7

LEMMA WriteJInv ==
    ASSUME JInv, NoTransfers, NEW r \in Requests, pc[r] = "write", Accepted(Rows(r)),
           node' = Rows(r), End(r)
    PROVE  JInv'
  <1>1. IInv'
      BY WriteIInv DEF JInv
  <1>2. /\ TypeOK /\ TypeOK' /\ req' = req /\ pc[r] # "idle" /\ pc[r] \in Working
        /\ \A q \in Requests : pc'[q] = IF q = r THEN "done" ELSE pc[q]
      BY <1>1 DEF JInv, IInv, End, TypeOK, Working
  <1>3. req[r].op \in Ops /\ req[r].op \in AllOps /\ req[r].op \notin {"import", "transfer"}
      BY <1>2, RequestFields DEF JInv, SeenThere, NoTransfers
  <1>4. SeenThere'
    <2> SUFFICES ASSUME NEW q \in Requests, pc'[q] \in Working
                 PROVE  /\ req[q].op \in Ops
                        /\ req[q].op # "create" =>
                             node'[req[q].id].state # "absent" /\ node'[req[q].id].ws = req[q].ws
        BY <1>2 DEF SeenThere
    <2>1. q # r /\ pc[q] \in Working /\ req[q].id \in Nodes
        BY <1>2, RequestFields DEF Working
    <2>2. /\ req[q].op \in Ops
          /\ req[q].op # "create" =>
               node[req[q].id].state # "absent" /\ node[req[q].id].ws = req[q].ws
        BY <2>1 DEF JInv, SeenThere
    <2>3. req[r].op = "create" => node[req[r].id].state = "absent"
        BY <1>2 DEF JInv, IInv, StillAbsent
    <2> QED
        BY <1>2, <1>3, <2>1, <2>2, <2>3, RowsChange DEF Making
  <1>5. ReadsAreFresh'
    <2> SUFFICES ASSUME NEW q \in Requests, pc'[q] = "write"
                 PROVE  /\ req[q].op # "create" =>
                             node'[req[q].id].state = "live" /\ req[q].old = node'[req[q].id].path
                        /\ req[q].op \in {"create", "move"} /\ req[q].dest # "root" =>
                             node'[req[q].dest].state = "live" /\ node'[req[q].dest].ws = req[q].to
                        /\ req[q].op \in {"create", "rename", "move"} => req[q].new = NewPath(q)'
                        /\ NothingLeft(q)'
        BY <1>2 DEF ReadsAreFresh, LiveIn, Live
    <2>1. q \in Requests \ {r} /\ pc[q] = "write"
        BY <1>2
    <2> QED
        BY <1>2, <2>1, FreshAfterWrite
  <1>6. SoundTree'
    <2> SUFFICES ASSUME NEW n \in Nodes, Rows(r)[n].state = "live" PROVE Sound(Rows(r), n)
        BY <1>2, SoundMeansLater
    <2>1. CASE req[r].op = "create"
        BY <2>1, CreateSound
    <2>2. CASE req[r].op \in {"delete", "empty"}
        BY <2>2, RemoveSound
    <2>3. CASE req[r].op \in {"rename", "move"}
        BY <2>3, RehungSound
    <2> QED
        BY <1>3, <2>1, <2>2, <2>3 DEF AllOps
  <1> QED
      BY <1>1, <1>4, <1>5, <1>6 DEF JInv

LEMMA NextJInv ==
    ASSUME NoTransfers, JInv, [Next]_vars
    PROVE  JInv'
  <1>1. ASSUME NEW r \in Requests, Arrive(r) PROVE JInv'
      BY <1>1, ArriveJInv
  <1>2. ASSUME NEW r \in Requests, Lock(r) PROVE JInv'
      BY <1>2, LockJInv
  <1>3. ASSUME NEW r \in Requests, TxRead(r) PROVE JInv'
    <2>1. CASE Admits(r)
        BY <1>3, <2>1, AdmitJInv
    <2>2. CASE ~Admits(r)
      <3>1. End(r) /\ pc[r] \in Working /\ UNCHANGED node
          BY <1>3, <2>2 DEF TxRead, Working
      <3> QED
          BY <1>3, <3>1, EndJInv
    <2> QED
        BY <2>1, <2>2
  <1>4. ASSUME NEW r \in Requests, TxWrite(r) PROVE JInv'
    <2>1. pc[r] = "write" /\ pc[r] \in Working /\ End(r)
        BY <1>4 DEF TxWrite, Working
    <2>2. CASE Accepted(Rows(r))
      <3>1. node' = Rows(r)
          BY <1>4, <2>2 DEF TxWrite
      <3> QED
          BY <1>4, <2>1, <2>2, <3>1, WriteJInv
    <2>3. CASE ~Accepted(Rows(r))
      <3>1. UNCHANGED node
          BY <1>4, <2>3 DEF TxWrite
      <3> QED
          BY <1>4, <2>1, <3>1, EndJInv
    <2> QED
        BY <2>2, <2>3
  <1>5. ASSUME NEW r \in Requests, Fail(r) PROVE JInv'
    <2>1. pc[r] \in Working /\ End(r) /\ UNCHANGED node
        BY <1>5 DEF Fail, Working
    <2> QED
        BY <1>5, <2>1, EndJInv
  <1>6. CASE UNCHANGED vars
    <2>1. UNCHANGED <<node, lock, pc, req>>
        BY <1>6 DEF vars
    <2>2. IInv'
        BY NextIInv DEF JInv
    <2>3. SeenThere'
        BY <2>1 DEF JInv, SeenThere
    <2>4. ReadsAreFresh'
        BY <2>1 DEF JInv, ReadsAreFresh, NothingLeft, NewPath, NewParent, NewSlug, LiveIn, Live, PathOf
    <2>5. SoundTree'
        BY <2>1 DEF JInv, SoundTree, PathsFollowParents, NothingUnderDeleted, LiveRows, PathOf,
                    LiveIn, Live
    <2> QED
        BY <2>2, <2>3, <2>4, <2>5 DEF JInv
  <1> QED
      BY <1>1, <1>2, <1>3, <1>4, <1>5, <1>6 DEF Next, Handle

(* What a writer has read is what it writes by, and the tree it writes to  *)
(* is sound, where nothing is transferred between workspaces.              *)
THEOREM FreshInvariant ==
    ASSUME NoTransfers
    PROVE  Spec => []JInv
  <1>1. JInv /\ [Next]_vars => JInv'
      BY NextJInv
  <1> QED
      BY <1>1, InitJInv, PTL DEF Spec

(* In every workspace every stored path is that of the parent and one      *)
(* segment more, whatever creates, renames, moves and deletions race, as   *)
(* long as nothing is transferred (db.ts:3).                               *)
THEOREM PathsFollow ==
    ASSUME NoTransfers
    PROVE  Spec => []PathsFollowParents
  <1>1. JInv => PathsFollowParents
      BY DEF JInv, SoundTree
  <1> QED
      BY <1>1, FreshInvariant, PTL

(* Nothing live is left under a deleted folder, whatever creates and       *)
(* deletions race, as long as nothing is transferred                       *)
(* (folders/routes.ts:484, documents/routes.ts:1190).                      *)
THEOREM NothingLeftBehind ==
    ASSUME NoTransfers
    PROVE  Spec => []NothingUnderDeleted
  <1>1. JInv => NothingUnderDeleted
      BY DEF JInv, SoundTree
  <1> QED
      BY <1>1, FreshInvariant, PTL
=============================================================================
