------------------------ MODULE ObjectStorageProofs ------------------------
(***************************************************************************)
(* Proofs about ObjectStorage: unless accounts are deleted and documents   *)
(* transferred, a live revision loses its content only if its key had been *)
(* an old orphan before; and pruning always leaves each burst its newest.  *)
(* And about Reading: what a request tells of the documents is true.       *)
(***************************************************************************)
EXTENDS ObjectStorage, FiniteSetTheorems, SequenceTheorems, WellFoundedInduction, TLAPS

(* A key a request or a revision relies on.                                *)
Safe(k) == blob[k] = "absent" => k \in orphaned

(* The strengthening of FreshContentSurvives: what requests in flight have *)
(* stored, seen or read is safe too, as long as the workspace they store   *)
(* in exists, and the sweep only dooms old orphans.                        *)
StorageInv ==
    /\ \A d \in Docs : \A i \in RowsOf(d) : Live(d, i) => Safe(revs[d][i].key)
    /\ \A r \in Requests : \A i \in 1..StoredCount(r) :
          req[r].ws \in spaces => Safe(DestKey(r, i))
    /\ \A r \in Requests : pc[r] = "touch" /\ req[r].ws \in spaces => Safe(Target(r))
    /\ \A r \in Requests : pc[r] = "restoring" => Safe(req[r].keys[1])
    /\ sweep.doomed \subseteq orphaned
    /\ sweep.pc = "judging" => \A k \in sweep.todo : blob[k] = "old" => k \in orphaned

(* Without deletions of accounts every workspace stays.                    *)
AllStay == spaces = Workspaces /\ erase.pc = "idle"

(* Without transfers the rows of a document name objects of the workspace  *)
(* it is in, and so do the requests in flight, unless it was erased; the   *)
(* first write of a document has no base.                                  *)
AtHome ==
    /\ \A d \in Docs : \A i \in RowsOf(d) : revs[d][i].key.ws = home[d]
    /\ \A d \in Docs : home[d] \in Workspaces => home[d] \in spaces /\ revs[d] # << >>
    /\ \A r \in Requests : pc[r] # "idle" =>
          /\ req[r].op # "transfer"
          /\ req[r].keys[1].ws = req[r].ws
          /\ \/ req[r].op = "write" /\ req[r].from = "none" /\ req[r].base = 0
             \/ req[r].base > 0 /\ home[req[r].doc] \in {req[r].ws, "erased"}
    /\ erase.pc # "idle" => erase.ws \notin spaces /\ \A k \in erase.todo : k.ws = erase.ws

(* Where content may be: one of the two, whichever operation is missing.   *)
PlaceInv ==
    /\ "erase" \notin Ops => AllStay
    /\ "transfer" \notin Ops => AtHome

(* What a request relies on in its transaction.                            *)
RequestInv ==
    \A r \in Requests :
        /\ pc[r] = "restoring" => req[r].op = "restore" /\ home[req[r].doc] \in spaces
        /\ pc[r] \in {"put", "touch", "create"} => req[r].op # "restore"
        /\ pc[r] # "idle" /\ req[r].op # "transfer" => Len(req[r].keys) = 1

Inv == TypeOK /\ RequestInv /\ PlaceInv /\ StorageInv

(* The rows a pruning run is about to mark still have a newer one of their *)
(* burst that it is not about to mark, unless their document was erased.   *)
PruneInv ==
    /\ \A d \in Docs : home[d] = "erased" => revs[d] = << >>
    /\ \A x \in prune.ids : home[x[1]] # "erased" =>
          /\ x[2] \in RowsOf(x[1])
          /\ \E j \in RowsOf(x[1]) :
                /\ j > x[2] /\ Live(x[1], j)
                /\ revs[x[1]][j].group = revs[x[1]][x[2]].group
                /\ <<x[1], j>> \notin prune.ids
(***************************************************************************)
(* Types.                                                                  *)
(***************************************************************************)
LEMMA KeyShape == \A w \in Workspaces, t \in Texts : [ws |-> w, text |-> t] \in Keys
  BY DEF Keys

LEMMA InitType == Init => TypeOK /\ RequestInv
  <1> SUFFICES ASSUME Init PROVE TypeOK /\ RequestInv
      OBVIOUS
  <1>1. \A d \in Docs : \A i \in 1..Len(History[d]) : InitialRow(d, i) \in Revision
    <2> SUFFICES ASSUME NEW d \in Docs, NEW i \in 1..Len(History[d])
                 PROVE  InitialRow(d, i) \in Revision
        OBVIOUS
    <2>1. History[d] \in Seq(Texts) /\ History[d] # << >>
        BY HistoryAssumption
    <2>2. Home[d] \in Workspaces /\ History[d][i] \in Texts
        BY <2>1, HistoryAssumption, HomeAssumption
    <2> QED
        BY <2>2 DEF InitialRow, Revision, Keys
  <1>2. revs \in [Docs -> Seq(Revision)]
    <2>1. \A d \in Docs : Len(History[d]) \in Nat
        BY HistoryAssumption
    <2>2. \A d \in Docs : [i \in 1..Len(History[d]) |-> InitialRow(d, i)] \in Seq(Revision)
        BY <1>1, <2>1
    <2> QED
        BY <2>2 DEF Init
  <1>3. home \in [Docs -> Homes]
      BY HomeAssumption DEF Init, Homes
  <1>4. blob \in [Keys -> {"absent", "fresh", "old"}]
      BY DEF Init
  <1>5. /\ pc \in [Requests -> PCs]
        /\ \A r \in Requests : pc[r] = "idle"
        /\ DOMAIN req = Requests
      BY DEF Init, PCs
  <1>6. /\ spaces \subseteq Workspaces
        /\ sweep \in [pc : {"idle", "listed", "judging"},
                      todo : SUBSET Keys, doomed : SUBSET Keys]
        /\ prune \in [pc : {"idle", "update"}, ids : SUBSET (Docs \X Nat)]
        /\ erase \in [pc : {"idle", "list", "remove"}, ws : Homes, todo : SUBSET Keys]
        /\ aborts \in 0..MaxAborts
        /\ orphaned \subseteq Keys
      BY BoundsAssumption DEF Init, Homes
  <1> QED
      BY <1>2, <1>3, <1>4, <1>5, <1>6 DEF TypeOK, RequestInv

(* Beginning a request.                                                    *)
LEMMA BeginType ==
  ASSUME TypeOK, RequestInv, orphaned' \subseteq Keys,
         NEW r \in Requests, NEW d \in Docs,
         \/ \E t \in Texts : BeginWrite(r, d, t)
         \/ \E i \in RowsOf(d) : BeginRestore(r, d, i)
         \/ \E w \in Workspaces : BeginTransfer(r, d, w)
  PROVE  TypeOK' /\ RequestInv'
  <1> DEFINE Good(next, q) ==
        /\ next \in PCs \ {"restoring"}
        /\ q \in Request /\ q.pos \in 1..Len(q.keys)
        /\ next \in {"put", "touch", "create"} => q.op # "restore"
        /\ q.op # "transfer" => Len(q.keys) = 1
  <1>1. ASSUME NEW next, NEW q, Begin(r, next, q), Good(next, q)
        PROVE  TypeOK' /\ RequestInv'
    <2>1. pc' \in [Requests -> PCs] /\ DOMAIN req' = Requests
        BY <1>1 DEF Begin, TypeOK
    <2>2. pc'[r] = next /\ req'[r] = q
        BY <1>1 DEF Begin, TypeOK
    <2>3. \A x \in Requests : x # r => pc'[x] = pc[x] /\ req'[x] = req[x]
        BY <1>1 DEF Begin, TypeOK
    <2>4. UNCHANGED <<home, revs, spaces, blob, sweep, prune, erase, aborts>>
        BY <1>1 DEF Begin, docVars, jobVars
    <2>5. TypeOK'
        BY <1>1, <2>1, <2>2, <2>3, <2>4 DEF TypeOK
    <2>6. RequestInv'
        BY <1>1, <2>2, <2>3, <2>4 DEF RequestInv
    <2> QED
        BY <2>5, <2>6
  <1>2. revs[d] \in Seq(Revision) /\ Len(revs[d]) \in Nat /\ home[d] \in Homes
      BY DEF TypeOK
  <1>3. \A i \in RowsOf(d) : revs[d][i] \in Revision /\ revs[d][i].key \in Keys
    <2>1. \A i \in RowsOf(d) : revs[d][i] \in Revision
        BY <1>2 DEF RowsOf
    <2> QED
        BY <2>1 DEF Revision
  <1>4. CASE \E t \in Texts : BeginWrite(r, d, t)
    <2>1. PICK t \in Texts, w \in spaces : home[d] \in {w, "none"} /\
            Begin(r, "put", [op |-> "write", doc |-> d, ws |-> w, from |-> home[d],
                             keys |-> <<[ws |-> w, text |-> t]>>, pos |-> 1,
                             base |-> Len(revs[d])])
        BY <1>4 DEF BeginWrite
    <2>2. w \in Workspaces /\ home[d] \in Workspaces \cup {"none"}
        BY <2>1 DEF TypeOK
    <2>3. <<[ws |-> w, text |-> t]>> \in Seq(Keys)
        BY <2>2, KeyShape
    <2>4. Good("put", [op |-> "write", doc |-> d, ws |-> w, from |-> home[d],
                       keys |-> <<[ws |-> w, text |-> t]>>, pos |-> 1,
                       base |-> Len(revs[d])])
        BY <2>2, <2>3, <1>2 DEF PCs, Request
    <2> QED
        BY <2>1, <2>4, <1>1
  <1>5. CASE \E i \in RowsOf(d) : BeginRestore(r, d, i)
    <2>1. PICK i \in RowsOf(d) :
            /\ home[d] \in spaces
            /\ Begin(r, "tx", [op |-> "restore", doc |-> d, ws |-> home[d], from |-> home[d],
                               keys |-> <<revs[d][i].key>>, pos |-> 1, base |-> Len(revs[d])])
        BY <1>5 DEF BeginRestore
    <2>2. home[d] \in Workspaces /\ revs[d][i].key \in Keys
        BY <2>1, <1>3 DEF TypeOK
    <2>3. <<revs[d][i].key>> \in Seq(Keys)
        BY <2>2
    <2>4. Good("tx", [op |-> "restore", doc |-> d, ws |-> home[d], from |-> home[d],
                      keys |-> <<revs[d][i].key>>, pos |-> 1, base |-> Len(revs[d])])
        BY <2>2, <2>3, <1>2 DEF PCs, Request
    <2> QED
        BY <2>1, <2>4, <1>1
  <1>6. CASE \E w \in Workspaces : BeginTransfer(r, d, w)
    <2> DEFINE ks == [i \in RowsOf(d) |-> revs[d][i].key]
    <2>1. PICK w \in Workspaces :
            /\ revs[d] # << >> /\ home[d] \in spaces
            /\ Begin(r, "put", [op |-> "transfer", doc |-> d, ws |-> w, from |-> home[d],
                                keys |-> ks, pos |-> 1, base |-> Len(revs[d])])
        BY <1>6 DEF BeginTransfer
    <2>2. ks \in Seq(Keys) /\ Len(ks) = Len(revs[d])
        BY <1>2, <1>3 DEF RowsOf
    <2>3. Len(revs[d]) >= 1
        BY <1>2, <2>1
    <2> HIDE DEF ks
    <2>4. Good("put", [op |-> "transfer", doc |-> d, ws |-> w, from |-> home[d],
                       keys |-> ks, pos |-> 1, base |-> Len(revs[d])])
        BY <2>1, <2>2, <2>3, <1>2 DEF PCs, Request, TypeOK
    <2> QED
        BY <2>1, <2>4, <1>1
  <1> QED
      BY <1>4, <1>5, <1>6
(* The steps of a request already begun.                                   *)
LEMMA InFlight ==
  ASSUME TypeOK, NEW r \in Requests, pc[r] # "idle"
  PROVE  /\ req[r] \in Request /\ req[r].pos \in 1..Len(req[r].keys)
         /\ req[r].doc \in Docs /\ req[r].ws \in Workspaces
         /\ req[r].keys \in Seq(Keys) /\ Len(req[r].keys) \in Nat
         /\ \A i \in 1..Len(req[r].keys) : req[r].keys[i] \in Keys /\ DestKey(r, i) \in Keys
         /\ Target(r) \in Keys
  <1>1. req[r] \in Request /\ req[r].pos \in 1..Len(req[r].keys)
      BY DEF TypeOK
  <1>2. /\ req[r].doc \in Docs /\ req[r].ws \in Workspaces
        /\ req[r].keys \in Seq(Keys) /\ Len(req[r].keys) \in Nat
      BY <1>1 DEF Request
  <1>3. \A i \in 1..Len(req[r].keys) : req[r].keys[i] \in Keys /\ DestKey(r, i) \in Keys
    <2>1. \A i \in 1..Len(req[r].keys) : req[r].keys[i] \in Keys
        BY <1>2
    <2> QED
        BY <2>1, <1>2 DEF DestKey, Keys
  <1> QED
      BY <1>1, <1>2, <1>3 DEF Target

LEMMA Appended ==
  ASSUME TypeOK, NEW d \in Docs, NEW k \in Keys, NEW g \in Nat, NEW system \in BOOLEAN,
         AppendRevision(d, k, g, system)
  PROVE  /\ revs' \in [Docs -> Seq(Revision)]
         /\ \A e \in Docs : e # d => revs'[e] = revs[e]
         /\ Len(revs'[d]) = Len(revs[d]) + 1
         /\ \A i \in 1..Len(revs[d]) : revs'[d][i] = revs[d][i]
         /\ revs'[d][Len(revs[d]) + 1] =
               [key |-> k, group |-> g, kept |-> FALSE, system |-> system, pruned |-> FALSE]
  <1> DEFINE row == [key |-> k, group |-> g, kept |-> FALSE, system |-> system, pruned |-> FALSE]
  <1>1. row \in Revision
      BY DEF Revision
  <1>2. revs \in [Docs -> Seq(Revision)]
      BY DEF TypeOK
  <1>3. revs' = [revs EXCEPT ![d] = Append(@, row)]
      BY DEF AppendRevision
  <1> HIDE DEF row
  <1>4. revs' \in [Docs -> Seq(Revision)]
      BY <1>1, <1>2, <1>3
  <1>5. revs'[d] = Append(revs[d], row) /\ revs[d] \in Seq(Revision)
      BY <1>2, <1>3
  <1> QED
      BY <1>1, <1>2, <1>3, <1>4, <1>5 DEF row

(* A request that ends, wherever it was.                                   *)
LEMMA EndRequests ==
  ASSUME TypeOK, RequestInv, NEW r \in Requests, pc[r] # "idle", End(r),
         \A x \in Requests \ {r} : pc[x] = "restoring" => home'[req[x].doc] \in spaces'
  PROVE  /\ pc' \in [Requests -> PCs] /\ req' = req
         /\ \A x \in Requests : pc'[x] # "idle" => pc[x] # "idle"
         /\ RequestInv'
  <1>1. pc' \in [Requests -> PCs] /\ req' = req /\ pc'[r] = "done"
      BY DEF End, TypeOK, PCs
  <1>2. \A x \in Requests : x # r => pc'[x] = pc[x]
      BY DEF End, TypeOK
  <1>3. RequestInv'
      BY <1>1, <1>2 DEF RequestInv
  <1> QED
      BY <1>1, <1>2, <1>3

LEMMA GroupsAreNat ==
  ASSUME TypeOK, NEW d \in Docs, NEW g \in JoinableGroups(d)
  PROVE  g \in Nat
  <1>1. revs[d] \in Seq(Revision) /\ Len(revs[d]) \in Nat
      BY DEF TypeOK
  <1>2. \A i \in 1..Len(revs[d]) : revs[d][i] \in Revision
      BY <1>1
  <1>3. \A i \in 1..Len(revs[d]) : revs[d][i].group \in Nat
      BY <1>2 DEF Revision
  <1> QED
      BY <1>1, <1>3 DEF JoinableGroups

LEMMA RequestStepType ==
  ASSUME TypeOK, RequestInv, orphaned' \subseteq Keys, NEW r \in Requests, RequestStep(r)
  PROVE  TypeOK' /\ RequestInv'
  <1>0. pc[r] # "idle"
      BY DEF RequestStep, Put, Create, Touch, CommitWrite, ReadRestored,
             CommitRestore, CommitTransfer, Fail
  <1>1. /\ req[r].doc \in Docs /\ req[r].ws \in Workspaces
        /\ req[r].keys \in Seq(Keys) /\ Len(req[r].keys) \in Nat
        /\ req[r].pos \in 1..Len(req[r].keys) /\ req[r] \in Request
        /\ \A i \in 1..Len(req[r].keys) : req[r].keys[i] \in Keys
        /\ Target(r) \in Keys
      BY <1>0, InFlight
  <1>2. CASE Put(r)
    <2>1. /\ pc' \in [Requests -> PCs] /\ pc'[r] \in {"touch", "create"} /\ pc[r] = "put"
          /\ \A x \in Requests : x # r => pc'[x] = pc[x]
        BY <1>2 DEF Put, TypeOK, PCs
    <2>2. UNCHANGED <<home, revs, spaces, blob, req, sweep, prune, erase, aborts>>
        BY <1>2 DEF Put, docVars, jobVars
    <2> QED
        BY <2>1, <2>2 DEF TypeOK, RequestInv
  <1>3. CASE Create(r) \/ Touch(r)
    <2>1. blob' \in [Keys -> {"absent", "fresh", "old"}]
        BY <1>3 DEF Create, Touch, TypeOK
    <2>2. /\ PutNext(r) /\ pc[r] \in {"touch", "create"}
          /\ UNCHANGED <<home, revs, spaces, sweep, prune, erase, aborts>>
        BY <1>3 DEF Create, Touch, PutNext, docVars, jobVars
    <2>3. /\ pc' \in [Requests -> PCs] /\ pc'[r] \in {"tx", "put"}
          /\ \A x \in Requests : x # r => pc'[x] = pc[x] /\ req'[x] = req[x]
          /\ DOMAIN req' = Requests
        BY <2>2 DEF PutNext, TypeOK, PCs
    <2>4. /\ req'[r] \in Request /\ req'[r].pos \in 1..Len(req'[r].keys)
          /\ req'[r].op = req[r].op /\ req'[r].keys = req[r].keys
      <3>1. CASE req[r].pos = Len(req[r].keys)
          BY <3>1, <2>2, <1>1 DEF PutNext
      <3>2. CASE req[r].pos # Len(req[r].keys)
        <4>1. req'[r] = [req[r] EXCEPT !.pos = @ + 1]
            BY <3>2, <2>2 DEF PutNext, TypeOK
        <4>2. req[r].pos + 1 \in Nat /\ req[r].pos + 1 \in 1..Len(req[r].keys)
            BY <3>2, <1>1
        <4> QED
            BY <4>1, <4>2, <1>1 DEF Request
      <3> QED
          BY <3>1, <3>2
    <2>5. TypeOK'
        BY <2>1, <2>2, <2>3, <2>4 DEF TypeOK
    <2>6. RequestInv'
        BY <2>2, <2>3, <2>4 DEF RequestInv
    <2> QED
        BY <2>5, <2>6
  <1>4. CASE CommitWrite(r)
    <2> DEFINE d == req[r].doc
    <2>1. /\ home' = [home EXCEPT ![d] = IF @ = "none" THEN req[r].ws ELSE @]
          /\ End(r) /\ UNCHANGED <<spaces, blob>> /\ ~RowLocked(d)
          /\ req[r].op = "write"
        BY <1>4 DEF CommitWrite
    <2>2. PICK g \in JoinableGroups(d) : AppendRevision(d, DestKey(r, 1), g, FALSE)
        BY <1>4 DEF CommitWrite
    <2>3. revs' \in [Docs -> Seq(Revision)]
      <3>1. DestKey(r, 1) \in Keys
          BY <1>0, <2>1, InFlight DEF RequestInv
      <3>2. g \in Nat
          BY <1>1, <2>2, GroupsAreNat
      <3> QED
          BY <1>1, <2>2, <3>1, <3>2, Appended
    <2>4. home' \in [Docs -> Homes]
        BY <2>1, <1>1 DEF TypeOK, Homes
    <2>5. \A x \in Requests \ {r} : pc[x] = "restoring" => home'[req[x].doc] \in spaces'
      <3> SUFFICES ASSUME NEW x \in Requests \ {r}, pc[x] = "restoring"
                   PROVE  home'[req[x].doc] \in spaces'
          OBVIOUS
      <3>1. req[x].doc \in Docs /\ req[x].doc # d /\ home[req[x].doc] \in spaces
          BY <2>1, InFlight DEF RowLocked, RequestInv
      <3> QED
          BY <3>1, <2>1 DEF TypeOK
    <2>6. /\ pc' \in [Requests -> PCs] /\ req' = req /\ RequestInv'
          /\ \A x \in Requests : pc'[x] # "idle" => pc[x] # "idle"
        BY <2>1, <2>5, <1>0, EndRequests
    <2>7. UNCHANGED <<sweep, prune, erase, aborts>>
        BY <2>1 DEF End, jobVars
    <2>8. TypeOK'
        BY <2>1, <2>3, <2>4, <2>6, <2>7 DEF TypeOK
    <2> QED
        BY <2>6, <2>8
  <1>5. CASE ReadRestored(r)
    <2>1. /\ pc' \in [Requests -> PCs] /\ pc'[r] = "restoring"
          /\ req[r].op = "restore" /\ home[req[r].doc] \in spaces
          /\ \A x \in Requests : x # r => pc'[x] = pc[x]
        BY <1>5 DEF ReadRestored, TypeOK, PCs
    <2>2. UNCHANGED <<home, revs, spaces, blob, req, sweep, prune, erase, aborts>>
        BY <1>5 DEF ReadRestored, docVars, jobVars
    <2>3. TypeOK'
        BY <1>0, <2>1, <2>2 DEF TypeOK
    <2>4. RequestInv'
        BY <1>0, <2>1, <2>2 DEF RequestInv
    <2> QED
        BY <2>3, <2>4
  <1>6. CASE CommitRestore(r)
    <2> DEFINE d == req[r].doc
    <2>1. /\ pc[r] = "restoring" /\ End(r) /\ UNCHANGED <<home, spaces, blob>>
          /\ AppendRevision(d, req[r].keys[1], Len(revs[d]) + 1, TRUE)
        BY <1>6 DEF CommitRestore
    <2>2. revs' \in [Docs -> Seq(Revision)]
      <3>1. req[r].keys[1] \in Keys
          BY <1>0, <1>1, <2>1 DEF RequestInv
      <3>2. Len(revs[d]) + 1 \in Nat
          BY <1>1 DEF TypeOK
      <3> QED
          BY <1>1, <2>1, <3>1, <3>2, Appended
    <2>3. /\ pc' \in [Requests -> PCs] /\ req' = req /\ RequestInv'
          /\ \A x \in Requests : pc'[x] # "idle" => pc[x] # "idle"
        BY <2>1, <1>0, EndRequests DEF RequestInv
    <2>4. UNCHANGED <<sweep, prune, erase, aborts>>
        BY <2>1 DEF End, jobVars
    <2>5. TypeOK'
        BY <2>1, <2>2, <2>3, <2>4 DEF TypeOK
    <2> QED
        BY <2>3, <2>5
  <1>7. CASE CommitTransfer(r)
    <2> DEFINE d == req[r].doc
               moved == [i \in RowsOf(d) |->
                           IF i <= Len(req[r].keys)
                           THEN [revs[d][i] EXCEPT !.key = [ws |-> req[r].ws,
                                                            text |-> req[r].keys[i].text]]
                           ELSE revs[d][i]]
    <2>1. /\ ~RowLocked(d) /\ req[r].ws \in spaces
          /\ home' = [home EXCEPT ![d] = req[r].ws]
          /\ End(r) /\ UNCHANGED <<spaces, blob>>
        BY <1>7 DEF CommitTransfer
    <2>2. revs' = [revs EXCEPT ![d] = moved]
        BY <1>7, <1>1 DEF CommitTransfer, TypeOK
    <2>3. moved \in Seq(Revision)
      <3>1. revs[d] \in Seq(Revision)
          BY <1>1 DEF TypeOK
      <3>2. \A i \in RowsOf(d) : moved[i] \in Revision
        <4> SUFFICES ASSUME NEW i \in RowsOf(d) PROVE moved[i] \in Revision
            OBVIOUS
        <4>1. revs[d][i] \in Revision
            BY <3>1 DEF RowsOf
        <4>2. CASE i <= Len(req[r].keys)
          <5>1. [ws |-> req[r].ws, text |-> req[r].keys[i].text] \in Keys
              BY <4>2, <3>1, <1>0, InFlight DEF DestKey, RowsOf
          <5> QED
              BY <4>1, <4>2, <5>1 DEF Revision
        <4>3. CASE ~(i <= Len(req[r].keys))
            BY <4>1, <4>3
        <4> QED
            BY <4>2, <4>3
      <3>3. Len(revs[d]) \in Nat /\ RowsOf(d) = 1..Len(revs[d])
          BY <3>1 DEF RowsOf
      <3>4. moved \in [1..Len(revs[d]) -> Revision]
          BY <3>2, <3>3
      <3> HIDE DEF moved
      <3> QED
          BY <3>3, <3>4
    <2> HIDE DEF moved
    <2>4. revs' \in [Docs -> Seq(Revision)] /\ home' \in [Docs -> Homes]
        BY <2>1, <2>2, <2>3, <1>1 DEF TypeOK, Homes
    <2>5. \A x \in Requests \ {r} : pc[x] = "restoring" => home'[req[x].doc] \in spaces'
      <3> SUFFICES ASSUME NEW x \in Requests \ {r}, pc[x] = "restoring"
                   PROVE  home'[req[x].doc] \in spaces'
          OBVIOUS
      <3>1. req[x].doc \in Docs /\ req[x].doc # d /\ home[req[x].doc] \in spaces
          BY <2>1, InFlight DEF RowLocked, RequestInv
      <3> QED
          BY <3>1, <2>1 DEF TypeOK
    <2>6. /\ pc' \in [Requests -> PCs] /\ req' = req /\ RequestInv'
          /\ \A x \in Requests : pc'[x] # "idle" => pc[x] # "idle"
        BY <2>1, <2>5, <1>0, EndRequests
    <2>7. UNCHANGED <<sweep, prune, erase, aborts>>
        BY <2>1 DEF End, jobVars
    <2>8. TypeOK'
        BY <2>1, <2>4, <2>6, <2>7 DEF TypeOK
    <2> QED
        BY <2>6, <2>8
  <1>8. CASE Fail(r)
    <2>1. End(r) /\ UNCHANGED <<home, revs, spaces, blob>>
        BY <1>8 DEF Fail, docVars
    <2>2. /\ pc' \in [Requests -> PCs] /\ req' = req /\ RequestInv'
          /\ \A x \in Requests : pc'[x] # "idle" => pc[x] # "idle"
        BY <2>1, <1>0, EndRequests DEF RequestInv
    <2>3. UNCHANGED <<sweep, prune, erase, aborts>>
        BY <2>1 DEF End, jobVars
    <2>4. TypeOK'
        BY <2>1, <2>2, <2>3 DEF TypeOK
    <2> QED
        BY <2>2, <2>4
  <1> QED
      BY <1>2, <1>3, <1>4, <1>5, <1>6, <1>7, <1>8 DEF RequestStep
(* The jobs, and the steps that only touch objects or marks.               *)
LEMMA JobStepType ==
  ASSUME TypeOK, RequestInv, orphaned' \subseteq Keys,
         \/ SweepStep \/ AbortSweep
         \/ \E k \in Keys : Age(k)
         \/ ReadCollapsed \/ MarkPruned
         \/ \E d \in Docs : \E i \in RowsOf(d), kept \in BOOLEAN : SetKept(d, i, kept)
         \/ \E w \in Workspaces : EraseWorkspace(w)
         \/ ListPrefix \/ EndErase
         \/ \E k \in Keys : RemovePrefixed(k)
  PROVE  TypeOK' /\ RequestInv'
  <1> USE DEF docVars, reqVars, jobVars
  <1>1. CASE SweepStep
    <2>1. /\ blob' \in [Keys -> {"absent", "fresh", "old"}]
          /\ sweep' \in [pc : {"idle", "listed", "judging"},
                         todo : SUBSET Keys, doomed : SUBSET Keys]
      <3>1. CASE ListObjects
          BY <3>1 DEF ListObjects, TypeOK
      <3>2. CASE ReadReferences
          BY <3>2 DEF ReadReferences, TypeOK
      <3>3. CASE EndSweep
          BY <3>3 DEF EndSweep, TypeOK
      <3>4. ASSUME NEW k \in Keys, JudgeObject(k)
            PROVE  /\ blob' \in [Keys -> {"absent", "fresh", "old"}]
                   /\ sweep' \in [pc : {"idle", "listed", "judging"},
                                  todo : SUBSET Keys, doomed : SUBSET Keys]
          BY <3>4 DEF JudgeObject, TypeOK
      <3>5. ASSUME NEW k \in Keys, RemoveObject(k)
            PROVE  /\ blob' \in [Keys -> {"absent", "fresh", "old"}]
                   /\ sweep' \in [pc : {"idle", "listed", "judging"},
                                  todo : SUBSET Keys, doomed : SUBSET Keys]
          BY <3>5 DEF RemoveObject, TypeOK
      <3> QED
          BY <1>1, <3>1, <3>2, <3>3, <3>4, <3>5 DEF SweepStep
    <2>2. UNCHANGED <<home, revs, spaces, pc, req, prune, erase, aborts>>
        BY <1>1 DEF SweepStep, ListObjects, ReadReferences, EndSweep, JudgeObject, RemoveObject
    <2> QED
        BY <2>1, <2>2 DEF TypeOK, RequestInv
  <1>2. CASE AbortSweep
    <2>1. aborts' \in 0..MaxAborts
        BY <1>2, BoundsAssumption DEF AbortSweep, TypeOK
    <2> QED
        BY <1>2, <2>1 DEF AbortSweep, TypeOK, RequestInv
  <1>3. CASE \E k \in Keys : Age(k)
      BY <1>3 DEF Age, TypeOK, RequestInv
  <1>4. CASE ReadCollapsed
    <2>1. /\ prune' \in [pc : {"idle", "update"}, ids : SUBSET (Docs \X Nat)]
          /\ UNCHANGED <<home, revs, spaces, blob, pc, req, sweep, erase, aborts>>
        BY <1>4, BoundsAssumption DEF ReadCollapsed
    <2> QED
        BY <2>1 DEF TypeOK, RequestInv
  <1>5. CASE MarkPruned
    <2>1. revs' \in [Docs -> Seq(Revision)]
      <3>1. ASSUME NEW d \in Docs PROVE revs'[d] \in Seq(Revision)
        <4>1. revs[d] \in Seq(Revision) /\ Len(revs[d]) \in Nat /\ RowsOf(d) = 1..Len(revs[d])
            BY DEF TypeOK, RowsOf
        <4>2. revs'[d] = [i \in RowsOf(d) |->
                            [revs[d][i] EXCEPT !.pruned = @ \/ <<d, i>> \in prune.ids]]
            BY <1>5 DEF MarkPruned
        <4>3. ASSUME NEW i \in RowsOf(d)
              PROVE  [revs[d][i] EXCEPT !.pruned = @ \/ <<d, i>> \in prune.ids] \in Revision
          <5>1. revs[d][i] \in Revision
              BY <4>1
          <5> QED
              BY <5>1 DEF Revision
        <4>4. revs'[d] \in [1..Len(revs[d]) -> Revision]
            BY <4>1, <4>2, <4>3
        <4> QED
            BY <4>1, <4>4
      <3> QED
          BY <1>5, <3>1 DEF MarkPruned
    <2>2. prune' \in [pc : {"idle", "update"}, ids : SUBSET (Docs \X Nat)]
        BY <1>5 DEF MarkPruned
    <2>3. UNCHANGED <<home, spaces, blob, pc, req, sweep, erase, aborts>>
        BY <1>5 DEF MarkPruned
    <2> QED
        BY <2>1, <2>2, <2>3 DEF TypeOK, RequestInv
  <1>6. CASE \E d \in Docs : \E i \in RowsOf(d), kept \in BOOLEAN : SetKept(d, i, kept)
    <2>1. PICK d \in Docs : \E i \in RowsOf(d), kept \in BOOLEAN : SetKept(d, i, kept)
        BY <1>6
    <2>2. PICK i \in RowsOf(d), kept \in BOOLEAN : SetKept(d, i, kept)
        BY <2>1
    <2>3. revs[d] \in Seq(Revision) /\ revs[d][i] \in Revision
        BY DEF TypeOK, RowsOf
    <2>4. [revs[d][i] EXCEPT !.kept = kept] \in Revision
        BY <2>3 DEF Revision
    <2>5. [revs[d] EXCEPT ![i] = [revs[d][i] EXCEPT !.kept = kept]] \in Seq(Revision)
        BY <2>3, <2>4 DEF RowsOf
    <2>6. revs' = [revs EXCEPT ![d] = [revs[d] EXCEPT ![i] = [revs[d][i] EXCEPT !.kept = kept]]]
        BY <2>2, <2>3 DEF SetKept, TypeOK
    <2>7. revs' \in [Docs -> Seq(Revision)]
        BY <2>5, <2>6 DEF TypeOK
    <2>8. UNCHANGED <<home, spaces, blob, pc, req, sweep, prune, erase, aborts>>
        BY <2>2 DEF SetKept
    <2> QED
        BY <2>7, <2>8 DEF TypeOK, RequestInv
  <1>7. CASE \E w \in Workspaces : EraseWorkspace(w)
    <2>1. PICK w \in Workspaces : EraseWorkspace(w)
        BY <1>7
    <2>2. /\ home' \in [Docs -> Homes] /\ revs' \in [Docs -> Seq(Revision)]
          /\ spaces' \subseteq Workspaces
          /\ erase' \in [pc : {"idle", "list", "remove"}, ws : Homes, todo : SUBSET Keys]
        BY <2>1 DEF EraseWorkspace, TypeOK, Homes
    <2>3. UNCHANGED <<blob, pc, req, sweep, prune, aborts>>
        BY <2>1 DEF EraseWorkspace
    <2>4. RequestInv'
      <3> SUFFICES ASSUME NEW x \in Requests, pc[x] = "restoring"
                   PROVE  home'[req[x].doc] \in spaces'
          BY <2>3 DEF RequestInv
      <3>1. /\ req[x].doc \in Docs /\ home[req[x].doc] \in spaces
            /\ home[req[x].doc] # w
          BY <2>1, InFlight DEF RequestInv, RowLocked, EraseWorkspace
      <3> QED
          BY <3>1, <2>1 DEF EraseWorkspace
    <2> QED
        BY <2>2, <2>3, <2>4 DEF TypeOK
  <1>8. CASE ListPrefix \/ EndErase \/ \E k \in Keys : RemovePrefixed(k)
    <2>1. /\ blob' \in [Keys -> {"absent", "fresh", "old"}]
          /\ erase' \in [pc : {"idle", "list", "remove"}, ws : Homes, todo : SUBSET Keys]
      <3>1. CASE ListPrefix
          BY <3>1 DEF ListPrefix, TypeOK
      <3>2. CASE EndErase
          BY <3>2 DEF EndErase, TypeOK, Homes
      <3>3. ASSUME NEW k \in Keys, RemovePrefixed(k)
            PROVE  /\ blob' \in [Keys -> {"absent", "fresh", "old"}]
                   /\ erase' \in [pc : {"idle", "list", "remove"}, ws : Homes, todo : SUBSET Keys]
          BY <3>3 DEF RemovePrefixed, TypeOK
      <3> QED
          BY <1>8, <3>1, <3>2, <3>3
    <2>2. UNCHANGED <<home, revs, spaces, pc, req, sweep, prune, aborts>>
        BY <1>8 DEF ListPrefix, EndErase, RemovePrefixed
    <2> QED
        BY <2>1, <2>2 DEF TypeOK, RequestInv
  <1> QED
      BY <1>1, <1>2, <1>3, <1>4, <1>5, <1>6, <1>7, <1>8

LEMMA NextType == TypeOK /\ RequestInv /\ Next => TypeOK' /\ RequestInv'
  <1> SUFFICES ASSUME TypeOK, RequestInv, Next PROVE TypeOK' /\ RequestInv'
      OBVIOUS
  <1>1. orphaned' \subseteq Keys
      BY DEF Next, OldOrphans, TypeOK
  <1>2. Step
      BY DEF Next
  <1>3. ASSUME NEW r \in Requests, NEW d \in Docs,
               \/ \E t \in Texts : BeginWrite(r, d, t)
               \/ \E i \in RowsOf(d) : BeginRestore(r, d, i)
               \/ \E w \in Workspaces : BeginTransfer(r, d, w)
        PROVE  TypeOK' /\ RequestInv'
      BY <1>1, <1>3, BeginType
  <1>4. ASSUME NEW r \in Requests, RequestStep(r)
        PROVE  TypeOK' /\ RequestInv'
      BY <1>1, <1>4, RequestStepType
  <1> QED
      BY <1>1, <1>2, <1>3, <1>4, JobStepType DEF Step

LEMMA StutterType == TypeOK /\ RequestInv /\ UNCHANGED vars => TypeOK' /\ RequestInv'
  BY DEF TypeOK, RequestInv, vars, docVars, reqVars, jobVars

(* Every variable keeps its type, and requests keep what they rely on.     *)
THEOREM StorageTypes == Spec => []TypeOK
  <1>1. TypeOK /\ RequestInv /\ [Next]_vars => (TypeOK /\ RequestInv)'
      BY NextType, StutterType
  <1> QED
      BY InitType, <1>1, PTL DEF Spec
(***************************************************************************)
(* Where content may be.                                                   *)
(***************************************************************************)

(* Keys of rows are keys.                                                  *)
LEMMA RowKeys ==
  ASSUME TypeOK, NEW d \in Docs
  PROVE  /\ Len(revs[d]) \in Nat /\ RowsOf(d) = 1..Len(revs[d])
         /\ \A i \in RowsOf(d) : revs[d][i] \in Revision /\ revs[d][i].key \in Keys
  <1>1. revs[d] \in Seq(Revision)
      BY DEF TypeOK
  <1>2. \A i \in RowsOf(d) : revs[d][i] \in Revision
      BY <1>1 DEF RowsOf
  <1> QED
      BY <1>1, <1>2 DEF RowsOf, Revision

LEMMA KeySpaces == \A k \in Keys : k.ws \in Workspaces
  BY DEF Keys

(* The steps that change documents.                                        *)
LEMMA DocsMove ==
  ASSUME Step
  PROVE  \/ UNCHANGED <<home, revs, spaces>>
         \/ \E r \in Requests : CommitWrite(r) \/ CommitRestore(r) \/ CommitTransfer(r)
         \/ MarkPruned
         \/ \E d \in Docs : \E i \in RowsOf(d), kept \in BOOLEAN : SetKept(d, i, kept)
         \/ \E w \in Workspaces : EraseWorkspace(w)
  <1> USE DEF docVars, reqVars, jobVars
  <1>1. ASSUME NEW r \in Requests, NEW d \in Docs,
               \/ \E t \in Texts : BeginWrite(r, d, t)
               \/ \E i \in RowsOf(d) : BeginRestore(r, d, i)
               \/ \E w \in Workspaces : BeginTransfer(r, d, w)
        PROVE  UNCHANGED <<home, revs, spaces>>
      BY <1>1 DEF BeginWrite, BeginRestore, BeginTransfer, Begin
  <1>2. ASSUME NEW r \in Requests, RequestStep(r)
        PROVE  CommitWrite(r) \/ CommitRestore(r) \/ CommitTransfer(r)
               \/ UNCHANGED <<home, revs, spaces>>
      BY <1>2 DEF RequestStep, Put, Create, Touch, PutNext, ReadRestored, Fail
  <1>3. SweepStep \/ AbortSweep \/ (\E k \in Keys : Age(k)) \/ ReadCollapsed
        \/ ListPrefix \/ EndErase \/ (\E k \in Keys : RemovePrefixed(k))
        => UNCHANGED <<home, revs, spaces>>
      BY DEF SweepStep, AbortSweep, ListObjects, ReadReferences, EndSweep, JudgeObject,
             RemoveObject, Age, ReadCollapsed, ListPrefix, EndErase, RemovePrefixed
  <1> QED
      BY <1>1, <1>2, <1>3 DEF Step

(* No workspace comes back, and without deletions none goes.               *)
LEMMA SpacesShrink ==
  ASSUME Step
  PROVE  spaces' \subseteq spaces /\ ("erase" \notin Ops => spaces' = spaces)
  <1>1. \A w \in Workspaces : EraseWorkspace(w) => spaces' \subseteq spaces /\ "erase" \in Ops
      BY DEF EraseWorkspace
  <1>2. \A r \in Requests :
           CommitWrite(r) \/ CommitRestore(r) \/ CommitTransfer(r) => spaces' = spaces
      BY DEF CommitWrite, CommitRestore, CommitTransfer
  <1>3. MarkPruned \/ (\E d \in Docs : \E i \in RowsOf(d), kept \in BOOLEAN : SetKept(d, i, kept))
        => spaces' = spaces
      BY DEF MarkPruned, SetKept
  <1> QED
      BY <1>1, <1>2, <1>3, DocsMove

LEMMA EraseStays ==
  ASSUME AllStay, "erase" \notin Ops, Step
  PROVE  erase' = erase
  <1> USE DEF docVars, reqVars, jobVars
  <1>2. ASSUME NEW r \in Requests, NEW d \in Docs,
               \/ \E t \in Texts : BeginWrite(r, d, t)
               \/ \E i \in RowsOf(d) : BeginRestore(r, d, i)
               \/ \E w \in Workspaces : BeginTransfer(r, d, w)
        PROVE  erase' = erase
      BY <1>2 DEF BeginWrite, BeginRestore, BeginTransfer, Begin
  <1>3. ASSUME NEW r \in Requests, RequestStep(r) PROVE erase' = erase
      BY <1>3 DEF RequestStep, Put, Create, Touch, PutNext, CommitWrite, ReadRestored,
           CommitRestore, CommitTransfer, Fail, End
  <1>4. \/ SweepStep \/ AbortSweep
        \/ \E k \in Keys : Age(k)
        \/ ReadCollapsed \/ MarkPruned
        \/ \E d \in Docs : \E i \in RowsOf(d), kept \in BOOLEAN : SetKept(d, i, kept)
        => erase' = erase
      BY DEF SweepStep, AbortSweep, ListObjects, ReadReferences, EndSweep, JudgeObject,
             RemoveObject, Age, ReadCollapsed, MarkPruned, SetKept
  <1>5. ~(\/ \E w \in Workspaces : EraseWorkspace(w)
          \/ ListPrefix \/ EndErase
          \/ \E k \in Keys : RemovePrefixed(k))
      BY DEF EraseWorkspace, ListPrefix, EndErase, RemovePrefixed, AllStay
  <1> QED
      BY <1>2, <1>3, <1>4, <1>5 DEF Step

(* Rows and homes stay in step.                                            *)
LEMMA HomesStep ==
  ASSUME TypeOK, RequestInv, AtHome, Step, NEW d \in Docs
  PROVE  /\ \A i \in RowsOf(d)' : revs'[d][i].key.ws = home'[d]
         /\ home'[d] \in Workspaces => home'[d] \in spaces' /\ revs'[d] # << >>
         /\ home[d] # "none" => home'[d] \in {home[d], "erased"}
  <1> DEFINE Claim == /\ \A i \in RowsOf(d)' : revs'[d][i].key.ws = home'[d]
                      /\ home'[d] \in Workspaces => home'[d] \in spaces' /\ revs'[d] # << >>
                      /\ home[d] # "none" => home'[d] \in {home[d], "erased"}
  <1>1. /\ Len(revs[d]) \in Nat /\ RowsOf(d) = 1..Len(revs[d])
        /\ \A i \in RowsOf(d) : revs[d][i] \in Revision /\ revs[d][i].key \in Keys
      BY RowKeys
  <1>2. /\ \A i \in RowsOf(d) : revs[d][i].key.ws = home[d]
        /\ home[d] \in Workspaces => home[d] \in spaces /\ revs[d] # << >>
      BY DEF AtHome
  <1>3. ASSUME revs'[d] = revs[d], home'[d] = home[d], spaces' = spaces PROVE Claim
      BY <1>2, <1>3 DEF RowsOf
  <1>4. ASSUME NEW r \in Requests, NEW k \in Keys, NEW g \in Nat, NEW system \in BOOLEAN,
               req[r].doc = d, AppendRevision(d, k, g, system), spaces' = spaces,
               home'[d] \in spaces, k.ws = home'[d], home[d] \in {home'[d], "none"}
        PROVE  Claim
    <2>1. /\ Len(revs'[d]) = Len(revs[d]) + 1
          /\ \A i \in 1..Len(revs[d]) : revs'[d][i] = revs[d][i]
          /\ revs'[d][Len(revs[d]) + 1] =
                [key |-> k, group |-> g, kept |-> FALSE, system |-> system, pruned |-> FALSE]
        BY <1>4, Appended
    <2>2. home[d] = "none" => RowsOf(d) = {}
      <3>1. "none" \notin Workspaces
          BY SpacesAssumption
      <3> QED
          BY <1>1, <1>2, <3>1, KeySpaces
    <2>3. \A i \in RowsOf(d) : revs[d][i].key.ws = home'[d]
        BY <1>2, <1>4, <2>2
    <2>4. ASSUME NEW i \in RowsOf(d)' PROVE revs'[d][i].key.ws = home'[d]
      <3>1. i \in RowsOf(d) \/ i = Len(revs[d]) + 1
          BY <1>1, <2>1, <2>4 DEF RowsOf
      <3>2. CASE i \in RowsOf(d)
          BY <1>1, <2>1, <2>3, <3>2
      <3>3. CASE i = Len(revs[d]) + 1
          BY <1>4, <2>1, <3>3
      <3> QED
          BY <3>1, <3>2, <3>3
    <2>5. revs'[d] # << >>
        BY <1>1, <2>1
    <2> QED
        BY <1>4, <2>4, <2>5
  <1>5. ASSUME NEW r \in Requests, CommitWrite(r) PROVE Claim
    <2>1. /\ pc[r] = "tx" /\ req[r].op = "write" /\ req[r].doc \in Docs
          /\ req[r].ws \in Workspaces
          /\ Len(req[r].keys) = 1 /\ DestKey(r, 1) \in Keys
        BY <1>5, InFlight DEF CommitWrite, RequestInv
    <2>2. /\ \E g \in JoinableGroups(req[r].doc) : AppendRevision(req[r].doc, DestKey(r, 1), g, FALSE)
          /\ home' = [home EXCEPT ![req[r].doc] = IF @ = "none" THEN req[r].ws ELSE @]
          /\ spaces' = spaces
          /\ Len(revs[req[r].doc]) = req[r].base
          /\ home[req[r].doc] \in spaces \/ (home[req[r].doc] = "none" /\ req[r].ws \in spaces)
        BY <1>5 DEF CommitWrite
    <2>3. PICK g \in Nat : AppendRevision(req[r].doc, DestKey(r, 1), g, FALSE)
        BY <2>1, <2>2, GroupsAreNat
    <2>4. home \in [Docs -> Homes] /\ spaces \subseteq Workspaces
        BY DEF TypeOK
    <2>5. CASE d # req[r].doc
      <3>1. revs'[d] = revs[d] /\ home'[d] = home[d]
          BY <2>1, <2>2, <2>3, <2>4, <2>5, Appended
      <3> QED
          BY <1>3, <2>2, <3>1
    <2>6. CASE d = req[r].doc
      <3>1. home'[d] = IF home[d] = "none" THEN req[r].ws ELSE home[d]
          BY <2>2, <2>4, <2>6
      <3>2. home[d] # "none" => home[d] = req[r].ws
        <4>1. ASSUME home[d] # "none" PROVE home[d] \in spaces /\ revs[d] # << >>
            BY <1>2, <2>2, <2>4, <2>6, <4>1
        <4>2. ASSUME home[d] # "none" PROVE req[r].base # 0
            BY <1>1, <2>2, <2>6, <4>1, <4>2, EmptySeq DEF TypeOK
        <4>3. "erased" \notin Workspaces
            BY SpacesAssumption
        <4> QED
            BY <2>1, <2>4, <2>6, <4>1, <4>2, <4>3 DEF AtHome
      <3>3. home'[d] = req[r].ws /\ home'[d] \in spaces /\ home[d] \in {home'[d], "none"}
        <4>1. home[d] \in spaces \/ (home[d] = "none" /\ req[r].ws \in spaces)
            BY <2>2, <2>6
        <4>2. home'[d] = req[r].ws
            BY <3>1, <3>2
        <4>3. home'[d] \in spaces
            BY <3>2, <4>1, <4>2, <2>4, SpacesAssumption
        <4> QED
            BY <3>2, <4>2, <4>3
      <3>4. DestKey(r, 1).ws = req[r].ws
          BY DEF DestKey
      <3>5. AppendRevision(d, DestKey(r, 1), g, FALSE)
          BY <2>3, <2>6
      <3> HIDE DEF Claim
      <3> QED
          BY <1>4, <2>1, <2>2, <2>6, <3>3, <3>4, <3>5
    <2> QED
        BY <2>5, <2>6
  <1>6. ASSUME NEW r \in Requests, CommitRestore(r) PROVE Claim
    <2>1. /\ pc[r] = "restoring" /\ req[r].op = "restore" /\ home[req[r].doc] \in spaces
          /\ home' = home /\ spaces' = spaces
          /\ AppendRevision(req[r].doc, req[r].keys[1], Len(revs[req[r].doc]) + 1, TRUE)
        BY <1>6 DEF CommitRestore, RequestInv
    <2>2. /\ req[r].doc \in Docs /\ req[r].keys[1] \in Keys
          /\ Len(revs[req[r].doc]) + 1 \in Nat
      <3> HIDE DEF Claim
      <3>1. pc[r] # "idle" /\ Len(req[r].keys) = 1
          BY <2>1 DEF RequestInv
      <3>2. req[r].doc \in Docs /\ \A i \in 1..Len(req[r].keys) : req[r].keys[i] \in Keys
          BY <3>1, InFlight
      <3>3. req[r].keys[1] \in Keys
          BY <3>1, <3>2
      <3>4. Len(revs[req[r].doc]) \in Nat
          BY <3>2, RowKeys
      <3> QED
          BY <3>2, <3>3, <3>4
    <2>3. req[r].keys[1].ws = req[r].ws /\ home[req[r].doc] \in {req[r].ws, "erased"}
        BY <2>1 DEF AtHome
    <2>4. req[r].keys[1].ws = home[req[r].doc]
        BY <2>1, <2>3, SpacesAssumption DEF TypeOK
    <2>5. CASE d # req[r].doc
      <3>1. revs'[d] = revs[d]
          BY <2>1, <2>2, <2>5, Appended
      <3> QED
          BY <1>3, <2>1, <3>1
    <2>6. CASE d = req[r].doc
      <3> HIDE DEF Claim
      <3> QED
          BY <1>4, <2>1, <2>2, <2>4, <2>6
    <2> QED
        BY <2>5, <2>6
  <1>7. ~\E r \in Requests : CommitTransfer(r)
      BY DEF CommitTransfer, AtHome
  <1>8. ASSUME MarkPruned PROVE Claim
    <2>1. revs'[d] = [i \in RowsOf(d) |->
                        [revs[d][i] EXCEPT !.pruned = @ \/ <<d, i>> \in prune.ids]]
          /\ home' = home /\ spaces' = spaces
        BY <1>8 DEF MarkPruned
    <2>2. Len(revs'[d]) = Len(revs[d])
        BY <1>1, <2>1
    <2>3. \A i \in RowsOf(d) : revs'[d][i].key = revs[d][i].key
        BY <1>1, <2>1 DEF Revision
    <2>4. revs[d] # << >> => revs'[d] # << >>
      <3>1. revs[d] # << >> => Len(revs[d]) # 0
          BY EmptySeq DEF TypeOK
      <3> QED
          BY <2>2, <3>1
    <2>5. RowsOf(d)' = RowsOf(d)
        BY <2>2 DEF RowsOf
    <2> QED
        BY <1>2, <2>1, <2>3, <2>4, <2>5
  <1>9. ASSUME NEW e \in Docs, NEW j \in RowsOf(e), NEW kept \in BOOLEAN, SetKept(e, j, kept)
        PROVE  Claim
    <2>1. revs' = [revs EXCEPT ![e] = [revs[e] EXCEPT ![j] = [revs[e][j] EXCEPT !.kept = kept]]]
          /\ home' = home /\ spaces' = spaces
        BY <1>9, RowKeys DEF SetKept, TypeOK, RowsOf
    <2>2. CASE e # d
        BY <1>3, <2>1, <2>2 DEF TypeOK
    <2>3. CASE e = d
      <3>1. revs'[d] = [revs[d] EXCEPT ![j] = [revs[d][j] EXCEPT !.kept = kept]]
          BY <2>1, <2>3 DEF TypeOK
      <3>2. Len(revs'[d]) = Len(revs[d]) /\ revs'[d] # << >>
        <4>1. Len(revs'[d]) = Len(revs[d])
            BY <3>1 DEF TypeOK
        <4>2. Len(revs[d]) # 0
            BY <1>1, <1>9, <2>3
        <4> QED
            BY <4>1, <4>2
      <3>3. \A i \in RowsOf(d) : revs'[d][i].key = revs[d][i].key
          BY <1>1, <3>1 DEF Revision, TypeOK
      <3>4. RowsOf(d)' = RowsOf(d)
          BY <3>2 DEF RowsOf
      <3> QED
          BY <1>2, <2>1, <3>2, <3>3, <3>4
    <2> QED
        BY <2>2, <2>3
  <1>10. ASSUME NEW w \in Workspaces, EraseWorkspace(w) PROVE Claim
    <2>1. /\ home'[d] = (IF home[d] = w THEN "erased" ELSE home[d])
          /\ revs'[d] = (IF home[d] = w THEN << >> ELSE revs[d])
          /\ spaces' = spaces \ {w}
        BY <1>10 DEF EraseWorkspace
    <2>2. CASE home[d] = w
      <3>1. RowsOf(d)' = {} /\ home'[d] = "erased"
          BY <2>1, <2>2 DEF RowsOf
      <3> QED
          BY <3>1, SpacesAssumption
    <2>3. CASE home[d] # w
      <3>1. revs'[d] = revs[d] /\ home'[d] = home[d] /\ RowsOf(d)' = RowsOf(d)
          BY <2>1, <2>3 DEF RowsOf
      <3> QED
          BY <1>2, <2>1, <2>3, <3>1
    <2> QED
        BY <2>2, <2>3
  <1>11. ASSUME UNCHANGED <<home, revs, spaces>> PROVE Claim
      BY <1>3, <1>11
  <1> HIDE DEF Claim
  <1>12. Claim
      BY <1>5, <1>6, <1>7, <1>8, <1>9, <1>10, <1>11, DocsMove
  <1> QED
      BY <1>12 DEF Claim

(* What a request is about does not change while it is handled.            *)
LEMMA RequestsKeep ==
  ASSUME TypeOK, Step, NEW r \in Requests, pc[r] # "idle"
  PROVE  /\ req'[r].op = req[r].op /\ req'[r].doc = req[r].doc /\ req'[r].ws = req[r].ws
         /\ req'[r].from = req[r].from /\ req'[r].keys = req[r].keys
         /\ req'[r].base = req[r].base
  <1> DEFINE Claim == /\ req'[r].op = req[r].op /\ req'[r].doc = req[r].doc
                      /\ req'[r].ws = req[r].ws /\ req'[r].from = req[r].from
                      /\ req'[r].keys = req[r].keys /\ req'[r].base = req[r].base
  <1> USE DEF docVars, reqVars, jobVars
  <1>1. ASSUME req'[r] = req[r] PROVE Claim
      BY <1>1
  <1>2. ASSUME NEW q \in Requests, NEW d \in Docs,
               \/ \E t \in Texts : BeginWrite(q, d, t)
               \/ \E i \in RowsOf(d) : BeginRestore(q, d, i)
               \/ \E w \in Workspaces : BeginTransfer(q, d, w)
        PROVE  req'[r] = req[r]
    <2>1. pc[q] = "idle" /\ \A x \in Requests : x # q => req'[x] = req[x]
        BY <1>2 DEF BeginWrite, BeginRestore, BeginTransfer, Begin, TypeOK
    <2> QED
        BY <2>1
  <1>3. ASSUME NEW q \in Requests, RequestStep(q) PROVE Claim
    <2>1. CASE Create(q) \/ Touch(q)
      <3>1. \/ req' = req
            \/ req' = [req EXCEPT ![q] = [req[q] EXCEPT !.pos = req[q].pos + 1]]
          BY <2>1 DEF Create, Touch, PutNext
      <3>2. req[r] \in Request /\ DOMAIN req = Requests
          BY InFlight DEF TypeOK
      <3>3. CASE r = q /\ req' # req
        <4>1. req'[r] = [req[r] EXCEPT !.pos = req[r].pos + 1]
            BY <3>1, <3>2, <3>3
        <4> QED
            BY <3>2, <4>1 DEF Request
      <3>4. CASE r # q \/ req' = req
        <4>1. req'[r] = req[r]
            BY <3>1, <3>2, <3>4
        <4> QED
            BY <4>1
      <3> QED
          BY <3>3, <3>4
    <2>2. CASE ~(Create(q) \/ Touch(q))
      <3>1. req' = req
          BY <1>3, <2>2 DEF RequestStep, Put, CommitWrite, ReadRestored, CommitRestore,
               CommitTransfer, Fail, End
      <3> QED
          BY <1>1, <3>1
    <2> QED
        BY <2>1, <2>2
  <1>4. \/ SweepStep \/ AbortSweep
        \/ \E k \in Keys : Age(k)
        \/ ReadCollapsed \/ MarkPruned
        \/ \E d \in Docs : \E i \in RowsOf(d), kept \in BOOLEAN : SetKept(d, i, kept)
        \/ \E w \in Workspaces : EraseWorkspace(w)
        \/ ListPrefix \/ EndErase
        \/ \E k \in Keys : RemovePrefixed(k)
        => req' = req
      BY DEF SweepStep, AbortSweep, ListObjects, ReadReferences, EndSweep, JudgeObject,
             RemoveObject, Age, ReadCollapsed, MarkPruned, SetKept, EraseWorkspace,
             ListPrefix, EndErase, RemovePrefixed
  <1> HIDE DEF Claim, docVars, reqVars, jobVars
  <1>5. Claim
      BY <1>1, <1>2, <1>3, <1>4 DEF Step
  <1> QED
      BY <1>5 DEF Claim

(* A request that is under way was begun earlier, or is begun now.         *)
LEMMA RequestsBegin ==
  ASSUME TypeOK, Step, NEW r \in Requests, pc[r] = "idle"
  PROVE  \/ pc'[r] = "idle"
         \/ \E d \in Docs :
               \/ \E t \in Texts : BeginWrite(r, d, t)
               \/ \E i \in RowsOf(d) : BeginRestore(r, d, i)
               \/ \E w \in Workspaces : BeginTransfer(r, d, w)
  <1> USE DEF docVars, reqVars, jobVars
  <1>1. ASSUME NEW q \in Requests, NEW d \in Docs, q # r,
               \/ \E t \in Texts : BeginWrite(q, d, t)
               \/ \E i \in RowsOf(d) : BeginRestore(q, d, i)
               \/ \E w \in Workspaces : BeginTransfer(q, d, w)
        PROVE  pc'[r] = pc[r]
      BY <1>1 DEF BeginWrite, BeginRestore, BeginTransfer, Begin, TypeOK
  <1>2. ASSUME NEW q \in Requests, RequestStep(q) PROVE pc'[r] = pc[r]
    <2>1. q # r
        BY <1>2 DEF RequestStep, Put, Create, Touch, CommitWrite, ReadRestored,
             CommitRestore, CommitTransfer, Fail
    <2> QED
        BY <1>2, <2>1 DEF RequestStep, Put, Create, Touch, PutNext, CommitWrite, ReadRestored,
             CommitRestore, CommitTransfer, Fail, End, TypeOK
  <1>3. \/ SweepStep \/ AbortSweep
        \/ \E k \in Keys : Age(k)
        \/ ReadCollapsed \/ MarkPruned
        \/ \E d \in Docs : \E i \in RowsOf(d), kept \in BOOLEAN : SetKept(d, i, kept)
        \/ \E w \in Workspaces : EraseWorkspace(w)
        \/ ListPrefix \/ EndErase
        \/ \E k \in Keys : RemovePrefixed(k)
        => pc' = pc
      BY DEF SweepStep, AbortSweep, ListObjects, ReadReferences, EndSweep, JudgeObject,
             RemoveObject, Age, ReadCollapsed, MarkPruned, SetKept, EraseWorkspace,
             ListPrefix, EndErase, RemovePrefixed
  <1> HIDE DEF docVars, reqVars, jobVars
  <1> QED
      BY <1>1, <1>2, <1>3 DEF Step

(* A request begins about the home its document has.                       *)
LEMMA BeginsAtHome ==
  ASSUME TypeOK, AtHome, "transfer" \notin Ops, NEW r \in Requests, NEW d \in Docs,
         \/ \E t \in Texts : BeginWrite(r, d, t)
         \/ \E i \in RowsOf(d) : BeginRestore(r, d, i)
         \/ \E w \in Workspaces : BeginTransfer(r, d, w)
  PROVE  /\ req'[r].op # "transfer"
         /\ req'[r].keys[1].ws = req'[r].ws
         /\ \/ req'[r].op = "write" /\ req'[r].from = "none" /\ req'[r].base = 0
            \/ req'[r].base > 0 /\ home[req'[r].doc] = req'[r].ws
         /\ req'[r].doc \in Docs /\ req'[r].ws \in spaces /\ home' = home
  <1>1. /\ Len(revs[d]) \in Nat /\ RowsOf(d) = 1..Len(revs[d])
        /\ \A i \in RowsOf(d) : revs[d][i] \in Revision /\ revs[d][i].key \in Keys
      BY RowKeys
  <1>2. /\ \A i \in RowsOf(d) : revs[d][i].key.ws = home[d]
        /\ home[d] \in Workspaces => revs[d] # << >>
      BY DEF AtHome
  <1>3. "none" \notin Workspaces /\ spaces \subseteq Workspaces
      BY SpacesAssumption DEF TypeOK
  <1>4. home[d] = "none" => Len(revs[d]) = 0
      BY <1>1, <1>2, <1>3, KeySpaces
  <1>5. home[d] \in Workspaces => Len(revs[d]) > 0
    <2>1. revs[d] # << >> => Len(revs[d]) # 0
        BY EmptySeq DEF TypeOK
    <2> QED
        BY <1>1, <1>2, <2>1
  <1>6. ~\E w \in Workspaces : BeginTransfer(r, d, w)
      BY DEF BeginTransfer
  <1>7. CASE \E t \in Texts : BeginWrite(r, d, t)
    <2>1. PICK t \in Texts, w \in spaces :
             /\ home[d] \in {w, "none"}
             /\ req'[r] = [op |-> "write", doc |-> d, ws |-> w, from |-> home[d],
                           keys |-> <<[ws |-> w, text |-> t]>>, pos |-> 1,
                           base |-> Len(revs[d])]
             /\ home' = home
        BY <1>7 DEF BeginWrite, Begin, TypeOK, docVars
    <2> QED
        BY <1>3, <1>4, <1>5, <2>1
  <1>8. CASE \E i \in RowsOf(d) : BeginRestore(r, d, i)
    <2>1. PICK i \in RowsOf(d) :
             /\ home[d] \in spaces
             /\ req'[r] = [op |-> "restore", doc |-> d, ws |-> home[d], from |-> home[d],
                           keys |-> <<revs[d][i].key>>, pos |-> 1, base |-> Len(revs[d])]
             /\ home' = home
        BY <1>8 DEF BeginRestore, Begin, TypeOK, docVars
    <2> QED
        BY <1>2, <1>3, <1>5, <2>1
  <1> QED
      BY <1>6, <1>7, <1>8

(* The deletion of an account removes what is under the prefix of a        *)
(* workspace that is gone.                                                 *)
LEMMA EraseStep ==
  ASSUME TypeOK, Step,
         erase.pc # "idle" => erase.ws \notin spaces /\ \A k \in erase.todo : k.ws = erase.ws
  PROVE  (erase.pc # "idle" => erase.ws \notin spaces /\ \A k \in erase.todo : k.ws = erase.ws)'
  <1> DEFINE Claim == (erase.pc # "idle" => /\ erase.ws \notin spaces
                                            /\ \A k \in erase.todo : k.ws = erase.ws)'
  <1> USE DEF docVars, reqVars, jobVars
  <1>1. spaces' \subseteq spaces
      BY SpacesShrink
  <1>2. ASSUME erase' = erase PROVE Claim
      BY <1>1, <1>2
  <1>3. ASSUME NEW r \in Requests, NEW d \in Docs,
               \/ \E t \in Texts : BeginWrite(r, d, t)
               \/ \E i \in RowsOf(d) : BeginRestore(r, d, i)
               \/ \E w \in Workspaces : BeginTransfer(r, d, w)
        PROVE  erase' = erase
      BY <1>3 DEF BeginWrite, BeginRestore, BeginTransfer, Begin
  <1>4. ASSUME NEW r \in Requests, RequestStep(r) PROVE erase' = erase
      BY <1>4 DEF RequestStep, Put, Create, Touch, PutNext, CommitWrite, ReadRestored,
           CommitRestore, CommitTransfer, Fail, End
  <1>5. \/ SweepStep \/ AbortSweep
        \/ \E k \in Keys : Age(k)
        \/ ReadCollapsed \/ MarkPruned
        \/ \E d \in Docs : \E i \in RowsOf(d), kept \in BOOLEAN : SetKept(d, i, kept)
        => erase' = erase
      BY DEF SweepStep, AbortSweep, ListObjects, ReadReferences, EndSweep, JudgeObject,
             RemoveObject, Age, ReadCollapsed, MarkPruned, SetKept
  <1>6. ASSUME NEW w \in Workspaces, EraseWorkspace(w) PROVE Claim
      BY <1>6 DEF EraseWorkspace
  <1>7. ASSUME ListPrefix PROVE Claim
      BY <1>1, <1>7 DEF ListPrefix, TypeOK
  <1>8. ASSUME EndErase PROVE Claim
      BY <1>8 DEF EndErase
  <1>9. ASSUME NEW k \in Keys, RemovePrefixed(k) PROVE Claim
      BY <1>1, <1>9 DEF RemovePrefixed, TypeOK
  <1> HIDE DEF Claim, docVars, reqVars, jobVars
  <1>10. Claim
      BY <1>2, <1>3, <1>4, <1>5, <1>6, <1>7, <1>8, <1>9 DEF Step
  <1> QED
      BY <1>10 DEF Claim

LEMMA InitPlace == Init => PlaceInv
  <1> SUFFICES ASSUME Init PROVE PlaceInv
      OBVIOUS
  <1>1. AllStay
      BY DEF Init, AllStay
  <1>2. ASSUME NEW d \in Docs
        PROVE  /\ \A i \in RowsOf(d) : revs[d][i].key.ws = home[d]
               /\ home[d] \in Workspaces => home[d] \in spaces /\ revs[d] # << >>
    <2>1. /\ revs[d] = [i \in 1..Len(History[d]) |-> InitialRow(d, i)]
          /\ home[d] = Home[d] /\ spaces = Workspaces
        BY DEF Init
    <2>2. /\ History[d] \in Seq(Texts) /\ Len(History[d]) \in Nat
          /\ Home[d] = "none" <=> History[d] = << >>
        BY HistoryAssumption
    <2>3. RowsOf(d) = 1..Len(History[d]) /\ Len(revs[d]) = Len(History[d])
        BY <2>1, <2>2 DEF RowsOf
    <2>4. \A i \in RowsOf(d) : revs[d][i].key.ws = Home[d]
        BY <2>1, <2>3 DEF InitialRow
    <2>5. Home[d] \in Workspaces => Len(History[d]) # 0
        BY <2>2, EmptySeq, SpacesAssumption
    <2> QED
        BY <2>1, <2>3, <2>4, <2>5
  <1>3. AtHome
      BY <1>2 DEF AtHome, Init
  <1> QED
      BY <1>1, <1>3 DEF PlaceInv

LEMMA PlaceStep ==
  ASSUME TypeOK, RequestInv, PlaceInv, Next
  PROVE  PlaceInv'
  <1>1. Step
      BY DEF Next
  <1>2. ASSUME "erase" \notin Ops PROVE AllStay'
    <2>1. spaces' = spaces /\ erase' = erase
        BY <1>1, <1>2, SpacesShrink, EraseStays DEF PlaceInv
    <2> QED
        BY <1>2, <2>1 DEF PlaceInv, AllStay
  <1>3. ASSUME "transfer" \notin Ops PROVE AtHome'
    <2>1. AtHome
        BY <1>3 DEF PlaceInv
    <2>2. \A d \in Docs :
             /\ \A i \in RowsOf(d)' : revs'[d][i].key.ws = home'[d]
             /\ home'[d] \in Workspaces => home'[d] \in spaces' /\ revs'[d] # << >>
             /\ home[d] # "none" => home'[d] \in {home[d], "erased"}
        BY <1>1, <2>1, HomesStep
    <2>3. ASSUME NEW r \in Requests, pc'[r] # "idle"
          PROVE  /\ req'[r].op # "transfer"
                 /\ req'[r].keys[1].ws = req'[r].ws
                 /\ \/ req'[r].op = "write" /\ req'[r].from = "none" /\ req'[r].base = 0
                    \/ req'[r].base > 0 /\ home'[req'[r].doc] \in {req'[r].ws, "erased"}
      <3>1. CASE pc[r] = "idle"
          BY <1>1, <1>3, <2>1, <2>3, <3>1, RequestsBegin, BeginsAtHome
      <3>2. CASE pc[r] # "idle"
        <4>1. /\ req'[r].op = req[r].op /\ req'[r].doc = req[r].doc /\ req'[r].ws = req[r].ws
              /\ req'[r].from = req[r].from /\ req'[r].keys = req[r].keys
              /\ req'[r].base = req[r].base
            BY <1>1, <3>2, RequestsKeep
        <4>2. req[r].doc \in Docs /\ req[r].ws \in Workspaces
            BY <3>2, InFlight
        <4>3. /\ req[r].op # "transfer"
              /\ req[r].keys[1].ws = req[r].ws
              /\ \/ req[r].op = "write" /\ req[r].from = "none" /\ req[r].base = 0
                 \/ req[r].base > 0 /\ home[req[r].doc] \in {req[r].ws, "erased"}
            BY <2>1, <3>2 DEF AtHome
        <4>4. home[req[r].doc] \in {req[r].ws, "erased"}
              => home'[req[r].doc] \in {req[r].ws, "erased"}
            BY <2>2, <4>2, SpacesAssumption
        <4> QED
            BY <4>1, <4>3, <4>4
      <3> QED
          BY <3>1, <3>2
    <2>4. (erase.pc # "idle" => erase.ws \notin spaces /\ \A k \in erase.todo : k.ws = erase.ws)'
        BY <1>1, <2>1, EraseStep DEF AtHome
    <2> QED
        BY <2>2, <2>3, <2>4 DEF AtHome
  <1> QED
      BY <1>2, <1>3 DEF PlaceInv

(***************************************************************************)
(* Content is lost only as an old orphan.                                  *)
(***************************************************************************)
LEMMA InitStorage == Init => StorageInv
  <1> SUFFICES ASSUME Init PROVE StorageInv
      OBVIOUS
  <1>1. \A d \in Docs : \A i \in RowsOf(d) : blob[revs[d][i].key] # "absent"
    <2> SUFFICES ASSUME NEW d \in Docs, NEW i \in RowsOf(d)
                 PROVE  blob[revs[d][i].key] # "absent"
        OBVIOUS
    <2>1. revs[d] = [j \in 1..Len(History[d]) |-> InitialRow(d, j)]
        BY DEF Init
    <2>2. History[d] \in Seq(Texts) /\ Len(History[d]) \in Nat
        BY HistoryAssumption
    <2>3. i \in 1..Len(History[d])
        BY <2>1, <2>2 DEF RowsOf
    <2>4. revs[d][i].key = [ws |-> Home[d], text |-> History[d][i]]
        BY <2>1, <2>3 DEF InitialRow
    <2>5. Home[d] \in Workspaces /\ History[d][i] \in Texts
        BY <2>2, <2>3, HistoryAssumption, HomeAssumption
    <2>6. revs[d][i].key \in Keys
        BY <2>4, <2>5 DEF Keys
    <2> DEFINE k == [ws |-> Home[d], text |-> History[d][i]]
    <2>7. \E e \in Docs : Home[e] = k.ws /\ \E j \in 1..Len(History[e]) : History[e][j] = k.text
        BY <2>3
    <2>8. blob[k] = IF \E e \in Docs : /\ Home[e] = k.ws
                                      /\ \E j \in 1..Len(History[e]) : History[e][j] = k.text
                    THEN "old" ELSE "absent"
        BY <2>4, <2>6 DEF Init
    <2> QED
        BY <2>4, <2>7, <2>8
  <1>2. \A r \in Requests : pc[r] = "idle" /\ StoredCount(r) = 0
      BY DEF Init, StoredCount
  <1>3. erase.pc = "idle" /\ sweep.doomed = {} /\ sweep.pc = "idle"
      BY DEF Init
  <1> QED
      BY <1>1, <1>2, <1>3 DEF StorageInv, Safe

(* In a workspace that exists only the sweep makes an object disappear,    *)
(* and only one it doomed; none grows old while the sweep judges.          *)
LEMMA BlobStep ==
  ASSUME TypeOK, PlaceInv, ~({"erase", "transfer"} \subseteq Ops), Step, NEW k \in Keys
  PROVE  /\ k.ws \in spaces /\ blob'[k] = "absent" => blob[k] = "absent" \/ k \in sweep.doomed
         /\ blob'[k] = "old" => blob[k] = "old" \/ sweep.pc # "judging"
  <1> DEFINE Claim == /\ k.ws \in spaces /\ blob'[k] = "absent"
                         => blob[k] = "absent" \/ k \in sweep.doomed
                      /\ blob'[k] = "old" => blob[k] = "old" \/ sweep.pc # "judging"
  <1> USE DEF docVars, reqVars, jobVars
  <1>1. ASSUME NEW r \in Requests, NEW d \in Docs,
               \/ \E t \in Texts : BeginWrite(r, d, t)
               \/ \E i \in RowsOf(d) : BeginRestore(r, d, i)
               \/ \E w \in Workspaces : BeginTransfer(r, d, w)
        PROVE  Claim
      BY <1>1 DEF BeginWrite, BeginRestore, BeginTransfer, Begin
  <1>2. ASSUME NEW r \in Requests, RequestStep(r) PROVE Claim
    <2>1. CASE Create(r)
        BY <2>1 DEF Create, PutNext, TypeOK
    <2>2. CASE Touch(r)
        BY <2>2 DEF Touch, PutNext, TypeOK
    <2>3. CASE Put(r) \/ CommitWrite(r) \/ ReadRestored(r) \/ CommitRestore(r)
               \/ CommitTransfer(r) \/ Fail(r)
        BY <2>3 DEF Put, CommitWrite, ReadRestored, CommitRestore, CommitTransfer, Fail, End
    <2> QED
        BY <1>2, <2>1, <2>2, <2>3 DEF RequestStep
  <1>3. CASE SweepStep \/ AbortSweep
    <2>1. CASE \E x \in Keys : RemoveObject(x)
        BY <2>1 DEF RemoveObject, TypeOK
    <2>2. CASE AbortSweep \/ ListObjects \/ ReadReferences \/ EndSweep \/ \E x \in Keys : JudgeObject(x)
        BY <2>2 DEF AbortSweep, ListObjects, ReadReferences, EndSweep, JudgeObject
    <2> QED
        BY <1>3, <2>1, <2>2 DEF SweepStep
  <1>4. CASE \E x \in Keys : Age(x)
      BY <1>4 DEF Age, TypeOK
  <1>5. CASE ReadCollapsed \/ MarkPruned
             \/ \E d \in Docs : \E i \in RowsOf(d), kept \in BOOLEAN : SetKept(d, i, kept)
      BY <1>5 DEF ReadCollapsed, MarkPruned, SetKept
  <1>6. CASE ListPrefix \/ EndErase \/ \E w \in Workspaces : EraseWorkspace(w)
      BY <1>6 DEF ListPrefix, EndErase, EraseWorkspace
  <1>7. ASSUME NEW x \in Keys, RemovePrefixed(x) PROVE Claim
    <2>1. x.ws \notin spaces
        BY <1>7 DEF RemovePrefixed, PlaceInv, AllStay, AtHome
    <2> QED
        BY <1>7, <2>1 DEF RemovePrefixed, TypeOK
  <1> QED
      BY <1>1, <1>2, <1>3, <1>4, <1>5, <1>6, <1>7 DEF Step

LEMMA SafeStays ==
  ASSUME Inv, ~({"erase", "transfer"} \subseteq Ops), Next,
         NEW k \in Keys, k.ws \in spaces, Safe(k)
  PROVE  Safe(k)'
  <1>1. orphaned \subseteq orphaned' /\ Step
      BY DEF Next
  <1>2. blob'[k] = "absent" => blob[k] = "absent" \/ k \in sweep.doomed
      BY <1>1, BlobStep DEF Inv
  <1> QED
      BY <1>1, <1>2 DEF Safe, Inv, StorageInv

(* What a transaction commits had been stored, or read, by its request.    *)
LEMMA RowsStep ==
  ASSUME Inv, ~({"erase", "transfer"} \subseteq Ops), Next, TypeOK', PlaceInv'
  PROVE  (\A d \in Docs : \A i \in RowsOf(d) : Live(d, i) => Safe(revs[d][i].key))'
  <1> SUFFICES ASSUME NEW d \in Docs, NEW i \in RowsOf(d)', Live(d, i)'
               PROVE  Safe(revs[d][i].key)'
      OBVIOUS
  <1> USE DEF Inv
  <1>0. revs'[d][i].key.ws \in spaces
    <2>1. revs'[d][i].key.ws \in spaces'
      <3>1. revs'[d] \in Seq(Revision)
          BY DEF TypeOK
      <3>2. revs'[d][i] \in Revision
          BY <3>1 DEF RowsOf
      <3>3. revs'[d][i].key.ws \in Workspaces
          BY <3>2 DEF Revision, Keys
      <3> QED
          BY <3>3 DEF PlaceInv, AllStay, AtHome
    <2>2. spaces' \subseteq spaces
        BY SpacesShrink DEF Next
    <2> QED
        BY <2>1, <2>2
  <1>1. /\ Len(revs[d]) \in Nat /\ RowsOf(d) = 1..Len(revs[d])
        /\ \A j \in RowsOf(d) : revs[d][j] \in Revision /\ revs[d][j].key \in Keys
      BY RowKeys
  <1>2. ASSUME i \in RowsOf(d), revs'[d][i].key = revs[d][i].key,
               ~revs'[d][i].pruned => ~revs[d][i].pruned
        PROVE  Safe(revs[d][i].key)'
    <2>1. Live(d, i)
        BY <1>2 DEF Live
    <2>2. Safe(revs[d][i].key)
        BY <1>2, <2>1 DEF StorageInv
    <2> QED
        BY <1>0, <1>1, <1>2, <2>2, SafeStays DEF Safe
  <1>3. ASSUME NEW k \in Keys, k.ws \in spaces => Safe(k), revs'[d][i].key = k
        PROVE  Safe(revs[d][i].key)'
      BY <1>0, <1>3, SafeStays DEF Safe
  <1>4. ASSUME revs'[d] = revs[d] PROVE Safe(revs[d][i].key)'
      BY <1>2, <1>4 DEF RowsOf
  <1>5. ASSUME NEW r \in Requests, CommitWrite(r) PROVE Safe(revs[d][i].key)'
    <2>1. /\ pc[r] = "tx" /\ req[r].op = "write" /\ req[r].doc \in Docs
          /\ Len(req[r].keys) = 1 /\ DestKey(r, 1) \in Keys
        BY <1>5, InFlight DEF CommitWrite, RequestInv
    <2>2. PICK g \in JoinableGroups(req[r].doc) : AppendRevision(req[r].doc, DestKey(r, 1), g, FALSE)
        BY <1>5 DEF CommitWrite
    <2>3. g \in Nat
        BY <2>1, <2>2, GroupsAreNat
    <2>4. StoredCount(r) = 1
        BY <2>1 DEF StoredCount
    <2>5. DestKey(r, 1).ws \in spaces => Safe(DestKey(r, 1))
        BY <2>4 DEF StorageInv, DestKey
    <2>6. CASE d # req[r].doc
      <3>1. revs'[d] = revs[d]
          BY <2>1, <2>2, <2>3, <2>6, Appended
      <3> QED
          BY <3>1, <1>2 DEF RowsOf
    <2>7. CASE d = req[r].doc
      <3> DEFINE e == req[r].doc
      <3>0. /\ Len(revs'[e]) = Len(revs[e]) + 1
            /\ \A j \in 1..Len(revs[e]) : revs'[e][j] = revs[e][j]
            /\ revs'[e][Len(revs[e]) + 1] =
                 [key |-> DestKey(r, 1), group |-> g, kept |-> FALSE,
                  system |-> FALSE, pruned |-> FALSE]
          BY <2>1, <2>2, <2>3, Appended
      <3>1. /\ Len(revs'[d]) = Len(revs[d]) + 1
            /\ \A j \in 1..Len(revs[d]) : revs'[d][j] = revs[d][j]
            /\ revs'[d][Len(revs[d]) + 1].key = DestKey(r, 1)
          BY <3>0, <2>7
      <3>2. i \in 1..Len(revs[d]) \/ i = Len(revs[d]) + 1
          BY <1>1, <3>1 DEF RowsOf
      <3> QED
          BY <1>1, <1>2, <1>3, <2>1, <2>5, <3>1, <3>2
    <2> QED
        BY <2>6, <2>7
  <1>6. ASSUME NEW r \in Requests, CommitRestore(r) PROVE Safe(revs[d][i].key)'
    <2>1. /\ pc[r] = "restoring" /\ req[r].doc \in Docs
          /\ req[r].keys[1] \in Keys
      <3>1. pc[r] = "restoring" /\ req[r].op = "restore"
          BY <1>6 DEF CommitRestore, RequestInv
      <3>2. Len(req[r].keys) = 1
          BY <3>1 DEF RequestInv
      <3> QED
          BY <3>1, <3>2, InFlight
    <2>2. AppendRevision(req[r].doc, req[r].keys[1], Len(revs[req[r].doc]) + 1, TRUE)
        BY <1>6 DEF CommitRestore
    <2>3. Len(revs[req[r].doc]) + 1 \in Nat
        BY <2>1 DEF TypeOK
    <2>4. Safe(req[r].keys[1])
        BY <2>1 DEF StorageInv
    <2>5. CASE d # req[r].doc
      <3>1. revs'[d] = revs[d]
          BY <2>1, <2>2, <2>3, <2>5, Appended
      <3> QED
          BY <3>1, <1>2 DEF RowsOf
    <2>6. CASE d = req[r].doc
      <3> DEFINE e == req[r].doc
      <3>0. /\ Len(revs'[e]) = Len(revs[e]) + 1
            /\ \A j \in 1..Len(revs[e]) : revs'[e][j] = revs[e][j]
            /\ revs'[e][Len(revs[e]) + 1] =
                 [key |-> req[r].keys[1], group |-> Len(revs[req[r].doc]) + 1, kept |-> FALSE,
                  system |-> TRUE, pruned |-> FALSE]
          BY <2>1, <2>2, <2>3, Appended
      <3>1. /\ Len(revs'[d]) = Len(revs[d]) + 1
            /\ \A j \in 1..Len(revs[d]) : revs'[d][j] = revs[d][j]
            /\ revs'[d][Len(revs[d]) + 1].key = req[r].keys[1]
          BY <3>0, <2>6
      <3>2. i \in 1..Len(revs[d]) \/ i = Len(revs[d]) + 1
          BY <1>1, <3>1 DEF RowsOf
      <3> QED
          BY <1>1, <1>2, <1>3, <2>1, <2>4, <3>1, <3>2
    <2> QED
        BY <2>5, <2>6
  <1>7. ASSUME NEW r \in Requests, CommitTransfer(r) PROVE Safe(revs[d][i].key)'
    <2>1. pc[r] = "tx" /\ req[r].op = "transfer" /\ req[r].doc \in Docs /\ Len(req[r].keys) \in Nat
        BY <1>7, InFlight DEF CommitTransfer
    <2>2. StoredCount(r) = Len(req[r].keys)
        BY <2>1 DEF StoredCount
    <2>3. CASE d # req[r].doc
      <3>1. revs'[d] = revs[d]
          BY <1>7, <2>3 DEF CommitTransfer, TypeOK
      <3> QED
          BY <3>1, <1>2 DEF RowsOf
    <2>4. CASE d = req[r].doc
      <3>1. revs'[d] = [j \in RowsOf(d) |->
                          IF j <= Len(req[r].keys)
                          THEN [revs[d][j] EXCEPT !.key = DestKey(r, j)]
                          ELSE revs[d][j]]
          BY <1>7, <2>4 DEF CommitTransfer, TypeOK, DestKey
      <3>2. i \in RowsOf(d)
        <4>1. Len(revs'[d]) = Len(revs[d])
            BY <3>1, <1>1
        <4> QED
            BY <4>1 DEF RowsOf
      <3>3. CASE i <= Len(req[r].keys)
        <4>1. DestKey(r, i) \in Keys /\ i \in 1..StoredCount(r)
            BY <1>1, <2>1, <2>2, <3>2, <3>3, InFlight
        <4>2. DestKey(r, i).ws \in spaces => Safe(DestKey(r, i))
            BY <4>1 DEF StorageInv, DestKey
        <4>3. revs'[d][i].key = DestKey(r, i)
            BY <1>1, <3>1, <3>2, <3>3 DEF Revision
        <4> QED
            BY <1>3, <4>1, <4>2, <4>3
      <3>4. CASE ~(i <= Len(req[r].keys))
          BY <1>2, <3>1, <3>2, <3>4
      <3> QED
          BY <3>3, <3>4
    <2> QED
        BY <2>3, <2>4
  <1>8. ASSUME MarkPruned PROVE Safe(revs[d][i].key)'
    <2>1. revs'[d] = [j \in RowsOf(d) |->
                        [revs[d][j] EXCEPT !.pruned = @ \/ <<d, j>> \in prune.ids]]
        BY <1>8 DEF MarkPruned
    <2>2. i \in RowsOf(d)
      <3>1. Len(revs'[d]) = Len(revs[d])
          BY <2>1, <1>1
      <3> QED
          BY <3>1 DEF RowsOf
    <2>3. revs'[d][i].key = revs[d][i].key /\ (~revs'[d][i].pruned => ~revs[d][i].pruned)
        BY <1>1, <2>1, <2>2 DEF Revision
    <2> QED
        BY <1>2, <2>2, <2>3
  <1>9. ASSUME NEW e \in Docs, NEW j \in RowsOf(e), NEW kept \in BOOLEAN, SetKept(e, j, kept)
        PROVE  Safe(revs[d][i].key)'
    <2>1. revs' = [revs EXCEPT ![e] = [revs[e] EXCEPT ![j] = [revs[e][j] EXCEPT !.kept = kept]]]
        BY <1>9, RowKeys DEF SetKept, TypeOK, RowsOf
    <2>2. CASE e # d
        BY <2>1, <2>2, <1>2 DEF TypeOK, RowsOf
    <2>3. CASE e = d
      <3>1. revs'[d] = [revs[d] EXCEPT ![j] = [revs[d][j] EXCEPT !.kept = kept]]
          BY <2>1, <2>3 DEF TypeOK
      <3>2. i \in RowsOf(d)
        <4>1. Len(revs'[d]) = Len(revs[d])
            BY <3>1 DEF TypeOK
        <4> QED
            BY <4>1 DEF RowsOf
      <3>3. revs'[d][i].key = revs[d][i].key /\ revs'[d][i].pruned = revs[d][i].pruned
          BY <1>1, <3>1, <3>2 DEF Revision, TypeOK
      <3> QED
          BY <1>2, <3>2, <3>3
    <2> QED
        BY <2>2, <2>3
  <1>10. ASSUME NEW w \in Workspaces, EraseWorkspace(w) PROVE Safe(revs[d][i].key)'
    <2>1. revs'[d] = << >> \/ revs'[d] = revs[d]
        BY <1>10 DEF EraseWorkspace
    <2>2. revs'[d] # << >>
        BY DEF RowsOf
    <2> QED
        BY <1>4, <2>1, <2>2
  <1>11. Step
      BY DEF Next
  <1> QED
      BY <1>4, <1>5, <1>6, <1>7, <1>8, <1>9, <1>10, <1>11, DocsMove

(* What a request has stored, seen or read stays safe, whatever step is    *)
(* taken; what it stores, sees or reads in this step is there.             *)
LEMMA RequestsStep ==
  ASSUME Inv, ~({"erase", "transfer"} \subseteq Ops), Next, NEW r \in Requests
  PROVE  /\ \A i \in 1..StoredCount(r)' : req'[r].ws \in spaces' => Safe(DestKey(r, i))'
         /\ pc'[r] = "touch" /\ req'[r].ws \in spaces' => Safe(Target(r))'
         /\ pc'[r] = "restoring" => Safe(req[r].keys[1])'
  <1> DEFINE Claim ==
        /\ \A i \in 1..StoredCount(r)' : req'[r].ws \in spaces' => Safe(DestKey(r, i))'
        /\ pc'[r] = "touch" /\ req'[r].ws \in spaces' => Safe(Target(r))'
        /\ pc'[r] = "restoring" => Safe(req[r].keys[1])'
  <1> USE DEF Inv
  <1>0. spaces' \subseteq spaces /\ \A i : DestKey(r, i).ws = req[r].ws
      BY SpacesShrink DEF Next, DestKey
  <1>1. ASSUME NEW k \in Keys, NEW kk, kk = k, k.ws \in spaces, Safe(k)
        PROVE  blob'[kk] = "absent" => kk \in orphaned'
      BY <1>1, SafeStays DEF Safe
  <1>2. \A i \in 1..StoredCount(r) :
           DestKey(r, i) \in Keys /\ (req[r].ws \in spaces => Safe(DestKey(r, i)))
    <2> SUFFICES ASSUME NEW i \in 1..StoredCount(r)
                 PROVE  DestKey(r, i) \in Keys /\ (req[r].ws \in spaces => Safe(DestKey(r, i)))
        OBVIOUS
    <2>1. pc[r] # "idle"
        BY DEF StoredCount
    <2>2. i \in 1..Len(req[r].keys)
        BY <2>1, InFlight DEF StoredCount
    <2> QED
        BY <2>1, <2>2, InFlight DEF StorageInv
  <1>3. ASSUME pc'[r] = pc[r], req'[r] = req[r]
        PROVE  Claim
    <2>1. StoredCount(r)' = StoredCount(r) /\ \A i : DestKey(r, i)' = DestKey(r, i)
        BY <1>3 DEF StoredCount, DestKey
    <2>2. \A i \in 1..StoredCount(r)' : req'[r].ws \in spaces' => Safe(DestKey(r, i))'
        BY <1>0, <1>1, <1>2, <1>3, <2>1 DEF Safe
    <2>3. ASSUME pc'[r] = "touch", req'[r].ws \in spaces' PROVE Safe(Target(r))'
      <3>1. /\ Safe(Target(r)) /\ Target(r) \in Keys /\ Target(r)' = Target(r)
            /\ Target(r).ws \in spaces
          BY <1>0, <1>3, <2>3, InFlight DEF StorageInv, Target, DestKey
      <3> QED
          BY <1>1, <3>1 DEF Safe
    <2>4. ASSUME pc'[r] = "restoring" PROVE Safe(req[r].keys[1])'
      <3>1. pc[r] = "restoring" /\ Len(req[r].keys) = 1
          BY <1>3, <2>4 DEF RequestInv
      <3>2. Safe(req[r].keys[1]) /\ req[r].keys[1] \in Keys
          BY <3>1, InFlight DEF StorageInv
      <3>3. req[r].keys[1].ws \in spaces
        <4>1. home[req[r].doc] \in spaces /\ spaces \subseteq Workspaces
            BY <3>1 DEF RequestInv, TypeOK
        <4>2. req[r].keys[1].ws \in Workspaces /\ pc[r] # "idle" /\ req[r].op = "restore"
            BY <3>1, <3>2, KeySpaces DEF RequestInv
        <4> QED
            BY <4>1, <4>2, SpacesAssumption DEF PlaceInv, AllStay, AtHome
      <3> QED
          BY <1>1, <1>3, <3>2, <3>3 DEF Safe
    <2> QED
        BY <2>2, <2>3, <2>4
  <1>4. ASSUME pc'[r] \in {"idle", "done"} PROVE Claim
      BY <1>4 DEF StoredCount
  <1> USE DEF docVars, reqVars, jobVars
  <1>5. ASSUME NEW q \in Requests, NEW d \in Docs,
               \/ \E t \in Texts : BeginWrite(q, d, t)
               \/ \E i \in RowsOf(d) : BeginRestore(q, d, i)
               \/ \E w \in Workspaces : BeginTransfer(q, d, w)
        PROVE  Claim
    <2>1. CASE q # r
      <3>1. pc'[r] = pc[r] /\ req'[r] = req[r]
          BY <1>5, <2>1 DEF BeginWrite, BeginRestore, BeginTransfer, Begin, TypeOK
      <3> QED
          BY <1>3, <3>1
    <2>2. CASE q = r
      <3>1. \/ pc'[r] = "put" /\ req'[r].pos = 1 /\ req'[r].op # "restore"
            \/ pc'[r] = "tx" /\ req'[r].op = "restore"
        <4>1. CASE \E t \in Texts : BeginWrite(q, d, t)
            BY <4>1, <2>2 DEF BeginWrite, Begin, TypeOK
        <4>2. CASE \E i \in RowsOf(d) : BeginRestore(q, d, i)
            BY <4>2, <2>2 DEF BeginRestore, Begin, TypeOK
        <4>3. CASE \E w \in Workspaces : BeginTransfer(q, d, w)
            BY <4>3, <2>2 DEF BeginTransfer, Begin, TypeOK
        <4> QED
            BY <1>5, <4>1, <4>2, <4>3
      <3>2. StoredCount(r)' = 0
          BY <3>1 DEF StoredCount
      <3> QED
          BY <3>1, <3>2
    <2> QED
        BY <2>1, <2>2
  <1>6. ASSUME NEW q \in Requests, RequestStep(q), q # r PROVE Claim
    <2>1. pc'[r] = pc[r] /\ req'[r] = req[r]
        BY <1>6 DEF RequestStep, Put, Create, Touch, PutNext, CommitWrite, ReadRestored,
             CommitRestore, CommitTransfer, Fail, End, TypeOK
    <2> QED
        BY <1>3, <2>1
  <1>7. CASE Put(r)
    <2>1. /\ pc[r] = "put" /\ pc'[r] \in {"touch", "create"} /\ req' = req /\ blob' = blob
          /\ pc'[r] = "touch" => blob[Target(r)] # "absent"
        BY <1>7 DEF Put, TypeOK
    <2>2. StoredCount(r)' = StoredCount(r) /\ \A i : DestKey(r, i)' = DestKey(r, i)
        BY <2>1 DEF StoredCount, DestKey, RequestInv
    <2>3. \A i \in 1..StoredCount(r)' : req'[r].ws \in spaces' => Safe(DestKey(r, i))'
        BY <1>0, <1>1, <1>2, <2>1, <2>2 DEF Safe
    <2> QED
        BY <2>1, <2>3 DEF Safe, Target, DestKey
  <1>8. CASE Create(r) \/ Touch(r)
    <2>1. /\ pc[r] \in {"create", "touch"} /\ req[r].op # "restore"
          /\ pc'[r] \in {"tx", "put"} /\ PutNext(r)
        BY <1>8 DEF Create, Touch, PutNext, RequestInv, TypeOK
    <2>2. /\ req[r].pos \in 1..Len(req[r].keys) /\ Len(req[r].keys) \in Nat
          /\ Target(r) \in Keys
        BY <2>1, InFlight
    <2>3. StoredCount(r) = req[r].pos - 1
        BY <2>1 DEF StoredCount
    <2>4. /\ StoredCount(r)' = req[r].pos
          /\ \A i : DestKey(r, i)' = DestKey(r, i)
      <3>1. CASE req[r].pos = Len(req[r].keys)
          BY <2>1, <2>2, <3>1 DEF PutNext, StoredCount, DestKey, TypeOK
      <3>2. CASE req[r].pos # Len(req[r].keys)
        <4>1. pc'[r] = "put" /\ req'[r] = [req[r] EXCEPT !.pos = @ + 1]
            BY <2>1, <3>2 DEF PutNext, TypeOK
        <4>2. req[r] \in Request /\ req[r].pos \in Nat
            BY <2>1, <2>2, InFlight
        <4>3. /\ req'[r].pos = req[r].pos + 1 /\ req'[r].op = req[r].op
              /\ req'[r].ws = req[r].ws /\ req'[r].keys = req[r].keys
            BY <4>1, <4>2 DEF Request
        <4> QED
            BY <2>1, <4>1, <4>2, <4>3 DEF StoredCount, DestKey
      <3> QED
          BY <3>1, <3>2
    <2>0. req'[r].ws = req[r].ws
        BY <2>1, RequestsKeep DEF Next
    <2>5. req[r].ws \in spaces => (blob'[Target(r)] = "absent" => Target(r) \in orphaned')
      <3>1. CASE Create(r)
          BY <2>2, <3>1 DEF Create, TypeOK
      <3>2. CASE Touch(r)
        <4>1. req[r].ws \in spaces => Safe(Target(r)) /\ Target(r).ws \in spaces
            BY <1>0, <3>2 DEF Touch, StorageInv, Target
        <4> QED
            BY <1>1, <2>2, <4>1
      <3> QED
          BY <1>8, <3>1, <3>2
    <2>6. \A i \in 1..StoredCount(r)' : req'[r].ws \in spaces' => Safe(DestKey(r, i))'
      <3> SUFFICES ASSUME NEW i \in 1..req[r].pos, req[r].ws \in spaces
                   PROVE  blob'[DestKey(r, i)] = "absent" => DestKey(r, i) \in orphaned'
          BY <1>0, <2>0, <2>4 DEF Safe
      <3>1. CASE i = req[r].pos
          BY <2>5, <3>1 DEF Target
      <3>2. CASE i # req[r].pos
          BY <1>0, <1>1, <1>2, <2>2, <2>3, <3>2
      <3> QED
          BY <3>1, <3>2
    <2> QED
        BY <2>1, <2>6
  <1>9. CASE CommitWrite(r) \/ CommitRestore(r) \/ CommitTransfer(r) \/ Fail(r)
    <2>1. pc'[r] = "done"
        BY <1>9 DEF CommitWrite, CommitRestore, CommitTransfer, Fail, End, TypeOK
    <2> QED
        BY <1>4, <2>1
  <1>10. CASE ReadRestored(r)
    <2>1. /\ pc'[r] = "restoring" /\ req' = req /\ blob' = blob
          /\ req[r].op = "restore" /\ blob[req[r].keys[1]] # "absent"
        BY <1>10 DEF ReadRestored, TypeOK
    <2>2. StoredCount(r)' = 0
        BY <2>1 DEF StoredCount
    <2> QED
        BY <2>1, <2>2 DEF Safe
  <1>11. ASSUME UNCHANGED <<pc, req>> PROVE Claim
      BY <1>3, <1>11
  <1>12. \/ SweepStep \/ AbortSweep
         \/ \E k \in Keys : Age(k)
         \/ ReadCollapsed \/ MarkPruned
         \/ \E d \in Docs : \E i \in RowsOf(d), kept \in BOOLEAN : SetKept(d, i, kept)
         \/ \E w \in Workspaces : EraseWorkspace(w)
         \/ ListPrefix \/ EndErase
         \/ \E k \in Keys : RemovePrefixed(k)
         => UNCHANGED <<pc, req>>
      BY DEF SweepStep, AbortSweep, ListObjects, ReadReferences, EndSweep, JudgeObject,
             RemoveObject, Age, ReadCollapsed, MarkPruned, SetKept, EraseWorkspace,
             ListPrefix, EndErase, RemovePrefixed
  <1>13. ASSUME NEW q \in Requests, RequestStep(q) PROVE Claim
    <2>1. CASE q # r
        BY <1>6, <1>13, <2>1
    <2>2. CASE q = r
        BY <1>7, <1>8, <1>9, <1>10, <1>13, <2>2 DEF RequestStep
    <2> QED
        BY <2>1, <2>2
  <1>14. Step
      BY DEF Next
  <1> HIDE DEF Claim
  <1>15. Claim
      BY <1>5, <1>11, <1>12, <1>13, <1>14 DEF Step
  <1> QED
      BY <1>15 DEF Claim

(* The sweep dooms only what was old and unreferenced when it read the     *)
(* references: while it judges, nothing else becomes old.                  *)
LEMMA SweepJudges ==
  ASSUME Inv, ~({"erase", "transfer"} \subseteq Ops), Next
  PROVE  /\ sweep'.doomed \subseteq orphaned'
         /\ sweep'.pc = "judging" =>
               \A k \in sweep'.todo : blob'[k] = "old" => k \in orphaned'
  <1> DEFINE Claim == /\ sweep'.doomed \subseteq orphaned'
                      /\ sweep'.pc = "judging" =>
                            \A k \in sweep'.todo : blob'[k] = "old" => k \in orphaned'
  <1> USE DEF Inv
  <1>1. /\ orphaned \subseteq orphaned' /\ OldOrphans' \subseteq orphaned'
        /\ Step /\ sweep.doomed \subseteq orphaned
        /\ sweep.todo \subseteq Keys
      BY DEF Next, StorageInv, TypeOK
  <1>2. ASSUME NEW k \in Keys, k \in sweep.todo, sweep.pc = "judging", blob'[k] = "old"
        PROVE  k \in orphaned'
      BY <1>1, <1>2, BlobStep DEF StorageInv
  <1>3. ASSUME UNCHANGED sweep PROVE Claim
      BY <1>1, <1>2, <1>3
  <1> USE DEF docVars, reqVars, jobVars
  <1>4. CASE ListObjects \/ AbortSweep
      BY <1>4 DEF ListObjects, AbortSweep
  <1>5. CASE EndSweep
      BY <1>5 DEF EndSweep, TypeOK
  <1>6. CASE ReadReferences
    <2>1. /\ sweep'.doomed = sweep.doomed /\ sweep'.todo = sweep.todo \ Referenced
          /\ revs' = revs
        BY <1>6 DEF ReadReferences, TypeOK
    <2>2. Referenced' = Referenced
        BY <2>1 DEF Referenced, RowsOf, Live
    <2>3. \A k \in sweep'.todo : blob'[k] = "old" => k \in OldOrphans'
        BY <1>1, <2>1, <2>2 DEF OldOrphans
    <2> QED
        BY <1>1, <2>1, <2>3
  <1>7. ASSUME NEW k \in Keys, JudgeObject(k) PROVE Claim
    <2>1. /\ sweep.pc = "judging" /\ k \in sweep.todo /\ blob' = blob
          /\ sweep'.todo = sweep.todo \ {k}
          /\ sweep'.doomed = IF blob[k] = "old" THEN {k} ELSE {}
        BY <1>7 DEF JudgeObject, TypeOK
    <2> QED
        BY <1>1, <1>2, <2>1
  <1>8. ASSUME NEW k \in Keys, RemoveObject(k) PROVE Claim
    <2>1. sweep.pc = "judging" /\ sweep'.todo = sweep.todo /\ sweep'.doomed = {}
        BY <1>8 DEF RemoveObject, TypeOK
    <2> QED
        BY <1>1, <1>2, <2>1
  <1>9. ASSUME NEW r \in Requests, NEW d \in Docs,
               \/ \E t \in Texts : BeginWrite(r, d, t)
               \/ \E i \in RowsOf(d) : BeginRestore(r, d, i)
               \/ \E w \in Workspaces : BeginTransfer(r, d, w)
        PROVE  UNCHANGED sweep
      BY <1>9 DEF BeginWrite, BeginRestore, BeginTransfer, Begin
  <1>10. ASSUME NEW r \in Requests, RequestStep(r) PROVE UNCHANGED sweep
      BY <1>10 DEF RequestStep, Put, Create, Touch, PutNext, CommitWrite, ReadRestored,
           CommitRestore, CommitTransfer, Fail, End
  <1>11. \/ \E k \in Keys : Age(k)
         \/ ReadCollapsed \/ MarkPruned
         \/ \E d \in Docs : \E i \in RowsOf(d), kept \in BOOLEAN : SetKept(d, i, kept)
         \/ \E w \in Workspaces : EraseWorkspace(w)
         \/ ListPrefix \/ EndErase
         \/ \E k \in Keys : RemovePrefixed(k)
         => UNCHANGED sweep
      BY DEF Age, ReadCollapsed, MarkPruned, SetKept, EraseWorkspace, ListPrefix,
             EndErase, RemovePrefixed
  <1>12. SweepStep => \/ ListObjects \/ ReadReferences \/ EndSweep
                      \/ \E k \in Keys : JudgeObject(k) \/ RemoveObject(k)
      BY DEF SweepStep
  <1> HIDE DEF Inv, docVars, reqVars, jobVars
  <1>13. CASE SweepStep \/ AbortSweep
      BY <1>4, <1>5, <1>6, <1>7, <1>8, <1>12, <1>13
  <1>14. CASE ~(SweepStep \/ AbortSweep)
    <2>1. UNCHANGED sweep
        BY <1>1, <1>9, <1>10, <1>11, <1>14 DEF Step
    <2> QED
        BY <1>3, <2>1
  <1> QED
      BY <1>13, <1>14

LEMMA StorageStep ==
  ASSUME Inv, ~({"erase", "transfer"} \subseteq Ops), [Next]_vars
  PROVE  Inv'
  <1>1. CASE Next
    <2>1. TypeOK' /\ RequestInv'
        BY <1>1, NextType DEF Inv
    <2>2. PlaceInv'
        BY <1>1, PlaceStep DEF Inv
    <2>3. (\A d \in Docs : \A i \in RowsOf(d) : Live(d, i) => Safe(revs[d][i].key))'
        BY <1>1, <2>1, <2>2, RowsStep
    <2>4. /\ \A r \in Requests : \A i \in 1..StoredCount(r)' :
                req'[r].ws \in spaces' => Safe(DestKey(r, i))'
          /\ \A r \in Requests : pc'[r] = "touch" /\ req'[r].ws \in spaces' => Safe(Target(r))'
          /\ \A r \in Requests : pc'[r] = "restoring" => Safe(req[r].keys[1])'
        BY <1>1, RequestsStep
    <2>5. /\ sweep'.doomed \subseteq orphaned'
          /\ sweep'.pc = "judging" =>
                \A k \in sweep'.todo : blob'[k] = "old" => k \in orphaned'
        BY <1>1, SweepJudges
    <2>6. StorageInv'
        BY <2>3, <2>4, <2>5 DEF StorageInv
    <2> QED
        BY <2>1, <2>2, <2>6 DEF Inv
  <1>2. CASE UNCHANGED vars
    <2>1. TypeOK' /\ RequestInv'
        BY <1>2, StutterType DEF Inv
    <2>2. PlaceInv'
        BY <1>2 DEF Inv, PlaceInv, AllStay, AtHome, vars, docVars, reqVars, jobVars, RowsOf
    <2>3. StorageInv'
        BY <1>2 DEF Inv, StorageInv, vars, docVars, reqVars, jobVars, Safe, StoredCount,
             DestKey, Target, Live, RowsOf
    <2> QED
        BY <2>1, <2>2, <2>3 DEF Inv
  <1> QED
      BY <1>1, <1>2

(* Unless accounts are deleted and documents transferred, a revision that  *)
(* was not pruned loses its content only if its key had once been an old   *)
(* object nobody referenced.                                               *)
THEOREM ContentSurvives ==
  ASSUME ~({"erase", "transfer"} \subseteq Ops)
  PROVE  Spec => []FreshContentSurvives
  <1>1. Init => Inv
      BY InitType, InitPlace, InitStorage DEF Inv
  <1>2. Inv /\ [Next]_vars => Inv'
      BY StorageStep
  <1>3. Inv => FreshContentSurvives
      BY DEF Inv, StorageInv, FreshContentSurvives, Safe
  <1> QED
      BY <1>1, <1>2, <1>3, PTL DEF Spec
(***************************************************************************)
(* Pruning keeps the newest revision of every burst.                       *)
(***************************************************************************)

(* Every step but MarkPruned leaves a document's rows as they are, adds to *)
(* them, or erases the document.                                           *)
LEMMA RowsGrow ==
  ASSUME TypeOK, RequestInv, PruneInv, Step, ~MarkPruned, NEW d \in Docs
  PROVE  \/ home'[d] = "erased" /\ revs'[d] = << >>
         \/ /\ home[d] # "erased" /\ home'[d] # "erased"
            /\ \A i \in RowsOf(d) : /\ i \in RowsOf(d)'
                                    /\ revs'[d][i].group = revs[d][i].group
                                    /\ revs'[d][i].pruned = revs[d][i].pruned
            /\ \A i \in RowsOf(d)' : i \notin RowsOf(d) => ~revs'[d][i].pruned
  <1> DEFINE Claim == \/ home'[d] = "erased" /\ revs'[d] = << >>
                      \/ /\ home[d] # "erased" /\ home'[d] # "erased"
                         /\ \A i \in RowsOf(d) : /\ i \in RowsOf(d)'
                                                 /\ revs'[d][i].group = revs[d][i].group
                                                 /\ revs'[d][i].pruned = revs[d][i].pruned
                         /\ \A i \in RowsOf(d)' : i \notin RowsOf(d) => ~revs'[d][i].pruned
  <1> USE DEF docVars, reqVars, jobVars
  <1>1. /\ Len(revs[d]) \in Nat /\ RowsOf(d) = 1..Len(revs[d])
        /\ \A j \in RowsOf(d) : revs[d][j] \in Revision
      BY RowKeys
  <1>2. ASSUME home'[d] = home[d], revs'[d] = revs[d] PROVE Claim
      BY <1>2 DEF RowsOf, PruneInv
  <1>3. ASSUME NEW r \in Requests, NEW k \in Keys, NEW g \in Nat, NEW system \in BOOLEAN,
               req[r].doc \in Docs, AppendRevision(req[r].doc, k, g, system),
               home[req[r].doc] # "erased", home'[req[r].doc] # "erased",
               \A e \in Docs \ {req[r].doc} : home'[e] = home[e]
        PROVE  Claim
    <2> DEFINE e == req[r].doc
    <2>1. /\ \A x \in Docs : x # e => revs'[x] = revs[x]
          /\ Len(revs'[e]) = Len(revs[e]) + 1
          /\ \A i \in 1..Len(revs[e]) : revs'[e][i] = revs[e][i]
          /\ revs'[e][Len(revs[e]) + 1] =
                [key |-> k, group |-> g, kept |-> FALSE, system |-> system, pruned |-> FALSE]
      <3> HIDE DEF Claim
      <3>1. e \in Docs /\ AppendRevision(e, k, g, system)
          BY <1>3
      <3> HIDE DEF e
      <3> QED
          BY <3>1, Appended
    <2>2. CASE d # e
        BY <1>2, <1>3, <2>1, <2>2
    <2>3. CASE d = e
      <3>1. \A i \in RowsOf(d) : i \in RowsOf(d)' /\ revs'[d][i] = revs[d][i]
          BY <1>1, <2>1, <2>3 DEF RowsOf
      <3>2. \A i \in RowsOf(d)' : i \notin RowsOf(d) => i = Len(revs[d]) + 1
          BY <1>1, <2>1, <2>3 DEF RowsOf
      <3>3. ~revs'[d][Len(revs[d]) + 1].pruned
          BY <2>1, <2>3
      <3> QED
          BY <1>3, <2>3, <3>1, <3>2, <3>3
    <2> QED
        BY <2>2, <2>3
  <1>4. ASSUME NEW r \in Requests, CommitWrite(r) PROVE Claim
    <2>1. /\ pc[r] = "tx" /\ req[r].op = "write" /\ req[r].doc \in Docs
          /\ DestKey(r, 1) \in Keys /\ req[r].ws \in Workspaces
        BY <1>4, InFlight DEF CommitWrite, RequestInv
    <2>2. PICK g \in JoinableGroups(req[r].doc) : AppendRevision(req[r].doc, DestKey(r, 1), g, FALSE)
        BY <1>4 DEF CommitWrite
    <2>3. g \in Nat
        BY <2>1, <2>2, GroupsAreNat
    <2>4. home[req[r].doc] \in Workspaces \cup {"none"}
        BY <1>4 DEF CommitWrite, TypeOK
    <2>5. home' = [home EXCEPT ![req[r].doc] = IF @ = "none" THEN req[r].ws ELSE @]
        BY <1>4 DEF CommitWrite
    <2>6. /\ home'[req[r].doc] \in Workspaces
          /\ \A e \in Docs \ {req[r].doc} : home'[e] = home[e]
        BY <2>1, <2>4, <2>5 DEF TypeOK
    <2>7. "erased" \notin Workspaces
        BY SpacesAssumption
    <2> QED
        BY <1>3, <2>1, <2>2, <2>3, <2>4, <2>6, <2>7
  <1>5. ASSUME NEW r \in Requests, CommitRestore(r) PROVE Claim
    <2>1. /\ pc[r] = "restoring" /\ req[r].op = "restore" /\ home[req[r].doc] \in spaces
        BY <1>5 DEF CommitRestore, RequestInv
    <2>2. req[r].doc \in Docs /\ Len(req[r].keys) = 1 /\ req[r].keys[1] \in Keys
        BY <2>1, InFlight DEF RequestInv
    <2>3. Len(revs[req[r].doc]) + 1 \in Nat
        BY <2>2 DEF TypeOK
    <2>4. AppendRevision(req[r].doc, req[r].keys[1], Len(revs[req[r].doc]) + 1, TRUE) /\ home' = home
        BY <1>5 DEF CommitRestore
    <2>5. home[req[r].doc] # "erased"
        BY <2>1, SpacesAssumption DEF TypeOK
    <2> QED
        BY <1>3, <2>2, <2>3, <2>4, <2>5
  <1>6. ASSUME NEW r \in Requests, CommitTransfer(r) PROVE Claim
    <2>1. /\ pc[r] = "tx" /\ req[r].doc \in Docs /\ req[r].ws \in Workspaces
          /\ req[r].from \in Workspaces \cup {"none"}
        BY <1>6, InFlight DEF CommitTransfer, Request
    <2>2. CASE d # req[r].doc
        BY <1>2, <1>6, <2>2 DEF CommitTransfer, TypeOK
    <2>3. CASE d = req[r].doc
      <3>1. revs'[d] = [j \in RowsOf(d) |->
                          IF j <= Len(req[r].keys)
                          THEN [revs[d][j] EXCEPT !.key = DestKey(r, j)]
                          ELSE revs[d][j]]
          BY <1>6, <2>3 DEF CommitTransfer, TypeOK, DestKey
      <3>2. RowsOf(d)' = RowsOf(d)
        <4>1. Len(revs'[d]) = Len(revs[d])
            BY <3>1, <1>1
        <4> QED
            BY <4>1 DEF RowsOf
      <3>3. \A i \in RowsOf(d) : /\ revs'[d][i].group = revs[d][i].group
                                 /\ revs'[d][i].pruned = revs[d][i].pruned
          BY <1>1, <3>1 DEF Revision
      <3>4. home[d] # "erased" /\ home'[d] # "erased"
          BY <1>6, <2>1, <2>3, SpacesAssumption DEF CommitTransfer, TypeOK
      <3> QED
          BY <3>2, <3>3, <3>4
    <2> QED
        BY <2>2, <2>3
  <1>7. ASSUME NEW e \in Docs, NEW j \in RowsOf(e), NEW kept \in BOOLEAN, SetKept(e, j, kept)
        PROVE  Claim
    <2>1. revs' = [revs EXCEPT ![e] = [revs[e] EXCEPT ![j] = [revs[e][j] EXCEPT !.kept = kept]]]
          /\ home' = home
        BY <1>7, RowKeys DEF SetKept, TypeOK, RowsOf
    <2>2. CASE e # d
        BY <2>1, <2>2, <1>2 DEF TypeOK
    <2>3. CASE e = d
      <3>1. revs'[d] = [revs[d] EXCEPT ![j] = [revs[d][j] EXCEPT !.kept = kept]]
          BY <2>1, <2>3 DEF TypeOK
      <3>2. RowsOf(d)' = RowsOf(d)
        <4>1. Len(revs'[d]) = Len(revs[d])
            BY <3>1 DEF TypeOK
        <4> QED
            BY <4>1 DEF RowsOf
      <3>3. \A i \in RowsOf(d) : /\ revs'[d][i].group = revs[d][i].group
                                 /\ revs'[d][i].pruned = revs[d][i].pruned
          BY <1>1, <3>1 DEF Revision, TypeOK
      <3>4. home[d] \in spaces
          BY <1>7, <2>3 DEF SetKept
      <3>5. home[d] # "erased" /\ home'[d] = home[d]
          BY <2>1, <3>4, SpacesAssumption DEF TypeOK
      <3> QED
          BY <3>2, <3>3, <3>5
    <2> QED
        BY <2>2, <2>3
  <1>8. ASSUME NEW w \in Workspaces, EraseWorkspace(w) PROVE Claim
    <2>1. home[d] # w => home'[d] = home[d] /\ revs'[d] = revs[d]
        BY <1>8 DEF EraseWorkspace
    <2>2. home[d] = w => home'[d] = "erased" /\ revs'[d] = << >>
        BY <1>8 DEF EraseWorkspace
    <2> QED
        BY <1>2, <2>1, <2>2
  <1>9. ASSUME NEW r \in Requests, NEW e \in Docs,
               \/ \E t \in Texts : BeginWrite(r, e, t)
               \/ \E j \in RowsOf(e) : BeginRestore(r, e, j)
               \/ \E w \in Workspaces : BeginTransfer(r, e, w)
        PROVE  UNCHANGED <<revs, home>>
      BY <1>9 DEF BeginWrite, BeginRestore, BeginTransfer, Begin
  <1>10. ASSUME NEW r \in Requests, RequestStep(r)
         PROVE  \/ CommitWrite(r) \/ CommitRestore(r) \/ CommitTransfer(r)
                \/ UNCHANGED <<revs, home>>
      BY <1>10 DEF RequestStep, Put, Create, Touch, PutNext, ReadRestored, Fail
  <1>11. SweepStep \/ AbortSweep \/ (\E k \in Keys : Age(k)) \/ ReadCollapsed
         \/ ListPrefix \/ EndErase \/ (\E k \in Keys : RemovePrefixed(k))
         => UNCHANGED <<revs, home>>
      BY DEF SweepStep, AbortSweep, ListObjects, ReadReferences, EndSweep, JudgeObject,
             RemoveObject, Age, ReadCollapsed, ListPrefix, EndErase, RemovePrefixed
  <1>12. UNCHANGED <<revs, home>> => Claim
      BY <1>2
  <1> QED
      BY <1>4, <1>5, <1>6, <1>7, <1>8, <1>9, <1>10, <1>11, <1>12 DEF Step

(* What is read to be pruned leaves the newest of its burst out.           *)
LEMMA ReadCollapsedStep ==
  ASSUME TypeOK, PruneInv, ReadCollapsed
  PROVE  PruneInv'
  <1>1. PICK cutoff \in [Docs -> 0..MaxRevs] :
          prune' = [pc |-> "update",
                    ids |-> {x \in Docs \X (1..MaxRevs) : x[2] \in Collapsed(x[1], cutoff[x[1]])}]
      BY DEF ReadCollapsed
  <1>2. revs' = revs /\ home' = home
      BY DEF ReadCollapsed, docVars
  <1>3. ASSUME NEW d \in Docs, NEW i \in 1..MaxRevs, i \in Collapsed(d, cutoff[d])
        PROVE  /\ i \in RowsOf(d)
               /\ \E j \in RowsOf(d) : /\ j > i /\ Live(d, j)
                                        /\ revs[d][j].group = revs[d][i].group
                                        /\ <<d, j>> \notin prune'.ids
    <2> DEFINE n == cutoff[d]
    <2>1. n \in Nat
        BY BoundsAssumption
    <2>2. /\ Live(d, i)
          /\ \E j \in (i + 1)..n : Newest(d, j, n) /\ revs[d][j].group = revs[d][i].group
        BY <1>3 DEF Collapsed
    <2>3. PICK j \in (i + 1)..n : Newest(d, j, n) /\ revs[d][j].group = revs[d][i].group
        BY <2>2
    <2>4. Live(d, j) /\ j > i /\ j \in RowsOf(d) /\ i \in RowsOf(d)
        BY <2>1, <2>2, <2>3, BoundsAssumption DEF Newest, Live
    <2>5. j \notin Collapsed(d, n)
      <3> SUFFICES ASSUME j \in Collapsed(d, n) PROVE FALSE
          OBVIOUS
      <3>1. PICK l \in (j + 1)..n : Newest(d, l, n) /\ revs[d][l].group = revs[d][j].group
          BY DEF Collapsed
      <3>2. Live(d, l)
          BY <3>1 DEF Newest
      <3> QED
          BY <2>3, <3>1, <3>2 DEF Newest
    <2>6. <<d, j>> \notin prune'.ids
        BY <1>1, <2>5
    <2> QED
        BY <2>3, <2>4, <2>6
  <1>4. \A x \in prune'.ids : /\ x[1] \in Docs /\ x[2] \in 1..MaxRevs
                              /\ x[2] \in Collapsed(x[1], cutoff[x[1]])
      BY <1>1
  <1>5. \A x \in prune'.ids : home[x[1]] # "erased" =>
          /\ x[2] \in RowsOf(x[1])
          /\ \E j \in RowsOf(x[1]) :
                /\ j > x[2] /\ Live(x[1], j)
                /\ revs[x[1]][j].group = revs[x[1]][x[2]].group
                /\ <<x[1], j>> \notin prune'.ids
      BY <1>3, <1>4
  <1> QED
      BY <1>2, <1>5 DEF PruneInv, RowsOf, Live

LEMMA PruneStep ==
  ASSUME TypeOK, RequestInv, PruneInv, BurstKeepsNewest, Next
  PROVE  PruneInv' /\ BurstKeepsNewest'
  <1>0. Step
      BY DEF Next
  <1>1. CASE MarkPruned
    <2>0. TypeOK'
        BY NextType
    <2>1. /\ home' = home /\ prune'.ids = {}
          /\ \A d \in Docs :
                revs'[d] = [i \in RowsOf(d) |->
                              [revs[d][i] EXCEPT !.pruned = @ \/ <<d, i>> \in prune.ids]]
        BY <1>1 DEF MarkPruned
    <2>2. ASSUME NEW d \in Docs
          PROVE  /\ RowsOf(d)' = RowsOf(d)
                 /\ \A i \in RowsOf(d) :
                       /\ revs'[d][i].group = revs[d][i].group
                       /\ revs'[d][i].pruned = (revs[d][i].pruned \/ <<d, i>> \in prune.ids)
      <3>1. /\ Len(revs[d]) \in Nat /\ RowsOf(d) = 1..Len(revs[d])
            /\ \A j \in RowsOf(d) : revs[d][j] \in Revision
          BY RowKeys
      <3>2. Len(revs'[d]) = Len(revs[d])
        <4>1. revs'[d] = [i \in 1..Len(revs[d]) |->
                            [revs[d][i] EXCEPT !.pruned = @ \/ <<d, i>> \in prune.ids]]
            BY <2>1, <3>1
        <4>2. DOMAIN revs'[d] = 1..Len(revs[d])
            BY <4>1
        <4>3. revs'[d] \in Seq(Revision)
            BY <2>0 DEF TypeOK
        <4> QED
            BY <3>1, <4>2, <4>3
      <3>3. RowsOf(d)' = RowsOf(d)
          BY <3>2 DEF RowsOf
      <3>4. \A i \in RowsOf(d) :
              revs'[d][i] = [revs[d][i] EXCEPT !.pruned = @ \/ <<d, i>> \in prune.ids]
          BY <2>1
      <3> QED
          BY <3>1, <3>3, <3>4 DEF Revision
    <2>3. ASSUME NEW d \in Docs, NEW i \in RowsOf(d), <<d, i>> \in prune.ids
          PROVE  \E j \in RowsOf(d) : /\ j > i /\ Live(d, j)'
                                      /\ revs[d][j].group = revs[d][i].group
      <3>1. home[d] # "erased"
        <4>1. RowsOf(d) # {}
            OBVIOUS
        <4>2. revs[d] = << >> => RowsOf(d) = {}
            BY DEF RowsOf
        <4> QED
            BY <4>1, <4>2 DEF PruneInv
      <3>2. PICK j \in RowsOf(d) : /\ j > i /\ Live(d, j)
                                   /\ revs[d][j].group = revs[d][i].group
                                   /\ <<d, j>> \notin prune.ids
          BY <2>3, <3>1 DEF PruneInv
      <3>3. Live(d, j)'
          BY <2>2, <3>2 DEF Live
      <3> QED
          BY <3>2, <3>3
    <2>4. ASSUME NEW d \in Docs, NEW i \in RowsOf(d), revs'[d][i].pruned
          PROVE  \E j \in RowsOf(d) : /\ j > i /\ Live(d, j)'
                                      /\ revs[d][j].group = revs[d][i].group
      <3>1. CASE <<d, i>> \in prune.ids
          BY <2>3, <3>1
      <3>2. CASE <<d, i>> \notin prune.ids
        <4>1. PICK j \in RowsOf(d) : /\ j > i /\ Live(d, j)
                                     /\ revs[d][j].group = revs[d][i].group
            BY <2>2, <2>4, <3>2 DEF BurstKeepsNewest
        <4>2. CASE <<d, j>> \notin prune.ids
          <5>1. Live(d, j)'
              BY <2>2, <4>1, <4>2 DEF Live
          <5> QED
              BY <4>1, <5>1
        <4>3. CASE <<d, j>> \in prune.ids
          <5>1. PICK l \in RowsOf(d) : /\ l > j /\ Live(d, l)'
                                       /\ revs[d][l].group = revs[d][j].group
              BY <2>3, <4>3
          <5>2. l > i
              BY <4>1, <5>1 DEF RowsOf
          <5> QED
              BY <4>1, <5>1, <5>2
        <4> QED
            BY <4>2, <4>3
      <3> QED
          BY <3>1, <3>2
    <2>5. BurstKeepsNewest'
      <3> SUFFICES ASSUME NEW d \in Docs, NEW i \in RowsOf(d)', revs'[d][i].pruned
                   PROVE  (\E j \in RowsOf(d) : /\ j > i /\ Live(d, j)
                                                /\ revs[d][j].group = revs[d][i].group)'
          BY DEF BurstKeepsNewest
      <3>1. i \in RowsOf(d) /\ RowsOf(d)' = RowsOf(d)
          BY <2>2
      <3>2. PICK j \in RowsOf(d) : /\ j > i /\ Live(d, j)'
                                   /\ revs[d][j].group = revs[d][i].group
          BY <2>4, <3>1
      <3>3. revs'[d][j].group = revs'[d][i].group
          BY <2>2, <3>1, <3>2
      <3> QED
          BY <3>1, <3>2, <3>3
    <2>6. PruneInv'
      <3>1. ASSUME NEW d \in Docs, home'[d] = "erased" PROVE revs'[d] = << >>
        <4>1. revs[d] = << >>
            BY <2>1, <3>1 DEF PruneInv
        <4>2. RowsOf(d) = {}
            BY <4>1 DEF RowsOf
        <4>3. revs'[d] \in Seq(Revision)
            BY <2>0 DEF TypeOK
        <4>4. 1..Len(revs'[d]) = {}
          <5>1. RowsOf(d)' = {}
              BY <2>2, <4>2
          <5> QED
              BY <5>1 DEF RowsOf
        <4>5. Len(revs'[d]) = 0
          <5>1. Len(revs'[d]) \in Nat
              BY <4>3
          <5>2. Len(revs'[d]) # 0 => 1 \in 1..Len(revs'[d])
              BY <5>1
          <5> QED
              BY <5>1, <5>2, <4>4
        <4> QED
            BY <4>3, <4>5
      <3> QED
          BY <2>1, <3>1 DEF PruneInv
    <2> QED
        BY <2>5, <2>6
  <1>2. CASE ~MarkPruned
    <2>1. ASSUME NEW d \in Docs
          PROVE  \/ home'[d] = "erased" /\ revs'[d] = << >>
                 \/ /\ home[d] # "erased" /\ home'[d] # "erased"
                    /\ \A i \in RowsOf(d) : /\ i \in RowsOf(d)'
                                            /\ revs'[d][i].group = revs[d][i].group
                                            /\ revs'[d][i].pruned = revs[d][i].pruned
                    /\ \A i \in RowsOf(d)' : i \notin RowsOf(d) => ~revs'[d][i].pruned
        BY <1>0, <1>2, RowsGrow
    <2>2. ASSUME NEW d \in Docs, NEW i \in RowsOf(d)
          PROVE  (home'[d] # "erased" /\ Live(d, i)) => Live(d, i)'
        BY <2>1, <2>2 DEF Live
    <2>3. BurstKeepsNewest'
      <3> SUFFICES ASSUME NEW d \in Docs, NEW i \in RowsOf(d)', revs'[d][i].pruned
                   PROVE  (\E j \in RowsOf(d) : /\ j > i /\ Live(d, j)
                                                /\ revs[d][j].group = revs[d][i].group)'
          BY DEF BurstKeepsNewest
      <3>1. home'[d] # "erased" /\ i \in RowsOf(d) /\ revs[d][i].pruned
        <4>1. revs'[d] # << >>
            BY DEF RowsOf
        <4> QED
            BY <2>1, <4>1
      <3>2. PICK j \in RowsOf(d) : /\ j > i /\ Live(d, j)
                                   /\ revs[d][j].group = revs[d][i].group
          BY <3>1 DEF BurstKeepsNewest
      <3>3. /\ j \in RowsOf(d)' /\ Live(d, j)' /\ revs'[d][j].group = revs'[d][i].group
          BY <2>1, <2>2, <3>1, <3>2
      <3> QED
          BY <3>2, <3>3
    <2>4. ASSUME prune' = prune PROVE PruneInv'
      <3>1. \A d \in Docs : home'[d] = "erased" => revs'[d] = << >>
          BY <2>1
      <3>2. ASSUME NEW x \in prune'.ids, home'[x[1]] # "erased"
            PROVE  (/\ x[2] \in RowsOf(x[1])
                    /\ \E j \in RowsOf(x[1]) :
                          /\ j > x[2] /\ Live(x[1], j)
                          /\ revs[x[1]][j].group = revs[x[1]][x[2]].group
                          /\ <<x[1], j>> \notin prune.ids)'
        <4>1. x \in prune.ids /\ x[1] \in Docs
            BY <2>4 DEF TypeOK
        <4>2. home[x[1]] # "erased"
            BY <2>1, <3>2, <4>1
        <4>3. PICK j \in RowsOf(x[1]) :
                /\ j > x[2] /\ Live(x[1], j)
                /\ revs[x[1]][j].group = revs[x[1]][x[2]].group
                /\ <<x[1], j>> \notin prune.ids
            BY <4>1, <4>2 DEF PruneInv
        <4>4. x[2] \in RowsOf(x[1])
            BY <4>1, <4>2 DEF PruneInv
        <4>5. /\ x[2] \in RowsOf(x[1])' /\ j \in RowsOf(x[1])' /\ Live(x[1], j)'
              /\ revs'[x[1]][j].group = revs'[x[1]][x[2]].group
            BY <2>1, <2>2, <3>2, <4>1, <4>3, <4>4
        <4> QED
            BY <2>4, <4>3, <4>5
      <3> QED
          BY <3>1, <3>2 DEF PruneInv
    <2>5. ReadCollapsed \/ prune' = prune
      <3> USE DEF docVars, reqVars, jobVars
      <3>1. ASSUME NEW r \in Requests, NEW d \in Docs,
                   \/ \E t \in Texts : BeginWrite(r, d, t)
                   \/ \E i \in RowsOf(d) : BeginRestore(r, d, i)
                   \/ \E w \in Workspaces : BeginTransfer(r, d, w)
            PROVE  prune' = prune
          BY <3>1 DEF BeginWrite, BeginRestore, BeginTransfer, Begin
      <3>2. ASSUME NEW r \in Requests, RequestStep(r) PROVE prune' = prune
          BY <3>2 DEF RequestStep, Put, Create, Touch, PutNext, CommitWrite, ReadRestored,
               CommitRestore, CommitTransfer, Fail, End
      <3>3. \/ SweepStep \/ AbortSweep
            \/ \E k \in Keys : Age(k)
            \/ \E d \in Docs : \E i \in RowsOf(d), kept \in BOOLEAN : SetKept(d, i, kept)
            \/ \E w \in Workspaces : EraseWorkspace(w)
            \/ ListPrefix \/ EndErase
            \/ \E k \in Keys : RemovePrefixed(k)
            => prune' = prune
          BY DEF SweepStep, AbortSweep, ListObjects, ReadReferences, EndSweep, JudgeObject,
                 RemoveObject, Age, SetKept, EraseWorkspace, ListPrefix, EndErase, RemovePrefixed
      <3> QED
          BY <1>0, <1>2, <3>1, <3>2, <3>3 DEF Step
    <2> QED
        BY <2>3, <2>4, <2>5, ReadCollapsedStep
  <1> QED
      BY <1>1, <1>2

LEMMA InitPrune == Init => PruneInv /\ BurstKeepsNewest
  <1> SUFFICES ASSUME Init PROVE PruneInv /\ BurstKeepsNewest
      OBVIOUS
  <1>1. \A d \in Docs : home[d] # "erased"
      BY HomeAssumption, SpacesAssumption DEF Init
  <1>2. ASSUME NEW d \in Docs, NEW i \in RowsOf(d) PROVE ~revs[d][i].pruned
    <2>1. revs[d] = [j \in 1..Len(History[d]) |-> InitialRow(d, j)] /\ Len(History[d]) \in Nat
        BY HistoryAssumption DEF Init
    <2>2. i \in 1..Len(History[d])
        BY <2>1 DEF RowsOf
    <2> QED
        BY <2>1, <2>2 DEF InitialRow
  <1>3. prune.ids = {}
      BY DEF Init
  <1> QED
      BY <1>1, <1>2, <1>3 DEF PruneInv, BurstKeepsNewest

(* Whatever else happens, pruning leaves each burst a newer readable       *)
(* revision than any it prunes, so the head of a document is never pruned. *)
THEOREM NewestIsKept == Spec => []BurstKeepsNewest
  <1> DEFINE I == TypeOK /\ RequestInv /\ PruneInv /\ BurstKeepsNewest
  <1>1. Init => I
      BY InitType, InitPrune
  <1>2. I /\ [Next]_vars => I'
    <2>1. I /\ Next => I'
        BY NextType, PruneStep
    <2>2. I /\ UNCHANGED vars => I'
        BY StutterType DEF PruneInv, BurstKeepsNewest, Live, RowsOf, vars, docVars, reqVars, jobVars
    <2> QED
        BY <2>1, <2>2
  <1>3. I => BurstKeepsNewest
      OBVIOUS
  <1> QED
      BY <1>1, <1>2, <1>3, PTL DEF Spec

-----------------------------------------------------------------------------
(***************************************************************************)
(* Reading a workspace while others change it.                             *)
(***************************************************************************)
CONSTANTS Documents, Spaces, Contents, Starts, Variants, Replacements, PageSize, Limit, ScanCap, RecentCap,
          BacklinkCap, MaxOthers, Kinds, None, Names, Forms

VARIABLES doc, request, others, touched, slipped, saved

Reads == INSTANCE Reading WITH Docs <- Documents

(* What documents may be: bodies are versions of sets of links, no two     *)
(* neighbours alike.                                                       *)
Links == [form : Forms, to : Names]
Access == {"none", "viewer", "editor"}
Rows ==
    [live : BOOLEAN, space : Spaces, role : Access, scoped : BOOLEAN, title : Names, slug : Names,
     body : Seq(SUBSET Links), stamp : Nat]
GoodDocs(documents) ==
    /\ documents \in [Documents -> Rows]
    /\ \A d \in Documents : /\ documents[d].body # <<>>
                            /\ \A n \in DOMAIN documents[d].body :
                                  n # 1 => documents[d].body[n] # documents[d].body[n - 1]

ReadingGiven ==
    /\ Documents \subseteq Nat /\ IsFiniteSet(Documents) /\ IsFiniteSet(Spaces) /\ Spaces \subseteq Nat
    /\ Contents \subseteq SUBSET Links
    /\ \A start \in Starts : GoodDocs(start)
    /\ Len(Variants) \in Nat \ {0} /\ DOMAIN Variants = 1..Len(Variants)
    /\ \A pairs \in Replacements :
          /\ pairs \in Seq(Names \X Names)
          /\ \A i \in DOMAIN pairs : pairs[i][1] # pairs[i][2]
    /\ PageSize \in Nat /\ Limit \in Nat /\ ScanCap \in Nat /\ RecentCap \in Nat
    /\ BacklinkCap \in Nat

Said == IF request.kind = "rewrite" THEN Documents \X {"skipped", "would_write", "written", "error"}
        ELSE [version : Nat, content : (SUBSET Links) \cup {None}]

RequestFields ==
    request = [at |-> request.at, kind |-> request.kind, space |-> request.space, roles |-> request.roles,
               rows |-> request.rows, variant |-> request.variant, offset |-> request.offset,
               found |-> request.found, todo |-> request.todo, seen |-> request.seen,
                   said |-> request.said,
               failed |-> request.failed, lists |-> request.lists, pairs |-> request.pairs,
               dry |-> request.dry, agent |-> request.agent]

Stages ==
    /\ request.at \in {"idle", "page", "snippets", "row", "body", "latest", "list", "rewrite", "done"}
    /\ request.at = "page" => request.kind \in {"search", "answer"}
    /\ request.at = "snippets" => request.kind \in {"search", "answer"}
    /\ request.at \in {"row", "body"} => request.kind \in {"chunks", "latest", "answer"}
    /\ request.at = "latest" => request.kind = "latest"
    /\ request.at = "list" => request.kind \in {"recent", "decisions", "documents"}
    /\ request.at = "rewrite" => request.kind = "rewrite"
    /\ request.at # "done" => ~request.failed

ReadTypes ==
    /\ GoodDocs(doc) /\ others \in Nat /\ touched \subseteq Documents
    /\ RequestFields /\ request.said \in Seq(Said) /\ Stages

(* Who has not been changed by others has the role that was read.          *)
Same(roles) == roles \in [Documents -> Access] /\ \A d \in Documents \ touched : roles[d] = Reads!Roles[d]

Covered(w) ==
    \A d \in Reads!Matching(w) \ (touched \cup slipped) :
        \/ request.roles[d] = "none" \/ d \in Reads!Range(request.found)
        \/ Cardinality(Reads!Matching(w) \cup touched) > ScanCap

SearchOK ==
    (request.kind \in {"search", "answer"} /\ request.at \notin {"idle", "done"}) =>
        /\ Same(request.roles)
        /\ request.found \in Seq(Documents) /\ Reads!IsInjective(request.found)
        /\ Len(request.found) <= Limit
        /\ \A d \in Reads!Range(request.found) : request.roles[d] # "none"
        /\ request.variant \in Nat \ {0} /\ request.offset \in Nat
        /\ request.at \in {"page", "snippets"} => request.said = <<>>
        /\ Len(request.found) < Limit =>
             \A i \in DOMAIN Variants : i < request.variant => Covered(Variants[i])

PageOK ==
    request.at = "page" =>
        /\ request.variant \in DOMAIN Variants
        /\ \A d \in Reads!Matching(Variants[request.variant]) \ (touched \cup slipped) :
             Reads!Place(d, Variants[request.variant]) <= request.offset =>
                       request.roles[d] = "none" \/ d \in Reads!Range(request.found)

FoundOK ==
    (request.kind \in {"search", "answer"} /\ request.at \in {"snippets", "row", "body"}) =>
        Len(request.found) = Limit \/ request.variant > Len(Variants)

AnswerOK ==
    (request.kind = "answer" /\ request.at \in {"row", "body"}) =>
        /\ request.todo \in Seq(Documents) /\ request.todo # <<>>
        /\ Reads!Range(request.todo) \subseteq Reads!Range(request.found)
        /\ Len(request.said) + Len(request.todo) = Len(request.found)

(* A chunk is the text of the version it names, the last one of a document *)
(* that others have left alone.                                            *)
ChunkOK(d, chunk) ==
    /\ chunk.version \in DOMAIN doc[d].body /\ chunk.content = doc[d].body[chunk.version]
    /\ d \notin touched => chunk.version = Reads!Version(d)

ChunksOK ==
    (request.kind \in {"chunks", "latest"} /\ request.at \in {"row", "body", "latest"}) =>
        /\ \E d \in Documents : request.todo = <<d>>
        /\ \A i \in DOMAIN request.said : ChunkOK(Head(request.todo), request.said[i])
        /\ Len(request.said) \in (IF request.at = "latest" THEN {1}
                                  ELSE IF request.kind = "latest" THEN {0} ELSE {0, 1})

SeenOK ==
    request.at = "body" =>
        LET d == Head(request.todo) IN
        /\ request.seen \in DOMAIN doc[d].body
        /\ d \notin touched => request.seen = Reads!Version(d)

Wanted(d, s) ==
    /\ doc[d].live /\ doc[d].role # "none" /\ doc[d].space = s
    /\ request.kind = "decisions" => Reads!HasDecision(d)

Crowd(d) == {e \in Documents \ {d} :
    doc[e].space = doc[d].space /\ (doc[e].stamp >= doc[d].stamp \/ e \in touched)}

ListedOK(s, rows) ==
    /\ rows \in Seq(Documents \X Nat) /\ Reads!IsInjective(rows)
    /\ \A d \in Documents \ touched : Wanted(d, s) =>
          \/ <<d, doc[d].stamp>> \in Reads!Range(rows)
          \/ /\ request.kind # "documents"
             /\ \/ Cardinality(Crowd(d)) >= RecentCap
                \/ /\ Len(rows) = Limit
                   /\ request.kind = "recent" => \A i \in DOMAIN rows : rows[i][2] >= doc[d].stamp

ListOK ==
    request.at = "list" =>
        /\ request.lists \in [DOMAIN request.lists -> {None} \cup Seq(Documents \X Nat)]
        /\ request.roles \in [DOMAIN request.lists -> {None} \cup [Documents -> Access]]
        /\ DOMAIN request.lists \subseteq Spaces
        /\ \A s \in DOMAIN request.lists :
              /\ request.roles[s] = None \/ Same(request.roles[s])
              /\ request.lists[s] = None \/ ListedOK(s, request.lists[s])

NoneLeft(d) ==
    \A i \in DOMAIN request.pairs :
        \/ request.pairs[i][1] \notin Reads!LinkedBy(Reads!Content(d), Reads!Exact)
        \/ \E j \in (i + 1)..Len(request.pairs) : request.pairs[j][2] = request.pairs[i][1]

MadeOK ==
    \A d \in Documents : \A n \in DOMAIN doc[d].body : <<d, n>> \notin saved =>
        /\ request.kind = "rewrite" /\ request.at \in {"rewrite", "done"} /\ ~request.dry
        /\ n # 1 /\ doc[d].body[n] = Reads!Rewritten(doc[d].body[n - 1], request.pairs)

Excused ==
    \A i \in DOMAIN request.said : request.said[i][2] = "error" =>
        request.said[i][1] \in touched \/ ~Reads!InScope(request.said[i][1])

RewriteOK ==
    request.at = "rewrite" =>
        /\ request.pairs \in Replacements /\ request.dry \in BOOLEAN
        /\ DOMAIN request.rows \subseteq Documents
        /\ \A d \in DOMAIN request.rows : request.rows[d] \in DOMAIN doc[d].body
        /\ request.todo \in Seq(DOMAIN request.rows) /\ Reads!IsInjective(request.todo)
        /\ request.todo # <<>>
        /\ {request.said[i][1] : i \in DOMAIN request.said} \cup
               Reads!Range(request.todo) = DOMAIN request.rows
        /\ Excused
        /\ \A d \in Reads!Range(request.todo) \ touched :
               Reads!Version(d) = request.rows[d] /\ Reads!Roles[d] = "editor"
        /\ ~request.dry => \A d \in DOMAIN request.rows \ (touched \cup Reads!Range(request.todo)) :
               Reads!InScope(d) => NoneLeft(d)

(* What a change by others leaves as it was.                               *)
ByOthers(d) ==
    /\ request' = request /\ request.at \notin {"idle", "done"}
    /\ touched' = touched \cup {d} /\ others' \in Nat
    /\ saved \subseteq saved' /\ slipped \subseteq slipped'
    /\ GoodDocs(doc')
    /\ \A e \in Documents : e # d => doc'[e] = doc[e]
    /\ \A e \in Documents : doc'[e].space = doc[e].space
    /\ \A e \in Documents : \A n \in DOMAIN doc[e].body :
          n \in DOMAIN doc'[e].body /\ doc'[e].body[n] = doc[e].body[n]
    /\ \A e \in Documents : \A n \in DOMAIN doc'[e].body : n \in DOMAIN doc[e].body \/ <<e, n>> \in saved'
    /\ request.at = "page" =>
          \A e \in Reads!Matching(Variants[request.variant]) \cap Reads!Matching(Variants[request.variant])' :
              \/ ~(Reads!Place(e, Variants[request.variant]) > request.offset)
              \/ ~(Reads!Place(e, Variants[request.variant])' <= request.offset)
              \/ e \in slipped'

ReadInv ==
    /\ ReadTypes /\ SearchOK /\ PageOK /\ FoundOK /\ AnswerOK /\ ChunksOK /\ SeenOK
    /\ ListOK /\ MadeOK /\ RewriteOK
    /\ Reads!SearchFinds /\ Reads!ReadsAreOfOneVersion /\ Reads!ListsAreNewest /\ Reads!RewritesKeep

-----------------------------------------------------------------------------
(* Sequences without repetition and their beginnings.                      *)
LEMMA SameSize == \A S : Reads!Cardinality(S) = Cardinality(S)
  BY Zenon DEF Reads!Cardinality, Cardinality

LEMMA AllOfASet ==
    ASSUME NEW S, IsFiniteSet(S), NEW s \in Reads!SetToSeqs(S)
    PROVE  /\ s \in Seq(S) /\ Len(s) = Cardinality(S) /\ Len(s) \in Nat /\ DOMAIN s = 1..Len(s)
           /\ Reads!Range(s) = S /\ \A i, j \in DOMAIN s : i # j => s[i] # s[j]
  <1>1. /\ Cardinality(S) \in Nat /\ s \in [1..Cardinality(S) -> S]
        /\ \A i, j \in 1..Cardinality(S) : i # j => s[i] # s[j]
      BY SameSize, FS_CardinalityType DEF Reads!SetToSeqs
  <1>2. s \in Injection(1..Cardinality(S), S)
      BY <1>1 DEF Injection, IsInjective
  <1>3. Cardinality(1..Cardinality(S)) = Cardinality(S)
      BY <1>1, FS_Interval
  <1>4. s \in Surjection(1..Cardinality(S), S)
      BY <1>2, <1>3, FS_Injection
  <1>5. \A x \in S : \E i \in 1..Cardinality(S) : s[i] = x
      BY <1>4 DEF Surjection
  <1>6. s \in Seq(S) /\ Len(s) = Cardinality(S) /\ DOMAIN s = 1..Len(s)
      BY <1>1
  <1> QED
      BY <1>1, <1>5, <1>6 DEF Reads!Range

(* The first k members of a sequence without repetition are k.             *)
LEMMA FirstMembers ==
    ASSUME NEW s, NEW k \in Nat, 1..k \subseteq DOMAIN s, \A i, j \in 1..k : i # j => s[i] # s[j]
    PROVE  LET S == {s[i] : i \in 1..k} IN IsFiniteSet(S) /\ Cardinality(S) = k
  <1> DEFINE S == {s[i] : i \in 1..k}
             f == [i \in 1..k |-> s[i]]
  <1>1. f \in Surjection(1..k, S)
      BY DEF Surjection
  <1>2. f \in Injection(1..k, S)
      BY DEF Injection, IsInjective
  <1>3. IsFiniteSet(1..k) /\ Cardinality(1..k) = k
      BY FS_Interval
  <1> HIDE DEF S, f
  <1> QED
      BY <1>1, <1>2, <1>3, FS_Surjection DEF S

LEMMA SliceIs ==
    ASSUME NEW S, NEW s \in Seq(S), NEW from \in Nat, NEW n \in Nat
    PROVE  LET t == Reads!Slice(s, from, n) IN
           /\ t \in Seq(S) /\ DOMAIN t = 1..Len(t) /\ Len(t) \in Nat
           /\ Len(t) <= n /\ (Len(t) < n => Len(s) <= from + Len(t))
           /\ from <= Len(s) => from + Len(t) <= Len(s)
           /\ \A i \in 1..Len(t) : from + i \in 1..Len(s) /\ t[i] = s[from + i]
           /\ \A i \in 1..Len(s) : (from < i /\ i <= from + n) => i - from \in 1..Len(t)
  <1>0. PICK upto : upto = IF Len(s) < from + n THEN Len(s) ELSE from + n
      OBVIOUS
  <1>1. /\ Len(s) \in Nat /\ upto \in Nat /\ upto <= Len(s)
        /\ upto <= from + n /\ (upto = Len(s) \/ upto = from + n)
      BY <1>0, LenProperties
  <1>2. PICK t : t = Reads!Slice(s, from, n)
      OBVIOUS
  <1>3. t = SubSeq(s, from + 1, upto)
      BY <1>0, <1>2 DEF Reads!Slice
  <1>4. from + 1 \in 1..(Len(s) + 1) \/ Len(s) < from
      BY <1>1
  <1>5. \A i \in (from + 1)..upto : s[i] \in S
      BY <1>1
  <1>6. /\ t \in Seq(S) /\ Len(t) = (IF from + 1 <= upto THEN upto - (from + 1) + 1 ELSE 0)
        /\ \A i \in 1..(upto - (from + 1) + 1) : t[i] = s[from + 1 + i - 1]
      BY <1>1, <1>3, <1>5, SubSeqProperties
  <1>7. Len(t) \in Nat /\ (from < upto => Len(t) = upto - from) /\ (upto <= from => Len(t) = 0)
    <2>1. CASE from < upto
      <3>1. from + 1 <= upto /\ upto - (from + 1) + 1 = upto - from
          BY <1>1, <2>1
      <3>2. Len(t) = upto - from
          BY <1>6, <3>1
      <3> QED
          BY <1>1, <2>1, <3>2
    <2>2. CASE upto <= from
      <3>1. ~(from + 1 <= upto)
          BY <1>1, <2>2
      <3>2. Len(t) = 0
          BY <1>6, <3>1
      <3> QED
          BY <1>1, <2>2, <3>2
    <2> QED
        BY <1>1, <2>1, <2>2
  <1>8. DOMAIN t = 1..Len(t)
      BY <1>6, LenProperties
  <1>9. \A i \in 1..Len(t) : from + i \in 1..Len(s) /\ t[i] = s[from + i]
    <2> SUFFICES ASSUME NEW i \in 1..Len(t) PROVE from + i \in 1..Len(s) /\ t[i] = s[from + i]
        OBVIOUS
    <2>1. from < upto /\ i \in 1..(upto - from) /\ i \in Int
        BY <1>1, <1>7
    <2>2. upto - (from + 1) + 1 = upto - from /\ from + 1 + i - 1 = from + i
        BY <1>1, <2>1
    <2>3. t[i] = s[from + i]
        BY <1>6, <2>1, <2>2
    <2> QED
        BY <1>1, <2>1, <2>3
  <1>10. \A i \in 1..Len(s) : (from < i /\ i <= from + n) => i - from \in 1..Len(t)
      BY <1>1, <1>7
  <1>11. /\ Len(t) \in Nat /\ Len(t) <= n /\ (Len(t) < n => Len(s) <= from + Len(t))
         /\ from <= Len(s) => from + Len(t) <= Len(s)
      BY <1>1, <1>7
  <1> QED
      BY <1>2, <1>6, <1>8, <1>9, <1>10, <1>11

(* A set in an order.                                                      *)
LEMMA InOrderIs ==
    ASSUME NEW S, IsFiniteSet(S), NEW order, NEW s \in Reads!InOrder(S, order)
    PROVE  /\ s \in Seq(S) /\ Len(s) = Cardinality(S) /\ Len(s) \in Nat /\ DOMAIN s = 1..Len(s)
           /\ Reads!Range(s) = S /\ \A i, j \in DOMAIN s : i # j => s[i] # s[j]
           /\ \A i, j \in DOMAIN s : i < j => <<s[i], s[j]>> \in order
  <1>1. s \in Reads!SetToSeqs(S) /\ \A i, j \in DOMAIN s : i < j => <<s[i], s[j]>> \in order
      BY DEF Reads!InOrder
  <1> QED
      BY <1>1, AllOfASet

(* What is kept of a sequence comes in the order of the sequence.          *)
LEMMA KeptAre ==
    ASSUME NEW U, IsFiniteSet(U), NEW s \in Seq(U), NEW S, NEW t \in Reads!Kept(s, S)
    PROVE  /\ t \in Seq(U) /\ Reads!Range(t) = Reads!Range(s) \cap S /\ Reads!IsInjective(t)
           /\ \A i, j \in DOMAIN t : i < j => <<t[i], t[j]>> \in Reads!Along(s)
  <1>1. Reads!Range(s) \cap S \subseteq U /\ IsFiniteSet(Reads!Range(s) \cap S)
    <2>1. Reads!Range(s) \subseteq U
        BY DEF Reads!Range
    <2> QED
        BY <2>1, FS_Subset
  <1>2. t \in Reads!InOrder(Reads!Range(s) \cap S, Reads!Along(s))
      BY DEF Reads!Kept
  <1>3. /\ t \in Seq(Reads!Range(s) \cap S)
        /\ Reads!Range(t) = Reads!Range(s) \cap S /\ \A i, j \in DOMAIN t : i # j => t[i] # t[j]
        /\ \A i, j \in DOMAIN t : i < j => <<t[i], t[j]>> \in Reads!Along(s)
      BY <1>1, <1>2, InOrderIs
  <1>4. t \in Seq(U)
      BY <1>1, <1>3
  <1> QED
      BY <1>3, <1>4 DEF Reads!IsInjective

LEMMA KeptInOrder ==
    ASSUME NEW U, IsFiniteSet(U), NEW s \in Seq(U), NEW S, NEW t \in Reads!Kept(s, S),
           NEW i \in DOMAIN t, NEW j \in DOMAIN t, i < j
    PROVE  \E k, l \in DOMAIN s : k < l /\ s[k] = t[i] /\ s[l] = t[j]
  <1>1. <<t[i], t[j]>> \in Reads!Along(s)
      BY KeptAre
  <1>2. PICK k, l \in DOMAIN s : k < l /\ <<t[i], t[j]>> = <<s[k], s[l]>>
      BY <1>1 DEF Reads!Along
  <1> QED
      BY <1>2

-----------------------------------------------------------------------------
(* Links.                                                                  *)
LEMMA LinksAlwaysAgree == ReadingGiven => Reads!LinksAgree
  <1> SUFFICES ASSUME ReadingGiven, NEW s \in Spaces, NEW d \in Reads!Readable(s)
               PROVE  /\ \A t \in Reads!Wikilinks(Reads!Content(d)) : Reads!Hits(t, s) # {} =>
                            t \notin Reads!LintBroken(s, Reads!Content(d)) \cup
                                Reads!Unknown(s, Reads!Content(d))
                      /\ \A e \in Reads!Readable(s) \ {d} : \A scan \in Reads!Scans(e, s) :
                            /\ (\E t \in Reads!Targets(Reads!Content(d)) : Reads!Hits(t, s) = {e}) =>
                                   \/ d \in Reads!ReferencedBy(e, scan)
                                   \/ Reads!Cardinality(Reads!Readable(s) \ {e}) > BacklinkCap
                            /\ d \in Reads!ReferencedBy(e, scan) =>
                                   \E t \in Reads!Targets(Reads!Content(d)) : e \in Reads!Hits(t, s)
      BY DEF Reads!LinksAgree
  <1>1. ASSUME NEW t \in Reads!Wikilinks(Reads!Content(d)), Reads!Hits(t, s) # {}
        PROVE  t \notin Reads!LintBroken(s, Reads!Content(d)) \cup Reads!Unknown(s, Reads!Content(d))
    <2>1. PICK e \in Reads!Readable(s) : t \in Reads!Tokens(e)
        BY <1>1 DEF Reads!Hits
    <2>2. e \in Reads!Live(s)
        BY <2>1 DEF Reads!Readable
    <2>3. t \notin Reads!Unknown(s, Reads!Content(d))
        BY <2>1, <2>2 DEF Reads!Unknown
    <2>4. Reads!Fuzzy(t) \in {Reads!Fuzzy(n) : n \in Reads!Tokens(e)}
        BY <2>1
    <2>5. Reads!Resolves(t, s)
        BY <2>1, <2>4 DEF Reads!Resolves
    <2> QED
        BY <2>3, <2>5 DEF Reads!LintBroken
  <1>2. ASSUME NEW e \in Reads!Readable(s) \ {d}, NEW scan \in Reads!Scans(e, s)
        PROVE  /\ (\E t \in Reads!Targets(Reads!Content(d)) : Reads!Hits(t, s) = {e}) =>
                      \/ d \in Reads!ReferencedBy(e, scan)
                      \/ Reads!Cardinality(Reads!Readable(s) \ {e}) > BacklinkCap
               /\ d \in Reads!ReferencedBy(e, scan) =>
                      \E t \in Reads!Targets(Reads!Content(d)) : e \in Reads!Hits(t, s)
    <2>1. e # d /\ d \in Reads!Readable(s) \ {e}
        BY <1>2
    <2>2. ASSUME NEW t \in Reads!Targets(Reads!Content(d)), Reads!Hits(t, s) = {e}
          PROVE  \/ d \in Reads!ReferencedBy(e, scan)
                 \/ Reads!Cardinality(Reads!Readable(s) \ {e}) > BacklinkCap
      <3>1. t \in Reads!Tokens(e)
          BY <2>2 DEF Reads!Hits
      <3>2. PICK rest : rest = Reads!Readable(s) \ {e}
          OBVIOUS
      <3>3. CASE scan = rest
          BY <2>1, <3>1, <3>2, <3>3 DEF Reads!ReferencedBy
      <3>4. CASE scan # rest
        <4>1. scan \in SUBSET rest /\ Reads!Cardinality(scan) = BacklinkCap
            BY <3>2, <3>4 DEF Reads!Scans
        <4>2. IsFiniteSet(rest)
          <5>1. rest \subseteq Documents /\ IsFiniteSet(Documents)
              BY <3>2 DEF Reads!Readable, Reads!Live, ReadingGiven
          <5> QED
              BY <5>1, FS_Subset
        <4>3. Cardinality(scan) \in Nat /\ Cardinality(rest) \in Nat /\ Cardinality(scan) < Cardinality(rest)
          <5>1. scan \subseteq rest /\ scan # rest
              BY <3>4, <4>1
          <5>2. /\ IsFiniteSet(scan) /\ Cardinality(scan) <= Cardinality(rest)
                /\ Cardinality(scan) = Cardinality(rest) => scan = rest
              BY <4>2, <5>1, FS_Subset
          <5>3. Cardinality(scan) \in Nat /\ Cardinality(rest) \in Nat
              BY <4>2, <5>2, FS_CardinalityType
          <5> QED
              BY <5>1, <5>2, <5>3
        <4>4. Reads!Cardinality(rest) = Cardinality(rest) /\ Reads!Cardinality(scan) = Cardinality(scan)
            BY SameSize
        <4>5. Reads!Cardinality(rest) > BacklinkCap
            BY <4>1, <4>3, <4>4
        <4> QED
            BY <3>2, <4>5
      <3> QED
          BY <3>3, <3>4
    <2>3. ASSUME d \in Reads!ReferencedBy(e, scan)
          PROVE  \E t \in Reads!Targets(Reads!Content(d)) : e \in Reads!Hits(t, s)
      <3>1. PICK t : t \in Reads!Targets(Reads!Content(d)) /\ t \in Reads!Tokens(e)
          BY <2>3 DEF Reads!ReferencedBy
      <3> QED
          BY <1>2, <3>1 DEF Reads!Hits
    <2> QED
        BY <2>2, <2>3
  <1> QED
      BY <1>1, <1>2

(* The least number of a set below a bound.                                *)
LEMMA LeastIs ==
    ASSUME NEW n \in Nat, NEW S \in SUBSET (0..n), S # {}
    PROVE  \E e \in S : \A f \in S : e <= f
  <1> DEFINE To(e) == {f \in S : f <= e}
             Heads == {To(e) : e \in S}
  <1>1. S \subseteq Nat /\ IsFiniteSet(S)
    <2>1. IsFiniteSet(0..n)
        BY FS_Interval
    <2>2. IsFiniteSet(S)
        BY <2>1, FS_Subset
    <2> QED
        BY <2>2
  <1>2. \A e \in S : To(e) \in FiniteSubsetsOf(S)
    <2>1. \A e \in S : To(e) \subseteq S /\ IsFiniteSet(To(e))
        BY <1>1, FS_Subset
    <2> QED
        BY <2>1 DEF FiniteSubsetsOf
  <1>3. Heads \subseteq FiniteSubsetsOf(S) /\ Heads # {}
      BY <1>2
  <1>4. IsWellFoundedOn(StrictSubsetOrdering(S), FiniteSubsetsOf(S))
      BY FS_StrictSubsetOrderingWellFounded
  <1> HIDE DEF Heads
  <1>5. PICK A \in Heads : \A B \in Heads : ~ (<<B, A>> \in StrictSubsetOrdering(S))
      BY <1>3, <1>4, WFMin
  <1>6. PICK e \in S : A = To(e)
      BY DEF Heads
  <1>7. ASSUME NEW f \in S, f < e
        PROVE  FALSE
    <2>1. e \in Nat /\ f \in Nat
        BY <1>1
    <2>2. \A x \in Nat : x <= f => x <= e
        BY <1>7, <2>1
    <2>3. e \in To(e) /\ e \notin To(f)
        BY <1>7, <2>1
    <2>4. To(f) \subseteq To(e) /\ To(e) \subseteq S
        BY <1>1, <2>2
    <2> HIDE DEF To
    <2>5. <<To(f), To(e)>> \in StrictSubsetOrdering(S)
        BY <2>3, <2>4 DEF StrictSubsetOrdering
    <2> QED
        BY <1>5, <1>6, <2>5 DEF Heads
  <1>8. \A f \in S : e <= f
      BY <1>1, <1>7
  <1> QED
      BY <1>8

GoodPairs(pairs) ==
    /\ pairs \in Seq(Names \X Names)
    /\ \A i \in DOMAIN pairs : pairs[i][1] # pairs[i][2]

(* A name that no pair replaces stays; one that a pair has replaced comes  *)
(* back only by a later pair.                                              *)
LEMMA TrailsEnd ==
    ASSUME NEW pairs, GoodPairs(pairs), NEW name \in Names, NEW w \in Reads!Trails(name, pairs)
    PROVE  /\ Len(pairs) \in Nat /\ w[Len(pairs)] \in Names
           /\ (\A i \in DOMAIN pairs : w[i - 1] # pairs[i][1]) =>
                 /\ w[Len(pairs)] = name
                 /\ \A i \in DOMAIN pairs : name # pairs[i][1]
           /\ \A i \in DOMAIN pairs : w[Len(pairs)] = pairs[i][1] =>
                 \E j \in (i + 1)..Len(pairs) : pairs[j][2] = pairs[i][1]
  <1> DEFINE n == Len(pairs)
  <1>1. n \in Nat /\ DOMAIN pairs = 1..n /\ \A i \in 1..n : pairs[i] \in Names \X Names
      BY DEF GoodPairs
  <1>2. /\ w \in [0..n -> {name} \cup {pairs[i][2] : i \in 1..n}] /\ w[0] = name
        /\ \A i \in 1..n : w[i] = IF w[i - 1] = pairs[i][1] THEN pairs[i][2] ELSE w[i - 1]
      BY <1>1 DEF Reads!Trails
  <1> HIDE DEF n
  <1>3. \A i \in 0..n : w[i] \in Names
    <2>1. \A i \in 1..n : pairs[i][2] \in Names
        BY <1>1
    <2> QED
        BY <1>2, <2>1
  <1>4. ASSUME \A i \in 1..n : w[i - 1] # pairs[i][1]
        PROVE  \A k \in 0..n : w[k] = name
    <2> DEFINE S == {k \in 0..n : w[k] # name}
    <2> SUFFICES ASSUME S # {} PROVE FALSE
        OBVIOUS
    <2>1. PICK k \in S : \A f \in S : k <= f
        BY <1>1, LeastIs
    <2>2. k \in 1..n /\ k - 1 \in 0..n /\ k - 1 \notin S
        BY <1>1, <1>2, <2>1
    <2>3. w[k - 1] = name /\ w[k] = w[k - 1]
        BY <1>2, <1>4, <2>2
    <2> QED
        BY <2>1, <2>3
  <1>5. ASSUME NEW i \in 1..n, w[n] = pairs[i][1]
        PROVE  \E j \in (i + 1)..n : pairs[j][2] = pairs[i][1]
    <2> DEFINE S == {k \in 0..n : i <= k /\ w[k] = pairs[i][1]}
    <2>1. n \in S
        BY <1>1, <1>5
    <2>2. PICK k \in S : \A f \in S : k <= f
        BY <1>1, <2>1, LeastIs
    <2>3. w[i] # pairs[i][1]
        BY <1>1, <1>2, <1>5 DEF GoodPairs
    <2>4. k \in (i + 1)..n /\ k \in 1..n /\ k - 1 \in 0..n /\ i <= k - 1
        BY <1>1, <2>2, <2>3
    <2>5. w[k - 1] # pairs[i][1]
        BY <1>1, <2>2, <2>4
    <2>6. w[k] = pairs[k][2]
        BY <1>2, <2>2, <2>4, <2>5
    <2> QED
        BY <2>2, <2>4, <2>6
  <1>6. n \in 0..n
      BY <1>1
  <1>7. (\A i \in 1..n : w[i - 1] # pairs[i][1]) => \A i \in 1..n : name # pairs[i][1]
    <2> SUFFICES ASSUME \A i \in 1..n : w[i - 1] # pairs[i][1], NEW i \in 1..n PROVE name # pairs[i][1]
        OBVIOUS
    <2>1. i - 1 \in 0..n
        BY <1>1
    <2> QED
        BY <1>4, <2>1
  <1> QED
      BY <1>1, <1>3, <1>4, <1>5, <1>6, <1>7 DEF n

-----------------------------------------------------------------------------
(* Documents, and what others do to them.                                  *)
LEMMA DocFacts ==
    ASSUME GoodDocs(doc), NEW d \in Documents
    PROVE  /\ doc[d] \in Rows /\ doc[d].body \in Seq(SUBSET Links) /\ Reads!Version(d) \in Nat
           /\ Reads!Version(d) # 0
           /\ DOMAIN doc[d].body = 1..Reads!Version(d) /\ Reads!Content(d) = doc[d].body[Reads!Version(d)]
           /\ Reads!Version(d) \in DOMAIN doc[d].body /\ Reads!Content(d) \in SUBSET Links
           /\ doc[d].stamp \in Nat /\ doc[d].role \in Access /\ doc[d].space \in Spaces
           /\ Reads!Roles \in [Documents -> Access]
           /\ Reads!Roles[d] = (IF doc[d].live THEN doc[d].role ELSE "none")
           /\ Reads!Roles[d] # "none" <=> (doc[d].live /\ doc[d].role # "none")
  <1>1. doc[d] \in Rows /\ doc[d].body # <<>>
      BY DEF GoodDocs
  <1>2. doc[d].body \in Seq(SUBSET Links) /\ doc[d].stamp \in Nat /\ doc[d].role \in Access /\
            doc[d].space \in Spaces
      BY <1>1 DEF Rows
  <1>3. Reads!Version(d) \in Nat /\ DOMAIN doc[d].body = 1..Reads!Version(d)
      BY <1>2, LenProperties DEF Reads!Version
  <1>4. Reads!Version(d) # 0
      BY <1>1, <1>2, EmptySeq DEF Reads!Version
  <1>5. Reads!Content(d) = doc[d].body[Reads!Version(d)] /\ Reads!Version(d) \in 1..Reads!Version(d)
      BY <1>3, <1>4 DEF Reads!Content, Reads!Version, Reads!Last
  <1>6. Reads!Content(d) \in SUBSET Links
      BY <1>2, <1>3, <1>5
  <1>7. Reads!Roles \in [Documents -> Access]
      BY DEF Reads!Roles, GoodDocs, Rows, Access
  <1>8. Reads!Roles[d] = (IF doc[d].live THEN doc[d].role ELSE "none")
      BY DEF Reads!Roles
  <1> QED
      BY <1>1, <1>2, <1>3, <1>4, <1>5, <1>6, <1>7, <1>8

LEMMA RowWith ==
    ASSUME NEW r \in Rows, NEW live \in BOOLEAN, NEW role \in Access, NEW scoped \in BOOLEAN,
           NEW body \in Seq(SUBSET Links),
           NEW stamp \in Nat
    PROVE  /\ [r EXCEPT !.live = live, !.role = role, !.scoped = scoped] \in Rows
           /\ [r EXCEPT !.body = body, !.stamp = stamp] \in Rows
  <1>1. r = [live |-> r.live, space |-> r.space, role |-> r.role, scoped |-> r.scoped, title |-> r.title,
             slug |-> r.slug, body |-> r.body, stamp |-> r.stamp]
      BY DEF Rows
  <1>2. /\ r.live \in BOOLEAN /\ r.space \in Spaces /\ r.role \in Access /\ r.scoped \in BOOLEAN
        /\ r.title \in Names /\ r.slug \in Names
        /\ r.body \in Seq(SUBSET Links) /\ r.stamp \in Nat
      BY DEF Rows
  <1>3. ASSUME NEW q, q = [r EXCEPT !.live = live, !.role = role, !.scoped = scoped]
        PROVE  q \in Rows
    <2>1. q = [live |-> q.live, space |-> q.space, role |-> q.role, scoped |-> q.scoped, title |-> q.title,
               slug |-> q.slug, body |-> q.body, stamp |-> q.stamp]
        BY <1>1, <1>3
    <2>2. /\ q.live = live /\ q.space = r.space /\ q.role = role /\ q.scoped = scoped
          /\ q.title = r.title /\ q.slug = r.slug
          /\ q.body = r.body /\ q.stamp = r.stamp
        BY <1>1, <1>3
    <2> QED
        BY <1>2, <2>1, <2>2 DEF Rows
  <1>4. ASSUME NEW q, q = [r EXCEPT !.body = body, !.stamp = stamp]
        PROVE  q \in Rows
    <2>1. q = [live |-> q.live, space |-> q.space, role |-> q.role, scoped |-> q.scoped, title |-> q.title,
               slug |-> q.slug, body |-> q.body, stamp |-> q.stamp]
        BY <1>1, <1>4
    <2>2. /\ q.live = r.live /\ q.space = r.space /\ q.role = r.role /\ q.scoped = r.scoped
          /\ q.title = r.title /\ q.slug = r.slug
          /\ q.body = body /\ q.stamp = stamp
        BY <1>1, <1>4
    <2> QED
        BY <1>2, <2>1, <2>2 DEF Rows
  <1> QED
      BY <1>3, <1>4

LEMMA StampIs ==
    ASSUME ReadingGiven, ReadTypes
    PROVE  Reads!NextStamp \in Nat
  <1>1. Cardinality(Documents) \in Nat
      BY FS_CardinalityType DEF ReadingGiven
  <1>2. Len(request.said) \in Nat
      BY LenProperties DEF ReadTypes
  <1> QED
      BY SameSize, <1>1, <1>2 DEF Reads!NextStamp, ReadTypes

(* A version more: the others stay, and it is not the one before it.       *)
LEMMA OneMore ==
    ASSUME GoodDocs(doc), NEW d \in Documents, NEW c \in SUBSET Links, c # Reads!Content(d),
           NEW t \in Nat,
           doc' = [doc EXCEPT ![d].body = Append(@, c), ![d].stamp = t]
    PROVE  /\ GoodDocs(doc')
           /\ \A e \in Documents : e # d => doc'[e] = doc[e]
           /\ doc'[d] = [doc[d] EXCEPT !.body = Append(doc[d].body, c), !.stamp = t]
           /\ doc'[d].space = doc[d].space /\ doc'[d].scoped = doc[d].scoped
           /\ DOMAIN doc'[d].body = 1..(Reads!Version(d) + 1)
           /\ \A n \in 1..Reads!Version(d) : doc'[d].body[n] = doc[d].body[n]
           /\ doc'[d].body[Reads!Version(d) + 1] = c
  <1>1. /\ doc[d] \in Rows /\ doc[d].body \in Seq(SUBSET Links) /\ Reads!Version(d) \in Nat
        /\ Reads!Version(d) # 0
        /\ Reads!Content(d) = doc[d].body[Reads!Version(d)]
      BY DocFacts
  <1>2. PICK body : body = Append(doc[d].body, c)
      OBVIOUS
  <1>3. doc \in [Documents -> Rows]
      BY DEF GoodDocs
  <1>4. doc' = [doc EXCEPT ![d] = [doc[d] EXCEPT !.body = body, !.stamp = t]]
      BY <1>2, <1>3
  <1>5. doc'[d] = [doc[d] EXCEPT !.body = body, !.stamp = t] /\ \A e \in Documents : e # d =>
            doc'[e] = doc[e]
      BY <1>3, <1>4
  <1>6. body \in Seq(SUBSET Links) /\ Len(body) = Reads!Version(d) + 1 /\ body[Reads!Version(d) + 1] = c
      BY <1>1, <1>2, AppendProperties DEF Reads!Version
  <1>7. \A n \in 1..Reads!Version(d) : body[n] = doc[d].body[n]
      BY <1>1, <1>2, AppendProperties DEF Reads!Version
  <1>8. DOMAIN body = 1..(Reads!Version(d) + 1)
      BY <1>6, LenProperties
  <1>9. /\ doc'[d] \in Rows /\ doc'[d].body = body /\ doc'[d].space = doc[d].space
        /\ doc'[d].scoped = doc[d].scoped
    <2>0. doc[d].live \in BOOLEAN /\ doc[d].role \in Access /\ doc[d].scoped \in BOOLEAN
        BY <1>1 DEF Rows
    <2>1. [doc[d] EXCEPT !.body = body, !.stamp = t] \in Rows
        BY <1>1, <1>6, <2>0, RowWith
    <2> QED
        BY <1>1, <1>5, <2>1 DEF Rows
  <1>10. doc' \in [Documents -> Rows]
      BY <1>3, <1>4, <1>5, <1>9
  <1>11. ASSUME NEW e \in Documents
         PROVE  /\ doc'[e].body # <<>>
                /\ \A n \in DOMAIN doc'[e].body : n # 1 => doc'[e].body[n] # doc'[e].body[n - 1]
    <2>1. CASE e # d
        BY <1>5, <1>11, <2>1 DEF GoodDocs
    <2>2. CASE e = d
      <3>1. body # <<>>
          BY <1>1, <1>6, EmptySeq
      <3>2. ASSUME NEW n \in 1..(Reads!Version(d) + 1), n # 1 PROVE body[n] # body[n - 1]
        <4>1. CASE n = Reads!Version(d) + 1
          <5>1. n - 1 = Reads!Version(d) /\ Reads!Version(d) \in 1..Reads!Version(d)
              BY <1>1, <4>1
          <5>2. body[n - 1] = Reads!Content(d) /\ body[n] = c
              BY <1>1, <1>6, <1>7, <4>1, <5>1
          <5> QED
              BY <5>2
        <4>2. CASE n # Reads!Version(d) + 1
          <5>1. n \in 1..Reads!Version(d) /\ n - 1 \in 1..Reads!Version(d)
              BY <1>1, <3>2, <4>2
          <5>2. body[n] = doc[d].body[n] /\ body[n - 1] = doc[d].body[n - 1]
              BY <1>7, <5>1
          <5>3. n \in DOMAIN doc[d].body
              BY <5>1, DocFacts
          <5> QED
              BY <3>2, <5>2, <5>3 DEF GoodDocs
        <4> QED
            BY <4>1, <4>2
      <3> QED
          BY <1>8, <1>9, <2>2, <3>1, <3>2
    <2> QED
        BY <2>1, <2>2
  <1>12. GoodDocs(doc')
      BY <1>10, <1>11 DEF GoodDocs
  <1> QED
      BY <1>2, <1>5, <1>6, <1>7, <1>8, <1>9, <1>12

(* A field changed: the same for all but one document, whose text is kept. *)
LEMMA Marked ==
    ASSUME GoodDocs(doc), NEW d \in Documents, NEW live \in BOOLEAN, NEW role \in Access,
           NEW scoped \in BOOLEAN,
           doc' = [doc EXCEPT ![d].live = live, ![d].role = role, ![d].scoped = scoped]
    PROVE  /\ GoodDocs(doc')
           /\ \A e \in Documents : e # d => doc'[e] = doc[e]
           /\ doc'[d].space = doc[d].space /\ doc'[d].body = doc[d].body
  <1>1. doc \in [Documents -> Rows] /\ doc[d] \in Rows
      BY DEF GoodDocs
  <1>2. doc' = [doc EXCEPT ![d] = [doc[d] EXCEPT !.live = live, !.role = role, !.scoped = scoped]]
      BY <1>1
  <1>3. doc'[d] = [doc[d] EXCEPT !.live = live, !.role = role, !.scoped = scoped] /\ \A e \in Documents : e # d =>
            doc'[e] = doc[e]
      BY <1>1, <1>2
  <1>4. doc'[d] \in Rows /\ doc'[d].body = doc[d].body /\ doc'[d].space = doc[d].space
    <2>1. doc[d].body \in Seq(SUBSET Links) /\ doc[d].stamp \in Nat
        BY DocFacts
    <2>2. doc'[d] \in Rows
        BY <1>1, <1>3, <2>1, RowWith
    <2> QED
        BY <1>1, <1>3, <2>2 DEF Rows
  <1>5. doc' \in [Documents -> Rows]
      BY <1>1, <1>2, <1>3, <1>4
  <1>6. GoodDocs(doc')
    <2> SUFFICES ASSUME NEW e \in Documents
                 PROVE  /\ doc'[e].body # <<>>
                        /\ \A n \in DOMAIN doc'[e].body : n # 1 => doc'[e].body[n] # doc'[e].body[n - 1]
        BY <1>5 DEF GoodDocs
    <2>1. doc'[e].body = doc[e].body
        BY <1>3, <1>4
    <2> QED
        BY <2>1 DEF GoodDocs
  <1> QED
      BY <1>3, <1>4, <1>6

LEMMA OthersStay ==
    ASSUME ReadingGiven, ReadTypes, NEW d \in Documents,
           (\E c \in Contents : Reads!Save(d, c)) \/ Reads!Delete(d) \/ Reads!Rescope(d) \/
               (\E role \in Access : Reads!Grant(d, role))
    PROVE  ByOthers(d)
  <1>1. GoodDocs(doc) /\ others \in Nat
      BY DEF ReadTypes
  <1>2. Reads!Other(d)
      BY DEF Reads!Save, Reads!Delete, Reads!Rescope, Reads!Grant
  <1>3. /\ request' = request /\ request.at \notin {"idle", "done"}
        /\ touched' = touched \cup {d} /\ others' \in Nat /\ slipped \subseteq slipped'
      BY <1>1, <1>2 DEF Reads!Other
  <1>4. ASSUME request.at = "page", NEW e \in Reads!Matching(Variants[request.variant]) \cap
                   Reads!Matching(Variants[request.variant])'
        PROVE  \/ ~(Reads!Place(e, Variants[request.variant]) > request.offset)
               \/ ~(Reads!Place(e, Variants[request.variant])' <= request.offset)
               \/ e \in slipped'
      BY <1>2, <1>4 DEF Reads!Other
  <1>5. CASE \E c \in Contents : Reads!Save(d, c)
    <2>1. PICK c \in Contents : Reads!Save(d, c)
        BY <1>5
    <2>2. /\ doc' = [doc EXCEPT ![d].body = Append(@, c), ![d].stamp = Reads!NextStamp]
          /\ saved' = saved \cup {<<d, Reads!Version(d) + 1>>} /\ Reads!Content(d) # c
        BY <2>1 DEF Reads!Save
    <2>3. Reads!NextStamp \in Nat /\ c \in SUBSET Links
        BY StampIs DEF ReadingGiven
    <2>4. /\ GoodDocs(doc')
          /\ \A e \in Documents : e # d => doc'[e] = doc[e]
          /\ doc'[d].space = doc[d].space
          /\ DOMAIN doc'[d].body = 1..(Reads!Version(d) + 1)
          /\ \A n \in 1..Reads!Version(d) : doc'[d].body[n] = doc[d].body[n]
        BY <1>1, <2>2, <2>3, OneMore
    <2>5. DOMAIN doc[d].body = 1..Reads!Version(d) /\ Reads!Version(d) \in Nat
        BY <1>1, DocFacts
    <2>6. \A n \in DOMAIN doc'[d].body : n \in DOMAIN doc[d].body \/ n = Reads!Version(d) + 1
        BY <2>4, <2>5
    <2>7. \A n \in DOMAIN doc[d].body : n \in DOMAIN doc'[d].body
        BY <2>4, <2>5
    <2> QED
        BY <1>3, <1>4, <2>2, <2>4, <2>5, <2>6, <2>7 DEF ByOthers
  <1>6. CASE Reads!Delete(d) \/ Reads!Rescope(d) \/ \E role \in Access : Reads!Grant(d, role)
    <2>1. /\ \E live \in BOOLEAN, role \in Access, scoped \in BOOLEAN :
                doc' = [doc EXCEPT ![d].live = live, ![d].role = role, ![d].scoped = scoped]
          /\ saved' = saved
      <3>1. doc \in [Documents -> Rows] /\ doc[d] \in Rows /\ doc[d].live \in BOOLEAN /\
                doc[d].role \in Access /\ doc[d].scoped \in BOOLEAN
          BY <1>1, DocFacts DEF GoodDocs, Rows
      <3>2. CASE Reads!Delete(d)
        <4>1. doc' = [doc EXCEPT ![d].live = FALSE] /\ saved' = saved
            BY <3>2 DEF Reads!Delete
        <4>2. doc' = [doc EXCEPT ![d].live = FALSE, ![d].role = doc[d].role, ![d].scoped = doc[d].scoped]
            BY <3>1, <4>1 DEF Rows
        <4> QED
            BY <3>1, <4>1, <4>2
      <3>3. ASSUME NEW role \in Access, Reads!Grant(d, role)
            PROVE  /\ \E live \in BOOLEAN, given \in Access, scoped \in BOOLEAN :
                         doc' = [doc EXCEPT ![d].live = live, ![d].role = given, ![d].scoped = scoped]
                   /\ saved' = saved
        <4>1. doc' = [doc EXCEPT ![d].role = role] /\ saved' = saved
            BY <3>3 DEF Reads!Grant
        <4>2. doc' = [doc EXCEPT ![d].live = doc[d].live, ![d].role = role, ![d].scoped = doc[d].scoped]
            BY <3>1, <4>1 DEF Rows
        <4> QED
            BY <3>1, <4>1, <4>2
      <3>4. CASE Reads!Rescope(d)
        <4>1. doc' = [doc EXCEPT ![d].scoped = ~doc[d].scoped] /\ saved' = saved
            BY <3>4 DEF Reads!Rescope
        <4>2. doc' = [doc EXCEPT ![d].live = doc[d].live, ![d].role = doc[d].role,
                                 ![d].scoped = ~doc[d].scoped]
            BY <3>1, <4>1 DEF Rows
        <4> QED
            BY <3>1, <4>1, <4>2
      <3> QED
          BY <1>6, <3>2, <3>3, <3>4
    <2>2. /\ GoodDocs(doc')
          /\ \A e \in Documents : e # d => doc'[e] = doc[e]
          /\ doc'[d].space = doc[d].space /\ doc'[d].body = doc[d].body
        BY <1>1, <2>1, Marked
    <2> QED
        BY <1>3, <1>4, <2>1, <2>2 DEF ByOthers
  <1> QED
      BY <1>5, <1>6

(* What of a document depends on the document alone.                       *)
LEMMA SameDoc ==
    ASSUME NEW e \in Documents, doc'[e] = doc[e]
    PROVE  /\ Reads!Roles'[e] = Reads!Roles[e] /\ Reads!Version(e)' = Reads!Version(e)
           /\ Reads!Content(e)' = Reads!Content(e)
           /\ Reads!HasDecision(e)' = Reads!HasDecision(e)
           /\ request'.agent = request.agent => Reads!InScope(e)' = Reads!InScope(e)
           /\ \A w : request'.space = request.space =>
                  (e \in Reads!Matching(w)') = (e \in Reads!Matching(w))
  <1>1. Reads!Content(e)' = Reads!Content(e) /\ Reads!Version(e)' = Reads!Version(e) /\
            Reads!Roles'[e] = Reads!Roles[e]
      BY DEF Reads!Content, Reads!Version, Reads!Roles
  <1>2. Reads!HasDecision(e)' = Reads!HasDecision(e)
      BY <1>1 DEF Reads!HasDecision, Reads!LinkedBy
  <1>3. ASSUME NEW w, request'.space = request.space
        PROVE  (e \in Reads!Matching(w)') = (e \in Reads!Matching(w))
    <2>1. Reads!Words(e)' = Reads!Words(e)
        BY <1>1 DEF Reads!Words
    <2>2. (e \in Reads!Live(request.space)') = (e \in Reads!Live(request.space))
        BY <1>3 DEF Reads!Live
    <2> QED
        BY <2>1, <2>2 DEF Reads!Matching
  <1>4. request'.agent = request.agent => Reads!InScope(e)' = Reads!InScope(e)
      BY DEF Reads!InScope
  <1> QED
      BY <1>1, <1>2, <1>3, <1>4

-----------------------------------------------------------------------------
(* What each step of a request makes of it.                                *)
Fresh == /\ request'.found = <<>> /\ request'.said = <<>> /\ request'.failed = FALSE
         /\ request'.variant = 1 /\ request'.offset = 0
Alone == UNCHANGED <<doc, Reads!changes>>

LEMMA StartsAre ==
    ASSUME NEW kind
    PROVE  /\ \A s : Reads!StartSearch(kind, s) =>
                 /\ RequestFields' /\ Fresh /\ Alone /\ request.at = "idle"
                 /\ request'.kind = kind /\ request'.at = "page"
                 /\ request'.space = s /\ request'.roles = Reads!Roles
           /\ \A d : Reads!StartRead(kind, d) =>
                 /\ RequestFields' /\ Fresh /\ Alone /\ request.at = "idle"
                 /\ request'.kind = kind /\ request'.at = "row" /\ request'.todo = <<d>>
           /\ \A asked : Reads!StartList(kind, asked) =>
                 /\ RequestFields' /\ Fresh /\ Alone /\ request.at = "idle"
                 /\ request'.kind = kind /\ request'.at = "list"
                 /\ request'.roles = [s \in asked |-> None] /\ request'.lists = [s \in asked |-> None]
  <1>1. ASSUME NEW s, Reads!StartSearch(kind, s)
        PROVE  /\ RequestFields' /\ Fresh /\ Alone /\ request.at = "idle"
               /\ request'.kind = kind /\ request'.at = "page"
               /\ request'.space = s /\ request'.roles = Reads!Roles
    <2>1. request' = [[Reads!Idle EXCEPT !.space = s, !.roles = Reads!Roles] EXCEPT !.at = "page",
              !.kind = kind]
        BY <1>1 DEF Reads!StartSearch, Reads!Begin, Reads!Go
    <2> QED
        BY <1>1, <2>1 DEF Reads!StartSearch, Reads!Begin, Alone, Fresh, RequestFields, Reads!Idle
  <1>2. ASSUME NEW d, Reads!StartRead(kind, d)
        PROVE  /\ RequestFields' /\ Fresh /\ Alone /\ request.at = "idle"
               /\ request'.kind = kind /\ request'.at = "row" /\ request'.todo = <<d>>
    <2>1. request' = [[Reads!Idle EXCEPT !.todo = <<d>>] EXCEPT !.at = "row", !.kind = kind]
        BY <1>2 DEF Reads!StartRead, Reads!Begin, Reads!Go
    <2> QED
        BY <1>2, <2>1 DEF Reads!StartRead, Reads!Begin, Alone, Fresh, RequestFields, Reads!Idle
  <1>3. ASSUME NEW asked, Reads!StartList(kind, asked)
        PROVE  /\ RequestFields' /\ Fresh /\ Alone /\ request.at = "idle"
               /\ request'.kind = kind /\ request'.at = "list"
               /\ request'.roles = [s \in asked |-> None] /\ request'.lists = [s \in asked |-> None]
    <2>1. request' = [[Reads!Idle EXCEPT !.roles = [s \in asked |-> None],
              !.lists = [s \in asked |-> None]]
                 EXCEPT !.at = "list", !.kind = kind]
        BY <1>3 DEF Reads!StartList, Reads!Begin, Reads!Go
    <2> QED
        BY <1>3, <2>1 DEF Reads!StartList, Reads!Begin, Alone, Fresh, RequestFields, Reads!Idle
  <1> QED
      BY <1>1, <1>2, <1>3

RewriteOf(space, pairs, dry, agent, mine, todo) ==
    /\ mine = {d \in Reads!Live(space) : doc[d].role = "editor"} /\ todo \in Reads!SetToSeqs(mine)
    /\ request'.at = (IF mine = {} THEN "done" ELSE "rewrite")
    /\ request'.pairs = pairs /\ request'.dry = dry /\ request'.agent = agent /\ request'.todo = todo
    /\ request'.rows = [d \in mine |-> Reads!Version(d)]

LEMMA RewriteStarts ==
    ASSUME NEW space, NEW pairs, NEW dry, NEW agent, Reads!StartRewrite(space, pairs, dry, agent)
    PROVE  /\ RequestFields' /\ Fresh /\ Alone /\ request.at = "idle"
           /\ request'.kind = "rewrite" /\ request'.at \in {"rewrite", "done"}
           /\ \E mine, todo : RewriteOf(space, pairs, dry, agent, mine, todo)
  <1>1. PICK mine : mine = {d \in Reads!Live(space) : doc[d].role = "editor"}
      OBVIOUS
  <1>2. PICK todo \in Reads!SetToSeqs(mine) :
           Reads!Begin("rewrite", IF mine = {} THEN "done" ELSE "rewrite",
                       [Reads!Idle EXCEPT !.space = space, !.pairs = pairs, !.dry = dry, !.agent = agent,
                                          !.todo = todo, !.rows = [d \in mine |-> Reads!Version(d)]])
      BY <1>1 DEF Reads!StartRewrite
  <1>3. PICK at : at = IF mine = {} THEN "done" ELSE "rewrite"
      OBVIOUS
  <1>4. request' = [[Reads!Idle EXCEPT !.space = space, !.pairs = pairs, !.dry = dry, !.agent = agent,
                                       !.todo = todo, !.rows = [d \in mine |-> Reads!Version(d)]]
                 EXCEPT !.at = at, !.kind = "rewrite"]
      BY <1>2, <1>3 DEF Reads!Begin, Reads!Go
  <1>5. /\ RequestFields' /\ Fresh
        /\ request'.kind = "rewrite" /\ request'.at = at
        /\ request'.pairs = pairs /\ request'.dry = dry /\ request'.agent = agent /\ request'.todo = todo
        /\ request'.rows = [d \in mine |-> Reads!Version(d)]
      BY <1>4 DEF Fresh, RequestFields, Reads!Idle
  <1>6. Alone /\ request.at = "idle"
      BY <1>2 DEF Reads!Begin, Alone
  <1> QED
      BY <1>1, <1>2, <1>3, <1>5, <1>6 DEF RewriteOf

Shown(all, found) ==
    Reads!Kept(Reads!Slice(all, request.offset, PageSize), {d \in Documents :
        request.roles[d] # "none"} \ Reads!Range(found))

LEMMA SearchPageIs ==
    ASSUME RequestFields, Reads!SearchPage
    PROVE  /\ request.at = "page" /\ Alone /\ RequestFields'
           /\ request'.kind = request.kind /\ request'.space = request.space
           /\ request'.roles = request.roles
           /\ request'.said = request.said /\ request'.failed = request.failed
           /\ \E all \in Reads!Ordered(Variants[request.variant]) : \E shown \in Shown(all, request.found) : \E ended \in BOOLEAN :
                 /\ ended <=> \/ Len(Reads!Slice(all, request.offset, PageSize)) < PageSize
                              \/ request.offset + PageSize >= ScanCap
                 /\ request'.found = Reads!FirstOf(request.found \o shown, Limit)
                 /\ ended => request'.offset = 0 /\ request'.variant = request.variant + 1
                 /\ ~ended => request'.offset = request.offset + PageSize /\
                        request'.variant = request.variant
                 /\ request'.at \in {"page", "snippets"}
                 /\ request'.at = "snippets" <=>
                       (Len(request'.found) = Limit \/ (ended /\ request.variant = Len(Variants)))
  <1>1. PICK all \in Reads!Ordered(Variants[request.variant]) : \E shown \in Shown(all, request.found) :
           LET found == Reads!FirstOf(request.found \o shown, Limit)
               ended == \/ Reads!LastPage(Reads!Slice(all, request.offset, PageSize), shown)
                        \/ request.offset + PageSize >= ScanCap IN
           request' = [request EXCEPT !.found = found,
                      !.offset = IF ended THEN 0 ELSE @ + PageSize,
                      !.variant = IF ended THEN @ + 1 ELSE @,
                      !.at = IF Len(found) = Limit \/ (ended /\ request.variant = Len(Variants))
                             THEN "snippets" ELSE "page"]
      BY DEF Reads!SearchPage, Reads!Go, Shown
  <1>2. PICK shown \in Shown(all, request.found) :
           LET found == Reads!FirstOf(request.found \o shown, Limit)
               ended == \/ Reads!LastPage(Reads!Slice(all, request.offset, PageSize), shown)
                        \/ request.offset + PageSize >= ScanCap IN
           request' = [request EXCEPT !.found = found,
                      !.offset = IF ended THEN 0 ELSE @ + PageSize,
                      !.variant = IF ended THEN @ + 1 ELSE @,
                      !.at = IF Len(found) = Limit \/ (ended /\ request.variant = Len(Variants))
                             THEN "snippets" ELSE "page"]
      BY <1>1
  <1>3. PICK found : found = Reads!FirstOf(request.found \o shown, Limit)
      OBVIOUS
  <1>4. PICK ended \in BOOLEAN :
           ended <=> \/ Len(Reads!Slice(all, request.offset, PageSize)) < PageSize
                     \/ request.offset + PageSize >= ScanCap
      OBVIOUS
  <1>5. PICK at : at = IF Len(found) = Limit \/
                 (ended /\ request.variant = Len(Variants)) THEN "snippets" ELSE "page"
      OBVIOUS
  <1>6. ASSUME ended
        PROVE  request' = [request EXCEPT !.found = found, !.offset = 0,
                   !.variant = request.variant + 1, !.at = at]
      BY <1>2, <1>3, <1>4, <1>5, <1>6 DEF Reads!LastPage
  <1>7. ASSUME ~ended
        PROVE  request' = [request EXCEPT !.found = found, !.offset = request.offset + PageSize,
                                          !.variant = request.variant, !.at = at]
      BY <1>2, <1>3, <1>4, <1>5, <1>7 DEF Reads!LastPage
  <1>8. PICK offset, variant :
           /\ ended => offset = 0 /\ variant = request.variant + 1
           /\ ~ended => offset = request.offset + PageSize /\ variant = request.variant
    <2>1. CASE ended
        BY <2>1
    <2>2. CASE ~ended
        BY <2>2
    <2> QED
        BY <2>1, <2>2
  <1>9. request' = [request EXCEPT !.found = found, !.offset = offset, !.variant = variant, !.at = at]
      BY <1>6, <1>7, <1>8
  <1>10. /\ RequestFields' /\ request'.found = found /\ request'.offset = offset
         /\ request'.variant = variant /\ request'.at = at
         /\ request'.kind = request.kind /\ request'.space = request.space
         /\ request'.roles = request.roles
         /\ request'.said = request.said /\ request'.failed = request.failed
      BY <1>9 DEF RequestFields
  <1>11. request.at = "page" /\ Alone
      BY DEF Reads!SearchPage, Alone
  <1>12. at \in {"page", "snippets"} /\
             (at = "snippets" <=> (Len(found) = Limit \/ (ended /\ request.variant = Len(Variants))))
      BY <1>5
  <1>13. /\ ended => request'.offset = 0 /\ request'.variant = request.variant + 1
         /\ ~ended => request'.offset = request.offset + PageSize /\ request'.variant = request.variant
      BY <1>8, <1>10
  <1> QED
      BY <1>3, <1>4, <1>10, <1>11, <1>12, <1>13

Still == request'.kind = request.kind /\ RequestFields'

LEMMA SnippetsIs ==
    ASSUME RequestFields, Reads!Snippets
    PROVE  /\ request.at = "snippets" /\ Alone /\ Still
           /\ request'.space = request.space /\ request'.roles = request.roles
           /\ request'.found = request.found /\ request'.said = request.said
           /\ request'.failed = request.failed
           /\ request'.variant = request.variant /\ request'.offset = request.offset
           /\ request'.todo = request.found
           /\ request'.at = (IF request.kind = "answer" /\ request.found # <<>> THEN "row" ELSE "done")
  <1>1. PICK at, rows :
           /\ at = IF request.kind = "answer" /\ request.found # <<>> THEN "row" ELSE "done"
           /\ request' = [request EXCEPT !.rows = rows, !.todo = request.found, !.at = at]
      BY DEF Reads!Snippets, Reads!Go
  <1> QED
      BY <1>1 DEF Reads!Snippets, Alone, Still, RequestFields

Unread == /\ request'.space = request.space /\ request'.roles = request.roles
          /\ request'.found = request.found /\ request'.variant = request.variant
          /\ request'.offset = request.offset

LEMMA FailIs ==
    ASSUME RequestFields, Reads!Fail
    PROVE  /\ Still /\ Unread /\ request'.at = "done" /\ request'.failed = TRUE
           /\ request'.said = request.said /\ request'.todo = request.todo
  <1>1. request' = [request EXCEPT !.at = "done", !.failed = TRUE]
      BY DEF Reads!Fail, Reads!Go
  <1> QED
      BY <1>1 DEF Still, Unread, RequestFields

LEMMA ReadRowIs ==
    ASSUME RequestFields, Reads!ReadRow
    PROVE  /\ request.at = "row" /\ Alone /\ Still /\ Unread
           /\ request'.said = request.said /\ request'.todo = request.todo
           /\ \/ /\ ~doc[Head(request.todo)].live /\ request'.at = "done" /\ request'.failed = TRUE
              \/ /\ doc[Head(request.todo)].live /\ request'.at = "body"
                 /\ request'.failed = request.failed
                 /\ request'.seen = Reads!Version(Head(request.todo))
  <1>1. request.at = "row" /\ Alone
      BY DEF Reads!ReadRow, Alone
  <1>2. CASE doc[Head(request.todo)].live
    <2>1. request' = [request EXCEPT !.at = "body", !.seen = Reads!Version(Head(request.todo))]
        BY <1>2 DEF Reads!ReadRow, Reads!Go
    <2> QED
        BY <1>1, <1>2, <2>1 DEF Still, Unread, RequestFields
  <1>3. CASE ~doc[Head(request.todo)].live
    <2>1. Reads!Fail
        BY <1>3 DEF Reads!ReadRow
    <2> QED
        BY <1>1, <1>3, <2>1, FailIs
  <1> QED
      BY <1>2, <1>3

Chunk == [version |-> request.seen, content |-> doc[Head(request.todo)].body[request.seen]]
Again == \/ request.kind = "chunks" /\ Len(request.said) = 0
         \/ request.kind = "answer" /\ Len(request.todo) > 1

LEMMA ReadBodyIs ==
    ASSUME RequestFields, Reads!ReadBody
    PROVE  /\ request.at = "body" /\ Alone /\ Still /\ Unread
           /\ \/ /\ Reads!Roles[Head(request.todo)] = "none" /\ request'.at = "done"
                 /\ request'.failed = TRUE
                 /\ request'.said = request.said /\ request'.todo = request.todo
              \/ /\ request'.said = Append(request.said, Chunk) /\ request'.failed = request.failed
                 /\ request'.todo = (IF request.kind = "answer" THEN Tail(request.todo) ELSE request.todo)
                 /\ Again => request'.at = "row"
                 /\ ~Again => request'.at = IF request.kind = "latest" THEN "latest" ELSE "done"
  <1>1. request.at = "body" /\ Alone
      BY DEF Reads!ReadBody, Alone
  <1>2. CASE Reads!Roles[Head(request.todo)] # "none"
    <2>1. PICK at : at = IF Again THEN "row" ELSE IF request.kind = "latest" THEN "latest" ELSE "done"
        OBVIOUS
    <2>2. PICK todo : todo = IF request.kind = "answer" THEN Tail(request.todo) ELSE request.todo
        OBVIOUS
    <2>3. PICK chunk : chunk = Chunk
        OBVIOUS
    <2>4. request' = [request EXCEPT !.at = at, !.said = Append(@, chunk),
                         !.todo = IF request.kind = "answer" THEN Tail(@) ELSE @]
        BY <1>2, <2>1, <2>3 DEF Reads!ReadBody, Again, Chunk, Reads!Go
    <2>5. request' = [request EXCEPT !.at = at, !.said = Append(@, chunk), !.todo = todo]
        BY <2>2, <2>4
    <2>6. /\ Still /\ Unread /\ request'.said = Append(request.said, chunk)
          /\ request'.failed = request.failed
          /\ request'.todo = todo /\ request'.at = at
        BY <2>5 DEF Still, Unread, RequestFields
    <2> QED
        BY <1>1, <2>1, <2>2, <2>3, <2>6
  <1>3. CASE Reads!Roles[Head(request.todo)] = "none"
    <2>1. Reads!Fail
        BY <1>3 DEF Reads!ReadBody
    <2> QED
        BY <1>1, <1>3, <2>1, FailIs
  <1> QED
      BY <1>2, <1>3

LEMMA ReadLatestIs ==
    ASSUME RequestFields, Reads!ReadLatest
    PROVE  LET d == Head(request.todo)
               previous == Reads!Version(d) - 1 IN
           /\ request.at = "latest" /\ Alone /\ Still /\ Unread /\ request'.at = "done"
           /\ request'.failed = request.failed /\ request'.todo = request.todo
           /\ request'.said = Append(request.said, [version |-> previous,
                                         content |-> IF previous = 0
                                             THEN None ELSE doc[d].body[previous]])
  <1>1. PICK chunk : chunk = [version |-> Reads!Version(Head(request.todo)) - 1,
                              content |-> IF Reads!Version(Head(request.todo)) - 1 = 0 THEN None
                                          ELSE doc[Head(request.todo)].body[Reads!Version(Head(request.todo)) - 1]]
      OBVIOUS
  <1>2. request' = [request EXCEPT !.at = "done", !.said = Append(@, chunk)]
      BY <1>1 DEF Reads!ReadLatest, Reads!Go
  <1>3. /\ Still /\ Unread /\ request'.at = "done" /\ request'.failed = request.failed
        /\ request'.todo = request.todo /\ request'.said = Append(request.said, chunk)
      BY <1>2 DEF Still, Unread, RequestFields
  <1> QED
      BY <1>1, <1>3 DEF Reads!ReadLatest, Alone

LEMMA ListStepsAre ==
    ASSUME RequestFields
    PROVE  /\ \A s : Reads!ResolveIn(s) =>
                 /\ request.at = "list" /\ Alone /\ Still /\ request'.at = "list"
                 /\ request'.said = request.said /\ request'.failed = request.failed
                 /\ s \in DOMAIN request.lists /\ request'.lists = request.lists
                 /\ request'.roles = [request.roles EXCEPT ![s] = Reads!Roles]
           /\ \A kind, s, rows : Reads!Asked(kind, s) /\ Reads!Answer(s, rows) =>
                 /\ request.at = "list" /\ request.kind = kind /\ Alone /\ Still /\ request'.at = "list"
                 /\ request'.said = request.said /\ request'.failed = request.failed
                 /\ s \in DOMAIN request.lists /\ request.roles[s] # None
                 /\ request'.roles = request.roles
                 /\ request'.lists = [request.lists EXCEPT ![s] =
                        [i \in DOMAIN rows |-> <<rows[i], doc[rows[i]].stamp>>]]
           /\ \A kind, found : Reads!Answered(kind) /\ Reads!Finish(found) =>
                 /\ request.at = "list" /\ request.kind = kind /\ Alone /\ Still /\ request'.at = "done"
                 /\ request'.said = request.said /\ request'.failed = request.failed
                 /\ request'.lists = request.lists /\ request'.found = found
                 /\ \A s \in DOMAIN request.lists : request.lists[s] # None
  <1>1. ASSUME NEW s, Reads!ResolveIn(s)
        PROVE  /\ request.at = "list" /\ Alone /\ Still /\ request'.at = "list"
               /\ request'.said = request.said /\ request'.failed = request.failed
               /\ s \in DOMAIN request.lists /\ request'.lists = request.lists
               /\ request'.roles = [request.roles EXCEPT ![s] = Reads!Roles]
    <2>1. request' = [request EXCEPT !.roles[s] = Reads!Roles]
        BY <1>1 DEF Reads!ResolveIn, Reads!Go
    <2> QED
        BY <1>1, <2>1 DEF Reads!ResolveIn, Alone, Still, RequestFields
  <1>2. ASSUME NEW kind, NEW s, NEW rows, Reads!Asked(kind, s), Reads!Answer(s, rows)
        PROVE  /\ request.at = "list" /\ request.kind = kind /\ Alone /\ Still /\ request'.at = "list"
               /\ request'.said = request.said /\ request'.failed = request.failed
               /\ s \in DOMAIN request.lists /\ request.roles[s] # None
               /\ request'.roles = request.roles
               /\ request'.lists = [request.lists EXCEPT ![s] =
                      [i \in DOMAIN rows |-> <<rows[i], doc[rows[i]].stamp>>]]
    <2>1. PICK list : list = [i \in DOMAIN rows |-> <<rows[i], doc[rows[i]].stamp>>]
        OBVIOUS
    <2>2. request' = [request EXCEPT !.lists[s] = list]
        BY <1>2, <2>1 DEF Reads!Answer, Reads!Go
    <2> QED
        BY <1>2, <2>1, <2>2 DEF Reads!Asked, Reads!Answer, Alone, Still, RequestFields
  <1>3. ASSUME NEW kind, NEW found, Reads!Answered(kind), Reads!Finish(found)
        PROVE  /\ request.at = "list" /\ request.kind = kind /\ Alone /\ Still /\ request'.at = "done"
               /\ request'.said = request.said /\ request'.failed = request.failed
               /\ request'.lists = request.lists /\ request'.found = found
               /\ \A s \in DOMAIN request.lists : request.lists[s] # None
    <2>1. request' = [request EXCEPT !.at = "done", !.found = found]
        BY <1>3 DEF Reads!Finish, Reads!Go
    <2>2. \A s \in DOMAIN request.lists : request.lists[s] # None
        BY <1>3 DEF Reads!Answered, Reads!Range
    <2> QED
        BY <1>3, <2>1, <2>2 DEF Reads!Answered, Reads!Finish, Alone, Still, RequestFields
  <1> QED
      BY <1>1, <1>2, <1>3

Outcome(d) ==
    IF ~Reads!Occurs(doc[d].body[request.rows[d]], request.pairs) THEN "skipped"
    ELSE IF request.dry THEN "would_write"
    ELSE IF Reads!MayWrite(d) /\ Reads!Version(d) = request.rows[d] THEN "written" ELSE "error"

LEMMA RewriteNextIs ==
    ASSUME RequestFields, Reads!RewriteNext
    PROVE  LET d == Head(request.todo)
               content == doc[d].body[request.rows[d]]
               next == Reads!Rewritten(content, request.pairs) IN
           /\ request.at = "rewrite" /\ UNCHANGED Reads!changes /\ Still
           /\ request'.pairs = request.pairs /\ request'.dry = request.dry /\ request'.rows = request.rows
           /\ request'.failed = request.failed /\ request'.agent = request.agent
           /\ request'.todo = Tail(request.todo)
           /\ request'.said = Append(request.said, <<d, Outcome(d)>>)
           /\ request'.at = (IF Len(request.todo) = 1 THEN "done" ELSE "rewrite")
           /\ \/ doc' = doc /\ ~(Outcome(d) = "written" /\ next # content)
              \/ /\ doc' = [doc EXCEPT ![d].body = Append(@, next), ![d].stamp = Reads!NextStamp]
                 /\ Outcome(d) = "written" /\ next # content
  <1>1. PICK d : d = Head(request.todo)
      OBVIOUS
  <1>2. PICK outcome : outcome = Outcome(d)
      OBVIOUS
  <1>3. PICK next : next = Reads!Rewritten(doc[d].body[request.rows[d]], request.pairs)
      OBVIOUS
  <1>4. /\ request.at = "rewrite" /\ UNCHANGED Reads!changes
        /\ request' = [request EXCEPT !.todo = Tail(@), !.said = Append(@, <<d, outcome>>),
                            !.at = IF Len(request.todo) = 1 THEN "done" ELSE @]
        /\ doc' = IF outcome = "written" /\ next # doc[d].body[request.rows[d]]
                  THEN [doc EXCEPT ![d].body = Append(@, next), ![d].stamp = Reads!NextStamp] ELSE doc
      BY <1>1, <1>2, <1>3 DEF Reads!RewriteNext, Outcome, Reads!Go
  <1>5. PICK at : at = IF Len(request.todo) = 1 THEN "done" ELSE "rewrite"
      OBVIOUS
  <1>6. request' = [request EXCEPT !.todo = Tail(@), !.said = Append(@, <<d, outcome>>), !.at = at]
      BY <1>4, <1>5
  <1>7. /\ Still /\ request'.failed = request.failed /\ request'.agent = request.agent
        /\ request'.pairs = request.pairs /\ request'.dry = request.dry /\ request'.rows = request.rows
        /\ request'.todo = Tail(request.todo) /\ request'.said = Append(request.said, <<d, outcome>>)
        /\ request'.at = at
      BY <1>6 DEF Still, RequestFields
  <1>8. CASE outcome = "written" /\ next # doc[d].body[request.rows[d]]
      BY <1>1, <1>2, <1>3, <1>4, <1>5, <1>7, <1>8
  <1>9. CASE ~(outcome = "written" /\ next # doc[d].body[request.rows[d]])
      BY <1>1, <1>2, <1>3, <1>4, <1>5, <1>7, <1>9
  <1> QED
      BY <1>8, <1>9

-----------------------------------------------------------------------------
(* Rewriting.                                                              *)
Upto(name, pairs, k) ==
    {w \in [0..k -> {name} \cup {pairs[i][2] : i \in DOMAIN pairs}] :
        /\ w[0] = name
        /\ \A i \in 1..k : w[i] = IF w[i - 1] = pairs[i][1] THEN pairs[i][2] ELSE w[i - 1]}

LEMMA TrailGoesOn ==
    ASSUME NEW pairs, NEW name, NEW k \in Nat, k # 0, k \in DOMAIN pairs,
           NEW w \in Upto(name, pairs, k - 1)
    PROVE  Upto(name, pairs, k) # {}
  <1> DEFINE T == {name} \cup {pairs[i][2] : i \in DOMAIN pairs}
  <1>1. PICK next \in T : next = IF w[k - 1] = pairs[k][1] THEN pairs[k][2] ELSE w[k - 1]
    <2>1. w[k - 1] \in T
        BY DEF Upto
    <2> QED
        BY <2>1
  <1>2. PICK v : v = [i \in 0..k |-> IF i = k THEN next ELSE w[i]]
      OBVIOUS
  <1>3. \A i \in 0..(k - 1) : v[i] = w[i] /\ w[i] \in T
      BY <1>2 DEF Upto
  <1>4. v[k] = next /\ k - 1 \in 0..(k - 1) /\ 0 \in 0..(k - 1)
      BY <1>2
  <1>5. v \in [0..k -> T]
    <2>1. \A i \in 0..k : i # k => i \in 0..(k - 1)
        OBVIOUS
    <2> QED
        BY <1>2, <1>3, <1>4, <2>1
  <1>6. ASSUME NEW i \in 1..k
        PROVE  v[i] = IF v[i - 1] = pairs[i][1] THEN pairs[i][2] ELSE v[i - 1]
    <2>1. CASE i = k
        BY <1>1, <1>3, <1>4, <2>1
    <2>2. CASE i # k
      <3>1. i \in 1..(k - 1) /\ i \in 0..(k - 1) /\ i - 1 \in 0..(k - 1)
          BY <2>2
      <3> QED
          BY <1>3, <3>1 DEF Upto
    <2> QED
        BY <2>1, <2>2
  <1>7. v[0] = name
      BY <1>3, <1>4 DEF Upto
  <1>8. v \in Upto(name, pairs, k)
      BY <1>5, <1>6, <1>7 DEF Upto
  <1> QED
      BY <1>8

LEMMA TrailsAreThere ==
    ASSUME NEW pairs, GoodPairs(pairs), NEW name
    PROVE  Reads!Trails(name, pairs) # {}
  <1>1. PICK n \in Nat : n = Len(pairs)
      BY LenProperties DEF GoodPairs
  <1>2. DOMAIN pairs = 1..n
      BY <1>1, LenProperties DEF GoodPairs
  <1>3. Reads!Trails(name, pairs) = Upto(name, pairs, n)
      BY <1>1, <1>2 DEF Reads!Trails, Upto
  <1> DEFINE S == {k \in 0..n : Upto(name, pairs, k) = {}}
  <1>4. SUFFICES ASSUME S # {} PROVE FALSE
    <2>1. n \in 0..n
        BY <1>1
    <2> QED
        BY <1>3, <2>1
  <1>5. S \in SUBSET (0..n)
      OBVIOUS
  <1> HIDE DEF S
  <1>6. PICK k \in S : \A f \in S : k <= f
      BY <1>4, <1>5, LeastIs
  <1>7. k \in 0..n /\ Upto(name, pairs, k) = {}
      BY <1>6 DEF S
  <1>8. k # 0
    <2>1. [i \in 0..0 |-> name] \in Upto(name, pairs, 0)
        BY DEF Upto
    <2> QED
        BY <1>7, <2>1
  <1>9. k - 1 \in 0..n /\ k \in 1..n /\ k \in Nat
      BY <1>7, <1>8
  <1>10. Upto(name, pairs, k - 1) # {}
    <2>1. k - 1 \notin S
        BY <1>6, <1>9
    <2> QED
        BY <1>9, <2>1 DEF S
  <1> QED
      BY <1>2, <1>7, <1>8, <1>9, <1>10, TrailGoesOn

LEMMA RewrittenIs ==
    ASSUME NEW pairs, GoodPairs(pairs), NEW c \in SUBSET Links
    PROVE  /\ Reads!Rewritten(c, pairs) \in SUBSET Links
           /\ \A i \in DOMAIN pairs : pairs[i][1] \in Reads!LinkedBy(Reads!Rewritten(c, pairs),
                  Reads!Exact) =>
                 \E j \in (i + 1)..Len(pairs) : pairs[j][2] = pairs[i][1]
           /\ ~Reads!Occurs(c, pairs) => \A i \in DOMAIN pairs :
                  pairs[i][1] \notin Reads!LinkedBy(c, Reads!Exact)
  <1>1. ASSUME NEW l \in Reads!Rewritten(c, pairs)
        PROVE  /\ l \in Links
               /\ l.form \in Reads!Exact => \E k \in c : k.form \in Reads!Exact /\
                      \E w \in Reads!Trails(k.to, pairs) : l.to = w[Len(pairs)]
    <2>1. CASE l \in c /\ l.form \notin Reads!Exact
        BY <2>1
    <2>2. CASE \E k \in c : k.form \in Reads!Exact /\ \E w \in Reads!Trails(k.to, pairs) :
                   l = [k EXCEPT !.to = w[Len(pairs)]]
      <3>1. PICK k \in c : k.form \in Reads!Exact /\ \E w \in Reads!Trails(k.to, pairs) :
                     l = [k EXCEPT !.to = w[Len(pairs)]]
          BY <2>2
      <3>2. PICK w \in Reads!Trails(k.to, pairs) : l = [k EXCEPT !.to = w[Len(pairs)]]
          BY <3>1
      <3>3. k \in Links /\ k.to \in Names /\ k.form \in Forms
          BY DEF Links
      <3>4. w[Len(pairs)] \in Names
          BY <3>3, TrailsEnd
      <3>5. k = [form |-> k.form, to |-> k.to]
          BY <3>3 DEF Links
      <3>6. l.to = w[Len(pairs)] /\ l \in Links
        <4>1. l = [form |-> l.form, to |-> l.to] /\ l.form = k.form /\ l.to = w[Len(pairs)]
            BY <3>2, <3>5
        <4> QED
            BY <3>3, <3>4, <4>1 DEF Links
      <3> QED
          BY <3>1, <3>6
    <2> QED
        BY <2>1, <2>2 DEF Reads!Rewritten
  <1>2. ASSUME NEW i \in DOMAIN pairs, pairs[i][1] \in Reads!LinkedBy(Reads!Rewritten(c, pairs),
                   Reads!Exact)
        PROVE  \E j \in (i + 1)..Len(pairs) : pairs[j][2] = pairs[i][1]
    <2>1. PICK l \in Reads!Rewritten(c, pairs) : l.form \in Reads!Exact /\ l.to = pairs[i][1]
        BY <1>2 DEF Reads!LinkedBy
    <2>2. PICK k \in c : k.form \in Reads!Exact /\ \E w \in Reads!Trails(k.to, pairs) :
                   l.to = w[Len(pairs)]
        BY <1>1, <2>1
    <2>3. PICK w \in Reads!Trails(k.to, pairs) : l.to = w[Len(pairs)]
        BY <2>2
    <2>4. k.to \in Names
        BY DEF Links
    <2>5. w[Len(pairs)] = pairs[i][1]
        BY <2>1, <2>3
    <2>6. \A n \in DOMAIN pairs : w[Len(pairs)] = pairs[n][1] =>
              \E j \in (n + 1)..Len(pairs) : pairs[j][2] = pairs[n][1]
        BY <2>4, TrailsEnd
    <2> QED
        BY <2>5, <2>6
  <1>3. ASSUME ~Reads!Occurs(c, pairs), NEW i \in DOMAIN pairs, pairs[i][1] \in Reads!LinkedBy(c,
                   Reads!Exact)
        PROVE  FALSE
    <2>1. PICK l \in c : l.form \in Reads!Exact /\ l.to = pairs[i][1]
        BY <1>3 DEF Reads!LinkedBy
    <2>2. PICK w \in Reads!Trails(l.to, pairs) : TRUE
        BY TrailsAreThere
    <2>3. \A j \in DOMAIN pairs : w[j - 1] # pairs[j][1]
        BY <1>3, <2>1 DEF Reads!Occurs
    <2>4. l.to \in Names
        BY DEF Links
    <2>5. l.to # pairs[i][1]
        BY <2>3, <2>4, TrailsEnd
    <2> QED
        BY <2>1, <2>5
  <1> QED
      BY <1>1, <1>2, <1>3

-----------------------------------------------------------------------------
(* The first of a sequence and the others.                                 *)
LEMMA HeadAndTail ==
    ASSUME NEW S, NEW s \in Seq(S), s # <<>>
    PROVE  /\ Head(s) \in S /\ Tail(s) \in Seq(S) /\ Len(Tail(s)) = Len(s) - 1
           /\ Head(s) \in Reads!Range(s) /\ Reads!Range(Tail(s)) \subseteq Reads!Range(s)
           /\ Reads!Range(s) = {Head(s)} \cup Reads!Range(Tail(s))
           /\ Reads!IsInjective(s) => Reads!IsInjective(Tail(s)) /\ Head(s) \notin Reads!Range(Tail(s))
           /\ Len(s) \in Nat /\ Len(s) # 0 /\ (Len(s) = 1 <=> Tail(s) = <<>>)
  <1>1. Len(s) \in Nat /\ Len(s) # 0
      BY LenProperties, EmptySeq
  <1>2. PICK t : t = Tail(s)
      OBVIOUS
  <1>3. t \in Seq(S) /\ Len(t) = Len(s) - 1 /\ Head(s) \in S /\ \A i \in 1..Len(t) : t[i] = s[i + 1]
      BY <1>2, HeadTailProperties
  <1>4. Head(s) = s[1] /\ 1 \in 1..Len(s)
      BY <1>1
  <1>5. DOMAIN s = 1..Len(s) /\ DOMAIN t = 1..Len(t)
      BY <1>3, LenProperties
  <1>6. \A i \in 1..Len(s) : i # 1 => i - 1 \in 1..Len(t) /\ s[i] = t[i - 1]
      BY <1>1, <1>3
  <1>7. \A i \in 1..Len(t) : i + 1 \in 1..Len(s) /\ i + 1 # 1
      BY <1>1, <1>3
  <1>8. Reads!Range(s) = {Head(s)} \cup Reads!Range(t)
    <2>1. \A x \in Reads!Range(s) : x = Head(s) \/ x \in Reads!Range(t)
        BY <1>4, <1>5, <1>6 DEF Reads!Range
    <2>2. Head(s) \in Reads!Range(s)
        BY <1>4, <1>5 DEF Reads!Range
    <2>3. \A x \in Reads!Range(t) : x \in Reads!Range(s)
        BY <1>3, <1>5, <1>7 DEF Reads!Range
    <2> QED
        BY <2>1, <2>2, <2>3
  <1>9. ASSUME Reads!IsInjective(s)
        PROVE  Reads!IsInjective(t) /\ Head(s) \notin Reads!Range(t)
    <2>1. \A i, j \in 1..Len(s) : s[i] = s[j] => i = j
        BY <1>5, <1>9 DEF Reads!IsInjective
    <2>2. \A i, j \in 1..Len(t) : t[i] = t[j] => i = j
      <3> SUFFICES ASSUME NEW i \in 1..Len(t), NEW j \in 1..Len(t), t[i] = t[j] PROVE i = j
          OBVIOUS
      <3>1. i + 1 = j + 1
          BY <1>3, <1>7, <2>1
      <3> QED
          BY <3>1
    <2>3. \A i \in 1..Len(t) : t[i] # s[1]
        BY <1>3, <1>4, <1>7, <2>1
    <2> QED
        BY <1>4, <1>5, <2>2, <2>3 DEF Reads!IsInjective, Reads!Range
  <1>10. Len(s) = 1 <=> t = <<>>
    <2>1. Len(t) = 0 <=> t = <<>>
        BY <1>3, EmptySeq
    <2> QED
        BY <1>1, <1>3, <2>1
  <1> QED
      BY <1>1, <1>2, <1>3, <1>8, <1>9, <1>10

LEMMA OneLonger ==
    ASSUME NEW S, NEW s \in Seq(S), NEW x \in S
    PROVE  /\ Append(s, x) \in Seq(S) /\ Len(Append(s, x)) = Len(s) + 1 /\ Len(s) \in Nat
           /\ DOMAIN Append(s, x) = 1..(Len(s) + 1) /\ DOMAIN s = 1..Len(s)
           /\ Append(s, x)[Len(s) + 1] = x /\ \A i \in 1..Len(s) : Append(s, x)[i] = s[i]
  <1>1. Append(s, x) \in Seq(S) /\ Len(Append(s, x)) = Len(s) + 1
      BY AppendProperties
  <1>2. Len(s) \in Nat
      BY LenProperties
  <1>3. DOMAIN Append(s, x) = 1..(Len(s) + 1)
      BY <1>1, LenProperties
  <1>4. DOMAIN s = 1..Len(s)
      BY LenProperties
  <1>5. Append(s, x)[Len(s) + 1] = x /\ \A i \in 1..Len(s) : Append(s, x)[i] = s[i]
      BY AppendProperties
  <1> QED
      BY <1>1, <1>2, <1>3, <1>4, <1>5

LEMMA ReadsOne ==
    ASSUME ReadTypes, AnswerOK, ChunksOK, request.at \in {"row", "body", "latest"}
    PROVE  /\ Head(request.todo) \in Documents
           /\ request.at # "latest" => request.kind \in {"chunks", "latest", "answer"}
           /\ request.at = "latest" => request.kind = "latest"
  <1>1. /\ request.at # "latest" => request.kind \in {"chunks", "latest", "answer"}
        /\ request.at = "latest" => request.kind = "latest"
      BY DEF ReadTypes, Stages
  <1>2. CASE request.kind = "answer"
    <2>1. request.todo \in Seq(Documents) /\ request.todo # <<>>
        BY <1>1, <1>2 DEF AnswerOK
    <2> QED
        BY <1>1, <2>1, HeadAndTail
  <1>3. CASE request.kind \in {"chunks", "latest"}
    <2>1. PICK d \in Documents : request.todo = <<d>>
        BY <1>3 DEF ChunksOK
    <2> QED
        BY <1>1, <2>1
  <1> QED
      BY <1>1, <1>2, <1>3

LEMMA RewritesOne ==
    ASSUME ReadTypes, RewriteOK, request.at = "rewrite"
    PROVE  LET d == Head(request.todo) IN
           /\ d \in DOMAIN request.rows /\ d \in Documents /\ request.rows[d] \in DOMAIN doc[d].body
           /\ request.todo \in Seq(DOMAIN request.rows) /\ Reads!IsInjective(request.todo)
           /\ request.todo # <<>>
           /\ doc[d].body[request.rows[d]] \in SUBSET Links
           /\ d \notin touched => request.rows[d] = Reads!Version(d) /\ Reads!Roles[d] = "editor"
           /\ request.kind = "rewrite" /\ request.dry \in BOOLEAN
  <1>1. /\ request.todo \in Seq(DOMAIN request.rows) /\ Reads!IsInjective(request.todo)
        /\ request.todo # <<>>
        /\ DOMAIN request.rows \subseteq Documents
        /\ \A d \in DOMAIN request.rows : request.rows[d] \in DOMAIN doc[d].body
        /\ \A d \in Reads!Range(request.todo) \ touched :
               Reads!Version(d) = request.rows[d] /\ Reads!Roles[d] = "editor"
        /\ request.dry \in BOOLEAN
      BY DEF RewriteOK
  <1>2. PICK d : d = Head(request.todo)
      OBVIOUS
  <1>3. d \in DOMAIN request.rows /\ d \in Reads!Range(request.todo)
      BY <1>1, <1>2, HeadAndTail
  <1>4. d \in Documents /\ request.rows[d] \in DOMAIN doc[d].body
      BY <1>1, <1>3
  <1>5. doc[d].body \in Seq(SUBSET Links)
      BY <1>4, DocFacts DEF ReadTypes
  <1>6. doc[d].body[request.rows[d]] \in SUBSET Links
      BY <1>4, <1>5
  <1>7. request.kind = "rewrite"
      BY DEF ReadTypes, Stages
  <1> QED
      BY <1>1, <1>2, <1>3, <1>4, <1>6, <1>7

(* The document that a rewrite comes to: as it was, or with a version more *)
(* that is its last one rewritten.                                         *)
LEMMA RewriteMakes ==
    ASSUME ReadingGiven, ReadTypes, RewriteOK, Reads!RewriteNext
    PROVE  LET d == Head(request.todo)
               next == Reads!Rewritten(Reads!Content(d), request.pairs) IN
           /\ GoodDocs(doc') /\ GoodPairs(request.pairs)
           /\ \A e \in Documents : e # d => doc'[e] = doc[e]
           /\ doc'[d].scoped = doc[d].scoped
           /\ \/ doc' = doc /\ ~(Outcome(d) = "written" /\ next # Reads!Content(d))
              \/ /\ Outcome(d) = "written" /\ next # Reads!Content(d)
                 /\ DOMAIN doc'[d].body = 1..(Reads!Version(d) + 1)
                 /\ \A n \in 1..Reads!Version(d) : doc'[d].body[n] = doc[d].body[n]
                 /\ doc'[d].body[Reads!Version(d) + 1] = next
  <1>1. PICK d : d = Head(request.todo)
      OBVIOUS
  <1>2. PICK content : content = doc[d].body[request.rows[d]]
      OBVIOUS
  <1>3. PICK next : next = Reads!Rewritten(content, request.pairs)
      OBVIOUS
  <1>4. /\ request.at = "rewrite"
        /\ \/ doc' = doc /\ ~(Outcome(d) = "written" /\ next # content)
           \/ /\ doc' = [doc EXCEPT ![d].body = Append(@, next), ![d].stamp = Reads!NextStamp]
              /\ Outcome(d) = "written" /\ next # content
      BY <1>1, <1>2, <1>3, RewriteNextIs DEF ReadTypes
  <1>5. d \in Documents /\ content \in SUBSET Links
      BY <1>1, <1>2, <1>4, RewritesOne
  <1>6. Outcome(d) = "written" => Reads!Version(d) = request.rows[d]
      BY DEF Outcome
  <1>7. Outcome(d) = "written" => content = Reads!Content(d)
      BY <1>2, <1>5, <1>6, DocFacts DEF ReadTypes
  <1>8. GoodPairs(request.pairs)
      BY <1>4 DEF ReadingGiven, RewriteOK, GoodPairs
  <1>9. next \in SUBSET Links
      BY <1>3, <1>5, <1>8, RewrittenIs
  <1>10. CASE doc' = doc /\ ~(Outcome(d) = "written" /\ next # content)
    <2>1. GoodDocs(doc')
        BY <1>10 DEF ReadTypes
    <2> QED
        BY <1>1, <1>3, <1>7, <1>8, <1>10, <2>1
  <1>11. CASE /\ doc' = [doc EXCEPT ![d].body = Append(@, next), ![d].stamp = Reads!NextStamp]
              /\ Outcome(d) = "written" /\ next # content
    <2>1. next # Reads!Content(d) /\ Reads!NextStamp \in Nat /\ GoodDocs(doc)
        BY <1>7, <1>11, StampIs DEF ReadTypes
    <2>2. /\ GoodDocs(doc')
          /\ \A e \in Documents : e # d => doc'[e] = doc[e]
          /\ doc'[d].scoped = doc[d].scoped
          /\ DOMAIN doc'[d].body = 1..(Reads!Version(d) + 1)
          /\ \A n \in 1..Reads!Version(d) : doc'[d].body[n] = doc[d].body[n]
          /\ doc'[d].body[Reads!Version(d) + 1] = next
        BY <1>5, <1>9, <1>11, <2>1, OneMore
    <2> QED
        BY <1>1, <1>3, <1>7, <1>8, <1>11, <2>2
  <1> QED
      BY <1>4, <1>10, <1>11

-----------------------------------------------------------------------------
(* The steps of a request, by what they are for.                           *)
Starting ==
    \/ \E s \in Spaces : \E kind \in {"search", "answer"} : Reads!StartSearch(kind, s)
    \/ \E d \in Documents : \E kind \in {"chunks", "latest"} : Reads!StartRead(kind, d)
    \/ \E asked \in (SUBSET Spaces) \ {{}} : \E kind \in {"recent", "decisions", "documents"} :
           Reads!StartList(kind, asked)
Asking == \E s \in Spaces : Reads!RecentIn(s) \/ Reads!DecisionsIn(s) \/ Reads!DocumentsIn(s)
Resolving == \E s \in Spaces : Reads!ResolveIn(s)
Merging == Reads!MergeRecent \/ Reads!MergeDecisions \/ Reads!MergeDocuments
Rewriting == \E s \in Spaces : \E pairs \in Replacements : \E dry, agent \in BOOLEAN :
    Reads!StartRewrite(s, pairs, dry, agent)

LEMMA StepsAre ==
    ASSUME ReadingGiven, ReadTypes, Reads!Next
    PROVE  \/ Starting \/ Rewriting \/ Reads!SearchPage \/ Reads!Snippets \/ Reads!ReadRow \/
                  Reads!ReadBody \/ Reads!ReadLatest
           \/ Resolving \/ Asking \/ Merging \/ Reads!RewriteNext
           \/ \E d \in Documents : ByOthers(d)
  <1>1. CASE \E d \in Documents : (\E c \in Contents : Reads!Save(d, c)) \/ Reads!Delete(d) \/ Reads!Rescope(d) \/
                 (\E role \in Access : Reads!Grant(d, role))
      BY <1>1, OthersStay
  <1>2. CASE ~\E d \in Documents : (\E c \in Contents : Reads!Save(d, c)) \/ Reads!Delete(d) \/ Reads!Rescope(d) \/
                 (\E role \in Access : Reads!Grant(d, role))
      BY <1>2 DEF Reads!Next, Access, Starting, Rewriting, Resolving, Asking, Merging
  <1> QED
      BY <1>1, <1>2

LEMMA AskingIs ==
    ASSUME RequestFields, Asking
    PROVE  \E s : \E rows :
              /\ request.at = "list" /\ request.kind \in {"recent", "decisions", "documents"}
              /\ Alone /\ Still /\ request'.at = "list"
              /\ request'.said = request.said /\ request'.failed = request.failed
              /\ s \in DOMAIN request.lists /\ request.roles[s] # None /\ request'.roles = request.roles
              /\ request'.lists = [request.lists EXCEPT ![s] =
                     [i \in DOMAIN rows |-> <<rows[i], doc[rows[i]].stamp>>]]
              /\ \/ /\ request.kind = "recent"
                    /\ \E all \in Reads!ByTime(Reads!Live(s)) :
                           \E open \in Reads!Kept(Reads!FirstOf(all, RecentCap), Reads!Readables(s)) :
                          rows = Reads!FirstOf(open, Limit)
                 \/ /\ request.kind = "decisions"
                    /\ \E all \in Reads!ByTime(Reads!Readables(s)) :
                       \E open \in Reads!Kept(Reads!FirstOf(all, RecentCap), {d \in Documents :
                           Reads!HasDecision(d)}) :
                          rows = Reads!FirstOf(open, Limit)
                 \/ /\ request.kind = "documents"
                    /\ rows \in Reads!InOrder(Reads!Readables(s), {p \in Documents \X Documents :
                           p[1] < p[2]})
  <1>1. PICK s : Reads!RecentIn(s) \/ Reads!DecisionsIn(s) \/ Reads!DocumentsIn(s)
      BY DEF Asking
  <1>2. PICK rows, kind :
           /\ kind \in {"recent", "decisions", "documents"} /\ Reads!Asked(kind, s)
           /\ Reads!Answer(s, rows)
           /\ \/ /\ kind = "recent"
                 /\ \E all \in Reads!ByTime(Reads!Live(s)) :
                        \E open \in Reads!Kept(Reads!FirstOf(all, RecentCap), Reads!Readables(s)) :
                       rows = Reads!FirstOf(open, Limit)
              \/ /\ kind = "decisions"
                 /\ \E all \in Reads!ByTime(Reads!Readables(s)) :
                    \E open \in Reads!Kept(Reads!FirstOf(all, RecentCap), {d \in Documents :
                        Reads!HasDecision(d)}) :
                       rows = Reads!FirstOf(open, Limit)
              \/ /\ kind = "documents"
                 /\ rows \in Reads!InOrder(Reads!Readables(s), {p \in Documents \X Documents :
                        p[1] < p[2]})
    <2>1. CASE Reads!RecentIn(s)
        BY <2>1 DEF Reads!RecentIn
    <2>2. CASE Reads!DecisionsIn(s)
        BY <2>2 DEF Reads!DecisionsIn
    <2>3. CASE Reads!DocumentsIn(s)
        BY <2>3 DEF Reads!DocumentsIn
    <2> QED
        BY <1>1, <2>1, <2>2, <2>3
  <1>3. /\ request.at = "list" /\ request.kind = kind /\ Alone /\ Still /\ request'.at = "list"
        /\ request'.said = request.said /\ request'.failed = request.failed
        /\ s \in DOMAIN request.lists /\ request.roles[s] # None /\ request'.roles = request.roles
        /\ request'.lists = [request.lists EXCEPT ![s] =
               [i \in DOMAIN rows |-> <<rows[i], doc[rows[i]].stamp>>]]
      BY <1>2, ListStepsAre
  <1> QED
      BY <1>2, <1>3

LEMMA MergingIs ==
    ASSUME RequestFields, Merging
    PROVE  /\ request.at = "list" /\ Alone /\ Still /\ request'.at = "done"
           /\ request'.said = request.said /\ request'.failed = request.failed
           /\ request'.lists = request.lists /\ \A s \in DOMAIN request.lists : request.lists[s] # None
           /\ \/ /\ request.kind = "recent"
                 /\ \E rows \in Reads!SortedRows(request.lists) :
                        request'.found = Reads!FirstOf(rows, Limit)
              \/ /\ request.kind = "decisions"
                 /\ \E rows \in Reads!Concatenated(request.lists) :
                        request'.found = Reads!FirstOf(rows, Limit)
              \/ /\ request.kind = "documents"
                 /\ \E rows \in Reads!Concatenated(request.lists) : request'.found = rows
  <1>1. CASE Reads!MergeRecent
      BY <1>1, ListStepsAre DEF Reads!MergeRecent
  <1>2. CASE Reads!MergeDecisions
      BY <1>2, ListStepsAre DEF Reads!MergeDecisions
  <1>3. CASE Reads!MergeDocuments
      BY <1>3, ListStepsAre DEF Reads!MergeDocuments
  <1> QED
      BY <1>1, <1>2, <1>3 DEF Merging

-----------------------------------------------------------------------------
LEMMA TypesStay ==
    ASSUME ReadTypes, RequestFields', Alone, request'.said \in Seq(Said'), Stages'
    PROVE  ReadTypes'
  BY DEF ReadTypes, GoodDocs, Alone, Reads!changes

LEMMA SaidStays ==
    ASSUME ReadTypes, request'.kind = request.kind, request'.said = request.said
    PROVE  request'.said \in Seq(Said')
  <1>1. Said' = Said
      BY DEF Said
  <1> QED
      BY <1>1 DEF ReadTypes

LEMMA SaidGrows ==
    ASSUME ReadTypes, request'.kind = request.kind, NEW x \in Said,
           request'.said = Append(request.said, x)
    PROVE  request'.said \in Seq(Said')
  <1>1. Said' = Said
      BY DEF Said
  <1>2. Append(request.said, x) \in Seq(Said)
      BY OneLonger DEF ReadTypes
  <1> QED
      BY <1>1, <1>2

LEMMA TypesKept ==
    ASSUME ReadingGiven, ReadInv, Reads!Next
    PROVE  ReadTypes'
  <1>1. ReadTypes /\ RequestFields /\ Stages /\ GoodDocs(doc)
      BY DEF ReadInv, ReadTypes
  <1>2. CASE Starting
    <2>1. /\ RequestFields' /\ Fresh /\ Alone
          /\ \/ request'.at = "page" /\ request'.kind \in {"search", "answer"}
             \/ request'.at = "row" /\ request'.kind \in {"chunks", "latest"}
             \/ request'.at = "list" /\ request'.kind \in {"recent", "decisions", "documents"}
        BY <1>2, StartsAre DEF Starting
    <2>2. Stages'
        BY <2>1 DEF Stages, Fresh
    <2>3. request'.said \in Seq(Said')
        BY <2>1, EmptySeq DEF Fresh
    <2> QED
        BY <1>1, <2>1, <2>2, <2>3, TypesStay
  <1>3. CASE Rewriting
    <2>1. /\ RequestFields' /\ Fresh /\ Alone
          /\ request'.at \in {"done", "rewrite"} /\ request'.kind = "rewrite"
        BY <1>3, RewriteStarts DEF Rewriting
    <2>2. Stages'
        BY <2>1 DEF Stages, Fresh
    <2>3. request'.said \in Seq(Said')
        BY <2>1, EmptySeq DEF Fresh
    <2> QED
        BY <1>1, <2>1, <2>2, <2>3, TypesStay
  <1>4. CASE Reads!SearchPage
    <2>1. /\ request.at = "page" /\ RequestFields' /\ Alone /\ request'.kind = request.kind
          /\ request'.said = request.said /\ request'.failed = request.failed
          /\ request'.at \in {"page", "snippets"}
        BY <1>1, <1>4, SearchPageIs
    <2>2. Stages'
        BY <1>1, <2>1 DEF Stages
    <2> QED
        BY <1>1, <2>1, <2>2, TypesStay, SaidStays
  <1>5. CASE Reads!Snippets
    <2>1. /\ request.at = "snippets" /\ RequestFields' /\ Alone /\ request'.kind = request.kind
          /\ request'.said = request.said /\ request'.failed = request.failed
          /\ request'.at = "done" \/ (request'.at = "row" /\ request.kind = "answer")
        BY <1>1, <1>5, SnippetsIs DEF Still
    <2>2. Stages'
        BY <1>1, <2>1 DEF Stages
    <2> QED
        BY <1>1, <2>1, <2>2, TypesStay, SaidStays
  <1>6. CASE Reads!ReadRow
    <2>1. /\ request.at = "row" /\ RequestFields' /\ Alone /\ request'.kind = request.kind
          /\ request'.said = request.said
          /\ request'.at = "done" \/ (request'.at = "body" /\ request'.failed = request.failed)
        BY <1>1, <1>6, ReadRowIs DEF Still
    <2>2. Stages'
        BY <1>1, <2>1 DEF Stages
    <2> QED
        BY <1>1, <2>1, <2>2, TypesStay, SaidStays
  <1>7. CASE Reads!ReadBody
    <2>1. /\ request.at = "body" /\ RequestFields' /\ Alone /\ request'.kind = request.kind
          /\ \/ request'.at = "done" /\ request'.said = request.said
             \/ /\ request'.said = Append(request.said, Chunk) /\ request'.failed = request.failed
                /\ \/ request'.at = "done" \/ (request'.at = "row" /\ Again)
                   \/ request'.at = "latest" /\ request.kind = "latest"
        BY <1>1, <1>7, ReadBodyIs DEF Still
    <2>2. request.kind \in {"chunks", "latest", "answer"}
        BY <1>1, <2>1 DEF Stages
    <2>3. Stages'
        BY <1>1, <2>1, <2>2 DEF Stages, Again
    <2>4. Chunk \in Said
      <3>1. Head(request.todo) \in Documents
          BY <1>1, <2>1, ReadsOne DEF ReadInv
      <3>2. request.seen \in DOMAIN doc[Head(request.todo)].body
          BY <2>1 DEF ReadInv, SeenOK
      <3>3. doc[Head(request.todo)].body \in Seq(SUBSET Links)
          BY <1>1, <3>1, DocFacts
      <3>4. request.seen \in Nat /\ doc[Head(request.todo)].body[request.seen] \in SUBSET Links
          BY <3>2, <3>3
      <3> QED
          BY <2>2, <3>4 DEF Chunk, Said
    <2>5. request'.said \in Seq(Said')
        BY <1>1, <2>1, <2>4, SaidStays, SaidGrows
    <2> QED
        BY <1>1, <2>1, <2>3, <2>5, TypesStay
  <1>8. CASE Reads!ReadLatest
    <2> DEFINE d == Head(request.todo)
               chunk == [version |-> Reads!Version(d) - 1,
                         content |-> IF Reads!Version(d) - 1 = 0
                             THEN None ELSE doc[d].body[Reads!Version(d) - 1]]
    <2>1. /\ request.at = "latest" /\ RequestFields' /\ Alone /\ request'.kind = request.kind
          /\ request'.at = "done" /\ request'.failed = request.failed
          /\ request'.said = Append(request.said, chunk)
        BY <1>1, <1>8, ReadLatestIs DEF Still
    <2>2. Stages'
        BY <1>1, <2>1 DEF Stages
    <2>3. chunk \in Said
      <3>1. d \in Documents /\ request.kind = "latest"
          BY <1>1, <2>1, ReadsOne DEF ReadInv
      <3>2. /\ doc[d].body \in Seq(SUBSET Links) /\ Reads!Version(d) \in Nat /\ Reads!Version(d) # 0
            /\ DOMAIN doc[d].body = 1..Reads!Version(d)
          BY <1>1, <3>1, DocFacts
      <3>3. Reads!Version(d) - 1 \in Nat /\
                (Reads!Version(d) - 1 # 0 => Reads!Version(d) - 1 \in DOMAIN doc[d].body)
          BY <3>2
      <3>4. Reads!Version(d) - 1 # 0 => doc[d].body[Reads!Version(d) - 1] \in SUBSET Links
          BY <3>2, <3>3
      <3> QED
          BY <3>1, <3>3, <3>4 DEF Said
    <2> HIDE DEF chunk
    <2> QED
        BY <1>1, <2>1, <2>2, <2>3, TypesStay, SaidGrows
  <1>9. CASE Resolving \/ Asking \/ Merging
    <2>1. /\ request.at = "list" /\ RequestFields' /\ Alone /\ request'.kind = request.kind
          /\ request'.said = request.said /\ request'.failed = request.failed
          /\ request'.at \in {"list", "done"}
        BY <1>1, <1>9, ListStepsAre, AskingIs, MergingIs DEF Resolving, Still
    <2>2. Stages'
        BY <1>1, <2>1 DEF Stages
    <2> QED
        BY <1>1, <2>1, <2>2, TypesStay, SaidStays
  <1>10. CASE Reads!RewriteNext
    <2> DEFINE d == Head(request.todo)
    <2>1. /\ request.at = "rewrite" /\ UNCHANGED Reads!changes /\ RequestFields'
          /\ request'.kind = request.kind
          /\ request'.failed = request.failed /\ request'.said = Append(request.said, <<d, Outcome(d)>>)
          /\ request'.at \in {"done", "rewrite"}
        BY <1>1, <1>10, RewriteNextIs DEF Still
    <2>2. Stages'
        BY <1>1, <2>1 DEF Stages
    <2>3. <<d, Outcome(d)>> \in Said
      <3>1. d \in Documents /\ request.kind = "rewrite"
          BY <1>1, <2>1, RewritesOne DEF ReadInv
      <3>2. Outcome(d) \in {"skipped", "would_write", "written", "error"}
          BY DEF Outcome
      <3> QED
          BY <3>1, <3>2 DEF Said
    <2>4. request'.said \in Seq(Said')
        BY <1>1, <2>1, <2>3, SaidGrows
    <2>5. GoodDocs(doc')
        BY <1>1, <1>10, RewriteMakes DEF ReadInv
    <2> QED
        BY <1>1, <2>1, <2>2, <2>4, <2>5 DEF ReadTypes, Reads!changes, GoodDocs
  <1>11. ASSUME NEW d \in Documents, ByOthers(d) PROVE ReadTypes'
    <2>1. request' = request /\ touched' = touched \cup {d} /\ others' \in Nat /\ GoodDocs(doc')
        BY <1>11 DEF ByOthers
    <2>2. Said' = Said
        BY <2>1 DEF Said
    <2>3. RequestFields' /\ Stages'
        BY <1>1, <2>1 DEF RequestFields, Stages
    <2> QED
        BY <1>1, <1>11, <2>1, <2>2, <2>3 DEF ReadTypes, GoodDocs
  <1> QED
      BY <1>1, <1>2, <1>3, <1>4, <1>5, <1>6, <1>7, <1>8, <1>9, <1>10, <1>11, StepsAre

-----------------------------------------------------------------------------
(* Searching.                                                              *)
LEMMA OrderIsStrict ==
    ASSUME ReadingGiven, ReadTypes, NEW a \in Documents, NEW b \in Documents, NEW w
    PROVE  ~(Reads!Precedes(a, b, w) /\ Reads!Precedes(b, a, w))
  <1>1. Reads!Rank(a, w) \in Nat /\ Reads!Rank(b, w) \in Nat
      BY DEF Reads!Rank
  <1>2. a \in Nat /\ b \in Nat /\ doc[a].stamp \in Nat /\ doc[b].stamp \in Nat
      BY DocFacts DEF ReadingGiven, ReadTypes
  <1> QED
      BY <1>1, <1>2 DEF Reads!Precedes

LEMMA MatchingIs ==
    ASSUME ReadingGiven, NEW w
    PROVE  Reads!Matching(w) \subseteq Documents /\ IsFiniteSet(Reads!Matching(w)) /\
               Cardinality(Reads!Matching(w)) \in Nat
  <1>1. Reads!Matching(w) \subseteq Documents
      BY DEF Reads!Matching, Reads!Live
  <1>2. IsFiniteSet(Reads!Matching(w))
      BY <1>1, FS_Subset DEF ReadingGiven
  <1> QED
      BY <1>1, <1>2, FS_CardinalityType

LEMMA PlaceType ==
    ASSUME ReadingGiven, NEW w, NEW d
    PROVE  Reads!Place(d, w) \in Nat /\ Reads!Place(d, w) >= 1
  <1>1. PICK S : S = {e \in Reads!Matching(w) : Reads!Precedes(e, d, w)}
      OBVIOUS
  <1>2. IsFiniteSet(S)
      BY <1>1, MatchingIs, FS_Subset
  <1>3. Cardinality(S) \in Nat
      BY <1>2, FS_CardinalityType
  <1> QED
      BY SameSize, <1>1, <1>3 DEF Reads!Place

LEMMA PlaceIs ==
    ASSUME ReadingGiven, ReadTypes, NEW w, NEW s \in Reads!Ordered(w)
    PROVE  /\ s \in Seq(Documents) /\ Len(s) = Cardinality(Reads!Matching(w)) /\ Len(s) \in Nat
           /\ DOMAIN s = 1..Len(s)
           /\ Reads!Range(s) = Reads!Matching(w)
           /\ \A i \in 1..Len(s) : Reads!Place(s[i], w) = i
           /\ \A i, j \in 1..Len(s) : i # j => s[i] # s[j]
  <1>1. IsFiniteSet(Reads!Matching(w)) /\ Reads!Matching(w) \subseteq Documents
      BY MatchingIs
  <1>2. /\ s \in Seq(Reads!Matching(w)) /\ Len(s) = Cardinality(Reads!Matching(w)) /\ Len(s) \in Nat
        /\ DOMAIN s = 1..Len(s)
        /\ Reads!Range(s) = Reads!Matching(w) /\ \A i, j \in DOMAIN s : i # j => s[i] # s[j]
        /\ \A i, j \in DOMAIN s : i < j =>
               <<s[i], s[j]>> \in {p \in Documents \X Documents : Reads!Precedes(p[1], p[2], w)}
      BY <1>1, InOrderIs DEF Reads!Ordered
  <1>3. \A i, j \in 1..Len(s) : i < j => Reads!Precedes(s[i], s[j], w)
      BY <1>2
  <1>4. \A i \in 1..Len(s) : s[i] \in Reads!Matching(w) /\ s[i] \in Documents
      BY <1>1, <1>2 DEF Reads!Range
  <1>5. ASSUME NEW i \in 1..Len(s)
        PROVE  Reads!Place(s[i], w) = i
    <2>1. {e \in Reads!Matching(w) : Reads!Precedes(e, s[i], w)} = {s[j] : j \in 1..(i - 1)}
      <3>1. ASSUME NEW e \in Reads!Matching(w), Reads!Precedes(e, s[i], w)
            PROVE  e \in {s[j] : j \in 1..(i - 1)}
        <4>1. PICK j \in 1..Len(s) : e = s[j]
            BY <1>2, <3>1 DEF Reads!Range
        <4>2. ~Reads!Precedes(s[i], s[j], w)
            BY <1>4, <3>1, <4>1, OrderIsStrict
        <4>3. ~(i < j) /\ i # j
            BY <1>3, <3>1, <4>1, <4>2
        <4>4. j \in 1..(i - 1)
            BY <1>2, <4>3
        <4> QED
            BY <4>1, <4>4
      <3>2. ASSUME NEW j \in 1..(i - 1)
            PROVE  s[j] \in Reads!Matching(w) /\ Reads!Precedes(s[j], s[i], w)
        <4>1. j \in 1..Len(s) /\ j < i
            BY <1>2
        <4> QED
            BY <1>3, <1>4, <4>1
      <3> QED
          BY <3>1, <3>2
    <2>2. i - 1 \in Nat /\ 1..(i - 1) \subseteq DOMAIN s
        BY <1>2
    <2>3. \A j, k \in 1..(i - 1) : j # k => s[j] # s[k]
        BY <1>2, <2>2
    <2>4. Cardinality({s[j] : j \in 1..(i - 1)}) = i - 1
        BY <2>2, <2>3, FirstMembers
    <2>5. Reads!Place(s[i], w) = 1 + Cardinality({s[j] : j \in 1..(i - 1)})
        BY SameSize, <2>1, Zenon DEF Reads!Place
    <2>6. 1 + (i - 1) = i
        BY <1>2
    <2> QED
        BY <2>4, <2>5, <2>6
  <1> QED
      BY <1>1, <1>2, <1>5

LEMMA PageCovers ==
    ASSUME ReadingGiven, ReadTypes, NEW w, NEW all \in Reads!Ordered(w), NEW offset \in Nat,
           NEW d \in Reads!Matching(w)
    PROVE  LET page == Reads!Slice(all, offset, PageSize) IN
           /\ page \in Seq(Documents) /\ Len(page) \in Nat
           /\ Reads!Place(d, w) > offset /\ Reads!Place(d, w) <= offset + PageSize =>
                  d \in Reads!Range(page)
           /\ Len(page) < PageSize => Reads!Place(d, w) <= offset + PageSize
           /\ offset + PageSize >= ScanCap =>
                  Reads!Place(d, w) <= offset + PageSize \/ Cardinality(Reads!Matching(w)) > ScanCap
  <1>1. PICK page : page = Reads!Slice(all, offset, PageSize)
      OBVIOUS
  <1>2. /\ all \in Seq(Documents) /\ Len(all) = Cardinality(Reads!Matching(w)) /\ Len(all) \in Nat
        /\ \A i \in 1..Len(all) : Reads!Place(all[i], w) = i
      BY PlaceIs
  <1>3. Reads!Range(all) = Reads!Matching(w) /\ DOMAIN all = 1..Len(all)
      BY PlaceIs
  <1>4. PICK i \in 1..Len(all) : d = all[i]
      BY <1>3 DEF Reads!Range
  <1>5. Reads!Place(d, w) = i
      BY <1>2, <1>4
  <1>6. PageSize \in Nat /\ ScanCap \in Nat
      BY DEF ReadingGiven
  <1>7. /\ page \in Seq(Documents) /\ Len(page) \in Nat
        /\ (Len(page) < PageSize => Len(all) <= offset + Len(page))
      BY <1>1, <1>2, <1>6, SliceIs
  <1>8. DOMAIN page = 1..Len(page)
      BY <1>1, <1>2, <1>6, SliceIs
  <1>9. (offset < i /\ i <= offset + PageSize) => i - offset \in 1..Len(page)
      BY <1>1, <1>2, <1>6, SliceIs
  <1>10. \A k \in 1..Len(page) : page[k] = all[offset + k]
      BY <1>1, <1>2, <1>6, SliceIs
  <1>11. (i > offset /\ i <= offset + PageSize) => d \in Reads!Range(page)
    <2> SUFFICES ASSUME i > offset, i <= offset + PageSize PROVE d \in Reads!Range(page)
        OBVIOUS
    <2>1. i - offset \in 1..Len(page)
        BY <1>2, <1>9
    <2>2. offset + (i - offset) = i
        BY <1>2
    <2>3. page[i - offset] = d
        BY <1>4, <1>10, <2>1, <2>2
    <2> QED
        BY <1>8, <2>1, <2>3 DEF Reads!Range
  <1>12. Len(page) < PageSize => i <= offset + PageSize
      BY <1>2, <1>6, <1>7
  <1>13. offset + PageSize >= ScanCap => i <= offset + PageSize \/ Len(all) > ScanCap
      BY <1>2, <1>6
  <1> QED
      BY <1>1, <1>2, <1>5, <1>7, <1>11, <1>12, <1>13

LEMMA FirstOfIs ==
    ASSUME NEW S, NEW s \in Seq(S), NEW n \in Nat
    PROVE  LET t == Reads!FirstOf(s, n) IN
           /\ t \in Seq(S) /\ Len(t) \in Nat /\ Len(t) <= n /\ Len(t) <= Len(s)
           /\ (Len(t) < n => Len(t) = Len(s))
           /\ DOMAIN t = 1..Len(t) /\ \A i \in 1..Len(t) : t[i] = s[i] /\ i \in 1..Len(s)
           /\ Reads!Range(t) \subseteq Reads!Range(s)
  <1>1. PICK t : t = Reads!FirstOf(s, n)
      OBVIOUS
  <1>2. t = Reads!Slice(s, 0, n) /\ 0 \in Nat
      BY <1>1 DEF Reads!FirstOf
  <1>3. Len(s) \in Nat
      BY LenProperties
  <1>4. /\ t \in Seq(S) /\ Len(t) \in Nat
        /\ Len(t) <= n /\ (Len(t) < n => Len(s) <= 0 + Len(t)) /\ (0 <= Len(s) => 0 + Len(t) <= Len(s))
      BY <1>2, SliceIs
  <1>5. DOMAIN t = 1..Len(t)
      BY <1>2, SliceIs
  <1>6. \A i \in 1..Len(t) : 0 + i \in 1..Len(s) /\ t[i] = s[0 + i]
      BY <1>2, SliceIs
  <1>7. Len(t) <= Len(s) /\ (Len(t) < n => Len(t) = Len(s))
      BY <1>3, <1>4
  <1>8. \A i \in 1..Len(t) : t[i] = s[i] /\ i \in 1..Len(s)
    <2>1. \A i \in 1..Len(t) : 0 + i = i
        BY <1>4
    <2> QED
        BY <1>6, <2>1
  <1>9. DOMAIN s = 1..Len(s)
      BY LenProperties
  <1>10. Reads!Range(t) \subseteq Reads!Range(s)
      BY <1>5, <1>8, <1>9 DEF Reads!Range
  <1> QED
      BY <1>1, <1>4, <1>5, <1>7, <1>8, <1>10

LEMMA FoundGrows ==
    ASSUME NEW found \in Seq(Documents), Reads!IsInjective(found), NEW shown \in Seq(Documents),
           Reads!IsInjective(shown),
           Reads!Range(found) \cap Reads!Range(shown) = {}, NEW n \in Nat, Len(found) <= n
    PROVE  LET t == Reads!FirstOf(found \o shown, n) IN
           /\ t \in Seq(Documents) /\ Len(t) \in Nat /\ Len(t) <= n /\ Reads!IsInjective(t)
           /\ Reads!Range(t) \subseteq Reads!Range(found) \cup Reads!Range(shown)
           /\ Len(t) < n => Len(found) < n /\
                  Reads!Range(found) \cup Reads!Range(shown) \subseteq Reads!Range(t)
  <1>1. PICK s : s = found \o shown
      OBVIOUS
  <1>2. PICK t : t = Reads!FirstOf(s, n)
      OBVIOUS
  <1>3. Len(found) \in Nat /\ Len(shown) \in Nat
      BY LenProperties
  <1>4. /\ s \in Seq(Documents) /\ Len(s) = Len(found) + Len(shown)
        /\ \A i \in 1..Len(s) : s[i] = IF i <= Len(found) THEN found[i] ELSE shown[i - Len(found)]
      BY <1>1, ConcatProperties
  <1>5. DOMAIN s = 1..Len(s) /\ DOMAIN found = 1..Len(found) /\ DOMAIN shown = 1..Len(shown)
      BY <1>4, LenProperties
  <1>6. \A i \in 1..Len(s) : \/ i \in 1..Len(found) /\ s[i] = found[i]
                             \/ i > Len(found) /\ i - Len(found) \in 1..Len(shown) /\
                                    s[i] = shown[i - Len(found)]
      BY <1>3, <1>4
  <1>7. Reads!IsInjective(s)
    <2> SUFFICES ASSUME NEW i \in 1..Len(s), NEW j \in 1..Len(s), s[i] = s[j] PROVE i = j
        BY <1>5 DEF Reads!IsInjective
    <2>1. \A k \in 1..Len(found), l \in 1..Len(shown) : found[k] # shown[l]
        BY <1>5 DEF Reads!Range
    <2>2. CASE i \in 1..Len(found) /\ j \in 1..Len(found) /\ s[i] = found[i] /\ s[j] = found[j]
        BY <1>5, <2>2 DEF Reads!IsInjective
    <2>3. CASE /\ i > Len(found) /\ i - Len(found) \in 1..Len(shown) /\ s[i] = shown[i - Len(found)]
               /\ j > Len(found) /\ j - Len(found) \in 1..Len(shown) /\ s[j] = shown[j - Len(found)]
      <3>1. i - Len(found) = j - Len(found)
          BY <1>5, <2>3 DEF Reads!IsInjective
      <3> QED
          BY <1>3, <1>4, <3>1
    <2> QED
        BY <1>6, <2>1, <2>2, <2>3
  <1>8. Reads!Range(s) \subseteq Reads!Range(found) \cup Reads!Range(shown)
      BY <1>5, <1>6 DEF Reads!Range
  <1>9. Reads!Range(found) \cup Reads!Range(shown) \subseteq Reads!Range(s)
    <2>1. ASSUME NEW i \in 1..Len(found) PROVE found[i] \in Reads!Range(s)
      <3>1. i \in 1..Len(s) /\ i <= Len(found)
          BY <1>3, <1>4
      <3>2. s[i] = found[i]
          BY <1>4, <3>1
      <3> QED
          BY <1>5, <3>1, <3>2 DEF Reads!Range
    <2>2. ASSUME NEW i \in 1..Len(shown) PROVE shown[i] \in Reads!Range(s)
      <3>1. /\ i + Len(found) \in 1..Len(s) /\ ~(i + Len(found) <= Len(found))
            /\ (i + Len(found)) - Len(found) = i
          BY <1>3, <1>4
      <3>2. s[i + Len(found)] = shown[i]
          BY <1>4, <3>1
      <3> QED
          BY <1>5, <3>1, <3>2 DEF Reads!Range
    <2> QED
        BY <1>5, <2>1, <2>2 DEF Reads!Range
  <1>10. /\ t \in Seq(Documents) /\ Len(t) \in Nat /\ Len(t) <= n /\ (Len(t) < n => Len(t) = Len(s))
         /\ Reads!Range(t) \subseteq Reads!Range(s)
      BY <1>2, <1>4, FirstOfIs
  <1>11. DOMAIN t = 1..Len(t) /\ \A i \in 1..Len(t) : t[i] = s[i] /\ i \in 1..Len(s)
      BY <1>2, <1>4, FirstOfIs
  <1>12. Reads!IsInjective(t)
      BY <1>5, <1>7, <1>11 DEF Reads!IsInjective
  <1>13. ASSUME Len(t) < n
         PROVE  Len(found) < n /\ Reads!Range(s) \subseteq Reads!Range(t)
    <2>1. Len(t) = Len(s)
        BY <1>10, <1>13
    <2>2. Len(found) < n
        BY <1>3, <1>4, <1>13, <2>1
    <2>3. Reads!Range(s) \subseteq Reads!Range(t)
        BY <1>5, <1>11, <2>1 DEF Reads!Range
    <2> QED
        BY <2>2, <2>3
  <1> QED
      BY <1>1, <1>2, <1>8, <1>9, <1>10, <1>12, <1>13

SearchGroup == SearchOK /\ PageOK /\ FoundOK /\ AnswerOK /\ Reads!SearchFinds

LEMMA NotSearching ==
    ASSUME Stages', request'.kind \notin {"search", "answer"}
    PROVE  SearchGroup'
  BY DEF SearchGroup, SearchOK, PageOK, FoundOK, AnswerOK, Reads!SearchFinds, Reads!Done, Stages

LEMMA SearchStays ==
    ASSUME Alone, request'.space = request.space
    PROVE  /\ \A w : Reads!Matching(w)' = Reads!Matching(w)
           /\ \A w, d : Reads!Place(d, w)' = Reads!Place(d, w)
           /\ Reads!Roles' = Reads!Roles /\ touched' = touched /\ slipped' = slipped
  <1>1. doc' = doc /\ touched' = touched /\ slipped' = slipped
      BY DEF Alone, Reads!changes
  <1>2. \A w : Reads!Matching(w)' = Reads!Matching(w)
      BY <1>1 DEF Reads!Matching, Reads!Live, Reads!Words, Reads!Content
  <1>3. \A a, b, w : Reads!Precedes(a, b, w)' = Reads!Precedes(a, b, w)
      BY <1>1 DEF Reads!Precedes, Reads!Rank
  <1>4. \A w, d : Reads!Place(d, w)' = Reads!Place(d, w)
      BY <1>2, <1>3, Zenon DEF Reads!Place
  <1>5. Reads!Roles' = Reads!Roles
      BY <1>1 DEF Reads!Roles
  <1> QED
      BY <1>1, <1>2, <1>4, <1>5

LEMMA SearchStarts ==
    ASSUME ReadingGiven, ReadTypes, NEW s, NEW kind \in {"search", "answer"}, Reads!StartSearch(kind, s)
    PROVE  SearchGroup'
  <1>1. /\ Fresh /\ Alone /\ request'.kind = kind /\ request'.at = "page"
        /\ request'.space = s /\ request'.roles = Reads!Roles
      BY StartsAre
  <1>2. doc' = doc /\ touched' = touched /\ Reads!Roles' = Reads!Roles
      BY <1>1 DEF Alone, Reads!changes, Reads!Roles
  <1>3. Same(request.roles)'
    <2>1. Reads!Roles \in [Documents -> Access]
        BY DEF ReadTypes, GoodDocs, Rows, Reads!Roles, Access
    <2> QED
        BY <1>1, <1>2, <2>1 DEF Same
  <1>4. Limit \in Nat
      BY DEF ReadingGiven
  <1>5. <<>> \in Seq(Documents) /\ Reads!IsInjective(<<>>) /\ Len(<<>>) = 0 /\ Reads!Range(<<>>) = {}
      BY EmptySeq DEF Reads!IsInjective, Reads!Range
  <1>6. SearchOK'
    <2>1. \A i \in DOMAIN Variants : ~(i < 1)
        BY DEF ReadingGiven
    <2> QED
        BY <1>1, <1>3, <1>4, <1>5, <2>1 DEF SearchOK, Fresh
  <1>7. PageOK'
    <2>1. 1 \in DOMAIN Variants
        BY DEF ReadingGiven
    <2>2. \A d, w : Reads!Place(d, w)' \in Nat /\ Reads!Place(d, w)' >= 1
      <3>1. ASSUME NEW w, NEW d PROVE Reads!Place(d, w)' \in Nat /\ Reads!Place(d, w)' >= 1
        <4>1. PICK S : S = {e \in Reads!Matching(w)' : Reads!Precedes(e, d, w)'}
            OBVIOUS
        <4>2. S \subseteq Documents
            BY <4>1 DEF Reads!Matching, Reads!Live
        <4>3. IsFiniteSet(S)
            BY <4>2, FS_Subset DEF ReadingGiven
        <4>4. Cardinality(S) \in Nat
            BY <4>3, FS_CardinalityType
        <4> QED
            BY SameSize, <4>1, <4>4 DEF Reads!Place
      <3> QED
          BY <3>1
    <2>3. \A d, w : ~(Reads!Place(d, w)' <= 0)
        BY <2>2
    <2> QED
        BY <1>1, <2>1, <2>3 DEF PageOK, Fresh
  <1> QED
      BY <1>1, <1>6, <1>7 DEF SearchGroup, FoundOK, AnswerOK, Reads!SearchFinds, Reads!Done

LEMMA SearchGoesOn ==
    ASSUME ReadingGiven, ReadTypes, SearchGroup, Reads!SearchPage
    PROVE  SearchGroup'
  <1>1. /\ request.at = "page" /\ Alone
        /\ request'.kind = request.kind /\ request'.space = request.space
        /\ request'.roles = request.roles
        /\ request'.said = request.said
      BY SearchPageIs DEF ReadTypes
  <1>2. PICK w : w = Variants[request.variant]
      OBVIOUS
  <1>3. PICK all \in Reads!Ordered(w) : \E shown \in Shown(all, request.found) : \E ended \in BOOLEAN :
                 /\ ended <=> \/ Len(Reads!Slice(all, request.offset, PageSize)) < PageSize
                              \/ request.offset + PageSize >= ScanCap
                 /\ request'.found = Reads!FirstOf(request.found \o shown, Limit)
                 /\ ended => request'.offset = 0 /\ request'.variant = request.variant + 1
                 /\ ~ended => request'.offset = request.offset + PageSize /\
                        request'.variant = request.variant
                 /\ request'.at \in {"page", "snippets"}
                 /\ request'.at = "snippets" <=>
                       (Len(request'.found) = Limit \/ (ended /\ request.variant = Len(Variants)))
      BY <1>2, SearchPageIs DEF ReadTypes
  <1>4. PICK shown \in Shown(all, request.found), ended \in BOOLEAN :
                 /\ ended <=> \/ Len(Reads!Slice(all, request.offset, PageSize)) < PageSize
                              \/ request.offset + PageSize >= ScanCap
                 /\ request'.found = Reads!FirstOf(request.found \o shown, Limit)
                 /\ ended => request'.offset = 0 /\ request'.variant = request.variant + 1
                 /\ ~ended => request'.offset = request.offset + PageSize /\
                        request'.variant = request.variant
                 /\ request'.at \in {"page", "snippets"}
                 /\ request'.at = "snippets" <=>
                       (Len(request'.found) = Limit \/ (ended /\ request.variant = Len(Variants)))
      BY <1>3
  <1>5. /\ request.kind \in {"search", "answer"} /\ Same(request.roles)
        /\ request.found \in Seq(Documents) /\ Reads!IsInjective(request.found)
        /\ Len(request.found) <= Limit
        /\ \A d \in Reads!Range(request.found) : request.roles[d] # "none"
        /\ request.variant \in Nat \ {0} /\ request.offset \in Nat /\ request.said = <<>>
        /\ Len(request.found) < Limit =>
             \A i \in DOMAIN Variants : i < request.variant => Covered(Variants[i])
      BY <1>1 DEF ReadTypes, Stages, SearchGroup, SearchOK
  <1>6. /\ request.variant \in DOMAIN Variants
        /\ \A d \in Reads!Matching(w) \ (touched \cup slipped) :
             Reads!Place(d, w) <= request.offset =>
                 request.roles[d] = "none" \/ d \in Reads!Range(request.found)
      BY <1>1, <1>2 DEF SearchGroup, PageOK
  <1>7. PICK page : page = Reads!Slice(all, request.offset, PageSize)
      OBVIOUS
  <1>8. PageSize \in Nat /\ Limit \in Nat /\ ScanCap \in Nat /\ Len(Variants) \in Nat /\
            IsFiniteSet(Documents)
      BY DEF ReadingGiven
  <1>9. page \in Seq(Documents)
    <2>1. all \in Seq(Documents)
        BY PlaceIs
    <2> QED
        BY <1>5, <1>7, <1>8, <2>1, SliceIs
  <1>10. /\ shown \in Seq(Documents) /\ Reads!IsInjective(shown)
         /\ Reads!Range(shown) = Reads!Range(page) \cap
                ({d \in Documents : request.roles[d] # "none"} \ Reads!Range(request.found))
    <2>1. PICK S : S = {d \in Documents : request.roles[d] # "none"} \ Reads!Range(request.found)
        OBVIOUS
    <2>2. shown \in Reads!Kept(page, S)
        BY <1>7, <2>1 DEF Shown
    <2>0. IsFiniteSet(Documents)
        BY <1>8
    <2> QED
        BY <1>9, <2>0, <2>1, <2>2, KeptAre
  <1>11. PICK found : found = request'.found
      OBVIOUS
  <1>12. /\ found \in Seq(Documents) /\ Len(found) \in Nat /\ Len(found) <= Limit
         /\ Reads!IsInjective(found)
         /\ Reads!Range(found) \subseteq Reads!Range(request.found) \cup Reads!Range(shown)
         /\ Len(found) < Limit => Len(request.found) < Limit /\
                Reads!Range(request.found) \cup Reads!Range(shown) \subseteq Reads!Range(found)
    <2>1. Reads!Range(request.found) \cap Reads!Range(shown) = {} /\
              found = Reads!FirstOf(request.found \o shown, Limit)
        BY <1>4, <1>10, <1>11
    <2> QED
        BY <1>5, <1>8, <1>10, <2>1, FoundGrows
  <1>13. /\ \A v : Reads!Matching(v)' = Reads!Matching(v)
         /\ \A v, d : Reads!Place(d, v)' = Reads!Place(d, v)
         /\ Reads!Roles' = Reads!Roles /\ touched' = touched /\ slipped' = slipped
      BY <1>1, SearchStays
  <1>14. ASSUME Len(found) < Limit, NEW d \in Reads!Matching(w) \ (touched \cup slipped),
                Reads!Place(d, w) <= request.offset + PageSize
         PROVE  request.roles[d] = "none" \/ d \in Reads!Range(found)
    <2>1. CASE Reads!Place(d, w) <= request.offset
        BY <1>6, <1>12, <1>14, <2>1
    <2>2. CASE ~(Reads!Place(d, w) <= request.offset)
      <3>1. Reads!Place(d, w) > request.offset
          BY <1>5, <2>2, PlaceType
      <3>2. d \in Reads!Range(page)
          BY <1>5, <1>7, <1>14, <3>1, PageCovers
      <3>3. d \in Documents
          BY MatchingIs
      <3> QED
          BY <1>10, <1>12, <1>14, <3>2, <3>3
    <2> QED
        BY <2>1, <2>2
  <1>15. ASSUME Len(found) < Limit, ended, NEW d \in Reads!Matching(w) \ (touched \cup slipped)
         PROVE  request.roles[d] = "none" \/ d \in Reads!Range(found) \/
                    Cardinality(Reads!Matching(w) \cup touched) > ScanCap
    <2>1. \/ Reads!Place(d, w) <= request.offset + PageSize \/ Cardinality(Reads!Matching(w)) > ScanCap
        BY <1>4, <1>5, <1>7, <1>15, PageCovers
    <2>2. CASE Cardinality(Reads!Matching(w)) > ScanCap
      <3>1. Reads!Matching(w) \cup touched \subseteq Documents
          BY MatchingIs DEF ReadTypes
      <3>2. IsFiniteSet(Reads!Matching(w) \cup touched)
          BY <1>8, <3>1, FS_Subset
      <3>3. Cardinality(Reads!Matching(w)) <= Cardinality(Reads!Matching(w) \cup touched)
          BY <3>2, FS_Subset
      <3>4. Cardinality(Reads!Matching(w) \cup touched) \in Nat /\ Cardinality(Reads!Matching(w)) \in Nat
          BY <3>2, FS_CardinalityType, MatchingIs
      <3> QED
          BY <1>8, <2>2, <3>3, <3>4
    <2> QED
        BY <1>14, <1>15, <2>1, <2>2
  <1>16. Same(request.roles)'
      BY <1>1, <1>5, <1>13 DEF Same
  <1>17. request'.variant \in Nat \ {0} /\ request'.offset \in Nat
      BY <1>4, <1>5, <1>8
  <1>18. ASSUME Len(found) < Limit, NEW i \in DOMAIN Variants, i < request'.variant
         PROVE  Covered(Variants[i])'
    <2>1. CASE i < request.variant
        BY <1>1, <1>5, <1>11, <1>12, <1>13, <1>18, <2>1 DEF Covered
    <2>2. CASE ~(i < request.variant)
      <3>1. i \in Nat
          BY DEF ReadingGiven
      <3>2. ended /\ i = request.variant
          BY <1>4, <1>5, <1>18, <2>2, <3>1
      <3>3. Variants[i] = w
          BY <1>2, <3>2
      <3> QED
          BY <1>1, <1>11, <1>13, <1>15, <1>18, <3>2, <3>3 DEF Covered
    <2> QED
        BY <2>1, <2>2
  <1>19. \A d \in Reads!Range(found) : request.roles[d] # "none"
      BY <1>5, <1>10, <1>12
  <1>20. SearchOK'
      BY <1>1, <1>5, <1>11, <1>12, <1>16, <1>17, <1>18, <1>19 DEF SearchOK
  <1>21. ASSUME request'.at = "page"
         PROVE  /\ request'.variant \in DOMAIN Variants
                /\ \A d \in Reads!Matching(Variants[request'.variant]) \ (touched \cup slipped) :
                      Reads!Place(d, Variants[request'.variant]) <= request'.offset =>
                               request.roles[d] = "none" \/ d \in Reads!Range(found)
    <2>1. Len(found) # Limit /\ ~(ended /\ request.variant = Len(Variants))
        BY <1>4, <1>11, <1>21
    <2>2. Len(found) < Limit
        BY <1>8, <1>12, <2>1
    <2>3. CASE ended
      <3>1. request'.variant = request.variant + 1 /\ request'.offset = 0 /\
                request.variant # Len(Variants)
          BY <1>4, <2>1, <2>3
      <3>2. request'.variant \in DOMAIN Variants
          BY <1>5, <1>6, <3>1 DEF ReadingGiven
      <3>3. \A d : ~(Reads!Place(d, Variants[request'.variant]) <= 0)
          BY PlaceType
      <3> QED
          BY <3>1, <3>2, <3>3
    <2>4. CASE ~ended
        BY <1>2, <1>4, <1>6, <1>14, <2>2, <2>4
    <2> QED
        BY <2>3, <2>4
  <1>22. PageOK'
      BY <1>1, <1>11, <1>13, <1>21 DEF PageOK
  <1>23. FoundOK'
    <2>1. request'.at = "snippets" => Len(found) = Limit \/ request'.variant > Len(Variants)
        BY <1>4, <1>5, <1>8, <1>11
    <2> QED
        BY <1>4, <1>11, <2>1 DEF FoundOK
  <1> QED
      BY <1>4, <1>20, <1>22, <1>23 DEF SearchGroup, AnswerOK, Reads!SearchFinds, Reads!Done

(* What was found stays what it is while its documents are read.           *)
LEMMA FoundStays ==
    ASSUME ReadingGiven, ReadTypes, SearchGroup, Alone, request.kind \in {"search", "answer"},
           request'.kind = request.kind,
           request.at \in {"snippets", "row", "body"}, request'.at \in {"row", "body", "done"},
           request'.space = request.space, request'.roles = request.roles,
           request'.found = request.found, request'.variant = request.variant,
           request'.offset = request.offset, AnswerOK'
    PROVE  SearchGroup'
  <1>1. /\ \A v : Reads!Matching(v)' = Reads!Matching(v)
        /\ Reads!Roles' = Reads!Roles /\ touched' = touched /\ slipped' = slipped
      BY SearchStays
  <1>2. /\ Same(request.roles)
        /\ request.found \in Seq(Documents) /\ Reads!IsInjective(request.found)
        /\ Len(request.found) <= Limit
        /\ \A d \in Reads!Range(request.found) : request.roles[d] # "none"
        /\ request.variant \in Nat \ {0} /\ request.offset \in Nat
        /\ Len(request.found) < Limit =>
             \A i \in DOMAIN Variants : i < request.variant => Covered(Variants[i])
      BY DEF SearchGroup, SearchOK
  <1>3. Len(request.found) = Limit \/ request.variant > Len(Variants)
      BY DEF SearchGroup, FoundOK
  <1>4. \A v : Covered(v)' = Covered(v)
      BY <1>1 DEF Covered
  <1>5. Same(request.roles)'
      BY <1>1, <1>2 DEF Same
  <1>6. SearchOK'
      BY <1>2, <1>4, <1>5 DEF SearchOK
  <1>7. PageOK' /\ FoundOK' /\ AnswerOK'
      BY <1>3 DEF PageOK, FoundOK, AnswerOK
  <1>8. Reads!SearchFinds'
    <2> SUFFICES ASSUME Len(request.found) < Limit, NEW i \in DOMAIN Variants
                 PROVE  Covered(Variants[i])
        BY SameSize, <1>1, <1>2, <1>4 DEF Reads!SearchFinds, Covered
    <2>1. Len(request.found) \in Nat
        BY <1>2, LenProperties
    <2>2. request.variant > Len(Variants) /\ i \in 1..Len(Variants) /\ Len(Variants) \in Nat
        BY <1>3, <2>1 DEF ReadingGiven
    <2>3. i < request.variant
        BY <1>2, <2>2
    <2> QED
        BY <1>2, <2>3
  <1> QED
      BY <1>6, <1>7, <1>8 DEF SearchGroup

LEMMA AnswersGoOn ==
    ASSUME ReadingGiven, ReadTypes, SearchGroup, Reads!Snippets \/ Reads!ReadRow \/ Reads!ReadBody,
           request.kind \in {"search", "answer"}
    PROVE  SearchGroup'
  <1>1. RequestFields
      BY DEF ReadTypes
  <1>2. CASE Reads!Snippets
    <2>1. /\ request.at = "snippets" /\ Alone /\ request'.kind = request.kind
          /\ request'.space = request.space /\ request'.roles = request.roles
          /\ request'.found = request.found /\ request'.said = request.said
          /\ request'.variant = request.variant /\ request'.offset = request.offset
          /\ request'.todo = request.found
          /\ request'.at = (IF request.kind = "answer" /\ request.found # <<>> THEN "row" ELSE "done")
        BY <1>1, <1>2, SnippetsIs DEF Still
    <2>2. request.said = <<>> /\ request.found \in Seq(Documents)
        BY <2>1 DEF SearchGroup, SearchOK
    <2>3. Len(request.found) \in Nat /\ Len(<<>>) = 0
        BY <2>2, LenProperties, EmptySeq
    <2>4. AnswerOK'
        BY <2>1, <2>2, <2>3 DEF AnswerOK
    <2> QED
        BY <2>1, <2>4, FoundStays
  <1>3. CASE Reads!ReadRow
    <2>1. /\ request.at = "row" /\ Alone /\ request'.kind = request.kind /\ Unread
          /\ request'.said = request.said /\ request'.todo = request.todo
          /\ request'.at \in {"done", "body"}
        BY <1>1, <1>3, ReadRowIs DEF Still
    <2>2. AnswerOK'
        BY <2>1 DEF SearchGroup, AnswerOK, Unread
    <2> QED
        BY <2>1, <2>2, FoundStays DEF Unread
  <1>4. CASE Reads!ReadBody
    <2>1. /\ request.at = "body" /\ Alone /\ request'.kind = request.kind /\ Unread
          /\ \/ request'.at = "done"
             \/ /\ request'.said = Append(request.said, Chunk)
                /\ request'.todo = (IF request.kind = "answer" THEN Tail(request.todo) ELSE request.todo)
                /\ Again /\ request'.at = "row"
        BY <1>1, <1>4, ReadBodyIs DEF Still
    <2>2. AnswerOK'
      <3>1. CASE request'.at = "done"
          BY <3>1 DEF AnswerOK
      <3>2. CASE /\ request'.said = Append(request.said, Chunk)
                 /\ request'.todo = (IF request.kind = "answer" THEN Tail(request.todo) ELSE request.todo)
                 /\ Again /\ request'.at = "row"
        <4> SUFFICES ASSUME request.kind = "answer"
                     PROVE  /\ request'.todo \in Seq(Documents) /\ request'.todo # <<>>
                            /\ Reads!Range(request'.todo) \subseteq Reads!Range(request.found)
                            /\ Len(request'.said) + Len(request'.todo) = Len(request.found)
            BY <2>1 DEF AnswerOK, Unread
        <4>1. /\ request.todo \in Seq(Documents) /\ request.todo # <<>>
              /\ Reads!Range(request.todo) \subseteq Reads!Range(request.found)
              /\ Len(request.said) + Len(request.todo) = Len(request.found)
            BY <2>1 DEF SearchGroup, AnswerOK
        <4>2. Len(request.todo) > 1 /\ request'.todo = Tail(request.todo)
            BY <3>2 DEF Again
        <4>3. PICK rest : rest = Tail(request.todo)
            OBVIOUS
        <4>4. /\ rest \in Seq(Documents) /\ Len(rest) = Len(request.todo) - 1
              /\ Reads!Range(rest) \subseteq Reads!Range(request.todo)
              /\ Len(request.todo) \in Nat /\ (Len(request.todo) = 1 <=> rest = <<>>)
            BY <4>1, <4>3, HeadAndTail
        <4>5. Len(request.said) \in Nat
            BY LenProperties DEF ReadTypes
        <4>6. Len(request'.said) = Len(request.said) + 1
            BY <3>2, AppendProperties DEF ReadTypes
        <4>7. rest # <<>>
            BY <4>2, <4>4
        <4>8. Len(request'.said) + Len(rest) = Len(request.found)
          <5>1. \A n, m \in Nat : n + 1 + (m - 1) = n + m
              OBVIOUS
          <5> QED
              BY <4>1, <4>4, <4>5, <4>6, <5>1
        <4> QED
            BY <4>1, <4>2, <4>3, <4>4, <4>7, <4>8
      <3> QED
          BY <2>1, <3>1, <3>2
    <2> QED
        BY <2>1, <2>2, FoundStays DEF Unread
  <1> QED
      BY <1>2, <1>3, <1>4

LEMMA OthersWhileSearching ==
    ASSUME ReadingGiven, ReadTypes, SearchGroup, NEW d \in Documents, ByOthers(d)
    PROVE  SearchGroup'
  <1>1. /\ request' = request /\ request.at \notin {"idle", "done"} /\ touched' = touched \cup {d}
        /\ slipped \subseteq slipped' /\ \A e \in Documents : e # d => doc'[e] = doc[e]
      BY DEF ByOthers
  <1>2. \A e \in Documents \ touched' :
            e \notin touched /\ doc'[e] = doc[e] /\ Reads!Roles'[e] = Reads!Roles[e]
      BY <1>1, SameDoc
  <1>3. \A w : \A e \in Documents \ touched' : (e \in Reads!Matching(w)') = (e \in Reads!Matching(w))
      BY <1>1, <1>2, SameDoc
  <1>4. \A w : Reads!Matching(w) \subseteq Documents /\ Reads!Matching(w)' \subseteq Documents
      BY DEF Reads!Matching, Reads!Live
  <1>5. ASSUME NEW w, Covered(w)
        PROVE  Covered(w)'
    <2> SUFFICES ASSUME NEW e \in Reads!Matching(w)' \ (touched' \cup slipped')
                 PROVE  \/ request.roles[e] = "none" \/ e \in Reads!Range(request.found)
                        \/ Cardinality(Reads!Matching(w)' \cup touched') > ScanCap
        BY <1>1 DEF Covered
    <2>1. e \in Reads!Matching(w) \ (touched \cup slipped)
        BY <1>1, <1>2, <1>3, <1>4
    <2>2. CASE Cardinality(Reads!Matching(w) \cup touched) > ScanCap
      <3>1. Reads!Matching(w) \cup touched \subseteq Reads!Matching(w)' \cup touched'
          BY <1>1, <1>3, <1>4
      <3>2. touched \subseteq Documents /\ touched' \subseteq Documents
          BY <1>1 DEF ReadTypes
      <3>3. IsFiniteSet(Reads!Matching(w)' \cup touched')
          BY <1>4, <3>2, FS_Subset DEF ReadingGiven
      <3>4. PICK S, T : S = Reads!Matching(w) \cup touched /\ T = Reads!Matching(w)' \cup touched'
          OBVIOUS
      <3>5. IsFiniteSet(T) /\ S \subseteq T
          BY <3>1, <3>3, <3>4
      <3>6. IsFiniteSet(S) /\ Cardinality(S) <= Cardinality(T)
          BY <3>5, FS_Subset
      <3>7. Cardinality(S) \in Nat /\ Cardinality(T) \in Nat
          BY <3>5, <3>6, FS_CardinalityType
      <3>8. Cardinality(S) > ScanCap /\ ScanCap \in Nat
          BY <2>2, <3>4 DEF ReadingGiven
      <3>9. Cardinality(T) > ScanCap
          BY <3>6, <3>7, <3>8
      <3> QED
          BY <3>4, <3>9
    <2> QED
        BY <1>5, <2>1, <2>2 DEF Covered
  <1>6. Same(request.roles) => Same(request.roles)'
      BY <1>1, <1>2 DEF Same
  <1>7. SearchOK'
      BY <1>1, <1>5, <1>6 DEF SearchGroup, SearchOK
  <1>8. PageOK'
    <2> SUFFICES ASSUME request.at = "page",
                        NEW e \in Reads!Matching(Variants[request.variant])' \ (touched' \cup slipped'),
                        Reads!Place(e, Variants[request.variant])' <= request.offset
                 PROVE  request.roles[e] = "none" \/ e \in Reads!Range(request.found)
      <3>1. request.at = "page" => request.variant \in DOMAIN Variants
          BY DEF SearchGroup, PageOK
      <3> QED
          BY <1>1, <3>1 DEF PageOK
    <2>1. PICK w : w = Variants[request.variant]
        OBVIOUS
    <2>2. e \in Reads!Matching(w) \ (touched \cup slipped) /\ e \in Reads!Matching(w)'
        BY <1>1, <1>2, <1>3, <1>4, <2>1
    <2>3. ~(Reads!Place(e, w) > request.offset)
        BY <1>1, <2>1, <2>2 DEF ByOthers
    <2>4. request.offset \in Nat
        BY DEF SearchGroup, SearchOK, ReadTypes, Stages
    <2>5. Reads!Place(e, w) <= request.offset
        BY <2>3, <2>4, PlaceType
    <2> QED
        BY <2>1, <2>2, <2>5 DEF SearchGroup, PageOK
  <1>9. FoundOK' /\ AnswerOK'
      BY <1>1 DEF SearchGroup, FoundOK, AnswerOK
  <1>10. Reads!SearchFinds'
      BY <1>1 DEF Reads!SearchFinds, Reads!Done
  <1> QED
      BY <1>7, <1>8, <1>9, <1>10 DEF SearchGroup

LEMMA SearchKept ==
    ASSUME ReadingGiven, ReadInv, Reads!Next
    PROVE  SearchGroup'
  <1>1. ReadTypes /\ RequestFields /\ Stages /\ SearchGroup
      BY DEF ReadInv, ReadTypes, SearchGroup
  <1>2. Stages'
      BY TypesKept DEF ReadTypes
  <1>3. CASE Starting
    <2>1. CASE \E s \in Spaces : \E kind \in {"search", "answer"} : Reads!StartSearch(kind, s)
        BY <1>1, <2>1, SearchStarts
    <2>2. CASE ~\E s \in Spaces : \E kind \in {"search", "answer"} : Reads!StartSearch(kind, s)
      <3>1. request'.kind \in {"chunks", "latest", "recent", "decisions", "documents"}
          BY <1>3, <2>2, StartsAre DEF Starting
      <3> QED
          BY <1>2, <3>1, NotSearching
    <2> QED
        BY <2>1, <2>2
  <1>4. CASE Rewriting
    <2>1. request'.kind = "rewrite"
        BY <1>4, RewriteStarts DEF Rewriting
    <2> QED
        BY <1>2, <2>1, NotSearching
  <1>5. CASE Reads!SearchPage
      BY <1>1, <1>5, SearchGoesOn
  <1>6. CASE Reads!Snippets \/ Reads!ReadRow \/ Reads!ReadBody
    <2>1. CASE request.kind \in {"search", "answer"}
        BY <1>1, <1>6, <2>1, AnswersGoOn
    <2>2. CASE request.kind \notin {"search", "answer"}
      <3>1. request'.kind = request.kind
          BY <1>1, <1>6, SnippetsIs, ReadRowIs, ReadBodyIs DEF Still
      <3> QED
          BY <1>2, <2>2, <3>1, NotSearching
    <2> QED
        BY <2>1, <2>2
  <1>7. CASE Reads!ReadLatest \/ Resolving \/ Asking \/ Merging \/ Reads!RewriteNext
    <2>1. request'.kind = request.kind /\ request.at \in {"latest", "list", "rewrite"}
        BY <1>1, <1>7, ReadLatestIs, ListStepsAre, AskingIs, MergingIs, RewriteNextIs DEF Resolving, Still
    <2>2. request'.kind \notin {"search", "answer"}
        BY <1>1, <2>1 DEF Stages
    <2> QED
        BY <1>2, <2>2, NotSearching
  <1>8. ASSUME NEW d \in Documents, ByOthers(d) PROVE SearchGroup'
      BY <1>1, <1>8, OthersWhileSearching
  <1> QED
      BY <1>1, <1>3, <1>4, <1>5, <1>6, <1>7, <1>8, StepsAre

-----------------------------------------------------------------------------
(* Reading.                                                                *)
ReadsGroup == ChunksOK /\ SeenOK /\ Reads!ReadsAreOfOneVersion

LEMMA NotReading ==
    ASSUME Stages', request'.kind \notin {"chunks", "latest", "answer"} \/
               request'.at \in {"page", "snippets"}
    PROVE  ReadsGroup'
  BY DEF ReadsGroup, ChunksOK, SeenOK, Reads!ReadsAreOfOneVersion, Reads!Done, Stages

LEMMA ReadStarts ==
    ASSUME NEW d \in Documents, NEW kind \in {"chunks", "latest"}, Reads!StartRead(kind, d)
    PROVE  ReadsGroup'
  <1>1. Fresh /\ request'.kind = kind /\ request'.at = "row" /\ request'.todo = <<d>>
      BY StartsAre
  <1>2. Len(<<>>) = 0 /\ \A i \in DOMAIN <<>> : FALSE
      BY EmptySeq
  <1>3. ChunksOK'
      BY <1>1, <1>2 DEF ChunksOK, Fresh
  <1> QED
      BY <1>1, <1>3 DEF ReadsGroup, SeenOK, Reads!ReadsAreOfOneVersion, Reads!Done

LEMMA ReadsStay ==
    ASSUME Alone
    PROVE  /\ \A d : Reads!Version(d)' = Reads!Version(d) /\ Reads!Content(d)' = Reads!Content(d)
           /\ \A d, chunk : ChunkOK(d, chunk)' = ChunkOK(d, chunk)
           /\ doc' = doc /\ Reads!Roles' = Reads!Roles /\ touched' = touched
  BY DEF Alone, Reads!changes, Reads!Version, Reads!Content, ChunkOK, Reads!Roles

(* A document found could be read, and can still if others left it alone.  *)
LEMMA FoundIsOpen ==
    ASSUME ReadTypes, SearchGroup, request.kind = "answer", request.at \in {"row", "body"},
           Head(request.todo) \notin touched
    PROVE  doc[Head(request.todo)].live /\ Reads!Roles[Head(request.todo)] # "none"
  <1>1. PICK d : d = Head(request.todo)
      OBVIOUS
  <1>2. request.todo \in Seq(Documents) /\ request.todo # <<>> /\
            Reads!Range(request.todo) \subseteq Reads!Range(request.found)
      BY DEF SearchGroup, AnswerOK
  <1>3. d \in Documents /\ d \in Reads!Range(request.todo)
      BY <1>1, <1>2, HeadAndTail
  <1>4. Same(request.roles) /\ \A e \in Reads!Range(request.found) : request.roles[e] # "none"
      BY DEF SearchGroup, SearchOK
  <1>5. request.roles[d] # "none" /\ request.roles[d] = Reads!Roles[d]
      BY <1>1, <1>2, <1>3, <1>4 DEF Same
  <1>6. doc[d].live
      BY <1>3, <1>5 DEF Reads!Roles
  <1> QED
      BY <1>1, <1>5, <1>6

LEMMA SnippetsThenRead ==
    ASSUME ReadTypes, SearchGroup, Reads!Snippets
    PROVE  ReadsGroup'
  <1>1. /\ request.at = "snippets" /\ Alone /\ request'.kind = request.kind
        /\ request'.found = request.found /\ request'.said = request.said
        /\ request'.failed = request.failed
        /\ request'.at = (IF request.kind = "answer" /\ request.found # <<>> THEN "row" ELSE "done")
      BY SnippetsIs DEF ReadTypes, Still
  <1>2. request.kind \in {"search", "answer"} /\ ~request.failed /\ request.said = <<>>
      BY <1>1 DEF ReadTypes, Stages, SearchGroup, SearchOK
  <1>3. ChunksOK' /\ SeenOK'
      BY <1>1, <1>2 DEF ChunksOK, SeenOK
  <1>4. Reads!ReadsAreOfOneVersion'
      BY <1>1, <1>2 DEF Reads!ReadsAreOfOneVersion, Reads!Done
  <1> QED
      BY <1>3, <1>4 DEF ReadsGroup

LEMMA RowRead ==
    ASSUME ReadTypes, SearchGroup, ReadsGroup, Reads!ReadRow
    PROVE  ReadsGroup'
  <1> DEFINE d == Head(request.todo)
  <1>1. /\ request.at = "row" /\ Alone /\ request'.kind = request.kind
        /\ request'.said = request.said /\ request'.todo = request.todo
        /\ \/ ~doc[d].live /\ request'.at = "done" /\ request'.failed = TRUE
           \/ /\ doc[d].live /\ request'.at = "body" /\ request'.failed = request.failed
              /\ request'.seen = Reads!Version(d)
      BY ReadRowIs DEF ReadTypes, Still
  <1>2. d \in Documents /\ request.kind \in {"chunks", "latest", "answer"}
      BY <1>1, ReadsOne DEF SearchGroup, ReadsGroup
  <1>3. /\ \A e : Reads!Version(e)' = Reads!Version(e)
        /\ \A e, chunk : ChunkOK(e, chunk)' = ChunkOK(e, chunk)
        /\ doc' = doc /\ Reads!Roles' = Reads!Roles /\ touched' = touched
      BY <1>1, ReadsStay
  <1>4. CASE ~doc[d].live /\ request'.at = "done" /\ request'.failed = TRUE
    <2>1. Reads!Roles[d] = "none"
        BY <1>2, <1>4 DEF Reads!Roles
    <2>2. request.kind = "answer" => d \in touched
        BY <1>1, <1>4, FoundIsOpen
    <2>3. Reads!ReadsAreOfOneVersion'
        BY <1>1, <1>3, <1>4, <2>1, <2>2 DEF Reads!ReadsAreOfOneVersion, Reads!Done
    <2> QED
        BY <1>4, <2>3 DEF ReadsGroup, ChunksOK, SeenOK
  <1>5. CASE /\ doc[d].live /\ request'.at = "body" /\ request'.failed = request.failed
             /\ request'.seen = Reads!Version(d)
    <2>1. Reads!Version(d) \in DOMAIN doc[d].body
        BY <1>2, DocFacts DEF ReadTypes
    <2>2. SeenOK'
        BY <1>1, <1>3, <1>5, <2>1 DEF SeenOK
    <2>3. ChunksOK'
        BY <1>1, <1>2, <1>3, <1>5 DEF ReadsGroup, ChunksOK
    <2>4. Reads!ReadsAreOfOneVersion'
        BY <1>5 DEF Reads!ReadsAreOfOneVersion, Reads!Done
    <2> QED
        BY <2>2, <2>3, <2>4 DEF ReadsGroup
  <1> QED
      BY <1>1, <1>4, <1>5

LEMMA BodyRead ==
    ASSUME ReadTypes, ReadTypes', SearchGroup, ReadsGroup, Reads!ReadBody
    PROVE  ReadsGroup'
  <1> DEFINE d == Head(request.todo)
  <1>1. /\ request.at = "body" /\ Alone /\ request'.kind = request.kind /\ request'.found = request.found
        /\ \/ /\ Reads!Roles[d] = "none" /\ request'.at = "done" /\ request'.failed = TRUE
              /\ request'.said = request.said /\ request'.todo = request.todo
           \/ /\ request'.said = Append(request.said, Chunk) /\ request'.failed = request.failed
              /\ request'.todo = (IF request.kind = "answer" THEN Tail(request.todo) ELSE request.todo)
              /\ Again => request'.at = "row"
              /\ ~Again => request'.at = IF request.kind = "latest" THEN "latest" ELSE "done"
      BY ReadBodyIs DEF ReadTypes, Still, Unread
  <1>2. d \in Documents /\ request.kind \in {"chunks", "latest", "answer"}
      BY <1>1, ReadsOne DEF SearchGroup, ReadsGroup
  <1>3. /\ \A e : Reads!Version(e)' = Reads!Version(e)
        /\ \A e, chunk : ChunkOK(e, chunk)' = ChunkOK(e, chunk)
        /\ doc' = doc /\ Reads!Roles' = Reads!Roles /\ touched' = touched
      BY <1>1, ReadsStay
  <1>4. CASE /\ Reads!Roles[d] = "none" /\ request'.at = "done" /\ request'.failed = TRUE
             /\ request'.said = request.said /\ request'.todo = request.todo
    <2>1. request.kind = "answer" => d \in touched
        BY <1>1, <1>4, FoundIsOpen
    <2>2. Reads!ReadsAreOfOneVersion'
        BY <1>1, <1>3, <1>4, <2>1 DEF Reads!ReadsAreOfOneVersion, Reads!Done
    <2> QED
        BY <1>4, <2>2 DEF ReadsGroup, ChunksOK, SeenOK
  <1>5. CASE /\ request'.said = Append(request.said, Chunk) /\ request'.failed = request.failed
             /\ request'.todo = (IF request.kind = "answer" THEN Tail(request.todo) ELSE request.todo)
             /\ Again => request'.at = "row"
             /\ ~Again => request'.at = IF request.kind = "latest" THEN "latest" ELSE "done"
    <2>1. Len(request.said) \in Nat /\ Len(request'.said) = Len(request.said) + 1
        BY <1>5, LenProperties, AppendProperties DEF ReadTypes
    <2>2. request'.said[Len(request.said) + 1] = Chunk /\ \A i \in 1..Len(request.said) :
              request'.said[i] = request.said[i]
        BY <1>5, AppendProperties DEF ReadTypes
    <2>3. DOMAIN request'.said = 1..(Len(request.said) + 1) /\ DOMAIN request.said = 1..Len(request.said)
      <3>1. DOMAIN request'.said = 1..Len(request'.said)
          BY LenProperties DEF ReadTypes
      <3>2. DOMAIN request.said = 1..Len(request.said)
          BY LenProperties DEF ReadTypes
      <3> QED
          BY <2>1, <3>1, <3>2
    <2>4. ChunkOK(d, Chunk) /\ ~request.failed
        BY <1>1 DEF ReadsGroup, SeenOK, ChunkOK, Chunk, ReadTypes, Stages
    <2>5. SeenOK' /\ request'.at \in {"row", "latest", "done"}
        BY <1>5 DEF SeenOK
    <2>6. CASE request.kind = "answer"
      <3>1. ChunksOK'
          BY <1>1, <2>6 DEF ChunksOK
      <3>2. ASSUME request'.at = "done" PROVE Len(request'.said) = Len(request.found)
        <4>1. /\ request.todo \in Seq(Documents) /\ request.todo # <<>>
              /\ Len(request.said) + Len(request.todo) = Len(request.found)
            BY <1>1, <2>6 DEF SearchGroup, AnswerOK
        <4>2. ~(Len(request.todo) > 1)
            BY <1>5, <2>6, <3>2 DEF Again
        <4>3. Len(request.todo) \in Nat /\ Len(request.todo) # 0
            BY <4>1, HeadAndTail
        <4>4. Len(request.todo) = 1
          <5>1. \A n \in Nat : (n # 0 /\ ~(n > 1)) => n = 1
              OBVIOUS
          <5> QED
              BY <4>2, <4>3, <5>1
        <4> QED
            BY <2>1, <4>1, <4>4
      <3>3. Reads!ReadsAreOfOneVersion'
          BY <1>1, <1>5, <2>4, <2>6, <3>2 DEF Reads!ReadsAreOfOneVersion, Reads!Done
      <3> QED
          BY <2>5, <3>1, <3>3 DEF ReadsGroup
    <2>7. CASE request.kind \in {"chunks", "latest"}
      <3>1. /\ request.todo = <<d>> /\ request'.todo = <<d>>
            /\ \A i \in DOMAIN request.said : ChunkOK(d, request.said[i])
            /\ Len(request.said) \in (IF request.kind = "latest" THEN {0} ELSE {0, 1})
          BY <1>1, <1>5, <2>7 DEF ReadsGroup, ChunksOK
      <3>2. \A i \in DOMAIN request'.said : ChunkOK(d, request'.said[i])
        <4>1. \A i \in 1..(Len(request.said) + 1) : i = Len(request.said) + 1 \/
                  i \in 1..Len(request.said)
            BY <2>1
        <4> QED
            BY <2>2, <2>3, <2>4, <3>1, <4>1
      <3>3. request'.at # "done" => Len(request'.said) \in (IF request'.at = "latest" THEN {1}
                                  ELSE IF request.kind = "latest" THEN {0} ELSE {0, 1})
          BY <1>5, <2>1, <2>7, <3>1 DEF Again
      <3>4. ChunksOK'
        <4>1. PICK e : e = d
            OBVIOUS
        <4>2. \A i \in DOMAIN request'.said : ChunkOK(e, request.said[i])'
          <5> SUFFICES ASSUME NEW i \in DOMAIN request'.said PROVE ChunkOK(e, request.said[i])'
              OBVIOUS
          <5>1. PICK c : c = request'.said[i]
              OBVIOUS
          <5>2. ChunkOK(e, c)'
              BY <1>3, <3>2, <4>1, <5>1
          <5> QED
              BY <5>1, <5>2 DEF ChunkOK
        <4>3. Head(request'.todo) = e
            BY <3>1, <4>1
        <4>4. \A i \in DOMAIN request'.said : ChunkOK(Head(request.todo), request.said[i])'
            BY <4>2, <4>3 DEF ChunkOK
        <4> QED
            BY <1>1, <1>2, <3>1, <3>3, <4>4 DEF ChunksOK
      <3>5. Reads!ReadsAreOfOneVersion'
        <4> SUFFICES ASSUME request'.at = "done"
                     PROVE  request.kind = "chunks" /\ (request'.said[1].version =
                                request'.said[2].version =>
                                request'.said[1].content = request'.said[2].content)
            BY <1>1, <1>5, <2>4, <2>7 DEF Reads!ReadsAreOfOneVersion, Reads!Done
        <4>1. request.kind = "chunks" /\ Len(request.said) # 0
            BY <1>5, <2>7 DEF Again
        <4>2. Len(request.said) = 1
            BY <3>1, <4>1
        <4>3. 1 \in DOMAIN request'.said /\ 2 \in DOMAIN request'.said
            BY <2>3, <4>2
        <4>4. ChunkOK(d, request'.said[1]) /\ ChunkOK(d, request'.said[2])
            BY <3>2, <4>3
        <4> QED
            BY <4>1, <4>4 DEF ChunkOK
      <3> QED
          BY <2>5, <3>4, <3>5 DEF ReadsGroup
    <2> QED
        BY <1>2, <2>6, <2>7
  <1> QED
      BY <1>1, <1>4, <1>5

LEMMA LatestRead ==
    ASSUME ReadTypes, ReadTypes', SearchGroup, ReadsGroup, Reads!ReadLatest
    PROVE  ReadsGroup'
  <1> DEFINE d == Head(request.todo)
             previous == Reads!Version(d) - 1
             chunk == [version |-> previous,
                 content |-> IF previous = 0 THEN None ELSE doc[d].body[previous]]
  <1>1. /\ request.at = "latest" /\ Alone /\ request'.kind = request.kind /\ request'.at = "done"
        /\ request'.failed = request.failed /\ request'.todo = request.todo
        /\ request'.said = Append(request.said, chunk)
      BY ReadLatestIs DEF ReadTypes, Still
  <1>2. d \in Documents /\ request.kind = "latest" /\ ~request.failed
      BY <1>1, ReadsOne DEF SearchGroup, ReadsGroup, ReadTypes, Stages
  <1>3. touched' = touched
      BY <1>1, ReadsStay
  <1>4. Len(request.said) = 1 /\ \A i \in DOMAIN request.said : ChunkOK(d, request.said[i])
      BY <1>1, <1>2 DEF ReadsGroup, ChunksOK
  <1>5. DOMAIN request.said = 1..Len(request.said)
      BY LenProperties DEF ReadTypes
  <1>6. ChunkOK(d, request.said[1])
      BY <1>4, <1>5
  <1>7. PICK last : last = chunk
      OBVIOUS
  <1>8. request'.said[1] = request.said[1] /\ request'.said[2] = last
    <2>1. /\ request'.said[Len(request.said) + 1] = last
          /\ \A i \in 1..Len(request.said) : request'.said[i] = request.said[i]
        BY <1>1, <1>7, AppendProperties DEF ReadTypes
    <2> QED
        BY <1>4, <2>1
  <1>9. last.version = previous /\ (previous # 0 => last.content = doc[d].body[previous])
      BY <1>7
  <1>10. ASSUME d \notin touched
         PROVE  /\ last.version = request.said[1].version - 1
                /\ last.version # 0 => last.content # request.said[1].content
    <2>1. request.said[1].version = Reads!Version(d) /\
              request.said[1].content = doc[d].body[Reads!Version(d)]
        BY <1>6, <1>10 DEF ChunkOK
    <2>2. Reads!Version(d) \in DOMAIN doc[d].body /\ Reads!Version(d) \in Nat /\ Reads!Version(d) # 0
        BY <1>2, DocFacts DEF ReadTypes
    <2>3. ASSUME previous # 0 PROVE doc[d].body[previous] # doc[d].body[Reads!Version(d)]
      <3>1. Reads!Version(d) # 1
          BY <2>2, <2>3
      <3> QED
          BY <1>2, <2>2, <3>1 DEF ReadTypes, GoodDocs
    <2> QED
        BY <1>9, <2>1, <2>3
  <1>11. Reads!ReadsAreOfOneVersion'
      BY <1>1, <1>2, <1>3, <1>8, <1>10 DEF Reads!ReadsAreOfOneVersion, Reads!Done
  <1> QED
      BY <1>1, <1>11 DEF ReadsGroup, ChunksOK, SeenOK

LEMMA OthersWhileReading ==
    ASSUME ReadTypes, SearchGroup, ReadsGroup, NEW d \in Documents, ByOthers(d)
    PROVE  ReadsGroup'
  <1>1. /\ request' = request /\ request.at \notin {"idle", "done"} /\ touched' = touched \cup {d}
        /\ \A e \in Documents : e # d => doc'[e] = doc[e]
        /\ \A e \in Documents : \A n \in DOMAIN doc[e].body :
              n \in DOMAIN doc'[e].body /\ doc'[e].body[n] = doc[e].body[n]
      BY DEF ByOthers
  <1>2. \A e \in Documents \ touched' : e \notin touched /\ Reads!Version(e)' = Reads!Version(e)
      BY <1>1, SameDoc
  <1>3. ASSUME NEW e \in Documents, NEW chunk, ChunkOK(e, chunk)
        PROVE  ChunkOK(e, chunk)'
      BY <1>1, <1>2, <1>3 DEF ChunkOK
  <1>4. ChunksOK'
    <2>1. ASSUME request.kind \in {"chunks", "latest"}, request.at \in {"row", "body", "latest"}
          PROVE  Head(request.todo) \in Documents
        BY <2>1, ReadsOne DEF SearchGroup, ReadsGroup
    <2> QED
        BY <1>1, <1>3, <2>1 DEF ReadsGroup, ChunksOK
  <1>5. SeenOK'
    <2>1. ASSUME request.at = "body"
          PROVE  Head(request.todo) \in Documents
        BY <2>1, ReadsOne DEF SearchGroup, ReadsGroup
    <2> QED
        BY <1>1, <1>2, <2>1 DEF ReadsGroup, SeenOK
  <1> QED
      BY <1>1, <1>4, <1>5 DEF ReadsGroup, Reads!ReadsAreOfOneVersion, Reads!Done

LEMMA ReadsKept ==
    ASSUME ReadingGiven, ReadInv, Reads!Next
    PROVE  ReadsGroup'
  <1>1. ReadTypes /\ RequestFields /\ Stages /\ SearchGroup /\ ReadsGroup
      BY DEF ReadInv, ReadTypes, SearchGroup, ReadsGroup
  <1>2. ReadTypes' /\ Stages'
      BY TypesKept DEF ReadTypes
  <1>3. CASE Starting
    <2>1. CASE \E d \in Documents : \E kind \in {"chunks", "latest"} : Reads!StartRead(kind, d)
        BY <2>1, ReadStarts
    <2>2. CASE ~\E d \in Documents : \E kind \in {"chunks", "latest"} : Reads!StartRead(kind, d)
      <3>1. request'.kind \in {"recent", "decisions", "documents"} \/ request'.at = "page"
          BY <1>3, <2>2, StartsAre DEF Starting
      <3> QED
          BY <1>2, <3>1, NotReading
    <2> QED
        BY <2>1, <2>2
  <1>4. CASE Rewriting
    <2>1. request'.kind = "rewrite"
        BY <1>4, RewriteStarts DEF Rewriting
    <2> QED
        BY <1>2, <2>1, NotReading
  <1>5. CASE Reads!SearchPage
    <2>1. request'.at \in {"page", "snippets"}
        BY <1>1, <1>5, SearchPageIs
    <2> QED
        BY <1>2, <2>1, NotReading
  <1>6. CASE Resolving \/ Asking \/ Merging \/ Reads!RewriteNext
    <2>1. request'.kind = request.kind /\ request.at \in {"list", "rewrite"}
        BY <1>1, <1>6, ListStepsAre, AskingIs, MergingIs, RewriteNextIs DEF Resolving, Still
    <2>2. request'.kind \notin {"chunks", "latest", "answer"}
        BY <1>1, <2>1 DEF Stages
    <2> QED
        BY <1>2, <2>2, NotReading
  <1>7. ASSUME NEW d \in Documents, ByOthers(d) PROVE ReadsGroup'
      BY <1>1, <1>7, OthersWhileReading
  <1>8. CASE Reads!Snippets
      BY <1>1, <1>8, SnippetsThenRead
  <1>9. CASE Reads!ReadRow
      BY <1>1, <1>9, RowRead
  <1>10. CASE Reads!ReadBody
      BY <1>1, <1>2, <1>10, BodyRead
  <1>11. CASE Reads!ReadLatest
      BY <1>1, <1>2, <1>11, LatestRead
  <1> QED
      BY <1>1, <1>3, <1>4, <1>5, <1>6, <1>7, <1>8, <1>9, <1>10, <1>11, StepsAre

-----------------------------------------------------------------------------
(* Listing.                                                                *)
ListGroup == ListOK /\ Reads!ListsAreNewest

LEMMA NotListing ==
    ASSUME Stages', request'.kind \notin {"recent", "decisions", "documents"}
    PROVE  ListGroup'
  BY DEF ListGroup, ListOK, Reads!ListsAreNewest, Reads!Done, Stages

LEMMA ListStarts ==
    ASSUME NEW asked \in SUBSET Spaces, NEW kind, Reads!StartList(kind, asked)
    PROVE  ListGroup'
  <1>1. /\ request'.at = "list"
        /\ request'.roles = [s \in asked |-> None] /\ request'.lists = [s \in asked |-> None]
      BY StartsAre
  <1> QED
      BY <1>1 DEF ListGroup, ListOK, Reads!ListsAreNewest, Reads!Done

LEMMA ListStays ==
    ASSUME Alone, request'.kind = request.kind
    PROVE  /\ \A s, rows : ListedOK(s, rows)' = ListedOK(s, rows)
           /\ \A roles : Same(roles)' = Same(roles)
           /\ \A d : Crowd(d)' = Crowd(d)
           /\ \A d : Reads!HasDecision(d)' = Reads!HasDecision(d)
           /\ doc' = doc /\ Reads!Roles' = Reads!Roles /\ touched' = touched
  <1>1. doc' = doc /\ touched' = touched /\ Reads!Roles' = Reads!Roles
      BY DEF Alone, Reads!changes, Reads!Roles
  <1>2. \A d : Reads!HasDecision(d)' = Reads!HasDecision(d)
      BY <1>1 DEF Reads!HasDecision, Reads!LinkedBy, Reads!Content
  <1>3. \A d : Crowd(d)' = Crowd(d)
      BY <1>1 DEF Crowd
  <1>4. \A d, s : Wanted(d, s)' = Wanted(d, s)
      BY <1>1, <1>2 DEF Wanted
  <1>5. \A s, rows : ListedOK(s, rows)' = ListedOK(s, rows)
      BY <1>1, <1>3, <1>4 DEF ListedOK
  <1>6. \A roles : Same(roles)' = Same(roles)
      BY <1>1 DEF Same
  <1> QED
      BY <1>1, <1>2, <1>3, <1>5, <1>6

LEMMA CrowdIs ==
    ASSUME ReadingGiven, NEW d
    PROVE  IsFiniteSet(Crowd(d)) /\ Cardinality(Crowd(d)) \in Nat
  <1>1. Crowd(d) \subseteq Documents
      BY DEF Crowd
  <1>2. IsFiniteSet(Crowd(d))
      BY <1>1, FS_Subset DEF ReadingGiven
  <1> QED
      BY <1>2, FS_CardinalityType

(* Of the newest up to a cap, those that are of a kind.                    *)
LEMMA NewestAre ==
    ASSUME ReadingGiven, ReadTypes, NEW S \in SUBSET Documents, NEW all \in Reads!ByTime(S), NEW T,
           NEW open \in Reads!Kept(Reads!FirstOf(all, RecentCap), T)
    PROVE  Reads!FirstOf(open, Limit) \in Seq(Documents) /\ Reads!IsInjective(Reads!FirstOf(open, Limit))
  <1>1. IsFiniteSet(S) /\ IsFiniteSet(Documents) /\ RecentCap \in Nat /\ Limit \in Nat
      BY FS_Subset DEF ReadingGiven
  <1>2. all \in Seq(Documents)
    <2>1. all \in Seq(S)
        BY <1>1, InOrderIs DEF Reads!ByTime
    <2> QED
        BY <2>1
  <1>3. Reads!FirstOf(all, RecentCap) \in Seq(Documents)
      BY <1>1, <1>2, FirstOfIs
  <1>4. open \in Seq(Documents) /\ Reads!IsInjective(open)
      BY <1>1, <1>3, KeptAre
  <1>5. PICK rows : rows = Reads!FirstOf(open, Limit)
      OBVIOUS
  <1>6. rows \in Seq(Documents)
      BY <1>1, <1>4, <1>5, FirstOfIs
  <1>7. DOMAIN rows = 1..Len(rows) /\ \A i \in 1..Len(rows) : rows[i] = open[i] /\ i \in 1..Len(open)
      BY <1>1, <1>4, <1>5, FirstOfIs
  <1>8. DOMAIN open = 1..Len(open)
      BY <1>4, LenProperties
  <1>9. Reads!IsInjective(rows)
      BY <1>4, <1>7, <1>8 DEF Reads!IsInjective
  <1> QED
      BY <1>5, <1>6, <1>9

LEMMA NewestHave ==
    ASSUME ReadingGiven, ReadTypes, NEW s, NEW S \in SUBSET Documents, \A e \in S :
               doc[e].space = s, NEW all \in Reads!ByTime(S), NEW T,
           NEW open \in Reads!Kept(Reads!FirstOf(all, RecentCap), T), NEW d \in S, d \in T
    PROVE  LET rows == Reads!FirstOf(open, Limit) IN
           \/ d \in Reads!Range(rows)
           \/ Cardinality(Crowd(d)) >= RecentCap
           \/ /\ Len(rows) = Limit
              /\ \A i \in 1..Len(rows) : doc[rows[i]].stamp >= doc[d].stamp
  <1>1. IsFiniteSet(S) /\ IsFiniteSet(Documents) /\ RecentCap \in Nat /\ Limit \in Nat
      BY FS_Subset DEF ReadingGiven
  <1>2. /\ all \in Seq(S) /\ Len(all) \in Nat /\ DOMAIN all = 1..Len(all)
        /\ Reads!Range(all) = S /\ \A i, j \in DOMAIN all : i # j => all[i] # all[j]
        /\ \A i, j \in DOMAIN all : i < j =>
               <<all[i], all[j]>> \in {p \in Documents \X Documents : doc[p[1]].stamp >= doc[p[2]].stamp}
      BY <1>1, InOrderIs DEF Reads!ByTime
  <1>3. \A i, j \in 1..Len(all) : i < j => doc[all[i]].stamp >= doc[all[j]].stamp
      BY <1>2
  <1>4. \A i \in 1..Len(all) : all[i] \in S /\ all[i] \in Documents /\ doc[all[i]].space = s
      BY <1>2 DEF Reads!Range
  <1>5. PICK first : first = Reads!FirstOf(all, RecentCap)
      OBVIOUS
  <1>6. all \in Seq(Documents)
      BY <1>2
  <1>7. first \in Seq(Documents) /\ Len(first) \in Nat /\ Len(first) <= RecentCap /\
            (Len(first) < RecentCap => Len(first) = Len(all))
      BY <1>1, <1>5, <1>6, FirstOfIs
  <1>8. DOMAIN first = 1..Len(first) /\ \A i \in 1..Len(first) : first[i] = all[i] /\ i \in 1..Len(all)
      BY <1>1, <1>5, <1>6, FirstOfIs
  <1>9. /\ open \in Seq(Documents) /\ Reads!Range(open) = Reads!Range(first) \cap T
      BY <1>1, <1>5, <1>7, KeptAre
  <1>10. ASSUME NEW i \in DOMAIN open, NEW j \in DOMAIN open, i < j
         PROVE  doc[open[i]].stamp >= doc[open[j]].stamp
    <2>1. PICK k, l \in DOMAIN first : k < l /\ first[k] = open[i] /\ first[l] = open[j]
        BY <1>1, <1>5, <1>7, <1>10, KeptInOrder
    <2> QED
        BY <1>3, <1>8, <2>1
  <1>11. PICK rows : rows = Reads!FirstOf(open, Limit)
      OBVIOUS
  <1>12. rows \in Seq(Documents) /\ Len(rows) \in Nat /\ Len(rows) <= Limit /\
             (Len(rows) < Limit => Len(rows) = Len(open))
      BY <1>1, <1>9, <1>11, FirstOfIs
  <1>13. DOMAIN rows = 1..Len(rows) /\ \A i \in 1..Len(rows) : rows[i] = open[i] /\ i \in 1..Len(open)
      BY <1>1, <1>9, <1>11, FirstOfIs
  <1>14. DOMAIN open = 1..Len(open)
      BY <1>9, LenProperties
  <1>15. PICK k \in 1..Len(all) : d = all[k]
      BY <1>2 DEF Reads!Range
  <1>16. CASE k <= Len(first)
    <2>1. d \in Reads!Range(open)
      <3>1. k \in 1..Len(first)
          BY <1>2, <1>7, <1>16
      <3> QED
          BY <1>8, <1>9, <1>15, <3>1 DEF Reads!Range
    <2>2. PICK m \in 1..Len(open) : open[m] = d
        BY <1>14, <2>1 DEF Reads!Range
    <2>3. Len(open) \in Nat
        BY <1>9, LenProperties
    <2>4. CASE m <= Len(rows)
      <3>1. m \in 1..Len(rows)
          BY <1>12, <2>3, <2>4
      <3> QED
          BY <1>11, <1>13, <2>2, <3>1 DEF Reads!Range
    <2>5. CASE ~(m <= Len(rows))
      <3>1. Len(rows) = Limit
          BY <1>1, <1>12, <2>3, <2>5
      <3>2. \A i \in 1..Len(rows) : i < m
          BY <1>12, <2>3, <2>5
      <3>3. \A i \in 1..Len(rows) : doc[rows[i]].stamp >= doc[d].stamp
          BY <1>10, <1>13, <1>14, <2>2, <3>2
      <3> QED
          BY <1>11, <3>1, <3>3
    <2> QED
        BY <2>4, <2>5
  <1>17. CASE ~(k <= Len(first))
    <2>1. Len(first) = RecentCap /\ RecentCap < k
        BY <1>1, <1>2, <1>7, <1>17
    <2>2. \A i \in 1..RecentCap : i \in 1..Len(all) /\ i < k
        BY <1>1, <1>2, <2>1
    <2>3. 1..RecentCap \subseteq DOMAIN all /\ \A i, j \in 1..RecentCap : i # j => all[i] # all[j]
        BY <1>2, <2>2
    <2>4. PICK A : A = {all[i] : i \in 1..RecentCap}
        OBVIOUS
    <2>5. IsFiniteSet(A) /\ Cardinality(A) = RecentCap
        BY <1>1, <2>3, <2>4, FirstMembers
    <2>6. \A i \in 1..RecentCap : all[i] \in Crowd(d)
      <3> SUFFICES ASSUME NEW i \in 1..RecentCap PROVE all[i] \in Crowd(d)
          OBVIOUS
      <3>1. all[i] \in Documents /\ all[i] # d /\ doc[all[i]].space = doc[d].space
          BY <1>2, <1>4, <1>15, <2>2
      <3>2. doc[all[i]].stamp >= doc[d].stamp
          BY <1>3, <1>15, <2>2
      <3> QED
          BY <3>1, <3>2 DEF Crowd
    <2>7. A \subseteq Crowd(d)
        BY <2>4, <2>6
    <2>8. Cardinality(A) <= Cardinality(Crowd(d))
        BY <2>7, CrowdIs, FS_Subset
    <2> QED
        BY <1>1, <2>5, <2>8, CrowdIs
  <1> QED
      BY <1>16, <1>17

LEMMA Stamped ==
    ASSUME ReadTypes, NEW rows \in Seq(Documents), Reads!IsInjective(rows)
    PROVE  LET list == [i \in DOMAIN rows |-> <<rows[i], doc[rows[i]].stamp>>] IN
           /\ list \in Seq(Documents \X Nat) /\ Reads!IsInjective(list) /\ Len(list) = Len(rows)
           /\ DOMAIN list = DOMAIN rows
           /\ \A i \in DOMAIN rows : list[i][2] = doc[rows[i]].stamp
           /\ \A d \in Reads!Range(rows) : <<d, doc[d].stamp>> \in Reads!Range(list)
  <1>1. PICK n \in Nat : n = Len(rows)
      BY LenProperties
  <1>2. DOMAIN rows = 1..n
      BY <1>1, LenProperties
  <1>3. \A i \in 1..n : rows[i] \in Documents /\ doc[rows[i]].stamp \in Nat
    <2>1. \A i \in 1..n : rows[i] \in Documents
        BY <1>2
    <2> QED
        BY <2>1, DocFacts DEF ReadTypes
  <1>4. PICK list : list = [i \in DOMAIN rows |-> <<rows[i], doc[rows[i]].stamp>>]
      OBVIOUS
  <1>5. list = [i \in 1..n |-> <<rows[i], doc[rows[i]].stamp>>]
      BY <1>2, <1>4
  <1>6. list \in Seq(Documents \X Nat) /\ Len(list) = n
    <2>1. list \in [1..n -> Documents \X Nat]
        BY <1>3, <1>5
    <2> QED
        BY <2>1
  <1>7. Reads!IsInjective(list)
      BY <1>2, <1>5 DEF Reads!IsInjective
  <1>8. \A d \in Reads!Range(rows) : <<d, doc[d].stamp>> \in Reads!Range(list)
      BY <1>2, <1>5 DEF Reads!Range
  <1> QED
      BY <1>1, <1>2, <1>4, <1>5, <1>6, <1>7, <1>8

LEMMA AskedIsRight ==
    ASSUME ReadingGiven, ReadTypes, ListOK, request.at = "list", NEW s \in DOMAIN request.lists,
           request.roles[s] # None, NEW rows,
           \/ /\ request.kind = "recent"
              /\ \E all \in Reads!ByTime(Reads!Live(s)) :
                     \E open \in Reads!Kept(Reads!FirstOf(all, RecentCap), Reads!Readables(s)) :
                    rows = Reads!FirstOf(open, Limit)
           \/ /\ request.kind = "decisions"
              /\ \E all \in Reads!ByTime(Reads!Readables(s)) :
                 \E open \in Reads!Kept(Reads!FirstOf(all, RecentCap), {d \in Documents :
                     Reads!HasDecision(d)}) :
                    rows = Reads!FirstOf(open, Limit)
           \/ /\ request.kind = "documents"
              /\ rows \in Reads!InOrder(Reads!Readables(s), {p \in Documents \X Documents : p[1] < p[2]})
    PROVE  ListedOK(s, [i \in DOMAIN rows |-> <<rows[i], doc[rows[i]].stamp>>])
  <1>1. Same(request.roles[s])
      BY DEF ListOK
  <1>2. Reads!Live(s) \in SUBSET Documents /\ Reads!Readables(s) \in SUBSET Documents /\
            Reads!Readables(s) \subseteq Reads!Live(s)
      BY DEF Reads!Live, Reads!Readables
  <1>3. \A e \in Reads!Live(s) : doc[e].space = s
      BY DEF Reads!Live
  <1>4. ASSUME NEW d \in Documents \ touched, Wanted(d, s)
        PROVE  d \in Reads!Live(s) /\ d \in Reads!Readables(s) /\
                   (request.kind = "decisions" => d \in {e \in Documents : Reads!HasDecision(e)})
    <2>1. d \in Reads!Live(s) /\ doc[d].live /\ doc[d].role # "none"
        BY <1>4 DEF Wanted, Reads!Live
    <2>2. request.roles[s][d] # "none"
        BY <1>1, <2>1 DEF Same, Reads!Roles
    <2> QED
        BY <1>4, <2>1, <2>2 DEF Reads!Readables, Wanted
  <1>5. PICK list : list = [i \in DOMAIN rows |-> <<rows[i], doc[rows[i]].stamp>>]
      OBVIOUS
  <1>6. rows \in Seq(Documents) /\ Reads!IsInjective(rows)
    <2>1. CASE request.kind = "documents"
      <3>1. IsFiniteSet(Reads!Readables(s)) /\
                rows \in Reads!InOrder(Reads!Readables(s), {p \in Documents \X Documents : p[1] < p[2]})
          BY <1>2, <2>1, FS_Subset DEF ReadingGiven
      <3>2. rows \in Seq(Reads!Readables(s)) /\ \A i, j \in DOMAIN rows : i # j => rows[i] # rows[j]
          BY <3>1, InOrderIs
      <3> QED
          BY <1>2, <3>2 DEF Reads!IsInjective
    <2>2. CASE request.kind = "recent"
        BY <1>2, <2>2, NewestAre
    <2>3. CASE request.kind = "decisions"
        BY <1>2, <2>3, NewestAre
    <2> QED
        BY <2>1, <2>2, <2>3
  <1>7. /\ list \in Seq(Documents \X Nat) /\ Reads!IsInjective(list) /\ Len(list) = Len(rows)
        /\ DOMAIN list = DOMAIN rows
        /\ \A i \in DOMAIN rows : list[i][2] = doc[rows[i]].stamp
        /\ \A d \in Reads!Range(rows) : <<d, doc[d].stamp>> \in Reads!Range(list)
      BY <1>5, <1>6, Stamped
  <1>8. DOMAIN rows = 1..Len(rows)
      BY <1>6, LenProperties
  <1>9. ASSUME NEW d \in Documents \ touched, Wanted(d, s)
        PROVE  \/ <<d, doc[d].stamp>> \in Reads!Range(list)
               \/ /\ request.kind # "documents"
                  /\ \/ Cardinality(Crowd(d)) >= RecentCap
                     \/ /\ Len(list) = Limit
                        /\ request.kind = "recent" => \A i \in DOMAIN list : list[i][2] >= doc[d].stamp
    <2>1. d \in Reads!Live(s) /\ d \in Reads!Readables(s) /\
              (request.kind = "decisions" => d \in {e \in Documents : Reads!HasDecision(e)})
        BY <1>4, <1>9
    <2>2. CASE request.kind = "documents"
      <3>1. IsFiniteSet(Reads!Readables(s)) /\
                rows \in Reads!InOrder(Reads!Readables(s), {p \in Documents \X Documents : p[1] < p[2]})
          BY <1>2, <2>2, FS_Subset DEF ReadingGiven
      <3>2. Reads!Range(rows) = Reads!Readables(s)
          BY <3>1, InOrderIs
      <3> QED
          BY <1>7, <2>1, <3>2
    <2>3. CASE request.kind \in {"recent", "decisions"}
      <3>1. \/ d \in Reads!Range(rows)
            \/ Cardinality(Crowd(d)) >= RecentCap
            \/ /\ Len(rows) = Limit
               /\ \A i \in 1..Len(rows) : doc[rows[i]].stamp >= doc[d].stamp
        <4>1. CASE request.kind = "recent"
          <5>1. PICK all \in Reads!ByTime(Reads!Live(s)) :
                         \E open \in Reads!Kept(Reads!FirstOf(all, RecentCap), Reads!Readables(s)) :
                   rows = Reads!FirstOf(open, Limit)
              BY <4>1
          <5>2. PICK open \in Reads!Kept(Reads!FirstOf(all, RecentCap), Reads!Readables(s)) : rows =
                         Reads!FirstOf(open, Limit)
              BY <5>1
          <5> QED
              BY <1>2, <1>3, <2>1, <5>2, NewestHave, ZenonT(60)
        <4>2. CASE request.kind = "decisions"
          <5>1. \A e \in Reads!Readables(s) : doc[e].space = s
              BY <1>2, <1>3
          <5>2. PICK T : T = {e \in Documents : Reads!HasDecision(e)}
              OBVIOUS
          <5>3. PICK all \in Reads!ByTime(Reads!Readables(s)) :
                         \E open \in Reads!Kept(Reads!FirstOf(all, RecentCap), T) :
                   rows = Reads!FirstOf(open, Limit)
              BY <4>2, <5>2
          <5>4. PICK open \in Reads!Kept(Reads!FirstOf(all, RecentCap), T) : rows =
                         Reads!FirstOf(open, Limit)
              BY <5>3
          <5>5. d \in T
              BY <2>1, <4>2, <5>2
          <5>6. d \in Reads!Readables(s) /\ Reads!Readables(s) \in SUBSET Documents
              BY <1>2, <2>1
          <5> QED
              BY <5>1, <5>4, <5>5, <5>6, NewestHave, ZenonT(60)
        <4> QED
            BY <2>3, <4>1, <4>2
      <3> QED
          BY <1>7, <1>8, <2>3, <3>1
    <2> QED
        BY <2>2, <2>3, <1>4, <1>9 DEF ListOK, ReadTypes, Stages
  <1> QED
      BY <1>5, <1>7, <1>9 DEF ListedOK

LEMMA ListsAre ==
    ASSUME NEW lists, NEW roles, request'.lists = lists, request'.roles = roles, request'.at = "list",
           lists \in [DOMAIN lists -> {None} \cup Seq(Documents \X Nat)], DOMAIN lists \subseteq Spaces,
           roles \in [DOMAIN lists -> {None} \cup [Documents -> Access]],
           \A t \in DOMAIN lists :
             /\ roles[t] = None \/ Same(roles[t])'
             /\ lists[t] = None \/ ListedOK(t, lists[t])'
    PROVE  ListGroup'
  <1>1. ASSUME NEW t \in DOMAIN lists
        PROVE  Same(request.roles[t])' <=> Same(roles[t])'
      BY DEF Same
  <1>2. ASSUME NEW t \in DOMAIN lists
        PROVE  ListedOK(t, request.lists[t])' <=> ListedOK(t, lists[t])'
      BY DEF ListedOK
  <1>3. ListOK'
      BY <1>1, <1>2 DEF ListOK
  <1> QED
      BY <1>3 DEF ListGroup, Reads!ListsAreNewest, Reads!Done

LEMMA AsksKeep ==
    ASSUME ReadingGiven, ReadTypes, ListGroup, Resolving \/ Asking
    PROVE  ListGroup'
  <1>1. RequestFields /\ request.at = "list"
      BY ListStepsAre, AskingIs DEF ReadTypes, Resolving
  <1>2. /\ request.lists \in [DOMAIN request.lists -> {None} \cup Seq(Documents \X Nat)]
        /\ request.roles \in [DOMAIN request.lists -> {None} \cup [Documents -> Access]]
        /\ DOMAIN request.lists \subseteq Spaces
        /\ \A s \in DOMAIN request.lists :
              /\ request.roles[s] = None \/ Same(request.roles[s])
              /\ request.lists[s] = None \/ ListedOK(s, request.lists[s])
      BY <1>1 DEF ListGroup, ListOK
  <1>3. CASE Resolving
    <2>1. PICK s : Reads!ResolveIn(s)
        BY <1>3 DEF Resolving
    <2>2. /\ Alone /\ request'.kind = request.kind /\ request'.at = "list"
          /\ s \in DOMAIN request.lists /\ request'.lists = request.lists
          /\ request'.roles = [request.roles EXCEPT ![s] = Reads!Roles]
        BY <1>1, <2>1, ListStepsAre DEF Still
    <2>3. Reads!Roles \in [Documents -> Access]
        BY DEF ReadTypes, GoodDocs, Rows, Reads!Roles, Access
    <2>4. Same(Reads!Roles)
        BY <2>3 DEF Same
    <2>5. PICK lists, roles : lists = request'.lists /\ roles = request'.roles
        OBVIOUS
    <2>6. /\ lists \in [DOMAIN lists -> {None} \cup Seq(Documents \X Nat)]
          /\ DOMAIN lists \subseteq Spaces
          /\ roles \in [DOMAIN lists -> {None} \cup [Documents -> Access]]
        BY <1>2, <2>2, <2>3, <2>5
    <2>7. ASSUME NEW t \in DOMAIN lists
          PROVE  /\ roles[t] = None \/ Same(roles[t])
                 /\ lists[t] = None \/ ListedOK(t, lists[t])
        BY <1>2, <2>2, <2>4, <2>5
    <2>8. /\ \A t, rows : ListedOK(t, rows)' = ListedOK(t, rows)
          /\ \A r : Same(r)' = Same(r)
        BY <2>2, ListStays
    <2>9. \A t \in DOMAIN lists :
             /\ roles[t] = None \/ Same(roles[t])'
             /\ lists[t] = None \/ ListedOK(t, lists[t])'
        BY <2>7, <2>8
    <2> QED
        BY <2>2, <2>5, <2>6, <2>9, ListsAre
  <1>4. CASE Asking
    <2>1. PICK s, rows :
              /\ Alone /\ Still /\ request'.at = "list"
              /\ s \in DOMAIN request.lists /\ request.roles[s] # None /\ request'.roles = request.roles
              /\ request'.lists = [request.lists EXCEPT ![s] =
                     [i \in DOMAIN rows |-> <<rows[i], doc[rows[i]].stamp>>]]
              /\ ListedOK(s, [i \in DOMAIN rows |-> <<rows[i], doc[rows[i]].stamp>>])
      <3>1. PICK s, rows :
              /\ Alone /\ Still /\ request'.at = "list"
              /\ s \in DOMAIN request.lists /\ request.roles[s] # None /\ request'.roles = request.roles
              /\ request'.lists = [request.lists EXCEPT ![s] =
                     [i \in DOMAIN rows |-> <<rows[i], doc[rows[i]].stamp>>]]
              /\ \/ /\ request.kind = "recent"
                    /\ \E all \in Reads!ByTime(Reads!Live(s)) :
                           \E open \in Reads!Kept(Reads!FirstOf(all, RecentCap), Reads!Readables(s)) :
                          rows = Reads!FirstOf(open, Limit)
                 \/ /\ request.kind = "decisions"
                    /\ \E all \in Reads!ByTime(Reads!Readables(s)) :
                       \E open \in Reads!Kept(Reads!FirstOf(all, RecentCap), {d \in Documents :
                           Reads!HasDecision(d)}) :
                          rows = Reads!FirstOf(open, Limit)
                 \/ /\ request.kind = "documents"
                    /\ rows \in Reads!InOrder(Reads!Readables(s), {p \in Documents \X Documents :
                           p[1] < p[2]})
          BY <1>1, <1>4, AskingIs
      <3>2. ListedOK(s, [i \in DOMAIN rows |-> <<rows[i], doc[rows[i]].stamp>>])
          BY <1>1, <3>1, AskedIsRight DEF ListGroup
      <3> QED
          BY <3>1, <3>2
    <2>2. PICK list : list = [i \in DOMAIN rows |-> <<rows[i], doc[rows[i]].stamp>>]
        OBVIOUS
    <2>3. /\ request'.lists = [request.lists EXCEPT ![s] = list] /\ ListedOK(s, list)
          /\ list \in Seq(Documents \X Nat)
        BY <2>1, <2>2 DEF ListedOK
    <2>4. request'.kind = request.kind
        BY <2>1 DEF Still
    <2>5. PICK lists, roles : lists = request'.lists /\ roles = request'.roles
        OBVIOUS
    <2>6. /\ lists \in [DOMAIN lists -> {None} \cup Seq(Documents \X Nat)]
          /\ DOMAIN lists \subseteq Spaces
          /\ roles \in [DOMAIN lists -> {None} \cup [Documents -> Access]]
        BY <1>2, <2>1, <2>3, <2>5
    <2>7. ASSUME NEW t \in DOMAIN lists
          PROVE  /\ roles[t] = None \/ Same(roles[t])
                 /\ lists[t] = None \/ ListedOK(t, lists[t])
        BY <1>2, <2>1, <2>3, <2>5
    <2>8. /\ \A t, r : ListedOK(t, r)' = ListedOK(t, r)
          /\ \A r : Same(r)' = Same(r)
        BY <2>1, <2>4, ListStays
    <2>9. \A t \in DOMAIN lists :
             /\ roles[t] = None \/ Same(roles[t])'
             /\ lists[t] = None \/ ListedOK(t, lists[t])'
        BY <2>7, <2>8
    <2> QED
        BY <2>1, <2>5, <2>6, <2>9, ListsAre
  <1> QED
      BY <1>3, <1>4

LEMMA RangeIsFinite ==
    ASSUME NEW S, NEW s \in Seq(S)
    PROVE  IsFiniteSet(Reads!Range(s)) /\ Reads!Range(s) \subseteq S
  <1>1. PICK n \in Nat : n = Len(s)
      BY LenProperties
  <1>2. DOMAIN s = 1..n
      BY <1>1, LenProperties
  <1>3. s \in Surjection(1..n, Reads!Range(s))
      BY <1>2 DEF Surjection, Reads!Range
  <1>4. IsFiniteSet(1..n)
      BY FS_Interval
  <1>5. \A i \in 1..n : s[i] \in S
      BY <1>2
  <1> QED
      BY <1>2, <1>3, <1>4, <1>5, FS_Surjection DEF Reads!Range

LEMMA AllRowsAre ==
    ASSUME NEW lists, IsFiniteSet(DOMAIN lists), \A s \in DOMAIN lists :
               lists[s] \in Seq(Documents \X Nat)
    PROVE  /\ IsFiniteSet(Reads!AllRows(lists)) /\ Reads!AllRows(lists) \subseteq Documents \X Nat
           /\ \A s \in DOMAIN lists : Reads!Range(lists[s]) \subseteq Reads!AllRows(lists)
  <1>1. PICK f : f = [s \in DOMAIN lists |-> Reads!Range(lists[s])]
      OBVIOUS
  <1>2. PICK T : T = {Reads!Range(lists[s]) : s \in DOMAIN lists}
      OBVIOUS
  <1>3. f \in Surjection(DOMAIN lists, T)
      BY <1>1, <1>2 DEF Surjection
  <1>4. IsFiniteSet(T)
      BY <1>3, FS_Surjection
  <1>5. \A U \in T : IsFiniteSet(U) /\ U \subseteq Documents \X Nat
      BY <1>2, RangeIsFinite
  <1>6. IsFiniteSet(UNION T)
      BY <1>4, <1>5, FS_UNION
  <1>7. Reads!AllRows(lists) = UNION T
      BY <1>2 DEF Reads!AllRows
  <1>8. \A s \in DOMAIN lists : Reads!Range(lists[s]) \in T
      BY <1>2
  <1> QED
      BY <1>5, <1>6, <1>7, <1>8

(* As many rows as one of the lists has, and where the rows are sorted, at *)
(* least as new ones.                                                      *)
LEMMA ShortestMerge ==
    ASSUME NEW all \in SUBSET (Documents \X Nat), IsFiniteSet(all), NEW order,
           NEW rows \in Reads!InOrder(all, order),
           NEW list \in Seq(Documents \X Nat), Reads!IsInjective(list),
           Reads!Range(list) \subseteq all, NEW n \in Nat, Len(list) = n
    PROVE  /\ n <= Len(rows)
           /\ \A stamp \in Nat :
                 /\ order \subseteq {p \in all \X all : p[1][2] >= p[2][2]}
                 /\ \A i \in DOMAIN list : list[i][2] >= stamp
                 => \A i \in 1..n : rows[i][2] >= stamp
  <1>1. Len(rows) = Cardinality(all) /\ Len(rows) \in Nat
      BY InOrderIs
  <1>2. DOMAIN rows = 1..Len(rows) /\ Reads!Range(rows) = all
      BY InOrderIs
  <1>3. \A i, j \in 1..Len(rows) : i # j => rows[i] # rows[j]
    <2>1. \A i, j \in DOMAIN rows : i # j => rows[i] # rows[j]
        BY InOrderIs
    <2> QED
        BY <1>2, <2>1
  <1>4. \A i, j \in 1..Len(rows) : i < j => <<rows[i], rows[j]>> \in order
    <2>1. \A i, j \in DOMAIN rows : i < j => <<rows[i], rows[j]>> \in order
        BY InOrderIs
    <2> QED
        BY <1>2, <2>1
  <1>5. DOMAIN list = 1..n
      BY LenProperties
  <1>6. Reads!Range(list) = {list[i] : i \in 1..n}
      BY <1>5 DEF Reads!Range
  <1>7. \A i, j \in 1..n : i # j => list[i] # list[j]
      BY <1>5 DEF Reads!IsInjective
  <1>8. Cardinality(Reads!Range(list)) = n /\ IsFiniteSet(Reads!Range(list))
    <2>1. 1..n \subseteq DOMAIN list
        BY <1>5
    <2>2. PICK T : T = {list[i] : i \in 1..n}
        OBVIOUS
    <2>3. IsFiniteSet(T) /\ Cardinality(T) = n
        BY <1>7, <2>1, <2>2, FirstMembers
    <2> QED
        BY <1>6, <2>2, <2>3
  <1>9. n <= Len(rows)
      BY <1>1, <1>8, FS_Subset
  <1>10. ASSUME NEW stamp \in Nat, order \subseteq {p \in all \X all : p[1][2] >= p[2][2]},
                \A i \in DOMAIN list : list[i][2] >= stamp, NEW i \in 1..n
         PROVE  rows[i][2] >= stamp
    <2> SUFFICES ASSUME ~(rows[i][2] >= stamp) PROVE FALSE
        OBVIOUS
    <2>1. i \in 1..Len(rows) /\ i - 1 \in Nat
        BY <1>1, <1>9
    <2>2. \A k \in 1..Len(rows) : rows[k] \in Documents \X Nat /\ rows[k][2] \in Nat
      <3>1. \A k \in 1..Len(rows) : rows[k] \in Reads!Range(rows)
          BY <1>2 DEF Reads!Range
      <3>2. \A x \in all : x \in Documents \X Nat /\ x[2] \in Nat
          OBVIOUS
      <3> QED
          BY <1>2, <3>1, <3>2
    <2>3. \A k \in 1..Len(rows) : i < k => rows[i][2] >= rows[k][2]
        BY <1>4, <1>10, <2>1
    <2>4. \A x \in Reads!Range(list) : x[2] >= stamp /\ x[2] \in Nat
        BY <1>5, <1>10 DEF Reads!Range
    <2>5. \A k \in 1..Len(rows) : rows[k] \in Reads!Range(list) => k \in 1..(i - 1)
      <3> SUFFICES ASSUME NEW k \in 1..Len(rows), rows[k] \in Reads!Range(list) PROVE k \in 1..(i - 1)
          OBVIOUS
      <3>1. rows[k][2] >= stamp
          BY <2>4
      <3>2. k # i
          BY <3>1
      <3>3. ~(i < k)
        <4>1. rows[i][2] \in Nat /\ rows[k][2] \in Nat
            BY <2>1, <2>2
        <4>2. PICK a, b : a = rows[i][2] /\ b = rows[k][2]
            OBVIOUS
        <4>3. i < k => a >= b
            BY <2>1, <2>3, <4>2
        <4>4. a \in Nat /\ b \in Nat /\ b >= stamp /\ ~(a >= stamp)
            BY <3>1, <4>1, <4>2
        <4> QED
            BY <4>3, <4>4
      <3> QED
          BY <1>1, <2>1, <3>2, <3>3
    <2>6. PICK B : B = {rows[k] : k \in 1..(i - 1)}
        OBVIOUS
    <2>7. Reads!Range(list) \subseteq B
      <3> SUFFICES ASSUME NEW x \in Reads!Range(list) PROVE x \in B
          OBVIOUS
      <3>1. PICK k \in 1..Len(rows) : x = rows[k]
          BY <1>2 DEF Reads!Range
      <3> QED
          BY <2>5, <2>6, <3>1
    <2>8. 1..(i - 1) \subseteq DOMAIN rows /\ \A j, k \in 1..(i - 1) : j # k => rows[j] # rows[k]
      <3>1. \A j \in 1..(i - 1) : j \in 1..Len(rows)
          BY <1>1, <2>1
      <3> QED
          BY <1>2, <1>3, <3>1
    <2>9. IsFiniteSet(B) /\ Cardinality(B) = i - 1
        BY <2>1, <2>6, <2>8, FirstMembers
    <2>10. Cardinality(Reads!Range(list)) <= Cardinality(B)
        BY <2>7, <2>9, FS_Subset
    <2>11. n <= i - 1
        BY <1>8, <2>9, <2>10
    <2> QED
        BY <2>1, <2>11
  <1> QED
      BY <1>9, <1>10

(* What the first of all rows are: a row is among them or they are as many *)
(* as may be, and as new where the rows are sorted.                        *)
ByStamp(all) == {p \in all \X all : p[1][2] >= p[2][2]}

LEMMA MergedHas ==
    ASSUME NEW all \in SUBSET (Documents \X Nat), IsFiniteSet(all), NEW order,
           NEW rows \in Reads!InOrder(all, order),
           NEW x \in all, NEW n \in Nat
    PROVE  LET found == Reads!FirstOf(rows, n) IN
           /\ x \in Reads!Range(rows)
           /\ \/ x \in Reads!Range(found)
              \/ /\ Len(found) = n
                 /\ order \subseteq ByStamp(all) => \A i \in 1..n : found[i][2] >= x[2]
  <1>1. /\ rows \in Seq(all) /\ Len(rows) \in Nat /\ DOMAIN rows = 1..Len(rows) /\ Reads!Range(rows) = all
        /\ \A i, j \in DOMAIN rows : i < j => <<rows[i], rows[j]>> \in order
      BY InOrderIs
  <1>2. PICK found : found = Reads!FirstOf(rows, n)
      OBVIOUS
  <1>3. /\ found \in Seq(all) /\ Len(found) \in Nat /\ Len(found) <= n
        /\ (Len(found) < n => Len(found) = Len(rows))
        /\ DOMAIN found = 1..Len(found) /\ \A i \in 1..Len(found) : found[i] = rows[i] /\
               i \in 1..Len(rows)
      BY <1>1, <1>2, FirstOfIs
  <1>4. PICK k \in 1..Len(rows) : rows[k] = x
      BY <1>1 DEF Reads!Range
  <1>5. CASE k <= Len(found)
    <2>1. k \in DOMAIN found /\ found[k] = x
        BY <1>3, <1>4, <1>5
    <2> QED
        BY <1>1, <1>2, <2>1 DEF Reads!Range
  <1>6. CASE ~(k <= Len(found))
    <2>1. \A a, b \in Nat : \A c \in 1..b : (a <= n /\ (a < n => a = b) /\ ~(c <= a)) => a = n
        OBVIOUS
    <2>2. Len(found) = n
        BY <2>1, <1>1, <1>3, <1>4, <1>6
    <2>3. \A b \in Nat : \A c \in 1..b : ~(c <= n) => \A i \in 1..n : i < c /\ i \in 1..b
        OBVIOUS
    <2>4. \A i \in 1..n : i < k /\ i \in 1..Len(rows)
        BY <2>3, <1>1, <1>4, <1>6, <2>2
    <2>5. \A i \in 1..n : i < k /\ i \in DOMAIN rows /\ k \in DOMAIN rows /\ found[i] = rows[i]
        BY <1>1, <1>3, <1>4, <2>2, <2>4
    <2>6. \A i \in 1..n : <<rows[i], x>> \in order
        BY <1>1, <1>4, <2>5
    <2>7. ASSUME order \subseteq ByStamp(all), NEW i \in 1..n PROVE found[i][2] >= x[2]
      <3>1. <<rows[i], x>> \in ByStamp(all)
          BY <2>6, <2>7
      <3>2. rows[i][2] >= x[2]
          BY <3>1 DEF ByStamp
      <3> QED
          BY <2>5, <3>2
    <2> QED
        BY <1>1, <1>2, <2>2, <2>7
  <1> QED
      BY <1>5, <1>6

AsNew(list, stamp) == \A i \in DOMAIN list : list[i][2] >= stamp

LEMMA MergedFull ==
    ASSUME NEW all \in SUBSET (Documents \X Nat), IsFiniteSet(all), NEW order,
           NEW rows \in Reads!InOrder(all, order),
           NEW n \in Nat, NEW list \in Seq(Documents \X Nat), Reads!IsInjective(list),
           Reads!Range(list) \subseteq all, Len(list) = n
    PROVE  /\ Len(Reads!FirstOf(rows, n)) = n
           /\ \A stamp \in Nat :
                 order \subseteq ByStamp(all) /\ AsNew(list, stamp) =>
                     AsNew(Reads!FirstOf(rows, n), stamp)
  <1>1. rows \in Seq(all) /\ Len(rows) \in Nat
      BY InOrderIs
  <1>2. PICK found : found = Reads!FirstOf(rows, n)
      OBVIOUS
  <1>3. /\ Len(found) \in Nat /\ Len(found) <= n /\ (Len(found) < n => Len(found) = Len(rows))
      BY <1>1, <1>2, FirstOfIs
  <1>4. n <= Len(rows)
      BY ShortestMerge
  <1>5. Len(found) = n
      BY <1>1, <1>3, <1>4
  <1>6. DOMAIN found = 1..Len(found) /\ \A i \in 1..Len(found) : found[i] = rows[i]
      BY <1>1, <1>2, FirstOfIs, SMTT(30)
  <1>7. ASSUME NEW stamp \in Nat, order \subseteq ByStamp(all), AsNew(list, stamp)
        PROVE  AsNew(found, stamp)
    <2>1. order \subseteq {p \in all \X all : p[1][2] >= p[2][2]} /\ \A i \in DOMAIN list :
              list[i][2] >= stamp
        BY <1>7 DEF ByStamp, AsNew
    <2>2. \A i \in 1..n : rows[i][2] >= stamp
        BY <2>1, ShortestMerge
    <2> QED
        BY <1>5, <1>6, <2>2 DEF AsNew
  <1> QED
      BY <1>2, <1>5, <1>7

LEMMA MergesKeep ==
    ASSUME ReadingGiven, ReadTypes, ListGroup, Merging
    PROVE  ListGroup'
  <1>1. RequestFields
      BY DEF ReadTypes
  <1>2. /\ request.at = "list" /\ Alone /\ request'.kind = request.kind /\ request'.at = "done"
        /\ request'.lists = request.lists /\ \A s \in DOMAIN request.lists : request.lists[s] # None
      BY <1>1, MergingIs DEF Still
  <1>3. PICK lists : lists = request.lists
      OBVIOUS
  <1>4. PICK all : all = Reads!AllRows(lists)
      OBVIOUS
  <1>5. /\ \A s \in DOMAIN lists : lists[s] \in Seq(Documents \X Nat) /\ ListedOK(s, lists[s])
        /\ DOMAIN lists \subseteq Spaces /\ IsFiniteSet(DOMAIN lists)
    <2>1. DOMAIN lists \subseteq Spaces /\ \A s \in DOMAIN lists : ListedOK(s, lists[s])
        BY <1>2, <1>3 DEF ListGroup, ListOK
    <2> QED
        BY <2>1, FS_Subset DEF ListedOK, ReadingGiven
  <1>6. /\ IsFiniteSet(all) /\ all \in SUBSET (Documents \X Nat)
        /\ \A s \in DOMAIN lists : Reads!Range(lists[s]) \subseteq all
      BY <1>4, <1>5, AllRowsAre
  <1>7. PICK order, rows :
           /\ rows \in Reads!InOrder(all, order)
           /\ request.kind = "recent" => order \subseteq ByStamp(all)
           /\ request'.found = (IF request.kind = "documents" THEN rows ELSE Reads!FirstOf(rows, Limit))
    <2>1. CASE request.kind = "recent"
      <3>1. PICK rows \in Reads!SortedRows(lists) : request'.found = Reads!FirstOf(rows, Limit)
          BY <1>1, <1>3, <2>1, MergingIs
      <3>2. rows \in Reads!InOrder(all, ByStamp(all))
          BY <1>4, <3>1 DEF Reads!SortedRows, ByStamp
      <3> QED
          BY <2>1, <3>1, <3>2
    <2>2. CASE request.kind = "decisions"
      <3>1. PICK rows \in Reads!Concatenated(lists) : request'.found = Reads!FirstOf(rows, Limit)
          BY <1>1, <1>3, <2>2, MergingIs
      <3>2. \E order : rows \in Reads!InOrder(all, order)
          BY <1>4, <3>1 DEF Reads!Concatenated
      <3> QED
          BY <2>2, <3>1, <3>2
    <2>3. CASE request.kind = "documents"
      <3>1. PICK rows \in Reads!Concatenated(lists) : request'.found = rows
          BY <1>1, <1>3, <2>3, MergingIs
      <3>2. \E order : rows \in Reads!InOrder(all, order)
          BY <1>4, <3>1 DEF Reads!Concatenated
      <3> QED
          BY <2>3, <3>1, <3>2
    <2> QED
        BY <1>2, <2>1, <2>2, <2>3 DEF ReadTypes, Stages
  <1>8. PICK found : found = request'.found
      OBVIOUS
  <1>9. PICK first : first = Reads!FirstOf(rows, Limit)
      OBVIOUS
  <1>10. Limit \in Nat
      BY DEF ReadingGiven
  <1>11. rows \in Seq(all) /\ first \in Seq(all) /\ DOMAIN first = 1..Len(first)
      BY <1>6, <1>7, <1>9, <1>10, InOrderIs, FirstOfIs
  <1>12. ASSUME NEW d \in Documents \ touched, doc[d].space \in DOMAIN lists, Wanted(d, doc[d].space)
         PROVE  \/ \E i \in DOMAIN found : found[i][1] = d
                \/ /\ request.kind # "documents" /\ Len(found) = Limit
                   /\ request.kind = "recent" => \A i \in DOMAIN found : found[i][2] >= doc[d].stamp
                \/ /\ request.kind # "documents" /\ Cardinality(Crowd(d)) >= RecentCap
    <2>1. PICK s, list : s = doc[d].space /\ list = lists[s] /\ s \in DOMAIN lists
        BY <1>12
    <2>2. ListedOK(s, list) /\ Reads!Range(list) \subseteq all /\ list \in Seq(Documents \X Nat) /\
              Reads!IsInjective(list)
        BY <1>5, <1>6, <2>1 DEF ListedOK
    <2>3. doc[d].stamp \in Nat
        BY DocFacts DEF ReadTypes
    <2>4. CASE <<d, doc[d].stamp>> \in Reads!Range(list)
      <3>1. PICK x : x = <<d, doc[d].stamp>>
          OBVIOUS
      <3>2. x \in all
          BY <2>2, <2>4, <3>1
      <3>3. /\ x \in Reads!Range(rows)
            /\ \/ x \in Reads!Range(first)
               \/ /\ Len(first) = Limit
                  /\ order \subseteq ByStamp(all) => \A i \in 1..Limit : first[i][2] >= x[2]
          BY <1>6, <1>7, <1>9, <1>10, <3>2, MergedHas
      <3>4. x[1] = d /\ x[2] = doc[d].stamp
          BY <3>1
      <3>5. CASE request.kind = "documents"
          BY <1>7, <1>8, <3>3, <3>4, <3>5 DEF Reads!Range
      <3>6. CASE request.kind # "documents"
        <4>1. found = first
            BY <1>7, <1>8, <1>9, <3>6
        <4>2. CASE x \in Reads!Range(first)
            BY <3>4, <4>1, <4>2 DEF Reads!Range
        <4>3. CASE x \notin Reads!Range(first)
            BY <1>7, <1>11, <3>3, <3>4, <3>6, <4>1, <4>3
        <4> QED
            BY <4>2, <4>3
      <3> QED
          BY <3>5, <3>6
    <2>5. CASE request.kind # "documents" /\ Cardinality(Crowd(d)) >= RecentCap
        BY <2>5
    <2>6. CASE /\ request.kind # "documents" /\ Len(list) = Limit
               /\ request.kind = "recent" => \A i \in DOMAIN list : list[i][2] >= doc[d].stamp
      <3>1. /\ all \in SUBSET (Documents \X Nat) /\ IsFiniteSet(all) /\ rows \in Reads!InOrder(all, order)
            /\ list \in Seq(Documents \X Nat) /\ Reads!IsInjective(list)
            /\ Reads!Range(list) \subseteq all /\ Len(list) = Limit
          BY <1>6, <1>7, <2>2, <2>6
      <3>2. Len(first) = Limit
          BY <1>9, <1>10, <3>1, MergedFull
      <3>3. order \subseteq ByStamp(all) /\ AsNew(list, doc[d].stamp) => AsNew(first, doc[d].stamp)
          BY <1>9, <1>10, <2>3, <3>1, MergedFull
      <3>4. found = first
          BY <1>7, <1>8, <1>9, <2>6
      <3> QED
          BY <1>7, <2>6, <3>2, <3>3, <3>4 DEF AsNew
    <2> QED
        BY <1>12, <2>1, <2>2, <2>4, <2>5, <2>6 DEF ListedOK
  <1>13. /\ doc' = doc /\ touched' = touched
         /\ \A d : Reads!HasDecision(d)' = Reads!HasDecision(d)
         /\ \A d : Crowd(d)' = Crowd(d)
      BY <1>2, ListStays
  <1>14. ASSUME NEW d \in Documents \ touched', doc'[d].live, doc'[d].role # "none",
                doc'[d].space \in DOMAIN request'.lists, request'.kind = "decisions" =>
                    Reads!HasDecision(d)'
         PROVE  \/ \E i \in DOMAIN request'.found : request'.found[i][1] = d
                \/ /\ request'.kind # "documents" /\ Len(request'.found) = Limit
                   /\ request'.kind = "recent" =>
                        \A i \in DOMAIN request'.found : request'.found[i][2] >= doc'[d].stamp
                \/ /\ request'.kind # "documents" /\ Cardinality(Crowd(d)') >= RecentCap
    <2>1. d \in Documents \ touched /\ doc[d].space \in DOMAIN lists /\ Wanted(d, doc[d].space)
        BY <1>2, <1>3, <1>13, <1>14 DEF Wanted
    <2> QED
        BY <1>2, <1>8, <1>12, <1>13, <2>1
  <1>15. Reads!ListsAreNewest'
      BY SameSize, <1>14 DEF Reads!ListsAreNewest, Crowd
  <1> QED
      BY <1>2, <1>15 DEF ListGroup, ListOK

LEMMA OthersWhileListing ==
    ASSUME ReadingGiven, ReadTypes, ListGroup, NEW d \in Documents, ByOthers(d)
    PROVE  ListGroup'
  <1>1. /\ request' = request /\ request.at \notin {"idle", "done"} /\ touched' = touched \cup {d}
        /\ \A e \in Documents : e # d => doc'[e] = doc[e]
        /\ \A e \in Documents : doc'[e].space = doc[e].space
      BY DEF ByOthers
  <1>2. ASSUME NEW e \in Documents \ touched'
        PROVE  /\ e \in Documents \ touched /\ doc'[e] = doc[e] /\ Reads!Roles'[e] = Reads!Roles[e]
               /\ \A s : Wanted(e, s)' = Wanted(e, s)
    <2>1. e \in Documents \ touched /\ doc'[e] = doc[e]
        BY <1>1
    <2>2. Reads!Roles'[e] = Reads!Roles[e] /\ Reads!HasDecision(e)' = Reads!HasDecision(e)
        BY <2>1, SameDoc
    <2> QED
        BY <1>1, <2>1, <2>2 DEF Wanted
  <1>3. ASSUME NEW e \in Documents \ touched', Cardinality(Crowd(e)) >= RecentCap
        PROVE  Cardinality(Crowd(e)') >= RecentCap
    <2>1. Crowd(e) \subseteq Crowd(e)'
      <3> SUFFICES ASSUME NEW f \in Crowd(e) PROVE f \in Crowd(e)'
          OBVIOUS
      <3>1. f \in Documents \ {e} /\ doc'[f].space = doc'[e].space
          BY <1>1 DEF Crowd
      <3>2. CASE f = d
          BY <1>1, <3>1, <3>2 DEF Crowd
      <3>3. CASE f # d
          BY <1>1, <1>2, <3>1, <3>3 DEF Crowd
      <3> QED
          BY <3>2, <3>3
    <2>2. IsFiniteSet(Crowd(e)')
        BY FS_Subset DEF Crowd, ReadingGiven
    <2>3. Cardinality(Crowd(e)) <= Cardinality(Crowd(e)')
        BY <2>1, <2>2, FS_Subset
    <2>4. Cardinality(Crowd(e)) \in Nat /\ Cardinality(Crowd(e)') \in Nat /\ RecentCap \in Nat
        BY <2>2, CrowdIs, FS_CardinalityType DEF ReadingGiven
    <2> QED
        BY <1>3, <2>3, <2>4
  <1>4. ASSUME NEW s, NEW rows, ListedOK(s, rows)
        PROVE  ListedOK(s, rows)'
    <2>1. ASSUME NEW e \in Documents \ touched', Wanted(e, s)'
          PROVE  \/ <<e, doc'[e].stamp>> \in Reads!Range(rows)
                 \/ /\ request'.kind # "documents"
                    /\ \/ Cardinality(Crowd(e)') >= RecentCap
                       \/ /\ Len(rows) = Limit
                          /\ request'.kind = "recent" => \A i \in DOMAIN rows : rows[i][2] >= doc'[e].stamp
      <3>1. e \in Documents \ touched /\ doc'[e] = doc[e] /\ Wanted(e, s)
          BY <1>2, <2>1
      <3>2. \/ <<e, doc[e].stamp>> \in Reads!Range(rows)
            \/ /\ request.kind # "documents"
               /\ \/ Cardinality(Crowd(e)) >= RecentCap
                  \/ /\ Len(rows) = Limit
                     /\ request.kind = "recent" => \A i \in DOMAIN rows : rows[i][2] >= doc[e].stamp
          BY <1>4, <3>1 DEF ListedOK
      <3>3. Cardinality(Crowd(e)) >= RecentCap => Cardinality(Crowd(e)') >= RecentCap
          BY <1>3
      <3> QED
          BY <1>1, <3>1, <3>2, <3>3
    <2>2. rows \in Seq(Documents \X Nat) /\ Reads!IsInjective(rows)
        BY <1>4 DEF ListedOK
    <2> QED
        BY <2>1, <2>2 DEF ListedOK, Crowd
  <1>5. ASSUME NEW roles, Same(roles) PROVE Same(roles)'
      BY <1>2, <1>5 DEF Same
  <1>6. CASE request.at = "list"
    <2>1. PICK lists, roles : lists = request.lists /\ roles = request.roles
        OBVIOUS
    <2>2. /\ lists \in [DOMAIN lists -> {None} \cup Seq(Documents \X Nat)]
          /\ DOMAIN lists \subseteq Spaces
          /\ roles \in [DOMAIN lists -> {None} \cup [Documents -> Access]]
          /\ \A t \in DOMAIN lists :
                /\ roles[t] = None \/ Same(roles[t])
                /\ lists[t] = None \/ ListedOK(t, lists[t])
        BY <1>6, <2>1 DEF ListGroup, ListOK
    <2>3. \A t \in DOMAIN lists :
             /\ roles[t] = None \/ Same(roles[t])'
             /\ lists[t] = None \/ ListedOK(t, lists[t])'
        BY <1>4, <1>5, <2>2
    <2> QED
        BY <1>1, <1>6, <2>1, <2>2, <2>3, ListsAre
  <1>7. CASE request.at # "list"
      BY <1>1, <1>7 DEF ListGroup, ListOK, Reads!ListsAreNewest, Reads!Done
  <1> QED
      BY <1>6, <1>7

LEMMA ListKept ==
    ASSUME ReadingGiven, ReadInv, Reads!Next
    PROVE  ListGroup'
  <1>1. ReadTypes /\ RequestFields /\ Stages /\ ListGroup
      BY DEF ReadInv, ReadTypes, ListGroup
  <1>2. ReadTypes' /\ Stages'
      BY TypesKept DEF ReadTypes
  <1>3. CASE Starting
    <2>1. CASE \E asked \in (SUBSET Spaces) \ {{}} : \E kind \in {"recent", "decisions", "documents"} :
                   Reads!StartList(kind, asked)
        BY <2>1, ListStarts
    <2>2. CASE ~\E asked \in (SUBSET Spaces) \ {{}} : \E kind \in {"recent", "decisions", "documents"} :
                   Reads!StartList(kind, asked)
      <3>1. request'.kind \notin {"recent", "decisions", "documents"}
          BY <1>3, <2>2, StartsAre DEF Starting
      <3> QED
          BY <1>2, <3>1, NotListing
    <2> QED
        BY <2>1, <2>2
  <1>4. CASE Rewriting
    <2>1. request'.kind = "rewrite"
        BY <1>4, RewriteStarts DEF Rewriting
    <2> QED
        BY <1>2, <2>1, NotListing
  <1>5. CASE Reads!SearchPage \/ Reads!Snippets \/ Reads!ReadRow \/ Reads!ReadBody \/ Reads!ReadLatest \/
                 Reads!RewriteNext
    <2>1. request'.kind = request.kind /\
              request.at \in {"page", "snippets", "row", "body", "latest", "rewrite"}
        BY <1>1, <1>5, SearchPageIs, SnippetsIs, ReadRowIs, ReadBodyIs, ReadLatestIs, RewriteNextIs DEF Still
    <2>2. request'.kind \notin {"recent", "decisions", "documents"}
        BY <1>1, <2>1 DEF Stages
    <2> QED
        BY <1>2, <2>2, NotListing
  <1>6. CASE Resolving \/ Asking
      BY <1>1, <1>6, AsksKeep
  <1>7. CASE Merging
      BY <1>1, <1>7, MergesKeep
  <1>8. ASSUME NEW d \in Documents, ByOthers(d) PROVE ListGroup'
      BY <1>1, <1>8, OthersWhileListing
  <1> QED
      BY <1>1, <1>3, <1>4, <1>5, <1>6, <1>7, <1>8, StepsAre

(* The invariant of a rewrite.                                             *)
RewriteGroup == MadeOK /\ RewriteOK /\ Reads!RewritesKeep

LEMMA NotRewriting ==
    ASSUME MadeOK, Alone, Stages', request.at = "idle" \/
               request.kind # "rewrite", request'.kind # "rewrite"
    PROVE  RewriteGroup'
  <1>1. \A d \in Documents : \A n \in DOMAIN doc[d].body : <<d, n>> \in saved
      BY DEF MadeOK
  <1>2. doc' = doc /\ saved' = saved
      BY DEF Alone, Reads!changes
  <1>3. MadeOK'
      BY <1>1, <1>2 DEF MadeOK
  <1> QED
      BY <1>3 DEF RewriteGroup, RewriteOK, Reads!RewritesKeep, Stages, Reads!Done

LEMMA RewriteBegins ==
    ASSUME ReadingGiven, ReadTypes, MadeOK, Rewriting
    PROVE  RewriteGroup'
  <1>1. PICK s \in Spaces, pairs \in Replacements, dry \in BOOLEAN, agent \in BOOLEAN :
           Reads!StartRewrite(s, pairs, dry, agent)
      BY DEF Rewriting
  <1>2. PICK mine, todo : RewriteOf(s, pairs, dry, agent, mine, todo)
      BY <1>1, RewriteStarts
  <1>3. /\ mine = {d \in Reads!Live(s) : doc[d].role = "editor"} /\ todo \in Reads!SetToSeqs(mine)
        /\ Fresh /\ Alone /\ request.at = "idle"
        /\ request'.kind = "rewrite" /\ request'.at = (IF mine = {} THEN "done" ELSE "rewrite")
        /\ request'.pairs = pairs /\ request'.dry = dry /\ request'.todo = todo
        /\ request'.rows = [d \in mine |-> Reads!Version(d)]
      BY <1>1, <1>2, RewriteStarts DEF RewriteOf
  <1>4. \A d \in Documents : \A n \in DOMAIN doc[d].body : <<d, n>> \in saved
      BY <1>3 DEF MadeOK
  <1>5. doc' = doc /\ saved' = saved /\ touched' = touched
      BY <1>3 DEF Alone, Reads!changes
  <1>6. MadeOK'
      BY <1>4, <1>5 DEF MadeOK
  <1>7. mine \subseteq Documents /\ IsFiniteSet(mine)
    <2>1. mine \subseteq Documents
        BY <1>3 DEF Reads!Live
    <2> QED
        BY <2>1, FS_Subset DEF ReadingGiven
  <1>8. /\ todo \in Seq(mine) /\ Reads!Range(todo) = mine
        /\ Reads!IsInjective(todo)
    <2>1. todo \in Seq(mine) /\ Reads!Range(todo) = mine /\ \A i, j \in DOMAIN todo : i # j =>
              todo[i] # todo[j]
        BY <1>3, <1>7, AllOfASet
    <2> QED
        BY <2>1 DEF Reads!IsInjective
  <1>9. PICK rows : rows = [d \in mine |-> Reads!Version(d)]
      OBVIOUS
  <1>10. /\ DOMAIN rows = mine
        /\ \A d \in mine : rows[d] = Reads!Version(d) /\ rows[d] \in DOMAIN doc[d].body /\
               Reads!Roles[d] = "editor"
    <2>1. ASSUME NEW d \in mine
          PROVE  Reads!Version(d) \in DOMAIN doc[d].body /\ Reads!Roles[d] = "editor"
      <3>1. d \in Documents /\ doc[d].live /\ doc[d].role = "editor"
          BY <1>3 DEF Reads!Live
      <3> QED
          BY <3>1, DocFacts DEF ReadTypes
    <2> QED
        BY <1>9, <2>1
  <1>11. /\ request'.said = <<>> /\ request'.rows = rows /\ request'.todo = todo
         /\ DOMAIN request'.said = {} /\ request'.pairs = pairs /\ request'.dry = dry
    <2>1. request'.said = <<>>
        BY <1>3 DEF Fresh
    <2>2. DOMAIN request'.said = {}
        BY <2>1, EmptySeq
    <2> QED
        BY <1>3, <1>9, <2>1, <2>2
  <1>12. {request'.said[i][1] : i \in DOMAIN request'.said} = {}
      BY <1>11
  <1>13. \A d : Reads!Version(d)' = Reads!Version(d) /\ Reads!Roles'[d] = Reads!Roles[d]
      BY <1>5 DEF Reads!Version, Reads!Roles
  <1>14. RewriteOK'
    <2> SUFFICES ASSUME request'.at = "rewrite" PROVE RewriteOK'
        BY DEF RewriteOK
    <2>1. mine # {}
        BY <1>3
    <2>2. todo # <<>>
      <3>1. SUFFICES ASSUME todo = <<>> PROVE FALSE
          OBVIOUS
      <3>2. Reads!Range(todo) = {}
          BY <3>1, EmptySeq DEF Reads!Range
      <3> QED
          BY <1>8, <2>1, <3>2
    <2>3. /\ request'.pairs \in Replacements /\ request'.dry \in BOOLEAN
          /\ DOMAIN request'.rows \subseteq Documents
          /\ \A d \in DOMAIN request'.rows : request'.rows[d] \in DOMAIN doc'[d].body
        BY <1>5, <1>7, <1>10, <1>11
    <2>4. request'.todo \in Seq(DOMAIN request'.rows) /\ Reads!IsInjective(request'.todo) /\
              request'.todo # <<>>
        BY <1>8, <1>10, <1>11, <2>2
    <2>5. {request'.said[i][1] : i \in DOMAIN request'.said} \cup
              Reads!Range(request'.todo) = DOMAIN request'.rows
        BY <1>8, <1>10, <1>11, <1>12
    <2>6. \A d \in Reads!Range(request'.todo) \ touched' :
              Reads!Version(d)' = request'.rows[d] /\ Reads!Roles'[d] = "editor"
        BY <1>8, <1>10, <1>11, <1>13
    <2>7. DOMAIN request'.rows \ (touched' \cup Reads!Range(request'.todo)) = {}
        BY <1>8, <1>10, <1>11
    <2> QED
        BY <1>11, <2>3, <2>4, <2>5, <2>6, <2>7 DEF RewriteOK, Excused
  <1>15. Reads!RewritesKeep'
    <2> SUFFICES ASSUME request'.at = "done" PROVE Reads!RewritesKeep'
        BY DEF Reads!RewritesKeep, Reads!Done
    <2>1. mine = {}
        BY <1>3
    <2>2. DOMAIN request'.rows = {}
        BY <1>10, <1>11, <2>1
    <2>3. \A d \in Documents : \A n \in DOMAIN doc'[d].body : <<d, n>> \in saved'
        BY <1>4, <1>5
    <2> QED
        BY <1>11, <1>12, <2>2, <2>3 DEF Reads!RewritesKeep
  <1> QED
      BY <1>6, <1>14, <1>15 DEF RewriteGroup

LEMMA OthersWhileRewriting ==
    ASSUME ReadingGiven, ReadTypes, RewriteGroup, NEW d \in Documents, ByOthers(d)
    PROVE  RewriteGroup'
  <1>1. /\ request' = request /\ request.at \notin {"idle", "done"} /\ touched' = touched \cup {d}
        /\ saved \subseteq saved'
        /\ \A e \in Documents : e # d => doc'[e] = doc[e]
        /\ \A e \in Documents : \A n \in DOMAIN doc[e].body :
              n \in DOMAIN doc'[e].body /\ doc'[e].body[n] = doc[e].body[n]
        /\ \A e \in Documents : \A n \in DOMAIN doc'[e].body :
               n \in DOMAIN doc[e].body \/ <<e, n>> \in saved'
      BY DEF ByOthers
  <1>2. ASSUME NEW e \in Documents, NEW n \in DOMAIN doc'[e].body, <<e, n>> \notin saved'
        PROVE  /\ request.kind = "rewrite" /\ request.at \in {"rewrite", "done"} /\ ~request.dry
               /\ n # 1 /\ doc'[e].body[n] = Reads!Rewritten(doc'[e].body[n - 1], request.pairs)
    <2>1. n \in DOMAIN doc[e].body /\ <<e, n>> \notin saved
        BY <1>1, <1>2
    <2>2. /\ request.kind = "rewrite" /\ request.at \in {"rewrite", "done"} /\ ~request.dry
          /\ n # 1 /\ doc[e].body[n] = Reads!Rewritten(doc[e].body[n - 1], request.pairs)
        BY <2>1 DEF RewriteGroup, MadeOK
    <2>3. n - 1 \in DOMAIN doc[e].body
      <3>1. DOMAIN doc[e].body = 1..Reads!Version(e) /\ Reads!Version(e) \in Nat
          BY DocFacts DEF ReadTypes
      <3> QED
          BY <2>1, <2>2, <3>1
    <2>4. doc'[e].body[n] = doc[e].body[n] /\ doc'[e].body[n - 1] = doc[e].body[n - 1]
        BY <1>1, <2>1, <2>3
    <2> QED
        BY <2>2, <2>4
  <1>3. MadeOK'
      BY <1>1, <1>2 DEF MadeOK
  <1>4. ASSUME NEW e \in Documents \ touched'
        PROVE  e \in Documents \ touched /\ Reads!Version(e)' = Reads!Version(e) /\
                   Reads!Roles'[e] = Reads!Roles[e] /\ Reads!Content(e)' = Reads!Content(e)
      BY <1>1, SameDoc
  <1>5. RewriteOK'
    <2> SUFFICES ASSUME request.at = "rewrite" PROVE RewriteOK'
        BY <1>1 DEF RewriteOK
    <2>1. /\ DOMAIN request.rows \subseteq Documents
          /\ \A e \in DOMAIN request.rows : request.rows[e] \in DOMAIN doc[e].body
          /\ request.todo \in Seq(DOMAIN request.rows)
        BY DEF RewriteGroup, RewriteOK
    <2>2. \A e \in DOMAIN request.rows : request.rows[e] \in DOMAIN doc'[e].body
        BY <1>1, <2>1
    <2>3. Reads!Range(request.todo) \subseteq Documents
        BY <2>1, RangeIsFinite
    <2>4. \A e \in Reads!Range(request.todo) \ touched' :
              Reads!Version(e)' = request.rows[e] /\ Reads!Roles'[e] = "editor"
        BY <1>4, <2>3 DEF RewriteGroup, RewriteOK
    <2>5. ~request.dry => \A e \in DOMAIN request.rows \ (touched' \cup Reads!Range(request.todo)) :
              Reads!InScope(e)' => NoneLeft(e)'
      <3>1. ASSUME ~request.dry, NEW e \in DOMAIN request.rows \ (touched' \cup Reads!Range(request.todo)),
                   Reads!InScope(e)'
            PROVE  NoneLeft(e)'
        <4>1. e \in Documents \ touched' /\
                  e \in DOMAIN request.rows \ (touched \cup Reads!Range(request.todo))
            BY <1>1, <2>1, <3>1
        <4>2. Reads!InScope(e)
            BY <1>1, <3>1, <4>1 DEF Reads!InScope
        <4>3. NoneLeft(e)
            BY <3>1, <4>1, <4>2 DEF RewriteGroup, RewriteOK
        <4> QED
            BY <1>1, <1>4, <4>1, <4>3 DEF NoneLeft
      <3> QED
          BY <3>1
    <2>6. Excused'
      <3> SUFFICES ASSUME NEW i \in DOMAIN request.said, request.said[i][2] = "error",
                          request.said[i][1] \notin touched'
                   PROVE  request.agent /\ ~doc'[request.said[i][1]].scoped
          BY <1>1 DEF Excused, Reads!InScope
      <3>1. Excused /\ request.said[i][1] \in DOMAIN request.rows
          BY <2>1 DEF RewriteGroup, RewriteOK
      <3>2. request.said[i][1] \notin touched /\ ~Reads!InScope(request.said[i][1])
          BY <1>1, <3>1 DEF Excused
      <3>3. doc'[request.said[i][1]] = doc[request.said[i][1]]
          BY <1>1, <2>1, <3>1
      <3> QED
          BY <1>1, <3>2, <3>3 DEF Reads!InScope
    <2> QED
        BY <1>1, <2>2, <2>4, <2>5, <2>6 DEF RewriteGroup, RewriteOK
  <1> QED
      BY <1>1, <1>3, <1>5 DEF RewriteGroup, Reads!RewritesKeep, Reads!Done

(* One document of a rewrite, in the scope: where others left it alone, it *)
(* is no error and no link that is replaced is left in it.                 *)
LEMMA OneRewritten ==
    ASSUME ReadingGiven, ReadTypes, RewriteOK, Reads!RewriteNext, NEW d, d = Head(request.todo),
           d \notin touched, Reads!InScope(d)
    PROVE  Outcome(d) # "error" /\ (~request.dry => NoneLeft(d)')
  <1>1. request.at = "rewrite" /\ request'.pairs = request.pairs
      BY RewriteNextIs DEF ReadTypes
  <1>2. d \in Documents /\ request.rows[d] = Reads!Version(d) /\ Reads!Roles[d] = "editor"
      BY <1>1, RewritesOne
  <1>3. Outcome(d) # "error"
      BY <1>2 DEF Outcome, Reads!MayWrite
  <1>4. PICK pairs : pairs = request.pairs
      OBVIOUS
  <1>5. PICK content, next : content = Reads!Content(d) /\ next = Reads!Rewritten(content, pairs)
      OBVIOUS
  <1>6. content \in SUBSET Links /\ content = doc[d].body[Reads!Version(d)] /\ Reads!Version(d) \in Nat
      BY <1>2, <1>5, DocFacts DEF ReadTypes
  <1>7. /\ GoodPairs(pairs)
        /\ \/ doc' = doc /\ ~(Outcome(d) = "written" /\ next # content)
           \/ /\ Outcome(d) = "written" /\ DOMAIN doc'[d].body = 1..(Reads!Version(d) + 1)
              /\ doc'[d].body[Reads!Version(d) + 1] = next
    <2>1. /\ GoodPairs(request.pairs)
          /\ \/ doc' = doc /\ ~(Outcome(d) = "written" /\
                    Reads!Rewritten(Reads!Content(d), request.pairs) # Reads!Content(d))
             \/ /\ Outcome(d) = "written" /\ Reads!Rewritten(Reads!Content(d),
                       request.pairs) # Reads!Content(d)
                /\ DOMAIN doc'[d].body = 1..(Reads!Version(d) + 1)
                /\ \A n \in 1..Reads!Version(d) : doc'[d].body[n] = doc[d].body[n]
                /\ doc'[d].body[Reads!Version(d) + 1] = Reads!Rewritten(Reads!Content(d), request.pairs)
        BY RewriteMakes
    <2> QED
        BY <1>4, <1>5, <2>1
  <1>8. /\ \A i \in DOMAIN pairs : pairs[i][1] \in Reads!LinkedBy(next, Reads!Exact) =>
               \E j \in (i + 1)..Len(pairs) : pairs[j][2] = pairs[i][1]
        /\ ~Reads!Occurs(content, pairs) =>
               \A i \in DOMAIN pairs : pairs[i][1] \notin Reads!LinkedBy(content, Reads!Exact)
      BY <1>5, <1>6, <1>7, RewrittenIs
  <1>9. ASSUME ~request.dry
        PROVE  /\ Outcome(d) \in {"skipped", "written"}
               /\ Outcome(d) = "skipped" => ~Reads!Occurs(content, pairs)
      BY <1>2, <1>4, <1>6, <1>9 DEF Outcome, Reads!MayWrite
  <1>10. PICK now : now = Reads!Content(d)'
      OBVIOUS
  <1>11. ASSUME ~request.dry
         PROVE  now = next \/ (now = content /\ ~Reads!Occurs(content, pairs))
    <2>1. CASE doc' = doc
      <3>1. now = content
          BY <1>5, <1>10, <2>1 DEF Reads!Content
      <3>2. CASE Outcome(d) = "skipped"
          BY <1>9, <1>11, <3>1, <3>2
      <3>3. CASE Outcome(d) = "written"
        <4>1. CASE next = content
            BY <3>1, <4>1
        <4>2. CASE next # content
          <5>1. DOMAIN doc[d].body = 1..(Reads!Version(d) + 1)
              BY <1>7, <2>1, <3>3, <4>2
          <5>2. DOMAIN doc[d].body = 1..Reads!Version(d)
              BY <1>2, DocFacts DEF ReadTypes
          <5>3. \A a \in Nat : 1..a # 1..(a + 1)
              OBVIOUS
          <5> QED
              BY <1>6, <5>1, <5>2, <5>3
        <4> QED
            BY <4>1, <4>2
      <3> QED
          BY <1>9, <1>11, <3>2, <3>3
    <2>2. CASE doc' # doc
      <3>1. GoodDocs(doc')
          BY RewriteMakes
      <3>2. /\ doc'[d].body \in Seq(SUBSET Links) /\ DOMAIN doc'[d].body = 1..(Reads!Version(d) + 1)
            /\ doc'[d].body[Reads!Version(d) + 1] = next
          BY <1>2, <1>7, <2>2, <3>1 DEF GoodDocs, Rows
      <3>3. Len(doc'[d].body) = Reads!Version(d) + 1
        <4>1. PICK n \in Nat : n = Len(doc'[d].body)
            BY <3>2, LenProperties
        <4>2. 1..n = 1..(Reads!Version(d) + 1)
            BY <3>2, <4>1, LenProperties
        <4>3. \A a, b \in Nat : 1..a = 1..b => a = b
            OBVIOUS
        <4> QED
            BY <1>6, <4>1, <4>2, <4>3
      <3>4. now = doc'[d].body[Len(doc'[d].body)]
          BY <1>10, <3>2 DEF Reads!Content, Reads!Last
      <3> QED
          BY <3>2, <3>3, <3>4
    <2> QED
        BY <2>1, <2>2
  <1>12. ASSUME ~request.dry, NEW i \in DOMAIN pairs
         PROVE  \/ pairs[i][1] \notin Reads!LinkedBy(now, Reads!Exact)
                \/ \E j \in (i + 1)..Len(pairs) : pairs[j][2] = pairs[i][1]
      BY <1>8, <1>11, <1>12
  <1>13. ASSUME ~request.dry PROVE NoneLeft(d)'
      BY <1>1, <1>4, <1>10, <1>12, <1>13 DEF NoneLeft
  <1> QED
      BY <1>3, <1>13

LEMMA RewriteGoesOn ==
    ASSUME ReadingGiven, ReadTypes, RewriteGroup, Reads!RewriteNext
    PROVE  RewriteGroup'
  <1>1. RewriteOK /\ MadeOK
      BY DEF RewriteGroup
  <1>2. PICK d, todo, rest : d = Head(request.todo) /\ todo = request.todo /\ rest = Tail(request.todo)
      OBVIOUS
  <1>3. /\ request.at = "rewrite" /\ UNCHANGED Reads!changes /\ request'.kind = request.kind
        /\ request'.agent = request.agent
        /\ request'.pairs = request.pairs /\ request'.dry = request.dry /\ request'.rows = request.rows
        /\ request'.todo = rest /\ request'.said = Append(request.said, <<d, Outcome(d)>>)
        /\ request'.at = (IF Len(todo) = 1 THEN "done" ELSE "rewrite")
      BY <1>2, RewriteNextIs DEF ReadTypes, Still
  <1>4. saved' = saved /\ touched' = touched
      BY <1>3 DEF Reads!changes
  <1>5. /\ d \in DOMAIN request.rows /\ d \in Documents /\ todo \in Seq(DOMAIN request.rows)
        /\ Reads!IsInjective(todo)
        /\ todo # <<>> /\ request.kind = "rewrite"
      BY <1>1, <1>2, <1>3, RewritesOne
  <1>6. /\ rest \in Seq(DOMAIN request.rows) /\ Reads!IsInjective(rest) /\ d \notin Reads!Range(rest)
        /\ Reads!Range(todo) = {d} \cup Reads!Range(rest) /\ (Len(todo) = 1 <=> rest = <<>>)
      BY <1>2, <1>5, HeadAndTail
  <1>7. DOMAIN request.rows \subseteq Documents /\ \A e \in DOMAIN request.rows :
            request.rows[e] \in DOMAIN doc[e].body
      BY <1>1, <1>3 DEF RewriteOK
  <1>8. /\ \A e \in Documents : e # d => doc'[e] = doc[e]
        /\ doc'[d].scoped = doc[d].scoped
        /\ \/ doc' = doc
           \/ /\ Outcome(d) = "written"
              /\ DOMAIN doc'[d].body = 1..(Reads!Version(d) + 1)
              /\ \A n \in 1..Reads!Version(d) : doc'[d].body[n] = doc[d].body[n]
              /\ doc'[d].body[Reads!Version(d) + 1] = Reads!Rewritten(Reads!Content(d), request.pairs)
      BY <1>1, <1>2, RewriteMakes
  <1>9. /\ Reads!Version(d) \in Nat /\ Reads!Version(d) # 0 /\ DOMAIN doc[d].body = 1..Reads!Version(d)
        /\ Reads!Content(d) = doc[d].body[Reads!Version(d)]
      BY <1>5, DocFacts DEF ReadTypes
  <1>10. \A e \in Documents : \A n \in DOMAIN doc[e].body :
             n \in DOMAIN doc'[e].body /\ doc'[e].body[n] = doc[e].body[n]
    <2> SUFFICES ASSUME NEW e \in Documents, NEW n \in DOMAIN doc[e].body
                 PROVE  n \in DOMAIN doc'[e].body /\ doc'[e].body[n] = doc[e].body[n]
        OBVIOUS
    <2>1. CASE e # d \/ doc' = doc
        BY <1>8, <2>1
    <2>2. CASE e = d /\ doc' # doc
      <3>1. n \in 1..Reads!Version(d) /\ n \in 1..(Reads!Version(d) + 1)
          BY <1>9, <2>2
      <3> QED
          BY <1>8, <2>2, <3>1
    <2> QED
        BY <2>1, <2>2
  <1>11. ASSUME NEW e \in Documents, NEW n \in DOMAIN doc'[e].body, <<e, n>> \notin saved
         PROVE  /\ ~request.dry /\ n # 1
                /\ doc'[e].body[n] = Reads!Rewritten(doc'[e].body[n - 1], request.pairs)
    <2>1. CASE n \in DOMAIN doc[e].body
      <3>1. ~request.dry /\ n # 1 /\ doc[e].body[n] = Reads!Rewritten(doc[e].body[n - 1], request.pairs)
          BY <1>1, <1>11, <2>1 DEF MadeOK
      <3>2. n - 1 \in DOMAIN doc[e].body
        <4>1. DOMAIN doc[e].body = 1..Reads!Version(e) /\ Reads!Version(e) \in Nat
            BY DocFacts DEF ReadTypes
        <4> QED
            BY <2>1, <3>1, <4>1
      <3> QED
          BY <1>10, <2>1, <3>1, <3>2
    <2>2. CASE n \notin DOMAIN doc[e].body
      <3>1. e = d /\ doc' # doc
          BY <1>8, <2>2
      <3>2. n = Reads!Version(d) + 1
          BY <1>8, <1>9, <1>11, <2>2, <3>1
      <3>3. Reads!Version(d) \in 1..Reads!Version(d) /\ n - 1 = Reads!Version(d) /\ n # 1
          BY <1>9, <3>2
      <3>4. doc'[d].body[n - 1] = Reads!Content(d)
          BY <1>8, <1>9, <3>1, <3>3
      <3>5. ~request.dry
          BY <1>8, <3>1 DEF Outcome
      <3> QED
          BY <1>8, <3>1, <3>2, <3>3, <3>4, <3>5
    <2> QED
        BY <2>1, <2>2
  <1>12. request'.at \in {"rewrite", "done"}
      BY <1>3
  <1>13. MadeOK'
      BY <1>3, <1>4, <1>5, <1>11, <1>12 DEF MadeOK
  <1>14. /\ DOMAIN request'.said = DOMAIN request.said \cup {Len(request.said) + 1}
         /\ \A i \in DOMAIN request.said : request'.said[i] = request.said[i]
         /\ request'.said[Len(request.said) + 1] = <<d, Outcome(d)>>
    <2>1. <<d, Outcome(d)>> \in Documents \X {"skipped", "would_write", "written", "error"}
        BY <1>5 DEF Outcome
    <2>2. request.said \in Seq(Documents \X {"skipped", "would_write", "written", "error"})
        BY <1>5 DEF ReadTypes, Said
    <2>3. PICK x, said : x = <<d, Outcome(d)>> /\ said = request.said
        OBVIOUS
    <2>4. /\ Len(said) \in Nat /\ DOMAIN Append(said, x) = 1..(Len(said) + 1)
          /\ DOMAIN said = 1..Len(said)
          /\ Append(said, x)[Len(said) + 1] = x /\ \A i \in 1..Len(said) : Append(said, x)[i] = said[i]
        BY <2>1, <2>2, <2>3, OneLonger
    <2>5. \A n \in Nat : 1..(n + 1) = 1..n \cup {n + 1}
        OBVIOUS
    <2> QED
        BY <1>3, <2>3, <2>4, <2>5
  <1>15. {request'.said[i][1] : i \in DOMAIN request'.said} \cup Reads!Range(rest) = DOMAIN request.rows
    <2>1. {request'.said[i][1] : i \in DOMAIN request'.said} =
              {request.said[i][1] : i \in DOMAIN request.said} \cup {d}
        BY <1>14
    <2>2. {request.said[i][1] : i \in DOMAIN request.said} \cup Reads!Range(todo) = DOMAIN request.rows
        BY <1>1, <1>2, <1>3 DEF RewriteOK
    <2> QED
        BY <1>6, <2>1, <2>2
  <1>16. Excused'
    <2>1. ASSUME NEW i \in DOMAIN request'.said, request'.said[i][2] = "error",
                 request'.said[i][1] \notin touched
          PROVE  request'.agent /\ ~doc'[request'.said[i][1]].scoped
      <3>1. CASE i \in DOMAIN request.said
        <4>1. request'.said[i] = request.said[i]
            BY <1>14, <3>1
        <4>2. Excused /\ request.said[i][1] \in DOMAIN request.rows
            BY <1>1, <1>3, <3>1 DEF RewriteOK
        <4>3. ~Reads!InScope(request.said[i][1]) /\ request.said[i][1] \in Documents
            BY <1>7, <2>1, <3>1, <4>1, <4>2 DEF Excused
        <4> QED
            BY <1>3, <1>8, <4>1, <4>3 DEF Reads!InScope
      <3>2. CASE i \notin DOMAIN request.said
        <4>1. request'.said[i] = <<d, Outcome(d)>>
            BY <1>14, <2>1, <3>2
        <4>2. ~Reads!InScope(d)
            BY <1>1, <1>2, <1>5, <2>1, <4>1, OneRewritten
        <4> QED
            BY <1>3, <1>8, <4>1, <4>2 DEF Reads!InScope
      <3> QED
          BY <3>1, <3>2
    <2> QED
        BY <1>4, <2>1 DEF Excused, Reads!InScope
  <1>17. ASSUME ~request.dry, NEW e \in DOMAIN request.rows \ (touched \cup Reads!Range(rest)),
                Reads!InScope(e)'
         PROVE  NoneLeft(e)'
    <2>0. Reads!InScope(e)
        BY <1>3, <1>7, <1>8, <1>17 DEF Reads!InScope
    <2>1. CASE e = d
        BY <1>1, <1>2, <1>17, <2>0, <2>1, OneRewritten
    <2>2. CASE e # d
      <3>1. NoneLeft(e)
          BY <1>1, <1>2, <1>3, <1>6, <1>17, <2>0, <2>2 DEF RewriteOK
      <3>2. Reads!Content(e)' = Reads!Content(e)
          BY <1>7, <1>8, <2>2, SameDoc
      <3> QED
          BY <1>3, <3>1, <3>2 DEF NoneLeft
    <2> QED
        BY <2>1, <2>2
  <1>18. RewriteOK'
    <2> SUFFICES ASSUME request'.at = "rewrite" PROVE RewriteOK'
        BY DEF RewriteOK
    <2>1. rest # <<>>
        BY <1>3, <1>6
    <2>2. request.pairs \in Replacements /\ request.dry \in BOOLEAN
        BY <1>1, <1>3 DEF RewriteOK
    <2>3. \A e \in DOMAIN request.rows : request.rows[e] \in DOMAIN doc'[e].body
        BY <1>7, <1>10
    <2>4. \A e \in Reads!Range(rest) \ touched :
              Reads!Version(e)' = request.rows[e] /\ Reads!Roles'[e] = "editor"
      <3> SUFFICES ASSUME NEW e \in Reads!Range(rest) \ touched
                   PROVE  Reads!Version(e)' = request.rows[e] /\ Reads!Roles'[e] = "editor"
          OBVIOUS
      <3>1. e \in Reads!Range(todo) \ touched /\ e # d
          BY <1>6
      <3>2. Reads!Version(e) = request.rows[e] /\ Reads!Roles[e] = "editor"
          BY <1>1, <1>2, <1>3, <3>1 DEF RewriteOK
      <3>3. e \in Documents
        <4>1. DOMAIN todo = 1..Len(todo) /\ \A i \in DOMAIN todo : todo[i] \in DOMAIN request.rows
            BY <1>5, LenProperties
        <4> QED
            BY <1>7, <3>1, <4>1 DEF Reads!Range
      <3> QED
          BY <1>8, <3>1, <3>2, <3>3, SameDoc
    <2> QED
        BY <1>3, <1>4, <1>6, <1>7, <1>15, <1>16, <1>17, <2>1, <2>2, <2>3, <2>4 DEF RewriteOK
  <1>19. Reads!RewritesKeep'
    <2> SUFFICES ASSUME request'.at = "done" PROVE Reads!RewritesKeep'
        BY DEF Reads!RewritesKeep, Reads!Done
    <2>1. rest = <<>>
        BY <1>3, <1>6
    <2>2. Reads!Range(rest) = {}
        BY <2>1, EmptySeq DEF Reads!Range
    <2>3. \A e \in Documents : \A n \in DOMAIN doc'[e].body : <<e, n>> \notin saved' =>
             ~request'.dry /\ doc'[e].body[n] = Reads!Rewritten(doc'[e].body[n - 1], request'.pairs)
        BY <1>3, <1>4, <1>11
    <2>4. {request'.said[i][1] : i \in DOMAIN request'.said} = DOMAIN request'.rows
        BY <1>3, <1>15, <2>2
    <2>5. ~request'.dry => \A e \in DOMAIN request'.rows \ touched' : Reads!InScope(e)' => NoneLeft(e)'
        BY <1>3, <1>4, <1>17, <2>2
    <2> QED
        BY <1>4, <1>16, <2>3, <2>4, <2>5 DEF Reads!RewritesKeep, NoneLeft, Excused
  <1> QED
      BY <1>13, <1>18, <1>19 DEF RewriteGroup

LEMMA RewriteKept ==
    ASSUME ReadingGiven, ReadInv, Reads!Next
    PROVE  RewriteGroup'
  <1>1. ReadTypes /\ RequestFields /\ Stages /\ RewriteGroup /\ MadeOK
      BY DEF ReadInv, ReadTypes, RewriteGroup
  <1>2. ReadTypes' /\ Stages'
      BY TypesKept DEF ReadTypes
  <1>3. CASE Starting
    <2>1. Alone /\ request.at = "idle" /\ request'.kind # "rewrite"
        BY <1>3, StartsAre DEF Starting
    <2> QED
        BY <1>1, <1>2, <2>1, NotRewriting
  <1>4. CASE Rewriting
      BY <1>1, <1>4, RewriteBegins
  <1>5. CASE Reads!SearchPage \/ Reads!Snippets \/ Reads!ReadRow \/ Reads!ReadBody \/ Reads!ReadLatest \/
                 Resolving \/ Asking \/ Merging
    <2>1. /\ request'.kind = request.kind /\ Alone
          /\ request.at \in {"page", "snippets", "row", "body", "latest", "list"}
        BY <1>1, <1>5, SearchPageIs, SnippetsIs, ReadRowIs, ReadBodyIs, ReadLatestIs, ListStepsAre, AskingIs, MergingIs
           DEF Still, Resolving
    <2>2. request.kind # "rewrite"
        BY <1>1, <2>1 DEF Stages
    <2> QED
        BY <1>1, <1>2, <2>1, <2>2, NotRewriting
  <1>6. CASE Reads!RewriteNext
      BY <1>1, <1>6, RewriteGoesOn
  <1>7. ASSUME NEW d \in Documents, ByOthers(d) PROVE RewriteGroup'
      BY <1>1, <1>7, OthersWhileRewriting
  <1> QED
      BY <1>1, <1>3, <1>4, <1>5, <1>6, <1>7, StepsAre

LEMMA ReadInit ==
    ASSUME ReadingGiven, Reads!Init
    PROVE  ReadInv
  <1>1. /\ GoodDocs(doc) /\ request = Reads!Idle /\ others = 0 /\ touched = {} /\ slipped = {}
        /\ saved = UNION {{d} \X DOMAIN doc[d].body : d \in Documents}
      BY DEF Reads!Init, ReadingGiven
  <1>2. request.at = "idle" /\ request.said = <<>> /\ request.failed = FALSE /\ RequestFields
      BY <1>1 DEF Reads!Idle, RequestFields
  <1>3. ReadTypes
      BY <1>1, <1>2, EmptySeq DEF ReadTypes, Stages
  <1>4. MadeOK
      BY <1>1 DEF MadeOK
  <1> QED
      BY <1>2, <1>3, <1>4 DEF ReadInv, SearchOK, PageOK, FoundOK, AnswerOK, ChunksOK, SeenOK, ListOK, RewriteOK,
                             Reads!SearchFinds, Reads!ReadsAreOfOneVersion, Reads!ListsAreNewest,
                                 Reads!RewritesKeep, Reads!Done

LEMMA ReadStutters ==
    ASSUME ReadInv, UNCHANGED Reads!vars
    PROVE  ReadInv'
  <1>1. /\ doc' = doc /\ request' = request /\ others' = others /\ touched' = touched
        /\ slipped' = slipped /\ saved' = saved
      BY DEF Reads!vars
  <1>2. ReadTypes'
      BY <1>1 DEF ReadInv, ReadTypes, GoodDocs, RequestFields, Stages, Said
  <1>3. SearchOK' /\ PageOK' /\ FoundOK' /\ AnswerOK' /\ Reads!SearchFinds'
    <2>1. FoundOK' /\ AnswerOK'
        BY <1>1 DEF ReadInv, FoundOK, AnswerOK
    <2>2. \A w : Covered(w)' = Covered(w)
        BY <1>1 DEF Covered, Reads!Matching, Reads!Live, Reads!Words, Reads!Content
    <2>3. SearchOK'
        BY <1>1, <2>2 DEF ReadInv, SearchOK, Same, Reads!Roles
    <2>4. PageOK'
        BY <1>1 DEF ReadInv, PageOK, Reads!Matching, Reads!Live, Reads!Words, Reads!Content,
           Reads!Place, Reads!Precedes, Reads!Rank
    <2>5. Reads!SearchFinds'
        BY <1>1 DEF ReadInv, Reads!SearchFinds, Reads!Matching, Reads!Live, Reads!Words, Reads!Content,
           Reads!Done
    <2> QED
        BY <2>1, <2>3, <2>4, <2>5
  <1>4. ChunksOK' /\ SeenOK' /\ Reads!ReadsAreOfOneVersion'
      BY <1>1 DEF ReadInv, ChunksOK, SeenOK, Reads!ReadsAreOfOneVersion, ChunkOK, Reads!Version,
         Reads!Roles, Reads!Done
  <1>5. ListOK' /\ Reads!ListsAreNewest'
    <2>1. /\ \A s, rows : ListedOK(s, rows)' = ListedOK(s, rows)
          /\ \A roles : Same(roles)' = Same(roles)
          /\ \A d : Reads!HasDecision(d)' = Reads!HasDecision(d)
        BY <1>1, ListStays DEF Alone, Reads!changes
    <2>2. ListOK'
        BY <1>1, <2>1 DEF ReadInv, ListOK
    <2>3. Reads!ListsAreNewest'
        BY <1>1, <2>1 DEF ReadInv, Reads!ListsAreNewest, Reads!Done
    <2> QED
        BY <2>2, <2>3
  <1>6. MadeOK' /\ RewriteOK' /\ Reads!RewritesKeep'
    <2>1. MadeOK'
        BY <1>1 DEF ReadInv, MadeOK
    <2>2. /\ \A d : NoneLeft(d)' = NoneLeft(d) /\ Reads!Version(d)' = Reads!Version(d)
          /\ \A d : Reads!Content(d)' = Reads!Content(d) /\ Reads!Roles'[d] = Reads!Roles[d]
          /\ \A d : Reads!InScope(d)' = Reads!InScope(d)
        BY <1>1 DEF Reads!InScope, NoneLeft, Reads!Content, Reads!Version, Reads!Roles
    <2>3. RewriteOK'
        BY <1>1, <2>2 DEF ReadInv, RewriteOK, Excused
    <2>4. Reads!RewritesKeep'
        BY <1>1, <2>2 DEF ReadInv, Reads!RewritesKeep, Reads!Done
    <2> QED
        BY <2>1, <2>3, <2>4
  <1> QED
      BY <1>2, <1>3, <1>4, <1>5, <1>6 DEF ReadInv

(* Whatever others save, delete, open and shut while a request reads, it   *)
(* tells the truth (ReadsTellTruth): a search finds what could be found,   *)
(* a document is read in one version, a list has the newest there is, a    *)
(* rewrite leaves none of its links where it may write and nobody          *)
(* interfered, and the tools that follow links agree, but for the          *)
(* backlinks beyond the documents that are looked at.                      *)
THEOREM ReadsAreTrue == ReadingGiven => (Reads!Spec => []Reads!ReadsTellTruth)
  <1> SUFFICES ASSUME ReadingGiven PROVE Reads!Spec => []Reads!ReadsTellTruth
      OBVIOUS
  <1>1. Reads!Init => ReadInv
      BY ReadInit
  <1>2. ReadInv /\ [Reads!Next]_(Reads!vars) => ReadInv'
    <2> SUFFICES ASSUME ReadInv, [Reads!Next]_(Reads!vars) PROVE ReadInv'
        OBVIOUS
    <2>1. CASE Reads!Next
        BY <2>1, TypesKept, SearchKept, ReadsKept, ListKept, RewriteKept
           DEF ReadInv, SearchGroup, ReadsGroup, ListGroup, RewriteGroup
    <2>2. CASE UNCHANGED Reads!vars
        BY <2>2, ReadStutters
    <2> QED
        BY <2>1, <2>2
  <1>3. ReadInv => Reads!ReadsTellTruth
      BY LinksAlwaysAgree DEF ReadInv, Reads!ReadsTellTruth
  <1> QED
      BY <1>1, <1>2, <1>3, PTL DEF Reads!Spec

=============================================================================
