------------------------ MODULE DocumentWriteProofs ------------------------
(***************************************************************************)
(* Proofs about DocumentWrite: its inductive invariant, and from it that   *)
(* no update is lost, that version numbers are gapless and that the row    *)
(* always denotes the newest revision, for any set of requests, users and  *)
(* texts.                                                                  *)
(***************************************************************************)
EXTENDS DocumentWrite, TLAPS

ConstantAssumptions ==
    /\ NoRequest \notin Requests
    /\ "canonical" \in Statuses
    /\ Roles \subseteq AllRoles
    /\ Kinds \subseteq AllKinds
    /\ AnyVersion \notin Nat

LEMMA Assumptions == ConstantAssumptions
  BY RequestsAssumption, StatusesAssumption, RolesAssumption,
     KindsAssumption, AnyVersionAssumption DEF ConstantAssumptions

(***************************************************************************)
(* The initial state.                                                      *)
(***************************************************************************)
LEMMA InitIInv == Init => IInv
  <1> SUFFICES ASSUME Init PROVE IInv
      OBVIOUS
  <1>1. PICK c \in Contents, u \in Users :
        /\ row = [live |-> TRUE, current |-> 1, checksum |-> c,
                  status |-> c.status]
        /\ revs = <<[number |-> 1, checksum |-> c, user |-> u,
                     source |-> "web_app", group |-> 0, marked |-> FALSE,
                     by |-> "create", base |-> AnyVersion, seen |-> 0,
                     optIn |-> FALSE, openComments |-> FALSE]>>
        /\ role \in [Users -> Roles]
        /\ comments = FALSE
        /\ lock = NoRequest
        /\ pc = [r \in Requests |-> "idle"]
        /\ req = [r \in Requests |->
                    [kind |-> "put", user |-> u, base |-> 0, content |-> c,
                     allowDraft |-> FALSE, allow |-> FALSE, seen |-> 0,
                     max |-> 0, outcome |-> "none", version |-> 0]]
      BY DEF Init
  <1>2. c.status \in Statuses
      BY DEF Contents
  <1>3. Len(revs) = 1 /\ DOMAIN revs = {1} /\ revs[1].by = "create"
        /\ revs[1].checksum = c /\ revs[1].number = 1
      BY <1>1
  <1>4. TypeOK
    <2>1. row \in Row
        BY <1>1, <1>2 DEF Row
    <2>2. revs \in Seq(Revision)
      <3> DEFINE first == [number |-> 1, checksum |-> c, user |-> u,
                     source |-> "web_app", group |-> 0, marked |-> FALSE,
                     by |-> "create", base |-> AnyVersion, seen |-> 0,
                     optIn |-> FALSE, openComments |-> FALSE]
      <3>1. first \in Revision
          BY DEF Revision, Sources
      <3>2. revs = <<first>>
          BY <1>1
      <3> HIDE DEF first
      <3> QED
          BY <3>1, <3>2
    <2>3. role \in [Users -> AllRoles]
        BY <1>1, RolesAssumption
    <2>4. pc \in [Requests -> PCs]
        BY <1>1 DEF PCs
    <2>5. req \in [Requests -> Request]
        BY <1>1 DEF Request, AllKinds, Outcomes
    <2> QED
        BY <1>1, <2>1, <2>2, <2>3, <2>4, <2>5 DEF TypeOK
  <1>5. HeadExists
      BY <1>1, <1>3 DEF HeadExists, RowReflectsHead
  <1>6. LockProtects
      BY <1>1, RequestsAssumption DEF LockProtects
  <1>7. RequestsOK
      BY <1>1 DEF RequestsOK, RequestOK, InPlace, BaseExists, BodyIsSeen,
         OptInIsSeen, PreparedPCs
  <1>8. ChainOK
      BY <1>3 DEF ChainOK, VersionsContiguous, HistoryIsLinear,
         DerivedFromPredecessor, OptInOnlyForDrafts, ByWrite, DerivedKinds,
         AllKinds
  <1> QED
      BY <1>4, <1>5, <1>6, <1>7, <1>8 DEF IInv

(***************************************************************************)
(* A step that only moves one request on, outside its transaction.         *)
(***************************************************************************)
LEMMA RequestStep ==
    ASSUME IInv, NEW r \in Requests, NEW p \in PCs, NEW q \in Request,
           pc' = [pc EXCEPT ![r] = p], req' = [req EXCEPT ![r] = q],
           pc[r] # "commit", p # "commit", RequestOK(p, q), Unchanged
    PROVE  IInv'
  <1> USE DEF Unchanged
  <1>1. TypeOK'
      BY DEF IInv, TypeOK
  <1>2. HeadExists'
      BY DEF IInv, HeadExists, RowReflectsHead
  <1>3. LockProtects'
      BY DEF IInv, LockProtects, TypeOK
  <1>4. RequestsOK'
    <2> SUFFICES ASSUME NEW s \in Requests
                 PROVE  RequestOK(pc[s], req[s])'
        BY DEF RequestsOK
    <2>1. CASE s = r
        BY <2>1 DEF IInv, TypeOK, RequestOK, InPlace, BaseExists,
           BodyIsSeen, OptInIsSeen
    <2>2. CASE s # r
      <3>1. RequestOK(pc[s], req[s])
          BY DEF IInv, RequestsOK
      <3>2. pc'[s] = pc[s] /\ req'[s] = req[s]
          BY <2>2 DEF IInv, TypeOK
      <3> QED
          BY <3>1, <3>2 DEF RequestOK, InPlace, BaseExists, BodyIsSeen,
             OptInIsSeen
    <2> QED
        BY <2>1, <2>2
  <1>5. ChainOK'
      BY DEF IInv, ChainOK, VersionsContiguous, HistoryIsLinear,
         DerivedFromPredecessor, OptInOnlyForDrafts
  <1> QED
      BY <1>1, <1>2, <1>3, <1>4, <1>5 DEF IInv

(* A request that is answered has nothing left to keep.                    *)
LEMMA AnswerStep ==
    ASSUME IInv, NEW r \in Requests, NEW o \in Outcomes, Answer(r, o),
           pc[r] # "commit", Unchanged
    PROVE  IInv'
  <1> DEFINE q == [req[r] EXCEPT !.outcome = o]
  <1>1. q \in Request /\ "done" \in PCs
      BY DEF IInv, TypeOK, Request, PCs
  <1>2. pc' = [pc EXCEPT ![r] = "done"] /\ req' = [req EXCEPT ![r] = q]
      BY DEF Answer, Goto, IInv, TypeOK
  <1>3. RequestOK("done", q)
    <2>1. RequestOK(pc[r], req[r])
        BY DEF IInv, RequestsOK
    <2>2. q.kind = req[r].kind /\ q.allow = req[r].allow
        BY DEF IInv, TypeOK, Request
    <2> QED
        BY <2>1, <2>2 DEF RequestOK, InPlace, BaseExists, BodyIsSeen,
           OptInIsSeen, PreparedPCs
  <1> QED
      BY <1>1, <1>2, <1>3, RequestStep

(***************************************************************************)
(* Requests arrive.                                                        *)
(***************************************************************************)
LEMMA ArriveStep ==
    ASSUME IInv, NEW r \in Requests, NEW kind \in AllKinds, NEW label \in PCs,
           NEW u \in Users, NEW base \in Nat, NEW c \in Contents,
           NEW d \in BOOLEAN,
           Arrive(r, kind, label), Send(r, kind, u, base, c, d),
           label \in {"status", "body", "preflight"},
           label = "status" => kind = "put" /\ base \in DOMAIN revs,
           label = "preflight" => kind \in {"put", "push"} /\ base \in DOMAIN revs,
           kind \in {"splice", "finalize", "restore"} => base \in DOMAIN revs,
           kind = "upsert" => base \in {0} \cup DOMAIN revs
    PROVE  IInv'
  <1> DEFINE q == [req[r] EXCEPT !.kind = kind, !.user = u, !.base = base,
                                 !.content = c, !.allowDraft = d]
  <1>1. q \in Request
      BY DEF IInv, TypeOK, Request
  <1>2. pc[r] = "idle" /\ pc' = [pc EXCEPT ![r] = label]
        /\ req' = [req EXCEPT ![r] = q] /\ Unchanged
      BY DEF Arrive, Send, Goto, IInv, TypeOK
  <1>3. ~req[r].allow
      BY <1>2 DEF IInv, RequestsOK, RequestOK, InPlace
  <1>4. q.kind = kind /\ q.base = base /\ q.allow = req[r].allow
      BY DEF IInv, TypeOK, Request
  <1> HIDE DEF q
  <1>5. RequestOK(label, q)
      BY <1>3, <1>4 DEF RequestOK, InPlace, BaseExists, BodyIsSeen,
         OptInIsSeen, PreparedPCs, ByWrite, AllKinds, DerivedKinds
  <1> QED
      BY <1>1, <1>2, <1>5, RequestStep

LEMMA ArriveIInv ==
    ASSUME IInv, NEW r \in Requests, ArriveAny(r)
    PROVE  IInv'
  <1> USE DEF PCs, AllKinds
  <1>0. /\ req[r].content \in Contents
        /\ DOMAIN revs \subseteq Nat
        /\ \A t \in Texts : [req[r].content EXCEPT !.text = t] \in Contents
    <2>1. req[r].content \in Contents
        BY DEF IInv, TypeOK, Request
    <2>2. DOMAIN revs \subseteq Nat
        BY DEF IInv, TypeOK
    <2>3. ASSUME NEW t \in Texts
          PROVE  [req[r].content EXCEPT !.text = t] \in Contents
        BY <2>1 DEF Contents
    <2> QED
        BY <2>1, <2>2, <2>3
  <1>1. CASE ArrivePut(r)
      BY <1>0, <1>1, ArriveStep DEF ArrivePut
  <1>2. CASE ArrivePush(r)
      BY <1>0, <1>2, ArriveStep DEF ArrivePush
  <1>3. CASE ArriveSplice(r)
      BY <1>0, <1>3, ArriveStep DEF ArriveSplice
  <1>4. CASE ArriveAppend(r)
      BY <1>0, <1>4, ArriveStep DEF ArriveAppend
  <1>5. CASE ArriveUpsert(r)
      BY <1>0, <1>5, ArriveStep DEF ArriveUpsert
  <1>6. CASE ArrivePromote(r)
      BY <1>0, <1>6, ArriveStep DEF ArrivePromote
  <1>7. CASE ArriveFinalize(r)
      BY <1>0, <1>7, ArriveStep DEF ArriveFinalize
  <1>8. CASE ArriveRestore(r)
      BY <1>0, <1>8, ArriveStep DEF ArriveRestore
  <1>9. CASE ArriveDelete(r)
      BY <1>0, <1>9, ArriveStep DEF ArriveDelete
  <1> QED
      BY <1>1, <1>2, <1>3, <1>4, <1>5, <1>6, <1>7, <1>8, <1>9 DEF ArriveAny

(***************************************************************************)
(* What handlers read before the transaction.                              *)
(***************************************************************************)
LEMMA HeadFacts ==
    ASSUME IInv
    PROVE  /\ Current \in Nat /\ Current = Len(revs) /\ Current >= 1
           /\ DOMAIN revs = 1 .. Len(revs)
           /\ Current \in DOMAIN revs
           /\ CurrentContent \in Contents
           /\ row.status = CurrentContent.status
           /\ row.checksum = CurrentContent
           /\ row.status \in Statuses
  <1>1. Current = Len(revs) /\ Len(revs) >= 1
      BY DEF IInv, HeadExists, RowReflectsHead, Current
  <1>2. DOMAIN revs = 1 .. Len(revs) /\ Len(revs) \in Nat
      BY DEF IInv, TypeOK
  <1>3. revs[Len(revs)] \in Revision
      BY <1>1, <1>2 DEF IInv, TypeOK
  <1>4. CurrentContent \in Contents
      BY <1>1, <1>3 DEF CurrentContent, Current, Revision
  <1>5. row.status = CurrentContent.status /\ row.checksum = CurrentContent
      BY <1>1 DEF IInv, HeadExists, RowReflectsHead, CurrentContent, Current
  <1> QED
      BY <1>1, <1>2, <1>4, <1>5 DEF Contents

LEMMA PreparedStep ==
    ASSUME IInv, NEW r \in Requests, NEW base \in Nat \cup {AnyVersion},
           NEW c \in Contents, NEW allow \in BOOLEAN,
           NEW label \in {"comments", "preflight", "locking"},
           pc[r] = "body", Prepared(r, base, c, allow, label), Unchanged,
           label = "comments" => req[r].kind = "finalize",
           label = "preflight" => req[r].kind \in ByWrite,
           label = "locking" => req[r].kind = "restore",
           req[r].kind \in {"push", "append"} => ~allow,
           req[r].kind \in ByWrite => base \in DOMAIN revs,
           req[r].kind \in ByWrite \ {"promote"} /\ allow => row.status = "draft",
           req[r].kind = "promote" => c.text = CurrentContent.text
    PROVE  IInv'
  <1> DEFINE q == [req[r] EXCEPT !.base = base, !.content = c,
                                 !.allow = allow, !.seen = Current]
  <1>1. q \in Request /\ label \in PCs
    <2>1. req[r] \in Request /\ Current \in Nat
        BY HeadFacts DEF IInv, TypeOK
    <2>2. q \in Request
        BY <2>1 DEF Request
    <2>3. label \in PCs
        BY DEF PCs
    <2> QED
        BY <2>2, <2>3
  <1>2. pc' = [pc EXCEPT ![r] = label] /\ req' = [req EXCEPT ![r] = q]
      BY DEF Prepared, Goto, IInv, TypeOK
  <1>3. q.kind = req[r].kind /\ q.base = base /\ q.content = c
        /\ q.allow = allow /\ q.seen = Current
      BY DEF IInv, TypeOK, Request
  <1> HIDE DEF q
  <1>4. InPlace(label, q)
      BY <1>3 DEF InPlace
  <1>5. BaseExists(label, q)
      BY <1>3 DEF BaseExists
  <1>6. BodyIsSeen(label, q)
      BY <1>3, HeadFacts DEF BodyIsSeen, DerivedKinds, ByWrite, AllKinds,
         CurrentContent, Current
  <1>7. OptInIsSeen(label, q)
      BY <1>3, HeadFacts DEF OptInIsSeen, ByWrite, CurrentContent, Current
  <1> QED
      BY <1>1, <1>2, <1>4, <1>5, <1>6, <1>7, RequestStep DEF RequestOK

(* A step that moves a request on with what it already has.                *)
LEMMA GotoStep ==
    ASSUME IInv, NEW r \in Requests, NEW label \in {"preflight", "locking"},
           pc[r] # "commit", Goto(r, label), UNCHANGED req, Unchanged,
           RequestOK(label, req[r])
    PROVE  IInv'
  <1>1. req[r] \in Request /\ label \in PCs
      BY DEF IInv, TypeOK, PCs
  <1>2. pc' = [pc EXCEPT ![r] = label] /\ req' = [req EXCEPT ![r] = req[r]]
      BY DEF Goto, IInv, TypeOK
  <1> QED
      BY <1>1, <1>2, RequestStep

LEMMA RefusalType ==
    ASSUME NEW u, NEW needed
    PROVE  Refusal(u, needed) \in Outcomes
  BY DEF Refusal, Outcomes

LEMMA ReadStatusIInv ==
    ASSUME IInv, NEW r \in Requests, ReadStatus(r)
    PROVE  IInv'
  <1> DEFINE allow == row.live /\ row.status = "draft"
             seen == IF row.live THEN Current ELSE 0
             q == [req[r] EXCEPT !.allow = allow, !.seen = seen]
  <1>1. allow \in BOOLEAN /\ seen \in Nat
      BY HeadFacts DEF IInv, TypeOK, Row
  <1>2. pc' = [pc EXCEPT ![r] = "preflight"] /\ req' = [req EXCEPT ![r] = q]
        /\ Unchanged /\ pc[r] = "status"
      BY DEF ReadStatus, Goto, IInv, TypeOK
  <1>3. q \in Request /\ "preflight" \in PCs
      BY <1>1 DEF IInv, TypeOK, Request, PCs
  <1>4. q.kind = "put" /\ q.base = req[r].base /\ q.base \in DOMAIN revs
        /\ q.allow = allow /\ q.seen = seen
      BY <1>2 DEF IInv, TypeOK, Request, RequestsOK, RequestOK, InPlace, BaseExists
  <1>5. allow => seen \in DOMAIN revs /\ q.base <= seen
                 /\ revs[seen].checksum.status = "draft"
      BY <1>4, HeadFacts DEF CurrentContent, Current
  <1> HIDE DEF q, allow, seen
  <1>6. RequestOK("preflight", q)
      BY <1>4, <1>5 DEF RequestOK, InPlace, BaseExists, BodyIsSeen, OptInIsSeen,
         ByWrite, AllKinds, DerivedKinds
  <1> QED
      BY <1>2, <1>3, <1>6, RequestStep

LEMMA ReadBodyIInv ==
    ASSUME IInv, NEW r \in Requests,
           \/ BodyMissing(r) \/ ReadForSplice(r) \/ ReadForAppend(r)
           \/ ReadForUpsert(r) \/ ReadForPromote(r) \/ ReadForFinalize(r)
           \/ ReadForRestore(r) \/ ReadForDelete(r)
    PROVE  IInv'
  <1> DEFINE q == req[r]
  <1>1. pc[r] = "body" /\ Unchanged
      BY DEF BodyMissing, ReadForSplice, ReadForAppend, ReadForUpsert,
         ReadForPromote, ReadForFinalize, ReadForRestore, ReadForDelete, ReadBody
  <1>2. q \in Request /\ q.content \in Contents /\ q.content.text \in Texts
      BY DEF IInv, TypeOK, Request, Contents
  <1>3. q.base \in Nat \cup {AnyVersion}
      BY DEF IInv, TypeOK, Request
  <1>4. RequestOK(pc[r], q)
      BY DEF IInv, RequestsOK
  <1>5. DOMAIN revs \subseteq Nat
      BY HeadFacts
  <1>6. ASSUME NEW o \in Outcomes, Answer(r, o)
        PROVE  IInv'
      BY <1>1, <1>6, AnswerStep
  <1>7. "not_found" \in Outcomes /\ "noop" \in Outcomes /\ "conflict" \in Outcomes
        /\ "not_ready" \in Outcomes
      BY DEF Outcomes
  <1>8. \A needed : Refusal(q.user, needed) \in Outcomes
      BY RefusalType
  <1>9. CASE BodyMissing(r)
      BY <1>6, <1>7, <1>9 DEF BodyMissing
  <1>10. CASE ReadForSplice(r)
    <2>1. q.kind = "splice" /\ q.base \in DOMAIN revs
        BY <1>1, <1>4, <1>10 DEF ReadForSplice, ReadBody, RequestOK, BaseExists
    <2>2. [CurrentContent EXCEPT !.text = q.content.text] \in Contents
        BY <1>2, HeadFacts DEF Contents
    <2> QED
        BY <1>1, <1>3, <1>5, <1>10, <2>1, <2>2, PreparedStep
        DEF ReadForSplice, ByWrite, AllKinds
  <1>11. CASE ReadForAppend(r)
    <2>1. q.kind = "append"
        BY <1>11 DEF ReadForAppend, ReadBody
    <2>2. [CurrentContent EXCEPT !.text = q.content.text] \in Contents
        BY <1>2, HeadFacts DEF Contents
    <2> QED
        BY <1>1, <1>11, <2>1, <2>2, HeadFacts, PreparedStep
        DEF ReadForAppend, ByWrite, AllKinds
  <1>12. CASE ReadForUpsert(r)
    <2>1. q.kind = "upsert" /\ q.base \in {0} \cup DOMAIN revs
        BY <1>1, <1>4, <1>12 DEF ReadForUpsert, ReadBody, RequestOK, BaseExists
    <2>2. CASE Refusal(q.user, "editor") # "none"
        BY <1>6, <1>8, <1>12, <2>2 DEF ReadForUpsert
    <2>3. CASE Refusal(q.user, "editor") = "none" /\ row.checksum = q.content
        BY <1>6, <1>7, <1>12, <2>3 DEF ReadForUpsert
    <2>4. CASE Refusal(q.user, "editor") = "none" /\ row.checksum # q.content
      <3> DEFINE base == IF q.base = 0 THEN Current ELSE q.base
      <3>1. base \in DOMAIN revs /\ base \in Nat \cup {AnyVersion}
          BY <1>5, <2>1, HeadFacts
      <3>2. Prepared(r, base, q.content,
                     q.allowDraft /\ row.status = "draft", "preflight")
          BY <1>12, <2>4 DEF ReadForUpsert
      <3> HIDE DEF base
      <3> QED
          BY <1>1, <1>2, <2>1, <3>1, <3>2, PreparedStep
          DEF ByWrite, AllKinds
    <2> QED
        BY <2>2, <2>3, <2>4
  <1>13. CASE ReadForPromote(r)
    <2>1. q.kind = "promote"
        BY <1>13 DEF ReadForPromote, ReadBody
    <2>2. CASE Refusal(q.user, "editor") # "none"
        BY <1>6, <1>8, <1>13, <2>2 DEF ReadForPromote
    <2>3. CASE Refusal(q.user, "editor") = "none" /\ row.status = "canonical"
        BY <1>6, <1>7, <1>13, <2>3 DEF ReadForPromote
    <2>4. CASE Refusal(q.user, "editor") = "none" /\ row.status # "canonical"
      <3> DEFINE c == [CurrentContent EXCEPT !.status = "canonical"]
      <3>1. c \in Contents /\ c.text = CurrentContent.text
          BY HeadFacts, StatusesAssumption DEF Contents
      <3>2. Prepared(r, Current, c, TRUE, "preflight")
          BY <1>13, <2>4 DEF ReadForPromote
      <3> HIDE DEF c
      <3> QED
          BY <1>1, <2>1, <3>1, <3>2, HeadFacts, PreparedStep
          DEF ByWrite, AllKinds
    <2> QED
        BY <2>2, <2>3, <2>4
  <1>14. CASE ReadForFinalize(r)
    <2>1. q.kind = "finalize" /\ q.base \in DOMAIN revs
        BY <1>1, <1>4, <1>14 DEF ReadForFinalize, ReadBody, RequestOK, BaseExists
    <2>2. CASE Refusal(q.user, "editor") # "none"
        BY <1>6, <1>8, <1>14, <2>2 DEF ReadForFinalize
    <2>3. CASE Refusal(q.user, "editor") = "none" /\ Current # q.base
        BY <1>6, <1>7, <1>14, <2>3 DEF ReadForFinalize
    <2>4. CASE /\ Refusal(q.user, "editor") = "none" /\ Current = q.base
               /\ row.status = "superseded"
        BY <1>6, <1>7, <1>14, <2>4 DEF ReadForFinalize
    <2>5. CASE /\ Refusal(q.user, "editor") = "none" /\ Current = q.base
               /\ row.status # "superseded"
      <3> DEFINE c == [text |-> q.content.text, status |-> "canonical"]
      <3>1. c \in Contents
          BY <1>2, StatusesAssumption DEF Contents
      <3>2. Prepared(r, q.base, c, row.status = "draft", "comments")
          BY <1>14, <2>5 DEF ReadForFinalize
      <3> HIDE DEF c
      <3> QED
          BY <1>1, <1>3, <2>1, <3>1, <3>2, PreparedStep
    <2> QED
        BY <2>2, <2>3, <2>4, <2>5
  <1>15. CASE ReadForRestore(r)
    <2>1. q.kind = "restore" /\ q.base \in DOMAIN revs
        BY <1>1, <1>4, <1>15 DEF ReadForRestore, ReadBody, RequestOK, BaseExists
    <2>2. revs[q.base].checksum \in Contents
      <3>1. revs[q.base] \in Revision
          BY <2>1 DEF IInv, TypeOK
      <3> QED
          BY <3>1 DEF Revision
    <2>3. CASE Refusal(q.user, "manager") # "none"
        BY <1>6, <1>8, <1>15, <2>3 DEF ReadForRestore
    <2>4. CASE Refusal(q.user, "manager") = "none"
        BY <1>1, <1>15, <2>1, <2>2, <2>4, PreparedStep
        DEF ReadForRestore, ByWrite
    <2> QED
        BY <2>3, <2>4
  <1>16. CASE ReadForDelete(r)
    <2>1. q.kind \in {"delete", "agent_delete"}
        BY <1>16 DEF ReadForDelete, ReadBody
    <2>2. CASE Refusal(q.user, "manager") # "none"
        BY <1>6, <1>8, <1>16, <2>2 DEF ReadForDelete
    <2>3. CASE Refusal(q.user, "manager") = "none"
      <3>1. RequestOK("locking", q)
          BY <2>1 DEF RequestOK, InPlace, BaseExists, BodyIsSeen, OptInIsSeen,
             ByWrite, AllKinds, DerivedKinds
      <3>2. Goto(r, "locking") /\ UNCHANGED req
          BY <1>16, <2>3 DEF ReadForDelete
      <3> QED
          BY <1>1, <3>1, <3>2, GotoStep
    <2> QED
        BY <2>2, <2>3
  <1> QED
      BY <1>9, <1>10, <1>11, <1>12, <1>13, <1>14, <1>15, <1>16

LEMMA ReadCommentsIInv ==
    ASSUME IInv, NEW r \in Requests, ReadComments(r)
    PROVE  IInv'
  <1>1. pc[r] = "comments" /\ Unchanged
      BY DEF ReadComments
  <1>2. CASE comments
      BY <1>1, <1>2, AnswerStep DEF ReadComments, Outcomes
  <1>3. CASE ~comments
    <2>1. RequestOK("comments", req[r])
        BY <1>1 DEF IInv, RequestsOK
    <2>2. RequestOK("preflight", req[r])
        BY <2>1 DEF RequestOK, InPlace, BaseExists, BodyIsSeen, OptInIsSeen,
           PreparedPCs, ByWrite, AllKinds
    <2> QED
        BY <1>1, <1>3, <2>2, GotoStep DEF ReadComments
  <1> QED
      BY <1>2, <1>3

(***************************************************************************)
(* The preflight and the transaction.                                      *)
(***************************************************************************)
LEMMA PreflightIInv ==
    ASSUME IInv, NEW r \in Requests, Preflight(r)
    PROVE  IInv'
  <1>1. pc[r] = "preflight" /\ Unchanged
      BY DEF Preflight
  <1>2. PreflightVerdict(r) \in Outcomes
      BY RefusalType DEF PreflightVerdict, Outcomes
  <1>3. CASE PreflightVerdict(r) # "none"
      BY <1>1, <1>2, <1>3, AnswerStep DEF Preflight
  <1>4. CASE PreflightVerdict(r) = "none"
    <2>1. RequestOK("preflight", req[r])
        BY <1>1 DEF IInv, RequestsOK
    <2>2. Current = req[r].base /\ (req[r].allow \/ row.status = "canonical")
        BY <1>4 DEF PreflightVerdict, Refusal
    <2>3. OptInIsSeen("locking", req[r])
        BY <2>1, <2>2, HeadFacts DEF RequestOK, OptInIsSeen, PreparedPCs,
           CurrentContent, Current
    <2>4. RequestOK("locking", req[r])
        BY <2>1, <2>3 DEF RequestOK, InPlace, BaseExists, BodyIsSeen, PreparedPCs
    <2> QED
        BY <1>1, <1>4, <2>4, GotoStep DEF Preflight
  <1> QED
      BY <1>3, <1>4

LEMMA TxBeginIInv ==
    ASSUME IInv, NEW r \in Requests, TxBegin(r)
    PROVE  IInv'
  <1>1. pc[r] = "locking" /\ lock = NoRequest
        /\ UNCHANGED <<row, revs, role, comments>>
      BY DEF TxBegin
  <1>2. TxVerdict(r) \in Outcomes
      BY RefusalType DEF TxVerdict, Outcomes
  <1>3. CASE TxVerdict(r) # "none"
      BY <1>1, <1>2, <1>3, AnswerStep DEF TxBegin, Unchanged
  <1>4. CASE TxVerdict(r) = "none"
    <2> DEFINE q == [req[r] EXCEPT !.max = Len(revs)]
    <2>1. pc' = [pc EXCEPT ![r] = "commit"] /\ req' = [req EXCEPT ![r] = q]
          /\ lock' = r
        BY <1>4 DEF TxBegin, Goto, IInv, TypeOK
    <2>2. q \in Request /\ "commit" \in PCs
      <3>1. req[r] \in Request /\ Len(revs) \in Nat
          BY HeadFacts DEF IInv, TypeOK, Current
      <3> QED
          BY <3>1 DEF Request, PCs
    <2>3. q.kind = req[r].kind /\ q.base = req[r].base /\ q.max = Len(revs)
          /\ q.content = req[r].content /\ q.allow = req[r].allow
          /\ q.seen = req[r].seen
        BY DEF IInv, TypeOK, Request
    <2> HIDE DEF q
    <2>4. row.live
        BY <1>4 DEF TxVerdict, Refusal
    <2>5. q.kind \in ByWrite => q.base = Len(revs)
        BY <1>4, <2>3, HeadFacts DEF TxVerdict, Refusal, ByWrite
    <2>6. \A s \in Requests : pc[s] # "commit"
        BY <1>1, RequestsAssumption DEF IInv, LockProtects
    <2>7. TypeOK'
        BY <1>1, <2>1, <2>2 DEF IInv, TypeOK
    <2>8. HeadExists'
        BY <1>1 DEF IInv, HeadExists, RowReflectsHead
    <2>9. LockProtects'
        BY <1>1, <2>1, <2>3, <2>4, <2>5, <2>6 DEF IInv, TypeOK, LockProtects
    <2>10. RequestsOK'
      <3> SUFFICES ASSUME NEW s \in Requests
                   PROVE  RequestOK(pc[s], req[s])'
          BY DEF RequestsOK
      <3>1. RequestOK(pc[s], req[s])
          BY DEF IInv, RequestsOK
      <3>2. pc'[s] = (IF s = r THEN "commit" ELSE pc[s])
            /\ req'[s] = (IF s = r THEN q ELSE req[s])
          BY <2>1 DEF IInv, TypeOK
      <3>3. InPlace(pc[s], req[s])'
          BY <1>1, <2>3, <3>1, <3>2 DEF RequestOK, InPlace
      <3>4. BaseExists(pc[s], req[s])'
          BY <1>1, <2>3, <3>1, <3>2 DEF RequestOK, BaseExists, PreparedPCs
      <3>5. BodyIsSeen(pc[s], req[s])'
          BY <1>1, <2>3, <3>1, <3>2 DEF RequestOK, BodyIsSeen, PreparedPCs
      <3>6. OptInIsSeen(pc[s], req[s])'
          BY <1>1, <2>3, <3>1, <3>2 DEF RequestOK, OptInIsSeen, PreparedPCs
      <3> QED
          BY <3>3, <3>4, <3>5, <3>6 DEF RequestOK
    <2>11. ChainOK'
        BY <1>1 DEF IInv, ChainOK, VersionsContiguous, HistoryIsLinear,
           DerivedFromPredecessor, OptInOnlyForDrafts
    <2> QED
        BY <2>7, <2>8, <2>9, <2>10, <2>11 DEF IInv
  <1> QED
      BY <1>3, <1>4

(* Nobody else is about to commit.                                         *)
LEMMA OneCommits ==
    ASSUME IInv, NEW r \in Requests, pc[r] = "commit"
    PROVE  lock = r /\ \A s \in Requests : pc[s] = "commit" => s = r
  BY DEF IInv, LockProtects

(* A transaction that ends without a revision.                             *)
LEMMA TxEndsIInv ==
    ASSUME IInv, NEW r \in Requests, TxDelete(r) \/ TxRollback(r)
    PROVE  IInv'
  <1>1. PICK o \in Outcomes : Answer(r, o)
      BY DEF TxDelete, TxRollback, Outcomes
  <1>2. /\ pc[r] = "commit" /\ lock' = NoRequest
        /\ UNCHANGED <<revs, role, comments>>
        /\ row' = row \/ row' = [row EXCEPT !.live = FALSE]
      BY DEF TxDelete, TxRollback
  <1> DEFINE q == [req[r] EXCEPT !.outcome = o]
  <1>3. pc' = [pc EXCEPT ![r] = "done"] /\ req' = [req EXCEPT ![r] = q]
      BY <1>1 DEF Answer, Goto, IInv, TypeOK
  <1>4. q \in Request /\ "done" \in PCs
      BY DEF IInv, TypeOK, Request, PCs
  <1>5. q.kind = req[r].kind /\ q.allow = req[r].allow
      BY DEF IInv, TypeOK, Request
  <1> HIDE DEF q
  <1>6. row' \in Row /\ row'.current = row.current
        /\ row'.checksum = row.checksum /\ row'.status = row.status
      BY <1>2 DEF IInv, TypeOK, Row
  <1>7. TypeOK'
      BY <1>2, <1>3, <1>4, <1>6 DEF IInv, TypeOK
  <1>8. HeadExists'
      BY <1>2, <1>6 DEF IInv, HeadExists, RowReflectsHead
  <1>9. LockProtects'
      BY <1>2, <1>3, OneCommits, RequestsAssumption DEF IInv, TypeOK, LockProtects
  <1>10. RequestsOK'
    <2> SUFFICES ASSUME NEW s \in Requests
                 PROVE  RequestOK(pc[s], req[s])'
        BY DEF RequestsOK
    <2>1. RequestOK(pc[s], req[s])
        BY DEF IInv, RequestsOK
    <2>2. pc'[s] = (IF s = r THEN "done" ELSE pc[s])
          /\ req'[s] = (IF s = r THEN q ELSE req[s])
        BY <1>3 DEF IInv, TypeOK
    <2> QED
        BY <1>2, <1>5, <2>1, <2>2 DEF RequestOK, InPlace, BaseExists,
           BodyIsSeen, OptInIsSeen, PreparedPCs
  <1>11. ChainOK'
      BY <1>2 DEF IInv, ChainOK, VersionsContiguous, HistoryIsLinear,
         DerivedFromPredecessor, OptInOnlyForDrafts
  <1> QED
      BY <1>7, <1>8, <1>9, <1>10, <1>11 DEF IInv

(* What is said of a request stays true when revisions are appended or get *)
(* another label.                                                          *)
LEMMA RequestOKStable ==
    ASSUME IInv, NEW p, NEW q, RequestOK(p, q), p # "commit",
           \A i \in DOMAIN revs :
              i \in DOMAIN revs' /\ revs'[i].checksum = revs[i].checksum
    PROVE  RequestOK(p, q)'
  <1>1. InPlace(p, q)' /\ BaseExists(p, q)'
      BY DEF RequestOK, InPlace, BaseExists
  <1>2. BodyIsSeen(p, q)'
      BY DEF RequestOK, BodyIsSeen
  <1>3. OptInIsSeen(p, q)'
    <2> SUFFICES ASSUME q.kind \in ByWrite \ {"promote"}
                 PROVE  OptInIsSeen(p, q)'
        BY DEF OptInIsSeen
    <2>1. p = "locking" => q.base \in DOMAIN revs
        BY DEF RequestOK, BaseExists, PreparedPCs
    <2> QED
        BY <2>1 DEF RequestOK, OptInIsSeen
  <1> QED
      BY <1>1, <1>2, <1>3 DEF RequestOK

LEMMA NewRevisionFacts ==
    ASSUME IInv, NEW r \in Requests, pc[r] = "commit",
           req[r].kind \notin {"delete", "agent_delete"},
           NEW source \in SourcesOf(req[r].kind), NEW quick \in BOOLEAN
    PROVE  LET new == NewRevision(r, source, quick) IN
           /\ new \in Revision
           /\ new.number = Len(revs) + 1
           /\ new.checksum = req[r].content
           /\ new.by = req[r].kind
           /\ new.base = req[r].base
           /\ new.seen = req[r].seen
           /\ new.optIn = req[r].allow
  <1>1. req[r] \in Request /\ req[r].max = Len(revs) /\ Len(revs) \in Nat
      BY HeadFacts DEF IInv, TypeOK, LockProtects, Current
  <1>2. source \in Sources
      BY DEF SourcesOf, Sources
  <1>3. revs[Len(revs)] \in Revision
      BY HeadFacts DEF IInv, TypeOK, Current
  <1>4. BurstGroup(r, source, quick) \in Nat
      BY <1>1, <1>3 DEF BurstGroup, Revision
  <1>5. comments \in BOOLEAN
      BY DEF IInv, TypeOK
  <1> QED
      BY <1>1, <1>2, <1>4, <1>5 DEF NewRevision, Revision, Request

LEMMA TxCommitIInv ==
    ASSUME IInv, NEW r \in Requests, TxCommit(r)
    PROVE  IInv'
  <1>1. /\ pc[r] = "commit" /\ lock' = NoRequest
        /\ req[r].kind \notin {"delete", "agent_delete"}
        /\ row' = RowPointingToNewest(r)
        /\ UNCHANGED <<role, comments>>
      BY DEF TxCommit
  <1>2. PICK source \in SourcesOf(req[r].kind), quick \in BOOLEAN :
           revs' = Append(revs, NewRevision(r, source, quick))
      BY DEF TxCommit
  <1> DEFINE new == NewRevision(r, source, quick)
             n == Len(revs)
             q == [req[r] EXCEPT !.outcome = "ok", !.version = n + 1]
  <1>3. /\ new \in Revision /\ new.number = n + 1
        /\ new.checksum = req[r].content /\ new.by = req[r].kind
        /\ new.base = req[r].base /\ new.seen = req[r].seen
        /\ new.optIn = req[r].allow
      BY <1>1, NewRevisionFacts
  <1>4. n \in Nat /\ n >= 1 /\ DOMAIN revs = 1 .. n /\ revs \in Seq(Revision)
      BY HeadFacts DEF IInv, TypeOK, Current
  <1>5. pc' = [pc EXCEPT ![r] = "done"] /\ req' = [req EXCEPT ![r] = q]
      BY DEF TxCommit, Goto, IInv, TypeOK
  <1>6. q \in Request /\ "done" \in PCs
    <2>1. req[r] \in Request
        BY DEF IInv, TypeOK
    <2>2. n + 1 \in Nat
        BY <1>4
    <2>3. "ok" \in Outcomes /\ "done" \in PCs
        BY DEF Outcomes, PCs
    <2> HIDE DEF n
    <2>4. q \in Request
        BY <2>1, <2>2, <2>3 DEF Request
    <2> QED
        BY <2>3, <2>4
  <1>7. q.kind = req[r].kind /\ q.allow = req[r].allow
      BY DEF IInv, TypeOK, Request
  <1> HIDE DEF new, q
  <1>8. /\ revs' \in Seq(Revision) /\ Len(revs') = n + 1
        /\ DOMAIN revs' = 1 .. n + 1 /\ revs'[n + 1] = new
        /\ \A i \in 1 .. n : revs'[i] = revs[i]
      BY <1>2, <1>3, <1>4 DEF new
  <1>9. req[r].content \in Contents
      BY DEF IInv, TypeOK, Request
  <1>10. row' \in Row /\ row'.current = n + 1
         /\ row'.checksum = new.checksum /\ row'.status = new.checksum.status
    <2>1. row \in Row /\ req[r].content.status \in Statuses
        BY <1>9 DEF IInv, TypeOK, Contents
    <2>2. row' = [row EXCEPT !.current = n + 1, !.checksum = req[r].content,
                             !.status = req[r].content.status]
        BY <1>1 DEF RowPointingToNewest
    <2>3. n + 1 \in Nat
        BY <1>4
    <2> HIDE DEF n
    <2>4. row' \in Row
        BY <1>9, <2>1, <2>2, <2>3 DEF Row
    <2>5. row'.current = n + 1 /\ row'.checksum = req[r].content
          /\ row'.status = req[r].content.status
        BY <2>1, <2>2 DEF Row
    <2> QED
        BY <1>3, <2>4, <2>5
  <1>11. TypeOK'
      BY <1>1, <1>5, <1>6, <1>8, <1>10 DEF IInv, TypeOK
  <1>12. HeadExists'
      BY <1>4, <1>8, <1>10 DEF IInv, HeadExists, RowReflectsHead
  <1>13. LockProtects'
      BY <1>1, <1>5, OneCommits, RequestsAssumption DEF IInv, TypeOK, LockProtects
  <1>14. RequestsOK'
    <2> SUFFICES ASSUME NEW s \in Requests
                 PROVE  RequestOK(pc[s], req[s])'
        BY DEF RequestsOK
    <2>1. RequestOK(pc[s], req[s])
        BY DEF IInv, RequestsOK
    <2>2. CASE s = r
      <3>1. pc'[s] = "done" /\ req'[s] = q
          BY <1>5, <2>2 DEF IInv, TypeOK
      <3> QED
          BY <1>7, <2>1, <2>2, <3>1 DEF RequestOK, InPlace, BaseExists,
             BodyIsSeen, OptInIsSeen, PreparedPCs
    <2>3. CASE s # r
      <3>1. PICK p, z : p = pc[s] /\ z = req[s] /\ p = pc'[s] /\ z = req'[s]
          BY <1>5, <2>3 DEF IInv, TypeOK
      <3>2. RequestOK(p, z) /\ p # "commit"
          BY <1>1, <2>1, <2>3, <3>1, OneCommits
      <3>3. RequestOK(p, z)'
          BY <1>4, <1>8, <3>2, RequestOKStable
      <3> QED
          BY <3>1, <3>3
    <2> QED
        BY <2>2, <2>3
  <1>15. /\ req[r].kind \in ByWrite => req[r].base = n
         /\ RequestOK("commit", req[r])
      BY <1>1 DEF IInv, LockProtects, RequestsOK
  <1>16. ASSUME NEW i \in 1 .. n
         PROVE  revs'[i] = revs[i] /\ (i # 1 => revs'[i - 1] = revs[i - 1])
                /\ (i = 1 => revs[i].by = "create")
      BY <1>4, <1>8 DEF IInv, HeadExists
  <1>17. VersionsContiguous'
      BY <1>3, <1>4, <1>8 DEF IInv, ChainOK, VersionsContiguous
  <1>18. HistoryIsLinear'
      BY <1>3, <1>4, <1>8, <1>15 DEF IInv, ChainOK, HistoryIsLinear
  <1>19. DerivedFromPredecessor'
    <2>1. new.by \in DerivedKinds =>
             /\ new.seen = n
             /\ new.by = "promote" => new.checksum.text = revs[n].checksum.text
        BY <1>3, <1>4, <1>15 DEF RequestOK, BodyIsSeen, PreparedPCs, ByWrite,
           AllKinds, DerivedKinds
    <2> SUFFICES ASSUME NEW i \in 1 .. n + 1, revs'[i].by \in DerivedKinds
                 PROVE  /\ revs'[i].seen = i - 1
                        /\ revs'[i].by = "promote" =>
                             revs'[i].checksum.text = revs'[i - 1].checksum.text
        BY <1>8 DEF DerivedFromPredecessor
    <2>2. CASE i = n + 1
        BY <1>4, <1>8, <2>1, <2>2
    <2>3. CASE i # n + 1
      <3>1. i \in 1 .. n
          BY <1>4, <2>3
      <3>2. i # 1
          BY <1>16, <3>1 DEF DerivedKinds
      <3> QED
          BY <1>4, <1>16, <3>1, <3>2 DEF IInv, ChainOK, DerivedFromPredecessor
    <2> QED
        BY <2>2, <2>3
  <1>20. OptInOnlyForDrafts'
    <2>1. new.by \in ByWrite \ {"promote"} =>
             \/ revs[n].checksum.status = "canonical"
             \/ revs[n].checksum.status = "draft" /\ new.optIn
        BY <1>3, <1>4, <1>15 DEF RequestOK, OptInIsSeen, PreparedPCs
    <2> SUFFICES ASSUME NEW i \in 1 .. n + 1,
                        revs'[i].by \in ByWrite \ {"promote"}
                 PROVE  \/ revs'[i - 1].checksum.status = "canonical"
                        \/ revs'[i - 1].checksum.status = "draft" /\ revs'[i].optIn
        BY <1>8 DEF OptInOnlyForDrafts
    <2>2. CASE i = n + 1
        BY <1>4, <1>8, <2>1, <2>2
    <2>3. CASE i # n + 1
      <3>1. i \in 1 .. n
          BY <1>4, <2>3
      <3>2. i # 1
          BY <1>16, <3>1 DEF ByWrite, AllKinds
      <3> QED
          BY <1>4, <1>16, <3>1, <3>2 DEF IInv, ChainOK, OptInOnlyForDrafts
    <2> QED
        BY <2>2, <2>3
  <1> QED
      BY <1>11, <1>12, <1>13, <1>14, <1>17, <1>18, <1>19, <1>20
      DEF IInv, ChainOK

(***************************************************************************)
(* Roles, comments and labels change.                                      *)
(***************************************************************************)
LEMMA EnvironmentIInv ==
    ASSUME IInv, Environment
    PROVE  IInv'
  <1>1. ASSUME UNCHANGED <<row, revs, lock, pc, req>>,
               role' \in [Users -> AllRoles], comments' \in BOOLEAN
        PROVE  IInv'
    <2>1. TypeOK' /\ HeadExists' /\ LockProtects'
        BY <1>1 DEF IInv, TypeOK, HeadExists, RowReflectsHead, LockProtects
    <2>2. RequestsOK'
        BY <1>1 DEF IInv, RequestsOK, RequestOK, InPlace, BaseExists,
           BodyIsSeen, OptInIsSeen
    <2>3. ChainOK'
        BY <1>1 DEF IInv, ChainOK, VersionsContiguous, HistoryIsLinear,
           DerivedFromPredecessor, OptInOnlyForDrafts
    <2> QED
        BY <2>1, <2>2, <2>3 DEF IInv
  <1>2. CASE ChangeRole
      BY <1>1, <1>2, RolesAssumption DEF ChangeRole, IInv, TypeOK
  <1>3. CASE AddComment \/ ResolveComment
      BY <1>1, <1>3 DEF AddComment, ResolveComment, IInv, TypeOK
  <1>4. CASE MarkRevision
    <2>1. PICK j \in DOMAIN revs, m \in BOOLEAN :
             revs' = [revs EXCEPT ![j].marked = m]
        BY <1>4 DEF MarkRevision
    <2>2. UNCHANGED <<row, role, comments, lock, pc, req>>
        BY <1>4 DEF MarkRevision
    <2>3. revs \in Seq(Revision) /\ Len(revs) \in Nat /\ Len(revs) >= 1
          /\ DOMAIN revs = 1 .. Len(revs)
        BY HeadFacts DEF IInv, TypeOK, Current
    <2>4. [revs[j] EXCEPT !.marked = m] \in Revision
      <3>1. revs[j] \in Revision
          BY <2>1, <2>3
      <3> QED
          BY <3>1 DEF Revision
    <2>5. revs' = [revs EXCEPT ![j] = [revs[j] EXCEPT !.marked = m]]
        BY <2>1
    <2>6. revs' \in Seq(Revision) /\ Len(revs') = Len(revs)
          /\ DOMAIN revs' = 1 .. Len(revs)
        BY <2>1, <2>3, <2>4, <2>5
    <2>7. \A i \in 1 .. Len(revs) :
            /\ revs'[i].number = revs[i].number
            /\ revs'[i].checksum = revs[i].checksum
            /\ revs'[i].by = revs[i].by
            /\ revs'[i].base = revs[i].base
            /\ revs'[i].seen = revs[i].seen
            /\ revs'[i].optIn = revs[i].optIn
      <3> SUFFICES ASSUME NEW i \in 1 .. Len(revs)
                   PROVE  /\ revs'[i].number = revs[i].number
                          /\ revs'[i].checksum = revs[i].checksum
                          /\ revs'[i].by = revs[i].by
                          /\ revs'[i].base = revs[i].base
                          /\ revs'[i].seen = revs[i].seen
                          /\ revs'[i].optIn = revs[i].optIn
          OBVIOUS
      <3>1. revs[j] \in Revision
          BY <2>1, <2>3
      <3>2. revs'[i] = IF i = j THEN [revs[j] EXCEPT !.marked = m] ELSE revs[i]
          BY <2>3, <2>5
      <3> QED
          BY <3>1, <3>2 DEF Revision
    <2>8. TypeOK'
        BY <2>2, <2>6 DEF IInv, TypeOK
    <2>9. HeadExists' /\ LockProtects'
        BY <2>2, <2>3, <2>6, <2>7 DEF IInv, HeadExists, RowReflectsHead, LockProtects
    <2>10. RequestsOK'
        BY <2>2, <2>3, <2>6, <2>7 DEF IInv, RequestsOK, RequestOK, InPlace,
           BaseExists, BodyIsSeen, OptInIsSeen, PreparedPCs
    <2>11. VersionsContiguous' /\ HistoryIsLinear'
        BY <2>3, <2>6, <2>7 DEF IInv, ChainOK, VersionsContiguous, HistoryIsLinear
    <2>12. ASSUME NEW i \in 1 .. Len(revs), revs[i].by \in ByWrite
           PROVE  i # 1 /\ i - 1 \in 1 .. Len(revs)
        BY <2>3, <2>12 DEF IInv, HeadExists, ByWrite, AllKinds
    <2>13. DerivedKinds \subseteq ByWrite
        BY DEF DerivedKinds, ByWrite, AllKinds
    <2>14. DerivedFromPredecessor'
        BY <2>3, <2>6, <2>7, <2>12, <2>13
        DEF IInv, ChainOK, DerivedFromPredecessor
    <2>15. OptInOnlyForDrafts'
        BY <2>3, <2>6, <2>7, <2>12 DEF IInv, ChainOK, OptInOnlyForDrafts
    <2> QED
        BY <2>8, <2>9, <2>10, <2>11, <2>14, <2>15 DEF IInv, ChainOK
  <1> QED
      BY <1>2, <1>3, <1>4 DEF Environment

(***************************************************************************)
(* The theorems.                                                           *)
(***************************************************************************)
LEMMA NextIInv == IInv /\ [Next]_vars => IInv'
  <1> SUFFICES ASSUME IInv, [Next]_vars PROVE IInv'
      OBVIOUS
  <1>1. CASE Environment
      BY <1>1, EnvironmentIInv
  <1>2. ASSUME NEW r \in Requests, ArriveAny(r)
        PROVE  IInv'
      BY <1>2, ArriveIInv
  <1>3. ASSUME NEW r \in Requests, Handle(r)
        PROVE  IInv'
    <2>1. CASE ReadStatus(r)
        BY <2>1, ReadStatusIInv
    <2>2. CASE \/ BodyMissing(r) \/ ReadForSplice(r) \/ ReadForAppend(r)
               \/ ReadForUpsert(r) \/ ReadForPromote(r) \/ ReadForFinalize(r)
               \/ ReadForRestore(r) \/ ReadForDelete(r)
        BY <2>2, ReadBodyIInv
    <2>3. CASE ReadComments(r)
        BY <2>3, ReadCommentsIInv
    <2>4. CASE Preflight(r)
        BY <2>4, PreflightIInv
    <2>5. CASE TxBegin(r)
        BY <2>5, TxBeginIInv
    <2>6. CASE TxCommit(r)
        BY <2>6, TxCommitIInv
    <2>7. CASE TxDelete(r) \/ TxRollback(r)
        BY <2>7, TxEndsIInv
    <2> QED
        BY <1>3, <2>1, <2>2, <2>3, <2>4, <2>5, <2>6, <2>7 DEF Handle
  <1>4. CASE UNCHANGED vars
    <2>1. TypeOK' /\ HeadExists' /\ LockProtects'
        BY <1>4 DEF vars, IInv, TypeOK, HeadExists, RowReflectsHead, LockProtects
    <2>2. RequestsOK'
        BY <1>4 DEF vars, IInv, RequestsOK, RequestOK, InPlace, BaseExists,
           BodyIsSeen, OptInIsSeen
    <2>3. ChainOK'
        BY <1>4 DEF vars, IInv, ChainOK, VersionsContiguous, HistoryIsLinear,
           DerivedFromPredecessor, OptInOnlyForDrafts
    <2> QED
        BY <2>1, <2>2, <2>3 DEF IInv
  <1> QED
      BY <1>1, <1>2, <1>3, <1>4 DEF Next

(* The inductive invariant holds in every reachable state.                 *)
THEOREM InductiveInvariant == Spec => []IInv
  BY InitIInv, NextIInv, PTL DEF Spec

(* Every state the write path reaches is well typed.                       *)
THEOREM TypeCorrect == Spec => []TypeOK
  <1>1. IInv => TypeOK
      BY DEF IInv
  <1> QED
      BY <1>1, InductiveInvariant, PTL

(* No update is lost: a revision replaces exactly the version its client   *)
(* named or the server read, for any number of racing requests.            *)
THEOREM NoLostUpdate == Spec => []HistoryIsLinear
  <1>1. IInv => HistoryIsLinear
      BY DEF IInv, ChainOK
  <1> QED
      BY <1>1, InductiveInvariant, PTL

(* Content the server computed was computed from the version it replaced.  *)
THEOREM NoStaleSplice == Spec => []DerivedFromPredecessor
  <1>1. IInv => DerivedFromPredecessor
      BY DEF IInv, ChainOK
  <1> QED
      BY <1>1, InductiveInvariant, PTL

(* Nobody overwrites a superseded version, or a draft without opting in.   *)
THEOREM GuardedDrafts == Spec => []OptInOnlyForDrafts
  <1>1. IInv => OptInOnlyForDrafts
      BY DEF IInv, ChainOK
  <1> QED
      BY <1>1, InductiveInvariant, PTL

(* Version numbers have neither gaps nor duplicates.                       *)
THEOREM Gapless == Spec => []VersionsContiguous
  <1>1. IInv => VersionsContiguous
      BY DEF IInv, ChainOK
  <1> QED
      BY <1>1, InductiveInvariant, PTL

(* The Document row always denotes the newest revision.                    *)
THEOREM HeadIsCurrent == Spec => []RowReflectsHead
  <1>1. IInv => RowReflectsHead
      BY DEF IInv, HeadExists
  <1> QED
      BY <1>1, InductiveInvariant, PTL
(***************************************************************************)
(* Answers, bursts and the versioned document: what a step of a request    *)
(* does, in the terms of what its client sees.                             *)
(***************************************************************************)
Want(q) == IF q.kind = "restore" THEN AnyVersion ELSE q.base

(* The request goes on, and may say what it replaces if it has not yet.    *)
Proceeds(r) ==
    \E p \in PCs \ {"idle", "done"}, q \in Request :
        /\ pc' = [pc EXCEPT ![r] = p] /\ req' = [req EXCEPT ![r] = q]
        /\ q.outcome = "none"
        /\ \/ Want(q) = Want(req[r])
           \/ Want(req[r]) = 0 /\ Want(q) \in DOMAIN revs \cup {AnyVersion}
        /\ p = "body" /\ q.kind \in {"append", "promote", "delete", "agent_delete"}
             => q.base = 0

(* It is answered without a revision.                                      *)
Refuses(r) ==
    \E o \in Outcomes \ {"none", "ok", "deleted"} :
        /\ Answer(r, o)
        /\ o = "conflict" => Want(req[r]) \in DOMAIN revs \ {Len(revs)}

LEMMA ArriveProceeds ==
    ASSUME IInv, Asking, NEW r \in Requests, NEW kind \in AllKinds,
           NEW label \in {"status", "body", "preflight"}, NEW u \in Users,
           NEW base \in {0} \cup DOMAIN revs, NEW c \in Contents, NEW d \in BOOLEAN,
           Arrive(r, kind, label), Send(r, kind, u, base, c, d),
           kind \in {"append", "promote", "delete", "agent_delete"} => base = 0
    PROVE  Proceeds(r) /\ req[r].outcome = "none"
  <1> DEFINE q == [req[r] EXCEPT !.kind = kind, !.user = u, !.base = base,
                                 !.content = c, !.allowDraft = d]
  <1>1. q \in Request /\ label \in PCs \ {"idle", "done"} /\ DOMAIN revs \subseteq Nat
    <2>1. DOMAIN revs \subseteq Nat
        BY HeadFacts
    <2>2. base \in Nat
        BY <2>1
    <2>3. q \in Request
        BY <2>2 DEF IInv, TypeOK, Request
    <2> QED
        BY <2>1, <2>3 DEF PCs
  <1>2. pc[r] = "idle" /\ pc' = [pc EXCEPT ![r] = label]
        /\ req' = [req EXCEPT ![r] = q]
      BY DEF Arrive, Send, Goto, IInv, TypeOK
  <1>3. req[r].outcome = "none" /\ req[r].base = 0 /\ req[r].kind # "restore"
      BY <1>2 DEF Asking
  <1>4. q.kind = kind /\ q.base = base /\ q.outcome = req[r].outcome
      BY DEF IInv, TypeOK, Request
  <1> HIDE DEF q
  <1>5. Want(req[r]) = 0
      BY <1>3 DEF Want
  <1>6. Want(q) = 0 \/ Want(q) \in DOMAIN revs \cup {AnyVersion}
      BY <1>4 DEF Want
  <1> QED
      BY <1>1, <1>2, <1>3, <1>4, <1>5, <1>6 DEF Proceeds

LEMMA ArriveAnyProceeds ==
    ASSUME IInv, Asking, NEW r \in Requests, ArriveAny(r)
    PROVE  Proceeds(r) /\ req[r].outcome = "none" /\ Unchanged
  <1> USE DEF AllKinds
  <1>0. /\ req[r].content \in Contents
        /\ \A t \in Texts : [req[r].content EXCEPT !.text = t] \in Contents
    <2>1. req[r].content \in Contents
        BY DEF IInv, TypeOK, Request
    <2>2. ASSUME NEW t \in Texts
          PROVE  [req[r].content EXCEPT !.text = t] \in Contents
        BY <2>1 DEF Contents
    <2> QED
        BY <2>1, <2>2
  <1>1. CASE ArrivePut(r)
      BY <1>0, <1>1, ArriveProceeds DEF ArrivePut, Arrive
  <1>2. CASE ArrivePush(r)
      BY <1>0, <1>2, ArriveProceeds DEF ArrivePush, Arrive
  <1>3. CASE ArriveSplice(r)
      BY <1>0, <1>3, ArriveProceeds DEF ArriveSplice, Arrive
  <1>4. CASE ArriveAppend(r)
      BY <1>0, <1>4, ArriveProceeds DEF ArriveAppend, Arrive
  <1>5. CASE ArriveUpsert(r)
      BY <1>0, <1>5, ArriveProceeds DEF ArriveUpsert, Arrive
  <1>6. CASE ArrivePromote(r)
      BY <1>0, <1>6, ArriveProceeds DEF ArrivePromote, Arrive
  <1>7. CASE ArriveFinalize(r)
      BY <1>0, <1>7, ArriveProceeds DEF ArriveFinalize, Arrive
  <1>8. CASE ArriveRestore(r)
      BY <1>0, <1>8, ArriveProceeds DEF ArriveRestore, Arrive
  <1>9. CASE ArriveDelete(r)
      BY <1>0, <1>9, ArriveProceeds DEF ArriveDelete, Arrive
  <1> QED
      BY <1>1, <1>2, <1>3, <1>4, <1>5, <1>6, <1>7, <1>8, <1>9 DEF ArriveAny
(* The same of the handlers, their commits and deletions aside.            *)
LEMMA PreparedProceeds ==
    ASSUME IInv, Asking, NEW r \in Requests, NEW base \in Nat \cup {AnyVersion},
           NEW c \in Contents, NEW allow \in BOOLEAN,
           NEW label \in {"comments", "preflight", "locking"},
           pc[r] = "body", Prepared(r, base, c, allow, label),
           IF req[r].kind = "restore" THEN TRUE
           ELSE base = req[r].base \/ (req[r].base = 0 /\ base \in DOMAIN revs)
    PROVE  Proceeds(r)
  <1> DEFINE q == [req[r] EXCEPT !.base = base, !.content = c,
                                 !.allow = allow, !.seen = Current]
  <1>1. q \in Request /\ label \in PCs \ {"idle", "done"} /\ label # "body"
    <2>1. req[r] \in Request /\ Current \in Nat
        BY HeadFacts DEF IInv, TypeOK
    <2>2. q \in Request
        BY <2>1 DEF Request
    <2> QED
        BY <2>2 DEF PCs
  <1>2. pc' = [pc EXCEPT ![r] = label] /\ req' = [req EXCEPT ![r] = q]
      BY DEF Prepared, Goto, IInv, TypeOK
  <1>3. q.kind = req[r].kind /\ q.base = base /\ q.outcome = req[r].outcome
      BY DEF IInv, TypeOK, Request
  <1>4. req[r].outcome = "none"
      BY DEF Asking
  <1> HIDE DEF q
  <1>5. \/ Want(q) = Want(req[r])
        \/ Want(req[r]) = 0 /\ Want(q) \in DOMAIN revs \cup {AnyVersion}
      BY <1>3 DEF Want
  <1> QED
      BY <1>1, <1>2, <1>3, <1>4, <1>5 DEF Proceeds

LEMMA GotoProceeds ==
    ASSUME IInv, Asking, NEW r \in Requests, NEW label \in {"preflight", "locking"},
           pc[r] # "done", Goto(r, label), UNCHANGED req
    PROVE  Proceeds(r)
  <1>1. pc' = [pc EXCEPT ![r] = label] /\ req' = [req EXCEPT ![r] = req[r]]
        /\ req[r] \in Request /\ label \in PCs \ {"idle", "done"} /\ label # "body"
      BY DEF Goto, IInv, TypeOK, PCs
  <1> QED
      BY <1>1 DEF Proceeds, Asking

LEMMA RefusalAnswers ==
    ASSUME NEW r \in Requests, NEW u, NEW needed, Refusal(u, needed) # "none",
           Answer(r, Refusal(u, needed))
    PROVE  Refuses(r)
  BY DEF Refuses, Refusal, Outcomes

LEMMA ReadBodyProceeds ==
    ASSUME IInv, Asking, NEW r \in Requests,
           \/ BodyMissing(r) \/ ReadForSplice(r) \/ ReadForAppend(r)
           \/ ReadForUpsert(r) \/ ReadForPromote(r) \/ ReadForFinalize(r)
           \/ ReadForRestore(r) \/ ReadForDelete(r)
    PROVE  Proceeds(r) \/ Refuses(r)
  <1> DEFINE q == req[r]
  <1>1. pc[r] = "body"
      BY DEF BodyMissing, ReadForSplice, ReadForAppend, ReadForUpsert,
         ReadForPromote, ReadForFinalize, ReadForRestore, ReadForDelete, ReadBody
  <1>2. q \in Request /\ q.content \in Contents /\ q.content.text \in Texts
        /\ q.base \in Nat \cup {AnyVersion} /\ q.allowDraft \in BOOLEAN
      BY DEF IInv, TypeOK, Request, Contents
  <1>3. RequestOK(pc[r], q)
      BY DEF IInv, RequestsOK
  <1>4. ASSUME NEW o \in {"not_found", "noop", "not_ready"}, Answer(r, o)
        PROVE  Refuses(r)
      BY <1>4 DEF Refuses, Outcomes
  <1>5. ASSUME NEW u, NEW needed, Refusal(u, needed) # "none",
               Answer(r, Refusal(u, needed))
        PROVE  Refuses(r)
      BY <1>5, RefusalAnswers
  <1>6. CASE BodyMissing(r)
      BY <1>4, <1>6 DEF BodyMissing
  <1>7. CASE ReadForSplice(r)
    <2>1. [CurrentContent EXCEPT !.text = q.content.text] \in Contents
        BY <1>2, HeadFacts DEF Contents
    <2> QED
        BY <1>1, <1>2, <1>7, <2>1, PreparedProceeds DEF ReadForSplice
  <1>8. CASE ReadForAppend(r)
    <2>1. [CurrentContent EXCEPT !.text = q.content.text] \in Contents
        BY <1>2, HeadFacts DEF Contents
    <2>2. q.base = 0
        BY <1>1, <1>8 DEF Asking, ReadForAppend, ReadBody
    <2> QED
        BY <1>1, <1>8, <2>1, <2>2, HeadFacts, PreparedProceeds DEF ReadForAppend
  <1>9. CASE ReadForUpsert(r)
    <2>1. CASE Refusal(q.user, "editor") # "none"
        BY <1>5, <1>9, <2>1 DEF ReadForUpsert
    <2>2. CASE Refusal(q.user, "editor") = "none" /\ row.checksum = q.content
        BY <1>4, <1>9, <2>2 DEF ReadForUpsert
    <2>3. CASE Refusal(q.user, "editor") = "none" /\ row.checksum # q.content
      <3> DEFINE base == IF q.base = 0 THEN Current ELSE q.base
      <3>1. base \in Nat \cup {AnyVersion}
            /\ (base = q.base \/ (q.base = 0 /\ base \in DOMAIN revs))
          BY <1>2, HeadFacts
      <3>2. Prepared(r, base, q.content,
                     q.allowDraft /\ row.status = "draft", "preflight")
          BY <1>9, <2>3 DEF ReadForUpsert
      <3> HIDE DEF base
      <3> QED
          BY <1>1, <1>2, <3>1, <3>2, PreparedProceeds
    <2> QED
        BY <2>1, <2>2, <2>3
  <1>10. CASE ReadForPromote(r)
    <2>1. q.base = 0
        BY <1>1, <1>10 DEF Asking, ReadForPromote, ReadBody
    <2>2. CASE Refusal(q.user, "editor") # "none"
        BY <1>5, <1>10, <2>2 DEF ReadForPromote
    <2>3. CASE Refusal(q.user, "editor") = "none" /\ row.status = "canonical"
        BY <1>4, <1>10, <2>3 DEF ReadForPromote
    <2>4. CASE Refusal(q.user, "editor") = "none" /\ row.status # "canonical"
      <3> DEFINE c == [CurrentContent EXCEPT !.status = "canonical"]
      <3>1. c \in Contents
          BY HeadFacts, StatusesAssumption DEF Contents
      <3>2. Prepared(r, Current, c, TRUE, "preflight")
          BY <1>10, <2>4 DEF ReadForPromote
      <3> HIDE DEF c
      <3> QED
          BY <1>1, <2>1, <3>1, <3>2, HeadFacts, PreparedProceeds
    <2> QED
        BY <2>2, <2>3, <2>4
  <1>11. CASE ReadForFinalize(r)
    <2>1. q.kind = "finalize" /\ q.base \in DOMAIN revs
        BY <1>1, <1>3, <1>11 DEF ReadForFinalize, ReadBody, RequestOK, BaseExists
    <2>2. CASE Refusal(q.user, "editor") # "none"
        BY <1>5, <1>11, <2>2 DEF ReadForFinalize
    <2>3. CASE Refusal(q.user, "editor") = "none" /\ Current # q.base
      <3>1. Answer(r, "conflict")
          BY <1>11, <2>3 DEF ReadForFinalize
      <3>2. Want(q) \in DOMAIN revs \ {Len(revs)}
          BY <2>1, <2>3, HeadFacts DEF Want
      <3> QED
          BY <3>1, <3>2 DEF Refuses, Outcomes
    <2>4. CASE /\ Refusal(q.user, "editor") = "none" /\ Current = q.base
               /\ row.status = "superseded"
        BY <1>4, <1>11, <2>4 DEF ReadForFinalize
    <2>5. CASE /\ Refusal(q.user, "editor") = "none" /\ Current = q.base
               /\ row.status # "superseded"
      <3> DEFINE c == [text |-> q.content.text, status |-> "canonical"]
      <3>1. c \in Contents
          BY <1>2, StatusesAssumption DEF Contents
      <3>2. Prepared(r, q.base, c, row.status = "draft", "comments")
          BY <1>11, <2>5 DEF ReadForFinalize
      <3> HIDE DEF c
      <3> QED
          BY <1>1, <1>2, <3>1, <3>2, PreparedProceeds
    <2> QED
        BY <2>2, <2>3, <2>4, <2>5
  <1>12. CASE ReadForRestore(r)
    <2>1. q.kind = "restore" /\ q.base \in DOMAIN revs
        BY <1>1, <1>3, <1>12 DEF ReadForRestore, ReadBody, RequestOK, BaseExists
    <2>2. revs[q.base].checksum \in Contents
      <3>1. revs[q.base] \in Revision
          BY <2>1 DEF IInv, TypeOK
      <3> QED
          BY <3>1 DEF Revision
    <2>3. CASE Refusal(q.user, "manager") # "none"
        BY <1>5, <1>12, <2>3 DEF ReadForRestore
    <2>4. CASE Refusal(q.user, "manager") = "none"
        BY <1>1, <1>12, <2>1, <2>2, <2>4, PreparedProceeds DEF ReadForRestore
    <2> QED
        BY <2>3, <2>4
  <1>13. CASE ReadForDelete(r)
    <2>1. CASE Refusal(q.user, "manager") # "none"
        BY <1>5, <1>13, <2>1 DEF ReadForDelete
    <2>2. CASE Refusal(q.user, "manager") = "none"
        BY <1>1, <1>13, <2>2, GotoProceeds DEF ReadForDelete
    <2> QED
        BY <2>1, <2>2
  <1> QED
      BY <1>6, <1>7, <1>8, <1>9, <1>10, <1>11, <1>12, <1>13

LEMMA HandleProceeds ==
    ASSUME IInv, Asking, NEW r \in Requests, Handle(r),
           ~TxCommit(r), ~TxDelete(r)
    PROVE  /\ Proceeds(r) \/ Refuses(r)
           /\ pc[r] # "done" /\ req[r].outcome = "none"
           /\ UNCHANGED <<row, revs>>
  <1>1. pc[r] # "done" /\ UNCHANGED <<row, revs>>
      BY DEF Handle, Unchanged, ReadStatus, BodyMissing, ReadForSplice,
         ReadForAppend, ReadForUpsert, ReadForPromote, ReadForFinalize,
         ReadForRestore, ReadForDelete, ReadBody, ReadComments, Preflight,
         TxBegin, TxRollback
  <1>2. req[r].outcome = "none"
      BY <1>1 DEF Asking
  <1> SUFFICES Proceeds(r) \/ Refuses(r)
      BY <1>1, <1>2
  <1>3. req[r] \in Request
      BY DEF IInv, TypeOK
  <1>4. CASE ReadStatus(r)
    <2> DEFINE allow == row.live /\ row.status = "draft"
               seen == IF row.live THEN Current ELSE 0
               q == [req[r] EXCEPT !.allow = allow, !.seen = seen]
    <2>1. allow \in BOOLEAN /\ seen \in Nat
        BY HeadFacts DEF IInv, TypeOK, Row
    <2>2. pc' = [pc EXCEPT ![r] = "preflight"] /\ req' = [req EXCEPT ![r] = q]
        BY <1>4 DEF ReadStatus, Goto, IInv, TypeOK
    <2> HIDE DEF allow, seen
    <2>3. q \in Request /\ q.kind = req[r].kind /\ q.base = req[r].base
          /\ q.outcome = req[r].outcome
        BY <1>3, <2>1 DEF Request
    <2> HIDE DEF q
    <2>4. "preflight" \in PCs \ {"idle", "done"} /\ Want(q) = Want(req[r])
        BY <2>3 DEF PCs, Want
    <2> QED
        BY <1>2, <2>2, <2>3, <2>4 DEF Proceeds
  <1>5. CASE \/ BodyMissing(r) \/ ReadForSplice(r) \/ ReadForAppend(r)
             \/ ReadForUpsert(r) \/ ReadForPromote(r) \/ ReadForFinalize(r)
             \/ ReadForRestore(r) \/ ReadForDelete(r)
      BY <1>5, ReadBodyProceeds
  <1>6. CASE ReadComments(r)
    <2>1. CASE comments
        BY <1>6, <2>1 DEF ReadComments, Refuses, Outcomes
    <2>2. CASE ~comments
        BY <1>1, <1>6, <2>2, GotoProceeds DEF ReadComments
    <2> QED
        BY <2>1, <2>2
  <1>7. CASE Preflight(r)
    <2>1. RequestOK("preflight", req[r])
        BY <1>7 DEF IInv, RequestsOK, Preflight
    <2>2. CASE PreflightVerdict(r) = "none"
        BY <1>1, <1>7, <2>2, GotoProceeds DEF Preflight
    <2>3. CASE PreflightVerdict(r) # "none"
      <3>1. Answer(r, PreflightVerdict(r))
          BY <1>7, <2>3 DEF Preflight
      <3>2. PreflightVerdict(r) \in {"not_found", "forbidden", "not_canonical", "conflict"}
          BY <2>3 DEF PreflightVerdict, Refusal
      <3>3. PreflightVerdict(r) = "conflict" => Want(req[r]) \in DOMAIN revs \ {Len(revs)}
          BY <2>1, HeadFacts DEF PreflightVerdict, Refusal, Want, RequestOK,
             InPlace, BaseExists, PreparedPCs, ByWrite
      <3> QED
          BY <3>1, <3>2, <3>3 DEF Refuses, Outcomes
    <2> QED
        BY <2>2, <2>3
  <1>8. CASE TxBegin(r)
    <2>1. RequestOK("locking", req[r])
        BY <1>8 DEF IInv, RequestsOK, TxBegin
    <2>2. CASE TxVerdict(r) = "none"
      <3> DEFINE q == [req[r] EXCEPT !.max = Len(revs)]
      <3>1. pc' = [pc EXCEPT ![r] = "commit"] /\ req' = [req EXCEPT ![r] = q]
          BY <1>8, <2>2 DEF TxBegin, Goto, IInv, TypeOK
      <3>2. Len(revs) \in Nat
          BY HeadFacts DEF Current
      <3>3. q \in Request /\ q.kind = req[r].kind /\ q.base = req[r].base
            /\ q.outcome = req[r].outcome
          BY <1>3, <3>2 DEF Request
      <3> HIDE DEF q
      <3>4. "commit" \in PCs \ {"idle", "done"} /\ Want(q) = Want(req[r])
          BY <3>3 DEF PCs, Want
      <3> QED
          BY <1>2, <3>1, <3>3, <3>4 DEF Proceeds
    <2>3. CASE TxVerdict(r) # "none"
      <3>1. Answer(r, TxVerdict(r))
          BY <1>8, <2>3 DEF TxBegin
      <3>2. TxVerdict(r) \in {"not_found", "forbidden", "noop", "conflict"}
          BY <2>3 DEF TxVerdict, Refusal
      <3>3. TxVerdict(r) = "conflict" => Want(req[r]) \in DOMAIN revs \ {Len(revs)}
        <4>1. req[r].kind \in AllKinds
            BY <1>3 DEF Request
        <4> QED
            BY <2>1, <4>1, HeadFacts DEF TxVerdict, Refusal, Want, RequestOK,
               BaseExists, PreparedPCs, ByWrite
      <3> QED
          BY <3>1, <3>2, <3>3 DEF Refuses, Outcomes
    <2> QED
        BY <2>2, <2>3
  <1>9. CASE TxRollback(r)
    <2>1. Refuses(r)
        BY <1>9 DEF TxRollback, Refuses, Outcomes
    <2> QED
        BY <2>1
  <1> QED
      BY <1>4, <1>5, <1>6, <1>7, <1>8, <1>9 DEF Handle
(***************************************************************************)
(* Nobody is answered twice, and quick saves stay together.                *)
(***************************************************************************)

(* The revisions are those there were, labels aside.                       *)
Relabelled ==
    /\ DOMAIN revs' = DOMAIN revs
    /\ \A i \in DOMAIN revs :
          /\ revs'[i].checksum = revs[i].checksum
          /\ revs'[i].by = revs[i].by
          /\ revs'[i].user = revs[i].user
          /\ revs'[i].source = revs[i].source
          /\ revs'[i].group = revs[i].group

LEMMA RelabelledInv ==
    ASSUME IInv, HistoryInv, Relabelled, UNCHANGED <<pc, req>>
    PROVE  HistoryInv'
  <1>1. Asking'
      BY DEF HistoryInv, Asking
  <1>2. AnswersMatchRevisions'
      BY DEF HistoryInv, AnswersMatchRevisions, Relabelled
  <1>3. BurstGroupsAreContiguous'
    <2> SUFFICES ASSUME NEW i \in DOMAIN revs, revs[i].group # 0
                 PROVE  /\ 1 < revs[i].group /\ revs[i].group < i
                        /\ revs'[revs[i].group].group = 0
                        /\ \A j \in revs[i].group + 1 .. i : revs'[j].group = revs[i].group
                        /\ \A j \in revs[i].group .. i : /\ revs'[j].user = revs[i].user
                                                         /\ revs'[j].source = revs[i].source
        BY DEF BurstGroupsAreContiguous, Relabelled
    <2>1. DOMAIN revs = 1 .. Len(revs) /\ Len(revs) \in Nat
        BY HeadFacts DEF Current
    <2>2. revs[i].group \in Nat
      <3>1. revs[i] \in Revision
          BY DEF IInv, TypeOK
      <3> QED
          BY <3>1 DEF Revision
    <2>3. /\ 1 < revs[i].group /\ revs[i].group < i
          /\ revs[revs[i].group].group = 0
          /\ \A j \in revs[i].group + 1 .. i : revs[j].group = revs[i].group
          /\ \A j \in revs[i].group .. i : /\ revs[j].user = revs[i].user
                                           /\ revs[j].source = revs[i].source
        BY DEF HistoryInv, BurstGroupsAreContiguous
    <2>4. \A j \in revs[i].group .. i : j \in DOMAIN revs
        BY <2>1, <2>2, <2>3
    <2>5. revs[i].group \in revs[i].group .. i
          /\ revs[i].group + 1 .. i \subseteq revs[i].group .. i
        BY <2>1, <2>2, <2>3
    <2> QED
        BY <2>3, <2>4, <2>5 DEF Relabelled
  <1> QED
      BY <1>1, <1>2, <1>3 DEF HistoryInv

(* A request that is told of no revision, and had been told of none.       *)
LEMMA UntoldInv ==
    ASSUME IInv, HistoryInv, NEW r \in Requests, NEW p, NEW q,
           pc' = [pc EXCEPT ![r] = p], req' = [req EXCEPT ![r] = q],
           q.outcome # "ok", req[r].outcome # "ok", UNCHANGED revs,
           \/ p = "done"
           \/ /\ q.outcome = "none" /\ p # "idle"
              /\ p = "body" /\ q.kind \in {"append", "promote", "delete", "agent_delete"}
                   => q.base = 0
    PROVE  HistoryInv'
  <1>1. \A s \in Requests : /\ pc'[s] = IF s = r THEN p ELSE pc[s]
                            /\ req'[s] = IF s = r THEN q ELSE req[s]
      BY DEF IInv, TypeOK
  <1>2. Asking'
      BY <1>1 DEF HistoryInv, Asking
  <1>3. AnswersMatchRevisions'
      BY <1>1 DEF HistoryInv, AnswersMatchRevisions
  <1>4. BurstGroupsAreContiguous'
      BY DEF HistoryInv, BurstGroupsAreContiguous
  <1> QED
      BY <1>2, <1>3, <1>4 DEF HistoryInv

LEMMA CommitFacts ==
    ASSUME IInv, Asking, NEW r \in Requests, TxCommit(r)
    PROVE  \E source \in Sources, group \in Nat, new \in Revision :
             /\ revs' = Append(revs, new)
             /\ new.checksum = req[r].content /\ new.by = req[r].kind
             /\ new.user = req[r].user /\ new.source = source /\ new.group = group
             /\ new.base = req[r].base
             /\ \/ group = 0
                \/ LET prev == revs[Len(revs)]
                   IN  /\ Len(revs) > 1
                       /\ prev.user = req[r].user /\ prev.source = source
                       /\ group = IF prev.group # 0 THEN prev.group ELSE Len(revs)
  <1>1. PICK source \in SourcesOf(req[r].kind), quick \in BOOLEAN :
           revs' = Append(revs, NewRevision(r, source, quick))
      BY DEF TxCommit
  <1> DEFINE new == NewRevision(r, source, quick)
             group == BurstGroup(r, source, quick)
  <1>2. /\ new \in Revision /\ new.checksum = req[r].content
        /\ new.by = req[r].kind /\ new.base = req[r].base
      BY NewRevisionFacts DEF TxCommit
  <1>3. new.user = req[r].user /\ new.source = source /\ new.group = group
      BY DEF NewRevision
  <1>4. source \in Sources
      BY DEF SourcesOf, Sources
  <1>5. revs[Len(revs)].number = Len(revs) /\ Len(revs) \in Nat
      BY HeadFacts DEF Current, IInv, ChainOK, VersionsContiguous
  <1>6. \/ group = 0
        \/ LET prev == revs[Len(revs)]
           IN  /\ Len(revs) > 1
               /\ prev.user = req[r].user /\ prev.source = source
               /\ group = IF prev.group # 0 THEN prev.group ELSE Len(revs)
      BY <1>5 DEF BurstGroup
  <1>7. group \in Nat
      BY <1>2, <1>3 DEF Revision
  <1> HIDE DEF new, group
  <1> QED
      BY <1>1, <1>2, <1>3, <1>4, <1>6, <1>7 DEF new

LEMMA CommitInv ==
    ASSUME IInv, HistoryInv, NEW r \in Requests, TxCommit(r)
    PROVE  HistoryInv'
  <1> DEFINE n == Len(revs)
             q == [req[r] EXCEPT !.outcome = "ok", !.version = n + 1]
  <1>1. PICK source \in Sources, group \in Nat, new \in Revision :
             /\ revs' = Append(revs, new)
             /\ new.checksum = req[r].content /\ new.by = req[r].kind
             /\ new.user = req[r].user /\ new.source = source /\ new.group = group
             /\ \/ group = 0
                \/ LET prev == revs[Len(revs)]
                   IN  /\ Len(revs) > 1
                       /\ prev.user = req[r].user /\ prev.source = source
                       /\ group = IF prev.group # 0 THEN prev.group ELSE Len(revs)
      BY CommitFacts DEF HistoryInv
  <1>2. n \in Nat /\ n >= 1 /\ DOMAIN revs = 1 .. n /\ revs \in Seq(Revision)
      BY HeadFacts DEF IInv, TypeOK, Current
  <1>3. /\ revs' \in Seq(Revision) /\ Len(revs') = n + 1
        /\ DOMAIN revs' = 1 .. n + 1 /\ revs'[n + 1] = new
        /\ \A i \in 1 .. n : revs'[i] = revs[i]
    <2>1. revs' = Append(revs, new)
        BY <1>1
    <2> QED
        BY <1>2, <2>1
  <1>4. /\ \A s \in Requests : /\ pc'[s] = IF s = r THEN "done" ELSE pc[s]
                               /\ req'[s] = IF s = r THEN q ELSE req[s]
        /\ pc[r] = "commit"
      BY DEF TxCommit, Goto, IInv, TypeOK
  <1>5. req[r].outcome = "none"
      BY <1>4 DEF HistoryInv, Asking
  <1>6. /\ q.outcome = "ok" /\ q.version = n + 1 /\ q.kind = req[r].kind
        /\ q.user = req[r].user /\ q.content = req[r].content
      BY DEF IInv, TypeOK, Request
  <1> HIDE DEF q
  <1>7. Asking'
      BY <1>4 DEF HistoryInv, Asking
  <1>8. AnswersMatchRevisions'
    <2>1. ASSUME NEW s \in Requests, req'[s].outcome = "ok"
          PROVE  /\ req'[s].version \in DOMAIN revs'
                 /\ LET rev == revs'[req'[s].version]
                    IN  /\ rev.checksum = req'[s].content
                        /\ rev.user = req'[s].user
                        /\ rev.by = req'[s].kind
      <3>1. CASE s = r
        <4>1. req'[s] = q
            BY <1>4, <3>1
        <4>2. revs'[n + 1] = new /\ n + 1 \in DOMAIN revs'
            BY <1>2, <1>3
        <4>3. /\ new.checksum = q.content /\ new.user = q.user /\ new.by = q.kind
            BY <1>1, <1>6
        <4> QED
            BY <1>6, <4>1, <4>2, <4>3
      <3>2. CASE s # r
        <4>1. req'[s] = req[s] /\ req[s].outcome = "ok"
            BY <1>4, <2>1, <3>2
        <4>2. /\ req[s].version \in 1 .. n
              /\ revs[req[s].version].checksum = req[s].content
              /\ revs[req[s].version].user = req[s].user
              /\ revs[req[s].version].by = req[s].kind
            BY <1>2, <4>1 DEF HistoryInv, AnswersMatchRevisions
        <4>3. revs'[req[s].version] = revs[req[s].version]
              /\ req[s].version \in 1 .. n + 1
            BY <1>2, <1>3, <4>2
        <4> QED
            BY <1>3, <4>1, <4>2, <4>3
      <3> QED
          BY <3>1, <3>2
    <2>2. ASSUME NEW i \in DOMAIN revs', i > 1
          PROVE  \E s \in Requests :
                    /\ req'[s].outcome = "ok" /\ req'[s].version = i
                    /\ \A z \in Requests \ {s} :
                          ~(req'[z].outcome = "ok" /\ req'[z].version = i)
      <3>1. CASE i = n + 1
        <4>1. \A z \in Requests \ {r} : req[z].outcome = "ok" => req[z].version \in 1 .. n
            BY <1>2 DEF HistoryInv, AnswersMatchRevisions
        <4>2. \A z \in Requests \ {r} : ~(req'[z].outcome = "ok" /\ req'[z].version = i)
            BY <1>2, <1>4, <3>1, <4>1
        <4> QED
            BY <1>4, <1>6, <3>1, <4>2
      <3>2. CASE i # n + 1
        <4>1. i \in 1 .. n
            BY <1>2, <1>3, <3>2
        <4>2. PICK s \in Requests :
                 /\ req[s].outcome = "ok" /\ req[s].version = i
                 /\ \A z \in Requests \ {s} : ~(req[z].outcome = "ok" /\ req[z].version = i)
            BY <1>2, <2>2, <4>1 DEF HistoryInv, AnswersMatchRevisions
        <4>3. s # r
            BY <1>5, <4>2
        <4> QED
            BY <1>4, <1>6, <3>2, <4>2, <4>3
      <3> QED
          BY <3>1, <3>2
    <2> QED
        BY <2>1, <2>2 DEF AnswersMatchRevisions
  <1>9. BurstGroupsAreContiguous'
    <2> SUFFICES ASSUME NEW i \in 1 .. n + 1, revs'[i].group # 0
                 PROVE  /\ 1 < revs'[i].group /\ revs'[i].group < i
                        /\ revs'[revs'[i].group].group = 0
                        /\ \A j \in revs'[i].group + 1 .. i : revs'[j].group = revs'[i].group
                        /\ \A j \in revs'[i].group .. i : /\ revs'[j].user = revs'[i].user
                                                          /\ revs'[j].source = revs'[i].source
        BY <1>3 DEF BurstGroupsAreContiguous
    <2>1. \A k \in 1 .. n : revs[k].group # 0 =>
             /\ revs[k].group \in Nat
             /\ 1 < revs[k].group /\ revs[k].group < k
             /\ revs[revs[k].group].group = 0
             /\ \A j \in revs[k].group + 1 .. k : revs[j].group = revs[k].group
             /\ \A j \in revs[k].group .. k : /\ revs[j].user = revs[k].user
                                              /\ revs[j].source = revs[k].source
      <3>1. ASSUME NEW k \in 1 .. n
            PROVE  revs[k].group \in Nat
        <4>1. revs[k] \in Revision
            BY <1>2
        <4> QED
            BY <4>1 DEF Revision
      <3> QED
          BY <1>2, <3>1 DEF HistoryInv, BurstGroupsAreContiguous
    <2>2. CASE i \in 1 .. n
      <3>1. \A j \in 1 .. i : revs'[j] = revs[j]
          BY <1>2, <1>3, <2>2
      <3>2. revs[i].group # 0
          BY <2>2, <3>1
      <3>3. revs[i].group \in 1 .. i
          BY <2>1, <2>2, <3>2
      <3> QED
          BY <2>1, <2>2, <3>1, <3>2, <3>3
    <2>3. CASE i = n + 1 /\ revs[n].group # 0
      <3>1. /\ group = revs[n].group /\ n \in 1 .. n
            /\ revs[n].user = new.user /\ revs[n].source = new.source
          BY <1>1, <1>2, <1>3, <2>3
      <3>2. group \in 1 .. n
          BY <1>2, <2>1, <2>3, <3>1
      <3>3. \A j \in group .. n + 1 : j \in 1 .. n \/ j = n + 1
          BY <1>2, <3>2
      <3> HIDE DEF n
      <3> QED
          BY <1>1, <1>2, <1>3, <2>1, <2>3, <3>1, <3>2, <3>3
    <2>4. CASE i = n + 1 /\ revs[n].group = 0
      <3>1. /\ group = n /\ n > 1
            /\ revs[n].user = new.user /\ revs[n].source = new.source
          BY <1>1, <1>2, <1>3, <2>4
      <3> HIDE DEF n
      <3>2. \A j \in n .. n + 1 : j = n \/ j = n + 1
          BY <1>2
      <3> QED
          BY <1>1, <1>2, <1>3, <2>4, <3>1, <3>2
    <2> QED
        BY <1>2, <2>2, <2>3, <2>4
  <1> QED
      BY <1>7, <1>8, <1>9 DEF HistoryInv
LEMMA MarkRelabels ==
    ASSUME IInv, MarkRevision
    PROVE  Relabelled /\ UNCHANGED <<row, role, comments, lock, pc, req>>
  <1>1. PICK j \in DOMAIN revs, m \in BOOLEAN :
           revs' = [revs EXCEPT ![j].marked = m]
      BY DEF MarkRevision
  <1>2. ASSUME NEW i \in DOMAIN revs
        PROVE  /\ revs'[i].checksum = revs[i].checksum
               /\ revs'[i].by = revs[i].by
               /\ revs'[i].user = revs[i].user
               /\ revs'[i].source = revs[i].source
               /\ revs'[i].group = revs[i].group
    <2>1. revs[i] \in Revision
        BY DEF IInv, TypeOK
    <2>2. revs'[i] = IF i = j THEN [revs[j] EXCEPT !.marked = m] ELSE revs[i]
        BY <1>1
    <2> QED
        BY <2>1, <2>2 DEF Revision
  <1>3. DOMAIN revs' = DOMAIN revs
      BY <1>1
  <1>4. UNCHANGED <<row, role, comments, lock, pc, req>>
      BY DEF MarkRevision
  <1> QED
      BY <1>2, <1>3, <1>4 DEF Relabelled

LEMMA HistoryStep == IInv /\ HistoryInv /\ [Next]_vars => HistoryInv'
  <1> SUFFICES ASSUME IInv, HistoryInv, [Next]_vars PROVE HistoryInv'
      OBVIOUS
  <1>1. ASSUME NEW r \in Requests, Proceeds(r) \/ Refuses(r),
               req[r].outcome = "none", UNCHANGED revs
        PROVE  HistoryInv'
    <2>1. CASE Proceeds(r)
      <3>1. PICK p \in PCs \ {"idle", "done"}, q \in Request :
              /\ pc' = [pc EXCEPT ![r] = p] /\ req' = [req EXCEPT ![r] = q]
              /\ q.outcome = "none"
              /\ p = "body" /\ q.kind \in {"append", "promote", "delete", "agent_delete"}
                   => q.base = 0
          BY <2>1 DEF Proceeds
      <3> QED
          BY <1>1, <3>1, UntoldInv
    <2>2. CASE Refuses(r)
      <3>1. PICK o \in Outcomes \ {"none", "ok", "deleted"} : Answer(r, o)
          BY <2>2 DEF Refuses
      <3> DEFINE q == [req[r] EXCEPT !.outcome = o]
      <3>2. pc' = [pc EXCEPT ![r] = "done"] /\ req' = [req EXCEPT ![r] = q]
            /\ q.outcome = o
          BY <3>1 DEF Answer, Goto, IInv, TypeOK, Request
      <3> HIDE DEF q
      <3> QED
          BY <1>1, <3>1, <3>2, UntoldInv
    <2> QED
        BY <1>1, <2>1, <2>2
  <1>2. ASSUME NEW r \in Requests, ArriveAny(r)
        PROVE  HistoryInv'
      BY <1>1, <1>2, ArriveAnyProceeds DEF HistoryInv, Unchanged
  <1>3. ASSUME NEW r \in Requests, Handle(r)
        PROVE  HistoryInv'
    <2>1. CASE TxCommit(r)
        BY <2>1, CommitInv
    <2>2. CASE TxDelete(r)
      <3> DEFINE q == [req[r] EXCEPT !.outcome = "deleted"]
      <3>1. pc' = [pc EXCEPT ![r] = "done"] /\ req' = [req EXCEPT ![r] = q]
            /\ q.outcome = "deleted" /\ UNCHANGED revs /\ pc[r] # "done"
          BY <2>2 DEF TxDelete, Answer, Goto, IInv, TypeOK, Request
      <3>2. req[r].outcome = "none"
          BY <3>1 DEF HistoryInv, Asking
      <3> HIDE DEF q
      <3> QED
          BY <3>1, <3>2, UntoldInv
    <2>3. CASE ~TxCommit(r) /\ ~TxDelete(r)
        BY <1>1, <1>3, <2>3, HandleProceeds DEF HistoryInv
    <2> QED
        BY <2>1, <2>2, <2>3
  <1>4. CASE ChangeRole \/ AddComment \/ ResolveComment \/ UNCHANGED vars
    <2>1. Relabelled /\ UNCHANGED <<pc, req>>
        BY <1>4 DEF ChangeRole, AddComment, ResolveComment, vars, Relabelled
    <2> QED
        BY <2>1, RelabelledInv
  <1>5. CASE MarkRevision
    <2>1. UNCHANGED <<pc, req>> /\ Relabelled
        BY <1>5, MarkRelabels
    <2> QED
        BY <2>1, RelabelledInv
  <1> QED
      BY <1>2, <1>3, <1>4, <1>5 DEF Next, Environment

LEMMA HistoryInit == Init => HistoryInv
  <1> SUFFICES ASSUME Init PROVE HistoryInv
      OBVIOUS
  <1>1. /\ Len(revs) = 1 /\ DOMAIN revs = {1} /\ revs[1].group = 0
        /\ \A r \in Requests : /\ pc[r] = "idle" /\ req[r].outcome = "none"
                               /\ req[r].base = 0 /\ req[r].kind = "put"
      BY DEF Init
  <1>2. Asking
      BY <1>1 DEF Asking
  <1>3. AnswersMatchRevisions
      BY <1>1 DEF AnswersMatchRevisions
  <1>4. BurstGroupsAreContiguous
      BY <1>1 DEF BurstGroupsAreContiguous
  <1> QED
      BY <1>2, <1>3, <1>4 DEF HistoryInv

(* What the answers and the bursts rest on holds in every reachable state. *)
THEOREM HistoryInvariant == Spec => []HistoryInv
  BY HistoryInit, HistoryStep, InductiveInvariant, PTL DEF Spec

(* A request is told "ok" exactly for the revision it inserted, and every  *)
(* revision was told to exactly one request: a client never repeats a      *)
(* write that took place, or misses that it did.                           *)
THEOREM AnswersAreTrue == Spec => []AnswersMatchRevisions
  <1>1. HistoryInv => AnswersMatchRevisions
      BY DEF HistoryInv
  <1> QED
      BY <1>1, HistoryInvariant, PTL

(* A group of quick saves is a contiguous run of one user from one source. *)
THEOREM BurstsAreContiguous == Spec => []BurstGroupsAreContiguous
  <1>1. HistoryInv => BurstGroupsAreContiguous
      BY DEF HistoryInv
  <1> QED
      BY <1>1, HistoryInvariant, PTL
(***************************************************************************)
(* The write path implements VersionedDocument: the initial states map to  *)
(* initial states, and every step to a step or a stutter.                  *)
(***************************************************************************)
Hist == [i \in DOMAIN revs |-> revs[i].checksum]
Wants == [r \in Requests |-> Want(req[r])]
Answers == [r \in Requests |-> Told(r)]

LEMMA APIVars ==
    /\ API!vars = <<Hist, row.live, Wants, Answers>>
    /\ API!vars' = <<Hist', row.live', Wants', Answers'>>
  BY DEF API!vars, Hist, Wants, Answers, Want

LEMMA RefineInit == Init => API!Init
  <1> SUFFICES ASSUME Init PROVE API!Init
      OBVIOUS
  <1>1. PICK c \in Contents, u \in Users :
          /\ row = [live |-> TRUE, current |-> 1, checksum |-> c, status |-> c.status]
          /\ revs = <<[number |-> 1, checksum |-> c, user |-> u,
                       source |-> "web_app", group |-> 0, marked |-> FALSE,
                       by |-> "create", base |-> AnyVersion, seen |-> 0,
                       optIn |-> FALSE, openComments |-> FALSE]>>
          /\ req = [r \in Requests |->
                      [kind |-> "put", user |-> u, base |-> 0, content |-> c,
                       allowDraft |-> FALSE, allow |-> FALSE, seen |-> 0,
                       max |-> 0, outcome |-> "none", version |-> 0]]
      BY DEF Init
  <1>2. [i \in DOMAIN revs |-> revs[i].checksum] = <<c>> /\ row.live = TRUE
      BY <1>1
  <1>3. \A r \in Requests : req[r].outcome = "none" /\ req[r].base = 0 /\ req[r].kind = "put"
      BY <1>1
  <1>4. [r \in Requests |-> IF req[r].kind = "restore" THEN AnyVersion ELSE req[r].base]
          = [r \in Requests |-> 0]
      BY <1>3
  <1>5. [r \in Requests |-> Told(r)] = [r \in Requests |-> <<"none", 0>>]
      BY <1>3 DEF Told
  <1> QED
      BY <1>1, <1>2, <1>4, <1>5 DEF API!Init, API!Unsaid, API!NoAnswer

(* A step that clients do not see.                                         *)
LEMMA Stutters ==
    ASSUME row.live' = row.live, Hist' = Hist, UNCHANGED req
    PROVE  UNCHANGED API!vars
  <1>1. Wants' = Wants /\ Answers' = Answers
      BY DEF Wants, Answers, Told, Want
  <1> QED
      BY <1>1, APIVars

LEMMA ProceedsRefines ==
    ASSUME IInv, NEW r \in Requests, Proceeds(r), req[r].outcome = "none",
           UNCHANGED <<row, revs>>
    PROVE  [API!Next]_API!vars
  <1>1. PICK q \in Request :
          /\ req' = [req EXCEPT ![r] = q] /\ q.outcome = "none"
          /\ \/ Want(q) = Want(req[r])
             \/ Want(req[r]) = 0 /\ Want(q) \in DOMAIN revs \cup {AnyVersion}
      BY DEF Proceeds
  <1>2. \A s \in Requests : req'[s] = IF s = r THEN q ELSE req[s]
      BY <1>1 DEF IInv, TypeOK
  <1>3. Hist' = Hist /\ row.live' = row.live
      BY DEF Hist
  <1>4. Answers' = Answers
      BY <1>1, <1>2 DEF Answers, Told
  <1>5. Wants' = [Wants EXCEPT ![r] = Want(q)]
      BY <1>2 DEF Wants, Want
  <1>6. CASE Want(q) = Want(req[r])
    <2>1. Wants' = Wants
        BY <1>5, <1>6 DEF Wants
    <2> QED
        BY <1>3, <1>4, <2>1, APIVars
  <1>7. CASE Want(req[r]) = 0 /\ Want(q) \in DOMAIN revs \cup {AnyVersion}
    <2>1. Wants[r] = 0 /\ Answers[r] = <<"none", 0>> /\ DOMAIN Hist = DOMAIN revs
        BY <1>7 DEF Wants, Answers, Told, Hist
    <2>2. \E base \in DOMAIN Hist \cup {AnyVersion} : Wants' = [Wants EXCEPT ![r] = base]
        BY <1>5, <1>7, <2>1
    <2>3. API!Ask(r)
        BY <1>3, <1>4, <2>1, <2>2
        DEF API!Ask, API!Unsaid, API!NoAnswer, Hist, Wants, Want, Answers
    <2> QED
        BY <2>3 DEF API!Next
  <1> QED
      BY <1>1, <1>6, <1>7

(* The state a client is told of when a request ends.                      *)
LEMMA ToldOnce ==
    ASSUME IInv, NEW r \in Requests, NEW q, req' = [req EXCEPT ![r] = q],
           q.kind = req[r].kind, q.base = req[r].base, req[r].outcome = "none"
    PROVE  /\ Wants' = Wants /\ Answers[r] = API!NoAnswer
           /\ Answers' = [Answers EXCEPT ![r] = Told(r)']
  <1>1. \A s \in Requests : req'[s] = IF s = r THEN q ELSE req[s]
      BY DEF IInv, TypeOK
  <1>2. Wants' = Wants
      BY <1>1 DEF Wants, Want
  <1>3. \A s \in Requests \ {r} : Told(s)' = Told(s)
      BY <1>1 DEF Told
  <1>4. Answers' = [Answers EXCEPT ![r] = Told(r)']
      BY <1>3 DEF Answers
  <1>5. Answers[r] = API!NoAnswer
      BY DEF Answers, Told, API!NoAnswer
  <1> QED
      BY <1>2, <1>4, <1>5

LEMMA AnswerRefines ==
    ASSUME IInv, NEW r \in Requests, NEW o \in Outcomes, Answer(r, o), o # "none", o # "ok",
           req[r].outcome = "none", UNCHANGED revs,
           o = "deleted" => row.live /\ row.live' = FALSE,
           o # "deleted" => row.live' = row.live,
           o = "conflict" => Want(req[r]) \in DOMAIN revs \ {Len(revs)}
    PROVE  API!Next
  <1> DEFINE q == [req[r] EXCEPT !.outcome = o]
  <1>1. req' = [req EXCEPT ![r] = q] /\ q.kind = req[r].kind /\ q.base = req[r].base
        /\ q.outcome = o /\ req'[r] = q
      BY DEF Answer, IInv, TypeOK, Request
  <1> HIDE DEF q
  <1>2. /\ Wants' = Wants /\ Answers[r] = API!NoAnswer
        /\ Answers' = [Answers EXCEPT ![r] = Told(r)']
      BY <1>1, ToldOnce
  <1>3. Hist' = Hist /\ DOMAIN Hist = DOMAIN revs
      BY DEF Hist
  <1>4. Len(Hist) = Len(revs)
      BY <1>3, HeadFacts DEF Hist, Current
  <1> USE DEF API!Tell
  <1>5. CASE o = "noop"
    <2>1. Told(r)' = <<"kept", 0>>
        BY <1>1, <1>5 DEF Told
    <2>2. API!Keep(r)
        BY <1>2, <1>3, <1>5, <2>1 DEF API!Keep, Hist, Wants, Want, Answers
    <2> QED
        BY <2>2 DEF API!Next
  <1>6. CASE o = "conflict"
    <2>1. Told(r)' = <<"conflict", 0>>
        BY <1>1, <1>6 DEF Told
    <2>2. Wants[r] \in DOMAIN Hist \ {Len(Hist)}
        BY <1>3, <1>4, <1>6 DEF Wants
    <2>3. API!Conflict(r)
        BY <1>2, <1>3, <1>6, <2>1, <2>2 DEF API!Conflict, Hist, Wants, Want, Answers
    <2> QED
        BY <2>3 DEF API!Next
  <1>7. CASE o = "deleted"
    <2>1. Told(r)' = <<"deleted", 0>>
        BY <1>1, <1>7 DEF Told
    <2>2. API!Delete(r)
        BY <1>2, <1>3, <1>7, <2>1 DEF API!Delete, Hist, Wants, Want, Answers
    <2> QED
        BY <2>2 DEF API!Next
  <1>8. CASE o \notin {"noop", "conflict", "deleted"}
    <2>1. Told(r)' = <<"refused", 0>>
        BY <1>1, <1>8 DEF Told
    <2>2. API!Refuse(r)
        BY <1>2, <1>3, <1>8, <2>1 DEF API!Refuse, Hist, Wants, Want, Answers
    <2> QED
        BY <2>2 DEF API!Next
  <1> QED
      BY <1>5, <1>6, <1>7, <1>8

LEMMA CommitRefines ==
    ASSUME IInv, HistoryInv, NEW r \in Requests, TxCommit(r)
    PROVE  API!Next
  <1> DEFINE n == Len(revs)
             q == [req[r] EXCEPT !.outcome = "ok", !.version = n + 1]
  <1>1. PICK new \in Revision : revs' = Append(revs, new)
      BY CommitFacts DEF HistoryInv
  <1>2. n \in Nat /\ n >= 1 /\ DOMAIN revs = 1 .. n /\ revs \in Seq(Revision)
      BY HeadFacts DEF IInv, TypeOK, Current
  <1>3. /\ DOMAIN revs' = 1 .. n + 1 /\ revs'[n + 1] = new
        /\ \A i \in 1 .. n : revs'[i] = revs[i]
      BY <1>1, <1>2
  <1>4. pc[r] = "commit" /\ req[r].kind \in AllKinds \ {"delete", "agent_delete"}
      BY DEF TxCommit, IInv, TypeOK, Request
  <1>5. /\ req' = [req EXCEPT ![r] = q] /\ req'[r] = q
        /\ q.kind = req[r].kind /\ q.base = req[r].base
        /\ q.outcome = "ok" /\ q.version = n + 1
      BY DEF TxCommit, IInv, TypeOK, Request
  <1>6. req[r].outcome = "none"
      BY <1>4 DEF HistoryInv, Asking
  <1> HIDE DEF q
  <1>7. /\ Wants' = Wants /\ Answers[r] = API!NoAnswer
        /\ Answers' = [Answers EXCEPT ![r] = Told(r)']
      BY <1>5, <1>6, ToldOnce
  <1>8. Told(r)' = <<"saved", n + 1>>
      BY <1>5 DEF Told
  <1>9. new.checksum \in Contents
      BY DEF Revision
  <1>10. Len(Hist) = n /\ Hist' = Append(Hist, new.checksum)
    <2>1. Hist = [i \in 1 .. n |-> revs[i].checksum]
        BY <1>2 DEF Hist
    <2>2. Hist' = [i \in 1 .. n + 1 |-> revs'[i].checksum]
        BY <1>3 DEF Hist
    <2> HIDE DEF n
    <2>3. Len(Hist) = n
        BY <1>2, <2>1
    <2>4. Append(Hist, new.checksum)
            = [i \in 1 .. n + 1 |-> IF i = n + 1 THEN new.checksum ELSE Hist[i]]
        BY <1>2, <2>1, <2>3
    <2>5. \A i \in 1 .. n + 1 :
            revs'[i].checksum = IF i = n + 1 THEN new.checksum ELSE Hist[i]
        BY <1>2, <1>3, <2>1
    <2> QED
        BY <2>2, <2>3, <2>4, <2>5
  <1>11. Wants[r] \in {Len(Hist), AnyVersion}
    <2>1. req[r].kind \in ByWrite \cup {"restore"}
        BY <1>4 DEF ByWrite
    <2>2. req[r].kind \in ByWrite => req[r].base = n
        BY <1>4 DEF IInv, LockProtects
    <2> QED
        BY <1>10, <2>1, <2>2 DEF Wants, Want
  <1>12. row.live /\ row.live' = row.live
    <2>1. row.live
        BY <1>4 DEF IInv, LockProtects
    <2> QED
        BY <2>1 DEF TxCommit, RowPointingToNewest, IInv, TypeOK, Row
  <1>13. API!Save(r)
      BY <1>7, <1>8, <1>9, <1>10, <1>11, <1>12
      DEF API!Save, API!Tell, Hist, Wants, Want, Answers
  <1> QED
      BY <1>13 DEF API!Next

LEMMA RefineStep == IInv /\ HistoryInv /\ [Next]_vars => [API!Next]_API!vars
  <1> SUFFICES ASSUME IInv, HistoryInv, [Next]_vars PROVE [API!Next]_API!vars
      OBVIOUS
  <1>1. ASSUME NEW r \in Requests, Refuses(r), req[r].outcome = "none", UNCHANGED <<row, revs>>
        PROVE  [API!Next]_API!vars
    <2>1. PICK o \in Outcomes \ {"none", "ok", "deleted"} :
            /\ Answer(r, o)
            /\ o = "conflict" => Want(req[r]) \in DOMAIN revs \ {Len(revs)}
        BY <1>1 DEF Refuses
    <2> QED
        BY <1>1, <2>1, AnswerRefines
  <1>2. ASSUME NEW r \in Requests, ArriveAny(r)
        PROVE  [API!Next]_API!vars
      BY <1>2, ArriveAnyProceeds, ProceedsRefines DEF HistoryInv, Unchanged
  <1>3. ASSUME NEW r \in Requests, Handle(r)
        PROVE  [API!Next]_API!vars
    <2>1. CASE TxCommit(r)
        BY <2>1, CommitRefines
    <2>2. CASE TxDelete(r)
      <3>1. Answer(r, "deleted") /\ UNCHANGED revs /\ pc[r] = "commit"
            /\ row' = [row EXCEPT !.live = FALSE]
          BY <2>2 DEF TxDelete
      <3>2. row.live /\ row.live' = FALSE
          BY <3>1 DEF IInv, TypeOK, Row, LockProtects
      <3>3. req[r].outcome = "none"
          BY <3>1 DEF HistoryInv, Asking
      <3> QED
          BY <3>1, <3>2, <3>3, AnswerRefines DEF Outcomes
    <2>3. CASE ~TxCommit(r) /\ ~TxDelete(r)
      <3>1. /\ Proceeds(r) \/ Refuses(r)
            /\ req[r].outcome = "none" /\ UNCHANGED <<row, revs>>
          BY <1>3, <2>3, HandleProceeds DEF HistoryInv
      <3> QED
          BY <1>1, <3>1, ProceedsRefines
    <2> QED
        BY <2>1, <2>2, <2>3
  <1>4. CASE ChangeRole \/ AddComment \/ ResolveComment \/ UNCHANGED vars
    <2>1. UNCHANGED <<row, revs, req>>
        BY <1>4 DEF ChangeRole, AddComment, ResolveComment, vars
    <2> QED
        BY <2>1, Stutters DEF Hist
  <1>5. CASE MarkRevision
    <2>1. UNCHANGED <<row, req>> /\ Relabelled
        BY <1>5, MarkRelabels
    <2>2. Hist' = Hist
        BY <2>1 DEF Hist, Relabelled
    <2> QED
        BY <2>1, <2>2, Stutters
  <1> QED
      BY <1>2, <1>3, <1>4, <1>5 DEF Next, Environment

(* The write path implements the versioned document its clients rely on:   *)
(* an append-only list of versions, each replacing the one its client      *)
(* named, and a conflict only for a version that is not the last.          *)
THEOREM Refinement == Spec => ImplementsVersionedDocument
  BY RefineInit, RefineStep, InductiveInvariant, HistoryInvariant, PTL
  DEF Spec, API!Spec, ImplementsVersionedDocument
=============================================================================
