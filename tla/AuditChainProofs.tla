-------------------------- MODULE AuditChainProofs --------------------------
(***************************************************************************)
(* Proofs about AuditChain: a verification raises no alarm without one of  *)
(* the reasons that AlarmIsExplained names.  And about an instance Pages   *)
(* of Timelines: a list read in pages shows all that was there all along.  *)
(***************************************************************************)
EXTENDS AuditChain, SequencesExt, FiniteSetTheorems, TLAPS

(***************************************************************************)
(* Sets of events, their greatest, and what a hash says of them.           *)
(***************************************************************************)
LEMMA EventsAreFinite ==
    ASSUME NEW S \in SUBSET Events
    PROVE  IsFiniteSet(S) /\ Cardinality(S) \in Nat /\ S \subseteq Nat
  <1>1. IsFiniteSet(Events) /\ Events \subseteq Nat
      BY FS_Interval, BoundsAssumption DEF Events
  <1>2. IsFiniteSet(S)
      BY <1>1, FS_Subset
  <1> QED
      BY <1>1, <1>2, FS_CardinalityType

LEMMA FewerEvents ==
    ASSUME NEW S \in SUBSET Events, NEW T \in SUBSET S
    PROVE  Cardinality(T) <= Cardinality(S) /\ (Cardinality(T) = Cardinality(S) => T = S)
  <1>1. IsFiniteSet(S)
      BY EventsAreFinite
  <1> QED
      BY <1>1, FS_Subset

LEMMA SomeEvents ==
    ASSUME NEW S \in SUBSET Events
    PROVE  Cardinality(S) = 0 <=> S = {}
  <1>1. IsFiniteSet(S)
      BY EventsAreFinite
  <1> QED
      BY <1>1, FS_EmptySet

(* A greatest event is one after which the rest of the set is least.       *)
LEMMA GreatestIs ==
    ASSUME NEW S \in SUBSET Events, S # {}
    PROVE  Greatest(S) \in S /\ \A f \in S : f <= Greatest(S)
  <1> DEFINE From(e) == {f \in S : e <= f}
             Tails == {From(e) : e \in S}
  <1>1. S \subseteq Nat /\ IsFiniteSet(S)
      BY EventsAreFinite
  <1>2. \A e \in S : From(e) \in FiniteSubsetsOf(S)
    <2>1. \A e \in S : From(e) \subseteq S /\ IsFiniteSet(From(e))
        BY <1>1, FS_Subset
    <2> QED
        BY <2>1 DEF FiniteSubsetsOf
  <1>3. Tails \subseteq FiniteSubsetsOf(S) /\ Tails # {}
      BY <1>2
  <1>4. IsWellFoundedOn(StrictSubsetOrdering(S), FiniteSubsetsOf(S))
      BY FS_StrictSubsetOrderingWellFounded
  <1> HIDE DEF Tails
  <1>5. PICK A \in Tails : \A B \in Tails : ~ (<<B, A>> \in StrictSubsetOrdering(S))
      BY <1>3, <1>4, WFMin
  <1>6. PICK e \in S : A = From(e)
      BY DEF Tails
  <1>7. ASSUME NEW f \in S, e < f
        PROVE  FALSE
    <2>1. e \in Nat /\ f \in Nat /\ S \subseteq Nat
        BY <1>1
    <2>2. \A x \in Nat : f <= x => e <= x
        BY <1>7, <2>1
    <2>3. e \in From(e) /\ e \notin From(f)
        BY <1>7, <2>1
    <2>4. From(f) \subseteq From(e) /\ From(e) \subseteq S
        BY <2>1, <2>2
    <2> HIDE DEF From
    <2>5. <<From(f), From(e)>> \in StrictSubsetOrdering(S)
        BY <2>3, <2>4 DEF StrictSubsetOrdering
    <2> QED
        BY <1>5, <1>6, <2>5 DEF Tails
  <1>8. \A f \in S : f <= e
      BY <1>1, <1>7
  <1> HIDE DEF From
  <1> QED
      BY <1>8 DEF Greatest

LEMMA EndsOnce ==
    ASSUME NEW hash, NEW i \in Nat, NEW j \in Nat, EndsAt(hash, i), EndsAt(hash, j)
    PROVE  i = j
  BY DEF EndsAt

LEMMA SealOfContent ==
    ASSUME NEW S \in SUBSET Events, TypeOK
    PROVE  EventsOf(Content(S)) = S /\ Content(S) \in Seal
  <1>1. \A e \in S : e \in Events /\ event[e].changed \in {TRUE, FALSE}
      BY DEF TypeOK, Event
  <1>2. \A e : <<e, TRUE>> \in Content(S) \/ <<e, FALSE>> \in Content(S) => e \in S
      BY DEF Content
  <1>3. ASSUME NEW e \in S
        PROVE  <<e, TRUE>> \in Content(S) \/ <<e, FALSE>> \in Content(S)
    <2>1. <<e, event[e].changed>> \in Content(S)
        BY DEF Content
    <2> QED
        BY <1>1, <2>1
  <1>4. ASSUME NEW x \in Content(S)
        PROVE  x \in Events \X BOOLEAN
    <2>1. PICK e \in S : x = <<e, event[e].changed>>
        BY DEF Content
    <2> QED
        BY <1>1, <2>1
  <1> QED
      BY <1>2, <1>3, <1>4 DEF EventsOf, Seal

LEMMA LastOfAppend ==
    ASSUME NEW h \in Seq(Seal), NEW c \in Seal
    PROVE  /\ Append(h, c) \in Seq(Seal) /\ Append(h, c) # << >>
           /\ LastSeal(Append(h, c)) = c
  BY DEF LastSeal

(***************************************************************************)
(* The invariant.                                                          *)
(***************************************************************************)
LEMMA InitChain == Init => ChainInv
  <1> SUFFICES ASSUME Init PROVE ChainInv
      OBVIOUS
  <1> USE DEF Init
  <1>1. TypeOK
    <2>1. IdleSealer \in [pc : {"idle", "events", "create"}, lower : 0..MaxEvents,
                          prevHash : Seq(Seal), events : SUBSET Events, seal : Seal]
        BY BoundsAssumption DEF IdleSealer, Seal
    <2>2. Rests("idle") \in [pc : {"idle", "walking", "ok", "broken"}, total : Nat, at : Nat,
                             lower : 0..MaxEvents, prevHash : Seq(Seal),
                             inPrunablePrefix : BOOLEAN, disturbed : BOOLEAN]
        BY BoundsAssumption DEF Rests
    <2>3. cps \in Seq(Checkpoint) /\ event \in [Events -> Event]
        BY DEF Event
    <2> QED
        BY <2>1, <2>2, <2>3 DEF TypeOK, IdleSealer
  <1>2. Len(cps) = 0
      OBVIOUS
  <1>3. Forward /\ VerifierOK
      BY <1>2 DEF Forward, VerifierOK, Rests
  <1>4. \A s \in Sealers : SealerOK(sealer[s], Known, Changed)
      BY DEF SealerOK, IdleSealer
  <1> QED
      BY <1>1, <1>2, <1>3, <1>4 DEF ChainInv

(* What was sealed stays sealed, and what was changed changed.             *)
LEMMA SealStays ==
    ASSUME NEW known, NEW known2, NEW changed, NEW changed2,
           known \subseteq known2, known \cap changed \subseteq changed2
    PROVE  /\ \A c : CheckpointOK(c, known, changed) => CheckpointOK(c, known2, changed2)
           /\ \A q : SealerOK(q, known, changed) => SealerOK(q, known2, changed2)
  <1>1. \A seal : SealTrue(seal, known, changed) => SealTrue(seal, known2, changed2)
      BY DEF SealTrue
  <1> QED
      BY <1>1 DEF CheckpointOK, SealerOK

(* The rows of events change, the checkpoints do not.                      *)
LEMMA RowsSteps ==
    ASSUME ChainInv, NEW e \in Events, NEW w, NEW cutoff,
           \/ w \in Workspaces \cup {"none"} /\ WriteEvent(e, w)
           \/ CommitEvent(e) \/ Anonymize(e)
           \/ PruneWorkspace(w, cutoff)
    PROVE  ChainInv'
  <1>1. TypeOK /\ cps' = cps /\ sealer' = sealer /\ event \in [Events -> Event]
      BY DEF ChainInv, TypeOK, WriteEvent, CommitEvent, Anonymize, PruneWorkspace
  <1> DEFINE old == {f \in Events : Stored(f) /\ event[f].ws = w /\ f < cutoff}
  <1>2. CASE PruneWorkspace(w, cutoff)
    <2>1. /\ event' = [f \in Events |->
                         IF f \in old THEN [event[f] EXCEPT !.state = "none"] ELSE event[f]]
          /\ pruned' = pruned \cup old
          /\ verifier' = [verifier EXCEPT !.disturbed = @ \/ verifier.pc = "walking"]
        BY <1>2 DEF PruneWorkspace
    <2>2. \A f \in Events : [event[f] EXCEPT !.state = "none"] \in Event
                            /\ [event[f] EXCEPT !.state = "none"].changed = event[f].changed
        BY <1>1 DEF Event
    <2>3. event' \in [Events -> Event] /\ \A f \in Events : event'[f].changed = event[f].changed
        BY <1>1, <2>1, <2>2
    <2>4. Known \subseteq Known' /\ Changed \subseteq Changed'
      <3>1. ASSUME NEW f \in Known
            PROVE  f \in Known'
        <4>1. CASE f \in old
            BY <2>1, <3>1, <4>1 DEF Known
        <4>2. CASE f \notin old
          <5>1. event'[f] = event[f]
              BY <2>1, <3>1, <4>2 DEF Known
          <5> QED
              BY <2>1, <3>1, <5>1 DEF Known, Stored
        <4> QED
            BY <4>1, <4>2
      <3>2. Changed \subseteq Changed'
          BY <2>3 DEF Changed
      <3> QED
          BY <3>1, <3>2
    <2>5. TypeOK'
      <3>1. pruned' \subseteq Events
          BY <1>1, <2>1 DEF TypeOK
      <3>2. (verifier.pc = "walking") \in BOOLEAN /\ verifier.disturbed \in BOOLEAN
          BY <1>1 DEF TypeOK
      <3> QED
          BY <1>1, <2>1, <2>3, <3>1, <3>2 DEF TypeOK
    <2>6. VerifierOK'
      <3>1. verifier.pc = "walking" => verifier'.disturbed
          BY <1>1, <2>1 DEF TypeOK
      <3> QED
          BY <1>1, <2>1, <3>1 DEF ChainInv, TypeOK, VerifierOK
    <2>7. Forward'
        BY <1>1 DEF ChainInv, Forward, Linked
    <2> QED
        BY <1>1, <2>4, <2>5, <2>6, <2>7, SealStays DEF ChainInv
  <1>3. CASE (w \in Workspaces \cup {"none"} /\ WriteEvent(e, w)) \/ CommitEvent(e) \/ Anonymize(e)
    <2>1. verifier' = verifier /\ pruned' = pruned
        BY <1>3 DEF WriteEvent, CommitEvent, Anonymize
    <2>2. /\ event' \in [Events -> Event]
          /\ \A f \in Events : Stored(f) => Stored(f)'
          /\ \A f \in Known : event[f].changed => event'[f].changed
          /\ \A f \in Events : f # e => event'[f] = event[f]
      <3>1. CASE w \in Workspaces \cup {"none"} /\ WriteEvent(e, w)
        <4> DEFINE row == [state |-> IF "late" \in Ops THEN "open" ELSE "stored",
                           ws |-> w, changed |-> FALSE]
        <4>1. row \in Event /\ event' = [event EXCEPT ![e] = row]
            BY <3>1 DEF WriteEvent, Event
        <4> HIDE DEF row
        <4>2. e \notin Known /\ ~Stored(e)
            BY <3>1 DEF WriteEvent, Unwritten, Known, Stored
        <4> QED
            BY <1>1, <4>1, <4>2 DEF Stored, Known
      <3>2. CASE CommitEvent(e)
        <4>1. [event[e] EXCEPT !.state = "stored"] \in Event
              /\ [event[e] EXCEPT !.state = "stored"].changed = event[e].changed
              /\ [event[e] EXCEPT !.state = "stored"].state = "stored"
            BY <1>1 DEF Event
        <4>2. event' = [event EXCEPT ![e] = [event[e] EXCEPT !.state = "stored"]]
            BY <3>2 DEF CommitEvent
        <4> QED
            BY <1>1, <4>1, <4>2 DEF Stored, Known
      <3>3. CASE Anonymize(e)
        <4>1. [event[e] EXCEPT !.changed = TRUE] \in Event
              /\ [event[e] EXCEPT !.changed = TRUE].changed
              /\ [event[e] EXCEPT !.changed = TRUE].state = event[e].state
            BY <1>1 DEF Event
        <4>2. event' = [event EXCEPT ![e] = [event[e] EXCEPT !.changed = TRUE]]
            BY <3>3 DEF Anonymize
        <4> QED
            BY <1>1, <4>1, <4>2 DEF Stored, Known
      <3> QED
          BY <1>3, <3>1, <3>2, <3>3
    <2>3. Known \subseteq Known' /\ Known \cap Changed \subseteq Changed'
        BY <2>1, <2>2 DEF Known, Changed
    <2>4. TypeOK' /\ Forward'
        BY <1>1, <2>1, <2>2 DEF ChainInv, TypeOK, Forward, Linked
    <2>5. VerifierOK'
        BY <1>1, <2>1, <2>2 DEF ChainInv, VerifierOK
    <2> QED
        BY <1>1, <2>2, <2>3, <2>4, <2>5, SealStays DEF ChainInv
  <1> QED
      BY <1>2, <1>3

(* A sealer reads.                                                         *)
LEMMA SealerReads ==
    ASSUME ChainInv, NEW s \in Sealers, ReadLastCheckpoint(s) \/ ReadPending(s)
    PROVE  ChainInv'
  <1>1. UNCHANGED <<event, cps, verifier, pruned>>
      BY DEF ReadLastCheckpoint, ReadPending
  <1> DEFINE Q == [pc : {"idle", "events", "create"}, lower : 0..MaxEvents,
                   prevHash : Seq(Seal), events : SUBSET Events, seal : Seal]
  <1>2. TypeOK /\ sealer \in [Sealers -> Q] /\ cps \in Seq(Checkpoint)
      BY DEF ChainInv, TypeOK
  <1>3. ASSUME NEW q \in Q, sealer' = [sealer EXCEPT ![s] = q],
               q.pc = "create" => q.events # {}, SealerOK(q, Known, Changed)
        PROVE  ChainInv'
    <2>1. TypeOK'
        BY <1>1, <1>2, <1>3 DEF TypeOK
    <2>2. \A k \in Sealers : SealerOK(sealer'[k], Known, Changed)
        BY <1>2, <1>3 DEF ChainInv
    <2>3. Known' = Known /\ Changed' = Changed
        BY <1>1 DEF Known, Changed, Stored
    <2>4. Forward' /\ VerifierOK'
        BY <1>1 DEF ChainInv, Forward, Linked, VerifierOK, Stored
    <2> QED
        BY <1>1, <2>1, <2>2, <2>3, <2>4 DEF ChainInv
  <1>4. CASE ReadLastCheckpoint(s)
    <2> DEFINE q == [sealer[s] EXCEPT !.pc = "events", !.lower = LastThrough, !.prevHash = LastHash]
    <2>1. sealer' = [sealer EXCEPT ![s] = q]
        BY <1>2, <1>4 DEF ReadLastCheckpoint
    <2>2. LastThrough \in 0..MaxEvents /\ LastHash \in Seq(Seal) /\ EndsAt(LastHash, LastThrough)
      <3>1. CASE cps = << >>
          BY <3>1, BoundsAssumption DEF LastThrough, LastHash, EndsAt
      <3>2. CASE cps # << >>
        <4>1. Len(cps) \in 1..Len(cps) /\ cps[Len(cps)] \in Checkpoint
            BY <1>2, <3>2
        <4>2. CheckpointOK(cps[Len(cps)], Known, Changed)
            BY <4>1 DEF ChainInv
        <4>3. EndsAt(cps[Len(cps)].hash, cps[Len(cps)].through)
            BY <4>2 DEF CheckpointOK
        <4> QED
            BY <3>2, <4>1, <4>3, BoundsAssumption DEF LastThrough, LastHash, Checkpoint, Events
      <3> QED
          BY <3>1, <3>2
    <2>3. q \in Q /\ q.pc = "events" /\ q.lower = LastThrough /\ q.prevHash = LastHash
        BY <1>2, <2>2
    <2> HIDE DEF q
    <2>4. SealerOK(q, Known, Changed)
        BY <2>2, <2>3 DEF SealerOK
    <2> QED
        BY <1>3, <2>1, <2>3, <2>4
  <1>5. CASE ReadPending(s)
    <2> DEFINE events == RangeWhere(sealer[s].lower, MaxEvents)
               q == [sealer[s] EXCEPT !.pc = "create", !.events = events, !.seal = Content(events)]
    <2>1. CASE events = {}
      <3>1. sealer' = [sealer EXCEPT ![s] = IdleSealer]
          BY <1>2, <1>5, <2>1 DEF ReadPending
      <3>2. IdleSealer \in Q
          BY BoundsAssumption DEF IdleSealer, Seal
      <3>3. SealerOK(IdleSealer, Known, Changed) /\ IdleSealer.pc # "create"
          BY DEF SealerOK, IdleSealer
      <3> QED
          BY <1>3, <3>1, <3>2, <3>3
    <2>2. CASE events # {}
      <3>1. sealer' = [sealer EXCEPT ![s] = q]
          BY <1>2, <1>5, <2>2 DEF ReadPending
      <3>2. sealer[s].pc = "events" /\ SealerOK(sealer[s], Known, Changed)
          BY <1>5 DEF ReadPending, ChainInv
      <3>3. EndsAt(sealer[s].prevHash, sealer[s].lower)
          BY <3>2 DEF SealerOK
      <3>4. events \in SUBSET Events
          BY DEF RangeWhere
      <3>5. EventsOf(Content(events)) = events /\ Content(events) \in Seal
          BY <1>2, <3>4, SealOfContent
      <3>6. \A e \in events : Stored(e) /\ sealer[s].lower < e /\ e \in Events
          BY DEF RangeWhere
      <3>7. \A e \in events : <<e, TRUE>> \in Content(events) => e \in Changed
          BY <3>4, <1>2 DEF Content, Changed
      <3>8. SealTrue(Content(events), Known, Changed)
          BY <2>2, <3>5, <3>6, <3>7 DEF SealTrue, Known
      <3>9. /\ q \in Q /\ q.pc = "create" /\ q.events = events /\ q.seal = Content(events)
            /\ q.lower = sealer[s].lower /\ q.prevHash = sealer[s].prevHash
          BY <1>2, <3>4, <3>5
      <3> HIDE DEF q, events
      <3>10. SealerOK(q, Known, Changed)
          BY <3>3, <3>5, <3>6, <3>8, <3>9 DEF SealerOK
      <3> QED
          BY <1>3, <2>2, <3>1, <3>9, <3>10
    <2> QED
        BY <2>1, <2>2
  <1> QED
      BY <1>4, <1>5

(* A checkpoint is created.                                                *)
LEMMA CreateStep ==
    ASSUME ChainInv, NEW s \in Sealers, CreateCheckpoint(s)
    PROVE  ChainInv'
  <1> DEFINE Q == [pc : {"idle", "events", "create"}, lower : 0..MaxEvents,
                   prevHash : Seq(Seal), events : SUBSET Events, seal : Seal]
  <1>1. TypeOK /\ sealer \in [Sealers -> Q] /\ cps \in Seq(Checkpoint) /\ Len(cps) \in Nat
      BY DEF ChainInv, TypeOK
  <1>2. PICK q \in Q : q = sealer[s]
      BY <1>1
  <1>3. q.pc = "create" /\ SealerOK(q, Known, Changed) /\ UNCHANGED <<event, verifier, pruned>>
        /\ sealer' = [sealer EXCEPT ![s] = IdleSealer]
      BY <1>2 DEF CreateCheckpoint, ChainInv
  <1>4. /\ EndsAt(q.prevHash, q.lower) /\ SealTrue(q.seal, Known, Changed)
        /\ q.events = EventsOf(q.seal) /\ \A e \in q.events : q.lower < e
      BY <1>3 DEF SealerOK
  <1> DEFINE c == [through |-> Greatest(q.events), count |-> Cardinality(q.events),
                   prevHash |-> q.prevHash, hash |-> Append(q.prevHash, q.seal)]
  <1>5. cps' = Append(cps, c)
      BY <1>2 DEF CreateCheckpoint
  <1>6. /\ q.prevHash \in Seq(Seal) /\ q.seal \in Seal /\ q.events \in SUBSET Events
        /\ q.lower \in 0..MaxEvents /\ q.events # {}
      BY <1>4 DEF SealTrue
  <1>7. /\ Greatest(q.events) \in q.events /\ \A e \in q.events : e <= Greatest(q.events)
        /\ Cardinality(q.events) \in Nat
      BY <1>6, GreatestIs, EventsAreFinite
  <1>8. /\ Append(q.prevHash, q.seal) \in Seq(Seal) /\ Append(q.prevHash, q.seal) # << >>
        /\ LastSeal(Append(q.prevHash, q.seal)) = q.seal
      BY <1>6, LastOfAppend
  <1>9. c \in Checkpoint
      BY <1>6, <1>7, <1>8 DEF Checkpoint
  <1>10. CheckpointOK(c, Known, Changed)
    <2>1. EndsAt(c.hash, c.through)
        BY <1>4, <1>7, <1>8 DEF EndsAt
    <2>2. c.count = Cardinality(EventsOf(LastSeal(c.hash)))
        BY <1>4, <1>8
    <2>3. SealTrue(LastSeal(c.hash), Known, Changed)
        BY <1>4, <1>8
    <2>4. c.hash # << >> /\ c.hash = Append(c.prevHash, LastSeal(c.hash))
        BY <1>8
    <2>5. \E lower \in 0..MaxEvents :
            EndsAt(c.prevHash, lower) /\ \A e \in EventsOf(LastSeal(c.hash)) : lower < e
        BY <1>4, <1>6, <1>8
    <2> HIDE DEF c
    <2> QED
        BY <2>1, <2>2, <2>3, <2>4, <2>5 DEF CheckpointOK
  <1> HIDE DEF c
  <1>11. /\ cps' \in Seq(Checkpoint) /\ Len(cps') = Len(cps) + 1 /\ cps'[Len(cps) + 1] = c
         /\ \A i \in 1..Len(cps) : cps'[i] = cps[i]
      BY <1>1, <1>5, <1>9
  <1>12. Known' = Known /\ Changed' = Changed
      BY <1>3 DEF Known, Changed, Stored
  <1>13. \A i \in 1..Len(cps') : CheckpointOK(cps'[i], Known, Changed)
    <2>1. \A i \in 1..Len(cps') : i \in 1..Len(cps) \/ i = Len(cps) + 1
        BY <1>1, <1>11
    <2> QED
        BY <1>10, <1>11, <2>1 DEF ChainInv
  <1>14. \A k \in Sealers : SealerOK(sealer'[k], Known, Changed)
    <2>1. SealerOK(IdleSealer, Known, Changed)
        BY DEF SealerOK, IdleSealer
    <2> QED
        BY <1>1, <1>3, <2>1 DEF ChainInv
  <1>15. TypeOK'
    <2>1. IdleSealer \in Q /\ IdleSealer.pc = "idle"
        BY BoundsAssumption DEF IdleSealer, Seal
    <2>2. sealer' \in [Sealers -> Q]
        BY <1>1, <1>3, <2>1
    <2>3. \A k \in Sealers : sealer'[k].pc = "create" => sealer'[k].events # {}
        BY <1>1, <1>3, <2>1 DEF TypeOK
    <2> QED
        BY <1>1, <1>3, <1>11, <2>2, <2>3 DEF TypeOK
  <1>16. VerifierOK'
    <2> SUFFICES ASSUME verifier.pc = "walking"
                 PROVE  VerifierOK'
        BY <1>3 DEF VerifierOK
    <2>1. /\ verifier.at \in 1..(verifier.total + 1) /\ verifier.total <= Len(cps)
          /\ verifier.total \in Nat /\ verifier.at \in Nat
        BY <1>1 DEF ChainInv, VerifierOK, TypeOK
    <2>2. \A i \in 1..(verifier.at - 1) : i \in 1..Len(cps) /\ cps'[i] = cps[i]
        BY <1>1, <1>11, <2>1
    <2>3. verifier.at # 1 => cps'[verifier.at - 1] = cps[verifier.at - 1]
        BY <2>1, <2>2
    <2>4. verifier.total <= Len(cps')
        BY <1>1, <1>11, <2>1
    <2>5. ~verifier.inPrunablePrefix /\ ~verifier.disturbed =>
             \E i \in 1..(verifier.at - 1), e \in Events : Stored(e)' /\ e <= cps'[i].through
        BY <1>3, <2>2 DEF ChainInv, VerifierOK, Stored
    <2> QED
        BY <1>3, <2>1, <2>3, <2>4, <2>5 DEF ChainInv, VerifierOK
  <1>17. Forward'
    <2> SUFFICES ASSUME NEW i \in 1..Len(cps'), \A m \in 1..i : Linked(m)',
                        NEW j \in 1..(i - 1)
                 PROVE  cps'[j].through < cps'[i].through
        BY DEF Forward
    <2>1. i \in Nat /\ j \in Nat /\ j < i /\ j \in 1..Len(cps)
        BY <1>1, <1>11
    <2>2. ASSUME NEW m \in 1..Len(cps), Linked(m)'
          PROVE  Linked(m)
      <3>1. cps'[m] = cps[m]
          BY <1>11
      <3>2. m # 1 => cps'[m - 1] = cps[m - 1]
        <4>1. m # 1 => m - 1 \in 1..Len(cps)
            BY <1>1
        <4> QED
            BY <1>11, <4>1
      <3> QED
          BY <2>2, <3>1, <3>2 DEF Linked
    <2>3. CASE i \in 1..Len(cps)
        BY <1>11, <2>1, <2>2, <2>3 DEF ChainInv, Forward
    <2>4. CASE i = Len(cps) + 1
      <3> DEFINE n == Len(cps)
      <3>1. n \in 1..n /\ n \in Nat /\ n + 1 # 1 /\ (n + 1) - 1 = n
          BY <1>1, <2>1
      <3>2. c.prevHash = cps[n].hash
        <4>1. PICK k \in 1..i : k = i
            BY <2>1
        <4>2. Linked(k)'
            OBVIOUS
        <4>3. cps'[k].prevHash = cps'[k - 1].hash
            BY <2>4, <3>1, <4>1, <4>2 DEF Linked
        <4>4. cps'[k] = c /\ cps'[k - 1] = cps[n]
            BY <1>11, <2>4, <3>1, <4>1
        <4> QED
            BY <4>3, <4>4
      <3>3. CheckpointOK(cps[n], Known, Changed) /\ cps[n] \in Checkpoint
          BY <1>1, <3>1 DEF ChainInv
      <3>4. EndsAt(cps[n].hash, cps[n].through) /\ cps[n].through \in Nat
          BY <3>3, BoundsAssumption DEF CheckpointOK, Checkpoint, Events
      <3>5. q.lower = cps[n].through
          BY <1>4, <1>6, <3>2, <3>4, EndsOnce, BoundsAssumption DEF c
      <3>6. cps[n].through < c.through /\ c.through \in Nat
          BY <1>4, <1>6, <1>7, <3>5, EventsAreFinite DEF c
      <3>7. j = n \/ cps[j].through < cps[n].through
        <4>1. ASSUME NEW m \in 1..n
              PROVE  Linked(m)
          <5>1. m \in 1..i
              BY <2>4, <3>1
          <5>2. Linked(m)'
              BY <5>1
          <5> QED
              BY <2>2, <5>2
        <4>2. \A x \in 1..(n - 1) : cps[x].through < cps[n].through
            BY <3>1, <4>1 DEF ChainInv, Forward
        <4>3. j \in 1..n /\ n \in Nat
            BY <2>1, <3>1
        <4>4. j = n \/ j \in 1..(n - 1)
          <5> HIDE DEF n
          <5> QED
              BY <4>3
        <4> QED
            BY <4>2, <4>4
      <3>8. cps[j].through \in Nat
        <4>1. cps[j] \in Checkpoint
            BY <1>1, <2>1
        <4> QED
            BY <4>1, BoundsAssumption DEF Checkpoint, Events
      <3> QED
          BY <1>11, <2>1, <2>4, <3>4, <3>6, <3>7, <3>8
    <2> QED
        BY <1>1, <1>11, <2>3, <2>4
  <1> QED
      BY <1>12, <1>13, <1>14, <1>15, <1>16, <1>17 DEF ChainInv

(* The next checkpoint, and the events that are left of those it sealed.   *)
LEMMA NextCheckpoint ==
    ASSUME ChainInv, verifier.pc = "walking", verifier.at <= verifier.total,
           NEW cp, cp = cps[verifier.at],
           NEW events, events = RangeWhere(verifier.lower, cp.through)
    PROVE  /\ verifier.at \in 1..Len(cps) /\ cp \in Checkpoint /\ CheckpointOK(cp, Known, Changed)
           /\ events \in SUBSET Events /\ Cardinality(events) \in Nat
           /\ Cardinality(events) = cp.count => events # {}
           /\ \A e \in events : Stored(e) /\ verifier.lower < e /\ e <= cp.through
  <1>1. verifier.at \in 1..Len(cps) /\ cps \in Seq(Checkpoint)
      BY DEF ChainInv, VerifierOK, TypeOK
  <1>2. cp \in Checkpoint /\ CheckpointOK(cp, Known, Changed)
      BY <1>1 DEF ChainInv
  <1>3. events \in SUBSET Events /\ \A e \in events : Stored(e) /\ verifier.lower < e /\ e <= cp.through
      BY DEF RangeWhere
  <1>4. Cardinality(events) \in Nat
      BY <1>3, EventsAreFinite
  <1>5. cp.count # 0
    <2>1. EventsOf(LastSeal(cp.hash)) \in SUBSET Events /\ EventsOf(LastSeal(cp.hash)) # {}
        BY <1>2 DEF CheckpointOK, SealTrue, EventsOf
    <2> QED
        BY <1>2, <2>1, SomeEvents DEF CheckpointOK
  <1>6. Cardinality(events) = cp.count => events # {}
      BY <1>3, <1>5, SomeEvents
  <1> QED
      BY <1>1, <1>2, <1>3, <1>4, <1>6

LEMMA VerifierSteps ==
    ASSUME ChainInv, StartVerification \/ VerifyNext \/ FinishVerification
    PROVE  ChainInv'
  <1> DEFINE V == [pc : {"idle", "walking", "ok", "broken"}, total : Nat, at : Nat,
                   lower : 0..MaxEvents, prevHash : Seq(Seal),
                   inPrunablePrefix : BOOLEAN, disturbed : BOOLEAN]
  <1>1. UNCHANGED <<event, cps, sealer, pruned>> /\ TypeOK /\ verifier \in V
        /\ cps \in Seq(Checkpoint) /\ Len(cps) \in Nat
      BY DEF StartVerification, VerifyNext, FinishVerification, ChainInv, TypeOK
  <1>2. ASSUME verifier' \in V, VerifierOK'
        PROVE  ChainInv'
    <2>1. TypeOK'
        BY <1>1, <1>2 DEF TypeOK
    <2>2. Known' = Known /\ Changed' = Changed /\ Forward'
        BY <1>1 DEF Known, Changed, Stored, ChainInv, Forward, Linked
    <2> QED
        BY <1>1, <1>2, <2>1, <2>2 DEF ChainInv
  <1>3. ASSUME NEW pc \in {"walking", "ok", "broken"}
        PROVE  /\ Rests(pc) \in V /\ Rests(pc).pc = pc /\ Rests(pc).lower = 0
               /\ Rests(pc).prevHash = << >> /\ Rests(pc).inPrunablePrefix
      BY <1>3, BoundsAssumption DEF Rests
  <1>4. CASE StartVerification
    <2> DEFINE v == [Rests("walking") EXCEPT !.total = Len(cps), !.at = 1]
    <2>1. verifier' = v
        BY <1>4 DEF StartVerification
    <2>2. /\ v \in V /\ v.total = Len(cps) /\ v.at = 1 /\ v.lower = 0 /\ v.prevHash = << >>
          /\ v.inPrunablePrefix
        BY <1>1, <1>3
    <2> HIDE DEF v
    <2>3. VerifierOK'
        BY <1>1, <2>1, <2>2 DEF VerifierOK
    <2> QED
        BY <1>2, <2>1, <2>2, <2>3
  <1>5. CASE FinishVerification
    <2>1. verifier' = Rests("ok")
        BY <1>5 DEF FinishVerification
    <2>2. VerifierOK'
        BY <1>3, <2>1 DEF VerifierOK
    <2> QED
        BY <1>2, <1>3, <2>1, <2>2
  <1>7. ASSUME NEW x \in V, NEW n \in Nat, NEW l \in 0..MaxEvents, NEW h \in Seq(Seal),
               NEW b \in BOOLEAN
        PROVE  LET y == [x EXCEPT !.at = n, !.lower = l, !.prevHash = h, !.inPrunablePrefix = b]
               IN  /\ y \in V /\ y.pc = x.pc /\ y.total = x.total /\ y.at = n
                   /\ y.lower = l /\ y.prevHash = h /\ y.disturbed = x.disturbed
                   /\ y.inPrunablePrefix = b
    <2> DEFINE y == [x EXCEPT !.at = n, !.lower = l, !.prevHash = h, !.inPrunablePrefix = b]
    <2>1. y \in V
        BY <1>7
    <2>2. /\ y.pc = x.pc /\ y.total = x.total /\ y.at = n /\ y.lower = l /\ y.prevHash = h
          /\ y.disturbed = x.disturbed /\ y.inPrunablePrefix = b
        BY <1>7
    <2> HIDE DEF y
    <2> QED
        BY <2>1, <2>2 DEF y
  <1>6. CASE VerifyNext
    <2>1. verifier.pc = "walking" /\ verifier.at <= verifier.total
        BY <1>6 DEF VerifyNext
    <2>2. PICK cp : cp = cps[verifier.at]
        OBVIOUS
    <2>3. PICK events : events = RangeWhere(verifier.lower, cp.through)
        OBVIOUS
    <2>4. /\ verifier.at \in 1..Len(cps) /\ cp \in Checkpoint
          /\ Cardinality(events) = cp.count => events # {}
          /\ \A e \in events : e \in Events /\ Stored(e) /\ e <= cp.through
        BY <2>1, <2>2, <2>3, NextCheckpoint
    <2>5. PICK intact \in BOOLEAN : intact <=> /\ Cardinality(events) = cp.count
                                               /\ Append(verifier.prevHash, Content(events)) = cp.hash
        OBVIOUS
    <2> DEFINE v == [verifier EXCEPT !.at = @ + 1, !.lower = cp.through, !.prevHash = cp.hash,
                                     !.inPrunablePrefix = @ /\ ~intact]
    <2>6. verifier' = Rests("broken") \/ verifier' = v
        BY <1>6, <2>2, <2>3, <2>5 DEF VerifyNext, PrevHash
    <2>7. CASE verifier' = Rests("broken")
      <3>1. VerifierOK'
          BY <1>3, <2>7 DEF VerifierOK
      <3> QED
          BY <1>2, <1>3, <2>7, <3>1
    <2>8. CASE verifier' = v
      <3>1. /\ cp.through \in 0..MaxEvents /\ cp.hash \in Seq(Seal)
            /\ (verifier.inPrunablePrefix /\ ~intact) \in BOOLEAN
          BY <2>4, BoundsAssumption DEF Checkpoint, Events
      <3>2. PICK b \in BOOLEAN : b = (verifier.inPrunablePrefix /\ ~intact)
          BY <3>1
      <3>3. /\ v \in V /\ v.pc = "walking" /\ v.total = verifier.total
            /\ v.at = verifier.at + 1 /\ v.lower = cp.through /\ v.prevHash = cp.hash
            /\ v.disturbed = verifier.disturbed /\ v.inPrunablePrefix = b
        <4>1. PICK n \in Nat : n = verifier.at + 1
            BY <1>1
        <4>2. v = [verifier EXCEPT !.at = n, !.lower = cp.through, !.prevHash = cp.hash,
                                   !.inPrunablePrefix = b]
            BY <3>2, <4>1, Zenon
        <4> HIDE DEF v
        <4> QED
            BY <1>1, <1>7, <2>1, <3>1, <3>2, <4>1, <4>2
      <3> HIDE DEF v
      <3>4. /\ verifier.at \in Nat /\ verifier.total \in Nat /\ verifier.at # 0
            /\ verifier.total <= Len(cps) /\ v.at \in 1..(v.total + 1)
            /\ v.at # 1 /\ v.at - 1 = verifier.at
        <4>1. verifier.at \in Nat /\ verifier.total \in Nat
            BY <1>1
        <4>2. verifier.at # 0 /\ verifier.total <= Len(cps)
            BY <2>1, <2>4, <1>1 DEF ChainInv, VerifierOK
        <4> QED
            BY <1>1, <2>1, <3>3, <4>1, <4>2
      <3>5. ASSUME ~v.inPrunablePrefix, ~v.disturbed
            PROVE  \E i \in 1..(v.at - 1), e \in Events : Stored(e) /\ e <= cps[i].through
        <4>1. CASE intact
          <5>1. PICK e \in events : TRUE
              BY <2>4, <2>5, <4>1
          <5>2. verifier.at \in 1..(v.at - 1)
              BY <3>4
          <5> QED
              BY <2>2, <2>4, <5>1, <5>2
        <4>2. CASE ~intact
          <5>1. PICK i \in 1..(verifier.at - 1), e \in Events : Stored(e) /\ e <= cps[i].through
              BY <2>1, <3>2, <3>3, <3>5, <4>2 DEF ChainInv, VerifierOK
          <5>2. i \in 1..(v.at - 1)
              BY <3>4
          <5> QED
              BY <5>1, <5>2
        <4> QED
            BY <4>1, <4>2
      <3>6. VerifierOK'
          BY <1>1, <2>2, <2>8, <3>3, <3>4, <3>5 DEF VerifierOK, Stored
      <3> QED
          BY <1>2, <2>8, <3>3, <3>6
    <2> QED
        BY <2>6, <2>7, <2>8
  <1> QED
      BY <1>4, <1>5, <1>6

LEMMA StepChain == ChainInv /\ [Next]_vars => ChainInv'
  <1> SUFFICES ASSUME ChainInv, [Next]_vars PROVE ChainInv'
      OBVIOUS
  <1>1. ASSUME NEW e \in Events,
               \/ \E w \in Workspaces \cup {"none"} : WriteEvent(e, w)
               \/ CommitEvent(e) \/ Anonymize(e)
        PROVE  ChainInv'
      BY <1>1, RowsSteps
  <1>2. ASSUME NEW w \in Workspaces, NEW cutoff \in 1..(MaxEvents + 1), PruneWorkspace(w, cutoff)
        PROVE  ChainInv'
    <2>1. PICK e \in Events : TRUE
        BY <1>2 DEF PruneWorkspace
    <2> QED
        BY <1>2, <2>1, RowsSteps
  <1>3. ASSUME NEW s \in Sealers, ReadLastCheckpoint(s) \/ ReadPending(s)
        PROVE  ChainInv'
      BY <1>3, SealerReads
  <1>4. ASSUME NEW s \in Sealers, CreateCheckpoint(s)
        PROVE  ChainInv'
      BY <1>4, CreateStep
  <1>5. CASE StartVerification \/ VerifyNext \/ FinishVerification
      BY <1>5, VerifierSteps
  <1>6. CASE UNCHANGED vars
    <2>1. UNCHANGED <<event, cps, sealer, verifier, pruned>>
        BY <1>6 DEF vars
    <2>2. TypeOK' /\ Known' = Known /\ Changed' = Changed /\ Forward' /\ VerifierOK'
        BY <2>1 DEF ChainInv, TypeOK, Known, Changed, Stored, Forward, Linked, VerifierOK
    <2> QED
        BY <2>1, <2>2 DEF ChainInv
  <1> QED
      BY <1>1, <1>2, <1>3, <1>4, <1>5, <1>6 DEF Next

(* Seals are true and checkpoints go forward, in every reachable state.    *)
THEOREM ChainInvariant == Spec => []ChainInv
  BY InitChain, StepChain, PTL DEF Spec

(* Events, checkpoints, sealers and the verification keep their types.     *)
THEOREM ChainTypes == Spec => []TypeOK
  <1>1. ChainInv => TypeOK
      BY DEF ChainInv
  <1> QED
      BY <1>1, ChainInvariant, PTL

(***************************************************************************)
(* Without a reason there is no alarm.                                     *)
(***************************************************************************)

(* Where nothing is missed and all checkpoints are linked, the events of a *)
(* checkpoint's range that are left are events it sealed.                  *)
LEMMA RangeIsSealed ==
    ASSUME ChainInv, NEW k \in 1..Len(cps), NEW lower,
           lower = IF k = 1 THEN 0 ELSE cps[k - 1].through,
           \A i \in 1..Len(cps) : Linked(i), Missed = {}
    PROVE  /\ cps[k].prevHash = IF k = 1 THEN << >> ELSE cps[k - 1].hash
           /\ \A e \in EventsOf(LastSeal(cps[k].hash)) : lower < e /\ e <= cps[k].through
           /\ \A e \in RangeWhere(lower, cps[k].through) : e \in EventsOf(LastSeal(cps[k].hash))
  <1>1. cps \in Seq(Checkpoint) /\ Len(cps) \in Nat
      BY DEF ChainInv, TypeOK
  <1>2. \A i \in 1..Len(cps) : cps[i].through \in Nat /\ CheckpointOK(cps[i], Known, Changed)
    <2>1. \A i \in 1..Len(cps) : cps[i] \in Checkpoint
        BY <1>1
    <2> QED
        BY <2>1, BoundsAssumption DEF ChainInv, Checkpoint, Events
  <1>3. ASSUME NEW i \in 1..Len(cps), NEW j \in 1..Len(cps), j < i
        PROVE  cps[j].through < cps[i].through
    <2>1. j \in 1..(i - 1) /\ \A m \in 1..i : m \in 1..Len(cps)
        BY <1>1, <1>3
    <2> QED
        BY <2>1 DEF ChainInv, Forward
  <1>4. ASSUME NEW i \in 1..Len(cps), NEW low, low = IF i = 1 THEN 0 ELSE cps[i - 1].through
        PROVE  /\ cps[i].prevHash = IF i = 1 THEN << >> ELSE cps[i - 1].hash
               /\ \A e \in EventsOf(LastSeal(cps[i].hash)) : low < e /\ e <= cps[i].through
    <2>1. cps[i].prevHash = IF i = 1 THEN << >> ELSE cps[i - 1].hash
        BY DEF Linked
    <2>2. i # 1 => i - 1 \in 1..Len(cps)
        BY <1>1
    <2>3. EndsAt(cps[i].prevHash, low) /\ low \in Nat
      <3>1. CASE i = 1
          BY <1>4, <2>1, <3>1 DEF EndsAt
      <3>2. CASE i # 1
        <4>1. CheckpointOK(cps[i - 1], Known, Changed) /\ cps[i - 1].through \in Nat
            BY <1>2, <2>2, <3>2
        <4> QED
            BY <1>4, <2>1, <3>2, <4>1 DEF CheckpointOK
      <3> QED
          BY <3>1, <3>2
    <2>4. PICK l \in 0..MaxEvents : EndsAt(cps[i].prevHash, l)
                                    /\ \A e \in EventsOf(LastSeal(cps[i].hash)) : l < e
        BY <1>2 DEF CheckpointOK
    <2>5. l = low
        BY <2>3, <2>4, EndsOnce, BoundsAssumption
    <2>6. \A e \in EventsOf(LastSeal(cps[i].hash)) : e <= cps[i].through
        BY <1>2 DEF CheckpointOK, EndsAt
    <2> QED
        BY <2>1, <2>4, <2>5, <2>6
  <1>5. ASSUME NEW e \in RangeWhere(lower, cps[k].through)
        PROVE  e \in EventsOf(LastSeal(cps[k].hash))
    <2>1. e \in Events /\ Stored(e) /\ lower < e /\ e <= cps[k].through /\ e \in Nat
        BY BoundsAssumption DEF RangeWhere, Events
    <2>2. e <= LastThrough
      <3>1. Len(cps) \in 1..Len(cps) /\ cps # << >>
          BY <1>1
      <3>2. k = Len(cps) \/ cps[k].through < cps[Len(cps)].through
          BY <1>1, <1>3, <3>1
      <3>3. cps[k].through \in Nat /\ cps[Len(cps)].through \in Nat
          BY <1>2, <3>1
      <3> QED
          BY <2>1, <3>1, <3>2, <3>3 DEF LastThrough
    <2>3. PICK j \in 1..Len(cps) : SealedBy(j, e)
        BY <2>1, <2>2 DEF Missed
    <2>4. e \in EventsOf(LastSeal(cps[j].hash))
        BY <2>1, <2>3 DEF SealedBy, EventsOf, LastSeal
    <2>5. PICK low : low = IF j = 1 THEN 0 ELSE cps[j - 1].through
        OBVIOUS
    <2>6. low < e /\ e <= cps[j].through
        BY <1>4, <2>4, <2>5
    <2>7. ~(j < k)
      <3> SUFFICES ASSUME j < k PROVE FALSE
          OBVIOUS
      <3>1. k # 1 /\ k - 1 \in 1..Len(cps) /\ (j = k - 1 \/ j < k - 1)
          BY <1>1
      <3>2. cps[j].through <= cps[k - 1].through
          BY <1>2, <1>3, <3>1
      <3> QED
          BY <1>2, <2>1, <2>6, <3>1, <3>2
    <2>8. ~(k < j)
      <3> SUFFICES ASSUME k < j PROVE FALSE
          OBVIOUS
      <3>1. j # 1 /\ j - 1 \in 1..Len(cps) /\ (k = j - 1 \/ k < j - 1)
          BY <1>1
      <3>2. cps[k].through <= cps[j - 1].through
          BY <1>2, <1>3, <3>1
      <3> QED
          BY <1>2, <2>1, <2>5, <2>6, <3>1, <3>2
    <2>9. j = k
        BY <1>1, <2>7, <2>8
    <2> QED
        BY <2>4, <2>9
  <1> QED
      BY <1>4, <1>5

LEMMA AlarmStep ==
    ASSUME ChainInv, VerifyNext, verifier'.pc = "broken", ~Explained, ~verifier.disturbed
    PROVE  FALSE
  <1>1. verifier.pc = "walking" /\ verifier.at <= verifier.total
      BY DEF VerifyNext
  <1>2. PICK k : k = verifier.at
      OBVIOUS
  <1>3. PICK cp : cp = cps[k]
      OBVIOUS
  <1>4. PICK events : events = RangeWhere(verifier.lower, cp.through)
      OBVIOUS
  <1>5. /\ k \in 1..Len(cps) /\ cp \in Checkpoint /\ CheckpointOK(cp, Known, Changed)
        /\ events \in SUBSET Events /\ Cardinality(events) \in Nat
        /\ \A e \in events : Stored(e) /\ verifier.lower < e /\ e <= cp.through
      BY <1>1, <1>2, <1>3, <1>4, NextCheckpoint
  <1>6. Missed = {} /\ Changed = {} /\ OldestFirst /\ \A i \in 1..Len(cps) : Linked(i)
      BY DEF Explained
  <1>7. /\ verifier.lower = IF k = 1 THEN 0 ELSE cps[k - 1].through
        /\ verifier.prevHash = IF k = 1 THEN << >> ELSE cps[k - 1].hash
      BY <1>1, <1>2 DEF ChainInv, VerifierOK
  <1> DEFINE S == EventsOf(LastSeal(cp.hash))
  <1>8. /\ cp.prevHash = verifier.prevHash
        /\ \A e \in S : verifier.lower < e /\ e <= cp.through
        /\ events \subseteq S
      BY <1>3, <1>4, <1>5, <1>6, <1>7, RangeIsSealed
  <1>9. /\ S \in SUBSET Events /\ S \subseteq Known /\ cp.count = Cardinality(S)
        /\ cp.hash = Append(cp.prevHash, LastSeal(cp.hash))
      BY <1>5 DEF CheckpointOK, SealTrue, EventsOf
  <1>10. ~(/\ Cardinality(events) = cp.count
           /\ Append(verifier.prevHash, Content(events)) = cp.hash)
         /\ ~(Cardinality(events) < cp.count /\ verifier.inPrunablePrefix)
    <2> DEFINE v(intact) == [verifier EXCEPT !.at = @ + 1, !.lower = cp.through,
                                             !.prevHash = PrevHash(cp, events),
                                             !.inPrunablePrefix = @ /\ ~intact]
    <2>1. verifier \in [pc : {"idle", "walking", "ok", "broken"}, total : Nat, at : Nat,
                        lower : 0..MaxEvents, prevHash : Seq(Seal),
                        inPrunablePrefix : BOOLEAN, disturbed : BOOLEAN]
        BY DEF ChainInv, TypeOK
    <2>2. \A intact \in BOOLEAN : v(intact).pc = "walking"
        BY <1>1, <2>1
    <2> QED
        BY <1>2, <1>3, <1>4, <2>2 DEF VerifyNext
  <1>11. CASE events = S
    <2>1. Content(events) = LastSeal(cp.hash)
      <3>1. LastSeal(cp.hash) \subseteq Events \X BOOLEAN
        <4>1. cp.hash \in Seq(Seal) /\ cp.hash # << >>
            BY <1>5 DEF Checkpoint, CheckpointOK
        <4>2. Len(cp.hash) \in 1..Len(cp.hash)
            BY <4>1
        <4> QED
            BY <4>1, <4>2 DEF LastSeal, Seal
      <3>2. \A e \in Events : event[e].changed = FALSE
        <4>1. \A e \in Events : event[e].changed \in BOOLEAN
            BY DEF ChainInv, TypeOK, Event
        <4> QED
            BY <1>6, <4>1 DEF Changed
      <3>3. \A e \in S : <<e, TRUE>> \notin LastSeal(cp.hash) /\ <<e, FALSE>> \in LastSeal(cp.hash)
          BY <1>5, <1>6 DEF CheckpointOK, SealTrue, EventsOf
      <3>4. Content(events) = {<<e, FALSE>> : e \in S}
          BY <1>9, <1>11, <3>2 DEF Content
      <3>5. \A x \in LastSeal(cp.hash) : \E e \in S : x = <<e, FALSE>>
        <4>1. ASSUME NEW x \in LastSeal(cp.hash)
              PROVE  \E e \in S : x = <<e, FALSE>>
          <5>1. PICK e \in Events, b \in BOOLEAN : x = <<e, b>>
              BY <3>1
          <5>2. e \in S
              BY <5>1 DEF EventsOf
          <5> QED
              BY <3>3, <5>1, <5>2
        <4> QED
            BY <4>1
      <3> HIDE DEF S
      <3> QED
          BY <3>3, <3>4, <3>5
    <2> QED
        BY <1>8, <1>9, <1>10, <1>11, <2>1
  <1>12. CASE events # S
    <2>1. Cardinality(events) < cp.count
      <3>1. Cardinality(events) <= Cardinality(S) /\ Cardinality(events) # Cardinality(S)
          BY <1>8, <1>9, <1>12, FewerEvents
      <3>2. Cardinality(S) \in Nat
          BY <1>9, EventsAreFinite
      <3> QED
          BY <1>5, <1>9, <3>1, <3>2
    <2>2. PICK i \in 1..(k - 1), e \in Events : Stored(e) /\ e <= cps[i].through
        BY <1>1, <1>2, <1>10, <2>1 DEF ChainInv, VerifierOK
    <2>3. PICK p \in S : p \notin events
        BY <1>8, <1>12
    <2>4. p \in Events /\ p \in Known /\ p \in Nat /\ e \in Nat
        BY <1>9, <2>2, <2>3, BoundsAssumption DEF Events
    <2>5. ~Stored(p)
        BY <1>4, <1>8, <2>3, <2>4 DEF RangeWhere
    <2>6. p \in pruned
        BY <2>4, <2>5 DEF Known
    <2>7. e <= verifier.lower
      <3>1. cps \in Seq(Checkpoint) /\ Len(cps) \in Nat
          BY DEF ChainInv, TypeOK
      <3>2. k # 1 /\ k - 1 \in 1..Len(cps) /\ i \in 1..Len(cps) /\ i \in Nat /\ k \in Nat
            /\ (i = k - 1 \/ i \in 1..((k - 1) - 1))
          BY <1>5, <2>2, <3>1
      <3>3. cps[i].through \in Nat /\ cps[k - 1].through \in Nat
        <4>1. cps[i] \in Checkpoint /\ cps[k - 1] \in Checkpoint
            BY <3>1, <3>2
        <4> QED
            BY <4>1, BoundsAssumption DEF Checkpoint, Events
      <3>4. i = k - 1 \/ cps[i].through < cps[k - 1].through
        <4>1. \A m \in 1..(k - 1) : Linked(m)
            BY <1>5, <1>6, <3>1
        <4> QED
            BY <3>2, <4>1 DEF ChainInv, Forward
      <3> QED
          BY <1>7, <2>2, <2>4, <3>2, <3>3, <3>4
    <2>8. verifier.lower < p /\ verifier.lower \in Nat
        BY <1>8, <2>3, BoundsAssumption DEF ChainInv, TypeOK
    <2>9. e < p
        BY <2>4, <2>7, <2>8
    <2> QED
        BY <1>6, <2>2, <2>6, <2>9 DEF OldestFirst
  <1> QED
      BY <1>11, <1>12

(* A verification raises an alarm only for a reason that is listed         *)
(* (audit-log.ts:284): for any workspaces, any number of events, seals and *)
(* sealers, and any retention.                                             *)
THEOREM AlarmsHaveReasons == Spec => AlarmIsExplained
  <1>1. ChainInv /\ [Next]_vars =>
          [verifier.pc = "walking" /\ verifier'.pc = "broken"
             => Explained \/ verifier.disturbed]_vars
    <2> SUFFICES ASSUME ChainInv, Next, verifier.pc = "walking", verifier'.pc = "broken"
                 PROVE  Explained \/ verifier.disturbed
        BY DEF vars
    <2>1. CASE VerifyNext
        BY <2>1, AlarmStep
    <2>2. CASE FinishVerification
      <3>1. verifier'.pc = "ok"
          BY <2>2 DEF FinishVerification, Rests
      <3> QED
          BY <3>1
    <2>3. ASSUME NEW w, NEW cutoff, PruneWorkspace(w, cutoff)
          PROVE  FALSE
      <3>1. verifier'.pc = verifier.pc
          BY <2>3 DEF PruneWorkspace, ChainInv, TypeOK
      <3> QED
          BY <3>1
    <2>4. CASE verifier' = verifier
        BY <2>4
    <2>5. VerifyNext \/ FinishVerification \/ verifier' = verifier
          \/ (\E w \in Workspaces, cutoff \in 1..(MaxEvents + 1) : PruneWorkspace(w, cutoff))
        BY DEF Next, WriteEvent, CommitEvent, Anonymize, ReadLastCheckpoint, ReadPending,
               CreateCheckpoint, StartVerification
    <2> QED
        BY <2>1, <2>2, <2>3, <2>4, <2>5
  <1> QED
      BY <1>1, ChainInvariant, PTL DEF Spec, AlarmIsExplained

-----------------------------------------------------------------------------
(***************************************************************************)
(* Lists of events read page by page.                                      *)
(***************************************************************************)
CONSTANTS N, TimeOf, KindOf, DocOf, Docs, None, Early, PageSize, ExportCap, Lists, Filters, MaxAsks,
          ReadOps

VARIABLES row, doc, page, asks, exported, due, cuts, restarted

Pages == INSTANCE Timelines WITH Ops <- ReadOps

(* Times are numbers and the word for none is not; a page has a row.       *)
ListsGiven ==
    /\ N \in Nat /\ PageSize \in Nat \ {0} /\ ExportCap \in Nat
    /\ TimeOf \in [Pages!Events -> Nat] /\ DocOf \in [Pages!Events -> Docs \cup {None}]
    /\ Lists \subseteq {"activity", "audit", "admin"}
    /\ None \notin Nat

(* Where the reading goes on: the cursor of the last page with rows or     *)
(* with a cursor.                                                          *)
Reached ==
    IF page.list = "activity" /\ page.next = None /\ page.more = <<>> THEN page.firstNext ELSE page.next

(* An event that comes after the place of a cursor.                        *)
Beyond(list, c, e) ==
    IF list = "admin" THEN TimeOf[e] < TimeOf[c] \/ (TimeOf[e] = TimeOf[c] /\ e < c)
                      ELSE TimeOf[e] < c

InOrder(list, s) == \A i, j \in DOMAIN s : i < j => s[i] # s[j] /\ Pages!Before(list, s[i], s[j])

CursorsOf(list) == (IF list = "admin" THEN Pages!Events ELSE Nat) \cup {None}

PageTypes ==
    [list : Lists, filter : Filters, first : Seq(Pages!Events), more : Seq(Pages!Events),
     next : CursorsOf(page.list), firstNext : CursorsOf(page.list),
     loading : BOOLEAN, opened : BOOLEAN, asked : Nat]
AskTypes ==
    [id : Nat, at : {"query", "documents", "answer"}, filter : Filters,
     cursor : CursorsOf(page.list), rows : Seq(Pages!Events), next : CursorsOf(page.list)]

ReadingTypes ==
    /\ row \in [Pages!Events -> {"absent", "stored", "pruned"}]
    /\ doc \in [Docs -> {"shown", "hidden", "gone"}]
    /\ page \in PageTypes /\ asks \subseteq AskTypes
    /\ page.list # "activity" => page.firstNext = None
    /\ \A q \in asks : q.at = "documents" => page.list = "activity"
    /\ due \subseteq Pages!Events /\ cuts \subseteq Nat /\ restarted \in BOOLEAN

(* What is shown or under way was there, and an export had what was shown. *)
ShownWereThere ==
    /\ \A e \in Pages!Range(Pages!Shown) : row[e] # "absent"
    /\ \A q \in asks : \A e \in Pages!Range(q.rows) : row[e] # "absent"
    /\ exported # None => \A e \in exported.shown : e \in Pages!Events /\ row[e] # "absent"

(* The rows of a request: what is due beyond its cursor is in them, has    *)
(* the time of its cut, or lies beyond its next cursor.                    *)
RowsOK(q) ==
    /\ InOrder(page.list, q.rows)
    /\ \A e \in Pages!Range(q.rows) : /\ q.cursor # None => Beyond(page.list, q.cursor, e)
                                      /\ q.next # None => ~Beyond(page.list, q.next, e)
    /\ q.cursor # None /\ q.next # None =>
          \A e \in Pages!Events : Beyond(page.list, q.next, e) => Beyond(page.list, q.cursor, e)
    /\ \A e \in due : (q.cursor # None => Beyond(page.list, q.cursor, e)) =>
          \/ e \in Pages!Range(q.rows) \/ TimeOf[e] \in cuts
          \/ q.next # None /\ Beyond(page.list, q.next, e)

(* A request of a reading that has not begun anew.                         *)
AskOK(q) ==
    /\ q.filter = page.filter
    /\ q.cursor # None => page.loading /\ q.cursor = Reached
    /\ q.cursor = None => IF page.list = "activity"
                          THEN Pages!Shown = <<>> /\ page.next = None /\ page.firstNext = None
                          ELSE page.loading
    /\ q.at # "query" => RowsOK(q)

(* What is shown is in order and not beyond the cursor, and what is due    *)
(* is shown, has the time of a cut, or lies beyond the cursor.             *)
PageOK ==
    /\ InOrder(page.list, Pages!Shown)
    /\ Reached # None => \A e \in Pages!Range(Pages!Shown) : ~Beyond(page.list, Reached, e)
    /\ page.firstNext # None => \A e \in Pages!Range(page.first) : ~Beyond(page.list, page.firstNext, e)
    /\ \A e \in due : \/ e \in Pages!Range(Pages!Shown) \/ TimeOf[e] \in cuts
                      \/ Reached # None /\ Beyond(page.list, Reached, e)

DueOK == \A e \in due : /\ row[e] = "stored" /\ Pages!Matches(page.list, page.filter, e)
                        /\ page.list = "activity" => Pages!Visible(e)

ReadingOK ==
    ~restarted =>
        /\ \A q, k \in asks : q = k
        /\ \A q \in asks : AskOK(q)
        /\ (\A q \in asks : q.cursor # None) => PageOK
        /\ (\A q \in asks : q.cursor = None => q.at # "query") => DueOK
        /\ ~page.opened => asks = {} /\ Pages!Shown = <<>> /\ page.next = None /\ page.firstNext = None

ListsInv == ReadingTypes /\ ShownWereThere /\ Pages!ExportHasPage /\ ReadingOK

-----------------------------------------------------------------------------
(* Sequences without repetition, and orders of events.                     *)
LEMMA AllOfASet ==
    ASSUME NEW S, IsFiniteSet(S), NEW s \in Pages!SetToSeqs(S)
    PROVE  /\ s \in Seq(S) /\ Len(s) = Cardinality(S) /\ DOMAIN s = 1..Len(s)
           /\ Pages!Range(s) = S /\ \A i, j \in DOMAIN s : i # j => s[i] # s[j]
  <1>0. Pages!Cardinality(S) = Cardinality(S)
      BY Zenon DEF Pages!Cardinality, Cardinality
  <1>1. /\ Cardinality(S) \in Nat /\ s \in [1..Cardinality(S) -> S]
        /\ \A i, j \in 1..Cardinality(S) : i # j => s[i] # s[j]
      BY <1>0, FS_CardinalityType DEF Pages!SetToSeqs
  <1>2. s \in Injection(1..Cardinality(S), S)
      BY <1>1 DEF Injection, IsInjective
  <1>3. Cardinality(1..Cardinality(S)) = Cardinality(S)
      BY <1>1, FS_Interval
  <1>4. s \in Surjection(1..Cardinality(S), S)
      BY <1>2, <1>3, FS_Injection
  <1>5. \A x \in S : \E i \in 1..Cardinality(S) : s[i] = x
      BY <1>4 DEF Surjection
  <1>6. s \in Seq(S) /\ Len(s) = Cardinality(S) /\ DOMAIN s = 1..Len(s)
      BY <1>1
  <1> QED
      BY <1>1, <1>5, <1>6 DEF Pages!Range

LEMMA EventsFinite ==
    ASSUME ListsGiven
    PROVE  Pages!Events \subseteq Nat /\ \A S \in SUBSET Pages!Events : IsFiniteSet(S)
  <1>1. IsFiniteSet(Pages!Events) /\ Pages!Events \subseteq Nat
      BY FS_Interval DEF Pages!Events, ListsGiven
  <1> QED
      BY <1>1, FS_Subset

LEMMA TimesAre == ASSUME ListsGiven, NEW e \in Pages!Events PROVE TimeOf[e] \in Nat /\ e \in Nat
  BY EventsFinite DEF ListsGiven

(* What an ordered read of a set returns.                                  *)
LEMMA OrderIs ==
    ASSUME ListsGiven, NEW list \in Lists, NEW S \in SUBSET Pages!Events, NEW s \in Pages!Orders(list, S)
    PROVE  /\ s \in Seq(Pages!Events) /\ Pages!Range(s) = S /\ InOrder(list, s)
           /\ DOMAIN s = 1..Len(s) /\ Len(s) \in Nat
  <1>1. s \in Pages!SetToSeqs(S) /\ \A i, j \in DOMAIN s : i < j => Pages!Before(list, s[i], s[j])
      BY DEF Pages!Orders
  <1>2. /\ s \in Seq(S) /\ DOMAIN s = 1..Len(s) /\ Pages!Range(s) = S
        /\ \A i, j \in DOMAIN s : i # j => s[i] # s[j]
      BY <1>1, EventsFinite, AllOfASet
  <1>3. s \in Seq(Pages!Events) /\ Len(s) \in Nat
      BY <1>2
  <1>4. \A i, j \in DOMAIN s : i < j => s[i] # s[j] /\ Pages!Before(list, s[i], s[j])
      BY <1>1, <1>2, <1>3
  <1> QED
      BY <1>2, <1>3, <1>4 DEF InOrder

(* The beginning of a sequence.                                            *)
LEMMA CutIs ==
    ASSUME NEW s \in Seq(Pages!Events), NEW k \in Nat
    PROVE  /\ Pages!Cut(s, k) \in Seq(Pages!Events)
           /\ \A i \in DOMAIN Pages!Cut(s, k) : i \in DOMAIN s /\ Pages!Cut(s, k)[i] = s[i]
           /\ \A i \in DOMAIN s : i \in DOMAIN Pages!Cut(s, k) <=> i <= k
  <1> DEFINE m == IF Len(s) < k THEN Len(s) ELSE k
  <1>1. m \in 0..Len(s) /\ Pages!Cut(s, k) = SubSeq(s, 1, m)
      BY DEF Pages!Cut
  <1> HIDE DEF m
  <1>2. /\ SubSeq(s, 1, m) \in Seq(Pages!Events) /\ Len(SubSeq(s, 1, m)) = m
        /\ \A i \in 1..m : SubSeq(s, 1, m)[i] = s[i]
      BY <1>1
  <1>3. DOMAIN Pages!Cut(s, k) = 1..m /\ 1..m \subseteq DOMAIN s
      BY <1>1, <1>2
  <1>4. \A i \in DOMAIN s : i \in 1..m <=> i <= k
      BY DEF m
  <1> QED
      BY <1>1, <1>2, <1>3, <1>4

(* Places: what lies beyond one comes after what does not.                 *)
LEMMA BeyondIsAfter ==
    ASSUME ListsGiven, NEW list \in Lists, NEW c \in CursorsOf(list), c # None,
           NEW e \in Pages!Events, NEW f \in Pages!Events, ~Beyond(list, c, e), Beyond(list, c, f)
    PROVE  e # f /\ Pages!Before(list, e, f)
  <1>1. TimeOf[e] \in Nat /\ TimeOf[f] \in Nat /\ e \in Nat /\ f \in Nat
      BY TimesAre
  <1>2. CASE list = "admin"
      <2>1. c \in Pages!Events /\ TimeOf[c] \in Nat /\ c \in Nat
          BY <1>2, TimesAre DEF CursorsOf
      <2> QED
          BY <1>1, <1>2, <2>1 DEF Beyond, Pages!Before
  <1>3. CASE list # "admin"
      <2>1. c \in Nat
          BY <1>3 DEF CursorsOf
      <2> QED
          BY <1>1, <1>3, <2>1 DEF Beyond, Pages!Before
  <1> QED
      BY <1>2, <1>3

(* What one page says: its rows are not beyond the next cursor, and what   *)
(* is left of the list has its time or is.                                 *)
LEMMA PageIs ==
    ASSUME ListsGiven, NEW list \in Lists, NEW S \in SUBSET Pages!Events, NEW s \in Pages!Orders(list, S)
    PROVE  /\ Pages!Cut(s, PageSize) \in Seq(Pages!Events)
           /\ Pages!Range(Pages!Cut(s, PageSize)) \subseteq S
           /\ InOrder(list, Pages!Cut(s, PageSize))
           /\ Pages!NextOf(list, s) \in CursorsOf(list)
           /\ Pages!NextOf(list, s) = None => Pages!Range(Pages!Cut(s, PageSize)) = S
           /\ Pages!NextOf(list, s) # None =>
                      /\ \A e \in Pages!Range(Pages!Cut(s, PageSize)) :
                             ~Beyond(list, Pages!NextOf(list, s), e)
                      /\ \A e \in S : \/ e \in Pages!Range(Pages!Cut(s, PageSize))
                                       \/ Beyond(list, Pages!NextOf(list, s), e)
                                      \/ list # "admin" /\ TimeOf[e] = Pages!NextOf(list, s)
                      /\ \E x \in S : Pages!NextOf(list, s) = IF list = "admin" THEN x ELSE TimeOf[x]
  <1> DEFINE t == Pages!Cut(s, PageSize)
             n == Pages!NextOf(list, s)
  <1>1. /\ s \in Seq(Pages!Events) /\ Pages!Range(s) = S /\ InOrder(list, s)
        /\ DOMAIN s = 1..Len(s) /\ Len(s) \in Nat
      BY OrderIs
  <1>2. PageSize \in Nat /\ PageSize >= 1 /\ None \notin Nat
      BY DEF ListsGiven
  <1>3. /\ t \in Seq(Pages!Events) /\ \A i \in DOMAIN t : i \in DOMAIN s /\ t[i] = s[i] /\ i <= PageSize
        /\ \A i \in DOMAIN s : i \in DOMAIN t <=> i <= PageSize
      BY <1>1, <1>2, CutIs
  <1> HIDE DEF t
  <1>4. Pages!Range(t) \subseteq S
      BY <1>1, <1>3 DEF Pages!Range
  <1>5. InOrder(list, t)
      BY <1>1, <1>3 DEF InOrder
  <1>6. \A i \in DOMAIN s : s[i] \in S /\ s[i] \in Pages!Events /\ TimeOf[s[i]] \in Nat /\ s[i] \in Nat
      BY <1>1, TimesAre DEF Pages!Range
  <1>7. \A e \in S : \E i \in DOMAIN s : e = s[i]
      BY <1>1 DEF Pages!Range
  <1>8. CASE Len(s) <= PageSize
    <2>1. n = None
        BY <1>8 DEF Pages!NextOf
    <2>2. \A i \in DOMAIN s : i \in DOMAIN t
        BY <1>1, <1>2, <1>3, <1>8
    <2>3. Pages!Range(t) = S
        BY <1>1, <1>3, <2>2 DEF Pages!Range
    <2> QED
        BY <1>3, <1>4, <1>5, <2>1, <2>3 DEF t, CursorsOf
  <1>9. CASE ~(Len(s) <= PageSize) /\ list = "admin"
    <2>1. n = s[PageSize] /\ PageSize \in DOMAIN s
        BY <1>1, <1>2, <1>9 DEF Pages!NextOf
    <2>2. n \in S /\ n \in Pages!Events /\ n # None /\ n \in Nat /\ TimeOf[n] \in Nat
        BY <1>2, <1>6, <2>1
    <2>3. \A i, j \in DOMAIN s : i < j =>
             TimeOf[s[i]] > TimeOf[s[j]] \/ (TimeOf[s[i]] = TimeOf[s[j]] /\ s[i] > s[j])
        BY <1>1, <1>9 DEF InOrder, Pages!Before
    <2>4. ASSUME NEW e \in Pages!Range(t) PROVE ~Beyond(list, n, e)
      <3>1. PICK i \in DOMAIN t : e = t[i]
          BY <2>4 DEF Pages!Range
      <3>2. i \in DOMAIN s /\ e = s[i] /\ i <= PageSize
          BY <1>3, <2>1, <3>1
      <3>3. i = PageSize \/ i < PageSize
          BY <1>1, <1>2, <3>2
      <3> QED
          BY <1>6, <1>9, <2>1, <2>2, <2>3, <3>2, <3>3 DEF Beyond
    <2>5. ASSUME NEW e \in S PROVE e \in Pages!Range(t) \/ Beyond(list, n, e)
      <3>1. PICK i \in DOMAIN s : e = s[i]
          BY <1>7
      <3>2. CASE i <= PageSize
        <4>1. i \in DOMAIN t /\ t[i] = e
            BY <1>1, <1>3, <2>1, <3>1, <3>2
        <4> QED
            BY <4>1 DEF Pages!Range
      <3>3. CASE ~(i <= PageSize)
        <4>1. PageSize < i
            BY <1>1, <1>2, <3>3
        <4> QED
            BY <1>6, <1>9, <2>1, <2>2, <2>3, <3>1, <4>1 DEF Beyond
      <3> QED
          BY <3>2, <3>3
    <2> QED
        BY <1>3, <1>4, <1>5, <1>9, <2>2, <2>4, <2>5 DEF t, CursorsOf
  <1>10. CASE ~(Len(s) <= PageSize) /\ list # "admin"
    <2>1. n = TimeOf[s[PageSize + 1]] /\ PageSize + 1 \in DOMAIN s
        BY <1>1, <1>2, <1>10 DEF Pages!NextOf
    <2>2. n \in Nat /\ n # None /\ s[PageSize + 1] \in S
        BY <1>2, <1>6, <2>1
    <2>3. \A i, j \in DOMAIN s : i < j => TimeOf[s[i]] >= TimeOf[s[j]]
      <3> SUFFICES ASSUME NEW i \in DOMAIN s, NEW j \in DOMAIN s, i < j
                   PROVE  TimeOf[s[i]] >= TimeOf[s[j]]
          OBVIOUS
      <3>1. Pages!Before(list, s[i], s[j])
          BY <1>1 DEF InOrder
      <3> QED
          BY <1>6, <3>1 DEF Pages!Before
    <2>4. ASSUME NEW e \in Pages!Range(t) PROVE ~Beyond(list, n, e)
      <3>1. PICK i \in DOMAIN t : e = t[i]
          BY <2>4 DEF Pages!Range
      <3>2. i \in DOMAIN s /\ e = s[i] /\ i < PageSize + 1
          BY <1>2, <1>3, <2>1, <3>1
      <3> QED
          BY <1>6, <1>10, <2>1, <2>2, <2>3, <3>2 DEF Beyond
    <2>5. ASSUME NEW e \in S PROVE e \in Pages!Range(t) \/ Beyond(list, n, e) \/ TimeOf[e] = n
      <3>1. PICK i \in DOMAIN s : e = s[i]
          BY <1>7
      <3>2. CASE i <= PageSize
        <4>1. i \in DOMAIN t /\ t[i] = e
            BY <1>1, <1>3, <2>1, <3>1, <3>2
        <4> QED
            BY <4>1 DEF Pages!Range
      <3>3. CASE ~(i <= PageSize)
        <4>1. i = PageSize + 1 \/ PageSize + 1 < i
            BY <1>1, <1>2, <3>3
        <4> QED
            BY <1>6, <1>10, <2>1, <2>2, <2>3, <3>1, <4>1 DEF Beyond
      <3> QED
          BY <3>2, <3>3
    <2> QED
        BY <1>3, <1>4, <1>5, <1>10, <2>1, <2>2, <2>4, <2>5 DEF t, CursorsOf
  <1> QED
      BY <1>8, <1>9, <1>10

(* The visible rows of a page are in its order.                            *)
LEMMA VisibleIs ==
    ASSUME ListsGiven, NEW list \in Lists, NEW s \in Seq(Pages!Events), InOrder(list, s),
           NEW t \in Pages!VisibleOf(s)
    PROVE  /\ t \in Seq(Pages!Events) /\ InOrder(list, t)
           /\ Pages!Range(t) = {e \in Pages!Range(s) : Pages!Visible(e)}
  <1> DEFINE S == {e \in Pages!Range(s) : Pages!Visible(e)}
  <1>1. S \subseteq Pages!Events
      BY DEF Pages!Range
  <1>2. /\ t \in Pages!SetToSeqs(S)
        /\ \A i, j \in DOMAIN t : i < j =>
              \E k, l \in DOMAIN s : k < l /\ s[k] = t[i] /\ s[l] = t[j]
      BY DEF Pages!VisibleOf
  <1> HIDE DEF S
  <1>3. t \in Seq(S) /\ Pages!Range(t) = S
      BY <1>1, <1>2, EventsFinite, AllOfASet
  <1>4. t \in Seq(Pages!Events)
      BY <1>1, <1>3
  <1>5. InOrder(list, t)
      BY <1>2 DEF InOrder
  <1> QED
      BY <1>3, <1>4, <1>5 DEF S

(* A page behind another.                                                  *)
LEMMA JoinedInOrder ==
    ASSUME NEW list, NEW s \in Seq(Pages!Events), NEW t \in Seq(Pages!Events),
           InOrder(list, s), InOrder(list, t),
           \A e \in Pages!Range(s), f \in Pages!Range(t) : e # f /\ Pages!Before(list, e, f)
    PROVE  InOrder(list, s \o t)
  <1>1. /\ s \o t \in Seq(Pages!Events) /\ Len(s \o t) = Len(s) + Len(t) /\ Len(s) \in Nat /\ Len(t) \in Nat
        /\ DOMAIN (s \o t) = 1..(Len(s) + Len(t)) /\ DOMAIN s = 1..Len(s) /\ DOMAIN t = 1..Len(t)
      OBVIOUS
  <1>2. \A i \in DOMAIN (s \o t) : \/ i \in DOMAIN s /\ (s \o t)[i] = s[i]
                                   \/ i > Len(s) /\ i - Len(s) \in DOMAIN t /\ (s \o t)[i] = t[i - Len(s)]
      BY <1>1
  <1>3. \A i \in DOMAIN s : s[i] \in Pages!Range(s)
      BY DEF Pages!Range
  <1>4. \A i \in DOMAIN t : t[i] \in Pages!Range(t)
      BY DEF Pages!Range
  <1> SUFFICES ASSUME NEW i \in DOMAIN (s \o t), NEW j \in DOMAIN (s \o t), i < j
               PROVE  (s \o t)[i] # (s \o t)[j] /\ Pages!Before(list, (s \o t)[i], (s \o t)[j])
      BY DEF InOrder
  <1>5. i \in Nat /\ j \in Nat
      BY <1>1
  <1>6. CASE j \in DOMAIN s /\ (s \o t)[j] = s[j]
    <2>1. i \in DOMAIN s /\ (s \o t)[i] = s[i]
        BY <1>1, <1>2, <1>5, <1>6
    <2> QED
        BY <1>6, <2>1 DEF InOrder
  <1>7. CASE j > Len(s) /\ j - Len(s) \in DOMAIN t /\ (s \o t)[j] = t[j - Len(s)]
    <2>1. CASE i \in DOMAIN s /\ (s \o t)[i] = s[i]
        BY <1>3, <1>4, <1>7, <2>1
    <2>2. CASE i > Len(s) /\ i - Len(s) \in DOMAIN t /\ (s \o t)[i] = t[i - Len(s)]
      <3>1. i - Len(s) < j - Len(s)
          BY <1>1, <1>5
      <3> QED
          BY <1>7, <2>2, <3>1 DEF InOrder
    <2> QED
        BY <1>2, <2>1, <2>2
  <1> QED
      BY <1>2, <1>6, <1>7

LEMMA RangeOfJoined ==
    ASSUME NEW s \in Seq(Pages!Events), NEW t \in Seq(Pages!Events)
    PROVE  Pages!Range(s \o t) = Pages!Range(s) \cup Pages!Range(t)
  <1>1. /\ Len(s) \in Nat /\ Len(t) \in Nat
        /\ DOMAIN (s \o t) = 1..(Len(s) + Len(t)) /\ DOMAIN s = 1..Len(s) /\ DOMAIN t = 1..Len(t)
      OBVIOUS
  <1>2. \A i \in DOMAIN s : i \in DOMAIN (s \o t) /\ (s \o t)[i] = s[i]
      BY <1>1
  <1>3. \A i \in DOMAIN t : i + Len(s) \in DOMAIN (s \o t) /\ (s \o t)[i + Len(s)] = t[i]
      BY <1>1
  <1>4. \A i \in DOMAIN (s \o t) : \/ i \in DOMAIN s /\ (s \o t)[i] = s[i]
                                   \/ i - Len(s) \in DOMAIN t /\ (s \o t)[i] = t[i - Len(s)]
      BY <1>1
  <1>5. Pages!Range(s) \cup Pages!Range(t) \subseteq Pages!Range(s \o t)
      BY <1>2, <1>3 DEF Pages!Range
  <1>6. Pages!Range(s \o t) \subseteq Pages!Range(s) \cup Pages!Range(t)
      BY <1>4 DEF Pages!Range
  <1> QED
      BY <1>5, <1>6

-----------------------------------------------------------------------------
(* The steps.                                                              *)
LEMMA TypesAre ==
    ASSUME ListsInv
    PROVE  /\ page.list \in Lists /\ page.first \in Seq(Pages!Events) /\ page.more \in Seq(Pages!Events)
           /\ page.next \in CursorsOf(page.list) /\ page.firstNext \in CursorsOf(page.list)
           /\ Pages!Shown \in Seq(Pages!Events)
           /\ Pages!Range(Pages!Shown) = Pages!Range(page.first) \cup Pages!Range(page.more)
           /\ Reached \in CursorsOf(page.list)
           /\ \A q \in asks : q \in AskTypes
  <1>1. page \in PageTypes /\ asks \subseteq AskTypes
      BY DEF ListsInv, ReadingTypes
  <1>2. /\ page.list \in Lists /\ page.first \in Seq(Pages!Events) /\ page.more \in Seq(Pages!Events)
        /\ page.next \in CursorsOf(page.list) /\ page.firstNext \in CursorsOf(page.list)
      BY <1>1 DEF PageTypes
  <1>3. /\ Pages!Shown \in Seq(Pages!Events)
        /\ Pages!Range(Pages!Shown) = Pages!Range(page.first) \cup Pages!Range(page.more)
      BY <1>2, RangeOfJoined DEF Pages!Shown
  <1> QED
      BY <1>1, <1>2, <1>3 DEF Reached

(* A page that shows the same and stands at the same place.                *)
LEMMA SamePage ==
    ASSUME page'.list = page.list, page'.first = page.first, page'.more = page.more,
           page'.next = page.next, page'.firstNext = page.firstNext
    PROVE  /\ Pages!Shown' = Pages!Shown /\ Reached' = Reached
           /\ due' \subseteq due /\ cuts \subseteq cuts' =>
                /\ PageOK => PageOK'
                /\ \A q : RowsOK(q) => RowsOK(q)'
  <1>1. Pages!Shown' = Pages!Shown /\ Reached' = Reached
      BY DEF Pages!Shown, Reached
  <1>2. ASSUME due' \subseteq due, cuts \subseteq cuts', PageOK PROVE PageOK'
      BY <1>1, <1>2 DEF PageOK
  <1>3. ASSUME due' \subseteq due, cuts \subseteq cuts', NEW q, RowsOK(q) PROVE RowsOK(q)'
      BY <1>3 DEF RowsOK
  <1> QED
      BY <1>1, <1>2, <1>3

(* Less is due, and nothing else of the reading changes.                   *)
LEMMA LessDue ==
    ASSUME ReadingOK, page' = page, asks' = asks, cuts' = cuts, restarted' = restarted,
           due' \subseteq due, DueOK => DueOK'
    PROVE  ReadingOK'
  <1>1. /\ Pages!Shown' = Pages!Shown /\ Reached' = Reached /\ (PageOK => PageOK')
        /\ \A q : RowsOK(q) => RowsOK(q)'
      BY SamePage
  <1>2. \A q : AskOK(q) => AskOK(q)'
      BY <1>1 DEF AskOK
  <1> QED
      BY <1>1, <1>2 DEF ReadingOK

LEMMA InitReading == ASSUME ListsGiven, Pages!Init PROVE ListsInv
  <1>1. PICK l \in Lists : \E f \in Filters :
           page = [list |-> l, filter |-> f, first |-> <<>>, more |-> <<>>, next |-> None,
                   firstNext |-> None, loading |-> FALSE, opened |-> FALSE, asked |-> 0]
      BY DEF Pages!Init
  <1>2. PICK f \in Filters :
           page = [list |-> l, filter |-> f, first |-> <<>>, more |-> <<>>, next |-> None,
                   firstNext |-> None, loading |-> FALSE, opened |-> FALSE, asked |-> 0]
      BY <1>1
  <1>3. /\ asks = {} /\ exported = None /\ due = {} /\ cuts = {} /\ restarted = FALSE
        /\ row \in [Pages!Events -> {"absent", "stored", "pruned"}]
        /\ doc \in [Docs -> {"shown", "hidden", "gone"}]
      BY DEF Pages!Init
  <1>4. /\ page.list = l /\ page.filter = f /\ page.first = <<>> /\ page.more = <<>> /\ page.next = None
        /\ page.firstNext = None /\ page.loading = FALSE /\ page.opened = FALSE /\ page.asked = 0
      BY <1>2
  <1>5. ReadingTypes
    <2>1. page \in PageTypes
        BY <1>2, <1>4 DEF PageTypes, CursorsOf
    <2> QED
        BY <1>3, <1>4, <2>1 DEF ReadingTypes
  <1>6. Pages!Shown = <<>> /\ Reached = None
      BY <1>4 DEF Pages!Shown, Reached
  <1>7. ShownWereThere /\ Pages!ExportHasPage
      BY <1>3, <1>6 DEF ShownWereThere, Pages!ExportHasPage, Pages!Range
  <1>8. PageOK /\ DueOK
      BY <1>3, <1>4, <1>6 DEF PageOK, DueOK, InOrder
  <1> QED
      BY <1>3, <1>4, <1>5, <1>6, <1>7, <1>8 DEF ListsInv, ReadingOK

LEMMA StoreStep == ASSUME ListsGiven, ListsInv, NEW e \in Pages!Events, Pages!Store(e) PROVE ListsInv'
  <1>1. /\ row[e] = "absent" /\ row' = [row EXCEPT ![e] = "stored"]
        /\ doc' = doc /\ due' = due /\ page' = page /\ asks' = asks /\ exported' = exported
        /\ cuts' = cuts /\ restarted' = restarted
      BY DEF Pages!Store, Pages!reading
  <1>2. ReadingTypes' /\ row \in [Pages!Events -> {"absent", "stored", "pruned"}]
      BY <1>1 DEF ListsInv, ReadingTypes, PageTypes, AskTypes
  <1>3. \A x : x \in Pages!Events => row'[x] = row[x] \/ x = e
      BY <1>1, <1>2
  <1>4. Pages!Shown' = Pages!Shown
      BY <1>1 DEF Pages!Shown
  <1>5. Pages!Shown \in Seq(Pages!Events) /\ \A q \in asks : q.rows \in Seq(Pages!Events)
      BY TypesAre DEF AskTypes
  <1>6. ShownWereThere' /\ Pages!ExportHasPage'
    <2>1. /\ Pages!Range(Pages!Shown) \subseteq Pages!Events
          /\ \A q \in asks : Pages!Range(q.rows) \subseteq Pages!Events
        BY <1>5 DEF Pages!Range
    <2>2. \A x \in Pages!Events : row[x] # "absent" => row'[x] = row[x]
        BY <1>1, <1>3
    <2>3. ShownWereThere'
        BY <1>1, <1>4, <2>1, <2>2 DEF ListsInv, ShownWereThere
    <2>4. exported # None => \A x \in exported.shown : row'[x] = row[x]
        BY <2>2 DEF ListsInv, ShownWereThere
    <2> QED
        BY <1>1, <2>3, <2>4 DEF ListsInv, Pages!ExportHasPage, Pages!Matches
  <1>7. DueOK => DueOK'
      BY <1>1, <1>2 DEF DueOK, ListsInv, ReadingTypes, Pages!Matches, Pages!Visible
  <1>8. ReadingOK'
      BY <1>1, <1>7, LessDue DEF ListsInv
  <1> QED
      BY <1>2, <1>6, <1>8 DEF ListsInv

LEMMA PruneStep == ASSUME ListsGiven, ListsInv, NEW t, Pages!Prune(t) PROVE ListsInv'
  <1>1. /\ row' = [e \in Pages!Events |-> IF row[e] = "stored" /\ TimeOf[e] < t THEN "pruned" ELSE row[e]]
        /\ due' = {e \in due : row'[e] = "stored"}
        /\ doc' = doc /\ page' = page /\ asks' = asks /\ exported' = exported
        /\ cuts' = cuts /\ restarted' = restarted
      BY DEF Pages!Prune, Pages!reading
  <1>2. ReadingTypes' /\ row \in [Pages!Events -> {"absent", "stored", "pruned"}]
      BY <1>1 DEF ListsInv, ReadingTypes, PageTypes, AskTypes
  <1>3. \A x \in Pages!Events : /\ row[x] # "absent" => row'[x] # "absent"
                               /\ (row[x] = "pruned" => row'[x] = "pruned")
      BY <1>1
  <1>4. Pages!Shown' = Pages!Shown
      BY <1>1 DEF Pages!Shown
  <1>5. Pages!Shown \in Seq(Pages!Events) /\ \A q \in asks : q.rows \in Seq(Pages!Events)
      BY TypesAre DEF AskTypes
  <1>6. ShownWereThere' /\ Pages!ExportHasPage'
    <2>1. /\ Pages!Range(Pages!Shown) \subseteq Pages!Events
          /\ \A q \in asks : Pages!Range(q.rows) \subseteq Pages!Events
        BY <1>5 DEF Pages!Range
    <2>2. ShownWereThere'
        BY <1>1, <1>3, <1>4, <2>1 DEF ListsInv, ShownWereThere
    <2>3. exported # None => exported.shown \subseteq Pages!Events
        BY DEF ListsInv, ShownWereThere
    <2> QED
        BY <1>1, <1>3, <2>2, <2>3 DEF ListsInv, Pages!ExportHasPage, Pages!Matches
  <1>7. DueOK => DueOK'
      BY <1>1 DEF DueOK, Pages!Matches, Pages!Visible
  <1>8. ReadingOK'
      BY <1>1, <1>7, LessDue DEF ListsInv
  <1> QED
      BY <1>2, <1>6, <1>8 DEF ListsInv

LEMMA ChangeStep ==
    ASSUME ListsGiven, ListsInv, NEW d \in Docs, NEW s \in {"hidden", "gone"}, Pages!Change(d, s)
    PROVE  ListsInv'
  <1>1. /\ doc' = [doc EXCEPT ![d] = s]
        /\ due' = IF s = "hidden" /\ page.list = "activity" THEN {e \in due : DocOf[e] # d} ELSE due
        /\ row' = row /\ page' = page /\ asks' = asks /\ exported' = exported
        /\ cuts' = cuts /\ restarted' = restarted
      BY DEF Pages!Change, Pages!reading
  <1>2. ReadingTypes' /\ doc \in [Docs -> {"shown", "hidden", "gone"}] /\ due \subseteq Pages!Events
      BY <1>1 DEF ListsInv, ReadingTypes, PageTypes, AskTypes
  <1>3. ShownWereThere' /\ Pages!ExportHasPage'
      BY <1>1 DEF ListsInv, ShownWereThere, Pages!ExportHasPage, Pages!Shown, Pages!Matches
  <1>4. due' \subseteq due
      BY <1>1
  <1>5. ASSUME DueOK, NEW e \in due', page.list = "activity" PROVE Pages!Visible(e)'
    <2>1. e \in due /\ Pages!Visible(e) /\ e \in Pages!Events /\ DocOf[e] \in Docs \cup {None}
        BY <1>2, <1>4, <1>5 DEF DueOK, ListsGiven
    <2>2. DocOf[e] # None /\ DocOf[e] = d => s = "gone"
        BY <1>1, <1>5
    <2> QED
        BY <1>1, <1>2, <2>1, <2>2 DEF Pages!Visible
  <1>6. DueOK => DueOK'
      BY <1>1, <1>4, <1>5 DEF DueOK, Pages!Matches
  <1>7. ReadingOK'
      BY <1>1, <1>4, <1>6, LessDue DEF ListsInv
  <1> QED
      BY <1>2, <1>3, <1>7 DEF ListsInv

(* The fields of a page.                                                   *)
LEMMA PageFields ==
    ASSUME page \in PageTypes
    PROVE  page = [list |-> page.list, filter |-> page.filter, first |-> page.first, more |-> page.more,
                   next |-> page.next, firstNext |-> page.firstNext, loading |-> page.loading,
                   opened |-> page.opened, asked |-> page.asked]
  BY DEF PageTypes

(* A request that has just begun has the types of one.                     *)
LEMMA RequestIs ==
    ASSUME ListsInv, NEW f \in Filters, NEW c \in CursorsOf(page.list)
    PROVE  /\ Pages!Request(f, c) \in AskTypes
           /\ Pages!Request(f, c).filter = f /\ Pages!Request(f, c).cursor = c
           /\ Pages!Request(f, c).at = "query"
           /\ Pages!Request(f, c).rows = <<>>
  BY DEF Pages!Request, AskTypes, ListsInv, ReadingTypes, PageTypes, CursorsOf

(* A request begins and what is shown stays: types and what was there.     *)
LEMMA AskKeeps ==
    ASSUME ListsInv, NEW f \in Filters, NEW c \in CursorsOf(page.list),
           asks' = asks \cup {Pages!Request(f, c)}, exported' = exported, row' = row, doc' = doc,
           due' = due, cuts' = cuts, restarted' \in BOOLEAN, page' \in PageTypes',
           page'.list = page.list, page'.first = page.first, page'.more = page.more,
           page'.firstNext = page.firstNext
    PROVE  ReadingTypes' /\ ShownWereThere' /\ Pages!ExportHasPage'
  <1>1. /\ Pages!Request(f, c) \in AskTypes /\ Pages!Request(f, c).at = "query"
        /\ Pages!Request(f, c).rows = <<>>
      BY RequestIs
  <1>2. AskTypes' = AskTypes
      BY DEF AskTypes, CursorsOf
  <1>3. ReadingTypes'
      BY <1>1, <1>2 DEF ListsInv, ReadingTypes
  <1>4. Pages!Shown' = Pages!Shown
      BY DEF Pages!Shown
  <1>5. Pages!Range(<<>>) = {}
      BY DEF Pages!Range
  <1>6. ShownWereThere'
      BY <1>1, <1>4, <1>5 DEF ListsInv, ShownWereThere
  <1> QED
      BY <1>3, <1>6 DEF ListsInv, Pages!ExportHasPage, Pages!Matches

(* A first page is asked for and nothing else is under way.                *)
LEMMA AskFirst ==
    ASSUME ListsInv, NEW f \in Filters, asks' = {Pages!Request(f, None)},
           page'.filter = f, page'.opened = TRUE,
           IF page'.list = "activity"
           THEN Pages!Shown' = <<>> /\ page'.next = None /\ page'.firstNext = None ELSE page'.loading
    PROVE  ReadingOK'
  <1>1. None \in CursorsOf(page.list)
      BY DEF CursorsOf
  <1>2. /\ Pages!Request(f, None).filter = f /\ Pages!Request(f, None).cursor = None
        /\ Pages!Request(f, None).at = "query"
      BY <1>1, RequestIs
  <1> QED
      BY <1>2 DEF ReadingOK, AskOK

LEMMA OpenStep == ASSUME ListsGiven, ListsInv, Pages!Open PROVE ListsInv'
  <1>1. /\ ~page.opened /\ asks' = asks \cup {Pages!Request(page.filter, None)} /\ exported' = exported
        /\ page' = [page EXCEPT !.opened = TRUE, !.loading = page.list # "activity", !.asked = @ + 1]
        /\ row' = row /\ doc' = doc /\ due' = due /\ cuts' = cuts /\ restarted' = restarted
      BY DEF Pages!Open, Pages!Ask
  <1>2. page \in PageTypes /\ restarted \in BOOLEAN
      BY DEF ListsInv, ReadingTypes
  <1>21. page' = [list |-> page.list, filter |-> page.filter, first |-> page.first, more |-> page.more,
                 next |-> page.next, firstNext |-> page.firstNext, loading |-> (page.list # "activity"),
                 opened |-> TRUE, asked |-> (page.asked + 1)]
      BY <1>1, <1>2, PageFields
  <1>3. /\ page' \in PageTypes /\ page'.list = page.list /\ page'.first = page.first
        /\ page'.more = page.more /\ page'.next = page.next /\ page'.firstNext = page.firstNext
        /\ page'.filter = page.filter /\ page'.opened = TRUE /\ page'.loading = (page.list # "activity")
        /\ page.filter \in Filters
      BY <1>2, <1>21 DEF PageTypes
  <1>4. page' \in PageTypes'
      BY <1>3 DEF PageTypes, CursorsOf
  <1>5. None \in CursorsOf(page.list)
      BY DEF CursorsOf
  <1>6. ReadingTypes' /\ ShownWereThere' /\ Pages!ExportHasPage'
      BY <1>1, <1>2, <1>3, <1>4, <1>5, AskKeeps
  <1>7. CASE ~restarted
    <2>1. asks = {} /\ Pages!Shown = <<>> /\ page.next = None /\ page.firstNext = None
        BY <1>1, <1>7 DEF ListsInv, ReadingOK
    <2>2. Pages!Shown' = <<>>
        BY <1>3, <2>1 DEF Pages!Shown
    <2>3. asks' = {Pages!Request(page.filter, None)}
        BY <1>1, <2>1
    <2>4. IF page'.list = "activity"
          THEN Pages!Shown' = <<>> /\ page'.next = None /\ page'.firstNext = None ELSE page'.loading
        BY <1>3, <2>1, <2>2
    <2> QED
        BY <1>3, <1>6, <2>3, <2>4, AskFirst DEF ListsInv
  <1>8. CASE restarted
      BY <1>1, <1>6, <1>8 DEF ListsInv, ReadingOK
  <1> QED
      BY <1>2, <1>7, <1>8

LEMMA LoadMoreStep == ASSUME ListsGiven, ListsInv, Pages!LoadMore PROVE ListsInv'
  <1>1. /\ page.opened /\ ~page.loading /\ Pages!Cursor # None
        /\ asks' = asks \cup {Pages!Request(page.filter, Pages!Cursor)} /\ exported' = exported
        /\ page' = [page EXCEPT !.loading = TRUE, !.asked = @ + 1]
        /\ restarted' = (restarted \/ (page.next = None /\ page.more # <<>>))
        /\ row' = row /\ doc' = doc /\ due' = due /\ cuts' = cuts
      BY DEF Pages!LoadMore, Pages!Ask
  <1>2. page \in PageTypes /\ restarted \in BOOLEAN
      BY DEF ListsInv, ReadingTypes
  <1>21. page' = [list |-> page.list, filter |-> page.filter, first |-> page.first, more |-> page.more,
                 next |-> page.next, firstNext |-> page.firstNext, loading |-> TRUE,
                 opened |-> page.opened, asked |-> (page.asked + 1)]
      BY <1>1, <1>2, PageFields
  <1>3. /\ page' \in PageTypes /\ page'.list = page.list /\ page'.first = page.first
        /\ page'.more = page.more /\ page'.next = page.next /\ page'.firstNext = page.firstNext
        /\ page'.filter = page.filter /\ page'.opened = page.opened /\ page'.loading = TRUE
        /\ page.filter \in Filters
      BY <1>2, <1>21 DEF PageTypes
  <1>4. page' \in PageTypes'
      BY <1>3 DEF PageTypes, CursorsOf
  <1>5. Pages!Cursor \in CursorsOf(page.list)
      BY TypesAre DEF Pages!Cursor
  <1>6. ReadingTypes' /\ ShownWereThere' /\ Pages!ExportHasPage'
      BY <1>1, <1>2, <1>3, <1>4, <1>5, AskKeeps
  <1>7. CASE restarted'
      BY <1>6, <1>7 DEF ListsInv, ReadingOK
  <1>8. CASE ~restarted'
    <2> PICK q : q = Pages!Request(page.filter, Pages!Cursor)
        OBVIOUS
    <2>1. ~restarted /\ ~(page.next = None /\ page.more # <<>>)
        BY <1>1, <1>8
    <2>2. Pages!Cursor = Reached
        BY <2>1, <1>1 DEF Pages!Cursor, Reached, ListsInv, ReadingTypes
    <2>3. asks = {}
      <3>1. ASSUME NEW k \in asks PROVE FALSE
        <4>1. AskOK(k)
            BY <2>1 DEF ListsInv, ReadingOK
        <4>2. k.cursor = None /\ page.list = "activity" /\ page.next = None /\ page.firstNext = None
            BY <1>1, <4>1 DEF AskOK
        <4> QED
            BY <1>1, <4>2 DEF Pages!Cursor
      <3> QED
          BY <3>1
    <2>4. asks' = {q}
        BY <1>1, <2>3
    <2>5. q.filter = page.filter /\ q.cursor = Pages!Cursor /\ q.at = "query"
        BY <1>3, <1>5, RequestIs
    <2>6. PageOK /\ DueOK
        BY <2>1, <2>3 DEF ListsInv, ReadingOK
    <2>7. Reached' = Reached /\ PageOK'
        BY <1>1, <1>3, <2>6, SamePage
    <2>8. DueOK'
        BY <1>1, <1>3, <2>6 DEF DueOK, Pages!Matches, Pages!Visible
    <2>9. AskOK(q)'
        BY <1>1, <1>3, <2>2, <2>5, <2>7 DEF AskOK
    <2>10. ReadingOK'
        BY <1>1, <1>3, <2>4, <2>7, <2>8, <2>9 DEF ReadingOK
    <2> QED
        BY <1>6, <2>10 DEF ListsInv
  <1> QED
      BY <1>7, <1>8

LEMMA RefetchStep == ASSUME ListsGiven, ListsInv, Pages!Refetch PROVE ListsInv'
  <1>1. /\ asks' = asks \cup {Pages!Request(page.filter, None)} /\ exported' = exported
        /\ page' = [page EXCEPT !.asked = @ + 1] /\ restarted' = TRUE
        /\ row' = row /\ doc' = doc /\ due' = due /\ cuts' = cuts
      BY DEF Pages!Refetch, Pages!Ask
  <1>2. page \in PageTypes
      BY DEF ListsInv, ReadingTypes
  <1>21. page' = [list |-> page.list, filter |-> page.filter, first |-> page.first, more |-> page.more,
                 next |-> page.next, firstNext |-> page.firstNext, loading |-> page.loading,
                 opened |-> page.opened, asked |-> (page.asked + 1)]
      BY <1>1, <1>2, PageFields
  <1>3. /\ page' \in PageTypes /\ page'.list = page.list /\ page'.first = page.first
        /\ page'.more = page.more /\ page'.firstNext = page.firstNext /\ page.filter \in Filters
      BY <1>2, <1>21 DEF PageTypes
  <1>4. page' \in PageTypes'
      BY <1>3 DEF PageTypes, CursorsOf
  <1>5. None \in CursorsOf(page.list)
      BY DEF CursorsOf
  <1>6. ReadingTypes' /\ ShownWereThere' /\ Pages!ExportHasPage'
      BY <1>1, <1>3, <1>4, <1>5, AskKeeps
  <1> QED
      BY <1>1, <1>6 DEF ListsInv, ReadingOK

LEMMA EnterStep == ASSUME ListsGiven, ListsInv, NEW f \in Filters, Pages!Enter(f) PROVE ListsInv'
  <1>1. /\ page.list = "audit" /\ page.opened
        /\ asks' = asks \cup {Pages!Request(f, None)} /\ exported' = exported
        /\ page' = [page EXCEPT !.filter = f, !.loading = TRUE, !.asked = @ + 1]
        /\ restarted' = (asks # {})
        /\ row' = row /\ doc' = doc /\ due' = due /\ cuts' = cuts
      BY DEF Pages!Enter, Pages!Ask
  <1>2. page \in PageTypes
      BY DEF ListsInv, ReadingTypes
  <1>21. page' = [list |-> page.list, filter |-> f, first |-> page.first, more |-> page.more,
                 next |-> page.next, firstNext |-> page.firstNext, loading |-> TRUE,
                 opened |-> page.opened, asked |-> (page.asked + 1)]
      BY <1>1, <1>2, PageFields
  <1>3. /\ page' \in PageTypes /\ page'.list = page.list /\ page'.first = page.first
        /\ page'.more = page.more /\ page'.firstNext = page.firstNext
        /\ page'.filter = f /\ page'.opened = page.opened /\ page'.loading = TRUE
      BY <1>2, <1>21 DEF PageTypes
  <1>4. page' \in PageTypes'
      BY <1>3 DEF PageTypes, CursorsOf
  <1>5. None \in CursorsOf(page.list)
      BY DEF CursorsOf
  <1>6. ReadingTypes' /\ ShownWereThere' /\ Pages!ExportHasPage'
      BY <1>1, <1>3, <1>4, <1>5, AskKeeps
  <1>7. CASE asks = {}
    <2>1. asks' = {Pages!Request(f, None)}
        BY <1>1, <1>7
    <2>2. ReadingOK'
        BY <1>1, <1>2, <1>3, <2>1, AskFirst DEF PageTypes
    <2> QED
        BY <1>6, <2>2 DEF ListsInv
  <1>8. CASE asks # {}
      BY <1>1, <1>6, <1>8 DEF ListsInv, ReadingOK
  <1> QED
      BY <1>7, <1>8

LEMMA ExportStep == ASSUME ListsGiven, ListsInv, Pages!Export PROVE ListsInv'
  <1>1. PICK s \in Pages!Orders("audit", Pages!Selected("audit", page.filter, None)) :
           exported' = [rows |-> Pages!Range(Pages!Cut(s, ExportCap)), truncated |-> Len(s) > ExportCap,
                        filter |-> page.filter, shown |-> Pages!Range(Pages!Shown)]
      BY DEF Pages!Export
  <1>2. /\ page.list = "audit" /\ row' = row /\ doc' = doc /\ page' = page /\ asks' = asks
        /\ due' = due /\ cuts' = cuts /\ restarted' = restarted
      BY DEF Pages!Export
  <1>3. /\ exported'.rows = Pages!Range(Pages!Cut(s, ExportCap))
        /\ exported'.truncated = (Len(s) > ExportCap)
        /\ exported'.filter = page.filter /\ exported'.shown = Pages!Range(Pages!Shown)
      BY <1>1
  <1>4. ReadingTypes'
      BY <1>2 DEF ListsInv, ReadingTypes, PageTypes, AskTypes
  <1>5. ReadingOK'
    <2>1. DueOK => DueOK'
        BY <1>2 DEF DueOK, Pages!Matches, Pages!Visible
    <2> QED
        BY <1>2, <2>1, LessDue DEF ListsInv
  <1>6. Pages!Range(Pages!Shown) \subseteq Pages!Events /\ Pages!Shown' = Pages!Shown
    <2>1. Pages!Shown \in Seq(Pages!Events)
        BY TypesAre
    <2>2. Pages!Shown' = Pages!Shown
        BY <1>2 DEF Pages!Shown
    <2> QED
        BY <2>1, <2>2 DEF Pages!Range
  <1>7. ShownWereThere'
      BY <1>2, <1>3, <1>6 DEF ListsInv, ShownWereThere
  <1>8. ASSUME ~exported'.truncated, NEW e \in Pages!Range(Pages!Shown), row[e] # "pruned",
               Pages!Matches("audit", page.filter, e)
        PROVE  e \in exported'.rows
    <2>1. e \in Pages!Events /\ row[e] = "stored"
        BY <1>6, <1>8 DEF ListsInv, ShownWereThere, ReadingTypes
    <2>2. e \in Pages!Selected("audit", page.filter, None)
        BY <1>8, <2>1 DEF Pages!Selected, Pages!Stored, Pages!Below
    <2>3. /\ s \in Seq(Pages!Events) /\ Pages!Range(s) = Pages!Selected("audit", page.filter, None)
          /\ DOMAIN s = 1..Len(s) /\ Len(s) \in Nat
      <3>1. "audit" \in Lists
          BY <1>2, TypesAre
      <3>2. Pages!Selected("audit", page.filter, None) \in SUBSET Pages!Events
          BY DEF Pages!Selected, Pages!Stored
      <3> QED
          BY <3>1, <3>2, OrderIs
    <2>4. PICK i \in DOMAIN s : s[i] = e
        BY <2>2, <2>3 DEF Pages!Range
    <2>5. ExportCap \in Nat /\ i <= ExportCap
      <3>1. ExportCap \in Nat /\ ~(Len(s) > ExportCap) /\ i \in 1..Len(s) /\ Len(s) \in Nat
          BY <1>3, <1>8, <2>3, <2>4 DEF ListsGiven
      <3> QED
          BY <3>1
    <2>6. i \in DOMAIN Pages!Cut(s, ExportCap) /\ Pages!Cut(s, ExportCap)[i] = e
        BY <2>3, <2>4, <2>5, CutIs
    <2> QED
        BY <1>3, <2>6 DEF Pages!Range
  <1>9. Pages!ExportHasPage'
      BY <1>2, <1>3, <1>8 DEF Pages!ExportHasPage, Pages!Matches
  <1> QED
      BY <1>4, <1>5, <1>7, <1>9 DEF ListsInv

(* A request goes on and what is shown stays: types and what was there.    *)
LEMMA RequestGoesOn ==
    ASSUME ListsInv, NEW q \in asks, NEW k \in AskTypes, asks' = (asks \ {q}) \cup {k},
           k.at = "documents" => page.list = "activity",
           \A e \in Pages!Range(k.rows) : row[e] # "absent",
           exported' = exported, row' = row, doc' = doc, page' = page, due' \subseteq Pages!Events,
           cuts' \subseteq Nat, restarted' \in BOOLEAN
    PROVE  ReadingTypes' /\ ShownWereThere' /\ Pages!ExportHasPage'
  <1>1. AskTypes' = AskTypes /\ PageTypes' = PageTypes
      BY DEF AskTypes, PageTypes, CursorsOf
  <1>2. ReadingTypes'
      BY <1>1 DEF ListsInv, ReadingTypes
  <1>3. ShownWereThere'
      BY DEF ListsInv, ShownWereThere, Pages!Shown
  <1> QED
      BY <1>2, <1>3 DEF ListsInv, Pages!ExportHasPage, Pages!Matches

(* What lies beyond the next cursor of a page lies beyond its own.         *)
LEMMA BeyondGrows ==
    ASSUME ListsGiven, NEW list \in Lists, NEW c \in CursorsOf(list), c # None,
           NEW x \in Pages!Events, Beyond(list, c, x), NEW e \in Pages!Events,
           Beyond(list, IF list = "admin" THEN x ELSE TimeOf[x], e)
    PROVE  Beyond(list, c, e)
  <1>1. TimeOf[e] \in Nat /\ TimeOf[x] \in Nat /\ e \in Nat /\ x \in Nat
      BY TimesAre
  <1>2. CASE list = "admin"
    <2>1. c \in Pages!Events /\ TimeOf[c] \in Nat /\ c \in Nat
        BY <1>2, TimesAre DEF CursorsOf
    <2> QED
        BY <1>1, <1>2, <2>1 DEF Beyond
  <1>3. CASE list # "admin"
    <2>1. c \in Nat
        BY <1>3 DEF CursorsOf
    <2> QED
        BY <1>1, <1>3, <2>1 DEF Beyond
  <1> QED
      BY <1>2, <1>3

LEMMA QueryRowsStep ==
    ASSUME ListsGiven, ListsInv, NEW q \in asks, Pages!QueryRows(q) PROVE ListsInv'
  <1> DEFINE S == Pages!Selected(page.list, q.filter, q.cursor)
  <1>1. PICK s \in Pages!Orders(page.list, S) :
          /\ asks' = (asks \ {q}) \cup
               {[q EXCEPT !.at = IF page.list = "activity" THEN "documents" ELSE "answer",
                          !.rows = Pages!Cut(s, PageSize), !.next = Pages!NextOf(page.list, s)]}
          /\ cuts' = (IF q.cursor = None THEN {} ELSE cuts)
                       \cup (IF Pages!NextOf(page.list, s) = None \/ page.list = "admin" THEN {}
                             ELSE {Pages!NextOf(page.list, s)})
      BY DEF Pages!QueryRows
  <1>2. /\ q.at = "query"
        /\ due' = IF q.cursor = None
                  THEN {e \in Pages!Stored : Pages!Matches(page.list, q.filter, e)
                                                     /\ (page.list = "activity" => Pages!Visible(e))}
                  ELSE due
        /\ restarted' = (restarted \/ (page.list = "admin" /\ q.cursor \notin Pages!Stored \cup {None}))
        /\ row' = row /\ doc' = doc /\ page' = page /\ exported' = exported
      BY DEF Pages!QueryRows
  <1>3. page.list \in Lists /\ q \in AskTypes /\ S \in SUBSET Pages!Events /\ S \subseteq Pages!Stored
      BY TypesAre DEF Pages!Selected, Pages!Stored
  <1>4. PICK n : n = Pages!NextOf(page.list, s)
      OBVIOUS
  <1>5. PICK t : t = Pages!Cut(s, PageSize)
      OBVIOUS
  <1>6. /\ t \in Seq(Pages!Events) /\ Pages!Range(t) \subseteq S /\ InOrder(page.list, t)
        /\ n \in CursorsOf(page.list)
        /\ n = None => Pages!Range(t) = S
        /\ n # None =>
             /\ \A e \in Pages!Range(t) : ~Beyond(page.list, n, e)
             /\ \A e \in S : \/ e \in Pages!Range(t) \/ Beyond(page.list, n, e)
                             \/ page.list # "admin" /\ TimeOf[e] = n
             /\ \E x \in S : n = IF page.list = "admin" THEN x ELSE TimeOf[x]
      BY <1>3, <1>4, <1>5, PageIs
  <1>7. PICK k : k = [q EXCEPT !.at = IF page.list = "activity" THEN "documents" ELSE "answer",
                               !.rows = t, !.next = n]
      OBVIOUS
  <1>8. asks' = (asks \ {q}) \cup {k}
      BY <1>1, <1>4, <1>5, <1>7
  <1>9. /\ k \in AskTypes /\ k.at = (IF page.list = "activity" THEN "documents" ELSE "answer")
        /\ k.filter = q.filter /\ k.cursor = q.cursor /\ k.rows = t /\ k.next = n
      BY <1>3, <1>6, <1>7 DEF AskTypes
  <1>10. cuts' = (IF q.cursor = None THEN {} ELSE cuts)
                   \cup (IF n = None \/ page.list = "admin" THEN {} ELSE {n})
      BY <1>1, <1>4
  <1> HIDE DEF S
  <1>11. ReadingTypes' /\ ShownWereThere' /\ Pages!ExportHasPage'
    <2>1. \A e \in Pages!Range(k.rows) : row[e] # "absent"
        BY <1>3, <1>6, <1>9 DEF Pages!Stored
    <2>2. due' \subseteq Pages!Events
        BY <1>2 DEF Pages!Stored, ListsInv, ReadingTypes
    <2>3. cuts' \subseteq Nat
        BY <1>6, <1>10 DEF CursorsOf, ListsInv, ReadingTypes
    <2>4. restarted' \in BOOLEAN
        BY <1>2 DEF ListsInv, ReadingTypes
    <2>5. k.at = "documents" => page.list = "activity"
        BY <1>9
    <2> QED
        BY <1>2, <1>8, <1>9, <2>1, <2>2, <2>3, <2>4, <2>5, RequestGoesOn
  <1>12. CASE restarted'
      BY <1>11, <1>12 DEF ListsInv, ReadingOK
  <1>13. CASE ~restarted'
    <2>1. ~restarted /\ (page.list = "admin" => q.cursor \in Pages!Stored \cup {None})
        BY <1>2, <1>13
    <2>2. asks = {q} /\ AskOK(q) /\ page.opened
        BY <2>1 DEF ListsInv, ReadingOK
    <2>3. asks' = {k}
        BY <1>8, <2>2
    <2>4. Pages!Shown' = Pages!Shown /\ Reached' = Reached
        BY <1>2, SamePage
    <2>5. \A e \in Pages!Events : e \in S <=> /\ row[e] = "stored" /\ Pages!Matches(page.list, q.filter, e)
                                              /\ q.cursor # None => Beyond(page.list, q.cursor, e)
      <3>1. CASE q.cursor = None
          BY <3>1 DEF S, Pages!Selected, Pages!Stored, Pages!Below
      <3>2. CASE q.cursor # None /\ page.list = "admin"
          BY <2>1, <3>2 DEF S, Pages!Selected, Pages!Stored, Pages!Below, Beyond
      <3>3. CASE q.cursor # None /\ page.list # "admin"
          BY <3>3 DEF S, Pages!Selected, Pages!Stored, Pages!Below, Beyond
      <3> QED
          BY <3>1, <3>2, <3>3
    <2>6. DueOK' /\ (q.cursor # None => DueOK /\ due' = due)
      <3>1. CASE q.cursor = None
          BY <1>2, <2>2, <3>1 DEF DueOK, Pages!Stored, AskOK, Pages!Matches, Pages!Visible
      <3>2. CASE q.cursor # None
        <4>1. DueOK /\ due' = due
            BY <1>2, <2>1, <2>2, <3>2 DEF ListsInv, ReadingOK
        <4> QED
            BY <1>2, <4>1 DEF DueOK, Pages!Matches, Pages!Visible
      <3> QED
          BY <3>1, <3>2
    <2>7. \A e \in due' : (q.cursor # None => Beyond(page.list, q.cursor, e)) => e \in S
      <3> SUFFICES ASSUME NEW e \in due', q.cursor # None => Beyond(page.list, q.cursor, e)
                   PROVE  e \in S
          OBVIOUS
      <3>1. e \in Pages!Events /\ row[e] = "stored" /\ Pages!Matches(page.list, page.filter, e)
        <4>1. e \in Pages!Events
            BY <1>11 DEF ReadingTypes, Pages!Events
        <4> QED
            BY <1>2, <2>6, <4>1 DEF DueOK, Pages!Matches
      <3> QED
          BY <2>2, <2>5, <3>1 DEF AskOK
    <2>8. RowsOK(k)'
      <3>1. \A e \in Pages!Range(t) : /\ q.cursor # None => Beyond(page.list, q.cursor, e)
                                      /\ n # None => ~Beyond(page.list, n, e)
          BY <1>3, <1>6, <2>5
      <3>2. ASSUME q.cursor # None, n # None, NEW e \in Pages!Events, Beyond(page.list, n, e)
            PROVE  Beyond(page.list, q.cursor, e)
        <4>1. PICK x \in S : n = IF page.list = "admin" THEN x ELSE TimeOf[x]
            BY <1>6, <3>2
        <4>2. x \in Pages!Events /\ Beyond(page.list, q.cursor, x)
            BY <1>3, <2>5, <3>2, <4>1
        <4>3. q.cursor \in CursorsOf(page.list)
            BY <1>3 DEF AskTypes
        <4> QED
            BY <1>3, <3>2, <4>1, <4>2, <4>3, BeyondGrows
      <3>3. ASSUME NEW e \in due', q.cursor # None => Beyond(page.list, q.cursor, e)
            PROVE  e \in Pages!Range(t) \/ TimeOf[e] \in cuts' \/ (n # None /\ Beyond(page.list, n, e))
        <4>1. e \in S
            BY <2>7, <3>3
        <4>2. CASE n = None
            BY <1>6, <4>1, <4>2
        <4>3. CASE n # None
          <5>1. \/ e \in Pages!Range(t) \/ Beyond(page.list, n, e)
                \/ page.list # "admin" /\ TimeOf[e] = n
              BY <1>6, <4>1, <4>3
          <5>2. page.list # "admin" => n \in cuts'
              BY <1>10, <4>3
          <5> QED
              BY <4>3, <5>1, <5>2
        <4> QED
            BY <4>2, <4>3
      <3> QED
          BY <1>2, <1>6, <1>9, <3>1, <3>2, <3>3 DEF RowsOK, InOrder, Beyond, Pages!Before, Pages!Events
    <2>9. AskOK(k)'
        BY <1>2, <1>9, <2>2, <2>4, <2>8 DEF AskOK
    <2>10. q.cursor # None => PageOK'
      <3> SUFFICES ASSUME q.cursor # None PROVE PageOK'
          OBVIOUS
      <3>1. PageOK /\ due' \subseteq due /\ cuts \subseteq cuts'
          BY <1>10, <2>1, <2>2, <2>6 DEF ListsInv, ReadingOK
      <3> QED
          BY <1>2, <3>1, SamePage
    <2>11. ReadingOK'
        BY <1>2, <1>9, <2>2, <2>3, <2>6, <2>9, <2>10 DEF ReadingOK
    <2> QED
        BY <1>11, <2>11 DEF ListsInv
  <1> QED
      BY <1>12, <1>13

LEMMA ReadDocumentsStep ==
    ASSUME ListsGiven, ListsInv, NEW q \in asks, Pages!ReadDocuments(q) PROVE ListsInv'
  <1>1. PICK s \in Pages!VisibleOf(q.rows) :
          asks' = (asks \ {q}) \cup {[q EXCEPT !.at = "answer", !.rows = s]}
      BY DEF Pages!ReadDocuments
  <1>2. /\ q.at = "documents" /\ row' = row /\ doc' = doc /\ page' = page /\ exported' = exported
        /\ due' = due /\ cuts' = cuts /\ restarted' = restarted
      BY DEF Pages!ReadDocuments
  <1>3. q \in AskTypes /\ q.rows \in Seq(Pages!Events) /\ page.list \in Lists /\ page.list = "activity"
      BY <1>2, TypesAre DEF AskTypes, ListsInv, ReadingTypes
  <1>4. s \in Seq(Pages!Events) /\ Pages!Range(s) = {e \in Pages!Range(q.rows) : Pages!Visible(e)}
    <2>1. /\ {e \in Pages!Range(q.rows) : Pages!Visible(e)} \subseteq Pages!Events
          /\ s \in Pages!SetToSeqs({e \in Pages!Range(q.rows) : Pages!Visible(e)})
        BY <1>3 DEF Pages!Range, Pages!VisibleOf
    <2>2. /\ s \in Seq({e \in Pages!Range(q.rows) : Pages!Visible(e)})
          /\ Pages!Range(s) = {e \in Pages!Range(q.rows) : Pages!Visible(e)}
        BY <2>1, EventsFinite, AllOfASet
    <2> QED
        BY <2>1, <2>2
  <1>5. PICK k : k = [q EXCEPT !.at = "answer", !.rows = s]
      OBVIOUS
  <1>6. asks' = (asks \ {q}) \cup {k}
      BY <1>1, <1>5
  <1>7. /\ k \in AskTypes /\ k.at = "answer" /\ k.filter = q.filter /\ k.cursor = q.cursor
        /\ k.rows = s /\ k.next = q.next
      BY <1>3, <1>4, <1>5 DEF AskTypes
  <1>8. ReadingTypes' /\ ShownWereThere' /\ Pages!ExportHasPage'
    <2>1. \A e \in Pages!Range(k.rows) : row[e] # "absent"
        BY <1>4, <1>7 DEF ListsInv, ShownWereThere
    <2>2. due' \subseteq Pages!Events /\ cuts' \subseteq Nat /\ restarted' \in BOOLEAN
        BY <1>2 DEF ListsInv, ReadingTypes
    <2> QED
        BY <1>2, <1>6, <1>7, <2>1, <2>2, RequestGoesOn
  <1>9. CASE restarted'
      BY <1>8, <1>9 DEF ListsInv, ReadingOK
  <1>10. CASE ~restarted'
    <2>1. ~restarted /\ asks = {q} /\ AskOK(q) /\ RowsOK(q) /\ page.opened
        BY <1>2, <1>10 DEF ListsInv, ReadingOK, AskOK
    <2>2. asks' = {k}
        BY <1>6, <2>1
    <2>3. DueOK /\ DueOK'
      <3>1. DueOK
          BY <1>2, <2>1 DEF ListsInv, ReadingOK
      <3> QED
          BY <1>2, <3>1 DEF DueOK, Pages!Matches, Pages!Visible
    <2>4. InOrder(page.list, s)
        BY <1>3, <2>1, VisibleIs DEF RowsOK
    <2>5. RowsOK(k)
      <3>1. \A e \in due : e \in Pages!Range(q.rows) => e \in Pages!Range(s)
          BY <1>3, <1>4, <2>3 DEF DueOK
      <3> QED
          BY <1>4, <1>7, <2>1, <2>4, <3>1 DEF RowsOK
    <2>6. /\ Pages!Shown' = Pages!Shown /\ Reached' = Reached /\ RowsOK(k)' /\ (PageOK => PageOK')
        BY <1>2, <2>5, SamePage
    <2>7. AskOK(k)'
        BY <1>2, <1>7, <2>1, <2>6 DEF AskOK
    <2>8. q.cursor # None => PageOK
        BY <2>1 DEF ListsInv, ReadingOK
    <2>9. ReadingOK'
        BY <1>2, <1>7, <2>1, <2>2, <2>3, <2>6, <2>7, <2>8 DEF ReadingOK
    <2> QED
        BY <1>8, <2>9 DEF ListsInv
  <1> QED
      BY <1>9, <1>10

(* An answer is taken from those under way: types and what was there.      *)
LEMMA RequestEnds ==
    ASSUME ListsInv, NEW q \in asks, asks' = asks \ {q}, exported' = exported, row' = row,
           doc' = doc, due' = due, cuts' = cuts, restarted' \in BOOLEAN,
           page' \in PageTypes, page'.list = page.list,
           page.list # "activity" => page'.firstNext = None,
           Pages!Range(page'.first) \cup Pages!Range(page'.more)
               \subseteq Pages!Range(Pages!Shown) \cup Pages!Range(q.rows)
    PROVE  ReadingTypes' /\ ShownWereThere' /\ Pages!ExportHasPage'
  <1>1. AskTypes' = AskTypes /\ PageTypes' = PageTypes
      BY DEF AskTypes, PageTypes, CursorsOf
  <1>2. ReadingTypes'
      BY <1>1 DEF ListsInv, ReadingTypes
  <1>3. Pages!Range(Pages!Shown)' = Pages!Range(page'.first) \cup Pages!Range(page'.more)
      BY RangeOfJoined DEF Pages!Shown, PageTypes
  <1>4. ShownWereThere'
      BY <1>3 DEF ListsInv, ShownWereThere
  <1> QED
      BY <1>2, <1>4 DEF ListsInv, Pages!ExportHasPage, Pages!Matches

LEMMA JoinedTwice ==
    ASSUME NEW r \in Seq(Pages!Events), NEW s \in Seq(Pages!Events), NEW t \in Seq(Pages!Events)
    PROVE  r \o (s \o t) = (r \o s) \o t
  OBVIOUS

(* The rows of a page that follows what is shown.                          *)
LEMMA NextPage ==
    ASSUME ListsGiven, ListsInv, NEW q \in asks, q.cursor # None, q.cursor = Reached,
           PageOK, RowsOK(q), due' = due, cuts' = cuts,
           page'.list = page.list, page'.first = page.first, page'.more = page.more \o q.rows,
           page'.next = q.next, page'.firstNext = page.firstNext
    PROVE  PageOK'
  <1>1. /\ page.first \in Seq(Pages!Events) /\ page.more \in Seq(Pages!Events)
        /\ Pages!Shown \in Seq(Pages!Events)
        /\ q \in AskTypes /\ q.rows \in Seq(Pages!Events) /\ page.list \in Lists
        /\ q.cursor \in CursorsOf(page.list)
      BY TypesAre DEF AskTypes
  <1>2. /\ Pages!Shown' = Pages!Shown \o q.rows
        /\ Pages!Range(Pages!Shown') = Pages!Range(Pages!Shown) \cup Pages!Range(q.rows)
    <2>1. Pages!Shown' = Pages!Shown \o q.rows
      <3>1. Pages!Shown' = page.first \o (page.more \o q.rows)
          BY DEF Pages!Shown
      <3>2. page.first \o (page.more \o q.rows) = (page.first \o page.more) \o q.rows
          BY <1>1, JoinedTwice
      <3> QED
          BY <3>1, <3>2 DEF Pages!Shown
    <2> QED
        BY <1>1, <2>1, RangeOfJoined
  <1>3. /\ Pages!Range(Pages!Shown) \subseteq Pages!Events /\ Pages!Range(q.rows) \subseteq Pages!Events
        /\ \A e \in Pages!Range(Pages!Shown) : ~Beyond(page.list, q.cursor, e)
        /\ \A e \in Pages!Range(q.rows) : Beyond(page.list, q.cursor, e)
      BY <1>1 DEF PageOK, RowsOK, Pages!Range
  <1>4. InOrder(page.list, Pages!Shown')
    <2>1. \A e \in Pages!Range(Pages!Shown), f \in Pages!Range(q.rows) :
             e # f /\ Pages!Before(page.list, e, f)
        BY <1>1, <1>3, BeyondIsAfter
    <2> QED
        BY <1>1, <1>2, <2>1, JoinedInOrder DEF PageOK, RowsOK
  <1>5. q.next # None => Reached' = q.next
      BY DEF Reached
  <1>6. q.next = None =>
          \/ Reached' = None
          \/ Reached' = page.firstNext /\ Pages!Shown' = page.first
    <2>1. page.more \o q.rows = <<>> => page.first \o (page.more \o q.rows) = page.first
        BY <1>1
    <2> QED
        BY <2>1 DEF Reached, Pages!Shown
  <1>7. ASSUME Reached' # None, NEW e \in Pages!Range(Pages!Shown') PROVE ~Beyond(page.list, Reached', e)
    <2>1. CASE q.next = None
        BY <1>6, <1>7, <2>1 DEF PageOK
    <2>2. CASE q.next # None
      <3>1. CASE e \in Pages!Range(q.rows)
          BY <1>5, <2>2, <3>1 DEF RowsOK
      <3>2. CASE e \in Pages!Range(Pages!Shown)
          BY <1>3, <1>5, <2>2, <3>2 DEF RowsOK
      <3> QED
          BY <1>2, <1>7, <3>1, <3>2
    <2> QED
        BY <2>1, <2>2
  <1>8. ASSUME NEW e \in due
        PROVE  \/ e \in Pages!Range(Pages!Shown') \/ TimeOf[e] \in cuts
               \/ Reached' # None /\ Beyond(page.list, Reached', e)
    <2>1. \/ e \in Pages!Range(Pages!Shown) \/ TimeOf[e] \in cuts
          \/ Beyond(page.list, q.cursor, e)
        BY DEF PageOK
    <2>2. Beyond(page.list, q.cursor, e) =>
            \/ e \in Pages!Range(q.rows) \/ TimeOf[e] \in cuts
            \/ q.next # None /\ Beyond(page.list, q.next, e)
        BY DEF RowsOK
    <2> QED
        BY <1>2, <1>5, <2>1, <2>2
  <1> QED
      BY <1>4, <1>7, <1>8 DEF PageOK, InOrder, Pages!Before, Beyond

(* A first page.                                                           *)
LEMMA FirstPage ==
    ASSUME ListsGiven, ListsInv, NEW q \in asks, q.cursor = None, RowsOK(q), due' = due, cuts' = cuts,
           page'.list = page.list, page'.first = q.rows, page'.more = <<>>,
           IF page.list = "activity" THEN page'.next = None /\ page'.firstNext = q.next
                                     ELSE page'.next = q.next /\ page'.firstNext = None
    PROVE  PageOK'
  <1>1. q.rows \in Seq(Pages!Events)
      BY TypesAre DEF AskTypes
  <1>2. Pages!Shown' = q.rows /\ Reached' = q.next
      BY <1>1 DEF Pages!Shown, Reached
  <1> QED
      BY <1>2 DEF PageOK, RowsOK, InOrder, Pages!Before, Beyond

LEMMA ReceiveStep == ASSUME ListsGiven, ListsInv, NEW q \in asks, Pages!Receive(q) PROVE ListsInv'
  <1>1. /\ q.at = "answer" /\ asks' = asks \ {q} /\ row' = row /\ doc' = doc /\ exported' = exported
        /\ due' = due /\ cuts' = cuts /\ restarted' = restarted
        /\ page' = IF q.cursor # None
                   THEN [page EXCEPT !.more = @ \o q.rows, !.next = q.next, !.loading = FALSE]
                   ELSE IF page.list = "activity"
                   THEN [page EXCEPT !.first = q.rows, !.firstNext = q.next]
                   ELSE [page EXCEPT !.first = q.rows, !.more = <<>>, !.next = q.next, !.loading = FALSE]
      BY DEF Pages!Receive
  <1>2. /\ page \in PageTypes /\ restarted \in BOOLEAN /\ q \in AskTypes
        /\ q.rows \in Seq(Pages!Events) /\ q.next \in CursorsOf(page.list)
        /\ page.first \in Seq(Pages!Events) /\ page.more \in Seq(Pages!Events)
        /\ Pages!Range(Pages!Shown) = Pages!Range(page.first) \cup Pages!Range(page.more)
        /\ page.list # "activity" => page.firstNext = None
      BY TypesAre DEF ListsInv, ReadingTypes, AskTypes
  <1>3. ~restarted =>
          /\ asks = {q} /\ AskOK(q) /\ RowsOK(q) /\ DueOK /\ page.opened
          /\ q.cursor # None => PageOK
      BY <1>1 DEF ListsInv, ReadingOK, AskOK
  <1>4. ASSUME page' \in PageTypes, page'.list = page.list, page'.filter = page.filter,
               page'.opened = page.opened, page.list # "activity" => page'.firstNext = None,
               Pages!Range(page'.first) \cup Pages!Range(page'.more)
                   \subseteq Pages!Range(Pages!Shown) \cup Pages!Range(q.rows),
               ~restarted => PageOK'
        PROVE  ListsInv'
    <2>1. ReadingTypes' /\ ShownWereThere' /\ Pages!ExportHasPage'
        BY <1>1, <1>2, <1>4, RequestEnds
    <2>2. ~restarted => asks' = {} /\ DueOK'
        BY <1>1, <1>3, <1>4 DEF DueOK, Pages!Matches, Pages!Visible
    <2>3. ReadingOK'
        BY <1>1, <1>3, <1>4, <2>2 DEF ReadingOK
    <2> QED
        BY <2>1, <2>3 DEF ListsInv
  <1>5. CASE q.cursor # None
    <2>1. page' = [list |-> page.list, filter |-> page.filter, first |-> page.first,
                   more |-> page.more \o q.rows, next |-> q.next, firstNext |-> page.firstNext,
                   loading |-> FALSE, opened |-> page.opened, asked |-> page.asked]
        BY <1>1, <1>2, <1>5, PageFields
    <2>2. page.more \o q.rows \in Seq(Pages!Events)
        BY <1>2
    <2>3. /\ page' \in PageTypes /\ page'.list = page.list /\ page'.filter = page.filter
          /\ page'.first = page.first /\ page'.more = page.more \o q.rows /\ page'.next = q.next
          /\ page'.firstNext = page.firstNext /\ page'.opened = page.opened
        BY <1>2, <2>1, <2>2 DEF PageTypes
    <2>4. Pages!Range(page'.more) = Pages!Range(page.more) \cup Pages!Range(q.rows)
        BY <1>2, <2>3, RangeOfJoined
    <2>5. ~restarted => PageOK'
        BY <1>1, <1>3, <1>5, <2>3, NextPage DEF AskOK
    <2> QED
        BY <1>2, <1>4, <2>3, <2>4, <2>5
  <1>6. CASE q.cursor = None /\ page.list = "activity"
    <2>1. page' = [list |-> page.list, filter |-> page.filter, first |-> q.rows,
                   more |-> page.more, next |-> page.next, firstNext |-> q.next,
                   loading |-> page.loading, opened |-> page.opened, asked |-> page.asked]
        BY <1>1, <1>2, <1>6, PageFields
    <2>2. /\ page' \in PageTypes /\ page'.list = page.list /\ page'.filter = page.filter
          /\ page'.first = q.rows /\ page'.more = page.more /\ page'.next = page.next
          /\ page'.firstNext = q.next /\ page'.opened = page.opened
        BY <1>2, <2>1 DEF PageTypes
    <2>3. ASSUME ~restarted PROVE PageOK'
      <3>1. Pages!Shown = <<>> /\ page.next = None
          BY <1>3, <1>6, <2>3 DEF AskOK
      <3>2. page.more = <<>>
          BY <1>2, <3>1 DEF Pages!Shown
      <3> QED
          BY <1>1, <1>3, <1>6, <2>2, <2>3, <3>1, <3>2, FirstPage
    <2> QED
        BY <1>2, <1>4, <1>6, <2>2, <2>3
  <1>7. CASE q.cursor = None /\ page.list # "activity"
    <2>1. page' = [list |-> page.list, filter |-> page.filter, first |-> q.rows,
                   more |-> <<>>, next |-> q.next, firstNext |-> page.firstNext,
                   loading |-> FALSE, opened |-> page.opened, asked |-> page.asked]
        BY <1>1, <1>2, <1>7, PageFields
    <2>2. /\ page' \in PageTypes /\ page'.list = page.list /\ page'.filter = page.filter
          /\ page'.first = q.rows /\ page'.more = <<>> /\ page'.next = q.next
          /\ page'.firstNext = page.firstNext /\ page'.opened = page.opened
        BY <1>2, <2>1 DEF PageTypes
    <2>3. Pages!Range(page'.more) = {}
        BY <2>2 DEF Pages!Range
    <2>4. ~restarted => PageOK'
        BY <1>1, <1>2, <1>3, <1>7, <2>2, FirstPage
    <2> QED
        BY <1>2, <1>4, <2>2, <2>3, <2>4
  <1> QED
      BY <1>5, <1>6, <1>7

LEMMA FailsStep == ASSUME ListsGiven, ListsInv, NEW q \in asks, Pages!Fails(q) PROVE ListsInv'
  <1>1. /\ asks' = asks \ {q} /\ page' = [page EXCEPT !.loading = FALSE]
        /\ restarted' = (restarted \/ q.cursor = None)
        /\ row' = row /\ doc' = doc /\ exported' = exported /\ due' = due /\ cuts' = cuts
      BY DEF Pages!Fails
  <1>2. page \in PageTypes /\ restarted \in BOOLEAN
      BY DEF ListsInv, ReadingTypes
  <1>3. page' = [list |-> page.list, filter |-> page.filter, first |-> page.first,
                 more |-> page.more, next |-> page.next, firstNext |-> page.firstNext,
                 loading |-> FALSE, opened |-> page.opened, asked |-> page.asked]
      BY <1>1, <1>2, PageFields
  <1>4. /\ page' \in PageTypes /\ page'.list = page.list /\ page'.filter = page.filter
        /\ page'.first = page.first /\ page'.more = page.more /\ page'.next = page.next
        /\ page'.firstNext = page.firstNext /\ page'.opened = page.opened
      BY <1>2, <1>3 DEF PageTypes
  <1>5. ReadingTypes' /\ ShownWereThere' /\ Pages!ExportHasPage'
    <2>1. /\ page.list # "activity" => page.firstNext = None
          /\ Pages!Range(Pages!Shown) = Pages!Range(page.first) \cup Pages!Range(page.more)
        BY TypesAre DEF ListsInv, ReadingTypes
    <2> QED
        BY <1>1, <1>2, <1>4, <2>1, RequestEnds
  <1>6. CASE restarted'
      BY <1>5, <1>6 DEF ListsInv, ReadingOK
  <1>7. CASE ~restarted'
    <2>1. ~restarted /\ q.cursor # None
        BY <1>1, <1>7
    <2>2. asks = {q} /\ PageOK /\ DueOK /\ page.opened
        BY <2>1 DEF ListsInv, ReadingOK
    <2>3. asks' = {} /\ DueOK'
        BY <1>1, <1>4, <2>2 DEF DueOK, Pages!Matches, Pages!Visible
    <2>4. PageOK'
        BY <1>1, <1>4, <2>2, SamePage
    <2>5. ReadingOK'
        BY <1>4, <2>2, <2>3, <2>4 DEF ReadingOK
    <2> QED
        BY <1>5, <2>5 DEF ListsInv
  <1> QED
      BY <1>6, <1>7

LEMMA StandStill == ASSUME ListsInv, UNCHANGED Pages!vars PROVE ListsInv'
  <1>1. /\ row' = row /\ doc' = doc /\ page' = page /\ asks' = asks /\ exported' = exported
        /\ due' = due /\ cuts' = cuts /\ restarted' = restarted
      BY DEF Pages!vars
  <1>2. ReadingTypes'
      BY <1>1 DEF ListsInv, ReadingTypes, PageTypes, AskTypes
  <1>3. ShownWereThere' /\ Pages!ExportHasPage'
      BY <1>1 DEF ListsInv, ShownWereThere, Pages!ExportHasPage, Pages!Shown, Pages!Matches
  <1>4. DueOK => DueOK'
      BY <1>1 DEF DueOK, Pages!Matches, Pages!Visible
  <1>5. ReadingOK'
      BY <1>1, <1>4, LessDue DEF ListsInv
  <1> QED
      BY <1>2, <1>3, <1>5 DEF ListsInv

LEMMA NextReading == ASSUME ListsGiven, ListsInv, [Pages!Next]_(Pages!vars) PROVE ListsInv'
  <1>1. ASSUME NEW e \in Pages!Events, Pages!Store(e) PROVE ListsInv'
      BY <1>1, StoreStep
  <1>2. ASSUME NEW t \in Pages!Range(TimeOf), Pages!Prune(t) PROVE ListsInv'
      BY <1>2, PruneStep
  <1>3. ASSUME NEW d \in Docs, Pages!Change(d, "hidden") \/ Pages!Change(d, "gone") PROVE ListsInv'
      BY <1>3, ChangeStep
  <1>4. CASE Pages!Open
      BY <1>4, OpenStep
  <1>5. CASE Pages!LoadMore
      BY <1>5, LoadMoreStep
  <1>6. CASE Pages!Refetch
      BY <1>6, RefetchStep
  <1>7. ASSUME NEW f \in Filters, Pages!Enter(f) PROVE ListsInv'
      BY <1>7, EnterStep
  <1>8. ASSUME NEW q \in asks, Pages!QueryRows(q) PROVE ListsInv'
      BY <1>8, QueryRowsStep
  <1>9. ASSUME NEW q \in asks, Pages!ReadDocuments(q) PROVE ListsInv'
      BY <1>9, ReadDocumentsStep
  <1>10. ASSUME NEW q \in asks, Pages!Receive(q) PROVE ListsInv'
      BY <1>10, ReceiveStep
  <1>11. ASSUME NEW q \in asks, Pages!Fails(q) PROVE ListsInv'
      BY <1>11, FailsStep
  <1>12. CASE Pages!Export
      BY <1>12, ExportStep
  <1>13. CASE UNCHANGED Pages!vars
      BY <1>13, StandStill
  <1> QED
      BY <1>1, <1>2, <1>3, <1>4, <1>5, <1>6, <1>7, <1>8, <1>9, <1>10, <1>11, <1>12, <1>13 DEF Pages!Next

LEMMA PagesFollow == ASSUME ListsGiven, ListsInv PROVE Pages!PagesTellAll
  <1>1. Pages!WholeReading
    <2> SUFFICES ASSUME asks = {}, Pages!AtEnd, ~restarted, NEW e \in due
                 PROVE  e \in Pages!Range(Pages!Shown) \/ TimeOf[e] \in cuts
        BY DEF Pages!WholeReading
    <2>1. PageOK
        BY DEF ListsInv, ReadingOK
    <2>2. Reached = None
        BY DEF Reached, Pages!AtEnd
    <2> QED
        BY <2>1, <2>2 DEF PageOK
  <1>2. Pages!OneOrder
      BY DEF Pages!OneOrder, ListsInv, ReadingOK, PageOK, InOrder
  <1> QED
      BY <1>1, <1>2 DEF Pages!PagesTellAll, ListsInv

(* Whatever is stored, pruned and hidden between his requests, a reader who *)
(* has gone through a list without beginning anew has seen all that was     *)
(* there all the time and was no tie of a cut, once and in order, and an    *)
(* export that is whole has what his page shows.                            *)
THEOREM PagesAreWhole == ListsGiven => (Pages!Spec => []Pages!PagesTellAll)
  <1> SUFFICES ASSUME ListsGiven PROVE Pages!Spec => []Pages!PagesTellAll
      OBVIOUS
  <1>1. Pages!Init => ListsInv
      BY InitReading
  <1>2. ListsInv /\ [Pages!Next]_(Pages!vars) => ListsInv'
      BY NextReading
  <1>3. ListsInv => Pages!PagesTellAll
      BY PagesFollow
  <1> QED
      BY <1>1, <1>2, <1>3, PTL DEF Pages!Spec

=============================================================================
