----------------------------- MODULE AuditChain -----------------------------
(***************************************************************************)
(* The audit log of all workspaces and the chain of checkpoints sealed     *)
(* over it (apps/server/src/workspaces/audit-log.ts): events are written   *)
(* by transactions, checkpoints seal the events after the last one, the    *)
(* retention job deletes old events, a verification walks the chain.       *)
(* None of them takes a lock.                                              *)
(*                                                                         *)
(* Events are numbered in the order of (createdAt, id), which is the order *)
(* in which their statements ran, not the order in which they committed.   *)
(* A hash is the sequence of what it covers, so equal hashes mean equal    *)
(* histories.  Left out: listing, filtering and exporting events.          *)
(***************************************************************************)
EXTENDS Naturals, Sequences, FiniteSets

CONSTANTS
    Workspaces,
    Sealers,     \* the hourly timer and the admins who seal on demand
    Ops,         \* which of the operations happen
    MaxEvents,   \* bound: events
    MaxSeals     \* bound: checkpoints

AllOps == {"late", "prune", "verify", "anonymize"}

ASSUME OpsAssumption == Ops \subseteq AllOps
ASSUME BoundsAssumption == MaxEvents \in Nat /\ MaxSeals \in Nat
ASSUME NoneAssumption == "none" \notin Workspaces

Events == 1..MaxEvents

VARIABLES
    event,     \* the AuditEvent rows
    cps,       \* the AuditCheckpoint rows, in the order of creation
    sealer,    \* what each sealer has read
    verifier,  \* the verification in progress, or its result
    pruned     \* history: the events retention has deleted

vars == <<event, cps, sealer, verifier, pruned>>

(* ws is "none" for account events; changed: a reference of the event was  *)
(* set to null because the user or workspace it names was deleted.         *)
Event == [state : {"none", "open", "stored"}, ws : Workspaces \cup {"none"},
          changed : BOOLEAN]

(* What a hash covers of a set of events.                                  *)
Seal == SUBSET (Events \X BOOLEAN)

Checkpoint == [through : Events, count : Nat, prevHash : Seq(Seal), hash : Seq(Seal)]

TypeOK ==
    /\ event \in [Events -> Event]
    /\ cps \in Seq(Checkpoint)
    /\ sealer \in [Sealers -> [pc : {"idle", "events", "create"}, lower : 0..MaxEvents,
                               prevHash : Seq(Seal), events : SUBSET Events, seal : Seal]]
    /\ \A s \in Sealers : sealer[s].pc = "create" => sealer[s].events # {}
    /\ verifier \in [pc : {"idle", "walking", "ok", "broken"}, total : Nat, at : Nat,
                     lower : 0..MaxEvents, prevHash : Seq(Seal),
                     inPrunablePrefix : BOOLEAN, disturbed : BOOLEAN]
    /\ pruned \subseteq Events

IdleSealer == [pc |-> "idle", lower |-> 0, prevHash |-> << >>, events |-> {}, seal |-> {}]

Rests(pc) == [pc |-> pc, total |-> 0, at |-> 0, lower |-> 0, prevHash |-> << >>,
              inPrunablePrefix |-> TRUE, disturbed |-> FALSE]

Init ==
    /\ event = [e \in Events |-> [state |-> "none", ws |-> "none", changed |-> FALSE]]
    /\ cps = << >>
    /\ sealer = [s \in Sealers |-> IdleSealer]
    /\ verifier = Rests("idle")
    /\ pruned = {}

Greatest(S) == CHOOSE e \in S : \A f \in S : f <= e

LastHash == IF cps = << >> THEN << >> ELSE cps[Len(cps)].hash
LastThrough == IF cps = << >> THEN 0 ELSE cps[Len(cps)].through

Stored(e) == event[e].state = "stored"
Unwritten(e) == event[e].state = "none" /\ e \notin pruned

(* rangeWhere: the rows after lower, up to upper and including it.         *)
RangeWhere(lower, upper) == {e \in Events : Stored(e) /\ lower < e /\ e <= upper}

Content(S) == {<<e, event[e].changed>> : e \in S}

-----------------------------------------------------------------------------
(* writeAuditEvent: the event gets its time when its statement runs, and   *)
(* is there for others when its transaction commits, or never.             *)
WriteEvent(e, w) ==
    /\ Unwritten(e)
    /\ \A f \in Events : f < e => ~Unwritten(f)
    /\ event' = [event EXCEPT ![e] =
                   [state |-> IF "late" \in Ops THEN "open" ELSE "stored",
                    ws |-> w, changed |-> FALSE]]
    /\ UNCHANGED <<cps, sealer, verifier, pruned>>

CommitEvent(e) ==
    /\ event[e].state = "open"
    /\ event' = [event EXCEPT ![e].state = "stored"]
    /\ UNCHANGED <<cps, sealer, verifier, pruned>>

(* createAuditCheckpoint reads the last checkpoint, ...                    *)
ReadLastCheckpoint(s) ==
    /\ sealer[s].pc = "idle"
    /\ Len(cps) < MaxSeals
    /\ sealer' = [sealer EXCEPT ![s] = [@ EXCEPT !.pc = "events", !.lower = LastThrough,
                                                 !.prevHash = LastHash]]
    /\ UNCHANGED <<event, cps, verifier, pruned>>

(* Mutant: an empty checkpoint is not avoided.                             *)
ReadPendingAlways(s) ==
    LET events == RangeWhere(sealer[s].lower, MaxEvents) IN
    /\ sealer[s].pc = "events"
    /\ sealer' = [sealer EXCEPT ![s] =
                    [@ EXCEPT !.pc = "create", !.events = events, !.seal = Content(events)]]
    /\ UNCHANGED <<event, cps, verifier, pruned>>

(* ... then the events after it, if there are any, ...                     *)
ReadPending(s) ==
    LET events == RangeWhere(sealer[s].lower, MaxEvents) IN
    /\ sealer[s].pc = "events"
    /\ sealer' = [sealer EXCEPT ![s] =
                    IF events = {} THEN IdleSealer
                    ELSE [@ EXCEPT !.pc = "create", !.events = events,
                                   !.seal = Content(events)]]
    /\ UNCHANGED <<event, cps, verifier, pruned>>

(* ... and creates the next.                                               *)
CreateCheckpoint(s) ==
    /\ sealer[s].pc = "create"
    /\ Len(cps) < MaxSeals
    /\ cps' = Append(cps, [through |-> Greatest(sealer[s].events),
                           count |-> Cardinality(sealer[s].events),
                           prevHash |-> sealer[s].prevHash,
                           hash |-> Append(sealer[s].prevHash, sealer[s].seal)])
    /\ sealer' = [sealer EXCEPT ![s] = IdleSealer]
    /\ UNCHANGED <<event, verifier, pruned>>

(* pruneAuditEvents deletes the events of one workspace after the other,   *)
(* older than that workspace's own retention.                              *)
PruneWorkspace(w, cutoff) ==
    LET old == {e \in Events : Stored(e) /\ event[e].ws = w /\ e < cutoff} IN
    /\ "prune" \in Ops
    /\ old # {}
    /\ event' = [e \in Events |->
                   IF e \in old THEN [event[e] EXCEPT !.state = "none"] ELSE event[e]]
    /\ pruned' = pruned \cup old
    /\ verifier' = [verifier EXCEPT !.disturbed = @ \/ verifier.pc = "walking"]
    /\ UNCHANGED <<cps, sealer>>

(* A user or workspace is deleted: the foreign key sets the reference to   *)
(* null.                                                                   *)
Anonymize(e) ==
    /\ "anonymize" \in Ops
    /\ Stored(e) /\ ~event[e].changed
    /\ event' = [event EXCEPT ![e].changed = TRUE]
    /\ UNCHANGED <<cps, sealer, verifier, pruned>>

(* verifyAuditChain reads all checkpoints, ...                             *)
StartVerification ==
    /\ "verify" \in Ops
    /\ verifier.pc # "walking"
    /\ verifier' = [Rests("walking") EXCEPT !.total = Len(cps), !.at = 1]
    /\ UNCHANGED <<event, cps, sealer, pruned>>

(* Mutant: the hash of what is left, not the stored one.                   *)
PrevHashRecomputed(cp, events) == Append(verifier.prevHash, Content(events))

(* The hash the next checkpoint builds on is the stored one.               *)
PrevHash(cp, events) == cp.hash

(* ... then the events of one after the other.  Rows may be missing in the *)
(* first checkpoints only.                                                 *)
VerifyNext ==
    LET cp == cps[verifier.at]
        events == RangeWhere(verifier.lower, cp.through)
        missing == Cardinality(events) < cp.count
        intact == /\ Cardinality(events) = cp.count
                  /\ Append(verifier.prevHash, Content(events)) = cp.hash
        trusted == missing /\ verifier.inPrunablePrefix
    IN  /\ verifier.pc = "walking" /\ verifier.at <= verifier.total
        /\ verifier' =
             IF intact \/ trusted
             THEN [verifier EXCEPT !.at = @ + 1, !.lower = cp.through,
                                   !.prevHash = PrevHash(cp, events),
                                   !.inPrunablePrefix = @ /\ ~intact]
             ELSE Rests("broken")
        /\ UNCHANGED <<event, cps, sealer, pruned>>

FinishVerification ==
    /\ verifier.pc = "walking" /\ verifier.at > verifier.total
    /\ verifier' = Rests("ok")
    /\ UNCHANGED <<event, cps, sealer, pruned>>

Next ==
    \/ \E e \in Events :
          \/ \E w \in Workspaces \cup {"none"} : WriteEvent(e, w)
          \/ CommitEvent(e) \/ Anonymize(e)
    \/ \E s \in Sealers : ReadLastCheckpoint(s) \/ ReadPending(s) \/ CreateCheckpoint(s)
    \/ \E w \in Workspaces, cutoff \in 1..(MaxEvents + 1) : PruneWorkspace(w, cutoff)
    \/ StartVerification \/ VerifyNext \/ FinishVerification

Spec == Init /\ [][Next]_vars

-----------------------------------------------------------------------------
(* Properties.                                                             *)

(* A checkpoint links to the one created just before it.                   *)
Linked(i) == cps[i].prevHash = IF i = 1 THEN << >> ELSE cps[i - 1].hash

(* An event sealed by some checkpoint.                                     *)
SealedBy(i, e) == \E b \in BOOLEAN : <<e, b>> \in cps[i].hash[Len(cps[i].hash)]

(* An event behind the last checkpoint that none has sealed.               *)
Missed == {e \in Events : /\ Stored(e) /\ e <= LastThrough
                          /\ ~\E i \in 1..Len(cps) : SealedBy(i, e)}

Changed == {e \in Events : event[e].changed}

(* What retention has deleted is a prefix of the log.                      *)
OldestFirst == \A p \in pruned, e \in Events : e < p => ~Stored(e)

Explained ==
    \/ Missed # {} \/ Changed # {} \/ ~OldestFirst
    \/ \E i \in 1..Len(cps) : ~Linked(i)

(* A verification reports a broken chain only for one of the reasons named *)
(* here: an event was missed, changed by a deletion, or deleted out of     *)
(* order or during the verification, or two checkpoints were created at    *)
(* once.  Sealing and verifying agree on everything else, however          *)
(* checkpoints, new events and retention interleave (audit-log.ts:284).    *)
AlarmIsExplained ==
    [][verifier.pc = "walking" /\ verifier'.pc = "broken"
          => Explained \/ verifier.disturbed]_vars

(* Why an alarm is explained.  A seal tells the events it covers, which    *)
(* are stored or pruned since, and changed if it says so; a hash tells the *)
(* last of them, and so where the next checkpoint begins.                  *)
LastSeal(hash) == hash[Len(hash)]
EventsOf(seal) == {e \in Events : <<e, TRUE>> \in seal \/ <<e, FALSE>> \in seal}

Known == {e \in Events : Stored(e) \/ e \in pruned}

SealTrue(seal, known, changed) ==
    /\ EventsOf(seal) # {} /\ EventsOf(seal) \subseteq known
    /\ \A e \in EventsOf(seal) : <<e, TRUE>> \in seal => e \in changed

EndsAt(hash, last) ==
    IF hash = << >> THEN last = 0
    ELSE /\ last \in EventsOf(LastSeal(hash))
         /\ \A e \in EventsOf(LastSeal(hash)) : e <= last

CheckpointOK(c, known, changed) ==
    /\ c.hash # << >> /\ c.hash = Append(c.prevHash, LastSeal(c.hash))
    /\ SealTrue(LastSeal(c.hash), known, changed)
    /\ EndsAt(c.hash, c.through) /\ c.count = Cardinality(EventsOf(LastSeal(c.hash)))
    /\ \E lower \in 0..MaxEvents :
          EndsAt(c.prevHash, lower) /\ \A e \in EventsOf(LastSeal(c.hash)) : lower < e

SealerOK(q, known, changed) ==
    /\ q.pc # "idle" => EndsAt(q.prevHash, q.lower)
    /\ q.pc = "create" => /\ SealTrue(q.seal, known, changed) /\ q.events = EventsOf(q.seal)
                          /\ \A e \in q.events : q.lower < e

(* As long as each links to the one before, checkpoints go forward.        *)
Forward ==
    \A i \in 1..Len(cps) : (\A m \in 1..i : Linked(m)) =>
        \A j \in 1..(i - 1) : cps[j].through < cps[i].through

(* A walk that is past the first checkpoints has seen an event that is     *)
(* there still.                                                            *)
VerifierOK ==
    verifier.pc = "walking" =>
        /\ verifier.at \in 1..(verifier.total + 1) /\ verifier.total <= Len(cps)
        /\ verifier.prevHash = IF verifier.at = 1 THEN << >> ELSE cps[verifier.at - 1].hash
        /\ verifier.lower = IF verifier.at = 1 THEN 0 ELSE cps[verifier.at - 1].through
        /\ ~verifier.inPrunablePrefix /\ ~verifier.disturbed =>
             \E i \in 1..(verifier.at - 1), e \in Events : Stored(e) /\ e <= cps[i].through

ChainInv ==
    /\ TypeOK /\ Forward /\ VerifierOK
    /\ \A i \in 1..Len(cps) : CheckpointOK(cps[i], Known, Changed)
    /\ \A s \in Sealers : SealerOK(sealer[s], Known, Changed)
=============================================================================
