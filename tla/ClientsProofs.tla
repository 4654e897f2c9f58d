--------------------------- MODULE ClientsProofs ---------------------------
(***************************************************************************)
(* Proofs about the clients that keep copies of their own: the sync engine *)
(* of the Obsidian plugin (ObsidianSync), the editors of a document        *)
(* (LiveEditing), and the attachments of a vault's notes (AttachmentSync). *)
(***************************************************************************)
EXTENDS ObsidianSync, TLAPS

Stages == {"idle", "fetch", "decide", "fresh", "apply", "conflict", "record", "perm", "link",
           "push", "pushed", "refetch", "tree", "create", "created"}

LinkRow == [base : Nat, sum : Texts \cup {Missing}, perm : {"editor", "viewer"}]

Work == [at : Stages, kind : {"none", "failed", "pass"} \cup Kinds, entry : LinkRow,
         remote : Nat, perm : {"editor", "viewer"}, text : Texts \cup {Missing}]

(* The versions the vault knows, or no version.                            *)
Known(s, a) == s \cup {a, 0}

(* What a task has read and fetched: the entry it goes by names a version  *)
(* the vault knew, and so does what it is about to record.                 *)
WorkOK(w, n, known) ==
    /\ w.entry.base \in known
    /\ w.at = "push" => w.entry.base # 0
    /\ w.at \notin {"idle", "link", "tree", "create"} => n >= 1
    /\ w.remote <= n
    /\ w.at \in {"decide", "fresh", "apply", "conflict", "record", "pushed"} => w.remote >= 1
    /\ w.at \in {"record", "pushed"} => w.remote \in known
    /\ w.at \in {"tree", "create", "push", "pushed"} => w.text \in Texts

(* The document is created once, and read back by who created it.          *)
Born(tasks, a) ==
    /\ \A k \in Tasks : tasks[k].at = "created" => a = 0
    /\ \A j, k \in Tasks : tasks[j].at = "created" /\ tasks[k].at = "created" => j = k

SyncTypes ==
    /\ history \in Seq(Texts)
    /\ access \in {"editor", "viewer", "gone"}
    /\ file \in Texts \cup {Missing}
    /\ sibling \in 0..Len(history)
    /\ meta \in LinkRow
    /\ seen \subseteq 1..Len(history) /\ adopted \in 0..Len(history)
    /\ task \in [Tasks -> Work]

SyncInv ==
    /\ SyncTypes
    /\ meta.base \in Known(seen, adopted)
    /\ \A k \in Tasks : WorkOK(task[k], Len(history), Known(seen, adopted))
    /\ Born(task, adopted)

LEMMA IdleWork == Idle \in Work /\ \A n \in Nat : \A known : 0 \in known => WorkOK(Idle, n, known)
  <1>1. Unlinked \in LinkRow /\ Unlinked.base = 0
      BY DEF Unlinked, LinkRow
  <1>2. Idle \in Work
      BY <1>1 DEF Idle, Work, Stages
  <1>3. Idle.at = "idle" /\ Idle.entry.base = 0 /\ Idle.remote = 0
      BY <1>1 DEF Idle
  <1>4. ASSUME NEW n \in Nat, NEW known, 0 \in known
        PROVE  WorkOK(Idle, n, known)
      BY <1>3, <1>4 DEF WorkOK
  <1> QED
      BY <1>2, <1>4

LEMMA InitSync == Init => SyncInv
  <1> SUFFICES ASSUME Init PROVE SyncInv
      OBVIOUS
  <1>1. PICK t \in Texts, linked \in Starts :
          /\ history = IF linked THEN <<t>> ELSE << >>
          /\ meta = IF linked THEN Entry(1, "editor") ELSE Unlinked
          /\ file = t
      BY DEF Init
  <1>2. history \in Seq(Texts) /\ Len(history) \in {0, 1} /\ (linked => Len(history) = 1 /\ history[1] = t)
    <2>1. CASE linked
        BY <1>1, <2>1
    <2>2. CASE ~linked
        BY <1>1, <2>2
    <2> QED
        BY <2>1, <2>2
  <1>3. meta \in LinkRow /\ meta.base \in {0} \cup 1..Len(history)
    <2>1. CASE linked
      <3>1. meta = [base |-> 1, sum |-> t, perm |-> "editor"]
          BY <1>1, <1>2, <2>1 DEF Entry
      <3> QED
          BY <1>2, <2>1, <3>1 DEF LinkRow
    <2>2. CASE ~linked
        BY <1>1, <2>2 DEF Unlinked, LinkRow
    <2> QED
        BY <2>1, <2>2
  <1>4. /\ access = "editor" /\ sibling = 0 /\ seen = 1..Len(history) /\ adopted = 0
        /\ task = [k \in Tasks |-> Idle]
      BY DEF Init, Current
  <1>5. SyncTypes
      BY <1>1, <1>2, <1>3, <1>4, IdleWork DEF SyncTypes
  <1>6. \A k \in Tasks : WorkOK(task[k], Len(history), Known(seen, adopted))
      BY <1>2, <1>4, IdleWork DEF Known
  <1>7. Born(task, adopted)
      BY <1>4 DEF Born, Idle
  <1> QED
      BY <1>3, <1>4, <1>5, <1>6, <1>7 DEF SyncInv, Known

(* A step of one task; the vault knows no less than before.                *)
LEMMA TaskStep ==
    ASSUME SyncInv, NEW k \in Tasks, NEW w \in Work, Goes(k, w),
           history' \in Seq(Texts), Len(history) <= Len(history'),
           access' \in {"editor", "viewer", "gone"}, file' \in Texts \cup {Missing},
           sibling' \in 0..Len(history'), seen' \subseteq 1..Len(history'),
           adopted' \in 0..Len(history'), meta' \in LinkRow,
           Known(seen, adopted) \subseteq Known(seen', adopted'),
           meta'.base \in Known(seen', adopted'),
           WorkOK(w, Len(history'), Known(seen', adopted')),
           w.at = "created" => Len(history) = 0 /\ adopted' = 0,
           adopted' = adopted \/ (task[k].at = "created" /\ w.at # "created")
    PROVE  SyncInv'
  <1>1. task \in [Tasks -> Work] /\ Len(history) \in Nat /\ Len(history') \in Nat
      BY DEF SyncInv, SyncTypes
  <1>2. task' = [task EXCEPT ![k] = w] /\ task' \in [Tasks -> Work]
      BY <1>1 DEF Goes
  <1>3. ASSUME NEW j \in Tasks
        PROVE  WorkOK(task'[j], Len(history'), Known(seen', adopted'))
    <2>1. CASE j = k
        BY <1>1, <1>2, <2>1
    <2>2. CASE j # k
      <3>1. PICK v \in Work : v = task[j] /\ v = task'[j]
          BY <1>1, <1>2, <2>2
      <3>2. WorkOK(v, Len(history), Known(seen, adopted)) /\ v.remote \in Nat
          BY <3>1 DEF SyncInv, Work
      <3>3. WorkOK(v, Len(history'), Known(seen', adopted'))
          BY <1>1, <3>2 DEF WorkOK
      <3> QED
          BY <3>1, <3>3
    <2> QED
        BY <2>1, <2>2
  <1>4. ASSUME NEW j \in Tasks, j # k, task'[j].at = "created"
        PROVE  adopted' = 0 /\ w.at # "created"
    <2>1. task[j].at = "created"
        BY <1>1, <1>2, <1>4
    <2>2. adopted = 0 /\ task[k].at # "created"
        BY <1>4, <2>1 DEF SyncInv, Born
    <2>3. Len(history) >= 1
        BY <2>1 DEF SyncInv, WorkOK
    <2> QED
        BY <1>1, <2>2, <2>3
  <1>5. \A i, j \in Tasks \ {k} : task'[i] = task[i]
      BY <1>1, <1>2
  <1>6. Born(task', adopted')
    <2>1. task'[k] = w
        BY <1>1, <1>2
    <2>2. ASSUME NEW j \in Tasks, task'[j].at = "created"
          PROVE  adopted' = 0
        BY <1>4, <2>1, <2>2
    <2>3. ASSUME NEW i \in Tasks, NEW j \in Tasks, task'[i].at = "created", task'[j].at = "created"
          PROVE  i = j
      <3>1. CASE i = k \/ j = k
          BY <1>4, <2>1, <2>3, <3>1
      <3>2. CASE i # k /\ j # k
        <4>1. task[i].at = "created" /\ task[j].at = "created"
            BY <1>5, <2>3, <3>2
        <4> QED
            BY <4>1 DEF SyncInv, Born
      <3> QED
          BY <3>1, <3>2
    <2> QED
        BY <2>2, <2>3 DEF Born
  <1>7. SyncTypes'
      BY <1>2 DEF SyncTypes
  <1> QED
      BY <1>3, <1>6, <1>7 DEF SyncInv

(* ... and the vault and the document stay as they are.                    *)
LEMMA OnlyTask ==
    ASSUME SyncInv, NEW k \in Tasks, NEW w \in Work, Goes(k, w), UNCHANGED <<history, access, device>>,
           WorkOK(w, Len(history), Known(seen, adopted)), w.at # "created"
    PROVE  SyncInv'
  <1>1. UNCHANGED <<history, access, file, sibling, meta, seen, adopted>>
      BY DEF device
  <1>2. /\ history' \in Seq(Texts) /\ Len(history) <= Len(history')
        /\ access' \in {"editor", "viewer", "gone"} /\ file' \in Texts \cup {Missing}
        /\ sibling' \in 0..Len(history') /\ seen' \subseteq 1..Len(history')
        /\ adopted' \in 0..Len(history') /\ meta' \in LinkRow
        /\ Known(seen, adopted) \subseteq Known(seen', adopted')
        /\ meta'.base \in Known(seen', adopted')
        /\ WorkOK(w, Len(history'), Known(seen', adopted')) /\ adopted' = adopted
      BY <1>1 DEF SyncInv, SyncTypes
  <1> QED
      BY <1>2, TaskStep

LEMMA Finishes ==
    ASSUME SyncInv, NEW k \in Tasks, Finish(k) \/ Goes(k, [Idle EXCEPT !.kind = "failed"]),
           UNCHANGED <<history, access, device>>
    PROVE  SyncInv'
  <1>1. PICK i \in Work : i = Idle /\ WorkOK(i, Len(history), Known(seen, adopted)) /\ i.at = "idle"
    <2>1. Len(history) \in Nat /\ 0 \in Known(seen, adopted)
        BY DEF SyncInv, SyncTypes, Known
    <2>2. Idle.at = "idle"
        BY DEF Idle
    <2> QED
        BY <2>1, <2>2, IdleWork
  <1>2. PICK w : w = [i EXCEPT !.kind = "failed"]
      OBVIOUS
  <1>3. w \in Work /\ w.at = i.at /\ w.entry = i.entry /\ w.remote = i.remote
      BY <1>2 DEF Work
  <1>4. WorkOK(w, Len(history), Known(seen, adopted))
      BY <1>1, <1>3 DEF WorkOK
  <1> QED
      BY <1>1, <1>2, <1>3, <1>4, OnlyTask DEF Finish

(* What holds of a task under way.                                         *)
LEMMA TaskIs ==
    ASSUME SyncInv, NEW k \in Tasks
    PROVE  \E v \in Work : /\ v = task[k] /\ v.entry \in LinkRow
                           /\ WorkOK(v, Len(history), Known(seen, adopted))
  <1>1. task[k] \in Work /\ WorkOK(task[k], Len(history), Known(seen, adopted))
      BY DEF SyncInv, SyncTypes
  <1>2. task[k].entry \in LinkRow
      BY <1>1 DEF Work
  <1> QED
      BY <1>1, <1>2

LEMMA IdleIs ==
    ASSUME SyncInv
    PROVE  \E v \in Work : /\ v = Idle /\ v.entry.base = 0 /\ v.remote = 0 /\ v.at = "idle"
                           /\ v.text = Missing
  <1> QED
      BY IdleWork DEF Idle, Unlinked

(* Versions the vault knows are versions.                                  *)
LEMMA KnownBound ==
    ASSUME SyncInv
    PROVE  /\ Len(history) \in Nat /\ 0 \in Known(seen, adopted)
           /\ \A b \in Known(seen, adopted) : b \in 0..Len(history)
  <1> QED
      BY DEF SyncInv, SyncTypes, Known

LEMMA StartPassStep == ASSUME SyncInv, StartPass, Pass \in Tasks PROVE SyncInv'
  <1>1. PICK v \in Work : v = Idle /\ v.entry.base = 0 /\ v.remote = 0 /\ v.at = "idle"
                          /\ v.text = Missing
      BY IdleIs
  <1>2. PICK at \in {"fetch", "tree"} : at = IF meta.base # 0 THEN "fetch" ELSE "tree"
      OBVIOUS
  <1>3. PICK text \in Texts \cup {Missing} : text = IF meta.base # 0 THEN Missing ELSE file
      BY DEF SyncInv, SyncTypes
  <1>4. PICK entry \in LinkRow : entry = meta
      BY DEF SyncInv, SyncTypes
  <1>5. PICK w : w = [v EXCEPT !.kind = "pass", !.entry = entry, !.at = at, !.text = text]
      OBVIOUS
  <1>6. w \in Work
      BY <1>2, <1>5 DEF Work, Stages
  <1>7. w.entry = meta /\ w.at = at /\ w.text = text /\ w.remote = 0
      BY <1>1, <1>4, <1>5, <1>6 DEF Work
  <1>8. Goes(Pass, w) /\ UNCHANGED <<history, access, device>>
      BY <1>1, <1>2, <1>3, <1>4, <1>5 DEF StartPass
  <1>9. /\ meta.base \in Known(seen, adopted)
        /\ at = "fetch" => meta.base # 0
        /\ at = "tree" => text \in Texts
      BY <1>2, <1>3 DEF StartPass, SyncInv, SyncTypes
  <1>10. WorkOK(w, Len(history), Known(seen, adopted)) /\ w.at # "created"
      BY <1>2, <1>7, <1>9, KnownBound DEF WorkOK
  <1> QED
      BY <1>6, <1>8, <1>10, OnlyTask

LEMMA StartOther ==
    ASSUME SyncInv, NEW k \in Tasks, StartAuto(k) \/ StartCommand(k)
    PROVE  SyncInv'
  <1>1. PICK v \in Work : v = Idle /\ v.entry.base = 0 /\ v.remote = 0 /\ v.at = "idle"
                          /\ v.text = Missing
      BY IdleIs
  <1>2. UNCHANGED <<history, access, device>>
      BY DEF StartAuto, StartCommand
  <1>3. ASSUME NEW kind \in Kinds, NEW at \in {"link", "fetch"},
               Goes(k, [Idle EXCEPT !.kind = kind, !.at = at]), at = "fetch" => history # << >>
        PROVE  SyncInv'
    <2>1. PICK w : w = [v EXCEPT !.kind = kind, !.at = at]
        OBVIOUS
    <2>2. w \in Work
        BY <2>1, <1>3 DEF Work, Stages
    <2>3. w.at = at /\ w.entry = v.entry /\ w.remote = 0
        BY <1>1, <2>1, <2>2 DEF Work
    <2>4. at = "fetch" => Len(history) >= 1
        BY <1>3 DEF SyncInv, SyncTypes
    <2>5. WorkOK(w, Len(history), Known(seen, adopted)) /\ w.at # "created"
        BY <1>1, <1>3, <2>3, <2>4, KnownBound DEF WorkOK
    <2> QED
        BY <1>1, <1>2, <1>3, <2>1, <2>2, <2>5, OnlyTask
  <1>4. CASE StartAuto(k)
      BY <1>3, <1>4 DEF StartAuto
  <1>5. CASE StartCommand(k)
      BY <1>3, <1>5 DEF StartCommand
  <1> QED
      BY <1>4, <1>5

(* A document that is fetched is there in its current version.             *)
LEMMA GetStep ==
    ASSUME SyncInv, NEW k \in Tasks, NEW found \in {"decide", "apply", "conflict"},
           task[k].at \in {"fetch", "refetch"}, GetDocument(k, found)
    PROVE  SyncInv'
  <1>1. PICK v \in Work : /\ v = task[k] /\ v.entry \in LinkRow
                          /\ WorkOK(v, Len(history), Known(seen, adopted))
      BY TaskIs
  <1>2. UNCHANGED <<history, access, device>>
      BY DEF GetDocument
  <1>3. CASE Finish(k)
      BY <1>2, <1>3, Finishes
  <1>4. CASE access # "gone" /\ Goes(k, [task[k] EXCEPT !.at = found, !.remote = Current,
                                                         !.perm = access, !.text = Missing])
    <2>1. PICK n \in Nat : n = Len(history)
        BY KnownBound
    <2>2. PICK perm \in {"editor", "viewer"} : perm = access
        BY <1>4 DEF SyncInv, SyncTypes
    <2>3. PICK w : w = [v EXCEPT !.at = found, !.remote = n, !.perm = perm, !.text = Missing]
        OBVIOUS
    <2>4. w \in Work
        BY <2>3 DEF Work, Stages
    <2>5. w.at = found /\ w.entry = v.entry /\ w.remote = n
        BY <2>3, <2>4 DEF Work
    <2>6. Goes(k, w)
        BY <1>1, <1>4, <2>1, <2>2, <2>3 DEF Current
    <2>7. n >= 1 /\ v.entry.base \in Known(seen, adopted)
        BY <1>1, <2>1 DEF WorkOK
    <2>8. WorkOK(w, Len(history), Known(seen, adopted)) /\ w.at # "created"
        BY <2>1, <2>5, <2>7 DEF WorkOK
    <2> QED
        BY <1>2, <2>4, <2>6, <2>8, OnlyTask
  <1> QED
      BY <1>3, <1>4 DEF GetDocument

(* On to another stage, with all that the task has.                        *)
LEMMA StepOn ==
    ASSUME SyncInv, NEW k \in Tasks, NEW to \in {"create", "fresh", "perm"}, Step(k, to),
           UNCHANGED <<history, access, device>>,
           task[k].at = (IF to = "create" THEN "tree" ELSE "decide")
    PROVE  SyncInv'
  <1>1. PICK v \in Work : /\ v = task[k] /\ v.entry \in LinkRow
                          /\ WorkOK(v, Len(history), Known(seen, adopted))
      BY TaskIs
  <1>2. PICK w : w = [v EXCEPT !.at = to]
      OBVIOUS
  <1>3. w \in Work
      BY <1>2 DEF Work, Stages
  <1>4. w.at = to /\ w.entry = v.entry /\ w.remote = v.remote /\ w.text = v.text
      BY <1>2, <1>3 DEF Work
  <1>5. WorkOK(w, Len(history), Known(seen, adopted)) /\ w.at # "created"
      BY <1>1, <1>4 DEF WorkOK
  <1> QED
      BY <1>1, <1>2, <1>3, <1>5, OnlyTask DEF Step

(* ... or with the fetched document, or the note alone.                    *)
LEMMA PassOn ==
    ASSUME SyncInv, NEW k \in Tasks, UNCHANGED <<history, access, device>>,
           NEW to \in {"apply", "conflict", "link", "refetch"},
           \/ WithRemote(k, to) /\ to \in {"apply", "conflict"} /\ task[k].at \in {"decide", "fresh"}
           \/ WithNote(k, to) /\ to \in {"link", "refetch"} /\ task[k].at \in {"decide", "push"}
    PROVE  SyncInv'
  <1>1. PICK v \in Work : /\ v = task[k] /\ v.entry \in LinkRow
                          /\ WorkOK(v, Len(history), Known(seen, adopted))
      BY TaskIs
  <1>2. PICK i \in Work : i = Idle /\ i.entry.base = 0 /\ i.remote = 0 /\ i.at = "idle"
                          /\ i.text = Missing
      BY IdleIs
  <1>3. v.kind \in {"none", "failed", "pass"} \cup Kinds /\ v.remote \in Nat
        /\ v.perm \in {"editor", "viewer"}
      BY <1>1 DEF Work
  <1>4. CASE WithRemote(k, to) /\ to \in {"apply", "conflict"} /\ v.at \in {"decide", "fresh"}
    <2>1. PICK w : w = [i EXCEPT !.kind = v.kind, !.at = to, !.remote = v.remote, !.perm = v.perm]
        OBVIOUS
    <2>2. w \in Work
        BY <1>3, <2>1 DEF Work, Stages
    <2>3. w.at = to /\ w.entry = i.entry /\ w.remote = v.remote
        BY <2>1, <2>2 DEF Work
    <2>4. WorkOK(w, Len(history), Known(seen, adopted)) /\ w.at # "created"
        BY <1>1, <1>2, <1>4, <2>3, KnownBound DEF WorkOK
    <2>5. Goes(k, w)
        BY <1>1, <1>2, <1>4, <2>1 DEF WithRemote
    <2> QED
        BY <2>2, <2>4, <2>5, OnlyTask
  <1>5. CASE WithNote(k, to) /\ to \in {"link", "refetch"} /\ v.at \in {"decide", "push"}
    <2>1. PICK w : w = [i EXCEPT !.kind = v.kind, !.at = to]
        OBVIOUS
    <2>2. w \in Work
        BY <1>3, <2>1 DEF Work, Stages
    <2>3. w.at = to /\ w.entry = i.entry /\ w.remote = 0
        BY <1>2, <2>1, <2>2 DEF Work
    <2>4. WorkOK(w, Len(history), Known(seen, adopted)) /\ w.at # "created"
        BY <1>1, <1>2, <1>5, <2>3, KnownBound DEF WorkOK
    <2>5. Goes(k, w)
        BY <1>1, <1>2, <1>5, <2>1 DEF WithNote
    <2> QED
        BY <2>2, <2>4, <2>5, OnlyTask
  <1> QED
      BY <1>1, <1>4, <1>5

LEMMA DecideStep == ASSUME SyncInv, NEW k \in Tasks, Decide(k) PROVE SyncInv'
  <1>1. task[k].at = "decide" /\ UNCHANGED <<history, access, device>>
      BY DEF Decide, At
  <1>2. \/ Finish(k) \/ WithNote(k, "link") \/ WithRemote(k, "conflict") \/ Step(k, "perm")
        \/ Step(k, "fresh")
      BY DEF Decide
  <1> QED
      BY <1>1, <1>2, Finishes, StepOn, PassOn

LEMMA ReadSteps ==
    ASSUME SyncInv, NEW k \in Tasks, ReadTree(k) \/ ReadFresh(k) \/ Fetch(k) \/ Refetch(k) \/ Fail(k)
    PROVE  SyncInv'
  <1>1. CASE ReadTree(k)
      BY <1>1, Finishes, StepOn DEF ReadTree, At
  <1>2. CASE ReadFresh(k)
      BY <1>2, Finishes, PassOn DEF ReadFresh, At
  <1>3. CASE Fetch(k)
      BY <1>3, GetStep DEF Fetch, At
  <1>4. CASE Refetch(k)
      BY <1>4, GetStep DEF Refetch, At
  <1>5. CASE Fail(k)
      BY <1>5, Finishes DEF Fail
  <1> QED
      BY <1>1, <1>2, <1>3, <1>4, <1>5

LEMMA LinkStep == ASSUME SyncInv, NEW k \in Tasks, ReadLink(k) PROVE SyncInv'
  <1>1. PICK v \in Work : /\ v = task[k] /\ v.entry \in LinkRow
                          /\ WorkOK(v, Len(history), Known(seen, adopted))
      BY TaskIs
  <1>2. UNCHANGED <<history, access, device>>
      BY DEF ReadLink
  <1>3. CASE Finish(k)
      BY <1>2, <1>3, Finishes
  <1>4. CASE /\ file # Missing
             /\ Goes(k, [task[k] EXCEPT !.entry = meta, !.text = file,
                                        !.at = IF meta.base # 0 THEN "push" ELSE "tree"])
    <2>1. PICK at \in {"push", "tree"} : at = IF meta.base # 0 THEN "push" ELSE "tree"
        OBVIOUS
    <2>2. PICK text \in Texts : text = file
        BY <1>4 DEF SyncInv, SyncTypes
    <2>3. PICK entry \in LinkRow : entry = meta
        BY DEF SyncInv, SyncTypes
    <2>4. PICK w : w = [v EXCEPT !.entry = entry, !.text = text, !.at = at]
        OBVIOUS
    <2>5. w \in Work
        BY <2>1, <2>2, <2>4 DEF Work, Stages
    <2>6. w.at = at /\ w.entry = entry /\ w.remote = v.remote /\ w.text = text
        BY <2>4, <2>5 DEF Work
    <2>7. Goes(k, w)
        BY <1>1, <1>4, <2>1, <2>2, <2>3, <2>4
    <2>8. entry.base \in Known(seen, adopted) /\ (at = "push" => entry.base # 0)
        BY <2>1, <2>3 DEF SyncInv
    <2>9. at = "push" => Len(history) >= 1
        BY <2>8, KnownBound
    <2>10. WorkOK(w, Len(history), Known(seen, adopted)) /\ w.at # "created"
        BY <1>1, <2>1, <2>6, <2>8, <2>9 DEF WorkOK
    <2> QED
        BY <1>2, <2>5, <2>7, <2>10, OnlyTask
  <1> QED
      BY <1>3, <1>4 DEF ReadLink

(* What a push and a creation make is known to the vault.                  *)
LEMMA PushStep == ASSUME SyncInv, NEW k \in Tasks, Push(k) PROVE SyncInv'
  <1>1. PICK v \in Work : /\ v = task[k] /\ v.entry \in LinkRow
                          /\ WorkOK(v, Len(history), Known(seen, adopted))
      BY TaskIs
  <1>2. v.at = "push" /\ UNCHANGED <<access, file, sibling, meta, adopted>>
      BY <1>1 DEF Push, At
  <1>3. CASE Finish(k) /\ UNCHANGED <<history, seen>>
      BY <1>2, <1>3, Finishes DEF device
  <1>4. CASE WithNote(k, "refetch") /\ UNCHANGED <<history, seen>>
      BY <1>1, <1>2, <1>4, PassOn DEF device
  <1>5. CASE /\ history' = IF history[Current] = v.text THEN history ELSE Append(history, v.text)
             /\ seen' = seen \cup {Len(history')}
             /\ Finish(k) \/ Goes(k, [v EXCEPT !.at = "pushed", !.remote = Len(history')])
    <2>1. v.text \in Texts /\ Len(history) >= 1 /\ history \in Seq(Texts) /\ Len(history) \in Nat
        BY <1>1, <1>2 DEF WorkOK, SyncInv, SyncTypes
    <2>2. /\ history' \in Seq(Texts) /\ Len(history) <= Len(history')
          /\ Len(history') \in Nat /\ Len(history') >= 1
        BY <1>5, <2>1
    <2>3. PICK n \in Nat : n = Len(history')
        BY <2>2
    <2>4. /\ seen' \subseteq 1..n /\ adopted' \in 0..n /\ sibling' \in 0..n /\ meta' \in LinkRow
          /\ access' \in {"editor", "viewer", "gone"} /\ file' \in Texts \cup {Missing}
        BY <1>2, <1>5, <2>1, <2>2, <2>3 DEF SyncInv, SyncTypes
    <2>5. /\ Known(seen, adopted) \subseteq Known(seen', adopted') /\ n \in Known(seen', adopted')
          /\ 0 \in Known(seen', adopted')
        BY <1>2, <1>5, <2>3 DEF Known
    <2>6. meta'.base \in Known(seen', adopted')
        BY <1>2, <2>5 DEF SyncInv
    <2>7. CASE Finish(k)
      <3>1. PICK i \in Work : i = Idle /\ i.at = "idle"
          BY IdleIs
      <3>2. WorkOK(i, n, Known(seen', adopted'))
          BY <2>5, <3>1, IdleWork
      <3> QED
          BY <1>2, <2>2, <2>3, <2>4, <2>5, <2>6, <2>7, <3>1, <3>2, TaskStep DEF Finish
    <2>8. CASE Goes(k, [v EXCEPT !.at = "pushed", !.remote = Len(history')])
      <3>1. PICK w : w = [v EXCEPT !.at = "pushed", !.remote = n]
          OBVIOUS
      <3>2. w \in Work
          BY <3>1 DEF Work, Stages
      <3>3. w.at = "pushed" /\ w.remote = n /\ w.entry = v.entry /\ w.text = v.text
          BY <3>1, <3>2 DEF Work
      <3>4. WorkOK(w, n, Known(seen', adopted'))
          BY <1>1, <2>1, <2>2, <2>3, <2>5, <3>3 DEF WorkOK
      <3>5. Goes(k, w)
          BY <2>3, <2>8, <3>1
      <3> QED
          BY <1>2, <2>2, <2>3, <2>4, <2>5, <2>6, <3>2, <3>3, <3>4, <3>5, TaskStep
    <2> QED
        BY <1>5, <2>7, <2>8
  <1> QED
      BY <1>1, <1>3, <1>4, <1>5 DEF Push

LEMMA CreateStep == ASSUME SyncInv, NEW k \in Tasks, CreateDocument(k) PROVE SyncInv'
  <1>1. PICK v \in Work : /\ v = task[k] /\ v.entry \in LinkRow
                          /\ WorkOK(v, Len(history), Known(seen, adopted))
      BY TaskIs
  <1>2. v.at = "create" /\ UNCHANGED <<access, file, sibling, meta, adopted>>
      BY <1>1 DEF CreateDocument, At
  <1>3. CASE Finish(k) /\ UNCHANGED <<history, seen>>
      BY <1>2, <1>3, Finishes DEF device
  <1>4. CASE /\ history = << >> /\ history' = <<v.text>> /\ seen' = {1}
             /\ Finish(k) \/ Step(k, "created")
    <2>1. v.text \in Texts /\ Len(history) = 0 /\ seen = {} /\ adopted = 0 /\ sibling = 0
        BY <1>1, <1>2, <1>4 DEF WorkOK, SyncInv, SyncTypes
    <2>2. history' \in Seq(Texts) /\ Len(history') = 1
        BY <1>4, <2>1
    <2>3. /\ seen' \subseteq 1..1 /\ adopted' = 0 /\ sibling' = 0 /\ meta' \in LinkRow
          /\ access' \in {"editor", "viewer", "gone"} /\ file' \in Texts \cup {Missing}
        BY <1>2, <1>4, <2>1 DEF SyncInv, SyncTypes
    <2>4. /\ Known(seen, adopted) = {0} /\ Known(seen', adopted') = {0, 1}
          /\ meta'.base \in Known(seen', adopted')
        BY <1>2, <1>4, <2>1, <2>3 DEF Known, SyncInv
    <2>5. CASE Finish(k)
      <3>1. PICK i \in Work : i = Idle /\ i.at = "idle"
          BY IdleIs
      <3>2. WorkOK(i, 1, Known(seen', adopted'))
          BY <2>4, <3>1, IdleWork
      <3> QED
          BY <1>2, <2>1, <2>2, <2>3, <2>4, <2>5, <3>1, <3>2, TaskStep DEF Finish
    <2>6. CASE Step(k, "created")
      <3>1. PICK w : w = [v EXCEPT !.at = "created"]
          OBVIOUS
      <3>2. w \in Work
          BY <3>1 DEF Work, Stages
      <3>3. w.at = "created" /\ w.remote = v.remote /\ w.entry = v.entry
          BY <3>1, <3>2 DEF Work
      <3>4. v.remote <= 1 /\ v.entry.base = 0
          BY <1>1, <2>1, <2>4 DEF WorkOK, Work
      <3>5. WorkOK(w, 1, Known(seen', adopted'))
          BY <2>4, <3>3, <3>4 DEF WorkOK
      <3>6. Goes(k, w)
          BY <1>1, <2>6, <3>1 DEF Step
      <3> QED
          BY <1>2, <2>1, <2>2, <2>3, <2>4, <3>2, <3>3, <3>5, <3>6, TaskStep
    <2> QED
        BY <1>4, <2>5, <2>6
  <1> QED
      BY <1>1, <1>3, <1>4 DEF CreateDocument

LEMMA ReadCreatedStep == ASSUME SyncInv, NEW k \in Tasks, ReadCreated(k) PROVE SyncInv'
  <1>1. PICK v \in Work : /\ v = task[k] /\ v.entry \in LinkRow
                          /\ WorkOK(v, Len(history), Known(seen, adopted))
      BY TaskIs
  <1>2. v.at = "created" /\ UNCHANGED <<history, access, file, sibling, meta, seen>>
      BY <1>1 DEF ReadCreated, At
  <1>3. CASE Finish(k) /\ UNCHANGED adopted
      BY <1>2, <1>3, Finishes DEF device
  <1>4. CASE /\ access # "gone" /\ adopted' = Current
             /\ Goes(k, [v EXCEPT !.at = "record", !.remote = Current, !.perm = access,
                                  !.text = Missing])
    <2>1. PICK n \in Nat : n = Len(history) /\ n >= 1
        BY <1>1, <1>2, KnownBound DEF WorkOK
    <2>2. PICK perm \in {"editor", "viewer"} : perm = access
        BY <1>4 DEF SyncInv, SyncTypes
    <2>3. PICK w : w = [v EXCEPT !.at = "record", !.remote = n, !.perm = perm, !.text = Missing]
        OBVIOUS
    <2>4. w \in Work
        BY <2>3 DEF Work, Stages
    <2>5. w.at = "record" /\ w.entry = v.entry /\ w.remote = n
        BY <2>3, <2>4 DEF Work
    <2>6. adopted = 0 /\ adopted' = n
        BY <1>1, <1>2, <1>4, <2>1 DEF SyncInv, Born, Current
    <2>7. /\ Known(seen, adopted) \subseteq Known(seen', adopted') /\ n \in Known(seen', adopted')
        BY <1>2, <2>6 DEF Known
    <2>8. WorkOK(w, n, Known(seen', adopted'))
        BY <1>1, <2>1, <2>5, <2>7 DEF WorkOK
    <2>9. Goes(k, w)
        BY <1>4, <2>1, <2>2, <2>3 DEF Current
    <2>10. /\ history' \in Seq(Texts) /\ Len(history) <= Len(history')
           /\ access' \in {"editor", "viewer", "gone"} /\ file' \in Texts \cup {Missing}
           /\ sibling' \in 0..Len(history') /\ seen' \subseteq 1..Len(history')
           /\ adopted' \in 0..Len(history') /\ meta' \in LinkRow
           /\ meta'.base \in Known(seen', adopted')
        BY <1>2, <2>1, <2>6, <2>7 DEF SyncInv, SyncTypes
    <2>11. task[k].at = "created"
        BY <1>1, <1>2
    <2> QED
        BY <1>2, <2>1, <2>4, <2>5, <2>7, <2>8, <2>9, <2>10, <2>11, TaskStep
  <1> QED
      BY <1>1, <1>3, <1>4 DEF ReadCreated

(* The entry is written by a task that ends.                               *)
LEMMA RecordStep ==
    ASSUME SyncInv, NEW k \in Tasks, RecordPermission(k) \/ RecordPush(k) \/ Record(k)
    PROVE  SyncInv'
  <1>1. PICK v \in Work : /\ v = task[k] /\ v.entry \in LinkRow
                          /\ WorkOK(v, Len(history), Known(seen, adopted))
      BY TaskIs
  <1>2. Finish(k) /\ UNCHANGED <<history, access, file, sibling, seen, adopted>>
      BY DEF RecordPermission, RecordPush, Record
  <1>3. v.perm \in {"editor", "viewer"} /\ v.remote \in Nat
      BY <1>1 DEF Work
  <1>4. meta' \in LinkRow /\ meta'.base \in Known(seen, adopted)
    <2>1. CASE RecordPermission(k)
      <3>1. meta' = [v.entry EXCEPT !.perm = v.perm]
          BY <1>1, <2>1 DEF RecordPermission
      <3>2. meta' \in LinkRow /\ meta'.base = v.entry.base
          BY <1>1, <1>3, <3>1 DEF LinkRow
      <3> QED
          BY <1>1, <3>2 DEF WorkOK
    <2>2. CASE RecordPush(k)
      <3>1. v.text \in Texts /\ v.remote \in Known(seen, adopted)
          BY <1>1, <2>2 DEF RecordPush, At, WorkOK
      <3>2. meta' = [v.entry EXCEPT !.base = v.remote, !.sum = v.text]
          BY <1>1, <2>2 DEF RecordPush, Pushed
      <3>3. meta' \in LinkRow /\ meta'.base = v.remote
          BY <1>1, <1>3, <3>1, <3>2 DEF LinkRow
      <3> QED
          BY <3>1, <3>3
    <2>3. CASE Record(k)
      <3>1. v.remote \in Known(seen, adopted) /\ v.remote \in 1..Len(history)
          BY <1>1, <1>3, <2>3, KnownBound DEF Record, At, WorkOK
      <3>2. history[v.remote] \in Texts
          BY <3>1 DEF SyncInv, SyncTypes
      <3>3. meta' = [base |-> v.remote, sum |-> history[v.remote], perm |-> v.perm]
          BY <1>1, <2>3 DEF Record, Entry
      <3>4. meta' \in LinkRow /\ meta'.base = v.remote
          BY <1>3, <3>2, <3>3 DEF LinkRow
      <3> QED
          BY <3>1, <3>4
    <2> QED
        BY <2>1, <2>2, <2>3
  <1>5. PICK i \in Work : i = Idle /\ i.at = "idle"
      BY IdleIs
  <1>6. WorkOK(i, Len(history), Known(seen, adopted))
      BY <1>5, IdleWork, KnownBound
  <1>7. /\ history' \in Seq(Texts) /\ Len(history) <= Len(history')
        /\ access' \in {"editor", "viewer", "gone"} /\ file' \in Texts \cup {Missing}
        /\ sibling' \in 0..Len(history') /\ seen' \subseteq 1..Len(history')
        /\ adopted' \in 0..Len(history') /\ Known(seen', adopted') = Known(seen, adopted)
      BY <1>2 DEF SyncInv, SyncTypes
  <1> QED
      BY <1>2, <1>4, <1>5, <1>6, <1>7, TaskStep DEF Finish

(* What is put into the vault is known to it.                              *)
LEMMA VaultStep == ASSUME SyncInv, NEW k \in Tasks, WriteConflict(k) \/ Apply(k) PROVE SyncInv'
  <1>1. PICK v \in Work : /\ v = task[k] /\ v.entry \in LinkRow
                          /\ WorkOK(v, Len(history), Known(seen, adopted))
      BY TaskIs
  <1>2. /\ v.at \in {"conflict", "apply"} /\ UNCHANGED <<history, access, meta, adopted>>
        /\ seen' = seen \cup {v.remote} /\ Step(k, "record")
      BY <1>1 DEF WriteConflict, Apply, At
  <1>3. v.remote \in 1..Len(history)
      BY <1>1, <1>2, KnownBound DEF WorkOK, Work
  <1>4. file' \in Texts \cup {Missing} /\ sibling' \in 0..Len(history')
    <2>1. CASE WriteConflict(k)
        BY <1>1, <1>2, <1>3, <2>1 DEF WriteConflict, SyncInv, SyncTypes
    <2>2. CASE Apply(k)
        BY <1>1, <1>2, <1>3, <2>2 DEF Apply, SyncInv, SyncTypes
    <2> QED
        BY <2>1, <2>2
  <1>5. PICK w : w = [v EXCEPT !.at = "record"]
      OBVIOUS
  <1>6. w \in Work
      BY <1>5 DEF Work, Stages
  <1>7. w.at = "record" /\ w.entry = v.entry /\ w.remote = v.remote
      BY <1>5, <1>6 DEF Work
  <1>8. Goes(k, w)
      BY <1>1, <1>2, <1>5 DEF Step
  <1>9. Known(seen, adopted) \subseteq Known(seen', adopted') /\ v.remote \in Known(seen', adopted')
      BY <1>2 DEF Known
  <1>10. WorkOK(w, Len(history), Known(seen', adopted'))
      BY <1>1, <1>3, <1>7, <1>9 DEF WorkOK
  <1>11. /\ history' \in Seq(Texts) /\ Len(history) <= Len(history')
         /\ access' \in {"editor", "viewer", "gone"} /\ adopted' \in 0..Len(history')
         /\ meta' \in LinkRow
      BY <1>2 DEF SyncInv, SyncTypes
  <1>12. seen' \subseteq 1..Len(history')
      BY <1>2, <1>3 DEF SyncInv, SyncTypes
  <1>13. meta.base \in Known(seen, adopted)
      BY DEF SyncInv
  <1>14. meta'.base \in Known(seen', adopted')
      BY <1>2, <1>9, <1>13
  <1> QED
      BY <1>2, <1>4, <1>6, <1>7, <1>8, <1>9, <1>10, <1>11, <1>12, <1>14, TaskStep

(* The user and the other editors.                                         *)
LEMMA OthersStep ==
    ASSUME SyncInv, EditFile \/ DeleteFile \/ ResolveConflict \/ OthersAct
    PROVE  SyncInv'
  <1>1. UNCHANGED <<meta, seen, adopted, task>>
      BY DEF EditFile, DeleteFile, ResolveConflict, OthersAct, device
  <1>2. history' \in Seq(Texts) /\ Len(history) <= Len(history') /\ Len(history) \in Nat
        /\ Len(history') \in Nat
      BY DEF EditFile, DeleteFile, ResolveConflict, OthersAct, SyncInv, SyncTypes
  <1>3. /\ access' \in {"editor", "viewer", "gone"} /\ file' \in Texts \cup {Missing}
        /\ sibling' \in 0..Len(history')
    <2>1. /\ access \in {"editor", "viewer", "gone"} /\ file \in Texts \cup {Missing}
          /\ sibling \in 0..Len(history)
        BY DEF SyncInv, SyncTypes
    <2>2. sibling' \in {sibling, 0}
        BY DEF EditFile, DeleteFile, ResolveConflict, OthersAct, device
    <2>3. file' \in Texts \cup {Missing}
        BY <2>1 DEF EditFile, DeleteFile, ResolveConflict, OthersAct, device
    <2>4. access' \in {"editor", "viewer", "gone"}
        BY <2>1 DEF EditFile, DeleteFile, ResolveConflict, OthersAct, device
    <2> QED
        BY <1>2, <2>1, <2>2, <2>3, <2>4
  <1>4. SyncTypes'
      BY <1>1, <1>2, <1>3 DEF SyncInv, SyncTypes
  <1>5. ASSUME NEW j \in Tasks
        PROVE  WorkOK(task'[j], Len(history'), Known(seen', adopted'))
    <2>1. PICK v \in Work : v = task[j] /\ WorkOK(v, Len(history), Known(seen, adopted))
        BY TaskIs
    <2>2. v.remote \in Nat
        BY <2>1 DEF Work
    <2>3. WorkOK(v, Len(history'), Known(seen, adopted))
        BY <1>2, <2>1, <2>2 DEF WorkOK
    <2> QED
        BY <1>1, <2>1, <2>3
  <1> QED
      BY <1>1, <1>4, <1>5 DEF SyncInv

LEMMA StepSync == ASSUME Pass \in Tasks PROVE SyncInv /\ [Next]_vars => SyncInv'
  <1>1. ASSUME SyncInv, Next
        PROVE  SyncInv'
    <2>1. ASSUME NEW k \in Tasks, Advance(k)
          PROVE  SyncInv'
      <3>1. CASE Fetch(k) \/ Refetch(k) \/ ReadTree(k) \/ ReadFresh(k)
          BY <1>1, <3>1, ReadSteps
      <3>2. CASE Push(k) \/ CreateDocument(k) \/ ReadCreated(k)
          BY <1>1, <3>2, PushStep, CreateStep, ReadCreatedStep
      <3>3. CASE Decide(k) \/ ReadLink(k)
          BY <1>1, <3>3, DecideStep, LinkStep
      <3>4. CASE RecordPermission(k) \/ RecordPush(k) \/ Record(k)
          BY <1>1, <3>4, RecordStep
      <3>5. CASE WriteConflict(k) \/ Apply(k)
          BY <1>1, <3>5, VaultStep
      <3> QED
          BY <2>1, <3>1, <3>2, <3>3, <3>4, <3>5 DEF Advance
    <2>2. CASE StartPass
        BY <1>1, <2>2, StartPassStep
    <2>3. CASE ResolveConflict \/ EditFile \/ DeleteFile \/ OthersAct
        BY <1>1, <2>3, OthersStep
    <2>4. ASSUME NEW k \in Tasks, Start(k) \/ Fail(k)
          PROVE  SyncInv'
        BY <1>1, <2>4, StartOther, ReadSteps DEF Start
    <2> QED
        BY <1>1, <2>1, <2>2, <2>3, <2>4 DEF Next, Disturb
  <1>2. ASSUME SyncInv, UNCHANGED vars
        PROVE  SyncInv'
    <2>1. UNCHANGED <<history, access, file, sibling, meta, seen, adopted, task>>
        BY <1>2 DEF vars, device
    <2> QED
        BY <1>2, <2>1 DEF SyncInv, SyncTypes
  <1> QED
      BY <1>1, <1>2

(* What the vault knows of the document's versions, in every reachable     *)
(* state.                                                                  *)
THEOREM SyncInvariant == Spec => []SyncInv
  <1>1. Init => SyncInv
      BY InitSync
  <1>2. Pass \in Tasks
      BY ObsidianAssumption
  <1>3. SyncInv /\ [Next]_vars => SyncInv'
      BY <1>2, StepSync
  <1> QED
      BY <1>1, <1>3, PTL DEF Spec

(* The state of the vault and of its tasks keeps its types.                *)
THEOREM SyncKeepsTypes == Spec => []TypeOK
  <1>1. SyncInv => TypeOK
    <2> SUFFICES ASSUME SyncInv PROVE TypeOK
        OBVIOUS
    <2>1. \A b \in Known(seen, adopted) : b \in Versions \cup {0}
        BY KnownBound DEF Versions, Current
    <2>2. \A e \in LinkRow : e.base \in Known(seen, adopted) => e \in Entries
        BY <2>1 DEF LinkRow, Entries
    <2>3. ASSUME NEW k \in Tasks
          PROVE  task[k] \in [at : {"idle", "fetch", "decide", "fresh", "apply", "conflict",
                                    "record", "perm", "link", "push", "pushed", "refetch",
                                    "tree", "create", "created"},
                              kind : {"none", "failed", "pass"} \cup Kinds, entry : Entries,
                              remote : Versions \cup {0}, perm : {"editor", "viewer"},
                              text : Texts \cup {Missing}]
      <3>1. PICK v \in Work : /\ v = task[k] /\ v.entry \in LinkRow
                              /\ WorkOK(v, Len(history), Known(seen, adopted))
          BY TaskIs
      <3>2. v.entry \in Entries /\ v.remote \in Versions \cup {0}
        <4>1. v.entry \in Entries
            BY <2>2, <3>1 DEF WorkOK
        <4>2. v.remote \in Nat /\ v.remote <= Len(history)
            BY <3>1 DEF WorkOK, Work
        <4> QED
            BY <4>1, <4>2, KnownBound DEF Versions, Current
      <3> QED
          BY <3>1, <3>2 DEF Work, Stages
    <2>4. /\ history \in Seq(Texts) /\ access \in {"editor", "viewer", "gone"}
          /\ file \in Texts \cup {Missing} /\ sibling \in Versions \cup {0}
          /\ seen \subseteq Versions /\ adopted \in Versions \cup {0}
        BY DEF SyncInv, SyncTypes, Versions, Current
    <2>5. meta \in Entries
        BY <2>2 DEF SyncInv, SyncTypes
    <2>6. task = [k \in Tasks |-> task[k]]
        BY DEF SyncInv, SyncTypes
    <2> QED
        BY <2>3, <2>4, <2>5, <2>6 DEF TypeOK
  <1> QED
      BY <1>1, SyncInvariant, PTL

(* A push of the plugin replaces only a version that the vault knew: in    *)
(* the note, beside it in the conflict file, or as read back by the task   *)
(* that created the document (sync.ts:120).                                *)
THEOREM PushesReplaceWhatWasSeen == Spec => SeenBeforeReplaced
  <1>1. SyncInv /\ [Next]_vars =>
          [\A k \in Tasks : Pushing(k) => Current \in seen \cup {adopted}]_vars
    <2> SUFFICES ASSUME SyncInv, Next, NEW k \in Tasks, Pushing(k)
                 PROVE  Current \in seen \cup {adopted}
        OBVIOUS
    <2>1. task[k].at = "push" /\ history' # history /\ task'[k] # task[k]
        BY DEF Pushing, At
    <2>2. task \in [Tasks -> Work]
        BY DEF SyncInv, SyncTypes
    <2>3. \E j \in Tasks : Push(j) \/ CreateDocument(j)
      <3>1. ~OthersAct
          BY <2>1 DEF OthersAct
      <3>2. ~StartPass /\ ~ResolveConflict /\ ~EditFile /\ ~DeleteFile
          BY <2>1 DEF StartPass, ResolveConflict, EditFile, DeleteFile
      <3>3. \A j \in Tasks : ~Start(j) /\ ~Fail(j)
          BY <2>1 DEF Start, StartAuto, StartCommand, Fail
      <3>4. \A j \in Tasks : ~Fetch(j) /\ ~Refetch(j) /\ ~ReadTree(j) /\ ~ReadCreated(j)
          BY <2>1 DEF Fetch, Refetch, GetDocument, ReadTree, ReadCreated
      <3>5. \A j \in Tasks : ~Decide(j) /\ ~ReadFresh(j) /\ ~RecordPermission(j) /\ ~ReadLink(j)
          BY <2>1 DEF Decide, ReadFresh, RecordPermission, ReadLink
      <3>6. \A j \in Tasks : ~RecordPush(j) /\ ~WriteConflict(j) /\ ~Apply(j) /\ ~Record(j)
          BY <2>1 DEF RecordPush, WriteConflict, Apply, Record
      <3> QED
          BY <3>1, <3>2, <3>3, <3>4, <3>5, <3>6 DEF Next, Disturb, Advance
    <2>4. PICK j \in Tasks : Push(j) \/ CreateDocument(j)
        BY <2>3
    <2>5. j = k
        BY <2>1, <2>2, <2>4 DEF Push, CreateDocument, Finish, Goes, WithNote, Step
    <2>6. Push(k) /\ Accepts(k)
        BY <2>1, <2>4, <2>5 DEF CreateDocument, At, Push
    <2>7. task[k].entry.base = Current /\ task[k].entry.base # 0
          /\ task[k].entry.base \in Known(seen, adopted)
        BY <2>1, <2>6 DEF Accepts, SyncInv, WorkOK
    <2> QED
        BY <2>7 DEF Known
  <1> QED
      BY <1>1, SyncInvariant, PTL DEF Spec, SeenBeforeReplaced
-----------------------------------------------------------------------------
(* Live editing: the ordinary saves of the web editor.                     *)

CONSTANTS Edits, Web, Plugin, LiveWeb, OthersWrite

VARIABLES version, content, kept, room, unused, client

Editors == INSTANCE LiveEditing

Sheet(n) ==
    [mode : {"closed", "open", "live"}, synced : BOOLEAN, wasLive : BOOLEAN,
     due : BOOLEAN, buffer : SUBSET Edits, base : 0..n, initial : SUBSET Edits,
     conflict : BOOLEAN, save : {"idle", "send", "refetch", "resend"},
     sent : SUBSET Edits]

(* What an editor that was never live holds: its draft, and the text it is *)
(* sending, only add to the text they are based on, and that text is the   *)
(* current version's as long as its number is.                             *)
DraftOK(c, r, n, text) ==
    ~r.wasLive =>
        /\ r.mode \in {"closed", "open"} /\ ~r.synced
        /\ r.mode = "closed" => r.save = "idle"
        /\ c \in Plugin => r.mode = "closed"
        /\ r.save \in {"idle", "send"}
        /\ r.initial \subseteq r.buffer
        /\ r.save = "send" => r.initial \subseteq r.sent /\ r.sent \subseteq r.buffer
        /\ r.mode = "open" /\ r.base = n => r.initial = text

DraftsInv ==
    /\ version \in Nat \ {0} /\ content \subseteq kept /\ kept \subseteq Edits
    /\ room \subseteq Edits /\ unused \subseteq Edits
    /\ client \in [Editors!Clients -> Sheet(version)]
    /\ \A c \in Editors!Clients : DraftOK(c, client[c], version, content)

LEMMA SheetIs == ASSUME DraftsInv, NEW c \in Editors!Clients
                 PROVE  /\ client[c] \in Sheet(version)
                        /\ DraftOK(c, client[c], version, content)
  BY DEF DraftsInv

(* An editor that does something, at a version that only grows.            *)
LEMMA OneEditor ==
    ASSUME DraftsInv, NEW c \in Editors!Clients, NEW r \in Sheet(version'),
           client' = [client EXCEPT ![c] = r],
           version' \in Nat, version <= version', version' = version => content' = content,
           content' \subseteq kept', kept' \subseteq Edits,
           room' \subseteq Edits, unused' \subseteq Edits,
           DraftOK(c, r, version', content')
    PROVE  DraftsInv'
  <1>1. version \in Nat /\ version # 0 /\ version' # 0
      BY DEF DraftsInv
  <1>2. ASSUME NEW s \in Sheet(version) PROVE s \in Sheet(version') /\ s.base \in 0..version
      BY <1>1, <1>2 DEF Sheet
  <1>3. client' \in [Editors!Clients -> Sheet(version')]
      BY <1>2 DEF DraftsInv
  <1>4. ASSUME NEW d \in Editors!Clients PROVE DraftOK(d, client'[d], version', content')
    <2>1. CASE d = c
        BY <2>1 DEF DraftsInv
    <2>2. CASE d # c
      <3>1. client'[d] = client[d] /\ client[d].base \in 0..version
          BY <1>2, <2>2, SheetIs DEF DraftsInv
      <3>2. DraftOK(d, client[d], version, content)
          BY SheetIs
      <3>3. version' = version \/ client[d].base # version'
          BY <1>1, <3>1
      <3> QED
          BY <3>1, <3>2, <3>3 DEF DraftOK
    <2> QED
        BY <2>1, <2>2
  <1> QED
      BY <1>1, <1>3, <1>4 DEF DraftsInv

(* An editor does something that leaves the document alone.                *)
LEMMA EditorAlone ==
    ASSUME DraftsInv, NEW c \in Editors!Clients, NEW r \in Sheet(version),
           Editors!Becomes(c, r), UNCHANGED <<version, content, kept>>,
           room' \subseteq Edits, unused' \subseteq Edits,
           DraftOK(c, r, version, content)
    PROVE  DraftsInv'
  <1>1. version \in Nat /\ content \subseteq kept /\ kept \subseteq Edits
      BY DEF DraftsInv
  <1>2. client' = [client EXCEPT ![c] = r]
      BY DEF Editors!Becomes
  <1>3. /\ r \in Sheet(version') /\ version' \in Nat /\ version <= version'
        /\ content' \subseteq kept' /\ kept' \subseteq Edits
        /\ (version' = version => content' = content) /\ DraftOK(c, r, version', content')
      BY <1>1
  <1> QED
      BY <1>2, <1>3, OneEditor

LEMMA InitDrafts == Editors!Init => DraftsInv
  <1> SUFFICES ASSUME Editors!Init PROVE DraftsInv
      OBVIOUS
  <1>1. PICK r : r = Editors!Closed
      OBVIOUS
  <1>2. r \in Sheet(1)
      BY <1>1 DEF Editors!Closed, Sheet
  <1>3. r.mode = "closed" /\ r.save = "idle" /\ ~r.synced /\ r.initial = {}
      BY <1>1 DEF Editors!Closed
  <1>4. \A c \in Editors!Clients : DraftOK(c, r, 1, {})
      BY <1>3 DEF DraftOK
  <1>5. version = 1 /\ content = {} /\ kept = {} /\ room = {} /\ unused = Edits
        /\ client = [c \in Editors!Clients |-> r]
      BY <1>1 DEF Editors!Init
  <1> QED
      BY <1>2, <1>4, <1>5 DEF DraftsInv

LEMMA OpenStep == ASSUME DraftsInv, NEW c \in Editors!Clients,
                         Editors!Open(c) \/ Editors!Close(c)
                  PROVE  DraftsInv'
  <1>1. /\ version \in Nat /\ content \subseteq Edits /\ UNCHANGED <<version, content, kept>>
        /\ room' \subseteq Edits /\ unused' \subseteq Edits
      BY DEF DraftsInv, Editors!Open, Editors!Close
  <1>2. PICK z : z = Editors!Closed
      OBVIOUS
  <1>3. z \in Sheet(version) /\ z.mode = "closed" /\ z.save = "idle" /\ ~z.synced
        /\ z.initial = {} /\ z.sent = {}
      BY <1>1, <1>2 DEF Editors!Closed, Sheet
  <1>4. CASE Editors!Close(c)
    <2>1. DraftOK(c, z, version, content)
        BY <1>3 DEF DraftOK
    <2> QED
        BY <1>1, <1>2, <1>3, <1>4, <2>1, EditorAlone DEF Editors!Close
  <1>5. CASE Editors!Open(c)
    <2>1. PICK m \in {"open", "live"} : m = IF c \in Web THEN "open" ELSE "live"
        OBVIOUS
    <2>2. PICK p \in BOOLEAN : p = (c \in Plugin)
      <3>1. CASE c \in Plugin
        <4>1. TRUE = (c \in Plugin) /\ TRUE \in BOOLEAN
            BY <3>1
        <4> QED
            BY <4>1
      <3>2. CASE c \notin Plugin
        <4>1. FALSE = (c \in Plugin) /\ FALSE \in BOOLEAN
            BY <3>2
        <4> QED
            BY <4>1
      <3> QED
          BY <3>1, <3>2
    <2>3. PICK r : r = [z EXCEPT !.base = version, !.initial = content, !.buffer = content,
                                 !.mode = m, !.wasLive = p]
        OBVIOUS
    <2>4. r \in Sheet(version)
      <3>1. r = [mode |-> m, synced |-> FALSE, wasLive |-> p, due |-> FALSE, buffer |-> content,
                 base |-> version, initial |-> content, conflict |-> FALSE, save |-> "idle",
                 sent |-> {}]
          BY <1>2, <2>3 DEF Editors!Closed
      <3>2. content \in SUBSET Edits /\ {} \in SUBSET Edits /\ version \in 0..version
          BY <1>1
      <3> QED
          BY <2>1, <2>2, <3>1, <3>2 DEF Sheet
    <2>5. /\ r.mode = m /\ r.wasLive = p /\ ~r.synced /\ r.save = "idle"
          /\ r.initial = content /\ r.buffer = content
        BY <1>3, <2>3 DEF Sheet
    <2>6. ~p => c \notin Plugin /\ m = "open"
        BY <2>1, <2>2 DEF Editors!Clients
    <2>7. DraftOK(c, r, version, content)
        BY <2>5, <2>6 DEF DraftOK
    <2>8. Editors!Becomes(c, r)
        BY <1>2, <1>5, <2>1, <2>2, <2>3 DEF Editors!Open
    <2> QED
        BY <1>1, <2>4, <2>7, <2>8, EditorAlone
  <1> QED
      BY <1>4, <1>5

LEMMA ModeStep == ASSUME DraftsInv, NEW c \in Editors!Clients,
                         Editors!GoLive(c) \/ Editors!LeaveLive(c)
                  PROVE  DraftsInv'
  <1>1. PICK s : s = client[c]
      OBVIOUS
  <1>2. s \in Sheet(version) /\ DraftOK(c, s, version, content)
      BY <1>1, SheetIs
  <1>3. /\ UNCHANGED <<version, content, kept>> /\ room' \subseteq Edits /\ unused' \subseteq Edits
      BY DEF DraftsInv, Editors!GoLive, Editors!LeaveLive
  <1>4. CASE Editors!GoLive(c)
    <2>1. PICK r : r = [s EXCEPT !.mode = "live", !.synced = FALSE, !.wasLive = TRUE]
        OBVIOUS
    <2>2. r \in Sheet(version) /\ r.wasLive
        BY <1>2, <2>1 DEF Sheet
    <2>3. Editors!Becomes(c, r) /\ DraftOK(c, r, version, content)
        BY <1>1, <1>4, <2>1, <2>2 DEF Editors!GoLive, DraftOK
    <2> QED
        BY <1>3, <2>2, <2>3, EditorAlone
  <1>5. CASE Editors!LeaveLive(c)
    <2>1. PICK r : r = [s EXCEPT !.mode = "open", !.synced = FALSE]
        OBVIOUS
    <2>2. r \in Sheet(version) /\ r.wasLive = s.wasLive
        BY <1>2, <2>1 DEF Sheet
    <2>3. s.mode = "live"
        BY <1>1, <1>5 DEF Editors!LeaveLive, Editors!Live
    <2>4. s.wasLive
        BY <1>2, <2>3 DEF DraftOK, Sheet
    <2>5. Editors!Becomes(c, r) /\ DraftOK(c, r, version, content)
        BY <1>1, <1>5, <2>1, <2>2, <2>4 DEF Editors!LeaveLive, DraftOK
    <2> QED
        BY <1>3, <2>2, <2>5, EditorAlone
  <1> QED
      BY <1>4, <1>5

LEMMA MergeStep == ASSUME DraftsInv, NEW c \in Editors!Clients,
                          \/ Editors!SeedOrJoin(c) \/ Editors!Upload(c) \/ Editors!Receive(c)
                   PROVE  DraftsInv'
  <1>1. PICK s : s = client[c]
      OBVIOUS
  <1>2. s \in Sheet(version) /\ DraftOK(c, s, version, content)
      BY <1>1, SheetIs
  <1>3. UNCHANGED <<version, content, kept, unused>>
      BY DEF Editors!SeedOrJoin, Editors!Upload, Editors!Receive
  <1>4. room \subseteq Edits /\ unused' \subseteq Edits /\ s.buffer \subseteq Edits
      BY <1>2, <1>3 DEF DraftsInv, Sheet
  <1>5. CASE Editors!SeedOrJoin(c)
    <2>1. PICK text : text = IF room = {} THEN s.buffer ELSE room
        OBVIOUS
    <2>2. text \subseteq Edits
        BY <1>4, <2>1
    <2>3. PICK d : d = (text # s.initial)
        OBVIOUS
    <2>4. d \in BOOLEAN
        BY <2>3
    <2>5. PICK r : r = [s EXCEPT !.synced = TRUE, !.buffer = text, !.due = d]
        OBVIOUS
    <2>6. r \in Sheet(version) /\ r.wasLive = s.wasLive
        BY <1>2, <2>2, <2>4, <2>5 DEF Sheet
    <2>7. s.wasLive
      <3>1. s.mode = "live"
          BY <1>1, <1>5 DEF Editors!SeedOrJoin, Editors!Live
      <3> QED
          BY <1>2, <3>1 DEF DraftOK, Sheet
    <2>8. room' \subseteq Edits /\ Editors!Becomes(c, r)
        BY <1>1, <1>5, <2>1, <2>2, <2>3, <2>5 DEF Editors!SeedOrJoin
    <2> QED
        BY <1>3, <1>4, <2>6, <2>7, <2>8, EditorAlone DEF DraftOK
  <1>6. CASE Editors!Upload(c)
    <2>1. room' \subseteq Edits /\ client' = client
        BY <1>1, <1>4, <1>6 DEF Editors!Upload
    <2> QED
        BY <1>3, <1>4, <2>1 DEF DraftsInv
  <1>7. CASE Editors!Receive(c)
    <2>1. PICK r : r = [s EXCEPT !.buffer = @ \cup room, !.due = TRUE]
        OBVIOUS
    <2>2. r \in Sheet(version) /\ r.wasLive = s.wasLive
        BY <1>2, <1>4, <2>1 DEF Sheet
    <2>3. s.wasLive
        BY <1>1, <1>2, <1>7 DEF Editors!Receive, DraftOK, Sheet
    <2>4. room' \subseteq Edits /\ Editors!Becomes(c, r)
        BY <1>1, <1>4, <1>7, <2>1 DEF Editors!Receive
    <2> QED
        BY <1>3, <1>4, <2>2, <2>3, <2>4, EditorAlone DEF DraftOK
  <1> QED
      BY <1>5, <1>6, <1>7

LEMMA TypeStep == ASSUME DraftsInv, NEW c \in Editors!Clients, Editors!Type(c)
                  PROVE  DraftsInv'
  <1>1. PICK s : s = client[c]
      OBVIOUS
  <1>2. s \in Sheet(version) /\ DraftOK(c, s, version, content)
      BY <1>1, SheetIs
  <1>3. PICK e \in unused : /\ unused' = unused \ {e}
                            /\ Editors!Becomes(c, [s EXCEPT !.buffer = @ \cup {e}, !.due = TRUE])
      BY <1>1 DEF Editors!Type
  <1>4. /\ UNCHANGED <<version, content, kept, room>> /\ e \in Edits
        /\ room' \subseteq Edits /\ unused' \subseteq Edits
      BY <1>3 DEF Editors!Type, DraftsInv
  <1>5. PICK r : r = [s EXCEPT !.buffer = @ \cup {e}, !.due = TRUE]
      OBVIOUS
  <1>6. r \in Sheet(version)
      BY <1>2, <1>4, <1>5 DEF Sheet
  <1>7. /\ r.wasLive = s.wasLive /\ r.mode = s.mode /\ r.synced = s.synced
        /\ r.save = s.save /\ r.initial = s.initial /\ r.sent = s.sent
        /\ s.buffer \subseteq r.buffer /\ r.base = s.base
      BY <1>2, <1>5 DEF Sheet
  <1>8. DraftOK(c, r, version, content)
      BY <1>2, <1>7 DEF DraftOK
  <1> QED
      BY <1>3, <1>4, <1>5, <1>6, <1>8, EditorAlone

LEMMA BeginStep == ASSUME DraftsInv, NEW c \in Editors!Clients,
                          Editors!BeginSave(c) \/ Editors!Reload(c)
                   PROVE  DraftsInv'
  <1>1. PICK s : s = client[c]
      OBVIOUS
  <1>2. s \in Sheet(version) /\ DraftOK(c, s, version, content)
      BY <1>1, SheetIs
  <1>3. /\ UNCHANGED <<version, content, kept, room, unused>> /\ version \in Nat
        /\ content \subseteq Edits /\ room' \subseteq Edits /\ unused' \subseteq Edits
      BY DEF Editors!BeginSave, Editors!Reload, DraftsInv
  <1>4. CASE Editors!BeginSave(c)
    <2>1. PICK r : r = [s EXCEPT !.save = "send", !.sent = s.buffer, !.due = FALSE]
        OBVIOUS
    <2>2. r \in Sheet(version)
        BY <1>2, <2>1 DEF Sheet
    <2>3. /\ r.wasLive = s.wasLive /\ r.mode = s.mode /\ r.synced = s.synced
          /\ r.save = "send" /\ r.initial = s.initial /\ r.sent = s.buffer
          /\ r.buffer = s.buffer /\ r.base = s.base
        BY <1>2, <2>1 DEF Sheet
    <2>4. s.mode # "closed" /\ Editors!Becomes(c, r)
        BY <1>1, <1>4, <2>1 DEF Editors!BeginSave
    <2>5. DraftOK(c, r, version, content)
        BY <1>2, <2>3, <2>4 DEF DraftOK
    <2> QED
        BY <1>3, <2>2, <2>4, <2>5, EditorAlone
  <1>5. CASE Editors!Reload(c)
    <2>1. PICK r : r = [s EXCEPT !.buffer = content, !.initial = content,
                                 !.base = version, !.conflict = FALSE]
        OBVIOUS
    <2>2. r \in Sheet(version)
      <3>1. version \in 0..version /\ content \in SUBSET Edits
          BY <1>3
      <3> QED
          BY <1>2, <2>1, <3>1 DEF Sheet
    <2>3. /\ r.wasLive = s.wasLive /\ r.mode = s.mode /\ r.synced = s.synced
          /\ r.save = s.save /\ r.initial = content /\ r.buffer = content
        BY <1>2, <2>1 DEF Sheet
    <2>4. s.mode = "open" /\ s.save = "idle" /\ Editors!Becomes(c, r)
        BY <1>1, <1>5, <2>1 DEF Editors!Reload, Editors!Saving
    <2>5. DraftOK(c, r, version, content)
        BY <1>2, <2>3, <2>4 DEF DraftOK
    <2> QED
        BY <1>3, <2>2, <2>4, <2>5, EditorAlone
  <1> QED
      BY <1>4, <1>5

(* What a write does to the document.                                      *)
LEMMA WriteStep ==
    ASSUME DraftsInv, NEW c \in Editors!Clients, Editors!Written(c)
    PROVE  /\ version' \in Nat /\ version <= version'
           /\ (version' = version => content' = content)
           /\ content' \subseteq kept' /\ kept' \subseteq Edits /\ content' = client[c].sent
  <1>1. client[c].sent \subseteq Edits
      BY SheetIs DEF Sheet
  <1>2. content' = client[c].sent /\ kept' = kept \cup content'
        /\ version' = IF content' = content THEN version ELSE version + 1
      BY DEF Editors!Written
  <1>3. version \in Nat /\ kept \subseteq Edits
      BY DEF DraftsInv
  <1> QED
      BY <1>1, <1>2, <1>3

(* An editor whose request ends or goes on, with nothing written.          *)
LEMMA AnswerStep ==
    ASSUME DraftsInv, NEW c \in Editors!Clients, UNCHANGED <<version, content, kept, room, unused>>,
           \/ Editors!Saving(c) /\ Editors!Becomes(c, [client[c] EXCEPT !.save = "idle", !.sent = {}])
           \/ client[c].save \in {"send", "resend"} /\ Editors!Conflicted(c)
           \/ Editors!Refetch(c)
    PROVE  DraftsInv'
  <1>1. PICK s : s = client[c]
      OBVIOUS
  <1>2. s \in Sheet(version) /\ DraftOK(c, s, version, content)
      BY <1>1, SheetIs
  <1>3. /\ version \in 0..version /\ content \in SUBSET Edits
        /\ room' \subseteq Edits /\ unused' \subseteq Edits
      BY DEF DraftsInv
  <1>4. s.save # "idle"
      BY <1>1 DEF Editors!Saving, Editors!Refetch
  <1>5. ~s.wasLive => s.mode = "open" /\ s.save = "send" /\ c \notin Plugin
      BY <1>2, <1>4 DEF DraftOK
  <1>6. SUFFICES \E r \in Sheet(version) : Editors!Becomes(c, r) /\ DraftOK(c, r, version, content)
      BY <1>3, EditorAlone
  <1>7. ASSUME NEW x \in BOOLEAN,
               Editors!Becomes(c, [s EXCEPT !.conflict = x, !.save = "idle", !.sent = {}])
        PROVE  \E r \in Sheet(version) :
                 Editors!Becomes(c, r) /\ DraftOK(c, r, version, content)
    <2>1. PICK r : r = [s EXCEPT !.conflict = x, !.save = "idle", !.sent = {}]
        OBVIOUS
    <2>2. r \in Sheet(version)
        BY <1>2, <1>7, <2>1 DEF Sheet
    <2>3. /\ r.wasLive = s.wasLive /\ r.mode = s.mode /\ r.synced = s.synced
          /\ r.save = "idle" /\ r.initial = s.initial /\ r.buffer = s.buffer /\ r.base = s.base
        BY <1>2, <2>1 DEF Sheet
    <2>4. DraftOK(c, r, version, content)
        BY <1>2, <2>3 DEF DraftOK
    <2> QED
        BY <1>7, <2>1, <2>2, <2>4
  <1>8. CASE Editors!Becomes(c, [s EXCEPT !.save = "idle", !.sent = {}])
    <2>1. s.conflict \in BOOLEAN
        BY <1>2 DEF Sheet
    <2>2. [s EXCEPT !.save = "idle", !.sent = {}]
            = [s EXCEPT !.conflict = s.conflict, !.save = "idle", !.sent = {}]
        BY <1>2 DEF Sheet
    <2> QED
        BY <1>7, <1>8, <2>1, <2>2
  <1>9. CASE s.save \in {"send", "resend"} /\ Editors!Conflicted(c)
    <2>1. CASE c \in Plugin
      <3>1. s.wasLive
          BY <1>5, <2>1
      <3>2. \/ Editors!Becomes(c, [s EXCEPT !.base = version, !.save = "idle", !.sent = {}])
            \/ Editors!Becomes(c, [s EXCEPT !.base = version, !.sent = s.buffer])
        <4>1. IF s.buffer = s.initial
              THEN Editors!Becomes(c, [s EXCEPT !.base = version, !.save = "idle", !.sent = {}])
              ELSE Editors!Becomes(c, [s EXCEPT !.base = version, !.sent = s.buffer])
            BY <1>1, <1>9, <2>1, Zenon DEF Editors!Conflicted
        <4> QED
            BY <4>1
      <3>3. ASSUME NEW r \in Sheet(version), r.wasLive, Editors!Becomes(c, r)
            PROVE  \E q \in Sheet(version) :
                     Editors!Becomes(c, q) /\ DraftOK(c, q, version, content)
          BY <3>3 DEF DraftOK
      <3>4. PICK r, q : /\ r = [s EXCEPT !.base = version, !.save = "idle", !.sent = {}]
                        /\ q = [s EXCEPT !.base = version, !.sent = s.buffer]
          OBVIOUS
      <3>5. r \in Sheet(version) /\ q \in Sheet(version) /\ r.wasLive = s.wasLive
            /\ q.wasLive = s.wasLive
          BY <1>2, <1>3, <3>4 DEF Sheet
      <3> QED
          BY <3>1, <3>2, <3>3, <3>4, <3>5
    <2>2. CASE c \notin Plugin /\ Editors!Live(c) /\ s.save = "send"
      <3>1. PICK r : r = [s EXCEPT !.save = "refetch", !.conflict = TRUE]
          OBVIOUS
      <3>2. r \in Sheet(version) /\ r.wasLive = s.wasLive
          BY <1>2, <3>1 DEF Sheet
      <3>3. s.wasLive
          BY <1>1, <1>5, <2>2 DEF Editors!Live
      <3>4. Editors!Becomes(c, r)
          BY <1>1, <1>9, <2>2, <3>1 DEF Editors!Conflicted
      <3> QED
          BY <3>2, <3>3, <3>4 DEF DraftOK
    <2>3. CASE c \notin Plugin /\ ~(Editors!Live(c) /\ s.save = "send")
      <3>1. Editors!Refused(c)
          BY <1>1, <1>9, <2>3 DEF Editors!Conflicted
      <3> QED
          BY <1>1, <1>7, <3>1 DEF Editors!Refused
    <2> QED
        BY <2>1, <2>2, <2>3
  <1>10. CASE Editors!Refetch(c)
    <2>1. PICK r : r = [s EXCEPT !.base = version, !.initial = content, !.save = "resend"]
        OBVIOUS
    <2>2. r \in Sheet(version) /\ r.wasLive = s.wasLive
        BY <1>2, <1>3, <2>1 DEF Sheet
    <2>3. s.wasLive /\ Editors!Becomes(c, r)
        BY <1>1, <1>5, <1>10, <2>1 DEF Editors!Refetch
    <2> QED
        BY <2>2, <2>3 DEF DraftOK
  <1> QED
      BY <1>1, <1>8, <1>9, <1>10

LEMMA SendStep == ASSUME DraftsInv, NEW c \in Editors!Clients, Editors!Send(c)
                  PROVE  DraftsInv'
  <1>1. PICK s : s = client[c]
      OBVIOUS
  <1>2. s \in Sheet(version) /\ DraftOK(c, s, version, content)
      BY <1>1, SheetIs
  <1>3. s.save \in {"send", "resend"} /\ UNCHANGED <<room, unused>>
        /\ room' \subseteq Edits /\ unused' \subseteq Edits
      BY <1>1 DEF Editors!Send, DraftsInv
  <1>4. CASE Editors!Written(c) /\ Editors!Committed(c)
    <2>1. /\ version' \in Nat /\ version <= version'
          /\ (version' = version => content' = content)
          /\ content' \subseteq kept' /\ kept' \subseteq Edits /\ content' = s.sent
        BY <1>1, <1>4, WriteStep
    <2>2. PICK r : r = [s EXCEPT !.base = version', !.initial = s.sent,
                                 !.conflict = FALSE, !.save = "idle", !.sent = {}]
        OBVIOUS
    <2>3. r \in Sheet(version')
      <3>1. version' \in 0..version' /\ s.sent \in SUBSET Edits /\ {} \in SUBSET Edits
          BY <1>2, <2>1 DEF Sheet
      <3>2. r = [mode |-> s.mode, synced |-> s.synced, wasLive |-> s.wasLive, due |-> s.due,
                 buffer |-> s.buffer, base |-> version', initial |-> s.sent, conflict |-> FALSE,
                 save |-> "idle", sent |-> {}]
          BY <1>2, <2>2 DEF Sheet
      <3> QED
          BY <1>2, <3>1, <3>2 DEF Sheet
    <2>4. /\ r.wasLive = s.wasLive /\ r.mode = s.mode /\ r.synced = s.synced
          /\ r.save = "idle" /\ r.initial = s.sent /\ r.buffer = s.buffer
        BY <1>2, <2>2 DEF Sheet
    <2>5. DraftOK(c, r, version', content')
        BY <1>2, <1>3, <2>1, <2>4 DEF DraftOK
    <2>6. client' = [client EXCEPT ![c] = r]
        BY <1>1, <1>4, <2>2 DEF Editors!Committed, Editors!Becomes
    <2> QED
        BY <1>3, <2>1, <2>3, <2>5, <2>6, OneEditor
  <1>5. CASE Editors!Conflicted(c) /\ UNCHANGED <<version, content, kept>>
      BY <1>1, <1>3, <1>5, AnswerStep
  <1> QED
      BY <1>4, <1>5 DEF Editors!Send

LEMMA FailStep == ASSUME DraftsInv, NEW c \in Editors!Clients, Editors!SaveFails(c)
                  PROVE  DraftsInv'
  <1>1. PICK s : s = client[c]
      OBVIOUS
  <1>2. s \in Sheet(version) /\ DraftOK(c, s, version, content)
      BY <1>1, SheetIs
  <1>3. /\ Editors!Saving(c) /\ Editors!Becomes(c, [s EXCEPT !.save = "idle", !.sent = {}])
        /\ UNCHANGED <<room, unused>> /\ room' \subseteq Edits /\ unused' \subseteq Edits
      BY <1>1 DEF Editors!SaveFails, DraftsInv
  <1>4. CASE UNCHANGED <<version, content, kept>>
      BY <1>1, <1>3, <1>4, AnswerStep
  <1>5. CASE Editors!Written(c) /\ s.base = version
    <2>1. /\ version' \in Nat /\ version <= version'
          /\ (version' = version => content' = content)
          /\ content' \subseteq kept' /\ kept' \subseteq Edits /\ content' = s.sent
        BY <1>1, <1>5, WriteStep
    <2>2. PICK r : r = [s EXCEPT !.save = "idle", !.sent = {}]
        OBVIOUS
    <2>3. version \in Nat /\ s.base \in 0..version'
        BY <1>2, <2>1 DEF DraftsInv, Sheet
    <2>4. r \in Sheet(version')
        BY <1>2, <2>2, <2>3 DEF Sheet
    <2>5. /\ r.wasLive = s.wasLive /\ r.mode = s.mode /\ r.synced = s.synced
          /\ r.save = "idle" /\ r.initial = s.initial /\ r.buffer = s.buffer /\ r.base = s.base
        BY <1>2, <2>2 DEF Sheet
    <2>6. r.base = version' => version' = version
        BY <1>5, <2>5
    <2>7. DraftOK(c, r, version', content')
        BY <1>2, <1>5, <2>1, <2>5, <2>6 DEF DraftOK
    <2> QED
        BY <1>3, <2>1, <2>2, <2>4, <2>7, OneEditor DEF Editors!Becomes
  <1> QED
      BY <1>1, <1>4, <1>5 DEF Editors!SaveFails

(* What the other writers and a restart of the server do.                  *)
LEMMA OutsideStep == ASSUME DraftsInv, Editors!OthersRevise \/ Editors!Restart PROVE DraftsInv'
  <1>1. client' = client /\ version \in Nat \ {0} /\ client \in [Editors!Clients -> Sheet(version)]
      BY DEF DraftsInv, Editors!OthersRevise, Editors!Restart
  <1>2. CASE Editors!Restart
    <2>1. UNCHANGED <<version, content, kept, unused, client>> /\ room' = {}
        BY <1>2 DEF Editors!Restart
    <2> QED
        BY <2>1 DEF DraftsInv
  <1>3. CASE Editors!OthersRevise
    <2>1. PICK e \in unused : content' = content \cup {e} /\ unused' = unused \ {e}
        BY <1>3 DEF Editors!OthersRevise
    <2>2. version' = version + 1 /\ kept' = kept \cup content' /\ room' = room
        BY <1>3 DEF Editors!OthersRevise
    <2>3. /\ version' \in Nat \ {0} /\ content' \subseteq kept' /\ kept' \subseteq Edits
          /\ room' \subseteq Edits /\ unused' \subseteq Edits
        BY <1>1, <2>1, <2>2 DEF DraftsInv
    <2>4. ASSUME NEW s \in Sheet(version) PROVE s \in Sheet(version') /\ s.base # version'
        BY <1>1, <2>2, <2>4 DEF Sheet
    <2>5. client' \in [Editors!Clients -> Sheet(version')]
        BY <1>1, <2>4
    <2>6. ASSUME NEW c \in Editors!Clients PROVE DraftOK(c, client'[c], version', content')
      <3>1. client'[c] = client[c] /\ client[c].base # version'
            /\ DraftOK(c, client[c], version, content)
          BY <1>1, <2>4, SheetIs
      <3> QED
          BY <3>1 DEF DraftOK
    <2> QED
        BY <2>3, <2>5, <2>6 DEF DraftsInv
  <1> QED
      BY <1>2, <1>3

THEOREM DraftsInvariant == Editors!Spec => []DraftsInv
  <1>1. DraftsInv /\ [Editors!Next]_Editors!vars => DraftsInv'
    <2> SUFFICES ASSUME DraftsInv, [Editors!Next]_Editors!vars PROVE DraftsInv'
        OBVIOUS
    <2>1. CASE UNCHANGED Editors!vars
      <3>1. UNCHANGED <<version, content, kept, room, unused, client>>
          BY <2>1 DEF Editors!vars
      <3> QED
          BY <3>1 DEF DraftsInv
    <2>2. CASE Editors!OthersRevise \/ Editors!Restart
        BY <2>2, OutsideStep
    <2>3. ASSUME NEW c \in Editors!Clients, Editors!Open(c) \/ Editors!Close(c)
          PROVE  DraftsInv'
        BY <2>3, OpenStep
    <2>4. ASSUME NEW c \in Editors!Clients, Editors!GoLive(c) \/ Editors!LeaveLive(c)
          PROVE  DraftsInv'
        BY <2>4, ModeStep
    <2>5. ASSUME NEW c \in Editors!Clients,
                 \/ Editors!SeedOrJoin(c) \/ Editors!Upload(c) \/ Editors!Receive(c)
          PROVE  DraftsInv'
        BY <2>5, MergeStep
    <2>6. ASSUME NEW c \in Editors!Clients, Editors!Type(c) PROVE DraftsInv'
        BY <2>6, TypeStep
    <2>7. ASSUME NEW c \in Editors!Clients, Editors!BeginSave(c) \/ Editors!Reload(c)
          PROVE  DraftsInv'
        BY <2>7, BeginStep
    <2>8. ASSUME NEW c \in Editors!Clients, Editors!Send(c) PROVE DraftsInv'
        BY <2>8, SendStep
    <2>9. ASSUME NEW c \in Editors!Clients, Editors!SaveFails(c) PROVE DraftsInv'
        BY <2>9, FailStep
    <2>10. ASSUME NEW c \in Editors!Clients, Editors!Refetch(c) PROVE DraftsInv'
      <3>1. UNCHANGED <<version, content, kept, room, unused>>
          BY <2>10 DEF Editors!Refetch
      <3> QED
          BY <2>10, <3>1, AnswerStep
    <2> QED
        BY <2>1, <2>2, <2>3, <2>4, <2>5, <2>6, <2>7, <2>8, <2>9, <2>10
           DEF Editors!Next, Editors!Disturb, Editors!LiveStep
  <1> QED
      BY <1>1, InitDrafts, PTL DEF Editors!Spec

(* The values of the editors are what their declarations say: the text of  *)
(* the document is among the texts it had, and no editor is based on a     *)
(* version that does not exist yet.                                        *)
THEOREM EditorsKeepTypes == Editors!Spec => []Editors!TypeOK
  <1>1. DraftsInv => Editors!TypeOK
    <2> SUFFICES ASSUME DraftsInv PROVE Editors!TypeOK
        OBVIOUS
    <2>1. client \in [Editors!Clients -> Sheet(version)]
        BY DEF DraftsInv
    <2> QED
        BY <2>1 DEF DraftsInv, Editors!TypeOK, Sheet
  <1> QED
      BY <1>1, DraftsInvariant, PTL

(* A save of an editor that was never live keeps the text of the version   *)
(* it replaces, whatever the server, the other editors and the live ones   *)
(* do between (use-document-editor.ts:131).                                *)
THEOREM OrdinarySavesLoseNothing == Editors!Spec => Editors!OrdinarySavesKeep
  <1>1. DraftsInv /\ [Editors!Next]_Editors!vars =>
          [\A c \in Editors!Clients : Editors!Replaces(c) /\ ~client[c].wasLive
                                        => content \subseteq content']_Editors!vars
    <2> SUFFICES ASSUME DraftsInv, Editors!Next, NEW c \in Editors!Clients,
                        Editors!Replaces(c), ~client[c].wasLive
                 PROVE  content \subseteq content'
        OBVIOUS
    <2>1. client'[c] # client[c] /\ content' # content
        BY DEF Editors!Replaces
    <2>2. ~Editors!OthersRevise /\ ~Editors!Restart
        BY <2>1 DEF Editors!OthersRevise, Editors!Restart
    <2>3. \A d \in Editors!Clients :
            /\ ~Editors!Open(d) /\ ~Editors!GoLive(d) /\ ~Editors!LeaveLive(d)
            /\ ~Editors!Close(d) /\ ~Editors!Type(d) /\ ~Editors!Reload(d)
            /\ ~Editors!BeginSave(d)
        BY <2>1 DEF Editors!Open, Editors!GoLive, Editors!LeaveLive, Editors!Close, Editors!Type,
                    Editors!Reload, Editors!BeginSave
    <2>4. \A d \in Editors!Clients :
            /\ ~Editors!SeedOrJoin(d) /\ ~Editors!Upload(d) /\ ~Editors!Receive(d)
            /\ ~Editors!Refetch(d)
        BY <2>1 DEF Editors!SeedOrJoin, Editors!Upload, Editors!Receive, Editors!Refetch
    <2>5. PICK d \in Editors!Clients : Editors!Send(d) \/ Editors!SaveFails(d)
        BY <2>2, <2>3, <2>4 DEF Editors!Next, Editors!Disturb, Editors!LiveStep
    <2>6. /\ Editors!Written(d) /\ client[d].base = version
          /\ client[d].save \in {"send", "resend", "refetch"}
        BY <2>1, <2>5 DEF Editors!Send, Editors!SaveFails, Editors!Saving, DraftsInv, Sheet
    <2>7. \E x : client' = [client EXCEPT ![d] = x]
        BY <2>1, <2>5 DEF Editors!Send, Editors!SaveFails, Editors!Becomes, Editors!Committed
    <2>8. c = d
        BY <2>1, <2>7 DEF DraftsInv
    <2>9. DraftOK(c, client[c], version, content) /\ client[c] \in Sheet(version)
        BY SheetIs
    <2>10. client[c].mode = "open" /\ client[c].save = "send"
        BY <2>6, <2>8, <2>9 DEF DraftOK
    <2>11. content = client[c].initial /\ client[c].initial \subseteq client[c].sent
        BY <2>6, <2>8, <2>9, <2>10 DEF DraftOK
    <2> QED
        BY <2>6, <2>8, <2>11 DEF Editors!Written
  <1> QED
      BY <1>1, DraftsInvariant, PTL DEF Editors!Spec, Editors!OrdinarySavesKeep

-----------------------------------------------------------------------------
(***************************************************************************)
(* Attachments: the files of a vault and the attachments of its notes.     *)
(***************************************************************************)
CONSTANTS Docs, Home, Names, Contents, ReadOnly, MaxChanges

VARIABLES row, linked, binary, refs, entries, frozen, run, changes, author, shared

Files == INSTANCE AttachmentSync WITH file <- binary, meta <- entries

(* No content is the word for no file.                                     *)
FilesGiven == Missing \notin Contents

Attachment == [doc : Docs, name : Names, content : Contents, live : BOOLEAN]

FileTypes ==
    /\ row \in Seq(Attachment)
    /\ binary \in [Files!Paths -> Contents \cup {Missing}]
    /\ refs \in [Docs -> SUBSET Files!Paths]
    /\ author \in [Files!Paths -> {"nobody", "user", "sync"}]
    /\ \A p \in Files!Paths : /\ author[p] = "nobody" => binary[p] = Missing
                              /\ author[p] = "sync" => binary[p] # Missing

(* An entry is of a row, and of a path where there was a file.             *)
EntryOK(e) == e.id \in DOMAIN row /\ e.path \in Files!Paths /\ author[e.path] # "nobody"

(* A file that the plugin wrote last has the content of its attachment,    *)
(* unless it has two.                                                      *)
AsWritten(i, p) == author[p] = "sync" => binary[p] = row[i].content \/ p \in shared

EntriesOK ==
    /\ \A e, f \in entries : e.id = f.id => e = f
    /\ \A e \in entries : EntryOK(e) /\ AsWritten(e.id, e.path)

IsRun(r) == r = [at |-> r.at, kind |-> r.kind, doc |-> r.doc, wanted |-> r.wanted, gone |-> r.gone,
                 remote |-> r.remote, todo |-> r.todo, old |-> r.old, new |-> r.new, by |-> r.by]

(* A run is about to delete what the user removed, or replaced.            *)
RunOK(r) ==
    /\ IsRun(r)
    /\ r.at # "idle" => r.doc \in Docs
    /\ r.wanted \subseteq Files!Paths /\ r.todo \subseteq Files!Paths
    /\ r.remote \subseteq DOMAIN row
    /\ \A e \in r.gone : EntryOK(e)
    /\ r.at = "delete" => r.by = "user"
    /\ r.at # "drop" => r.new = 0
    /\ r.at = "drop" =>
         /\ r.new \in DOMAIN row /\ \A e \in entries : e.id # r.new
         /\ \E e \in entries : /\ e.id = r.old
                               /\ r.by = "user" \/ e.path \in shared
                               /\ AsWritten(r.new, e.path)

FilesInv == FileTypes /\ EntriesOK /\ RunOK(run)

-----------------------------------------------------------------------------
LEMMA PathOfEntry ==
    ASSUME EntriesOK, NEW e \in entries PROVE Files!Tracked(e.id) /\ Files!PathOf(e.id) = e.path
  <1>1. Files!Tracked(e.id)
      BY DEF Files!Tracked
  <1>2. PICK f : f = CHOOSE g \in entries : g.id = e.id
      OBVIOUS
  <1>3. f \in entries /\ f.id = e.id
      BY <1>2
  <1>4. f = e
      BY <1>3 DEF EntriesOK
  <1> QED
      BY <1>1, <1>2, <1>4 DEF Files!PathOf

LEMMA PathOfRow ==
    ASSUME FileTypes, EntriesOK, NEW i \in DOMAIN row PROVE Files!PathOf(i) \in Files!Paths
  <1>1. CASE Files!Tracked(i)
    <2>1. PICK e \in entries : e.id = i
        BY <1>1 DEF Files!Tracked
    <2> QED
        BY <2>1, PathOfEntry DEF EntriesOK, EntryOK
  <1>2. CASE ~Files!Tracked(i)
    <2>1. PICK x \in Attachment : x = row[i]
        BY DEF FileTypes
    <2>2. x.doc \in Docs /\ x.name \in Names
        BY DEF Attachment
    <2> QED
        BY <1>2, <2>1, <2>2 DEF Files!PathOf, Files!Paths
  <1> QED
      BY <1>1, <1>2

(* Two entries of one path are noticed.                                    *)
LEMMA TwoCollide ==
    ASSUME \A e, f \in entries' : e.id = f.id => e = f,
           NEW e \in entries', NEW f \in entries', e.id # f.id, e.path = f.path,
           e.id \in DOMAIN row', f.id \in DOMAIN row', run'.new \notin {e.id, f.id},
           Files!Remember
    PROVE  e.path \in shared'
  <1>1. ASSUME NEW g \in entries' PROVE Files!Tracked(g.id)' /\ Files!PathOf(g.id)' = g.path
    <2>1. Files!Tracked(g.id)'
        BY DEF Files!Tracked
    <2>2. PICK h : h = CHOOSE k \in entries' : k.id = g.id
        OBVIOUS
    <2>3. h \in entries' /\ h.id = g.id
        BY <2>2
    <2>4. h = g
        BY <2>3
    <2> QED
        BY <2>1, <2>2, <2>4 DEF Files!PathOf
  <1>2. e.path \in Files!Collisions'
      BY <1>1 DEF Files!Collisions
  <1> QED
      BY <1>2 DEF Files!Remember

(* What holds of entries and rows holds when rows are added or deleted.    *)
RowsStay ==
    /\ DOMAIN row \subseteq DOMAIN row'
    /\ \A i \in DOMAIN row : row'[i].content = row[i].content

LEMMA EntriesStay ==
    ASSUME FilesInv, entries' \subseteq entries, UNCHANGED <<binary, author>>, RowsStay,
           shared \subseteq shared'
    PROVE  EntriesOK'
  BY DEF FilesInv, EntriesOK, EntryOK, AsWritten, RowsStay

LEMMA RunStays ==
    ASSUME FilesInv, UNCHANGED <<entries, run>>, UNCHANGED <<binary, author>>, RowsStay,
           shared \subseteq shared'
    PROVE  RunOK(run)'
  BY DEF FilesInv, EntriesOK, RunOK, EntryOK, AsWritten, RowsStay

LEMMA IdleRun == RunOK(Files!Idle) /\ RunOK(Files!Idle)'
  BY DEF RunOK, IsRun, Files!Idle

(* A row that is deleted.                                                  *)
LEMMA DeletedRow ==
    ASSUME FileTypes, NEW i \in DOMAIN row, row' = Files!Deleted(i)
    PROVE  row' \in Seq(Attachment) /\ RowsStay /\ DOMAIN row' = DOMAIN row
  <1>1. PICK x \in Attachment : x = row[i]
      BY DEF FileTypes
  <1>2. PICK y : y = [x EXCEPT !.live = FALSE]
      OBVIOUS
  <1>3. y \in Attachment
      BY <1>1, <1>2 DEF Attachment
  <1>4. y.content = x.content
      BY <1>1, <1>2 DEF Attachment
  <1>5. row \in Seq(Attachment) /\ row' = [row EXCEPT ![i] = y]
      BY <1>1, <1>2 DEF FileTypes, Files!Deleted
  <1>6. row' \in Seq(Attachment) /\ DOMAIN row' = DOMAIN row
      BY <1>3, <1>5
  <1> QED
      BY <1>1, <1>4, <1>5, <1>6 DEF RowsStay

LEMMA AddedRow ==
    ASSUME FileTypes, NEW x \in Attachment, row' = Append(row, x)
    PROVE  /\ row' \in Seq(Attachment) /\ RowsStay
           /\ Len(row) + 1 \in DOMAIN row' /\ Len(row) + 1 \notin DOMAIN row
           /\ row'[Len(row) + 1] = x
  BY DEF FileTypes, RowsStay

-----------------------------------------------------------------------------
LEMMA InitFiles == ASSUME Files!Init PROVE FilesInv
  <1>1. row \in Seq(Attachment)
      BY DEF Files!Init
  <1>2. /\ author \in [Files!Paths -> {"nobody", "user", "sync"}]
        /\ \A p \in Files!Paths : /\ author[p] = "nobody" => binary[p] = Missing
                                  /\ author[p] = "sync" => binary[p] # Missing
      BY DEF Files!Init
  <1>3. FileTypes
      BY <1>1, <1>2 DEF FileTypes, Files!Init
  <1> QED
      BY <1>3, IdleRun DEF FilesInv, EntriesOK, Files!Init

LEMMA PeopleSteps ==
    ASSUME FilesInv,
           \/ \E d \in Docs, n \in Names, c \in Contents : Files!WebUpload(d, n, c)
           \/ \E i \in DOMAIN row : Files!WebDelete(i) \/ Files!WebLink(i)
           \/ \E p \in Files!Paths : \/ \E c \in Contents \cup {Missing} : Files!EditFile(p, c)
                                     \/ \E d \in Docs : Files!EditNote(d, p)
           \/ \E d \in Docs : Files!Resolve(d)
           \/ UNCHANGED Files!vars
    PROVE  FilesInv'
  <1>1. FileTypes /\ EntriesOK /\ RunOK(run)
      BY DEF FilesInv
  <1>2. ASSUME row' \in Seq(Attachment), RowsStay, UNCHANGED <<binary, refs, author>>,
               UNCHANGED <<entries, run>>, shared \subseteq shared'
        PROVE  FilesInv'
    <2>1. FileTypes'
        BY <1>1, <1>2 DEF FileTypes
    <2> QED
        BY <1>2, <2>1, EntriesStay, RunStays DEF FilesInv
  <1>3. ASSUME NEW d \in Docs, NEW n \in Names, NEW c \in Contents, Files!WebUpload(d, n, c)
        PROVE  FilesInv'
    <2>1. PICK x : x = [doc |-> d, name |-> n, content |-> c, live |-> TRUE]
        OBVIOUS
    <2>2. x \in Attachment /\ row' = Append(row, x)
        BY <1>3, <2>1 DEF Attachment, Files!WebUpload
    <2>3. /\ UNCHANGED <<binary, refs, author>> /\ UNCHANGED <<entries, run>>
          /\ shared \subseteq shared'
        BY <1>3 DEF Files!WebUpload, Files!Changed, Files!vault, Files!Remember
    <2> QED
        BY <1>1, <1>2, <2>2, <2>3, AddedRow
  <1>4. ASSUME NEW i \in DOMAIN row, Files!WebDelete(i) PROVE FilesInv'
    <2>1. /\ row' = Files!Deleted(i) /\ UNCHANGED <<binary, refs, author>>
          /\ UNCHANGED <<entries, run>> /\ shared \subseteq shared'
        BY <1>4 DEF Files!WebDelete, Files!Changed, Files!vault, Files!Remember
    <2> QED
        BY <1>1, <1>2, <2>1, DeletedRow
  <1>5. ASSUME row' = row, UNCHANGED <<binary, refs, author>>, UNCHANGED <<entries, run>>,
               shared' = shared
        PROVE  FilesInv'
      BY <1>1, <1>2, <1>5 DEF FileTypes, RowsStay
  <1>6. ASSUME NEW i \in DOMAIN row, Files!WebLink(i) PROVE FilesInv'
      BY <1>5, <1>6 DEF Files!WebLink, Files!Changed, Files!vault
  <1>7. ASSUME (\E d \in Docs : Files!Resolve(d)) \/ UNCHANGED Files!vars PROVE FilesInv'
      BY <1>5, <1>7 DEF Files!Resolve, Files!server, Files!vault, Files!vars
  <1>8. ASSUME NEW d \in Docs, NEW p \in Files!Paths, Files!EditNote(d, p) PROVE FilesInv'
    <2>1. /\ row' = row /\ UNCHANGED <<binary, author>> /\ UNCHANGED <<entries, run>>
          /\ shared' = shared
        BY <1>8 DEF Files!EditNote, Files!Changed, Files!server
    <2>2. refs' \in [Docs -> SUBSET Files!Paths]
      <3>1. PICK s \in SUBSET Files!Paths : s = refs[d]
          BY <1>1 DEF FileTypes
      <3>2. PICK t \in SUBSET Files!Paths : t = IF p \in s THEN s \ {p} ELSE s \cup {p}
          BY <3>1
      <3>3. refs' = [refs EXCEPT ![d] = t]
          BY <1>8, <3>1, <3>2 DEF Files!EditNote
      <3> QED
          BY <1>1, <3>2, <3>3 DEF FileTypes
    <2>3. FileTypes' /\ RowsStay
        BY <1>1, <2>1, <2>2 DEF FileTypes, RowsStay
    <2> QED
        BY <2>1, <2>3, EntriesStay, RunStays DEF FilesInv
  <1>9. ASSUME NEW p \in Files!Paths, NEW c \in Contents \cup {Missing}, Files!EditFile(p, c)
        PROVE  FilesInv'
    <2>1. /\ row' = row /\ refs' = refs /\ UNCHANGED <<entries, run>> /\ shared' = shared
          /\ binary' = [binary EXCEPT ![p] = c] /\ author' = [author EXCEPT ![p] = "user"]
        BY <1>9 DEF Files!EditFile, Files!Changed, Files!server
    <2>2. FileTypes'
        BY <1>1, <2>1 DEF FileTypes
    <2>3. \A q \in Files!Paths : /\ author'[q] = "nobody" => author[q] = "nobody"
                                 /\ author'[q] = "sync" => author[q] = "sync" /\ binary'[q] = binary[q]
        BY <1>1, <2>1 DEF FileTypes
    <2>4. EntriesOK'
        BY <1>1, <2>1, <2>3 DEF EntriesOK, EntryOK, AsWritten
    <2>5. RunOK(run)'
        BY <1>1, <2>1, <2>3 DEF EntriesOK, RunOK, EntryOK, AsWritten
    <2> QED
        BY <2>2, <2>4, <2>5 DEF FilesInv
  <1> QED
      BY <1>3, <1>4, <1>6, <1>7, <1>8, <1>9

(* A run starts, lists, and ends.                                          *)
LEMMA RunSteps ==
    ASSUME FilesInv,
           \/ \E d \in Docs, kind \in {"pass", "push"} : Files!Start(d, kind)
           \/ Files!List \/ Files!EndRun
    PROVE  FilesInv'
  <1>1. FileTypes /\ EntriesOK /\ RunOK(run)
      BY DEF FilesInv
  <1>2. /\ row' = row /\ UNCHANGED <<binary, refs, author>> /\ shared \subseteq shared'
      BY DEF Files!Start, Files!List, Files!EndRun, Files!server, Files!vault, Files!Remember
  <1>3. ASSUME entries' \subseteq entries, RunOK(run)' PROVE FilesInv'
      BY <1>1, <1>2, <1>3, EntriesStay DEF FilesInv, FileTypes, RowsStay
  <1>4. ASSUME NEW d \in Docs, NEW kind \in {"pass", "push"}, Files!Start(d, kind) PROVE FilesInv'
    <2>1. PICK wanted \in SUBSET Files!Paths : wanted = IF d \in ReadOnly THEN {} ELSE refs[d]
        BY <1>1 DEF FileTypes
    <2>2. PICK i : i = Files!Idle
        OBVIOUS
    <2>3. PICK y : y = [i EXCEPT !.at = "list", !.kind = kind, !.doc = d, !.wanted = wanted]
        OBVIOUS
    <2>4. run' = y /\ entries' = entries
        BY <1>4, <2>1, <2>2, <2>3 DEF Files!Start, Files!Go, Files!vault
    <2>5. /\ IsRun(y) /\ y.at = "list" /\ y.doc = d /\ y.wanted = wanted /\ y.gone = {}
          /\ y.remote = {} /\ y.todo = {} /\ y.new = 0
        BY <2>2, <2>3 DEF Files!Idle, IsRun
    <2>6. RunOK(y)'
        BY <2>5 DEF RunOK, IsRun
    <2> QED
        BY <1>3, <2>4, <2>6 DEF RunOK, IsRun
  <1>5. ASSUME Files!List PROVE FilesInv'
    <2>1. PICK there : there = Files!Live(run.doc)
        OBVIOUS
    <2>2. PICK known \in SUBSET entries : known = {e \in Files!Entries(run.doc) : e.id \in there}
        BY DEF Files!Entries
    <2>3. PICK gone \in SUBSET entries :
            gone = IF run.doc \in ReadOnly THEN {} ELSE {e \in known : e.path \notin run.wanted}
        BY <2>2
    <2>4. PICK x : x = run
        OBVIOUS
    <2>5. PICK y : y = [x EXCEPT !.at = "check", !.remote = there, !.gone = gone]
        OBVIOUS
    <2>6. run' = y /\ entries' \subseteq entries
        BY <1>5, <2>1, <2>2, <2>3, <2>4, <2>5 DEF Files!List, Files!Go
    <2>7. IsRun(x) /\ x.at = "list"
        BY <1>1, <1>5, <2>4 DEF RunOK, Files!List
    <2>8. /\ IsRun(y) /\ y.at = "check" /\ y.doc = x.doc /\ y.wanted = x.wanted /\ y.gone = gone
          /\ y.remote = there /\ y.todo = x.todo /\ y.new = x.new
        BY <2>5, <2>7 DEF IsRun
    <2>9. /\ x.doc \in Docs /\ x.wanted \subseteq Files!Paths /\ x.todo \subseteq Files!Paths
          /\ x.new = 0
        BY <1>1, <2>4, <2>7 DEF RunOK
    <2>10. there \subseteq DOMAIN row
        BY <2>1 DEF Files!Live
    <2>11. \A e \in gone : EntryOK(e)'
        BY <1>1, <1>2, <2>3 DEF EntriesOK, EntryOK
    <2>12. RunOK(y)'
        BY <1>2, <2>8, <2>9, <2>10, <2>11 DEF RunOK, IsRun
    <2> QED
        BY <1>3, <2>6, <2>12 DEF RunOK, IsRun, EntryOK, AsWritten
  <1>6. ASSUME Files!EndRun PROVE FilesInv'
    <2>1. entries' = entries /\ run' = Files!Idle
        BY <1>6 DEF Files!EndRun, Files!Ends, Files!Go
    <2> QED
        BY <1>3, <2>1, IdleRun
  <1> QED
      BY <1>4, <1>5, <1>6

LEMMA CheckSteps ==
    ASSUME FilesInv, Files!CheckGone \/ Files!CheckNext PROVE FilesInv'
  <1>1. FileTypes /\ EntriesOK /\ RunOK(run)
      BY DEF FilesInv
  <1>2. /\ row' = row /\ UNCHANGED <<binary, refs, author>> /\ entries' = entries
        /\ shared' = shared
      BY DEF Files!CheckGone, Files!CheckNext, Files!server, Files!vault
  <1>3. ASSUME NEW y, run' = y, RunOK(y) PROVE FilesInv'
    <2>1. RunOK(run)'
        BY <1>2, <1>3 DEF RunOK, IsRun, EntryOK, AsWritten
    <2> QED
        BY <1>1, <1>2, <2>1, EntriesStay DEF FilesInv, FileTypes, RowsStay
  <1>4. PICK x : x = run
      OBVIOUS
  <1>5. IsRun(x) /\ RunOK(x)
      BY <1>1, <1>4 DEF RunOK
  <1>6. ASSUME Files!CheckGone PROVE FilesInv'
    <2>1. x.at = "check"
        BY <1>4, <1>6 DEF Files!CheckGone
    <2>2. CASE run' = [x EXCEPT !.at = "get"]
      <3>1. PICK y : y = [x EXCEPT !.at = "get"]
          OBVIOUS
      <3>2. /\ IsRun(y) /\ y.at = "get" /\ y.doc = x.doc /\ y.wanted = x.wanted
            /\ y.gone = x.gone /\ y.remote = x.remote /\ y.todo = x.todo /\ y.new = x.new
          BY <1>5, <3>1 DEF IsRun
      <3>3. RunOK(y)
          BY <1>5, <2>1, <3>2 DEF RunOK
      <3> QED
          BY <1>3, <2>2, <3>1, <3>3
    <2>3. ASSUME NEW e \in x.gone, Files!GivenUp(e),
                 run' = [x EXCEPT !.at = "delete", !.by = author[e.path]]
          PROVE  FilesInv'
      <3>1. PICK by : by = author[e.path]
          OBVIOUS
      <3>2. by = "user"
        <4>1. e.path \in Files!Paths /\ by # "nobody" /\ binary[e.path] = Missing
            BY <1>5, <2>3, <3>1 DEF RunOK, EntryOK, Files!GivenUp
        <4> QED
            BY <1>1, <3>1, <4>1 DEF FileTypes
      <3>3. PICK y : y = [x EXCEPT !.at = "delete", !.by = by]
          OBVIOUS
      <3>4. /\ IsRun(y) /\ y.at = "delete" /\ y.doc = x.doc /\ y.wanted = x.wanted
            /\ y.gone = x.gone /\ y.remote = x.remote /\ y.todo = x.todo /\ y.new = x.new
            /\ y.by = by
          BY <1>5, <3>3 DEF IsRun
      <3>5. RunOK(y)
          BY <1>5, <2>1, <3>2, <3>4 DEF RunOK
      <3> QED
          BY <1>3, <2>3, <3>1, <3>3, <3>5
    <2>4. ASSUME NEW e \in x.gone, run' = [x EXCEPT !.gone = x.gone \ {e}] PROVE FilesInv'
      <3>1. PICK gone : gone = x.gone \ {e}
          OBVIOUS
      <3>2. PICK y : y = [x EXCEPT !.gone = gone]
          OBVIOUS
      <3>3. /\ IsRun(y) /\ y.at = "check" /\ y.doc = x.doc /\ y.wanted = x.wanted
            /\ y.gone = gone /\ y.remote = x.remote /\ y.todo = x.todo /\ y.new = x.new
          BY <1>5, <2>1, <3>2 DEF IsRun
      <3>4. RunOK(y)
          BY <1>5, <2>1, <3>1, <3>3 DEF RunOK
      <3> QED
          BY <1>3, <2>4, <3>1, <3>2, <3>4
    <2>5. \A e \in Files!First(x.gone) : e \in x.gone
        BY DEF Files!First
    <2> QED
        BY <1>4, <1>6, <2>2, <2>3, <2>4, <2>5 DEF Files!CheckGone, Files!Go
  <1>7. ASSUME Files!CheckNext PROVE FilesInv'
    <2>1. x.at = "get"
        BY <1>4, <1>7 DEF Files!CheckNext
    <2>2. CASE run' = Files!Idle
        BY <1>3, <2>2, IdleRun
    <2>3. ASSUME NEW at \in {"put", "download"}, NEW todo \in {x.todo, x.wanted},
                 NEW remote \in SUBSET x.remote,
                 run' = [x EXCEPT !.at = at, !.todo = todo, !.remote = remote]
          PROVE  FilesInv'
      <3>1. PICK y : y = [x EXCEPT !.at = at, !.todo = todo, !.remote = remote]
          OBVIOUS
      <3>2. /\ IsRun(y) /\ y.at = at /\ y.doc = x.doc /\ y.wanted = x.wanted
            /\ y.gone = x.gone /\ y.remote = remote /\ y.todo = todo /\ y.new = x.new
          BY <1>5, <3>1 DEF IsRun
      <3>3. RunOK(y)
          BY <1>5, <2>1, <2>3, <3>2 DEF RunOK
      <3> QED
          BY <1>3, <2>3, <3>1, <3>3
    <2>4. ASSUME NEW i \in x.remote, run' = [x EXCEPT !.remote = x.remote \ {i}] PROVE FilesInv'
      <3>1. PICK remote : remote = x.remote \ {i}
          OBVIOUS
      <3>2. PICK y : y = [x EXCEPT !.remote = remote]
          OBVIOUS
      <3>3. /\ IsRun(y) /\ y.at = "get" /\ y.doc = x.doc /\ y.wanted = x.wanted
            /\ y.gone = x.gone /\ y.remote = remote /\ y.todo = x.todo /\ y.new = x.new
          BY <1>5, <2>1, <3>2 DEF IsRun
      <3>4. RunOK(y)
          BY <1>5, <2>1, <3>1, <3>3 DEF RunOK
      <3> QED
          BY <1>3, <2>4, <3>1, <3>2, <3>4
    <2>5. CASE run' = [x EXCEPT !.at = "put", !.todo = x.wanted]
      <3>1. [x EXCEPT !.at = "put", !.todo = x.wanted]
              = [x EXCEPT !.at = "put", !.todo = x.wanted, !.remote = x.remote]
          BY <1>5 DEF IsRun
      <3> QED
          BY <2>3, <2>5, <3>1
    <2>6. CASE run' = [x EXCEPT !.at = "download"]
      <3>1. [x EXCEPT !.at = "download"]
              = [x EXCEPT !.at = "download", !.todo = x.todo, !.remote = x.remote]
          BY <1>5 DEF IsRun
      <3> QED
          BY <2>3, <2>6, <3>1
    <2>7. \A i \in Files!Newest(x.remote) : i \in x.remote
        BY DEF Files!Newest
    <2> QED
        BY <1>4, <1>7, <2>2, <2>4, <2>5, <2>6, <2>7 DEF Files!CheckNext, Files!Go
  <1> QED
      BY <1>6, <1>7

(* A run that ends and changes nothing in the vault.                       *)
LEMMA EndedRun ==
    ASSUME FilesInv, row' \in Seq(Attachment), RowsStay, UNCHANGED <<binary, refs, author>>,
           entries' \subseteq entries, run' = Files!Idle, shared \subseteq shared'
    PROVE  FilesInv'
  <1>1. RunOK(run)'
      BY IdleRun
  <1>2. FileTypes'
      BY DEF FilesInv, FileTypes
  <1> QED
      BY <1>1, <1>2, EntriesStay DEF FilesInv

LEMMA BrokenCall ==
    ASSUME FilesInv, NEW i \in DOMAIN row, Files!Broken(i), UNCHANGED <<binary, refs, author>>,
           shared \subseteq shared'
    PROVE  FilesInv'
  <1>1. run' = Files!Idle /\ entries' = entries
      BY DEF Files!Broken, Files!Ends, Files!Go
  <1>2. row' = row \/ row' = Files!Deleted(i)
      BY DEF Files!Broken
  <1>3. row' \in Seq(Attachment) /\ RowsStay
    <2>1. CASE row' = row
        BY <2>1 DEF FilesInv, FileTypes, RowsStay
    <2>2. CASE row' = Files!Deleted(i)
        BY <2>2, DeletedRow DEF FilesInv
    <2> QED
        BY <1>2, <2>1, <2>2
  <1> QED
      BY <1>1, <1>3, EndedRun

LEMMA DeleteStep == ASSUME FilesInv, Files!DeleteGone PROVE FilesInv'
  <1>1. FileTypes /\ EntriesOK /\ RunOK(run) /\ run.at = "delete"
      BY DEF FilesInv, Files!DeleteGone
  <1>2. UNCHANGED <<binary, refs, author>> /\ shared \subseteq shared'
      BY DEF Files!DeleteGone, Files!Remember
  <1>3. PICK x : x = run
      OBVIOUS
  <1>4. IsRun(x) /\ RunOK(x)
      BY <1>1, <1>3 DEF RunOK
  <1>5. PICK e \in x.gone :
          \/ /\ row' = Files!Deleted(e.id) /\ entries' = Files!Without(e.id)
             /\ run' = [x EXCEPT !.at = "check", !.gone = x.gone \ {e},
                                 !.remote = x.remote \ {e.id}, !.by = "nobody"]
          \/ Files!Broken(e.id)
      BY <1>3 DEF Files!DeleteGone, Files!First, Files!Go
  <1>6. e.id \in DOMAIN row
      BY <1>4, <1>5 DEF RunOK, EntryOK
  <1>7. CASE Files!Broken(e.id)
      BY <1>2, <1>6, <1>7, BrokenCall
  <1>8. CASE /\ row' = Files!Deleted(e.id) /\ entries' = Files!Without(e.id)
             /\ run' = [x EXCEPT !.at = "check", !.gone = x.gone \ {e},
                                 !.remote = x.remote \ {e.id}, !.by = "nobody"]
    <2>1. row' \in Seq(Attachment) /\ RowsStay /\ DOMAIN row' = DOMAIN row
        BY <1>1, <1>6, <1>8, DeletedRow
    <2>2. EntriesOK'
        BY <1>2, <1>8, <2>1, EntriesStay DEF Files!Without
    <2>3. FileTypes'
        BY <1>1, <1>2, <2>1 DEF FileTypes
    <2>4. PICK gone, remote : gone = x.gone \ {e} /\ remote = x.remote \ {e.id}
        OBVIOUS
    <2>5. PICK y : y = [x EXCEPT !.at = "check", !.gone = gone, !.remote = remote, !.by = "nobody"]
        OBVIOUS
    <2>6. run' = y
        BY <1>8, <2>4, <2>5
    <2>7. /\ IsRun(y) /\ y.at = "check" /\ y.doc = x.doc /\ y.wanted = x.wanted
          /\ y.gone = gone /\ y.remote = remote /\ y.todo = x.todo /\ y.new = x.new
        BY <1>4, <2>5 DEF IsRun
    <2>8. x.at = "delete"
        BY <1>1, <1>3
    <2>9. RunOK(y)'
      <3>1. \A f \in gone : EntryOK(f)'
          BY <1>2, <1>4, <2>1, <2>4 DEF RunOK, EntryOK
      <3> QED
          BY <1>4, <2>1, <2>4, <2>7, <2>8, <3>1 DEF RunOK, IsRun
    <2> QED
        BY <2>2, <2>3, <2>6, <2>9 DEF FilesInv, RunOK, IsRun, EntryOK, AsWritten
  <1> QED
      BY <1>5, <1>7, <1>8

(* Who has one more entry has it for an attachment that had none.          *)
LEMMA OneMore ==
    ASSUME NEW S, NEW i, NEW p, \A e, f \in S : e.id = f.id => e = f, \A e \in S : e.id # i,
           NEW T, T = Files!Entered(S, i, p)
    PROVE  /\ \A e, f \in T : e.id = f.id => e = f
           /\ \A e \in T : e \in S \/ (e.id = i /\ e.path = p)
           /\ \E e \in T : e.id = i /\ e.path = p
  <1>1. PICK z : /\ T = S \cup {z} /\ z.id = i /\ z.path = p
    <2>1. PICK z : z = [id |-> i, path |-> p, nth |-> 1 + Files!Max({0} \cup {e.nth : e \in S})]
        OBVIOUS
    <2>2. z.id = i /\ z.path = p
        BY <2>1
    <2>3. T = S \cup {z}
        BY <2>1 DEF Files!Entered
    <2> QED
        BY <2>2, <2>3
  <1> QED
      BY <1>1

LEMMA DownloadStep == ASSUME FilesGiven, FilesInv, Files!Download PROVE FilesInv'
  <1>1. FileTypes /\ EntriesOK /\ RunOK(run) /\ run.at = "download"
      BY DEF FilesInv, Files!Download
  <1>2. row' = row /\ refs' = refs /\ Files!Remember /\ shared \subseteq shared'
      BY DEF Files!Download, Files!Remember, Files!server
  <1>3. PICK x : x = run
      OBVIOUS
  <1>4. IsRun(x) /\ RunOK(x) /\ x.at = "download" /\ x.new = 0
      BY <1>1, <1>3 DEF RunOK
  <1>5. PICK i \in x.remote :
          \/ /\ binary' = [binary EXCEPT ![Files!PathOf(i)] = row[i].content]
             /\ author' = [author EXCEPT ![Files!PathOf(i)] = "sync"]
             /\ entries' = IF Files!Tracked(i) THEN entries
                           ELSE Files!Entered(entries, i, Files!PathOf(i))
             /\ run' = [x EXCEPT !.at = "get", !.remote = x.remote \ {i}]
          \/ run' = Files!Idle /\ UNCHANGED <<binary, author, entries>>
      BY <1>3 DEF Files!Download, Files!Newest, Files!Go, Files!Ends
  <1>6. i \in DOMAIN row
      BY <1>4, <1>5 DEF RunOK
  <1>7. CASE run' = Files!Idle /\ UNCHANGED <<binary, author, entries>>
      BY <1>1, <1>2, <1>7, EndedRun DEF FileTypes, RowsStay
  <1>8. CASE /\ binary' = [binary EXCEPT ![Files!PathOf(i)] = row[i].content]
             /\ author' = [author EXCEPT ![Files!PathOf(i)] = "sync"]
             /\ entries' = IF Files!Tracked(i) THEN entries
                           ELSE Files!Entered(entries, i, Files!PathOf(i))
             /\ run' = [x EXCEPT !.at = "get", !.remote = x.remote \ {i}]
    <2>1. PICK p \in Files!Paths : p = Files!PathOf(i)
        BY <1>1, <1>6, PathOfRow
    <2>2. PICK c \in Contents : c = row[i].content
      <3>1. PICK a \in Attachment : a = row[i]
          BY <1>1, <1>6 DEF FileTypes
      <3> QED
          BY <3>1 DEF Attachment
    <2>3. binary' = [binary EXCEPT ![p] = c] /\ author' = [author EXCEPT ![p] = "sync"]
        BY <1>8, <2>1, <2>2
    <2>4. FileTypes'
        BY <1>1, <1>2, <2>3 DEF FileTypes, FilesGiven
    <2>5. /\ \A e, f \in entries' : e.id = f.id => e = f
          /\ \A e \in entries' : e \in entries \/ (e.id = i /\ e.path = p)
          /\ \E e \in entries' : e.id = i /\ e.path = p
      <3>1. CASE Files!Tracked(i)
        <4>1. PICK e \in entries : e.id = i
            BY <3>1 DEF Files!Tracked
        <4>2. e.path = p
            BY <1>1, <2>1, <4>1, PathOfEntry
        <4>3. entries' = entries
            BY <1>8, <3>1
        <4> QED
            BY <1>1, <4>1, <4>2, <4>3 DEF EntriesOK
      <3>2. CASE ~Files!Tracked(i)
        <4>1. entries' = Files!Entered(entries, i, p)
            BY <1>8, <2>1, <3>2
        <4>2. \A e \in entries : e.id # i
            BY <3>2 DEF Files!Tracked
        <4>3. \A e, f \in entries : e.id = f.id => e = f
            BY <1>1 DEF EntriesOK
        <4> QED
            BY <4>1, <4>2, <4>3, OneMore
      <3> QED
          BY <3>1, <3>2
    <2>6. PICK remote : remote = x.remote \ {i}
        OBVIOUS
    <2>7. PICK y : y = [x EXCEPT !.at = "get", !.remote = remote]
        OBVIOUS
    <2>8. run' = y
        BY <1>8, <2>6, <2>7
    <2>9. /\ IsRun(y) /\ y.at = "get" /\ y.doc = x.doc /\ y.wanted = x.wanted
          /\ y.gone = x.gone /\ y.remote = remote /\ y.todo = x.todo /\ y.new = 0
        BY <1>4, <2>7 DEF IsRun
    <2>10. \A q \in Files!Paths : author[q] # "nobody" => author'[q] # "nobody"
        BY <1>1, <2>3 DEF FileTypes
    <2>11. RunOK(run)'
      <3>1. \A e \in x.gone : EntryOK(e)'
          BY <1>2, <1>4, <2>10 DEF RunOK, EntryOK
      <3>2. RunOK(y)'
          BY <1>2, <1>4, <2>6, <2>9, <3>1 DEF RunOK, IsRun
      <3> QED
          BY <2>8, <3>2 DEF RunOK, IsRun, EntryOK, AsWritten
    <2>12. ASSUME NEW e \in entries' PROVE EntryOK(e)' /\ AsWritten(e.id, e.path)'
      <3>1. CASE e.id = i /\ e.path = p
          BY <1>1, <1>2, <1>6, <2>2, <2>3, <3>1 DEF EntryOK, AsWritten, FileTypes
      <3>2. CASE e \in entries /\ e.id # i
        <4>1. EntryOK(e) /\ AsWritten(e.id, e.path)
            BY <1>1, <3>2 DEF EntriesOK
        <4>2. CASE e.path # p
          <5>1. author'[e.path] = author[e.path] /\ binary'[e.path] = binary[e.path]
              BY <1>1, <2>3, <4>1, <4>2 DEF EntryOK, FileTypes
          <5> QED
              BY <1>2, <4>1, <5>1 DEF EntryOK, AsWritten
        <4>3. CASE e.path = p
          <5>1. PICK f \in entries' : f.id = i /\ f.path = p
              BY <2>5
          <5>2. e.id \in DOMAIN row' /\ f.id \in DOMAIN row' /\ e.id # 0 /\ f.id # 0
            <6>1. \A k \in DOMAIN row : k # 0
                BY <1>1 DEF FileTypes
            <6> QED
                BY <1>2, <1>6, <4>1, <5>1, <6>1 DEF EntryOK
          <5>3. run'.new = 0
              BY <2>8, <2>9
          <5>4. e.path \in shared'
              BY <1>2, <2>5, <3>2, <4>3, <5>1, <5>2, <5>3, TwoCollide
          <5>5. EntryOK(e)'
              BY <1>2, <2>10, <4>1 DEF EntryOK
          <5> QED
              BY <5>4, <5>5 DEF AsWritten
        <4> QED
            BY <4>2, <4>3
      <3>3. e \in entries => e.id # i \/ e.path = p
        <4>1. PICK f \in entries' : f.id = i /\ f.path = p
            BY <2>5
        <4> QED
            BY <2>5, <4>1
      <3> QED
          BY <2>5, <3>1, <3>2, <3>3
    <2>13. EntriesOK'
        BY <2>5, <2>12 DEF EntriesOK
    <2> QED
        BY <2>4, <2>11, <2>13 DEF FilesInv
  <1> QED
      BY <1>5, <1>7, <1>8

LEMMA UploadStep ==
    ASSUME FilesInv, NEW p \in Files!Paths, Files!Upload(p) PROVE FilesInv'
  <1>1. FileTypes /\ EntriesOK /\ RunOK(run) /\ run.at = "put" /\ p \in run.todo
      BY DEF FilesInv, Files!Upload
  <1>2. UNCHANGED <<binary, refs, author>> /\ shared \subseteq shared'
      BY DEF Files!Upload, Files!Remember
  <1>3. PICK x : x = run
      OBVIOUS
  <1>4. IsRun(x) /\ RunOK(x) /\ x.at = "put" /\ x.new = 0 /\ x.doc \in Docs
      BY <1>1, <1>3 DEF RunOK
  <1>5. PICK todo : todo = x.todo \ {p}
      OBVIOUS
  <1>6. PICK new : new = Len(row) + 1
      OBVIOUS
  <1>7. PICK z : z = [x EXCEPT !.todo = todo]
      OBVIOUS
  <1>8. /\ IsRun(z) /\ z.at = "put" /\ z.doc = x.doc /\ z.wanted = x.wanted /\ z.gone = x.gone
        /\ z.remote = x.remote /\ z.todo = todo /\ z.new = 0
      BY <1>4, <1>7 DEF IsRun
  <1>9. \E n \in Names : p[2] = n
      BY DEF Files!Paths
  <1>10. PICK a : a = [doc |-> x.doc, name |-> p[2], content |-> binary[p], live |-> TRUE]
      OBVIOUS
  <1>11. RowsStay /\ row' \in Seq(Attachment) => RunOK(z)'
    <2>1. \A e \in x.gone : RowsStay => EntryOK(e)'
        BY <1>2, <1>4 DEF RunOK, EntryOK, RowsStay
    <2> QED
        BY <1>4, <1>5, <1>8, <2>1 DEF RunOK, IsRun, RowsStay
  <1>12. ASSUME row' \in Seq(Attachment), RowsStay, EntriesOK', RunOK(run)' PROVE FilesInv'
      BY <1>1, <1>2, <1>12 DEF FilesInv, FileTypes
  <1>13. CASE row' = row /\ entries' = entries /\ (run' = z \/ run' = Files!Idle)
    <2>1. row' \in Seq(Attachment) /\ RowsStay
        BY <1>1, <1>13 DEF FileTypes, RowsStay
    <2>2. EntriesOK'
        BY <1>2, <1>13, <2>1, EntriesStay
    <2>3. RunOK(run)'
        BY <1>11, <1>13, <2>1, IdleRun DEF RunOK, IsRun, EntryOK, AsWritten
    <2> QED
        BY <1>12, <2>1, <2>2, <2>3
  <1>14. ASSUME binary[p] # Missing, row' = Append(row, a),
                ~\E i \in Files!AtPath(x.doc, p) : row[i].content = binary[p],
                \/ /\ entries' = entries
                   /\ \E i \in Files!AtPath(x.doc, p) :
                        run' = [z EXCEPT !.at = "drop", !.old = i, !.new = new, !.by = author[p]]
                \/ run' = z /\ entries' = Files!Entered(entries, new, p)
                \/ run' = Files!Idle /\ entries' = entries
         PROVE  FilesInv'
    <2>1. a \in Attachment /\ a.content = binary[p]
        BY <1>1, <1>4, <1>9, <1>10, <1>14 DEF Attachment, FileTypes
    <2>2. /\ row' \in Seq(Attachment) /\ RowsStay /\ new \in DOMAIN row' /\ new \notin DOMAIN row
          /\ row'[new].content = binary[p]
        BY <1>1, <1>6, <1>14, <2>1, AddedRow
    <2>3. author[p] # "nobody" /\ author[p] \in {"nobody", "user", "sync"}
        BY <1>1, <1>14 DEF FileTypes
    <2>4. \A e \in entries : e.id # new
        BY <1>1, <2>2 DEF EntriesOK, EntryOK
    <2>5. CASE run' = Files!Idle /\ entries' = entries
        BY <1>2, <2>2, <2>5, EndedRun
    <2>6. CASE run' = z /\ entries' = Files!Entered(entries, new, p)
      <3>1. \A e, f \in entries : e.id = f.id => e = f
          BY <1>1 DEF EntriesOK
      <3>2. /\ \A e, f \in entries' : e.id = f.id => e = f
            /\ \A e \in entries' : e \in entries \/ (e.id = new /\ e.path = p)
          BY <2>4, <2>6, <3>1, OneMore
      <3>3. ASSUME NEW e \in entries' PROVE EntryOK(e)' /\ AsWritten(e.id, e.path)'
        <4>1. CASE e \in entries
            BY <1>1, <1>2, <2>2, <4>1 DEF EntriesOK, EntryOK, AsWritten, RowsStay
        <4>2. CASE e.id = new /\ e.path = p
            BY <1>2, <2>2, <2>3, <4>2 DEF EntryOK, AsWritten
        <4> QED
            BY <3>2, <4>1, <4>2
      <3>4. EntriesOK'
          BY <3>2, <3>3 DEF EntriesOK
      <3>5. RunOK(run)'
          BY <1>11, <2>2, <2>6 DEF RunOK, IsRun, EntryOK, AsWritten
      <3> QED
          BY <1>12, <2>2, <3>4, <3>5
    <2>7. ASSUME NEW i \in Files!AtPath(x.doc, p), entries' = entries,
                 run' = [z EXCEPT !.at = "drop", !.old = i, !.new = new, !.by = author[p]]
          PROVE  FilesInv'
      <3>1. PICK e \in entries : e.id = i /\ e.path = p
          BY <2>7 DEF Files!AtPath, Files!Entries
      <3>2. EntryOK(e) /\ AsWritten(e.id, e.path)
          BY <1>1 DEF EntriesOK
      <3>3. author[p] = "user" \/ p \in shared
          BY <1>14, <2>3, <2>7, <3>1, <3>2 DEF AsWritten
      <3>4. PICK by : by = author[p]
          OBVIOUS
      <3>5. PICK y : y = [z EXCEPT !.at = "drop", !.old = i, !.new = new, !.by = by]
          OBVIOUS
      <3>6. /\ IsRun(y) /\ y.at = "drop" /\ y.doc = x.doc /\ y.wanted = x.wanted
            /\ y.gone = x.gone /\ y.remote = x.remote /\ y.todo = todo /\ y.new = new
            /\ y.old = i /\ y.by = by
          BY <1>8, <3>5 DEF IsRun
      <3>7. run' = y
          BY <2>7, <3>4, <3>5
      <3>8. EntriesOK'
          BY <1>2, <2>2, <2>7, EntriesStay
      <3>9. RunOK(y)'
        <4>1. \A f \in x.gone : EntryOK(f)'
            BY <1>2, <1>4, <2>2 DEF RunOK, EntryOK, RowsStay
        <4>2. e \in entries' /\ e.id = y.old /\ (y.by = "user" \/ e.path \in shared')
            BY <1>2, <2>7, <3>1, <3>3, <3>4, <3>6
        <4>3. AsWritten(y.new, e.path)'
            BY <1>2, <2>2, <3>1, <3>6 DEF AsWritten
        <4>4. \A f \in entries' : f.id # y.new
            BY <2>4, <2>7, <3>6
        <4>5. /\ y.wanted \subseteq Files!Paths /\ y.todo \subseteq Files!Paths
              /\ y.remote \subseteq DOMAIN row' /\ y.new \in DOMAIN row'
            BY <1>4, <1>5, <2>2, <3>6 DEF RunOK, RowsStay
        <4> QED
            BY <1>4, <3>6, <4>1, <4>2, <4>3, <4>4, <4>5 DEF RunOK, IsRun
      <3> QED
          BY <1>12, <2>2, <3>7, <3>8, <3>9 DEF RunOK, IsRun, EntryOK, AsWritten
    <2> QED
        BY <1>14, <2>5, <2>6, <2>7
  <1> QED
      BY <1>3, <1>5, <1>6, <1>7, <1>10, <1>13, <1>14 DEF Files!Upload, Files!Go, Files!Ends

LEMMA DropStep == ASSUME FilesInv, Files!DropOld PROVE FilesInv'
  <1>1. FileTypes /\ EntriesOK /\ RunOK(run) /\ run.at = "drop"
      BY DEF FilesInv, Files!DropOld
  <1>2. UNCHANGED <<binary, refs, author>> /\ shared \subseteq shared'
      BY DEF Files!DropOld, Files!Remember
  <1>3. PICK x : x = run
      OBVIOUS
  <1>4. IsRun(x) /\ RunOK(x) /\ x.at = "drop" /\ x.doc \in Docs
      BY <1>1, <1>3 DEF RunOK
  <1>5. PICK e \in entries : e.id = x.old /\ AsWritten(x.new, e.path)
      BY <1>4 DEF RunOK
  <1>6. EntryOK(e) /\ x.old \in DOMAIN row /\ Files!PathOf(x.old) = e.path
      BY <1>1, <1>5, PathOfEntry DEF EntriesOK, EntryOK
  <1>7. \/ /\ row' = Files!Deleted(x.old)
           /\ entries' = Files!Entered(Files!Without(x.old), x.new, e.path)
           /\ run' = [x EXCEPT !.at = "put", !.old = 0, !.new = 0, !.by = "nobody"]
        \/ Files!Broken(x.old)
      BY <1>3, <1>6 DEF Files!DropOld, Files!Go
  <1>8. CASE Files!Broken(x.old)
      BY <1>2, <1>6, <1>8, BrokenCall
  <1>9. CASE /\ row' = Files!Deleted(x.old)
             /\ entries' = Files!Entered(Files!Without(x.old), x.new, e.path)
             /\ run' = [x EXCEPT !.at = "put", !.old = 0, !.new = 0, !.by = "nobody"]
    <2>1. row' \in Seq(Attachment) /\ RowsStay /\ DOMAIN row' = DOMAIN row
        BY <1>1, <1>6, <1>9, DeletedRow
    <2>2. /\ \A f, g \in Files!Without(x.old) : f.id = g.id => f = g
          /\ \A f \in Files!Without(x.old) : f \in entries /\ f.id # x.new
        BY <1>1, <1>4 DEF Files!Without, EntriesOK, RunOK
    <2>3. /\ \A f, g \in entries' : f.id = g.id => f = g
          /\ \A f \in entries' : f \in entries \/ (f.id = x.new /\ f.path = e.path)
        BY <1>9, <2>2, OneMore
    <2>4. ASSUME NEW f \in entries' PROVE EntryOK(f)' /\ AsWritten(f.id, f.path)'
      <3>1. CASE f \in entries
          BY <1>1, <1>2, <2>1, <3>1 DEF EntriesOK, EntryOK, AsWritten, RowsStay
      <3>2. CASE f.id = x.new /\ f.path = e.path
        <4>1. x.new \in DOMAIN row
            BY <1>4 DEF RunOK
        <4> QED
            BY <1>2, <1>5, <1>6, <2>1, <3>2, <4>1 DEF EntryOK, AsWritten, RowsStay
      <3> QED
          BY <2>3, <3>1, <3>2
    <2>5. EntriesOK'
        BY <2>3, <2>4 DEF EntriesOK
    <2>6. PICK y : y = [x EXCEPT !.at = "put", !.old = 0, !.new = 0, !.by = "nobody"]
        OBVIOUS
    <2>7. /\ IsRun(y) /\ y.at = "put" /\ y.doc = x.doc /\ y.wanted = x.wanted
          /\ y.gone = x.gone /\ y.remote = x.remote /\ y.todo = x.todo /\ y.new = 0
        BY <1>4, <2>6 DEF IsRun
    <2>8. RunOK(y)'
      <3>1. \A f \in x.gone : EntryOK(f)'
          BY <1>2, <1>4, <2>1 DEF RunOK, EntryOK
      <3> QED
          BY <1>4, <2>1, <2>7, <3>1 DEF RunOK, IsRun
    <2>9. FileTypes'
        BY <1>1, <1>2, <2>1 DEF FileTypes
    <2> QED
        BY <1>9, <2>5, <2>6, <2>8, <2>9 DEF FilesInv, RunOK, IsRun, EntryOK, AsWritten
  <1> QED
      BY <1>7, <1>8, <1>9

LEMMA FilesStep == ASSUME FilesGiven, FilesInv, [Files!Next]_(Files!vars) PROVE FilesInv'
  <1>1. ASSUME Files!Disturb PROVE FilesInv'
      BY <1>1, PeopleSteps, RunSteps DEF Files!Disturb
  <1>2. ASSUME NEW p \in Files!Paths, Files!Upload(p) PROVE FilesInv'
      BY <1>2, UploadStep
  <1>3. ASSUME Files!Advance PROVE FilesInv'
      BY <1>2, <1>3, RunSteps, CheckSteps, DeleteStep, DownloadStep, DropStep DEF Files!Advance
  <1> QED
      BY <1>1, <1>3, PeopleSteps, RunSteps DEF Files!Next

THEOREM FilesInvariant == FilesGiven => (Files!Spec => []FilesInv)
  <1> SUFFICES ASSUME FilesGiven PROVE Files!Spec => []FilesInv
      OBVIOUS
  <1>1. Files!Init => FilesInv
      BY InitFiles
  <1>2. FilesInv /\ [Files!Next]_(Files!vars) => FilesInv'
      BY FilesStep
  <1> QED
      BY <1>1, <1>2, PTL DEF Files!Spec

(* A deletion of one row deletes no other.                                 *)
LEMMA OneDeleted ==
    ASSUME FileTypes, NEW i \in DOMAIN row, NEW k \in DOMAIN row, row' = Files!Deleted(k),
           row[i].live, ~row'[i].live
    PROVE  i = k
  BY DEF FileTypes, Files!Deleted

LEMMA DeletionChosen ==
    ASSUME FilesInv, Files!Next, NEW i \in DOMAIN row, row[i].live, ~row'[i].live, run' # run
    PROVE  run.by = "user" \/ Files!PathOf(i) \in shared
  <1>1. FileTypes /\ EntriesOK /\ RunOK(run)
      BY DEF FilesInv
  <1>2. ASSUME \/ \E d \in Docs, kind \in {"pass", "push"} : Files!Start(d, kind)
               \/ Files!List \/ Files!CheckGone \/ Files!CheckNext \/ Files!Download \/ Files!EndRun
               \/ \E d \in Docs : Files!Resolve(d)
        PROVE  FALSE
    <2>1. row' = row
        BY <1>2 DEF Files!Start, Files!List, Files!CheckGone, Files!CheckNext, Files!Download,
                    Files!EndRun, Files!Resolve, Files!server
    <2> QED
        BY <2>1
  <1>3. ASSUME \/ \E d \in Docs, n \in Names, c \in Contents : Files!WebUpload(d, n, c)
               \/ \E k \in DOMAIN row : Files!WebDelete(k) \/ Files!WebLink(k)
               \/ \E p \in Files!Paths : \/ \E c \in Contents \cup {Missing} : Files!EditFile(p, c)
                                         \/ \E d \in Docs : Files!EditNote(d, p)
        PROVE  FALSE
      BY <1>3 DEF Files!WebUpload, Files!WebDelete, Files!WebLink, Files!EditFile, Files!EditNote,
                  Files!Changed
  <1>4. ASSUME NEW p \in Files!Paths, Files!Upload(p) PROVE FALSE
    <2>1. row' = row \/ \E x : row' = Append(row, x)
        BY <1>4 DEF Files!Upload
    <2>2. row'[i] = row[i]
        BY <1>1, <2>1 DEF FileTypes
    <2> QED
        BY <2>2
  <1>5. ASSUME Files!DeleteGone PROVE run.by = "user"
      BY <1>1, <1>5 DEF Files!DeleteGone, RunOK
  <1>6. ASSUME Files!DropOld PROVE run.by = "user" \/ Files!PathOf(i) \in shared
    <2>1. PICK e \in entries : e.id = run.old /\ (run.by = "user" \/ e.path \in shared)
        BY <1>1, <1>6 DEF Files!DropOld, RunOK
    <2>2. run.old \in DOMAIN row /\ Files!PathOf(run.old) = e.path
        BY <1>1, <2>1, PathOfEntry DEF EntriesOK, EntryOK
    <2>3. row' = row \/ row' = Files!Deleted(run.old)
        BY <1>6 DEF Files!DropOld, Files!Broken
    <2>4. i = run.old
        BY <1>1, <2>2, <2>3, OneDeleted
    <2> QED
        BY <2>1, <2>2, <2>4
  <1> QED
      BY <1>2, <1>3, <1>4, <1>5, <1>6 DEF Files!Next, Files!Disturb, Files!Advance

(* Whatever people do to files, notes and attachments between the steps of *)
(* a run, and whichever calls fail, the plugin deletes an attachment only  *)
(* if the user removed its file, or changed it and the plugin has sent     *)
(* that, unless two attachments have stood for the file                    *)
(* (syncDocumentAttachments).                                              *)
THEOREM AttachmentsGoByChoice == FilesGiven => (Files!Spec => Files!DeletedByChoice)
  <1> SUFFICES ASSUME FilesGiven PROVE Files!Spec => Files!DeletedByChoice
      OBVIOUS
  <1>1. FilesInv /\ [Files!Next]_(Files!vars) => [Files!DeletesByChoice]_(Files!vars)
      BY DeletionChosen DEF Files!DeletesByChoice
  <1> QED
      BY <1>1, FilesInvariant, PTL DEF Files!Spec, Files!DeletedByChoice
=============================================================================
