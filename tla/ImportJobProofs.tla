-------------------------- MODULE ImportJobProofs --------------------------
(***************************************************************************)
(* Proofs about ImportJob: the inductive invariant, and from it that a job *)
(* says done only when every note was imported and that a checkpoint never *)
(* claims more than that, for any jobs, vault, checkpoint interval and     *)
(* number of retries and crashes.  And about AgentImports: an import says  *)
(* in its report what it did, and does what its dry run foretold.          *)
(***************************************************************************)
EXTENDS ImportJob, FiniteSetTheorems, TLAPS

LEMMA NotesAreNumbers == Notes \subseteq Nat \ {0} /\ Cardinality(Notes) \in Nat
  <1>1. Cardinality(Notes) \in Nat
      BY NotesAssumption, FS_CardinalityType
  <1>2. 1..Cardinality(Notes) \subseteq Nat \ {0}
      BY <1>1
  <1> QED
      BY <1>1, <1>2, NotesAssumption

(* A note past the last one is past all of them.                           *)
LEMMA PastTheLast ==
    ASSUME NEW k \in Nat \ {0}, k \notin Notes, NEW n \in Notes PROVE n < k
  BY NotesAreNumbers, NotesAssumption

(* Documents are never removed, so what was imported stays imported.       *)
LEMMA ImportedStays ==
    ASSUME document \subseteq document', NEW j \in Jobs, NEW n, Imported(j, n)
    PROVE Imported(j, n)'
  BY DEF Imported, MadeFrom, PathsTaken

LEMMA PathsStay == document \subseteq document' => PathsTaken \subseteq PathsTaken'
  BY DEF PathsTaken

LEMMA DocumentsStay == [Next]_vars => document \subseteq document'
  BY DEF Next, vars, UploadCheck, UploadCreate, Retry, HeartbeatAges, PurgeDelete,
     UserCreates, Work, Find, Leave, Claim, PassNote, MakeDocument, Flush, Finish,
     RunFails, LoopFails, Watchdog, PurgeRead, Crash, Boot, Recover

LEMMA IdleIsWorker == \A at \in {"off", "find", "leave", "claim"} : Idle(at) \in Worker
  <1>1. 0 \in 0..CheckpointEvery
      BY CheckpointAssumption
  <1> QED
      BY <1>1 DEF Idle, Worker

(* No checkpoint is written and no job becomes done.                       *)
SameCheckpoints == \A j \in Jobs : importJob'[j].processed = importJob[j].processed
NoneIsDone ==
    \A j \in Jobs : importJob'[j].status = "done" => importJob[j].status = "done"

(* The loop between runs satisfies whatever is asked of a run.             *)
LEMMA IdleIsFine ==
    ASSUME NEW at \in {"off", "find", "leave"}, worker' = Idle(at)
    PROVE worker' \in Worker /\ RunOK'
  BY IdleIsWorker DEF Idle, RunOK, InRun

LEMMA KickIsFine ==
    ASSUME worker \in Worker, RunOK, Kick, document \subseteq document', SameCheckpoints
    PROVE worker' \in Worker /\ RunOK'
  <1>1. CASE worker.at = "off"
      BY <1>1, IdleIsFine DEF Kick
  <1>2. CASE worker.at # "off"
    <2>1. worker' = worker
        BY <1>2 DEF Kick
    <2> QED
        BY <2>1, ImportedStays, PathsStay DEF RunOK, InRun, SameCheckpoints
  <1> QED
      BY <1>1, <1>2

(* A run that did not move still satisfies it when documents are added.    *)
LEMMA RunStays ==
    ASSUME RunOK, document \subseteq document', worker' = worker, SameCheckpoints
    PROVE RunOK'
  BY ImportedStays, PathsStay DEF RunOK, InRun, SameCheckpoints

LEMMA CheckpointsStay ==
    ASSUME CheckpointsImported, document \subseteq document', SameCheckpoints
    PROVE CheckpointsImported'
  BY ImportedStays DEF CheckpointsImported, SameCheckpoints

LEMMA DoneStays ==
    ASSUME DoneMeansImported, document \subseteq document', NoneIsDone
    PROVE DoneMeansImported'
  BY ImportedStays DEF DoneMeansImported, NoneIsDone

(***************************************************************************)
(* The initial state.                                                      *)
(***************************************************************************)
LEMMA InitIInv == Init => IInv
  <1> SUFFICES ASSUME Init PROVE IInv
      OBVIOUS
  <1>1. TypeOK
    <2>1. worker \in Worker
        BY IdleIsWorker DEF Init
    <2> QED
        BY <2>1 DEF Init, TypeOK, Job, Statuses, Server
  <1>2. RunOK
      BY DEF Init, Idle, RunOK, InRun
  <1>3. CheckpointsImported /\ DoneMeansImported
      BY DEF Init, CheckpointsImported, DoneMeansImported
  <1> QED
      BY <1>1, <1>2, <1>3 DEF IInv

(***************************************************************************)
(* Requests, the watchdog, the purge, crashes and recovery.                *)
(***************************************************************************)
LEMMA KickSteps ==
    ASSUME IInv, NEW j, (j \in Jobs /\ (UploadCreate(j) \/ Retry(j))) \/ Recover
    PROVE IInv'
  <1> USE DEF IInv
  <1>1. document' = document /\ Kick
      BY DEF UploadCreate, Retry, Recover
  <1>2. SameCheckpoints /\ NoneIsDone
    <2>1. CASE j \in Jobs /\ UploadCreate(j)
        BY <2>1 DEF TypeOK, UploadCreate, Job, SameCheckpoints, NoneIsDone
    <2>2. CASE j \in Jobs /\ Retry(j)
        BY <2>2 DEF TypeOK, Retry, Job, SameCheckpoints, NoneIsDone
    <2>3. CASE Recover
        BY <2>3 DEF TypeOK, Recover, Job, SameCheckpoints, NoneIsDone
    <2> QED
        BY <2>1, <2>2, <2>3
  <1>3. worker' \in Worker /\ RunOK'
      BY <1>1, <1>2, KickIsFine DEF TypeOK
  <1>4. importJob' \in [Jobs -> Job] /\ created' \in Seq(Jobs) /\ server' \in Server
    <2>1. CASE j \in Jobs /\ UploadCreate(j)
      <3>1. importJob' \in [Jobs -> Job]
          BY <2>1 DEF TypeOK, UploadCreate, Job, Statuses
      <3>2. created' = Append(created, j) /\ created \in Seq(Jobs)
          BY <2>1 DEF TypeOK, UploadCreate
      <3>3. server' \in Server
          BY <2>1 DEF TypeOK, UploadCreate, Server
      <3> QED
          BY <2>1, <3>1, <3>2, <3>3
    <2>2. CASE j \in Jobs /\ Retry(j)
        BY <2>2 DEF TypeOK, Retry, Job, Statuses
    <2>3. CASE Recover
        BY <2>3 DEF TypeOK, Recover, Job, Statuses, Server
    <2> QED
        BY <2>1, <2>2, <2>3
  <1>5. TypeOK'
      BY <1>1, <1>3, <1>4 DEF TypeOK, UploadCreate, Retry, Recover
  <1>6. document \subseteq document'
      BY <1>1
  <1>7. CheckpointsImported'
      BY <1>2, <1>6, CheckpointsStay
  <1>8. DoneMeansImported'
      BY <1>2, <1>6, DoneStays
  <1> QED
      BY <1>3, <1>5, <1>7, <1>8

LEMMA OtherSteps ==
    ASSUME IInv, NEW j, NEW s,
           \/ j \in Jobs /\ (UploadCheck(j) \/ HeartbeatAges(j) \/ PurgeDelete(j))
           \/ s \in Slugs /\ UserCreates(s)
           \/ Watchdog \/ PurgeRead \/ Boot
    PROVE IInv'
  <1> USE DEF IInv
  <1>1. worker' = worker /\ created' = created /\ crashes' = crashes
      BY DEF UploadCheck, UserCreates, HeartbeatAges, Watchdog, PurgeRead, PurgeDelete, Boot
  <1>2. document \subseteq document' /\ document' \subseteq Document
    <2>1. CASE s \in Slugs /\ UserCreates(s)
        BY <2>1 DEF TypeOK, UserCreates, Document, Paths
    <2>2. CASE ~(s \in Slugs /\ UserCreates(s))
        BY <2>2 DEF TypeOK, UploadCheck, HeartbeatAges, Watchdog, PurgeRead, PurgeDelete, Boot
    <2> QED
        BY <2>1, <2>2
  <1>3. server' \in Server
      BY DEF TypeOK, Server, UploadCheck, UserCreates, HeartbeatAges, Watchdog, PurgeRead,
         PurgeDelete, Boot
  <1>4. importJob' \in [Jobs -> Job] /\ SameCheckpoints /\ NoneIsDone
    <2>1. CASE j \in Jobs /\ HeartbeatAges(j)
        BY <2>1 DEF TypeOK, HeartbeatAges, Job, SameCheckpoints, NoneIsDone
    <2>2. CASE Watchdog
        BY <2>2 DEF TypeOK, Watchdog, Job, Statuses, SameCheckpoints, NoneIsDone
    <2>3. CASE j \in Jobs /\ PurgeDelete(j)
        BY <2>3 DEF TypeOK, PurgeDelete, Job, Statuses, SameCheckpoints, NoneIsDone
    <2>4. CASE (j \in Jobs /\ UploadCheck(j)) \/ UserCreates(s) \/ PurgeRead \/ Boot
        BY <2>4 DEF TypeOK, UploadCheck, UserCreates, PurgeRead, Boot, SameCheckpoints, NoneIsDone
    <2> QED
        BY <2>1, <2>2, <2>3, <2>4
  <1>5. TypeOK'
      BY <1>1, <1>2, <1>3, <1>4 DEF TypeOK
  <1>6. RunOK'
      BY <1>1, <1>2, <1>4, RunStays
  <1>7. CheckpointsImported'
      BY <1>2, <1>4, CheckpointsStay
  <1>8. DoneMeansImported'
      BY <1>2, <1>4, DoneStays
  <1> QED
      BY <1>5, <1>6, <1>7, <1>8

(***************************************************************************)
(* The worker loop outside of its runs, and what ends a run or the loop.   *)
(***************************************************************************)
LEMMA LoopSteps ==
    ASSUME IInv, Find \/ Leave \/ LoopFails \/ Crash \/ RunFails
    PROVE IInv'
  <1> USE DEF IInv
  <1>1. document' = document /\ created' = created
      BY DEF Find, Leave, LoopFails, Crash, RunFails
  <1>2. worker' \in Worker /\ RunOK'
    <2>1. CASE Find
      <3>1. CASE worker' = Idle("leave")
          BY <3>1, IdleIsFine
      <3>2. ASSUME NEW i \in Queued, worker' = [Idle("claim") EXCEPT !.job = created[i]]
            PROVE worker' \in Worker /\ RunOK'
        <4>1. created[i] \in Jobs
            BY DEF Queued, TypeOK
        <4> QED
            BY <4>1, <3>2, IdleIsWorker DEF Idle, Worker, RunOK, InRun
      <3> QED
          BY <2>1, <3>1, <3>2 DEF Find
    <2>2. CASE Leave \/ LoopFails \/ Crash \/ RunFails
        BY <2>2, IdleIsFine DEF Leave, LoopFails, Crash, RunFails
    <2> QED
        BY <2>1, <2>2
  <1>3. importJob' \in [Jobs -> Job] /\ SameCheckpoints /\ NoneIsDone
    <2>1. CASE RunFails
        BY <2>1 DEF TypeOK, RunFails, HasRow, Job, Statuses, SameCheckpoints, NoneIsDone
    <2>2. CASE ~RunFails
        BY <2>2 DEF TypeOK, Find, Leave, LoopFails, Crash, SameCheckpoints, NoneIsDone
    <2> QED
        BY <2>1, <2>2
  <1>4. server' \in Server /\ crashes' \in Nat
    <2>1. CASE Crash
        BY <2>1 DEF TypeOK, Server, Crash
    <2>2. CASE ~Crash
        BY <2>2 DEF TypeOK, Find, Leave, LoopFails, RunFails
    <2> QED
        BY <2>1, <2>2
  <1>5. TypeOK'
      BY <1>1, <1>2, <1>3, <1>4 DEF TypeOK
  <1>6. document \subseteq document'
      BY <1>1
  <1>7. CheckpointsImported'
      BY <1>3, <1>6, CheckpointsStay
  <1>8. DoneMeansImported'
      BY <1>3, <1>6, DoneStays
  <1> QED
      BY <1>2, <1>5, <1>7, <1>8

(***************************************************************************)
(* The steps of a run.                                                     *)
(***************************************************************************)
LEMMA ClaimStep ==
    ASSUME IInv, Claim PROVE IInv'
  <1> USE DEF IInv
  <1>1. CASE importJob[worker.job].status = "queued"
    <2> DEFINE j == worker.job
    <2>1. j \in Jobs
        BY DEF RunOK, Claim
    <2>2. /\ importJob' \in [Jobs -> Job] /\ SameCheckpoints /\ NoneIsDone
        BY <1>1, <2>1 DEF Claim, TypeOK, Job, Statuses, SameCheckpoints, NoneIsDone
    <2>3. document' = document /\ created' = created /\ server' = server /\ crashes' = crashes
        BY DEF Claim
    <2>4. worker' = [worker EXCEPT !.at = "notes", !.processed = importJob[j].processed,
                                   !.known = PathsTaken]
        BY <1>1 DEF Claim
    <2>5. importJob[j].processed \subseteq Notes /\ PathsTaken \subseteq Paths
        BY <2>1 DEF TypeOK, Job, PathsTaken, Document
    <2>6. worker' \in Worker
        BY <2>4, <2>5 DEF TypeOK, Worker
    <2>7. TypeOK'
        BY <2>2, <2>3, <2>6 DEF TypeOK
    <2>8. \A n \in importJob[j].processed : Imported(j, n)
        BY <2>1 DEF CheckpointsImported
    <2>9. worker.next = 1 /\ worker.unflushed = 0
        BY DEF Claim, RunOK
    <2>10. RunOK'
      <3>1. InRun' /\ worker'.job = j /\ worker'.at = "notes"
          BY <2>4 DEF InRun, TypeOK, Worker
      <3>2. worker'.unflushed < CheckpointEvery
          BY <2>4, <2>9, CheckpointAssumption DEF TypeOK, Worker
      <3>3. worker'.known \subseteq PathsTaken'
          BY <2>3, <2>4 DEF TypeOK, Worker, PathsTaken
      <3>4. \A n \in Notes : ~(n < worker'.next)
          BY <2>4, <2>9, NotesAreNumbers DEF TypeOK, Worker
      <3>5. \A n \in worker'.processed : Imported(j, n)'
          BY <2>1, <2>3, <2>4, <2>8, ImportedStays DEF TypeOK, Worker
      <3>6. importJob'[j].processed \subseteq worker'.processed
          BY <2>1, <2>2, <2>4 DEF TypeOK, Worker, SameCheckpoints
      <3> QED
          BY <2>1, <3>1, <3>2, <3>3, <3>4, <3>5, <3>6 DEF RunOK, Imported, MadeFrom
    <2>11. CheckpointsImported' /\ DoneMeansImported'
        BY <2>2, <2>3, CheckpointsStay, DoneStays
    <2> QED
        BY <2>7, <2>10, <2>11
  <1>2. CASE importJob[worker.job].status # "queued"
    <2>1. /\ worker' = Idle("find") /\ importJob' = importJob /\ document' = document
          /\ created' = created /\ server' = server /\ crashes' = crashes
        BY <1>2 DEF Claim
    <2>2. worker' \in Worker /\ RunOK'
        BY <2>1, IdleIsFine
    <2>3. TypeOK'
        BY <2>1, <2>2 DEF TypeOK
    <2>4. SameCheckpoints /\ NoneIsDone /\ document \subseteq document'
        BY <2>1 DEF SameCheckpoints, NoneIsDone
    <2>5. CheckpointsImported' /\ DoneMeansImported'
        BY <2>4, CheckpointsStay, DoneStays
    <2> QED
        BY <2>2, <2>3, <2>5
  <1> QED
      BY <1>1, <1>2
LEMMA PassNoteStep ==
    ASSUME IInv, PassNote PROVE IInv'
  <1> USE DEF IInv
  <1>0. PICK j \in Jobs, n \in Notes : j = worker.job /\ n = worker.next
      BY DEF PassNote, RunOK, InRun
  <1>1. /\ worker.at = "notes" /\ Passed(n)
        /\ worker' = [worker EXCEPT !.next = n + 1, !.processed = @ \cup {n}]
        /\ importJob' = importJob /\ created' = created /\ document' = document
        /\ server' = server /\ crashes' = crashes
      BY <1>0 DEF PassNote
  <1>2. n \in Nat \ {0} /\ Notes \subseteq Nat
      BY NotesAreNumbers
  <1>3. worker' \in Worker
    <2>1. n + 1 \in Nat \ {0} /\ worker.processed \cup {n} \in SUBSET Notes
        BY <1>2 DEF TypeOK, Worker
    <2> QED
        BY <1>1, <2>1 DEF TypeOK, Worker
  <1>4. /\ worker'.at = "notes" /\ worker'.job = j /\ worker'.next = n + 1
        /\ worker'.processed = worker.processed \cup {n}
        /\ worker'.known = worker.known /\ worker'.unflushed = worker.unflushed
      BY <1>0, <1>1 DEF TypeOK, Worker
  <1>5. Imported(j, n)
    <2>1. CASE n \in worker.processed
        BY <1>0, <1>1, <2>1 DEF RunOK, InRun
    <2>2. CASE Policy[j] = "skip" /\ <<SlugOf[n], 1>> \in worker.known
        BY <2>2 DEF RunOK, Imported
    <2> QED
        BY <1>0, <1>1, <2>1, <2>2 DEF Passed
  <1>6. RunOK'
    <2>1. worker'.unflushed < CheckpointEvery /\ worker'.known \subseteq PathsTaken'
        BY <1>1, <1>4 DEF RunOK, PathsTaken
    <2>2. \A m \in Notes : m < n + 1 => m \in worker'.processed
        BY <1>0, <1>1, <1>2, <1>4 DEF RunOK, InRun
    <2>3. \A m \in worker'.processed : Imported(j, m)
        BY <1>0, <1>1, <1>4, <1>5 DEF RunOK, InRun
    <2>4. \A m \in worker'.processed : Imported(j, m)'
        BY <1>1, <2>3, ImportedStays
    <2>5. importJob'[j].processed \subseteq worker'.processed
        BY <1>0, <1>1, <1>4 DEF RunOK, InRun
    <2> QED
        BY <1>1, <1>4, <2>1, <2>2, <2>4, <2>5 DEF RunOK, InRun, Imported, MadeFrom
  <1>7. TypeOK'
      BY <1>1, <1>3 DEF TypeOK
  <1>8. SameCheckpoints /\ NoneIsDone /\ document \subseteq document'
      BY <1>1 DEF SameCheckpoints, NoneIsDone
  <1>9. CheckpointsImported' /\ DoneMeansImported'
      BY <1>8, CheckpointsStay, DoneStays
  <1> QED
      BY <1>6, <1>7, <1>9

LEMMA MakeDocumentStep ==
    ASSUME IInv, MakeDocument PROVE IInv'
  <1> USE DEF IInv
  <1>0. PICK j \in Jobs, n \in Notes : j = worker.job /\ n = worker.next
      BY DEF MakeDocument, RunOK, InRun
  <1>1. PICK k \in 1..(Cardinality(worker.known) + 1) :
          /\ document' = document \cup {[path |-> <<SlugOf[n], k>>, job |-> j, note |-> n]}
          /\ worker' = [worker EXCEPT !.next = n + 1, !.processed = @ \cup {n},
                                      !.known = @ \cup {<<SlugOf[n], k>>}, !.unflushed = @ + 1,
                                      !.at = IF worker.unflushed + 1 = CheckpointEvery
                                             THEN "flush" ELSE "notes"]
      BY <1>0 DEF MakeDocument
  <1>2. /\ worker.at = "notes"
        /\ importJob' = importJob /\ created' = created
        /\ server' = server /\ crashes' = crashes
      BY DEF MakeDocument
  <1>3. n \in Nat \ {0} /\ Notes \subseteq Nat /\ SlugOf[n] \in Slugs
      BY NotesAreNumbers DEF Slugs
  <1>4. <<SlugOf[n], k>> \in Paths
      BY <1>3 DEF Paths
  <1>5. worker.unflushed + 1 \in 0..CheckpointEvery /\ worker.unflushed \in Nat
      BY <1>2, CheckpointAssumption DEF TypeOK, Worker, RunOK
  <1>6. worker' \in Worker
    <2>1. /\ n + 1 \in Nat \ {0} /\ worker.processed \cup {n} \in SUBSET Notes
          /\ worker.known \cup {<<SlugOf[n], k>>} \in SUBSET Paths
        BY <1>3, <1>4 DEF TypeOK, Worker
    <2> QED
        BY <1>1, <1>5, <2>1 DEF TypeOK, Worker
  <1>7. /\ worker'.at \in {"flush", "notes"} /\ worker'.job = j /\ worker'.next = n + 1
        /\ worker'.at = "notes" => worker'.unflushed < CheckpointEvery
        /\ worker'.processed = worker.processed \cup {n}
        /\ worker'.known = worker.known \cup {<<SlugOf[n], k>>}
      BY <1>0, <1>1, <1>5, CheckpointAssumption DEF TypeOK, Worker
  <1>8. document \subseteq document' /\ document' \subseteq Document
      BY <1>1, <1>4 DEF TypeOK, Document
  <1>9. Imported(j, n)' /\ <<SlugOf[n], k>> \in PathsTaken'
    <2> DEFINE path == <<SlugOf[n], k>>
               d == [path |-> path, job |-> j, note |-> n]
    <2>1. d \in document'
        BY <1>0, <1>1
    <2>2. d.path = path /\ d.job = j /\ d.note = n
        OBVIOUS
    <2> HIDE DEF path, d
    <2>3. d \in MadeFrom(j, n)' /\ path \in PathsTaken'
        BY <2>1, <2>2 DEF MadeFrom, PathsTaken
    <2> QED
        BY <2>3 DEF Imported, path
  <1>10. RunOK'
    <2>1. worker'.known \subseteq PathsTaken'
        BY <1>7, <1>8, <1>9, PathsStay DEF RunOK
    <2>2. \A m \in Notes : m < n + 1 => m \in worker'.processed
        BY <1>0, <1>2, <1>3, <1>7 DEF RunOK, InRun
    <2>3. \A m \in worker.processed : Imported(j, m)
        BY <1>0, <1>2 DEF RunOK, InRun
    <2>4. \A m \in worker.processed : Imported(j, m)'
        BY <1>8, <2>3, ImportedStays
    <2>5. \A m \in worker'.processed : Imported(j, m)'
        BY <1>7, <1>9, <2>4
    <2>6. importJob'[j].processed \subseteq worker'.processed
        BY <1>0, <1>2, <1>7 DEF RunOK, InRun
    <2> QED
        BY <1>2, <1>7, <2>1, <2>2, <2>5, <2>6 DEF RunOK, InRun, Imported, MadeFrom
  <1>11. TypeOK'
      BY <1>2, <1>6, <1>8 DEF TypeOK
  <1>12. SameCheckpoints /\ NoneIsDone
      BY <1>2 DEF SameCheckpoints, NoneIsDone
  <1>13. CheckpointsImported' /\ DoneMeansImported'
      BY <1>8, <1>12, CheckpointsStay, DoneStays
  <1> QED
      BY <1>10, <1>11, <1>13
LEMMA FlushStep ==
    ASSUME IInv, Flush PROVE IInv'
  <1> USE DEF IInv
  <1>0. PICK j \in Jobs : j = worker.job
      BY DEF Flush, FlushDue, RunOK, InRun
  <1>1. /\ worker.at \in {"notes", "flush"}
        /\ importJob' = [importJob EXCEPT ![j].processed = worker.processed, ![j].stale = FALSE]
        /\ worker' = [worker EXCEPT !.unflushed = 0,
                                    !.at = IF worker.next \in Notes THEN "notes" ELSE "finish"]
        /\ created' = created /\ document' = document
        /\ server' = server /\ crashes' = crashes
      BY <1>0 DEF Flush, FlushDue
  <1>2. importJob' \in [Jobs -> Job] /\ NoneIsDone
      BY <1>1 DEF TypeOK, Job, Worker, NoneIsDone
  <1>3. worker' \in Worker
    <2>1. 0 \in 0..CheckpointEvery
        BY CheckpointAssumption
    <2> QED
        BY <1>1, <2>1 DEF TypeOK, Worker
  <1>4. /\ worker'.at \in {"notes", "finish"} /\ worker'.job = j
        /\ worker'.at = "finish" => worker'.next \notin Notes
        /\ worker'.unflushed = 0 /\ worker'.next = worker.next
        /\ worker'.processed = worker.processed /\ worker'.known = worker.known
      BY <1>0, <1>1 DEF TypeOK, Worker
  <1>5. /\ importJob'[j].processed = worker.processed
        /\ \A i \in Jobs \ {j} : importJob'[i].processed = importJob[i].processed
      BY <1>1 DEF TypeOK, Job
  <1>6. \A m \in worker.processed : Imported(j, m)
      BY <1>0, <1>1 DEF RunOK, InRun
  <1>7. \A i \in Jobs : \A m : Imported(i, m) => Imported(i, m)'
      BY <1>1, ImportedStays
  <1>8. RunOK'
    <2>1. 0 < CheckpointEvery
        BY CheckpointAssumption
    <2>2. worker'.known \subseteq PathsTaken'
        BY <1>1, <1>4 DEF RunOK, PathsTaken
    <2>3. \A m \in Notes : m < worker'.next => m \in worker'.processed
        BY <1>0, <1>1, <1>4 DEF RunOK, InRun
    <2>4. \A m \in worker'.processed : Imported(j, m)'
        BY <1>4, <1>6, <1>7
    <2> QED
        BY <1>4, <1>5, <2>1, <2>2, <2>3, <2>4 DEF RunOK, InRun
  <1>9. CheckpointsImported'
      BY <1>5, <1>6, <1>7 DEF CheckpointsImported
  <1>10. TypeOK' /\ DoneMeansImported'
      BY <1>1, <1>2, <1>3, DoneStays DEF TypeOK
  <1> QED
      BY <1>8, <1>9, <1>10

LEMMA FinishStep ==
    ASSUME IInv, Finish PROVE IInv'
  <1> USE DEF IInv
  <1>0. PICK j \in Jobs : j = worker.job
      BY DEF Finish, RunOK, InRun
  <1>1. /\ worker.at = "finish"
        /\ importJob' = [importJob EXCEPT ![j].status = "done", ![j].processed = worker.processed]
        /\ worker' = Idle("find")
        /\ created' = created /\ document' = document
        /\ server' = server /\ crashes' = crashes
      BY <1>0 DEF Finish
  <1>2. importJob' \in [Jobs -> Job]
    <2>1. worker.processed \subseteq Notes /\ "done" \in Statuses
        BY DEF TypeOK, Worker, Statuses
    <2> QED
        BY <1>1, <2>1 DEF TypeOK, Job
  <1>3. worker' \in Worker /\ RunOK'
      BY <1>1, IdleIsFine
  <1>4. /\ importJob'[j].processed = worker.processed
        /\ \A i \in Jobs \ {j} : /\ importJob'[i].processed = importJob[i].processed
                               /\ importJob'[i].status = importJob[i].status
      BY <1>1 DEF TypeOK, Job
  <1>5. \A m \in worker.processed : Imported(j, m)
      BY <1>0, <1>1 DEF RunOK, InRun
  <1>6. Notes \subseteq worker.processed
    <2>1. worker.next \in Nat \ {0} /\ worker.next \notin Notes
        BY <1>1 DEF TypeOK, Worker, RunOK
    <2> QED
        BY <1>0, <1>1, <2>1, PastTheLast DEF RunOK, InRun
  <1>7. \A i \in Jobs : \A m : Imported(i, m) => Imported(i, m)'
      BY <1>1, ImportedStays
  <1>8. CheckpointsImported'
      BY <1>4, <1>5, <1>7 DEF CheckpointsImported
  <1>9. DoneMeansImported'
      BY <1>4, <1>5, <1>6, <1>7 DEF DoneMeansImported
  <1>10. TypeOK'
      BY <1>1, <1>2, <1>3 DEF TypeOK
  <1> QED
      BY <1>3, <1>8, <1>9, <1>10

(***************************************************************************)
(* The theorems.                                                           *)
(***************************************************************************)
LEMMA StepIInv == IInv /\ [Next]_vars => IInv'
  <1> SUFFICES ASSUME IInv, [Next]_vars PROVE IInv'
      OBVIOUS
  <1>1. CASE \E j \in Jobs : UploadCreate(j) \/ Retry(j)
      BY <1>1, KickSteps
  <1>2. CASE \E j \in Jobs : UploadCheck(j) \/ HeartbeatAges(j) \/ PurgeDelete(j)
      BY <1>2, OtherSteps
  <1>3. CASE \E s \in Slugs : UserCreates(s)
      BY <1>3, OtherSteps
  <1>4. CASE Work
      BY <1>4, LoopSteps, ClaimStep, PassNoteStep, MakeDocumentStep, FlushStep, FinishStep
      DEF Work
  <1>5. CASE RunFails \/ LoopFails \/ Crash
      BY <1>5, LoopSteps
  <1>6. CASE Watchdog \/ PurgeRead \/ Boot
      BY <1>6, OtherSteps
  <1>7. CASE Recover
      BY <1>7, KickSteps
  <1>8. CASE UNCHANGED vars
    <2>1. /\ importJob' = importJob /\ created' = created /\ document' = document
          /\ worker' = worker /\ server' = server /\ crashes' = crashes
        BY <1>8 DEF vars
    <2>2. TypeOK'
        BY <2>1 DEF TypeOK, IInv
    <2>3. SameCheckpoints /\ NoneIsDone /\ document \subseteq document'
        BY <2>1 DEF SameCheckpoints, NoneIsDone
    <2>4. RunOK' /\ CheckpointsImported' /\ DoneMeansImported'
        BY <2>1, <2>3, RunStays, CheckpointsStay, DoneStays DEF IInv
    <2> QED
        BY <2>2, <2>4 DEF IInv
  <1> QED
      BY <1>1, <1>2, <1>3, <1>4, <1>5, <1>6, <1>7, <1>8 DEF Next

(* The inductive invariant holds in every reachable state.                 *)
THEOREM InvariantHolds == Spec => []IInv
  BY InitIInv, StepIInv, PTL DEF Spec

(* The rows, the loop and what the server has in hand keep their types.    *)
THEOREM TypeCorrect == Spec => []TypeOK
  <1>1. IInv => TypeOK
      BY DEF IInv
  <1> QED
      BY <1>1, InvariantHolds, PTL

(* A job that says done has imported every note: whatever crashes,         *)
(* watchdogs, retries and runs that outlive them come between.             *)
THEOREM DoneIsImported == Spec => []DoneMeansImported
  <1>1. IInv => DoneMeansImported
      BY DEF IInv
  <1> QED
      BY <1>1, InvariantHolds, PTL

(* A step that makes a document for a job makes it for a note its          *)
(* checkpoint does not have.                                               *)
LEMMA StepCheckpoint ==
    ASSUME IInv, [Next]_vars, NEW i \in Jobs, NEW m \in importJob[i].processed
    PROVE MadeFrom(i, m)' = MadeFrom(i, m)
  <1>1. CASE \E s \in Slugs : UserCreates(s)
    <2>1. PICK s \in Slugs :
            document' = document \cup {[path |-> <<s, 1>>, job |-> NoJob, note |-> 0]}
        BY <1>1 DEF UserCreates
    <2> QED
        BY <2>1, JobsAssumption DEF MadeFrom
  <1>2. CASE MakeDocument
    <2>1. PICK j \in Jobs, n \in Notes : j = worker.job /\ n = worker.next
        BY <1>2 DEF MakeDocument, IInv, RunOK, InRun
    <2>2. n \notin worker.processed
        BY <1>2, <2>1 DEF MakeDocument, Passed
    <2>3. importJob[j].processed \subseteq worker.processed
        BY <1>2, <2>1 DEF MakeDocument, IInv, RunOK, InRun
    <2>4. PICK path : document' = document \cup {[path |-> path, job |-> j, note |-> n]}
        BY <1>2, <2>1 DEF MakeDocument
    <2>5. ~(i = j /\ m = n)
        BY <2>2, <2>3
    <2> QED
        BY <2>4, <2>5 DEF MadeFrom
  <1>3. CASE document' = document
      BY <1>3 DEF MadeFrom
  <1> QED
      BY <1>1, <1>2, <1>3
      DEF Next, vars, UploadCheck, UploadCreate, Retry, HeartbeatAges, PurgeDelete, Work, Find,
          Leave, Claim, PassNote, Flush, Finish, RunFails, LoopFails, Watchdog, PurgeRead,
          Crash, Boot, Recover

(* Nothing the checkpoint has is made again.                               *)
THEOREM NothingTwice == Spec => CheckpointIsFinal
  <1>1. IInv /\ [Next]_vars =>
          [\A j \in Jobs : \A n \in importJob[j].processed : MadeFrom(j, n)' = MadeFrom(j, n)]_vars
      BY StepCheckpoint
  <1> QED
      BY <1>1, InvariantHolds, PTL DEF Spec, CheckpointIsFinal

(***************************************************************************)
(* How much is made twice.                                                 *)
(***************************************************************************)
LEMMA Counted ==
    ASSUME NEW S \in SUBSET Notes
    PROVE  IsFiniteSet(S) /\ Cardinality(S) \in Nat
  <1>1. IsFiniteSet(S)
      BY NotesAssumption, FS_Subset
  <1> QED
      BY <1>1, FS_CardinalityType

LEMMA CountedPart ==
    ASSUME NEW S \in SUBSET Notes, NEW T \in SUBSET S
    PROVE  Cardinality(T) <= Cardinality(S)
  BY Counted, FS_Subset

LEMMA NoneCounted == Cardinality({}) = 0
  BY FS_EmptySet

LEMMA OneMore ==
    ASSUME NEW S \in SUBSET Notes, NEW n \in Notes, n \notin S
    PROVE  Cardinality(S \cup {n}) = Cardinality(S) + 1
  <1>1. IsFiniteSet(S)
      BY Counted
  <1> QED
      BY <1>1, FS_AddElement

LEMMA OneLess ==
    ASSUME NEW S \in SUBSET Notes, NEW n \in S
    PROVE  Cardinality(S \ {n}) = Cardinality(S) - 1
  <1>1. IsFiniteSet(S)
      BY Counted
  <1> QED
      BY <1>1, FS_RemoveElement

LEMMA DocumentsCounted ==
    ASSUME IsFiniteSet(document), NEW j
    PROVE  IsFiniteSet(DocumentsOf(j)) /\ Cardinality(DocumentsOf(j)) \in Nat
  <1>1. DocumentsOf(j) \subseteq document
      BY DEF DocumentsOf
  <1>2. IsFiniteSet(DocumentsOf(j))
      BY <1>1, FS_Subset
  <1> QED
      BY <1>2, FS_CardinalityType

(* What was made can be told from the documents.                           *)
LEMMA MadeIs ==
    ASSUME NEW j
    PROVE  /\ Made(j) = {n \in Notes : \E d \in DocumentsOf(j) : d.note = n}
           /\ Made(j)' = {n \in Notes : \E d \in DocumentsOf(j)' : d.note = n}
           /\ Made(j) \subseteq Notes /\ Lost(j) \subseteq Notes /\ Ahead(j) \subseteq Notes
  BY DEF Made, MadeFrom, DocumentsOf, Lost, Ahead

LEMMA MadeSame ==
    ASSUME NEW j, DocumentsOf(j)' = DocumentsOf(j)
    PROVE  Made(j)' = Made(j)
  <1>1. \A d : (d \in document' /\ d.job = j) <=> (d \in document /\ d.job = j)
      BY DEF DocumentsOf
  <1>2. \A n : MadeFrom(j, n)' = MadeFrom(j, n)
      BY <1>1 DEF MadeFrom
  <1> QED
      BY <1>2 DEF Made

LEMMA InterruptionsAre ==
    ASSUME IInv, NEW j \in Jobs
    PROVE  /\ importJob[j].runs \in Nat /\ Interruptions(j) \in Nat
           /\ CheckpointEvery * Interruptions(j) \in Nat
  <1>1. importJob[j].runs \in Nat
      BY DEF IInv, TypeOK, Job
  <1>2. Interruptions(j) \in Nat
      BY <1>1 DEF Interruptions
  <1> QED
      BY <1>1, <1>2, CheckpointAssumption

LEMMA InitRepeats == Init => RepeatsInv
  <1> SUFFICES ASSUME Init PROVE RepeatsInv
      OBVIOUS
  <1>1. IInv /\ document = {} /\ ~InRun
      BY InitIInv DEF Init, Idle, InRun
  <1>2. IsFiniteSet(document)
      BY <1>1, FS_EmptySet
  <1>3. ASSUME NEW j \in Jobs
        PROVE  JobCounts(j)
    <2>1. DocumentsOf(j) = {} /\ Made(j) = {} /\ Lost(j) = {} /\ Ahead(j) = {}
        BY <1>1 DEF DocumentsOf, Made, MadeFrom, Lost, Ahead
    <2>2. CheckpointEvery * Interruptions(j) \in Nat
        BY <1>1, InterruptionsAre
    <2>3. SkipsRepeatNothing(j) /\ RepeatsCounted(j)
        BY <2>1, <2>2, NoneCounted DEF SkipsRepeatNothing, RepeatsCounted
    <2>4. LostComeFirst(j)
        BY <2>1, NoneCounted, CheckpointAssumption DEF LostComeFirst
    <2> QED
        BY <1>1, <2>1, <2>3, <2>4 DEF JobCounts, RunCounts
  <1> QED
      BY <1>1, <1>2, <1>3 DEF RepeatsInv

(* A job of whose documents and checkpoint a step changes nothing, and     *)
(* whose run is where it was or is not going on.                           *)
LEMMA JobStays ==
    ASSUME RepeatsInv, NEW j \in Jobs, DocumentsOf(j)' = DocumentsOf(j),
           importJob'[j].processed = importJob[j].processed,
           importJob'[j].runs = importJob[j].runs,
           \/ ~(InRun' /\ worker'.job = j)
           \/ /\ InRun /\ InRun' /\ worker.job = j /\ worker'.job = j
              /\ Policy[j] = "rename" =>
                   worker'.processed = worker.processed /\ worker'.unflushed = worker.unflushed
    PROVE  JobCounts(j)'
  <1>1. Made(j)' = Made(j) /\ Lost(j)' = Lost(j) /\ Interruptions(j)' = Interruptions(j)
    <2>1. Made(j)' = Made(j)
        BY MadeSame
    <2> QED
        BY <2>1 DEF Lost, Interruptions
  <1>2. importJob'[j].runs = 0 => DocumentsOf(j)' = {}
      BY DEF RepeatsInv, JobCounts
  <1>3. RunCounts(j)'
    <2> SUFFICES ASSUME InRun', worker'.job = j
                 PROVE  RunCounts(j)'
        BY DEF RunCounts
    <2>1. RunCounts(j) /\ InRun /\ worker.job = j
        BY DEF RepeatsInv, JobCounts
    <2>2. CASE Policy[j] = "rename"
      <3>1. Fresh(j)' = Fresh(j)
          BY <2>2 DEF Fresh
      <3> QED
          BY <1>1, <2>1, <2>2, <3>1 DEF RunCounts
    <2>3. CASE Policy[j] # "rename"
        BY <2>1, <2>3 DEF RunCounts
    <2> QED
        BY <2>2, <2>3
  <1>4. CASE Policy[j] = "skip"
    <2>1. SkipsRepeatNothing(j)
        BY <1>4 DEF RepeatsInv, JobCounts
    <2>2. SkipsRepeatNothing(j)'
        BY <1>1, <2>1 DEF SkipsRepeatNothing
    <2> QED
        BY <1>2, <1>3, <1>4, <2>2 DEF JobCounts
  <1>5. CASE Policy[j] = "rename"
    <2>1. LostComeFirst(j) /\ RepeatsCounted(j)
        BY <1>5 DEF RepeatsInv, JobCounts
    <2>2. LostComeFirst(j)'
        BY <1>1, <2>1 DEF LostComeFirst
    <2>3. Cardinality(Ahead(j)') <= Cardinality(Ahead(j)) /\ Cardinality(Ahead(j)') \in Nat
          /\ Cardinality(Ahead(j)) \in Nat
      <3>1. Cardinality(Ahead(j)) \in Nat
          BY MadeIs, Counted
      <3>2. Ahead(j)' = {} \/ Ahead(j)' = Ahead(j)
          BY <1>1, <1>5 DEF Ahead
      <3> QED
          BY <3>1, <3>2, NoneCounted
    <2>4. /\ Cardinality(DocumentsOf(j)) \in Nat /\ Cardinality(Made(j)) \in Nat
          /\ CheckpointEvery * Interruptions(j) \in Nat
        BY MadeIs, Counted, DocumentsCounted, InterruptionsAre DEF RepeatsInv
    <2>5. RepeatsCounted(j)'
        BY <1>1, <2>1, <2>3, <2>4 DEF RepeatsCounted
    <2> QED
        BY <1>2, <1>3, <1>5, <2>2, <2>5 DEF JobCounts
  <1> QED
      BY <1>4, <1>5, PolicyAssumption

(* ... and all of them.                                                    *)
LEMMA RepeatsStay ==
    ASSUME RepeatsInv, IInv', IsFiniteSet(document'),
           \A j \in Jobs : /\ DocumentsOf(j)' = DocumentsOf(j)
                           /\ importJob'[j].processed = importJob[j].processed
                           /\ importJob'[j].runs = importJob[j].runs,
           \/ ~InRun'
           \/ /\ InRun /\ InRun' /\ worker'.job = worker.job
              /\ Policy[worker.job] = "rename" =>
                   worker'.processed = worker.processed /\ worker'.unflushed = worker.unflushed
    PROVE  RepeatsInv'
  <1>1. ASSUME NEW j \in Jobs
        PROVE  JobCounts(j)'
      BY <1>1, JobStays
  <1> QED
      BY <1>1 DEF RepeatsInv

SameRows == \A j \in Jobs : /\ importJob'[j].processed = importJob[j].processed
                            /\ importJob'[j].runs = importJob[j].runs

LEMMA SameDocuments ==
    ASSUME document' = document, NEW j
    PROVE  DocumentsOf(j)' = DocumentsOf(j)
  BY DEF DocumentsOf

LEMMA IdleIsNoRun ==
    ASSUME NEW at \in {"off", "find", "leave", "claim"}, worker' = Idle(at)
    PROVE  ~InRun'
  BY DEF Idle, InRun

LEMMA KickRepeats ==
    ASSUME Kick
    PROVE  ~InRun' \/ (worker' = worker /\ InRun /\ InRun')
  <1>1. CASE worker.at = "off"
      BY <1>1, IdleIsNoRun DEF Kick
  <1>2. CASE worker.at # "off"
      BY <1>2 DEF Kick, InRun
  <1> QED
      BY <1>1, <1>2

(* The steps that make no document and write no checkpoint.                *)
LEMMA QuietRepeats ==
    ASSUME RepeatsInv, IInv', NEW j \in Jobs,
           \/ UploadCheck(j) \/ UploadCreate(j) \/ Retry(j) \/ HeartbeatAges(j) \/ PurgeDelete(j)
           \/ Watchdog \/ PurgeRead \/ Boot \/ Recover \/ UNCHANGED vars
           \/ Find \/ Leave \/ LoopFails \/ Crash \/ RunFails
    PROVE  RepeatsInv'
  <1>1. document' = document /\ IsFiniteSet(document')
      BY DEF RepeatsInv, UploadCheck, UploadCreate, Retry, HeartbeatAges, PurgeDelete, Watchdog,
             PurgeRead, Boot, Recover, vars, Find, Leave, LoopFails, Crash, RunFails
  <1>2. SameRows
    <2>1. importJob \in [Jobs -> Job]
        BY DEF RepeatsInv, IInv, TypeOK
    <2>2. CASE importJob' = importJob
        BY <2>2 DEF SameRows
    <2>3. CASE UploadCreate(j) \/ Retry(j) \/ HeartbeatAges(j) \/ PurgeDelete(j)
        BY <2>1, <2>3 DEF SameRows, UploadCreate, Retry, HeartbeatAges, PurgeDelete, Job
    <2>4. CASE Watchdog \/ Recover
        BY <2>1, <2>4 DEF SameRows, Watchdog, Recover, Job
    <2>5. CASE RunFails
        BY <2>1, <2>5 DEF SameRows, RunFails, Job
    <2> QED
        BY <2>2, <2>3, <2>4, <2>5
        DEF UploadCheck, PurgeRead, Boot, vars, Find, Leave, LoopFails, Crash
  <1>3. ~InRun' \/ (worker' = worker /\ InRun /\ InRun')
    <2>1. CASE worker' = worker
        BY <2>1 DEF InRun
    <2>2. CASE Kick
        BY <2>2, KickRepeats
    <2>3. CASE Find
      <3>1. CASE worker' = Idle("leave")
          BY <3>1, IdleIsNoRun
      <3>2. CASE worker' # Idle("leave")
        <4>1. PICK i \in Queued : worker' = [Idle("claim") EXCEPT !.job = created[i]]
            BY <2>3, <3>2 DEF Find
        <4> QED
            BY <4>1 DEF Idle, InRun
      <3> QED
          BY <3>1, <3>2
    <2>4. CASE worker' = Idle("off") \/ worker' = Idle("find")
        BY <2>4, IdleIsNoRun
    <2> QED
        BY <2>1, <2>2, <2>3, <2>4
        DEF UploadCheck, UploadCreate, Retry, HeartbeatAges, PurgeDelete, Watchdog,
            PurgeRead, Boot, Recover, vars, Leave, LoopFails, Crash, RunFails
  <1> QED
      BY <1>1, <1>2, <1>3, SameDocuments, RepeatsStay DEF SameRows

LEMMA UserRepeats ==
    ASSUME RepeatsInv, IInv', NEW s, UserCreates(s)
    PROVE  RepeatsInv'
  <1>1. IsFiniteSet(document')
      BY FS_AddElement DEF RepeatsInv, UserCreates
  <1>2. SameRows /\ worker' = worker
      BY DEF UserCreates, SameRows
  <1>3. \A j \in Jobs : DocumentsOf(j)' = DocumentsOf(j)
      BY JobsAssumption DEF UserCreates, DocumentsOf
  <1>4. ~InRun' \/ (InRun /\ InRun')
      BY <1>2 DEF InRun
  <1> QED
      BY <1>1, <1>2, <1>3, <1>4, RepeatsStay DEF SameRows

(* A job is claimed: what it lost may be repeated once more.               *)
LEMMA ClaimRepeats ==
    ASSUME RepeatsInv, IInv', Claim
    PROVE  RepeatsInv'
  <1>0. PICK j \in Jobs : worker.job = j
      BY DEF RepeatsInv, IInv, RunOK, Claim
  <1>1. j \in Jobs /\ document' = document /\ IsFiniteSet(document')
      BY DEF RepeatsInv, Claim
  <1>2. importJob \in [Jobs -> Job] /\ ~InRun /\ worker \in Worker
      BY DEF RepeatsInv, IInv, TypeOK, Claim, InRun
  <1>3. CASE importJob[j].status # "queued"
    <2>1. ~InRun' /\ SameRows
        BY <1>0, <1>3, IdleIsNoRun DEF Claim, SameRows
    <2> QED
        BY <1>1, <2>1, SameDocuments, RepeatsStay DEF SameRows
  <1>4. CASE importJob[j].status = "queued"
    <2>1. /\ importJob' = [importJob EXCEPT ![j].status = "running", ![j].stale = FALSE,
                                            ![j].runs = @ + 1]
          /\ worker' = [worker EXCEPT !.at = "notes", !.processed = importJob[j].processed,
                                      !.known = PathsTaken]
        BY <1>0, <1>4 DEF Claim
    <2>2. /\ worker'.job = j /\ worker'.processed = importJob[j].processed
          /\ worker'.unflushed = worker.unflushed
        BY <1>0, <1>2, <2>1 DEF Worker
    <2>3. importJob[j].runs \in Nat /\ importJob'[j].runs = importJob[j].runs + 1
          /\ importJob'[j].processed = importJob[j].processed
        BY <1>1, <1>2, <2>1 DEF Job
    <2>4. ASSUME NEW k \in Jobs, k # j
          PROVE  JobCounts(k)'
      <3>1. importJob'[k] = importJob[k]
          BY <1>2, <2>1, <2>4
      <3> QED
          BY <1>1, <2>2, <2>4, <3>1, SameDocuments, JobStays
    <2>5. JobCounts(j)'
      <3>1. JobCounts(j) /\ DocumentsOf(j)' = DocumentsOf(j) /\ Made(j)' = Made(j)
          BY <1>1, SameDocuments, MadeSame DEF RepeatsInv
      <3>2. Lost(j)' = Lost(j)
          BY <2>3, <3>1 DEF Lost
      <3>3. RunCounts(j)'
        <4>1. Fresh(j)' = {}
            BY <2>2, <2>3 DEF Fresh
        <4>2. worker.unflushed \in Nat
            BY <1>2, CheckpointAssumption DEF Worker
        <4> QED
            BY <2>2, <2>3, <4>1, <4>2, NoneCounted DEF RunCounts
      <3>4. CASE Policy[j] = "skip"
          BY <2>3, <3>1, <3>3, <3>4 DEF JobCounts, SkipsRepeatNothing
      <3>5. CASE Policy[j] = "rename"
        <4>1. LostComeFirst(j)'
            BY <2>3, <3>1, <3>2, <3>5 DEF JobCounts, LostComeFirst
        <4>2. /\ Cardinality(DocumentsOf(j)) \in Nat /\ Cardinality(Made(j)) \in Nat
              /\ Cardinality(Lost(j)) \in Nat /\ Cardinality(Lost(j)) <= CheckpointEvery
            BY <1>1, <3>1, <3>5, MadeIs, Counted, DocumentsCounted
            DEF RepeatsInv, JobCounts, LostComeFirst
        <4>3. Cardinality(Ahead(j)') <= Cardinality(Lost(j)) /\ Cardinality(Ahead(j)') \in Nat
          <5>1. Ahead(j)' \subseteq Lost(j)
              BY <3>2 DEF Ahead
          <5>2. Lost(j) \in SUBSET Notes /\ Ahead(j)' \in SUBSET Lost(j)
                /\ Ahead(j)' \in SUBSET Notes
              BY <5>1, MadeIs
          <5> QED
              BY <5>2, Counted, CountedPart
        <4>4. RepeatsCounted(j)'
          <5>1. CASE importJob[j].runs = 0
            <6>1. DocumentsOf(j) = {}
                BY <3>1, <5>1 DEF JobCounts
            <6>2. Lost(j) = {} /\ Made(j) = {}
                BY <6>1, MadeIs DEF Lost
            <6>3. Interruptions(j)' = 0
                BY <2>3, <5>1 DEF Interruptions
            <6>4. Ahead(j)' = {}
                BY <3>2, <6>2 DEF Ahead
            <6>5. CheckpointEvery * 0 = 0
                BY CheckpointAssumption
            <6> QED
                BY <3>1, <6>1, <6>2, <6>3, <6>4, <6>5, NoneCounted DEF RepeatsCounted
          <5>2. CASE importJob[j].runs # 0
            <6>1. Interruptions(j)' = Interruptions(j) + 1 /\ Interruptions(j) \in Nat
                BY <2>3, <5>2 DEF Interruptions
            <6>2. CheckpointEvery * (Interruptions(j) + 1)
                  = CheckpointEvery * Interruptions(j) + CheckpointEvery
                BY <6>1, CheckpointAssumption
            <6>3. CheckpointEvery * Interruptions(j) \in Nat
                BY <6>1, CheckpointAssumption
            <6>4. RepeatsCounted(j) /\ Ahead(j) = {}
                BY <1>2, <3>1, <3>5 DEF JobCounts, Ahead
            <6>5. Cardinality(DocumentsOf(j)) <= Cardinality(Made(j)) + CheckpointEvery * Interruptions(j)
                BY <4>2, <6>3, <6>4, NoneCounted DEF RepeatsCounted
            <6>6. Cardinality(DocumentsOf(j)) + Cardinality(Ahead(j)')
                  <= Cardinality(Made(j)) + (CheckpointEvery * Interruptions(j) + CheckpointEvery)
                BY <4>2, <4>3, <6>3, <6>5, CheckpointAssumption
            <6>7. Cardinality(DocumentsOf(j)') + Cardinality(Ahead(j)')
                  <= Cardinality(Made(j)') + CheckpointEvery * Interruptions(j)'
                BY <3>1, <6>1, <6>2, <6>6
            <6> QED
                BY <6>7 DEF RepeatsCounted
          <5> QED
              BY <5>1, <5>2
        <4> QED
            BY <2>3, <3>3, <3>5, <4>1, <4>4 DEF JobCounts
      <3> QED
          BY <1>1, <3>4, <3>5, PolicyAssumption
    <2> QED
        BY <1>1, <2>4, <2>5 DEF RepeatsInv
  <1> QED
      BY <1>3, <1>4

LEMMA PassNoteRepeats ==
    ASSUME RepeatsInv, IInv', PassNote
    PROVE  RepeatsInv'
  <1>0. PICK j \in Jobs : worker.job = j
      BY DEF RepeatsInv, IInv, RunOK, PassNote, InRun
  <1>1. worker \in Worker
      BY DEF RepeatsInv, IInv, TypeOK
  <1>2. /\ worker'.job = j /\ worker'.unflushed = worker.unflushed /\ worker'.at = "notes"
        /\ worker'.processed = worker.processed \cup {worker.next}
      BY <1>0, <1>1 DEF PassNote, Worker
  <1>3. Policy[j] = "rename" => worker'.processed = worker.processed
      BY <1>0, <1>2 DEF PassNote, Passed
  <1>4. InRun /\ InRun' /\ SameRows /\ document' = document /\ IsFiniteSet(document')
      BY <1>2 DEF RepeatsInv, PassNote, InRun, SameRows
  <1> QED
      BY <1>0, <1>2, <1>3, <1>4, SameDocuments, RepeatsStay DEF SameRows

(* A document is made: if the note was made before, it is one of those     *)
(* ahead; if not, everything lost is from this run.                        *)
LEMMA MakeRepeats ==
    ASSUME RepeatsInv, IInv', MakeDocument
    PROVE  RepeatsInv'
  <1>0. PICK j \in Jobs : worker.job = j
      BY DEF RepeatsInv, IInv, RunOK, MakeDocument, InRun
  <1>1. PICK n \in Notes : n = worker.next
      BY DEF MakeDocument
  <1>2. worker \in Worker /\ importJob' = importJob /\ InRun /\ IsFiniteSet(document)
      BY DEF RepeatsInv, IInv, TypeOK, MakeDocument, InRun
  <1>3. PICK k \in 1..(Cardinality(worker.known) + 1) :
          /\ NumberFor(n, k) /\ <<SlugOf[n], k>> \notin PathsTaken
          /\ document' = document \cup {[path |-> <<SlugOf[n], k>>, job |-> j, note |-> n]}
          /\ worker' = [worker EXCEPT !.next = n + 1, !.processed = @ \cup {n},
                                      !.known = @ \cup {<<SlugOf[n], k>>}, !.unflushed = @ + 1,
                                      !.at = IF worker.unflushed + 1 = CheckpointEvery
                                             THEN "flush" ELSE "notes"]
      BY <1>0, <1>1 DEF MakeDocument
  <1> DEFINE new == [path |-> <<SlugOf[n], k>>, job |-> j, note |-> n]
  <1>4. /\ worker'.job = j /\ worker'.unflushed = worker.unflushed + 1
        /\ worker'.processed = worker.processed \cup {n} /\ InRun'
      BY <1>0, <1>2, <1>3 DEF Worker, InRun
  <1>5. new \notin document /\ new.job = j /\ new.note = n /\ new.path = <<SlugOf[n], k>>
      BY <1>3 DEF PathsTaken
  <1>6. document' = document \cup {new}
      BY <1>3
  <1>7. /\ n \notin worker.processed /\ worker.unflushed \in Nat
        /\ worker.unflushed + 1 <= CheckpointEvery
        /\ importJob[j].processed \subseteq worker.processed
        /\ \A m \in Notes : m < n => m \in worker.processed
    <2>1. n \notin worker.processed
        BY <1>1 DEF MakeDocument, Passed
    <2>2. worker.unflushed \in Nat /\ worker.unflushed < CheckpointEvery
        BY <1>2, CheckpointAssumption DEF Worker, MakeDocument, RepeatsInv, IInv, RunOK
    <2>3. /\ importJob[j].processed \subseteq worker.processed
          /\ \A m \in Notes : m < n => m \in worker.processed
        BY <1>0, <1>1, <1>2 DEF RepeatsInv, IInv, RunOK
    <2> QED
        BY <2>1, <2>2, <2>3, CheckpointAssumption
  <1> HIDE DEF new
  <1>8. IsFiniteSet(document')
      BY <1>2, <1>6, FS_AddElement
  <1>9. ASSUME NEW i \in Jobs, i # j
        PROVE  JobCounts(i)'
    <2>1. DocumentsOf(i)' = DocumentsOf(i)
        BY <1>5, <1>6, <1>9 DEF DocumentsOf
    <2>2. importJob'[i] = importJob[i]
        BY <1>2
    <2> QED
        BY <1>4, <1>9, <2>1, <2>2, JobStays
  <1>10. JobCounts(j)'
    <2>1. DocumentsOf(j)' = DocumentsOf(j) \cup {new} /\ new \notin DocumentsOf(j)
        BY <1>5, <1>6 DEF DocumentsOf
    <2>2. /\ IsFiniteSet(DocumentsOf(j)) /\ Cardinality(DocumentsOf(j)) \in Nat
          /\ Cardinality(DocumentsOf(j)') = Cardinality(DocumentsOf(j)) + 1
      <3>1. IsFiniteSet(DocumentsOf(j)) /\ Cardinality(DocumentsOf(j)) \in Nat
          BY <1>2, DocumentsCounted
      <3> QED
          BY <2>1, <3>1, FS_AddElement
    <2>3. Made(j)' = Made(j) \cup {n}
        BY <1>5, <2>1, MadeIs
    <2>4. /\ Made(j) \in SUBSET Notes /\ Lost(j) \in SUBSET Notes /\ Ahead(j) \in SUBSET Notes
          /\ Cardinality(Made(j)) \in Nat /\ Cardinality(Lost(j)) \in Nat
          /\ Cardinality(Ahead(j)) \in Nat
      <3>1. Made(j) \in SUBSET Notes /\ Lost(j) \in SUBSET Notes /\ Ahead(j) \in SUBSET Notes
          BY MadeIs
      <3> QED
          BY <3>1, Counted
    <2>5. JobCounts(j) /\ RunCounts(j) /\ importJob[j].runs > 0 /\ importJob[j].runs \in Nat
      <3>1. JobCounts(j) /\ RunCounts(j)
          BY DEF RepeatsInv, JobCounts
      <3>2. importJob[j].runs \in Nat
          BY InterruptionsAre DEF RepeatsInv
      <3> QED
          BY <1>0, <1>2, <3>1, <3>2 DEF RunCounts
    <2>6. CASE Policy[j] = "skip"
      <3>1. k = 1 /\ Policy[j] # "rename"
          BY <1>0, <1>3, <2>6 DEF NumberFor
      <3>2. \A d \in DocumentsOf(j)' : d.path = <<SlugOf[d.note], 1>>
          BY <1>5, <2>1, <2>5, <2>6, <3>1 DEF JobCounts, SkipsRepeatNothing
      <3>3. n \notin Made(j)
        <4>1. SUFFICES ASSUME NEW d \in DocumentsOf(j), d.note = n
                       PROVE  FALSE
            BY MadeIs
        <4>2. d.path = <<SlugOf[n], 1>> /\ d \in document
            BY <2>5, <2>6, <4>1 DEF JobCounts, SkipsRepeatNothing, DocumentsOf
        <4> QED
            BY <1>3, <3>1, <4>2 DEF PathsTaken
      <3>4. Cardinality(Made(j)') = Cardinality(Made(j)) + 1
          BY <2>3, <2>4, <3>3, OneMore
      <3>5. SkipsRepeatNothing(j)'
        <4>1. Cardinality(DocumentsOf(j)) <= Cardinality(Made(j))
            BY <2>5, <2>6 DEF JobCounts, SkipsRepeatNothing
        <4>2. Cardinality(DocumentsOf(j)') <= Cardinality(Made(j)')
            BY <2>2, <2>4, <3>4, <4>1
        <4> QED
            BY <3>2, <4>2 DEF SkipsRepeatNothing
      <3> QED
          BY <1>2, <2>5, <2>6, <3>1, <3>5 DEF JobCounts, RunCounts
    <2>7. CASE Policy[j] = "rename"
      <3>1. /\ LostComeFirst(j) /\ RepeatsCounted(j)
            /\ Fresh(j) \subseteq Made(j) /\ Cardinality(Fresh(j)) <= worker.unflushed
          BY <1>0, <1>2, <2>5, <2>7 DEF JobCounts, RunCounts
      <3>2. /\ n \notin Fresh(j) /\ Fresh(j)' = Fresh(j) \cup {n}
            /\ Fresh(j) \in SUBSET Notes /\ Cardinality(Fresh(j)) \in Nat
            /\ Cardinality(Fresh(j)') = Cardinality(Fresh(j)) + 1
        <4>1. n \notin Fresh(j) /\ Fresh(j)' = Fresh(j) \cup {n}
            BY <1>2, <1>4, <1>7 DEF Fresh
        <4>2. Fresh(j) \in SUBSET Notes
            BY <2>4, <3>1
        <4> QED
            BY <4>1, <4>2, Counted, OneMore
      <3>3. RunCounts(j)'
        <4>1. Fresh(j)' \subseteq Made(j)'
            BY <2>3, <3>1, <3>2
        <4>2. Cardinality(Fresh(j)') <= worker'.unflushed
            BY <1>4, <1>7, <3>1, <3>2
        <4> QED
            BY <1>2, <2>5, <4>1, <4>2 DEF RunCounts
      <3>4. Lost(j)' = (Made(j) \cup {n}) \ importJob[j].processed /\ n \in Lost(j)'
          BY <1>2, <1>7, <2>3 DEF Lost
      <3>5. Ahead(j) = Lost(j) \ worker.processed
            /\ Ahead(j)' = Lost(j)' \ (worker.processed \cup {n})
          BY <1>0, <1>2, <1>4 DEF Ahead
      <3>6. Interruptions(j)' = Interruptions(j) /\ CheckpointEvery * Interruptions(j) \in Nat
          BY <1>2, InterruptionsAre DEF Interruptions, RepeatsInv
      <3>7. CASE n \in Made(j)
        <4>1. Made(j)' = Made(j) /\ Lost(j)' = Lost(j)
            BY <2>3, <3>4, <3>7 DEF Lost
        <4>2. n \in Ahead(j) /\ Ahead(j)' = Ahead(j) \ {n}
            BY <1>7, <3>4, <3>5, <4>1
        <4>3. Cardinality(Ahead(j)') = Cardinality(Ahead(j)) - 1
            BY <2>4, <4>2, OneLess
        <4>4. LostComeFirst(j)'
            BY <1>2, <3>1, <4>1 DEF LostComeFirst
        <4>5. RepeatsCounted(j)'
            BY <2>2, <2>4, <3>1, <3>6, <4>1, <4>3 DEF RepeatsCounted
        <4> QED
            BY <1>2, <2>5, <2>7, <3>3, <4>4, <4>5 DEF JobCounts
      <3>8. CASE n \notin Made(j)
        <4>1. n \notin Lost(j) /\ Lost(j)' = Lost(j) \cup {n}
            BY <1>7, <3>4, <3>8 DEF Lost
        <4>2. Lost(j) \subseteq Fresh(j)
          <5>1. ASSUME NEW x \in Lost(j)
                PROVE  x \in Fresh(j)
            <6>1. x \in Notes /\ x \in Nat /\ n \in Nat /\ x # n /\ x \notin importJob[j].processed
                BY <2>4, <4>1, <5>1, NotesAreNumbers DEF Lost
            <6>2. CASE n < x
                BY <1>7, <3>1, <4>1, <5>1, <6>2 DEF LostComeFirst
            <6>3. CASE x < n
                BY <1>7, <6>1, <6>3 DEF Fresh
            <6> QED
                BY <6>1, <6>2, <6>3
          <5> QED
              BY <5>1
        <4>3. Cardinality(Made(j)') = Cardinality(Made(j)) + 1
              /\ Cardinality(Lost(j)') = Cardinality(Lost(j)) + 1
            BY <2>3, <2>4, <3>8, <4>1, OneMore
        <4>4. Cardinality(Lost(j)') <= CheckpointEvery
          <5>1. Cardinality(Lost(j)) <= Cardinality(Fresh(j))
              BY <3>2, <4>2, CountedPart
          <5> QED
              BY <1>7, <2>4, <3>1, <3>2, <4>3, <5>1, CheckpointAssumption
        <4>5. ASSUME NEW x \in Lost(j)', NEW m \in Notes \ importJob[j].processed, m < x
              PROVE  m \in Lost(j)'
          <5>1. CASE x = n
            <6>1. m \in Fresh(j)
                BY <1>7, <4>5, <5>1 DEF Fresh
            <6> QED
                BY <3>1, <4>1, <4>5, <6>1 DEF Lost
          <5>2. CASE x \in Lost(j)
              BY <3>1, <4>1, <4>5, <5>2 DEF LostComeFirst
          <5> QED
              BY <4>1, <4>5, <5>1, <5>2
        <4>6. LostComeFirst(j)'
            BY <1>2, <4>4, <4>5 DEF LostComeFirst
        <4>7. Ahead(j)' = Ahead(j)
            BY <3>5, <4>1
        <4>8. RepeatsCounted(j)'
            BY <2>2, <2>4, <3>1, <3>6, <4>3, <4>7 DEF RepeatsCounted
        <4> QED
            BY <1>2, <2>5, <2>7, <3>3, <4>6, <4>8 DEF JobCounts
      <3> QED
          BY <3>7, <3>8
    <2> QED
        BY <2>6, <2>7, PolicyAssumption
  <1> QED
      BY <1>8, <1>9, <1>10 DEF RepeatsInv

(* A checkpoint: what is ahead of the run is all that is lost.             *)
LEMMA CheckpointRepeats ==
    ASSUME RepeatsInv, IInv', NEW j \in Jobs, worker.job = j, InRun, document' = document,
           importJob'[j].processed = worker.processed, importJob'[j].runs = importJob[j].runs,
           \A i \in Jobs : i # j => importJob'[i] = importJob[i],
           \/ ~InRun'
           \/ worker'.job = j /\ worker'.processed = worker.processed /\ worker'.unflushed \in Nat
    PROVE  RepeatsInv'
  <1>1. ASSUME NEW i \in Jobs, i # j
        PROVE  JobCounts(i)'
    <2>1. importJob'[i] = importJob[i] /\ DocumentsOf(i)' = DocumentsOf(i)
        BY <1>1, SameDocuments
    <2> QED
        BY <1>1, <2>1, JobStays
  <1>2. JobCounts(j)'
    <2>1. DocumentsOf(j)' = DocumentsOf(j) /\ Made(j)' = Made(j)
          /\ Interruptions(j)' = Interruptions(j)
        BY SameDocuments, MadeSame DEF Interruptions
    <2>2. JobCounts(j) /\ RunCounts(j) /\ importJob[j].runs > 0
          /\ importJob[j].processed \subseteq worker.processed
        BY DEF RepeatsInv, JobCounts, RunCounts, IInv, RunOK
    <2>3. RunCounts(j)'
      <3>1. SUFFICES ASSUME InRun', worker'.job = j
                     PROVE  /\ importJob'[j].runs > 0
                            /\ Fresh(j)' \subseteq Made(j)'
                            /\ Cardinality(Fresh(j)') <= worker'.unflushed
          BY DEF RunCounts
      <3>2. Fresh(j)' = {} /\ worker'.unflushed \in Nat
          BY <3>1 DEF Fresh
      <3> QED
          BY <2>2, <3>2, NoneCounted
    <2>4. CASE Policy[j] = "skip"
        BY <2>1, <2>2, <2>3, <2>4 DEF JobCounts, SkipsRepeatNothing
    <2>5. CASE Policy[j] = "rename"
      <3>1. LostComeFirst(j) /\ RepeatsCounted(j)
          BY <2>2, <2>5 DEF JobCounts
      <3>2. Lost(j)' = Lost(j) \ worker.processed /\ Ahead(j) = Lost(j) \ worker.processed
          BY <2>1, <2>2 DEF Lost, Ahead
      <3>3. Ahead(j)' \subseteq Ahead(j)
          BY <3>2 DEF Ahead
      <3>4. /\ Lost(j)' \in SUBSET Lost(j) /\ Ahead(j)' \in SUBSET Ahead(j)
            /\ Lost(j) \in SUBSET Notes /\ Ahead(j) \in SUBSET Notes /\ Made(j) \in SUBSET Notes
            /\ Lost(j)' \in SUBSET Notes /\ Ahead(j)' \in SUBSET Notes
          BY <3>2, <3>3, MadeIs
      <3>5. /\ Cardinality(Lost(j)') <= Cardinality(Lost(j))
            /\ Cardinality(Ahead(j)') <= Cardinality(Ahead(j))
            /\ Cardinality(Lost(j)) \in Nat /\ Cardinality(Lost(j)') \in Nat
            /\ Cardinality(Ahead(j)) \in Nat /\ Cardinality(Ahead(j)') \in Nat
            /\ Cardinality(Made(j)) \in Nat
          BY <3>4, Counted, CountedPart
      <3>6. LostComeFirst(j)'
        <4>1. ASSUME NEW x \in Lost(j)', NEW m \in Notes \ worker.processed, m < x
              PROVE  m \in Lost(j)'
            BY <2>2, <3>1, <3>2, <4>1 DEF LostComeFirst
        <4>2. Cardinality(Lost(j)') <= CheckpointEvery
            BY <3>1, <3>5, CheckpointAssumption DEF LostComeFirst
        <4> QED
            BY <4>1, <4>2 DEF LostComeFirst
      <3>7. RepeatsCounted(j)'
        <4>1. /\ Cardinality(DocumentsOf(j)) \in Nat /\ CheckpointEvery * Interruptions(j) \in Nat
            BY DocumentsCounted, InterruptionsAre DEF RepeatsInv
        <4> QED
            BY <2>1, <3>1, <3>5, <4>1 DEF RepeatsCounted
      <3> QED
          BY <2>2, <2>3, <2>5, <3>6, <3>7 DEF JobCounts
    <2> QED
        BY <2>4, <2>5, PolicyAssumption
  <1> QED
      BY <1>1, <1>2 DEF RepeatsInv

LEMMA FlushRepeats ==
    ASSUME RepeatsInv, IInv', Flush \/ Finish
    PROVE  RepeatsInv'
  <1>0. InRun /\ document' = document
      BY DEF Flush, FlushDue, Finish, InRun
  <1>1. PICK j \in Jobs : worker.job = j
      BY <1>0 DEF RepeatsInv, IInv, RunOK
  <1>2. worker \in Worker /\ importJob \in [Jobs -> Job]
      BY DEF RepeatsInv, IInv, TypeOK
  <1>3. /\ importJob'[j].processed = worker.processed /\ importJob'[j].runs = importJob[j].runs
        /\ \A i \in Jobs : i # j => importJob'[i] = importJob[i]
      BY <1>1, <1>2 DEF Flush, Finish, Job
  <1>4. CASE Flush
    <2>1. worker'.job = j /\ worker'.processed = worker.processed /\ worker'.unflushed = 0
        BY <1>1, <1>2, <1>4 DEF Flush, Worker
    <2> QED
        BY <1>0, <1>1, <1>3, <2>1, CheckpointRepeats
  <1>5. CASE Finish
    <2>1. ~InRun'
        BY <1>5, IdleIsNoRun DEF Finish
    <2> QED
        BY <1>0, <1>1, <1>3, <2>1, CheckpointRepeats
  <1> QED
      BY <1>4, <1>5

LEMMA StepRepeats == RepeatsInv /\ [Next]_vars => RepeatsInv'
  <1> SUFFICES ASSUME RepeatsInv, [Next]_vars PROVE RepeatsInv'
      OBVIOUS
  <1>1. IInv'
      BY StepIInv DEF RepeatsInv
  <1>2. ASSUME NEW j \in Jobs,
               UploadCheck(j) \/ UploadCreate(j) \/ Retry(j) \/ HeartbeatAges(j) \/ PurgeDelete(j)
        PROVE  RepeatsInv'
      BY <1>1, <1>2, QuietRepeats
  <1>3. CASE Watchdog \/ PurgeRead \/ Boot \/ Recover \/ UNCHANGED vars
             \/ Find \/ Leave \/ LoopFails \/ Crash \/ RunFails
    <2>1. CASE Jobs = {}
      <3>1. document' = document
          BY <1>3 DEF Watchdog, PurgeRead, Boot, Recover,
              vars, Find, Leave, LoopFails, Crash, RunFails
      <3> QED
          BY <1>1, <2>1, <3>1 DEF RepeatsInv
    <2>2. CASE Jobs # {}
      <3>1. PICK j \in Jobs : TRUE
          BY <2>2
      <3> QED
          BY <1>1, <1>3, <3>1, QuietRepeats
    <2> QED
        BY <2>1, <2>2
  <1>4. ASSUME NEW s \in Slugs, UserCreates(s)
        PROVE  RepeatsInv'
      BY <1>1, <1>4, UserRepeats
  <1>5. CASE Claim
      BY <1>1, <1>5, ClaimRepeats
  <1>6. CASE PassNote
      BY <1>1, <1>6, PassNoteRepeats
  <1>7. CASE MakeDocument
      BY <1>1, <1>7, MakeRepeats
  <1>8. CASE Flush \/ Finish
      BY <1>1, <1>8, FlushRepeats
  <1> QED
      BY <1>2, <1>3, <1>4, <1>5, <1>6, <1>7, <1>8 DEF Next, Work

(* What is lost comes first and is no more than a checkpoint's worth, and  *)
(* what may yet be repeated is counted: in every reachable state.          *)
THEOREM LossesAreCounted == Spec => []RepeatsInv
  BY InitRepeats, StepRepeats, PTL DEF Spec

(* An import makes no more documents than notes, but for at most           *)
(* CheckpointEvery at each interruption, for any vault, policy, number of  *)
(* jobs and distance of checkpoints (vault.ts:6, routes.ts:145).           *)
THEOREM RepeatsBounded == Spec => []RepeatsAreBounded
  <1>1. RepeatsInv => RepeatsAreBounded
    <2> SUFFICES ASSUME RepeatsInv, NEW j \in Jobs
                 PROVE  Cardinality(DocumentsOf(j))
                          <= Cardinality(Made(j)) + CheckpointEvery * Interruptions(j)
        BY DEF RepeatsAreBounded, DocumentsOf, Made
    <2>1. /\ Cardinality(Made(j)) \in Nat /\ Cardinality(Ahead(j)) \in Nat
          /\ Cardinality(DocumentsOf(j)) \in Nat
        BY MadeIs, Counted, DocumentsCounted DEF RepeatsInv
    <2>2. CheckpointEvery * Interruptions(j) \in Nat
        BY InterruptionsAre DEF RepeatsInv
    <2>3. CASE Policy[j] = "skip"
      <3>1. Cardinality(DocumentsOf(j)) <= Cardinality(Made(j))
          BY <2>3 DEF RepeatsInv, JobCounts, SkipsRepeatNothing
      <3> QED
          BY <2>1, <2>2, <3>1
    <2>4. CASE Policy[j] = "rename"
      <3>1. Cardinality(DocumentsOf(j)) + Cardinality(Ahead(j))
              <= Cardinality(Made(j)) + CheckpointEvery * Interruptions(j)
          BY <2>4 DEF RepeatsInv, JobCounts, RepeatsCounted
      <3> QED
          BY <2>1, <2>2, <3>1
    <2> QED
        BY <2>3, <2>4, PolicyAssumption
  <1> QED
      BY <1>1, LossesAreCounted, PTL

-----------------------------------------------------------------------------
(***************************************************************************)
(* Imports of agents: the folders and documents by their paths.            *)
(***************************************************************************)
CONSTANTS Requests, Files, Trees, Contents, None, Scopes, Starts, MaxVersion, MaxOthers, Ops, Segments

VARIABLES folder, doc, access, scope, request, others, made, wrote, elsewhere, foretold

Agents == INSTANCE AgentImports

Tools == {"import", "upsert", "plan", "create"}

(* Paths name a document below a folder, a tree has a file, and a workspace *)
(* starts with the folders above its folders.                               *)
AgentsGiven ==
    /\ Files \subseteq [path : Seq(Segments), content : Contents, bad : BOOLEAN]
    /\ \A f \in Files : Len(f.path) >= 2
    /\ Trees \subseteq Seq(Files) \ {<<>>}
    /\ \A s \in Starts : /\ \A p \in s.folders : Agents!Above(p) \subseteq s.folders
                         /\ DOMAIN s.docs \subseteq Agents!Paths
                         /\ \A p \in DOMAIN s.docs : s.docs[p] \in Contents
    /\ None \notin Nat /\ None \notin Agents!Modes \cup Tools
    /\ None \notin [content : Contents, version : Nat]

LiveDocument == [content : Contents, version : Nat]
Verdicts == {"created", "updated", "skipped", "failed"}

Call == [at : {"idle", "predict", "lookup", "foresee", "update", "create", "insert", "done"},
         tool : {None} \cup Tools, mode : Agents!Modes \cup {None},
         files : Seq(Files), pos : Nat, createFolders : BOOLEAN, allowDraft : BOOLEAN,
         base : Nat \cup {None}, seen : LiveDocument \cup {None}, folders : SUBSET Agents!Folders,
         outcome : Seq(Verdicts)]

ImportTypes ==
    /\ doc \in [Agents!Paths -> LiveDocument \cup {None}]
    /\ request \in [Requests -> Call]
    /\ others \in Nat
    /\ DOMAIN wrote = Requests /\ DOMAIN made = Requests /\ DOMAIN elsewhere = Requests

(* The file a call is at, and what its stage says of it.                   *)
At(q) == q.files[q.pos]

CallOK(q) ==
    /\ q.pos = Len(q.outcome) + 1
    /\ q.at = "idle" => q = Agents!Idle
    /\ q.at = "done" => q.pos = Len(q.files) + 1
    /\ q.at \notin {"idle", "done"} => q.pos <= Len(q.files)
    /\ q.tool # "import" => q.at \notin {"predict", "foresee"} /\ Len(q.files) <= 1
    /\ q.mode = "dry_run" => q.tool = "import" /\ q.at \notin {"update", "create", "insert"}
    /\ q.mode # "dry_run" => q.at # "foresee"
    /\ q.mode = None => q.at \in {"idle", "insert", "done"}
    /\ q.tool = "import" => /\ q.createFolders /\ q.at # "insert"
                            /\ q.at # "update" => q.base = None
                            /\ q.at \notin {"predict", "done"} => ~At(q).bad

WrittenBy(q) == {<<i, q.files[i].path>> :
                    i \in {j \in DOMAIN q.outcome : q.outcome[j] \in {"created", "updated"}}}
OfFailed(q, p) ==
    \E i \in DOMAIN q.outcome : q.outcome[i] = "failed" /\ p \in Agents!Above(q.files[i].path)

(* What a request did is what its report will say; a folder it put down as *)
(* created and did not make was made elsewhere, or is still to be made.    *)
ReportOK(r, q) ==
    /\ q.at = "idle" => made[r] = {} /\ wrote[r] = {}
    /\ q.mode # "dry_run" =>
         /\ wrote[r] = WrittenBy(q)
         /\ made[r] \subseteq q.folders
         /\ \A p \in q.folders \ made[r] :
               \/ p \in elsewhere[r]
               \/ OfFailed(q, p)
               \/ q.at \in {"lookup", "create"} /\ p \in Agents!Above(At(q).path) /\ p \notin folder

(* As long as nobody else has changed anything, agents are as at first.    *)
FreshOK == others = 0 => access \in {"admin", "editor"} /\ scope = <<>>

(* What a dry run says of a file now, and the folders it puts down.        *)
Verdict(f) == IF f.bad THEN "failed"
              ELSE IF doc[f.path] = None THEN "created"
              ELSE IF doc[f.path].content = f.content THEN "skipped" ELSE "updated"
Needed(files, n) ==
    UNION {Agents!Missing(files[i].path) : i \in {j \in n..Len(files) : ~files[j].bad}}
PutDown(q) ==
    q.at \in {"lookup", "foresee", "update", "create"} =>
        Agents!Missing(At(q).path) \subseteq q.folders
OnlyRuns(r, b) == \A k \in Requests \ {r, b} : request[k].at = "idle"

DryCall(q) ==
    /\ \A i \in DOMAIN q.outcome : q.outcome[i] = Verdict(q.files[i])
    /\ q.folders \cup Needed(q.files, q.pos) = Needed(q.files, 1)
    /\ PutDown(q)
    /\ q.at = "foresee" => doc[At(q).path] = None
Dry(r, q) == others = 0 /\ q.mode = "dry_run" /\ OnlyRuns(r, r)
DryOK(r) == Dry(r, request[r]) => DryCall(request[r])

(* A dry run that is remembered says what it would say now.                *)
Foretells(o) ==
    /\ \A i \in DOMAIN o.files : o.outcome[i] = Verdict(o.files[i])
    /\ o.folders = Needed(o.files, 1)
ForetoldOK ==
    foretold # None =>
        /\ others = 0 /\ foretold.by \in Requests
        /\ request[foretold.by].at = "done" /\ request[foretold.by].mode = "dry_run"
        /\ foretold.files \in Seq(Files)
        /\ OnlyRuns(foretold.by, foretold.by) => Foretells(foretold)

(* An import of the files of a dry run: the files it is done with had the  *)
(* outcome foretold, and those to come will have it.                       *)
Alone(files, i) == \A j \in DOMAIN files \ {i} : files[j].path # files[i].path
Excused(q, i) ==
    /\ q.outcome[i] = "failed"
    /\ \/ foretold.outcome[i] = "created" /\ access # "admin"
       \/ /\ foretold.outcome[i] = "updated"
          /\ Agents!StatusOf(doc[q.files[i].path].content) # "canonical"
AsForetold(q, i) == q.outcome[i] = foretold.outcome[i] \/ Excused(q, i)
TrackCall(q) ==
    /\ \A i \in DOMAIN q.files : Alone(q.files, i) =>
         /\ i < q.pos => AsForetold(q, i)
         /\ i >= q.pos => foretold.outcome[i] = Verdict(q.files[i])
    /\ q.folders \cup Needed(q.files, q.pos) = foretold.folders
    /\ PutDown(q)
    /\ q.at = "create" => doc[At(q).path] = None
    /\ q.at = "update" => /\ doc[At(q).path] # None
                          /\ doc[At(q).path].content # At(q).content
                          /\ doc[At(q).path].version = q.base
Tracks(r, q) ==
    /\ foretold # None /\ q.tool = "import" /\ q.mode = "upsert"
    /\ foretold.files = q.files /\ OnlyRuns(r, foretold.by)
TrackOK(r) == Tracks(r, request[r]) => TrackCall(request[r])

ImportsInv ==
    /\ ImportTypes /\ Agents!TreeOK /\ FreshOK /\ ForetoldOK
    /\ \A r \in Requests : /\ CallOK(request[r]) /\ ReportOK(r, request[r])
                           /\ DryOK(r) /\ TrackOK(r)

-----------------------------------------------------------------------------
LEMMA AboveAbove ==
    ASSUME NEW p \in Seq(Segments), NEW k \in Agents!Above(p)
    PROVE  Agents!Above(k) \subseteq Agents!Above(p)
  <1>1. PICK n \in 1..(Len(p) - 1) : k = SubSeq(p, 1, n)
      BY DEF Agents!Above
  <1>2. k \in Seq(Segments) /\ Len(k) = n /\ \A i \in 1..n : k[i] = p[i]
      BY <1>1
  <1>3. ASSUME NEW m \in 1..(n - 1) PROVE SubSeq(k, 1, m) = SubSeq(p, 1, m)
      BY <1>1, <1>2, <1>3
  <1>4. ASSUME NEW x \in Agents!Above(k) PROVE x \in Agents!Above(p)
    <2>1. PICK m \in 1..(n - 1) : x = SubSeq(k, 1, m)
        BY <1>2, <1>4 DEF Agents!Above
    <2>2. m \in 1..(Len(p) - 1) /\ x = SubSeq(p, 1, m)
        BY <1>1, <1>3, <2>1
    <2> QED
        BY <2>2 DEF Agents!Above
  <1> QED
      BY <1>4

LEMMA FilePaths ==
    ASSUME AgentsGiven, NEW f \in Files
    PROVE  /\ f.path \in Agents!Paths /\ f.path \in Seq(Segments) /\ f.content \in Contents
           /\ f.bad \in BOOLEAN
           /\ Agents!FolderOf(f.path) \in Agents!Above(f.path)
           /\ Agents!Above(f.path) \subseteq Agents!Folders
  <1>1. /\ f.path \in Agents!Paths /\ f.path \in Seq(Segments) /\ Len(f.path) >= 2
        /\ f.content \in Contents
        /\ f.bad \in BOOLEAN
      BY DEF AgentsGiven, Agents!Paths
  <1>2. Agents!FolderOf(f.path) \in Agents!Above(f.path)
    <2>1. Len(f.path) - 1 \in 1..(Len(f.path) - 1)
        BY <1>1
    <2> QED
        BY <1>1, <2>1 DEF Agents!FolderOf, Agents!Front, Agents!Above
  <1> QED
      BY <1>1, <1>2 DEF Agents!Folders

LEMMA PathIsOfFile == ASSUME NEW p \in Agents!Paths PROVE \E f \in Files : p = f.path
  BY DEF Agents!Paths

(* The document of a live path, and the folders above it.                  *)
LEMMA Settled ==
    ASSUME AgentsGiven, ImportTypes, Agents!TreeOK, NEW p \in Agents!Paths, doc[p] # None
    PROVE  doc[p] \in LiveDocument /\ Agents!Above(p) \subseteq folder
  <1>1. PICK f \in Files : p = f.path
      BY PathIsOfFile
  <1>2. /\ Agents!FolderOf(p) \in folder /\ Agents!FolderOf(p) \in Agents!Above(p)
        /\ p \in Seq(Segments) /\ Len(p) >= 2
      BY <1>1, FilePaths DEF Agents!TreeOK, AgentsGiven
  <1>3. \A x \in Agents!Above(p) : x = Agents!FolderOf(p) \/ x \in Agents!Above(Agents!FolderOf(p))
    <2>1. Agents!FolderOf(p) = SubSeq(p, 1, Len(p) - 1)
        BY DEF Agents!FolderOf, Agents!Front
    <2>2. Agents!FolderOf(p) \in Seq(Segments) /\ Len(Agents!FolderOf(p)) = Len(p) - 1
          /\ \A i \in 1..(Len(p) - 1) : Agents!FolderOf(p)[i] = p[i]
        BY <1>2, <2>1
    <2>3. ASSUME NEW n \in 1..(Len(p) - 1), n # Len(p) - 1
          PROVE SubSeq(p, 1, n) \in Agents!Above(Agents!FolderOf(p))
      <3>1. n \in 1..(Len(Agents!FolderOf(p)) - 1)
          BY <1>2, <2>2, <2>3
      <3>2. SubSeq(Agents!FolderOf(p), 1, n) = SubSeq(p, 1, n)
          BY <1>2, <2>2, <2>3, <3>1
      <3> QED
          BY <3>1, <3>2 DEF Agents!Above
    <2> QED
        BY <2>1, <2>3 DEF Agents!Above
  <1> QED
      BY <1>2, <1>3 DEF Agents!TreeOK, ImportTypes

LEMMA CallIs ==
    ASSUME AgentsGiven, ImportsInv, NEW r \in Requests
    PROVE  /\ request[r] \in Call /\ CallOK(request[r]) /\ ReportOK(r, request[r])
           /\ request[r].at \notin {"idle", "done"} =>
                /\ At(request[r]) \in Files /\ At(request[r]) = Agents!File(r)
                /\ request[r].pos \in DOMAIN request[r].files
  <1>1. request[r] \in Call /\ CallOK(request[r]) /\ ReportOK(r, request[r])
      BY DEF ImportsInv, ImportTypes
  <1>2. PICK q \in Call : q = request[r]
      BY <1>1
  <1>3. q.files \in Seq(Files) /\ q.pos \in Nat /\ q.outcome \in Seq(Verdicts)
      BY <1>2 DEF Call
  <1>4. ASSUME q.at \notin {"idle", "done"} PROVE q.pos \in DOMAIN q.files /\ At(q) \in Files
    <2>1. q.pos = Len(q.outcome) + 1 /\ q.pos <= Len(q.files)
        BY <1>1, <1>2, <1>4 DEF CallOK
    <2> QED
        BY <1>3, <2>1 DEF At
  <1> QED
      BY <1>1, <1>2, <1>4 DEF At, Agents!File

-----------------------------------------------------------------------------
(* The end of a file.                                                      *)
Ended(q, o, F) == [q EXCEPT !.outcome = Append(@, o), !.pos = @ + 1, !.seen = None,
                            !.folders = @ \cup F,
                            !.at = IF q.pos = Len(q.files) THEN "done"
                                   ELSE IF q.tool = "import" THEN "predict" ELSE "lookup"]

LEMMA EndedFields ==
    ASSUME NEW q \in Call, NEW o \in Verdicts, NEW F \in SUBSET Agents!Folders, NEW y,
           y = Ended(q, o, F)
    PROVE  /\ y \in Call
           /\ y.tool = q.tool /\ y.mode = q.mode /\ y.files = q.files /\ y.base = q.base
           /\ y.createFolders = q.createFolders
           /\ y.outcome = Append(q.outcome, o) /\ y.pos = q.pos + 1 /\ y.folders = q.folders \cup F
           /\ y.at = IF q.pos = Len(q.files) THEN "done"
                     ELSE IF q.tool = "import" THEN "predict" ELSE "lookup"
  <1>1. PICK at \in {"done", "predict", "lookup"} :
          at = IF q.pos = Len(q.files) THEN "done"
               ELSE IF q.tool = "import" THEN "predict" ELSE "lookup"
      OBVIOUS
  <1>2. PICK outcome \in Seq(Verdicts) : outcome = Append(q.outcome, o)
    <2>1. q.outcome \in Seq(Verdicts)
        BY DEF Call
    <2>2. Append(q.outcome, o) \in Seq(Verdicts)
        BY <2>1
    <2> QED
        BY <2>2
  <1>3. PICK folders \in SUBSET Agents!Folders : folders = q.folders \cup F
      BY DEF Call
  <1>4. PICK pos \in Nat : pos = q.pos + 1
      BY DEF Call
  <1>5. y = [at |-> at, tool |-> q.tool, mode |-> q.mode, files |-> q.files, pos |-> pos,
             createFolders |-> q.createFolders, allowDraft |-> q.allowDraft, base |-> q.base,
             seen |-> None, folders |-> folders, outcome |-> outcome]
      BY <1>1, <1>2, <1>3, <1>4 DEF Call, Ended
  <1>6. y \in Call
      BY <1>5 DEF Call
  <1> QED
      BY <1>1, <1>2, <1>3, <1>4, <1>5, <1>6

(* An outcome more.                                                        *)
LEMMA OutcomeGrows ==
    ASSUME NEW s \in Seq(Verdicts), NEW o \in Verdicts, NEW t, t = Append(s, o),
           NEW n \in Nat, n = Len(s) + 1
    PROVE  /\ DOMAIN t = DOMAIN s \cup {n} /\ n \notin DOMAIN s /\ t[n] = o
           /\ \A i \in DOMAIN s : t[i] = s[i]
  OBVIOUS

(* A call stays in order when a file of it ends.                           *)
LEMMA EndedCall ==
    ASSUME NEW q \in Call, CallOK(q), q.at \notin {"idle", "done"},
           q.tool = "import" => q.base = None,
           NEW o \in Verdicts, NEW F \in SUBSET Agents!Folders, NEW y, y = Ended(q, o, F)
    PROVE  CallOK(y) /\ y.at \in {"predict", "done"} /\ q.pos \in DOMAIN q.files
  <1>1. /\ y.tool = q.tool /\ y.mode = q.mode /\ y.files = q.files /\ y.base = q.base
        /\ y.createFolders = q.createFolders
        /\ y.outcome = Append(q.outcome, o) /\ y.pos = q.pos + 1
        /\ y.at = IF q.pos = Len(q.files) THEN "done"
                  ELSE IF q.tool = "import" THEN "predict" ELSE "lookup"
      BY EndedFields
  <1>2. q.files \in Seq(Files) /\ q.pos \in Nat /\ q.outcome \in Seq(Verdicts)
      BY DEF Call
  <1>3. q.pos = Len(q.outcome) + 1 /\ q.pos <= Len(q.files) /\ Len(y.outcome) = Len(q.outcome) + 1
      BY <1>1, <1>2 DEF CallOK
  <1>4. CASE q.pos = Len(q.files)
      BY <1>1, <1>2, <1>3, <1>4 DEF CallOK
  <1>5. CASE q.pos # Len(q.files)
    <2>1. Len(q.files) > 1
        BY <1>2, <1>3, <1>5
    <2>2. q.tool = "import"
        BY <1>2, <2>1 DEF CallOK
    <2>3. y.at = "predict" /\ y.pos <= Len(y.files)
        BY <1>1, <1>2, <1>3, <1>5, <2>2
    <2>4. q.mode # None /\ q.createFolders
        BY <2>2 DEF CallOK
    <2> QED
        BY <1>1, <1>2, <1>3, <2>2, <2>3, <2>4 DEF CallOK
  <1> QED
      BY <1>4, <1>5

LEMMA EndedReport ==
    ASSUME NEW q \in Call, CallOK(q), q.at \notin {"idle", "done"},
           q.tool = "import" => q.base = None,
           NEW o \in Verdicts, NEW F \in SUBSET Agents!Folders, NEW y, y = Ended(q, o, F),
           NEW r \in Requests,
           q.mode # "dry_run" =>
             /\ wrote[r] = WrittenBy(q)
             /\ wrote'[r] = IF o \in {"created", "updated"} THEN wrote[r] \cup {<<q.pos, At(q).path>>}
                            ELSE wrote[r]
             /\ made'[r] \subseteq q.folders \cup F
             /\ \A p \in (q.folders \cup F) \ made'[r] :
                  \/ p \in elsewhere'[r] \/ OfFailed(q, p)
                  \/ o = "failed" /\ p \in Agents!Above(At(q).path)
    PROVE  ReportOK(r, y)'
  <1>1. /\ y.mode = q.mode /\ y.files = q.files /\ y.folders = q.folders \cup F
        /\ y.outcome = Append(q.outcome, o)
      BY EndedFields
  <1>2. y.at # "idle"
      BY EndedCall
  <1>3. q.outcome \in Seq(Verdicts) /\ q.pos = Len(q.outcome) + 1
      BY DEF Call, CallOK
  <1>4. /\ DOMAIN y.outcome = DOMAIN q.outcome \cup {q.pos} /\ q.pos \notin DOMAIN q.outcome
        /\ y.outcome[q.pos] = o
        /\ \A i \in DOMAIN q.outcome : y.outcome[i] = q.outcome[i]
    <2>1. q.pos \in Nat
        BY DEF Call
    <2> QED
        BY <1>1, <1>3, <2>1, OutcomeGrows
  <1>5. WrittenBy(y) = IF o \in {"created", "updated"} THEN WrittenBy(q) \cup {<<q.pos, At(q).path>>}
                       ELSE WrittenBy(q)
      BY <1>1, <1>4 DEF WrittenBy, At
  <1>6. \A p : OfFailed(q, p) => OfFailed(y, p)
      BY <1>1, <1>4 DEF OfFailed
  <1>7. \A p : o = "failed" /\ p \in Agents!Above(At(q).path) => OfFailed(y, p)
      BY <1>1, <1>4 DEF OfFailed, At
  <1> QED
      BY <1>1, <1>2, <1>5, <1>6, <1>7 DEF ReportOK

LEMMA NeededNext ==
    ASSUME NEW files, NEW n \in Nat, n \in DOMAIN files, files \in Seq(Files)
    PROVE  Needed(files, n) = Needed(files, n + 1) \cup
                              (IF files[n].bad THEN {} ELSE Agents!Missing(files[n].path))
  <1>1. n..Len(files) = {n} \cup ((n + 1)..Len(files)) /\ n \notin (n + 1)..Len(files)
      OBVIOUS
  <1> QED
      BY <1>1 DEF Needed

LEMMA NeededNone ==
    ASSUME NEW files \in Seq(Files) PROVE Needed(files, Len(files) + 1) = {}
  <1>1. (Len(files) + 1)..Len(files) = {}
      OBVIOUS
  <1> QED
      BY <1>1 DEF Needed

-----------------------------------------------------------------------------
(* A file of a dry run ends with what is said of it.                       *)
LEMMA EndedDry ==
    ASSUME AgentsGiven,
           NEW q \in Call, CallOK(q), q.at \notin {"idle", "done"}, q.mode = "dry_run", DryCall(q),
           NEW o \in Verdicts, NEW F \in SUBSET Agents!Folders, NEW y, y = Ended(q, o, F),
           o = Verdict(At(q)),
           At(q).bad => F = {},
           ~At(q).bad => F \subseteq Agents!Missing(At(q).path)
               /\ Agents!Missing(At(q).path) \subseteq q.folders \cup F
    PROVE  DryCall(y)
  <1>1. q.tool = "import" /\ q.base = None
      BY DEF CallOK
  <1>2. /\ y.files = q.files /\ y.folders = q.folders \cup F
        /\ y.outcome = Append(q.outcome, o) /\ y.pos = q.pos + 1
      BY EndedFields
  <1>3. y.at \in {"predict", "done"} /\ q.pos \in DOMAIN q.files
      BY <1>1, EndedCall
  <1>4. /\ q.outcome \in Seq(Verdicts) /\ q.pos = Len(q.outcome) + 1 /\ q.pos \in Nat
        /\ q.files \in Seq(Files)
      BY DEF Call, CallOK
  <1>5. \A i \in DOMAIN y.outcome : y.outcome[i] = Verdict(y.files[i])
    <2>1. /\ DOMAIN y.outcome = DOMAIN q.outcome \cup {q.pos} /\ y.outcome[q.pos] = o
          /\ \A i \in DOMAIN q.outcome : y.outcome[i] = q.outcome[i]
      <3>1. q.outcome \in Seq(Verdicts) /\ q.pos = Len(q.outcome) + 1 /\ q.pos \in Nat
          BY <1>4
      <3>2. y.outcome = Append(q.outcome, o)
          BY <1>2
      <3> QED
          BY <3>1, <3>2, OutcomeGrows
    <2>2. \A i \in DOMAIN q.outcome : q.outcome[i] = Verdict(q.files[i])
        BY DEF DryCall
    <2> QED
        BY <1>2, <2>1, <2>2 DEF At
  <1>6. y.folders \cup Needed(y.files, y.pos) = Needed(y.files, 1)
    <2>1. Needed(q.files, q.pos) = Needed(q.files, q.pos + 1) \cup
                                   (IF At(q).bad THEN {} ELSE Agents!Missing(At(q).path))
        BY <1>3, <1>4, NeededNext DEF At
    <2>2. q.folders \cup Needed(q.files, q.pos) = Needed(q.files, 1)
        BY DEF DryCall
    <2> QED
        BY <1>2, <2>1, <2>2
  <1>7. PutDown(y) /\ y.at # "foresee"
      BY <1>3 DEF PutDown
  <1> QED
      BY <1>5, <1>6, <1>7 DEF DryCall

(* A file of an import ends as a dry run foretold.                         *)
LEMMA EndedTrack ==
    ASSUME AgentsGiven,
           NEW q \in Call, CallOK(q), q.at \notin {"idle", "done"}, TrackCall(q), q.tool = "import",
           NEW x \in Call, CallOK(x), x.at = q.at, x.tool = "import", x.base = None,
           x.files = q.files, x.pos = q.pos, x.outcome = q.outcome, x.folders = q.folders,
           NEW o \in Verdicts, NEW F \in SUBSET Agents!Folders, NEW y, y = Ended(x, o, F),
           UNCHANGED <<foretold, access>>,
           \A i \in DOMAIN q.files : q.files[i].path # At(q).path =>
             doc'[q.files[i].path] = doc[q.files[i].path],
           Alone(q.files, q.pos) => \/ o = foretold.outcome[q.pos]
                                    \/ o = "failed" /\ Excused(y, q.pos)',
           q.folders \cup F \cup Needed(q.files, q.pos + 1)' = foretold.folders
    PROVE  TrackCall(y)'
  <1>1. /\ y.files = x.files /\ y.folders = x.folders \cup F
        /\ y.outcome = Append(x.outcome, o) /\ y.pos = x.pos + 1
      BY EndedFields
  <1>2. /\ y.files = q.files /\ y.folders = q.folders \cup F
        /\ y.outcome = Append(q.outcome, o) /\ y.pos = q.pos + 1
      BY <1>1
  <1>3. y.at \in {"predict", "done"} /\ q.pos \in DOMAIN q.files
    <2>1. y.at \in {"predict", "done"} /\ x.pos \in DOMAIN x.files
        BY EndedCall
    <2> QED
        BY <2>1
  <1>4. /\ q.outcome \in Seq(Verdicts) /\ q.pos = Len(q.outcome) + 1 /\ q.pos \in Nat
        /\ q.files \in Seq(Files)
      BY DEF Call, CallOK
  <1>5. /\ DOMAIN y.outcome = DOMAIN q.outcome \cup {q.pos} /\ y.outcome[q.pos] = o
        /\ \A i \in DOMAIN q.outcome : y.outcome[i] = q.outcome[i]
    <2>1. q.outcome \in Seq(Verdicts) /\ q.pos = Len(q.outcome) + 1 /\ q.pos \in Nat
        BY <1>4
    <2>2. y.outcome = Append(q.outcome, o)
        BY <1>2
    <2> QED
        BY <2>1, <2>2, OutcomeGrows
  <1>6. ASSUME NEW i \in DOMAIN y.files, Alone(y.files, i)
        PROVE  /\ i < y.pos => AsForetold(y, i)'
               /\ i >= y.pos => foretold'.outcome[i] = Verdict(y.files[i])'
    <2>1. i \in Nat /\ i \in DOMAIN q.files /\ Alone(q.files, i)
        BY <1>2, <1>4, <1>6
    <2>2. /\ i < q.pos => AsForetold(q, i)
          /\ i >= q.pos => foretold.outcome[i] = Verdict(q.files[i])
        BY <2>1 DEF TrackCall
    <2>3. CASE i = q.pos
      <3>1. i < y.pos
          BY <1>2, <1>4, <2>3
      <3>2. Alone(q.files, q.pos)
          BY <2>1, <2>3
      <3>3. AsForetold(y, i)'
        <4>1. CASE o = foretold.outcome[q.pos]
            BY <1>5, <2>3, <4>1 DEF AsForetold
        <4>2. CASE Excused(y, q.pos)'
            BY <2>3, <4>2 DEF AsForetold
        <4> QED
            BY <3>2, <4>1, <4>2
      <3> QED
          BY <1>2, <1>4, <2>1, <3>1, <3>3
    <2>4. CASE i # q.pos
      <3>1. doc'[q.files[i].path] = doc[q.files[i].path]
          BY <1>3, <2>1, <2>4 DEF Alone, At
      <3>2. Verdict(q.files[i])' = Verdict(q.files[i])
          BY <3>1 DEF Verdict
      <3>3. CASE i < q.pos
        <4>1. i \in DOMAIN q.outcome /\ i < y.pos
            BY <1>2, <1>4, <2>1, <3>3
        <4>2. y.outcome[i] = q.outcome[i]
            BY <1>5, <4>1
        <4>3. AsForetold(y, i)'
            BY <1>2, <2>2, <3>1, <3>3, <4>2 DEF AsForetold, Excused
        <4> QED
            BY <1>2, <1>4, <2>1, <4>1, <4>3
      <3>4. CASE i > q.pos
        <4>1. foretold.outcome[i] = Verdict(q.files[i])
            BY <1>4, <2>1, <2>2, <3>4
        <4> QED
            BY <1>2, <1>4, <2>1, <3>2, <3>4, <4>1
      <3> QED
          BY <1>4, <2>1, <2>4, <3>3, <3>4
    <2> QED
        BY <2>3, <2>4
  <1>7. (y.folders \cup Needed(y.files, y.pos) = foretold.folders)'
      BY <1>2
  <1>8. PutDown(y)'
      BY <1>3 DEF PutDown
  <1> QED
      BY <1>3, <1>6, <1>7, <1>8 DEF TrackCall

-----------------------------------------------------------------------------
(* What is said of a call depends on folders and documents, and on what    *)
(* was foretold.                                                           *)
LEMMA TablesSame ==
    ASSUME UNCHANGED <<folder, doc>>
    PROVE  /\ \A f : Verdict(f)' = Verdict(f)
           /\ \A p : Agents!Missing(p)' = Agents!Missing(p)
           /\ \A files, n : Needed(files, n)' = Needed(files, n)
           /\ \A q : DryCall(q)' <=> DryCall(q)
           /\ UNCHANGED <<foretold, access>> => \A q : TrackCall(q)' <=> TrackCall(q)
  <1>1. \A f : Verdict(f)' = Verdict(f)
      BY DEF Verdict
  <1>2. \A p : Agents!Missing(p)' = Agents!Missing(p)
      BY DEF Agents!Missing
  <1>3. \A files, n : Needed(files, n)' = Needed(files, n)
      BY <1>2 DEF Needed
  <1>4. ASSUME NEW q PROVE DryCall(q)' <=> DryCall(q)
      BY <1>1, <1>2, <1>3 DEF DryCall, PutDown
  <1>5. ASSUME UNCHANGED <<foretold, access>>, NEW q PROVE TrackCall(q)' <=> TrackCall(q)
      BY <1>1, <1>2, <1>3, <1>5 DEF TrackCall, PutDown, AsForetold, Excused
  <1> QED
      BY <1>1, <1>2, <1>3, <1>4, <1>5

-----------------------------------------------------------------------------
(* A step of one request: for the others, only the folders may grow, and   *)
(* those are made elsewhere.                                               *)
LEMMA RequestStep ==
    ASSUME AgentsGiven, ImportsInv, NEW r \in Requests, request[r].at # "done",
           NEW y \in Call, CallOK(y), y.at # "idle", request' = [request EXCEPT ![r] = y],
           UNCHANGED <<access, scope, others, foretold>>,
           DOMAIN wrote' = Requests, DOMAIN made' = Requests, DOMAIN elsewhere' = Requests,
           \A k \in Requests \ {r} : /\ made'[k] = made[k] /\ wrote'[k] = wrote[k]
                                     /\ elsewhere[k] \subseteq elsewhere'[k]
                                     /\ folder' \ folder \subseteq elsewhere'[k],
           doc' \in [Agents!Paths -> LiveDocument \cup {None}], Agents!TreeOK', ReportOK(r, y)',
           Dry(r, y) => DryCall(y)', Tracks(r, y) => TrackCall(y)'
    PROVE  ImportsInv'
  <1>1. /\ ImportTypes /\ FreshOK /\ ForetoldOK
        /\ \A k \in Requests : CallOK(request[k]) /\ ReportOK(k, request[k])
      BY DEF ImportsInv
  <1>2. ImportTypes'
      BY <1>1 DEF ImportTypes
  <1>3. /\ request'[r] = y /\ \A k \in Requests \ {r} : request'[k] = request[k]
      BY <1>1 DEF ImportTypes
  <1>4. FreshOK'
      BY <1>1 DEF FreshOK
  <1>5. foretold # None => foretold.by # r /\ foretold.by \in Requests
      BY <1>1 DEF ForetoldOK
  <1>6. ForetoldOK'
    <2>1. foretold # None => ~OnlyRuns(foretold.by, foretold.by)'
        BY <1>3, <1>5 DEF OnlyRuns
    <2>2. foretold # None => request'[foretold.by] = request[foretold.by]
        BY <1>3, <1>5
    <2> QED
        BY <1>1, <2>1, <2>2 DEF ForetoldOK
  <1>7. CallOK(request[r])' /\ ReportOK(r, request[r])' /\ DryOK(r)' /\ TrackOK(r)'
    <2>1. \A b : OnlyRuns(r, b)' <=> OnlyRuns(r, b)
        BY <1>3 DEF OnlyRuns
    <2>2. (Dry(r, y)' <=> Dry(r, y)) /\ (Tracks(r, y)' <=> Tracks(r, y))
        BY <2>1 DEF Dry, Tracks
    <2> QED
        BY <1>3, <2>2 DEF DryOK, TrackOK
  <1>8. ASSUME NEW k \in Requests \ {r}
        PROVE  CallOK(request[k])' /\ ReportOK(k, request[k])' /\ DryOK(k)' /\ TrackOK(k)'
    <2>1. request'[k] = request[k] /\ CallOK(request[k])'
        BY <1>1, <1>3
    <2>2. ReportOK(k, request[k])'
      <3>1. PICK q : q = request[k]
          OBVIOUS
      <3>2. ReportOK(k, q)
          BY <1>1, <3>1
      <3>3. ReportOK(k, q)'
          BY <3>2 DEF ReportOK
      <3> QED
          BY <2>1, <3>1, <3>3
    <2>3. ~OnlyRuns(k, k)' /\ (foretold # None => ~OnlyRuns(k, foretold.by)')
        BY <1>3, <1>5 DEF OnlyRuns
    <2> QED
        BY <2>1, <2>2, <2>3 DEF DryOK, Dry, TrackOK, Tracks
  <1> QED
      BY <1>2, <1>4, <1>6, <1>7, <1>8 DEF ImportsInv

(* A step that only reads.                                                 *)
LEMMA ReadingStep ==
    ASSUME AgentsGiven, ImportsInv, NEW r \in Requests, request[r].at # "done",
           NEW y \in Call, CallOK(y), y.at # "idle", request' = [request EXCEPT ![r] = y],
           UNCHANGED <<folder, doc, access, scope, others, made, wrote, foretold>>,
           DOMAIN elsewhere' = Requests, \A k \in Requests \ {r} : elsewhere'[k] = elsewhere[k],
           ReportOK(r, y)', Dry(r, y) => DryCall(y), Tracks(r, y) => TrackCall(y)
    PROVE  ImportsInv'
  <1>1. ImportTypes /\ Agents!TreeOK /\ Agents!TreeOK'
      BY DEF ImportsInv, Agents!TreeOK
  <1>2. (DryCall(y) => DryCall(y)') /\ (TrackCall(y) => TrackCall(y)')
      BY TablesSame
  <1> QED
      BY <1>1, <1>2, RequestStep DEF ImportTypes

(* A change by others: dry runs are forgotten.                             *)
LEMMA OtherStep ==
    ASSUME AgentsGiven, ImportsInv, Agents!Other, UNCHANGED <<request, made, wrote>>,
           DOMAIN elsewhere' = Requests,
           \A k \in Requests : /\ elsewhere[k] \subseteq elsewhere'[k]
                               /\ folder' \ folder \subseteq elsewhere'[k],
           doc' \in [Agents!Paths -> LiveDocument \cup {None}], Agents!TreeOK'
    PROVE  ImportsInv'
  <1>1. others' = others + 1 /\ foretold' = None
      BY DEF Agents!Other
  <1>2. /\ ImportTypes
        /\ \A k \in Requests : CallOK(request[k]) /\ ReportOK(k, request[k])
      BY DEF ImportsInv
  <1>3. ImportTypes' /\ others' # 0
      BY <1>1, <1>2 DEF ImportTypes
  <1>4. FreshOK' /\ ForetoldOK'
      BY <1>1, <1>3 DEF FreshOK, ForetoldOK
  <1>5. ASSUME NEW k \in Requests
        PROVE  CallOK(request[k])' /\ ReportOK(k, request[k])' /\ DryOK(k)' /\ TrackOK(k)'
    <2>1. ReportOK(k, request[k])'
        BY <1>2 DEF ReportOK
    <2> QED
        BY <1>1, <1>2, <1>3, <2>1 DEF DryOK, Dry, TrackOK, Tracks
  <1> QED
      BY <1>3, <1>4, <1>5 DEF ImportsInv

LEMMA StutterStep ==
    ASSUME AgentsGiven, ImportsInv, UNCHANGED Agents!vars PROVE ImportsInv'
  <1>1. /\ \A f : Verdict(f)' = Verdict(f)
        /\ \A files, n : Needed(files, n)' = Needed(files, n)
        /\ \A q : (DryCall(q)' <=> DryCall(q)) /\ (TrackCall(q)' <=> TrackCall(q))
      BY TablesSame DEF Agents!vars
  <1>4. ImportTypes' /\ Agents!TreeOK' /\ FreshOK'
      BY DEF ImportsInv, ImportTypes, Agents!TreeOK, FreshOK, Agents!vars
  <1>5. \A r, b : OnlyRuns(r, b)' <=> OnlyRuns(r, b)
      BY DEF OnlyRuns, Agents!vars
  <1>6. ForetoldOK'
      BY <1>1, <1>5 DEF ImportsInv, ForetoldOK, Foretells, Agents!vars
  <1>7. ASSUME NEW k \in Requests
        PROVE  CallOK(request[k])' /\ ReportOK(k, request[k])' /\ DryOK(k)' /\ TrackOK(k)'
    <2>1. CallOK(request[k]) /\ ReportOK(k, request[k]) /\ DryOK(k) /\ TrackOK(k)
        BY DEF ImportsInv
    <2>2. CallOK(request[k])' /\ ReportOK(k, request[k])'
        BY <2>1 DEF ReportOK, Agents!vars
    <2>3. PICK q : q = request[k] /\ q = request'[k]
        BY DEF Agents!vars
    <2>4. (DryCall(q) => DryCall(q)') /\ (TrackCall(q) => TrackCall(q)')
        BY <1>1
    <2>6. (Dry(k, q)' => Dry(k, q)) /\ (Tracks(k, q)' => Tracks(k, q))
        BY <1>5 DEF Dry, Tracks, Agents!vars
    <2> QED
        BY <2>1, <2>2, <2>3, <2>4, <2>6 DEF DryOK, TrackOK
  <1> QED
      BY <1>4, <1>6, <1>7 DEF ImportsInv

-----------------------------------------------------------------------------
LEMMA IdleCall ==
    ASSUME AgentsGiven PROVE Agents!Idle \in Call /\ CallOK(Agents!Idle)
  <1>1. /\ <<>> \in Seq(Files) /\ <<>> \in Seq(Verdicts) /\ {} \in SUBSET Agents!Folders
        /\ Len(<<>>) = 0
      OBVIOUS
  <1>2. Agents!Idle \in Call
      BY <1>1 DEF Agents!Idle, Call
  <1>3. None # "dry_run" /\ None # "import"
      BY DEF AgentsGiven, Agents!Modes, Tools
  <1>4. /\ Agents!Idle.at = "idle" /\ Agents!Idle.tool = None /\ Agents!Idle.mode = None
        /\ Agents!Idle.files = <<>>
        /\ Agents!Idle.pos = 1 /\ Agents!Idle.outcome = <<>>
      BY DEF Agents!Idle
  <1> QED
      BY <1>1, <1>2, <1>3, <1>4 DEF CallOK

LEMMA InitImports == ASSUME AgentsGiven, Agents!Init PROVE ImportsInv
  <1>1. PICK s \in Starts :
          /\ folder = s.folders \cup UNION {Agents!Above(p) : p \in DOMAIN s.docs}
          /\ doc = [p \in Agents!Paths |-> IF p \in DOMAIN s.docs
                                    THEN [content |-> s.docs[p], version |-> 1] ELSE None]
      BY DEF Agents!Init
  <1>2. /\ \A p \in s.folders : Agents!Above(p) \subseteq s.folders
        /\ DOMAIN s.docs \subseteq Agents!Paths /\ \A p \in DOMAIN s.docs : s.docs[p] \in Contents
      BY DEF AgentsGiven
  <1>3. doc \in [Agents!Paths -> LiveDocument \cup {None}]
    <2>1. ASSUME NEW p \in DOMAIN s.docs PROVE [content |-> s.docs[p], version |-> 1] \in LiveDocument
        BY <1>2 DEF LiveDocument
    <2> QED
        BY <1>1, <2>1
  <1>4. Agents!TreeOK
    <2>1. ASSUME NEW p \in folder PROVE Agents!Above(p) \subseteq folder
      <3>1. CASE p \in s.folders
          BY <1>1, <1>2, <3>1
      <3>2. CASE p \notin s.folders
        <4>1. PICK d \in DOMAIN s.docs : p \in Agents!Above(d)
            BY <1>1, <2>1, <3>2
        <4>2. d \in Seq(Segments)
            BY <1>2, <4>1, PathIsOfFile, FilePaths
        <4>3. Agents!Above(p) \subseteq Agents!Above(d)
            BY <4>1, <4>2, AboveAbove
        <4> QED
            BY <1>1, <4>1, <4>3
      <3> QED
          BY <3>1, <3>2
    <2>2. ASSUME NEW p \in Agents!Paths, doc[p] # None PROVE Agents!FolderOf(p) \in folder
      <3>1. p \in DOMAIN s.docs
          BY <1>1, <2>2
      <3>2. Agents!FolderOf(p) \in Agents!Above(p)
          BY PathIsOfFile, FilePaths
      <3> QED
          BY <1>1, <3>1, <3>2
    <2> QED
        BY <2>1, <2>2 DEF Agents!TreeOK
  <1>5. /\ request = [r \in Requests |-> Agents!Idle] /\ others = 0 /\ foretold = None
        /\ made = [r \in Requests |-> {}] /\ wrote = [r \in Requests |-> {}]
        /\ elsewhere = [r \in Requests |-> {}]
        /\ access \in {"admin", "editor"} /\ scope = <<>>
      BY DEF Agents!Init
  <1>6. ImportTypes /\ FreshOK /\ ForetoldOK
      BY <1>3, <1>5, IdleCall DEF ImportTypes, FreshOK, ForetoldOK
  <1>7. ASSUME NEW r \in Requests
        PROVE  CallOK(request[r]) /\ ReportOK(r, request[r]) /\ DryOK(r) /\ TrackOK(r)
    <2>1. request[r] = Agents!Idle /\ made[r] = {} /\ wrote[r] = {}
        BY <1>5
    <2>2. /\ Agents!Idle.mode = None /\ Agents!Idle.outcome = <<>> /\ Agents!Idle.folders = {}
          /\ Agents!Idle.at = "idle"
        BY DEF Agents!Idle
    <2>3. WrittenBy(Agents!Idle) = {}
        BY <2>2 DEF WrittenBy
    <2>4. ReportOK(r, request[r])
        BY <2>1, <2>2, <2>3 DEF ReportOK
    <2>5. None # "dry_run"
        BY DEF AgentsGiven, Agents!Modes
    <2> QED
        BY <1>5, <2>1, <2>2, <2>4, <2>5, IdleCall DEF DryOK, Dry, TrackOK, Tracks
  <1> QED
      BY <1>4, <1>6, <1>7 DEF ImportsInv

LEMMA OthersSteps ==
    ASSUME AgentsGiven, ImportsInv,
           \/ \E p \in Agents!Folders : Agents!AddFolder(p) \/ Agents!RemoveFolder(p)
           \/ \E p \in Agents!Paths : Agents!Delete(p) \/ \E c \in Contents : Agents!Save(p, c)
           \/ \E a \in {"admin", "editor", "viewer"}, s \in Scopes : Agents!Limit(a, s)
    PROVE  ImportsInv'
  <1>1. ImportTypes /\ Agents!TreeOK
      BY DEF ImportsInv
  <1>2. ASSUME NEW p \in Agents!Folders, Agents!AddFolder(p) PROVE ImportsInv'
    <2>1. /\ Agents!Other /\ UNCHANGED <<request, made, wrote, doc>>
          /\ Agents!Above(p) \subseteq folder
          /\ folder' = folder \cup {p}
          /\ elsewhere' = [r \in Requests |-> elsewhere[r] \cup {p}]
        BY <1>2 DEF Agents!AddFolder
    <2>2. Agents!TreeOK'
        BY <1>1, <2>1 DEF Agents!TreeOK
    <2> QED
        BY <1>1, <2>1, <2>2, OtherStep DEF ImportTypes
  <1>3. ASSUME NEW p \in Agents!Folders, Agents!RemoveFolder(p) PROVE ImportsInv'
    <2>1. /\ Agents!Other /\ UNCHANGED <<request, made, wrote, doc, elsewhere>>
          /\ folder' = folder \ {p}
          /\ \A k \in folder : p \notin Agents!Above(k)
          /\ \A k \in Agents!Paths : doc[k] # None => Agents!FolderOf(k) # p
        BY <1>3 DEF Agents!RemoveFolder
    <2>2. Agents!TreeOK'
        BY <1>1, <2>1 DEF Agents!TreeOK
    <2> QED
        BY <1>1, <2>1, <2>2, OtherStep DEF ImportTypes
  <1>4. ASSUME NEW p \in Agents!Paths, NEW d \in LiveDocument \cup {None}, doc[p] # None,
               doc' = [doc EXCEPT ![p] = d],
               Agents!Other, UNCHANGED <<folder, request, made, wrote, elsewhere>>
        PROVE  ImportsInv'
    <2>1. doc' \in [Agents!Paths -> LiveDocument \cup {None}]
        BY <1>1, <1>4 DEF ImportTypes
    <2>2. Agents!TreeOK'
        BY <1>1, <1>4 DEF Agents!TreeOK, ImportTypes
    <2> QED
        BY <1>1, <1>4, <2>1, <2>2, OtherStep DEF ImportTypes
  <1>5. ASSUME NEW p \in Agents!Paths, Agents!Delete(p) PROVE ImportsInv'
      BY <1>4, <1>5 DEF Agents!Delete
  <1>6. ASSUME NEW p \in Agents!Paths, NEW c \in Contents, Agents!Save(p, c) PROVE ImportsInv'
    <2>1. doc[p] \in LiveDocument
        BY <1>1, <1>6, Settled DEF Agents!Save
    <2>2. PICK x \in LiveDocument : x = doc[p]
        BY <2>1
    <2>3. PICK y : y = [content |-> c, version |-> x.version + 1]
        OBVIOUS
    <2>4. y \in LiveDocument
        BY <2>2, <2>3 DEF LiveDocument
    <2>5. /\ doc' = [doc EXCEPT ![p] = y] /\ doc[p] # None
          /\ Agents!Other /\ UNCHANGED <<folder, request, made, wrote, elsewhere>>
        BY <1>6, <2>2, <2>3 DEF Agents!Save
    <2> QED
        BY <1>4, <2>4, <2>5
  <1>7. ASSUME NEW a, NEW s, Agents!Limit(a, s) PROVE ImportsInv'
    <2>1. Agents!Other /\ UNCHANGED <<folder, doc, request, made, wrote, elsewhere>>
        BY <1>7 DEF Agents!Limit
    <2>2. Agents!TreeOK'
        BY <1>1, <2>1 DEF Agents!TreeOK
    <2> QED
        BY <1>1, <2>1, <2>2, OtherStep DEF ImportTypes
  <1> QED
      BY <1>2, <1>3, <1>5, <1>6, <1>7

LEMMA RememberStep ==
    ASSUME AgentsGiven, ImportsInv, NEW r \in Requests, Agents!Remember(r) PROVE ImportsInv'
  <1>1. /\ ImportTypes /\ Agents!TreeOK /\ FreshOK
        /\ \A k \in Requests : CallOK(request[k]) /\ ReportOK(k, request[k]) /\ DryOK(k)
      BY DEF ImportsInv
  <1>2. PICK q \in Call : q = request[r]
      BY <1>1 DEF ImportTypes
  <1>3. PICK o : o = [files |-> q.files, outcome |-> q.outcome, folders |-> q.folders, by |-> r]
      OBVIOUS
  <1>4. /\ q.at = "done" /\ q.mode = "dry_run" /\ others = 0 /\ OnlyRuns(r, r)
        /\ foretold' = o
        /\ UNCHANGED <<folder, doc, access, scope, request, others, made, wrote, elsewhere>>
      BY <1>2, <1>3 DEF Agents!Remember, OnlyRuns, Agents!tables
  <1>5. /\ o.files = q.files /\ o.outcome = q.outcome /\ o.folders = q.folders /\ o.by = r
      BY <1>3
  <1>6. /\ \A f : Verdict(f)' = Verdict(f)
        /\ \A files, n : Needed(files, n)' = Needed(files, n)
        /\ \A x : DryCall(x)' <=> DryCall(x)
      BY <1>4, TablesSame
  <1>9. /\ q.files \in Seq(Files) /\ q.outcome \in Seq(Verdicts)
        /\ q.pos = Len(q.outcome) + 1 /\ q.pos = Len(q.files) + 1
      BY <1>1, <1>2, <1>4 DEF Call, CallOK
  <1>10. Foretells(o)
    <2>1. DryCall(q)
        BY <1>1, <1>2, <1>4 DEF DryOK, Dry
    <2>2. DOMAIN q.outcome = DOMAIN q.files
        BY <1>9
    <2>3. Needed(q.files, q.pos) = {}
        BY <1>9, NeededNone
    <2> QED
        BY <1>5, <2>1, <2>2, <2>3 DEF Foretells, DryCall
  <1>11. ForetoldOK'
    <2>1. Foretells(o)'
        BY <1>6, <1>10 DEF Foretells
    <2> QED
        BY <1>2, <1>4, <1>5, <1>9, <2>1 DEF ForetoldOK
  <1>12. ImportTypes' /\ Agents!TreeOK' /\ FreshOK'
      BY <1>1, <1>4 DEF ImportTypes, Agents!TreeOK, FreshOK
  <1>13. ASSUME NEW k \in Requests
         PROVE  CallOK(request[k])' /\ ReportOK(k, request[k])' /\ DryOK(k)' /\ TrackOK(k)'
    <2>1. CallOK(request[k])' /\ ReportOK(k, request[k])'
        BY <1>1, <1>4 DEF ReportOK
    <2>2. DryOK(k)'
      <3>1. PICK x : x = request[k] /\ x = request'[k]
          BY <1>4
      <3>2. DryCall(x) => DryCall(x)'
          BY <1>6
      <3>3. Dry(k, x)' => Dry(k, x)
          BY <1>4 DEF Dry, OnlyRuns
      <3> QED
          BY <1>1, <3>1, <3>2, <3>3 DEF DryOK
    <2>3. TrackOK(k)'
      <3>1. CASE k = r
          BY <1>2, <1>4, <3>1 DEF TrackOK, Tracks
      <3>2. CASE k # r
        <4>1. request[k].at = "idle"
            BY <1>4, <3>2 DEF OnlyRuns
        <4>2. request[k].mode = None
            BY <1>1, <4>1 DEF CallOK, Agents!Idle
        <4>3. None # "upsert"
            BY DEF AgentsGiven, Agents!Modes
        <4> QED
            BY <1>4, <4>2, <4>3 DEF TrackOK, Tracks
      <3> QED
          BY <3>1, <3>2
    <2> QED
        BY <2>1, <2>2, <2>3
  <1> QED
      BY <1>11, <1>12, <1>13 DEF ImportsInv

-----------------------------------------------------------------------------
(* A call begins.                                                          *)
LEMMA StartStep ==
    ASSUME AgentsGiven, ImportsInv, NEW r \in Requests,
           NEW y \in Call, CallOK(y), y.at \notin {"idle", "done"},
           y.tool = "import" => y.at = "predict",
           y.pos = 1, y.outcome = <<>>, y.folders = {}, Agents!Start(r, y)
    PROVE  ImportsInv'
  <1>1. /\ request[r].at = "idle" /\ request' = [request EXCEPT ![r] = y]
        /\ elsewhere' = [elsewhere EXCEPT ![r] = {}]
        /\ UNCHANGED <<folder, doc, access, scope, others, made, wrote, foretold>>
      BY DEF Agents!Start, Agents!Go, Agents!tables
  <1>2. ImportTypes /\ ForetoldOK /\ ReportOK(r, request[r])
      BY DEF ImportsInv
  <1>3. made[r] = {} /\ wrote[r] = {}
      BY <1>1, <1>2 DEF ReportOK
  <1>4. ReportOK(r, y)'
    <2>1. WrittenBy(y) = {}
        BY DEF WrittenBy
    <2> QED
        BY <1>1, <1>3, <2>1 DEF ReportOK
  <1>5. Dry(r, y) => DryCall(y)
    <2>1. y.mode = "dry_run" => y.at = "predict"
        BY DEF CallOK
    <2> QED
        BY <2>1 DEF Dry, DryCall, PutDown
  <1>6. ASSUME Tracks(r, y) PROVE TrackCall(y)
    <2>1. foretold # None /\ foretold.files = y.files /\ y.at = "predict"
        BY <1>6 DEF Tracks
    <2>2. OnlyRuns(foretold.by, foretold.by)
        BY <1>1, <1>6 DEF Tracks, OnlyRuns
    <2>3. Foretells(foretold)
        BY <1>2, <2>1, <2>2 DEF ForetoldOK
    <2>4. \A i \in DOMAIN y.files : i \in Nat /\ i >= 1
        BY DEF Call
    <2> QED
        BY <2>1, <2>3, <2>4 DEF Foretells, TrackCall, PutDown
  <1> QED
      BY <1>1, <1>2, <1>4, <1>5, <1>6, ReadingStep DEF ImportTypes

LEMMA StartSteps ==
    ASSUME AgentsGiven, ImportsInv, NEW r \in Requests,
           \/ \E t \in Trees, mode \in Agents!Modes : Agents!StartImport(r, t, mode)
           \/ \E f \in Files, create \in BOOLEAN :
                \/ \E draft \in BOOLEAN, base \in {None, 1}
                      : Agents!StartUpsert(r, f, create, draft, base)
                \/ Agents!StartPlan(r, f, create)
           \/ \E f \in Files : Agents!StartCreate(r, f)
    PROVE  ImportsInv'
  <1>1. /\ <<>> \in Seq(Verdicts) /\ {} \in SUBSET Agents!Folders /\ Len(<<>>) = 0
      OBVIOUS
  <1>2. None \notin Agents!Modes /\ None \notin Tools
      BY DEF AgentsGiven
  <1>3. ASSUME NEW t \in Trees, NEW mode \in Agents!Modes, Agents!StartImport(r, t, mode)
        PROVE  ImportsInv'
    <2>1. t \in Seq(Files) /\ t # <<>>
        BY DEF AgentsGiven
    <2>2. PICK y : y = [Agents!Idle EXCEPT !.at = "predict", !.tool = "import", !.mode = mode, !.files = t,
                                    !.createFolders = TRUE]
        OBVIOUS
    <2>3. y = [at |-> "predict", tool |-> "import", mode |-> mode, files |-> t, pos |-> 1,
               createFolders |-> TRUE, allowDraft |-> FALSE, base |-> None, seen |-> None,
               folders |-> {}, outcome |-> <<>>]
        BY <2>2 DEF Agents!Idle
    <2>4. Agents!Start(r, y)
        BY <1>3, <2>2 DEF Agents!StartImport
    <2>5. Len(t) >= 1 /\ mode # None /\ "import" \in Tools
        BY <1>2, <2>1 DEF Tools
    <2>6. y \in Call
        BY <1>1, <2>1, <2>3, <2>5 DEF Call
    <2>7. /\ y.at = "predict" /\ y.tool = "import" /\ y.mode = mode /\ y.files = t /\ y.base = None
          /\ y.createFolders /\ y.pos = 1 /\ y.folders = {} /\ y.outcome = <<>>
        BY <2>3
    <2>8. CallOK(y)
        BY <1>1, <2>1, <2>5, <2>7 DEF CallOK
    <2> QED
        BY <2>4, <2>6, <2>7, <2>8, StartStep
  <1>4. ASSUME NEW f \in Files PROVE <<f>> \in Seq(Files) /\ <<f>> # <<>> /\ Len(<<f>>) = 1
      OBVIOUS
  <1>5. ASSUME NEW f \in Files, NEW create \in BOOLEAN, NEW draft \in BOOLEAN, NEW base \in {None, 1},
               Agents!StartUpsert(r, f, create, draft, base)
        PROVE  ImportsInv'
    <2>1. PICK y : y = [Agents!Idle EXCEPT !.at = "lookup", !.tool = "upsert", !.mode = "upsert",
                                    !.files = <<f>>, !.createFolders = create, !.allowDraft = draft,
                                    !.base = base]
        OBVIOUS
    <2>2. y = [at |-> "lookup", tool |-> "upsert", mode |-> "upsert", files |-> <<f>>, pos |-> 1,
               createFolders |-> create, allowDraft |-> draft, base |-> base, seen |-> None,
               folders |-> {}, outcome |-> <<>>]
        BY <2>1 DEF Agents!Idle
    <2>3. Agents!Start(r, y)
        BY <1>5, <2>1 DEF Agents!StartUpsert
    <2>4. /\ "upsert" \in Tools /\ "upsert" \in Agents!Modes \cup {None}
          /\ "upsert" # "dry_run" /\ "upsert" # None
        BY <1>2 DEF Tools, Agents!Modes
    <2>5. /\ <<f>> \in Seq(Files) /\ <<f>> # <<>> /\ Len(<<f>>) = 1
        BY <1>4
    <2>6. y \in Call
        BY <1>1, <1>5, <2>2, <2>4, <2>5 DEF Call
    <2>7. /\ y.at = "lookup" /\ y.tool = "upsert" /\ y.mode = "upsert" /\ y.files = <<f>>
          /\ y.pos = 1 /\ y.folders = {} /\ y.outcome = <<>>
        BY <2>2
    <2>8. CallOK(y)
        BY <1>1, <2>4, <2>5, <2>7 DEF CallOK
    <2> QED
        BY <2>3, <2>6, <2>7, <2>8, StartStep
  <1>6. ASSUME NEW f \in Files, NEW create \in BOOLEAN, Agents!StartPlan(r, f, create)
        PROVE  ImportsInv'
    <2>1. PICK y : y = [Agents!Idle EXCEPT !.at = "lookup", !.tool = "plan", !.mode = "create_only",
                                    !.files = <<f>>, !.createFolders = create]
        OBVIOUS
    <2>2. y = [at |-> "lookup", tool |-> "plan", mode |-> "create_only", files |-> <<f>>, pos |-> 1,
               createFolders |-> create, allowDraft |-> FALSE, base |-> None, seen |-> None,
               folders |-> {}, outcome |-> <<>>]
        BY <2>1 DEF Agents!Idle
    <2>3. Agents!Start(r, y)
        BY <1>6, <2>1 DEF Agents!StartPlan
    <2>4. /\ "plan" \in Tools /\ "create_only" \in Agents!Modes \cup {None}
          /\ "create_only" # "dry_run" /\ "create_only" # None
        BY <1>2 DEF Tools, Agents!Modes
    <2>5. /\ <<f>> \in Seq(Files) /\ <<f>> # <<>> /\ Len(<<f>>) = 1
        BY <1>4
    <2>6. y \in Call
        BY <1>1, <1>6, <2>2, <2>4, <2>5 DEF Call
    <2>7. /\ y.at = "lookup" /\ y.tool = "plan" /\ y.mode = "create_only" /\ y.files = <<f>>
          /\ y.pos = 1 /\ y.folders = {} /\ y.outcome = <<>>
        BY <2>2
    <2>8. CallOK(y)
        BY <1>1, <2>4, <2>5, <2>7 DEF CallOK
    <2> QED
        BY <2>3, <2>6, <2>7, <2>8, StartStep
  <1>7. ASSUME NEW f \in Files, Agents!StartCreate(r, f) PROVE ImportsInv'
    <2>1. PICK y : y = [Agents!Idle EXCEPT !.at = "insert", !.tool = "create", !.files = <<f>>]
        OBVIOUS
    <2>2. y = [at |-> "insert", tool |-> "create", mode |-> None, files |-> <<f>>, pos |-> 1,
               createFolders |-> FALSE, allowDraft |-> FALSE, base |-> None, seen |-> None,
               folders |-> {}, outcome |-> <<>>]
        BY <2>1 DEF Agents!Idle
    <2>3. Agents!Start(r, y)
        BY <1>7, <2>1 DEF Agents!StartCreate
    <2>4. None # "dry_run" /\ "create" \in Tools
        BY <1>2 DEF Agents!Modes, Tools
    <2>5. /\ <<f>> \in Seq(Files) /\ <<f>> # <<>> /\ Len(<<f>>) = 1
        BY <1>4
    <2>6. y \in Call
        BY <1>1, <2>2, <2>4, <2>5 DEF Call
    <2>7. /\ y.at = "insert" /\ y.tool = "create" /\ y.mode = None /\ y.files = <<f>>
          /\ y.pos = 1 /\ y.folders = {} /\ y.outcome = <<>>
        BY <2>2
    <2>8. CallOK(y)
        BY <1>1, <2>4, <2>5, <2>7 DEF CallOK
    <2> QED
        BY <2>3, <2>6, <2>7, <2>8, StartStep
  <1> QED
      BY <1>3, <1>5, <1>6, <1>7

-----------------------------------------------------------------------------

-----------------------------------------------------------------------------
(* What is foretold, or to be, is of imports and of nobody's changes.      *)
LEMMA TrackedAreFresh ==
    ASSUME ImportsInv, NEW r \in Requests, Dry(r, request[r]) \/ Tracks(r, request[r])
    PROVE  /\ others = 0 /\ request[r].tool = "import" /\ request[r].mode \in {"dry_run", "upsert"}
           /\ Agents!CanWrite /\ scope = <<>> /\ access \in {"admin", "editor"}
  <1>1. ForetoldOK /\ FreshOK /\ CallOK(request[r])
      BY DEF ImportsInv
  <1> QED
      BY <1>1 DEF Dry, Tracks, ForetoldOK, FreshOK, CallOK, Agents!CanWrite

(* A file ends and nothing was written.                                    *)
LEMMA EndReading ==
    ASSUME AgentsGiven, ImportsInv, NEW r \in Requests, NEW q \in Call, q = request[r],
           q.at \notin {"idle", "done", "update"},
           NEW o \in Verdicts, NEW F \in SUBSET Agents!Folders, Agents!Ends(r, q, o, F),
           UNCHANGED <<folder, doc, access, scope, others, made, wrote, elsewhere, foretold>>,
           o \in {"created", "updated"} => q.mode = "dry_run",
           q.at = "predict" => At(q).bad,
           IF q.mode = "dry_run" /\ ~At(q).bad
              THEN F \subseteq Agents!Missing(At(q).path) ELSE F = {},
           q.mode # "dry_run" /\ o # "failed" => Agents!Above(At(q).path) \subseteq folder,
           Dry(r, q) \/ Tracks(r, q) =>
             \/ o = Verdict(At(q))
             \/ q.at = "create" /\ o = "failed" /\ access # "admin"
    PROVE  ImportsInv'
  <1>1. PICK y : y = Ended(q, o, F)
      OBVIOUS
  <1>2. request' = [request EXCEPT ![r] = y]
      BY <1>1 DEF Agents!Ends, Agents!Go, Ended
  <1>3. /\ ImportTypes /\ FreshOK /\ ForetoldOK
        /\ CallOK(q) /\ ReportOK(r, q) /\ DryOK(r) /\ TrackOK(r)
      BY DEF ImportsInv
  <1>4. q.tool = "import" => q.base = None
      BY <1>3 DEF CallOK
  <1>5. y \in Call /\ y.tool = q.tool /\ y.mode = q.mode /\ y.files = q.files
      BY <1>1, EndedFields
  <1>6. CallOK(y) /\ y.at \in {"predict", "done"}
      BY <1>1, <1>3, <1>4, EndedCall
  <1>7. ReportOK(r, y)'
    <2>1. ASSUME q.mode # "dry_run"
          PROVE  /\ wrote[r] = WrittenBy(q) /\ o \notin {"created", "updated"}
                 /\ made[r] \subseteq q.folders /\ F = {}
                 /\ \A p \in q.folders \ made[r] :
                      \/ p \in elsewhere[r] \/ OfFailed(q, p)
                      \/ o = "failed" /\ p \in Agents!Above(At(q).path)
        BY <1>3, <2>1 DEF ReportOK
    <2>2. q.mode # "dry_run" =>
             /\ wrote[r] = WrittenBy(q)
             /\ wrote'[r] = IF o \in {"created", "updated"} THEN wrote[r] \cup {<<q.pos, At(q).path>>}
                            ELSE wrote[r]
             /\ made'[r] \subseteq q.folders \cup F
             /\ \A p \in (q.folders \cup F) \ made'[r] :
                  \/ p \in elsewhere'[r] \/ OfFailed(q, p)
                  \/ o = "failed" /\ p \in Agents!Above(At(q).path)
        BY <2>1
    <2> QED
        BY <1>1, <1>3, <1>4, <2>2, EndedReport
  <1>8. ASSUME ~At(q).bad, PutDown(q), q.tool = "import"
        PROVE  Agents!Missing(At(q).path) \subseteq q.folders
      BY <1>3, <1>8 DEF PutDown, CallOK, Call
  <1>9. ASSUME Dry(r, y) PROVE DryCall(y)'
    <2>1. Dry(r, q) /\ q.mode = "dry_run" /\ others = 0 /\ q.tool = "import" /\ q.at # "create"
        BY <1>3, <1>5, <1>9 DEF Dry, CallOK
    <2>2. DryCall(q) /\ PutDown(q)
        BY <1>3, <2>1 DEF DryOK, DryCall
    <2>3. DryCall(y)
        BY <1>1, <1>3, <1>8, <2>1, <2>2, EndedDry
    <2> QED
        BY <2>3, TablesSame
  <1>10. ASSUME Tracks(r, y) PROVE TrackCall(y)'
    <2>1. /\ Tracks(r, q) /\ q.mode = "upsert" /\ q.tool = "import" /\ foretold # None /\ others = 0
          /\ F = {}
        BY <1>3, <1>5, <1>10 DEF Tracks, ForetoldOK
    <2>2. TrackCall(q) /\ PutDown(q)
        BY <1>3, <2>1 DEF TrackOK, TrackCall
    <2>3. /\ q.files \in Seq(Files) /\ q.pos \in DOMAIN q.files /\ q.pos \in Nat
          /\ q.outcome \in Seq(Verdicts) /\ q.pos = Len(q.outcome) + 1
        BY <1>1, <1>3, <1>4, EndedCall DEF Call, CallOK
    <2>4. Alone(q.files, q.pos) => foretold.outcome[q.pos] = Verdict(At(q))
        BY <2>2, <2>3 DEF TrackCall, At
    <2>5. y.outcome = Append(q.outcome, o)
        BY <1>1, EndedFields
    <2>6. y.outcome[q.pos] = o
        BY <2>3, <2>5, OutcomeGrows
    <2>7. Alone(q.files, q.pos) => \/ o = foretold.outcome[q.pos]
                                   \/ o = "failed" /\ Excused(y, q.pos)'
      <3>1. CASE o = Verdict(At(q))
          BY <2>4, <3>1
      <3>2. CASE q.at = "create" /\ o = "failed" /\ access # "admin"
        <4>1. doc[At(q).path] = None /\ ~At(q).bad
            BY <1>3, <2>1, <2>2, <3>2 DEF TrackCall, CallOK
        <4>2. Verdict(At(q)) = "created"
            BY <4>1 DEF Verdict
        <4> QED
            BY <2>4, <2>6, <3>2, <4>2 DEF Excused
      <3> QED
          BY <2>1, <3>1, <3>2
    <2>8. q.folders \cup Needed(q.files, q.pos + 1) = foretold.folders
      <3>1. Needed(q.files, q.pos) = Needed(q.files, q.pos + 1) \cup
                                     (IF At(q).bad THEN {} ELSE Agents!Missing(At(q).path))
          BY <2>3, NeededNext DEF At
      <3>2. q.folders \cup Needed(q.files, q.pos) = foretold.folders
          BY <2>2 DEF TrackCall
      <3> QED
          BY <1>8, <2>1, <2>2, <3>1, <3>2
    <2>9. Needed(q.files, q.pos + 1)' = Needed(q.files, q.pos + 1)
        BY TablesSame
    <2> QED
        BY <1>1, <1>3, <1>4, <2>1, <2>2, <2>7, <2>8, <2>9, EndedTrack
  <1>11. Agents!TreeOK' /\ doc' \in [Agents!Paths -> LiveDocument \cup {None}]
      BY <1>3 DEF ImportsInv, Agents!TreeOK, ImportTypes
  <1> QED
      BY <1>2, <1>3, <1>5, <1>6, <1>7, <1>9, <1>10, <1>11, RequestStep DEF ImportTypes

LEMMA FreshWrites ==
    ASSUME ImportsInv, others = 0 PROVE Agents!CanWrite
  BY DEF ImportsInv, FreshOK, Agents!CanWrite

LEMMA PredictStep ==
    ASSUME AgentsGiven, ImportsInv, NEW r \in Requests, Agents!Predict(r) PROVE ImportsInv'
  <1>1. PICK q \in Call : q = request[r]
      BY CallIs
  <1>2. /\ q.at = "predict" /\ At(q) = Agents!File(r) /\ At(q) \in Files /\ CallOK(q)
        /\ ReportOK(r, q)
        /\ q.pos \in DOMAIN q.files
      BY <1>1, CallIs DEF Agents!Predict
  <1>3. UNCHANGED <<folder, doc, access, scope, others, made, wrote, elsewhere, foretold>>
      BY DEF Agents!Predict, Agents!tables, Agents!history
  <1>4. /\ ImportTypes /\ DryOK(r) /\ TrackOK(r)
      BY DEF ImportsInv
  <1>5. CASE At(q).bad
    <2>1. Agents!Ends(r, q, "failed", {})
        BY <1>1, <1>2, <1>5 DEF Agents!Predict, Agents!Fails
    <2>2. Verdict(At(q)) = "failed" /\ "failed" \in Verdicts /\ {} \in SUBSET Agents!Folders
        BY <1>5 DEF Verdict, Verdicts
    <2> QED
        BY <1>1, <1>2, <1>3, <1>5, <2>1, <2>2, EndReading
  <1>6. CASE ~At(q).bad
    <2>1. PICK m \in SUBSET Agents!Folders : m = Agents!Missing(At(q).path)
        BY <1>2, FilePaths DEF Agents!Missing
    <2>2. PICK y : y = [q EXCEPT !.at = "lookup", !.folders = @ \cup m]
        OBVIOUS
    <2>3. request' = [request EXCEPT ![r] = y]
        BY <1>1, <1>2, <1>6, <2>1, <2>2 DEF Agents!Predict, Agents!Go
    <2>4. y = [at |-> "lookup", tool |-> q.tool, mode |-> q.mode, files |-> q.files, pos |-> q.pos,
               createFolders |-> q.createFolders, allowDraft |-> q.allowDraft, base |-> q.base,
               seen |-> q.seen, folders |-> q.folders \cup m, outcome |-> q.outcome]
        BY <2>2 DEF Call
    <2>5. y \in Call
        BY <2>4 DEF Call
    <2>6. /\ y.at = "lookup" /\ y.tool = q.tool /\ y.mode = q.mode /\ y.files = q.files
          /\ y.pos = q.pos /\ y.createFolders = q.createFolders /\ y.base = q.base
          /\ y.folders = q.folders \cup m /\ y.outcome = q.outcome /\ At(y) = At(q)
        BY <2>4 DEF At
    <2>7. CallOK(y)
        BY <1>2, <1>6, <2>6 DEF CallOK
    <2>8. m \subseteq Agents!Above(At(q).path) /\ m \cap folder = {}
        BY <2>1 DEF Agents!Missing
    <2>9. WrittenBy(y) = WrittenBy(q) /\ \A p : OfFailed(y, p) <=> OfFailed(q, p)
        BY <2>6 DEF WrittenBy, OfFailed
    <2>10. ReportOK(r, y)'
        BY <1>2, <1>3, <2>6, <2>8, <2>9 DEF ReportOK
    <2>11. m \subseteq Needed(q.files, q.pos)
      <3>1. q.pos \in Nat /\ q.files \in Seq(Files)
          BY DEF Call
      <3> QED
          BY <1>2, <1>6, <2>1, <3>1, NeededNext DEF At
    <2>12. ASSUME Dry(r, y) PROVE DryCall(y)
      <3>1. DryCall(q)
          BY <1>1, <1>4, <2>6, <2>12 DEF DryOK, Dry
      <3> QED
          BY <2>1, <2>6, <2>11, <3>1 DEF DryCall, PutDown
    <2>13. ASSUME Tracks(r, y) PROVE TrackCall(y)
      <3>1. TrackCall(q)
          BY <1>1, <1>4, <2>6, <2>13 DEF TrackOK, Tracks
      <3>2. \A i : AsForetold(q, i) => AsForetold(y, i)
          BY <2>6 DEF AsForetold, Excused
      <3> QED
          BY <2>1, <2>6, <2>11, <3>1, <3>2 DEF TrackCall, PutDown
    <2> QED
        BY <1>1, <1>2, <1>3, <1>4, <2>3, <2>5, <2>6, <2>7, <2>10, <2>12, <2>13, ReadingStep
        DEF ImportTypes
  <1> QED
      BY <1>5, <1>6

(* A call goes from its lookup to what it is going to do.                  *)
LEMMA GoOn ==
    ASSUME AgentsGiven, ImportsInv, NEW r \in Requests, NEW q \in Call, q = request[r],
           q.at = "lookup", NEW at \in {"update", "foresee", "create"},
           NEW seen \in LiveDocument \cup {None}, NEW base \in Nat \cup {None},
           NEW y, y = [q EXCEPT !.at = at, !.seen = seen, !.base = base],
           request' = [request EXCEPT ![r] = y],
           UNCHANGED <<folder, doc, access, scope, others, made, wrote, elsewhere, foretold>>,
           IF at = "foresee" THEN q.mode = "dry_run" ELSE q.mode \in {"upsert", "create_only"},
           at # "update" => base = q.base /\ doc[At(q).path] = None,
           at = "update" => /\ Agents!Above(At(q).path) \subseteq folder
                            /\ doc[At(q).path] # None /\ doc[At(q).path].content # At(q).content
                            /\ q.base = None => doc[At(q).path].version = base
    PROVE  ImportsInv'
  <1>1. /\ CallOK(q) /\ ReportOK(r, q) /\ ImportTypes /\ DryOK(r) /\ TrackOK(r)
      BY DEF ImportsInv
  <1>2. y = [at |-> at, tool |-> q.tool, mode |-> q.mode, files |-> q.files, pos |-> q.pos,
             createFolders |-> q.createFolders, allowDraft |-> q.allowDraft, base |-> base,
             seen |-> seen, folders |-> q.folders, outcome |-> q.outcome]
      BY DEF Call
  <1>3. y \in Call
      BY <1>2 DEF Call
  <1>4. /\ y.at = at /\ y.tool = q.tool /\ y.mode = q.mode /\ y.files = q.files
        /\ y.pos = q.pos /\ y.createFolders = q.createFolders /\ y.base = base
        /\ y.folders = q.folders /\ y.outcome = q.outcome /\ At(y) = At(q)
      BY <1>2 DEF At
  <1>5. q.mode # None
      BY <1>1 DEF CallOK
  <1>6. CallOK(y)
      BY <1>1, <1>4, <1>5 DEF CallOK
  <1>7. WrittenBy(y) = WrittenBy(q) /\ \A p : OfFailed(y, p) <=> OfFailed(q, p)
      BY <1>4 DEF WrittenBy, OfFailed
  <1>8. ReportOK(r, y)'
      BY <1>1, <1>4, <1>7 DEF ReportOK
  <1>9. ASSUME Dry(r, y) PROVE DryCall(y)
    <2>1. DryCall(q) /\ at = "foresee"
        BY <1>1, <1>4, <1>9 DEF DryOK, Dry
    <2> QED
        BY <1>4, <2>1 DEF DryCall, PutDown
  <1>10. ASSUME Tracks(r, y) PROVE TrackCall(y)
    <2>1. TrackCall(q) /\ q.tool = "import"
        BY <1>1, <1>4, <1>10 DEF TrackOK, Tracks
    <2>2. q.base = None
        BY <1>1, <2>1 DEF CallOK
    <2>3. \A i : AsForetold(q, i) => AsForetold(y, i)
        BY <1>4 DEF AsForetold, Excused
    <2> QED
        BY <1>4, <2>1, <2>2, <2>3 DEF TrackCall, PutDown
  <1> QED
      BY <1>1, <1>3, <1>4, <1>6, <1>8, <1>9, <1>10, ReadingStep DEF ImportTypes

LEMMA LookupStep ==
    ASSUME AgentsGiven, ImportsInv, NEW r \in Requests, Agents!Lookup(r) PROVE ImportsInv'
  <1>1. PICK q \in Call : q = request[r]
      BY CallIs
  <1>2. /\ q.at = "lookup" /\ At(q) = Agents!File(r) /\ At(q) \in Files /\ CallOK(q)
      BY <1>1, CallIs DEF Agents!Lookup
  <1>3. UNCHANGED <<folder, doc, access, scope, others, made, wrote, elsewhere, foretold>>
      BY DEF Agents!Lookup, Agents!tables, Agents!history
  <1>4. PICK f \in Files : f = At(q)
      BY <1>2
  <1>5. q.mode \in Agents!Modes /\ (q.tool = "import" => ~f.bad /\ q.createFolders)
      BY <1>2, <1>4 DEF CallOK, Call
  <1>6. ASSUME NEW o \in {"skipped", "failed", "updated"}, Agents!Ends(r, q, o, {}),
               o = "updated" => q.mode = "dry_run",
               q.mode # "dry_run" /\ o # "failed" => Agents!Above(f.path) \subseteq folder,
               others = 0 /\ q.tool = "import" /\ q.mode \in {"dry_run", "upsert"} => o = Verdict(f)
        PROVE  ImportsInv'
    <2>1. o \in Verdicts /\ {} \in SUBSET Agents!Folders
        BY <1>6 DEF Verdicts
    <2> QED
        BY <1>1, <1>2, <1>3, <1>4, <1>6, <2>1, EndReading, TrackedAreFresh
  <1>7. CASE doc[f.path] # None
    <2>1. doc[f.path] \in LiveDocument /\ Agents!Above(f.path) \subseteq folder
        BY <1>7, FilePaths, Settled DEF ImportsInv
    <2>2. CASE q.mode = "create_only"
      <3>1. Agents!Ends(r, q, "skipped", {})
          BY <1>1, <1>2, <1>4, <1>7, <2>2 DEF Agents!Lookup
      <3> QED
          BY <1>6, <2>1, <2>2, <3>1
    <2>3. CASE q.mode # "create_only" /\ ~Agents!CanWrite
      <3>1. Agents!Ends(r, q, "failed", {})
          BY <1>1, <1>2, <1>4, <1>7, <2>3 DEF Agents!Lookup, Agents!Fails
      <3>2. others # 0
          BY <2>3, FreshWrites
      <3> QED
          BY <1>6, <3>1, <3>2
    <2>4. CASE q.mode = "dry_run" /\ Agents!CanWrite
      <3>1. Agents!Ends(r, q, Agents!Foretold(f), {})
          BY <1>1, <1>2, <1>4, <1>7, <2>4 DEF Agents!Lookup
      <3>2. Agents!Foretold(f) \in {"skipped", "updated"}
          BY DEF Agents!Foretold
      <3>3. ~f.bad
          BY <1>2, <1>4, <2>4 DEF CallOK
      <3>4. Agents!Foretold(f) = Verdict(f)
          BY <1>7, <3>3 DEF Agents!Foretold, Agents!Unchanged, Verdict
      <3> QED
          BY <1>6, <2>4, <3>1, <3>2, <3>4
    <2>5. CASE q.mode = "upsert" /\ Agents!CanWrite
      <3>1. CASE Agents!Unchanged(f)
        <4>1. Agents!Ends(r, q, "skipped", {})
            BY <1>1, <1>2, <1>4, <1>7, <2>5, <3>1 DEF Agents!Lookup
        <4>2. ~f.bad => Verdict(f) = "skipped"
            BY <1>7, <3>1 DEF Verdict, Agents!Unchanged
        <4> QED
            BY <1>5, <1>6, <2>1, <2>5, <4>1, <4>2
      <3>2. CASE ~Agents!Unchanged(f)
        <4>1. PICK d \in LiveDocument : d = doc[f.path]
            BY <2>1
        <4>2. PICK base \in Nat \cup {None} : base = IF q.base = None THEN d.version ELSE q.base
            BY DEF LiveDocument, Call
        <4>3. PICK y : y = [q EXCEPT !.at = "update", !.seen = d, !.base = base]
            OBVIOUS
        <4>4. request' = [request EXCEPT ![r] = [q EXCEPT !.at = "update", !.seen = doc[f.path],
                                     !.base = IF @ = None THEN doc[f.path].version ELSE @]]
            BY <1>1, <1>2, <1>4, <1>7, <2>5, <3>2 DEF Agents!Lookup, Agents!Go
        <4>5. request' = [request EXCEPT ![r] = y]
            BY <4>1, <4>2, <4>3, <4>4 DEF Call
        <4>6. doc[f.path].content # f.content
            BY <3>2 DEF Agents!Unchanged
        <4> QED
            BY <1>1, <1>2, <1>3, <1>4, <1>7, <2>1, <2>5, <4>1, <4>2, <4>3, <4>5, <4>6, GoOn
      <3> QED
          BY <3>1, <3>2
    <2> QED
        BY <1>5, <2>2, <2>3, <2>4, <2>5 DEF Agents!Modes
  <1>8. CASE doc[f.path] = None
    <2>1. ASSUME NEW at \in {"foresee", "create"}, Agents!Go(r, [q EXCEPT !.at = at]),
                 IF at = "foresee" THEN q.mode = "dry_run" ELSE q.mode \in {"upsert", "create_only"}
          PROVE  ImportsInv'
      <3>1. PICK seen \in LiveDocument \cup {None} : seen = q.seen
          BY DEF Call
      <3>2. PICK base \in Nat \cup {None} : base = q.base
          BY DEF Call
      <3>3. PICK y : y = [q EXCEPT !.at = at, !.seen = seen, !.base = base]
          OBVIOUS
      <3>4. y = [q EXCEPT !.at = at]
          BY <3>1, <3>2, <3>3 DEF Call
      <3>5. request' = [request EXCEPT ![r] = y]
          BY <2>1, <3>4 DEF Agents!Go
      <3>6. /\ at \in {"update", "foresee", "create"} /\ at # "update"
            /\ doc[At(q).path] = None
            /\ IF at = "foresee" THEN q.mode = "dry_run" ELSE q.mode \in {"upsert", "create_only"}
          BY <1>4, <1>8, <2>1
      <3> QED
          BY <1>1, <1>2, <1>3, <3>2, <3>3, <3>5, <3>6, GoOn
    <2>2. CASE q.mode = "dry_run"
      <3>1. Agents!Go(r, [q EXCEPT !.at = "foresee"])
          BY <1>1, <1>2, <1>4, <1>8, <2>2 DEF Agents!Lookup
      <3> QED
          BY <2>1, <2>2, <3>1
    <2>3. CASE q.mode # "dry_run"
      <3>1. CASE q.createFolders \/ Agents!FolderOf(f.path) \in folder
        <4>1. Agents!Go(r, [q EXCEPT !.at = "create"])
            BY <1>1, <1>2, <1>4, <1>8, <2>3, <3>1 DEF Agents!Lookup
        <4> QED
            BY <1>5, <2>1, <2>3, <4>1 DEF Agents!Modes
      <3>2. CASE ~(q.createFolders \/ Agents!FolderOf(f.path) \in folder)
        <4>1. Agents!Ends(r, q, "failed", {})
            BY <1>1, <1>2, <1>4, <1>8, <2>3, <3>2 DEF Agents!Lookup, Agents!Fails
        <4> QED
            BY <1>5, <1>6, <3>2, <4>1
      <3> QED
          BY <3>1, <3>2
    <2> QED
        BY <2>2, <2>3
  <1> QED
      BY <1>7, <1>8

LEMMA ForeseeStep ==
    ASSUME AgentsGiven, ImportsInv, NEW r \in Requests, Agents!Foresee(r) PROVE ImportsInv'
  <1>1. PICK q \in Call : q = request[r]
      BY CallIs
  <1>2. /\ q.at = "foresee" /\ At(q) = Agents!File(r) /\ At(q) \in Files /\ CallOK(q)
      BY <1>1, CallIs DEF Agents!Foresee
  <1>3. UNCHANGED <<folder, doc, access, scope, others, made, wrote, elsewhere, foretold>>
      BY DEF Agents!Foresee, Agents!tables, Agents!history
  <1>4. q.mode = "dry_run" /\ q.tool = "import" /\ ~At(q).bad
      BY <1>2 DEF CallOK
  <1>5. PICK m \in SUBSET Agents!Folders : m = Agents!Missing(At(q).path)
      BY <1>2, FilePaths DEF Agents!Missing
  <1>6. Agents!Ends(r, q, "created", m) /\ "created" \in Verdicts
      BY <1>1, <1>2, <1>5 DEF Agents!Foresee, Verdicts
  <1>7. DryOK(r)
      BY DEF ImportsInv
  <1>8. Dry(r, q) => Verdict(At(q)) = "created"
      BY <1>1, <1>2, <1>4, <1>7 DEF DryOK, DryCall, Verdict
  <1>9. ~Tracks(r, q)
      BY <1>4 DEF Tracks
  <1> QED
      BY <1>1, <1>2, <1>3, <1>4, <1>5, <1>6, <1>8, <1>9, EndReading

-----------------------------------------------------------------------------
(* A file ends with a write, or without the one that was to be.            *)
LEMMA EndWriting ==
    ASSUME AgentsGiven, ImportsInv, NEW r \in Requests, NEW q \in Call, q = request[r],
           q.at \notin {"idle", "done"}, q.mode # "dry_run",
           NEW x \in Call, CallOK(x), x.at = q.at, x.tool = q.tool, x.mode = q.mode,
           x.files = q.files,
           x.pos = q.pos, x.outcome = q.outcome, x.folders = q.folders,
           x.tool = "import" => x.base = None,
           NEW o \in Verdicts, NEW F \in SUBSET Agents!Folders, Agents!Ends(r, x, o, F),
           UNCHANGED <<access, scope, others, foretold>>,
           doc' \in [Agents!Paths -> LiveDocument \cup {None}], Agents!TreeOK',
           IF o \in {"created", "updated"} THEN Agents!Wrote(r, At(q).path) ELSE wrote' = wrote,
           DOMAIN made' = Requests, DOMAIN elsewhere' = Requests,
           \A k \in Requests \ {r} : /\ made'[k] = made[k] /\ elsewhere[k] \subseteq elsewhere'[k]
                                     /\ folder' \ folder \subseteq elsewhere'[k],
           made'[r] \subseteq q.folders \cup F,
           \A p \in (q.folders \cup F) \ made'[r] :
             p \in elsewhere'[r] \/ OfFailed(q, p) \/ (o = "failed" /\ p \in Agents!Above(At(q).path)),
           Tracks(r, q) =>
             /\ \A p \in Agents!Paths \ {At(q).path} : doc'[p] = doc[p]
             /\ Alone(q.files, q.pos) =>
                  \/ o = foretold.outcome[q.pos]
                  \/ /\ o = "failed" /\ foretold.outcome[q.pos] = "updated"
                     /\ Agents!StatusOf(doc'[At(q).path].content) # "canonical"
             /\ q.folders \cup F \cup Needed(q.files, q.pos + 1)' = foretold.folders
    PROVE  ImportsInv'
  <1>1. PICK y : y = Ended(x, o, F)
      OBVIOUS
  <1>2. request' = [request EXCEPT ![r] = y]
      BY <1>1 DEF Agents!Ends, Agents!Go, Ended
  <1>3. /\ ImportTypes /\ CallOK(q) /\ ReportOK(r, q) /\ TrackOK(r)
      BY DEF ImportsInv
  <1>4. y \in Call /\ y.tool = q.tool /\ y.mode = q.mode /\ y.files = q.files
        /\ y.outcome = Append(q.outcome, o)
    <2>1. y \in Call /\ y.tool = x.tool /\ y.mode = x.mode /\ y.files = x.files
          /\ y.outcome = Append(x.outcome, o)
        BY <1>1, EndedFields
    <2> QED
        BY <2>1
  <1>5. CallOK(y) /\ y.at \in {"predict", "done"}
      BY <1>1, EndedCall
  <1>6. /\ DOMAIN wrote' = Requests /\ \A k \in Requests \ {r} : wrote'[k] = wrote[k]
        /\ wrote'[r] = IF o \in {"created", "updated"} THEN wrote[r] \cup {<<q.pos, At(q).path>>}
                       ELSE wrote[r]
      BY <1>3 DEF Agents!Wrote, ImportTypes
  <1>7. ReportOK(r, y)'
    <2>1. wrote[r] = WrittenBy(q)
        BY <1>3 DEF ReportOK
    <2>2. WrittenBy(x) = WrittenBy(q) /\ At(x) = At(q) /\ \A p : OfFailed(x, p) <=> OfFailed(q, p)
        BY DEF WrittenBy, At, OfFailed
    <2> QED
        BY <1>1, <1>6, <2>1, <2>2, EndedReport
  <1>8. ~Dry(r, y)
      BY <1>4 DEF Dry
  <1>9. ASSUME Tracks(r, y) PROVE TrackCall(y)'
    <2>1. Tracks(r, q) /\ q.tool = "import"
        BY <1>4, <1>9 DEF Tracks
    <2>2. TrackCall(q)
        BY <1>3, <2>1 DEF TrackOK
    <2>3. /\ q.files \in Seq(Files) /\ q.pos \in Nat
          /\ q.outcome \in Seq(Verdicts) /\ q.pos = Len(q.outcome) + 1
        BY <1>3 DEF Call, CallOK
    <2>4. y.outcome[q.pos] = o
        BY <1>4, <2>3, OutcomeGrows
    <2>5. q.pos \in DOMAIN q.files
        BY <1>3, CallIs
    <2>6. \A i \in DOMAIN q.files : q.files[i].path # At(q).path =>
            doc'[q.files[i].path] = doc[q.files[i].path]
      <3>1. \A i \in DOMAIN q.files : q.files[i].path \in Agents!Paths
          BY <2>3 DEF Agents!Paths
      <3> QED
          BY <2>1, <3>1
    <2>7. Alone(q.files, q.pos) => \/ o = foretold.outcome[q.pos]
                                   \/ o = "failed" /\ Excused(y, q.pos)'
        BY <1>4, <2>1, <2>4 DEF Excused, At
    <2>8. q.folders \cup F \cup Needed(q.files, q.pos + 1)' = foretold.folders
        BY <2>1
    <2> QED
        BY <1>1, <1>3, <2>1, <2>2, <2>6, <2>7, <2>8, EndedTrack
  <1>10. request[r].at # "done" /\ y.at # "idle"
      BY <1>5
  <1> QED
      BY <1>2, <1>4, <1>5, <1>6, <1>7, <1>8, <1>9, <1>10, RequestStep

LEMMA UpdateStep ==
    ASSUME AgentsGiven, ImportsInv, NEW r \in Requests, Agents!Update(r) PROVE ImportsInv'
  <1>1. PICK q \in Call : q = request[r]
      BY CallIs
  <1>2. /\ q.at = "update" /\ At(q) = Agents!File(r) /\ CallOK(q) /\ ReportOK(r, q)
        /\ q.pos \in DOMAIN q.files
      BY <1>1, CallIs DEF Agents!Update
  <1>3. UNCHANGED <<folder, access, scope, others, made, elsewhere, foretold>>
      BY DEF Agents!Update
  <1>4. PICK f \in Files : f = At(q) /\ f = Agents!File(r)
      BY <1>1, <1>2, CallIs
  <1>5. ImportTypes /\ Agents!TreeOK /\ TrackOK(r)
      BY DEF ImportsInv
  <1>6. PICK x : x = [q EXCEPT !.base = None]
      OBVIOUS
  <1>7. /\ x \in Call /\ CallOK(x) /\ x.at = q.at /\ x.tool = q.tool /\ x.mode = q.mode
        /\ x.files = q.files /\ x.pos = q.pos /\ x.outcome = q.outcome /\ x.folders = q.folders
        /\ x.base = None
    <2>1. x = [at |-> q.at, tool |-> q.tool, mode |-> q.mode, files |-> q.files, pos |-> q.pos,
               createFolders |-> q.createFolders, allowDraft |-> q.allowDraft, base |-> None,
               seen |-> q.seen, folders |-> q.folders, outcome |-> q.outcome]
        BY <1>6 DEF Call
    <2>2. x \in Call
        BY <2>1 DEF Call
    <2>3. /\ x.at = q.at /\ x.tool = q.tool /\ x.mode = q.mode
          /\ x.files = q.files /\ x.pos = q.pos /\ x.outcome = q.outcome /\ x.folders = q.folders
          /\ x.base = None /\ x.createFolders = q.createFolders /\ At(x) = At(q)
        BY <2>1 DEF At
    <2>4. CallOK(x)
        BY <1>2, <2>3 DEF CallOK
    <2> QED
        BY <2>2, <2>3, <2>4
  <1>8. PICK now : now = doc[f.path]
      OBVIOUS
  <1>9. q.mode # "dry_run" /\ {} \in SUBSET Agents!Folders /\ f.path \in Agents!Paths
      BY <1>2, FilePaths DEF CallOK
  <1>10. ASSUME Tracks(r, q)
         PROVE  /\ now # None /\ now.version = q.base /\ Agents!CanWrite /\ Agents!InScope(f.path)
                /\ Alone(q.files, q.pos) => foretold.outcome[q.pos] = "updated"
                /\ q.folders \cup Needed(q.files, q.pos + 1)' = foretold.folders
    <2>1. TrackCall(q) /\ q.tool = "import"
        BY <1>1, <1>5, <1>10 DEF TrackOK, Tracks
    <2>2. ~f.bad
        BY <1>2, <1>4, <2>1 DEF CallOK
    <2>3. now # None /\ now.content # f.content /\ now.version = q.base
        BY <1>2, <1>4, <1>8, <2>1 DEF TrackCall
    <2>4. Verdict(f) = "updated"
        BY <1>8, <2>2, <2>3 DEF Verdict
    <2>5. q.files \in Seq(Files) /\ q.pos \in Nat
        BY DEF Call
    <2>6. Alone(q.files, q.pos) => foretold.outcome[q.pos] = "updated"
        BY <1>2, <1>4, <2>1, <2>4, <2>5 DEF TrackCall, At
    <2>7. Agents!CanWrite /\ Agents!InScope(f.path)
        BY <1>1, <1>10, TrackedAreFresh DEF Agents!InScope
    <2>8. Needed(q.files, q.pos) = Needed(q.files, q.pos + 1) \cup Agents!Missing(f.path)
        BY <1>2, <1>4, <2>2, <2>5, NeededNext DEF At
    <2>9. /\ Agents!Missing(f.path) \subseteq q.folders
          /\ q.folders \cup Needed(q.files, q.pos) = foretold.folders
        BY <1>2, <1>4, <2>1 DEF TrackCall, PutDown
    <2>10. \A p : Agents!Missing(p)' = Agents!Missing(p)
        BY <1>3 DEF Agents!Missing
    <2>11. Needed(q.files, q.pos + 1)' = Needed(q.files, q.pos + 1)
        BY <2>10 DEF Needed
    <2> QED
        BY <2>3, <2>6, <2>7, <2>8, <2>9, <2>11
  <1>11. \A p \in q.folders \ made[r] : p \in elsewhere[r] \/ OfFailed(q, p)
      BY <1>2, <1>9 DEF ReportOK
  <1>12. made[r] \subseteq q.folders
      BY <1>2, <1>9 DEF ReportOK
  <1>13. CASE /\ now # None /\ Agents!CanWrite /\ Agents!InScope(f.path) /\ now.version = q.base
              /\ Agents!StatusOf(now.content) = "canonical"
                    \/ (q.allowDraft /\ Agents!StatusOf(q.seen.content) = "draft")
    <2>1. /\ doc' = [doc EXCEPT ![f.path] = [content |-> f.content, version |-> now.version + 1]]
          /\ Agents!Ends(r, [q EXCEPT !.base = None], "updated", {}) /\ Agents!Wrote(r, f.path)
        BY <1>1, <1>4, <1>8, <1>13 DEF Agents!Update
    <2>2. PICK n \in LiveDocument : n = now
        BY <1>5, <1>8, <1>9, <1>13 DEF ImportTypes
    <2>3. PICK d : d = [content |-> f.content, version |-> n.version + 1]
        OBVIOUS
    <2>4. d \in LiveDocument /\ d # None
        BY <2>2, <2>3, FilePaths DEF LiveDocument, AgentsGiven
    <2>5. doc' = [doc EXCEPT ![f.path] = d]
        BY <2>1, <2>2, <2>3
    <2>6. /\ doc' \in [Agents!Paths -> LiveDocument \cup {None}]
          /\ \A p \in Agents!Paths \ {f.path} : doc'[p] = doc[p]
        BY <1>5, <1>9, <2>4, <2>5 DEF ImportTypes
    <2>7. Agents!TreeOK'
        BY <1>3, <1>5, <1>8, <1>9, <1>13, <2>6 DEF Agents!TreeOK
    <2>8. Agents!Ends(r, x, "updated", {}) /\ "updated" \in Verdicts
        BY <1>6, <2>1 DEF Verdicts
    <2>9. Tracks(r, q) =>
             /\ \A p \in Agents!Paths \ {At(q).path} : doc'[p] = doc[p]
             /\ Alone(q.files, q.pos) => "updated" = foretold.outcome[q.pos]
             /\ q.folders \cup {} \cup Needed(q.files, q.pos + 1)' = foretold.folders
        BY <1>4, <1>10, <2>6
    <2> QED
        BY <1>1, <1>2, <1>3, <1>4, <1>5, <1>7, <1>9, <1>11, <1>12, <2>1, <2>6, <2>7, <2>8, <2>9,
           EndWriting
        DEF ImportTypes
  <1>14. CASE ~(/\ now # None /\ Agents!CanWrite /\ Agents!InScope(f.path) /\ now.version = q.base
                /\ Agents!StatusOf(now.content) = "canonical"
                      \/ (q.allowDraft /\ Agents!StatusOf(q.seen.content) = "draft"))
    <2>1. Agents!Ends(r, [q EXCEPT !.base = None], "failed", {}) /\ UNCHANGED <<doc, wrote>>
        BY <1>1, <1>4, <1>8, <1>14 DEF Agents!Update
    <2>2. Agents!Ends(r, x, "failed", {}) /\ "failed" \in Verdicts
        BY <1>6, <2>1 DEF Verdicts
    <2>3. Agents!TreeOK' /\ doc' \in [Agents!Paths -> LiveDocument \cup {None}]
        BY <1>3, <1>5, <2>1 DEF Agents!TreeOK, ImportTypes
    <2>4. Tracks(r, q) =>
             /\ \A p \in Agents!Paths \ {At(q).path} : doc'[p] = doc[p]
             /\ Alone(q.files, q.pos) => /\ foretold.outcome[q.pos] = "updated"
                                         /\ Agents!StatusOf(doc'[At(q).path].content) # "canonical"
             /\ q.folders \cup {} \cup Needed(q.files, q.pos + 1)' = foretold.folders
        BY <1>4, <1>8, <1>10, <1>14, <2>1
    <2> QED
        BY <1>1, <1>2, <1>3, <1>5, <1>7, <1>9, <1>11, <1>12, <2>1, <2>2, <2>3, <2>4, EndWriting
        DEF ImportTypes
  <1> QED
      BY <1>13, <1>14

LEMMA TrackHere ==
    ASSUME NEW q \in Call, TrackCall(q), q.pos \in DOMAIN q.files, Alone(q.files, q.pos)
    PROVE  foretold.outcome[q.pos] = Verdict(At(q))
  <1>1. q.pos >= q.pos
      BY DEF Call
  <1> QED
      BY <1>1 DEF TrackCall, At

(* A document that was not there, with the folders above it there.         *)
LEMMA NewDocument ==
    ASSUME AgentsGiven, ImportTypes, Agents!TreeOK, NEW f \in Files, folder \subseteq folder',
           \A p \in folder' \ folder : Agents!Above(p) \subseteq folder',
           Agents!FolderOf(f.path) \in folder',
           doc' = [doc EXCEPT ![f.path] = [content |-> f.content, version |-> 1]]
    PROVE  /\ Agents!TreeOK' /\ doc' \in [Agents!Paths -> LiveDocument \cup {None}]
           /\ \A p \in Agents!Paths \ {f.path} : doc'[p] = doc[p]
  <1>1. PICK d : d = [content |-> f.content, version |-> 1]
      OBVIOUS
  <1>2. d \in LiveDocument /\ f.path \in Agents!Paths
      BY <1>1, FilePaths DEF LiveDocument
  <1>3. doc' = [doc EXCEPT ![f.path] = d]
      BY <1>1
  <1>4. /\ doc' \in [Agents!Paths -> LiveDocument \cup {None}]
        /\ \A p \in Agents!Paths \ {f.path} : doc'[p] = doc[p]
      BY <1>2, <1>3 DEF ImportTypes
  <1>5. Agents!TreeOK'
      BY <1>2, <1>4 DEF Agents!TreeOK
  <1> QED
      BY <1>4, <1>5

LEMMA CreateStep ==
    ASSUME AgentsGiven, ImportsInv, NEW r \in Requests, Agents!Create(r) PROVE ImportsInv'
  <1>1. PICK q \in Call : q = request[r]
      BY CallIs
  <1>2. /\ q.at = "create" /\ CallOK(q) /\ ReportOK(r, q) /\ q.pos \in DOMAIN q.files
      BY <1>1, CallIs DEF Agents!Create
  <1>3. UNCHANGED <<access, scope, others, foretold>>
      BY DEF Agents!Create
  <1>4. PICK f \in Files : f = At(q) /\ f = Agents!File(r)
      BY <1>1, <1>2, CallIs
  <1>5. ImportTypes /\ Agents!TreeOK /\ TrackOK(r)
      BY DEF ImportsInv
  <1>6. /\ q.mode # "dry_run" /\ (q.tool = "import" => q.base = None /\ q.createFolders /\ ~f.bad)
      BY <1>2, <1>4 DEF CallOK
  <1>7. PICK m \in SUBSET Agents!Folders : m = Agents!Missing(f.path)
      BY FilePaths DEF Agents!Missing
  <1>8. ASSUME Tracks(r, q)
        PROVE  /\ TrackCall(q) /\ q.tool = "import" /\ doc[f.path] = None
               /\ Alone(q.files, q.pos) => foretold.outcome[q.pos] = "created"
    <2>1. TrackCall(q) /\ q.tool = "import"
        BY <1>1, <1>5, <1>8 DEF TrackOK, Tracks
    <2>2. doc[f.path] = None
        BY <1>2, <1>4, <2>1 DEF TrackCall
    <2>3. Verdict(f) = "created"
        BY <1>6, <2>1, <2>2 DEF Verdict
    <2>4. Alone(q.files, q.pos) => foretold.outcome[q.pos] = Verdict(f)
        BY <1>2, <1>4, <2>1, TrackHere
    <2> QED
        BY <2>1, <2>2, <2>3, <2>4
  <1>9. CASE Agents!Reachable(r) /\ doc[f.path] = None
    <2>1. /\ folder' = folder \cup Agents!Above(f.path)
          /\ doc' = [doc EXCEPT ![f.path] = [content |-> f.content, version |-> 1]]
          /\ made' = [made EXCEPT ![r] = @ \cup m]
          /\ elsewhere' = [k \in Requests |-> elsewhere[k] \cup IF k = r THEN {} ELSE m]
          /\ Agents!Ends(r, q, "created", m) /\ Agents!Wrote(r, f.path)
        BY <1>1, <1>4, <1>7, <1>9 DEF Agents!Create
    <2>2. f.path \in Seq(Segments) /\ Agents!FolderOf(f.path) \in Agents!Above(f.path)
        BY FilePaths
    <2>3. \A p \in folder' \ folder : Agents!Above(p) \subseteq folder'
        BY <2>1, <2>2, AboveAbove
    <2>4. /\ Agents!TreeOK' /\ doc' \in [Agents!Paths -> LiveDocument \cup {None}]
          /\ \A p \in Agents!Paths \ {f.path} : doc'[p] = doc[p]
        BY <1>5, <2>1, <2>2, <2>3, NewDocument
    <2>5. /\ DOMAIN made' = Requests /\ made'[r] = made[r] \cup m
          /\ \A k \in Requests \ {r} : made'[k] = made[k]
        BY <1>5, <2>1 DEF ImportTypes
    <2>6. /\ DOMAIN elsewhere' = Requests /\ elsewhere'[r] = elsewhere[r]
          /\ \A k \in Requests \ {r} : elsewhere'[k] = elsewhere[k] \cup m
        BY <2>1
    <2>7. folder' \ folder \subseteq m /\ \A p \in Agents!Above(f.path) : p \in folder \/ p \in m
        BY <1>7, <2>1 DEF Agents!Missing
    <2>8. made'[r] \subseteq q.folders \cup m
        BY <1>2, <1>6, <2>5 DEF ReportOK
    <2>9. \A p \in (q.folders \cup m) \ made'[r] : p \in elsewhere'[r] \/ OfFailed(q, p)
        BY <1>2, <1>4, <1>6, <2>5, <2>6, <2>7 DEF ReportOK
    <2>10. ASSUME Tracks(r, q)
           PROVE  q.folders \cup m \cup Needed(q.files, q.pos + 1)' = foretold.folders
      <3>1. q.files \in Seq(Files) /\ q.pos \in Nat
          BY DEF Call
      <3>2. Needed(q.files, q.pos) = Needed(q.files, q.pos + 1) \cup m
        <4>1. ~f.bad /\ f = q.files[q.pos]
            BY <1>4, <1>6, <1>8, <2>10 DEF At
        <4> QED
            BY <1>2, <1>7, <3>1, <4>1, NeededNext
      <3>3. \A p : Agents!Missing(p)' = Agents!Missing(p) \ m
          BY <1>7, <2>1 DEF Agents!Missing
      <3>4. Needed(q.files, q.pos + 1)' = Needed(q.files, q.pos + 1) \ m
          BY <3>3 DEF Needed
      <3>5. q.folders \cup Needed(q.files, q.pos) = foretold.folders
          BY <1>8, <2>10 DEF TrackCall
      <3> QED
          BY <3>2, <3>4, <3>5
    <2>11. Tracks(r, q) =>
             /\ \A p \in Agents!Paths \ {At(q).path} : doc'[p] = doc[p]
             /\ Alone(q.files, q.pos) => "created" = foretold.outcome[q.pos]
             /\ q.folders \cup m \cup Needed(q.files, q.pos + 1)' = foretold.folders
        BY <1>4, <1>8, <2>4, <2>10
    <2>12. "created" \in Verdicts
        BY DEF Verdicts
    <2>13. \A k \in Requests \ {r} : /\ made'[k] = made[k] /\ elsewhere[k] \subseteq elsewhere'[k]
                                      /\ folder' \ folder \subseteq elsewhere'[k]
        BY <2>5, <2>6, <2>7
    <2>14. q.tool = "import" => q.base = None
        BY <1>6
    <2>15. q.at \notin {"idle", "done"} /\ Agents!Wrote(r, At(q).path)
        BY <1>2, <1>4, <2>1
    <2> QED
        BY <1>1, <1>2, <1>3, <1>6, <2>1, <2>4, <2>5, <2>6, <2>8, <2>9, <2>11, <2>12, <2>13,
           <2>14, <2>15,
           EndWriting, SMTT(30)
  <1>10. CASE ~(Agents!Reachable(r) /\ doc[f.path] = None)
    <2>1. /\ Agents!Ends(r, q, "failed", {})
          /\ UNCHANGED <<folder, doc, access, scope, others, made, wrote, elsewhere, foretold>>
        BY <1>1, <1>3, <1>4, <1>10 DEF Agents!Create, Agents!Fails
    <2>2. "failed" \in Verdicts /\ {} \in SUBSET Agents!Folders
        BY DEF Verdicts
    <2>3. ASSUME Dry(r, q) \/ Tracks(r, q) PROVE access # "admin"
      <3>1. Tracks(r, q) /\ q.createFolders
          BY <1>6, <1>8, <2>3 DEF Dry
      <3>2. ~Agents!Reachable(r) /\ Agents!CanWrite /\ scope = <<>>
          BY <1>1, <1>8, <1>10, <3>1, TrackedAreFresh
      <3> QED
          BY <1>1, <1>4, <3>1, <3>2 DEF Agents!Reachable, Agents!CanMake, Agents!InScope
    <2> QED
        BY <1>1, <1>2, <1>4, <1>6, <2>1, <2>2, <2>3, EndReading
  <1> QED
      BY <1>9, <1>10

LEMMA InsertStep ==
    ASSUME AgentsGiven, ImportsInv, NEW r \in Requests, Agents!Insert(r) PROVE ImportsInv'
  <1>1. PICK q \in Call : q = request[r]
      BY CallIs
  <1>2. /\ q.at = "insert" /\ CallOK(q) /\ ReportOK(r, q)
      BY <1>1, CallIs DEF Agents!Insert
  <1>3. UNCHANGED <<folder, access, scope, others, made, elsewhere, foretold>>
      BY DEF Agents!Insert
  <1>4. PICK f \in Files : f = At(q) /\ f = Agents!File(r)
      BY <1>1, <1>2, CallIs
  <1>5. ImportTypes /\ Agents!TreeOK
      BY DEF ImportsInv
  <1>6. q.mode # "dry_run" /\ q.tool # "import" /\ {} \in SUBSET Agents!Folders
      BY <1>2 DEF CallOK
  <1>7. ~Tracks(r, q) /\ ~Dry(r, q)
      BY <1>6 DEF Tracks, Dry
  <1>8. CASE Agents!FolderOf(f.path) \in folder /\ doc[f.path] = None
    <2>1. /\ doc' = [doc EXCEPT ![f.path] = [content |-> f.content, version |-> 1]]
          /\ Agents!Ends(r, q, "created", {}) /\ Agents!Wrote(r, f.path)
        BY <1>1, <1>4, <1>8 DEF Agents!Insert
    <2>2. Agents!TreeOK' /\ doc' \in [Agents!Paths -> LiveDocument \cup {None}]
        BY <1>3, <1>5, <1>8, <2>1, NewDocument
    <2>3. /\ made[r] \subseteq q.folders
          /\ \A p \in q.folders \ made[r] : p \in elsewhere[r] \/ OfFailed(q, p)
        BY <1>2, <1>6 DEF ReportOK
    <2>4. "created" \in Verdicts
        BY DEF Verdicts
    <2> QED
        BY <1>1, <1>2, <1>3, <1>4, <1>5, <1>6, <1>7, <2>1, <2>2, <2>3, <2>4,
           EndWriting DEF ImportTypes
  <1>9. CASE ~(Agents!FolderOf(f.path) \in folder /\ doc[f.path] = None)
    <2>1. Agents!Ends(r, q, "failed", {}) /\ UNCHANGED <<doc, wrote>>
        BY <1>1, <1>4, <1>9 DEF Agents!Insert, Agents!Fails
    <2>2. "failed" \in Verdicts
        BY DEF Verdicts
    <2> QED
        BY <1>1, <1>2, <1>3, <1>6, <1>7, <2>1, <2>2, EndReading
  <1> QED
      BY <1>8, <1>9

-----------------------------------------------------------------------------
(* What is shown of a request that is done follows.                        *)
LEMMA ReportsFollow ==
    ASSUME AgentsGiven, ImportsInv PROVE Agents!ImportsReportTruly
  <1>1. Agents!TreeOK
      BY DEF ImportsInv
  <1>2. ASSUME NEW r \in Requests, Agents!Done(r)
        PROVE  /\ CallOK(request[r]) /\ ReportOK(r, request[r]) /\ TrackOK(r)
               /\ Len(request[r].outcome) = Len(request[r].files)
               /\ DOMAIN request[r].outcome = DOMAIN request[r].files
               /\ \A i \in DOMAIN request[r].outcome : i < request[r].pos
               /\ request[r].files \in Seq(Files) /\ request[r].at = "done"
               /\ request[r].pos = Len(request[r].files) + 1
    <2>1. PICK q \in Call : q = request[r]
        BY CallIs
    <2>2. q.files \in Seq(Files) /\ q.outcome \in Seq(Verdicts) /\ q.at = "done"
        BY <1>2, <2>1 DEF Call, Agents!Done
    <2>3. CallOK(q) /\ ReportOK(r, q) /\ TrackOK(r)
        BY <2>1 DEF ImportsInv
    <2>4. q.pos = Len(q.outcome) + 1 /\ q.pos = Len(q.files) + 1
        BY <2>2, <2>3 DEF CallOK
    <2>5. Len(q.outcome) = Len(q.files) /\ DOMAIN q.outcome = DOMAIN q.files
          /\ \A i \in DOMAIN q.outcome : i < q.pos
        BY <2>2, <2>4
    <2> QED
        BY <2>1, <2>2, <2>3, <2>4, <2>5
  <1>3. Agents!ReportsTellTruth
    <2>1. ASSUME NEW r \in Requests, Agents!Done(r), request[r].mode # "dry_run"
          PROVE  /\ Len(Agents!Outcomes(r)) = Len(request[r].files)
                 /\ wrote[r] = {<<i, Agents!FileAt(r, i).path>> :
                       i \in {j \in DOMAIN Agents!Outcomes(r) : Agents!Outcomes(r)[j] \in {"created", "updated"}}}
                 /\ made[r] \subseteq request[r].folders
                 /\ \A p \in request[r].folders \ made[r] :
                       \/ p \in elsewhere[r]
                       \/ \E i \in DOMAIN Agents!Outcomes(r) : /\ Agents!Outcomes(r)[i] = "failed"
                                                        /\ p \in Agents!Above(Agents!FileAt(r, i).path)
        BY <1>2, <2>1 DEF ReportOK, WrittenBy, OfFailed, Agents!Outcomes, Agents!FileAt
    <2> QED
        BY <2>1 DEF Agents!ReportsTellTruth
  <1>4. Agents!DryRunForetells
    <2>1. ASSUME NEW r \in Requests, Agents!Done(r), request[r].tool = "import",
                 request[r].mode = "upsert",
                 foretold # None, foretold.files = request[r].files,
                 \A k \in Requests \ {r, foretold.by} : request[k].at = "idle"
          PROVE  /\ request[r].folders = foretold.folders
                 /\ \A i \in DOMAIN Agents!Outcomes(r) :
                      \/ Agents!Outcomes(r)[i] = foretold.outcome[i]
                      \/ \E j \in DOMAIN Agents!Outcomes(r) \ {i}
                               : Agents!FileAt(r, i).path = Agents!FileAt(r, j).path
                      \/ /\ Agents!Outcomes(r)[i] = "failed"
                         /\ \/ foretold.outcome[i] = "created" /\ access # "admin"
                            \/ foretold.outcome[i] = "updated"
                               /\ Agents!StatusOf(doc[Agents!FileAt(r, i).path].content) # "canonical"
      <3>1. TrackCall(request[r])
          BY <1>2, <2>1 DEF TrackOK, Tracks, OnlyRuns
      <3>2. Needed(request[r].files, request[r].pos) = {}
          BY <1>2, <2>1, NeededNone
      <3>3. request[r].folders = foretold.folders
          BY <3>1, <3>2 DEF TrackCall
      <3>4. ASSUME NEW i \in DOMAIN Agents!Outcomes(r),
                   ~\E j \in DOMAIN Agents!Outcomes(r) \ {i}
                         : Agents!FileAt(r, i).path = Agents!FileAt(r, j).path
            PROVE  AsForetold(request[r], i)
        <4>1. Alone(request[r].files, i) /\ i \in DOMAIN request[r].files /\ i < request[r].pos
            BY <1>2, <2>1, <3>4 DEF Alone, Agents!Outcomes, Agents!FileAt
        <4> QED
            BY <3>1, <4>1 DEF TrackCall
      <3> QED
          BY <3>3, <3>4 DEF AsForetold, Excused, Agents!Outcomes, Agents!FileAt
    <2> QED
        BY <2>1 DEF Agents!DryRunForetells
  <1> QED
      BY <1>1, <1>3, <1>4 DEF Agents!ImportsReportTruly

LEMMA NextImports == AgentsGiven /\ ImportsInv /\ [Agents!Next]_(Agents!vars) => ImportsInv'
  <1> SUFFICES ASSUME AgentsGiven, ImportsInv, [Agents!Next]_(Agents!vars) PROVE ImportsInv'
      OBVIOUS
  <1>1. ASSUME NEW r \in Requests,
               \/ \E t \in Trees, mode \in Agents!Modes : Agents!StartImport(r, t, mode)
               \/ \E f \in Files, create \in BOOLEAN :
                    \/ \E draft \in BOOLEAN, base \in {None, 1}
                          : Agents!StartUpsert(r, f, create, draft, base)
                    \/ Agents!StartPlan(r, f, create)
               \/ \E f \in Files : Agents!StartCreate(r, f)
        PROVE  ImportsInv'
      BY <1>1, StartSteps
  <1>2. ASSUME NEW r \in Requests,
               \/ Agents!Predict(r) \/ Agents!Lookup(r) \/ Agents!Foresee(r)
               \/ Agents!Update(r) \/ Agents!Create(r) \/ Agents!Insert(r)
               \/ Agents!Remember(r)
        PROVE  ImportsInv'
      BY <1>2, PredictStep, LookupStep, ForeseeStep, UpdateStep, CreateStep, InsertStep, RememberStep
  <1>3. ASSUME \/ \E p \in Agents!Folders : Agents!AddFolder(p) \/ Agents!RemoveFolder(p)
               \/ \E p \in Agents!Paths : Agents!Delete(p) \/ \E c \in Contents : Agents!Save(p, c)
               \/ \E a \in {"admin", "editor", "viewer"}, s \in Scopes : Agents!Limit(a, s)
        PROVE  ImportsInv'
      BY <1>3, OthersSteps
  <1>4. CASE UNCHANGED Agents!vars
      BY <1>4, StutterStep
  <1> QED
      BY <1>1, <1>2, <1>3, <1>4 DEF Agents!Next

(* Whatever others do between its steps, an import reports what it did, and *)
(* does what a dry run said it would when nobody changed anything after it. *)
THEOREM ReportsAreTrue == AgentsGiven => (Agents!Spec => []Agents!ImportsReportTruly)
  <1> SUFFICES ASSUME AgentsGiven PROVE Agents!Spec => []Agents!ImportsReportTruly
      OBVIOUS
  <1>1. Agents!Init => ImportsInv
      BY InitImports
  <1>2. ImportsInv /\ [Agents!Next]_(Agents!vars) => ImportsInv'
      BY NextImports
  <1>3. ImportsInv => Agents!ImportsReportTruly
      BY ReportsFollow
  <1> QED
      BY <1>1, <1>2, <1>3, PTL DEF Agents!Spec

=============================================================================
