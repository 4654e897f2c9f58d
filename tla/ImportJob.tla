------------------------------ MODULE ImportJob ------------------------------
(***************************************************************************)
(* Vault imports: the jobs, the one worker loop that runs them, the        *)
(* checkpoint in a job's report, the watchdog, retries, the purge of old   *)
(* jobs, crashes and the recovery at boot (apps/server/src/import).        *)
(*                                                                         *)
(* A run of a job goes through the notes of the vault in order and makes a *)
(* document for each.  What it has processed is kept in memory and written *)
(* to the job row after every CheckpointEvery documents and at the end; a  *)
(* run of a retried job starts from what the row says.                     *)
(*                                                                         *)
(* Left out: the zip and its limits, folders and permissions (a run may    *)
(* fail at any step), and attachments, on which nothing here depends.      *)
(***************************************************************************)
EXTENDS Naturals, Sequences, FiniteSets

CONSTANTS
    Jobs,             \* the uploads that may be made
    Notes,            \* the notes of the vault, 1..n in the order of their paths
    SlugOf,           \* the slug of each note; two notes may have the same
    Policy,           \* the conflict policy of each job, "skip" or "rename"
    CheckpointEvery,  \* documents between two checkpoints
    MaxRetries,       \* retries of one job
    MaxCrashes,       \* crashes of the server
    MaxUserDocs       \* documents made by others

NoJob == "none"

ASSUME NotesAssumption == IsFiniteSet(Notes) /\ Notes = 1..Cardinality(Notes)
ASSUME JobsAssumption == NoJob \notin Jobs /\ IsFiniteSet(Jobs)
ASSUME PolicyAssumption == Policy \in [Jobs -> {"skip", "rename"}]
ASSUME CheckpointAssumption == CheckpointEvery \in Nat \ {0}

Slugs == {SlugOf[n] : n \in Notes}

VARIABLES
    importJob,   \* the ImportJob rows
    created,     \* the jobs with a row, in the order of createdAt
    document,    \* the live documents below the target folder
    worker,      \* the loop, and the run it is in
    server,      \* whether the process is up, and what it still has in hand
    crashes      \* crashes so far

vars == <<importJob, created, document, worker, server, crashes>>

Statuses == {"absent", "queued", "running", "done", "failed", "purged"}

(* processed: report.processedPaths.  stale: lastHeartbeatAt is older than *)
(* the timeout.  runs: how often the job was claimed.                      *)
Job == [status : Statuses, processed : SUBSET Notes, stale : BOOLEAN, runs : Nat]

(* The path of a document is its slug and the number appended to it; 1 is  *)
(* the slug alone.                                                         *)
Paths == Slugs \X (Nat \ {0})

(* A document remembers the job and the note it was made from.             *)
Document == [path : Paths, job : Jobs \cup {NoJob}, note : Notes \cup {0}]

Worker == [at : {"off", "find", "leave", "claim", "notes", "flush", "finish"},
           job : Jobs \cup {NoJob}, processed : SUBSET Notes, next : Nat \ {0},
           known : SUBSET Paths, unflushed : 0..CheckpointEvery]

(* uploading: requests that found no active job.  old: what a purge read.  *)
Server == [up : BOOLEAN, recovered : BOOLEAN, uploading : SUBSET Jobs, old : SUBSET Jobs]

TypeOK ==
    /\ importJob \in [Jobs -> Job]
    /\ created \in Seq(Jobs)
    /\ document \subseteq Document
    /\ worker \in Worker
    /\ server \in Server
    /\ crashes \in Nat

-----------------------------------------------------------------------------
Idle(at) == [at |-> at, job |-> NoJob, processed |-> {}, next |-> 1,
             known |-> {}, unflushed |-> 0]

Init ==
    /\ importJob = [j \in Jobs |->
                      [status |-> "absent", processed |-> {}, stale |-> FALSE, runs |-> 0]]
    /\ created = << >>
    /\ document = {}
    /\ worker = Idle("off")
    /\ server = [up |-> TRUE, recovered |-> FALSE, uploading |-> {}, old |-> {}]
    /\ crashes = 0

PathsTaken == {d.path : d \in document}

HasRow(j) == importJob[j].status \notin {"absent", "purged"}

(* kickImportWorker: nothing when the loop is going, whatever it has read. *)
Kick == worker' = IF worker.at = "off" THEN Idle("find") ELSE worker

-----------------------------------------------------------------------------
(* Requests.                                                               *)

(* One active job per user, all uploads being one user's.                  *)
UploadCheck(j) ==
    /\ server.up
    /\ importJob[j].status = "absent" /\ j \notin server.uploading
    /\ \A k \in Jobs : importJob[k].status \notin {"queued", "running"}
    /\ server' = [server EXCEPT !.uploading = @ \cup {j}]
    /\ UNCHANGED <<importJob, created, document, worker, crashes>>

(* The zip is stored, the row made, the worker kicked.                     *)
UploadCreate(j) ==
    /\ server.up
    /\ j \in server.uploading
    /\ server' = [server EXCEPT !.uploading = @ \ {j}]
    /\ importJob' = [importJob EXCEPT ![j].status = "queued"]
    /\ created' = Append(created, j)
    /\ Kick
    /\ UNCHANGED <<document, crashes>>

(* Mutant: a retry starts over.                                            *)
RetryResets(j) ==
    /\ server.up
    /\ importJob[j].status = "failed" /\ importJob[j].runs <= MaxRetries
    /\ importJob' = [importJob EXCEPT ![j].status = "queued", ![j].processed = {}]
    /\ Kick
    /\ UNCHANGED <<created, document, server, crashes>>

(* Only a failed job; its report is kept.                                  *)
Retry(j) ==
    /\ server.up
    /\ importJob[j].status = "failed" /\ importJob[j].runs <= MaxRetries
    /\ importJob' = [importJob EXCEPT ![j].status = "queued"]
    /\ Kick
    /\ UNCHANGED <<created, document, server, crashes>>

(* Somebody else makes a document where an import may want one.            *)
UserCreates(s) ==
    /\ server.up
    /\ <<s, 1>> \notin PathsTaken
    /\ Cardinality({d \in document : d.job = NoJob}) < MaxUserDocs
    /\ document' = document \cup {[path |-> <<s, 1>>, job |-> NoJob, note |-> 0]}
    /\ UNCHANGED <<importJob, created, worker, server, crashes>>

-----------------------------------------------------------------------------
(* The worker loop.  Each step ends with the answer of the database.       *)

Queued == {i \in DOMAIN created : importJob[created[i]].status = "queued"}

(* The oldest queued job, or none; in that case the loop is about to end.  *)
Find ==
    /\ worker.at = "find"
    /\ \/ Queued = {} /\ worker' = Idle("leave")
       \/ \E i \in Queued : /\ \A k \in Queued : i <= k
                           /\ worker' = [Idle("claim") EXCEPT !.job = created[i]]
    /\ UNCHANGED <<importJob, created, document, server, crashes>>

Leave ==
    /\ worker.at = "leave"
    /\ worker' = Idle("off")
    /\ UNCHANGED <<importJob, created, document, server, crashes>>

(* Mutant: a run starts without what the report says.                      *)
ClaimForgets ==
    LET j == worker.job IN
    /\ worker.at = "claim"
    /\ IF importJob[j].status = "queued"
       THEN /\ importJob' = [importJob EXCEPT ![j].status = "running", ![j].stale = FALSE,
                                              ![j].runs = @ + 1]
            /\ worker' = [worker EXCEPT !.at = "notes", !.known = PathsTaken]
       ELSE /\ worker' = Idle("find")
            /\ UNCHANGED importJob
    /\ UNCHANGED <<created, document, server, crashes>>

(* queued -> running, if it is still queued; then what its report says and *)
(* the paths that exist now, which the run remembers.                      *)
Claim ==
    LET j == worker.job IN
    /\ worker.at = "claim"
    /\ IF importJob[j].status = "queued"
       THEN /\ importJob' = [importJob EXCEPT ![j].status = "running", ![j].stale = FALSE,
                                              ![j].runs = @ + 1]
            /\ worker' = [worker EXCEPT !.at = "notes", !.processed = importJob[j].processed,
                                        !.known = PathsTaken]
       ELSE /\ worker' = Idle("find")
            /\ UNCHANGED importJob
    /\ UNCHANGED <<created, document, server, crashes>>

(* The number appended to the slug of n: none under skip, the first that   *)
(* is free under rename.                                                   *)
NumberFor(n, k) ==
    \/ Policy[worker.job] = "skip" /\ k = 1
    \/ /\ Policy[worker.job] = "rename"
       /\ <<SlugOf[n], k>> \notin worker.known
       /\ \A i \in 1..(k - 1) : <<SlugOf[n], i>> \in worker.known

(* Already processed, or there is such a document and the policy is skip.  *)
Passed(n) ==
    \/ n \in worker.processed
    \/ Policy[worker.job] = "skip" /\ <<SlugOf[n], 1>> \in worker.known

PassNote ==
    LET n == worker.next IN
    /\ worker.at = "notes" /\ n \in Notes /\ Passed(n)
    /\ worker' = [worker EXCEPT !.next = n + 1, !.processed = @ \cup {n}]
    /\ UNCHANGED <<importJob, created, document, server, crashes>>

(* The unique index refuses a path that was taken since; see RunFails.     *)
MakeDocument ==
    LET n == worker.next IN
    /\ worker.at = "notes" /\ n \in Notes /\ ~Passed(n)
    /\ \E k \in 1..(Cardinality(worker.known) + 1) :
          LET path == <<SlugOf[n], k>> IN
          /\ NumberFor(n, k)
          /\ path \notin PathsTaken
          /\ document' = document \cup {[path |-> path, job |-> worker.job, note |-> n]}
          /\ worker' = [worker EXCEPT !.next = n + 1, !.processed = @ \cup {n},
                                      !.known = @ \cup {path}, !.unflushed = @ + 1,
                                      !.at = IF worker.unflushed + 1 = CheckpointEvery
                                             THEN "flush" ELSE "notes"]
    /\ UNCHANGED <<importJob, created, server, crashes>>

(* A checkpoint is due after so many documents, and after the last note.   *)
FlushDue == worker.at = "flush" \/ (worker.at = "notes" /\ worker.next \notin Notes)

(* Mutant: the checkpoint also has the note the run is about to make.      *)
FlushAhead ==
    LET j == worker.job IN
    /\ FlushDue /\ HasRow(j)
    /\ importJob' = [importJob EXCEPT ![j].processed = {n \in Notes : n <= worker.next},
                                      ![j].stale = FALSE]
    /\ worker' = [worker EXCEPT !.unflushed = 0,
                                !.at = IF worker.next \in Notes THEN "notes" ELSE "finish"]
    /\ UNCHANGED <<created, document, server, crashes>>

(* Mutant: the count of documents since the last checkpoint goes on.       *)
FlushKeepsCount ==
    LET j == worker.job IN
    /\ FlushDue /\ HasRow(j)
    /\ importJob' = [importJob EXCEPT ![j].processed = worker.processed, ![j].stale = FALSE]
    /\ worker' = [worker EXCEPT !.at = IF worker.next \in Notes THEN "notes" ELSE "finish"]
    /\ UNCHANGED <<created, document, server, crashes>>

(* The checkpoint, in a row that is there, whatever its status is by now.  *)
Flush ==
    LET j == worker.job IN
    /\ FlushDue /\ HasRow(j)
    /\ importJob' = [importJob EXCEPT ![j].processed = worker.processed, ![j].stale = FALSE]
    /\ worker' = [worker EXCEPT !.unflushed = 0,
                                !.at = IF worker.next \in Notes THEN "notes" ELSE "finish"]
    /\ UNCHANGED <<created, document, server, crashes>>

(* done, whatever the watchdog or a retry has made of the status.          *)
Finish ==
    LET j == worker.job IN
    /\ worker.at = "finish" /\ HasRow(j)
    /\ importJob' = [importJob EXCEPT ![j].status = "done", ![j].processed = worker.processed]
    /\ worker' = Idle("find")
    /\ UNCHANGED <<created, document, server, crashes>>

(* Any step of a run may throw: the zip, a permission, the unique index, a *)
(* row that is gone.  failed, with the report as of the last checkpoint.   *)
RunFails ==
    LET j == worker.job IN
    /\ worker.at \in {"notes", "flush", "finish"}
    /\ importJob' = IF HasRow(j) THEN [importJob EXCEPT ![j].status = "failed"] ELSE importJob
    /\ worker' = Idle("find")
    /\ UNCHANGED <<created, document, server, crashes>>

(* An error outside of a run ends the loop.                                *)
LoopFails ==
    /\ worker.at \in {"find", "claim"}
    /\ worker' = Idle("off")
    /\ UNCHANGED <<importJob, created, document, server, crashes>>

Work == Find \/ Leave \/ Claim \/ PassNote \/ MakeDocument \/ Flush \/ Finish

-----------------------------------------------------------------------------
(* Every minute: the watchdog, then the purge of jobs finished long ago.   *)

HeartbeatAges(j) ==
    /\ importJob[j].status = "running" /\ ~importJob[j].stale
    /\ importJob' = [importJob EXCEPT ![j].stale = TRUE]
    /\ UNCHANGED <<created, document, worker, server, crashes>>

(* Mutant: the watchdog leaves a job alone while the loop is going.        *)
WatchdogTrustsWorker ==
    /\ server.up /\ worker.at = "off"
    /\ \E j \in Jobs : importJob[j].status = "running" /\ importJob[j].stale
    /\ importJob' = [j \in Jobs |->
          IF importJob[j].status = "running" /\ importJob[j].stale
          THEN [importJob[j] EXCEPT !.status = "failed"] ELSE importJob[j]]
    /\ UNCHANGED <<created, document, worker, server, crashes>>

Watchdog ==
    /\ server.up
    /\ \E j \in Jobs : importJob[j].status = "running" /\ importJob[j].stale
    /\ importJob' = [j \in Jobs |->
          IF importJob[j].status = "running" /\ importJob[j].stale
          THEN [importJob[j] EXCEPT !.status = "failed"] ELSE importJob[j]]
    /\ UNCHANGED <<created, document, worker, server, crashes>>

PurgeRead ==
    /\ server.up /\ server.old = {}
    /\ \E S \in SUBSET {j \in Jobs : importJob[j].status \in {"done", "failed"}} :
          S # {} /\ server' = [server EXCEPT !.old = S]
    /\ UNCHANGED <<importJob, created, document, worker, crashes>>

(* The row goes by its id, though it may have been retried since.          *)
PurgeDelete(j) ==
    /\ j \in server.old
    /\ server' = [server EXCEPT !.old = @ \ {j}]
    /\ importJob' = [importJob EXCEPT ![j].status = "purged"]
    /\ UNCHANGED <<created, document, worker, crashes>>

-----------------------------------------------------------------------------
Crash ==
    /\ server.up /\ crashes < MaxCrashes
    /\ crashes' = crashes + 1
    /\ server' = [up |-> FALSE, recovered |-> FALSE, uploading |-> {}, old |-> {}]
    /\ worker' = Idle("off")
    /\ UNCHANGED <<importJob, created, document>>

(* Requests are served before the recovery is through.                     *)
Boot ==
    /\ ~server.up
    /\ server' = [server EXCEPT !.up = TRUE]
    /\ UNCHANGED <<importJob, created, document, worker, crashes>>

(* failInterruptedImportJobs, which takes every running job for one that   *)
(* was interrupted, and the kick that follows.                             *)
Recover ==
    /\ server.up /\ ~server.recovered
    /\ server' = [server EXCEPT !.recovered = TRUE]
    /\ importJob' = [j \in Jobs |-> IF importJob[j].status = "running"
                                    THEN [importJob[j] EXCEPT !.status = "failed"]
                                    ELSE importJob[j]]
    /\ Kick
    /\ UNCHANGED <<created, document, crashes>>

Next ==
    \/ \E j \in Jobs : \/ UploadCheck(j) \/ UploadCreate(j) \/ Retry(j)
                       \/ HeartbeatAges(j) \/ PurgeDelete(j)
    \/ \E s \in Slugs : UserCreates(s)
    \/ Work \/ RunFails \/ LoopFails
    \/ Watchdog \/ PurgeRead
    \/ Crash \/ Boot \/ Recover

Spec == Init /\ [][Next]_vars

(* The server is started again, its timer ticks and time passes.  Nothing  *)
(* is assumed of the worker, which may hang.                               *)
FairSpec ==
    /\ Spec
    /\ WF_vars(Boot) /\ WF_vars(Watchdog)
    /\ \A j \in Jobs : WF_vars(HeartbeatAges(j))

-----------------------------------------------------------------------------
(* Properties.                                                             *)

MadeFrom(j, n) == {d \in document : d.job = j /\ d.note = n}

Imported(j, n) ==
    \/ MadeFrom(j, n) # {}
    \/ Policy[j] = "skip" /\ <<SlugOf[n], 1>> \in PathsTaken

(* A job says done only when every note of the vault has become a          *)
(* document, or was skipped for one that has its path: across crashes,     *)
(* retries that start from a checkpoint, and a run that ends after the     *)
(* watchdog or the recovery gave it up (vault.ts:382).                     *)
DoneMeansImported ==
    \A j \in Jobs : importJob[j].status = "done" => \A n \in Notes : Imported(j, n)

(* What holds of the run that is going on, and why a job that is done is   *)
(* imported: what a run counts as processed has been imported, a           *)
(* checkpoint is what some run had processed, and a run that comes to its  *)
(* end has processed every note.                                           *)
InRun == worker.at \in {"notes", "flush", "finish"}

RunOK ==
    /\ InRun \/ worker.at = "claim" => worker.job \in Jobs
    /\ worker.at = "claim" => worker.next = 1 /\ worker.unflushed = 0
    /\ worker.at = "notes" => worker.unflushed < CheckpointEvery
    /\ worker.at = "finish" => worker.next \notin Notes
    /\ worker.known \subseteq PathsTaken
    /\ InRun => /\ \A n \in Notes : n < worker.next => n \in worker.processed
                /\ \A n \in worker.processed : Imported(worker.job, n)
                /\ importJob[worker.job].processed \subseteq worker.processed

CheckpointsImported == \A j \in Jobs : \A n \in importJob[j].processed : Imported(j, n)

(* A run and the checkpoints never claim more than was imported.           *)
IInv == TypeOK /\ RunOK /\ CheckpointsImported /\ DoneMeansImported

Interruptions(j) == IF importJob[j].runs = 0 THEN 0 ELSE importJob[j].runs - 1

(* What an interrupted rename import makes twice is at most what one       *)
(* interruption loses, the documents since the last checkpoint, summed     *)
(* over its interruptions: nothing the checkpoint has is made again        *)
(* (vault.ts:6, routes.ts:145).                                            *)
RepeatsAreBounded ==
    \A j \in Jobs :
        Cardinality({d \in document : d.job = j})
            <= Cardinality({n \in Notes : MadeFrom(j, n) # {}})
               + CheckpointEvery * Interruptions(j)

(* Why the repeats are bounded.  What was made of a vault and is not in    *)
(* the checkpoint comes first among what the checkpoint does not have, and *)
(* is no more than lies between two checkpoints; the next run, which goes  *)
(* the same way, repeats it once, and all that is ahead of it is what it   *)
(* may still repeat.                                                       *)
DocumentsOf(j) == {d \in document : d.job = j}
Made(j) == {n \in Notes : MadeFrom(j, n) # {}}
Lost(j) == Made(j) \ importJob[j].processed
Ahead(j) == IF InRun /\ worker.job = j THEN Lost(j) \ worker.processed ELSE {}

SkipsRepeatNothing(j) ==
    /\ \A d \in DocumentsOf(j) : d.path = <<SlugOf[d.note], 1>>
    /\ Cardinality(DocumentsOf(j)) <= Cardinality(Made(j))

LostComeFirst(j) ==
    /\ \A n \in Lost(j) : \A m \in Notes \ importJob[j].processed : m < n => m \in Lost(j)
    /\ Cardinality(Lost(j)) <= CheckpointEvery

RepeatsCounted(j) ==
    Cardinality(DocumentsOf(j)) + Cardinality(Ahead(j))
        <= Cardinality(Made(j)) + CheckpointEvery * Interruptions(j)

(* What a run has processed since the last checkpoint, it has made.        *)
Fresh(j) == worker.processed \ importJob[j].processed

RunCounts(j) ==
    InRun /\ worker.job = j =>
        /\ importJob[j].runs > 0
        /\ Policy[j] = "rename" =>
             Fresh(j) \subseteq Made(j) /\ Cardinality(Fresh(j)) <= worker.unflushed

JobCounts(j) ==
    /\ importJob[j].runs = 0 => DocumentsOf(j) = {}
    /\ RunCounts(j)
    /\ Policy[j] = "skip" => SkipsRepeatNothing(j)
    /\ Policy[j] = "rename" => LostComeFirst(j) /\ RepeatsCounted(j)

RepeatsInv == IInv /\ IsFiniteSet(document) /\ \A j \in Jobs : JobCounts(j)

(* No step makes a document for a note that the job's checkpoint has.      *)
CheckpointIsFinal ==
    [][\A j \in Jobs : \A n \in importJob[j].processed : MadeFrom(j, n)' = MadeFrom(j, n)]_vars

(* A job does not stay running for ever, though the worker may hang and    *)
(* the server crash (vault.ts:350).                                        *)
RunningJobsEnd ==
    \A j \in Jobs : importJob[j].status = "running" ~> importJob[j].status # "running"
=============================================================================
