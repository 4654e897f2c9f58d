# PageDen: specification, model checking and proofs

PageDen keeps Markdown documents in workspaces.  A Fastify server
(`apps/server`) stores their rows in Postgres through Prisma and their contents
in an object store; a React application, an Obsidian plugin and agents behind an
MCP endpoint read and write the same documents at once.  This directory holds
TLA+ modules of the parts where things happen concurrently, the TLC
configurations that check them on small instances, and proofs that TLAPS checks.

Everything is translated from the code.  `PROJECT.json` maps every definition to
the lines it models, lists the runs, the theorems, the known hazards and the
places where the code and its comments disagree.

## 1. The system

| Part | State | Operations | Talks to | What is hard |
|---|---|---|---|---|
| Document writes (`documents/routes.ts`, MCP tools) | Document row, DocumentRevision rows | put, push, section and decision writes, append, upsert, promote, finalize, restore, delete, label and pin | object storage, permissions, audit | every handler reads before its transaction; only the row lock and the base version decide |
| Object storage (`storage.ts`, `storage/*`) | objects by checksum and workspace, their age | write, reuse, copy, sweep of orphans | every writer; the database for references | objects are stored before the transaction that refers to them; the sweep holds no lock |
| Revision retention (`revision-retention.ts`) | `prunedAt` of revisions | prune collapsed bursts | sweep, restore, transfer | reads rows, updates them later |
| Workspace transfer (`workspace-transfer.ts`) | keys of revisions, workspace of documents and folders | copy, re-key | storage, folder tree | the copy precedes the transaction |
| Account deletion (`account-deletion.ts`) | sole workspaces, objects under their prefix | preview, code, delete | storage | preview and removal are outside the transaction |
| Folder tree (`folders/routes.ts`, `db.ts`) | Folder and Document rows, parents, stored paths | create, rename, move, transfer, delete, empty | import, MCP tools | paths are copies; the advisory lock is chosen before it is held |
| Lists of events (`insights.ts`, `admin/routes.ts`, `audit-log-page.tsx`, `workspace-activity.tsx`) | the pages a reader has loaded, the cursor | ask, load more, filter, export | audit events, retention | the cursor names a row or a time; events commit out of order; answers come late |
| Imports by agents (`mcp/routes.ts`) | none; folders and documents by path | import a tree, dry run, upsert, start a plan | folder tree, document writes | one transaction per file, reports made before the writes |
| Audit chain (`workspaces/audit-log.ts`) | events, checkpoints | write, seal, prune, verify | timers, admins | nothing is locked; commit order is not creation order |
| Permissions (`permissions/*`) | grants, groups, folder defaults, memberships | resolve, replace, grant, revoke | every handler | two resolvers must agree; replacements race |
| Vault import (`import/*`) | ImportJob rows, cached folders | queue, claim, checkpoint, time out, retry | folder tree, storage | single-flight worker, watchdog, crash and retry |
| Obsidian sync (`obsidian-plugin/src`) | notes, metadata per note, conflict files | pull, push, create, attachments | document API | two sources of truth, edits during a pass, crashes between two writes |
| Device authorization (`device/routes.ts`) | requests by device code | create, poll, approve, deny, clean up | tokens | a token is minted once |
| Workspaces and accounts (`routes.ts`, `admin/routes.ts`, `workspaces/domains.ts`) | users, memberships, groups, hosts, linked Google accounts | sign up, sign in with Google, invite, group, subdomain, custom domain, delete | permissions, every handler | two writes for one fact; a host must lead to one workspace before and after sign-in |
| Integrations, claims, comments, cursors, shares | single rows each | check, then create or update | document API | checks without locks |
| Planning (`mcp/routes.ts`, `documents/routes.ts`, `planning-review-panel.tsx`) | the workflow in a document's frontmatter, sections, decisions; comments | start, review, transition, decide, finalize | document writes, comments | the state is text that everybody edits; comments change without a version |
| Reading (`search/service.ts`, `mcp/routes.ts`, `ai-readiness.ts`, `relationships.ts`, `wikilinks.ts`) | none | search, answer, read in chunks, list, follow and rewrite links | every writer | a request reads in many steps while others write; three parts resolve links, each in its own way |
| Markdown edits (`headings.ts`, `sections.ts`, `decisions.ts`, `handoff.ts`, `diff.ts`) | none | find sections, splice, parse and add decisions, diff | document writes | three line scanners must agree on code blocks |
| Live rooms (`live/routes.ts`) | Yjs documents in memory | join, relay, leave | browser, plugin | close before join |
| Web application | draft and base version of the editor | edit, autosave, retry after a conflict | document API | the retry replaces what it has not shown |

The rest (administration of servers, mail,
analytics, landing page, bridge and shim) does single-row updates or pure
computation.  `PROJECT.json` lists every component with its status.

What makes each part correct:

* Document writes: no update is lost; content computed by the server was computed
  from the version it replaces; drafts and superseded documents are only
  overwritten by those who opted in; version numbers are gapless; the row denotes
  the newest revision; answers tell what happened.
* Storage: what a readable revision refers to is stored; orphans go away.
* Folder tree: no cycles; paths follow parents; nothing live under something
  deleted; no deadlock.
* Audit chain: an alarm means something.
* Plans: one that is final was complete in the version it replaced.  Section and
  decision edits leave the other sections as they were.
* Permissions: both resolvers agree; a cap holds on every path; replacing grants
  leaves the grants of one request.
* Import and sync: no note twice, none lost, no local edit overwritten.
* Lists, searches and reports: what was there throughout is shown, once and in order; an
  import's report tells what it did; those who resolve links agree.

## 2. Modules

| Module | Models | Role |
|---|---|---|
| `VersionedDocument` | what the document API promises | abstract specification |
| `DocumentWrite` | the write path of one document | implements `VersionedDocument` |
| `DocumentWriteProofs` | | theorems about `DocumentWrite` |
| `ObjectStorage` | objects, writers, sweep, pruning, erasure | component |
| `ObjectStorageProofs` | | theorems about `ObjectStorage` and `Reading` |
| `FolderTree` | the folder and document tree of the workspaces | component |
| `FolderTreeProofs` | | theorems about `FolderTree` |
| `AuditChain` | events, checkpoints, retention, verification | component |
| `AuditChainProofs` | | theorems about `AuditChain` and `Timelines` |
| `ImportJob` | vault imports: jobs, worker, checkpoints, watchdog, recovery | component |
| `ImportJobProofs` | | theorems about `ImportJob` and `AgentImports` |
| `Timelines` | the activity feed, the audit log and the administrator's list, read in pages | component |
| `AgentImports` | imports, upserts and dry runs of agents by path | component |
| `Reading` | searching, listing, reading and citing documents; links and their rewriting | component |
| `Permissions` | grants, groups, defaults, scopes; both resolvers; the routes that change grants | component |
| `Accounts` | passwords, sessions, one-time codes, API tokens, device pairing | component |
| `ServicesProofs` | | theorems about `Permissions`, `Accounts`, `Collaboration` and `Workspaces` |
| `OutsideProofs` | | theorems about `Integrations`, `PlanningWorkflow` and `PublicShares` |
| `Integrations` | connect sessions, account links, the REST actions of an integration | component |
| `PublicShares` | public links, the workspace's switch, visits | component |
| `Collaboration` | claims, comments, read cursors, unread lists | component |
| `ObsidianSync` | one synced note of the plugin and its document | component |
| `AttachmentSync` | the attachments of the plugin's notes, and those who change them | component |
| `LiveEditing` | the web editor, the plugin's live view, the room they share | component |
| `ClientsProofs` | | theorems about `ObsidianSync`, `LiveEditing` and `AttachmentSync` |
| `Workspaces` | sign-up, Google sign-in, members, groups, hosts, deletion of accounts | component |
| `PlanningWorkflow` | plans of several agents: reviews, transitions, decisions, finalization | component |
| `MarkdownText` | sections, decisions and differences of Markdown texts | algorithms, checked on all short texts |
| `MCServices` | `Permissions`, `PublicShares`, `Integrations`, `Accounts`, `Collaboration`, `PlanningWorkflow`, `MarkdownText`, `Workspaces`, one at a time | instances for TLC |
| `MCClients` | `ObsidianSync`, `AttachmentSync` and `LiveEditing`, one at a time | instances for TLC |
| `MCWriters` | `DocumentWrite` and `AgentImports`, one at a time | instances for TLC |
| `MCReaders` | `ObjectStorage` and `Reading`, one at a time | instances for TLC |
| `MCAuditChain` | `AuditChain` and `Timelines`, one at a time | instances for TLC |
| `MCFolderTree` | `FolderTree` with one workspace and with two | instances for TLC |
| other `MC...` | | instances for TLC |

A module such as `MCServices` has a variable `part` that is set once: a behaviour is
a behaviour of one instance, and the variables of the others do not change.  Each
instance keeps the specification of its module as it is.

### DocumentWrite

One document, any number of requests, each handled once.  A request is a record
(`req`) and a program counter (`pc`) that follows its handler:

    idle -> status | body -> (comments) -> preflight -> locking -> commit -> done

* `Arrive...` is the request with its parameters; a client can only name a
  version that exists.
* `ReadStatus`, `ReadFor...` are the reads a handler makes before the shared
  write path; what they read is kept in the request and may be stale later.
* `Preflight` is `applyDocumentWrite` up to its transaction.  `PreflightVerdict`
  and `TxVerdict` are the order of its refusals.
* `TxBegin` waits for `SELECT ... FOR UPDATE`, reads again and decides;
  `TxCommit`, `TxDelete` write everything; `TxRollback` is any failure.
* `ChangeRole`, `AddComment`, `ResolveComment`, `MarkRevision` are the changes
  others make without the row lock.

A content is a text and a status line, and a checksum stands for the content, so
the noop and conflict branches are taken when they would be.  Each revision
carries as history what its request had seen, its base, and whether it opted in;
properties and proofs relate them.  `VersionedDocument` forgets all of that: an
append-only list of versions, a client that names the version it replaces, an
answer.  `API` is the refinement mapping.

### ObjectStorage

An object is a workspace and a content; it is absent, fresh or old (past the
grace period).  `Put`, `PutNext`, `Create`, `Touch` are the steps of storing:
the file system looks first and then creates or refreshes, S3 overwrites.
`CommitWrite`, `CommitRestore`, `CommitTransfer` are the transactions.  The sweep
lists (`ListObjects`), reads references (`ReadReferences`), judges and removes
one object after the other, and may stop half-way (`AbortSweep`).  `Age` is time.
`ReadCollapsed` and `MarkPruned` are the two statements of pruning, `SetKept`
pins.  `EraseWorkspace`, `ListPrefix`, `RemovePrefixed` are account deletion.
`orphaned` is history: the keys some state saw old and unreferenced.

### FolderTree

Folders and documents are rows of one function `node` with state, workspace,
parent, slug and stored path.  A request looks at its row (`Begin...`), takes the
advisory locks of the workspaces it saw in sorted order (`Lock`), checks under
them (`TxRead`) and writes (`TxWrite`), unless it fails.  `Accepted` is what the
unique indexes and foreign keys let through; a refused write changes nothing.
`Cascade` is `cascadePaths`, `Attached` what the foreign keys take along.  What a
request read before its lock (workspace, a folder's slug, the path an import
worker remembers) is what it uses afterwards, where the code does.

### AuditChain

Events are numbered by `(createdAt, id)`.  An event is open until its transaction
commits.  A hash is the sequence of what it covers, so two hashes are equal only
if the histories are.  Sealing is three steps, pruning one per workspace,
verification one per checkpoint; they interleave freely because the code takes no
lock.

### Timelines

Events with a time, committed in any order; a reading is a page component with its
rows, cursor, filter and the request in flight.  `QueryRows` and `ReadDocuments` are the
two reads of the activity route, which drops what the reader may not see after the second
(`VisibleOf`).  Neighbours that the activity joins in one row keep their ids in it and
count as two events here.  `Before` and `Below` are the two kinds of cursor: a
time, and a row with its id.  `Prune` is retention, `Enter` a change of the filter.

### AgentImports

`folder` and `doc` are the tree by paths.  A file of an import goes `predict -> lookup ->
update | create | foresee`, and its end appends an outcome to the report; an upsert and a
plan start at `lookup`, `createDocument` at `insert`.  `Create` is the transaction with
the folders in it.  Others add and remove folders, save, delete, and change the agent's
role and scope in between.  `made` (folders), `wrote` (documents, each with the number of its
file), `elsewhere` and `foretold` are history.

### Reading

A document is a row with its role, title, slug and the contents of its versions; a content
is the set of its links.  One request goes through pages of a search, through the documents
it reads, cites or rewrites, or through the workspaces it lists, and `Save`, `Delete` and
`Grant` of others come between any two of its steps.  Rows come in any sequence their `ORDER BY`
allows: by rank, age and id in a search, which leaves no choice, by age alone in `RecentIn` and
`DecisionsIn`, which leaves ties open.  `RecentIn`, `DecisionsIn` and `DocumentsIn` answer for one workspace,
`MergeRecent`, `MergeDecisions` and `MergeDocuments` put the answers together.  `Trails` says what a
link becomes while a rewrite replaces the pairs one after the other.  A name is a base that may be written
with typographic characters: `Unknown` (lint's count and the readiness score) and
`ReferencedBy` (the panel) compare names as they are, `Resolves` (the lint) also without.
`touched`, `slipped` and `saved` are history: what changed while the request ran, what
moved over to a page already read, and which versions are somebody else's.

For backlinks the panel looks at a limited number of documents (`BacklinkCap`, 250 in the code)
in no particular order, so `Scans` has every set of that size that it may come upon.  A rewrite
chooses documents by role (`StartRewrite`); each write is then checked as every write is, so an
agent's token is refused outside of the folder agents may edit in (`InScope`, `MayWrite`).  `Rescope`
moves a document into that folder or out of it, or sets the folder anew.  Content that is
referred to is assumed to be readable: the code passes over a document whose content is not.  What
reading does to the reader's cursor is in `Collaboration`.

### ImportJob

`importJob` holds the rows, `worker` the loop of `kickImportWorker` and the run it
is in, which exists in memory only.  The loop goes `find -> claim -> notes <->
flush -> finish -> find`, or `find -> leave -> off` when its read found nothing
queued; each step ends with an answer of the database, and everything else may
happen in between.  `MakeDocument`, `PassNote` and `Flush` are the loop over the
notes, `RunFails` is any exception in a run, `LoopFails` one outside.  A kick does
nothing when the loop is going.  `Watchdog` and `Recover` set `failed` while the
run they give up may still go on; `Finish` sets `done` whatever the status is by
then, and `PurgeDelete` removes a row it looked at earlier.  Paths are pairs of a
slug and the number a rename appends, so that equal slugs and documents of others
collide as they do in the code.

### Permissions

`grant` is a function of subject and resource, because the pair is unique.
`ResolveDocumentRole` and `ResolveFolderRole` follow `permissions/index.ts`, which
walks up from one folder; `WorkspaceFolderRole` and `WorkspaceDocumentRole` follow
`resolver.ts`, which loads the rows of a workspace; `DialogRole` is the role that
the access dialog computes in a third way.  A route that changes grants authorizes
and reads in its first step (`AddCheck`, `UpdateCheck`, `RemoveCheck`, `EmailCheck`,
`ReplaceCheck`) and writes in another (`WriteRow`; `ReplaceDelete`, `ReplaceWait`,
`ReplaceInsert`): at READ COMMITTED a delete sees the rows committed when it starts,
waits for the deletes of others, and leaves what came later.

### Accounts

`account` has the password and `sessionVersion`, `cookie` the sealed sessions.  A
handler's reads, its slow verification and its writes are separate steps; a
conditional update and a transaction are one.  `code` holds the rows of the three
one-time code tables, `device` those of `DeviceAuthRequest`, `plugin` what the
plugin that polls knows.  `spent` and `granted` are history.

### Integrations

`session` and `link` are the rows of connect sessions and account links, `revision`
the document an integration reads and writes.  An action authenticates, looks up
the link, finds the document, reads the content and writes; each is a step.  Writes
end in `WriteFrom`, which is `applyDocumentWrite` as `DocumentWrite` has it, in one
step.

### PublicShares

A visit (`resolveValidShare`, then the document, or the folder and its documents) is
a sequence of reads while members change what is shared.  `bars` is history: for
each visit and document, the reasons that hid the document at every moment so far.

### Collaboration

Claims, comments and cursors as rows; no handler opens a transaction.  The columns
by which `claims.ts` excludes an actor's own claims are nullable, and the module
keeps what SQL makes of that.  `readDocument` sets the cursor, and most tools that are about
one document call it.  `TouchReadCursor` and `WorkOn` are that call with what follows: the whole
document is returned (`"read"`), or a part of it, its headings, counts or a citation (`"inspect"`), or
something is written, from the text read (`"append"`) or on a base the client names (`"edit"`).
That is `Write`, which may be refused after the cursor has moved.  `given` and `used` are
history: the versions whose content an actor was given, and those a tool worked on for it.

### PlanningWorkflow

A plan's content is what the readiness checks read out of it: the status, the step and
round in the frontmatter, three of the required sections, whether a question is open,
and the decision `final-plan`.  `PlaceholderForWeb` and `PlaceholderForMcp` are the two
readings of a section, which differ in where it ends.  A request reads (`ReadFor...`),
reads the comments (`ReadComments`), and writes with the base its client named (`Write`,
`applyDocumentWrite` in one step).  The panel shows a packet that may be of another
version than the content it edits.  `ignored` is history: the comments open from the
request's arrival until its write.

### Workspaces

`user`, `space`, `member`, `linked` and `group` are the tables.  A handler checks in
one step (`Begin...`) and writes in another (`Commit...`), where the unique columns and
foreign keys may refuse; a Google sign-in finds, links and confirms in separate writes.
`At`, `Shown` and `Contexts` are the three places that find a workspace for a host.
`crossed`, `late` and `taken` are history about deletions.

### MarkdownText

A text is a sequence of lines, a line is what the parsers tell apart.  The loops over
lines are folds; the longest common subsequence of the diff is a recursive function.
The edits of a text are actions, so that what they keep is a property of steps.  The texts of a
decision and its reason are written as they come, so `Bodies` has lines that are marks, headings or
markers of code; the property claims nothing of a decision whose own text is not plain
(`PlainInside`, section 5).

### ObsidianSync, LiveEditing

`ObsidianSync` has a note, its conflict file, its entry in `.server-meta.json`, the
document's versions, and tasks: the pass of the runner, debounced pushes and the
user's commands.  A task's steps end where the code awaits.  `LiveEditing` has the
document, the room, and per editor its draft, base version and save in flight; a
text is the set of edits in it, so that merging is union, which is what is assumed
of Yjs.

### AttachmentSync

`run` is one call of `syncDocumentAttachments`: it lists (`List`), goes through the entries
without a reference or file (`CheckGone`, `DeleteGone`), through what the server has
(`CheckNext`, `Download`) and through what the note refers to (`Upload`, `DropOld`), and a
refused or failed call ends it (`Ends`), as a conflict when the run belongs to a push.
Entries keep their order (`nth`), because the last of two with one path counts.  People upload,
delete and link on the web, and change files and notes, between any two steps.  `author` and
`shared` are history: who a file is from, and the paths of two attachments at once.

## 3. Runs

| Run | Instance | Checks |
|---|---|---|
| `document_writes` | 2 requests of the 7 content writers, 1 user, 2 texts, 3 statuses; imports of up to 2 files into 2 levels of folders, and an upsert, plan or creation against an import, with a change by others | `HistoryIsLinear`, `DerivedFromPredecessor`, `OptInOnlyForDrafts`, `ImportsReportTruly` |
| `document_requests` | 2 requests of all 10 endpoints, a user whose role changes, 1 text, 2 statuses | `RowReflectsHead`, `AnswersMatchRevisions`, `ImplementsVersionedDocument`, `EveryRequestAnswered` |
| `document_bursts` | 3 saves or restores, 2 users, 2 texts | `BurstGroupsAreContiguous` |
| `storage_reads` | 1 document with a burst, 3 texts, 2 workspaces, 2 requests, file system; readings: 3 documents searched, 4 listed in 2 workspaces, in pairs of one age, 2 linked | `FreshContentSurvives`, `BurstKeepsNewest`, `ReadsTellTruth` |
| `storage_erase` | 2 documents, 2 workspaces, 1 request, S3, a sweep that may fail | `FreshContentSurvives`, `OrphansAreCollected` |
| `folders` | 4 folders, 2 requests; 1 workspace with 2 documents, and 2 workspaces with transfers | `PathsFollowParents`, `NothingUnderDeleted`, `NoCycles`, `TransfersEnd` |
| `audit_alarms` | 3 events, 2 checkpoints, timer and admin, 1 workspace and account events; readings of the three lists | `AlarmIsExplained`, `PagesTellAll` |
| `import_jobs` | 2 uploads, one of each policy, 2 notes of one slug, a checkpoint after every document, 1 retry each, 1 crash, 1 document of somebody else | `DoneMeansImported`, `RepeatsAreBounded`, `CheckpointIsFinal`, `RunningJobsEnd` |
| `services` | eight modules in twenty instances, see below | twelve, see below |
| `clients` | 1 note, 2 texts, a pass and one other task; attachments of 1 note under 3 changes, of 2 notes, one of them read-only, under 1; 2 editors, 2 edits | `SeenBeforeReplaced`, `OrdinarySavesKeep`, `DeletedByChoice`, `ClientsSettle` |
| `shares_manual` (violation) | a shared folder, 2 workspaces, 1 visit | `ManualIsItsSubtree` |
| `obsidian_permission` (violation) | 1 note, a pass and one other task | `PermissionReconciled` |

`services` has these instances: `roles` (every configuration of two nested folders, a
document, a user of any workspace role, a group: 1 state each), `admin` and `grants`
(the same tree, with rows changed by administration and by one request);
`hidden`, `granted`, `moved` (visits while links are withdrawn, made, and folders
transferred); `connecting`, `writing`, `administered` (three confirmations of two
users; two writes; administration); `signin` (one user, three requests, two codes,
one device); `agents`, `demoted` (two agents and a web user on one document), `tracked` (an agent's three
requests, of every kind of tool that moves a cursor, and revisions by others);
`planning`, `panel` (two requests on a plan of up to three versions, with a comment);
`hosting`, `inviting`, `signingup` (two requests on hosts and domains, on members, groups
and deletions, and on sign-ups by form and by Google, with three rows of users);
`sections` (an edit of any text of at most three lines of ten kinds, or five lines of
four kinds), `texts` (the difference of any two texts of at most four and three lines).  It
checks

* `RolesHold` (`Permissions`): the two resolvers agree in every configuration
  (`ResolversAgree`), workspace roles bound what grants give (`TiersHold`), and the dialog
  shows a member at most the role in force (`DialogNeverOverstates`);
* `NothingHiddenIsShown` (`PublicShares`): for every document a visitor is shown,
  each reason to hide it was absent at some moment of the visit;
* `ConnectsAgree` and `TextsAreKept` (`Integrations`): appends and changes of title keep the
  text they follow, and a read without an account gives a text that was canonical;
* `SessionsFollowPassword`, `HonouredOnce` (`Accounts`);
* `GrantedAlone`, `NoRevisionMissed` (`Collaboration`): a document is left out of an unread
  list only in a version that a call of its actor has read, never in one that came between that
  read and the writing of the cursor, nor in one of the actor's own writes;
* `FinalPlansWereReady` (`PlanningWorkflow`): a plan that was made final had no question,
  no placeholder and no other decision in the version it replaced, and none of the
  comments open before the request was still open;
* `OnlyRacesAbandon` (`Workspaces`): a workspace is left without anybody, or goes with
  somebody else's account, only in the races of a deletion that the property lists;
* `TablesAgree` (`Workspaces`): a Google account opens only an account whose address
  Google vouched for, groups have only members, and a host leads after sign-in to the
  workspace it showed before;
* `EditsStayInPlace` (`MarkdownText`): replacing a section or adding a decision leaves
  the headings and the other sections of a well-formed text as they were, a decision
  added is read back, and the difference of two texts gives both back with as much kept
  as can be.

Bounds, and why they are enough:

* Two requests show every race of a read before a lock with another's commit.
  Groups of revisions need three saves: one that heads the group, one that joins,
  one that would split it.
* Texts matter as equal or different: two, and three where a text must be neither
  the old one nor the new one.
* `MaxRevs` lets every request of the run commit; `MaxAborts = 1` lets one sweep
  fail, and more failures repeat it.
* Two workspaces make the two lock orders; a second folder level is what a cascade
  can forget; one folder beside is where things move to; two absent nodes can be
  created.
* Two uploads share the worker and its queue; a note with the slug of another makes
  renames and skips; one retry makes a second run of a job that starts from a
  checkpoint, after a failure, a crash or the watchdog.
* One permission request shows what the administration does between its steps; three
  requests on accounts show a reset between the read and the write of a login while
  another reset races it; two users and three confirmations show a link made and taken.
* A note and a pass with one more task are all pairs of tasks; two texts make a note
  equal to the server's or not, two versions a base that is old.  A note that is linked in
  the run keeps its user's role; the role changes for one that is linked from the start.
* Three changes put one name under two attachments, remove a file and edit it; a second
  note in the same folder shares its path.
* Three events and pages of one or two rows show a page that is cut between events of one
  time; a filter, a late commit and a retention fall between two pages.
* Two files show one that follows another's failure or shares its path; two levels of
  folders show a folder that is there and one that is not.
* Three documents found through pages of one, with a cap of two, show a page that moves
  between two queries; two changes by others move it twice.  Two workspaces show lists that
  are joined; names in two spellings, as title and as slug, show every pair of resolvers.  Three
  documents are more than the one that is looked at for backlinks, two are not.
* Two checkpoints are a prunable prefix and the checkpoint after it; three events
  leave one late.

`CHECK_DEADLOCK FALSE` is set for the `document_writes`, storage, folder, audit, import,
services and clients runs: requests are
handled once and the bounds are reached, so these systems may be at rest.

Symmetry is used in safety runs only, over values the specification treats alike.

### Fairness

* `DocumentWrite`: weak fairness of every request's own steps once it has arrived.
  The event loop runs handlers on, transactions end (Prisma's timeout rolls them
  back), and a row lock that becomes free goes to a waiter.  No fairness for
  arrivals, role changes and comments.
* `ObjectStorage`: weak fairness of requests and of the sweep, strong fairness of
  aging.  The sweep runs daily and the grace period is shorter, so what is left
  alone gets old between two sweeps, and the sweep stops on errors only finitely
  often.
* `FolderTree`: weak fairness of every handler, for the same reasons; an advisory
  lock is released when its transaction ends.
* `ObsidianSync`: weak fairness of the pass's start (a timer), of every step after an
  await, and of a user who is shown a conflict file and resolves it.  `ClientsSettle`
  and `PermissionReconciled` speak of what happens once nobody disturbs.
* `AttachmentSync`: weak fairness of a run's steps, strong fairness of the passes, which a
  timer starts, and of a user who resolves a conflict.
* `LiveEditing`: weak fairness of each live editor's own steps: a connected provider
  syncs, requests return, the autosave timer fires.
* `ImportJob`: weak fairness of the restart, of time and of the watchdog, whose
  timer runs every minute.  None for the worker, which may hang, and none for the
  recovery at boot, whose failure is only logged.

## 4. Proofs

TLAPS checks these theorems for every number of requests, users, documents,
folders and texts, from the assumptions on the constants only.

`DocumentWriteProofs`: `InductiveInvariant` (`Spec => []IInv`), and from it
`TypeCorrect`, `NoLostUpdate`, `NoStaleSplice`, `GuardedDrafts`, `Gapless` (version
numbers, which no run checks besides), `HeadIsCurrent`.  The safety properties say something of revisions only and are
not inductive: whether the next revision is right depends on the request about to
commit.  `IInv` adds

* `HeadExists`: there is a revision and the row denotes the newest;
* `LockProtects`: exactly the lock's holder is about to commit, and what it read
  under the lock (the maximum, the base) is still so;
* `RequestsOK`: where a request has got to, what it has read is no older than its
  base (`BodyIsSeen`), and an opt-in was granted for a draft no older than the base
  (`OptInIsSeen`).  So when the base turns out current under the lock, what was
  read is current too.  This is the argument for why stale reads before the lock
  do no harm;
* `ChainOK`: the properties.

What follows concerns the answers and the order of the rows, and rests on
`HistoryInvariant` (`Spec => []HistoryInv`): `IInv`, and that a request holding the lock
asks for what its operation may ask for (`Asking`).  From it `AnswersAreTrue`,
`BurstsAreContiguous`, and `Refinement`: every step of `DocumentWrite` is, under
the mapping `API`, a step of `VersionedDocument` or leaves what a client sees as it
is.  The one hard step is `TxCommit`, where the version the client named has to be the
newest although it was compared before the lock.

`ObjectStorageProofs`: `StorageTypes`, `ContentSurvives`, `NewestIsKept`, and of `Reading`
`ReadsAreTrue`.
`ContentSurvives` assumes that `"erase"` and `"transfer"` are not both among the
operations; with both the statement is false (section 5).  It rests on `StorageInv`: a
request in flight, if the workspace it stores in still exists, has stored objects
that are fresh, refreshed or were orphaned before; the sweep has doomed only keys
that were unreferenced and old when it looked.  `PlaceInv` says where content may be, one
part for each of the two operations that may be missing.  Without deletions all workspaces stay
(`AllStay`).  Without transfers (`AtHome`) a document's rows name objects of the workspace it
is in, that workspace exists, a request in flight is about it or about a document
that has been erased since or that had no workspace when the request began, and the objects
under removal are of a workspace that is gone; so a removal under a prefix takes nothing
from a row, and a write whose workspace is gone cannot commit.
`NewestIsKept` rests on `PruneInv`: for every revision
the pruning job is about to mark there is a later one in its burst that is neither
marked nor about to be.

`ReadsAreTrue` is about the instance `Reads` of `Reading`, for constants as `ReadingGiven` says:
finitely many documents, numbered; each starts with a version, and no two neighbouring
versions are alike; a rewrite's pairs are of two different names; pages and caps are numbers.
`LinksAgree` holds in every state, typed or not: where there are no more documents than are
looked at, the scan has all of them.  The other four parts speak of a request that has
ended, and `ReadInv` says what it has secured so far:

* `PageOK`, `SearchOK`: a document that nobody changed and whose place is at or before the offset
  has been found, or may not be read; a search that goes on to the next variant has `Covered` the one
  before.  Places move when others change documents, so `slipped` has those that moved over;
* `ChunkOK`, `SeenOK`: a chunk is the text of the version it names, and the last version of a
  document that nobody changed;
* `ListedOK`: an answer has the document, or is full of rows that are newer, or there is a
  `Crowd` as large as the cap.  A cap is reached by counting the rows in front of one that was cut
  (`FirstMembers`);
* `MadeOK`, `RewriteOK`: a version that nobody else made is the rewriting of the one before it; a
  document whose turn is over has none of the links (`NoneLeft`), unless others touched it or it is
  out of the agent's scope, which are also the only reasons for an error (`Excused`).  That a link which has gone through
  all pairs is none of theirs, unless a later pair brings it back, is `TrailsEnd`, by the first pair
  that it meets.

Proving it corrected the model: the order by age was strict, so rows of one age had no
sequence at all and lists over them could not be answered; now they come in either order, the
instance has documents of one age, and a row that is as new as the one left out counts as newer in
`ListsAreNewest`.

`ImportJobProofs`: `InvariantHolds` (`Spec => []IInv`), `TypeCorrect`,
`DoneIsImported`, `NothingTwice`.  That a job is done says nothing of how it came
to be, so `IInv` adds what a run knows: all it counts as processed is imported
(`RunOK`), every checkpoint is what some run had processed
(`CheckpointsImported`), the run's set has at least what its job's checkpoint has,
and a run that finishes has gone past the last note.  Documents are never removed
by these steps, so what was imported stays so (`ImportedStays`).  It follows that
it does no harm that the watchdog, the recovery and a retry change the status of
a job whose run goes on.  `LossesAreCounted` (`Spec => []RepeatsInv`) and from it
`RepeatsBounded` are about what a retry makes twice.  `RepeatsInv` adds for each job
that imports with renaming

* `LostComeFirst`: what was made and is not in the checkpoint is at most what lies
  between two checkpoints, and comes first among what the checkpoint does not have,
  so the next run goes over it before it makes anything new;
* `RepeatsCounted`: documents, and those that the run under way may yet repeat, are no more than notes made
  plus `CheckpointEvery` for each interruption;
* `RunCounts`: a run has made what it processed since the checkpoint, and counts it.

A claim allows for what is lost once more; a repeat takes a note from those ahead; a checkpoint
leaves lost only what is ahead.  A job that skips makes every path once (`SkipsRepeatNothing`).

About the instance `Agents` of `AgentImports` it has `ReportsAreTrue` (`ImportsReportTruly`), for any
files, trees, requests and changes by others.  The hypothesis `AgentsGiven` says that a path has a folder
and a name, that the tree of an import has a file, and that a workspace starts with the folders
above its folders.  `ImportsInv` adds

* `ReportOK`: halfway, the files reported as created or updated are those written, and a folder put
  down as created and not made was made by somebody else, belongs to a file that failed, or
  is still missing and above the file at hand;
* `DryOK` and `ForetoldOK`: as long as nobody else has changed anything, what a dry run has said of a
  file is what it would say now (`Verdict`), and the folders it has put down, with those
  the files to come need, are the ones that all files need (`Needed`);
* `TrackOK`: an import of the same files that comes next had, for every file whose path is in the
  tree once, the outcome foretold, except where its agent may not write it (`Excused`), and for the
  files to come the verdict is still the one foretold.  Each document it makes changes the verdict
  of its own path only, and each folder it makes was put down before.

`FolderTreeProofs`: `Invariant` (`Spec => []IInv`), `TypeCorrect` and
`NoFolderBelowItself`, for every set of operations, transfers and imports included.
That no folder gets below itself is no invariant by itself: two moves, each
harmless, make a cycle together.  `IInv` adds

* `LocksTaken`: a request past its locks holds those of both workspaces it saw,
  and one that still waits has yet to ask for the others;
* `WellPosed`: only a transfer has two workspaces; nothing is created in itself;
* `StillAbsent`: the row a request is about to create is nobody else's;
* `StillTrue`: what was read under the locks (where the row is, where its new
  parent is, that the row is not among the parent's ancestors) is so until the write.

A circle closed by a write would pass through the row it writes and its new parent.
The folders of the circle outside of the subtree that was read would have to have their
parents among themselves (for a transfer, those of the other workspace), so there was a circle
before (`WriteNoCycles`).  And while one request stands before its write the others leave the
workspaces it has locked alone: what lies below a row there only gets less (`SubtreeKept`).

`FreshInvariant` (`[]JInv`), `PathsFollow` and `NothingLeftBehind` assume
`NoTransfers`: an instance without folder transfers and import workers.  A transfer
changes the workspace of rows whose handlers have chosen their lock, and an import
worker writes by a path it remembers from before: with them paths do get stale (section 5),
and the runs do not claim the two properties of workspaces with transfers or imports.  `JInv` adds `SeenThere` (a request's row is in the
workspace it has locked), `ReadsAreFresh` (the path, the parent and the new path it writes
by are those of the tree as it is), and `SoundTree`, the properties.

`ServicesProofs`, about `Permissions`: `TypesHold`, `SameRolesEverywhere`, `TiersAlwaysHold`, `DialogHolds`
and the three together, `RolesAlwaysHold`, for any tree of folders, any users, groups and rows.  They are
invariants by their types alone: `FolderRolesAgree` and `DocumentRolesAgree` show that
the two resolvers take the strongest of the same finite set of roles under the same
cap, whatever the rows are, so no strengthening is needed beyond `TypeOK`.

About the instance `SignIn` of `Accounts`, with any constants, it has `SessionsAreCurrent`
and `CodesAreSpentOnce`.  The first rests on what a login under way and every
cookie know: their version is at most the account's, and with the same version goes the same
password (`LoginKnows`, `CookieKnows`).  A login that read the old password may still
seal a cookie afterwards, of a version that is not accepted any more.  The second rests
on `CodesOnce`, that a code once honoured is used and in the table, and on `GrantedOnce`, that
a pairing which gave its token is consumed or deleted and cannot start again.
About the instance `Team` of `Collaboration` it has `TeamInvariant`, `ClaimsStandAlone`
and `UnreadIsComplete`.  A claim under way remembers rivals that are rivals still
(`Alone`), so when it finds none there are none of them left, whatever is claimed,
released or refreshed afterwards; and a cursor never names a version that no call of its actor
has read (`CursorsTrue`), so neither does a list that leaves a document out (`Abreast`).

About the instance `Tenants` of `Workspaces` it has `TenantsInvariant`, and from it
`AbandonedByRaces` (`OnlyRacesAbandon`) and `TenantTablesAgree` (`TablesAgree`).  Their hypothesis
`TenantsGiven` says that the table of users is finite, that the first workspace has somebody in it
and that no row, name, domain or role is the word for none.  `TenantsInv` adds

* `DeletionOK`: while a deletion stands before its transaction, who is in a workspace it has
  listed besides the one who leaves came late, and a workspace it has not listed has somebody
  else in it, unless one came late or two have crossed;
* `PairOK`: two members of one workspace who are both leaving have crossed, or one came late;
* `ErrandOK`: what a request has checked is so, or its row is gone for good: whose address is
  about to be linked was vouched for by Google, who is about to be added to a group is a member;
* `HostsDiffer`: no two workspaces have a subdomain or a custom domain in common.

Every step but a deletion's transaction takes nobody out of a workspace (`Settles`), so only that one
needs an argument of its own (`LeaveStep`).

`AuditChainProofs`: `ChainInvariant` (`Spec => []ChainInv`), `ChainTypes` and
`AlarmsHaveReasons` (`Spec => AlarmIsExplained`).  That a verification agrees with the
sealers is about histories that are gone, so `ChainInv` says what is left of them:

* `SealTrue`: what a seal covers is stored or was pruned, and marked as changed only if
  it has changed;
* `EndsAt`: a hash tells the last event it covers, so two sealers who start from the same
  hash start behind the same event (`CheckpointOK`, `SealerOK`);
* `Forward`: as long as every checkpoint links to the one before, each ends behind it.
  Their ranges are then disjoint, and an event in the range of one is sealed by that one
  or by none (`RangeIsSealed`);
* `VerifierOK`: a verification that is past its first intact checkpoint has seen an event
  that is still stored, unless retention came in between.  If one of a later range is
  gone, retention has not gone from the oldest on.

`PagesAreWhole` is about the instance `Pages` of `Timelines`, for constants as
`ListsGiven` says: times are numbers, pages have a row.  `ListsInv` says of a reading that
has not begun anew:

* `AskOK`: the one request under way goes on from where the rows shown end (`Reached`), and
  its rows lie behind that place and before its own next cursor (`RowsOK`);
* `PageOK`: the rows shown are in order and before `Reached`; an event that is due is among
  them, or has the time of a cursor (`cuts`), or lies behind `Reached`, so that when there is
  no cursor any more it has been shown;
* `DueOK`: what is due is still stored and still matches the filter and, in the activity,
  may be seen, so no read behind `Reached` can leave it out.

A read is an ordered one of a set that changes between the reads, so the argument is about the
places of cursors and never about the set.  Proving it showed what a check with three requests
could not: a filter entered while the rows of a broken-off reading are still shown begins a
good reading on a page in disorder, so `OneOrder` speaks of pages whose first rows have come.

`OutsideProofs` is about the instances `Outside` of `Integrations`, `Plan` of
`PlanningWorkflow` and `Public` of `PublicShares`.

* `LinksAreNotTaken` and `AppendsKeepTexts` rest on `OutsideInv`: a confirmation under way
  found no link, or one that is its user's still, unless the account was unlinked
  (`Confirms`); so of two that overlap the second finds the row taken.  A write names a
  version that exists, and it is the one its content was read from.  The theorems assume
  that no request is called `"none"`, the word for no row.
* `FinalPlansAreReady` rests on `PlanInv`: the version a request names is no newer than the
  one it read, nor that than the current one (`Underway`), so a write that succeeds replaces
  what was read; and a request about to finalize read a content that was ready, with no comment that
  was open all the time since it came (`AboutToFinalize`).  `ContentsGiven` says only that
  contents are made of the statuses and words there are.
* `HiddenStaysHidden` rests on `SharesInv`.  The reads of a visit see one reason after
  the other gone, and `VisitSaw` says which are gone for good at each of them.  That the
  place is right although the folder, its path and its documents are read one by one needs
  two facts of the tree: links lie in the workspace of their target (`InPlace`), and nothing
  live lies below a deleted folder (`Gone`), so a manual that found a live folder below its root
  had a live root at that moment.  `NoLinksLeftBehind` excludes what breaks `InPlace` in the
  code: transfers of folders, and transfers of documents next to the making of links
  (section 5).  `OnlyPlacesAreMissed` is about folders that are transferred as well
  (`LinksFollow`): then the links to them stay behind and a document outside of the shared
  folder may be shown, but only its place can be amiss, never the link's end, the workspace's
  switch or a draft (`HiddenByPlaceOnly`, the clause of the part `moved`).  `SharesInv` claims
  `Gone` and the place of links to folders only while folders stay; links to documents keep
  theirs throughout.  The theorem assumes that what a transfer makes of a path is a path again
  (`Relocated`), as it is where every sequence of names is one.

`ClientsProofs` has three parts.

* `PushesReplaceWhatWasSeen` (`Spec => SeenBeforeReplaced`) and `SyncKeepsTypes` are about
  `ObsidianSync`.  They rest on `SyncInv`: whatever entry a task goes by, read before its
  awaits or after them, names a version the vault knew (`Known`), and so does what it is
  about to record (`WorkOK`); hence a push, which the server accepts on the base of its entry
  only, replaces such a version.  The document is created once, and what its creator
  reads back is recorded once (`Born`).
* `OrdinarySavesLoseNothing` and `EditorsKeepTypes` are about the instance `Editors` of
  `LiveEditing`.  `DraftsInv` says of an editor that was never live that its draft, and the text
  it is sending, only add to the text they are based on, and that this is the document's
  for as long as the version has not moved on (`DraftOK`).  Of live editors it claims
  nothing: they overwrite (section 5).
* `AttachmentsGoByChoice` (`DeletedByChoice`) is about the instance `Files` of `AttachmentSync`,
  and assumes that no content is the word for no file (`FilesGiven`).  `FilesInv` says that a path
  with an entry had a file at some time, so it is missing only because the user removed it; that a
  file the plugin wrote last has the content of its entry's attachment, unless it has two
  (`AsWritten`); and that whatever a run is about to delete its user removed or replaced (`RunOK`).
  The step that needs care is `Download`: it overwrites the file of every entry with that
  path, and those are then two (`TwoCollide`).

Model-checked only:

* liveness (`EveryRequestAnswered`, `OrphansAreCollected`, `TransfersEnd`,
  `RunningJobsEnd`, `ClientsSettle`): the provers do not treat fairness and ENABLED;
* of `services`, the properties of `MarkdownText`, which is recursive.

`Below` in `FolderTree` is defined as the least set closed under
parents rather than by recursion, so that it can be reasoned about.

## 5. Where the code departs from what it says

With a run and an entry under "findings": the public link of a transferred folder
shows another folder's documents; a permission granted after a note has diverged
never reaches the plugin.

Found with the models as well, and left without a run of their own:

* The comments that block finalizing a plan are not looked at again in the
  transaction, so one added in between is unresolved in a plan that is canonical, though
  unresolved comments are blockers (`documents/routes.ts:563`, `653`;
  `FinalizedPlanHasNoOpenComments`).
* The sweep removes an object whose age it read before a write of the same content
  refreshed it, against the grace period's purpose (`storage.ts:206`;
  `GraceCoversInFlightWrites`).
* The import worker creates in folders it remembers, deleted or renamed since
  (`import/vault.ts:292`; `NothingUnderDeleted` with `"import"` among the operations).
* Two replacements of a resource's grants with the same base version both succeed and
  leave a mixture (`permissions/routes.ts:707`): the comments speak of a lock (`:292`)
  that is not taken.
* The access dialog counts neither grants on folders nor grants to groups
  (`permissions/routes.ts:488`), so it may understate.  The comment before
  `inheritedPermissionRows` says that the closest grant wins; the resolvers take the
  strongest.
* Two requests for a reset link or a deletion code at once leave two open codes.  A
  device code approved before a reset of the password still gives a token after it.  A
  change of the password that was verified before a reset overwrites the reset's.
  The comment at `routes.ts:351` says that sessions survive a change; they do not.
* Two confirmations over the same revoked link both answer "linked", and the second
  takes the account over; one user confirming twice is told that the account is linked
  elsewhere; a session can be used twice, against "single-use" (`schema.prisma:692`); an
  unlink that read its row earlier revokes a link made since.  A revoked integration's
  sessions can still be confirmed (`integrations/routes.ts:320`).
* The account page says that only workspaces without other members are deleted
  (`account-page.tsx:100`); one whose second member joins after they were listed is
  deleted too (`account-deletion.ts:86`), and one whose two members delete their accounts
  at once stays without anybody.  A server that stops between the link of a Google
  account and the mark on the address leaves a link to an unverified account
  (`routes.ts:138`).
* The schema says that the folder agents are confined to is cleared when it is deleted
  (by the foreign key), but folders are only marked as deleted.  Creating and deleting a
  document by MCP does not look at that folder (`mcp/routes.ts:2261`, `2413`).
* A claim of a web user and one of an agent never conflict, because the excluding
  conditions compare with NULL (`claims.ts:100`), against `mcp/routes.ts:635`.  Claims
  and cursors made while a document is transferred stay in the old workspace.
  A refresh of a claim released meanwhile answers ok and is inactive.
* The cursor says "where was I last time I read this document" (`read-cursors.ts:3`), but every
  tool that calls `readDocument` sets it (`mcp/routes.ts:1177`): an append, an edit that is refused,
  a section, the headings or a citation in an answer move it to a version whose content the
  agent was never given, and the document is gone from its unread list.  `NoRevisionMissed`
  therefore counts these versions too (`used`); with `given` alone TLC refutes it.
* A public link made while its document is transferred stays under the old workspace's
  switch.
* A handoff packet is a query of its own (`planning-review-panel.tsx:144`): a transition
  made from a packet older than the content can take the review round back.  A review
  that fails after its write leaves the next round without the comments of it
  (`mcp/routes.ts:1629`).  The web and the MCP tool read a section whose text is below a
  heading of its own differently, so a plan can be ready for one of them only
  (`documents/routes.ts:709`, `mcp/routes.ts:3419`).
* In live mode a save that meets a conflict sends the text again over what the server
  has (`document-editor.tsx:119`), against "Your edits are kept here — nothing was
  overwritten".  A room is never emptied (`live/routes.ts:146`): who joins later gets its
  text rather than the document's.  Joining a room discards an unsaved draft; two
  editors that fill an empty room at once double the text; the plugin's view does not
  schedule a save again after one failed.
* A note in conflict is not frozen for manual pushes, and one that is edited between the
  second read and the write of a pull is overwritten (`sync.ts:366`), against "never
  clobber".  A note whose creation lost its reply is never linked.  Entries are read
  and written as one file (`metadata.ts:39`), so updates of two notes at once lose one.
* Two attachments of one name have one local path (`sync.ts:579`), so a run overwrites one
  with the other's content, uploads it in the other's place and deletes what was there.  A
  linked attachment whose local file was removed ends every run with a 409 before anything
  is downloaded or uploaded (`sync.ts:487`); a push takes that 409 for an edit by somebody
  else and writes a conflict file (`sync.ts:102`).  An upload whose reply is lost comes back
  as another attachment of the same name, and the next run writes it over a file edited
  since.  An edited file that no note refers to is never uploaded.  `DeletedByChoice` and
  `ClientsSettle` except these.
* The activity feed, the audit log and the security activity never show the event before
  which a page was cut: `next` is that event's time and the next page asks for earlier
  ones (`insights.ts:207`, `434`, `audit-log.ts:381`), against "Every recorded action in
  this workspace" (`audit-log-page.tsx`).  After the last page the activity's cursor falls
  back to the first page's, so it never ends and repeats (`workspace-activity.tsx:31`).  A
  filter changed while a page loads mixes two lists (`audit-log-page.tsx:39`).  The
  administrator's list starts again when retention has removed the cursor's event
  (`admin/routes.ts:484`).  `PagesTellAll` excepts these.
* An import reports folders as created whose file then fails (`mcp/routes.ts:2621`), and a
  second file of the same path replaces the first one's document.  A dry run looks at
  neither the agents' folder, drafts, nor the right to make folders.
* A search pages by OFFSET in an order that saves change (`search/service.ts:202`), so a
  document can slip over to a page already read.  Recent changes take the newest hundred
  before they drop what may not be read, and lists of decisions over several workspaces are
  cut in the order of the workspaces.  One citation that cannot be read any more fails the
  whole answer.
* The section changed last is found by reading the newest version again
  (`mcp/routes.ts:1265`), so after a save in between the version that was read is its own
  predecessor.  A plain link to a title with typographic characters is resolved by the lint
  (`wikilinks.ts`) and unresolved for the readiness score and the panel
  (`relationships.ts`), which also count Markdown links in code.
* Backlinks are looked for in 250 other documents, in no particular order, so in a larger
  workspace the panel misses some, and not always the same (`relationships.ts:136`).
* A rewrite of links fails for documents outside of the folder agents may edit in, although it has
  chosen them as writable, and a dry run says "would_write" of them (`wikilinks.ts:233`, `266`;
  `permissions/index.ts:366`).
* A decision whose text has a ":::" of its own is cut there when it is read back; one with a
  heading or an open block of code changes the sections behind it (`decisions.ts:72`).
* Rewriting a link by one that contains it never ends, as the loop replaces while the text
  includes the old link (`wikilinks.ts:257`); `Replacements` leaves these pairs out.

And in the parts checked longest:

* A restore refers to an object without refreshing it; pruning and the sweep can
  remove it before the restore commits (`documents/routes.ts:1940`).
* Pruning does not repeat its conditions when it updates, so a revision pinned in
  between is pruned (`revision-retention.ts:57`).
* A write stores under the workspace it saw before its transaction; when the
  document is transferred meanwhile and the old workspace deleted with its owner's
  account, the newest content is removed with it (`documents/routes.ts:384`).
* A folder's move and transfer use the slug read before the lock, so after a
  concurrent rename the path ends in the old slug (`folders/routes.ts:282`, `381`).
* Move, rename and delete of a folder lock the workspace they saw before the
  transaction; after a concurrent transfer they change a tree they hold no lock of:
  descendants keep old paths, or a child attaches to the folder being deleted
  (`folders/routes.ts:258`, `485`).
* Retention is per workspace and the chain is not, so it leaves older events before
  those it removes, against the comment at `audit-log.ts:262` (`audit-log.ts:148`).
* A kick that comes when the import worker has read an empty queue and not yet left
  its loop is lost: the upload or retry stays queued until the next one
  (`import/vault.ts:331`).  The same after an error outside of a run
  (`vault.ts:334`).
* A crash between checkpoints makes a retry with renaming repeat documents, against
  "safe to retry" (`vault.ts:6`); `RepeatsAreBounded` says how many.  Attachments of
  documents that an interrupted run made are not uploaded by the retry, which
  passes these notes (`vault.ts:540`).
* Two uploads of one user at once both find no active job (`import/routes.ts:93`).
* The purge removes a job by its id though it may have been retried since it was
  read (`vault.ts:364`).
* An event that commits after a later one was sealed is never sealed
  (`audit-log.ts:234`); two checkpoints can share a predecessor (`audit-log.ts:232`);
  retention between two reads of a verification raises an alarm
  (`audit-log.ts:279`).  These are the reasons `AlarmIsExplained` lists, next to
  rows whose references were set to null by a deletion.

## 6. Not modelled

Titles, names and search text; the bytes of attachments and
logos, which are stored as revisions are; several server processes, which make no
difference to the locks, as these are the database's.  Each component that is left out is listed with its
reason in `PROJECT.json`.

## 7. Plan

1. Done: document writes, object storage, folder tree, audit chain, imports,
   permissions, accounts, integrations, shares, collaboration, plugin sync, live
   editing, planning, workspaces; proofs of the first four, of both kinds of imports, permissions, accounts,
   collaboration, workspaces, integrations, planning, shares, the sync of notes and
   of attachments, live editing, lists read in pages, and searches, lists, reads and rewrites.
2. To compose: imports with the folder tree by the folders a run remembers; the plugin
   with `VersionedDocument` as its server.
