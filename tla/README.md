# Verification of StatO

StatO is a web application for statistics of open youth work: a NestJS backend
with TypeORM on PostgreSQL (`src/backend`), a React frontend (`src/frontend`),
an Electron shell (`src/desktop`) and scripts to operate it. Organisations form
a tree. Their staff document activities, run projects and surveys, agree on
annual targets and upload images.

This directory holds TLA+ modules translated from that code, the TLC
configurations that check them on small instances, and TLAPS proofs of the
properties that matter most. `PROJECT.json` gives the source lines of every
definition (`map`), the properties of every run and a broken variant of the
code for each of them (`mutants`), the hazards and the findings.

1. [Inventory](#1-inventory)
2. [The modules](#2-the-modules)
3. [Runs](#3-runs)
4. [Fairness](#4-fairness)
5. [Proofs](#5-proofs)
6. [What the code does not keep](#6-what-the-code-does-not-keep)
7. [Assumptions and limits](#7-assumptions-and-limits)
8. [Plan](#8-plan)

## 1. Inventory

One Node process serves all requests. Handlers interleave at every `await`;
between two awaits a handler runs alone. Several handlers work on the same
rows, most of them without a transaction, so the typical behaviour is *read a
copy, await, write it*. TypeORM's `save(entity)` is itself two statements: it
reads the row, then writes the columns in which the copy differs, or inserts
the copy if there was no row to compare it with.

| Component | State | Operations | What makes it hard | What makes it correct |
|---|---|---|---|---|
| Activities | rows with a version; forms in browser tabs | create, update with `expectedVersion`, acknowledgement, remove | stale forms, overlapping updates, an error after the commit, midnight | no edit overwrites another unseen; planning rules hold of the stored row |
| Uploads: quota | grants per scope, advisory locks | register, unregister, record deletion | measuring and inserting are apart; several locks per transaction | no scope beyond its quota, nothing charged twice, no deadlock |
| Uploads: files | grants, files on disk, references in six tables | upload, retain, administrative deletion, hourly maintenance pass | three places without a common transaction, crashes, best-effort clean-ups | nothing in use is removed, everything else is in the end |
| Annual targets | rows with status, result, history, version | create, copy, update, activate, close, reopen | the copy is saved whole after slow look-ups | result and definition belong together, history complete, closed means locked |
| Surveys | rounds, answers, aggregates | update, start, close, new round, delete round, submit, purge | check-then-save, renumbering row by row, purges in every request | one active round, one answer per device, aggregates outlive the answers |
| Accounts | users, memberships, invitation versions | invite, resend, accept, create, local user, role change, remove, delete | compensation of failed mails, stale whole-entity saves, check-then-act | an administrator remains; only current links open an account |
| Browser session, login | tokens per tab, a cookie all tabs share, one pending renewal per tab; refresh sessions in the backend | sign in and out, renewal, refused call with one retry, reload, expiry timer, revocation | late answers of an ended session, two tabs with one cookie, rotation of the refresh token | a tab has only its own person's session and does not lose it by itself; nobody waits for ever |
| Organisation tree | organisations with materialised paths, rules of inheritance, a 10 s cache of subtrees | create, preview and move, remove, rules | paths rewritten row by row, check-then-move, late cache entries | no cycle, paths match the tree, an unconfirmed move hides nothing |
| Projects | projects with a client request id, documents, links of activities | create once, edit, archive, remove, upload and remove documents, link | repeated creation, files and rows apart, links during a removal | one project per form, listed documents have files, no lost link |
| Processes | rows; queue, timers and version under way in the browser | edit, rename, open, create, remove, save, retry | a failed save meets a newer version, three timers | what the page takes for stored is stored, every queued process is sent |
| System data | whole database and upload directory | restore, purge | files and rows change together, a fault or crash in between, uploads meanwhile | all or nothing, nothing lost |
| Statistics, KPIs | none of their own | queries and sums | periods and boundaries | sums agree with their definitions |
| Taxonomy, master data | categories, tags, cohorts per organisation | inherit, export, import | visibility along the tree | what is visible is inherited |
| Staff, locations, logbook, project templates | single rows | create, change, archive, comment | little | little |
| Audit, e-mail, legal texts, guards, schema, configuration, pages, demo, desktop, scripts | none that others rely on | | | not modelled, see section 7 |

How they interact: activities refer to projects, locations and taxonomy, whose
look-ups are the awaits inside `update()`. Annual targets measure activities
when they are closed. Projects keep template images through
`retainProjectImage` of the uploads. System administration deletes uploads and
clears their references while uploads, projects and the maintenance pass are at
work, and a restore replaces rows and files while people go on uploading. The
timer that purges surveys is accompanied by a purge in every list, detail and
public request. Invitations create accounts, memberships and mails. What an
organisation shows of categories, tags and cohorts follows from the tree and
its rules. Every page works through the browser session.

## 2. The modules

| Module | Models | Source |
|---|---|---|
| `ActivityRecord` | the row, patches, drafts and `validateActivityPlanning` | `activities/activity-planning.ts`, `activities.service.ts` |
| `Activities` | service and editors | `activities.service.ts`, the activity form |
| `ActivityStore` | what the API promises: the abstract specification | – |
| `Uploads` | the names and constants the two below share | – |
| `UploadQuota` | the inside of `register` on PostgreSQL | `uploads.service.ts` |
| `UploadFiles` | life of a file, maintenance, administrative deletion | `uploads.controller.ts`, `uploads.service.ts`, `upload-maintenance.service.ts`, `system-data.service.ts` |
| `AnnualTargets` | lifecycle with optimistic writes | `annual-targets.service.ts` |
| `Surveys` | a series of rounds, answers, retention | `surveys.service.ts` |
| `Rows`, `Identities` | `None` and the marks of ids that are not used yet or no longer, for the modules about an organisation | – |
| `Accounts` | accounts, memberships, invitations of one organisation | `auth.service.ts`, `users.controller.ts`, `users.service.ts` |
| `OrgTree` | tree, paths, rules of inheritance, cache of subtrees | `orgs.service.ts` |
| `ProcessAutosave` | the queue of the process editor and the service behind it | `pages/Processes.tsx`, `lib/processAutosave.ts`, `processes.service.ts` |
| `SystemData` | restore and purge with their faults | `system-data.service.ts`, `system-data-upload-store.ts` |
| `Replacement` | what a restore or purge promises: the abstract specification | – |
| `BrowserSession` | tabs of one browser and the refresh sessions behind them | `lib/api.ts`, `lib/auth.tsx`, `lib/authStorage.ts`, `lib/sessionTimeout.ts`, `auth.service.ts`, `jwt.strategy.ts` |
| `Projects` | projects, documents, links of activities, the creation form | `projects.service.ts`, `projects.controller.ts`, `pages/Projects.tsx` |
| `MC...` | instances for TLC | – |
| `ActivitiesProof`, `ProcessAutosaveProof`, `SystemDataProof`, `BrowserSessionProof`, `ProjectsProof`, `SurveysProof` | theorems about the module of that name | – |
| `UploadsProof` | theorems about `UploadQuota` and `UploadFiles` | – |
| `OrganisationProof` | theorems about `AnnualTargets`, `Accounts` and `OrgTree` | – |

**Composition and refinement.** `Activities` is built on the pure rules of
`ActivityRecord` and implements `ActivityStore` by an instance that maps its
rows and hides forms and requests. `SystemData` implements `Replacement`: while
a restore or a purge is under way the abstract data are the ones from before it,
and one abstract step replaces rows and files. `UploadFiles` takes a
registration as one step; `UploadQuota` is the inside of that step. Where
modules meet in one module of theorems, definitions carry their module's name
(`QuotaInit`, `QuotaNext`, `QuotaSpec`; `AccountsSpec`, `TreeSpec` and so on).
`BrowserSession` and `ProcessAutosave` compose a page with the backend it talks
to and the messages between them. The others share no state in the code either.

**Activities.** `rows` are stored activities, `forms` what an editor opened and
the version it will send, `requests` the progress of a PATCH. `Open`, `Change`,
`Send` are the editor; `CheckGone`, `CheckRefused`, `Check` are the first half
of `update()` up to the look-ups; `Commit` and `Conflict` are its transaction,
in which `update({id, version}, {version + 1})` decides. `Commit(c, FALSE)` is
an edit that is stored although its editor gets an error, because the audit
entry is written after the commit; the editor keeps its draft and may send it
again. `Acknowledge` is `setAck`, which raises the version unconditionally.

**UploadQuota.** `tx[r]` goes from `Begin` through one `Lock` per scope, in the
order of the sorted keys, to one `Measure` or `Refuse` per scope and `Save`,
which commits and releases the locks. `Abort` may happen at any moment, and
grants are deleted without locks.

**UploadFiles.** `phase` is the upload request (reserve, write, clean up),
`disk` the file, `grants` its rows with their age, `refs` the referencing
tables, `pass` the maintenance pass. A pass reads the tables one by one
(`ReadTable`), scans the directory (`ScanUploads`), loads the records and
settles what is to be done (`LoadRecords`), then goes through the files
(`KeepFile`, `UnlinkOrphan` and `DropOrphanGrants`, or `StatFails`, which ends
it) and the expired reservations (`DropExpired`). `lapsed` is history: the pairs
of a file and a table such that the table did not refer to the file at some
moment at which the file was old.

**AnnualTargets.** `Find` reads the row and applies the checks of `update()` or
`command()`; `Measure` is the await on `getAnnualTargetSnapshot`; `Persist`
writes the whole copy with one more revision if the version is still the one
read, else `Conflict`. `data` stands for the state of the activities that are
measured.

**Surveys.** A request is begun (`BeginUpdate`, `BeginStart`, `BeginClose`,
`BeginRound`, `BeginDelete`, `BeginPurge`), looks at other rows (`Recheck`),
and saves (`Load`, `Write`). Deletion goes on with `Remove`, `Following` and one
save per later round, a purge with one aggregate and `Erase` per survey. `Merged`
is what `save()` leaves in a row that changed between its two statements, and
`Permitted` the primary key and the unique index. `Open`, `Look`, `Insert` are
`submitPublic`.

**Accounts.** A request of an administrator starts with one of `Begin...`, then
makes one step per await: `CountAdmins` before a role change, a removal or a
deletion; `ReadMember` and `StoreMember` for `addMembership`; `SaveInvited`,
`FindMember`, `InsertMember`, `SendInvite`, `Reactivate` and `UndoInvite` for
`inviteUser` and its compensation. A visit is `acceptInvite`: `OpenLink`,
`HasAccess`, `Accept`. `links`, `newest` and `revoked` are history: the
invitations that reached a person and those sent before a removal.

**OrgTree.** `org` holds the rows, each with its parent and its path. A writer
inserts and then writes the path (`InsertOrg`, `WriteNewPath`), moves
(`BeginMove`, `ReadMoved`, `SaveMoved`, `WriteMovedPath`, `FindDescendants`, one
`RewritePath` per descendant, `ClearSubtreeCache`), removes or saves rules. The
preview is a state function (`RequiresConfirmation`): it simulates the move on
the rows it read. `Visible(tree, o)` is what an organisation shows of the items
above it. Readers look a subtree up and keep it (`FindRoot`, `QuerySubtree`,
`KeepSubtree`) until it expires.

**ProcessAutosave.** `pending` is the `Map` of queued versions in its order,
`inFlight` the one under way with how far the server has come, `timer`, `retry`
and `kick` the three timers. `Edit`, `Rename`, `OpenProcess` are the person,
`PauseEnds`, `RetryStarts`, `NextStarts` the timers, `ServerFinds` and
`ServerSaves` the service, `SaveSucceeds` and `SaveFails` the answers; a failure
may come before or after the server has saved. Creation and deletion are a
dialog beside them.

**SystemData.** `pc` says where a restore is: unpacking, rewriting the tables,
copying the directory away, clearing it, filling it, measuring, committing, or
undoing all that in two ways. A purge commits and then clears. Each step may
fail (`faults` remembers how), the server may stop (`Crash`), and uploads go on
(`Upload`). `before` and `late` are history.

**BrowserSession.** `live` are the refresh sessions with a row, `cookie` the
refresh token all tabs share, `page[t]` the tokens, the person shown, the timer
and the call of a tab, `net` the messages under way. The backend finds, rotates,
signs in and out (`Serve`), answers calls (`Answer`) and may revoke a session;
pages `Hear` answers and act on them, messages get lost. `waits` and a call
`at` "waiting" share one renewal.

**Projects.** `rows`, `documents`, `disk` and `links` are the tables and the
directory, `requests[r].phase` the statement a request is about to execute, with
the copies it read. `Write` saves a whole copy over `Saved` rows, `Delete` meets
the foreign key of the activities (`Protected`), `BeginUpload` writes the file
that `Attach` saves the row for and `Refuse` removes again. `Fail` ends any
request at any statement. `forms` sends a creation again under the same id.

## 3. Runs

| Run | Instance | Distinct states | Shows |
|---|---|---|---|
| `activities` | 1 activity, 2 editors, 2 days, 3 versions, 3 patches, 3 drafts | 505,994 | `PlanningConsistent`, `AtMostOnce`; `EditsAreAtomic`: every step is one of `ActivityStore` |
| `upload_quota` | 2 registrations, 2 files, 2 scopes, room for one of them | 4,329 | `WithinQuota`, `ChargedOnce`, `RegistrationsEnd` |
| `upload_files` | 1 file, 2 scopes, 2 tables, grace period 1, 1 crash | 82,480 | `InFlightReserved`, `HeldByOneTableKept`; in the end `ReservationsReleased`, `OrphansRemoved`, `SizesReconciled` |
| `annual_targets` | 1 target, 2 requests, 3 definitions, 4 versions, 2 days | 1,306,096 | `ResultFits`, `HistoryTells`, `HistoryGrows` |
| `surveys` | 3 rounds, 1 request, 2 visits from one device, 1 crash | 1,126,896 | `AnswersHaveRound`, `OncePerDevice`, `ErasedAreCounted`, `Gapless`, `ResultKept`; in the end `AnswersErased` |
| `survey_lost_result` | 1 round, 2 requests | violation | `ResultKept` fails |
| `accounts` | 3 ids, 2 addresses, 1 request with all operations, 1 visitor | 359,645 | `NewestLinkWorks`, `RevokedLinksDead`, `ActivationNeedsAccess`, `CheckedKeepAdmin`, `GoneStaysGone` |
| `org_tree` | 4 organisations, 1 writer, 1 reader, 2 items | 394,935 | `NoCycle`, `PathsMatchTree`, `UnforcedMoveHidesNothing`, `StaleOnlyWhenOverlapped` |
| `process_autosave` | 2 processes, 2 versions | 511,920 | `SavedIsStored`; in the end `EveryoneSent` |
| `system_data` | 3 names, 2 versions, 2 uploads, 2 runs with 2 faults each | 4,172,086 | `NothingLost`, `OnlyLateUploadsLost`; `ReplacedAsOne`: every step is one of `Replacement` |
| `browser_session` | 2 tabs, 2 persons, 7 session numbers | 947,084 | `OwnSession`, `WaitersAreServed`, `KeepsItsSession` |
| `projects` | 2 projects, 1 form, 2 documents, 1 activity, 2 requests, 1 crash | 1,307,691 | `OneProjectPerForm`, `DocumentsHaveFiles`, `LinksKept` |

Type invariants, and some invariants that matter mostly as steps of a proof
(`VersionIdentifiesRow`, `NoUnaccountedFile`, `QueueDriven`, `FilesFollowRows`,
`ClosedIsLocked`), are proved for all instances and not repeated in a run.

**Why these bounds.** Every property relates one row to the actors that hold
copies of it. A copy goes stale through one other actor, so two actors that
interleave are the smallest instance with a race, and two rows of one kind the
smallest with a rule between rows (two scopes for the locks, two files for one
quota, three rounds for a renumbering that moves two of them, four
organisations for a subtree that moves with a child below another one). Versions, days
and crashes are bounded by `LastVersion`, `LastDay`, `MaxVersion`,
`MaxCrashes`, `MaxRuns` and `MaxFaults`. Three versions let an editor's baseline
become stale twice; four let a target go through draft, active, closed and back
to active. Two days separate a plan from an overdue plan and a running period
from a finished one; in `Surveys` a day is a retention period, and a purge needs
the second one. In `UploadFiles` an age stops at `Grace + 1`, the first that
counts as old, so that the calendar needs no bound. Two faults let the undoing
of a failed restore fail as well, and two runs let a restore follow one that
went wrong. Identifiers that are interchangeable are symmetry sets, in runs
without liveness only.

Two runs look at part of their states. In `surveys` the second participant comes
only while there are two rounds at most and nothing has crashed (`FewWhenTwo`):
two visits matter for `OncePerDevice`, three rounds and a crash for the other
properties. In `browser_session` numbers of sessions say nothing, so a state is
seen as the places that hold each session (`Seen`); seven numbers always leave
one unused, one tab does what a timer, a return or a reload triggers while the
other signs in and calls (`Active`), and one unheard message at most is under way
when somebody reloads, signs in or out (`MaxStrays`).

Where a rule holds for one request at a time only (`surveys`, `accounts`,
`org_tree`), it is checked with one slot, and section 6 says what two do to it.

**Deadlock.** TLC reports a state without successors except where the bounds
make one (`activities`, `annual_targets`, `surveys`, `projects` and
`system_data`: everything removed, used up or finished and the calendar at its
end). In `upload_quota` a deadlock would be a cycle of locks; aborts hide it
from that check, hence `RegistrationsEnd`. A page that waits for nothing is not
a deadlock of the whole either, hence `WaitersAreServed` and `EveryoneSent`.

**Mutants.** Each property of a passing run is shown to depend on the code by a
broken variant of a definition, kept beside it and commented as such: a
dropped guard, a baseline that is not compared, locks taken in any order, a
purge without a retention period, an invitation that is not compared again, a
failed save that takes the place of the newer version or is dropped, a purge
that clears files before it commits, a renewal each caller starts for himself,
files that go before the checks of a removal are over.

## 4. Fairness

Safety properties need none. The liveness properties assume:

- `UploadQuota`: strong fairness of each registration's own steps. PostgreSQL
  grants an advisory lock to its waiters in turn, so nobody is passed over for
  ever; without this, weak fairness would let a stream of others starve it.
  `Begin` and `Abort` are not fair: nothing relies on an abort to break a cycle.
- `UploadFiles`: weak fairness of a request that was begun (writing, cleaning
  up) and of the pass, which `setInterval` starts every hour; strong fairness of
  time, which passes between passes. Writes need not fail and nobody needs to
  delete anything.
- `Surveys`: strong fairness of the start of a purge, by the hourly timer, in
  spite of whatever other requests do; weak fairness of each request and
  visit, whose statements are answered. `AnswersErased` promises nothing after a
  crash; section 6 says why.
- `ProcessAutosave`: weak fairness of each of the three timers, which go off
  once they are set and not reset for ever (the person stops typing now and
  then), and of the request under way, which ends well or not. Saves need not
  succeed: `EveryoneSent` holds though one process fails for ever.
- The others promise nothing about progress: each request there ends by itself
  and the next action is a person's. That nobody waits for nothing in
  `BrowserSession` is a safety property, since what is waited for is in `net`.

## 5. Proofs

The theorems hold for every value of the constants that the named assumptions
allow: any number of editors, files, scopes, requests and targets, any bound on
days and versions. The assumptions are on types (a patch is a patch, sizes are
natural numbers, `None` is no value); TLC evaluates them in the runs.

**`ActivitiesProof`** (`TypeCorrect`, `PlanningSafe`, `StoredAtMostOnce`,
`VersionIdentifiesRow`, `RemovedStaysRemoved`, `ImplementsStore`). None of the
properties is inductive: whether a commit is right depends on what its request
checked earlier. The invariant `IInv` adds what a form and a request know:

- `FormOK`: the row a form was opened from is the stored one, or the stored one
  has a higher version, or it is removed;
- `RequestOK`: the same of the copy of a checked request; the copy with the
  patch merged in satisfies the planning rules today; and the form's baseline,
  if it has one, is the version of the copy;
- `AppliedOK`: the stored version has moved past the baseline of a draft that
  was stored, so the draft cannot be stored again.

They rest on one lemma: a step that changes a stored row and does not remove it
raises its version. That the planning rules survive midnight
is a lemma about `PlanningAccepts`. `ImplementsStore` maps `Commit` to
`ActivityStore!Edit`, which it can because `StillCurrent` makes the copy the
stored row, and every other step of a request to a stutter or to `Close`.

**`UploadsProof`, the quota** (`QuotaTypeCorrect`, `QuotaKept`, `PaidOnce`,
`NoDuplicateInsert`). The invariant says that a transaction holds the lock of
every scope it has passed (`LocksHeld`), and that what it measured and found
missing still fits and is still missing (`MeasuresValid`): others cannot insert
without the lock, and deletions only lower the sum. `NoDuplicateInsert` is the
reason why the insert never meets the unique index, and with it a scope is
charged for a file once (`PaidOnce`). The sum of a set of files is a fold over
the set; `TotalOf` derives what it gains or loses with one file from the fold's
own recursion, by the smallest size of a set that would refute it.

**`UploadsProof`, the files** (`TypeCorrect`, `UploadsStayReserved`,
`FilesAccounted`, `HeldFilesKept`). A pass deletes on the strength of readings
that may be old. The invariant says why it may: what it read as old enough
belongs to a request that is over and that nobody will write again (`Judgement`), and a table it
found without a reference is in `lapsed` or the file is young or spared
(`Reading`). With `Requests` (the grants of an upload under way are young) and
`Accounted` (a file has its grants, an upload under way its reservation) that is
inductive.

**`OrganisationProof`, annual targets** (`TypeCorrect`, `ResultSound`,
`HistorySound`, `HistoryKept`, `ClosedLocked`). The invariant adds `WorkSound` to the
properties: a request that is still current holds the stored row, what it may
do to that row is still allowed (a period that is over stays over), and its
result was measured by the definition in that row. The lemma `SavedRow` shows
that the row it then saves is sound, with a legal last revision.

**`OrganisationProof`, accounts** (`AccountsTypeCorrect`, `NewestLinkOpens`,
`RevokedStayDead`, `ActivationChecked`, `DeletedStaysDeleted`,
`CountedKeepAdmin`). Types hold for any overlap. The other five assume
`OneRequest`, that requests of administrators do not overlap; the people with
an invitation in their hands do what they like at any moment, and section 6
tells how they fail with two requests. The invariant `AInv` ties the copy
a request holds to the account: which version it has raised, which it may write
back after a failed mail and that no link newer than that is out (`Copies`,
`Kept`, `LinksWith`), that the membership it read is the one it will write over
(`Members`), that an administrator it takes away is not the last (`Spare`), and
that whoever is about to activate an account has an access that is active
(`OpenedWith`).

**`OrganisationProof`, the tree** (`TreeTypeCorrect`, `MovesKeepTree`,
`PathsKept`, `MovesAreForeseen`, `ListsStayRight`). All five assume `OneWriter`:
one request at a time changes the tree, as many as there are read it; section 6
tells what two do to each other. The tree is seen by its lines, a function `F`
that gives each organisation the sequence from the top down to itself (`Grown`:
the last but one of a line is the parent, and each beginning of a line is the
line of the organisation it ends with). Where the parents have lines they have
one set of them, they are no longer than there are organisations, and
`Lineage` computes them (`LineageIs`); a line below another begins with it
(`InLine`). The invariant `TreeInv` says that there are lines, that the paths
are those lines but for the paths the request is about to write (`Paths`: after
the first write of a move, every path is the old one and its `Target` the line),
that what the request was told before its first write is still so (`Plan`),
what everybody saw before an unforced move (`Foreseen`), and that the lists in
the cache and in the hands of readers are right (`Lists`, `Reads`). A creation
adds a line (`GrownMore`), a removal takes one (`GrownLess`), and a move puts
the new lines of all below in place of the old (`Redirected`, `GrownMoved`) in
the one step that writes the parent. `Lineage` and `Visible` are recursive
functions: what they compute is shown by giving a function that satisfies the
recursion and by the least argument at which another would differ
(`ClimbExists`, `ClimbUnique`, `SightExists`, `SightUnique`). An organisation
then sees the same as long as its line and the rules along it stay
(`VisibleSame`); so outside the subtree that moves nothing has to be asked, and
inside it the preview has asked about the very tree the move makes.

**`SurveysProof`** (`TypeCorrect`, `OneAnswerEach`, `AnswersStayWithRound`,
`ErasureCounted`, `AggregateStays`, `NoGaps`). Types and one answer per device
hold for any overlap of requests; the latter rests on the unique index
(`Permitted`) and on the check before the insert. The other four assume `Sole`,
one request of staff at a time, whatever participants do meanwhile and wherever
the process dies: `survey_lost_result` shows that `ResultKept` fails with two,
and section 6 what else does. The invariant `SInv` says of every step of a
request what its copy still has to do with the row (`Editing`, `Deleting`,
`Purging`), that the row it compares with is the row (`LoadedIs`), and that a
submission under way belongs to a round that takes answers. `NInv` adds the
numbering: while a round is deleted there is one hole, and the rounds that wait
to move up are exactly those behind it (`Hole`, `Waiting`).

**`ProcessAutosaveProof`** (`TypeCorrect`, `QueueNeverStandsStill`,
`PageKnowsWhatIsStored`). Most of the work is about the `Map`: `Put` and `Drop`
keep one entry per process and touch no other. The invariant ties the version
under way to what the page will take for stored when its answer comes.

**`SystemDataProof`** (`TypeCorrect`, `FilesAreKept`, `RowsGoFirst`,
`OnlyLateOnesLost`, `Refinement`). The invariant describes, for each place `pc` a restore can be,
what directory and copy hold of the files from before and of the new ones, under
the faults that have struck so far. `OnlyLateOnesLost` adds which uploads'
rows are left at each place (`Spared`). `Refinement` maps the last step of a restore
or a purge to `Replace`, `GiveUp` or, after a harmful fault, `Break`.

**`BrowserSessionProof`** (`TypeCorrect`, `SessionsAreOwn`,
`NobodyWaitsForNothing`, `NoTabLosesItsSession`). The invariant adds that a
session on its way is known only to the answer that brings it (`Fresh`), that a
renewal under way carries the tokens its tab still has, and that a tab renews or
signs in, never both.

**`ProjectsProof`** (`TypeCorrect`, `FormsMakeOneProject`, `DocumentsKeepFiles`,
`LinksStay`). Requests remove files on the strength of what they read long ago.
They may, because the row of a document is written once: a document whose row
was seen (`Settled`) never gets another. `RequestOK` says so of the files each
request remembers, and that their rows are gone by the time it removes them.
The lemma `CarefulKeeps` reduces an action to what it does to documents and
files of its own request. `LinksStay` assumes the foreign key the entity
declares (`OnDelete = "refuse"`).

**Only model-checked.** Liveness (`RegistrationsEnd`, the three of
`UploadFiles`, `AnswersErased`, `EveryoneSent`), since fairness is outside the
prover's reach. Every other property of a passing run is proved.

## 6. What the code does not keep

Most of the stories below appear when a constant of a run is changed, and are
not kept as runs of their own. One is: `survey_lost_result` expects a violation
of what the privacy statement says. All are sequences of ordinary requests.

**Surveys.** Two purges select the same survey. The one that reads the answers
after the other has erased them saves an aggregate of zero over the result
(`survey_lost_result`). Alone, a purge is right (`ResultKept` in `surveys`). After
a crash between aggregate and erasure the survey is not selected again and the
answers stay. `OneActiveRound` fails with a second request: two `start()` find no
active round and both save. `Comparable`, all rounds ask the same questions,
fails with one request when `Updates` is `ArchivingEditing` and `Questions` has
`q2`: the first round is a draft while the second is cloned from it, and changes
afterwards.

**Accounts.** `POST /users` with the address of the only administrator and
another role demotes that administrator; `update()` refuses the same change
(`CheckedKeepAdmin` is about the operations that count). With two slots, two
requests count two administrators and remove both; two resends use one version
(`NewestLinkWorks`); the compensation of an invitation writes back the account
from before a removal (`RevokedLinksDead`); `inviteUser` saves the whole copy it
read, so that a person who accepted meanwhile is an invited one again, and an
account deleted meanwhile comes back (`GoneStaysGone`).

**Uploads.** The maintenance pass reads the referencing tables one after the
other. A project takes over a template's image after projects were read, and the
template drops it before templates are read; the pass does not see an image that
was referenced at every moment, and unlinks it if file and grants are old. An
image that one table refers to all the time is safe (`HeldByOneTableKept`).

**Organisation tree.** With two writers `NoCycle` fails, each moved below the
other after both were checked, and so does `PathsMatchTree`: a move below an
organisation whose path is still null, two overlapping moves, or a change of
rules that saves the stale copy it read over a new path. A move that stops half
way leaves descendants with old paths, which nothing repairs.

**Processes.** Going back to the version known as stored while a newer one is
queued or under way queues nothing, so the newer one is what is stored in the
end; a save that fails puts its version over the newer one that was queued
meanwhile. Leaving the page within the pause loses the edit. A deletion that
fails has dropped the queued version. The save of a deleted process is retried
for ever, and one that had found the row before the deletion inserts it again.

**System data.** `applyImportedUploads` and the undoing take a copy of the
directory that broke off for the whole one, and a directory that cannot be read
for an empty one. A commit whose answer is lost leaves new rows with old files.
Failed restores leave the copy behind, a failed unpacking its staging. Uploads
that arrive during a restore lose their files. `insertRows` works in chunks of
100, which can put an organisation before the one above it: with more than 100
of them a restore may fail on the foreign key although the order of the tables
is safe. A purge that fails after its commit leaves files.

**Sessions.** All tabs share the cookie. Signing in in a second tab, or a
renewal or the answer to a logout that comes late, replaces or clears it; the
next renewal of the first tab carries the wrong CSRF token and signs it out
although its session lives, while `authStorage.ts` speaks of isolated tabs.
Logging out sends the shared cookie and may revoke another tab's session. A
person who signs out and in again quickly can lose the new cookie to the answer
of the old logout. A call's only retry fails if another renewal has rotated the
tokens meanwhile. After a renewal that failed through the interceptor, a
navigation drops the expiry timer, and the person stays shown while every
request fails. A logout, or a revocation, that meets a renewal past its look-up
leaves a live session behind. A reload during a renewal loses the session, and
so does any network failure of the first `/auth/me`. The answer to a change of
password that comes after a logout signs the tab in again, since
`applyAuthenticatedSession` compares no generation. `KeepsItsSession` names
these as disturbances (`Disturbed`).

**Projects.** An edit with a category, which the form nearly always sends, reads
the row again and saves the whole copy: a project archived meanwhile is active
again, one removed meanwhile comes back without its documents. The form also
sends `archived` as it was when opened. A removal does not notice that its
project left the archive meanwhile. The migration creates the foreign key of the
activities with `SET NULL`, unlike the entity: with `OnDelete = "clear"`
`LinksKept` fails, an activity linked between count and deletion loses its
project silently. If the audit entry of an upload fails the controller removes
the file and the row stays (`failed` in `DocumentsHaveFiles`). Files stay without
rows after a crash, after a failed audit entry of a removal, or when a document
arrives between a removal's look-up and its deletion. A form edited and sent
again after a lost answer gets the first version back.

## 7. Assumptions and limits

- A handler is atomic between awaits; a statement is atomic in the database.
  A transaction that starts with the conditional update of a row and then
  writes that row (`Activities`), or whose statements set a status and raise a
  counter (`disableMembership`), is one step. That of `register` and those of a
  restore and a purge are modelled step by step.
- A generated id is never generated again.
- An upload request ends within the grace period (seven days for files), the
  reading part of a pass is shorter than a unit of time, and no survey request
  lasts a retention period.
- `Texts`, `Measures`, `Questions`, `Versions` are opaque values: their
  validation and normalisation are not modelled. Of the six referencing tables
  two are enough, since the pass treats each alike and in a fixed order.
- SQLite, the development database, has no advisory locks; `register` promises
  nothing about overlapping uploads there, and it is not modelled.
- Access control is left out: the actors are those the guards let through. In
  `OrgTree` they are superadmins, whom no policy of a parent restricts, and the
  default location of a new organisation is left out.
- In `Accounts` and `Projects` there is one organisation. A project has the two
  columns its rules are about; an activity is its link.
- In `SystemData` one restore or purge runs at a time.
- In `ProcessAutosave` one person edits, stays on the page and loaded the list
  once.
- In `BrowserSession` a change of password and a second factor are left out, an
  access token runs out at any moment but not within the one retry, focus and
  visibility are one action (`Return`), and a tab is not duplicated.

Not modelled, because nothing else depends on their state or because they are
input and output: audit log, e-mail templates, legal texts, guards, schema
migrations, configuration, frontend pages, demo, desktop shell, operations
scripts. `PROJECT.json` lists each part with its sources and its reason.

## 8. Plan

Done, in this order: activities (abstract store, service, proofs), upload
quota, upload files, annual targets, surveys, accounts, organisation tree,
process editor, system data (abstract replacement, service, proofs), browser
session, projects.

Next theorems: types of `OrgTree` for requests that overlap, which needs what
`Lineage` gives on a cycle; what each of two overlapping requests keeps in
`Accounts` and in `Surveys`, in place of the assumptions `OneRequest` and `Sole`.

Next modules: pure functions against reference definitions over bounded inputs
(evaluation of an annual target and its periods, weekly hours in the team
statistics); `Logbook`, whose entries leave the archive again; the change of
password in `BrowserSession`.
