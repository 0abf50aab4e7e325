# Verification of the EPG CMS platform

TLA+ models, TLC runs and TLAPS proofs for the EPG CMS (`src/`, a NestJS API, a
BullMQ worker and a React admin). The schedule module is the core of the
system: the endpoints that write the timeline, the cached public EPG in front of
it, the bulk importer, and the catalogue of channels and assets the timeline
refers to. Around it are the users and their sign-in, and of the admin web the
session of its tabs, the timeline editor and the dashboard.

Paths below are relative to `src/apps/`.

## 1. The system

### Components, their state and how they interact

| component | state | operations | talks to |
|---|---|---|---|
| schedules (`api/src/modules/schedules`) | tables `schedules`, `schedule_audit_logs` | create, update, publish, cancel; list, get | validation, overlap, auto-snap and gap services; audit log; cache; queues |
| schedule rules (`validation`, `overlap`, `auto-snap`, `gap-detector`, `conflict-engine`) | none (queries over `schedules`) | range and duration checks, overlap query, snapping, gap warnings | called by schedules |
| audit log (`modules/audit-logs`) | table `schedule_audit_logs` | insert, list | called by schedules and importer |
| public API (`modules/public-api`) | Redis keys `epg:public:*` with TTLs | list schedules, list channels, both cached | PostgreSQL, Redis |
| cache service, Redis service (`schedules/cache`, `redis`) | Redis | delete by pattern; every error is logged and swallowed | called after each write |
| queues and worker (`api/src/queues`, `worker/src`) | BullMQ queues in Redis | enqueue after a write; the worker deletes keys again, three attempts | Redis |
| importer (`modules/importer`) | `schedules`, audit rows; a map of job states in memory | preview (CSV, XMLTV, external API), apply | `schedules`, audit log, cache |
| channels, assets | tables `channels`, `assets` | CRUD; channels are deactivated, unused assets deleted | schedules (foreign keys), cache |
| users, auth, permissions | table `users`, JWTs held by clients | create, update, deactivate, login, guard | every controller |
| operations | rings of samples in memory | report | queues, public API |
| admin session (`admin-web/src/stores`, `services/api-client.ts`, `features/auth`, `pages/users`) | token and user in `localStorage`, a store in each tab | sign in and out, restore, poll, forms of the users page, what a 401 does | auth and users endpoints |
| admin timeline (`admin-web/src/features/schedule`) | query cache, the drag, the resize and the detail panel, in the browser | drag, resize, save, publish a channel | schedules endpoints |
| admin dashboard (`admin-web/src/services/dashboard.service.ts`) | the snapshot shown | reads lists page by page, scans for overlaps, gaps and invalid ranges | all list endpoints |

### What is hard

Nothing here runs in a database transaction. Every handler is a sequence of
awaits, and between any two of them the handlers of other requests run.
So what a handler checked may be void when it writes, what it wrote may be
overtaken before it is recorded, and when a process or a statement fails the
steps that were still to come never happen. On top of that, the public cache is
filled by readers that race with writers, invalidation is best effort twice over
(swallowed Redis errors, jobs that give up after three attempts), and
invalidation goes by a pattern that does not match every key.

The admin web is a second place where checks are made on old data. Its pages decide
on rows and on a user that they fetched earlier, tabs share one token, the editor's
pointer handlers close over the rows of the moment they were made, and the dashboard
adds up lists that were read at different moments, page by page.

`PROJECT.json` lists these hazards one by one at their lines. The properties
that make each component correct:

- schedules: no double booking on a channel, stored rows that are well formed,
  cancellation is final, publication only through the publish endpoint, a
  complete and unambiguous audit trail, and as the sum of the first four an
  implementation of the atomic timeline;
- public EPG: nothing unpublished is ever served, nothing double booked is
  served, a write that was answered is visible, and an outdated response ends;
- importer: the timeline stays as sound as the files are, nothing is dropped
  silently, and sending a batch again after a failure is harmless;
- channels, assets: unique `epgId`, no asset taken from a schedule that uses it,
  changes that show in the public responses, assets that can be played;
- users: whoever passes the guard may by role do what was asked, only admins write
  users, stored permissions stay within the role;
- admin session: what the router or a button checked is refused only if the page is out
  of date (the schedule page checks nothing but its route), no token is left to nobody, a
  deactivated user is signed out by a page that polls;
- admin timeline: within the window that was fetched the page's overlap checks are as
  strict as the API's, what is shown while dragging is what is saved, a resize does not
  land on a programme that was moved, what was written gets shown;
- admin dashboard: a report that nobody wrote into is exact, and one that somebody
  did misses no more than the rows behind the last page.

## 2. The modules

```
ScheduleRules <- Timeline                               (abstract)
   ^    ^    ^      ^ refined by ScheduleService, extended by TimelineEditor
   |    |    |
   |    |    +--- ScheduleService <- MCScheduleService  runs Schedule*
   |    |               ^   ^
   |    |               |   +--- Importer <- MCImporter runs Importer
   |    |               +------- PublicEpg <- MCPublicEpg   runs Epg*
   |    +-- TimelineSnap <- TimelineEditor (with Timeline)
   |                               ^
   |                               +--- MCTimelineEditor     run TimelineEditor
   +-- ScheduleRules_proofs

Catalog <- MCCatalog                                    runs Catalog, AssetUrls
Access  <- MCAccess                                     run Access
   ^---- Session <- MCSession (also extends MCAccess)   run Session
Dashboard <- MCDashboard                                run Dashboard
```

The theorems about `M` are in `M_proofs`, those about `Access` in `Session_proofs`, before
those about the sessions that use it. `PublicEpg_proofs` and `Importer_proofs` extend
`ScheduleService_proofs` and cite its step lemmas; the lemmas about auto-snap in
`ScheduleRules_proofs` serve both `ScheduleService_proofs` and `TimelineEditor_proofs`.

**ScheduleRules** holds the pure rules: `Overlaps` (half-open intervals),
`WellFormed` (the three validations), `SnapStart` and `GapBefore` (each from the
query its service makes). A time is a whole second.

**Timeline** is the promise: a table of slots in which booking, editing,
publishing and cancelling are single steps that are granted only when the
channel stays free of double bookings. It has no requests, versions or audit.

**ScheduleService** is the code. `schedules` and `audit` are the two tables; a
handler has a `pc` naming its next step, a `call` (what it decided on before its
write, the locals of the handler) and a `written` record (what it still has to
announce). The steps of the four endpoints are

| step | code |
|---|---|
| `BeginCreate`, `BeginUpdate`, `BeginPublish`, `BeginCancel` | the reads and validations up to the conflict check |
| `Check` / `Refuse` | `findOverlaps` and its outcome; `remove` skips it |
| `Write` | the `INSERT` or `UPDATE`, naming exactly the columns the code names |
| `Audit` | `createScheduleAuditLog` |
| `Invalidate` | `invalidateScheduleCache` |
| `Enqueue` | `enqueueScheduleJobs` or `enqueuePublishJobs`, and the response |
| `Fail` | the process dies or a statement fails, between any two of these |

Reads that only decide about a refusal before the conflict check (does the
channel exist, does the asset) are part of `Begin`; channels are never deleted
and the asset enters as its duration. The read of the row and the auto-snap query
are one step: both precede the check that decides, and a create has no row yet.
`UpdateSets` is what makes the model faithful where it hurts: `update` computes
a start, a stop and a duration from the row it read and stores only some of them.

**PublicEpg** adds Redis, the readers and the worker. A reader misses, reads the
table and stores what it read in three steps. `Purge` deletes the keys of one
channel after a write, `EnqueueJobs` adds the worker's jobs, `Process` and
`Retry` are the worker. A key of the model stands for any one key with its
channel, `AllChannels` for the keys of queries without one, which no
invalidation pattern matches. `late` is a history flag of a response: the table
had moved on by the time it was stored.

**Importer** adds `POST /importer/apply`, served by the same handlers. `Candidates`
goes from a file, through what its parser accepts, to what the preview returns.
`LookUp` is one lookup of the `Promise.all`, `CreateImported` and `AuditImported`
are the loop, `FailImport` breaks it off after any statement. A candidate carries its place
in the file (`at`), which is the order the loop goes by, so that the candidates of a file,
those looked up and those created are sets. `ProgrammesApart` and `DurationsAgree` say what
no parser asks of a file.

**Catalog** stands on its own: the tables `channels` and `assets`, and of `schedules`
the one column (`uses`) that refers to them. A handler's `request` is the statement
it is about to send: it is decided on by what was read (`CreateChannel`,
`UpdateChannel`, `RemoveChannel`, `UpdateAsset`, `RemoveAsset`, `TakeAsset`), sent by
an action of its own (`InsertChannel`, `WriteChannel`, `WriteAsset`, `DeleteAsset`,
`WriteSchedule`), or refused by the database meanwhile (`WriteFails`). After a write
the request is the set of keys still to be deleted; for an asset these are looked up
first (`FindAffected`), in a statement of its own. The two public responses are
`ShownList` and `ShownGuide`; `lost` and `since` are history. `TakeAsset` and
`WriteSchedule` are what `ScheduleService` looks like from here: an update that sets
the asset.

**Access** is the table of users behind its guards. A `request` walks from the
strategy (`Authenticate` reads the caller's row, evaluates the permissions and
decides) to the handler (`Create`, `Update`, `Deactivate` read the row they work on) to
the write (`InsertUser`, `UpdateUser`), each an await away from the one before;
`FindUser` and `Compare` are the sign-in. `Serve` stands for every endpoint of
the other modules: `Reads` for what the pages list, `work` for the writes of channels and
assets, `plan` for those of schedules. `snapshot` is the refresh of the dashboard, whose
GETs go out in one `Promise.all`: any of them that is refused, but for the two operations
reports, whose errors are swallowed, refuses the refresh. `RefuseToken` is a token that is missing, forged or expired.
`Resolve` and `StoredPermissions` are `resolvePermissionsForRole` and the fallback to
the defaults of the role. Scripts send any call with anybody's token (`Arrive`).
`roleless` is history: whose permissions were set by a body without a role.

**Session** puts the tabs of one browser in place of the scripts. `storage` is what
`localStorage` holds, `tab` what each tab shows. `Ask` sends with the token that is
stored, not with the user that is shown, as the interceptor of `api-client.ts` does;
`HearRefusal` is its 401 branch, `Unheard` an answer for a page that is gone. What the
router asks for (`Routes`) and what a button asks for (`Buttons`) are tables of their own,
apart from what the API demands (`Needs` of `Access`), and evaluated by the web's own
`permissions.ts`. They differ: the schedule page opens with the permission to see schedules
(`router.tsx:61-66`), fetches channels and assets whatever its user may do
(`SchedulesPage.tsx:36-46`), and offers every write unchecked; the channels page polls
schedules. `Fetches`, `Polls` and `Clicks` say what each page sends by itself, on its interval
and on a click. `Navigate` is the menu; `waiting` is the page that sent the request under
way. `Covered` says of a page and an operation that router and buttons ask for all that
the API will ask for, and `RefusalsAreNews` is about those only. Every request is one of
`Access`, and the two modules are checked together.

**TimelineSnap** is the arithmetic of the editor: grid, the edges of neighbours, their
two thresholds (`Near` counts whole minutes, `Within` milliseconds), the drop that snaps
twice (`DropPlace`), the edges of a resize and of the panel (`EdgeSnap`, `StopSnap`).

**TimelineEditor** extends `Timeline`: the API is one atomic step here, because how
requests run into each other on the server is the subject of `ScheduleService`. On top
are `view` (the rows that were fetched: those that reach into the window `From`..`To`, the
selected day and the next until six, `SchedulesPage.tsx:54-62`), the requests under way, the loop of Publish Channel
(`batch`), the resize in hand (`grip`, with the rows that its handler closed over) and
the start that the panel offers after a refusal (`hint`). The gestures `DropAsset`,
`Move`, `PointerDown`/`PointerUp`, `Save`, `SaveAtHint`, `Follow`, `PublishOrRemove`
and `PublishChannel` snap, check and send as the hooks do. An answer comes (`Granted`,
`Failed`) or is lost after the API wrote (`GrantedUnheard`, `BatchUnheard`).
`OthersWrite` is another operator. Neither a drop nor the panel's date picker keeps to the
window, and no gesture looks at permissions: `Allowed` is what the API's guard lets the
user do (`Needed`). `WithinHorizon` only bounds the places the model has. `from` and `sure`
in a request and `unseen` are kept for the properties only.

**Dashboard** reads four lists side by side (`CountRows`, then `ReadPage` one page at a
time by offset) while others create, move, publish and remove rows between any two reads,
then scans (`ScanRow` is the body of the loop of `calculateIntegrity`) and shows. `old`,
`calm` and `steady` are history: the rows when the refresh began, whether anything
was written since, and whether only additions and changes of status were.

## 3. What TLC checks

| run | instance | shows |
|---|---|---|
| `ScheduleSerial` | 1 handler, 2 schedules, 2 channels, times 0..2, all bodies | the whole contract of the service when calls do not run into each other, including `ImplementsTimeline` |
| `ScheduleConcurrent` | 2 handlers that may die, 1 schedule | what survives concurrency and failure: types, at most one audit row for a version, no audit row ahead of the table |
| `EpgWrites` | 1 handler, 1 reader, 2 schedules, 2 channels, Redis up | `WritesAreSeen`, `ServedWithoutOverlap` |
| `EpgExpiry` | everything may fail, 1 schedule, 1 channel and the key of all channels | `OnlyPublishedIsServed`, and under fairness `StaleResponsesEnd` |
| `Importer` | 1 handler, 3 schedules, 2 channels and an unknown epgId, failures | imports of sound files keep the table sound through failure and resubmission; `ImportCovers` |
| `Catalog` | 2 handlers, 1 reader, 2 channels, 1 `epgId`, 1 asset, 1 schedule | under concurrency: unique `epgId`s, current public responses, deletions that spare what is used |
| `Access` | 2 callers with any token, 2 users, 3 permissions | under concurrency: the guard stays within the role (`GuardWithinRole`), only admins write, `StoredWithinScope` |
| `Session` | 2 tabs, one on dashboard, channels and schedules, the other on dashboard and users; 2 users, 4 permissions | `RefusalsAreNews`, `TokenIsShown`, and under fairness `DeactivatedSignedOut` |
| `TimelineEditor` | 1 tab, 3 schedules, 1 channel, times 0..8 with the window 0..3, a page of 2 rows, 1 call under way, 1 unseen write, no permission to delete | `RefusedOnlyIfOutdated`, `ResizeOnSeenStart`, `DropsWhereShown`, `OwnWritesAreShown` |
| `Dashboard` | 3 rows, 2 channels, pages of 2, at most 2 pages, 1 write during 1 refresh | `IntegrityIsExact`, `CoverageIsExact`, `OnlyTheTailIsMissed` |

Two runs end in a violation, each the counterexample of a finding:

| run | property | what happens |
|---|---|---|
| `ScheduleRaceBooking` | `NoDoubleBooking` | two creates pass the overlap query before either writes |
| `AssetUrls` | `AssetsPlayable` | one `PUT /assets/:id` with null URLs passes the check on the merged body and stores the nulls |

The remedy for the first, and for the other races of section 5, is to check and write
in one serializable transaction. Constraints do as well: an `UPDATE` that matches the
version that was read and leaves cancelled rows alone, and an exclusion constraint on the
range; `TimelineWithConstraints` (section 4) proves that they are enough. For assets, the check has to merge
body and row the way the `UPDATE` does: `undefined` keeps the column, `null` clears it.

### Bounds, and why they are enough

- Times 0..2 give slots of one and two seconds that are equal, touch, overlap,
  contain each other or leave a gap: every case the rules tell apart.
- Two schedules suffice for a double booking, and two channels for a move. Three
  rows in `Importer` let a batch of two meet an existing row.
- Two handlers suffice for every race found here: each is one call overtaken by
  one other.
- In `Catalog` two channels that want one `epgId` are all a conflict needs. One asset
  that a schedule takes, and that is renamed, deleted and created again, meets every
  order of count, write, lookup and deletion.
- In `Access` one administrator and one user who is created, demoted, deactivated and
  created again; permissions to look, to edit and to manage are one for each
  boundary between two roles. In `Session` a second tab is what changes the token
  under the first. A fourth permission, to see assets, is one that the managed user lacks:
  the schedule page opens for them and is refused what it fetches and what it sends, which
  are the 403s that `RefusalsAreNews` says nothing of. One tab stays in front and changes
  between the two pages that poll and the schedule page, which does not; the other may be
  hidden, and manages users.
- In `TimelineEditor` the minute is two seconds long so that dropped seconds show, and
  edges attract from further than a grid line, as in the code. Programmes end off the grid
  of three (at 1, 4, 7 and 8), and a card is dropped before them and behind them, so that in
  the run a ghost that snapped to the stop 4 is put back on the grid line 3 by the second
  snap, into the programme that ends at 4, and is not sent; a snapped place lies on a
  programme across it; a resized stop snaps to the start 0 before its own; programmes begin
  behind the window and refuse what the page found free; deletions are refused. Three
  programmes give one to move and one on each side of it; the page holds two rows, so that
  one may be out of sight. `MaxUnderWay` (calls, a resize and
  the loop count one each) and `MaxUnseen` bound the run only: the theorems have neither.
- `Dashboard` needs three rows for a programme inside a longer one followed by another,
  two pages for a row to be pushed from one to the next, and one write at each of the
  moments between two reads. `MaxWrites` and `MaxPolls` are lifted by the theorems.
- `MaxVersion` bounds edits of one row (3: create, and two edits or an edit and a
  publish). A cancellation does not count, as in the code.
- `MaxJobs` bounds the backlog of a channel. A further job for the same keys
  deletes nothing that the waiting one does not.
- The public window (`from`, `to`, `date`, "from now on") and the limit of 200
  rows are left out: a response holds every published schedule of its channel.
- Symmetry is used over schedules, channels, handlers, callers and readers, where
  nothing tells them apart, and never together with a liveness property.

Deadlock is checked in every run but `Dashboard`, which really stops: when the bounds on
refreshes and writes are used up, nothing is left to do.

### Fairness

There are two liveness properties. `StaleResponsesEnd` assumes that Redis expires a
key that has a TTL (`WF` of `Expire`), and nothing of the requests, the writers or
the worker: all of them may stop or fail for ever. A reader may put back an
outdated response after each expiry; the property is that each one ends.

`DeactivatedSignedOut` assumes (`Running`) that the server goes on serving a request it
has, that an answer arrives and its callback runs, and that a page that loads finishes
loading, for every tab; and that a page with an interval goes on polling, for a tab that
stays in front only (`WF` of `Poll` for `InFront`). Only the dashboard and the channels page
have a `refetchInterval` (`DashboardPage.tsx:104`, `ChannelsPage.tsx:136`), so `Poll` is never
enabled on another page, and the query client pauses the interval of a tab that is hidden.
Nobody has to sign in, click, navigate, reload or sign out. The property is about a
user who stays deactivated while the tabs in front are no longer reloaded or taken to
another page: then no tab in front is left on a polling page that it may open
while the token of that user is stored. A tab on the schedules, assets or users page, or
behind others, keeps a dead token until somebody clicks, and the property does not say
otherwise.

## 4. What TLAPS proves

For all numbers of handlers, schedules, channels and readers, all horizons and all
request bodies:

| theorem | assumes | says |
|---|---|---|
| `TypeCorrect` | | `[]TypeOK` |
| `PublishedStamped` | | `[]PublishedIsStamped` |
| `AuditTrailUnambiguous`, `AuditTrailBehindTable` | | `[]OneAuditRowPerVersion`, `[]AuditedWritesHappened` |
| `SnapsFollowOn` | | `[]SnappedFollowsOn` |
| `AuditTrailKept` | no faults | `[]AuditTrailComplete` |
| `RowsWellFormedWhenApart`, `AuditTrailIsAHistoryWhenApart` | rows apart | the invariants |
| `CancelledIsFinalWhenApart`, `PublishedByPublishOnlyWhenApart` | rows apart | the action properties |
| `NoDoubleBookingWhenApart` | rows and channels apart | `[]NoDoubleBooking` |
| `ServiceImplementsTimeline` | rows and channels apart | `Spec => ImplementsTimeline` |
| `SoundSerially` | one call at a time | all of these |
| `RowsWellFormedWithWholeBodies` | whole bodies | `[]RowsWellFormed`, whatever runs into what |
| `SoundWithVersionsChecked` | versions checked | `[]RowsWellFormed` and `[]AuditTrailIsAHistory` |
| `SoundWithRowsChecked` | versions checked, cancelled left alone | `CancelledIsFinal` and `PublishedByPublishOnly` |
| `TimelineWithConstraints` | the same, `[]NoDoubleBooking`, no cancelling bodies | `ImplementsTimeline` |
| `SnapStartKeepsFree` | | the place that auto-snap makes of a free one is free |
| `EpgImplementsService` | | `EpgSpec => Spec`, so every theorem above carries over |
| `EpgTypeCorrect` | | `[]EpgTypeOK` |
| `NothingUnpublishedServed` | | `[]OnlyPublishedIsServed` |
| `WritesAreSeenWhenApart` | rows apart, no faults, Redis answers | `[]WritesAreSeen` |
| `WritesAreSeenWithoutMoves` | no moves, no faults, Redis answers | `[]WritesAreSeen`, whatever runs into what |
| `WritesAreSeenWithVersionsChecked` | versions checked, no faults, Redis answers | `[]WritesAreSeen`, moves included |
| `ServedWithoutOverlapWhenApart` | rows and channels apart | `[]ServedWithoutOverlap` |
| `ImportTypeCorrect`, `ImportPublishedStamped` | | `[]ImportTypeOK`, `[]PublishedIsStamped` with imports |
| `ImportTrailUnambiguous`, `ImportTrailBehindTable` | | the invariants of the audit trail, with imports |
| `ImportTrailKept` | no faults | `[]ImportTrailComplete`: with imports, too, no audit row is lost |
| `ImportTrailIsAHistoryWhenApart`, `ImportCancelledIsFinalWhenApart`, `ImportPublishedByPublishOnlyWhenApart` | rows apart | the properties, whatever imports run beside the calls |
| `ImportCoversWhenApart` | rows and imports apart | `[]ImportCovers`, for any file |
| `ImportRowsWellFormedWhenApart` | rows apart, `DurationsAgree` | `[]RowsWellFormed` with imports |
| `ImportNoDoubleBookingWhenApart` | rows, channels and imports apart, `ProgrammesApart` | `[]NoDoubleBooking` with imports |
| `ImportImplementsTimeline` | the same and `DurationsAgree` | `ImportSpec => ImplementsTimeline` |
| `ImportSoundSerially` | one request at a time, both on files | all of these |
| `CatalogTypeCorrect`, `CatalogSound` | | `[]CatalogTypeOK`, and with it that foreign keys hold |
| `EpgIdsStayUnique` | | `[]EpgIdsUnique` |
| `ListStaysCurrent`, `GuideStaysCurrent` | | `[]ListIsCurrent`, `[]GuideIsCurrent` |
| `DeletionsSpareUsers` | | the action property `DeletionSparesUsers` |
| `AccessTypeCorrect`, `AccessSound` | | `[]AccessTypeOK`, and that what a handler found out before its write still holds |
| `GuardStaysWithinRole`, `StoredStaysWithinScope` | | `[]GuardWithinRole`, `[]StoredWithinScope` |
| `OnlyAdminsWriteUsers` | | the action property `UsersWrittenByAdmins` |
| `SessionImplementsAccess` | | `SessionSpec => Spec` of `Access`, so its theorems carry over |
| `SessionTypeCorrect`, `RefusalsStayNews`, `TokenStaysShown` | | the invariants |
| `EditorImplementsTimeline`, `EditorKeepsChannelsFree` | | `EditorSpec => Spec` of `Timeline`, and `[]LiveFree` |
| `EditorTypeCorrect`, `ResizeKeepsSeenStart`, `DropsStayWhereShown`, `OwnWritesGetShown` | | the invariants |
| `RefusalsAreExplained` | | `[]RefusedOnlyIfOutdated` |
| `DashboardTypeCorrect`, `OnlyTailMissed`, `IntegrityExact`, `CoverageExact` | | the invariants |

The constants are constrained by the named `ASSUME`s of the modules only: finiteness
where something is counted, that a page or a grid step is not empty, that edges attract
from no nearer than a grid line (`SnapAssumption`: 5 and 10 minutes in the code), and that
`Null` is none of the values it stands beside.

Section 5 lists what the code lets go wrong when requests run into each other. The
premises in the table say how little would have to be kept apart for it to go right, and
each is a state predicate that the theorem assumes of all states of a behaviour, so that
any number of handlers goes on working side by side:

- *rows apart* (`RowsApart`): no two calls are between the read of a row and its write at
  the same time. `SELECT ... FOR UPDATE` would ensure it. Nothing else is locked: the audit row, the invalidation and the jobs
  of a call may come when the next one is far ahead.
- *channels apart* (`ChannelsApart`): no two calls seek a place on one channel at the same
  time. This is what a double booking needs, and what the other properties do not.
- *imports apart* (`ImportsApart`): while an import runs, no call leaves or enters a channel
  of its file, and no other import does. The rows an import creates need no lock.
- *one call at a time* (`OneAtATime`): `Handlers` has at most one member. It implies the
  three, and is the setting of the runs `ScheduleSerial`, `EpgWrites` and `Importer`.
- *whole bodies* (`WholeBodies`): a body names a start exactly if it names a stop or a
  duration. Then an update stores the slot it validated or leaves the slot alone, so rows
  cannot be torn, with no lock at all.
- *no moves* (`NoMoves`): no body names a channel. Then a write knows all the keys it
  outdates, with no lock at all; with moves TLC finds `WritesAreSeen` violated by two calls.
- *versions checked* (`VersionsChecked`): an `UPDATE` of update, publish or cancel goes
  through only if the row still has the version that was read, as `WHERE id = ... AND
  version = ...` would have it; a call that does not match stops there. No lock, and no
  premise on what runs into what. It does not keep `CancelledIsFinal` and
  `PublishedByPublishOnly`, which TLC then still finds violated: `remove` sets `CANCELLED` and
  leaves the version as it is (schedules.service.ts:212-218), so a call that read the row
  before it matches the row after it.
- *cancelled left alone* (`CancelledLeftAlone`): update and publish do not write to a row that
  is cancelled by then, the second condition such a `WHERE` needs. An exclusion constraint
  on the range is `[]NoDoubleBooking` as a premise: it refuses the write that would
  break it. *No cancelling bodies* (`NoCancellingBodies`) excludes the update whose body says
  `CANCELLED`: the service checks such an update for overlaps like any other, as `Timeline`
  does, but a constraint on rows that are not cancelled has nothing to say about it.

The argument rests on inductive invariants, each a conjunction of named parts:

- `CoreInv` is `TypeOK` plus: a pending call is for a row of the table, or, for a
  create, for a uuid that no row and no other call has.
- `StampInv` adds the shape of a call of each endpoint (a publish sets only the
  status, an update that asks for `PUBLISHED` started from a published row, and
  so on). A stamp is never taken back, so an update whose row was published when
  it was read still finds it stamped.
- `TrailInv` relates audit rows, pending audit rows and versions: the version a
  writer holds was produced by the increment in its own statement, so no two hold
  the same, and none is ahead of the row.
- `SerialInv` (rows apart): what a pending call read is still true of its row, and what it
  is about to audit follows on what it read. From it `WriteStoresItsSlot`: the columns that
  an update leaves alone hold what the call computed, so the row it stores is well formed.
  The step lemmas assume only this much of a write, `WritesAreTrue` and, against double
  bookings, `WritesAreFree`, so that locks and constraints share one proof of the refinement.
- `VersionsTellSlots` holds without premises: a row at the version that a call read has
  the slot that the call read, and whatever changes a slot makes a version.
- `BookedInv` (channels apart, too): nothing stands in the way of a call past the check. That
  makes the write an atomic step of `Timeline` and every other step a stutter.
- `Accounted` says of one version of one row that its audit row is there or on its way; a
  step keeps it (`AccountedStays`) and accounts for the version it makes
  (`VersionsAreAccounted`).
- `ServedInv`, `SeenInv`, `ApartInv` relate the cache, the readers and the table:
  a response or a read under way shows only stamped rows; a response that was not
  late differs from the table only on the channels of the write still to be purged;
  a response shows one moment of a table without double bookings. `SeenInv` needs of the
  calls no more than `WritesKnowChannels`: a write knows the channel its row is on, be it
  for a lock, for the lack of moves or for a version check.
- `ImportInv` adds to `CoreInv` what is so of a batch: its candidates are in range, what is
  created was looked up, the row to be audited is there. All steps but `CreateImported` and
  `AuditImported` are steps of `ScheduleService` or leave its variables alone
  (`KindsOfSteps`), so the step lemmas of the service carry over as they stand.
  `ImportedIsNew` keeps the audit row that an import has yet to write apart from those of calls
  that already work on the row. `CoveredBy` says that what is in conflict or created is taken,
  `FreeFor` that what was found free is free until it is created, which is where
  `ApartInBatch` comes in: the batch itself must not take it.

- `Sound` is `CatalogTypeOK` plus: channels and assets that are referred to are
  there. `EpgIdsUnique` needs no more than that, because the proof never uses what
  `assertEpgIdAvailable` read: only the index. `CountedSince` says that whoever uses
  the asset of a pending deletion has been written since it counted. `GuideIsCurrent`
  needs `InsertsFresh` (an INSERT is about a channel nobody shows); its proof has a
  case per step: who takes a channel out of an asset's lookup purges it himself.

- `Sound` of `Access` says what a request past the guard may rely on: its principal was
  active and permitted (`Guarded`), the row it will write is still there, and if it sets
  a role, the permissions beside it are within that role's scope (`Prepared`);
  `StoredWithinScope` follows because one statement writes both.
- `SessionSound` adds that a 403 names somebody whom the rules refuse (`Truthful`), and
  that the page a tab waits for was open to the user it shows, and so was the button
  (`Consistent`). For what is `Covered` that is all the guard asks for, and the guard's way to
  evaluate it agrees with the page's on every user, so the two are different people
  or different rows. The tables are constants: the theorem holds for any router, any
  buttons and any API. `SessionStep` maps each step to one of `Access` or a stutter.
- `EditorInv` holds the types, that live slots of a channel are apart (`Timeline`'s
  `LiveFree`), and what the shape of a request says about where it came from. `SureCalls`
  is the heart of `RefusalsAreExplained`: a request that was made on true rows and
  has met no write since is `Excused`, that is, would be granted now or has one of the
  reasons named. It is established gesture by gesture, from the page's check on the
  snapped place: what is listed is free of it (`SeenFreeIsFree`), what is not lies beyond the
  window (`UnlistedIsBeyond`), and a resize cannot meet what lies before it, because the row
  would overlap it already. `SnapStartKeepsFree` carries it through the server's own snap.
  `SureLoop` says the same of Publish Channel, for a user who may publish: every row still
  before it is live.
- `DashboardInv`: `Met` says which rows a list that is half read must contain (those
  whose position has been passed), which proves `OnlyTheTailIsMissed`; `Agree`
  and `Complete` say that without writes the items read are the rows listed, all of them
  when the loop begins. `ScanRight` is the invariant of the loop: `end` is the latest stop
  so far, and each counter is positive exactly if the rows seen so far have such a fault.
  `Displayed` carries it into the snapshot.
- Earliest and latest elements (`LatestIsMaximum`, `EarliestIsMinimum`) come from the
  well-foundedness of the naturals, applied to the distance from the end of the day.

The proof modules state each of these as a lemma per step.

Only model-checked: the liveness properties `StaleResponsesEnd` and `DeactivatedSignedOut`,
which are out of the prover's reach. `AssetsPlayable` is refuted.

## 5. What the code leaves unpromised

Writes to the timeline that run into each other. A double booking is the run
`ScheduleRaceBooking`; the first three below are what TLC finds when
the property named is added to `ScheduleConcurrent`:

- `CancelledIsFinal`: a publish or an update with a status that read the row before
  `DELETE` writes its status over `CANCELLED` (`schedules.service.ts:316`).
- `PublishedByPublishOnly`: an update that saw `PUBLISHED` writes it back after another
  request made the row a draft (`:320`), without the publish endpoint.
- `RowsWellFormed`: two updates of one row store columns of different computations, so
  that the duration does not match the range (`:352`).
- `NoDoubleBooking` in `Importer`, with a file that has two overlapping programmes:
  `detectConflicts` compares each candidate with the table only, before the first is created
  (`importer.service.ts:92`). No second request is needed.
- A CSV row whose `duration_seconds` contradicts its `stop_time` is stored as it is
  (`importer.service.ts:108`), and publishing it is refused later.

Caches and catalogue:

- `WritesAreSeen` is stated for calls on one row that are kept apart. When another request moves a
  schedule between an update's read and its write, the update takes the schedule away
  from a channel it never saw and does not invalidate; that channel's responses live
  until their TTL. Nothing in the code says otherwise.
- A response that was late (`PublicEpg!Fill` after a write and its invalidation) and
  every response under the key of all channels is ended by its TTL alone.
- A schedule that takes an asset between the count and the `DELETE` of `assets.remove`
  is answered with success and loses the asset to `onDelete: SetNull`. No handler
  invalidates then, so the guide shows the deleted asset until its TTL;
  `GuideIsCurrent` names this as the one exception, `DeletionSparesUsers` says that no
  asset is lost in any other way.
- Of two requests for one `epgId`, or for one e-mail address, the second may fail on the
  index instead of being refused by the check before it: an internal error where the
  code has a conflict.
- A row that the importer or a handler wrote before dying has no audit row.

Users:

- A body with permissions and no role is resolved for the role that was read, and can
  leave permissions outside the role that is stored by then. They grant nothing
  (`GuardWithinRole`), because the strategy resolves them again.
- The form of the users page sends every field as it was when the form was opened, and
  the last save wins. The last administrator can be demoted or deactivated.

The session. A user may be refused what a page offers or fetches although the page is
current, because the page does not ask for what the API demands: a viewer gets 403 for every
drag, save, publish and delete of the schedule page (`ScheduleTimeline.tsx:129-195`,
`ScheduleDetailPanel.tsx:237-283`; `schedules.controller.ts:55-92`), and whoever may not see
channels or assets gets it for opening that page. `RefusalsAreNews` leaves these out by its
premise `Covered`.

The timeline editor. `RefusedOnlyIfOutdated` says that within the fetched window, and for
what the user may do, the overlap checks of the page are as strict as the API's, and names
the cases in which they are not. Read with the model, the code shows that

- the page fetches the selected day and the next until six, while the panel's date picker
  takes any date (`ScheduleDetailPanel.tsx:217-224`) and a long programme may be dropped late:
  what is saved beyond the window is checked against nothing, and only the API refuses it;
- a drop snaps the place of its ghost a second time (`useScheduleDrag.ts:153`), so a place
  near an edge may be moved on to another edge or be refused although its ghost was free;
- a drop that snapped to the *next* programme sends `autoSnap: true`, and the server,
  which only knows the previous one, moves the programme back to the latest stop before it
  however far that is;
- a resized stop, or the panel's edge snap, can go to a start before the programme's own;
  the duration becomes zero, the page's overlap check passes and the API refuses;
- a programme that began before midnight is drawn from midnight, and resizing it starts
  from the visible width (`schedule-position.util.ts:49-51`);
- the detail panel keeps the row of the moment it was selected and sends its status with
  every save: a save of a start takes back a publication made meanwhile;
- a move sends the duration that was seen, and undoes another operator's resize;
- a resize is checked against the rows of pointer down;
- the page asks for a hundred rows, cancelled ones among them; what lies beyond is neither
  shown nor checked, and only the API refuses a booking on top of it;
- "Snap after previous" in the panel sends a place that nothing has checked, and the
  warnings made from refusals carry no schedule, so that "Try snap to previous" is never
  offered for an overlap;
- the panel offers `PUBLISHED` as a status, which an update may not set.

The dashboard. Its numbers are exact for a refresh nobody writes into. Otherwise a row
pushed to the next page is fetched twice and overlaps itself in the report, and a row that
moves to an earlier page, or behind the last page of the first count, is missed.
`channelsWithIssues` counts the channels after the cut to five, and of these a channel with
one overlap (score 3) gives way to channels with two gaps (score 4).

## 6. Not modelled, and why

- List and get endpoints of single rows, the metrics and the operations report read only.
  The paged list of schedules is modelled where it is used, in `TimelineEditor` and
  `Dashboard`.
- A body that names a field with an explicit `null` (`schedules.service.ts:358-360` tests for
  `undefined` only) is taken as one that leaves the field out.
- Names, metadata, users on rows (`createdById`, `updatedById`) decide nothing.
- The worker's publish, snapshot and importer processors are placeholders that log.
- `publish/publish.service.ts` and `snapshots/` are empty; `timeline.service.ts` is
  not reachable from a controller; `useTimeline.ts` is imported by nothing.
- File formats are abstracted to which programmes a parser accepts.
- The job states an importer preview keeps in memory, and files previewed while
  channels change their `epgId`.
- Durations that are no whole seconds: the validation floors the range, times of
  the model are whole seconds already.
- `Catalog` has neither Redis faults nor handlers that die; `PublicEpg` has both.
  The upload of logo and poster files is left out.
- Passwords and hashes: a password matches or not. Tokens carry an id; that they expire
  is `RefuseToken`.
- Of the admin web: the forms of channels and assets, which only collect what the endpoints
  of `Catalog` take, layout in pixels, dialogs, texts and rendering. A fetch of the editor
  is one step at the moment the API reads, for the reason its module gives; the dashboard's
  fetches, which depend on what happens between pages, are not.
- The dashboard's counts of jobs and requests are displayed as they come.

## 7. What is left

1. `Importer`: the states of importer jobs.
2. `ScheduleService` under `TimelineEditor` in place of `Timeline`, to show which of the
   editor's promises survive two requests at a time.
3. Uploads of logos and posters, and faults of Redis in `Catalog`.
