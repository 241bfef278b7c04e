# build-budget-app in TLA+

build-budget-app tracks the budget of a house under construction. A NestJS API
(`apps/api`) keeps projects, stages, expenses, tasks, a diary, documents and
bank reports in PostgreSQL (through Prisma), runs background jobs with BullMQ on
Redis, stores files in S3 and takes payments through Stripe. A Next.js front end
(`apps/web`) keeps a cookie session and forwards every call.

The code holds no lock and no transaction across two `await`s. Each handler is a
chain of queries, and the chains of all requests, jobs and processes interleave
at every query. Whether that is safe is the question these modules ask: a check
made three queries ago is still relied on, a job may run twice, a process may
die between a row and the job that was to fill it.

## Inventory

State, operations and difficulties of each part, and what makes it correct.

| Part | State | Operations | What is hard | Correct when |
|---|---|---|---|---|
| Projects and members (`projects/`) | `Project`, `ProjectMember`, `User.plan` | create, update, remove, invite, list, remove member | plan limit counted before the insert; ownership checked queries before the write | one owner per project, owner row and owner member agree, no stale owner check, strangers learn nothing |
| Stages, expenses, tasks, diary (`stages/`, `expenses/`, `tasks/`, `diary/`) | four tables, optional `stageId` | create, update, remove | stage and project vanish under a request that has checked them | a stage reference stays in its project; nothing is written outside the project checked; money survives its stage |
| Budget summary (`getSummary`) | none | two concurrent reads, three sums | no transaction around the reads | the parts add up to the total unless the stages moved between the reads |
| Bank reports (`reports/`) | `Report`, BullMQ job, S3 object | request, process, download, remove | at-least-once jobs, crashes, lost locks, removal during a run | a pending report has somebody to settle it, a completed one has its PDF |
| Authentication (`auth/`) | `User` columns, Redis codes | register, verify, login, Google, refresh, logout | one refresh hash per user, codes read and deleted in two calls | what is good for one use is accepted twice only when two requests held it; a session lasts until a logout |
| Two-factor (`auth/`) | secret, flag, backup codes, challenges | setup, enable, disable, verify | read-modify-write of the codes; setup of an active factor | a sign-in gives a code when the factor is on; an active factor goes with the secret its owner confirmed |
| Billing (`billing/`) | `Subscription`, `User.plan`, Stripe's objects | checkout, webhooks | events late, twice, out of order; two customers | plan and subscription follow Stripe's last word |
| Deadline reminders (`notifications/`) | `remindedAt`, mails sent | daily job, manual trigger | mail and mark are two steps; one failure ends the run | each due task is mailed about, normally once |
| Benchmark (`benchmark/`) | `BenchmarkStat`, Redis cache | recompute, read | cache filled from an old read after it was cleared; two recomputations at once | old figures stay in the cache only for a named reason, and the figures come to be those of the stages |
| Realtime and the project page (`realtime/`, `use-project-socket.ts`, the panels) | sockets, rooms, query cache | connect, join, emit, invalidate, fetch, write | events before the join or while disconnected, answers older than an event, removed members | an open page agrees with the database in all it is told of |
| Documents (`documents/`) | `Document`, S3 objects | presign, upload, confirm, remove | object and row are two steps | a row's object exists; an object has at most one row |
| Web session (`apps/web` proxy and cookies) | two cookies, two expiries | sign in, forward, refresh, retry, log out | concurrent refreshes, replies in any order, cookie and token clocks | nobody is signed out without a reason, a logout holds, a retry executes nothing twice |
| PDF builder, mail/S3/Redis/Prisma wrappers, pages, i18n, password policy, deployment | none of their own | - | - | they appear as steps that may fail, or not at all |

Interactions: every service calls `ProjectsService.findOwned` (and most
`StagesService.findOwned`) before it writes; stages and expenses emit an
activity event after the commit, which the gateway broadcasts; `billing` writes
the plan that `projects` reads; the notification and report processors run in
every API process; the web proxy calls the API with the user's token.

`PROJECT.json` lists, under `components`, what is modelled and what is not with
the reason, and under `hazards` every place where the code is exposed, with the
properties that cover it.

## Modules

| Module | Models | Status |
|---|---|---|
| `Teams` | what the project and member endpoints promise, every operation atomic | abstract specification |
| `Projects` | `ProjectsService`, one action per awaited query; refines `Teams` | checked, proved |
| `Projects_proofs` | theorems about `Projects` | proved |
| `Workspace` | stages, expenses, tasks, diary and the summary, over `Teams` | checked, proved |
| `Workspace_proofs` | theorems about `Workspace` | proved |
| `ReportLifecycle` | what whoever asks for a report is promised, liveness included | abstract specification |
| `Reports` | request, queue, workers, crashes, removal; refines `ReportLifecycle` | checked, proved |
| `Billing` | checkout sessions and webhooks, Stripe as their environment | checked, proved |
| `Billing_proofs` | theorems about `Billing` | proved |
| `Reminders` | the deadline check, its queue, and task edits | checked, proved |
| `Documents` | documents and diary photos, from the panels to S3 | checked, proved |
| `Documents_proofs` | theorems about `Documents` | proved |
| `Auth` | accounts, sign-in, sessions and the second factor | checked, proved |
| `Auth_proofs` | theorems about `Auth` | proved |
| `LivePage` | an open project or stage page: panels, query cache, socket, gateway | checked, proved |
| `LivePage_proofs` | theorems about `LivePage` | proved |
| `WebSession` | the browser's cookies, the sign-in and logout routes, the API proxy | checked, proved |
| `WebSession_proofs` | theorems about `WebSession` | proved |
| `Benchmark` | recomputation of the statistics and the cache in front of them | checked, proved |
| `Jobs_proofs` | theorems about the background jobs: `Reports`, `Reminders` and `Benchmark` | proved |
| `MCProjects`, `MCWorkspace`, `MCReports`, `MCBilling`, `MCReminders`, `MCDocuments`, `MCAuth`, `MCBenchmark` | symmetry sets, views and values for TLC | |

`Workspace` builds on `Teams` and not on `Projects`: since `Projects` implements
`Teams` (a theorem), whatever interleavings the member endpoints have, the rest
of the system sees one atomic step per change of a team.

### Projects

A request occupies a slot of `Requests`. `pc[r]` names the query it runs next,
`call[r]` its caller and arguments; one action is one query and the code up to
the next `await`. `Start` is a request past `JwtAuthGuard` and the validation
pipe; `QueryFails` a rejected query (500, nothing written). `create` is
`ReadPlan`, `CountProjects`, `InsertProject`; `findOwned` is `ReadProject` and
`ReadMembership` (a 404 for both), `assertOwner` adds `ReadRole` (403);
`UpdateProject`, `DeleteProject`, `ListMembers`, `ReadInvitee`/`UpsertMember`
and `ReadMember`/`DeleteMember` are the bodies. Prisma rejects an update or
delete of a row that is gone; the foreign key rejects a member of a project that
is gone; `upsert` with an empty update leaves a member row as it is; a deleted
project takes its member rows along (`onDelete: Cascade`). Ids are uuids:
`issued` keeps them from being used twice. `SetPlan` is the billing webhook
seen from here. `entitled` and `upgraded` are history variables.

The data of a project is one value, whose editor last wrote it (`content`).
An update that changes nothing the caller sees is not told apart.

### Workspace

`rows` holds the four tables, told apart by `kind`. A request carries the list
`todo` of the queries that check it, in the code's order: `findOwned` of the
project (two queries), the row's own `findOwned`, and the stage's `findOwned`
(which runs the first two again) when the body names one. `Check` runs one of
them; `CreateRow`, `UpdateRow` and `RemoveRow` are the writes with their foreign
keys: a stage that is gone makes the write fail, a stage that is deleted is set
to null in what named it. `ReadStages`, `ReadExpenses` and `AnswerSummary` are
`getSummary`, whose two queries run concurrently. `TeamStep` is a step of `Teams`;
a dissolved project takes its rows with it. A client names ids that a reply has
shown it (`Known`); `GuessIds = TRUE` drops this restriction.

Titles, texts, dates, statuses and planned budgets are left out: no check or
foreign key reads them. A PATCH that names no stage and no amount stands for
every edit of those. Amounts are whole numbers (think of cents) and the summary's
sums are exact. The code adds `Number(amount)` in floating point, so that what is
said of sums holds of it up to rounding.

### Reports

`status`, `fileUrl` and `error` are the row's columns, `object` says whether the
PDF is in S3, `job`, `holder` and `stalled` are BullMQ's state of the job.
`requestReport` is `CreateReport` and `Enqueue`; `process` is `ReadData`,
`UploadPdf`, `CompleteReport` and on any rejection `MarkFailed`; `SettleJob` is
BullMQ moving the job (attempts is 1: a failed job stays failed); `TakeBack` is
the stalled check, which hands a job out again `MaxStalled` times and then fails
it without running `process` again. `UploadPdf`, `CompleteReport` and
`DeleteObject` may take effect and still be seen to fail: when the completing
update commits and its reply is lost, the catch writes `failed` over `completed`.
`unheard`, a history variable, notes such reports. `FindReport`, `DeleteObject`
and `DeleteRow` are `remove`; `DeleteProject` cascades over the rows and tells neither S3 nor
the queue. `Crash` takes a process down with everything it runs.

BullMQ is not part of the repository: `TakeJob`, `SettleJob` and `TakeBack` are
marked external in the map and follow how `reports.module.ts` and
`reports.processor.ts` use it (defaults: concurrency 1, one attempt, one stall).

`ReportLifecycle` is what a user can rely on with crashes: a report settles
unless it is `stranded` (mapped to `Stranded`: its request ended before its job was
added, or its job has failed and no run has recorded that), and settles once unless
it was `reopened` (mapped to `Reopened`: its job was taken back, or its completion
was not heard of).

### Billing

`customerId` and `plan` are columns of `User`, `row` is the `Subscription` of a
user: the id it was created with (an update leaves it) and which status of which
subscription was written last. Stripe is the environment: `past[s]` is what a
subscription has gone through, and an event carries the status it had when the
event happened (`n`), except that `checkout.session.completed` makes the code
retrieve the current one. `createCheckoutSession` is `ReadCustomer`,
`CreateCustomer`, `SaveCustomer`, `CreateSession`; the webhook is `Deliver`
(signature check and dispatch), `Retrieve`, `FindUser`, `UpsertSubscription` and
`WritePlan` with its answer. An event stays in `events` until Stripe has seen a
2xx. Amounts, periods and signatures are left out; `trialing` is `active` to the
code. `Stripe.customers.create` gets no idempotency key, so each call is a new
customer.

### Reminders

Days are numbers, a due date is a midnight and the check runs at 8, so that a
task due today is already out of the window. `FindDue` is the query, `SendMail`
and `Mark` the two awaited calls of the loop, whose order the query does not
promise; `CheckFails` is any of them rejecting, the rejected `update` of a deleted
task included. `NextMorning(n)` is the cron job of `n` API processes,
`TriggerCheck` the manual endpoint, `Stall` a lost lock or a crash, after which
BullMQ runs the job once more. `CreateTask`, `UpdateTask` and `RemoveTask` are
`TasksService` at its write (its checks are in `Workspace`): a PATCH without
`dueDate` keeps the date, and none touches `remindedAt`. `since`, `carried`,
`exposed`, `twice` and `checked` are history variables.

### Documents

`docs` and `entries` are the rows, `objects` the keys that have a file in S3.
`tab[t]` is the mutation a panel is running: `SubmitDocument` is the documents
panel (one file), `SubmitEntry` the diary panel, which creates an entry and then
stores its photos one after the other. `CreateEntry`, `Presign`, `PutFile`,
`CheckConfirm`/`InsertDocument` are the calls; each of `CreateEntry`, `PutFile`
and `InsertDocument` may take effect and still be seen to fail, and any call may
fail without effect (`CallFails`). A panel that sees a failure stops and shows
an error (`Throws`); `told` keeps the files of submissions that ended without
one. `FindDocument`, `DeleteObject`, `DeleteRow` are a removal, which may break
off anywhere (`RemovalFails`). `RemoveEntry` sets the photos' entry to null,
`DeleteProject` takes rows along and tells S3 nothing.

The look-ups of project and membership are part of the call they belong to
(`Projects` and `Workspace` take them apart): a project never comes back, so that
a look-up before the write adds nothing to the foreign key at the write. The one
look-up that does, of the diary entry, is a step of its own. A panel confirms
each key once; the API would accept a key again. Entries and projects are removed
in one step each, and stages are left out.

### Auth

`user` is the row of one account: every query goes by a unique column, so that
accounts have nothing to do with each other (a Google account is taken to keep
its email). Tokens, links, secrets and codes are random; `Fresh` numbers them in
the order in which they are drawn, and `told` holds those that a mail, a redirect
or a reply has shown the user, who presents no others. `challenges` and `stash`
are Redis. A request is one action per query, from the first one on: what a
guard reads later (`SignInsProven`) is what `Login` or `LinkGoogle` has read
earlier, and `codes` is the list of backup codes a request will write back.
`SetupTwoFactor` and `Logout` are one write each. `RequestFails` is any
rejection, a refusal by the unique index and a wrong code included; `Expire` is
Redis dropping a key. `used`, `reused`, `contested`, `loggedOut`, `confirmed` and
`upset` are history variables.

`user.session` is the token whose hash is stored, the last sign-in's.
`MayRefresh` compares what bcrypt reads of it with what it reads of the token
presented: 72 bytes (`BcryptReads`, external), which in a signed token are its
header and the start of the user's id, the same in every token of a user. So
`RefreshTokens` is refused when no hash is stored, and accepts whichever of the
user's tokens otherwise. `SessionLasts` rests on this and on nothing else (with
`BcryptReads(token) == token` the run finds it violated), and so disagrees with
what the code says of itself (see Findings). Expiry of tokens
and links, wrong passwords and the 30 seconds of a six-digit code are left out.

### LivePage

A value is abstracted to the number of writes it shows: `version[k]` is what the
database would answer to query `k`, `cache[t][k]` what the page of tab `t` shows.
`fetch[t][k]` is the tab's latest request for `k`, with the service's two steps
(`CheckRead` is `findOwned`, `Read` the query) and the answer on its way back.
`Invalidate` is React Query's `invalidateQueries` with its defaults: a query under
way is cancelled and asked anew. Every panel is a record of the key it shows, the
writes it offers and the keys its `onSuccess` invalidates, written by hand in each
panel and so in each record; `Changes` is what a write really changes. A photo is a
document with an entry, so that adding or removing one, and removing an entry that
has some, changes the list of documents as well as the diary.

A write is `Click`, `CheckWrite`, `Commit`, then `Emit` for stages and expenses,
the only services that emit, then `Reply`; the diary's mutation posts the entry and
then its photos one by one (`Attach`), and invalidates only when all have succeeded. `Emit` puts the event into `coming` of
every page in the room, `Deliver` is `onActivity`. `Connect`, `CheckJoin` and
`Join` are the handshake and `join-project`; `Reject` and `RefuseJoin` are the
refusals, after which the page stays outside; `Drop` loses what was on its way,
and the client joins again without fetching anything. A member may be removed, or
the project deleted, at any point.

`untold` names the keys a page is not going to hear of: tasks, documents, diary,
members and the project itself have no events; events emitted before the join or
while the socket is down reach nobody; a deleted stage's tasks, documents and
entries lose their stage and no list of theirs is fetched again. The panel that
deletes a stage invalidates the stages and the summary only (`stage-panel.tsx:38`):
its own page learns by the event that expenses have lost their stage, or not at
all while it is outside the room. The diary panel invalidates the diary only, the
documents panel the documents only, so that of a photo's two lists the other one
stays as it is. These are the
exceptions of `PagesAgree`, and the reason why `OwnWritesShown` promises no more
than the writing panel's own list and the summary (`Own`; see Findings); what remains is that no order of fetches, own writes
and events leaves a page behind. The gateway uses Socket.io's in-memory adapter,
so that one API process is assumed.

### WebSession

`jar` holds the browser's two cookies. A request carries the cookies it was sent
with (`sent`), and its reply the cookies it will set (`sets`); `Arrive` applies
them, in whatever order replies arrive, and `ReplyLost` never does. `SignIn`,
`Grant` and `Refuse` are the routes that end in `setAuthCookies` (login,
`2fa-verify`, `verify-email`, `oauth-callback`); `Logout` and `Revoke` the logout
route, which tells the API only when there is an access cookie. The proxy is
`Click` (401 without an access cookie), `Forward`, on a 401 `Refresh`,
`RefreshDenied` (the cookies are cleared, for a failing API too) or
`RefreshThrows`, and `Retry`.

Access tokens are numbered as they are signed and expire in that order, so that
one number (`spent`) tells which have; a cookie's age counts from its arrival, so
that it goes after its token has expired. The API's `session` is one Boolean, as
in `Auth`: any refresh token of the user that has not expired is accepted while a
hash is stored. Other devices sign in and out. `calm` and `out` are history
variables. `calm.yes` says that the browser was signed in and nothing that may end
its session has happened since; `calm.early` are the requests sent before that
sign-in and still out. They are followed, not excluded: any of them may be refreshed
and answered late. The one late reply that ends the session is named: it clears the
cookies, or puts back a refresh token that has expired (`CalmAfter`; see Findings). Pages rendered on the server only read the access cookie.

### Benchmark

`stages` says under which key (`region|name`, kept in parts, the name in lower
case) each stage is filed and at what cost per square metre, or that it is skipped.
`Start` is `recompute` with its reading, `Upsert` one bucket, `DeleteCache` the
end; a row's average is the set of costs it is of. Prisma reads stages and what
they include in several queries; they are one step here. `Get`, `Find` and `Set`
are `getCachedStats`; `Expire` is the hour. `Row` is what `split('|')` makes of a
key. `overtaken` and `abandoned` are history variables.

## Runs

| Run | Configuration | Shows |
|---|---|---|
| `teams` | `MCProjects.cfg`: 2 users, one of whom may subscribe, 2 projects, 3 member rows, 2 requests | types, ownership, no stale owner check, only editors removed, strangers see 404, only members edit, the free limit exceeded by less than the number of concurrent requests, refinement of `Teams` |
| `free_plan_limit` | `MCProjectsLimit.cfg`: 1 user, 3 projects, expected violation | two concurrent creations do exceed it (see Findings) |
| `workspace` | `MCWorkspace.cfg`: 1 user, 2 projects, 2 rows (stages and expenses), 2 requests | references stay in their project, writes stay in the project checked, the summary adds up, money survives its stage |
| `reports` | `MCReports.cfg`: 1 report, 3 processes, 2 crashes, lost locks, any call may fail | what may strand, unsettle or orphan a report is what the properties name; refinement of `ReportLifecycle` with its liveness |
| `billing` | `MCBilling.cfg`: 2 users, 2 customers, 2 subscriptions, 2 checkouts and 2 webhooks at a time, 2 payments or changes in all | plan and row agree once all is delivered; the plan is Stripe's unless an old event overtook it; payers are known unless two of their checkouts raced; nobody profits from another's payment |
| `reminders` | `MCReminders.cfg`: 1 task, 2 workers, 2 jobs, 3 mornings, a window of 2 days | no mark without a mail, doubles only from overlapping or cut-off runs, a completed check catches up on what failed ones left |
| `documents` | `MCDocuments.cfg`: 2 projects, 1 diary entry, 2 documents, 2 keys, 2 panels with up to 2 files, 2 removals | rows keep their files and their entry's project, files without a row are explained, success means stored |
| `auth` | `MCAuth.cfg`: 2 requests, 6 random values, 2 backup codes | who signs in has proved what the account asks; one use unless contested; the confirmed secret; sessions last until a logout |
| `live_page` | `MCLivePage.cfg`: 1 page of an editor, 1 other member's write at a time, 2 writes, the summary and the diary | an open page agrees with the database but for what it is not told; own writes show; a removed member sees nothing new; the page catches up |
| `web_session` | `MCWebSession.cfg`: 2 requests in flight, 4 access tokens, 1 failing call | nobody is signed out without a reason, a logout holds, a retried request is executed once |
| `benchmark` | `MCBenchmark.cfg`: 2 stages, 2 keys that share a row, 2 recomputations and 1 reader, 3 edits, 1 failure | old figures in the cache have a named reason; the figures come to be those of the stages |
| `reminders_moved` | `MCRemindersMoved.cfg`, expected violation | a task given a second date is not reminded of it (see Findings) |

Bounds, and why they are enough:

- Two requests. A lost update, a stale check or a race in this code is between
  one handler and one write of another. The plan limit's bound is stated for
  `Cardinality(Requests)`, and proved for every value.
- Ids run out (`ProjectIds`, `MemberIds`, `RowIds`): an insert is then disabled
  and its request can only fail. Two rows of the four tables are a stage and
  what refers to it; two projects are the one checked and another one.
- In `workspace` the rows are stages and expenses: tasks and diary entries have
  the checks of expenses, and the theorems hold for all kinds.
- `MaxCrashes` bounds crashes; two crashes use up `MaxStalled = 1` and go one
  beyond. One report is enough for safety, since reports share nothing but the
  workers, and the theorems hold for any number.
- Two customers and two subscriptions are what a race of two checkouts, or a
  user who subscribes twice, leads to; two payments or changes (`MaxChanges`) are
  a second subscription, or an event that overtakes another. Two webhooks at a
  time interleave their two writes.
- Three mornings and a window of two days let a check fail on one day and the
  next one catch up or come too late; two workers with two jobs overlap. The
  window of the code is 3, which differs in nothing but the number of mornings.
  Tasks share nothing but the run that mails about them, which may fail before,
  between and after the two steps of each: one task sees all it can do.
- Two keys and two documents are an entry with two photos, or two panels with one
  file each; one entry and two projects are enough for an entry of another
  project. Keys that are not given out again are the environment's promise
  (uuids), so that a larger supply adds no new kind of conflict.
- Six random values are a link, a token, a secret and its two backup codes, and
  a challenge: an account that registers, sets up its second factor and signs in
  with it. Two backup codes are the one used and the one a stale list brings
  back.
- In `live_page` queries do not touch one another, so that two keys are enough: one
  that events tell of and one that they do not. The diary is changed from its own
  panel, which then shows it, and from the documents panel, which does not. Two
  writes are one that a fetch
  has seen and one that overtakes it. The page is an editor's; the owner's writes
  come from the other member.
- In `web_session` two requests are two panels that refresh together, or a panel and
  a logout or a sign-in; four tokens are two sign-ins and two refreshes.
- In `benchmark` two stages with a least sample of two make a bucket that is
  published, falls below the limit and is emptied; three edits fill, change and
  empty it.
- Users, projects, rows, requests and processes are symmetric in the safety
  runs. Runs with liveness use no symmetry.

`Projects` and `Workspace` never stop, and deadlock is checked. The reports of
`Reports` are finitely many and removed in the end, so that its runs allow
termination (`CHECK_DEADLOCK FALSE`); so does `documents`, where every project
may be deleted, and `reminders_moved`, which has no triggers and ends with its
calendar, and `live_page`, where a removed member's page stays closed once all
writes are done. The other runs are checked for deadlock.

Fairness (`Reports!FairSpec`): weak fairness of the worker's and the removal's
own steps (promises settle), of `Enqueue`, of some free worker taking a waiting
job and of the stalled check, which BullMQ runs every 30 seconds. Requests,
removals and crashes are not forced. `MarkFailed` may fail to be recorded only
where `MayFail` holds `"mark"`; the lifecycle calls such a report stranded, since a
database that is not written to leaves the row pending.

Fairness (`LivePage!FairSpec`): a fetch proceeds, fails or is shown, an event that
is on its way is delivered, and a service that has committed emits. Nobody has to
open a page, click, connect or come back to the window.

Fairness (`BenchmarkFairSpec`): the cron job comes back (every night, in every API
process) and its steps and the reader's are taken; stages stop changing only
because edits are bounded, which is what `FiguresConverge` supposes.

Every property of a passing run has a mutant: a plausible mistake in the code,
written as an operator next to the definition it replaces, under which TLC finds
the property violated. `TypeOK` states the types of each module's variables; it is
an invariant of the run `teams`, and a theorem where the module has proofs.

## Proofs

`Projects_proofs` proves, for all values of the constants (assumption
`ProjectsAssumption`: null is no id, project and member ids differ, the free
limit is positive, the sets of project ids and requests are finite):

| Theorem | States |
|---|---|
| `Typing` | `Spec => []TypeOK` |
| `OwnershipHolds` | `Spec => []OwnershipIntact` |
| `OwnerCheckHolds` | `Spec => []OwnerCheckNeverStale` |
| `RemovalsHold` | `Spec => []OnlyEditorsRemoved` |
| `StrangersHold`, `EditsHold` | the action properties `StrangersSee404`, `OnlyMembersEdit` |
| `OvershootHolds` | `Spec => []OvershootBounded` |
| `Refinement` | `Spec => ImplementsTeams` |

The argument. `OwnershipIntact` alone is not inductive: nothing in it keeps a
fresh row from taking the id of a live one. The invariant adds that every row
and every live project has an issued id, and that ids are issued once. Every
step is then classified by what it does to the rows (nothing, a founded project,
a deleted one, an admitted or an expelled editor), and each invariant is
preserved per class and not per action. `OwnerCheckNeverStale` follows because
the only step that takes ownership away deletes the project, whose id is never
issued again; `OnlyEditorsRemoved` because a member row never changes its role
or project, and a row that is gone does not come back under its id. The same
classification maps each step to a step or a stutter of `Teams`. For
`OvershootBounded` each request that has passed its count is a slot that no
other creation of that user occupies: owned projects and requests about to
insert stay below the limit plus the number of slots.

`Workspace_proofs` proves, from `WorkspaceAssumption` and `TeamsAssumption`
(null and a field left out are no ids, amounts are positive):

| Theorem | States |
|---|---|
| `Typing` | `Spec => []TypeOK` |
| `ReferencesHold` | `Spec => []ReferencesIntact` |
| `WritesHold` | `Spec => []WritesStayInside` |
| `SpendingHolds` | the action property `SpendingKept` |
| `SummaryHolds` | `Spec => []SummaryAddsUp` |

The argument. A check is a fact about the past; what makes it safe to rely on
later is that a row never changes its id, kind or project and that ids are
issued once (`RowsStep`). So what a passed check leaves behind is `About(id,
kind, project)`: the id has been issued, and whatever row has it is of that kind
and in that project, the case that no row has it any more included. `Vetted`
says that every check a request no longer owes has left this behind; it is
inductive because `About` survives every step (`AboutStays`) and `Checks` owes a
check for every row a request names (`ChecksComplete`). A write then finds its
rows in the project it checked, or finds nothing, and the foreign keys do the
rest (`GroundedStep`). These proofs leave `GuessIds` open: they hold for clients
that name ids they were never told.

`SummaryHolds` has two halves. The interleaving: `HalfRead` says what a summary
that has seen no stage come or go knows between its reads, namely that the stages
it has read are the project's still, or that the expenses it has read are under
stages the project still has. With `AllGrounded`, the second read then leaves
every expense it has read under no stage or under exactly one of those it has read
(`Accounted`). The arithmetic: `Accounted` makes the parts add up
(`AccountedAddsUp`). `MapThenSumSet` is a recursive function on the subsets of its
set, and a sum over stages of sums over expenses at that, so this is an induction.
It is done over sets in place of predicates: `SubsetInduction` follows from the
library's `WFMin` and the well-foundedness of strict inclusion, which take no
operator as a parameter. From it follow that the recursion has a solution
(`AddsExists`) and only one (`AddsUnique`), that any element may be taken out first
(`AddsAny`) and that disjoint sets add up (`AddsDisjoint`). The run has two rows in
all; the theorem has any number of stages and expenses.

`Jobs_proofs` proves of `Reports`, from `ReportsAssumption`, for every number of
reports, processes, crashes and lost locks and whatever calls may fail:

| Theorem | States |
|---|---|
| `Typing` | `Spec => []TypeOK` |
| `PendingHolds` | `Spec => []PendingIsWorkedOn` |
| `DownloadsHold` | `Spec => []DownloadsExist` |
| `WorkersHold` | `Spec => []OneWorkerEach` |
| `OrphansHold` | `Spec => []OrphansAreEarly` |
| `SettlingHolds` | the action property `SettlesOnce` |
| `LifecycleRefinement` | `Spec => L!LifecycleInit /\ [][L!LifecycleNext]_(L!lifecycle)` |

The argument. Several workers may be on one report, so that no invariant can
speak of "the" worker. `Matched` says which states of job and row go with which
call a worker is about to make, `Stored` that whoever is about to complete a row
has the PDF in S3, and `Once` that a job never taken back has at most the one
worker that holds it, and that this worker finds its report pending unless its
completion was not heard of, from which `SettlesOnce` follows. The number of workers on
a report is at most one more than the times its job was taken back (`Counted`,
by counting a finite set as workers join and leave). `Swept` adds that a settled
job stays settled while a removal that is not early proceeds, so that no PDF is
written after its object was deleted. For the lifecycle, `Told` says that a settled
row tells how (a URL or an error) and that a request cut off never gets a job, so
that a stranded report is pending or removed; it stays stranded (`StrandedKept`),
since only a worker on the report could record anything and only a waiting job gets
one. `LifecycleStep` then maps each step: what changes neither a row nor a count of
stalls strands reports or stutters, and the few that do are a request, a settling
(anew, by `Once`, only of a reopened report), a completion unheard, a retry or a
removal. This is all of
`ImplementsLifecycle` but its fairness.

`Jobs_proofs` proves of `Reminders`, from `RemindersAssumption`, for every set of tasks
and workers, every window and number of jobs, whatever fails or stalls:

| Theorem | States |
|---|---|
| `RemindersTyping` | `RemindersSpec => []RemindersTypeOK` |
| `MarksHold` | `RemindersSpec => []RemindedWasMailed` |
| `OneMailHolds` | `RemindersSpec => []MailedOnce` |
| `RemindersHold` | `RemindersSpec => []NobodyForgotten` |

The argument. `StepGoes` classifies the steps: an edit of one task, the clock and the
queue, or one step of one worker (`Goes`). `Posted` says that the task a worker is
about to mark is one it holds a letter of that is out. `Shared`, `Noted` and `Anew`
are inductive together: what two workers hold is exposed; a task that has been mailed
about is exposed, marked, gone, or about to be marked; so a worker holds no letter
that is out already, except the one it has just sent, and sends none twice. For the
omissions, `Dated` says of a task that was not carried over that its reminder, and
every letter held about it, is of the date it has, and `Covered` that a run past its
query has mailed or still holds every letter that was due; a run ends when it holds
none.

And of `Benchmark`, with no assumption:

| Theorem | States |
|---|---|
| `CacheHolds` | `BenchmarkSpec => []CacheFollowsTable` |

The argument. A reader that has not been overtaken holds what the table publishes now
(`Current`), and a recomputation that has ended owes nothing (`Quiet`): one that has
written either deletes the cache or is noted as abandoned. Only `Write` changes the
table, and while it is under way the exception of the property holds.

The three modules have no name in common, so that one module can extend them all;
nothing in the proofs relates their states. `LastDay`, the last day of the model's
calendar, is any natural number.

`Documents_proofs` proves, from `DocumentsAssumption`, for every number of
projects, panels, removals and files:

| Theorem | States |
|---|---|
| `Typing` | `Spec => []TypeOK` |
| `RowsHold` | `Spec => []RowsHaveObjects` |
| `PhotosHold` | `Spec => []PhotosStayInside` |
| `OrphansHold` | `Spec => []OrphansExplained` |
| `SuccessHolds` | `Spec => []SuccessMeansStored` |

The argument. Everything rests on `Distinct`: a key goes with one document, for
good, and the key of a running upload is no document's yet, those of documents
already removed included. So a removal that still holds a document from a query
long past can only delete that document's object (`Stored`, from which
`RowsHaveObjects`). `Bound` says of a panel that its entry was one of its project
when it was looked up, and that an entry which is gone stays gone, so that the
foreign key at the insert does the rest. `Honest` makes `SuccessMeansStored` a
promise about the files sent so far, which a panel hands over when it ends
without an error; `OrphansExplained` is inductive once `Stored` is known.

`WebSession_proofs` proves, from `SessionAssumption` (the bounds are natural
numbers), for every set of requests and every number of tokens and failing calls:

| Theorem | States |
|---|---|
| `Typing` | `Spec => []TypeOK` |
| `RetriesHold` | `Spec => []ExecutedOnce` |
| `LogoutHolds` | `Spec => []LogoutStays` |
| `SignedInHolds` | `Spec => []SignedInStays` |

The argument. A request may be sent to the API twice, so that its count of
executions alone bounds nothing. `NotRunYet` adds that a request whose answer is
still out has not run: only the 401 of the guard, which comes before any handler,
leads to a refresh, and whatever runs the handler is the answer the proxy passes on.
For the cookies, every step of a request is classified (`Sent`, `GoesOn`), and
`AllWhole` says what a reply may set: nothing, no cookies, or a refresh token no
older than the one the request was sent with. `Undisturbed` adds to `SignedInStays`
that no request sent since the sign-in can end the session, whatever its reply and
whenever that comes; `CalmStep` says what becomes of the requests from before it,
which leave `calm.early` as their replies arrive, harmless or noted;
`LoggedOut` adds to `LogoutStays` that what was sent without cookies is harmless.

`Auth_proofs` proves, from `AuthAssumption`, for every set of requests and every
number of random values and backup codes:

| Theorem | States |
|---|---|
| `Typing` | `Spec => []TypeOK` |
| `SignInsHold` | `Spec => []SignInsProven` |
| `SessionHolds` | `Spec => []SessionLasts` |
| `FactorHolds` | `Spec => []FactorUsable` |
| `OneUse` | `Spec => []UsedOnce` |

The argument. `Typed` adds to the types that nothing is stored or held which has
not been drawn. `Proven` says of every request, by its step, what it has found out
and what the row has kept since: an account never loses its verified email, and the
second factor is switched off only by a request of the account itself. `Backed`:
without a session every token that a browser, a stash or a request has is from
before the last logout. `Confirming`: whoever is about to enable the factor has
confirmed the secret in the row, unless it was set up anew. `UsedOnce` rests on two
facts that are inductive together: a value is of one kind only (`Disjoint`), and
one that was accepted without a rival can be had from no place any more (`Dead`).
`Moves` and `Stored` say where a value that is held or stored after a step can come
from: from where it was, or fresh.

`Billing_proofs` proves, from `BillingAssumption`, for every set of users,
customers and subscriptions and every number of checkouts, webhooks and changes:

| Theorem | States |
|---|---|
| `Typing` | `Spec => []TypeOK` |
| `PremiumHolds` | `Spec => []OnlyPayersArePremium` |
| `PayersHold` | `Spec => []PayersKnown` |
| `PlanMatches` | `Spec => []PlanMatchesRow` |
| `PlanFollows` | `Spec => []PlanFollowsStripe` |

The argument. `Links` ties the tables to Stripe's objects: whose customer a session,
a payment, an event, a webhook and a row belong to. `Known` says that while no two
checkouts of a user have raced, at most one is creating a customer, none once the
user has one, and every session and payment is that customer's. `Matched` is what
holds between the two writes of a webhook: the row is already the one it wrote, and
otherwise the plan is what the row shows or an event is still to come. `Followed`
says that each status a subscription has been through has reached the row or is
still an event.

`LivePage_proofs` proves, from `LivePageAssumption`, for every set of browsers, of
other writers, of query keys and of kinds of writes, and every number of writes:

| Theorem | States |
|---|---|
| `RemovalHolds` | `Spec => []RemovedSeeNothingNew` |
| `OwnWritesHold` | `Spec => []OwnWritesShown` |
| `AgreementHolds` | `Spec => []PagesAgree` |

The argument. `Viewed` classifies what a step may do to what a tab shows and asks
for, `Roomed` what it may do to versions, writes and members. `Ordered` says that
nothing shown, fetched or owed is newer than the database, and no answer on its way
is older than what is shown. `Kept` adds to `RemovedSeeNothingNew` that a removed
member has no reading past its check that began later. `OwnShown` rests on the
panels: each invalidates the list it shows and, if its writes change it, the summary
(`PanelsInvalidate`), and what is invalidated is asked anew, so that an answer read before the write is dropped.
`Agrees` says that a key which has not caught up and is not being asked for is told:
`ToldStep` follows a change from the commit to the event, to the page, to the fetch.
For all of `Changes` in place of `Own` the theorem is false, and the run has the
counterexamples (see Findings).

Only model-checked: liveness (`PagesCatchUp`, `FiguresConverge`, the fairness part
of `ImplementsLifecycle`), which is out of TLAPS's reach.

## Findings

- **The free plan's limit can be exceeded** (`free_plan_limit`). `create` counts
  the user's projects and inserts in separate queries, so two concurrent
  requests of a free user both see a count below the limit. README.md:106 says
  the free plan is limited to 1 project. `OvershootBounded` is what does hold.
- **A moved task is not reminded of its new date** (`reminders_moved`).
  `TasksService.update` writes `dueDate` and leaves `remindedAt`, and the check
  only finds tasks with `remindedAt: null`. README.md:105 promises a reminder
  for tasks due within 3 days. `NobodyForgotten` is what does hold.

Met by properties of passing runs, which name them as exceptions or say so in their
comments; without the exception TLC finds each:

- **A completed report can become failed** (`reports`, `SettlesOnce`). The update
  that completes a report is inside the `try` whose `catch` marks it failed
  (`reports.processor.ts:34-44`). When it commits and its reply is lost, the
  user is told that the report has failed while its PDF is stored and named.
- **A sign-in does not replace the session before it** (`auth`, `SessionLasts`).
  The comment at `auth.service.ts:166` says that sign-ins rotate the refresh token
  since they start a new session, and `auth.service.spec.ts:256` rejects a token
  that does not match the stored hash (the tokens of the test are short strings).
  bcrypt reads 72 bytes, which all tokens of a user have in common, so that every
  one that has not expired passes while any hash is stored: signing in elsewhere
  ends nothing, a logout ends all, and after a sign-in the tokens from before a
  logout pass again. `SessionLasts` states the half a user would want, and would be
  false if the code compared whole tokens.
- **A late reply signs the user out** (`web_session`, `SignedInStays`). The proxy
  clears both cookies when a refresh is refused (`route.ts:35`), whichever cookies
  the browser has by then: a reply to a request sent with the old cookies deletes
  those of a new sign-in.
- **Photos leave a list stale on the writer's own page** (`live_page`,
  `OwnWritesShown`). The documents panel shows the photos too, and the diary panel
  each entry's, but each invalidates its own list only (`diary-panel.tsx:82`,
  `document-panel.tsx:46`). No event tells the other. Deleting a stage does
  the same to the expenses (until an event comes), tasks, documents and entries
  (`stage-panel.tsx:38`). And when
  a photo fails after its entry was created, no list is asked for at all: the panel
  reports an error and the entry is not shown.

Read in the code, and kept in the modules as exceptions of the properties rather
than as findings of a run:

- README.md:112 speaks of silent token refresh. The access cookie ages away with
  the token in it (15 minutes both), and without it the proxy answers 401 at once
  (`route.ts:14`), so that the refresh branch is reached only in the moment
  between the token's expiry and the cookie's. `SignedInStays` allows exactly
  that 401.
- `benchmark.constants.ts` says that fewer data points than `MIN_SAMPLE_SIZE` are one
  or two people's spending. The points are stages: three of one project make a
  bucket that is published.
- A removed member's page stays in the project's room and is sent its events; its
  fetches are refused (`RemovedSeeNothingNew`).

## Not modelled

The layout of the PDF, pages and forms, translations, the password policy (pure, no
state), wrappers of outside services (they are the steps that fail), build and
deployment (the restart policy of `railway.toml` is `Reports!Crash`). Of the sign-in
and account pages, the steps of the two-factor panel and the registration form: they
send what `Auth` lets requests be. The dashboard, new-project and billing pages show
one answer or send one request each.

## Plan

Every invariant and every action property of a run is a theorem. What is left: of
the liveness properties, the steps of their arguments that are safety, such as the
figures a recomputation has read being those of its buckets while stages stand still.
