# Verification of the Enterprise Collaboration Platform

TLA+ models of the platform's API (NestJS, Prisma/PostgreSQL, Redis, BullMQ) and
of its web client, model-checked with TLC, and theorems about them proved with
TLAPS.  The models follow the code under `src/`; `PROJECT.json` maps every
definition to the lines it stands for.

## 1. Inventory

| Component | State | Operations | Interacts with | Hard behaviours |
|---|---|---|---|---|
| Accounts and sessions (`auth/`) | `User`, `RefreshToken`, `PasswordResetToken` rows; closures of running handlers | register, login, refresh, logout, requestPasswordReset, resetPassword | e-mail, cleanup job, web client | every handler checks first and writes awaits later; mass revocation races with session creation |
| Token cleanup (`queue/processors/cleanup-expired-tokens`) | none of its own | one `deleteMany` a night | `RefreshToken` rows | deletes under running refreshes; must not delete what is still usable, must delete the rest in the end |
| Tasks (`tasks/`) | `Task` rows; closures | create, update, remove, restore | workspace access, event bus, cache | transition, assignee and completion are decided on a row read before other awaits |
| Workspace access (`common/access`, `common/guards/roles.guard`) | none | membership lookup, role comparison | all services | the answer may be stale when used |
| Organizations, workspaces (`organizations/`, `workspaces/`) | rows and memberships | create, update, archive, remove, invite | event bus, cache, audit log | an upsert can demote the last owner; slug check then insert; removal between two checks |
| Projects (`projects/`) | `Project` rows | create, update, archive, restore, remove | cache, cascade to tasks | cascade without cache invalidation |
| Caches (`redis/`, `users/`, `workspaces.getStats`) | Redis keys with a TTL | get, set, del, all fail-open | tasks, projects | read-compute-store races with delete |
| Notification delivery (`queue/`, `notifications/`, `email/`) | BullMQ jobs, `Notification` rows, socket map | enqueue, process, retry, push, mail, markRead | event bus, sockets | at-least-once jobs with non-idempotent effects; loss at enqueue |
| Reminder and summary jobs | none | one scan per run, one job per recipient | delivery queue | a retry repeats what was already queued |
| Comments, attachments (`comments/`, `attachments/`, `storage/`) | rows, files | create, update, remove, restore, download | access, event bus, disk | file without row; check then write |
| Web session (`web/src/api/client.ts`, `AuthContext`) | two `localStorage` keys, `user`, `loading`, calls in flight | login, logout, call, refresh and retry, reload | API | concurrent refreshes with one single-use token; answers out of order |
| Web notifications (`NotificationsContext`, `NotificationsPage`) | unread count, list | load, push, mark read | API, socket | count fetched before a push is set after it |
| Web workspace pages (`web/src/pages`, `lib/roles.ts`, `components/Modal`) | rows a page has loaded, its dialog | load, press, confirm, navigate, load again | API | answers in another order than their calls; a gate decided on rows that have changed; a URL that changes under a mounted page |
| Audit log (`common/interceptors/audit-log`, `audit/`) | `AuditLog` rows | read before the handler, insert after it | every audited route | the read is awaits older than the write it documents |
| Health, HTTP plumbing, shared types | none | | | see section 8 |

What makes the system hard is the same everywhere: handlers are `async`
functions on one event loop, several at a time, and each `await` lets the
others run.  Nothing is locked, most updates are by primary key whatever has
become of the row, and only three writes are transactions or atomic by
themselves (`resetPassword`'s `$transaction`, nested creates, `updateMany` /
`deleteMany`).

Correctness, per component: a refresh token works once and a revocation ends
every session (auth); the workflow is not skipped and every change is announced
to whom it concerns (tasks); the tab keeps the newest token pair and never hangs
(web session); what a job reports as delivered was delivered, and the effects of
its retries stay within known limits (notification delivery); nobody changes
the rows of a workspace he has no part in, the tree of rows and the files stay
whole (tenants and contents); a cache entry that lies has a known reason
(caches); a scheduled job that completed left nobody out (reminders); a page
calls for what it shows and shows what it did (web pages); the bell agrees with
the rows (web notifications).  `PROJECT.json` lists the hazards behind each,
line by line.

## 2. Modules

| Module | Models | Extended by |
|---|---|---|
| `AuthSessions` | `auth.service.ts`, `jwt.strategy.ts`, `jwt-refresh.strategy.ts`, the token cleanup job | `MCAuthSessions`, `AuthSessionsProofs` |
| `TaskWorkflow` | `tasks.service.ts` with the roles, invitations and project removal it depends on | `MCTaskWorkflow`, `TaskWorkflowProofs` |
| `WebSession` | `api/client.ts`, `AuthContext.tsx`, the login and register forms, against a one-account server | `MCWebSession`, `WebSessionProofs` |
| `NotificationDelivery` | the event listener, the delivery queue and its processor, the socket gateway | `MCNotificationDelivery`, `NotificationProofs` |
| `TokenRotation` | what the API promises of refresh tokens (abstract) | instantiated by `AuthSessions` and `WebSession` |
| `AtLeastOnce` | what `NotificationDelivery` promises of each notification (abstract) | instantiated by `NotificationDelivery` |
| `Routes` | the hierarchy of roles, what each route of the controllers demands, the awaits of each service | `Tenancy`, `WebPages` |
| `Tenancy` | `organizations`, `workspaces` and `projects` services, `roles.guard.ts`, `workspace-access.service.ts`, the audit interceptor | `Contents` |
| `Contents` | `comments`, `attachments` and `storage` services, composed with `Tenancy` | `MCContents`, `ContentsProofs` |
| `TaskCaches` | `getStats`, `getDashboard`, `cache.service.ts`, and the deletions of the services that write | `MCTaskCaches`, `TaskCachesProofs` |
| `Reminders` | `queue-scheduler.service.ts`, the daily and weekly processors | `MCReminders`, `RemindersProofs` |
| `WebPages` | the pages on organizations, workspaces, projects and tasks, `roles.ts`, against a server of one step per call | `MCWebPages`, `WebPagesProofs` |
| `NotificationBell` | `NotificationsContext.tsx`, `NotificationsPage.tsx`, `findAllForUser`, `markRead` | `MCNotificationBell`, `NotificationProofs` |

Conventions.  A handler's record holds what its closure holds; `pc` names the
`await` it is parked at.  A step runs the synchronous code up to the next
`await` together with the database operation that ends it, because a statement
of PostgreSQL is atomic and JavaScript between two awaits is not interrupted.
`Fail` ends a request at any await, which covers refusals, rejected promises
and restarts: what was written stays written.  Definitions commented as "a
plausible slip" are wrong variants of the definition that follows them; they
occur in no specification and document which error each property notices.

### AuthSessions

| Code | Model |
|---|---|
| `User.passwordHash` | `account[u].pw`, a version: a reset installs the next |
| `RefreshToken` row | `refreshToken[t]`; `st` tells free uuids, stored and deleted rows |
| the refresh JWT | its `exp` is `signedAt + RefreshTTL`; the row's `expiresAt` is taken after the hash, so the two differ |
| `resolveExpiryDate` | `ResolveExpiryDate`: the same lifetime if it has the form `<n>[smhd]` (`Readable`), otherwise `Fallback`, 7 days, whatever the JWT was given |
| an access token | `HoldsAccess`: signed with some session of the user and not past `AccessTTL`; it survives revocation, as in the code |
| a reset link | `resetToken[k]`, usable by its reader once `mailed` |
| `register`, `login` | `RegisterStart`, `RegisterCreate` / `LoginStart`, then `Sign`, `Issue` |
| `refresh` | `RefreshValidate` (strategy), `RefreshUser`, `RefreshRevoke`, then `Sign`, `Issue` |
| `logout` | `LogoutStart`, `LogoutAll` |
| `requestPasswordReset`, `resetPassword` | `RequestReset*`, `ResetCheck`, `ResetCommit` |
| cleanup job | `Cleanup` |

`parent`, `epoch`, `pw` and `raced` in a row, and `revocations`, are history:
they say which token a row was rotated from, which revocations and passwords
its credential has seen, and whether a revocation passed it while it was being
opened.

### TaskWorkflow

`req[r].read` is the task as the handler found it; `todo` is the list of events
to emit and cache keys to delete that the rest of the handler works off, built
by `AfterCreate`, `AfterUpdate` and `AfterSetDeleted` in the order of the code.
`reached`, `emitted` and `lost` are history: the highest status stored, the
events emitted, and those a request died owing.  What the cache keys contain is
the matter of `TaskCaches`.

### WebSession

A token pair is the number of the answer that carried it.  `Settle` is the end
of a call; `Serve`, `Validate`, `Mint` and `Refuse` are the server's half, cut
down from `AuthSessions` to one account.  `Refuse` after `Validate` is a server
that fails before or after it revoked the token; `EndSessions` is everything
that ends sessions elsewhere: another device, a reset, the clock.
`Reload` leaves calls running at the
server; their answers are dropped (`Discard`), and a token such an answer would
have replaced is marked `stranded`.

### TokenRotation

The contract between the two sides, without passwords, rows and clocks: a token
is free, live or dead, and a request may hold one it presented.  `Open` is a
login or registration, `Present` the strategy's check, `Rotate` and `Abandon`
the two ends of a refresh, `End` whatever kills tokens.

| `TokenRotation` | `AuthSessions` | `WebSession` |
|---|---|---|
| live | stored and `revokedAt` null (also past its expiry) | `st = "live"` |
| dead | revoked or deleted | rotated, stranded or ended |
| `held[r]` | `req[r].token` | `used` of a call that is `validated` |
| `Open`, `Rotate` | `Issue` | `Mint` |
| `Present` | `RefreshValidate` | `Validate`, unless it refuses |
| `Abandon` | `Fail`, `RefreshUser`, `RefreshRevoke` that ends a refresh | `Refuse` of a validated call |
| `End` | `RefreshRevoke`, `LogoutAll`, `ResetCommit`, `Cleanup` | `Serve` of a logout, `EndSessions` |

Two requests may hold one token and each rotate it: that is the race that
`RotationIsSingleUse` denies (section 4), and the contract has to allow it.

### NotificationDelivery

| Code | Model |
|---|---|
| an event and one recipient | a job of `Job`; `Mailed` are those of the two mailed types |
| `enqueue`, its `queue.add` | `Emit`, then `Enqueue`, or `Refuse` when Redis does not answer |
| `process`, one worker per API process | `Take`, `Create`, `Push`, `Mail`, `Complete`; `Throw` at a rejected insert or lookup |
| `attempts: 3`, exponential backoff | `Attempts`, `made`, the state `delayed` and `Promote`; the length of the delay is left out |
| lock, stalled checker, `maxStalledCount` (BullMQ) | `Holds`, `LockLost`, `Stall`, `MaxStalled` |
| a `Notification` row, a mail | the number of the run that inserted or sent it, in `rows`, `mails` |
| `socketsByUserId` of each process | `socket[s]`, the process a tab is connected to |
| a process that dies | `Crash`: its run, its pending `add`s and its sockets go, its lock stays |

A run whose lock expired is not told: it goes on, inserts, pushes and mails, and
only its completion is refused.  `cut` remembers these runs, and `seen` what a
tab was shown; both are history.  `Promise` maps the job states to the abstract
ones: pending until the job is completed, failed or lost.

### Tenancy and Contents

| Code | Model |
|---|---|
| a row of any of the six tables | `row[n]`: `up` is the foreign key, `label` the slug or storage key, `mark` stands for `isArchived` and `deletedAt`, `by` for the author |
| `OrganizationMember`, `WorkspaceMember` | `role[t][u]`; `WithOwner` is the nested create |
| `onDelete: Cascade` | `Cascade`, at the statement that deletes |
| `@UseGuards`, `@Roles`, `@AuditLog` and the body of a service | `Awaits`: the list of awaits of a route, which `req[r].todo` works off |
| `RolesGuard`, the interceptor's read | `Guard`, `Before` |
| `assertOrgRole`, `requireMembership`, `findWithinWorkspace`, slug lookup | `CheckRole`, `CheckMember`, `FindWithin`, `LookUpSlug` |
| `requireTaskMembership`, `requireOwnComment`, `requireAttachment` and their variants | `FindTask`, `FindComment`, `FindAttachment` |
| the write | `Insert`, `Write`, `Delete`, `Upsert`; `Upload` and `Stream` for the file |
| the audit row nobody waits for | `Audit` |
| a refusal, a rejected promise, a restart | `Fail`, in `Contents` `Abort` |

A URL may pair any child with any parent; that the pair is checked is what
`WritesStayInTenant` is about.  `overtaken`, `replaced`, `unseated`, `stranded`
and `edit` are history: which requests looked at something that others changed
before they wrote, what a write replaced, where an invitation took an owner's
role, which files lost their row, which edits found their comment alive.  Cache
deletions of these services are in `TaskCaches`; the fields of a task in
`TaskWorkflow`, here a task is only deleted and restored.

### TaskCaches

An entry is the set of its parts that no longer say what the database says.  A
write makes the parts it changes stale in every entry and in every answer a
reader holds between its queries and its `set`; `Del` removes the entry, and a
reader that stores afterwards stores what it has.  `cause[k]` is history: why
an entry may be behind although nobody is about to delete it - the deletion
was overtaken, Redis or the process failed, or the write is one of those
(`Silent`) that delete nothing for that key: inviting a member, unassigning a
task or reassigning it on a stale read, removing a project under its tasks'
assignees, projects for the dashboards, and an update that names the status it
read when the task has moved on meanwhile - it sets the status back and takes
that for no change.  Redis failing and the process dying are one cause, `failed`.

### Reminders

A schedule is keyed by its `jobId` and its cron pattern, as in BullMQ, so two
processes with one pattern add one schedule and two patterns add two.  `Fire`,
`Take`, `Complete`, `Throw` and `Stall` are the job's life; `Find` is the query
of the processor; `Count` and `Add` are the calls of its `Promise.all`, which go
on after another of them has rejected (`Reject`, whose `taken` says whether
Redis had taken the job before the answer was lost).  `queued` is history.

### WebPages

`past` is the history of the rows and the user's roles at the server: each GET
of a load is answered with some state since it was sent, and the answers of one
`Promise.all` need not be of the same moment.  `page` is the mounted component:
what it shows, its dialog, the load its effect sent.  `Press` opens a dialog or
calls; `Confirm` calls with the ids of the URL; `Answer` closes, loads again or
navigates as the handlers do, with what they captured at the click.  `Buttons`
are the tables of gates read from the pages, `Routes` those of the controllers.
`saw`, `found`, `seen`, `failed` and `mine` are history.

### NotificationBell

| Code | Model |
|---|---|
| the user's rows | `past`, the history of their states, as above; `Row` is the present one |
| `create`, then `pushToUser` | `Store`, `PushToUser`; in between the process may die (`SkipPush`), and a room without a socket drops the push |
| the socket | `LinkUp`, `LinkDown`; `wire` are the pushes under way, in order |
| the listener of the provider and the one of the page | `OnPush`: counted and, on a page with a list, prepended (`Prepended`) |
| `refreshUnreadCount` | `asked` (the time of the call), `Refreshed`, `RefreshFails` |
| `load`, by the effect on `unreadOnly` | `loads`, `Loaded`, `LoadFails`; no load is cancelled |
| `markRead` of the provider | `marks`: a PATCH is `sent`, `ok` or `lost` (`Serve`, `Lose`) |
| `handleMarkRead`, `handleMarkAllRead` | `MarkRead`, `MarkAll`; `Marked`, `MarkedOfAll` when an answer is in |
| a page that is left | `Leave`: the setters of its calls do nothing, the provider still counts |

A notification that a load and then its push put on the list is there twice
until the next load; `handleMarkAllRead` then sends two PATCHes for it, which
`twin` tells apart.  A second PATCH of a row that is read succeeds and is counted
down again.  `drift` and `blurred` are history: the count, or the list on a
notification, need not agree with the rows.  `Exact` and `Doubtful` compare the
answer of a call with what the row is now and with what is still to come for it.

## 3. Properties

`TypeOK` is the shape of the state, a theorem in each module that has one; the
runs `tasks` and `delivery` check it as well.  The others:

* **NoTwoGenerations** - once a refresh has issued a token, the presented one
  is unusable.
* **RevocationReachesAll**, **SessionMatchesPassword** - a live session that a
  logout or reset should have ended, or that proves an old password, was being
  opened when it committed.  This is the exact extent of the race that
  `NoSessionOutlivesPassword` denies (section 4).
* **SpentStaysSpent**, **ConsumedStaysConsumed** - a revoked or deleted token, a
  used link, is never usable again.
* **CleanupTakesDeadRows**, **RowsCleaned** - the job deletes an unrevoked row
  only when its JWT has expired, or its fallback of 7 days is over, and every
  row in the end.  The second case is real: with a lifetime of `2w` a session is
  refused and deleted after a week although its JWT is good for another.
* **NoStatusSkipped** - the highest stored status grows by one at a time.
* **DoneIsAnnounced**, **OnlyDoneIsAnnounced**, **AssigneeIsTold** - events
  match what was stored, except those a request died owing.
* **AssigneeIsMember** - the assignee is a member: membership is checked before
  the write, and no code takes one away.
* **FrozenUntilRestored** - a soft-deleted task keeps its content.
* **StoredTokenIsCurrent** - the tab does not fall back to a rotated token.
* **SpinnerEnds** - `loading` ends.
* **ImplementsRotation**, in `AuthSessions` and in `WebSession` - the two
  refinements of `TokenRotation`: a token comes alive once and dies once; a
  refresh replaces the token it found alive, for the same account, and that
  token is dead by then.  What the tab assumes of the server is thus what the
  server is shown to do.
* **CompletedIsDelivered** - the run that completed a job did all of it, though
  runs of the job overlap, fail half-way and outlive their lock.
* **MailedTwiceOnlyIfStalled** - a retry never repeats a mail: only a lost lock
  can.  It holds because the mail comes last and `sendMail` swallows errors.
  Rows and pushes have no such property: a retry does repeat those.
* **PushedIsStored** - a tab is shown only what can be listed and marked read.
* **LateEffectsAreStalled** - after a job ended only runs that lost their lock
  can still insert or mail.
* **JobEnds** - each event ends delivered, failed or lost.
* **ImplementsAtLeastOnce** - the refinement: a notification is stored at least
  once or given up, and never more often than it may be tried.
* **WritesStayInTenant** - whoever changes a row is entitled to it in the row's
  own workspace, whatever the URL paired it with; a loss of rank after the last
  check is the one exception.
* **TreeSound** - no orphan, no membership of what is gone, no slug twice,
  although parents are removed and slugs taken between a check and an insert.
* **OwnerlessOnlyByInvite** - a tenant has an owner from its creation; only an
  invitation that gives an owner a lower role takes the last one away.  The
  code does nothing to prevent that.
* **InvitationIsNamed** - `organization!.name` is never null where it is sent.
  The comment beside it rests on the role check, which an organization may not
  survive; what holds it is the foreign key of the upsert that comes later.
* **AuditTellsThePast** - `previousValue` is what the write replaced, or null,
  unless another request wrote in between.
* **FilesAccounted** - an attachment has its file, alone; a file without a row
  belongs to a running or failed upload, or to a cascade; a download that was
  let through finds its file.
* **DeletedCommentFrozen** - only an edit that found a comment alive writes it
  after its deletion.
* **StaleIsExcused** - a cache entry is right, or about to be deleted, or has a
  cause.  The statistics follow projects, the coming and going of tasks and every
  step of a task forward.
* **TwiceOnlyIfRepeated** - nobody is reminded twice in a period unless a run
  was repeated or a second pattern is registered; restarting never adds one.
* **CompletedLeavesNoneOut** - a completed job has queued everyone its last run
  found.
* **RefusedOnlyIfStale** - what a gated button offers is refused only if the
  role, the row or the page changed: the gates of the pages are not weaker than
  the routes.
* **NamedIsAddressed** - page and dialog name another row than they call for
  only while a load is under way, failed, or was overtaken by an older one.
* **OwnChangeShown** - once loads are answered, a page shows its own last
  change, unless the load failed or an older one came in behind it.
* **CountAgrees** - when nothing is under way the bell is the number of unread
  rows, unless since the last answer that was exact a push or call was lost, a
  row was read in another tab or marked twice, or the count was at zero when a
  success came in.  An answer is exact when, for every row, what it has seen
  with what is still to come makes what the row is now.
* **ListAgrees** - when nothing is under way the list shows each notification
  once, read or unread as it is, except those that `blurred` names: their push
  was lost; or the load that came in last was `Doubtful` on them (it saw
  a row whose push was still to come, a state since changed, or a row being
  marked by a page that was left or before its push had arrived); or they were
  pushed while all were being marked; or a call failed.

What the properties excuse.  Some failures the code allows are exceptions in a
property, which then shows that there are no others; it does not rule these out:

* two refreshes of one token may both be answered: `TokenRotation` permits it,
  and that a token is used once (`RotationIsSingleUse`, section 4) is false;
* a page that reloads, or loses the answer, during a refresh is left with a
  rotated token, and the loser of two refreshes clears the pair the winner
  stored; the latter is what `RetryIsTransparent` refutes;
* an event lost before it is queued counts as given up in `AtLeastOnce` and as
  an end in `JobEnds`: nothing stores what is to be queued;
* a cache entry may be stale where a write invalidates nothing (`Silent`) or was
  overtaken by a reader that stores what it read before;
* on a page an older answer that comes in last wins, and in the bell an answer
  that crosses a push makes the count or the list wrong until the next load.

## 4. Runs

| Run | Checks | Result and size |
|---|---|---|
| `auth_races` | the safety properties of sessions but those of `auth_expiry`: 1 user, 2 requests, 3 refresh rows, 1 reset row, clock 0..1, one logout | holds, 2.7 million states |
| `auth_expiry` | cleanup and the refinement: 2 requests, 2 refresh rows, clock 0..2, an unreadable lifetime of 3 with a fallback of 1, one logout | holds, 0.7 million states |
| `tasks` | all task properties: 2 users, 1 task, 2 requests; also that the system never deadlocks | holds, 3.2 million states |
| `web_session` | all tab properties and the refinement of its server half: 2 calls, 3 token pairs | holds, 0.9 million states |
| `delivery` | all safety properties of delivery and the refinement: 2 jobs (one mailed), 2 processes, 1 tab, 2 attempts, 1 forgiven stall | holds, 2.7 million states |
| `delivery_ends` | `JobEnds`: 2 jobs, 1 process, the configured 3 attempts, 1 forgiven stall; deadlock as well | holds, 0.5 million states |
| `tenancy` | all properties of `Contents` and, with it, `Tenancy`: 2 users, 1 organization with 2 workspaces and their contents, 2 requests | holds, 0.4 million states |
| `caches` | `StaleIsExcused`: 2 users, 1 task, 3 requests | holds, 0.9 million states |
| `reminders` | both properties of scheduled jobs: 2 tasks, 1 member, 2 processes, 2 patterns, 2 attempts, 1 forgiven stall, 1 upset | holds, 0.3 million states |
| `pages` | all properties of the pages: 1 organization, 1 workspace, 2 projects, 1 task, 3 events of which 1 may be somebody else's | holds, 2.3 million states |
| `bell` | both properties of the bell: 2 notifications, 3 clicks, 1 upset | holds, 27.7 million states, 3.4 million distinct |
| `web_retry` | `RetryIsTransparent` | violated: the slower of two refreshes clears the live pair |

The violated property of `web_retry` quotes a comment of the repository; the
finding in `PROJECT.json` gives both sides.  Four more statements of comments
and documents are written down beside the properties that do hold, and TLC
refutes each of them at once when it is added to the configuration named:

* `RotationIsSingleUse` (`AuthRaces.cfg`): `auth.service.ts:80` calls refresh
  tokens single use; two concurrent refreshes with one token both pass the
  lookup before either revokes, and both issue a pair.  `NoTwoGenerations` is
  what does hold.
* `NoSessionOutlivesPassword` (`AuthRaces.cfg`): `auth.service.ts:150` says a
  reset revokes every existing refresh token; a login that checked the old
  password inserts its row after the transaction.  `SessionMatchesPassword` is
  what does hold.
* `ResetRowsCleaned` (`AuthExpiry.cfg`, with `ResetId = {k1}`): `README.md:590`
  has expired reset tokens cleaned; the job deletes refresh tokens only.
* `StatusNeverMovesBack` (`TaskWorkflow.cfg`): `tasks.controller.ts:75`
  describes the workflow as an order; an update that read IN_PROGRESS stores
  REVIEW over a DONE written meanwhile.  `NoStatusSkipped` is what does hold.

Two more comments are wider than the code and are met in the models' guards
rather than by a property.  `task-status.enum.ts:12` says a no-op transition is
rejected; `update` lets a DTO that names the present status pass, and
`TaskCaches` shows what that does to the statistics.  `users.service.ts:67` says
the dashboard is invalidated whenever a task assigned to the user changes;
`Silent` lists when it is not.

Bounds.  Two concurrent requests are what every race of the list needs (a check
of one, a write of the other); three refresh rows give a session and two
children of it, and three token pairs a pair, its replacement and one more
overlap.  One user is enough for sessions because no handler of one user reads
another's rows; two are needed for tasks (assigner and assignee, or two
assignees).  One task suffices since no handler reads two.  `MCInput` sends the
DTOs that change the status, the assignee, or both on completion; `Granted`
hands out MEMBER, which together with the OWNER every workspace has covers
callers who may do each operation and callers who may not.  `MaxClock`,
`MaxLogouts` and the lifetimes let tokens expire, be revoked again and be
cleaned within a run.  `auth_expiry` leaves resets to `auth_races`: the job
does not ask why a row was revoked.  Its lifetime is one that `resolveExpiryDate`
cannot read, the harder case for the cleanup; with `Readable = TRUE` and
`RefreshTTL = 1` it holds as well (0.5 million states), and the theorem covers
both.  Two processes let a stalled run of a job and its successor overlap; two
attempts and one forgiven stall give three runs, a failed, a stalled and a last
one.  One tab is enough since tabs do not affect each other; `delivery_ends`
leaves tabs out because no job depends on them.

`tenancy` starts with two workspaces so that a URL can pair a child with the
wrong one, and with an organization above them so that a removal reaches down
all five levels; two more organizations and workspaces are there to be created
(two slugs: a clash and no clash).  Its two beginnings differ in what each user
may do and in what is soft-deleted.  Each of the two requests is served once:
every race here is one request's check and another's write.  `Granted` is the
lowest role, because promotions excuse nothing.  `caches` needs three
requests: two writers that overtake each other and a reader; two statuses give a
step forward, a status left alone and one set back.  `reminders` needs
two processes for a stalled run and its successor, two attempts for a retry;
one restart is enough to register the second pattern.  In `pages` three events
are two calls or visits of the user's and somebody else's change between, or
two visits and a call; two projects are what one component can be navigated
between.  In `bell` two notifications let a push meet a load that has the other
one; opening the page, marking and filtering are clicks.  Its `VIEW` drops the
states of the rows that no call under way can be answered with any more, and
counts times from the oldest that one can: no action and no property looks
further back.  Three clicks do not reach every overlap: with one notification
and five, two loads may overtake each other around a PATCH that is sent before
the push it concerns has arrived, the case that `Doubtful` has its last
conjunct for.  It was found by the proof (section 6), which holds for any number.

Where a bounded supply (uuids, token pairs, the clock) can run out,
`CHECK_DEADLOCK FALSE` is set: the auth model then stops although the program
would not.

The same holds of `tenancy`, `caches`, `reminders`, `pages` and `bell`, whose
requests, periods and clicks are spent in the end.

Symmetry is used for requests, uuids, users, call slots, processes, tasks,
patterns and notifications, in runs without liveness only.

## 5. Fairness

`auth_expiry` assumes that time passes (`Tick`) and that the
repeatable job keeps running while it has something to delete (`Cleanup`), which
is what BullMQ's scheduler does.  No request is assumed to finish.
`web_session` assumes that the event loop and the server get on with each call
(`Advance`).  Nothing is assumed of the user, of the network (`Lose` may or may
not happen) and of reloads.
`delivery_ends` assumes that `add` answers one way or the other, that a worker
takes a waiting job and gets on with it, that the backoff passes, and that the
stalled checker finds a job no worker holds (`Abandoned`); these are BullMQ's
scheduler and the event loop.  A checker that takes the lock from a living run
and a crash are never assumed and never excluded, however often they come.
The other runs check safety only and assume no fairness.  In particular nothing
is said of when a stale cache entry goes: its TTL ends it, and the clock is not
part of that model.

## 6. Proofs

The eight `*Proofs` modules prove their theorems for any sets of users,
requests, rows, calls, jobs, processes and pages and for any bounds.  Each has an
inductive invariant (`Inv`; `BellInv` for the bell), and lemmas that show each
action preserves it.

* `AuthSessionsProofs`: `RequestOK` says what a parked handler may still rely
  on - one that is opening a session either saw the current password and all
  revocations or knows it was overtaken; one past `RefreshRevoke` finds its
  token unusable until it inserts.  `RowOK` says what it leaves behind.  The
  properties alone are not inductive: an inserted row takes its fields from
  the request record.  `Implements` proves the refinement, from `Inv` and
  `SameUser` (a refresh goes on for the account of the token it presented): a
  step either moves no token (`MovesOn`), lets go of one (`LetsGo`), or is
  `RefreshValidate`, `Issue` or one that only lets tokens die (`Fading`).  With
  the one account of `auth_expiry`, that a replacement belongs to the same
  account is shown by the theorem alone.  Assumed is `TTLAssumption`: lifetimes
  and fallback are naturals, the refresh lifetime has the form
  `resolveExpiryDate` reads or has not, and null is no value.  What is said of
  cleanup and expiry therefore differs for the two forms: a row lives as long
  as its JWT only for a lifetime that is read (`RowTTL`).
* `TaskWorkflowProofs`: what an update has read is stale in one direction only:
  the status it read was reached, and the assignee it read was told.  Hence a
  check on a stale row still cannot skip a status, and an event that is not
  emitted on a stale row was emitted before.  Lists of follow-ups are handled
  by lemmas about the events in a concatenation and in a tail.
* `WebSessionProofs`: a pair in an answer is known to nobody else
  (`Undelivered`); a pair not minted is nowhere (`Unknown`); and when the
  stored token was rotated, the answer that replaces it is on its way
  (`Replaced`), which is stronger than `StoredTokenIsCurrent`.  `Implements`
  shows that the server half is a behaviour of `TokenRotation`, as the API is;
  what it adds to `Inv` is that a login presents no token (`LoginHolds`).
* `NotificationProofs`, on `NotificationDelivery`: a busy worker either holds the lock of its job or
  is a run of the cut (`RunOK`), no two workers are in the same run (`Apart`),
  and the runs of a job number its failures and stalls (`JobOK`), which bounds
  them.  Ending, stalling and crashing are three instances of two lemmas
  (`RunSettled`, `RunDropped`).  `Implements` proves the refinement: `Create`
  is `Store`, `Complete` with the lock is `Settle`, and `Refuse`, `Throw`,
  `Stall` and `Crash` are `GiveUp`, possibly of no job.

* `NotificationProofs`, on `NotificationBell`: `BellInv` has six parts.
  `BellTypes` - shapes, and calls were sent at a time that has been.  `WireOK` -
  a push is sent once.  `RowsOK` - what is pushed, listed or marked is stored,
  and what a PATCH has succeeded on is read.  `PatchesOK` - the clicks tell the
  PATCHes apart, and those of one `handleMarkAllRead` are on one page.
  `Balance` - without drift and with no count asked for, the count with the
  pushes still to come is the number of unread rows with the successes still to
  be counted down.  `ListOK` - on a page with a list and no load under way, what
  `blurred` does not name is `Listed`: its entry is there, once, and as it is or
  about to be, or its push is still to bring it.  The two properties are what
  the last two parts say when nothing is under way; they are not inductive
  because every one of these steps changes one side of the agreement at a time.
  That an answer which is exact row by row is exact in the sum is a statement on
  cardinalities (`Fibers`); induction over a set being out of reach, it takes a
  minimal counterexample, which the well-foundedness of strict inclusion on
  finite sets provides.  Assumed is that there are finitely many notifications.

* `ContentsProofs`, for `Tenancy` composed with `Contents`: `Tree` says that rows
  hang together, memberships belong to live tenants and slugs are apart;
  `ReqInv` says of one request what its remaining awaits rest on - that they are
  left of a route in its order (`Lined`), that it addresses rows of the kind its
  route serves (`Targeted`), that a caller past the checks still has his rank or
  its loss is recorded (`RoleKept`), that a child it has looked up still hangs
  under the parent of the URL (`Linked`), that it has an organization's name or
  the organization is gone (`Named`), that a value for the audit log is what
  its write replaces, or overtaken (`Past`), that a file it stored or found is
  there (`Stored`), and that an edit found its comment (`Editing`).  `FilesOK`
  ties rows, files and uploads together.  The properties alone are not
  inductive because each is decided by a write and prepared awaits before.
  What another request may do between two awaits is stated once
  (`Moves` for the rows, `Spared` for the request), so interference is not
  argued for each pair of actions.  The tables of routes enter as lemmas on
  what is left of a route.  Assumed are `IdsAssumption` (the kinds of ids are
  apart, null is none of them), `GrantedAssumption`, `GivenAssumption` and
  `BeginningsAssumption` (the rows and roles of the start are ones the services
  could have created).
* `WebPagesProofs`: `PastOK` - the history is one of states of the rows;
  `PageOK` - what is shown belongs to a load of the page, and what a button or
  dialog rests on has passed its gate (`ShownOK`, `Backed`); `LoadOK` - a load
  sent after the last change was sent when the server had made it;
  `CallOK` - a call names the rows its gate was decided on.  That a gate is not
  weaker than its route compares two tables.  Assumed are
  `UpAssumption` and `IdsAssumption` (every row has its parent, and rows and
  lists are apart) and `BoundsAssumption`.
* `RemindersProofs`: all runs of a firing but the last have thrown or lost their
  lock (`Broken`); a run calls once for each recipient (`Once`); a run that may
  still complete has called for everyone it found (`Promised`).  No assumption.
* `TaskCachesProofs`: `StaleIsExcused` is inductive as it stands, given the
  shape of the state; the work is `WriteAnswered`: a write that changes what
  an entry shows has the entry's key in its list, or is `Silent`.  A task
  soft-deleted or restored changes no entry, since no query asks `deletedAt`.
  No assumption.

Only model-checked: `RowsCleaned`, `SpinnerEnds` and `JobEnds`, because liveness
under fairness and `ENABLED` are outside what the proof system supports.  Every
other property of a run that holds is a theorem.

## 7. Plan

1. *done* `AuthSessions`, `TaskWorkflow`, `WebSession`, `NotificationDelivery`,
   each with runs and proofs; `AtLeastOnce`, implemented by the last.
2. *done* `TaskCaches`.
3. *done* `Reminders`, the producers of what `NotificationDelivery` delivers.
4. *done* `Routes`, `Tenancy` and, composed with it, 5. *done* `Contents`.
6. *done* `NotificationBell` and `WebPages`.
7. *done* Theorems for `TaskCaches`, `Reminders`, `Tenancy` with `Contents`, and
   `WebPages`.
8. *done* Theorems for `NotificationBell`.
9. *done* Refinement: `TokenRotation`, implemented by `AuthSessions` and by the
   server half of `WebSession`.
10. *next* The scheduled jobs against an abstract specification of their own:
   `Reminders` and `NotificationDelivery` retry in the same way, and
   `AtLeastOnce` may describe both.

## 8. Not modelled

* Logging, the response envelope, validation of DTO formats, Swagger, the
  health checks and configuration: no state that anything else reads.
* Read-only queries (lists, searches, `findById`, `findByEmail`), except where
  a page, a bell or a cache uses the answer.  `findById` caches a profile that
  no code changes.
* `delByPrefix` and the storage service's `delete`: nothing calls them.
* `overdueTaskCount` and `recentTasks` of the dashboard: they move with the
  clock and with every edit, and no code tries to keep their entry fresh.
* What forms hold and how pages look.  `EditTask` sends every field it shows,
  so a field somebody else changed meanwhile is overwritten; the model does not
  tell fields apart and says nothing of it.
* The selected workspace of `WorkspaceContext`, which no page reads.
* Signing in and out under `NotificationsProvider`, and pages of notifications
  after the first.
* Buttons without a gate: `WorkspacesPage` offers every organization of the
  user for a new workspace although the server asks for an ADMIN there, so a
  refusal is ordinary and `RefusedOnlyIfStale` leaves it out.
* Cryptography: bcrypt and JWT signatures are taken to be sound.
* PostgreSQL, Redis, BullMQ and the browser, except for what the code relies
  on: atomic statements, unique indexes, cascades, transactions, `localStorage`.
