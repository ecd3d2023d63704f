# A verification project for JobLens

JobLens accompanies learners through work training: a counselor matches a learner
with a kind of work, writes standard operating procedures (SOPs), publishes them as
training tasks, and reviews what the learner hands in.  The program is a FastAPI
service over PostgreSQL (`apps/api`), a worker process that runs durable jobs
(`apps/api/app/worker.py`), a React client (`apps/web`) and an Android client
(`native/joblens`).  This directory holds TLA+ models of the service's core and of the
pages of the web client that people work on side by side, the TLC runs that check them
and TLAPS proofs about them.

## 1. Inventory

All requests run one database transaction (`web/deps.py:18`), at READ COMMITTED with a
lock timeout of 3 s and a statement timeout of 5 s (`infrastructure/db.py:55`).  A
handler that changes a case locks the row of the case first
(`modules/cases/queries.py:13`, `lock=True`) and reads what it decides on afterwards.
Locks are taken in one order: session, user or administrator, case, file,
notification counters sorted by recipient.

| Component | State | Operations | What is hard | Correct when |
|---|---|---|---|---|
| Files of a case (`infrastructure/assets.py`, `file_service.py`, `file_jobs.py`) | `file_assets`, `file_links` | upload, scan verdict, delete, require, link | deletion against use by others; a scan holds no transaction | a file somebody relies on stays ready |
| Support match (`modules/cases`) | `support_matches`, lifecycle of the case | save, confirm | stale editors | a confirmed match never changes |
| SOP plans (`modules/sop`) | `sop_plans`, `sop_revisions`, `sop_steps` | create plan, create revision, save, publish | two editors; one draft per plan; publication spans two modules | numbering is publishing order; a published revision never changes |
| Training tasks (`modules/training`) | `training_tasks`, `step_progress`, `submissions`, `feedback` | start, pause, resume, cancel, save a step, submit, review, override the prompt, upload evidence | long histories of rework; stale clients; evidence deleted meanwhile | the history explains the status; attempts are complete and keep their evidence |
| Job table (`infrastructure/jobs.py`) and workers (`worker.py`) | `jobs`; lease held by a process, its heartbeat thread | enqueue, claim, renew, finish | leases against the clock, takeover, late results, crashes | only the latest attempt settles a job; every job settles |
| Periodic sweeps (`worker.py`) | a chain of jobs, one per time slot | seed at start, re-arm with the result | crash between closing and arming | one slot ahead, never none |
| Idempotent commands (`infrastructure/idempotency.py`, `web/commands.py`) | `idempotency_records` | execute once, replay, purge | lost replies, concurrent retries, purge during a retry | a command is applied once per key, replies agree |
| Access to a case (`modules/cases/queries.py`) | `case_grants`, lifecycle | grant, revoke, close | revocation while a request waits for the row | no write after a committed revocation |
| Identity (`modules/identity`) | users, roles, sessions, credential versions, login budgets | login, logout, password change, administration | a session resolved while it is revoked | a revoked credential opens nothing |
| Registration (`modules/identity/registration.py`) | email challenges | request, resend, verify | limits, expiry, retries | a challenge is used once |
| Support (`modules/support`) | assistance, messages, annotations | request, claim, reply, resolve, annotate | two counselors; one open request | one open request per task |
| Notifications (`infrastructure/notifications.py`) | counters, notifications | append, read from a cursor, mark read | transactions commit in another order than they number | a cursor steps over nothing |
| Blob stores and scanner (`infrastructure/storage.py`, `scanning.py`) | blobs | put, open, delete | crash between blob and row | no row without blob |
| Web: SOP workbench (`features/sop`) | revision shown, its cached data, the form and what it is based on, pending mutation | type, save, publish (saves first), new draft, reload, edit the list of steps | refetches, replies and other tabs reach the form in any order | a save replaces only what the form was filled from; what is typed stays while its editor does |
| Web: match editor (`features/counselor`) | cached match, form, pending mutation | type, save, confirm (saves first), reload | the page above takes the form away; two sources of the version | a match is confirmed as it was seen |
| Web: personal settings (`features/profile`, `shared/preferences`) | cached row, form with its base | change, save, reload | one row in several tabs, prompts read the cache | nothing is overwritten unseen; quiet means quiet |
| Web: session and cache (`features/auth/public.tsx`, `app/query.ts`, `shared/api/client.ts`) | user and CSRF token of the tab, query cache, requests under way | load, login, logout, expiry by 401 | late replies across a logout, tokens that change with each load, one cookie for all tabs | a change of user leaves nothing private of before |
| Web: training pages (`features/training`) | cached task, evidence and note of the page, three mutations | start, pause, resume, save a step, submit, refresh | older replies after newer ones; a mutation forgotten by a refresh | a click does what the screen said |
| Web: file list (`shared/ui/AssetInput.tsx`) | value of the parent, ids uploaded here, row queries | upload, poll, attach, delete | callbacks that write the whole value from an older rendering | a checked file is attached |
| Web: review pages (`features/training`: `CounselorTaskPage`, `FeedbackPage`, `FeedbackForm`, `AnnotationEditor`) | cached pages, review form, annotations | review, annotate, override prompts, cancel | two counselors; what unmounted forms asked for | the learner gets the review as it was seen |
| Web: support pages (`features/support`) | requests and messages cached, the one shown, the reply in the box, pending calls | ask, select, reply, accept, resolve, cancel | several counselors and devices; lists older than the requests; answers to a page left for another | a click does what the screen said; a reply leaves the box when it can be read |
| Web: other pages | - | landing page, frame, accounts, notifications | - | - |
| Android client (`native/joblens`) | cached versions, pending commands | mutate, retry, refresh | unknown results, stale caches | a retry is the same command |
| Deployment and tools (`tools/`) | backups, releases | sequential scripts | - | - |

Modelled are the first seven, the requests of the support component, and the web pages
from the SOP workbench to the support pages; `PROJECT.json` gives the state of each component and every hazard at its line.

## 2. Modules

| Module | Models | Built on |
|---|---|---|
| `FileAssets` | rows and links of files, upload, scan verdict, deletion | - |
| `Sop` | support match, plans, revisions, publication | `FileAssets` |
| `Training` | tasks, progress, attempts, feedback; the whole of one case | `Sop` |
| `JobContract` | what the job table promises, without clocks | - |
| `JobQueue` | the job table, workers, heartbeats, the database clock | implements `JobContract` |
| `Periodic` | periodic sweeps on the job table | `JobQueue` |
| `Idempotency` | commands under an Idempotency-Key, their records, the purge | - |
| `EditContract` | what editing pages and server promise together about documents | - |
| `DraftEditor` | the SOP workbench in several tabs | implements `EditContract` |
| `StepList` | the list of steps of a draft | - |
| `MatchEditor` | the editor of the match under the page of its case | measured against `EditContract` |
| `PersonalForm` | profile and preferences in several tabs | implements `EditContract` |
| `ClientSession` | one tab's session, CSRF token and private cache, with the server's sessions and what other tabs do under the same cookie | - |
| `TaskWorkspace` | the learner's page of a task | - |
| `ReviewDesk` | the counselor's pages of a task and a submission | - |
| `AssetPicker` | the list of files of a form | - |
| `AssistanceThread` | the requests for help about a task, on a learner's or a counselor's page | - |
| `TrainingProofs` | theorems and proofs | `Training` |
| `JobQueueProofs` | theorems and proofs | `Periodic`, and with it `JobQueue` |
| `IdempotencyProofs` | theorems and proofs | `Idempotency` |
| `DraftEditorProofs`, `MatchEditorProofs`, `ClientSessionProofs` | theorems and proofs about one page each | `DraftEditor`, `MatchEditor`, `ClientSession` |
| `WebTabsProofs` | theorems and proofs about all the pages of `MCWebTabs` | `MCWebTabs`, `DraftEditorProofs`; instances of `MatchEditorProofs` and `ClientSessionProofs` |
| `WebFaultsProofs` | theorems and proofs about the list of steps, and about what is typed into it, a draft or a match | `MCWebFaults`, `DraftEditorProofs`; an instance of `MatchEditorProofs` |
| `MCTraining`, `MCJobQueue`, `MCPeriodic`, `MCIdempotency` | values for TLC | |
| `MCWebTabs`, `MCWebFaults` | the union of the web pages, and values for TLC | the web modules |

### FileAssets, Sop, Training: one support case

State corresponds to rows: `asset[f]` and `links` to `file_assets` and `file_links`;
`match`, `plan[p]`, `revision[r]` to `support_matches` (with the lifecycle of the case,
which changes in the same transaction), `sop_plans` and `sop_revisions` with their
steps; `task[r]`, `progress[r][i]`, `submission[r]`, `feedback[r]` to the training
tables.  A task is named by its revision (`training_tasks.revision_id` is unique) and a
step by its position.

*Atomicity.*  Each handler is one action, because it holds the row lock of the case from
before its first relevant read to the commit.  The scan result is applied under the row
lock of the file and only while the row is in quarantine, in the version the scan saw;
the version of a row in quarantine never changes, so the state alone is the guard.

*Clients.*  A request carries the version the client saw; a request with an older one
changes nothing (412), so the actions are taken with the current version.  What makes
this sound is that a version names one state, which is a property
(`VersionsNameWork`, `RevisionVersionsNameContent`).

*Abstractions.*  The texts of a match are blank or filled in; a revision's content is its
number of steps, the steps that need evidence, its media, and whether goal and
instructions are filled in.  Audit rows, notifications and the jobs enqueued are
outputs that no handler of the case reads.  Roles are not modelled here: who may call
what is the access component's.

### JobQueue, JobContract, Periodic: jobs and workers

`job[j]` is a row of `jobs`, `worker[w]` a process in `run_once` with its heartbeat
thread.  `Claim`, `Sweep`, `Heartbeat`, `Finish` are one transaction each; between them
the other worker, the clock, the heartbeat and a crash (`Abandon`) may step in.

*Clock.*  A time is kept as the seconds left on the database clock, counted down by
`Tick` to `-MaxLag`.  `now()` is the time a PostgreSQL transaction began; a transaction
that waits for a row lock acts with an older one.  `lag` is that age.  The worker computes
the slot of a sweep with its own `utcnow()` (`worker.py:116`), while the claim compares it with
the `now()` of the database (`jobs.py:58`); the models have one clock for both, which is the
case of one host or of synchronized ones; what clocks that differ do is not modelled.

*Contract.*  `JobContract` knows no leases: a job is waiting, held, done or failed; each
try belongs to one worker; only the worker of the latest try settles; tries are
limited; a settled job stays settled.  It does not promise that handlers do not
overlap, and neither does the code (`docs/development.md`: handlers must be retryable
and idempotent).

*Periodic.*  A job is named by its slot, as the dedupe key does.  `Start` is `main`'s
seeding; `FinishSweep` is the last transaction of `run_once`, which closes a run and
arms the slot one period later.

### Idempotency: commands and their records

`request[n]` is one request with its transaction, `row[n]` the record it inserted and
`holder[n]` the row lock of that record; `sessionLock` and `caseLock` are the other two
row locks a command takes, and `version` is the committed version of what it writes.
One action is one statement: `TouchSession` (every request locks its session first),
`Authorize` (`read_access` with the lock of the case), `Insert` and `Select` of
`execute_once`, `LockRow` when the latter gets its lock, `Run`, `Commit`.  A retry is
another request with the same key, from the same session or another; `Fail` is every
error, lock timeout and crash.

*The database.*  What the code relies on is in the guards: an `INSERT ... ON CONFLICT`
waits for a transaction that inserts or deletes a row of the scope but not for one that
has locked it; a `SELECT ... FOR UPDATE` that waited finds the row as it is then, or
gone; a row that is not committed is seen by nobody else.

*Commands* are of the three kinds the code has: those with If-Match, which all lock
their case; messages and creations, which lock it without a version; and marking a
notification read, which locks nothing before the record.  All are about one case.  The
reply is not modelled: it carries the result of the record, and a client that lost it
just sends another request.

### The web client

Each module is one page, in one tab or in several, with the part of the server that
its requests reach: the row, its version and the tests of the handler.  What the
service does beyond that is in the modules above.

*State.*  Query data is what TanStack Query has cached of the row (`page[e].data` in
`DraftEditor`, `data` and `cache` elsewhere); `form` is the `useState` and `useRef` of the
component; `call` is the mutation of a hook with what it was sent, its reply, and how
far the promise is: `sent`, answered (`done`, `refused`, `failed`), waiting for the refetch
that `onSuccess` returns (`refresh`), `settled`.  The two steps between reply and
`settled` are what the code awaits, and other events come between them.

*Fetches.*  A GET reads the server at one moment (`Fetch`) and reaches the cache at a
later one (`Arrive`), whether it was caused by mounting, focus, an interval or an
invalidation.  `setQueryData` and `cancelQueries` change or drop what is cached or under
way exactly where the code calls them.  A GET that finds what is cached changes
nothing and is left out, unless somebody waits for it.  In `ClientSession` a request is
served when it is sent, except for writes, which are served at any later moment; a user may
leave the login page while a login is under way (`leave`), and a fetch of the session that is
cancelled when a 401 takes its page away leaves the query as it was before.  Other tabs of the
browser fetch tokens (`rotate`) and log in and out (`elsewhere`) under the cookie they share.
In `AssistanceThread`, where no reply is put into the cache and each invalidation cancels
what is under way, a GET takes one step; of the messages it keeps those written on the
page itself, of which the newest twenty would be read.

*Mutations.*  The button is disabled while its mutation is pending, so each hook has
one request under way.  Where the code can forget a pending one (a refresh that
resets it in `TaskWorkspace`, a component that is mounted again in `ReviewDesk` and
`AssistanceThread`) the
request goes on unwatched, and a second of the same kind waits for it; that is a
bound of the model, not of the code.  So is it in `DraftEditor` and `MatchEditor`, where a form
that is mounted again after the page around it failed may act at once in the code
(`DraftForm.tsx:49`, a fresh mutation) and waits for the earlier request in the model, in
`PersonalForm`, whose page is not opened again before its request has ended, and in
`ClientSession`, which has one login or logout and one write under way at a time.

*Attachments.*  The fieldset of a draft is disabled while its mutation is pending, which keeps
typing out; the effect of a file that passes its check is not kept out (`AssetInput.tsx:77`,
`DraftForm.tsx:114`).  `Attached` are the contents a draft may have by then.  In the match editor
nothing is disabled while it is read again, so the user may type, save and confirm beside a
reload (`MatchEditor.tsx:153`).

*Faults.*  `Faults` says which of them a run allows: `call` loses a request or its reply,
`fetch`, `plans` and `page` let the queries of the page or around it fail.  What `Happens` to a
session: `lost` and `late` replies, a `write` of the user, a user who would `leave` the page,
`rotate` and `elsewhere` of other tabs, and `revoke`, its end at the server.  `web_tabs` has three
sessions: `session` with all of these but `elsewhere`, `shared` with a tab beside it that logs in
and out and nothing else, and `writing`, a user who writes and whom nothing disturbs.

*Data.*  A content stands for all fields of a form; of the texts only whether they are
complete matters.  The steps of a draft, whose numbering is an algorithm of its own,
are in `StepList`.

*Composition.*  Pages share no state but the row at the server, which each module lets
others change (other tabs, a colleague, another device).  `MCWebTabs` and `MCWebFaults`
are therefore unions: `site` names the page a behaviour is about, only its instance
moves, and the variables of the other pages rest in `Away` or in their initial state.
This is a way to check several pages in one run, not a claim about the code.

*Contract.*  `EditContract` knows documents and what an editor has before the eyes.
It allows an editor to replace the version it started from with its text, and to
freeze a document that says what the editor sees, and nothing else.  How editors come
to see something is left open.

## 3. Runs

| Run | Shows | Bounds and why they are enough | States |
|---|---|---|---|
| `training_work` | the life of one task | two steps, the first with evidence, two files, ten writes to the task: enough to submit, be sent back for either or both steps, hand in again and pass, with a pause or override between | 63,744 |
| `training_case` | plans, revisions, publication | two plans, three revisions, one medium: two drafts side by side, a second revision based on a published one, a second publication after cancellation | 80,972 |
| `draft_file` | finding 1 | as `training_work` | - |
| `jobs_safety` | the contract of the job table | two jobs, two workers, three attempts, lease 2, lag up to 1: takeover, late finish, late renewal, exhaustion and backoff at its cap | 179,915 |
| `jobs_liveness` | every job settles | two attempts | 29,761 |
| `periodic` | the chain of sweeps | four slots of two seconds, two workers, two attempts | 272,677 |
| `periodic_cadence` | finding 2 | as `periodic` | - |
| `commands_safety` | once per key, faithful replay, no lost update | three requests, two sessions, four keys (two with If-Match, one that locks its case, one that locks nothing), two bodies: a retry beside the first and one after the purge | 213,386 up to symmetry |
| `commands_liveness` | no circle of waiting | three requests, two sessions, two keys | 82,995 |
| `commands_expiry` | finding 3 | two requests with one key | - |
| `web_tabs` | nobody overwrites, confirms, acts on or is shown what was not before their eyes | two tabs and two contents up to version 3: a save of each tab with a third fetched between; of the match, the settings and a reviewed task all behaviour up to version 2 and each step to version 3; two users, three sessions and four tokens: a visitor's session, a login and another, with a token rotated between; one step, file and annotation, two requests under way: a mutation beside a forgotten one, an annotation beside a review; a task of four versions, which is worked on and handed in and not reviewed; two requests for help, the second after the first is closed, with one message each | 1,391,046 |
| `web_faults` | forms are enabled again, what was typed stays, lists stay sound, files get attached | one tab, two revisions; every query, and every request of an editor, may fail; a file may be attached to a draft at any time; a task that is started, saved and handed in; lists of up to three steps: a move past a neighbour with one left and right; two files that are checked between the same two renderings; one request for help with a message, on a counselor's page | 145,641 |

Which requests fail where: in `web_tabs` those of settings, tasks, reviews and the session, and
the page around the match, but no request and no query of a draft and none of the match
(`Faults = {}`, `MatchFaults = {"page"}`), and no file is attached while a call is pending
(`Attached = {}`).  Lost replies beside a second tab are therefore not in that run; that
`EditsByTheBook`, `BaseIsReal`, `ConfirmedIsReviewed` and `TypingKept` hold with them, too, is what the
theorems of section 4 say, which make no assumption about faults.  In `web_faults` all
of these fail, for one tab.

Action properties are checked as `[][A]_vars`: a step that changes nothing is not looked at.

All runs set `CHECK_DEADLOCK FALSE`: a case whose task is finished and whose bounds are
used up has nothing left to do, and neither have a table of settled jobs, requests
that have ended and a page at the bound of its versions.

Every property is broken by a plausible bug: the operators named `X_Something` before
`X` are those bugs, listed under `mutants`.

*Fairness* (`JobQueue`, `FairSpec`).  The main loop polls for ever (`worker.py:136`), so
`Polls` is weakly fair; handlers are assumed to return (`Returns`), because the code
has no timeout around a handler and a handler that hangs while its heartbeat renews
does keep its job; the last transaction is tried (`Reports`); and time passes.
Heartbeats, crashes and the choice of the job are not assumed fair.  In `Idempotency`
the statements of a request are strongly fair: PostgreSQL queues those that wait for a
row lock, so a request is served although the sweep takes the row again and again.
Timeouts and failures are not assumed to happen, so `EveryRequestEnds` says that there
is no deadlock the lock timeout would have to break.

In the web modules a request is answered or lost (the browser rejects the promise of
a `fetch` whose connection breaks), a fetch somebody waits for ends in one way or the
other, and a promise that is resolved runs its continuation.  Nothing is assumed of
fetches nobody waits for, of typing or of other tabs: `WaitingEnds` holds although the
query of the page may fail each time.  It speaks of the draft, the match, the learner's task and
the requests for help, and of the reload of a match, which disables nothing; settings,
reviews and the session are not part of it.  `AssetPicker` adds that React renders what was
set and runs the effects of a rendering, that checks of files end, and that a row asks
again while its file is not checked (`refetchInterval`); see below for the first request
of a row.  The fairness of a page that is not shown asks for nothing: it rests in a
state in which none of these actions is possible.

### Findings

1. `ReferencedFileKept`: the architecture proposal (`architecture.md:130`) says a file
   that is referred to cannot be deleted.  Saved progress refers to its files
   (`modules/training/service.py:204`) but only submission links them, so the file can
   be deleted (`infrastructure/file_service.py:132`).  The step is completed and can no
   longer be saved, and submission requires the file: the task can only be cancelled.
2. `SweepScheduled`: the sweeps "must run whether or not anyone is using the system"
   (`worker.py:22`).  When the last attempt of a run is lost, `claim` closes it
   (`infrastructure/jobs.py:61`) without arming a successor, and a worker started in
   the same slot finds its dedupe key taken.
3. `CreatedOnce`: records are kept for 24 hours, "过期后仍由业务唯一约束约束重复创建"
   (`architecture.md:181`: afterwards unique constraints of the business tables restrain
   a second creation).  A support message has no such constraint
   (`modules/support/models.py:55`), so a retry after the purge creates it again.  Where
   a command needs If-Match, `NoLostUpdate` shows that the purge does no harm.

### Behaviours TLC refutes that are not among the runs

They were met while the web pages were modelled.  The formulas named here stand in the
modules; a configuration with one of them as its only property shows the behaviour.

- `MatchEditor.EditsByTheBook`.  The plain save sends the text of the form with the
  version of the cache (`MatchEditor.tsx:129`), and the cache moves on by itself.  Tab A
  types, tab B saves, A refetches in the background, A saves: B's match is replaced by
  somebody who never saw it, against `architecture.md:106`.  Confirming uses the version
  the form was filled from (`baseVersion`) and is safe: `ConfirmedIsReviewed`.
- `MatchEditor.NoFalseConflict`.  A plain save does not move `baseVersion` on, so in a single
  tab the next confirmation that saves first (`MatchEditor.tsx:51`) is refused with 412.
- `DraftEditor.KeepsEdits` with `plans`.  When a refetch of the plan list fails, by itself or
  after an invalidation, `SopWorkspace` shows the error instead of the editor
  (`SopPage.tsx:22`), and what was typed is gone when it is mounted again, against
  `current-round-handoff.md:9` ("编辑状态不被后台刷新覆盖": what is being edited is not overwritten by
  a background refresh).  A failing refetch of the session does the same to every page
  (`SessionGate`, `public.tsx:38`): to a draft it looks like failing plans, to a match like
  failing queries of its page, to the other pages as if their user had left them.
- `DraftEditor.KeepsEdits` with `Attached`.  A file that passes its check while a save is pending
  goes into the form (`AssetInput.tsx:77`, `DraftForm.tsx:114`), and `accept` puts the reply in its
  place (`DraftForm.tsx:32`).  The effect of the next rendering attaches it again (`AssetInput.tsx:117`),
  as an edit that is not saved; of a save before a publication the file is lost with the form, and
  the revision is published without it.
- `DraftEditor.KeepsEdits` with no faults at all.  The form stays enabled between the reply to a
  publication and the fetch that unmounts it (`queries.ts:83` of the workbench waits for no
  fetch), and another tab's publication or newer revision unmounts it as well: what was
  typed by then has no draft it could be saved to.
- `MatchEditor.KeepsTyping` without its last disjunct, with `page`.  When a refetch of the case
  fails, `CasePage` shows the error instead of the form below it (`CasePage.tsx:22`), and what was
  typed is gone in the same way.  And what is typed while a match is read again is
  overwritten (`MatchEditor.tsx:153`), which the property counts as the reload that was asked for.
- `PersonalForm.QuietObeyed`.  Saved settings are put into the cache without cancelling the
  GET under way (`PreferencesPage.tsx:162`); the older answer arrives afterwards and the
  tab speaks until the next fetch although its form says quiet.
- `ClientSession.OwnCache`, what `docs/identity.md:9` asks for queries and commands alike.  With
  `write`: the reply of a write that was under way at the logout is cached afterwards
  (`training/queries.ts:173`) and belongs to somebody else than the user the tab shows.  With
  `elsewhere`: another tab logs in as somebody else, the session query is fetched again
  when the window gets the focus (`public.tsx:25`, `query.ts:27`), and the tab shows the new user
  over the cache of the old one, which nothing clears; or its queries bring in the new user's
  data while it still shows the old one.  `CacheIsPrivate` is what remains.
- `ClientSession.TokenFits`.  Every load of the session fetches a new CSRF token
  (`auth/public.tsx:15`); a write sent before with the old one and served after is
  refused with 403.
- `ReviewDesk.SavedIsSent`.  An annotation whose saving ends while the review is under way
  stays a draft although the page says that saved annotations go with the review
  (`FeedbackForm.tsx:106`, `:114`).
- `AssistanceThread.KeepsTyping`.  The box of a reply is not disabled while the reply is
  under way (`AssistancePage.tsx:136`) and is emptied when the messages were read again
  (`AssistancePage.tsx:133`): what was typed in between is lost.

Read in the code and not expressed as properties: a reply whose answer was lost is sent
again under a new key (`support/queries.ts:80`) and then stands in the thread twice; the
invalidation after an action is not awaited (`support/queries.ts:67`), so a second click
right after the first is refused as if somebody else had changed the request; a message
does not count the version of its request up (`modules/support/service.py:138`), so a
counselor may resolve what the learner has just written about; the annotation editor
clears what was typed during the save (`AnnotationEditor.tsx:63`); a counselor who goes from one
request to another by its address keeps the reply in the box and the mutations
(`AssistancePage.tsx:24` renders `AssistanceDetail` without a key), so that words meant for one learner
may go to another; a removal between a
rendering and its effect brings an identifier back into the value (`AssetInput.tsx:82`);
a row whose first GET fails is not asked again (`AssetInput.tsx:104`), which is why the fairness of
`AssetPicker` assumes an answer; a review lists all saved annotations while the server
takes twenty (`FeedbackForm.tsx:28`).

## 4. Proofs

Every safety property and every action property that a passing run checks is a theorem,
for every value of the constants that the named assumptions allow.  Most of the inductive
invariants were first checked by TLC on the instances of section 3.

`TrainingProofs`, for any finite or infinite sets of files, revisions and plans and any
bounds, from the assumptions of `FileAssets` and `Sop` (a bound is a number, contents are
contents, and `None` is neither a plan nor a revision):

- `TypeCorrect`: `Spec => []TypeOK`.
- `OneTaskAtATime` and `PublicationCreatesTask` by the invariant `TaskInv`.  It adds that
  what has no task has no attempts either: without that a first publication could find
  old attempts.
- `EvidenceIsKept` and `MediaAreKept` by the invariant `FileInv`.  Both follow from one
  argument: a file that is linked stays ready (deletion tests the links, a verdict
  changes only a quarantined file), links are never removed, and the owner requires its
  files to be ready in the action that links them.

In the same module, about what accumulates over a long life of a case:

- `NumbersAreTheOrder`, `PublishedIsComplete` and `VersionsNameContent` by `RevisionInv`.
  The order of publication alone is not inductive: that a row nobody created is blank,
  that a plan that was never created has no revisions and that a confirmed match is
  filled in exclude that a new draft finds itself below a published one, or that what
  was published came before its match.
- `AttemptsAreComplete`, `StatusIsExplained`, `PassedIsSubmitted`, `ReworkIsConfined` and
  `StepsAreInOrder` by `HistoryInv`, one conjunction per revision (`History`).  What has to
  be added to the properties is that there is at most one feedback for each attempt and
  none for attempts to come (`OnePerAttempt`), that a task not begun has no history
  (`NoHistory`), and that a completed step has its evidence already before it is submitted
  (`WorkHasEvidence`).  `ReworkIsConfined` relates two attempts; it is inductive because
  the present work is related to the last attempt in the same way (`PresentRework`).
- `VersionsNameTheWork`, a property of steps: whoever writes counts the version up.

`JobQueueProofs`, from `QueueAssumption` alone:

- `RowsCorrect` and `JobsCorrect` (`OneHolder`), by the inductive invariant `IInv`: a
  running row has the token of its latest attempt and any other row none (`Rows`), a busy
  worker works on an attempt that was made (`Claims`), and no two workers have the same
  attempt (`Distinct`).  `OneHolder` alone is not inductive: without `Claims` the next
  claim could give out a number that a stale worker already has.
- `NoTakeoverBeforeExpiry`: only a claim counts attempts up, and its `now()` is older than
  the clock, never ahead of it.
- `ImplementsContract`: `Spec => KeepsContract`.  A claim is a poll that gives up the
  exhausted jobs and takes one; an accepted result settles the latest try; a refused one
  and a crash drop it; ticks, heartbeats and handlers are not seen by the contract.

In the same module, from `QueueAssumption` and `PeriodicAssumption`: `ChainGoesOn` and
`SweepsDoNotPileUp`, by `PeriodicInv`.  It carries the invariant of the queue and says when
a pending slot is due (`Timing`: not before it begins).  That is what keeps a slot that
was armed ahead from being run, and its successor from being armed, too early.

`IdempotencyProofs`, for any sets of requests, sessions and scopes:

- `TypeCorrect`, `ExecuteOnce` (`AppliedOnce`), `ReplaysAreFaithful` and
  `UpdatesAreKept` (`NoLostUpdate`), by one inductive invariant: where a request is and
  the state of the row it inserted tell each other (`RowInv`), the sweep holds expired
  rows only (`SweepInv`), a result that was found is committed and of the same scope
  (`ResultInv`), a request that needs the case holds it from its authorization to its end
  (`LockInv`), and the versions named by what was applied are all below the present one
  (`VersionInv`).  `AppliedOnce` then follows from the unique constraint, which is part
  of `TypeOK`; `NoLostUpdate` needs no record at all.

`DraftEditorProofs`, from `ContentsAssumption` and `BoundAssumption`, for any set of tabs and
contents, any bounds and any faults:

- `TypeCorrect`, with the fact that a new draft is asked for only where there is room.
- `RealBases` (`BaseIsReal`) by the inductive invariant `IInv`: whatever a tab has in its
  cache, in a fetch under way, as the base of its form, in the reply of a mutation, or as
  the version of a request that is still to be sent was what the server had under that
  version (`TabsReal`).  The form alone is not inductive: it is filled from any of these.
  Every lemma of a step rests on one fact, that rows only grow: a row keeps its content
  or gets a higher version (`RowsGrow`, `RealGrown`).
- `ByTheBook` (`EditsByTheBook`): `HandleSave` is the contract's `Edit`, `HandlePublish` its `Freeze`,
  `HandleCreate` its `Create`, and every other step changes what an editor sees and no
  document.  For `Freeze` the invariant is needed once more: a request to publish carries
  a version, and only `TabsReal` says that the row of this version has the content that
  the counselor was looking at.

- `DraftTyping` (`KeepsTyping`), a part of `TypingKept` and of `TypedStays`.  What was put into a form
  leaves it only by typing on; by a save or a reload of what the form says; with the whole
  editor, when the plan list cannot be fetched, a newer revision is shown or this one is
  published (`TakenAway`); or, a file attached while a save or a reload was pending, by its
  reply (`Overtaken`).  `TakenAway` and `Overtaken` are losses, and section 3 says where the code
  is asked for more.  What is excluded, whatever fails and in whatever order, is that a
  fetch of the revision, another tab's save, a refusal or a lost reply takes edits away, and that
  a reply replaces text it does not contain.  `PendingIsShown` is the invariant for the
  latter: while a save is pending the form says what was sent.

`WebFaultsProofs`, from `TextsAssumption` (a new step says one of the texts), for lists of
any length over any identifiers: `ListsAreAccepted` (`ServerAccepts`).  Each operation is
described by where an element of the new list stood in the old one; that this is one-to-one
gives that no identifier is there twice, that whoever is still there says what it said, and
that one change loses one step at most.  `TypedIsKept` (`TypedStays`) puts this together with
`DraftTyping` and `TypingIsKept`, with their exceptions.

`MatchEditorProofs`, for any tabs, texts, bounds and faults, provided that the text of a
new match is one of the texts (`FirstAssumption`, a hypothesis of the theorems):

- `MatchTypes`, and `ConfirmedAsReviewed` and `OwnBaseReplaced`, the two halves of what the
  run `web_tabs` checks as `ConfirmedIsReviewed`.  The inductive invariant says of every tab
  that its cache, its fetch and the reply it waits for agree with the match as long as
  their versions do (`Real`), that a request to confirm carries the text that was shown,
  and that the save before it has the version the form was filled from (`CallFits`).
  That last fact needs that a form somebody typed into has been filled from a real
  version (`Known`), because the code takes `baseVersion || current.version`.
- `TypingIsKept` (`KeepsTyping`): what was typed leaves the form by typing on, by a reload the
  user asked for, or with the editor, when the case or the profile above it cannot be
  fetched; section 3 shows that case.

`ClientSessionProofs`, for any users, sessions, tokens and `Happens`, from the assumption that
"nobody" is no user.  `Base` is what holds whatever other tabs do; its `Rows` carries what the server
contributes: cookies are given out in order, and two live rows never share a token.  Where
no other tab logs in or out, `SessionInv` adds where the cookies are: one that comes with a token
signs nobody in (`Links`), whatever the tab and its queries under way say of a user they
all say of the one the browser's cookie stands for (`About`), and once a session was found
to be over, its cookie is nobody's.  `TabInv` is both.  Two results come from it:

- `PrivateStep` (`StrangersByWrite`): a login, a logout or a 401 that changes the user empties the
  cache, and, where no other tab logs in or out, a query brings in data of the user shown and of
  nobody else, so that only a write that succeeds late brings in another's.
- `LoginStep` and `Agree`: after a login the browser and the tab have cookie and token of the
  session that was made, and, with nothing lost or late, no session revoked, nobody beside and a
  user who waits (`Calm`), tab and server agree on who is signed in.  `Undisturbed` is what is inductive here: not only the user that is
  shown but also the one that a load under way is about to show is signed in.

`WebTabsProofs`, from `ContentsAssumption`, `BoundAssumption` and `PagesAssumption` (numbers
are numbers, "nobody" is no user), for any tabs, texts, files, steps, notes, requests,
users and bounds and any faults.  Each page has an inductive invariant (`SettingsInv`,
`WorkInv`, `DeskInv`, `HelpInv`, and those of the three modules above) and a lemma for each action;
`WebInv` is their union, page by page.  Nearly all of them are one idea in several forms:
as long as a tab's version is that of the row, what the tab has of it (in its cache, in a
fetch, under a form, in a call) *is* the row (`SettingsReal`, `WorkReal`, `DeskReal`,
`HelpReal`), and a request carries the version of what was shown.  The version check of
the server then turns "was accepted" into "did what was seen".

- `WebTypes` (`WebTypeOK`): each page keeps its types, and no two live sessions share a token.
- `SettingsKept` (`SettingsByTheBook`): `PersonalForm` implements `EditContract`.
- `DoneAsSeen` (`SeenIsDone`) and `ReviewedAsSeen` (`ReviewOfSeen`).  The second needs that
  notes which were published are those of the list the counselor sent, and that there is nothing
  published before the review (`DeskFeedback`).  The first also says that a task has one open request
  at most; that is a fact of the server (`HelpServer`).
- `ConfirmedAsSeen` (`ConfirmedIsReviewed`), the two halves above put together.
- `TypingStays` (`TypingKept`), for any faults and with the exceptions that `DraftTyping` and
  `TypingIsKept` name; of the settings nothing but typing on, a save, a reload or another page
  takes what was typed.  For the box of a reply it needs that a call whose answer has come either has its message in the
  list of the tab or shows an error (`HelpCall`, `Says`).
- `PrivateCache` (`CacheIsPrivate`), with writes, faults and other tabs, and `TabAgrees`
  (`SessionAgrees`).

TLC alone checks the liveness properties (`EveryJobSettles`, `EveryRequestEnds`,
`WaitingEnds`, `ReadyIsAttached`): they rest on fairness, which is out of the prover's reach.

## 5. Plan

In this order, each with its runs, mutants and, where named, theorems:

1. `Notifications`: numbering under the counter lock against readers' cursors; theorem:
   a cursor steps over nothing.
2. `FileLifecycle`: blobs, the two transactions of the scan, the jobs of `JobQueue` as
   at-least-once deliveries; blobs and rows after crashes.
3. `Access`: grants, revocation and closing against requests that wait for the case row.
4. `Identity`: credential versions, login budgets, administrators; `Registration`:
   challenges.
5. Question annotations, attachments of messages, and the observation events of a task.
6. A contract of a task that `Training` implements and `TaskWorkspace` relies on, with
   the refinement proved.

## 6. Not modelled

- Rendering, wording, HTTP schemas, logging, audit rows, image inspection: no state
  that a handler decides on.
- The scanner and SMTP are inputs; pagination and the read-only lists are pure reads.
- Of the web client: the landing page, the frame with its navigation, sign-up and
  account pages (forms with one request each and nothing cached afterwards), the
  notification pages (lists, whose server part is not modelled yet), hints and
  observation events of the learner's page (appended, never read by a command),
  speech, and the creation of the first plan of a case (one request).
- The Android client: another implementation in Kotlin of what the web client does;
  its retries meet the server as the requests of `Idempotency`.
- Deployment and backup scripts, generators and contract checks: sequential tools.
