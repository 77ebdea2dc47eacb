# Formal models of the PinPle PC Agent

The PC Agent is a desktop program (Rust, tokio, egui, SQLite) that runs in the
tray of an employee's PC, notices when the employee is away from mouse and
keyboard during working hours, reports those absences to a server and lets the
employee explain them. It must not lose a report, not report what it may not
track, not mix up employees who share the PC, and live with a network that
fails, a process that is killed and operators who change the rules meanwhile.

The TLA+ modules here are translated from the sources under `src/src/`; paths
below are relative to that directory unless they start with `docs/` or
`migrations/`. `PROJECT.json` maps every definition to the lines it models.

## 1. Inventory

| Part | State | Operations | Talks to | Module |
|---|---|---|---|---|
| **Event queue** `data/local/events_repo.rs`, `platform/sync/event_sync.rs`, `platform/monitor/lifecycle.rs` | table `local_events` (PENDING / SUCCESS / FAILED, retry count) | enqueue, pending_batch, mark_success, mark_failed; the minute loop `run`, the spawned `flush_now` | server `POST /events`; session; explanation list (refresh) | `EventQueue` |
| **Idle detection** `platform/monitor/idle_detector.rs`, `input.rs`, `data/local/idle_segments_repo.rs` | Active / IdleOpen, start of the open segment, grace timer, lunch credit of the day; table `idle_segments` | one poll every 5 s: gates, credit, open, close | tracking gate, attendance, work status, policy, event queue | `IdleDetector` |
| **Session** `domain/usecase/user_usecase.rs`, `data/repository/auth_repository.rs`, `domain/service/user_service.rs`, `data/local/auth_repo.rs`, `platform/credential_store.rs` | `AppState.session`, `user_service::CURRENT`, table `auth`, keyring entry, seven caches | manual login, automatic login, logout, forced logout, the user-info and policy loops | everything | `Session` |
| **Tracking gate** `LiveStatus`, `subscription_service`, `work_status_service`, `update_check` | can_track_time, attendance, plan, work result, update_info | written by login, `user_info_sync`, `policy_sync`, `update_check`, logout; read by every poll | idle detection | `TrackingGate` |
| **Explanation queue** `data/local/explanations_repo.rs`, `ui/explanation_input_view.rs`, `event_sync::retry_pending_explanations` | table `explanations`, explanation status of a segment | submit, immediate send, minute retry, permanent rejection | server, list cache | `ExplanationQueue` |
| **Explanation list cache** `ui/explanation_list_view.rs` | static `CACHE`: items, loading, error, employee | ensure_loaded, trigger_fetch, store_response_for, clear_cache, optimistic mark | server, login, event queue | `ExplanationList` |
| **Explanation types** `domain/service/explanation_type_service.rs`, the CMS tab of `ui/settings_view.rs` | static list of types; the tab's pending flag and message | load, clear, create, patch, deactivate, usage, refresh | server, login, user-info loop | `ExplanationTypes` |
| **Policy editor** `ui/settings_view.rs`, `platform/sync/policy_sync.rs` | edit form with the version it started from, `AppState.policy`, derived `LiveStatus` | edit, PATCH, reinitialise, policy loop | server, login | `PolicyEditor` |
| **Lifecycle and routing** `main.rs`, `ui/mod.rs`, `ui/tray.rs`, views | process, window, tray, commands, quit flag, route | tray commands, close, quit with forced exit, navigation | session | `AppLifecycle` |
| Decisions `lunch/mod.rs`, `platform/monitor/policy.rs` | none | classify, resolve: called by their tests only | | |
| Database, API client and mock, DTOs, configuration, device, notification, layout of the views, server migrations, session watchdog (a stub) | connection, parameters | plain I/O, parsing, drawing | | |

All tasks share one `Arc<AppState>` of `RwLock`s and a few process-wide statics.
Two runtime threads run the loops and the spawned tasks, the UI thread runs
callbacks. A lock is never held across an `await` and a SQLite statement runs
under one mutex, so **a step of the models is what happens between two awaits or
between two separately locked writes**, and anything may interleave there.

### What is hard, and what makes each part correct

* **Event queue.** Two senders read and send the same rows; a reply is lost, a
  request arrives after it was given up, an UPDATE fails, the process is killed.
  Correct: SUCCESS is only claimed of stored events; the server learns of events
  in the order they were enqueued; nothing is stored twice or re-attributed;
  everything acceptable is delivered in the end.
* **Idle detection.** Polls are seconds apart and some are skipped; the lunch
  window and the gates open and close in the middle of an absence; a restart
  forgets the loop's locals. Correct: absences do not overlap and end after they
  began; the lunch allowance comes before any absence in the window, each day
  once; events agree with rows.
* **Session.** A login is a chain of requests and of writes to keyring, table,
  caches and session; logouts, forced logouts and cycles of the loops run in
  between. Correct: whom the server asks to log out gets out, caches end up being about
  the user.
* **Tracking gate.** Five writers, each with its own inputs, no arbitration.
  Correct: a "no" of the plan, the attendance or the work result that stays stops
  the tracking for good, a "yes" that stays brings it back, whatever older answers
  come in.
* **Explanation queue.** The immediate request races with the minute retry and
  with requests that arrive after their timeout; a row has no employee; the two
  writes of a submit may be cut apart. Correct: a row is only forgotten when the
  server has answered for it, a segment that looks explained is, the queue empties.
* **List, types, policy.** One flag guards several tasks and is released in
  another step than the data is stored; answers of an earlier user, company or
  version arrive late. Correct: no flag outlives its tasks, nothing is sent that
  nobody typed, what is shown converges to what the server has.
* **Lifecycle.** Close, quit, hang, crash and a missing tray meet in one frame, in
  whatever state the window is. Correct: closing never ends the recording, quitting
  always ends the process, opening is served.

## 2. The modules

| Module | What it is | Extends |
|---|---|---|
| `EventQueue` | the queue, its senders, everything that enqueues, the server as an external party | |
| `EventDelivery` | what the queue promises: a log, deliveries in order, beliefs | |
| `IdleDetector` | one action per way a poll can go, rows and events | |
| `Session` | logins, logouts, loops, disk and memory | |
| `TrackingGate` | the gates of a poll and their five writers | |
| `ExplanationQueue` | submit, immediate request, retry, the server's answers | |
| `ExplanationHandover` | what that queue promises: written, handed over or refused, forgotten | |
| `ExplanationList` | the list cache and everyone who fills or clears it | |
| `ExplanationTypes` | the types cache and the four CMS calls | |
| `PolicyEditor` | server policy, copy, live status, form, saves | |
| `AppLifecycle` | process, tray, frames, routes | |
| `EventQueueMC`, `TrackingGateMC`, `ExplanationTypesMC`, `PolicyEditorMC` | values of constants for TLC | their module |
| `EventQueueProofs`, `IdleDetectorProofs`, `ExplanationQueueProofs`, `ExplanationListProofs`, `ExplanationTypesProofs`, `PolicyEditorProofs`, `AppLifecycleProofs` | theorems for all constants | their module, `TLAPS` |
| `IdleDetectorProofs` | its last part also instantiates `EventDelivery`, as the queue the loop enqueues into | |
| `SessionProofs` | the same for `Session` and, through an instance that shares its users and its bound on faults, for `TrackingGate` | `Session`, `TLAPS` |

Operators whose comment begins with "Mutant:" are not used by the models: they are
the wrong versions of a neighbouring definition that each property was tried
against (`PROJECT.json`, `mutants`).

### EventQueue

`rows` is the table in the order of its ids (an id is an index), `task[s]` the
point a sender has reached in `flush_once`, `late` the requests whose sender has
given up but which may still arrive, `server` whom each event is stored for.
`steps` holds the handlers that are between two of their writes, such as a logout
that has enqueued LOGOUT and not yet cleared the session.

* `CaptureSession`, `SendBatch`, `ReplyOk`, `ReplyError` are `flush_once` cut at
  its reads and its await; `BatchUnreadable`, `ReplyOkUnmarked` and
  `ReplyErrorUnmarked` are the error paths of the three statements (those of the two
  UPDATEs are dropped by the code: the rows stay as they were).
* `Serve` and `ServeLate` are the server: a batch is a transaction, an event is
  stored once, a type its CHECK constraint refuses (`RejectedTypes`) is left out
  of the accepted ids (`docs/api.md`, `migrations/server`).
* `Start`, `LoginEvent`, `LogoutEvent`, `SegmentStartEvent`, `SegmentEndEvent`,
  `Quit` enqueue; `Stop` is a crash or the end of a quit: only `rows`, requests
  already sent and the server survive.
* A batch is sent whatever the plan is: a document of the API skips it without
  `pinpluse`, the comment at `event_sync.rs:10-17` decides against that, and so does
  the code.
* The payload, the times and the UUID are left out: the id stands for them.

`EventDelivery` knows only `log`, `delivered`, `believed`. Its steps are that
something happens, that a prefix of what is not yet delivered and not refused is
delivered for one employee, and that delivered events become (or cease to be)
believed. `ImplementsDelivery` is the refinement.

### IdleDetector

Time is counted in units of which a poll takes `Interval`; `Gaps` allows longer
gaps for suspends. What the loop reads of other tasks (gates, session) may differ
at every poll; whether there is a lunch break is chosen at the start.
`Poll`, `Measure`, `Track` are the common beginning of an iteration; each
`continue` or branch of `run` is one action: `PollWithoutPinPlus`, `PollBlocked`,
`PollActive`, `PollLunch`, `PollOpen`, `PollOpenFails`, `PollLunchClose`,
`PollAway`, `PollBack`, `PollGrace`, `PollClose`. `Finalize` is
`finalize_segment_close` with its three statements: both events of a segment are
enqueued at its close, none at its open. `credited` and
`failed` are history, and `openedAt` in a row is a column only the model has.

### Session

A login task (`manual` or `auto`) walks through `auth`, `fetch`, `row`, `creds`,
`session`, `load`; a failed automatic login goes through `forgetCreds`,
`forgetRow`. A caller of logout (`ui`, or `userInfo` for a forced logout) walks
through `creds`, `row`, `session`. A loop holds the user it read at the start of
its cycle and the loads it still has to do. A cache is abstracted to whom its
content is about (`Kinds` selects which of them an instance keeps), the keyring
to whose credentials it has, the table to one row. A keyring call may fail like a
request or a statement (`StoreCreds`): what was there stays, and no caller acts on
the error. How the server takes an employee is `standing`: "valid", "forced" (a cycle
is answered `force_logout`) or "gone" (a cycle is answered 404, on which it only
retries: `NotFound`). Which of the two answers who leaves gets is up to the server,
and it may turn from the second to the first.

### TrackingGate

`Passes` are the four gates of a poll in the order of the loop; `tracking` is
what the last poll found. The writers are tasks that walk from one await to the
next: `Login*` (check_pay_use, session, attendance, work result, policy),
`Info*` (one user-info cycle, with the forced logout), `Policy*`, `UpdateChecked`
and the two stores of a logout (`Logout`, `LogoutStatus`). `server` holds the four
facts the server may answer about an employee; a `Change` replaces them. `offer` is
what it answers to an update check, the same at every check until a `Publish`
replaces it, so a forced update stays outstanding for as long as the server likes.
`AppState.update_info`, the copy the menu shows, is left out, as no gate reads it.
`VersionLt` is `version_lt` on sequences of numbers, `Derive` the part of
`work_status_service::derive` the gate tells apart. What a login writes to disk is
in `Session`, not here.

### ExplanationQueue

`row[i]` is a row of the table by its id; a deleted row stays in the model as
DELETED, since ids are never given out again. A submit is `SubmitInsert` on the
UI thread, `SubmitMark` (the segment is marked, the task spawned), and then the
task `direct[i]`: `DirectSend`, `DirectServed`, `DirectAccepted` or `DirectLost`.
The retry is `RetryTick`, `RetryRead`, `RetrySend`, `RetryServed`,
`RetryAnswered`/`RetryLost`, oldest row first (`Current`). A request given up by
its sender goes to `late` and may still be served. The server knows a segment
under at most one employee (`known`): it accepts a first explanation or one of the
same employee, and may refuse when a type was withdrawn (`Withdraws`). The form
opens on any segment (`FormShows`): one of who is logged in from the table, or one
`find_in_cache` (`explanation_input_view.rs:103`) takes from the list, which may be
known under another employee and may still be the list of the user before. `author`
and the employee in `stored` record whose an explanation is.
`ExplanationHandover` is the promise without rows and requests; it deliberately
promises neither *once* nor *in whose name*, since the code does not.

### ExplanationList

`cache` is the static: `items.of` says whose list it holds, which the code does
not know, `employee` for whom it was asked last, `loading` one flag for all
fetches. `TriggerFetch` is `trigger_fetch` as called by the frames (`FrameEnsures`),
the refresh button, the task of a submit and the event queue; a fetch is `sent`,
`answered`, then stored whatever the cache has or asks for by then. A login stores
what it fetched itself (`LoginStores`). A frame is cut between reading the
session and looking at the cache, a logout between ending the session and
clearing the cache.

### ExplanationTypes

`cache` is the list the form offers, `form` the flag and message of the tab,
`call[s]` one of the four buttons' tasks: `sent`, `refresh`, `listing`, `listed`,
`release`, `tell`. The refresh that follows a call reads the session again. Login
and user-info loop load by themselves. Companies have lists of their own, an
employee sees that of the company; the text of a type is left out, its
requires_text flag is in `Kinds`.

### PolicyEditor

The server's policy is that of one company, with one version number; what it says is
worked out for each employee from the rows of the employee, the team and the company
(`migrations/server/0001`:91-93, 117), so `server.value` has a policy for each of them,
and a change reaches an arbitrary set of employees in each field (`Reaches`) while it
raises the version for all. `PolicyOf` is the answer to one employee.

`Drawn` is the form as a frame draws it (filled again when it never was, or when
the copy has another version, not when it has another employee), `Edit` a keystroke,
`DiffPatch` what a save would send. A save is cut at its await and between its
stores (`SaveReleases`, `SavePolicy`, `SaveLive`), the policy loop and the login
likewise, each in its own order. A logout keeps copy and form, and what is under way
for the one who leaves is stored. `live` stands for the effective threshold, the scope
and the version; a save leaves `can_track_time` alone, and that is in `TrackingGate`.
`form.typed`, `form.of` and the `of` of a policy are history: no message and no struct
says for whom a policy was worked out. Validation and the tab's other fields are left
out; `Fields` and `Values` are arbitrary. This tab and that of the explanation types
are compiled with `debug_assertions` only; the copies they share with the loops are
not.

### AppLifecycle

A frame is one step: command of the tray, close request, then the view with at
most one click (`Frame`, `Navigate`, `LoginClicked`, `LogoutClicked`). The tray
thread passes commands on and starts the timer of the forced exit (`TrayClick`,
`ForcedExit`). Login tasks and the forced logout change the session between any
two frames. The close request may come in any state of the window: `XClick` is the
window's own button or an entry of the taskbar, also while it is minimized, and the
frame that finds it minimizes last, after a `Show` it has taken. `TaskbarClick`
minimizes or restores the window without the program. `Hang` is a UI thread that waits
for something that does not come, `Crash` ends the process at any point.

## 3. The runs

### Properties that hold

| Run | Instance | Shows |
|---|---|---|
| `queue` | 1 employee, 2 senders, 3 rows, batches of 2, 1 fault, 1 crash or quit, APP_STOPPED refused | types; `SuccessIsStored`; `StoredInOrder`; the inductive invariant `IInv`; `EventuallySettled`; `ImplementsDelivery` |
| `idle` | with and without lunch break, two days, gaps of one and two polls, failing statements, restarts, 2 segments | types; `SegmentsDisjoint` (and none shorter than the threshold); `AllowanceFirst`; `ReportsMatchRows`: `ReportedOnce` whatever fails, `ReportedInFull` while nothing does |
| `session` | 2 employees, 1 of whom is asked to log out or gone, the attendance cache, 1 fault | types; `OwnStaysOwn`; `ForceLogoutTakesEffect`; `CachesBecomeOwn` |
| `gate` | 2 employees, one change of facts or of the version offered or failure, update checks at any time | types; `StopsForGood`; `ResumesForGood` |
| `explanation_queue` | 2 employees, one of whom explains, 1 segment of either, 2 rows, batches of 1, withdrawn types, 2 faults, 1 stop | types; `GoneIsSettled`; `SubmittedIsBacked`; `WrittenIsSettled`; `ImplementsHandover` |
| `explanation_list` | 2 employees, 1 segment each, 2 fetches, 1 change, 1 fault | types; `LoadingHasFetch`; `ViewIsServed`; `RefreshConverges` |
| `explanation_types` | 2 employees of 2 companies, 2 types, 2 calls, 1 change, 1 fault | types; `PendingHasCall`; `TypesConverge` |
| `policy` | 2 administrators, one with a row of their own, 1 field, 2 values, 2 saves, 1 login task, 2 versions, 1 fault | types; `PendingHasSave`; `VersionNamesOriginal`; `OnlyTypedIsSent`; `PolicyConverges`; `FormFollows` |
| `lifecycle` | 3 waiting commands, 2 starts, 3 faults | types; `StaysInBackground`; `QuitEnds`; `ShowIsServed`; `LoginViewIsLeft` |

### What the code does not do

Each of these runs checks one statement of a comment or a document, and TLC finds
it violated. The findings in `PROJECT.json` quote both sides.

| Run | Statement | What happens |
|---|---|---|
| `queue_blocked` | lifecycle events are always sent | a batch of rows the server refuses for good blocks the head of the queue |
| `gate_logged_out` | a logout removes all state of the user | a user-info cycle under way stores plan, attendance and result again; the loop tracks with nobody logged in |
| `lifecycle_forced` | force_logout leads to the login view | the session is cleared, the route stays |

### Read in the code and not made a run

Divergences noticed while modelling. The models contain the behaviour unless it
says otherwise. No property of a run asserts that what a document wants here happens,
and none that it does not.

* Queue: the ids a 200 leaves out are neither marked FAILED nor counted
  (`event_sync.rs:7` against line 134); a manual login with the box ticked is
  reported as AUTO_LOGIN_SUCCESS (`user_usecase.rs:170`, left out of the model).
* Idle detection: TS-03 step 3 and TS-06 step 1 of `docs/test_scenarios.md` expect
  IDLE_STARTED in the queue when a segment opens, and TS-03 step 4 expects IDLE_ENDED
  and an `end_time` after the program is run again; the code enqueues both events when
  the segment closes (`idle_detector.rs:388` says so on purpose) and never takes up a
  row a restart left open. `ReportsMatchRows` neither asks for an event of an open row
  nor forbids its start. The theorem `RowsAreFinal` does state what the code does with
  a row left open, against TS-03 step 4: it stays as it is.
  The excess over the allowance is not an open segment until the
  window ends, it is force-closed by the next poll (line 224 against 36-37), and
  the segment after the window may reach back over the closed one, which is why
  `SegmentsDisjoint` speaks of companies without a break; a segment open when the
  work ends covers the time off work (line 155 against `docs/test_scenarios.md:170`);
  only input in the second of two polls closes a segment (line 250 against 10); the
  grace timer runs on through polls the gates skip; a segment opened inside the
  window can start in the future (line 539); the lunch credit
  belongs to the PC, not to the employee, and a restart forgets it (line 81), so a day
  may credit more than the allowance.
* Session: a forced logout hits whoever is logged in when the answer comes
  (`user_info_sync.rs:89` against 85); a 404 is retried (132-135) and a `leave_date` not
  read at all, while `docs/api.md:432`, 453 and 458-460 and TS-13 D step 2
  (`docs/test_scenarios.md:236`) want a logout, so `ForceLogoutTakesEffect` speaks of
  those only whom the server answers `force_logout`; the `leave_date` is not in the
  model; an automatic login that fails late forgets
  the credentials of a manual one (`auth_repository.rs:70`); a login under way
  undoes a logout (`user_usecase.rs:92`).
* Tracking gate: the block of a forced update (`update_check.rs:49`) is lifted by the
  next check_pay_use or policy cycle (`user_info_sync.rs:69`, `policy_sync.rs:49`) and
  set again by the next check, twelve hours later. `docs/api.md:192` ("PC 기록 기능을 즉시
  정지하고 업데이트를 유도한다"), the header of `update_check.rs` (5-6) and TS-09 want it to
  stay. The model has all of this; `ResumesForGood` is only about the time when no
  forced update is outstanding, and no property is about the time when one is. The
  policy's own "no" (`policy_sync.rs:49`) is overwritten by every user-info cycle, while
  `app.rs:67` and 146 say subscription and policy: `StopsForGood` leaves it out.
  `can_track_time` of a user is always true.
* Explanation queue: a permanent refusal deletes the row while the segment stays
  SUBMITTED; a retry goes out in the name of whoever is logged in; the scenario
  TS-07 expects a row marked SUCCESS where the code deletes it; the foreign key on
  `segment_id` makes the submit of a segment known only to the server fail at its
  INSERT, although comments in `explanation_input_view.rs` (94-97, 347-349) say
  otherwise; its comment at 230-231 says there is no retry (`event_sync.rs:167` is
  one); the form keeps a type that is no longer offered (143-165), the server
  refuses it with 400 and the retry deletes the row.
* List: a late list of the user before is shown until the next refresh; a refresh
  that is asked for while one runs is dropped.
* Types: the message of one call may replace that of the next, since the flag is taken
  down before the message is written (`settings_view.rs:1134`); a PATCH always sends
  requires_text (`settings_view.rs:1156` against the
  label at 928); a list answered before a CMS change and stored after its refresh
  hides the change for a cycle; `explanation_type_dto.rs:6-7` and `docs/api.md:484`
  speak of a disk cache there is none of; the documents and the comment at
  `settings_view.rs:802` say authority 5 and above, the code takes 1 and 2 (1032).
* Policy: at equal version numbers the form keeps the values of another company, and
  within one company the effective threshold of the employee it was filled for
  (`settings_view.rs:535`), although the next one's may differ; an edit survives a
  logout and would be sent by the next administrator. `PolicyEditor` has one company,
  its employees with thresholds of their own, and edits that survive logouts; so
  `VersionNamesOriginal` and `FormFollows` name the employee a form was filled for.
* Lifecycle: `native_show_window` looks for another title than the window has; the
  header of `tray.rs` says 2 s, the code 1.5 s; nothing leads to the update and
  disabled views, although the documents show them forced; the "sync now" button
  only logs (`status_view.rs:427`).

### Bounds, and why they are enough

* Queue: two senders are the fewest that overlap; three rows with batches of two
  give a batch that is full, one that is not, overlapping batches, and a row that
  stays behind; one fault and one stop each can fall into any gap of the other
  sender. `MaxRows` is at the same time the code's full disk (`Enqueued`). With one
  employee the run does not tell attribution apart; the proofs cover every number
  of employees and every other size. `Senders` without `Loop` bounds how many
  `flush_now` tasks run at once.
* Idle: with an interval of 2, a threshold of 5 and a grace of 3, opening, waiting
  and closing take different polls, and the threshold is above the grace as in the
  default configuration; the horizon has room for the windows of two days with the
  midnight between them. The allowance is no multiple of the interval, so that the
  last credit is cut off. The proofs cover every other choice.
* Session: two employees are the fewest that can be confused. The attendance is
  the cache that `clear_all` does not empty, that login and loop both load
  and whose answer carries `force_logout`; the others are loaded the same way.
  The fault is a failing request, statement or keyring call at any point. One employee
  who is not valid any more (`MaxEnded`) leaves one whose caches must become their own.
* Gate: three kinds of employees (at work, without the plan, off work with a
  policy that forbids) give every gate a "no"; a minimum version with one part
  more than the build's exercises the comparison at its edge. One trouble is one
  change, publication or failure between any two steps. An update check is no trouble:
  it may repeat a forced answer any number of times, from the first state on.
* Explanation queue: two rows of one segment are the retry and a second submit of
  the same segment; the second employee, who explains nothing (`Authors`), is the wrong
  name a retry may have and the one under whom the events may report the segment, so
  that the form offers the segment of somebody else; two
  faults lose the immediate request and the retry; batches of 1 leave a row for
  the next cycle.
* List, types, policy: two fetches, calls or saves are the fewest whose answers
  can swap; one change at the server between two answers makes the older one
  stale. In the run of the policy a change reaches one of two employees: policies of
  one version then differ, and a save, another administrator's change or the first
  policy can each be the older answer. Refreshes beyond the slots wait for a free one.
* Lifecycle: a command that waits behind two others, a process that is started a
  second time, and one of each kind of trouble.
* `MaxFaults`, `MaxStops`, `MaxTrouble`, `MaxChanges` and `MaxVersion` are also
  what makes faults and changes finite in the liveness properties.
* `CHECK_DEADLOCK FALSE` is set for `lifecycle` and `lifecycle_forced`, which
  really stop when the starts are used up.

### Fairness

Only weak fairness is used.

* `EventQueue`: the minute timer and each sender's own steps, an answered request
  among them. tokio polls a ready task and fires a timer; a request either fails
  or is answered within the 15 s timeout, and failures are finite. Users, faults,
  restarts and late requests have no fairness.
* `Session`: each login, each called logout and each loop. Users, the server's
  decision and the process have none. `Stop` is always possible; a stopped process
  has no session, so the liveness properties do not rely on `Start`.
* `TrackingGate`: the poll, the login task, the two loops and the second store of a
  logout. `UpdateChecked` has none: what it does may come at any time, as often as it
  likes, and no property waits for it.
* `ExplanationQueue`: the callback of the UI thread that has begun, the immediate
  task, the minute loop. Submits, logins, late requests and stops have none;
  `WrittenIsSettled` assumes that somebody stays logged in, which the code needs.
* `ExplanationList`: fetches, frames (egui repaints every second), the login, the
  second half of a logout, the submit task. `RefreshConverges` assumes in its
  premise what is up to the user: pressing "refresh" and no further submits.
* `ExplanationTypes`, `PolicyEditor`: tasks and loops. Calls, saves, edits and
  the drawing of the tab are up to the administrator; `FormFollows` has the drawing
  in its premise.
* `AppLifecycle`: frames, the end of `main`, the forced-exit timer, the login
  tasks. Clicks, hangs and crashes have none; a hung UI thread disables frames,
  which is why `ShowIsServed` and `LoginViewIsLeft` exempt it and `QuitEnds` does
  not.

## 4. What is proved

Everything below is proved for every value of the constants that satisfies the
named `ASSUME`s of the module it is about; those assumptions say that bounds are
natural numbers, that `NoUser` is no employee, and the like (of the lunch window:
that it lies within a day).

| Module | Theorem | Statement |
|---|---|---|
| `EventQueueProofs` | `TypeCorrect`, `Inductive` | `[]TypeOK`, `[]IInv` |
| | `SuccessOnlyWhenStored`, `DeliveryInOrder` | `[]SuccessIsStored`, `[]StoredInOrder` |
| | `Refinement` | `ImplementsDelivery` |
| | `SettledStays`, `StoredForGood`, `RefusedIsNeverSuccess` | `DoneStays`, `AttributionStays`, `[]RefusedStaysUnsent` |
| `IdleDetectorProofs` | `TypeCorrect` | `[]TypeOK` |
| | `NoOverlap`, `LunchFirst`, `ReportsAgree` | `[]SegmentsDisjoint`, `[]AllowanceFirst`, `[]ReportsMatchRows` |
| | `NothingIsRewritten` | `RowsAreFinal`, `LogGrows` |
| | `ReportsInTime`, `LunchIsCutOff` | `[]InTime`, `[]CutOff` |
| with `EventDelivery` | `AbsencesReachServer` | `Spec /\ Queue!Spec => []AbsencesArriveInOrder` |
| `SessionProofs`, of `Session` | `TypeCorrect`, `SessionInvariant` | `[]TypeOK`, `[]IInv` |
| | `ForcedLogoutNeverWaits` | `[]ForcedLogoutIsFree` |
| | `NothingForeignComesIn` | `OwnStaysOwn` |
| of `TrackingGate` | `VersionsAreOrdered` | what `version_lt` leaves incomparable differs in trailing zeros only, and it is transitive |
| | `GateTypeCorrect` | `[]G!TypeOK` |
| | `NoTrackingOnceShut`, `TrackingOnceOpen` | `ShutStaysShut`, `OpenStaysOpen` |
| | `LoggedOutStaysShut` | `LogoutShutsGate`, `NobodyIsTracked` |
| `ExplanationQueueProofs` | `TypeCorrect`, `QueueInvariant` | `[]TypeOK`, `[]QInv` |
| | `NothingIsForgotten`, `MarksAreBacked` | `[]GoneIsSettled`, `[]SubmittedIsBacked` |
| | `Refinement` | `ImplementsHandover` |
| | `RowsAreKept` | `RowsStay` |
| | `OneEmployeePerSegment` | `[]OneEmployeeEach`, `KnownStays` |
| `ExplanationListProofs` | `TypeCorrect`, `LoadingEnds` | `[]TypeOK`, `[]LoadingHasFetch` |
| | `ListStaysRight` | `ShownStaysShown` |
| `ExplanationTypesProofs` | `TypeCorrect`, `TabIsReleased` | `[]TypeOK`, `[]PendingHasCall` |
| | `TypesStayRight` | `CurrentStaysCurrent` |
| `PolicyEditorProofs` | `TypeCorrect`, `SaveIsReleased`, `OnlyWishesAreSent` | `[]TypeOK`, `[]PendingHasSave`, `[]OnlyTypedIsSent` |
| | `VersionsAgree`, `VersionIsEnough` | `[]Agree`, `[]VersionNamesOriginal` |
| | `PolicyStaysRight` | `CopyStays`, `FormStays` |
| `AppLifecycleProofs` | `TypeCorrect`, `InBackground` | `[]TypeOK`, `StaysInBackground` |
| | `QuitHasItsTimer` | `[]QuitIsArmed`, `QuitIsFinal` |
| | `WindowIsNeverLost`, `NeverClosesByItself` | `PutAwayWithinReach`, `ClosesForAReason` |
| | `OpenIsNotLost` | `OpenGetsNearer` |
| | `LoginViewHasItsWays` | `OnlyLogoutLeadsBack`, `OnlyUsersEnter` |

### The event queue

`SuccessIsStored` and `StoredInOrder` are not inductive: what a
reply or a late request does depends on the batch it carries. `IInv` adds what a
batch is worth: below a member of any batch under way, its sender waiting
(`task`) or not (`late`), every row the server would accept is in the batch or
already stored (`IsPrefix`). That holds when the batch is read, because LIMIT
takes a prefix of the unsent rows (`OldestIsPrefix`) and every other row is
SUCCESS and so stored (`PendingBatchIsPrefix`); it stays true because stored
events stay stored and new rows come later. So storing a batch keeps the order
(`BatchStored`), and because acknowledged ids are stored (`AckedAreStored`) marking
them keeps `SuccessIsStored` (`RowsChanged`). mark_failed may take SUCCESS back
from a row, which costs a resend and no more (`MarkFailedShape`). A row is not
eligible again once SUCCESS unless so taken back, which is why two senders cannot
disorder delivery. The refinement uses the same invariant: `StoreDelivers` shows
that handling a prefix is a delivery in order, `EnqueueHappens` that an INSERT is
an event that happens or, with a full disk, a stutter.

Three more facts say what a row can count on. What is stored is stored for one
employee, whoever sends it again (`AttributionStays`); what the server refuses is
never SUCCESS, in whatever batch it travels (`RefusedStaysUnsent`, from
`SuccessIsStored` and the server's filter); and a SUCCESS row that is in nobody's
batch stays SUCCESS (`DoneStays`): a batch is read among the unsent rows only
(`NextBatch`), and only a sender that has the row in its batch can make it FAILED.

### The idle loop

`TypeOK` needs `Parts`: that IdleOpen keeps the last row, which is open, and
remembers its start (`LoopOK`), that rows were opened in the past (`RowsOK`), that
events are about rows (`EventsOK`), and that what `lunch_used_secs` counts has been
credited by the day it is of (`LunchOK`). Every poll is quiet, opens a segment or
closes one (`PollKinds`), and the theorems go by these kinds.

* `SegmentsDisjoint` is not inductive: whether a row that is opened begins after
  the rows before it have ended depends on where they ended. `Ordered` says that
  everything recorded, the start of the grace period included, lies at or before
  the last input. A row begins at the last input (`OpenOrdered`), a grace period
  begins with it too, since the idle time is 0 then (`QuietOrdered`), and a row is
  closed where its grace period began (`CloseOrdered`). That a closed row is as long
  as the threshold needs that the open one has been since its opening poll, which came
  a threshold after the last input: part of `Ordered` too.
* `AllowanceFirst` follows from `LunchOK`: if the credit in `lunch_used_secs` is
  used up, the day has credited the allowance; and no step takes credit from a day
  (`LunchStep`, `PollLunchOK`).
* `ReportsMatchRows` is two statements, each with a stronger invariant. `Reported`
  gives `ReportedOnce` and holds whatever fails: the close appends a start, an end, both
  or neither, about the last row and with the times it has written or tried to write
  (`CloseReported`), and nothing else appends. `Matched`, that the log has whole pairs
  and, as this code goes, an open row has no event yet, gives `ReportedInFull` and holds
  while nothing fails; a close then adds the one pair of the row it closes
  (`CleanClose`, `CloseMatched`).
* `InTime` rests on `Ordered`: an event looks back over the threshold or the grace
  period, but never behind the input the open row began with. With a lunch break it is
  false, for the reason `SegmentsDisjoint` is.
* `CutOff` is about that case: what the opening poll knows of the lunch window is not
  counted (`EffectiveStartCuts`). It says nothing of a window that begins while a
  segment is open; that one ends at the window's next poll.
* `RowsAreFinal` and `LogGrows`: the one row a step closes is the row the running
  loop has open. A row that a crash left open never gets an end it did not have.

`AbsencesReachServer` puts the loop and the queue together. The queue's log has the
loop's events among others, and in the order they were enqueued: `Placed(place)` says
where. Nothing of `EventQueue` is used but the promise `EventDelivery`, which `Refinement`
proves it keeps, and that idle events are of types the server takes. Since the
delivered events that are not refused are closed under "earlier" (`DeliveredInOrder`)
and the order of the log is the order of the reports (`TurnIsOrder`, from `Reported`),
the server never has an event of one absence without what was enqueued of all earlier
ones (`EarlierArrived`), nor an end without its start if both were; while no statement
fails (`PairOfRow`, from `Matched`) it has every earlier absence whole, with the times
of its row. This holds at every moment, so across lost replies, resends and restarts.

### The session

`IInv` is the types with what they rest on: a login or a cycle under way is somebody's
(`LoginsOK`, `PollsOK`), only the user-info loop waits for a logout and then until that
logout is over (`LeavingOK`), the policy loop loads nothing but the policy, and a
process that is off has nothing in memory (`DownIsEmpty`). It gives
`ForcedLogoutIsFree`: a cycle that is told "force_logout" finds no earlier logout of
its own loop under way, so the logout it begins is not dropped. That is what
`ForceLogoutTakesEffect` needs besides its fairness.

`OwnStaysOwn` is the safety half of `CachesBecomeOwn`: once every cache, login and
cycle is about the user of the session or about nobody (`Own`), nothing foreign
comes in until the session changes hands. Without the condition on tasks it is
false: a login and a cycle both store, after an await, for the user they began with.

### The tracking gate

`SessionProofs` instantiates `TrackingGate` as `G`: the employees and the session are
those of `Session`, and the bound on faults stands for the bound on trouble, both any
natural numbers. The types of the server's answers, which `TrackingGate` assumes
(`FactsAssumption`), are a hypothesis of the theorems, `FactsTyped`; that the versions
are sequences of numbers is needed by `VersionsAreOrdered` only, which says so.

* `VersionsAreOrdered`: `version_lt` compares part by part with missing parts as
  zero. By the first part that differs (`FirstDifference`) it is asymmetric and
  transitive, and what it leaves incomparable differs in zeros at the end only: "1.2"
  and "1.2.0" are one version to the update check.
* `ShutStaysShut`: `Shut(e)` says that a "no" of the server has arrived in the flag
  that carries it and that every task that still has to store that flag carries a
  "no" too. No poll passes then, and neither the five writers nor a login of `e`
  can open the gate, in whichever order they store, until user or answer changes.
  It is the half of `StopsForGood` that holds without fairness.
* `OpenStaysOpen` is the same for an open gate and `ResumesForGood`; here all flags
  must have arrived, and the one thing that may still shut the gate is an update
  check that finds the version outdated.
* `LoggedOutStaysShut` is the positive side of the run `gate_logged_out`. A logout
  empties the plan in the step that ends the session (`SessionEnds`), and the plan alone
  keeps the gate shut; only a login and a user-info cycle that has not stored its plan
  yet (`StoresPlan`) write it. So the divergence needs exactly such a cycle: without
  one nobody is tracked, and it stays so through whatever else is under way
  (`NobodyStays`) until somebody begins to log in.

### The explanation queue

`GoneIsSettled` depends on what a sender believes when it deletes a row.
`AnsweredIsSettled` says that a task with an accepted answer, and a retry with any
answer, are about a settled row; it is established where the server answers
(`AnswerSettles`) and kept because the server takes nothing back (`SettledStays`).
`SubmittedIsBacked` needs in addition that marks have rows (`SubmittedHasRow`),
which holds because the INSERT comes first: a row that is there is unsent, or it
is deleted and then settled. The refinement maps the ids given out to `written` and
the deleted ones to `forgotten`; a retry and an immediate request that both delete
a row are one `Forget` and a stutter.

`RowsStay` says that a deleted row is not written again: an UPDATE after the other
sender's DELETE finds no row. `OneEmployeeEach` is about the retry in another
user's session: it needs that the server checks the segment's employee
(`StoredAsKnown`) and does not forget whose it is (`KnownStays`), and holds for late
requests too, since they are judged by the same check.

### The form, the list and the tabs

`VersionNamesOriginal` relates two of many copies. Its invariant `Agree` is about
all of them, cache, answers under way and the form's originals among them: none is
ahead of the server, and two that were worked out for one employee, of one version,
have one value. Of two employees it says nothing: their policies of one version may
differ. It is kept because every copy comes from a copy or from the server, and the
server gives a new version to whatever it changes (`AgreeKept`). `OnlyTypedIsSent`
rests on a refilled form
having no difference (`InitFromIsClean`). `LoadingHasFetch`, `PendingHasSave` and
`PendingHasCall` are inductive given the types: who raises a flag is the task that
will lower it, and no other task lowers it first.

What is right stays right. `RefreshConverges`, `TypesConverge`, `PolicyConverges` and
`FormFollows` say that a copy becomes and remains the server's. That it becomes so
takes fairness; that it remains so is proved, under a condition on what is
still under way: `ShownStaysShown` (no fetch for another employee), `CurrentStaysCurrent`
(no list of before), `CopyStays` (no older policy and no answer for the employee
before), `FormStays` (the form has the version of the copy, then only a reset and the
keyboard touch it, and a change of employee does not). The conditions
cannot be dropped: an answer to an earlier request is stored when it comes, and takes
the copy back until the next one.

### Process and window

`StaysInBackground` is an action property; it follows from the invariant
`ClosingHasNoTray`: a close request is only granted when there is no icon or the
frame drops it for "Quit".

`QuitIsArmed` is inductive given the types: the timer is started by the click that
sends "Quit" (`ClickArms`), a frame takes commands out of the channel and adds none
(`FrameTakes`). With `QuitIsFinal`, that nothing but the end of the process stops the
timer, it is what `QuitEnds` needs besides the fairness of the timer. It
also gives `ClosesForAReason`. `PutAwayWithinReach` says that the program puts the
window away only under an icon that can show it again (`FrameReachable`), and that the
icon of a running process only goes with it; what the user minimizes at the taskbar is
theirs to bring back. `OpenGetsNearer`: every frame brings an "Open" one place forward
(`FrameMovesUp`) and nothing else moves it, and the frame that takes it shows the
window, unless it finds a close request as well: then the window is minimized last,
whether it was shown or away before, and the "Open" is used up. That leaves to
`ShowIsServed`, which excepts such a close request, the fairness of the frames and the
induction over the places. `OnlyLogoutLeadsBack` and `OnlyUsersEnter` are the ways into the
login view and out of it (`WaysOfAFrame`); the first is also why a forced logout
leaves the view it finds (run `lifecycle_forced`).

### What is only model-checked

* Liveness: `EventuallySettled`, `ForceLogoutTakesEffect`, `CachesBecomeOwn`,
  `StopsForGood`, `ResumesForGood`, `WrittenIsSettled`, `ViewIsServed`,
  `RefreshConverges`, `TypesConverge`, `PolicyConverges`, `FormFollows`,
  `QuitEnds`, `ShowIsServed`, `LoginViewIsLeft`. Fairness and ENABLED are beyond
  the prover.
  Of most of them the half that needs no fairness is proved, see above.

## 5. Not modelled, and why

* Two instances on one PC (`single_instance` may fail open): the models have one
  process.
* The attribution of an event to the user of the session at send time: a row has
  no employee in the code, so the queue cannot be wrong about it, only the order of
  logout and send can (hazard `event_sync.rs:72`).
* `lunch::classify` and `monitor::policy::resolve`: no caller outside tests.
* Session watchdog: a stub. Views, toasts, DTOs, API client and mock,
  configuration, device id: no state that a property here depends on; the client's
  calls are mapped where an answer is modelled. Database and migrations: every
  repository call is one atomic step; what is assumed of the server is in
  `EventQueue` and `ExplanationQueue`.
* Texts and validation of the explanation form, filters and counts of the list,
  ranges of policy fields: data that no property tells apart.
* Time zones: `IdleDetector` has one company offset; a change of the offset by a
  new policy is not modelled. Nor is the wrap of `GetTickCount`.
* The rendezvous of modules: each models the parts of a login or a logout that its
  own state depends on, cut at the same awaits. No module composes all of them;
  their product is beyond TLC, and the interactions that matter (a cycle across a
  logout, a list across a login, a retry across a change of user) are inside the
  modules. The idle loop and the queue meet in a theorem, `AbsencesReachServer`: that
  an event of the loop is enqueued in the queue is the hypothesis `Placed` there, no
  step of a joint model.

## 6. What is left

The plan of the models is carried out, and every invariant and action property the
runs check is proved, as is the half of the liveness properties that needs no
fairness where it could be stated. Worth doing next: a joint model in which the loop's
enqueue and its queue entry are one step; a composition of `Session` and `EventQueue`
that records the author of each event; the update of the company offset in the
middle of a day.
