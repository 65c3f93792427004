# RAKSHAK in TLA+

RAKSHAK finds stolen vehicles: citizens file complaints, officers turn them into
hotlist rows, phones carry the encrypted hotlist and report the plates they
recognise, and a dashboard shows what was seen. This directory holds TLA+ models
of the program, the TLC runs that check them, and TLAPS proofs of the theorems
that matter most. Paths are relative to `src/rakshak/`; `PROJECT_INFO.md` is
`src/docs/PROJECT_INFO.md`.

## 1. Inventory

| Component | State it keeps | Operations | Hard behaviour |
|---|---|---|---|
| Complaints and hotlist lifecycle (`backend/app/api/complaints.py`, `api/hotlist.py`, `services/verification.py`, `services/scheduler.py`, `models/*`) | `complaints.status`; `hotlist` rows: status, FIR deadline, cooldown, FIR reference | file, approve, reject, submit FIR, PUT, DELETE, five-minute expiry job | every writer loads, decides on the copy and commits later, without a lock; the job races the officers |
| Audit log (`services/audit.py`) | `audit_logs` | a row after every officer's write | second commit; lost by a crash in between |
| Sighting ingestion (`api/sightings.py`, `services/dedup.py`, `services/storage.py`) | `sightings`, last-seen columns, Redis throttle keys, photo files | POST of a batch of events | Redis and files are outside the transaction; events arrive late and out of order; the row may close in between |
| Hit delivery (`mobile/src/services/queue.ts`, the simulator's queue in `scripts/device_simulator.py`) | rows of an offline queue, retry counts | enqueue, submit, flush | lost answers, retries, at-least-once against a throttle that is set before the write |
| Scanner (`mobile/src/screens/Scanner.tsx`, `mobile/src/ai/*`) | votes per plate, its copy of the hotlist, times of location updates | frame, detection, match, hit, location update, sign-out | awaits between reading a ref and using it; a copy that the screen refreshes only when it renders a new version |
| Hotlist sync (`api/hotlist.py` sync, `mobile/src/services/hotlist.ts`, `crypto.ts`) | version, cached list, device key | sync every 15 minutes, decrypt, wipe on a 401 | two queries, a version that can go back, a wipe that races a sync |
| Devices (`api/devices.py`, `deps.py`, `mobile/src/services/device.ts`) | `devices`: token, revoked flag; the phone's token and key | register, revoke, authenticate, sign out | token and key are separate writes; revocation races a request |
| Accounts (`api/auth.py`, `security.py`, `deps.py`, `api/admin.py`, `mobile/src/services/api.ts`, `mobile/src/store/auth.ts`) | `users`, tokens in two modules of the app and in its secure store | register, login, refresh, restore, change role | refreshes that overlap; tokens written one after the other |
| Rate limits (`api/complaints.py`) | Redis counters | compare, increment | a calendar day in the key, a lifetime that starts anew |
| Retention (`services/scheduler.py` purge) | all tables, photo files | nightly purge in one transaction | foreign keys, files removed before the commit |
| Dashboard feed (`api/ws.py`, `services/notifier.py`, `dashboard/src/lib/ws.ts`, `lib/api.ts`, `lib/auth.tsx`) | list of sockets, events in flight; socket, timers, tokens of the client | connect, broadcast, disconnect, reconnect | the list is iterated across awaits; callbacks of replaced sockets |
| Plate normalisation (`services/normalizer.py`, `mobile/src/ai/match.ts`, the simulator's copy) | none | OCR corrections by position | three implementations that must agree |
| Analytics, detection, pages, deployment (`api/analytics.py`, `api/detect.py`, `dashboard/src/pages`, scripts) | none of their own | read-only queries, rendering | none that a state machine shows |

### How the parts interact

- An officer's approval of a complaint creates a hotlist row; the expiry job,
  PUT, DELETE and the citizen's FIR write the same row from other threads. Each
  of them announces the change to the dashboards (`notifier.schedule`) and most
  append to `audit_logs` in a second commit.
- Phones register as devices, fetch the active rows encrypted (`GET
  /hotlist/sync`), send frames to the detect endpoint, match what it read against
  their copy of the list, queue a hit in SQLite and post it (`POST /sightings`).
  The simulator does the same from a video file.
- The ingest endpoint matches again, asks Redis whether the device has reported
  the plate lately, writes a photo, a sighting and the row's last-seen columns,
  and broadcasts the sighting to the dashboards' sockets.
- Retention deletes old sightings, rows, complaints and photos every night.
- Everything on the server runs in one process: an event loop (ingest, filing a
  complaint, WebSockets, broadcasts), a pool of worker threads (the synchronous
  endpoints) and the thread of APScheduler. The database is at READ COMMITTED
  and nothing takes a row lock. The phone is one JavaScript thread that switches
  at awaits.

### What makes each component correct

| Component | Properties |
|---|---|
| Lifecycle | a row expires only after its deadline, and no overdue row is overlooked; it waits for its FIR once; decisions and rows agree; status changes follow `LEGAL_TRANSITIONS`; overdue rows do not stay |
| Audit log | a row only for a committed write; one for every write unless something failed |
| Ingestion | throttle window; clusters; last seen; a file for every sighting; no trace of a plate that is not listed; every sighting announced |
| Delivery | an answer settles the row it belongs to; no hit of a phone stored twice; no hit lost; queues drain while something flushes them, and nothing is left without a failure |
| Feed | one copy to every listed socket; the list mirrors the sockets; a logged-in dashboard keeps trying |
| Sync, devices | the phone's list is the server's of one moment; a revoked device gets nothing; dropping a payload costs nothing new; key, token and list belong together |
| Scanner | only plates that have been listed leave the phone; a match is queued; the copy is the list; a plate is spelled in one way |
| Retention | nothing overdue survives a purge; files and rows go together; what can block a purge |
| Accounts | a session holds the tokens of one user; refreshes do not cost a session its tokens |
| Rate limits | no more than the limit in a day |
| Normalisation | applied again it changes nothing; the copies agree on every plate |

## 2. Modules

| Module | Models | Extends / instantiates |
|---|---|---|
| `HotlistLifecycle` | complaints, hotlist rows, their writers, the expiry job, the audit row | `HotlistPromise`, `HotlistView` (refinements) |
| `HotlistPromise` | what the rows promise: listed once, settled for good | |
| `HotlistView` | what a reader of the hotlist may rely on: rows are inserted once, active, and then match or do not match | |
| `SightingIngest` | the ingest endpoint with Redis, photos, database, broadcast | instantiates `HotlistView` (its surroundings) |
| `HitDelivery` | phone and simulator queues, the network, device authentication, composed with the endpoint | extends `SightingIngest`, instantiates `HitPromise` (refinement) |
| `HitPromise` | what the delivery path promises of a hit: kept until answered, stored when accepted, a phone's once | |
| `DashboardFeed` | list of sockets, broadcasts, and the client that reconnects | |
| `HotlistSync` | the sync endpoint, the device registry, the phone's cache, token and key | |
| `PlateNormaliser` | the corrections of the server, the phone and the simulator | |
| `Scanner` | frames, votes, hits and location updates over a list that changes | extends `HotlistSync` and `PlateNormaliser` |
| `Retention` | the nightly purge against what goes on by day | |
| `ComplaintLimits` | the counters that limit complaints | |
| `Accounts` | accounts, roles, the session of the phone | extends `ComplaintLimits` |
| `HotlistLifecycleProofs`, `SightingIngestProofs`, `HitDeliveryProofs`, `DashboardFeedProofs`, `HotlistSyncProofs`, `ScannerProofs` (and `PlateNormaliser`), `RetentionProofs`, `AccountsProofs` (and `ComplaintLimits`) | theorems | extend the modules they are about |
| `MC*` | the sets of model values of the runs | extend the module they instantiate |

An operator whose comment starts with "Mutant" is a deliberately wrong variant
of the definition after it, and no specification uses it. Every property of a
passing run has such a variant that TLC finds to violate it; `PROJECT.json`
names the pairs.

### HotlistLifecycle

| In the code | In the model |
|---|---|
| `complaints.status`, columns of `hotlist` | `complaint`, `hotlist` (a record of status, complaint, deadline, cooldown, FIR) |
| a synchronous endpoint on a worker thread with its session | `request[t]`: the operation, how far it is, and what its load saw |
| `verify_complaint` with APPROVE or REJECT | `verify_load`, then `approve_commit` / `reject_commit` |
| `submit_fir` | `fir_load`, `fir_find`, `fir_commit` |
| PUT and DELETE `/hotlist/{id}` | `update_load` / `delete_load`, then `entry_commit` |
| SQLAlchemy writes the columns that differ from the load | `Flushed`, a no-op for a status that did not change |
| `log_action` in its own commit | `write_audit_log` |
| `expire_unconfirmed_entries` | `find_expired_entries`, `expire_commit` |
| an exception, a rollback, a crash | `request_fails`, `job_fails`, `crash` |

The load and the commit are separate actions because nothing locks the row and
READ COMMITTED lets another commit in between. Times are the wall clock in
units of the deadline: `FirDeadline = 1`, `CooldownTime = 1`. `ViewOf` is the
table as `_find_active_hotlist` of the ingest endpoint sees it.

### SightingIngest

| In the code | In the model |
|---|---|
| the batch in `_process_event_batch` | `current`: events to do, results so far, the stage of the event at hand |
| the tolerance of `_resolve_captured_at` | `resolve_captured_at` |
| `_find_active_hotlist` | `find_active_hotlist`: any active row of the plate, or the event is dropped |
| `check_throttle` (a Redis pipeline) | `throttle`, the time at which a key expires |
| `assign_cluster`, `storage.put` | `store_photo`: the cluster of the newest capture in the window or a new one, then the next file number |
| the transaction of `_persist_sighting` | `persist_sighting` |
| `push_new_sighting` for the accepted ones, the answer | `respond` |
| an exception in the middle, the end of the process | `ingest_aborts`: Redis, files and committed events stay |
| the writers of the hotlist, at any step | `list_row`, `change_rows`: the steps of `HotlistView` |
| the clock | `Tick` |

`async def` without an await inside the batch keeps batches from overlapping;
hotlist commits of other threads still come between any two steps. Which commits
is said by `HotlistView`: rows are inserted once, the expiry job changes several
in one transaction, and a row that has expired may match again, because a PUT
can be committed from an older load. `HotlistLifecycle` is proved to do no more
than that (`ViewProvided`), so the two modules fit together without a composed
model that neither TLC nor a reader could take in. Devices send
what they like, late, twice, out of order, with a clock that is ahead. The
throttle (30 s), the window (90 s) and the tolerance (600 s) are scaled to 2.

### HitDelivery

`raise_hit` is the phone's enqueue and single post; `queue_hit` is the row of a
location update, which only enters the queue, and the simulator's row;
`flush_queue`, `send_hit` and `take_reply` are the simulator's flush, one request
at a time, oldest first; `give_up` is the client's timeout or a network error,
after which the request may still reach the server.

A simulator flushes only while it plays its video (`playing`). `run_simulation`
starts it, or starts it again: the queue is in a file and outlives the process.
`end_video` is the end of the loop of `run_simulation` in the code, which comes
after one pass of the video unless `--loop` was given (`run_demo.sh` does not
give it), with its last flush: what is in `pass` is still posted, and what that
flush does not get rid of stays. The model does not know the option; any end of
the video may be the last. `interrupt` is Ctrl+C, an exception or a video that
cannot be opened again: no last flush, and a request under way may still arrive,
or may have been served without the row being deleted.

`get_current_device` refuses a revoked device before the batch begins and not
after. `Post` numbers requests so that a late
one and its retry are different. The endpoint's own steps are those of
`SightingIngest`, with the batch that a request carries.

`HitPromise` has three variables and three actions: the hits that devices hold,
those they deleted with the answer, the table; `Capture`, `Store`, `Settle`.
The mapping reads the first from the queues (`HitsKept`) and the last from the
sightings (`HitsStored`); requests, retries, time, Redis and the stages of a
batch are hidden. `KeepsPromise` says that `HitDelivery` refines it.

### DashboardFeed

| In the code | In the model |
|---|---|
| `manager._connections` | `connections`, a sequence |
| `dashboard_websocket` | `handler[s]`: `accept`, `list` (the append after the awaited accept), `disconnect` (the finally) |
| `broadcast` | `begin`, one `send` per turn of the loop with its index into the live list, `end` removes those that raised |
| `schedule`, `push_*` | `push` |
| `_socket`, `_intentionalClose`, `_retryTimer`, timers of setTimeout | `socket`, `intentional`, `retryTimer`, `pending` |
| `readyState` | `phase[s]` |
| the effect of `WsManager` | `mount`, `remount`, `unmount`, one per change of the user |
| tokens in the module, `attemptRefresh` | `token`, `refreshing`, `refreshed` (the component is not told) |
| `onopen`, `onclose`, `onerror`, the timer's callback | actions of these names and `fire`; `closed_by_server` is a close without an `onerror` |

No page calls `logout`; another user's login is what ends a session. A socket
opened with a token without the role is refused, so it is broken from the
start. The role is looked at when a socket connects and not again.
`refreshFailed` is history and guards nothing.

### HotlistSync

| In the code | In the model |
|---|---|
| `hotlist.status`, `updated_at` in whole seconds | `row`, `now` |
| `devices` | `device`: none, valid, revoked |
| `get_current_device`, `collect_active_plates` | `collect_active_plates`: the check and the first query |
| `compute_version`, the answer | `answer_sync`: the second query |
| `syncHotlist`, await by await | `sync[s]`: `start_sync`, `receive_payload`, `decrypted`, or `receive_refusal` and `clear_device_key` |
| the module's cache and its version | `cache`; `read_at` is history |
| token and key in the secure store, `deviceTokenRef` | `token`, `key`, `deviceToken` |
| `registerDevice`, `ensureDeviceRegistered` | `start_registration`, `store_token`, `store_key` |
| `handleRevocation`, `clearDevice` | `start_clearing`, `clear_key`, `clear_token`, `end_clearing` |
| an error of a request, the end of the app | `sync_fails`, `registration_fails`, `restart` |

The ciphers are functions without state: a payload opens with the key of the
device it was made for and with no other. `SendsToken` says whether the request
carries `X-Device-Token`. The app sends only the user's JWT on `/hotlist/sync`
and `/detect` (`apiRequest` adds no other header), so as the code stands every
sync is refused; `SendsToken = TRUE` is what `docs/API.md:151` asks of a client,
and lets the rest of the path be checked. `overlapped` is history.

A writer stamps `updated_at` and commits later: `write_row` makes a row visible
with a stamp up to `MaxLag` old. `change_row` writes what a PUT, DELETE, the
expiry job, the FIR or a sighting may write, with a row that was closed becoming
active again (a PUT from an older load).

### Scanner and PlateNormaliser

| In the code | In the model |
|---|---|
| `processFrame` and its awaits | `frame`: detecting, handling a plate, matched, resending |
| the detect endpoint | `detected` (a choice of views), `nothing_detected` (a refusal, too) |
| `trackerVotes` | `reads`, `confirmed`, `matched` |
| `hotlistRef`, `hotlistVersion` and the effect between them | `copy`, `shown`, `Render` |
| `handleDetection` up to its first await | `handle_detection` |
| `raiseHit`, `deliverHit` | `raise_hit` |
| location updates, `lastResendAt` | `enqueue_location_update`, `resentAt` |
| the catch around a frame | `frame_fails` |
| opening the screen, the end of `handleRevocation`, the end of the app | `mount`, `sign_out_end`, `app_restart` |

The window of a plate holds only reads of that plate, so a vote is a count. A
plate is normalised by the detect endpoint, by the phone when the answer comes,
by `handleDetection`, by `isPlateHotlisted` and by the server once more; each of
these is in the model. `PlateNormaliser` is the corrections by position over
character classes. The classes differ: Python's `isalpha` and `isdigit` accept
characters that the phone's regular expressions do not.

### Retention

The foreign keys are checked at each DELETE (`ComplaintsBlocked`,
`RowsBlocked`); one violation raises, and the transaction is rolled back
(`purge_aborts`). What a step selected and has not committed is in `job`.
`delete_photo_safely` removes a file outside of the transaction. By day,
complaints are filed and decided (twice, when two officers race), rows expire
(the only thing that sets a cooldown) or are closed, and sightings arrive with a
capture time within `Tolerance` of the clock. Whoever loaded a row active earlier
on the same day may still expire it, report a sighting of it or make it active
again (`ActiveWhenLoaded`, `reopen`); a reopened row keeps its old cooldown. A
complaint and its row share an id.

### Accounts and ComplaintLimits

| In the code | In the model |
|---|---|
| `users.role`; JWTs, which are recorded nowhere | `role`; records of a user and an expiry |
| the access token of `services/api.ts`, of `store/auth.ts`, the secure store | `api`, `shown`, `stored` |
| `apiRequest` and `attemptRefresh`, await by await | `api_request`, `answer`, `get_refresh_token`, `refresh` or `refresh_fails`, `set_refresh_token` or `clear_refresh_token`, `retry` |
| `setTokens`, `restoreTokens`, `clearTokens` | `set_access`, `set_refresh`; `restore_tokens`, `clear_tokens` |
| the login form, with the right and the wrong password | `log_in`, `login_refused` |
| the check and the increment of a user's and an address's counter | `enforce`, one step |

`create_complaint` is a coroutine with a synchronous Redis client and no await
between the check and the increment, so nothing comes in between. The form sends
one login at a time. A registration with an email that is taken is stopped by
the unique index and changes nothing.


## 3. Runs

| Run | Question | Result |
|---|---|---|
| `lifecycle_safety` | Do overlapping writers, the job and failures keep the rows' rules, and does the job take the overdue rows and no others? `TypeOK`, `ExpiryIsExact`, `DecisionMatchesRows`, `IllegalOnlyWhenStale`, `ImplementsPromise` | holds |
| `lifecycle_live` | Does every overdue row settle and every write get its audit row? `OverdueIsResolved`, `AuditedUnlessFailure` | holds |
| `ingest_safety` | Are throttle, clusters, files, privacy and announcements right? `TypeOK`, `ThrottleHolds`, `ClustersAreChains`, `ExactInOrder`, `PhotosAccountedFor`, `NoTraceOfOthers`, `PushedUnlessFailure` | holds |
| `delivery_safety` | Do answers match rows over a bad network, is anything lost or stored twice while the server works, what does a simulator leave behind? `DeliveryTypeOK`, `KeepsPromise` (refinement of `HitPromise`), `LeftOverOnlyByFailure`, `NoLoss` | holds |
| `delivery_drain_live` | Does the queue of a simulator drain while it plays its video? `SimulatorDrains` | holds |
| `feed_safety` | Who gets a broadcast, does the list mirror the sockets, when does the client stop trying? `TypeOK`, `SentOnce`, `MissedOnlyWhenSomeoneLeft`, `ListMatchesSockets`, `StrandedOnlyByRefresh` | holds |
| `sync_safety` | Is the phone's list a list the server had, does a revoked device get nothing, does a dropped payload cost nothing new, do key, token and list belong together? `ListExactAsRead`, `RevokedGetsNothing`, `NothingNewIsDropped`, `SecretsAgree` | holds |
| `phone_safety` | Which plates leave the phone when the list changes between two frames, or between two awaits of one? `TypeOK`, `CopyIsTheList`, `OnlyListedIsSent`, `MatchIsQueued`, `PlateStaysTheSame` | holds |
| `retention_safety` | What does a committed purge leave, where do files end up, and what can block a purge? `TypeOK`, `NothingOverdueAfterPurge`, `PhotosFollowRows`, `BlockedOnlyAfterAGap` | holds |
| `accounts_safety` | Whose tokens does a session hold, when is it stranded, how many complaints pass? `OneUserPerSession`, `StrandedOnlyByFailure`, `AtMostTwiceADay` | holds |
| `loss_after_500` | "5xx response keeps the hit queued (no loss)" (`docs/VERIFICATION_LOG.md:335`): `NoLoss` with a failing server | violated |
| `sync_without_token` | a 401 of the sync means that the device was revoked (`mobile/src/services/hotlist.ts:132`): `RefusedOnlyWhenRevoked` with the requests the app sends | violated |

### Findings

1. *A hit lost after a 500.* The throttle key is set before the sighting is
   stored; the retry is answered "throttled" and the client deletes the row
   (`loss_after_500`).
2. *Every sync is refused.* `syncHotlist` and the scanner's detect call go
   through `apiRequest`, which sends the user's JWT and no `X-Device-Token`;
   `get_current_device` answers 401. The client takes that for a revocation,
   wipes its list and forgets its key (`sync_without_token`). With the token
   sent (`sync_safety`, `phone_safety`) the rest of the path keeps its properties.

### Claims that the code does not keep

The modules state these as definitions too. No run is kept for each: a passing
property says exactly how far the claim is wrong.

| Definition | Claim | What holds instead |
|---|---|---|
| `ConfirmedNeverExpires` | the "scheduler no longer expires" a confirmed row (`PROJECT_INFO.md:137`); it does when it read the row before the officer confirmed it | `IllegalOnlyWhenStale` |
| `DecidedOnce` | 409 for a complaint that is no longer pending (`complaints.py:491`); two officers who both loaded it pending both succeed | `DecisionMatchesRows` |
| `CloseSharesCluster` | "Sightings within 90 seconds for the same hotlist entry are clustered" (`models/sighting.py:5`); not if the middle one of three arrives last | `ExactInOrder`, `ClustersAreChains` |
| `PhoneDrains` | "hits queued in local SQLite, flushed on reconnect" (`PROJECT_INFO.md:24`); `flushQueue` has no caller | nothing for the phone; a simulator gets every row answered while it plays (`SimulatorDrains`) and leaves one behind at its end only after a failure (`LeftOverOnlyByFailure`) |
| `AlwaysReconnects` | "automatically reconnects on disconnect with exponential backoff" (`dashboard/src/lib/ws.ts:6`); not after a refresh that failed | `StrandedOnlyByRefresh` |

### What else the models show

Each of these is a behaviour of the models, reached without a violated property,
that the properties had to allow for.

- *Sync.* A row that is committed after its stamp, and after a sync has read the
  plates, may be stamped no later than the version which that sync brings: the
  phone then has a list without the row and a version that the row does not
  exceed, and drops every payload until another row is written.
  `NothingNewIsDropped` and `ListExactAsRead` say how far: rows stamped at most
  `MaxLag` before the read, or no later than the version. Closing the newest row lowers the version, so the phone drops the list
  without it: "devices drop on next sync" (`PROJECT_INFO.md:143`) holds only
  once another row is written (`NothingNewIsDropped` speaks of active rows for
  that reason). A sync that is decrypting while the device is wiped fills the
  list again, and two syncs at a time can move the version back; both need calls
  that overlap (`SecretsAgree` excludes them by `overlapped`, `ListExactAsRead`
  does not need to). `PROJECT_INFO.md:146` has the client wipe its queue on
  revocation as well; no code does.
- *Scanner.* A screen that is opened on a list which is wiped before its first
  frame keeps its copy (`CopyIsTheList` leaves that case out). A plate whose
  vote was decided while it was not on the list is never queued when it is
  listed later. A decided plate that is on no list is queued as a location
  update all the same, with its photo and place, and would be sent by the flush
  that nothing calls. A match is queued whatever the list says by the time the frame
  goes on, so `OnlyListedIsSent` says "has been listed".
- *Retention.* A row that expires while an officer confirms it keeps its
  cooldown and is active. It collects sightings for as long as it is used; when
  it is closed more than 187 days after that expiry it is due at once, its
  sightings of the last 90 days block the purge, and because sightings are
  deleted in the same transaction after the rows, every purge from then on
  (`Reopened` in `BlockedOnlyAfterAGap`). Rows are deleted before sightings, so a row with sightings in its
  last days blocks the transaction. In the code's numbers, that needs some 97
  days without a committed purge (180 + 7 - 90 less the tolerance), and from
  then on every purge fails. A complaint that two officers approved and rejected
  at the same time blocks it, too, from its thirtieth day
  (`BlockedOnlyAfterAGap`). A row closed by PUT or DELETE gets no cooldown and
  is never purged. Rejected complaints are counted from their creation, not from
  their rejection.
- *Accounts.* `services/api.ts` starts without a token, so the first calls of
  every session are refused and refresh, several at a time. The refresh that
  fails erases the tokens that another one has just stored, and the session is
  stranded until it is restarted (`StrandedOnlyByFailure`). `restoreTokens`
  looks only at the stored access token, which a refresh does not renew: a
  restart after its lifetime ends the session. A kill between two writes can
  leave the tokens of two users in the store; `OneUserPerSession` says when the
  tokens do not mix.
- *Limits.* "3 per 24 hours" is 3 per calendar day: up to twice that within any
  24 hours (`AtMostTwiceADay`). An attempt that the address's counter refuses
  uses up the user's.

### Bounds

Every counter that the program does not bound is a constant named `Max...` that
guards the action that would increase it; the theorems of section 5 hold for
every value of them.

- *Lifecycle*: one complaint, two rows (two approvals can race), two threads and
  the job (every race found is between two writers), four requests, one failure,
  three ticks, so that a deadline and a cooldown pass with time left.
  A filing is not counted as a request. The liveness run has one row and three
  requests: an approval, and two that race the job and each other.
- *Ingest*: two devices, two rows of the same plate, three events (a window, its
  end, and a late one between them), batches of two, one failure; four ticks is
  twice every duration, so keys expire and are set again.
- *Delivery*: a phone and a simulator, two hits, one problem (a network error, a
  timeout or an interruption), six events at the server, three ticks (a key set
  at the first expires within them). A hit, its late first request and its retry
  fit, before or after a new start of the simulator. Ends and starts of the
  simulator are not bounded. The drain run has the simulator alone, with one
  failure of the server and one problem.
- *Feed*: three sockets of which the dashboard and others open any, so one can
  leave while a broadcast waits for the second and the third is skipped; two
  logins, one refresh, one lost connection.
  One event is enough for every way a list can change under its iterator; that
  broadcasts also change it for one another can be seen with two events, one
  login and no refresh (20 million states, and it holds), which is too long for
  a run of every day.
- *Sync*: a lag of one second between stamp and commit (none in the phone run);
  two rows (the version is the maximum over one that is closed and one
  that stays), three seconds (a list, a change, and a change in the second of
  the read), two devices (a revoked one and its successor), one restart. The second
  device is followed while the app has not been killed and the clock is below its
  bound (`SecondDeviceBound`), and states that differ in `deviceToken` only, which no
  action but its own and no property of this run reads, count as one
  (`ApartFromDeviceToken`). A sync,
  a registration and a sign-out are under way at the same time; two syncs that
  overlap are covered by the proofs, which hold for any number.
- *Phone*: one row, one device, two seconds, two frames, one frame that fails,
  one restart; a frame that failed is followed while the app has not been killed and the
  phone's functions have not overlapped (`FailedFrameBound`);
  a window and a threshold of two, so a vote needs two reads. A
  frame sees a misread form of the listed plate, or that form twice around a
  part of it. The list changes, empties and comes back within that.
- *Retention*: one complaint with its row and two sightings; the retentions keep
  their order (1 and 2 days for complaints and rows, 1 for sightings, 3 for the
  log); six days, so that a purge can be missed and the next one is blocked, and a
  row can be reopened, closed and due with its sightings. `WhatMatters` leaves
  out the days of complaints that nobody can decide any more and the day on
  which a row without a cooldown was closed, which nothing reads.
- *Accounts*: two users, two calls, lifetimes of one and two, a day of two
  ticks, limits of one, two logins, two restarts, one network error.

`CHECK_DEADLOCK FALSE` is in every cfg because the clock, the requests, events
or sockets run out, and a system that received nothing more is allowed to stop.
The safety runs use symmetry over ids where the module treats them alike; the
liveness runs do not.

## 4. Fairness

- `lifecycle_live`: weak fairness of the expiry job's two steps (APScheduler
  starts it every five minutes in its own thread) and of every step of a request
  after its first (a worker thread runs on). None for people: nobody has to
  file, decide or confirm. None for failures. The clock is unfair: an overdue
  row is overdue already.
- `delivery_drain_live`: weak fairness, per device, of `flush_queue \/ end_video`,
  of posting and of reading an answer; of taking up, serving and finishing a
  request on the server. The disjunction is what the loop of the simulator gives:
  it flushes every few seconds between frames, or its video comes to an end, and
  nothing says which. With `--loop` it is the first for ever (an end that never
  comes is one of the behaviours), so `SimulatorDrains` then says that every row
  is answered; without it, that a row is answered or the run ends, last flush
  included, with the row left for the next one. That a next run comes is not
  assumed, nor that an interruption does not. What the last flush leaves is for
  `LeftOverOnlyByFailure`, which needs no fairness. The phone has no loop of its
  own, so nothing could be assumed of it after its one post.
- Everything else is a safety property and needs none. In particular no liveness
  is claimed for the phone's sync (its requests are refused) or for the purge
  (it can be blocked for good).

## 5. Proofs

`tlapm` checks eight modules. Each proves an inductive invariant and draws the
theorems from it. Nothing is assumed beyond the named assumptions of the
constants (ids differ from `None`, durations and bounds are naturals, the
throttle's time is positive, `None` is no request, the character classes are
disjoint where the code makes them so), which TLC evaluates in every run of the module.

**HotlistLifecycleProofs.** The invariants are not inductive by themselves,
because a commit acts on what an earlier load saw. `IInv` adds `RowInv` (a row
has a status that some writer produces and a decided complaint), `RequestInv`
(what a request in flight remembers: its number, its row, that it never means to
write ACTIVE_UNCONFIRMED where it did not read it) and `JobInv` (every row of
the job's batch had passed its deadline when the job read it; deadlines never
move, so that stays true until the commit). For the other half of
`ExpiryIsExact`, that the batch misses nothing, `JobSteps` and `WaitingStays`
say that a row which waits for its FIR after a step waited with the same
deadline before it or was listed by it, with a deadline still to come, so an
overdue one cannot appear while the job runs.
Proved: `TypeCorrect`, `ExpiryExact`, `ExpiryCatchesAll` (a commit of the job
leaves nothing that was overdue when it read), `DecisionsMatchRows`,
`AuditNeverRunsAhead`, `AuditSurvives` (the safety half of
`AuditedUnlessFailure`), `OnlyStaleWritersBreakTheMachine` (an action property)
and `PromiseKept`, the refinement of `HotlistPromise`: every step maps to a step
that lists a row, one that settles a set of rows, or a stutter. `ViewProvided`
refines `HotlistView` the same way (`PromiseWithinView` does the part of the
rows that wait), and discharges what `SightingIngest` and `HitDelivery` assume of
their surroundings.

**SightingIngestProofs.** `BatchInv` says what the stage of the batch implies
about the event at hand. `KeysInv` and `LetThrough` relate the keys to the
sightings already stored and to the one about to be: a key outlives the window
of everything it let through, also when the write failed. `FileInv` and
`AssignedInv` hold between the choice of a cluster and the commit, and carry
file numbers, chains and the exactness of in-order rows across it.
Proved: `TypeCorrect`, `ThrottleIsRespected`, `ClustersWellFormed`,
`OrderedArrivalsAreExact`, `FilesMatchRows`, `ZeroRetention`,
`AnnouncedUnlessFailure`.

**HitDeliveryProofs.** `DeliveryImplementsIngest`: with requests that carry
well-formed events (`RequestInv`), every step of clients, network and server
together is a step of the endpoint's specification or leaves it alone. The
endpoint's theorems therefore hold of the whole path; `ThrottleHoldsEndToEnd` is
the one that matters most.
The rest follows a hit from the device to the table. `DeliveryIInv` ties every
row, request, verdict and sighting to a captured hit (`CaptureInv`), says that a
request is in one place (`NetInv`), that the batch in progress is the event of
the request served or its one result (`ServeInv`), and that every answer on its
way or taken is true of the table (`VerdictInv`). Two parts make the two ends
meet. `PhoneInv`: a phone has one request per hit under way and none for a hit
that is stored, so a late one finds nothing to repeat. `KeyHeld`: without a
failure a key in Redis belongs to a stored sighting or to the event about to be
stored; a failure between key and commit leaves a key that stands for nothing,
which is why `ThrottledIsCovered` says `failures = 0` and why `loss_after_500`
is violated. `LeftInv` keeps the reason of a call that ended without a 200: a
refused device is revoked, a failed answer follows a failure, a call given up
counts as a problem. With it a row that the last flush did not delete has its
explanation (`LeftOversExplained`). Proved besides: `DeliveryTypeCorrect`,
`AcceptedMeansStored`.
`DeliveryKeepsPromise` is the refinement of `HitPromise`: an enqueue maps to
`Capture`, a commit of the endpoint to `Store`, a deletion to `Settle`, all else
to a stutter. It needs `KeptInv` (a captured hit waits or was answered) and that
the row of a call stays in its queue until the call has an answer (`CallInv`).

**DashboardFeedProofs.** A broadcast walks by index through a list that changes
under it. `SendInv` splits the sockets of its start into those sent to, those
that raised and those still in front of the iterator (`ToCome`): sent ones are
never in front of it (`NobodyIsSentTwice`), and without a departure the three
parts hold everyone (`OnlyDeparturesSkip`). Removing sockets renumbers the list
by an increasing enumeration of what is kept, which cannot move a socket from
behind the iterator to in front of it (`IncreasingRunsAhead`). `HandlerInv`
says that a socket leaves the list only when its connection is over
(`ListIsRight`), and `ClientInv` that the effect of the police page always
leaves a socket, and a token unless a refresh has failed (`OnlyRefreshStrands`).
Also `FeedTypeCorrect`.

**HotlistSyncProofs.** A list is judged when it is in the cache, but what makes
it right happened earlier, in two queries. `ReadInv` carries both facts along
the call: the plates are exact for rows stamped more than `MaxLag` before the
first query, whose commits that query must have seen, and the version covers
those rows (`NewestRow`, by way of
`LargestElement`: a bounded set of numbers that is not empty has a maximum).
`LateInv` says that a call that began after a revocation is refused, and
`AloneInv` what the one call under way knows of key, token and list.
Proved: `SyncTypeCorrect`, `ListIsExact`, `RevocationHolds`, `DropIsHarmless`,
`SecretsBelongTogether`, for any number of overlapping calls and any lag between
a stamp and its commit.

**ScannerProofs.** First the corrections, over character classes of any size: a
corrected plate is a fixed point (`NormalisedOnce`), and the phone's corrections
agree with the server's wherever one of the two arrives at a valid plate
(`CopiesAgree`). They go position by position, so no induction over strings is
needed. Then the screen. `ScannerImplementsSync` maps every step of the screen to a
step or a stutter of `SyncSpec`, so the theorems on the list hold under the
screen. `HitInv` follows a plate from the copy through a match to the queue:
each of these was listed. With `NormalisedOnce` this gives `OneFormOfAPlate`;
further `TypeCorrect`, `OthersStayOnThePhone`, `MatchesAreQueued`.
`CopyIsCurrent` needs to know that versions cannot repeat while the screen looks
away: `CopyInv` says that without an overlap a list that comes is newer than the
one it replaces, and that a wiped list stays away until the screen has shown
version 0, because the key is gone and the token that stays keeps the phone from
registering.

**RetentionProofs.** `JobInv` says what a purge under way has selected and
removed, as of the day it began; `HistoryInv` relates captures to the day a row
was last settled and to the last committed purge, which is what makes a due row
with sightings impossible unless purges were missed or the row was reopened
after the expiry that its cooldown is from. Proved: `TypeCorrect`,
`PurgeIsComplete`, `PhotosAreKept`, `RefusalsExplained`.

**AccountsProofs.** The limits: a counter is of today or an earlier day and
outlives its day (`QuotaInv`), and it counts at least the requests of its day
that passed (`PassedInv`), so a request that passes is less than the limit away
from the first of its day (`DaysInv`); two days that differ twice are a day
apart (`TwoDaysApart`). That is `LimitsHoldPerDay`. The session: `ScreenInv`
says what the app holds before a session begins, `OwnerInv` names the one user
whose tokens they are at every moment between two writes of the secure store,
`LastInv` that nothing erases the refresh token unless something failed. They
give `SessionsDoNotMix` and `OnlyFailuresStrand`.

Every invariant and every action property of a passing run is stated by a
theorem; the invariants a proof rests on were checked by TLC on the instance of
the run first.

*Model-checked only*: liveness (`OverdueIsResolved`, `AuditedUnlessFailure`,
`SimulatorDrains`: fairness and ENABLED are beyond the prover), and that the two
claims of the violation runs fail. Induction over data is out of the prover's
reach as well; no module has a RECURSIVE operator.

## 6. Not modelled

- `flushQueue` and `clearQueue` of `queue.ts`: no code of the app calls them.
- The hit history of the phone, which nothing reads but its own screen.
- Analytics: read-only sums and buckets over tables that other modules hold.
- A start of the simulator without `--device-token`, as `run_demo.sh` does it: it
  registers another device and posts the rows it finds in the file as that
  device's. `run_simulation` is a start with the same token.
- The simulator's voter and the frames of its video: it gives every crop a tracker id of its
  own, so no window holds two reads and the voter confirms nothing; what it
  queues is an input of `HitDelivery`.
- The audit rows of role changes and revocations, and the administrator's
  listings.
- Coordinates, confidences, plate images, wording and layout: no property tells
  them apart. A photo is its number, a plate is a model value.
- The ciphers: a payload opens with one key.
- The database, Redis, the browser and the network beyond what the code sees of
  them; they are marked external where a definition stands for them.
- Notifications in `HotlistLifecycle`: they do not change a row. The feed models
  them as pushes at any time.
- A second instance of the server: `docker-compose.yml` starts one.
- Pages, forms, seeding, migrations (section 1).

`PROJECT.json` lists every component with its status and every hazard with the
properties that cover it, or why none does.

## 7. Plan

What is left, in order.

1. The audit rows of role changes and revocations, next to `Accounts` and
   `HotlistSync`, with the second commit that `HotlistLifecycle` has.
2. The scanner composed with the delivery path through `raise_hit`; today
   `HitDelivery` takes what is queued as an input.
3. The arithmetic of the analytics endpoints, as operators compared with a
   reference over bounded inputs.
