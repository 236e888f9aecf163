# Formal model of u1s12api-go

TLA+ specifications, TLC configurations and TLAPS proofs for the gateway in `src/`: a Go
server that speaks the OpenAI chat API to its clients and serves them with the device
credentials of authorised u1s1 accounts.  Every definition is translated from the Go code;
`PROJECT.json` names, for each definition, the lines it stands for.

## 1. The system

| Component | State it keeps | Operations | Talks to |
|---|---|---|---|
| Device channel (`server/chat.go`, `upstream/device.go`) | per request: listed rows, current account; shared: `deviceQuotaExhausted` | list, filter, order, call, mark, record, pipe, give up | accounts table, attestation cache, gateway |
| Error classification (`upstream/client.go`) | none | predicates on status and body | used by the channel and the pool |
| Accounts table (`store/store.go`) | one row per account: enabled, authorised, status, credential, quota, counters | UPDATE by id, list | everything |
| Upstream key pool (`upstream/pool.go`, `upstream_keys`) | table and its image in memory; round-robin counter | pick, report, reload, set status | models cache, quota refresh, administrator |
| Models cache (`chat.go` `fetchModels`) | last list, fetch time, one mutex | fetch, read for prices | key pool, gateway |
| Attestation cache (`upstream/attestation.go`) | entry and lock per device token | token, renew, fail, invalidate, clean up | gateway `/v1/models` |
| Device authorisation (`server/device_flow.go`, `oneclick.go`, `identity.go`) | pending codes in memory | start, confirm | accounts table, key pool, check-in |
| Check-in and quota schedulers (`checkin_auto.go`, `quota_auto.go`, `account_quota.go`) | two running flags, next time | loop, catch up, run, manual run | accounts table, gateway, key pool |
| Site feed (`server/sitefeed_*.go`, `sitefeed/`, `store/sitefeed.go`, `bark.go`) | snapshot table, last check, notified versions | check, push, manual check | site, npm, Bark |
| Settings (`config/config.go`, `admin.go`, `server.go`) | `.env`, settings in memory, upstream client | load, read, patch, save, publish, rebuild | identity, client construction, admin page |
| Fingerprint, identity (`fingerprint/`, `identity.go`) | identity in force, state file, snapshot per device | choose, switch, pin, backfill, header values | settings, accounts table, all upstream calls |
| Local keys, admin login (`server.go`, `admin.go`, `store.go`) | throttle per address, cookie secret, `local_keys` | login, check a cookie, create, edit, delete, authenticate, count | every request |
| Admin API (`admin.go`, `accounts.go`) | - | edits, model test (changes no state), overview | all of the above |
| Check-in of one account (`checkin_auto.go`, `account_quota.go`, `webcheckin/`, `capcat/`) | one session; packages, status and day in the row | solve, login, claim, fetch packages, store | site, accounts table |
| Logging (`logging/`) | ring buffer | append, recent | admin page |
| Web UI (`web/`) | browser state | - | Admin API |

Everything that happens at once: one goroutine per HTTP request, one per scheduler, all on
one SQLite file (one statement is one transaction), a few mutexes that are never held over
a call except `modelsMu` and the per-credential attestation locks, and a gateway that
answers late, with an error, or not at all.

Paths are relative to `src/internal/`.

### What is hard, and what makes each component correct

* **Device channel.** A request lists the accounts once and then calls the gateway several
  times, with everything else going on meanwhile.  It is correct when one client request is
  not amplified (one call at a time, no account twice, no call after a reply that does not
  blame the credential), when the answer agrees with the trail of calls, when a refused
  credential stays out of service, when a used-up account is left alone until midnight, when
  ledger and counters agree with the calls, and when every request is answered.
* **Key pool.** Table and memory are written one after the other, by several goroutines, with
  errors that are ignored, and `Reload` holds no lock while it reads.  A key may differ between
  them only for a reason, and only until the next undisturbed `Reload`; the round robin must
  reach every key that can be picked.
* **Attestation cache.** A lock per credential, made on demand and dropped by a clean-up, is
  held across a call.  One renewal at a time, none that is not needed, none within the
  cool-down, and nobody waits for ever.
* **Daily jobs.** Two loops, manual rounds, crashes and the day boundary.  A day must not be
  slept away with its work undone, full quota rounds exclude each other, a round ends.
* **Device authorisation.** Start and confirm are separate requests over a map of logins in
  memory; the page confirms again and again, an account may get a second login or be deleted
  in between, and a confirm writes in several statements.  A credential must end up in the
  row it was approved for, must not be lost while it could still be had, and "authorized" and
  the imported key must mean that it is stored.
* **Site feed.** The watcher and a refresh by hand check at the same time; sources, writes and
  pushes fail; a restart falls between table and push.  Every post must reach the table, no
  post may be pushed twice, nothing old may be pushed as news, and the books must balance:
  each post was stored for the snapshot, sent, or lost, and the code can lose it.
* **Check-in of one account.** A chain of challenges, solutions and calls, each of which may
  fail or lose its answer, on a row that rounds, single requests and edits work on at the same
  time.  No token may be used twice, and the row must tell the truth about what the site did.
* **Settings and identity.** Saves overlap, a write may be cut short after the file was
  truncated, and two files and the environment decide what is in force after a start.  A
  change that was answered with 200 must be in force (as `.env` gives it back) and stay so, the client must be that of
  the newest settings, and no device may ever show two identities.
* **Local keys and admin login.** Passwords are checked and failures counted by concurrent
  requests; keys are looked up by value and counted by name, and names are given out again.
  The throttle must hold, and a key must be charged with its own requests.

`PROJECT.json` lists the hazards one by one, each at its line, with the properties that
would notice it.

## 2. Modules

| Module | Stands for | Extends / instantiates |
|---|---|---|
| `ErrorClass` | the predicates of `upstream/client.go` and the error chain of `chat.go` as operators on a reply (status, set of words found in the body) | - |
| `ChatPromise` | abstract: what the chat endpoint promises about one client request | - |
| `DeviceChannel` | concurrent chat requests, accounts table, marks, edits, midnight, restarts | `ErrorClass`; implements `ChatPromise` |
| `KeyPool` | table `upstream_keys`, its image, fetches, edits and quota checks | `ErrorClass` |
| `Attestation` | `Token`, its lock per credential, `put`, failures, `Invalidate` | - |
| `DailyRounds` | the check-in loop and the quota loop with the manual rounds | - |
| `DeviceAuth` | device logins of both kinds, from the start to the stored credential | - |
| `SiteFeed` | the checks of the official site by the watcher and by hand | - |
| `WebCheckin` | the check-in and the refresh of one account, call by call | - |
| `Settings` | `.env`, settings in memory, client, identity in force, with overlapping saves | - |
| `DeviceIdentity` | the identity each device shows: logins, pinning, requests | `Settings` |
| `Access` | login throttle, cookies, local keys | - |
| `DeviceChannelProofs`, `KeyPoolProofs`, `AttestationProofs`, `DeviceAuthProofs`, `SiteFeedProofs`, `DeviceIdentityProofs`, `AccessProofs` | theorems about the module they extend | `TLAPS` |
| `CheckinProofs` | theorems about the rounds and about the check-in of one account | `DailyRounds`, `WebCheckin`, `TLAPS` |
| `MC...` | small instances for TLC | the module they are named after |

Steps are cut where the code releases a lock, ends an SQL statement or waits for the
network; between two cuts nothing else can run that could tell the difference.  Operators
named `Faulty...` are plausible mistakes; `PROJECT.json` pairs each with the definition it
would replace and the property that notices it.

### DeviceChannel

| Model | Code |
|---|---|
| `Arrive`, `List` | `handleChatCompletions`, `ListAuthorizedEnabledAccounts` |
| `Filter` | filter by `deviceIsExhausted` (chat.go:237) |
| `Pick`, `Skip`, `GiveUp` | head of the rotation loop and its end |
| `Send`, `Receive` | `DeviceChat`: request, reply or no reply |
| `MarkRefused`, `RecordAndRotate`, `RecordAndStop`, `MarkExhausted` | error chain (chat.go:270-343) |
| `Pipe`, `Touch`, `RecordSuccess`, `Finish` | streaming, usage counter, ledger, answer |
| `Authorize`, `SetEnabled`, `AddAccount`, `DeleteAccount`, `RefreshQuota`, `Midnight`, `Restart` | the writers of `accounts` and of the in-memory map |

Abstractions: a credential is the pair of account and a number that grows with each
authorisation.  The candidates are kept as a set; the order is the one of `SliceStable`
(remaining quota descending, unknown first, ties by id), so choosing the first is `IsFirst`.  The filter loop
takes the mutex once per account and is one step.  The model test of the admin page calls
with a credential and changes nothing the server keeps, so it is not modelled.  The attestation
look-up before a call changes nothing the channel reads and is left out.  `StoreMayFail` lets
each write of a request fail; the code logs and goes on.  The end of a mark is computed by
`RecordAndRotate` and stored by `MarkExhausted`, two steps, and midnight may fall between them;
`shortened` remembers the accounts whose mark was replaced by an older one.  The body of a
stream is assumed to end.  Identity columns are left out.

### KeyPool

One fetch at a time, because `modelsMu` covers `Pick` to `ReportResult`.  A job is a
goroutine that writes the table and then reloads; `Reload` is three kinds of steps: listing,
one write for each expired row, swap.  Time is counted in ticks, `Short` for the 90 s of a
rate limit and `Day` for the time to midnight.  The counter of the round robin is kept
modulo `Wrap`, a multiple of every number of keys.  The writes whose errors the code ignores
may fail: `StoreResult`, `CheckRefused`, `Revive`, and those of the `Reload` at a start.
`NoReload` is a write that no `Reload` follows: the listing fails, or an import stores some keys
and then answers with an error (admin.go:216).  Where a handler answers a failed write with an
error, nothing has changed and there is no step.  An import is one statement per key and one
reload.  `DisableKey` has no caller.  `excused` (history) holds the keys of which a write was
lost or overtaken since the last swap.

### Attestation

Every critical section of `m.mu` is a step, and so are taking and releasing a credential's
lock.  Locks are numbered per credential, since `put` may drop one in use and `lockFor` make
another.  Tokens are numbered per credential; the empty token is 0.  The chat request that
uses the token ends in `Accepted` or in `Invalidate`.

### DailyRounds

`kind` says which of the two loops a behaviour is about.  An item is an account or an
upstream key.  A tick is an open interval; `Buffer` ticks are the two minutes after
midnight, so no step falls on a boundary and `<=` in `nextQuotaRefreshTime` is `<`.  A round
works through its listing in order of id and reads every row again before it calls.  What a
result writes besides its time is left out, as is the refresh of the account snapshots at
the end of a quota round (it only makes the round last longer, and rounds last as long as
they like).  Accounts are disabled but not deleted.  `ListFails` is the listing that
fails: the code logs it, drops the round and sleeps to the next day.

### DeviceAuth

| Model | Code |
|---|---|
| `DeviceStart`, `OneClickStart` | `handleDeviceStart`, `handleOneClickStart` with the gateway's answer |
| `Approve` | external: whoever signs in at the gateway approves |
| `DeviceConfirm`, `OneClickConfirm` | look-up of the pending login |
| `PollInVain`, `PollApproved` | `PollDeviceLoginOnce` |
| `Drop` | `pending.del` (device_flow.go:149) |
| `AskOwner`, `MakeAccount`, `FindAccount`, `FindNothing` | oneclick.go:147-182 |
| `Save`, `SaveFails`, `Import`, `ImportFails`, `Finish` | the writes, the check-in and the answer |
| `AddAccount`, `DeleteAccount`, `Restart` | what else happens meanwhile |

`row`, `pending` and `oneClick` are the accounts table and the two maps; `login` is what the
gateway knows of a login.  A credential, its API key and its device are named by the number
of the login; a device whose id the gateway gives as no positive number is device 0.  A start
is one step: until the login is in the map nobody knows its secret.  The gateway may answer
"approved" to every confirm of a login.  Left out: the identity snapshot and the device name,
the password, and the columns enabled and authorised (`DeviceChannel` has those); the expiry
of a login, which the server never looks at; the check-in at the end, whose result is not
used.  The history variables `handed`, `stored`, `lost`, `told`, `recent` are read by
properties only.

### SiteFeed

| Model | Code |
|---|---|
| `StartWatching`, `Tick`, `Refresh` | `RunSiteFeedWatcher`, `handleSiteFeedRefresh` |
| `Begin`, `NoService`, `FetchAnnouncements...`, `FetchChangelog...` | start of a check, `Service.Fetch` |
| `ReadFlag`, `StorePost`, `SetFlag` (`...Fails`) | snapshot flag, `UpsertSitePost`, flag set |
| `PushAnnouncements`, `PushChangelog` | the two pushes, which succeed or fail |
| `AskNpm`, `Compare`, `Notice`, `Mark`, `Record` (`...Fails`) | version check, notice, last check |
| `Publish`, `TakeDown`, `Release`, `SaveSettings` | site, npm, settings page |

Time is left out: a tick may come whenever the watcher waits, and at a start the last check
may or may not be an interval ago.  The watcher is assumed to be switched on.  A version is a
number, which is what `versionGreater` makes of versions of three numbers; npm's tag "latest"
may move to any other version, an older one too.  `quiet`, `sent` and `lost` (history) keep the
books of the posts: stored by a check that took itself for the first, in a push that succeeded,
or in none: the push failed, there was no BARK_KEY, or a stop came before it.  `excused` holds
the versions that may be pushed again, each for a reason of the code.  That a fetch is
repeated with a session after a 401 is part of the fetch.  What the admin page only shows
(`npm_latest_version`, `npm_checked_at`), wording and page parsing are left out.

### WebCheckin

| Model | Code |
|---|---|
| `CheckIn`, `Refresh` | `checkinOne`, one account of `refreshAllDeviceQuotas` |
| `Credential`, `NoService` | password and service of `webCheckinOne` |
| `Solve`, `Unsolved` | `Solver.Solve`: challenge, solution, cap-token, or any error on the way |
| `Login`, `DailyGranted`, `DailyRefused` | `Service.login`, `Service.claim` |
| `Me`, `NoMe`, `ExtraGranted`, `ExtraRefused` | `fetchMe`, `claimExtras`, `claimOne` |
| `Mark`, `ReadAccount`, `Fetch`, `NoFetch`, `Save`, `WriteStatus`, `WriteError` | what is stored, `refreshAccountQuota` |
| `Keep`, `Remain` | `dpopCheckinOne`, the check-in of an account without a password |
| `Spend`, `EditAccount`, `DeleteAccount`, `CrashCheckins` | what else happens to the account |

One account and one Beijing day: accounts share nothing here.  A call that fails stands for a
refusal, an error and a timeout; a grant whose answer is lost is an outcome of its own.
`todo` holds the places in `Extras` that are still to claim, and `IsNext` is the least of them:
the loop of `claimExtras` goes through the list in order.  The
search for the solution of a challenge, headers and cookies are left out, and so are the
streak, `login_checkin_remaining` and the texts of the status.  A write that fails is ignored,
as in the code.  A claim that was refused still sets `last_checkin_at`, so the catch-up after
a restart leaves that day alone; `StatusHonest` only says that the site was asked.

### Settings and DeviceIdentity

| Model | Code |
|---|---|
| `Start` (`StartAndPin`) | `main`: `Load`, `NewManager`, `PinDeviceIdentityForAccounts`, `New` |
| `StartStops` (`StopAtStart`) | a start that fails or is stopped before, in or after the write of `fingerprint.json` |
| `ReadBack` | what `readEnvFile` makes of a value that `Save` has written |
| `Read`, `Switch`, `Remember`, `Persist`, `NotPersisted` | `handleSaveSettings` up to `SetProfile`, whose state file is written outside the lock |
| `Save`, `NotSaved`, `Publish`, `Rebuild` | the write of `.env`, the atomic pointer, `rebuildClientLocked` |
| `Crash` (`CrashAll`) | a stop between any two steps, or inside a write |
| `BeginLogin`, `ConfirmLogin` | the names told and stored, and the snapshot stored with the credential |
| `List`, `Credential`, `Backfill`, `Send` | `accountCredential`, `backfillIdentity`, `ChatFingerprintHeaders` |

Three settings stand for all: the password, which the environment may override; the proxy,
of which the client is built; the profile, which a state file keeps as well.  `os.WriteFile`
truncates first, so a failure or a stop may leave an empty file; the start itself writes the
state file and may stop in it.  A value goes into `.env` as it is and is read back without the
quotes around it and without what follows a line break: the constant `AsRead` says what comes
back of each password and proxy (the run has a password of quotes only, which comes back empty,
and the proofs any).  What follows a line break is assumed to hold no `key=value` line, and
reading the two files is assumed to work.  A random password is named by the number of the start
that made it.  Profile "auto" in a file means the identity of the state file.  A login stores
the name of the identity in force and tells the gateway the same (`handleDeviceStart`) or the
fixed `OneClickName` (`handleOneClickStart`).  Passwords from the environment and proxies no
client can be built for are in the model and in the proofs; the run has none of them.  `Bodies`
bounds what requests set: in the run, at most one field each.

### Access

`Login` is the check of the throttle, `WrongPassword` and `RightPassword` what follows the
comparison, `Session` the check of a cookie.  `CreateKey`, `CountName`, `Insert`,
`InsertRefused`, `ReadBack` are the statements of `CreateLocalKey`; `Authenticate` and
`CountUse` those of `AuthenticateLocalKey`.  The password itself is left out: a login may come
with a right or a wrong one.  Cookies survive a restart (the secret is in
`data/admin_cookie_secret`), a change of the password and a logout; the throttle does not
survive a restart.  Failures that do not reach the limit never expire.  The names that share
one base are numbered.  The counting UPDATE may
fail, which the code ignores (`uncounted`); other statements that fail end their request with
nothing changed.  `total_tokens` of a local key is
never updated by the code and is left out.

## 3. Runs

All passing runs finish in under four minutes with two workers, most in under two.  `CHECK_DEADLOCK FALSE`
in all runs but `site_feed`: the numbers of requests, edits, ticks and restarts are bounded,
so every behaviour comes to an end in which nothing is left to do.  The two periodic checks
of `SiteFeed` never end, and TLC checks that they never block each other.

| Run | Question | Instance |
|---|---|---|
| `channel_edits` | refused credentials, used-up accounts, ledger and usage under edits, midnight, restarts | 2 requests, 2 accounts (one added on the way), 2 credentials each, 3 edits, 2 days |
| `channel_promise` | answers, refinement of `ChatPromise`, every request answered, with failing writes and restarts | 2 requests, 3 accounts, one damaged, a reply for every turn of the error chain |
| `pool` | table and image, fairness of the round robin | 2 keys (1 at the start), 2 jobs, 2 edits, 3 ticks, days of 2, 5 replies, failing writes and listings |
| `attestation` | single flight, needless probes, cool-down, refused tokens, return | 2 credentials, 3 calls |
| `daily_rounds` | exclusion, served days, rounds end | both loops, 2 items, listings that fail, 1 manual goroutine (any number of requests), 2 days, one edit or crash |
| `device_auth` | where credentials go, when one is lost, when a login can be confirmed | 2 owners, 2 confirm requests, 2 logins, 3 accounts, one deletion, failure or restart |
| `site_feed` | pushed once, only news, one fate for each post, second pushes, all stored | 1 announcement, 1 change log entry, 2 versions, watcher and 1 refresh, 3 events (changes, failures, restarts) |
| `web_checkin` | tokens used once, row tells the truth | 2 runs on one account, 1 extra package, 2 events (edit, deletion, package used up, crash) |
| `device_identity` | saves, restarts, one identity per device | 2 savers, 2 proxies, 1 password `.env` does not give back, 2 profiles, 2 starts and any that stop half-way, 2 saves, 1 account, 1 request, 1 login of either kind |
| `access` | throttle, use counts, creations | 1 address, 2 logins, 2 creations, 1 client, limit 2, window 2 of 3 ticks, 2 keys |
| `channel_fresh_credential` | violation: store.go:978 | 1 request, 1 edit |
| `channel_late_mark` | violation: chat.go:225 | 3 requests, 1 account, 2 days |

Why the bounds are enough: two requests and two accounts give every order of two writers of
one row and a rotation of more than one account; a third account makes a rotation that skips
in the middle.  The second key is imported, disabled, cooled and revived while the first is
in use, and three ticks see the end of both cool-downs, the short one and the one at midnight;
that the round robin is fair among more keys is proved, `EveryKeyHasItsTurn`.  Three calls give one that renews, one that waits, and one of another credential
whose clean-up interferes.  Two days are one boundary before and one after a round.
Two logins and two confirm requests give every overlap of two confirms of one login, of two
logins of one account, and of a device login with a one-click login; three accounts are one
per owner and one made up for a device.  A post of each kind makes both pushes of a check;
three events are, for instance, two posts and a restart, two releases and a failure, or a
post that is published, taken down and published again.  Two
check-ins of one account give every overlap of a round with a single request, and two events
an edit and a deletion, or a crash and a package used up.  Two saves are one that overtakes
the other, and two starts one restart; the older version's device and the one of a login are
two devices.  Two logins at a time, each a try over and over, pass a limit of two in every order;
two names let a key inherit the name of a deleted one.  The
theorems of section 4 remove the bounds for most properties.  Requests, jobs and calls are
interchangeable and used as symmetry where no liveness is checked.

The type invariants of `SiteFeed` and `WebCheckin` are checked by their runs as well as proved;
those of the other modules are theorems only (section 4), and the runs are spent on what is
harder.

**Fairness.**  `DeviceChannel`: weak fairness of each request's own steps; `DeviceChat` has a
header timeout of 30 s, and all other steps are local.  `Attestation`: weak fairness of each
call's steps; a probe ends after 4 s, and Go's mutex hands a free lock to a waiter.
`DailyRounds`: weak fairness of the loop and of each round; a call ends after 20 s (quota),
90 s plus 30 s (web check-in) or 30 s (device check-in).  `SiteFeed`: weak fairness of the
watcher's goroutine alone: the ticker ticks, and each request of a check ends after 15 s; that
failures end at some time is the bound on events.  Nothing is assumed about clients,
the administrator, crashes or the clock.

### Where code and comments disagree

The two violation runs are findings in `PROJECT.json`: a late refusal takes a freshly authorised
account out of service (chat.go:280 against store.go:978), and a mark computed before midnight
replaces the one of the new day (chat.go:173 against chat.go:225; three requests: the first
computes the end just before midnight, the second marks the account just after, the first stores
its older end, the third calls the account that day).  `CooledUnlessShortened` states what
remains of the latter.  Seen while modelling, without a run:

* pool.go:142: "disabled" is said to be left alone by a success; the line below sets any status
  but "active" back to "active", so an answer that comes after the administrator has disabled
  the key enables it again.  Memory and table agree on it, so no property objects.
* pool.go:117 to 145, admin.go:365: the error of a status write is ignored; memory and table then
  differ until the next `Reload` (which undoes the result) or the next write.
* admin.go:216: an import that meets an error after some keys leaves them out of the pool until
  something else reloads it.
* checkin_auto.go:153, quota_auto.go:100: when the listing fails, the day's round is dropped with
  a log line, and the loop sleeps to the next day.
* attestation.go:180: a refused token is said to be dropped; a renewal that had read it before
  and then fails puts it back (line 158).  `RefusedTokenBackOnlyByFailure` says that there is
  no other way.
* device_flow.go:124: the page is told that no login is in progress while one is: the confirm of
  an older login of the account drops whichever is there (line 149).
  `InProgressUnlessOlderHanded` says that there is no other way.
* config.go:2: `.env` is said to be written atomically; `os.WriteFile` truncates it first, and a
  stop in between leaves no settings.
* config.go:71 and main.go:44: the password made at the first start is said to be in `.env`;
  `Load` never writes it, so that every start makes another until settings are saved.
* config.go:137 and 211: a value is written as it is and read back without quotes around it and
  without what follows a line break, so that a save answered with 200 may put another password
  in force (of quotes only: an empty one).  `LoneSavesInForce` says which value that is.
* fingerprint.go:207: without a valid state file the identity is the machine's own.  A start that
  is stopped while it writes `fingerprint.json` (line 272 truncates it, main.go:61 exits when it
  fails) leaves an empty one, and an identity chosen earlier is lost, though line 177 says that a
  device must not change its operating system (the exception `lost` in `RestartKeepsSettings`).
* store.go:333: a name in use is said to be given a suffix; two creations at once count the same
  name, and one is answered with an error (`RefusedOnlyInRace`).
* store.go:395: uses are counted by name, so that a key that got the name of a deleted one may be
  charged with a request of that one (the exception in `UsesCounted`); the error of the UPDATE is
  ignored, and the request let through uncounted (`uncounted`).
* admin.go:659: of two saves at once the later one may write back the settings it read before the
  earlier one changed them; both are answered with 200 (the exception `agreed = None` in
  `LoneSavesInForce`).
* chat.go:158: an unknown quota is said to count as last; its sort key is the largest of a
  descending order, so it counts as first (`SortKey`, `Before`).
* attestation.go:70: renewals of one credential are said to exclude each other; the clean-up
  in `put` drops a lock in use, and the next caller makes another.
  `SingleFlightUnlessSwept` states what remains.
* device_flow.go:149: a device login is dropped before its credential is stored; when the
  write fails, only a new login helps.  A one-click login is dropped last.
* device_flow.go:152: of two logins of one account, the one confirmed last stays, not the one
  started last.
* device_flow.go:84: the device name is not to give the project away, but oneclick.go:82
  starts with "u1s12api-oneclick" (and stores another name, oneclick.go:95), so the name the
  gateway compares has no platform, against fingerprint.go:128.
* fingerprint.go:128: the platform in a device's name must be that of its requests; the name is
  of the profile at the start of the login (device_flow.go:88), the identity snapshot of the
  profile at the confirm (line 153), and a switch of profiles in between makes them differ (the
  exceptions in
  `NameSameSourceButOneClick`).
* sitefeed_watch.go:11: every failure is said to be retried in the next round; a push that
  failed, or that a stop cut off after the insert, is not, since its posts are no longer new, nor
  is a version, which is recorded as notified whether or not the push succeeded (line 240).
  `EveryPostHasOneFate` counts such posts as lost, and says that they stay so.
* sitefeed_watch.go:5: the first run is said to take a snapshot; when a source fails in it,
  the flag is set all the same, and the next check pushes everything of that source as news
  (the exception in `OnlyNewsIsPushed`).
* sitefeed_watch.go:8: a version is said to be pushed once; two checks at a time, or a
  restart before line 240, push it again, and so does a tag "latest" that moves back, since only
  the last version is remembered (the reasons in `SecondPushHasAReason`).
* server.go:126: an interval of 0 is said to mean the default in `RunSiteFeedWatcher`; there
  it means that the watcher does not start (sitefeed_watch.go:92).
* chat.go:324: a 400 with a quota code is not `RequestScopedError` (client.go:315 says it is
  to be handled as quota), but the error chain ends it as a gateway error.
* admin.go:756: the model test ignores the refusal of its credential, which client.go:361
  says must be stored.
* pool.go:39: `Reload` lists without the lock and loses a result reported before the swap;
  pool.go:12 calls the image a mirror.  `OnlyExcusedKeysDiverge` states what remains true.
* pool.go:80 and 133: a key whose cool-down has expired counts as active but is picked only
  after the next `Reload`.
* attestation.go:206: the clean-up also drops entries that remember a failure, and with them
  the cool-down of attestation.go:40.  `CooldownUnlessForgotten` states what remains.
* attestation.go:64 and 44: the margin of 24 h exceeds the 1 h assumed for a token without a
  readable expiry, so such a token is never used from the cache.
* checkin_auto.go:205: `checkinRunning` is said to exclude manual rounds too, but
  accounts.go:183 does not take it; only quota rounds exclude each other.
* checkin_auto.go:197: the catch-up is decided by the newest check-in of any account: one
  account checked in hides all others (the exception `skipped = "done"`).
* accounts.go:202: the row read after the check-in is used although reading may have failed: if
  the account was deleted meanwhile, the handler panics.
* chat.go:57: `modelsMu` is held over the fetch of the models, and the prices of chats that are
  already answered wait for it.

## 4. Proofs

| Theorem | Property | Inductive invariant |
|---|---|---|
| `DeviceChannelProofs!TypeCorrect` | `TypeOK` | itself |
| `RefusedStayOut` | `RefusedCredentialsUnused` | `OneInHand` and `TrustInv`: a credential held, listed or refused was issued, so re-authorisation always makes one that was not refused |
| `CooledStayCooled` | `CooledUnlessShortened` | `CoolInv`: what a request saw marked when it listed is a lower bound of the mark for as long as it lives, but for accounts whose mark was replaced by an older one |
| `AnswersAreJustified` | `AnswerJustified` | `DialogueInv`: what a request's stage says about all replies it has had |
| `ChannelKeepsPromise` | `KeepsPromise` | the same; initial states map to initial states and each action to an action of `ChatPromise` or a stutter |
| `CallsAreRecorded` | `EveryCallRecorded` | `LedgerInv`: only the account in hand may have a reply without a record; what a mark is for decides whether the record is already written |
| `UsageIsAccounted` | `UsageAccounted` | `UsageInv`: at most one account is about to be counted for a request, the one that delivered; nobody calls an id before its row is added; the counter of a row is at most the number of calls past counting, and, when writes do not fail, at least those no restart has cut off |
| `KeyPoolProofs!PoolTypeCorrect` | `TypeOK` | itself |
| `OthersAreMirrored` | `OnlyExcusedKeysDiverge` | `MirrorInv`: for each key, whether memory, table and the copies of jobs between listing and swap agree, and who has it in hand |
| `EveryKeyHasItsTurn` | `NoActiveKeyStarves` | `RoundInv`: how often a key was passed over and the distance of the counter from its turn stay below the size of the pool together; the lemmas before it say what one step of the counter does to that distance, over the wrap too |
| `AttestationProofs!TypesKept` | `TypeOK` | itself |
| `RenewedOnce`, `ProbedWhenNeeded`, `CooldownObserved` | `SingleFlightUnlessSwept`, `ProbesAreNeeded`, `CooldownUnlessForgotten` | `Inv`: two holders of one lock number are one call; the holder's number is the current one; what the holder read is still there |
| `RefusedStaysOut` | `RefusedTokenBackOnlyByFailure` | `RefusedInv`: the property, and every token that is cached, in hand or refused was issued, so a new one is never a refused one |
| `CheckinProofs!DailyTypes`, `OneFullRound` | `TypeOK`, `FullRoundsExclusive` | `TypeOK` and the property |
| `DayServed` | `DayServedBeforeSleep` | `OwnerInv`, `ServedInv`: while today's round lasts, everything usable since midnight was tried or is still to come, and the item being called counts as tried; a round left out has one of its reasons |
| `CheckinTypes` | `CheckinTypeOK` | itself |
| `EveryCallHasItsToken`, `StatusIsHonest` | `CapTokenUsedOnce`, `StatusHonest` | `RunInv`: what a run knows at each stage of its chain is what the site has granted to it |
| `ShowsWhatItClaimed` | `GrantedIsShown` | `ShownInv`: a run alone with the account still is, and what it was granted and is not used up is on the list it fetched, then in the row |
| `DeviceAuthProofs!AuthTypes` | `TypeOK` | itself |
| `CredentialsLandWhereMeant`, `AuthorizedMeansStored`, `NothingHandedOverIsLost`, `OneDeviceInOneAccount`, `OwnersStayApart` | `CredentialOnItsAccount`, `NothingBeforeTheCredential`, `HandedOverIsKept`, `OneDeviceOneAccount`, `OwnersKeptApart` | `Inv`: ids and logins are numbered in order of birth; addresses differ; what is pending, or in a request's hands at each step, was meant for the account it names; a request past the write has stored its credential or lost it to a deletion |
| `LoginInProgress` | `InProgressUnlessOlderHanded` | `ProgressInv`: the property; what is in the map is the latest of its account; a request about to drop has handed its login over |
| `SiteFeedProofs!FeedTypes` | `TypeOK` | itself |
| `NoPostTwice`, `SnapshotIsNoNews` | `PushedOnce`, `OnlyNewsIsPushed` | `HandlingInv`, `NewsInv`: only a check that is to store or push holds news, what it has taken out of its feed is in the table, and a post not pushed yet is held by one check at most |
| `OneFate` | `EveryPostHasOneFate` | the same, and the property |
| `SecondPushes` | `SecondPushHasAReason` | `LatestInv`, `NoticeInv`: two answers of npm in hand at a time have an excuse; a version pushed is recorded while npm shows it, or about to be, and whoever still has it in hand has pushed it or finds it recorded |
| `DeviceIdentityProofs!SettingsTyped`, `DevicesTyped` | `TypeOK`, `DeviceTypeOK` | themselves |
| `SavesAreInForce`, `ClientFollows`, `RestartKeeps` | `LoneSavesInForce`, `ClientFollowsSettings`, `RestartKeepsSettings` | `SettingsInv`: without overlap and failure, what memory, file and state file hold at each stage of the one save that may be under way |
| `OneIdentity`, `NamesAreSameSource` | `OneIdentityPerDevice`, `NameSameSourceButOneClick` | `DeviceInv`: only the old device may lack a snapshot; what a request holds, what the row holds and what was shown of a device agree |
| `AccessProofs!AccessTypes` | `TypeOK` | itself |
| `BlocksHold` | `BlockHolds` | `ThrottleInv`: the wrong passwords are a multiple of the limit and the count; each one that completes a multiple has set an end of the block that is not earlier than its window |
| `KeysAreCharged`, `CreationsRace` | `UsesCounted`, `RefusedOnlyInRace` | `KeyInv`: a key is inserted once and known to no client before; what has got the name a client holds has inherited it |

They hold for every value of the constants allowed by the assumptions the modules name
(finite sets of requests, accounts and keys where cardinalities are used, positive durations,
`Wrap` a multiple of every number of keys).  `CheckinProofs` extends the two modules about
check-ins, which is why `WebCheckin` calls its specification `CheckinSpec` and has no name in
common with `DailyRounds`; nothing in one constrains the other.  Safety properties are proved from
`Init => Inv`, one lemma per part of the invariant with a case for every action, and `PTL`.

Every invariant and every action property of the passing runs is a theorem.  Only
model-checked: the liveness properties (`EveryRequestAnswered`, `EveryCallReturns`,
`EveryRoundEnds`, `PostsReachTheTable`).
Liveness under fairness and `ENABLED`, induction over data and recursive operators are out of the prover's reach.

## 5. Plan

Done: `ErrorClass`, `ChatPromise`, `DeviceChannel`, `KeyPool`, `Attestation`, `DailyRounds`,
`DeviceAuth`, `SiteFeed`, `Settings`, `DeviceIdentity`, `WebCheckin`, `Access`.  Next, in this
order:

1. `DailyRounds` with `WebCheckin` as the check-in of one item, so that the times the loop
   decides by are those a check-in writes.
2. `DeviceAuth` composed with the accounts table of `DeviceChannel`: an authorisation there is
   a `Save` here.
3. The models cache as the consumer of `KeyPool`, and `modelsMu` held across the call.

## 6. Not modelled

* The proof-of-work of `capcat/` as arithmetic (a hash search and repeated squaring): its result
  is right or the solver fails.
* Header and fingerprint values, request and response translation, page parsing, log texts:
  strings on which no decision of the models depends.
* The log ring (`logging/`): one mutex around a bounded list that nothing else reads.
* The statistics (`store.go`, overview and usage pages): aggregates SQLite computes, without
  state of their own.
* The web interface (`web/`): it has no state the server relies on.
* Hazards without a property, for later: the model test ignores the refusal of its credential
  (admin.go:756), `modelsMu` held over a call (chat.go:57), a key whose cool-down has expired is
  not picked before the next `Reload` (pool.go:80), the panic of accounts.go:202.
