# Quota Switcher in TLA+

Quota Switcher is a desktop program (Electron, Windows) that keeps the logins of
several Codex, Cursor and Antigravity accounts, renews their tokens, watches
their quotas, and switches the official client from one account to another.
This directory models the parts of it in which several things happen at once -
operations that interleave at every `await`, an official client that changes the
same files, a worker process that dies, a manager that is killed between two
writes, a window whose loads are answered out of order - and the rules by which it
takes two records for one account, reads the servers' answers and shows an account.
TLC checks small instances; TLAPS proves the most important statements for every
instance.

## 1. The system and its parts

The engine (`engine/*.js`) runs in Electron's main process, on one thread: what
happens between two `await`s is one atomic step. Everything else that acts is
another process: the official client, the worker process, the servers, the
renderer (which calls through IPC and may call again before the answer).

| Part | Its state | Operations | How it interacts | Hard behaviour | Module |
|---|---|---|---|---|---|
| Operation locks (`operation-locks.js`) | a map of promise tails by key | withLock, withAccountLock(s), withPathLock, mapLimit | every engine operation on an account takes its keys | order of nested keys, release on throw, clean-up of the map | `OperationLocks` |
| Codex switch (`switch.js`) | auth.json, projection, index, account file, the official process | doSwitch, rollback, restart | callers take `__switch__`, the target and the current account | close and start of another process in the middle; failure at any write; kill of the manager | `CodexAuth` |
| Auth state (`auth-state.js`) | the projection's fingerprint | inspect, adopt, reapply, sync, canMirror | read by the daemon, written by switch, refresh, adopt | official Codex rotates and signs in at any time | `CodexAuth` |
| Token refresh (`token-refresh.js`, `cursor-token.js`, `antigravity-token.js`) | tokens, retry time, requires_reauth | refreshOneTok, refreshAll, refreshCursorToken, refreshAntigravityToken | account lock; Codex mirrors into auth.json | single-use refresh tokens; lost answers; pages of a proxy taken for answers | `CodexAuth`, `AccountQuota` |
| Quota (`quota.js`, `cursor-quota.js`, `antigravity-quota.js`, `quota-retry.js`, `account-probe.js`) | quota, retry schedule, probe result | refreshQuota, probeUsageOnly, their Cursor and Antigravity forms | account lock; repairs a token after 401 | 429, stale windows, backoff, several requests of which some fail | `AccountQuota`, `QuotaWindows` |
| Account identity (`account-identity.js`) | none; it compares saved records | group, split, keep, absorb, upsert | a sign-in and an import fold duplicates | sameness is not transitive; a fold deletes accounts whose locks it must hold | `AccountIdentity` |
| OAuth (`oauth.js`, `cursor-oauth.js`, `antigravity-oauth.js`) | pending session (memory and file), loopback server, saved accounts | login, callback, manual completion, cancel, restore | upsert takes `__oauth_upsert__` and accounts; then switches | callback against cancel and expiry; restart with a pending session | `LoginSessions`, `CodexAuth`, `ClientAccounts` |
| Account store (`account-file-store.js`, `atomic-file.js`) | account files, index, `.bak`, temporary and quarantined files | load, save, delete, list, rebuild | called by everything, synchronously | torn files, transient locks, crash between index and account | `AccountFileStore` |
| Background sync (`daemon.js`, `ipc-handlers.js`, `config-manager.js`) | timer, generation, in-flight pass, settings file, shown status | start, stop, save interval, tick, relaunch | runs token, probe and quota work under the locks | stop and restart during a pass | `DaemonControl` |
| Engine worker host (`engine-worker-host.js`, `engine-worker.js`, the fallback of `http-client.js`) | worker, pending calls, timers, restart count | call, message, timeout, exit, restart, stop | every HTTP request and SQLite read of the engine | late events of a previous worker; two layers that both fall back to the main process | `EngineWorkerHost` |
| HTTP client, proxies (`http-client.js`, `proxy-resolve.js`) | the proxy found last, per host, failure memory, environment | httpJson | called in the worker or locally | failover without replay; a route cleared while it is probed | `HttpClient` |
| Cursor and Antigravity (`cursor-*.js`, `antigravity-*.js`) | accounts, index, `state.vscdb`, credential store | import, sign-in, sync, refresh, switch, delete | same locks with their own keys | a database another program has open; two reads of one login; rollback | `ClientAccounts` |
| Renderer (`src/renderer-react`) | snapshot, optimistic state, save queue, login shown | load, actions, events, polls | IPC calls and pushed events | answers out of order | `Dashboard`, `AccountCards` |
| Main window, float window, taskbar, updater | geometry, update status | show, hide, drag, check, install | IPC | late events of the updater | not modelled |

### What makes each part correct

* Locks: mutual exclusion, first come first served, no deadlock between nested
  groups, no leaked entry.
* Codex files: no lost update of an account, single-use tokens never replaced by
  spent ones, no login overwritten that the manager did not write, only the user
  switches, a rollback restores what was there; and what it restores should still work,
  which it need not (`codex_queued`).
* Background sync: one pass at a time, a stopped pass ends soon and shows
  nothing, the setting survives, a start is served.
* Worker host: no request goes out more than twice, every call ends, restarts are bounded;
  a POST should go out once, and does not (`worker_replay`).
* Store: a crash at any point leaves a readable old or new version; what repairs a damaged
  file takes its backup, a deleted one does not come back; the index forgets nobody. A
  damaged file should come back whoever meets it first, and does not (`store_damage`).
* Cursor and Antigravity: no lost update, a sync follows the client, a profile stays with
  its account, a failed switch puts back what it found, where that can be written.
* Quota and tokens: only a refusal asks for a new sign-in, only the usage endpoint
  bans, a refresh token whose fate is unknown is not sent again, a failure waits, and
  the windows known last stay on the card.
* HTTP: in one process a POST is acted on once at most over all routes, every request ends,
  a failed route is forgotten for every host.
* Identity: a record is folded into one account only, two mailboxes only by one account
  id, and a fold touches only accounts it has locked.
* Window: when all is quiet it shows what it was to be told; a late answer puts nothing
  older back.
* OAuth: a code is exchanged once, a session is settled by what happened to itself,
  a session that is over begins no save and no switch, a login that is over is not on disk.

`PROJECT.json` lists, under `hazards`, the lines where each of these bites.

## 2. Modules

| Module | Models | Status |
|---|---|---|
| `KeyedFifoLocks` | what the locks promise: one FIFO queue per key | done |
| `OperationLocks` | the promise chains that implement it | checked (with `MCMainProcess`), proved (in `DaemonControlProofs`) |
| `CodexAuth`, `MCCodexAuth`, `CodexAuthProofs` | everything that touches the Codex login files | checked, proved |
| `DaemonControl`, `DaemonControlProofs` | the background sync and its switch | checked (with `MCMainProcess`), proved |
| `EngineWorkerHost`, `MCEngineWorkerHost`, `RequestProofs` | the worker process, its host, and the caller of the host | checked (with `MCMainProcess`), proved |
| `MCMainProcess` | the locks, the worker host and the background sync on small instances | checked |
| `LoginSessions`, `MCLoginSessions`, `LoginSessionsProofs` | the browser logins of the three products | checked, proved |
| `AccountVault` | what an account store promises: an account is there in its newest version, or not | done |
| `AccountFileStore`, `MCAccountFileStore`, `AccountFileStoreProofs` | account files, index and their backups, write by write | checked (with `MCVault`), proved |
| `MCVault` | the account files, and the Codex logins with three tokens of an account, on small instances | checked |
| `ClientAccounts`, `MCClientAccounts`, `ClientAccountsProofs` | the accounts and the login of Cursor, the Antigravity IDE and the Hub | checked, proved |
| `AccountIdentity` | which records are one account and what a fold makes of them | checked (with `MCClientAccounts`), proved (in `ClientAccountsProofs`) |
| `HttpClient`, `MCHttpClient`, `RequestProofs` | the routes of concurrent requests | checked, proved |
| `AccountQuota` | one account and the answers of the token and the usage endpoint | checked, proved (in `QuotaOnCardsProofs`) |
| `AccountCards` | what the window makes of one account | checked (with `MCDashboard`), proved (in `QuotaOnCardsProofs`) |
| `QuotaOnCards`, `MCAccountQuota`, `QuotaOnCardsProofs` | the account of `AccountQuota` on a card of `AccountCards` | checked, proved |
| `QuotaWindows` | what is read out of the usage answers, and what a card then shows | checked (with `MCDashboard`), proved (in `QuotaOnCardsProofs`) |
| `Dashboard`, `MCDashboard`, `DashboardProofs` | the window's loads, events, logins and saves against the engine | checked, proved |

`MCMainProcess` and `MCVault` put machines side by side that share no variable: in a
behaviour one of them moves and the others rest in an initial state. Each is thereby checked
as it would be alone, and a run's number of states is the sum of theirs, not the product.
Nothing is shown of their interaction, because in the code they have none beyond what each
module has: the passes of `DaemonControl` and the operations of `CodexAuth` meet in the
account locks and files, which are in `CodexAuth`, where the daemon's work is a kind of
operation.

### OperationLocks

`accountLocks` is a map from key to the promise of the last request. A promise is
named by the task that made it: `tail[k]` is the map entry and `prev[t][k]` the
promise `t` still awaits. `Call` is `withAccountLocks` up to the first await (it
asks for the least key of its group), `Resume` a resolved await, `Nest` a body
that calls an operation with locks of its own (`adoptOfficialAuth` calling
`upsert`), `Release` the `finally` block. The chains implement `KeyedFifoLocks`:
the queue of a key is read off the chain of promises from its tail.

### CodexAuth

The files are variables (`vault`, `reauth`, `cur`, `auth`, `proj`), the token
server is `issued` and `live`, the official app is `app`, and `op` holds the
operations in progress. A token is an account and its number in the order of
issue; the server accepts those in `live`, and a refresh spends one and issues
the next. Each action is one turn of the event loop: `BeginSwitch` (guards of
`doSwitch` up to closing Codex), `CommitSwitch` (capture, four writes and the
verification, which have no await between them), `StartFails` (the rollback), and
so on. `CrashInCommit`, `CrashInRollback`, `CrashInPoint`, `CrashInMirror` stop
the program between two of the writes of one turn. The actions of official Codex
(`OfficialRotates`, `OfficialSignsIn`, `OfficialSignsOut`) write `auth.json` at
any time.

The locks of one request are granted together and in no particular order. The
code takes them one by one and in order; every behaviour of the code is still a
behaviour of the model, so what is shown for the model holds for the code (that
they are granted at all is the business of `OperationLocks`). The two stages of an
adoption are kept apart because what happens between them matters.

### DaemonControl

`run` holds the passes with their generation and place; `StartDaemon`, `StopDaemon`,
`SaveConfig`, `Tick` and `Relaunch` are the operations; `Inspect`, `BetweenAccounts`,
`UnderLock`, `TokenAnswers` and `UsageAnswers` are the turns of `runDaemonWorker`, and
`PassEnds` its return or its error together with the rest of `runDaemon`, which follows in
the same turn (so does the microtask that begins the next pass). Two histories tell what a
pass did after it was stopped: `late` counts the accounts it began and the logins it
mirrored (both ask `isCancelled` first), `synced` the logins written at the end of a token
refresh already under way, which asks nobody (`engine/token-refresh.js:233-234`, lines
84-98): one under the token stage, one in the repair after a 401.

### EngineWorkerHost

A call has two halves: what its caller sees (`st`) and how far its trip to the
worker has come (`trip`), which goes on after the caller gave up. `CallTimesOut` is
`abandonStuckWorker`, `ErrorEvent` and `ExitEvent` are the events of a worker,
which the host handles alike whichever worker they are about. When the worker goes down
under a call there are two layers: the host runs again what may be repeated and passes the
error on for the rest (`HostAfterDown`), and its caller, `httpJson` of
`engine/http-client.js`, runs whatever was answered with that error (`EngineAfterDown`).
`sent` counts how often a request went out, from either process. `promptExit` says
whether the exit of a killed worker is always seen before the 400 ms of the
restart delay are over; it is chosen once, at the start of a behaviour.

### LoginSessions

Each of `oauth.js`, `cursor-oauth.js` and `antigravity-oauth.js` has a variable
`active` and a pending file; `active[p]` and `file[p]` are these. A session
(`sess`) has what its caller was told (`said`) and how far its chain of awaits has
come (`flow`), which goes on after a cancellation. `Settle` is `settleActive`
called by a chain, `Stop` the same called by a cancellation or by the timer.
`MindsItsOwn` is the difference between Codex, whose continuations compare
`active` with their session, and the other two. `Quit` and `Launch` are the end
and the start of the program, with the restore order of `main.js:109`. `Finishes` is the end
of a login's chain: it may fail while it exchanges, reads the index, saves or switches. A pending
file is read as pending, as over, or as locked; deleting it is taken to succeed
(the code retries and then ignores a failure). Statuses and messages are left
out.

### AccountFileStore

`live` and `bak` are the files and their `.bak`; an account file holds a version,
the index a set of rows and the current account. An operation has no `await`, so
it runs alone; it is a sequence of turns (`ReadIndex`, `Reconcile`, `Check`,
`ScanOne`, `Rebuild`, `Listed`, `Act`), each of which decides from the files and
leaves in `todo` the writes that come of it, with what a failure of each leads to.
`WriteDone` makes one, `WriteFails` is its error path, `Crash` is the end of the
program between two of them (a copy to `.bak` may be left half done; a file that
is written through a temporary file and a rename is old or new). `Tear` damages a
file from outside. A locked file, and one that cannot be decrypted, is a choice of
the reading turn. The order by last use is a choice of one of the accounts seen.
`AccountVault` is the store as its callers (`CodexAuth` among them) take it to be.

### ClientAccounts

A behaviour is one of three products, which share the accounts, the index and the
operations and differ in where the client keeps its login: `login["db"]` is
`state.vscdb`, `login["cred"]` the operating system's credential. A login says who is
signed in, with which token, and whose profile lies beside it. `op[p]` is an operation:
what it loaded (`mem`, `keep`), read (`got`), captured to put back (`snap`), and what
was there when its body began (`was`). A switch is `BeginSwitch`, the closing of the
client (`ClientCloses`, `ClientStays`), the write, and `FinishSwitch` or
`SwitchRollsBack`. The Hub's rollback writes the credential first, in a child process, and
moves the index back afterwards (`SavesHalf`, `HubRollsBack`: a refresh, a listing or a kill
may come in between); a restore of the login that fails is logged and no more, and leaves
the operation `Stuck`. Cursor's database transaction is one turn; the Hub's credential is
written by a child process that may be stopped at its time limit although it has
written (`WriteTimesOut`). A sync and an import read the login in two steps, with the
generation by which Cursor notices that a switch came between. The client itself
starts, ends, signs in and out at any time; `still` says that it has not touched its
login since the operation began. What a refresh makes of the answers is in
`AccountQuota`.

### AccountIdentity

Sets of records and operators over them: `Same` (which depends on the product),
`Linked` (the closure of it), `Split` (no two mailboxes in one group unless an account
id is shared), `Keepers` and `Absorb` (the fold), `Saved`, `Locks` and `With` (a
sign-in). The order of a list decides where nothing else does; the model takes any.

### HttpClient

`live`, `byHost`, `direct`, `failed`, `good` and `env` are the variables of
`proxy-resolve.js` that all requests share; `req[r]` is a request with its first route,
the proxies it still has to probe, how often it took its route, and how often a server
acted on it (`acted`, for the property). Each wait is a step: a probe, the look-up of a
name, an attempt, the pause before the second one. `Outcomes` is the choice whether the
server had acted on an attempt that failed. The minute of a failed proxy and the half
minute of a host without one end at any time (`Expire`).

### AccountQuota, QuotaOnCards

One account of one product. `Begin...` are the operations with their early returns,
`AnswerToken` is an answer of the token endpoint, `CodexUsage`, `CursorUsage` and the
requests of `AntigravityUsage` are the answers of the usage endpoints. An answer is one
of the classes the code tells apart (`denied` is a 401 without a code, `invalid` one with
the code of a dead token, `page` an HTML page, ...). `acct` is what is saved; time is
what is left of each wait (`Pass`). `said` notes what the servers said last, for the
properties. `QuotaOnCards` makes the row of that account which is sent to the window
and asks `AccountCards` what the card shows.

### AccountCards, QuotaWindows

Functions of a row and of an answer. `CardStatus`, `Bars`, `Hero`, `Lens`, `Families`,
`AverageCaption`, `Blank` and so on are the functions of `desktop.ts` of the same purpose;
`CodexWindows`, `CursorWindows` and `AntigravityWindows` are the parsers of the three
usage answers, from the numbers on (where in the JSON a number is found is left out).
`Answered` is the row of an account after such an answer.

### Dashboard

`eng` is the engine (the number of the last change of its accounts, its current account,
interval, verdict on the official login, daemon and browser login), `op` and `job` the
operations in flight on one account and on all (or on the official login), `wire` the
messages on their way to the window in order, `loads` the loads in flight with the order
they began in (`LoadSequence`), `win` what is shown, `saves` the queue of intervals, `auto`
the automatic sync. A switch moves the engine's current account when it writes the index
(`SwitchWrites`) and tells of it at its end, or moves it back when it rolls back
(`SwitchUndone`, then the failure): `eng.tx` is that switch. The end of a browser login
saves (`LoginSaves`) and then switches (`LoginSwitched`), also when the login was cancelled
meanwhile, in which case nobody is told (`eng.chain`). `eng.hush` is the change from which a
load must have been made to show a current account that was moved silently. A handler of the
main process runs in one turn up to its first `await`; that part is taken with the step that
asks for it, because it commutes with all that may happen before the request arrives. `left`
is the budget of the behaviour: what may still happen.

## 3. Runs

| Run | Instance | What it shows |
|---|---|---|
| `main_process` | locks: 3 tasks, 4 keys, the 4 plans the callers use; worker: 2 calls, 2 processes, 2 restarts, exits seen in time or late; background sync: 2 accounts, 2 intervals, 4 starts and stops a session, relaunches | no deadlock, no starvation, refinement of the FIFO queues; no request out more than twice, every call ends, with exits in time the worker comes back; cancellation, status, setting, starts served |
| `worker_replay` | 2 calls, 2 processes, 3 restarts | **violation**: a token POST goes out a second time after its worker went down |
| `codex_crash` | 2 accounts, 2 operations (both may be the user's), 2 tokens per account, switches, sign-ins, adoptions, deletions, refreshes, crashes, sign-outs and API keys | no lost update, no foreign login overwritten, isolation of a switch, background work does not sign a user in again, no self-made conflict beyond the named exceptions |
| `codex_queued` | 2 accounts, 2 operations in progress, both may be the user's, one after another: switches and token refreshes | **violation**: a rollback of a queued switch brings a spent token back |
| `vault` | files: 2 accounts, 2 versions, four worlds of trouble; logins: 2 accounts, 1 user operation beside 1 background one, 3 tokens per account | the account files implement `AccountVault`; a readable index forgets no account; only a listing without secrets, a failure or a kill loses a damaged account, a deleted one does not come back; working tokens are kept by saves and by mirrors |
| `store_damage` | 2 accounts, 2 versions, any file damaged, nothing else fails | **violation**: a damaged account whose `.bak` is good vanishes |
| `login` | 3 sessions, 2 polls per session, restarts | files, callers and sessions agree; Codex sessions end by themselves; every login gets an answer |
| `login_stale` | 2 sessions | **violation**: a cancelled Cursor login ends the next one |
| `clients` | 2 accounts, 2 operations (one the user's), 2 tokens per account, each of the three products, sign-ins and sign-outs of the client, crashes | no lost update, syncs follow the client, profiles stay apart, a failed switch puts back what it found; and the stores of up to 3 records of `AccountIdentity` |
| `http` | 2 requests, 2 hosts, a proxy and its SOCKS form, 1 redirect | a POST is acted on at most once, what is forgotten is forgotten for all hosts, every request ends |
| `quota` | 1 account of each product, 2 failures counted, waits of 2 and 3, answers of every class | only a refusal asks for a sign-in, only usage bans, a token is sent once, a failure waits, the windows stay on the card |
| `dashboard` | 2 accounts, 2 intervals, twenty-two budgets | a quiet window shows what it was to be told, nothing older comes back, a login shown as open is closed; and the cards and answers of `AccountCards` and `QuotaWindows` |

**Statements without states.** `AccountIdentity`, `AccountCards` and `QuotaWindows` have no
variables. What they promise is stated as `ASSUME`s of `MCClientAccounts` (`GroupsHold`,
`FoldsHold`) and of `MCDashboard` (`CardsHold`, `CodexAnswersHold`, `CursorAnswersHold`,
`AntigravityAnswersHold`, `SummaryStands`), which TLC evaluates in the runs `clients` and
`dashboard` over all inputs in bounds: every store of three records with two emails and
three keys, known or not, one of which is an email (only of records that have one,
`KeysAreOwn`); every row whose windows are nothing, 0, at a limit or just above one; every
Codex answer of two windows short, long or untold; Cursor's amounts at and below the limit;
Antigravity answers of two buckets, or of one window in four places. TLC stops with an error
when one is false. All of them but `StaysApart` and the merge of a whole answer
(`SummaryStands`) are proved as well, for every store, row and answer (section 4).

**Bounds.** Two accounts are enough for a switch from one to another and an outsider; two
operations for every pairwise interleaving. `MaxToken` 3 lets the official app and the
manager each rotate once after the first token; the runs with crashes or with two users take
2 to stay small. The logins of `vault` leave adoptions out, to stay small; the theorems have
them. `MaxGeneration` 4 allows stop and start twice during one pass. `MaxRestarts` is 3 in
the code and in `worker_replay`, 2 in `main_process` (a worker may go down, come back and go
down for good), any number in the theorems. The three sessions of `login` are one, its
successor and one after a restart. In `vault` the four worlds of the files are: everything
is called and fails, locks and is killed while only the index is damaged; any file is
damaged and nothing fails (`store_damage` has this one alone); the repair of a damaged
account is killed; it is killed, fails, or meets locked files. In `http` two requests share
what was found, and the proxy and its SOCKS form are the two routes there are besides the
direct one. In `quota` the waits keep their order (15 s, 1 min, 15 min, 30 min become 2, 2,
3, 3) and a header may ask for more than the longest. A budget of `dashboard` takes two or
three topics together (clicks and a sync, a login and a pass, a cancellation and the next
login, ...) and, where the behaviours become too many, says which operations are clicked on
which accounts (`asks`), which kind of login is started (`targets`), which order is given
(`orders`) and whether a switch may break after it wrote the index (`Breaks`); everything at
once is out of reach. A login begun while a switch is in flight is in none of them, but in
the theorem. The accounts of the Codex, store and client runs are interchangeable (symmetry;
no liveness is checked there).

**Fairness.** The locks assume that a resolved promise resumes its awaiter and that a
body ends: bodies await timed child processes, timed requests and file I/O only.
The daemon assumes that a pass goes on: its locks are granted by the former, its
requests are timed. The worker host assumes that timers fire and that the system
reports the end of a process. A login session assumes that its timer fires. The dashboard
assumes that messages arrive in order, that a snapshot is answered in the end (its
inspections have timeouts) and that the timer of the polls runs. `http` needs no fairness:
`EveryStepCounts` says that each step of a request leaves it less to do. No fairness is
assumed of users, of official clients, of ticks or of workers answering. Deadlock is not
checked where the system may rest (Codex operations, worker calls, logins, accounts and
the window at their bounds).

Outside the bounds of the Codex model: a second failure while a first is being
rolled back, a failing save of an account outside the switch transaction, and
accounts without a refresh token (they take the branch of a skipped account).

### Disagreements with the repository's own words

Each is a run that TLC must find violated, and a finding of `PROJECT.json`.

* `worker_replay`: `README.en.md:132`, `docs/architecture.md:178-180`, `CHANGELOG.md:467-469`
  and the comment at `src/main/engine-worker-host.js:183-184` say that a token POST is not
  replayed when the worker goes down. The host keeps to that and passes the error on; its
  caller, `httpJson` (`engine/http-client.js:411-419`), catches this error and runs the request
  in the main process whatever `idempotent` says. `test/http-client.test.js:92` tests that
  fallback for a GET only. What holds of both layers together is `RepeatedOnce`: no request
  goes out more than twice, nor from the main process while a worker may still answer it.
  `PostOnce` of `http` and `TokenSentOnce` of `quota` speak of one call of `httpJsonLocal` and
  of the operations above the transport: this replay is between them.
* `codex_queued`: `account:switch` (`src/main/ipc-handlers.js:1008`) reads the current account
  before it queues, to lock it too. The comment above it (lines 1002-1005) says that a refresh
  therefore cannot rotate the outgoing account's token in the middle of the transaction and
  have it destroyed by a rollback. Behind another switch it holds the lock of the wrong
  outgoing account, and a refresh may spend the token that its rollback restores
  (`RollbackTokenKept`). `SwitchIsolated` holds all the same, since the switch undoes only
  itself: it says nothing of whose lock is held.
* `store_damage`: `docs/troubleshooting.en.md:164-165` says of account files that malformed
  JSON is restored from `.bak` when possible. `listAccts` restores a damaged account only when
  it is called with secrets (`engine/account-file-store.js:650`), and nothing in the application
  calls it so: any listing, the one at startup among them (`src/main/main.js:62`), puts the
  damaged file aside and leaves its good `.bak` where nobody reads it, because a missing file
  is never restored (`NothingVanishes`). That nothing else loses an account, but a kill or a
  failure in the middle of a repair, is `OnlyListingsLose`.
* `login_stale`: the end of a Cursor login's chain (`engine/cursor-oauth.js:248-251`)
  settles whatever session is active. A login that was cancelled during a pause
  of its polling throws `oauth_cancelled` two seconds later and so cancels the
  login that the user began meanwhile; a late result would complete it. The
  comment at `engine/oauth.js:528` says of Codex that a stale event must not settle
  a newer session; the Cursor and Antigravity modules have no such test.

### Known behaviours

The models do what the code does in each of these. The properties leave them out, each at
the place named, and no run is spent on them; anyone can bring them back as a counterexample by
taking the exception out of the property.

* *Adoption saves a spent token.* `adoptOfficialAuth` (`engine/auth-state.js:353`) reads the
  official login before it queues for the locks. A refresh in flight at that time spends the
  token read, and the adoption then saves it over the new one. The comment at
  `engine/oauth.js:405` says that the lock keeps a refresh and a login from overwriting each
  other with stale copies. (`WorkingTokenKept` excepts the save of an adoption, `Adopts`,
  and a switch that takes over from `auth.json` what an adoption or a crash left there,
  `SettlesOn`; the theorem shows that nothing else needs an exception.)
* *A sign-in saved late leaves the vault behind.* A sign-in whose tokens were issued before a
  refresh and saved after it puts the older token into the vault; so does the rollback of a
  switch beside a refresh. A mirror that follows may then take a working official login back to
  the vault's spent one. (`LoginSurvivesMirror` excepts it as `Behind`; it needs four tokens.)
* *Conflicts the manager makes.* A rollback returns to one that was there; an adoption that waits
  for its locks may point the index at a login that official Codex has left; and the file of a
  deleted account that the index still names may come back. (`NoHomemadeConflict` names the
  three, with the crash between two writes; the theorem shows that there are no others.)
* *A stopped pass may still write the official login.* A token refresh under way when the sync is
  stopped ends with `syncCurrentAuthIfNeeded` (`engine/token-refresh.js:233-234`, 84-98), which
  asks no cancellation: once for the token stage, once more for the repair after a 401 of the
  same account. The write is of the account that is current, and under its lock.
  (`StoppedPassBeginsNothing` allows these two, `synced`.)
* *A repair that is not finished.* A damaged file is put aside before its `.bak` is copied back
  (`engine/account-file-store.js:296`). Killed or failing in between, the account has no file,
  and a missing file is not restored. (`OnlyListingsLose` excepts it.)
* *An adoption beside a deletion* leaves the index at an account without a file: the
  adoption saves, gives up the account's lock, and only then points the index at it
  (`engine/auth-state.js:360`).
* *A login killed between its account and its index row* is made current by the next rebuild
  of an index without rows (`pickRebuiltCurrentId`), where a first login otherwise makes
  nothing current.
* *An orphaned worker.* The exit of an abandoned worker that takes longer than 400 ms makes
  the host forget the successor (`NobodyOrphaned` needs `promptExit`); and any message resets
  the restart count, so the bound of three restarts is per worker that stays silent.
* *A credential written too late.* The child process that writes the Hub's credential may be
  stopped at its time limit although it has written. `wroteCredential` is set after the
  `await` (`engine/antigravity-switch.js:180`), so the new login stays, though the comment at
  line 262 says that the user gets the client back on the previous login.
  (`FailedSwitchRestores`, `TooLate`.)
* *A route that is cleared while it is probed.* `liveSignature` is read again after the
  probe was awaited (`engine/proxy-resolve.js:493`). Another request's failure has cleared it
  meanwhile: the request ends with a TypeError without having been sent, where
  `docs/architecture.md:132` says that requests follow a discovered proxy. (`TakeRoute`.)
* *An Antigravity card without windows.* `hideStaleQuota` (`desktop.ts:1597`) hides the
  windows whenever the access token has expired, so any passing failure with an expired token
  empties the card, against `docs/architecture.md:167-169`. An Antigravity answer in which no
  request told a window, but whose tier is known, replaces the windows known before by none
  (`engine/antigravity-quota.js:766`). (`LeftoverShown` excepts both.)
* *A page of a proxy with 401 or 403.* A Cursor or Antigravity refresh answers "HTTP 401"
  (`engine/cursor-token.js:111`), which the window does not take for a passing failure
  (`TokenSoft`); the card hides its windows until the next try ends in "pending".
* *A rollback that fails.* The restore of the client's login may fail; it is logged
  (`engine/cursor-switch.js:246-252`, `engine/antigravity-switch.js:247-258`) and the client keeps
  the new login beside the old current account. (`FailedSwitchRestores` excepts it, `Stuck`.)
* *A current account moved silently.* A Codex login cancelled while it is saved and switched
  (`engine/oauth.js:461-464`) finishes its switch and tells nobody; a load that falls between the
  index write of a switch and its rollback (`engine/switch.js:371-373`, 393-398) shows a current
  account that is none, and the failure is not followed by a load
  (`useAccountActions.ts:497`). The window is right again with its next load, whatever causes
  it. (`QuietShowsTruth` excepts the current account until then, `hush`, and nothing else.)
* *Low windows shown as normal.* For Cursor and Antigravity the window shows the statuses
  WARNING and LOW_QUOTA as it shows NORMAL, 正常 with the dot of an active account
  (`desktop.ts:829-845`, `StatusText`). A card whose number is zero may say so where another
  window has something left; `ZeroIsSaid` speaks of the words shown and says just that.
* *A badge set ahead.* A Codex login is saved and the switch to it fails: the window marks
  the new account as current all the same (`oauth-flow.ts:88`), although the comment at line
  45 says that the switch already happened. (`QuietShowsTruth`, `win.ahead`.)
* *An older verdict for the length of a load.* `completeCodexManually` shows the verdict it is
  answered, reads the status, and only then begins a load (`useOAuthFlow.ts:240-246`). A
  snapshot asked for earlier may arrive in between and put the verdict from before the login
  back; the status it reads may, like that of a cancellation, hide a login begun meanwhile.
  (`NoOlderVerdict` and `PendingKept` except these steps.)
* *Operations that fail half way.* A check of all tokens that throws, and a resolution or an
  import that fails, load nothing (`useAccountActions.ts:546`, `:420`, `:641`), although the
  comment above the hook says that each action reloads the snapshot afterwards. What they had
  done shows with the next load. (`JobFails`: such changes are not among those told.)
* *Windows told twice.* `mergeFamilyWindows` takes the remaining share and the reset time
  from different answers, so a five-hour window dropped for an implausible reset
  (`engine/antigravity-quota.js:407`) takes a plausible number of another answer with it; and
  a "1" that means one percent is read as 100 % (`remainingFromFraction`, line 49).
* *A Cursor card says EXPIRED because of the plan* while its one number is that of a part that
  has something left.
* *A fold after a fold that was killed* may delete accounts whose locks the sign-in does not
  hold, since the locks are those of the records that match it (`FoldStaysInLocks` supposes a
  store in which no two records were the same before).

## 4. Proofs

TLAPS proves, from the named assumptions on the constants only:

* `CodexAuthProofs`: `TypesCorrect`, `NothingLost` (`NoLostUpdate`), `SwitchAlone`
  (`SwitchIsolated`), `NeverTakenForOurs` (`AlignedIsTrue`), `OnlyUsersSwitch`
  (`NoAutomaticSwitch`), `WorkingLoginSurvives` (`LoginSurvivesMirror`), `VaultKeepsWorking`
  (`WorkingTokenKept`; the run `vault` checks these two through an instance of the module),
  `ConflictsComeFromOutside` (`NoHomemadeConflict`). The invariant is a conjunction of a
  statement about each operation, `Local`, that depends only on the files its locks guard,
  with exclusion between operations (`Apart`) and the honesty of the projection (`Honest`: a
  projection that names the current account was written from a login of that account). One
  lemma (`GuardedStep`) says that an operation changes only files it has locked and so leaves
  every other operation's `Local` alone; each group of actions is then a lemma of its own.
  Where the tokens are is a second invariant on top of it: `TokenInv` (everything the manager
  has was issued for its account, and a token just issued to an operation is known to nobody
  else until it is saved). None of these theorems has a hypothesis on the operations: they hold
  with adoptions, crashes and any number of users, and the exceptions are in the properties, one
  for each behaviour of the code that needs it. Only one part of `WorkingTokenKept` is finer:
  where nobody adopts and nothing crashes (`NoAdoption`), not even a switch that settles on the
  login it finds saves a spent token, because the token of an official login that the
  projection does not show is nowhere in the manager, so the manager cannot have spent it
  (`ForeignInv`). For conflicts, `Conflict` says what one is in terms of the files, and each
  write of a step is of one of a few kinds that cannot make one, but for the exceptions.
* `LoginSessionsProofs`: `TypesCorrect`, `PendingOnDisk`, `NobodyIsForgotten`,
  `OverStaysOver`, `CodexSessions`. The invariant adds to the properties that the
  session in progress waits and belongs to its product (`ActiveIsPending`), that
  sessions and logins are numbered in the order they are made (`Numbered`), and
  that only Cursor polls. Every action is one of four kinds, each a lemma: a chain
  moves on, a chain ends, the session in progress is told, a session opens.
* `DaemonControlProofs`, of the daemon: `DaemonTypes`, `DaemonOneTimer`, `PassesNeverOverlap`,
  `StoppedPassIsHarmless` (`StoppedPassBeginsNothing`), `StatusIsTrue`
  (`StatusTellsTheTruth`), `DaemonIsRemembered` (`RunningAsRemembered`). That passes never
  overlap is not inductive: the invariant says that the flag `daemonInFlight` is set exactly
  while one pass is in progress, that a queued run waits only behind a pass, and that a pass
  has the generation of a start that was made. That a stopped pass is harmless needs to know how
  many logins its requests in progress may still write at each place (`Few`, `Harmless`).
* `DaemonControlProofs`, of the locks: `LockTypes`, `ChainShape`, `LocksExclude`, `LocksAreFifo`
  (the refinement `ImplementsFifo`), `NobodyWaitsInACircle`. Mutual exclusion is not inductive;
  the invariant says that the tasks in line for a key can be numbered so that each awaits the
  one before it, the tail is the last and only the first awaits nobody (`ChainShape`). For the
  refinement, the recursion of `LineOf` follows that numbering down, so its value is the one
  `Walk` along the chain to the tail; a request appends to it and a release takes its first,
  who is the owner. That the innermost key held exists rests on there being finitely many lines
  at a time (`Bounded`). `NobodyWaitsInACircle` says that of any tasks, finitely many or not, one
  does not wait for another of them: each goes up the order of keys (`Uphill`), so of tasks that
  wait the one that wants the last key, and is first among them in its line, waits for none of
  them. The specification of the locks is `LocksSpec`: its names differ from those of the daemon,
  so that one module extends both.
* `RequestProofs`, of the host: `TypesCorrect`, `GoesOutTwiceAtMost` (`RepeatedOnce`),
  `RestartsAreBounded`, `NobodyOrphaned`. What a request has sent and may yet send from the
  worker comes to one as long as the main process may have to run it, and to two in the end
  (`SentCall`); with prompt exits there is one process at a time (`OneProcess`); a restart timer
  is set only while a restart is left (`Budget`). That restarts are bounded at all is shown by
  the theorem alone: no property of a run speaks of it. The specification of the host is
  `HostSpec`.
* `RequestProofs`, of the routes: `TypesAreRight`, `ActedOnOnce` (`PostOnce`),
  `ForgottenIsForgotten` (`ForgottenForAll`), `EveryStepLeavesLess` (`EveryStepCounts`). For
  the first, a request which may still go out without being asked whether it may be repeated
  has not been acted on (`Safe`). That every step leaves less to do rests on what the
  candidates of a request are: no list of them is longer than what was found, inherited and
  remembered, each with its SOCKS form, and a request only ever walks down the one it made.
* `ClientAccountsProofs`: `TypesAreRight`, `CopiesAreCurrent` (`CopyIsCurrent`),
  `SyncsFollowTheClient` (`SyncFollowsOfficial`), `FailedSwitchesRestore`
  (`FailedSwitchRestores`), `ProfilesAlwaysStayApart` (`ProfilesStayApart`). No key is held
  twice (`Exclusive`) and an operation at a certain point holds, or asks for, the keys of what
  it is about to write (`Shape`); `Kept` says what it remembers of the files as long as nobody
  has written them. Profiles need more: a login captured to be put back carries its own
  profile, and that of a client other than Cursor always does (`OthersStayApart`). A rollback in
  two turns keeps what it has to put back as long as its keys are held, also between the
  credential and the index.
* `ClientAccountsProofs`, of the records: `GroupsPartition`, `MailboxesNeverMix`,
  `FoldsAreLocked`. There is no state here: the theorems say of every set of records what the
  `ASSUME`s of `MCClientAccounts` say of some. Being linked is the least closed relation, and an
  equivalence because being the same goes both ways (`LinkedClass`); `Split` cuts a class into
  parts that cover it and share nothing. In a store without duplicates a sign-in links only what
  is the same as the record it writes (`LinksOfSaved`), and that is the same as the login itself
  (`SavedMatches`), whose locks it holds. `FoldsAreLocked` supposes that a key is an email only
  of a record whose email is known (`KeysAreOwn`): the code takes the email for a key only where
  it has one.
* `AccountFileStoreProofs`: `StoreTypes`, `StoreIsAVault` (the refinement `VaultSpec`),
  `DeletedStaysForgotten` (`DeletedIsForgotten`), `OthersLoseNothing` (`OnlyListingsLose`),
  `IndexKeepsItsRows` (`RowsAndCurrentStay`). An operation's remaining writes are a
  sequence, and the invariants speak of each of them and of its successors: every value due
  for an account is its newest version, or nothing where it is deleted (`VaultInv`); nothing
  on disk, in memory or due names a deleted account, but for an index that is about to be
  replaced (`ForgetInv`); each write to an account stores a version, or the next one does,
  or it puts aside a file that cannot be read and that is not asked for or cannot be
  repaired (`MendsInv`, `PutAside`); an index in memory or due has the rows and the current
  account of the readable one on disk (`RowsInv`). `OthersLoseNothing` holds in every world.
  `IndexKeepsItsRows` supposes that accounts are not damaged where writes fail: a repair
  given up half way leaves its account out of the scan from which an index is rebuilt.
* `DashboardProofs`: `DashboardInvariant`, `TheChoiceIsKept` (`ChosenKept`),
  `NoVerdictGoesBack` (`NoOlderVerdict`), `RestShowsTruth` (`QuietShowsTruth`),
  `OpenLoginIsShown` (`PendingKept`). None of the four is inductive: what the window shows
  next depends on messages still on their way. The invariant says what each will find. An
  answer to a load names a load that awaits it, the only one in that slot, with the verdict
  that the load has read (`OnTheWay`, `Answered`). The save under way is that of the first
  choice in the queue, and a snapshot to be shown after the last save has its choice
  (`SavesQueued`). A current load has read a verdict no older than the one shown; where a
  status on its way tells a newer one, the answer to the sign-in comes before it and
  supersedes that load (`Verdicts`). While a login is open, a poll or a snapshot to be shown
  says so (`PendingTold`). And whatever the window was to be told and does not show is in a
  current load, or a load is owed: by an event, a timer, an operation or a sync (`Truth`);
  of the current account this is said of what was moved with a word (`hush`). A switch in
  progress keeps the verdict it has read, and a login that is being saved is open unless it
  is over (`SwitchFine`). A step takes at most the first message, drops polls and adds
  others behind; `Carries` says so once for all actions, as a map from the messages after
  the step to those before, so that each part of the invariant is preserved by one lemma per
  kind of step, and an action has to show only what it tells and which loads it begins or
  ends. The theorems hold for any number of loads, messages, choices and accounts, and for
  the initial states of every kind of launch.
* `QuotaOnCardsProofs`, of the account: `OnlyRefusalsAskAgain`, `BansAreTheUsageEndpoints`,
  `TokensAreSentOnce`. The invariant adds that a Codex account is not banned while its
  windows are asked for (`WhileAsked`), and that a token has been sent exactly where its answer
  is awaited (`Posted`). Of the account on its card: `FailuresWait` (`FailureWaits`),
  `LeftoverIsShown` (`LeftoverShown`), `OffersAreServed`. These need what the account remembers
  of failures (`Remembered`): as long as all that was said passes, nothing is noted against the
  login (`Unhurt`), and after a failure something holds the next request back (`Held`).
* `QuotaOnCardsProofs`, of the card: `RingsAlwaysAgree`, `NothingIsInvented`,
  `ZeroIsAlwaysSaid` (in the words the card shows), `ShownCanBeRefreshed`. There is no state
  here: the theorems say of every row what the `ASSUME`s of `MCDashboard` say of some. The
  smallest of four windows is the smaller of the two smaller ones (`FourLeast`), so the one
  number is always the tighter ring.
* `QuotaOnCardsProofs`, of the answers: `CodexWindowsArePlaced`, `CodexAnswersAreShown`,
  `CursorAnswersAreShown`, `AntigravityAnswersAreShown`, `LaterAnswersOnlyErase`, for any
  percentages, durations, amounts and limits, and for lists of any number of buckets. An account
  that was just answered is neither barred nor failed (`AnsweredIs`), so what holds of every
  card holds of its card; only where Codex's weekly window blocks the other are the numbers not
  those of the rings, and then all of them are 0 (`AnsweredIsShown`). The engine decides whether a
  quota is used up from the answer and the window from the row: `LimitedIsShown` follows because
  the row tells the verdict, and what else makes a card say so makes the engine say so.
  `LaterAnswersOnlyErase` rests on the first of a set of positions not changing when later
  positions are added (`FirstStays`). Two hypotheses stand for `WindowsAssumption` of
  `QuotaWindows`, which TLC evaluates in `dashboard`. How `AllBuckets` puts the lists of an answer
  one behind the other uses `SelectSeq`, of which the provers know nothing: that the first list
  of an answer stands against the others is for them a case of any two lists.

The assumptions are those on the constants that the modules name (`DaemonAssumption`,
`ConstantsAssumption`, `CardsAssumption`, `StoreAssumption`, ...), which TLC evaluates in every
run, and the hypotheses named above.

Model-checked only: liveness (`EveryCallRuns`, `StartIsServed`, `EveryCallSettles`,
`WorkerComesBack`, `EveryLoginEnds`, `PendingSettles`), which is out of the prover's reach;
`RowsAndCurrentStay` where accounts are damaged and their repair may fail (the last world of
`vault`); and that no
two records are the same after a fold (`StaysApart`: a fold over a sequence, induction over data).

## 5. Hazards beside those of PROJECT.json

`PROJECT.json` names the hazards that properties are about. These are others of the same code,
with the reason why no property of a run is spent on them.

| Kind | Where | What | Why no property |
|---|---|---|---|
| timeout_retry | `engine/quota.js:95` | The repair after a 401 is forced, and a forced refresh ignores token_next_retry_at: an automatic quota refresh may post the token before the wait the server asked for is over. | In the model (Repairs); docs/architecture.md:157 speaks of the token's own refresh, so it is not clear that the repair should wait. |
| numeric_edge | `engine/quota-retry.js:75` | The retry time is counted from the start of the operation: a request as slow as a short Retry-After leaves no wait at all. | FailureWaits speaks of failures that took no time; the rest is bounded by MinRetry less the age of the operation. |
| stale_state | `engine/quota.js:295` | probeUsageOnly saves an answer without windows over the last known ones: it does not ask codexQuotaHasWindows, as refreshQuota does. | In the model (Kept); no document says what a probe should do. |
| interleaving | `src/renderer-react/app/useOAuthFlow.ts:72` | The poll that saw the end of a login awaits a load before it announces it; a login started meanwhile has reset the key of what was announced, and the old outcome is announced once more, against the 'exactly once' of line 46. | In the model (Report, MarkPending); the second announcement does no harm to the state the properties speak of. |
| partial_failure | `src/renderer-react/app/oauth-flow.ts:88` | A Codex login is saved and the switch to it fails: the window marks the new account as current all the same. | The code does that and so does the model (LoginSwitched); QuietShowsTruth excepts a badge set ahead of a load (win.ahead). See README. |
| stale_state | `src/renderer-react/app/useDashboardLoader.ts:241` | The accounts to sync are chosen when the sync is queued, those in operation left out; an operation that begins later is met by the sync. | In the model (QueueAutoSync); the engine's lock on the account orders the two. |
| stale_state | `src/main/ipc-handlers.js:1160` | The tick carries the verdict the pass inspected at its start; a switch in between has told a newer one. | In the model (PassBegins, PassEnds); the load the tick starts makes up for it, and NoOlderVerdict speaks of loads. |
| interleaving | `src/renderer-react/app/useOAuthFlow.ts:231` | The status read after a cancellation arrives after the user has started the next login and hides it as pending. | The code does that and so does the model (CancelShown); PendingKept excepts that step. |
| stale_state | `src/renderer-react/components/FloatLens.tsx:232` | The float window loads its accounts without any order of loads: of two that overlap the older may be shown last. | Not modelled: presentation of the float window. |
| ordering | `engine/operation-locks.js:9` | Requests queue by awaiting the promise found in the map; a release that woke more than the next one would let requests overtake or run together. | Covered with the hazard beside it in `PROJECT.json`. |
| liveness | `engine/operation-locks.js:13` | The body may throw, or throw before its nested lock calls; every held key must be released or all later operations on that account hang. | Covered with the hazard beside it in `PROJECT.json`. |
| partial_failure | `engine/token-refresh.js:234` | A rotated token arrives and saveAcct throws: the new token exists in memory only. | Write failures outside the switch transaction are outside the model's bounds. |
| atomicity | `engine/auth-state.js:360` | adoptOfficialAuth saves the account, releases its lock, and only then points the index at it: a delete in between leaves the index at an account without a file. | The code does that, and so does the model (SaveAdopt, BeginDelete, PointAdopt): a delete waiting for the account lock runs as soon as upsert gives it up. No document promises otherwise. |
| protocol_sequence | `engine/account-file-store.js:617` | Deleting the current account is refused, yet a switch in progress moves what current means: a delete queued behind it must see the new value. | In the model: MayDelete is asked in BeginDelete, under the account lock a switch to that account holds too. |
| ordering | `engine/daemon.js:222` | The daemon decides to mirror from a state it inspected after the quota request and writes in the same turn; a decision kept across an await would overwrite a newer login. | Covered with the hazard beside it in `PROJECT.json`. |
| interleaving | `src/main/ipc-handlers.js:1196` | The finally block of one pass and the timer may both begin the next one. | Covered with the hazard beside it in `PROJECT.json`. |
| crash_recovery | `src/main/ipc-handlers.js:1383` | After a crash the daemon comes back as the user left it, without saving anything anew. | Covered with the hazard beside it in `PROJECT.json`. |
| ordering | `src/main/engine-worker-host.js:53` | The exit of a killed worker may be seen after its successor was started: the handler is not tied to a child, forgets the successor and fails its calls; the successor keeps running and nobody will kill it. | The orphan itself is what the code does when an exit takes longer than 400 ms; NobodyOrphaned (proved) speaks of prompt exits only. |
| partial_failure | `src/main/engine-worker-host.js:117` | A fork that fails in a restart schedules no further one: the worker stays down though restarts are left. | WorkerComesBack exempts it: calls keep running in the main process. |
| interleaving | `engine/oauth.js:456` | The browser repeats the callback, or the user pastes the URL, while the code is being exchanged: a second exchange of a spent code would fail the login. | The flag processing answers it in one turn; in the model the callback leaves the state that accepts one. |
| protocol_sequence | `engine/oauth.js:543` | A Codex or Cursor login asks only for each other, an Antigravity login for all three: a Codex login may start while an Antigravity one is pending. | The check is one-sided in the code; nothing in the repository says whether the two may be pending together.  That Codex and Cursor exclude each other is proved (CodexSessions). |
| partial_failure | `engine/oauth.js:178` | clearPendingFile swallows its errors: a pending file that another program holds for longer than the retries stays, and the next run listens for a login that is over. | Deletions are taken to succeed in the model (withTransientIoRetry); OverIsRemoved rests on it. |
| stale_state | `engine/cursor-oauth.js:193` | While the profile of a saved Cursor login is fetched the account may be deleted; the login then saves its own copy again (loadCursorAcct(...) || result.account). | In the model (ClientAccounts.SaveMeta); what the code then should do with the deleted account is not said anywhere. |
| stale_state | `engine/antigravity-local.js:198` | A sync of Antigravity reads the client's login, and a switch ends before it gets the switch lock: unlike Cursor's it has no generation to notice, and moves the current account back. | In the model and exempted in SyncFollowsOfficial: the next sync (seconds later) moves it forward again, and nothing in the repository promises more for Antigravity. |
| timeout_retry | `engine/antigravity-credential.js:239` | The process that writes the credential is stopped at its limit although it has written: the switch takes it for a write that failed and puts nothing back. | The code does that: writing is only noted after the await (antigravity-switch.js:180), and a credential that could not be read before is not put back. FailedSwitchRestores excepts both; see README. |
| partial_failure | `engine/antigravity-local.js:209` | The Hub's credential cannot be read: the sync falls back to the login of the IDE's database, which may be another account. | In the model (FirstRead); which of the two logins counts for the Hub then is not said anywhere. |
| partial_failure | `engine/cursor-db.js:236` | Reading the written values back after COMMIT fails: the switch believes that nothing was written, and a busy database makes it try again and capture the new login as the one to restore. | The read follows in the same connection and turn; taken to succeed in the model. |
| stale_state | `engine/cursor-token.js:155` | A refresh of all accounts holds only the account's own lock; a switch of another account captures this account's profile meanwhile, and the refresh saves the older record over it. | The profile is captured again by the next switch or sync; the model has it (SaveRecord writes keep), no property forbids it. |
| crash_recovery | `engine/antigravity-switch.js:163` | The manager is killed between closing the client, writing its login and moving the index: nothing of the switch is remembered. | Covered with the hazard beside it in `PROJECT.json`. |
| protocol_sequence | `engine/cursor-switch.js:56` | The processes cannot be listed once Cursor was asked to close: killCursor throws before the path to start it again is known, and Cursor stays closed. | In the model (ClientStays); the comment about the previous login is about the login. |
| stale_state | `engine/proxy-resolve.js:493` | liveSignature is read again after the probe of it was awaited; a request that failed meanwhile has cleared it, and the request ends with a TypeError without having been sent. | The code does that and so does the model (ProbeLive, TakeRoute); EveryStepCounts shows that the request ends. See README. |
| stale_state | `engine/proxy-resolve.js:503` | A proxy that another request marks as failed while it is probed is taken, and saved as lastGood, although it was just marked. | In the model (ProbeAnswers); it fails over again, and the mark keeps later requests off it for its minute. |
| other | `engine/http-client.js:393` | A failover from a proxy to no proxy goes direct although the name was found to be forged: only the first attempt asks hostLooksPoisoned. | In the model (FailOver with route Forged); TLS refuses the wrong host, and nothing in the repository says what should happen. |
| stale_state | `engine/proxy-resolve.js:450` | syncProxyEnv overwrites the environment's proxy with the one in use, and the candidates are read from the environment: the inherited proxy is not tried while another is applied. | In the model (env, Inherited). |
| stale_state | `engine/auth-state.js:353` | The official login is read before the locks are taken and saved after: a refresh in flight rotates the token meanwhile and the adoption saves the spent one over it. | The code does that and so does the model (CallAdopt, SaveAdopt): it is the stated exception of WorkingTokenKept, and the theorem shows that it is the only one. |
| unreliable_delivery | `engine/token-refresh.js:236` | The server rotates a single-use token and the answer is lost: the saved token is spent and no retry can get the new one back. | An inherent loss: WorkingTokenKept speaks of tokens that still work. The account ends in requires_reauth (RefuseToken). |
| ordering | `engine/account-file-store.js:296` | The damaged file is put aside before its .bak is copied back; killed or failing in between, the account file is missing, and a missing file is not restored. | A kill or a failing write in between does lose the account although its .bak is good: OnlyListingsLose excepts it, and nothing in the repository promises otherwise. |

In the window, besides: the outcome of an operation that ends after a load began is shown a load
later; a stopped pass tells the window nothing; the pause announced after a conflict does not
close the gate of the automatic sync (`useDashboardLoader.ts:245`); a deletion that failed half
way, or a switch that failed after its product changed, is not followed by a load; closing one
product's confirmation may close another's. They leave a stale picture until the next load.

## 6. Not modelled

* Views, wording, colours, geometry: `App.tsx`, `AccountsView.tsx`, `FloatLens.tsx`, the float
  window, the taskbar and the tray. They present what the modelled hooks compute.
* The updater: a status object around `electron-updater`, which does the work and is not in the
  repository.
* Configuration, logging, encryption, brand, format drift, scripts and tests: constants, reads
  and build tooling, without a protocol. The recovery of a damaged settings file belongs here.
* `mapLimit`, the bounded pool of the batches: each of its workers runs operations that take
  their locks like any other, which `OperationLocks` has.
* Of the store: the rewrite of plaintext records of old versions, and `snapshotMeta` /
  `restoreMeta` (the switches of `ClientAccounts` put the current account back in one step).
* Of a failed switch of the Hub: a restore of the account file or of the index that fails (that of
  the credential is modelled).
* Of the client databases: the settings of Cursor beside the team session, the encoding of
  Antigravity's token, the copies of database files.
* Of the HTTP client: how a name, a setting or a port becomes a candidate, headers, the
  decoding of bodies.
* Of the window: an account that a login saves silently, because it was cancelled before its
  save ended (the current account it moves is modelled); the other two products (they have
  the same code and share the loads), the detection of the clients, updates, links, and the
  preview of an interval while it is dragged.

## 7. Plan

1. The components above that are marked as modelled - done.
2. Proofs about every component, `Dashboard` included - done.
3. The float window as a second reader of the snapshots.
4. The abstract account as a refinement of `CodexAuth`.
