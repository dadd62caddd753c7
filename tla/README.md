# A TLA+ model of nastty

nastty is a NAS appliance server with a terminal front end. One process
(`nastty serve`, tokio and axum) keeps accounts and sessions, answers JSON-RPC
over WebSocket and REST, calls the upstream nasty-* services, and announces
changes on an event bus; the TUI (`nastty`) is a client of it. This directory
holds the specifications of its concurrent core, their model-checking runs and
their proofs.

## The system

| Part | Source | State | Operations | Talks to |
|---|---|---|---|---|
| Authentication service | `auth.rs` | `AuthState` (users, API tokens) behind one `RwLock`, sessions behind another, the state file | login, validate, logout, change and reset password, create and delete users and API tokens, save, boot | called by every endpoint; blocking pool and file system |
| RPC dispatcher | `rpc/mod.rs`, `rpc/auth.rs` | none | gate, role matrix, protocol guards, route, event after a success | all services, event bus |
| RPC domains | `rpc/{fs,subvolume,snapshot,bcachefs,share,smb,files,system,service,alerts}.rs` | external services; `authorized_keys`; background evacuations | check, then call a service; cascades (mount restores block devices) | nasty-storage, nasty-sharing, nasty-system |
| WebSocket endpoint | `ws.rs` | captured session, `last_seen`, subscription | authenticate, serve one message at a time, refresh a closed gate, forward events, ping and drop the silent | dispatcher, auth, event bus |
| REST endpoint | `rest.rs` | none | validate, dispatch, map errors; dropped when the client hangs up | dispatcher, auth |
| HTTP server | `server.rs` | none | login, logout, routing | auth, REST, WebSocket |
| Startup and restore | `serve.rs`, `state.rs` | none | boot the services, restore mounts, block devices and protocols while requests are already served | every service |
| Event bus | `state.rs`, `ws.rs` | ring of 64 collection names | send, receive, lag | dispatcher, WebSocket |
| Metrics | `metrics.rs` | current samples, history | sample, compute rates, drop the old | none |
| TUI | `tui/app.rs`, `client.rs` | view state, outstanding ids, open form | send requests, store replies, refetch on events, forms and toggles | WebSocket endpoint |
| TUI login | `tui/login.rs` | form | login, forced change of password | REST, WebSocket |
| Rendering, configuration | `tui/ui.rs`, `tui/theme.rs`, `config.rs`, `bin/nastty.rs` | none | pure | none |

What is hard, and what makes each part correct:

* **Authentication.** A request is a chain of awaits: write the state, release
  the lock, take it again to save, rename a shared temporary file, release it,
  then rewrite the session table under a different lock. Logins, deletions,
  resets and changes of password interleave at every one of them; a REST
  request may be dropped at any of them; a write handed to the blocking pool
  outlives its request; the process may stop anywhere. It is correct when an
  administrator always survives, when the session table follows the accounts,
  and when the file follows the state.
* **Dispatcher and endpoints.** A gated or under-privileged session must not
  reach a handler, or must be refused there what is not its own; an open
  connection must notice that its gate was opened; a client must not be dropped
  while it answers; every change must be announced or be lost in one of a few
  known ways.
* **Domains.** Checks and the acts they protect are separate awaits: one image
  exported twice, a filesystem destroyed under a new share, a share changed
  under a protocol that was disabled meanwhile, a mount cut off before its block
  devices are attached. Beside the requests run the restore work of the boot and
  the evacuations with their pollers.
* **Metrics.** Rounds fail and come late, counters start again, devices come and
  go, the wall clock is set: the charts must still account for the traffic.
* **TUI.** Replies arrive in any order relative to events and key presses; what
  they are attributed to must be what they were asked about, after the last
  event the screen must converge to the server, and a modal must act on what it
  showed.

`PROJECT.json` lists every hazard at its line, with the properties that cover it
or the reason why none does. The modules, and what they are about:

| Module | Models | Extends or refines |
|---|---|---|
| `Auth` | accounts, sessions, tokens, saves, restarts | implements `SavedFile` and `SessionTable` |
| `AuthStore` | `save()` on inodes and descriptors | implements `SavedFile` |
| `SavedFile` | what persistence promises | abstract |
| `SessionTable` | what the authentication service promises to those who hold tokens | abstract |
| `Methods` | the method names and what the dispatcher decides by them | |
| `Connection` | WebSocket, REST, dispatcher and event bus together | extends `Methods` and `SessionTable` |
| `Exports` | checks, claims, protocols, mounts, evacuations, restore | |
| `TuiView` | how the client's view follows the server | |
| `TuiModal` | what the client's keys act on and send | |
| `Metrics` | the sampler, its history and windows | |

An `MC` module of the same name gives each its small instance; the `Proofs`
modules hold the theorems.

## The modules

### Auth - the authentication service

`users`, `api` and `sessions` are the two locked structures, by name, id and
token; `disk` is the content of `nastty-auth.json`; `clock` is `now()`. `pc`,
`req` and `local` say where each request task is:

    mutators   idle --write the state--> save --read guard--> saving --rename--> sweep --> idle
    login      idle --verify--> push --push the session--> idle

An action is what happens between two awaits at which another task can see a
difference. `CreateUser`, `DeleteUser`, `ChangePassword`, `AdminSetPassword`,
`CreateApiToken` and `DeleteApiToken` have the guards of the functions of those
names and end in `Write`, their common start: the write lock, which is free
exactly when no task is inside `save()` (`Writable`). `SaveBegin`, `SaveEnd` and
`SaveFail` are `save()`; `AfterSave` says which operations go on to rewrite the
session table, `Swept` what that does to a session. `LoginVerify` and `LoginPush`
are the two halves of `login`. `ValidateExpired` is the one branch of `validate`
that changes something; the expiry of an API token is decided when it is
presented and changes nothing. A refused request changes nothing and has no
action. `Restart` is `AuthService::new()` after a stop at any point; its save,
before which nothing else runs, is part of it, and its failure a branch.

Abstractions: passwords and names are model values (the hash verifies exactly
the password it was made from, the form of names is not modelled), a token is
an index that is free again once its session is gone, an API token is its id,
and the address of a session is left out. `Cancel` is a dropped request, which
is what happens to a REST handler when the client hangs up; WebSocket requests
run to their end and are the behaviours without it. A text handed to the
blocking pool by a dropped save stays in `late` until `LateWrite` puts it, or a
torn file, in place of the content, or leaves it alone.

Four variables are history and guard nothing the code does, except that the
outcome of a save depends on what has disturbed its temporary file. `late` and
`spoiled` record the disturbances, `lost` that a fault took away the last word
on the file, and the `stale` marks of requests and sessions that another write
to the same account has overtaken them.

### AuthStore and SavedFile - how the state gets to the disk

`AuthStore` opens up `SaveEnd`: `save()` as open-and-truncate, write and
rename on inodes and descriptors. All savers share one `.tmp` path, so an open
can find the file of another save, a descriptor can follow a file that another
save has renamed into place, and a rename can find nothing left. A dropped
request releases its read guard and leaves the operation in the blocking pool;
an I/O error ends the save; a crash stops everything and boots from the file,
and the boot itself saves before anything else runs (`Booting`, `Serving`). The
state is a version number. Writing over a file that already holds another
version may leave a mix of the two (`Overwritten`), which does not parse.

`SavedFile` is what the persistence promises, whatever the mechanism: the state
changes only between saves; a save that ends leaves the state in the file, or
at worst a torn file while other saves are still under way, which one of them
mends; after a reboot the state is what can be recovered. It holds until the
first fault. Both `AuthStore` (with `savers` the holders of the read guard) and
`Auth` (when nothing worse than a crash happens) are shown to implement it:
`KeepsPromise` in each.

A crash is the end of the process. Loss of power with pages the kernel has not
written (there is no `fsync`) is outside the model.

### Methods and Connection - endpoints, dispatcher and event bus

`Methods` is pure: the arms of every router under `rpc/`, and the functions of
`rpc/mod.rs` on their names, `is_read_only`, `is_operator_allowed`,
`collection_for_method`, with the roles that some arms check once more
(`AdminOnly`, `Refuses`) and, read off the handlers, the tables a method writes
and the one it lists (`Writes`, `Lists`). `auth.change_password` is open to every
session and changes the caller's own password, or that of the account the request
names, which its arm refuses to all but administrators (`RefusesAccount`). A name
is the sequence of its segments, so that suffixes and prefixes mean what they
mean in the code.

`Connection` is `handle_socket`, the REST `dispatch` and the bus. A connection
goes through

    none --> auth --> subscribing --> open <--> rpc        open --> closed or dropped

(or from `none` straight to `subscribing` when the upgrade carries the token).
`Authenticate` is `resolve_session`, `Subscribe` the subscription that follows
the acknowledgement, `Request` one message: the refresh of a closed gate, the
gate, the role matrix and the start of the handler. While a handler runs the
loop does not: no frame is read, no event forwarded, no ticker handled. `Work`
is what the handler does, whole, in part when it fails, or not at all when its
arm refuses; `Announce` sends the event of a success and answers. `RestCall` and
`HangUp` are the same for REST, where the handler may be dropped. `Posted` and
`Overrun` are the ring of `tokio::broadcast`, seen from one receiver. `Interval`
is 30 s; `TickerFires` and `TooOld` are the ping ticker with `last_seen`. The
client's side is `TakeReply` (it waits for an answer before its next request),
`Pong` and `Close`.

The composition with the authentication service is `SessionTable`: the table
`held` and all that may happen to it. A session appears at a token that never had
one, with any account, role and gate, since a login pushes what it read of the
account before (`Appears`); the gate of an account's sessions is lifted
(`Lifted`), never closed; an account's sessions end (`Revoked`), or one does
(`Ended`). `Connection` takes its account operations from there, and `Auth` is
shown to implement it under every fault: `KeepsTable`, with the sessions as their
holders see them (`Held`). A restart (`AllEnded`) closes every socket, so a
behaviour of `Connection` lasts as long as one process. An API token acts as a
session that has no gate and ends when the token is deleted or expires. What a
method does, called about one's own account or about another, is reduced to
`Kind`, everything of it that the rest depends on; calls of equal kind are one.

Histories: `cleared` (tokens that once had an open gate), `shown`, `stale`,
`told` and `lost` (what the client's screen is owed), `excuse` (why a
connection may be dropped as idle).

### Exports - requests that check and act, restore, evacuations

A request is a job with the awaits it has before it: `Steps` turns a request
into `require_protocol`, `require_rdma`, the listings of
`check_filesystem_in_use` or `check_block_device_conflict`, the engine call
(`act`) and, for a mount, the cascade `restore_block_devices` (`attach`). Each
is an action of its own; between any two another request, the restore work or
the operator's RDMA switch may run. A listing that fails counts as empty
(`if let Ok`). An engine call takes effect or fails (`EngineFails`); starting a
protocol may fail after it was enabled (`Started`). `HangUp` drops a REST
request at any await. `RestoreMounts`, `RestoreDevices`, `RestoreList` and
`RestoreProtocol` are `restore()` of `serve.rs`, which runs while requests are
served: it lists the protocols once and enables each later. `Evacuate`, `Poll`,
`EvacuationEnds` and `FinalEvent` are `fs.device.evacuate` with the task it
spawns and the poller it aborts.

A claim is a pair of protocol and place: a share of a filesystem, or a LUN or
namespace on an image that lies on one. An image is the path it is exported by,
and `check_filesystem_in_use` compares the beginning of that text: `Named` are the
paths that begin with the filesystem's own, which the image file of a block
subvolume does and the loop device it is attached to does not (`Concerns`). What
a share holds besides is `plain`,
`edited` or `rdma`. Histories in a job: `late` (claims that appeared where it had
looked), `blind` (protocols whose listing failed), `seen` (what it depends on
and was on at some time since it began); besides them `failed` and `skipped`.

### TuiView - the view follows the server

The server's tables, the requests and replies under way, each in order, and the
client's lists, with the ids the code uses: a snapshot query and a status query
carry a position, replies are filed under whatever is at that position when they
come, and a new fan-out reuses the positions of the one before. `Serve` answers
one request after the other, `Refuse` is a handler that fails, `Forward` puts an
event among the replies, and the actions `On...` are the branches of
`store_response` and of the event handler. The lists that one event refreshes as
a whole are alike; subvolumes stand for them.

The status panel has its five reports (`slots["panel"]`, one query for them when
it opens) and the raw one (`slots["raw"]`, asked for by `u` and `t` only); no
reply to either carries a filesystem. `Tick` is the timer of `run_app`.

What changes without an event is part of the program. A mount, an unmount and a
destruction change the subvolumes that are listed, a clone and a rollback make
one, and their events fetch the filesystems only; an event is lost when the bus
of the server overflows, when a handler fails half way or is dropped; and a query
may fail. `missed` is the history of the lists that are behind for such a reason.
A list leaves it when an answer to its query is sent that holds what was missed
(`CaughtUp`; for the filesystems only while no query of an earlier fan-out is
under way). `changes` and `asked` count what the server and the user have done,
failed queries included, up to the pairs in `Budget`.

### TuiModal - what the keys act on

Views with their rows and selection, the modals that capture the keys, and the
requests sent, while another client changes the rows and replies replace the
lists at any moment (`Refreshed`, `StripArrives`). A status reply carries a
position of an earlier list and is filed under whatever filesystem stands there
now, so `StripArrives` files the status of any mounted filesystem under any
position; `TuiView` has the ids that limit which. The tables at the top of the
module say which sort of row has which forms, confirmations, toggles and
details; each modal keeps the row it was opened on, as the code's modals do,
except the items of the device menu, which act on the selection. The text typed
into fields is left out, up to whether a confirmation names the right row and
whether the reconcile switch was touched.

### Metrics - counters, rates, history, windows

`Pass` moves time and traffic, `SetClock` sets the wall clock, `Plug` and
`Unplug` let devices come and go with counters that start again. `Collect`,
`CollectFails` and `Record` are a round of the sampler: the tick, the worker
that reads the counters, each from its file of /proc (`Source`), where a file
that cannot be read is an empty one and the round a good one (`Counters`), and
`record_rates`, which files what grew since the
last good round over the monotonic time since then, under the wall-clock time,
and trims the series. `Selected`, `Bucketed`, `Until` and `Since` are
`window_samples` and `history`. A rate is kept as its bytes and its time, so
that nothing is rounded. The history `gap` is what no sample of a device covers,
as of the round that read it again after a reading that failed.

## What the runs showed that a reader should know

These hold of the code, are within what the properties allow, and are not
contradicted by any comment of the source.

* `login`, `delete_user` and `admin_set_password` race (the two violated runs
  below).
* A handler that fails half way, is dropped by a REST client, or writes a table
  that no event names (mounting and destroying a filesystem change its
  subvolumes and snapshots, the event says `filesystem`) leaves other clients'
  screens stale: `lost` in `NoSilentChange`.
* One image can come under iSCSI and NVMe-oF in the windows `late` and `blind`
  describe and in no others. A filesystem can be destroyed under a share in the
  same windows, and under a LUN or a namespace at any time if that is on the loop
  device of a block subvolume, which is what the TUI offers (`app.rs:1769`): the
  check compares the path with `/fs/<name>` (`rpc/mod.rs:146`). That is the third
  case of `DestroySeesExports`.
* A read-only session may call `auth.change_password` with another account's
  name: neither the gate nor the role matrix stops it, only the check in the arm
  (`rpc/auth.rs:42`).
* Removing a client in the detail of an NFS share removes every entry with that
  host, whatever its options (`app.rs:2926`).
* A series of a device that is gone is trimmed only by samples of its own, so it
  is never trimmed again. A slow round stamps `previous_at` after its counters
  were read.
* When the status panel's own query fails, a late reply to an earlier panel
  stays in it. A late raw report stays in a panel that was opened since, with
  nothing failed, since opening one sends no query for it (`app.rs:2427`). Both
  are the exceptions in `PanelOwn`.
* After a mount, an unmount, a destruction, a clone or a rollback by somebody else
  the TUI shows the subvolumes of before until something fetches them again
  (`app.rs:4009-4011`), as after any lost event: `missed` in `SettledView`.
* A read of `/proc/net/dev` or `/proc/diskstats` that fails is a good round with
  no devices (`metrics.rs:418`, `454`): no chart shows what moved between the last
  reading before it and the first one after it. That is the `gap` of
  `ChartAccounts`.
* The options form always sends the reconcile and copygc switches, though its
  hint says that fields left blank leave the value unchanged (`app.rs:1925`);
  the switch is sent as the strip last showed it, which may be the status of
  another filesystem that a late reply has left under the name. `SwitchKept`
  states what is left of that: without the condition that the form was opened on
  the filesystem's own status it is violated, by one mount, one misfiled reply and
  one edit.

## The runs

| Run | Question | Instance | Result |
|---|---|---|---|
| `auth_accounts` | Do any orders of account operations, logins and crashes brick the box, leave sessions that disagree with their accounts, revoke sessions without a cause, or break the promise of the file? | 2 tasks, 2 accounts, 2 roles, 2 passwords, 1 session, 1 API token, crashes | holds |
| `auth_sessions` | Under every fault and a moving clock: what does the file hold, does every request end, and does the session table keep to `SessionTable`? | 2 tasks, 1 account, 1 session, 2 clock values, 1 late write, all faults, fairness; 44 436 states | holds |
| `auth_store` | Does `save()` on a shared `.tmp` keep the promise of `SavedFile`, and does a sole save always land? | boot and 2 savers, 4 inodes, 2 changes, all faults | holds |
| `connection` | Under every method and role, with account operations going on: do the gate, the role matrix and the arms' own checks hold, is every change announced, are only silent clients dropped? | 1 connection, 1 REST call, 1 account, 1 token, 3 roles, the subvolume table, all methods, bus of 1 event, idle limit of 1 interval; 193 549 states | holds |
| `exports_claims` | What can slip through the checks of the sharing and destroying requests? | 2 WebSocket requests, 1 filesystem, an image file and a device, nfs, iscsi and nvmeof, both requests of any kind, restore work still; 839 480 states | only the windows stated |
| `exports_box` | Do mounts get their devices, enabled protocols run, and evacuations get announced, beside the restore work and hang-ups? | 1 REST request at a time, 1 filesystem, smb and iscsi, restore, evacuation; 77 580 states | holds |
| `tui_view` | Does the screen converge to the server but for what was missed, and does the traffic stop but for the ticks'? | 2 filesystems in either mount state of the first, changes or refused queries with panels, raw reports or refreshes, 2 in all, 1 of the former with 2 of the latter, or 4 of the latter; ticks, lost events; 1 654 369 states | holds |
| `tui_modal_rows` | Is nothing wiped or destroyed that was not typed; do untouched switches and menus keep their object? | 2 rows of devices or filesystems, 2 changes by others, 1 request; 490 301 states | holds |
| `tui_modal_lists` | Do secrets stay on screen; do whole-list updates change one member? | 2 rows of any sort of the other eight views, 1 change by others, 2 requests; 905 581 states | holds |
| `metrics` | Do charts account for the traffic but for the gaps of failed readings, are samples kept, do windows show them? | 1 device, 5 rounds of time, any round failed or its file unread, retention of 2, clock set once by 2 either way, 3 windows; 2 185 135 states | holds |
| `auth_deleted` | "Revoke every session the deleted user had" (auth.rs:473) | 2 tasks, 2 accounts | violated: a login pushes its session after the sweep |
| `auth_reset` | A reset "forces a change on their next login, and revokes their sessions" (auth.rs:482-483) | 2 tasks, 2 accounts | violated: the same gap leaves an ungated session |

`SessionsFollowAccounts` is the strongest statement about sessions that the code
does keep: it excuses exactly the sessions of requests that another write to the
account has overtaken, or that were dropped before their sweep; the two violated
properties are what the comments say without the excuse.

Bounds. Two tasks are enough for every pairwise race: each property relates one
session or one file to at most two requests in progress, and three savers are
used where a third could matter (a descriptor in a file that was renamed and
replaced). One session token suffices because no step relates two sessions;
`TokenLeft` keeps a login from starting when no token will be free for it, which
excludes no order of steps of the requests that run. Two passwords tell the
right one from a wrong one and the long enough from the too short. `TTL = 0` with
clock values 0 and 1 puts a session at its TTL, one past it, and, with the clock
set back, before its creation. `MaxLate` is the number of abandoned writes
outstanding at once; `MaxVersion` the number of changes. Four inodes always leave
one free for a new `.tmp`. Symmetry is used over tasks and tokens, and never in
the run with a liveness property.

In `connection` one token is enough because a connection authenticates once, and
what another session does reaches it only through the account operations, which
are all there; one connection and one REST call are every pair of a writer and a
watcher, with the connection itself as a writer too. One table is watched at a
time because no step relates two tables; a method's other tables are kept in its
`changes` and event. `Cap` is 64 in the code and 1 here: losing the oldest
happens at the second event instead of the 65th. `IdleLimit` is 3 intervals in
the code; with 1, silence, a late pong and a long request all reach it.

In `exports_claims` two requests are each the other's environment: any claim is
late for the other's listing at every await. Rest and restore work are in the
other run. In `exports_box` one request at a time meets the restore work and the
evacuations at every point. Bound: one evacuation of a filesystem at a time
(nothing in the code limits it).

In `tui_view` two steps, of the server or the user, are what a misattribution
takes: a change of the list between two fan-outs, and one more listing that is
under way when it happens. Stray reports take two panels with a raw report in
between, and one more of either to overtake them, which are the four steps of the
user alone. `Budget` keeps out the longer mixtures, which repeat these. `Room`
keeps ticks from piling up: one comes while less than two messages are under way,
which puts one before, between and after others. In
the `tui_modal` runs two rows are the one meant and the other; two changes are
what it takes to move a row under a modal and change it, two requests what it
takes to lose a secret or a member. In `metrics` the horizon lets a sample
outlive the retention twice, and the windows have no buckets, buckets that
divide them, and buckets that do not.

The temporal runs use no symmetry; `exports_claims`, which has only action
properties, uses it over its two requests. Deadlock is not checked where the
system may stop: all requests answered and the counters of the bounds used up,
or every socket closed and every token spent.

Fairness of `Auth`. `Fairness` gives each task weak fairness on the steps that
continue a request: the runtime keeps polling a task it has started, and locks
are held for one step, except the read guard of a save, whose steps are covered
as well. Nothing is assumed about new requests, expiry, the clock, faults or
restarts. An I/O error ends a save as a rename does, so `RequestsEnd` holds on a
disk that never works.

`Connection` adds the timers (`Interval`, `TickerFires`, `NoToken`), which the
runtime fires, and the steps of a task that is past its await (`Subscribe`,
`Work`, `Announce`); nothing is assumed of clients. That handlers return is an
assumption about the services behind them. `Exports` has fairness for the
restore work, the poller and the last event, which the runtime polls, none for
requests. `TuiView` has fairness for the connection's task and the client's loop
(`Serve` or `Refuse`, `Forward`, `Handle`), none for users, changes and ticks:
requests are answered, but not with a success. The traffic that must stop is all
but the ticks', which come for as long as the connection lasts. `TuiModal` and
`Metrics` have safety properties only and need none.

## The proofs

TLAPS checks, for every value of the constants that satisfies the named
assumptions of the module (`NamesAssumption`, `FiniteAssumption`,
`ClockAssumption` and `NullAssumption` of `Auth`, and one assumption in each of
`AuthStore`, `Connection`, `Exports`, `TuiView`, `TuiModal` and `Metrics`):

| Theorem | Module | Statement |
|---|---|---|
| `TypeCorrect` | AuthProofs | `Spec => []TypeOK` |
| `AdminAlways` | AuthProofs | `Spec => []AdminExists` |
| `DurableAlways` | AuthProofs | `Spec => []Durable` |
| `DiskOnward` | AuthProofs | `Spec => DiskNeverRegresses` |
| `PromiseKept` | AuthProofs | `Spec => KeepsPromise`, if `Faults \subseteq {"crash"}` |
| `SessionsFollow` | AuthSessionProofs | `Spec => []SessionsFollowAccounts` |
| `RevokedWithCause` | AuthSessionProofs | `Spec => RevokedForCause` |
| `TableKept` | AuthSessionProofs | `Spec => KeepsTable` |
| `OnlyStaleBreak` | AuthSessionProofs | `Spec => []CommentsHoldBarStale` |
| `SeparateRequestsKeep` | AuthSessionProofs | `Spec /\ []Separate => [](DeletedUsersHaveNoSession /\ ResetForcesChange)`, if `"cancel" \notin Faults` |
| `StoreTypes` | AuthStoreProofs | `StoreSpec => []StoreTypeOK` |
| `SoleSaveWins` | AuthStoreProofs | `StoreSpec => SoleSaveLands` |
| `StorePromiseKept` | AuthStoreProofs | `StoreSpec => KeepsPromise` |
| `ConnectionTypes` | ConnectionProofs | `Spec => []TypeOK` |
| `GateAlwaysHolds` | ConnectionProofs | `Spec => []GateHolds` |
| `GateReopens` | ConnectionProofs | `Spec => GateOpens` |
| `ReadersOnlyRead` | ConnectionProofs | `Spec => []ReadersChangeNothing` |
| `NothingSilent` | ConnectionProofs | `Spec => []NoSilentChange` |
| `AnsweringKept` | ConnectionProofs | `Spec => []AnsweringClientsKept` |
| `SilentConnectionsGo` | ConnectionProofs | `Spec => OldConnectionsGo` |
| `ActsAsValidated` | ConnectionProofs | `Spec => AsIfValidated` |
| `NobodyElse` | ConnectionProofs | `Spec => IdentityKept` |
| `ExportsTypes` | ExportsProofs | `Spec => []TypeOK` |
| `DevicesFollow` | ExportsProofs | `Spec => []MountAttaches` |
| `DestroyWindow` | ExportsProofs | `Spec => DestroySeesExports` |
| `ClaimWindow` | ExportsProofs | `Spec => ClaimSeesExports` |
| `SharesGuarded` | ExportsProofs | `Spec => GuardedByProtocol` |
| `RestoreAccounts` | ExportsProofs | `Spec => []StartsAccounted` |
| `RestoreGoesOn` | ExportsProofs | `Spec => RestoreNearer` |
| `LastEventFollows` | ExportsProofs | `Spec => []MovesReported` |
| `ViewTypes` | TuiViewProofs | `Spec => []TypeOK` |
| `ViewSettles` | TuiViewProofs | `Spec => []SettledView` |
| `SnapshotsSettle` | TuiViewProofs | `Spec => []SettledSnapshots` |
| `PanelSettles` | TuiViewProofs | `Spec => []PanelOwn` |
| `RefreshesEnd` | TuiViewProofs | `Spec => RefreshesDescend` |
| `ModalTypes` | TuiModalProofs | `Spec => []TypeOK` |
| `SecretKept` | TuiModalProofs | `Spec => []SecretStays` |
| `DestructionIsTyped` | TuiModalProofs | `Spec => NothingUntyped` |
| `MenuObjectKept` | TuiModalProofs | `Spec => MenuKeepsObject` |
| `OneMemberChanges` | TuiModalProofs | `Spec => OneMemberAtATime` |
| `SwitchUntouched` | TuiModalProofs | `Spec => SwitchKept` |
| `ChartsAccount` | MetricsProofs | `Spec => []ChartAccounts` |
| `RetentionKept` | MetricsProofs | `Spec => KeptForRetention` |
| `SeriesInOrder` | MetricsProofs | `Spec => []InOrder` |
| `WindowsFaithful` | MetricsProofs | `Spec => []WindowFaithful` |

The assumptions say that null values are no data, that numbers are numbers, that
the sets of names are finite where the program counts them, and, for `TuiModal`,
that the rows the server starts with are of the sorts of their views under names
of their own.

* `TypeOK` is inductive; its last conjunct ties the program counter of a task
  to its request and its local value.
* `AdminExists` is inductive with `TypeOK`: it speaks of memory, the file and
  every text that may still reach the file, because a restart turns the file
  into the state and a late write turns an old text into the file. The step that
  matters is a deletion, by the cardinality of the set of administrators.
* `SessionsFollowAccounts` is not inductive. It needs `DraftsCurrent` (the
  session a login is about to push follows its account unless the request is
  marked as overtaken) and `ChangesCurrent` (what a request that has not been
  overtaken wrote still stands: no change of password is demanded after a
  change, and the account is gone or must change it after a deletion or a
  reset). The second also gives `RevokedForCause`. From `SessionsFollowAccounts`
  comes what breaks the two comments that the code does not keep: `OnlyStaleBreak`,
  only sessions that an overtaken or an abandoned request left behind, and
  `SeparateRequestsKeep`, nothing at all while requests about one account do not
  overlap and no handler is dropped. The invariant of the latter (`Fresh`) is that
  no session and no request is marked, because a mark is only ever set by another
  request about the same account or by dropping a handler; I/O errors, crashes and
  requests about other accounts do not set it.
* `Durable` is strengthened with the fact that a disturbance of a save,
  `spoiled` or `late`, implies `lost`.
* `PromiseKept` adds that without I/O errors and dropped requests nothing is
  ever spoiled or late, and maps each action to a step of `SavedFile` or to a
  stuttering one.

* `GateHolds` speaks of tokens and handlers; `GateInv` adds what joins them:
  a live connection holds a token and the session captured under it, sessions in
  the table without the gate belong to cleared tokens, and so do captured ones.
  The refresh of a closed gate is the step that needs all three.
* `NoSilentChange` is strengthened by: only receivers show tables, only shown
  tables are stale, and what a handler has written and not announced is either
  its event or already lost (`Accounted`).
* `AnsweringClientsKept` follows from `IdleInv`: an unanswered ping or a handler
  accounts for every interval of age.
* `OldConnectionsGo` is the safety half of `SilentClientsDropped`: a connection
  older than the idle limit has its tick due (`OldDue`), and no interval ends while
  a tick is due, so that what is left to fairness is that the loop serves it.
* `AsIfValidated` is what makes it enough that `refresh_if_gated` looks a session
  up only while the gate is closed. `CapturedCurrent` says that the session of a
  valid token is what the captured one may have become: same account, same role,
  the gate possibly opened. That needs `SessionTable` to have nothing else happen
  to a session, which is `KeepsTable` of `Auth`. `IdentityKept` follows from it.
* `GateOpens` is a step property that follows from `GateInv`: the one step that
  answers `gated` decides by the session it has refreshed, and a refresh leaves a
  closed gate closed only if the table, read again, has it closed or has no
  session (`GatedIsClosed`).
* `ReadersChangeNothing` rests on `ReadersWriteNothing`: no method that is
  read-only by its name writes a table, for every name of the dispatcher,
  router by router, by first segments and last. What the gate and the matrix let
  through and yet writes is then self-service, and of that `RefusesAccount` refuses
  what is another account's. The invariant says it of every handler at work.
* `KeepsTable` needs the types only. Each action of `Auth` is a step of
  `SessionTable` or leaves `Held` alone: the marks of the histories are not seen
  from outside, and a change of password does not bring back a gate.
* For `Exports` one predicate says that a job is sound (`Sound`): its checks come
  before its engine call, and for each claim its check concerns, for the protocol
  and for the opt-in it depends on, either the await that looks is still ahead or
  the history says what it found. Lemmas show that a job begins sound, for each
  kind of request, and stays so when it moves on, fails a listing, or another job
  adds a claim or switches something on. `MountAttaches` needs the stronger
  `MountsCovered`, which ties each mounted filesystem without devices to the
  request that mounted it. `StartsAccounted` needs `Accounted`: while the protocols
  are being started, an enabled one that does not run is still to be started or has
  failed. `RestoreNearer` names the measure that the restore work descends.
  `MovesReported` needs `MovesKept`, by which an unseen move keeps its evacuation
  from being over.
* `AuthStore` needs to know which file a rename will publish. `StoreInv` says that
  until the first fault every open file is empty or holds the state, and that the
  file in place, or the one under the `.tmp` path once somebody opened it
  (`Current`), holds the state or is empty with a writer still to come
  (`Covered`). That makes `KeepsPromise` a step-by-step mapping: an open may tear
  the file, a write mends it, a rename is a save that ends. `SoleSaveLands` must
  hold after faults, so it has a part of its own: a saver nobody disturbed since
  it began (`clean`) finds its own file under the path (`Alone`).
* `ChartAccounts` is not inductive: between a tick and its record the counters
  have moved on. `ChartInv` adds what the reading in the worker's hands will
  still chart; for a device that never left the three readings are in order and
  the identity with its gap is exact once a round has read it again.
  `KeptForRetention` needs `SeriesInv`: a sample's
  wall-clock time is off from its monotonic time by what the clock had been set
  by then, so trimming by the one keeps within `back` and `ahead` of the other.
  `SeriesInOrder` is the order of the series that trimming from the front and
  cutting windows rely on. `WindowFaithful` then is about data of any length: a
  series has no bound in the theorem, and `Selected`, `Bucketed` and the sum it
  compares with are recursive over its positions. The library's induction
  theorems take an operator, so the module has its own for sets: `Recursion`
  (steps given as a function define one, from the least position at which none
  existed) and `Induct` (a set that holds 0 and with each position the next
  holds them all). From them the three unfold (`SelectedSteps`, `BucketedSteps`,
  `TotalSteps`), a window takes over the order of its series (`SelectedIs`), and
  after every position each bucket holds the number and the bytes of its samples
  so far (`BucketHolds`); buckets of one width do not overlap (`BucketOnly`).
* `TuiView` settles because something is always still on its way when the view
  is wrong and nothing was missed. `Fresh`: an answer that is out of date is
  followed by its event, or its list is in `missed`. `Overtaken`: a query whose
  position no longer means its filesystem is followed by one more listing, whose
  fan-out comes after it. `ListsFollow`, `SnapshotsFollow` and `StripFollows`:
  unless such a listing is coming or was missed (`Coming`), each list and each
  filesystem has its query under way or its current answer filed. The panel has
  no listing to rely on: `PanelFollows` says of each slot that the last query sent
  is the open panel's own, if one was sent (`SlotQueries`, `SlotShows`).
  With nothing but ticks under way what is left is the property. That it comes to
  this is left to TLC, but for the descent it rests on: by `RefreshesDescend` a
  message has only messages of lower stages sent (an event, the list of
  filesystems, all other replies), so that no refresh can feed itself.
* `TuiModal`: `ModalInv` says of every modal, form, confirmation and outstanding
  request which row it was made for and that it is a copy of what that row was at
  some revision (`Copy`: same revision, same data). So a request that is served
  at the revision it was made at changes what its modal showed
  (`OneMemberAtATime`, `SwitchKept`), and a destructive request copies the row of
  the confirmation it was typed in (`NothingUntyped`). `SecretStays` adds that,
  unless two were asked for at once, a token is under way, minted or revealed,
  never two of these; `MenuKeepsObject` that a menu whose lists were not replaced
  is on the selected row.

Only model-checked: liveness (`RequestsEnd`, `SilentClientsDropped`,
`RestoreResumes`, `EveryMoveSeen`, `Quiesces`), which is out of the prover's
reach. For the last four a theorem states what they rest on besides fairness
(`SilentConnectionsGo`, `RestoreGoesOn`, `LastEventFollows`, `RefreshesEnd`).
The two violated properties have their counterexamples, and `OnlyStaleBreak` and
`SeparateRequestsKeep` say how little it takes to keep them.

## Not modelled, and the plan

Every safety property and action property of the passing runs is proved, and so
is the safety half of every liveness property but `RequestsEnd`, for which only
the steps of the program counter would be left. What would say more is a variant
of the service with a login that holds the session lock from its check to its
push, and the proof that it keeps the two violated properties through
overlapping requests as well; such a variant models no code there is. What the
properties excuse by name (`lost`, `missed`, `gap`, `late`, `blind`, `stale`,
`fresh`) is what the code loses; no run looks for more of that.

Left out on purpose are judgements the source does not make: that a session
revoked on an open connection is still served (`ws.rs:74`), that the restore work
enables a protocol an operator has just disabled (`serve.rs:101`), that buckets
hold two periods after the clock was set back. How long a request waits for the
write lock while others keep coming is up to the lock, and outside
`RequestsEnd`. A read error at the boot is in `auth_sessions`, not in
`auth_accounts`, whose only fault is the crash; `AdminAlways` covers it for every
set of faults. Two evacuations of one filesystem at a time are outside the bound.

Not modelled:

* the `authorized_keys` file of `rpc/system.rs` (read, change, write back without
  a lock) and the lifetimes of API tokens in integers of fixed width: both have
  their hazards in `PROJECT.json` and no property;
* the TUI's login flow: a form and at most three requests, before the view
  exists;
* rendering and theme (pure), the arguments and the configuration, HTTP statuses
  and cookies, the parsing of /proc and /sys, the Prometheus text, the wording
  of errors;
* the nasty-* services themselves, which appear as the calls made to them.
