# Model checking apteryx

TLA+ specifications of apteryx, checked with TLC. The sources at hand are
`src/config.c` (the daemon's self-configuration surface) and `src/test.c` (the
client programs of the test suite); `spec.md` describes the rest of the daemon.
Everything that models `src/` is translated from the code, line ranges are in
`PROJECT.json` under `map`. What the code calls but does not contain (the
callback library, the database, the RPC server) is modelled from `spec.md` and
marked `spec_modelled` there.

## 1. Inventory

| Part | Where | State | Operations | Talks to |
|---|---|---|---|---|
| C1 path tree | spec §4.1 | value and timestamp per path | add, delete, get, timestamp, prune, search | C4 |
| C2 callback registry | spec §4.2, used by config.c | six lists of records (guid, path, uri, enabled flag, reference count) | cb_create, cb_take, cb_release, cb_disable, cb_match, cb_foreach, cb_shutdown | C5, C7 |
| C3 refresh cache | spec §4.3 | per refresher: last run, timeout, lock | refresh-if-stale | C4, C5 |
| C4 operation engine | spec §4.4 | global write lock | set, set_tree, cas, get, search, prune, traverse, query, find, timestamp | C1, C2, C3, C5 |
| C5 dispatcher | spec §4.5 | worker pool, per-caller FIFO of tasks | run validators, watchers, refreshers, providers, indexers, proxies | C2, C6 |
| C6 RPC transport | spec §4.6 | sockets, connections | bind, release, call with timeout | everything remote |
| C7 self-configuration | `src/config.c` | `guid_to_callback`, `guid_lock`, the six list heads, `apteryx_debug` | `config_init`, `config_shutdown`, `handle_debug_set`, `handle_sockets_set`, `handle_{indexers,watches,refreshers,validators,providers,proxies}_set`, `update_callback`, `find_callback`, `handle_statistics_refresh`, `handle_counters_*`, `config_get_*`, `config_search_*`, `config_tree_has_*` | C2, C4, C6 |
| client programs | `src/test.c` | per test: paths written, threads, callbacks | about 300 tests; the concurrent ones are `test_thread_multi_write`, `test_prune_thread_safe`, `test_cas`, `test_bitmap`, `test_watch_order`, `test_refresh_concurrent`, `test_tree_atomic`, `test_deadlock` | the daemon through the client library |

What is hard about them:

* **C7** runs on the daemon's worker threads. Each handler is a watch callback
  on `/apteryx/<kind>/*`, and watch callbacks of different originators run
  concurrently. `update_callback` looks a GUID up under the read lock, drops it,
  and takes the write lock later; a record is visible in its list before it is
  in the table; a proxy is visible before its URI is set. Lookups
  (`config_get_*`) run at any time and keep references across the handlers'
  steps. Correct means: reference counts balance (nothing freed while held,
  nothing leaked), one registration per GUID, a returning write has taken
  effect, the table points to live records only.
* **Client programs** with threads race on the database: read-modify-write by
  timestamp and cas (`_bitmap_thread`), prune against search, set_tree against
  prune. Correct means what the test asserts, on every interleaving and not
  only on the one the scheduler happened to produce.
* **C5** (not in the sources) bounds the workers and orders the callbacks; the
  tests that pin this down (`test_deadlock`, `test_refresh_concurrent`,
  `test_watch_order`) test code that is not at hand (section 7).

## 2. Plan

Most important first; what is done is marked.

1. `Config` (done): the registration handlers of config.c, thread by thread
   and lock section by lock section, over a heap of callback records.
2. `Store` and `Bitmap` (done): the database as far as a client sees it
   through set, get, timestamp and cas, and the cas retry loop of
   `_bitmap_thread` on top of it.
3. Patterns with wildcards, `config_search_*` and `config_tree_has_*` in
   `Config` (done): lookups return several records for one path.
4. `ConfigAbs` (done): what the registration handlers promise, and `Config`
   under per-GUID serialisation checked to implement it.
5. `ConfigStrings` (done): the strings the handlers take apart, which
   `Config` carries as values already split: the value of a proxy, and the
   paths of the counters.
6. Liveness of `Config` (done): under weak fairness of the workers every
   handler and lookup returns.
7. Races with a third worker (done): the lookup that loses its reference to two
   handlers (`config_race`, `config_race_uaf`).
8. The statistics under concurrent registration (done): what a refresh
   leaves behind when handlers change the registry while it runs
   (`StatsCoverRefresh`).
9. Open: a shutdown that does not wait for the workers (hazard at
   `src/config.c:301`); the values `_statistics_fn` reports, which it reads
   counter by counter (hazard at `src/config.c:279`).

The engine and the dispatcher were on an earlier version of this plan. They
are dropped: see section 7.

## 3. Modules

### Config (src/config.c)

State:

| Variable | Code |
|---|---|
| `cbs` | the memory of callback records: address to record (`list`, `guid`, `path`, `uri`, `active`, `refcnt`) or `Freed`. Addresses `1..11` are the built-in callbacks of `config_init`, the next `MaxRecords` are what `cb_create` hands out; a freed address is reused once no thread holds it |
| `guid_to_callback` | the hash table of the same name |
| `pc`, `arg`, `cb`, `held` | per worker thread: where it is in its handler, the handler's arguments, the local `cb`, and the references a lookup took |
| `stats`, `window` | the entries under `/apteryx/statistics`, and a history variable: the registrations that were there at every moment, and at some moment, of the last refresh (from its prune to its return) |
| `sockets`, `apteryx_debug` | the URIs the RPC server is bound to, the debug flag |
| `phase` | daemon down, up, shut down, or the fault that ended it (`null_deref`, `use_after_free`) |

A handler is a chain of actions, one for each stretch of code between two
points where another thread can interfere (taking or releasing `guid_lock`, a
call into the callback library, which has its own lock):

| Action | Code |
|---|---|
| `handle_callbacks_set`, `handle_proxies_set`, `handle_proxies_unset`, `handle_proxies_set_invalid` | entry of the handlers, argument checks, `update_callback` up to the GUID parse |
| `UpdateCallbackFind` | `find_callback` under the read lock, and the branch on value and result |
| `UpdateCallbackReplace` / `UpdateCallbackRemove` | the write-locked section: remove from the table, `cb_disable`, `cb_release` |
| `UpdateCallbackDrop` | the second `cb_release` of the replaced record |
| `UpdateCallbackCreate` | `cb_create` |
| `UpdateCallbackPublish` | `g_hash_table_replace` under the write lock |
| `ProxySetUri` | `cb->uri = g_strndup (value, ...)`, the part of the value before its last `:` |
| `HandlerReturn` | the handler's own `cb_release` |
| `ProxyNullDeref`, `UseAfterFree` | the two ways the code can fault: reading `cb->uri` through NULL, and touching a record whose count reached zero (a handler the record `find_callback` gave it, the engine a record of a list `config_get_*` gave it). Both end the daemon |
| `config_get`, `config_search`, `ReleaseMatched` | `config_get_*` (`cb_match`) and `config_search_*` (`cb_search`, asked for when `config_tree_has_*` says yes), each taking a reference on every record found, and the caller giving them back |
| `handle_statistics_refresh`, `StatisticsForeach` | prune of the subtree, then one `cb_foreach` per list |
| `handle_debug_set`, `handle_sockets_set` | the two settings handlers, whole |
| `config_init`, `config_shutdown`, `Stopped` | start, orderly stop, and the stutter of a daemon that has stopped |

Data is abstracted to what the properties tell apart: GUIDs and URIs are model
values; a path is the sequence of its segments and a pattern may have `*` for
a segment, so that one path is matched by several patterns (a trailing `/` of
a built-in pattern is written `*`, which covers the same paths); `BadGuids`
are names `sscanf` does not accept, `BadUris` values of a scheme the proxy
handler and `rpc_server_bind` refuse; `atoi` maps the debug values to numbers.
The value of a proxy arrives here as a URI and a path; how the handler finds
the two in the string is the subject of `ConfigStrings`.

Assumptions on the environment:

* `SerialPerGuid`: the dispatcher does not run two writes to the same GUID at
  once. This holds for writes of one originator (watch callbacks are delivered
  in order per originator) and is the usual case, because the GUID contains the
  originator's pid. It does not hold for two originators writing the same
  path; `config_race*` runs lift it.
* `config_shutdown` runs when the workers have drained (spec section 5: in-flight
  callbacks drain before the process exits).
* `ClientLists`, `StatReaders`: which kinds of registration clients make and
  which threads serve the statistics refresher. The refresher runs once at a
  time (spec §4.3).
* `MaxRecords`: records `cb_create` can have outstanding. `MayHandle` stops
  accepting registrations when every address could be needed by a handler in
  progress, so `cb_create` never fails in the model (the code does not check
  it either).

### ConfigAbs

What a client of the surface relies on, with no threads, locks or reference
counts: per GUID a registration (`registered`) and the write being served
(`writing`). A write is accepted (`Accept`), the GUID's registration is
retired (`Retire`) and the written one installed (`Install`), and the write
returns (`Return`) only when the GUID is registered as written. `Shutdown`
clears everything. `Config` maps `registered[g]` to list and pattern of the
enabled record with GUID `g` and `writing[g]` to the arguments of the handler
serving `g`. The steps of `update_callback` map to `Accept` (entry), `Retire`
(the locked section that disables the old record), `Install` (`cb_create`) and
`Return` (the handler's last `cb_release`); the lookup, the second release of
the old record and the table insert are invisible to clients. Proxies are
outside this contract: the three findings about them are the ways they break
it.

### ConfigStrings (src/config.c 209-268)

`Config` takes the value of a proxy as a URI and a path. In the code it is one
string, and `handle_proxies_set` finds the two in it: the scheme is checked
with two `strncmp`, the path starts behind the last `:` (`strrchr`), the URI
is what stands before that `:` (`g_strndup` with a length computed from the
two). `ConfigStrings` models this on strings as sequences of tokens: `:` and
`/` are the characters the code looks for, `unix` and `tcp` stand for the
letters of the schemes, `h` for any run of other characters. A pointer is a
position. `Separator`, `HasScheme` and `Split` are the three steps of the
handler; `proxy` is what the record ends up with, or that the value was
refused. A value that passes the scheme check has the `:` of its scheme, so
`strrchr` always finds one and the unchecked `+ 1` behind it is safe.

Values come from two sources: `apteryx_proxy (path, url)` of the client
library, which writes the URL, a `:` and the path (`asked` remembers the two),
and a client that writes any string itself (`apteryx_set`).

`handle_counters_index` and `handle_counters_get` are operators over the names
of the counters: the index is one path per name, the provider compares the
tail of the path from its last `/` with `/name`. `INC_COUNTER` stands for the
rest of the daemon counting.

### Store (spec-modelled) and Bitmap (src/test.c 1161-1215)

`Store` has the value and timestamp of each path, a clock `now` that ticks up to
`MaxClock`, and the last timestamp given out: a write is stamped with the clock,
or with the last stamp plus one when the clock has not moved. `apteryx_cas`
compares and writes in one step, as the engine does under its write lock.

`Bitmap` instantiates `Store` for the one path of the test. The test thread sets
the high half of the bitmap, starts the writers, waits and checks the low half.
Writer `id` loops over `BitmapTimestamp`, `BitmapGet`, `BitmapCas`, each one
request to the daemon; between them the other writers run. `BitmapCasError`
is a cas that fails for another reason than a mismatch (the code leaves the loop
on any error but `-EBUSY`). A bitmap is the set of positions that are 1.

`TestBitmapCheck` is enabled when all writers have left their loop: the test's
`usleep` is taken to outlast them. See the hazard at `src/test.c:1207`.

## 4. Runs

| Run | Bounds | Shows |
|---|---|---|
| `config_serial` | 2 threads, 2 GUIDs + 1 malformed, patterns `/a/b` and `/a/*`, lookups of `/a/b` and `/a`, 3 kinds of list, 4 records, serial per GUID | `RefcountAccounting`: while the daemon is up, and after `config_shutdown`, a record's count is one for its list if enabled, plus one per handler holding it, plus one per lookup holding it. `GuidUnique`: no two enabled records with one GUID. `WriteTakesEffect`: when a handler returns, the registration is there as written (or gone, for an unset). |
| `config_refine` | 2 threads, 2 GUIDs, watchers and refreshers, 3 records, serial per GUID, fair workers, no symmetry | `ImplementsConfigAbs`: every behaviour of `Config` is, through the mapping, a behaviour of `ConfigAbs`. `WorkersReturn`: every handler and lookup a worker has taken up returns. |
| `strings` | URLs `tcp://h:h`, `tcp://h::h:h`, `unix:///h`; the 40 paths of up to 4 tokens over `/`, `:`, `h`; the 160 values of a scheme, another scheme or none followed by up to 3 tokens; 2 counters up to 2 | `SplitRecoversColonFreePath`: for a path without `:` the record gets exactly the URL and path `apteryx_proxy` was called with. `IndexedCountersAreProvided`: every indexed counter path is answered with its counter. |
| `config_surface` | 2 threads, 1 GUID, the same patterns, watchers, refreshers and proxies, sockets and debug values, one thread serving the statistics, 2 records | `TypeOK`; `StatsCoverRefresh`: when a refresh has returned, the statistics have an entry for every callback that was registered from its prune to its return and no entry but for a callback that was registered at some moment in between, whatever the other thread registered, replaced or removed meanwhile. With nothing in between that is exactly the registered callbacks. This run fires the actions the others leave out. |
| `config_race` | 3 threads, 1 GUID + 1 malformed, watchers, 3 records, any number of handlers on one GUID at once | `TableSound`: the table never points to a freed or disabled record, races included. |
| `config_race_dup` | as `config_race` | violation of `GuidUnique` |
| `config_race_uaf` | as `config_race` | violation of `NoUseAfterFree` |
| `proxy_unset`, `proxy_null`, `proxy_uri` | as serial | violations of `ProxyUnsetUnregisters`, `NoNullDeref`, `ProxyForwardsToItsUri` |
| `proxy_split` | as `strings` | violation of `SplitRecoversProxy` |
| `bitmap` | 3 writers, clock up to 3, cas may fail | `TypeOK`, `NoLostUpdate` (every bit whose cas was accepted is in the stored bitmap), `TestAsserts` (what the test asserts at the end holds), `Termination` (every writer leaves its loop, the test finishes) |

Why the bounds are enough. Two threads are what a race between two handlers
in `update_callback` needs (one to look up, one to change in between), and
what a handler and a lookup need. With writes to one GUID served one at a
time a third thread adds a reference to a record and nothing else. Without
that, the third thread matters: two handlers that remove one record release
one reference more than they took, and with a third thread that reference
can be the one a lookup holds. Two threads cannot reach this state, so
the `config_race*` runs have three, with one kind of list and
three records (a record and its two replacements) to stay within a minute.
Two GUIDs and two paths
separate "same registration" from "another one"; four records let both
threads replace a record while the old ones are still held by lookups. The
two patterns both match `/a/b` and both lie below `/a`, so a lookup holds two
records at once. Three
writers give a cas that fails twice in a row; a clock that stops at 3 with
more than 3 writes forces the stamp-plus-one rule. Threads and GUIDs
are symmetric in the runs of `Config`, except in `config_surface`, which names
the thread that serves the statistics, and in `config_refine`, which checks a
liveness property. `config_refine` has three records: both GUIDs registered
and one replacement under way, or one record held on by a lookup.

In `config_surface` one thread refreshes the statistics, in seven steps,
while the other registers, replaces and removes a watcher, a refresher or a
proxy under one GUID: the registration can go, come or change its list
before and after each list is walked, which is all a refresh can tell
apart.

In `strings` the URLs have one, three and no `:` behind the scheme, so that
"last `:`" and "first `:`" differ; four tokens give a path a `:` in the
middle of a segment, at its end and on its own; three tokens behind nothing,
a scheme and a foreign scheme give values with no `:` at all, with no path
part, and with an empty path.

## 5. Findings

Each is a violation run; the trace TLC prints is the scenario.

1. `config_race_dup`: two handlers for the same GUID both find nothing and
   both create; one record stays enabled without a table entry and can never
   be removed (`src/config.c:93`).
2. `config_race_uaf`: two handlers replacing or removing the same record
   release it four times for three references (`src/config.c:116`). The
   third release frees the record and the fourth is the second handler
   touching freed memory, which is the trace TLC shows. When a third worker
   holds the record from a `config_get_*` there are four references, and the
   fourth release takes the lookup's: the engine is left with a freed record
   although it did nothing but look up.
3. `proxy_unset`: an unset of a proxy only looks it up and releases the
   reference; the proxy stays (`src/config.c:238`).
4. `proxy_null`: a proxy written under a malformed name reads `cb->uri`
   through NULL (`src/config.c:228`).
5. `proxy_uri`: a proxy is matched by lookups before its URI is assigned
   (`src/config.c:232`).
6. `proxy_split`: a proxy for a path that contains a `:` is split at the last
   `:` of the path: the record's pattern is the tail of the path, its URI the
   URL with the head of the path appended (`src/config.c:226`). The
   specification allows `:` in a segment and `test_remote_path_colon` reads
   and writes such a path, so they are meant to work; no test registers a
   proxy for one.

1 and 2 need two originators writing the same GUID path at once, which a
well-behaved client never does; 3 to 6 need one client only.

## 6. Fairness

`Config` is checked for safety without fairness. For `WorkersReturn`, run
`config_refine` takes `FairSpec`: weak fairness, per worker, of `Continue`,
the steps a worker takes by itself once a handler or lookup is under way. A
worker is a thread of its own; its steps wait for nothing but `guid_lock` and
the lock of the callback library, and whoever holds one of them releases it
after a few statements without waiting for anything else. Nothing is assumed
of the steps that start a handler or a lookup (a client may never write
again) nor of the faults. `ConfigStrings` needs no fairness. `Bitmap` assumes
weak fairness of the test thread and of each writer: a thread that can take its
next step (send its next request) eventually does. Threads are scheduled by the
kernel and the daemon answers every request, so a thread is never kept from a
step that stays enabled. No fairness is assumed of the clock or of
`BitmapCasError`; termination does not depend on either.

## 7. Not modelled

* The values of the counters and of the statistics as text (hazard at
  `src/config.c:279`). `_statistics_fn` tests `count`,
  divides `total` by `count` and prints `count`, `min`, the average and `max`,
  each read on its own and in an order the compiler picks, while the workers
  that run the callback go on counting: the line can show an average outside
  its own minimum and maximum. Whether it does depends on how the four
  fields are updated, and both that code and the type of the counters are in
  files that are not among the sources; a model of them would be a guess.
* `guid_lock` as a variable: each section between lock and unlock is one
  action. The sections touch `guid_to_callback` and call `cb_take`,
  `cb_disable` and `cb_release`; lookups, which do not take `guid_lock`, see
  a record either before or after each of these calls, and what they see
  between two calls of one section they can also see before or after it.
* The order of the records `cb_match` returns; `config.c` passes the list on.
* The characters of GUID strings and log messages; of paths and URIs all but
  `:` and `/`.
* The operation engine (search, prune, traverse, set_tree), the dispatcher
  with its worker pool, the refresh cache and the RPC transport. None of them
  is among the sources. `test.c` exercises them (`test_prune_thread_safe`,
  `test_tree_atomic`, `test_watch_order`, `test_deadlock`,
  `test_refresh_concurrent`), but a model of them could only be written from
  the words of `spec.md`, and the tests would then hold of it because the
  model says so and not because the code does. `Store` is the one exception,
  kept as small as `Bitmap` needs: there the code under test is the client's
  retry loop, which is in `test.c`.
* Sequential tests, performance tests and the tests of bindings in `test.c`.
