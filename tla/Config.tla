------------------------------- MODULE Config -------------------------------
(***************************************************************************)
(* The self-configuration surface of the Apteryx daemon (src/config.c).    *)
(*                                                                         *)
(* Clients register callbacks by writing /apteryx/<kind>/<guid>.  Built-in *)
(* watchers on those paths run the handle_*_set handlers on the daemon's   *)
(* worker threads.  The handlers keep six callback lists and one hash      *)
(* table, guid_to_callback, guarded by the read/write lock guid_lock.      *)
(*                                                                         *)
(* One action is one critical section or one call of the callback library: *)
(* a handler is a thread walking through pc labels, so that the windows in *)
(* update_callback where guid_lock is not held are visible to other        *)
(* threads.  The callback library (cb_create, cb_take, cb_release,         *)
(* cb_disable, cb_match, cb_foreach, cb_shutdown), the RPC server and the  *)
(* database are not part of config.c; they are modelled from the           *)
(* specification and from how config.c uses them.                          *)
(***************************************************************************)
EXTENDS Naturals, Sequences, FiniteSets

LOCAL INSTANCE SequencesExt

CONSTANTS
    Threads,        \* daemon worker threads that run handlers and lookups
    Guids,          \* path tails that sscanf parses as <pid>-<callback>-<hash>
    BadGuids,       \* path tails that do not parse as a GUID
    Paths,          \* pattern paths carried as the value of a registration
    Lookups,        \* paths the operation engine looks callbacks up for
    Uris,           \* "unix://..." and "tcp://..." parts of a value
    BadUris,        \* the same part of a value with any other scheme
    SocketUris,     \* values written to /apteryx/sockets/<guid>
    DebugValues,    \* strings written to /apteryx/debug
    ClientLists,    \* the lists whose /apteryx/<kind>/ prefix clients write to
    StatReaders,    \* threads that serve reads of /apteryx/statistics
    NULL,           \* the C NULL: no value, no record
    MaxRecords,     \* bound on the records cb_create allocates for clients
    SerialPerGuid   \* TRUE: writes to one GUID are handled one at a time

ASSUME
    /\ Guids \cap BadGuids = {}
    /\ Uris \cap BadUris = {}
    /\ Paths \cup Lookups \subseteq Seq(STRING)
    /\ MaxRecords \in Nat
    /\ StatReaders \subseteq Threads
    /\ SerialPerGuid \in BOOLEAN

VARIABLES
    phase,              \* "down", "up", "shutdown", or the fault that ended it
    cbs,                \* the heap of cb_info_t: address -> record or Freed
    guid_to_callback,   \* the hash table: GUID -> address or NULL
    pc,                 \* per thread: where its handler stands
    arg,                \* per thread: the arguments of its handler
    cb,                 \* per thread: the local variable cb
    held,               \* per thread: records cb_match or cb_search gave it
    stats,              \* the subtree /apteryx/statistics of the database
    window,             \* history: the registry while the statistics were rebuilt
    sockets,            \* the RPC server's listeners: guid -> uri or NULL
    apteryx_debug       \* the debug flag

registry == <<cbs, guid_to_callback>>
workers == <<pc, arg, cb, held>>
statistics == <<stats, window>>
settings == <<sockets, apteryx_debug>>
vars == <<phase, registry, workers, statistics, settings>>

-----------------------------------------------------------------------------
(* The six lists, in the order handle_statistics_refresh walks them, and   *)
(* the directory each one is reported under.                               *)

ListOrder == <<"watch_list", "validation_list", "refresh_list",
               "provide_list", "index_list", "proxy_list">>

Lists == {ListOrder[i] : i \in DOMAIN ListOrder}

CallbackLists == Lists \ {"proxy_list"}

\* The lists that have a config_search_* and a config_tree_has_*.
SearchLists == {"index_list", "provide_list", "refresh_list"}

StatDir == [watch_list |-> "watchers", validation_list |-> "validators",
            refresh_list |-> "refreshers", provide_list |-> "providers",
            index_list |-> "indexers", proxy_list |-> "proxies"]

\* The records config_init creates: list, guid and pattern of each.  A
\* pattern that ends in '/' covers one level below, as one ending in "/*".
Builtin == <<
    <<"watch_list",   "debug",      <<"apteryx", "debug">> >>,
    <<"index_list",   "counters",   <<"apteryx", "counters", "*">> >>,
    <<"provide_list", "counters",   <<"apteryx", "counters", "*">> >>,
    <<"refresh_list", "statistics", <<"apteryx", "statistics", "*">> >>,
    <<"watch_list",   "sockets",    <<"apteryx", "sockets", "*">> >>,
    <<"watch_list",   "indexers",   <<"apteryx", "indexers", "*">> >>,
    <<"watch_list",   "watchers",   <<"apteryx", "watchers", "*">> >>,
    <<"watch_list",   "refreshers", <<"apteryx", "refreshers", "*">> >>,
    <<"watch_list",   "providers",  <<"apteryx", "providers", "*">> >>,
    <<"watch_list",   "validators", <<"apteryx", "validators", "*">> >>,
    <<"watch_list",   "proxies",    <<"apteryx", "proxies", "*">> >> >>

\* The addresses cb_create can return: the built-in records' and the
\* MaxRecords that clients' registrations can occupy at a time.
ClientCbs == (Len(Builtin) + 1) .. (Len(Builtin) + MaxRecords)

Addrs == DOMAIN Builtin \cup ClientCbs

NoArg == [list |-> NULL, guid |-> NULL, value |-> NULL, uri |-> NULL]

-----------------------------------------------------------------------------
(* The callback library, as config.c relies on it.  A record is born with  *)
(* two references, the list's and the caller's; cb_disable takes it out of *)
(* matching without touching the count; the release that brings the count  *)
(* to zero frees it.                                                       *)

Freed == [list |-> NULL, guid |-> NULL, path |-> NULL, uri |-> NULL,
          active |-> FALSE, refcnt |-> 0]

Live(c) == cbs[c].refcnt > 0

cb_new(l, g, p) ==
    [list |-> l, guid |-> g, path |-> p, uri |-> NULL, active |-> TRUE, refcnt |-> 2]

\* Some variable still holds address c.  The cb of a thread about to call
\* cb_create is dead: the call overwrites it.
Referenced(c) ==
    \/ \E t \in Threads : c \in held[t] \/ (cb[t] = c /\ pc[t] # "create")
    \/ \E g \in DOMAIN guid_to_callback : guid_to_callback[g] = c

\* Memory the allocator can hand out.  An address that is still referenced
\* is kept out of circulation, so that a stale pointer is never mistaken for
\* a pointer to the record that took its place.
Reusable == {c \in ClientCbs : cbs[c].refcnt = 0 /\ ~Referenced(c)}

cb_create(s, c, l, g, p) == [s EXCEPT ![c] = cb_new(l, g, p)]

cb_take(s, c) == [s EXCEPT ![c].refcnt = @ + 1]

cb_release(s, c) ==
    IF c = NULL THEN s
    ELSE [s EXCEPT ![c] = IF @.refcnt = 1 THEN Freed ELSE [@ EXCEPT !.refcnt = @ - 1]]

cb_disable(s, c) == [s EXCEPT ![c].active = FALSE]

\* The enabled records of list l.
Enabled(l) == {c \in DOMAIN cbs : cbs[c].active /\ cbs[c].list = l}

\* A pattern covers a path, or the first segments of one, when each segment
\* is the path's own or the wildcard.
Covers(pattern, path) == \A i \in DOMAIN path : pattern[i] \in {path[i], "*"}

\* cb_match: the records whose pattern the path matches; cb_search: the
\* records whose pattern lies below the path.
cb_match(l, p) ==
    {c \in Enabled(l) : Len(cbs[c].path) = Len(p) /\ Covers(cbs[c].path, p)}

cb_search(l, p) ==
    {c \in Enabled(l) : Len(cbs[c].path) > Len(p) /\ Covers(cbs[c].path, p)}

cb_exists(l, p) == cb_search(l, p) # {}

cb_shutdown(s, l) ==
    [c \in DOMAIN s |-> IF s[c].list = l THEN cb_release(cb_disable(s, c), c)[c] ELSE s[c]]

\* What the registry answers with: list and GUID of every active record.
Registered(s) == {<<s[c].list, s[c].guid>> : c \in {d \in DOMAIN s : s[d].active}}

\* The history of a registry that has been r all the time.
Moment(r) == [always |-> r, ever |-> r]

\* The history once a handler has made the registry s: while a thread
\* rebuilds the statistics it keeps the registrations that were there at
\* every moment since the prune and those that were there at some moment.
Recorded(s) ==
    IF \E t \in Threads : pc[t] = "stat"
    THEN [always |-> window.always \cap Registered(s), ever |-> window.ever \cup Registered(s)]
    ELSE window

-----------------------------------------------------------------------------
Init ==
    /\ phase = "down"
    /\ cbs = [c \in Addrs |-> Freed]
    /\ guid_to_callback = [g \in Guids |-> NULL]
    /\ pc = [t \in Threads |-> "idle"]
    /\ arg = [t \in Threads |-> NoArg]
    /\ cb = [t \in Threads |-> NULL]
    /\ held = [t \in Threads |-> {}]
    /\ stats = {}
    /\ window = Moment({})
    /\ sockets = [g \in Guids \cup BadGuids |-> NULL]
    /\ apteryx_debug = 0

\* config_init: each built-in record is created and the caller's reference
\* dropped at once.  None of them is entered in guid_to_callback.
config_init ==
    /\ phase = "down"
    /\ phase' = "up"
    /\ cbs' = [c \in Addrs |->
                 IF c \in DOMAIN Builtin
                 THEN cb_release(cb_create(cbs, c, Builtin[c][1], Builtin[c][2], Builtin[c][3]), c)[c]
                 ELSE cbs[c]]
    /\ UNCHANGED <<guid_to_callback, workers, statistics, settings>>

\* config_shutdown, once the workers have drained: the six lists give up
\* their records.  guid_to_callback is left as it is.
config_shutdown ==
    /\ phase = "up"
    /\ \A t \in Threads : pc[t] = "idle"
    /\ phase' = "shutdown"
    /\ cbs' = FoldLeft(cb_shutdown, cbs, ListOrder)
    /\ UNCHANGED <<guid_to_callback, workers, statistics, settings>>

-----------------------------------------------------------------------------
(* Helpers for the steps of a handler.                                     *)

Goto(t, label) == pc' = [pc EXCEPT ![t] = label]

At(t, label) == phase = "up" /\ pc[t] = label

\* A handler has started on GUID g and not yet returned.
Handling(g) == \E t \in Threads : arg[t].guid = g

\* Records about to be allocated by handlers that are under way.
Pending == {t \in Threads : pc[t] \in {"find", "replace", "drop", "create"}
                            /\ arg[t].value # NULL}

\* The dispatcher may hand a write of v to /apteryx/<kind>/g, the prefix of
\* list l, to a thread.  A write that registers is held back while the heap
\* could run out.
MayHandle(l, g, v) ==
    /\ l \in ClientLists
    /\ SerialPerGuid => ~Handling(g)
    /\ v # NULL => Cardinality(Pending) < Cardinality(Reusable)

\* Where a handler continues once update_callback has returned.
Returned(t) == IF arg[t].list = "proxy_list" THEN "set_uri" ELSE "release"

\* A string that is no GUID is the key of no entry.
g_hash_table_lookup(g) == IF g \in DOMAIN guid_to_callback THEN guid_to_callback[g] ELSE NULL

\* Variant of find_callback that forgets cb_take.
find_callback_without_take(t, g) ==
    /\ cb' = [cb EXCEPT ![t] = g_hash_table_lookup(g)]
    /\ cbs' = cbs

\* find_callback: look the GUID up under the read lock and take a reference.
find_callback(t, g) ==
    LET found == g_hash_table_lookup(g) IN
    /\ cb' = [cb EXCEPT ![t] = found]
    /\ cbs' = IF found = NULL THEN cbs ELSE cb_take(cbs, found)

\* Variant of AfterFind that never releases the old version.
AfterFind_without_replace(t, found) ==
    IF arg[t].value # NULL THEN "create"
    ELSE IF found = NULL THEN Returned(t) ELSE "remove"

\* The branch update_callback takes on what find_callback returned.
AfterFind(t, found) ==
    CASE found = NULL /\ arg[t].value = NULL -> Returned(t)
      [] found # NULL /\ arg[t].value # NULL -> "replace"
      [] found = NULL /\ arg[t].value # NULL -> "create"
      [] found # NULL /\ arg[t].value = NULL -> "remove"

\* Variant of Unpublish that leaves the table entry in place.
Unpublish_without_remove(t) ==
    /\ UNCHANGED guid_to_callback
    /\ cbs' = cb_release(cb_disable(cbs, cb[t]), cb[t])

\* Variant of Unpublish that only releases the record.
Unpublish_without_disable(t) ==
    /\ guid_to_callback' = [guid_to_callback EXCEPT ![cbs[cb[t]].guid] = NULL]
    /\ cbs' = cb_release(cbs, cb[t])

\* One critical section of update_callback on the record the thread found:
\* the table entry of its GUID goes, the record is disabled and released.
Unpublish(t) ==
    /\ guid_to_callback' = [guid_to_callback EXCEPT ![cbs[cb[t]].guid] = NULL]
    /\ cbs' = cb_release(cb_disable(cbs, cb[t]), cb[t])

-----------------------------------------------------------------------------
(* update_callback, step by step.                                          *)

\* Entry: the GUID is parsed; one that does not parse returns NULL at once.
update_callback(t, l, g, v, u) ==
    /\ At(t, "idle")
    /\ MayHandle(l, g, v)
    /\ arg' = [arg EXCEPT ![t] = [list |-> l, guid |-> g, value |-> v, uri |-> u]]
    /\ Goto(t, CASE g \in Guids -> "find"
                  [] l = "proxy_list" -> "set_uri"
                  [] OTHER -> "release")
    /\ UNCHANGED <<phase, registry, cb, held, statistics, settings>>

UpdateCallbackFind(t) ==
    /\ At(t, "find")
    /\ find_callback(t, arg[t].guid)
    /\ Goto(t, AfterFind(t, guid_to_callback[arg[t].guid]))
    /\ UNCHANGED <<phase, guid_to_callback, arg, held, statistics, settings>>

\* "already exists - releasing old version"
UpdateCallbackReplace(t) ==
    /\ At(t, "replace")
    /\ Live(cb[t])
    /\ Unpublish(t)
    /\ Goto(t, "drop")
    /\ window' = Recorded(cbs')
    /\ UNCHANGED <<phase, arg, cb, held, stats, settings>>

\* The old record is disabled and released a second time before the create.
UpdateCallbackDrop(t) ==
    /\ At(t, "drop")
    /\ Live(cb[t])
    /\ cbs' = cb_release(cb_disable(cbs, cb[t]), cb[t])
    /\ Goto(t, "create")
    /\ window' = Recorded(cbs')
    /\ UNCHANGED <<phase, guid_to_callback, arg, cb, held, stats, settings>>

UpdateCallbackCreate(t) ==
    /\ At(t, "create")
    /\ LET new == Min(Reusable) IN
        /\ cbs' = cb_create(cbs, new, arg[t].list, arg[t].guid, arg[t].value)
        /\ cb' = [cb EXCEPT ![t] = new]
    /\ Goto(t, "publish")
    /\ window' = Recorded(cbs')
    /\ UNCHANGED <<phase, guid_to_callback, arg, held, stats, settings>>

\* Variant of UpdateCallbackPublish that returns without the table insert.
UpdateCallbackPublish_without_insert(t) ==
    /\ At(t, "publish")
    /\ Goto(t, Returned(t))
    /\ UNCHANGED <<phase, registry, arg, cb, held, statistics, settings>>

\* "This will either replace the entry removed above, or add a new one."
UpdateCallbackPublish(t) ==
    /\ At(t, "publish")
    /\ guid_to_callback' = [guid_to_callback EXCEPT ![cbs[cb[t]].guid] = cb[t]]
    /\ Goto(t, Returned(t))
    /\ UNCHANGED <<phase, cbs, arg, cb, held, statistics, settings>>

UpdateCallbackRemove(t) ==
    /\ At(t, "remove")
    /\ Live(cb[t])
    /\ Unpublish(t)
    /\ Goto(t, Returned(t))
    /\ window' = Recorded(cbs')
    /\ UNCHANGED <<phase, arg, cb, held, stats, settings>>

-----------------------------------------------------------------------------
(* The handlers.                                                           *)

\* handle_indexers_set, handle_watchers_set, handle_refreshers_set,
\* handle_providers_set, handle_validators_set differ in the list only.
handle_callbacks_set(t, l, g, v) == update_callback(t, l, g, v, NULL)

\* The tail of every handler: cb_release (cb); return true.
HandlerReturn(t) ==
    /\ At(t, "release")
    /\ cb[t] # NULL => Live(cb[t])
    /\ cbs' = cb_release(cbs, cb[t])
    /\ Goto(t, "idle")
    /\ arg' = [arg EXCEPT ![t] = NoArg]
    /\ cb' = [cb EXCEPT ![t] = NULL]
    /\ UNCHANGED <<phase, guid_to_callback, held, statistics, settings>>

\* handle_proxies_set with a value: the scheme is checked, the value is
\* split at its last ':' into uri and path, update_callback gets the path.
handle_proxies_set(t, g, u, p) ==
    /\ u \in Uris
    /\ update_callback(t, "proxy_list", g, p, u)

\* A value of any other scheme is refused before anything is touched.
handle_proxies_set_invalid(t, g, u) ==
    /\ At(t, "idle")
    /\ "proxy_list" \in ClientLists
    /\ u \in BadUris
    /\ UNCHANGED vars

\* handle_proxies_set without a value: the record is looked up, no more.
handle_proxies_unset(t, g) ==
    /\ At(t, "idle")
    /\ MayHandle("proxy_list", g, NULL)
    /\ arg' = [arg EXCEPT ![t] = [NoArg EXCEPT !.list = "proxy_list", !.guid = g]]
    /\ find_callback(t, g)
    /\ Goto(t, "release")
    /\ UNCHANGED <<phase, guid_to_callback, held, statistics, settings>>

\* Variant of ProxySetUri that copies what stands behind the ':'.
ProxySetUri_from_path(t) ==
    /\ At(t, "set_uri")
    /\ cb[t] # NULL
    /\ cbs' = [cbs EXCEPT ![cb[t]].uri = arg[t].value]
    /\ Goto(t, "release")
    /\ UNCHANGED <<phase, guid_to_callback, arg, cb, held, statistics, settings>>

\* cb->uri = g_strndup (...) on what update_callback returned.
ProxySetUri(t) ==
    /\ At(t, "set_uri")
    /\ cb[t] # NULL
    /\ Live(cb[t])
    /\ cbs' = [cbs EXCEPT ![cb[t]].uri = arg[t].uri]
    /\ Goto(t, "release")
    /\ UNCHANGED <<phase, guid_to_callback, arg, cb, held, statistics, settings>>

\* update_callback returned NULL and handle_proxies_set reads cb->uri.
ProxyNullDeref(t) ==
    /\ At(t, "set_uri")
    /\ cb[t] = NULL
    /\ phase' = "null_deref"
    /\ UNCHANGED <<registry, workers, statistics, settings>>

\* A thread goes on with a record that other threads' releases have freed:
\* a handler with the record find_callback gave it, or the engine with a
\* record of the list a lookup gave it.
UseAfterFree(t) ==
    /\ phase = "up"
    /\ \/ pc[t] \in {"replace", "drop", "remove", "set_uri", "release"}
          /\ cb[t] # NULL
          /\ ~Live(cb[t])
       \/ pc[t] = "matched"
          /\ \E c \in held[t] : ~Live(c)
    /\ phase' = "use_after_free"
    /\ UNCHANGED <<registry, workers, statistics, settings>>

\* The digits atoi reads off the front of a string; anything else gives 0.
atoi(v) == CASE v = "1" -> 1 [] v = "2" -> 2 [] OTHER -> 0

handle_debug_set(v) ==
    /\ phase = "up"
    /\ apteryx_debug' = IF v # NULL THEN atoi(v) ELSE 0
    /\ UNCHANGED <<phase, registry, workers, statistics, sockets>>

\* rpc_server_bind refuses a GUID that has a listener, a uri that is taken
\* and a uri it cannot parse; rpc_server_release drops the GUID's listener.
rpc_server_bind(g, u) ==
    IF u \in Uris /\ sockets[g] = NULL /\ \A h \in DOMAIN sockets : sockets[h] # u
    THEN [sockets EXCEPT ![g] = u]
    ELSE sockets

rpc_server_release(g) == [sockets EXCEPT ![g] = NULL]

handle_sockets_set(g, v) ==
    /\ phase = "up"
    /\ sockets' = IF v # NULL THEN rpc_server_bind(g, v) ELSE rpc_server_release(g)
    /\ UNCHANGED <<phase, registry, workers, statistics, apteryx_debug>>

-----------------------------------------------------------------------------
(* Statistics: the built-in refresher of /apteryx/statistics/*.            *)

\* The entries of /apteryx/statistics for a set of registrations.
Entries(r) == {<<StatDir[x[1]], x[2]>> : x \in r}

\* _statistics_fn over one list: one database entry per record of the list.
statistics_fn(l) == {<<StatDir[l], cbs[c].guid>> : c \in Enabled(l)}

\* Variant of db_prune that leaves the subtree as it is.
db_prune_skipped == stats

\* db_prune (APTERYX_STATISTICS): what is left of the subtree.
db_prune == {}

\* The refresher runs at most once at a time: readers serialise on its
\* cache entry.  It starts by pruning the subtree.
handle_statistics_refresh(t) ==
    /\ At(t, "idle")
    /\ t \in StatReaders
    /\ \A u \in Threads : pc[u] # "stat"
    /\ stats' = db_prune
    /\ window' = Moment(Registered(cbs))
    /\ arg' = [arg EXCEPT ![t] = [NoArg EXCEPT !.value = 1]]
    /\ Goto(t, "stat")
    /\ UNCHANGED <<phase, registry, cb, held, settings>>

\* cb_foreach over the next list; after the last one the handler returns.
StatisticsForeach(t) ==
    LET i == arg[t].value IN
    /\ At(t, "stat")
    /\ stats' = stats \cup statistics_fn(ListOrder[i])
    /\ IF i < Len(ListOrder)
       THEN arg' = [arg EXCEPT ![t].value = i + 1] /\ UNCHANGED pc
       ELSE arg' = [arg EXCEPT ![t] = NoArg] /\ Goto(t, "idle")
    /\ UNCHANGED <<phase, registry, cb, held, window, settings>>

-----------------------------------------------------------------------------
(* Lookups by the operation engine.                                        *)

\* A lookup hands thread t the records found, one reference taken on each.
\* A lookup that finds nothing changes nothing and is left out.
Lookup(t, found) ==
    /\ At(t, "idle")
    /\ found # {}
    /\ held' = [held EXCEPT ![t] = found]
    /\ cbs' = [c \in DOMAIN cbs |-> IF c \in found THEN cb_take(cbs, c)[c] ELSE cbs[c]]
    /\ Goto(t, "matched")
    /\ UNCHANGED <<phase, guid_to_callback, arg, cb, statistics, settings>>

\* config_get_indexers, config_get_providers, config_get_refreshers,
\* config_get_proxies, config_get_watchers, config_get_validators.
config_get(t, l, p) == Lookup(t, cb_match(l, p))

\* config_tree_has_refreshers, config_tree_has_providers,
\* config_tree_has_indexers: is anything registered below the path?
config_tree_has(l, p) == cb_exists(l, p)

\* config_search_indexers, config_search_providers, config_search_refreshers:
\* the engine asks config_tree_has first and searches when it says yes.
config_search(t, l, p) ==
    /\ l \in SearchLists
    /\ config_tree_has(l, p)
    /\ Lookup(t, cb_search(l, p))

\* The caller is done with the list it was given and releases each record.
ReleaseMatched(t) ==
    /\ At(t, "matched")
    /\ \A c \in held[t] : Live(c)
    /\ cbs' = [c \in DOMAIN cbs |-> IF c \in held[t] THEN cb_release(cbs, c)[c] ELSE cbs[c]]
    /\ held' = [held EXCEPT ![t] = {}]
    /\ Goto(t, "idle")
    /\ UNCHANGED <<phase, guid_to_callback, arg, cb, statistics, settings>>

-----------------------------------------------------------------------------
\* The daemon has stopped, by config_shutdown or by a fault.
Stopped ==
    /\ phase \notin {"down", "up"}
    /\ UNCHANGED vars

\* What a worker does by itself once it has taken up a handler or a lookup.
Continue(t) ==
    \/ UpdateCallbackFind(t)
    \/ UpdateCallbackReplace(t)
    \/ UpdateCallbackDrop(t)
    \/ UpdateCallbackCreate(t)
    \/ UpdateCallbackPublish(t)
    \/ UpdateCallbackRemove(t)
    \/ ProxySetUri(t)
    \/ HandlerReturn(t)
    \/ StatisticsForeach(t)
    \/ ReleaseMatched(t)

Next ==
    \/ config_init
    \/ config_shutdown
    \/ \E t \in Threads, g \in Guids \cup BadGuids :
        \/ \E l \in CallbackLists, v \in Paths \cup {NULL} : handle_callbacks_set(t, l, g, v)
        \/ \E u \in Uris, p \in Paths : handle_proxies_set(t, g, u, p)
        \/ \E u \in BadUris : handle_proxies_set_invalid(t, g, u)
        \/ handle_proxies_unset(t, g)
    \/ \E t \in Threads :
        \/ Continue(t)
        \/ ProxyNullDeref(t)
        \/ UseAfterFree(t)
        \/ handle_statistics_refresh(t)
        \/ \E l \in Lists, p \in Lookups : config_get(t, l, p) \/ config_search(t, l, p)
    \/ \E v \in DebugValues \cup {NULL} : handle_debug_set(v)
    \/ \E g \in Guids \cup BadGuids, v \in SocketUris \cup {NULL} : handle_sockets_set(g, v)
    \/ Stopped

Spec == Init /\ [][Next]_vars

\* A worker that can go on does: it is a thread of its own, and guid_lock
\* is held for a few statements at a time.
FairSpec == Spec /\ \A t \in Threads : WF_vars(Continue(t))

-----------------------------------------------------------------------------
(* Properties.                                                             *)

Pcs == {"idle", "find", "replace", "drop", "create", "publish", "remove",
        "set_uri", "release", "stat", "matched"}

\* Every list and GUID a record can have.
Registrations == Lists \X (Guids \cup {Builtin[i][2] : i \in DOMAIN Builtin})

CbInfo == [list : Lists, guid : Guids \cup {Builtin[i][2] : i \in DOMAIN Builtin},
           path : Paths \cup {Builtin[i][3] : i \in DOMAIN Builtin},
           uri : Uris \cup {NULL}, active : BOOLEAN, refcnt : Nat \ {0}]

\* The type invariant: every variable holds a value of its kind, a record
\* is either freed or counted, and only a listener uri that rpc_server_bind
\* accepted is bound by handle_sockets_set.
TypeOK ==
    /\ phase \in {"down", "up", "shutdown", "null_deref", "use_after_free"}
    /\ DOMAIN cbs = Addrs
    /\ \A c \in Addrs : cbs[c] = Freed \/ cbs[c] \in CbInfo
    /\ \A g \in Guids : guid_to_callback[g] \in DOMAIN cbs \cup {NULL}
    /\ pc \in [Threads -> Pcs]
    /\ \A t \in Threads :
        /\ arg[t].list \in Lists \cup {NULL}
        /\ arg[t].guid \in Guids \cup BadGuids \cup {NULL}
        /\ cb[t] \in DOMAIN cbs \cup {NULL}
        /\ held[t] \subseteq DOMAIN cbs
    /\ stats \subseteq Entries(Registrations)
    /\ window \in [always : SUBSET Registrations, ever : SUBSET Registrations]
    /\ \A g \in DOMAIN sockets : sockets[g] \in Uris \cup {NULL}
    /\ apteryx_debug \in Nat

\* The threads whose handler holds the reference find_callback or cb_create
\* gave it on record c, and the threads cb_match gave a reference on c.
Holders(c) == {t \in Threads : cb[t] = c /\ pc[t] \in {"replace", "drop", "publish",
                                                       "remove", "set_uri", "release"}}

Matchers(c) == {t \in Threads : c \in held[t]}

\* The reference count of a record is the list's reference, while the
\* record is enabled, plus one for every thread that holds it: the takes in
\* find_callback and cb_match and the releases in update_callback, in the
\* handlers and after a lookup balance, so that no record is freed under a
\* thread and none is left allocated with nobody to free it; what
\* config_shutdown leaves behind is all freed.
RefcountAccounting ==
    phase \in {"up", "shutdown"} =>
        \A c \in DOMAIN cbs :
            cbs[c].refcnt = (IF cbs[c].active THEN 1 ELSE 0)
                            + Cardinality(Holders(c)) + Cardinality(Matchers(c))

\* Every entry of guid_to_callback points to a record that is allocated,
\* enabled and carries the entry's GUID: find_callback never hands out freed
\* memory or a record that update_callback has already retired.
TableSound ==
    phase = "up" =>
        \A g \in Guids :
            LET c == guid_to_callback[g] IN
            c # NULL => Live(c) /\ cbs[c].active /\ cbs[c].guid = g

\* A GUID identifies one registration: across the six lists no two enabled
\* records carry the same GUID, whatever update_callback is in the middle of.
GuidUnique ==
    \A c, d \in ClientCbs :
        cbs[c].active /\ cbs[d].active /\ cbs[c].guid = cbs[d].guid => c = d

\* The enabled records with GUID g in registry s.
EnabledFor(s, g) == {c \in DOMAIN s : s[c].active /\ s[c].guid = g}

\* The registry holds exactly one record for the write a: the one the table
\* has for a.guid, in a's list, with a's path and uri.
RegisteredAs(a, s, table) ==
    \E c \in DOMAIN s :
        /\ EnabledFor(s, a.guid) = {c}
        /\ table[a.guid] = c
        /\ s[c].list = a.list /\ s[c].path = a.value /\ s[c].uri = a.uri

Unregistered(a, s, table) == EnabledFor(s, a.guid) = {} /\ table[a.guid] = NULL

\* Thread t's handler returns in this step from a write to a parseable GUID.
Returns(t) == pc[t] = "release" /\ pc'[t] = "idle" /\ arg[t].guid \in Guids

\* When a handler returns from a write of a value to /apteryx/<kind>/<guid>,
\* exactly that registration exists and is the one the table finds; when
\* handle_{indexers,watchers,refreshers,providers,validators}_set returns
\* from a write of no value, no registration with that GUID is left.
WriteTakesEffect ==
    [][\A t \in Threads :
        Returns(t) =>
            IF arg[t].value # NULL
            THEN RegisteredAs(arg[t], cbs', guid_to_callback')
            ELSE arg[t].list \in CallbackLists => Unregistered(arg[t], cbs', guid_to_callback')]_vars

\* When handle_proxies_set returns from a write of no value to
\* /apteryx/proxies/<guid>, the proxy with that GUID is gone: a record is
\* destroyed when its path is written with an empty value.
ProxyUnsetUnregisters ==
    [][\A t \in Threads :
        Returns(t) /\ arg[t].list = "proxy_list" /\ arg[t].value = NULL
            => Unregistered(arg[t], cbs', guid_to_callback')]_vars

\* A proxy that config_get_proxies hands to the engine carries the URI that
\* was written for it: requests under its path are forwarded there.
ProxyForwardsToItsUri ==
    \A t \in Threads : \A c \in held[t] :
        cbs[c].list = "proxy_list" => cbs[c].uri \in Uris

\* What handle_statistics_refresh leaves behind, whatever the handlers did
\* while it pruned and walked the six lists: an entry for every callback
\* that was registered all the while, and no entry but for a callback that
\* was registered at some moment of it.  Entries of callbacks removed
\* before the refresh do not linger, and with no handler in between the
\* entries are exactly the registered callbacks.
StatsCoverRefresh ==
    (phase = "up" /\ \A t \in Threads : pc[t] # "stat")
        => /\ Entries(window.always) \subseteq stats
           /\ stats \subseteq Entries(window.ever)

\* No thread goes on with a record after the release that freed it: the
\* reference find_callback takes keeps the record alive until the handler
\* has released it, and the reference cb_match takes for config_get_* keeps
\* it alive until the engine has released the list.
NoUseAfterFree == phase # "use_after_free"

\* handle_proxies_set never reads through a NULL that update_callback
\* returned for a GUID it could not parse.
NoNullDeref == phase # "null_deref"

-----------------------------------------------------------------------------
(* The surface as its clients see it.                                      *)

\* The registration a client finds under GUID g: list and pattern of the
\* enabled record with that GUID.
Registration(g) ==
    IF EnabledFor(cbs, g) = {} THEN NULL
    ELSE LET c == CHOOSE c \in EnabledFor(cbs, g) : TRUE
         IN  [list |-> cbs[c].list, path |-> cbs[c].path]

\* The write to GUID g that a handler is serving.
Writing(g) ==
    IF ~Handling(g) THEN NULL
    ELSE LET t == CHOOSE t \in Threads : arg[t].guid = g
         IN  [list |-> arg[t].list, path |-> arg[t].value]

Abs == INSTANCE ConfigAbs WITH
    Kinds <- Lists, Patterns <- Paths,
    registered <- [g \in Guids |-> Registration(g)],
    writing <- [g \in Guids |-> Writing(g)]

\* With writes to one GUID served one at a time, the handlers of the five
\* callback kinds implement ConfigAbs: the steps of update_callback retire
\* and install the registration of the written GUID only, a replaced
\* registration is retired before the new one appears, and no handler
\* returns before the registry shows what was written.
ImplementsConfigAbs == Abs!Spec

\* With writes to one GUID served one at a time, every handler and every
\* lookup a worker has taken up comes back: no step of update_callback is
\* left waiting for a record that was freed under it or for memory that
\* cb_create does not get, and no fault stops the daemon in the middle.
WorkersReturn == \A t \in Threads : pc[t] # "idle" ~> pc[t] = "idle"

=============================================================================
