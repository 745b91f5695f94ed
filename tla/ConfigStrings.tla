--------------------------- MODULE ConfigStrings ---------------------------
(***************************************************************************)
(* The strings src/config.c takes apart.                                   *)
(*                                                                         *)
(* handle_proxies_set splits the value written to /apteryx/proxies/<guid>  *)
(* into the URI requests are forwarded to and the path that is proxied;    *)
(* handle_counters_index and handle_counters_get serve the daemon's        *)
(* counters under /apteryx/counters.  Module Config carries URIs and paths *)
(* as values that are already split; this module checks the splitting.     *)
(*                                                                         *)
(* A string is the sequence of its tokens: ":" and "/" are the characters  *)
(* the code looks for, "unix" and "tcp" the letters of the two schemes,    *)
(* any other token a run of characters that are neither.  A pointer into a *)
(* string is a position in it.                                             *)
(***************************************************************************)
EXTENDS Naturals, Sequences

LOCAL INSTANCE SequencesExt

CONSTANTS
    Urls,       \* the URLs clients pass to apteryx_proxy
    Paths,      \* the paths clients pass to apteryx_proxy
    Values,     \* the strings clients write to /apteryx/proxies/<guid> directly
    Counters,   \* the names of the daemon's counters (X_FIELDS)
    MaxCount,   \* bound on the value of a counter
    NULL        \* no string, no request

ASSUME
    /\ Urls \cup Paths \cup Values \subseteq Seq(STRING)
    /\ Counters \subseteq STRING
    /\ MaxCount \in Nat

VARIABLES
    asked,      \* url and path of the apteryx_proxy call last served, or NULL
    written,    \* the value last written to /apteryx/proxies/<guid>
    proxy,      \* what handle_proxies_set made of it
    counters    \* the daemon's counters

vars == <<asked, written, proxy, counters>>

-----------------------------------------------------------------------------
(* The C library, on sequences of tokens.                                  *)

\* The string a pointer to position i of s points to.
From(s, i) == SubSeq(s, i, Len(s))

\* The first occurrence of c in s.
strchr(s, c) == SelectInSeq(s, LAMBDA x : x = c)

\* The last occurrence of c in s.
strrchr(s, c) == SelectLastInSeq(s, LAMBDA x : x = c)

g_strndup(s, n) == SubSeq(s, 1, n)

-----------------------------------------------------------------------------
(* The value of a proxy.                                                   *)

Schemes == {<<"unix", ":", "/", "/">>, <<"tcp", ":", "/", "/">>}

\* What apteryx_proxy writes for a url and a path.
Join(url, path) == url \o <<":">> \o path

\* The two strncmp of handle_proxies_set.
HasScheme(value) == \E scheme \in Schemes : IsPrefix(scheme, value)

Refused == [status |-> "refused", uri |-> NULL, path |-> NULL]

\* Variant of Separator that stops at the first ':'.
Separator_first(value) == strchr(value, ":")

\* The ':' handle_proxies_set takes to stand between uri and path.
Separator(value) == strrchr(value, ":")

\* The value branch of handle_proxies_set: the path starts after the last
\* ':' of the value, the uri is what stands before that ':'.  A value that
\* has one of the schemes has a ':', so strrchr finds one.
Split(value) ==
    LET path == From(value, Separator(value) + 1)
    IN  IF ~HasScheme(value) THEN Refused
        ELSE [status |-> "registered", path |-> path,
              uri |-> g_strndup(value, Len(value) - Len(path) - 1)]

handle_proxies_set(value) ==
    /\ written' = value
    /\ proxy' = Split(value)
    /\ UNCHANGED counters

\* A client registers a proxy through the library.
apteryx_proxy(url, path) ==
    /\ asked' = [url |-> url, path |-> path]
    /\ handle_proxies_set(Join(url, path))

\* A client writes the value itself.
apteryx_set(value) ==
    /\ asked' = NULL
    /\ handle_proxies_set(value)

-----------------------------------------------------------------------------
(* The counters.                                                           *)

APTERYX_COUNTERS == <<"/", "apteryx", "/", "counters">>

INC_COUNTER(name) ==
    /\ counters[name] < MaxCount
    /\ counters' = [counters EXCEPT ![name] = @ + 1]
    /\ UNCHANGED <<asked, written, proxy>>

\* The index of /apteryx/counters/: one path for each counter.
handle_counters_index == {APTERYX_COUNTERS \o <<"/", name>> : name \in Counters}

\* Variant of handle_counters_get that compares without the '/'.
handle_counters_get_after_slash(path) ==
    LET counter == From(path, strrchr(path, "/") + 1)
        named == {name \in Counters : counter = <<"/", name>>}
    IN  IF named = {} THEN NULL ELSE counters[CHOOSE name \in named : TRUE]

\* The provider of /apteryx/counters/: the counter whose name, with a '/'
\* before it, is the tail of the path from its last '/'; NULL if none is.
handle_counters_get(path) ==
    LET counter == From(path, strrchr(path, "/"))
        named == {name \in Counters : counter = <<"/", name>>}
    IN  IF named = {} THEN NULL ELSE counters[CHOOSE name \in named : TRUE]

-----------------------------------------------------------------------------
Init ==
    /\ asked = NULL
    /\ written = NULL
    /\ proxy = Refused
    /\ counters = [name \in Counters |-> 0]

Next ==
    \/ \E url \in Urls, path \in Paths : apteryx_proxy(url, path)
    \/ \E value \in Values : apteryx_set(value)
    \/ \E name \in Counters : INC_COUNTER(name)

Spec == Init /\ [][Next]_vars

-----------------------------------------------------------------------------
(* Properties.                                                             *)

\* A proxy that apteryx_proxy registers for a path without a ':' forwards
\* that path to the url it was given, however many ':' the url has: the
\* last ':' of the value handle_proxies_set receives is the one
\* apteryx_proxy put between the two.
SplitRecoversColonFreePath ==
    (asked # NULL /\ ~Contains(asked.path, ":"))
        => proxy = [status |-> "registered", uri |-> asked.url, path |-> asked.path]

\* A proxy that apteryx_proxy registers forwards the path it was given to
\* the url it was given: handle_proxies_set undoes what apteryx_proxy joined.
SplitRecoversProxy ==
    asked # NULL
        => proxy = [status |-> "registered", uri |-> asked.url, path |-> asked.path]

\* Every path that handle_counters_index lists, handle_counters_get answers
\* with the counter of that name.
IndexedCountersAreProvided ==
    \A path \in handle_counters_index : handle_counters_get(path) = counters[Last(path)]

=============================================================================
