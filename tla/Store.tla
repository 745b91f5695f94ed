------------------------------- MODULE Store --------------------------------
(***************************************************************************)
(* The part of the Apteryx database the client programs of src/test.c rely *)
(* on: values at paths, each stamped with the time of its last write.      *)
(*                                                                         *)
(* The database itself is not among the sources; this module is written    *)
(* from the specification (data model, set, get, timestamp and cas) and    *)
(* from what test_cas expects of it.  A daemon operation runs under the    *)
(* database lock, so each is one atomic step of the client that calls it.  *)
(***************************************************************************)
EXTENDS Naturals

CONSTANTS
    DbPaths,    \* the paths clients use
    DbValues,   \* the values they store
    NULL,       \* no value: the path is absent
    MaxClock    \* bound on the microsecond clock

VARIABLES
    db,         \* path -> [value, ts]; an absent path has value NULL and ts 0
    now,        \* the daemon's clock
    last        \* the latest timestamp handed out

storeVars == <<db, now, last>>

Absent == [value |-> NULL, ts |-> 0]

StoreInit ==
    /\ db = [p \in DbPaths |-> Absent]
    /\ now = 1
    /\ last = 0

\* Time passes between two requests, or does not.
Tick ==
    /\ now < MaxClock
    /\ now' = now + 1
    /\ UNCHANGED <<db, last>>

\* The time a write is stamped with: the clock, bumped past the latest stamp
\* when two writes fall into the same microsecond.
Stamp == IF now > last THEN now ELSE last + 1

apteryx_timestamp(p) == db[p].ts

apteryx_get(p) == db[p].value

\* set: the value is written and stamped; writing no value removes the path.
apteryx_set(p, v) ==
    /\ db' = [db EXCEPT ![p] = IF v = NULL THEN Absent ELSE [value |-> v, ts |-> Stamp]]
    /\ last' = IF v = NULL THEN last ELSE Stamp
    /\ UNCHANGED now

\* cas succeeds when the path still carries the timestamp the caller read.
CasMatches(p, ts) == db[p].ts = ts

\* cas: compare and write under one hold of the lock; -EBUSY changes nothing.
apteryx_cas(p, v, ts) ==
    IF CasMatches(p, ts) THEN apteryx_set(p, v) ELSE UNCHANGED storeVars

StoreTypeOK ==
    /\ db \in [DbPaths -> [value : DbValues \cup {NULL}, ts : Nat]]
    /\ now \in 1..MaxClock
    /\ last \in Nat

=============================================================================
