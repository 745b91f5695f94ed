------------------------------- MODULE Bitmap -------------------------------
(***************************************************************************)
(* test_bitmap and _bitmap_thread of src/test.c: client threads that each  *)
(* set one low bit and clear one high bit of a bitmap stored at one path,  *)
(* by reading the path's timestamp, reading its value and writing the new  *)
(* value back with apteryx_cas until the write is accepted.                *)
(*                                                                         *)
(* A bitmap is the set of the positions of its one-bits; the hexadecimal   *)
(* text it is stored as is left out.  The largest shift, 1 << 31, stays in *)
(* the 32 bits of the C type for the 16 threads of the test.               *)
(***************************************************************************)
EXTENDS Naturals, FiniteSets

CONSTANTS
    NWriters,       \* threads the test starts (bitmap_bits / 2)
    NULL,           \* no value
    MaxClock,       \* bound on the daemon's clock
    RpcErrors       \* TRUE: apteryx_cas may fail with an errno other than -EBUSY

Writers == 0 .. (NWriters - 1)

bitmap_bits == 2 * NWriters

Bitmaps == SUBSET (0 .. (bitmap_bits - 1))

bitmap_path == "/test/interfaces/eth0/status"

VARIABLES
    db, now, last,  \* the database (module Store)
    main,           \* where test_bitmap stands
    observed,       \* the bitmap test_bitmap read back, NULL before that
    pc,             \* per writer: where _bitmap_thread stands
    ts,             \* per writer: its local ts
    bitmap          \* per writer: its local bitmap

INSTANCE Store WITH DbPaths <- {bitmap_path}, DbValues <- Bitmaps

vars == <<db, now, last, main, observed, pc, ts, bitmap>>

\* Variant of SetBit that shifts past the width of the bitmap.
SetBit_beyond_width(id) == bitmap_bits + id

\* The bit a writer sets and the bit it clears.
SetBit(id) == id

ClearBit(id) == bitmap_bits \div 2 + id

\* 0xFFFF0000 and 0x0000FFFF at the width of the model.
HighHalf == {ClearBit(id) : id \in Writers}

LowHalf == {SetBit(id) : id \in Writers}

-----------------------------------------------------------------------------
Init ==
    /\ StoreInit
    /\ main = "set"
    /\ observed = NULL
    /\ pc = [id \in Writers |-> "unborn"]
    /\ ts = [id \in Writers |-> 0]
    /\ bitmap = [id \in Writers |-> {}]

\* test_bitmap stores the initial bitmap.
TestBitmapSet ==
    /\ main = "set"
    /\ apteryx_set(bitmap_path, HighHalf)
    /\ main' = "create"
    /\ UNCHANGED <<observed, pc, ts, bitmap>>

\* pthread_create for writer i, the count of those created so far; after
\* the last one the test sleeps.
TestBitmapCreate ==
    LET i == Cardinality({id \in Writers : pc[id] # "unborn"}) IN
    /\ main = "create"
    /\ \/ i \in Writers /\ pc' = [pc EXCEPT ![i] = "timestamp"] /\ UNCHANGED main
       \/ i \notin Writers /\ main' = "sleep" /\ UNCHANGED pc
    /\ UNCHANGED <<db, now, last, observed, ts, bitmap>>

\* The test reads the bitmap back once its sleep is over.  The sleep is
\* taken to outlast the writers: the test does not join them.
TestBitmapCheck ==
    /\ main = "sleep"
    /\ \A id \in Writers : pc[id] \in {"done", "failed"}
    /\ observed' = apteryx_get(bitmap_path)
    /\ main' = "clean"
    /\ UNCHANGED <<db, now, last, pc, ts, bitmap>>

\* The test removes the path.
TestBitmapClean ==
    /\ main = "clean"
    /\ apteryx_set(bitmap_path, NULL)
    /\ main' = "end"
    /\ UNCHANGED <<observed, pc, ts, bitmap>>

-----------------------------------------------------------------------------
(* _bitmap_thread: one round of its loop is three requests to the daemon.  *)

\* uint64_t ts = apteryx_timestamp (path);
BitmapTimestamp(id) ==
    /\ pc[id] = "timestamp"
    /\ ts' = [ts EXCEPT ![id] = apteryx_timestamp(bitmap_path)]
    /\ pc' = [pc EXCEPT ![id] = "get"]
    /\ UNCHANGED <<db, now, last, main, observed, bitmap>>

\* Variant of BitmapGet that sets its bit and clears none.
BitmapGet_without_clear(id) ==
    /\ pc[id] = "get"
    /\ bitmap' = [bitmap EXCEPT ![id] = apteryx_get(bitmap_path) \cup {SetBit(id)}]
    /\ pc' = [pc EXCEPT ![id] = "cas"]
    /\ UNCHANGED <<db, now, last, main, observed, ts>>

\* The value is read, no value counting as no bits, and the writer's bits
\* are changed in the local copy.
BitmapGet(id) ==
    LET value == apteryx_get(bitmap_path)
        read == IF value = NULL THEN {} ELSE value
    IN
    /\ pc[id] = "get"
    /\ bitmap' = [bitmap EXCEPT ![id] = (read \ {ClearBit(id)}) \cup {SetBit(id)}]
    /\ pc' = [pc EXCEPT ![id] = "cas"]
    /\ UNCHANGED <<db, now, last, main, observed, ts>>

\* Variant of AfterCas that retries with the timestamp it already has.
AfterCas_keeping_timestamp(success) == IF success THEN "done" ELSE "get"

\* The loop ends when the write was accepted; on -EBUSY it starts over.
AfterCas(success) == IF success THEN "done" ELSE "timestamp"

\* Variant of BitmapCas that writes without comparing timestamps.
BitmapCas_without_compare(id) ==
    /\ pc[id] = "cas"
    /\ apteryx_set(bitmap_path, bitmap[id])
    /\ pc' = [pc EXCEPT ![id] = "done"]
    /\ UNCHANGED <<main, observed, ts, bitmap>>

\* bool success = apteryx_cas (path, value, ts);
BitmapCas(id) ==
    /\ pc[id] = "cas"
    /\ apteryx_cas(bitmap_path, bitmap[id], ts[id])
    /\ pc' = [pc EXCEPT ![id] = AfterCas(CasMatches(bitmap_path, ts[id]))]
    /\ UNCHANGED <<main, observed, ts, bitmap>>

\* The request fails for another reason and the thread leaves the loop.
BitmapCasError(id) ==
    /\ RpcErrors
    /\ pc[id] = "cas"
    /\ pc' = [pc EXCEPT ![id] = "failed"]
    /\ UNCHANGED <<db, now, last, main, observed, ts, bitmap>>

Writer(id) ==
    \/ BitmapTimestamp(id)
    \/ BitmapGet(id)
    \/ BitmapCas(id)
    \/ BitmapCasError(id)

\* Time passes in the daemon while the clients run.
ClockTick == Tick /\ UNCHANGED <<main, observed, pc, ts, bitmap>>

Test == TestBitmapSet \/ TestBitmapCreate \/ TestBitmapCheck \/ TestBitmapClean

\* The test has returned.
Ended == main = "end" /\ UNCHANGED vars

Next ==
    \/ Test
    \/ \E id \in Writers : Writer(id)
    \/ ClockTick
    \/ Ended

\* Every thread that can take a step is scheduled again, and the daemon
\* answers every request.
Fairness ==
    /\ WF_vars(Test)
    /\ \A id \in Writers : WF_vars(Writer(id))

Spec == Init /\ [][Next]_vars /\ Fairness

-----------------------------------------------------------------------------
(* Properties.                                                             *)

TypeOK ==
    /\ StoreTypeOK
    /\ main \in {"set", "create", "sleep", "clean", "end"}
    /\ observed \in Bitmaps \cup {NULL}
    /\ pc \in [Writers -> {"unborn", "timestamp", "get", "cas", "done", "failed"}]
    /\ ts \in [Writers -> Nat]
    /\ bitmap \in [Writers -> Bitmaps]

\* No write is lost: while the path exists, the bitmap stored there shows
\* the change of every writer whose apteryx_cas was accepted, whatever the
\* other writers wrote after reading an older value.
NoLostUpdate ==
    apteryx_get(bitmap_path) # NULL =>
        \A id \in Writers :
            pc[id] = "done" =>
                /\ SetBit(id) \in apteryx_get(bitmap_path)
                /\ ClearBit(id) \notin apteryx_get(bitmap_path)

\* What test_bitmap asserts: the bitmap it reads back is 0x0000FFFF, every
\* low bit set and every high bit cleared, when no request failed.
TestAsserts ==
    (observed # NULL /\ \A id \in Writers : pc[id] # "failed") => observed = LowHalf

\* Every writer leaves its loop: a writer's apteryx_cas is refused only
\* when another writer's was accepted, and each writer is accepted once.
Termination == <>(\A id \in Writers : pc[id] \in {"done", "failed"})

=============================================================================
