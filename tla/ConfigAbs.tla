----------------------------- MODULE ConfigAbs -----------------------------
(***************************************************************************)
(* What the self-configuration surface promises its clients: a write to    *)
(* /apteryx/<kind>/<guid> is taken up, the registration of that GUID is    *)
(* retired and, when the write carries a pattern, the written one is put   *)
(* in its place; when the write returns, the GUID is registered as written *)
(* and no other GUID has been touched.                                     *)
(***************************************************************************)
CONSTANTS
    Guids,      \* the GUIDs clients register under
    Kinds,      \* the kinds of callback
    Patterns,   \* the pattern paths
    NULL        \* no registration, no pattern, no write

VARIABLES
    registered, \* per GUID: its registration, or NULL
    writing     \* per GUID: the write in progress, or NULL

absVars == <<registered, writing>>

Registration == [list : Kinds, path : Patterns]

Write == [list : Kinds, path : Patterns \cup {NULL}]

\* What a write leaves registered once it has returned.
Target(w) == IF w.path = NULL THEN NULL ELSE w

TypeOK ==
    /\ registered \in [Guids -> Registration \cup {NULL}]
    /\ writing \in [Guids -> Write \cup {NULL}]

Init ==
    /\ registered = [g \in Guids |-> NULL]
    /\ writing = [g \in Guids |-> NULL]

Accept(g, w) ==
    /\ writing[g] = NULL
    /\ writing' = [writing EXCEPT ![g] = w]
    /\ UNCHANGED registered

Retire(g) ==
    /\ writing[g] # NULL
    /\ registered[g] # NULL
    /\ registered' = [registered EXCEPT ![g] = NULL]
    /\ UNCHANGED writing

Install(g) ==
    /\ writing[g] # NULL
    /\ registered[g] = NULL
    /\ registered' = [registered EXCEPT ![g] = Target(writing[g])]
    /\ UNCHANGED writing

Return(g) ==
    /\ writing[g] # NULL
    /\ registered[g] = Target(writing[g])
    /\ writing' = [writing EXCEPT ![g] = NULL]
    /\ UNCHANGED registered

Shutdown ==
    /\ \A g \in Guids : writing[g] = NULL
    /\ registered' = [g \in Guids |-> NULL]
    /\ UNCHANGED writing

Next ==
    \/ \E g \in Guids : (\E w \in Write : Accept(g, w)) \/ Retire(g) \/ Install(g) \/ Return(g)
    \/ Shutdown

Spec == Init /\ [][Next]_absVars

=============================================================================
