------------------------------ MODULE MCConfig ------------------------------
(***************************************************************************)
(* Config instantiated for TLC.                                            *)
(***************************************************************************)
EXTENDS Config, TLC

\* Two patterns that both match /a/b, and the paths lookups are made for:
\* /a/b is matched by both patterns, both patterns lie below /a.
MCPaths == {<<"a", "b">>, <<"a", "*">>}

MCLookups == {<<"a", "b">>, <<"a">>}

\* Threads are interchangeable, and so are the client GUIDs.
Symmetry == Permutations(Threads) \cup Permutations(Guids)

=============================================================================
