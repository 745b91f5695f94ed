-------------------------- MODULE MCConfigStrings --------------------------
(***************************************************************************)
(* ConfigStrings for TLC: three URLs, every path of up to four tokens, and *)
(* every tail of up to three tokens behind a scheme, another scheme and    *)
(* no scheme.                                                              *)
(***************************************************************************)
EXTENDS ConfigStrings

LOCAL INSTANCE SequencesExt

Tails == BoundedSeq({"h", ":", "/"}, 3)

\* "tcp://h:h" as tcp://127.0.0.1:9999, "tcp://h::h:h" as tcp://[::1]:9999,
\* "unix:///h" as unix:///tmp/apteryx.
MCUrls == {<<"tcp", ":", "/", "/", "h", ":", "h">>,
           <<"tcp", ":", "/", "/", "h", ":", ":", "h", ":", "h">>,
           <<"unix", ":", "/", "/", "/", "h">>}

MCPaths == {<<"/">> \o tail : tail \in Tails}

MCValues == {head \o tail : head \in Schemes \cup {<<"h", ":", "/", "/">>, <<>>},
                            tail \in Tails}

=============================================================================
