--------------------------- MODULE MCServeCommand ---------------------------
(***************************************************************************)
(* ServeCommand for TLC: a library program with two threads, or the        *)
(* command line with its main thread, and two clients, so that one waits   *)
(* in the backlog while the other is served.                               *)
(***************************************************************************)
EXTENDS ServeCommand

CONSTANTS main, other, c1, c2, none

TwoCallers == {main, other}
TwoClients == {c1, c2}

=============================================================================
