----------------------------- MODULE MCSyncTask -----------------------------
(***************************************************************************)
(* Instances of SyncTask for TLC.  Two callers are enough for one to be    *)
(* inside each call while the other makes another; one client is enough to *)
(* hold the server.                                                        *)
(***************************************************************************)
EXTENDS SyncTask

CONSTANTS main, other, c1, none

TwoCallers == {main, other}
OneClient  == {c1}

=============================================================================
