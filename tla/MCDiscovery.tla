---------------------------- MODULE MCDiscovery ----------------------------
(***************************************************************************)
(* Instances of Discovery for TLC.                                         *)
(***************************************************************************)
EXTENDS Discovery

CONSTANTS s1, s2, s3, q1

ThreeServers == {s1, s2, s3}
OneSeeker    == {q1}

=============================================================================
