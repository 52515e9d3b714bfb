---------------------------- MODULE MCRazeUpdate ----------------------------
(***************************************************************************)
(* Instances of RazeUpdate for TLC.  Forward: a package changes, one stays *)
(* without being offered again, one is dropped and comes back.  Back: a    *)
(* release undoes the one before it.                                       *)
(***************************************************************************)
EXTENDS RazeUpdate

CONSTANTS server, web

TwoPackages == {server, web}

Release(s, w) == [p \in TwoPackages |-> IF p = server THEN s ELSE w]

Forward       == <<Release(1, 1), Release(2, 1), Release(2, 0), Release(3, 2)>>
ForwardAssets == <<TwoPackages, {server}, {server}, TwoPackages>>

Back          == <<Release(1, 1), Release(2, 1), Release(1, 1)>>
BackAssets    == <<TwoPackages, TwoPackages, TwoPackages>>

=============================================================================
