------------------------------ MODULE MCRestore ------------------------------
(***************************************************************************)
(* Instances of RestoreTxn for TLC.  Two restores in a row are enough for  *)
(* the second to start from whatever the first one left behind.            *)
(***************************************************************************)
EXTENDS RestoreTxn

NoPart         == {}
DataOnly       == {"data"}
ExtensionsOnly == {"extensions"}

=============================================================================
