--------------------------- MODULE MCBackupExport ---------------------------
(***************************************************************************)
(* BackupExport for TLC: one export beside one restore.  The data          *)
(* directory is on another device, so that its moves copy and unlink.  The *)
(* restore is not killed: to an export, that is a restore that stands      *)
(* still.                                                                  *)
(***************************************************************************)
EXTENDS BackupExport

DataOnly == {"data"}

=============================================================================
