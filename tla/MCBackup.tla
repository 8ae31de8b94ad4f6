------------------------------ MODULE MCBackup ------------------------------
(***************************************************************************)
(* Small instances of Backup for TLC.                                      *)
(***************************************************************************)
EXTENDS Backup, TLC
=============================================================================
