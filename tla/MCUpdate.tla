------------------------------ MODULE MCUpdate ------------------------------
(***************************************************************************)
(* Small instances of Update for TLC: two clicks on the button, an update  *)
(* that works and one whose release is defective, or two that work.        *)
(***************************************************************************)
EXTENDS Update, TLC
=============================================================================
