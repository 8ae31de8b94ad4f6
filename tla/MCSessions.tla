----------------------------- MODULE MCSessions -----------------------------
(***************************************************************************)
(* A small instance of Sessions for TLC: two devices can race a change of  *)
(* the password, and MaxKeys leaves room for the account, two changes and  *)
(* a reset.                                                                *)
(***************************************************************************)
EXTENDS Sessions, TLC
=============================================================================
