----------------------------- MODULE MCStartup ------------------------------
(***************************************************************************)
(* A small instance of Startup for TLC: the service, one other process     *)
(* that is typed as the service's user, as root or as somebody else, and   *)
(* two migrations.                                                         *)
(***************************************************************************)
EXTENDS Startup, TLC
=============================================================================
