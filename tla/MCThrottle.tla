----------------------------- MODULE MCThrottle -----------------------------
(***************************************************************************)
(* A small instance of Throttle for TLC.  MaxTime leaves room for a window *)
(* with a lockout at its end, the lockout, the idle time after which the   *)
(* sweep takes the record, and a failure after that.                       *)
(***************************************************************************)
EXTENDS Throttle, TLC

(* Headers of up to two entries; no proxy, one, or two in either order.    *)
MCClaims == {<<>>} \cup [1..1 -> Addresses \cup {Malformed}]
                   \cup [1..2 -> Addresses \cup {Malformed}]
MCRoutes == {<<>>} \cup [1..1 -> Trusted] \cup [1..2 -> Trusted]
=============================================================================
