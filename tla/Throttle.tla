------------------------------ MODULE Throttle ------------------------------
(***************************************************************************)
(* The throttle on wrong passwords, which POST /login and                  *)
(* POST /settings/password share.                                          *)
(*                                                                         *)
(* A request asks Throttled first, then reads its form and compares the    *)
(* password for as long as bcrypt takes, and only then records the         *)
(* outcome: other requests of the same address run in between.  Each of    *)
(* Throttled, RecordFailure and RecordSuccess holds throttleMu throughout, *)
(* so each is one step.                                                    *)
(*                                                                         *)
(* A request counts for the address that module Proxy attributes it to.    *)
(*                                                                         *)
(* Two failures are never recorded at the same instant, to the nanosecond: *)
(* recording one takes time.                                               *)
(***************************************************************************)
EXTENDS Proxy, FiniteSets

CONSTANTS
    Requests,          \* the password requests that can be in progress at once
    NoAddress,         \* an idle request's address
    MaxAttempts,
    ThrottleWindow, LockoutDuration, ThrottleIdleTTL,
    MaxTime            \* bound on the clock

ASSUME ThrottleAssumption ==
    /\ NoAddress \notin Addresses
    /\ IsFiniteSet(Requests)
    /\ MaxAttempts \in Nat /\ MaxAttempts > 1
    /\ ThrottleWindow \in Nat /\ LockoutDuration \in Nat /\ ThrottleIdleTTL \in Nat
    /\ 1 < ThrottleWindow /\ ThrottleWindow <= LockoutDuration
    /\ LockoutDuration < ThrottleIdleTTL
    /\ MaxTime \in Nat \ {0}

VARIABLES
    now,       \* the clock
    attempts,  \* the map from addresses to their records
    checking,  \* the address of each request past Throttled, or NoAddress
    reported   \* the address whose lockout the last failure reported

vars == <<now, attempts, checking, reported>>

Times == 0..MaxTime

Attempt == [count       : Nat \ {0},
            windowStart : Times,
            lockedUntil : 0..(MaxTime + LockoutDuration),
            lastSeen    : Times]

NoAttempts == [ip \in {} |-> 0]

Init ==
    /\ now = 1
    /\ attempts = NoAttempts
    /\ checking = [r \in Requests |-> NoAddress]
    /\ reported = NoAddress

Throttled(ip) == ip \in DOMAIN attempts /\ now < attempts[ip].lockedUntil

(* Mutant: the lockout is not looked at. *)
SubmitUnchecked(r, ip) ==
    /\ checking[r] = NoAddress
    /\ checking' = [checking EXCEPT ![r] = ip]
    /\ reported' = NoAddress
    /\ UNCHANGED <<now, attempts>>

Submit(r, ip) ==
    /\ checking[r] = NoAddress
    /\ ~Throttled(ip)
    /\ checking' = [checking EXCEPT ![r] = ip]
    /\ reported' = NoAddress
    /\ UNCHANGED <<now, attempts>>

(* Mutant: the sweep takes the records whose window is over. *)
SweptByWindow == {ip \in DOMAIN attempts : now - attempts[ip].windowStart > ThrottleWindow}

(* The records sweepLocked deletes. *)
Swept == {ip \in DOMAIN attempts : now - attempts[ip].lastSeen > ThrottleIdleTTL}

(* Whether the failure belongs to the window the record counts. *)
InWindow(ip) ==
    /\ ip \in DOMAIN attempts \ Swept
    /\ now - attempts[ip].windowStart <= ThrottleWindow

(* Mutant: lastSeen stays at the first failure. *)
CountedKeepsLastSeen(ip) ==
    LET first == ~InWindow(ip)
        count == IF first THEN 1 ELSE attempts[ip].count + 1
    IN  [count       |-> count,
         windowStart |-> IF first THEN now ELSE attempts[ip].windowStart,
         lockedUntil |-> IF count >= MaxAttempts THEN now + LockoutDuration ELSE 0,
         lastSeen    |-> IF first THEN now ELSE attempts[ip].lastSeen]

(* The record after one more failure. *)
Counted(ip) ==
    LET count == IF InWindow(ip) THEN attempts[ip].count + 1 ELSE 1
    IN  [count       |-> count,
         windowStart |-> IF InWindow(ip) THEN attempts[ip].windowStart ELSE now,
         lockedUntil |-> IF count >= MaxAttempts THEN now + LockoutDuration ELSE 0,
         lastSeen    |-> now]

(* Mutant: every failure of a locked-out address is reported. *)
TripsAlways(ip) == Counted(ip).count >= MaxAttempts

(* RecordFailure's result: this attempt is the one that locks out. *)
Trips(ip) == Counted(ip).count = MaxAttempts

RecordFailure(r) ==
    LET ip == checking[r]
        kept == DOMAIN attempts \ Swept
    IN  /\ ip # NoAddress
        /\ now < MaxTime
        /\ attempts' = [other \in kept \cup {ip} |->
                           IF other = ip THEN Counted(ip) ELSE attempts[other]]
        /\ reported' = IF Trips(ip) THEN ip ELSE NoAddress
        /\ checking' = [checking EXCEPT ![r] = NoAddress]
        /\ now' = now + 1

RecordSuccess(r) ==
    LET ip == checking[r]
    IN  /\ ip # NoAddress
        /\ attempts' = [other \in DOMAIN attempts \ {ip} |-> attempts[other]]
        /\ reported' = NoAddress
        /\ checking' = [checking EXCEPT ![r] = NoAddress]
        /\ UNCHANGED now

(* The form cannot be read, the right current password comes with a new    *)
(* one that does not validate, or Rotate fails: nothing is recorded.       *)
Abandon(r) ==
    /\ checking[r] # NoAddress
    /\ checking' = [checking EXCEPT ![r] = NoAddress]
    /\ reported' = NoAddress
    /\ UNCHANGED <<now, attempts>>

Tick ==
    /\ now < MaxTime
    /\ now' = now + 1
    /\ reported' = NoAddress
    /\ UNCHANGED <<attempts, checking>>

(* The map is in memory only. *)
Restart ==
    /\ attempts' = NoAttempts
    /\ checking' = [r \in Requests |-> NoAddress]
    /\ reported' = NoAddress
    /\ UNCHANGED now

Next ==
    \/ \E r \in Requests :
        \/ \E client \in Clients : \E ip \in Attributed[client] : Submit(r, ip)
        \/ RecordFailure(r)
        \/ RecordSuccess(r)
        \/ Abandon(r)
    \/ Tick
    \/ Restart

Spec == Init /\ [][Next]_vars

-----------------------------------------------------------------------------
(* Properties *)

(* Type correctness, with what the fields of a record are to each other:   *)
(* a lockout is counted from the last failure.                             *)
TypeOK ==
    /\ now \in Times
    /\ DOMAIN attempts \subseteq Addresses
    /\ \A ip \in DOMAIN attempts :
        /\ attempts[ip] \in Attempt
        /\ attempts[ip].windowStart <= attempts[ip].lastSeen
        /\ attempts[ip].lastSeen < now
        /\ attempts[ip].lockedUntil \in {0, attempts[ip].lastSeen + LockoutDuration}
    /\ checking \in [Requests -> Addresses \cup {NoAddress}]
    /\ reported \in Addresses \cup {NoAddress}

(* The requests that passed Throttled before the lockout are the only ones *)
(* that can fail on top of MaxAttempts: one record never counts more than  *)
(* the limit and the other requests that can be in progress.               *)
AttemptsBounded ==
    \A ip \in DOMAIN attempts :
        attempts[ip].count <= MaxAttempts - 1 + Cardinality(Requests)

(***************************************************************************)
(* A locked-out client stays out whatever X-Forwarded-For it sends and     *)
(* whichever proxies it comes through, and no header makes a client wait   *)
(* for what another one did.  (the comments of TrustedProxies, ClientIP)   *)
(***************************************************************************)
HeadersBuyNothing ==
    \A client \in Clients : \A ip \in Attributed[client] :
        Throttled(ip) <=> Throttled(client)

(***************************************************************************)
(* A lockout ends by running out or by a restart; else only a request of   *)
(* the same address that had passed Throttled before can end it: with the  *)
(* right password, or with a failure recorded when the window of the       *)
(* lockout's record is over.  No other failure shortens a lockout, and the *)
(* sweep that another address's failure makes does not touch it.           *)
(* The comment of RecordFailure ("locking it out for lockoutDuration") and *)
(* the README's "15-minute lockout" know nothing of the failure that ends  *)
(* one; the code replaces the record then, with a count of 1.              *)
(* (RecordFailure, RecordSuccess, sweepLocked)                             *)
(***************************************************************************)
LockoutHolds ==
    [][\A ip \in Addresses :
          Throttled(ip) /\ ~Throttled(ip)'
              => \/ now' >= attempts[ip].lockedUntil
                 \/ attempts' = NoAttempts
                 \/ /\ \E r \in Requests : checking[r] = ip /\ checking'[r] = NoAddress
                    /\ \/ ip \notin DOMAIN attempts'
                       \/ now - attempts[ip].windowStart > ThrottleWindow]_vars

(* RecordFailure reports a lockout when it begins and only then, although  *)
(* several requests may fail on top of each other and a lockout that ran   *)
(* out may be followed by the next.                                        *)
LockoutReportedOnce ==
    [][\A ip \in Addresses :
          (reported' = ip) <=> (~Throttled(ip) /\ Throttled(ip)')]_vars
=============================================================================
