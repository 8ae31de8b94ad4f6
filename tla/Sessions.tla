------------------------------ MODULE Sessions ------------------------------
(***************************************************************************)
(* The password and the sessions: logging in, changing the password in     *)
(* Settings (Auth.Rotate), restarts, and the reset command.                *)
(*                                                                         *)
(* The row auth_settings holds the password and the key that signs         *)
(* session cookies; the server works from a copy in memory, guarded by the *)
(* lock mu.  A password is its own hash here, and a cookie is the key that *)
(* signed it: a device is signed in while that is the key in memory.       *)
(* Wrong passwords belong to module Throttle; here they are requests that  *)
(* stop at Refuse.                                                         *)
(***************************************************************************)
EXTENDS Integers

CONSTANTS
    Devices,          \* browsers; each has one request in progress at most
    Nobody,           \* mu while no writer holds it
    Passwords,        \* passwords that ValidatePassword accepts
    ConfigPassword,   \* the one in binbash.toml
    MaxKeys           \* bound: session keys ever generated

ASSUME SessionsAssumption ==
    /\ Nobody \notin Devices
    /\ ConfigPassword \in Passwords
    /\ MaxKeys \in Nat \ {0}

VARIABLES
    up,          \* whether the server runs
    stored,      \* the row of auth_settings
    cached,      \* passwordHash and key in memory
    mu,          \* the device whose request write-holds the lock, or Nobody
    pc,          \* where each device's request is
    chosen,      \* the hash and key a change in progress has prepared
    cookie,      \* the key that signed each device's cookie; 0 without one
    lastKey,     \* the keys generated so far: rand.Read never repeats one
    resetBehind, \* history: -reset-password was run beside a running server
    retired      \* history: the keys a finished change or reset replaced

row      == <<stored, lastKey>>
memory   == <<cached, mu>>
requests == <<pc, chosen>>
history  == <<resetBehind, retired>>
vars == <<up, row, memory, requests, cookie, history>>

Settings == [hash : Passwords, key : 1..MaxKeys]

(* The absence of the row. *)
NoAccount == [hash |-> ConfigPassword, key |-> 0]

Steps == {"idle", "checked", "admitted", "change", "locked", "written", "rotated"}

Init ==
    /\ up = FALSE
    /\ stored = NoAccount /\ cached = NoAccount
    /\ mu = Nobody
    /\ pc = [d \in Devices |-> "idle"]
    /\ chosen = [d \in Devices |-> NoAccount]
    /\ cookie = [d \in Devices |-> 0]
    /\ lastKey = 0
    /\ resetBehind = FALSE /\ retired = {}

(* New settings with a key nobody has had. *)
Generate(hash) == [hash |-> hash, key |-> lastKey + 1]

DrawKey == lastKey < MaxKeys /\ lastKey' = lastKey + 1

Goto(d, from, to) == pc[d] = from /\ pc' = [pc EXCEPT ![d] = to]

(* CheckPassword and sign take a read lock for as long as they copy. *)
Reading == up /\ mu = Nobody

SignedIn(d) == cookie[d] # 0 /\ cookie[d] = cached.key

-----------------------------------------------------------------------------
(* Logging in and out *)

(* The right password was typed, as compared with the hash read here. *)
CheckLogin(d) ==
    /\ Reading
    /\ Goto(d, "idle", "checked")
    /\ UNCHANGED <<up, row, memory, chosen, cookie, history>>

(* The cookie is signed with the key read now. *)
Login(d) ==
    /\ Reading
    /\ cookie' = [cookie EXCEPT ![d] = cached.key]
    /\ UNCHANGED <<up, row, memory, chosen, history>>

FinishLogin(d) == Goto(d, "checked", "idle") /\ Login(d)

(* Logout, or the cookie expires in the browser. *)
Logout(d) ==
    /\ pc[d] = "idle"
    /\ cookie' = [cookie EXCEPT ![d] = 0]
    /\ UNCHANGED <<up, row, memory, requests, history>>

-----------------------------------------------------------------------------
(* Changing the password *)

(* The middleware lets the signed-in device through. *)
Admit(d) ==
    /\ Reading
    /\ SignedIn(d)
    /\ Goto(d, "idle", "admitted")
    /\ UNCHANGED <<up, row, memory, chosen, cookie, history>>

(* The current password was right and the new one validates: Rotate hashes *)
(* it and generates a key before it takes the lock.                        *)
CheckCurrent(d) ==
    /\ Reading
    /\ Goto(d, "admitted", "change")
    /\ DrawKey
    /\ \E p \in Passwords : chosen' = [chosen EXCEPT ![d] = Generate(p)]
    /\ UNCHANGED <<up, stored, memory, cookie, history>>

(* A wrong current password, a new one that does not validate, or an error *)
(* of the hash or the random source.                                       *)
Refuse(d) ==
    /\ Goto(d, "admitted", "idle")
    /\ UNCHANGED <<up, row, memory, chosen, cookie, history>>

(* Mutant: Rotate without its lock. *)
LockRotateUnlocked(d) ==
    /\ Goto(d, "change", "locked")
    /\ UNCHANGED <<up, row, memory, chosen, cookie, history>>

LockRotate(d) ==
    /\ Goto(d, "change", "locked")
    /\ mu = Nobody
    /\ mu' = d
    /\ UNCHANGED <<up, row, cached, chosen, cookie, history>>

(* Mutant: the UPDATE's error is dropped. *)
WriteRotatedUnchecked(d) ==
    /\ Goto(d, "locked", "written")
    /\ stored' \in {stored, chosen[d]}
    /\ UNCHANGED <<up, lastKey, memory, chosen, cookie, history>>

WriteRotated(d) ==
    /\ Goto(d, "locked", "written")
    /\ stored' = chosen[d]
    /\ UNCHANGED <<up, lastKey, memory, chosen, cookie, history>>

(* Mutant: the error path returns with the lock held. *)
WriteFailsLocked(d) ==
    /\ Goto(d, "locked", "idle")
    /\ UNCHANGED <<up, row, memory, chosen, cookie, history>>

(* The UPDATE fails; the deferred Unlock runs, and the page is an error. *)
WriteFails(d) ==
    /\ Goto(d, "locked", "idle")
    /\ mu' = Nobody
    /\ UNCHANGED <<up, row, cached, chosen, cookie, history>>

CacheRotated(d) ==
    /\ Goto(d, "written", "rotated")
    /\ cached' = chosen[d]
    /\ mu' = Nobody
    /\ retired' = retired \cup {cached.key}
    /\ UNCHANGED <<up, row, chosen, cookie, resetBehind>>

(* The device that asked gets a cookie under the new key. *)
FinishChange(d) == Goto(d, "rotated", "idle") /\ Login(d)

-----------------------------------------------------------------------------
(* The process *)

(* Mutant: an account is created at every start that has a password. *)
StartBootstraps ==
    /\ ~up /\ up' = TRUE
    /\ DrawKey
    /\ stored' = Generate(ConfigPassword)
    /\ cached' = stored'
    /\ resetBehind' = FALSE
    /\ UNCHANGED <<mu, requests, cookie, retired>>

(* Mutant: a start without an account goes on without one. *)
StartKeyless ==
    /\ ~up /\ up' = TRUE
    /\ cached' = stored
    /\ resetBehind' = FALSE
    /\ UNCHANGED <<row, mu, requests, cookie, retired>>

(* auth.New: the row wins; only when there is none the configured password *)
(* creates it.                                                             *)
Start ==
    /\ ~up /\ up' = TRUE
    /\ \/ stored # NoAccount /\ UNCHANGED row
       \/ stored = NoAccount /\ DrawKey /\ stored' = Generate(ConfigPassword)
    /\ cached' = stored'
    /\ resetBehind' = FALSE
    /\ UNCHANGED <<mu, requests, cookie, retired>>

(* A shutdown, an update's restart or a crash, whatever is in progress. *)
Stop ==
    /\ up /\ up' = FALSE
    /\ mu' = Nobody
    /\ pc' = [d \in Devices |-> "idle"]
    /\ UNCHANGED <<row, cached, chosen, cookie, history>>

(* binbash -reset-password, which any number of servers may sit beside. *)
ResetPassword ==
    /\ DrawKey
    /\ \E p \in Passwords : stored' = Generate(p)
    /\ retired' = retired \cup {stored.key}
    /\ resetBehind' = (resetBehind \/ up)
    /\ UNCHANGED <<up, memory, requests, cookie>>

ChangeStep(d) ==
    \/ CheckCurrent(d)
    \/ Refuse(d)
    \/ LockRotate(d)
    \/ WriteRotated(d)
    \/ WriteFails(d)
    \/ CacheRotated(d)
    \/ FinishChange(d)

Next ==
    \/ \E d \in Devices :
        \/ CheckLogin(d)
        \/ FinishLogin(d)
        \/ Logout(d)
        \/ Admit(d)
        \/ ChangeStep(d)
    \/ Start
    \/ Stop
    \/ ResetPassword

(* A request that has begun runs on: the lock is a sync.RWMutex, which     *)
(* starves nobody.                                                         *)
Fairness == \A d \in Devices : SF_vars(FinishLogin(d) \/ ChangeStep(d))

Spec == Init /\ [][Next]_vars /\ Fairness

-----------------------------------------------------------------------------
(* Properties *)

(* Type correctness.  A running server has an account and a key to sign    *)
(* with.                                                                   *)
TypeOK ==
    /\ up \in BOOLEAN
    /\ stored \in Settings \cup {NoAccount}
    /\ cached \in Settings \cup {NoAccount}
    /\ up => cached # NoAccount
    /\ mu \in Devices \cup {Nobody}
    /\ pc \in [Devices -> Steps]
    /\ chosen \in [Devices -> Settings \cup {NoAccount}]
    /\ cookie \in [Devices -> 0..MaxKeys]
    /\ lastKey \in 0..MaxKeys
    /\ resetBehind \in BOOLEAN
    /\ retired \subseteq 0..MaxKeys

(* Whenever nobody is changing the password, the copy in memory is the row *)
(* on disk, hash and key, whatever changes raced, failed or were cut off.  *)
(* Only the reset command run beside the server comes between them.        *)
StoredMatchesCached ==
    up /\ mu = Nobody /\ ~resetBehind => cached = stored

(* A key that a change or a reset replaced never comes back: not on disk,  *)
(* nor in memory after a restart, so the cookies under it stay dead.       *)
KeysStayRetired ==
    /\ mu = Nobody /\ stored # NoAccount => stored.key \notin retired
    /\ up /\ mu = Nobody /\ ~resetBehind => cached.key \notin retired

(* A start signs nobody out whose cookie is under the stored key.  The     *)
(* configured password does not touch an account that exists.              *)
StartKeepsSessions ==
    [][~up /\ up' => \A d \in Devices :
           cookie[d] # 0 /\ cookie[d] = stored.key => SignedIn(d)']_vars

(* Every request that has begun is answered: the lock is always given back.*)
EveryRequestAnswered == \A d \in Devices : (pc[d] # "idle") ~> (pc[d] = "idle")
=============================================================================
