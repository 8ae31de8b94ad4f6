--------------------------- MODULE SessionsProofs ---------------------------
(***************************************************************************)
(* Proofs about Sessions, for any devices, passwords and number of keys.   *)
(*                                                                         *)
(* That a replaced key stays dead depends on the keys of changes that are  *)
(* still in progress: they may neither repeat a key in use nor one that    *)
(* was replaced, whatever order the changes and a reset come in.           *)
(***************************************************************************)
EXTENDS Sessions, TLAPS

(* The key that the change of device d has prepared is not on disk yet,    *)
(* or not in memory yet.                                                   *)
Unwritten(d)  == pc[d] \in {"change", "locked"}
Unfinished(d) == pc[d] \in {"change", "locked", "written"}

(* The lock is held by the change that is past it, in a server that runs.  *)
LockHeld ==
    /\ \A d \in Devices : pc[d] \in {"locked", "written"} <=> mu = d
    /\ \A d \in Devices : pc[d] # "idle" => up
    /\ \A d \in Devices : Unfinished(d) => chosen[d] \in Settings
    /\ up => stored # NoAccount

(* Memory lags behind the disk only while a change is between the two.     *)
MemoryFollows ==
    up /\ ~resetBehind =>
        IF \E d \in Devices : pc[d] = "written"
        THEN \A d \in Devices : pc[d] = "written" => stored = chosen[d]
        ELSE cached = stored

(* Every key in use was generated; the next one is new.                    *)
KeysGenerated ==
    /\ stored.key <= lastKey
    /\ cached.key <= lastKey
    /\ \A d \in Devices : chosen[d].key <= lastKey
    /\ retired \subseteq 0..lastKey

(* Changes in progress have keys of their own.                             *)
KeysDistinct ==
    /\ \A d \in Devices : Unfinished(d) => chosen[d].key # cached.key
    /\ \A d \in Devices : Unwritten(d) =>
           chosen[d].key # stored.key /\ chosen[d].key \notin retired
    /\ \A d, e \in Devices :
           Unfinished(d) /\ Unfinished(e) /\ d # e => chosen[d].key # chosen[e].key
    /\ \A d \in Devices : pc[d] = "written" => stored.key # cached.key
    /\ stored # NoAccount => stored.key \notin retired

SInv == TypeOK /\ LockHeld /\ MemoryFollows /\ KeysGenerated /\ KeysDistinct

-----------------------------------------------------------------------------

(* What the settings of an account, and those of none, are to the proofs.  *)
LEMMA AccountFacts ==
    /\ NoAccount.key = 0
    /\ \A a \in Settings : a.key \in 1..MaxKeys /\ a # NoAccount
    /\ \A a \in Settings \cup {NoAccount} : a.key \in 0..MaxKeys
  BY SessionsAssumption DEF Settings, NoAccount

(* A generated key is one more than any before it.                         *)
LEMMA GenerateNew ==
  ASSUME lastKey \in 0..MaxKeys, lastKey < MaxKeys, NEW p \in Passwords
  PROVE  Generate(p) \in Settings /\ Generate(p).key = lastKey + 1
  BY SessionsAssumption DEF Generate, Settings

(* At the start nobody has a key or a request.                             *)
LEMMA InitInv == Init => SInv
  <1> USE SessionsAssumption, AccountFacts DEF Init
  <1>1. Init => TypeOK
    <2>1. Init => /\ stored \in Settings \cup {NoAccount}
                  /\ cached \in Settings \cup {NoAccount}
                  /\ chosen \in [Devices -> Settings \cup {NoAccount}]
      OBVIOUS
    <2>2. Init => pc \in [Devices -> Steps]
      BY DEF Steps
    <2>3. Init => cookie \in [Devices -> 0..MaxKeys] /\ lastKey \in 0..MaxKeys
      OBVIOUS
    <2>4. QED
      BY <2>1, <2>2, <2>3 DEF TypeOK
  <1>2. Init => LockHeld
    BY DEF LockHeld, Unfinished
  <1>3. Init => MemoryFollows
    BY DEF MemoryFollows
  <1>4. Init => KeysGenerated
    BY DEF KeysGenerated
  <1>5. Init => KeysDistinct
    BY DEF KeysDistinct, Unwritten, Unfinished
  <1> QED
    BY <1>1, <1>2, <1>3, <1>4, <1>5 DEF SInv

(* A change begins with a key that nobody has.                             *)
LEMMA CheckCurrentInv ==
  ASSUME NEW d \in Devices, SInv, CheckCurrent(d)
  PROVE  SInv'
  <1> USE SessionsAssumption, AccountFacts, GenerateNew DEF SInv, CheckCurrent, row, memory, requests, history, Goto, DrawKey, Reading, Login, SignedIn
  <1>1. TypeOK'
    <2>1. /\ stored' \in Settings \cup {NoAccount}
          /\ cached' \in Settings \cup {NoAccount}
          /\ chosen' \in [Devices -> Settings \cup {NoAccount}]
      BY DEF TypeOK
    <2>2. up' \in BOOLEAN /\ (up' => cached' # NoAccount) /\ resetBehind' \in BOOLEAN
      BY DEF TypeOK, LockHeld, Unfinished
    <2>3. mu' \in Devices \cup {Nobody} /\ pc' \in [Devices -> Steps]
      BY DEF TypeOK, Steps
    <2>4. cookie' \in [Devices -> 0..MaxKeys] /\ lastKey' \in 0..MaxKeys
      BY DEF TypeOK
    <2>5. retired' \subseteq 0..MaxKeys
      BY DEF TypeOK
    <2>6. QED
      BY <2>1, <2>2, <2>3, <2>4, <2>5 DEF TypeOK
  <1>2. LockHeld'
    BY DEF TypeOK, LockHeld, Unfinished, Steps
  <1>3. MemoryFollows'
    BY DEF TypeOK, LockHeld, MemoryFollows, Steps
  <1>4. KeysGenerated'
    BY DEF TypeOK, KeysGenerated
  <1>5. KeysDistinct'
    BY DEF TypeOK, LockHeld, KeysGenerated, KeysDistinct, Unwritten, Unfinished, Steps
  <1> QED
    BY <1>1, <1>2, <1>3, <1>4, <1>5

(* The key on disk was no other change's, and has not been replaced.       *)
LEMMA WriteRotatedInv ==
  ASSUME NEW d \in Devices, SInv, WriteRotated(d)
  PROVE  SInv'
  <1> USE SessionsAssumption, AccountFacts, GenerateNew DEF SInv, WriteRotated, row, memory, requests, history, Goto, DrawKey, Reading, Login, SignedIn
  <1>1. TypeOK'
    <2>1. /\ stored' \in Settings \cup {NoAccount}
          /\ cached' \in Settings \cup {NoAccount}
          /\ chosen' \in [Devices -> Settings \cup {NoAccount}]
      BY DEF TypeOK
    <2>2. up' \in BOOLEAN /\ (up' => cached' # NoAccount) /\ resetBehind' \in BOOLEAN
      BY DEF TypeOK, LockHeld, Unfinished
    <2>3. mu' \in Devices \cup {Nobody} /\ pc' \in [Devices -> Steps]
      BY DEF TypeOK, Steps
    <2>4. cookie' \in [Devices -> 0..MaxKeys] /\ lastKey' \in 0..MaxKeys
      BY DEF TypeOK
    <2>5. retired' \subseteq 0..MaxKeys
      BY DEF TypeOK
    <2>6. QED
      BY <2>1, <2>2, <2>3, <2>4, <2>5 DEF TypeOK
  <1>2. LockHeld'
    BY DEF TypeOK, LockHeld, Unfinished, Steps
  <1>3. MemoryFollows'
    BY DEF TypeOK, LockHeld, MemoryFollows, Steps
  <1>4. KeysGenerated'
    BY DEF TypeOK, KeysGenerated
  <1>5. KeysDistinct'
    BY DEF TypeOK, LockHeld, KeysGenerated, KeysDistinct, Unwritten, Unfinished, Steps
  <1> QED
    BY <1>1, <1>2, <1>3, <1>4, <1>5

(* The key that memory gives up is on disk no more, and no change has it.  *)
LEMMA CacheRotatedInv ==
  ASSUME NEW d \in Devices, SInv, CacheRotated(d)
  PROVE  SInv'
  <1> USE SessionsAssumption, AccountFacts, GenerateNew DEF SInv, CacheRotated, row, memory, requests, history, Goto, DrawKey, Reading, Login, SignedIn
  <1>1. TypeOK'
    <2>1. /\ stored' \in Settings \cup {NoAccount}
          /\ cached' \in Settings \cup {NoAccount}
          /\ chosen' \in [Devices -> Settings \cup {NoAccount}]
      BY DEF TypeOK
    <2>2. up' \in BOOLEAN /\ (up' => cached' # NoAccount) /\ resetBehind' \in BOOLEAN
      BY DEF TypeOK, LockHeld, Unfinished
    <2>3. mu' \in Devices \cup {Nobody} /\ pc' \in [Devices -> Steps]
      BY DEF TypeOK, Steps
    <2>4. cookie' \in [Devices -> 0..MaxKeys] /\ lastKey' \in 0..MaxKeys
      BY DEF TypeOK
    <2>5. retired' \subseteq 0..MaxKeys
      BY DEF TypeOK
    <2>6. QED
      BY <2>1, <2>2, <2>3, <2>4, <2>5 DEF TypeOK
  <1>2. LockHeld'
    BY DEF TypeOK, LockHeld, Unfinished, Steps
  <1>3. MemoryFollows'
    BY DEF TypeOK, LockHeld, MemoryFollows, Steps
  <1>4. KeysGenerated'
    <2>1. cached.key \in 0..lastKey
      BY DEF TypeOK, KeysGenerated
    <2>2. QED
      BY <2>1 DEF TypeOK, KeysGenerated
  <1>5. KeysDistinct'
    BY DEF TypeOK, LockHeld, KeysGenerated, KeysDistinct, Unwritten, Unfinished, Steps
  <1> QED
    BY <1>1, <1>2, <1>3, <1>4, <1>5

(* A start takes the key on disk, or makes the first one.                  *)
LEMMA StartInv ==
  ASSUME SInv, Start
  PROVE  SInv'
  <1> USE SessionsAssumption, AccountFacts, GenerateNew DEF SInv, Start, row, memory, requests, history, Goto, DrawKey, Reading, Login, SignedIn
  <1>1. TypeOK'
    <2>1. /\ stored' \in Settings \cup {NoAccount}
          /\ cached' \in Settings \cup {NoAccount}
          /\ chosen' \in [Devices -> Settings \cup {NoAccount}]
      BY DEF TypeOK
    <2>2. up' \in BOOLEAN /\ (up' => cached' # NoAccount) /\ resetBehind' \in BOOLEAN
      BY DEF TypeOK, LockHeld, Unfinished
    <2>3. mu' \in Devices \cup {Nobody} /\ pc' \in [Devices -> Steps]
      BY DEF TypeOK, Steps
    <2>4. cookie' \in [Devices -> 0..MaxKeys] /\ lastKey' \in 0..MaxKeys
      BY DEF TypeOK
    <2>5. retired' \subseteq 0..MaxKeys
      BY DEF TypeOK
    <2>6. QED
      BY <2>1, <2>2, <2>3, <2>4, <2>5 DEF TypeOK
  <1>2. LockHeld'
    BY DEF TypeOK, LockHeld, Unfinished, Steps
  <1>3. MemoryFollows'
    BY DEF TypeOK, LockHeld, MemoryFollows, Steps
  <1>4. KeysGenerated'
    BY DEF TypeOK, KeysGenerated
  <1>5. KeysDistinct'
    BY DEF TypeOK, LockHeld, KeysGenerated, KeysDistinct, Unwritten, Unfinished, Steps
  <1> QED
    BY <1>1, <1>2, <1>3, <1>4, <1>5

(* The reset replaces the key on disk by a new one, whatever is in progress.*)
LEMMA ResetPasswordInv ==
  ASSUME SInv, ResetPassword
  PROVE  SInv'
  <1> USE SessionsAssumption, AccountFacts, GenerateNew DEF SInv, ResetPassword, row, memory, requests, history, Goto, DrawKey, Reading, Login, SignedIn
  <1>1. TypeOK'
    <2>1. /\ stored' \in Settings \cup {NoAccount}
          /\ cached' \in Settings \cup {NoAccount}
          /\ chosen' \in [Devices -> Settings \cup {NoAccount}]
      BY DEF TypeOK
    <2>2. up' \in BOOLEAN /\ (up' => cached' # NoAccount) /\ resetBehind' \in BOOLEAN
      BY DEF TypeOK, LockHeld, Unfinished
    <2>3. mu' \in Devices \cup {Nobody} /\ pc' \in [Devices -> Steps]
      BY DEF TypeOK, Steps
    <2>4. cookie' \in [Devices -> 0..MaxKeys] /\ lastKey' \in 0..MaxKeys
      BY DEF TypeOK
    <2>5. retired' \subseteq 0..MaxKeys
      BY DEF TypeOK
    <2>6. QED
      BY <2>1, <2>2, <2>3, <2>4, <2>5 DEF TypeOK
  <1>2. LockHeld'
    BY DEF TypeOK, LockHeld, Unfinished, Steps
  <1>3. MemoryFollows'
    BY DEF TypeOK, LockHeld, MemoryFollows, Steps
  <1>4. KeysGenerated'
    <2>1. stored.key \in 0..lastKey
      BY DEF TypeOK, KeysGenerated
    <2>2. lastKey \in Nat /\ lastKey' = lastKey + 1
      BY DEF TypeOK
    <2>3. retired \cup {stored.key} \subseteq 0..lastKey
      BY <2>1 DEF KeysGenerated
    <2>4. retired' \subseteq 0..lastKey'
      BY <2>2, <2>3
    <2>5. QED
      BY <2>4 DEF TypeOK, KeysGenerated
  <1>5. KeysDistinct'
    BY DEF TypeOK, LockHeld, KeysGenerated, KeysDistinct, Unwritten, Unfinished, Steps
  <1> QED
    BY <1>1, <1>2, <1>3, <1>4, <1>5

(* Every step preserves the invariant.  The actions without a lemma above  *)
(* change neither keys in use nor the history.                             *)
LEMMA StepInv == SInv /\ [Next]_vars => SInv'
  <1> SUFFICES ASSUME SInv, [Next]_vars PROVE SInv'
    OBVIOUS
  <1> USE SessionsAssumption, AccountFacts DEF SInv, TypeOK, LockHeld, MemoryFollows,
          KeysGenerated, KeysDistinct, Unwritten, Unfinished, Steps
  <1>1. ASSUME NEW d \in Devices, CheckLogin(d) PROVE SInv'
    BY <1>1 DEF CheckLogin, Goto, Reading, row, memory, history
  <1>2. ASSUME NEW d \in Devices, FinishLogin(d) PROVE SInv'
    BY <1>2 DEF FinishLogin, Goto, Login, Reading, row, memory, history
  <1>3. ASSUME NEW d \in Devices, Logout(d) PROVE SInv'
    BY <1>3 DEF Logout, row, memory, requests, history
  <1>4. ASSUME NEW d \in Devices, Admit(d) PROVE SInv'
    BY <1>4 DEF Admit, Goto, Reading, row, memory, history
  <1>5. ASSUME NEW d \in Devices, CheckCurrent(d) PROVE SInv'
    BY <1>5, CheckCurrentInv
  <1>6. ASSUME NEW d \in Devices, Refuse(d) PROVE SInv'
    BY <1>6 DEF Refuse, Goto, row, memory, history
  <1>7. ASSUME NEW d \in Devices, LockRotate(d) PROVE SInv'
    BY <1>7 DEF LockRotate, Goto, row, history
  <1>8. ASSUME NEW d \in Devices, WriteRotated(d) PROVE SInv'
    BY <1>8, WriteRotatedInv
  <1>9. ASSUME NEW d \in Devices, WriteFails(d) PROVE SInv'
    BY <1>9 DEF WriteFails, Goto, row, history
  <1>10. ASSUME NEW d \in Devices, CacheRotated(d) PROVE SInv'
    BY <1>10, CacheRotatedInv
  <1>11. ASSUME NEW d \in Devices, FinishChange(d) PROVE SInv'
    BY <1>11 DEF FinishChange, Goto, Login, Reading, row, memory, history
  <1>12. ASSUME Start PROVE SInv'
    BY <1>12, StartInv
  <1>13. ASSUME Stop PROVE SInv'
    BY <1>13 DEF Stop, row, history
  <1>14. ASSUME ResetPassword PROVE SInv'
    BY <1>14, ResetPasswordInv
  <1>15. CASE UNCHANGED vars
    BY <1>15 DEF vars, row, memory, requests, history
  <1>16. QED
    BY <1>1, <1>2, <1>3, <1>4, <1>5, <1>6, <1>7, <1>8, <1>9, <1>10, <1>11, <1>12, <1>13, <1>14, <1>15 DEF Next, ChangeStep

-----------------------------------------------------------------------------

(* The invariant holds in every behaviour of Sessions.                     *)
THEOREM SessionsInvariance == Spec => []SInv
  BY InitInv, StepInv, PTL DEF Spec

(* Type correctness of Sessions: a running server has an account and a key *)
(* to sign with.                                                           *)
THEOREM SessionsTypeCorrect == Spec => []TypeOK
  <1>1. SInv => TypeOK
    BY DEF SInv
  <1>2. QED
    BY SessionsInvariance, <1>1, PTL

(* Memory and disk agree whenever nobody is changing the password, however *)
(* many changes race, fail and are cut off.  (Auth.Rotate, auth.New)       *)
THEOREM MemoryAgreesWithDisk == Spec => []StoredMatchesCached
  <1>1. SInv => StoredMatchesCached
    BY SessionsAssumption
       DEF SInv, TypeOK, LockHeld, MemoryFollows, StoredMatchesCached
  <1>2. QED
    BY SessionsInvariance, <1>1, PTL

(* A session key that a change or a reset replaced is neither stored nor   *)
(* used again.  (Auth.Rotate, resetPassword)                               *)
THEOREM ReplacedKeysStayDead == Spec => []KeysStayRetired
  <1>1. SInv => StoredMatchesCached
    BY SessionsAssumption
       DEF SInv, TypeOK, LockHeld, MemoryFollows, StoredMatchesCached
  <1>2. SInv => KeysStayRetired
    BY <1>1 DEF SInv, TypeOK, LockHeld, KeysDistinct, KeysStayRetired, StoredMatchesCached
  <1>3. QED
    BY SessionsInvariance, <1>2, PTL

(* A start signs nobody out whose cookie is under the stored key: the      *)
(* configured password does not touch an account that exists.  (auth.New)  *)
THEOREM StartSignsNobodyOut == Spec => StartKeepsSessions
  <1>1. ASSUME SInv, [Next]_vars, ~up, up',
               NEW d \in Devices, cookie[d] # 0, cookie[d] = stored.key
        PROVE  SignedIn(d)'
    <2>1. Start
      BY <1>1 DEF SInv, LockHeld, Next, ChangeStep, CheckLogin, FinishLogin, Login, Logout, Admit,
             CheckCurrent, Refuse, LockRotate, WriteRotated, WriteFails, CacheRotated,
             FinishChange, Stop, ResetPassword, vars
    <2>2. stored # NoAccount
      BY <1>1, AccountFacts
    <2>3. cached' = stored /\ cookie' = cookie
      BY <2>1, <2>2 DEF Start, row
    <2>4. QED
      BY <1>1, <2>3 DEF SignedIn
  <1>2. SInv /\ [Next]_vars =>
            [~up /\ up' => \A d \in Devices :
                 cookie[d] # 0 /\ cookie[d] = stored.key => SignedIn(d)']_vars
    BY <1>1
  <1>3. QED
    BY SessionsInvariance, <1>2, PTL DEF Spec, StartKeepsSessions
=============================================================================
