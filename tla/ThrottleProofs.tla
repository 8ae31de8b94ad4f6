--------------------------- MODULE ThrottleProofs ---------------------------
(***************************************************************************)
(* Proofs about Throttle, for any number of requests and addresses and any *)
(* durations that the assumption admits.                                   *)
(*                                                                         *)
(* A lockout that has begun lasts longer than the window it was earned in, *)
(* so while a record can still be counted up, no new request gets past     *)
(* Throttled: every further failure is of a request that was in progress,  *)
(* and uses one of them up.                                                *)
(***************************************************************************)
EXTENDS Throttle, FiniteSetTheorems, SequenceTheorems, TLAPS

-----------------------------------------------------------------------------
(* Who a request is attributed to *)

(* What a client claims stands left of the entry that the first proxy      *)
(* appends for it, and everything right of that entry is a proxy.          *)
LEMMA ChainEnds ==
  ASSUME NEW client \in Clients,
         NEW claim \in Seq(Addresses \cup {Malformed}),
         NEW route \in Seq(Trusted), route # <<>>
  PROVE  LET chain == Arrival(client, claim, route).chain
         IN  /\ Len(claim) + 1 \in DOMAIN chain
             /\ chain[Len(claim) + 1] = client
             /\ DOMAIN chain \subseteq Nat
             /\ \A k \in DOMAIN chain : k > Len(claim) + 1 => chain[k] \in Trusted
  <1> DEFINE n     == Len(claim)
             hops  == SubSeq(route, 1, Len(route) - 1)
             front == claim \o <<client>>
             chain == front \o hops
  <1>1. /\ n \in Nat
        /\ front \in Seq(Addresses \cup {Malformed})
        /\ Len(front) = n + 1
        /\ front[n + 1] = client
    BY ProxyAssumption DEF Clients
  <1>2. Len(route) \in Nat /\ Len(route) - 1 \in 0..Len(route) /\ Len(route) - 1 \in Int
    OBVIOUS
  <1>3. hops \in Seq(Trusted) /\ Len(hops) = Len(route) - 1
    <2>1. /\ hops \in Seq(Trusted)
          /\ Len(hops) = IF 1 <= Len(route) - 1 THEN (Len(route) - 1) - 1 + 1 ELSE 0
      BY <1>2, SubSeqProperties
    <2> HIDE DEF hops
    <2> DEFINE m == Len(route)
    <2>2. m \in Nat /\ m - 1 \in Nat /\ Len(hops) = IF 1 <= m - 1 THEN (m - 1) - 1 + 1 ELSE 0
      BY <1>2, <2>1
    <2> HIDE DEF m
    <2>3. Len(hops) = m - 1
      BY <2>2
    <2> QED
      BY <2>1, <2>3 DEF m
  <1> HIDE DEF front, hops
  <1>4. /\ Len(chain) = n + 1 + Len(hops)
        /\ chain \in Seq(Addresses \cup {Malformed})
        /\ chain[n + 1] = client
    BY <1>1, <1>3, ProxyAssumption
  <1>5. ASSUME NEW k \in DOMAIN chain, k > n + 1 PROVE chain[k] \in Trusted
    <2>1. k \in Nat /\ k <= n + 1 + Len(hops)
      BY <1>1, <1>3, <1>4
    <2>2. chain[k] = hops[k - (n + 1)]
      BY <1>1, <1>3, <1>5, <2>1
    <2>3. k - (n + 1) \in 1..Len(hops)
      BY <1>1, <1>3, <1>5, <2>1
    <2> QED
      BY <1>3, <2>2, <2>3
  <1>6. n + 1 \in DOMAIN chain /\ DOMAIN chain \subseteq Nat
    BY <1>1, <1>3, <1>4
  <1>7. Arrival(client, claim, route).chain = chain
    BY DEF Arrival, chain, front, hops
  <1> HIDE DEF chain
  <1> QED
    BY <1>4, <1>5, <1>6, <1>7

(***************************************************************************)
(* Whatever header a client sends, of any length, and however many proxies *)
(* it comes through, it is attributed to its own address.                  *)
(***************************************************************************)
THEOREM ClientFound ==
  ASSUME NEW client \in Clients,
         NEW claim \in Seq(Addresses \cup {Malformed}),
         NEW route \in Seq(Trusted)
  PROVE  ClientIP(Arrival(client, claim, route)) = client
  <1>1. client \notin Trusted /\ client # Malformed
    BY ProxyAssumption DEF Clients
  <1>2. CASE route = <<>>
    BY <1>1, <1>2 DEF Arrival, ClientIP
  <1>3. CASE route # <<>>
    <2> DEFINE chain == Arrival(client, claim, route).chain
               other == {k \in DOMAIN chain : chain[k] \notin Trusted}
               last  == CHOOSE k \in other : \A j \in other : j <= k
               n     == Len(claim)
    <2>1. /\ n + 1 \in DOMAIN chain /\ chain[n + 1] = client
          /\ DOMAIN chain \subseteq Nat
          /\ \A k \in DOMAIN chain : k > n + 1 => chain[k] \in Trusted
          /\ n \in Nat
      BY <1>3, ChainEnds
    <2> HIDE DEF chain, n
    <2>2. n + 1 \in other /\ \A j \in other : j <= n + 1 /\ j \in Nat
      BY <1>1, <2>1
    <2>3. last \in other /\ \A j \in other : j <= last
      BY <2>2
    <2> HIDE DEF other, last
    <2>4. last = n + 1
      BY <2>1, <2>2, <2>3
    <2>5. chain[last] = client /\ other # {}
      BY <2>1, <2>2, <2>4
    <2>6. Arrival(client, claim, route).peer \in Trusted
      BY <1>3 DEF Arrival
    <2> QED
      BY <1>1, <2>5, <2>6 DEF ClientIP, chain, other, last
  <1> QED
    BY <1>2, <1>3

(* So the throttle's keys are the clients themselves.                      *)
LEMMA KeyIsClient ==
  ASSUME NEW client \in Clients, NEW ip \in Attributed[client]
  PROVE  ip = client /\ ip \in Addresses
  <1>1. PICK claim \in Claims, route \in Routes : ip = ClientIP(Arrival(client, claim, route))
    BY DEF Attributed
  <1>2. claim \in Seq(Addresses \cup {Malformed}) /\ route \in Seq(Trusted)
    BY ProxyAssumption
  <1> QED
    BY <1>1, <1>2, ClientFound DEF Clients

-----------------------------------------------------------------------------
(* The throttle *)

InFlight(ip) == {r \in Requests : checking[r] = ip}

(* As many failures as one record can count.                               *)
Bound == MaxAttempts - 1 + Cardinality(Requests)

RecordOK(ip) ==
    /\ attempts[ip].count > 1 => attempts[ip].windowStart < attempts[ip].lastSeen
    /\ attempts[ip].lockedUntil =
           IF attempts[ip].count >= MaxAttempts
           THEN attempts[ip].lastSeen + LockoutDuration ELSE 0
    /\ attempts[ip].count <= Bound
    /\ Throttled(ip) => attempts[ip].count + Cardinality(InFlight(ip)) <= Bound

TInv == TypeOK /\ \A ip \in DOMAIN attempts : RecordOK(ip)

-----------------------------------------------------------------------------
(* Facts about one state *)

(* The requests of one address in progress are finitely many, at most all. *)
LEMMA InFlightCounted ==
  ASSUME NEW ip
  PROVE  /\ IsFiniteSet(InFlight(ip))
         /\ Cardinality(InFlight(ip)) \in Nat
         /\ Cardinality(InFlight(ip)) <= Cardinality(Requests)
         /\ Cardinality(Requests) \in Nat
  <1>1. InFlight(ip) \in SUBSET Requests
    BY DEF InFlight
  <1>2. QED
    BY <1>1, ThrottleAssumption, FS_Subset, FS_CardinalityType

(* The fields of a record are times and a count.                           *)
LEMMA RecordFields ==
  ASSUME TInv, NEW ip \in DOMAIN attempts
  PROVE  /\ attempts[ip].count \in Nat \ {0}
         /\ attempts[ip].windowStart \in Nat
         /\ attempts[ip].lockedUntil \in Nat
         /\ attempts[ip].lastSeen \in Nat
         /\ attempts[ip].lastSeen < now
         /\ attempts[ip].windowStart <= attempts[ip].lastSeen
         /\ now \in Nat
         /\ RecordOK(ip)
  BY ThrottleAssumption DEF TInv, TypeOK, Attempt, Times

(* A record that a lockout was counted on can be counted up only while the *)
(* lockout lasts.                                                          *)
LEMMA WindowWithinLockout ==
  ASSUME TInv, NEW ip \in DOMAIN attempts, InWindow(ip),
         attempts[ip].count >= MaxAttempts
  PROVE  Throttled(ip)
  BY RecordFields, ThrottleAssumption DEF RecordOK, InWindow, Throttled

(* The sweep leaves the records of lockouts alone.                         *)
LEMMA SweepSparesLockouts ==
  ASSUME TInv, NEW ip, Throttled(ip)
  PROVE  ip \in DOMAIN attempts /\ ip \notin Swept
  BY RecordFields, ThrottleAssumption DEF RecordOK, Throttled, Swept

(* The record that one more failure of ip leaves.                          *)
LEMMA CountedRecord ==
  ASSUME TInv, NEW ip, now < MaxTime
  PROVE  /\ Counted(ip) \in Attempt
         /\ Counted(ip).count = IF InWindow(ip) THEN attempts[ip].count + 1 ELSE 1
         /\ Counted(ip).windowStart \in Nat
         /\ Counted(ip).windowStart <= now
         /\ Counted(ip).count > 1 => Counted(ip).windowStart < now
         /\ Counted(ip).lockedUntil =
                IF Counted(ip).count >= MaxAttempts THEN now + LockoutDuration ELSE 0
         /\ Counted(ip).lastSeen = now
  <1>1. InWindow(ip) => ip \in DOMAIN attempts
    BY DEF InWindow
  <1>2. now \in Times
    BY DEF TInv, TypeOK
  <1>3. CASE InWindow(ip)
    <2>1. /\ attempts[ip].count \in Nat
          /\ attempts[ip].windowStart \in Times
          /\ attempts[ip].windowStart < now
      BY <1>1, <1>3, RecordFields, ThrottleAssumption DEF TInv, TypeOK, Attempt, Times
    <2>2. QED
      BY <1>2, <1>3, <2>1, ThrottleAssumption DEF Counted, Attempt, Times
  <1>4. CASE ~InWindow(ip)
    BY <1>2, <1>4, ThrottleAssumption DEF Counted, Attempt, Times
  <1>5. QED
    BY <1>3, <1>4

(* A record stays in order while time passes and no request of its address *)
(* is let through.                                                         *)
LEMMA KeptRecord ==
  ASSUME TInv, NEW ip \in DOMAIN attempts, ip \in DOMAIN attempts',
         attempts'[ip] = attempts[ip], now' \in Nat, now <= now',
         InFlight(ip)' \subseteq InFlight(ip) \/ ~Throttled(ip)
  PROVE  RecordOK(ip)'
  <1>1. Throttled(ip)' => Throttled(ip)
    BY RecordFields DEF Throttled
  <1>2. Throttled(ip)' => attempts[ip].count + Cardinality(InFlight(ip)') <= Bound
    <2>1. SUFFICES ASSUME Throttled(ip)'
                   PROVE  attempts[ip].count + Cardinality(InFlight(ip)') <= Bound
      OBVIOUS
    <2>2. InFlight(ip)' \in SUBSET InFlight(ip)
      BY <1>1, <2>1
    <2>3. /\ Cardinality(InFlight(ip)') <= Cardinality(InFlight(ip))
          /\ Cardinality(InFlight(ip)') \in Nat
      BY <2>2, InFlightCounted, FS_Subset, FS_CardinalityType
    <2>4. attempts[ip].count + Cardinality(InFlight(ip)) <= Bound
      BY <1>1, <2>1, RecordFields DEF RecordOK
    <2>5. QED
      BY <2>3, <2>4, RecordFields, InFlightCounted, ThrottleAssumption DEF Bound
  <1>3. QED
    BY <1>2, RecordFields DEF RecordOK, Bound

-----------------------------------------------------------------------------
(* Steps *)

(* Without records there is nothing to be in order.                        *)
LEMMA InitInv == Init => TInv
  BY ThrottleAssumption DEF Init, TInv, TypeOK, NoAttempts, Times

(* The failure of r is counted, and r is in progress no more.              *)
LEMMA CountedOK ==
  ASSUME TInv, NEW r \in Requests, RecordFailure(r), NEW ip, ip = checking[r]
  PROVE  RecordOK(ip)'
  <1> DEFINE new == Counted(ip)
  <1>1. /\ ip \in Addresses
        /\ now \in Nat /\ now < MaxTime /\ now' = now + 1
        /\ ip \in DOMAIN attempts'
        /\ attempts'[ip] = new
    BY ThrottleAssumption DEF RecordFailure, TInv, TypeOK, Times
  <1>2. InFlight(ip)' = InFlight(ip) \ {r} /\ r \in InFlight(ip)
    BY <1>1, ThrottleAssumption DEF RecordFailure, InFlight, TInv, TypeOK
  <1>3. /\ Cardinality(InFlight(ip)') = Cardinality(InFlight(ip)) - 1
        /\ Cardinality(InFlight(ip)) \in Nat
        /\ Cardinality(InFlight(ip)) <= Cardinality(Requests)
        /\ Cardinality(Requests) \in Nat
        /\ Cardinality(InFlight(ip)') \in Nat
    <2>1. Cardinality(InFlight(ip) \ {r}) = Cardinality(InFlight(ip)) - 1
      BY <1>2, InFlightCounted, FS_RemoveElement
    <2>2. Cardinality(InFlight(ip) \ {r}) \in Nat
      BY InFlightCounted, FS_RemoveElement, FS_CardinalityType
    <2>3. QED
      BY <1>2, <2>1, <2>2, InFlightCounted
  <1>4. /\ new.count \in Nat \ {0}
        /\ new.count = IF InWindow(ip) THEN attempts[ip].count + 1 ELSE 1
        /\ new.count > 1 => new.windowStart < now
        /\ new.lockedUntil = IF new.count >= MaxAttempts THEN now + LockoutDuration ELSE 0
        /\ new.lastSeen = now
    BY <1>1, CountedRecord DEF Attempt
  <1>5. new.count >= MaxAttempts => new.count + Cardinality(InFlight(ip)') <= Bound
    <2>1. CASE InWindow(ip) /\ attempts[ip].count >= MaxAttempts
      <3>1. ip \in DOMAIN attempts
        BY <2>1 DEF InWindow
      <3>2. attempts[ip].count + Cardinality(InFlight(ip)) <= Bound
        BY <2>1, <3>1, WindowWithinLockout, RecordFields DEF RecordOK
      <3>3. attempts[ip].count \in Nat
        BY <3>1, RecordFields
      <3>4. QED
        BY <1>3, <1>4, <2>1, <3>2, <3>3, ThrottleAssumption DEF Bound
    <2>2. CASE InWindow(ip) /\ ~(attempts[ip].count >= MaxAttempts)
      <3>1. attempts[ip].count \in Nat
        BY <2>2, RecordFields DEF InWindow
      <3>2. new.count <= MaxAttempts
        BY <1>4, <2>2, <3>1, ThrottleAssumption
      <3>3. QED
        BY <1>3, <1>4, <3>2, ThrottleAssumption DEF Bound
    <2>3. CASE ~InWindow(ip)
      BY <1>4, <2>3, ThrottleAssumption
    <2>4. QED
      BY <2>1, <2>2, <2>3
  <1>6. new.count <= Bound
    BY <1>3, <1>4, <1>5, ThrottleAssumption DEF Bound
  <1> HIDE DEF new
  <1>7. Throttled(ip)' => new.count >= MaxAttempts
    BY <1>1, <1>4, ThrottleAssumption DEF Throttled
  <1>8. QED
    BY <1>1, <1>4, <1>5, <1>6, <1>7 DEF RecordOK, Bound

(* Every step preserves the invariant.                                     *)
LEMMA StepInv == TInv /\ [Next]_vars => TInv'
  <1> SUFFICES ASSUME TInv, [Next]_vars PROVE TInv'
    OBVIOUS
  <1>1. ASSUME NEW r \in Requests, NEW ip \in Addresses, Submit(r, ip) PROVE TInv'
    <2>1. TypeOK'
      BY <1>1 DEF Submit, TInv, TypeOK
    <2>2. ASSUME NEW other \in DOMAIN attempts PROVE RecordOK(other)'
      <3>1. InFlight(other)' \subseteq InFlight(other) \/ ~Throttled(other)
        BY <1>1 DEF Submit, InFlight, TInv, TypeOK
      <3>2. QED
        BY <1>1, <3>1, KeptRecord, RecordFields DEF Submit
    <2>3. QED
      BY <1>1, <2>1, <2>2 DEF TInv, Submit
  <1>2. ASSUME NEW r \in Requests, RecordFailure(r) PROVE TInv'
    <2> PICK ip : ip = checking[r]
      OBVIOUS
    <2>1. /\ ip \in Addresses
          /\ now \in Nat /\ now < MaxTime /\ now' = now + 1
          /\ DOMAIN attempts' = (DOMAIN attempts \ Swept) \cup {ip}
          /\ attempts'[ip] = Counted(ip)
          /\ \A other \in DOMAIN attempts' \ {ip} :
                 other \in DOMAIN attempts /\ attempts'[other] = attempts[other]
      BY <1>2, ThrottleAssumption DEF RecordFailure, TInv, TypeOK, Times
    <2>2. TypeOK'
      <3>1. now' \in Times /\ reported' \in Addresses \cup {NoAddress}
        BY <1>2, <2>1, ThrottleAssumption DEF RecordFailure, Times
      <3>2. checking' \in [Requests -> Addresses \cup {NoAddress}]
        BY <1>2 DEF RecordFailure, TInv, TypeOK
      <3>3. DOMAIN attempts' \subseteq Addresses
        BY <2>1 DEF TInv, TypeOK
      <3>4. /\ Counted(ip) \in Attempt
            /\ Counted(ip).windowStart <= Counted(ip).lastSeen
            /\ Counted(ip).lastSeen < now'
            /\ Counted(ip).lockedUntil \in {0, Counted(ip).lastSeen + LockoutDuration}
        BY <2>1, CountedRecord
      <3>5. ASSUME NEW other \in DOMAIN attempts' \ {ip}
            PROVE  /\ attempts'[other] \in Attempt
                   /\ attempts'[other].windowStart <= attempts'[other].lastSeen
                   /\ attempts'[other].lastSeen < now'
                   /\ attempts'[other].lockedUntil
                          \in {0, attempts'[other].lastSeen + LockoutDuration}
        BY <2>1, RecordFields DEF TInv, TypeOK
      <3>6. QED
        BY <2>1, <3>1, <3>2, <3>3, <3>4, <3>5 DEF TypeOK
    <2>3. ASSUME NEW other \in DOMAIN attempts' \ {ip} PROVE RecordOK(other)'
      <3>1. InFlight(other)' \subseteq InFlight(other)
        BY <1>2, ThrottleAssumption DEF RecordFailure, InFlight, TInv, TypeOK
      <3>2. QED
        BY <2>1, <3>1, KeptRecord
    <2>4. RecordOK(ip)'
      BY <1>2, CountedOK
    <2>5. QED
      BY <2>2, <2>3, <2>4 DEF TInv
  <1>3. ASSUME NEW r \in Requests, RecordSuccess(r) PROVE TInv'
    <2>1. /\ DOMAIN attempts' \subseteq DOMAIN attempts
          /\ \A ip \in DOMAIN attempts' : attempts'[ip] = attempts[ip]
          /\ now' = now
      BY <1>3 DEF RecordSuccess
    <2>2. TypeOK'
      BY <1>3, <2>1 DEF RecordSuccess, TInv, TypeOK
    <2>3. ASSUME NEW ip \in DOMAIN attempts' PROVE RecordOK(ip)'
      <3>1. InFlight(ip)' \subseteq InFlight(ip)
        BY <1>3, <2>1, ThrottleAssumption DEF RecordSuccess, InFlight, TInv, TypeOK
      <3>2. QED
        BY <2>1, <3>1, KeptRecord, RecordFields
    <2>4. QED
      BY <2>2, <2>3 DEF TInv
  <1>4. ASSUME NEW r \in Requests, Abandon(r) PROVE TInv'
    <2>1. TypeOK'
      BY <1>4 DEF Abandon, TInv, TypeOK
    <2>2. ASSUME NEW ip \in DOMAIN attempts PROVE RecordOK(ip)'
      <3>1. InFlight(ip)' \subseteq InFlight(ip)
        BY <1>4, ThrottleAssumption DEF Abandon, InFlight, TInv, TypeOK
      <3>2. QED
        BY <1>4, <3>1, KeptRecord, RecordFields DEF Abandon
    <2>3. QED
      BY <1>4, <2>1, <2>2 DEF TInv, Abandon
  <1>5. ASSUME Tick PROVE TInv'
    <2>1. now \in Nat /\ now' = now + 1 /\ now' \in Times
      BY <1>5, ThrottleAssumption DEF Tick, TInv, TypeOK, Times
    <2>2. TypeOK'
      BY <1>5, <2>1, RecordFields DEF Tick, TInv, TypeOK
    <2>3. ASSUME NEW ip \in DOMAIN attempts PROVE RecordOK(ip)'
      BY <1>5, <2>1, KeptRecord DEF Tick, InFlight
    <2>4. QED
      BY <1>5, <2>2, <2>3 DEF TInv, Tick
  <1>6. ASSUME Restart PROVE TInv'
    BY <1>6, ThrottleAssumption DEF Restart, TInv, TypeOK, NoAttempts
  <1>7. CASE UNCHANGED vars
    BY <1>7 DEF vars, TInv, TypeOK, RecordOK, Throttled, InFlight
  <1>8. QED
    BY <1>1, <1>2, <1>3, <1>4, <1>5, <1>6, <1>7, KeyIsClient DEF Next

-----------------------------------------------------------------------------
(* Theorems *)

(* The invariant holds in every behaviour of Throttle.                     *)
THEOREM ThrottleInvariance == Spec => []TInv
  BY InitInv, StepInv, PTL DEF Spec

(* Type correctness of the map of attempts: a lockout is counted from the  *)
(* last failure, and nothing is recorded for the future.                   *)
THEOREM ThrottleTypeCorrect == Spec => []TypeOK
  <1>1. TInv => TypeOK
    BY DEF TInv
  <1>2. QED
    BY ThrottleInvariance, <1>1, PTL

(* However many requests fail on top of each other, one record counts no   *)
(* more than the limit and the others in progress.  (RecordFailure)        *)
THEOREM GuessesBounded == Spec => []AttemptsBounded
  <1>1. TInv => AttemptsBounded
    BY RecordFields DEF AttemptsBounded, RecordOK, Bound
  <1>2. QED
    BY ThrottleInvariance, <1>1, PTL

(* Time passing ends a lockout at its hour and begins none.                *)
LEMMA TimePasses ==
  ASSUME TInv, NEW ip, UNCHANGED attempts, now' \in Nat, now <= now'
  PROVE  /\ Throttled(ip)' => Throttled(ip)
         /\ Throttled(ip) /\ ~Throttled(ip)' => now' >= attempts[ip].lockedUntil
  <1>1. ip \in DOMAIN attempts => attempts[ip].lockedUntil \in Nat /\ now \in Nat
    BY RecordFields
  <1>2. QED
    BY <1>1 DEF Throttled

(* What a failure does to the record of another address.                   *)
LEMMA OtherAddress ==
  ASSUME TInv, NEW r \in Requests, RecordFailure(r), NEW ip \in Addresses,
         ip # checking[r]
  PROVE  /\ Throttled(ip)' => Throttled(ip)
         /\ Throttled(ip) /\ ~Throttled(ip)' => now' >= attempts[ip].lockedUntil
  <1>1. /\ now \in Nat /\ now' = now + 1
        /\ ip \in DOMAIN attempts' <=> ip \in DOMAIN attempts \ Swept
        /\ ip \in DOMAIN attempts' => attempts'[ip] = attempts[ip]
    BY ThrottleAssumption DEF RecordFailure, TInv, TypeOK, Times
  <1>2. ip \in DOMAIN attempts => attempts[ip].lockedUntil \in Nat
    BY RecordFields
  <1>3. Throttled(ip) => ip \in DOMAIN attempts'
    BY <1>1, SweepSparesLockouts
  <1>4. QED
    BY <1>1, <1>2, <1>3 DEF Throttled

(* A failure of a locked-out address leaves it locked out, unless the      *)
(* window of its record is over.                                           *)
LEMMA FailureKeepsLockout ==
  ASSUME TInv, NEW r \in Requests, RecordFailure(r), NEW ip \in Addresses,
         ip = checking[r], Throttled(ip),
         ~(now - attempts[ip].windowStart > ThrottleWindow)
  PROVE  Throttled(ip)'
  <1>1. now \in Nat /\ now < MaxTime /\ now' = now + 1
    BY DEF RecordFailure, TInv, TypeOK, Times
  <1>2. ip \in DOMAIN attempts' /\ attempts'[ip] = Counted(ip)
    BY DEF RecordFailure
  <1>3. ip \in DOMAIN attempts \ Swept
    BY SweepSparesLockouts DEF Throttled
  <1>4. attempts[ip].windowStart \in Nat /\ attempts[ip].count \in Nat
    BY <1>3, RecordFields
  <1>5. InWindow(ip)
    BY <1>1, <1>3, <1>4, ThrottleAssumption DEF InWindow
  <1>6. attempts[ip].count >= MaxAttempts
    <2>1. ~(attempts[ip].count >= MaxAttempts) => attempts[ip].lockedUntil = 0
      BY <1>3, RecordFields DEF RecordOK
    <2>2. QED
      BY <1>1, <2>1 DEF Throttled
  <1>7. Counted(ip).lockedUntil = now + LockoutDuration
    <2>1. Counted(ip).count = attempts[ip].count + 1
      BY <1>5 DEF Counted
    <2>2. Counted(ip).count >= MaxAttempts
      BY <1>4, <1>6, <2>1, ThrottleAssumption
    <2>3. QED
      BY <1>1, <2>2, CountedRecord
  <1>8. QED
    BY <1>1, <1>2, <1>7, ThrottleAssumption DEF Throttled

(* A lockout ends by running out or by a restart; else only a request of   *)
(* the same address that had passed Throttled before can end it: with the  *)
(* right password, or with a failure recorded when the window of the       *)
(* record is over.  The sweep, which another address's failure sets off,   *)
(* never ends one.  (RecordFailure, RecordSuccess, sweepLocked)            *)
THEOREM LockoutsHold == Spec => LockoutHolds
  <1> DEFINE Ends(ip) ==
          \/ now' >= attempts[ip].lockedUntil
          \/ attempts' = NoAttempts
          \/ /\ \E r \in Requests : checking[r] = ip /\ checking'[r] = NoAddress
             /\ \/ ip \notin DOMAIN attempts'
                \/ now - attempts[ip].windowStart > ThrottleWindow
  <1>1. ASSUME TInv, [Next]_vars, NEW ip \in Addresses, Throttled(ip), ~Throttled(ip)'
        PROVE  Ends(ip)
    <2>1. now \in Nat
      BY <1>1 DEF TInv, TypeOK, Times
    <2>2. ASSUME NEW r \in Requests, NEW other \in Addresses, Submit(r, other)
          PROVE  Ends(ip)
      BY <1>1, <2>1, <2>2 DEF Submit, Throttled
    <2>3. ASSUME NEW r \in Requests, RecordFailure(r) PROVE Ends(ip)
      <3>1. CASE checking[r] = ip
        <4>1. checking'[r] = NoAddress
          BY <1>1, <2>3 DEF RecordFailure, TInv, TypeOK
        <4>2. now - attempts[ip].windowStart > ThrottleWindow
          BY <1>1, <2>3, <3>1, FailureKeepsLockout
        <4>3. QED
          BY <3>1, <4>1, <4>2
      <3>2. CASE checking[r] # ip
        BY <1>1, <2>3, <3>2, OtherAddress
      <3>3. QED
        BY <3>1, <3>2
    <2>4. ASSUME NEW r \in Requests, RecordSuccess(r) PROVE Ends(ip)
      BY <1>1, <2>4 DEF RecordSuccess, TInv, TypeOK, Throttled
    <2>5. ASSUME NEW r \in Requests, Abandon(r) PROVE Ends(ip)
      BY <1>1, <2>5 DEF Abandon, Throttled
    <2>6. ASSUME Tick PROVE Ends(ip)
      BY <1>1, <2>1, <2>6, TimePasses DEF Tick
    <2>7. ASSUME Restart PROVE Ends(ip)
      BY <2>7 DEF Restart
    <2>8. CASE UNCHANGED vars
      BY <1>1, <2>8 DEF vars, Throttled
    <2>9. QED
      BY <1>1, <2>2, <2>3, <2>4, <2>5, <2>6, <2>7, <2>8, KeyIsClient DEF Next
  <1>2. TInv /\ [Next]_vars =>
            [\A ip \in Addresses : Throttled(ip) /\ ~Throttled(ip)' => Ends(ip)]_vars
    BY <1>1
  <1>3. QED
    BY ThrottleInvariance, <1>2, PTL DEF Spec, LockoutHolds

(* RecordFailure reports a lockout when it begins and at no other time.    *)
(* (the result of RecordFailure, which the log and fail2ban rely on)       *)
THEOREM LockoutsReportedOnce == Spec => LockoutReportedOnce
  <1> DEFINE Right(ip) == (reported' = ip) <=> (~Throttled(ip) /\ Throttled(ip)')
  <1>1. ASSUME TInv, Next, NEW ip \in Addresses PROVE Right(ip)
    <2>1. now \in Nat /\ ip # NoAddress
      BY <1>1, ThrottleAssumption DEF TInv, TypeOK, Times
    <2>2. ASSUME NEW r \in Requests, NEW other \in Addresses, Submit(r, other)
          PROVE  Right(ip)
      BY <2>1, <2>2 DEF Submit, Throttled
    <2>3. ASSUME NEW r \in Requests, RecordFailure(r) PROVE Right(ip)
      <3>1. CASE checking[r] # ip
        BY <1>1, <2>1, <2>3, <3>1, OtherAddress DEF RecordFailure
      <3>2. CASE checking[r] = ip
        <4>1. /\ now < MaxTime /\ now' = now + 1
              /\ ip \in DOMAIN attempts'
              /\ attempts'[ip] = Counted(ip)
              /\ reported' = ip <=> Counted(ip).count = MaxAttempts
          BY <2>1, <2>3, <3>2 DEF RecordFailure, Trips
        <4>2. /\ Counted(ip).count = IF InWindow(ip) THEN attempts[ip].count + 1 ELSE 1
              /\ Counted(ip).lockedUntil =
                     IF Counted(ip).count >= MaxAttempts THEN now + LockoutDuration ELSE 0
          BY <1>1, <4>1, CountedRecord
        <4>3. Throttled(ip)' <=> Counted(ip).count >= MaxAttempts
          BY <2>1, <4>1, <4>2, ThrottleAssumption DEF Throttled
        <4>4. CASE InWindow(ip)
          <5>1. ip \in DOMAIN attempts /\ attempts[ip].count \in Nat
            BY <1>1, <4>4, RecordFields DEF InWindow
          <5>2. Throttled(ip) <=> attempts[ip].count >= MaxAttempts
            <6>1. ~(attempts[ip].count >= MaxAttempts) => attempts[ip].lockedUntil = 0
              BY <1>1, <5>1, RecordFields DEF RecordOK
            <6>2. QED
              BY <1>1, <2>1, <4>4, <5>1, <6>1, WindowWithinLockout DEF Throttled
          <5>3. QED
            BY <4>1, <4>2, <4>3, <4>4, <5>1, <5>2, ThrottleAssumption
        <4>5. CASE ~InWindow(ip)
          BY <4>1, <4>2, <4>3, <4>5, ThrottleAssumption
        <4>6. QED
          BY <4>4, <4>5
      <3>3. QED
        BY <3>1, <3>2
    <2>4. ASSUME NEW r \in Requests, RecordSuccess(r) PROVE Right(ip)
      BY <2>1, <2>4 DEF RecordSuccess, Throttled
    <2>5. ASSUME NEW r \in Requests, Abandon(r) PROVE Right(ip)
      BY <2>1, <2>5 DEF Abandon, Throttled
    <2>6. ASSUME Tick PROVE Right(ip)
      BY <1>1, <2>1, <2>6, TimePasses DEF Tick
    <2>7. ASSUME Restart PROVE Right(ip)
      BY <2>1, <2>7 DEF Restart, NoAttempts, Throttled
    <2>8. QED
      BY <1>1, <2>2, <2>3, <2>4, <2>5, <2>6, <2>7, KeyIsClient DEF Next
  <1>2. TInv /\ [Next]_vars => [\A ip \in Addresses : Right(ip)]_vars
    BY <1>1
  <1>3. QED
    BY ThrottleInvariance, <1>2, PTL DEF Spec, LockoutReportedOnce

(* No header gets a locked-out client in or another client locked out.     *)
THEOREM HeadersAreNoUse == Spec => []HeadersBuyNothing
  <1>1. HeadersBuyNothing
    BY KeyIsClient DEF HeadersBuyNothing
  <1>2. QED
    BY <1>1, PTL
=============================================================================
