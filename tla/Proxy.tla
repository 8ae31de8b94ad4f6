------------------------------- MODULE Proxy --------------------------------
(***************************************************************************)
(* The address a request is attributed to (TrustedProxies.ClientIP), when  *)
(* it comes straight from its client or through reverse proxies, each of   *)
(* which appends the address it was reached from to X-Forwarded-For.  A    *)
(* client can send that header too, with anything in it.                   *)
(*                                                                         *)
(* Trusted is the set of addresses that the configured prefixes contain.   *)
(* The programs on those addresses are the proxies and send the truth.     *)
(***************************************************************************)
EXTENDS Integers, Sequences

CONSTANTS
    Addresses,  \* IP addresses
    Trusted,    \* those of trusted_proxies
    Malformed,  \* an entry of the header that is no address
    Claims,     \* the headers that clients send
    Routes      \* the proxies that requests come through, nearest client first

Clients == Addresses \ Trusted

ASSUME ProxyAssumption ==
    /\ Trusted \subseteq Addresses
    /\ Malformed \notin Addresses
    /\ Claims \subseteq Seq(Addresses \cup {Malformed})
    /\ Routes \subseteq Seq(Trusted)

-----------------------------------------------------------------------------
(* What arrives *)

Arrival(client, claim, route) ==
    IF route = <<>> THEN [peer |-> client, chain |-> claim]
    ELSE [peer  |-> route[Len(route)],
          chain |-> claim \o <<client>> \o SubSeq(route, 1, Len(route) - 1)]

(* Mutant: the left-most entry is the client. *)
ClientIPLeftMost(arrival) ==
    IF arrival.peer \notin Trusted \/ arrival.chain = <<>> THEN arrival.peer
    ELSE arrival.chain[1]

(***************************************************************************)
(* The chain is walked from the right: trusted hops are skipped, the first *)
(* other one is the client.  A hop that does not parse ends the walk.      *)
(***************************************************************************)
ClientIP(arrival) ==
    LET chain == arrival.chain
        other == {k \in DOMAIN chain : chain[k] \notin Trusted}
        Found == chain[CHOOSE k \in other : \A j \in other : j <= k]
    IN  IF arrival.peer \notin Trusted \/ other = {} \/ Found = Malformed
        THEN arrival.peer
        ELSE Found

(* The addresses that a client's requests are attributed to. *)
Attributed ==
    [client \in Clients |->
        {ClientIP(Arrival(client, claim, route)) : claim \in Claims, route \in Routes}]
=============================================================================
