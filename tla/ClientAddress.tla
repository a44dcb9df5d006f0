--------------------------- MODULE ClientAddress ----------------------------
(***************************************************************************)
(* abuse.ClientIP: whose address a limit is charged to.  A request starts  *)
(* at some client with an X-Forwarded-For header the client made up, and   *)
(* passes proxies, each of which appends the address it was called from.   *)
(***************************************************************************)
EXTENDS Integers, Sequences

CONSTANTS
    Address,    \* addresses that ParseAddr accepts
    Unusable,   \* anything it rejects, or an address with a zone
    Trusted,    \* the addresses in TrustedProxies
    MaxParts,   \* the 32 parts (or 4096 bytes) a chain may have
    MaxMadeUp,  \* bound: parts the client invents
    MaxProxies  \* bound: proxies on the way

ASSUME AddressAssumption ==
    /\ Trusted \subseteq Address /\ Unusable \notin Address
    /\ MaxParts \in Nat /\ MaxMadeUp \in Nat /\ MaxProxies \in Nat

VARIABLES
    peer,       \* who the next receiver sees as its socket peer
    chain,      \* the X-Forwarded-For values, joined and split
    senders,    \* history: who really sent the request on, client first
    resolved    \* what ClientIP returned at the server

addressVars == <<peer, chain, senders, resolved>>

NoIP == [ip |-> Unusable, malformed |-> TRUE]
Unresolved == [ip |-> Unusable, malformed |-> FALSE]
MadeUp == UNION {[1..n -> Address \cup {Unusable}] : n \in 0..MaxMadeUp}

AddressInit == peer = Unusable /\ chain = <<>> /\ senders = <<>> /\ resolved = Unresolved

\* Mutant: believes the leftmost part, whoever wrote it.
WalkLeftmost(p, ips) == IF p \in Trusted THEN ips[1] ELSE p

\* for i := len(ips)-1; i >= 0 && isTrusted(resolved); i-- { resolved = ips[i] }
Walk(p, ips) ==
    LET n == Len(ips)
        at[i \in 1..(n + 1)] == IF i = n + 1 THEN p
                                ELSE IF at[i + 1] \in Trusted THEN ips[i] ELSE at[i + 1]
    IN at[1]

ClientIP(p, ips) ==
    LET is(ip, bad) == [ip |-> ip, malformed |-> bad] IN
    IF p = Unusable THEN NoIP
    ELSE IF p \notin Trusted \/ ips = <<>> THEN is(p, FALSE)
    ELSE IF Len(ips) > MaxParts \/ \E i \in DOMAIN ips : ips[i] = Unusable THEN is(p, TRUE)
    ELSE is(Walk(p, ips), FALSE)

\* The client connects to a proxy or to the server.
Send(client, madeUp) ==
    /\ senders = <<>>
    /\ peer' = client /\ chain' = madeUp /\ senders' = <<client>>
    /\ UNCHANGED resolved

Forward(proxy) ==
    /\ senders # <<>> /\ Len(senders) <= MaxProxies /\ resolved = Unresolved
    /\ peer' = proxy /\ chain' = Append(chain, peer) /\ senders' = Append(senders, proxy)
    /\ UNCHANGED resolved

Receive ==
    /\ senders # <<>> /\ resolved = Unresolved
    /\ resolved' = ClientIP(peer, chain)
    /\ UNCHANGED <<peer, chain, senders>>

AddressNext ==
    \/ \E c \in Address \cup {Unusable}, m \in MadeUp : Send(c, m)
    \/ \E p \in Address : Forward(p)
    \/ Receive

AddressSpec == AddressInit /\ [][AddressNext]_addressVars

-----------------------------------------------------------------------------
\* Whoever cannot be believed pays: the address returned is that of the last
\* sender outside the trusted proxies, whatever the client put into the header.
\* When the header cannot be read it is the last sender's, and never one that
\* only the header names.
ChargedToNearestUntrusted ==
    resolved # Unresolved =>
    LET outside == {i \in DOMAIN senders : senders[i] \notin Trusted}
        last == CHOOSE i \in outside : \A j \in outside : j <= i
    IN
    /\ resolved.malformed => resolved.ip = peer
    /\ outside # {} /\ ~resolved.malformed => resolved.ip = senders[last]

=============================================================================
