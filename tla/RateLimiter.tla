----------------------------- MODULE RateLimiter -----------------------------
(***************************************************************************)
(* The token buckets in front of the API, the login and the hooks, and the  *)
(* address a request is counted under when it comes through proxies.  A     *)
(* token is Window units: a bucket of MaxRequests tokens gains MaxRequests  *)
(* units with every tick, so that rates stay integers (the code has f64).   *)
(***************************************************************************)
EXTENDS Integers, Sequences, FiniteSetsExt

CONSTANTS Client, Proxy,        \* addresses; the proxies are the trusted ones
          MaxRequests, Window,  \* Window in ticks
          NoBucket

ASSUME RateAssumption ==
    /\ Client \cap Proxy = {}
    /\ MaxRequests \in Nat /\ Window \in Nat \ {0}
    /\ NoBucket \notin [units : Nat, idle : Nat]

VARIABLES buckets,      \* by address: the units in it, and how long it has been idle
          granted,      \* what each client got, by age in ticks: 1 is the current one
          answer        \* the last answer, until the next tick

rateVars == <<buckets, granted, answer>>

Address == Client \cup Proxy
Full == MaxRequests * Window
StaleThreshold == 2 * Window
NoAnswer == [client |-> NoBucket, allowed |-> TRUE]

RateTypeOK ==
    /\ buckets \in [Address -> [units : 0..Full, idle : 0..StaleThreshold] \cup {NoBucket}]
    /\ granted \in [Client -> [1..Window -> Nat]]
    /\ answer \in [client : Client \cup {NoBucket}, allowed : BOOLEAN]

RateInit ==
    /\ buckets = [a \in Address |-> NoBucket]
    /\ granted = [c \in Client |-> [i \in 1..Window |-> 0]]
    /\ answer = NoAnswer

----------------------------------------------------------------------------
IsTrusted(a) == a \in Proxy

\* Faulty: the first entry of the header, whoever wrote it.
ExtractFirst(peer, forwarded, realIp) ==
    IF ~IsTrusted(peer) THEN peer
    ELSE IF forwarded = <<>> THEN (IF realIp \in Address THEN realIp ELSE peer)
    ELSE IF Head(forwarded) \in Address THEN Head(forwarded) ELSE peer

\* The walk goes outward from the nearest hop.  It ends at the first entry that
\* no trusted proxy has; one that is no address leaves the hop before it.
ExtractClientIp(peer, forwarded, realIp) ==
    LET stops == {i \in DOMAIN forwarded : ~IsTrusted(forwarded[i])}
        end == IF stops = {} THEN 1 ELSE Max(stops)
        before == IF end = Len(forwarded) THEN peer ELSE forwarded[end + 1]
    IN  IF ~IsTrusted(peer) THEN peer
        ELSE IF forwarded = <<>> THEN (IF realIp \in Address THEN realIp ELSE peer)
        ELSE IF forwarded[end] \in Address THEN forwarded[end] ELSE before

\* Faulty: a bucket fills beyond its size.
RefilledUncapped(b) == b.units + b.idle * MaxRequests

\* What a bucket holds now.
Refilled(b) ==
    LET units == b.units + b.idle * MaxRequests
    IN  IF units < Full THEN units ELSE Full

TryConsume(b) ==
    LET units == Refilled(b)
        allowed == units >= Window
    IN  [allowed |-> allowed,
         bucket |-> [units |-> IF allowed THEN units - Window ELSE units, idle |-> 0]]

Check(key) ==
    IF MaxRequests = 0 THEN [allowed |-> TRUE, bucket |-> NoBucket]
    ELSE TryConsume(IF buckets[key] = NoBucket THEN [units |-> Full, idle |-> 0] ELSE buckets[key])

\* A client sends a header of its own making, directly or through proxies; a
\* proxy adds the address it was called from, or names it in x-real-ip.
Paths(c) ==
    LET own == {<<>>, <<"junk">>} \cup {<<a>> : a \in Client \ {c}}
    IN  { [peer |-> c, forwarded |-> h, realIp |-> "none"] : h \in own }
        \cup { [peer |-> p, forwarded |-> h \o <<c>>, realIp |-> "none"] : p \in Proxy, h \in own }
        \cup { [peer |-> p, forwarded |-> h \o <<c, q>>, realIp |-> "none"] :
                    p \in Proxy, q \in Proxy, h \in own }
        \cup { [peer |-> p, forwarded |-> <<>>, realIp |-> c] : p \in Proxy }

\* rate_limit_inner: one request, answered at once.
Request(c) ==
    /\ \E path \in Paths(c) :
        LET key == ExtractClientIp(path.peer, path.forwarded, path.realIp)
            result == Check(key)
        IN  /\ buckets' = [buckets EXCEPT ![key] = result.bucket]
            /\ granted' = IF result.allowed THEN [granted EXCEPT ![c][1] = @ + 1] ELSE granted
            /\ answer' = [client |-> c, allowed |-> result.allowed]

Tick ==
    /\ buckets' = [a \in Address |->
            IF buckets[a] = NoBucket THEN NoBucket
            ELSE [buckets[a] EXCEPT !.idle = IF @ < StaleThreshold THEN @ + 1 ELSE @]]
    /\ granted' = [c \in Client |->
            [i \in 1..Window |-> IF i = 1 THEN 0 ELSE granted[c][i - 1]]]
    /\ answer' = NoAnswer

\* The task that drops stale buckets, whenever its interval ends.
Evict ==
    /\ buckets' = [a \in Address |->
            IF buckets[a] # NoBucket /\ buckets[a].idle >= StaleThreshold
            THEN NoBucket ELSE buckets[a]]
    /\ UNCHANGED <<granted, answer>>

RateNext == Tick \/ Evict \/ \E c \in Client : Request(c)

----------------------------------------------------------------------------
\* The sums of the first values of a list of grants.
GrantSums(grants) ==
    LET sum[j \in 0..Window] == IF j = 0 THEN 0 ELSE sum[j - 1] + grants[j]
    IN  sum

Recent(c) == GrantSums(granted[c])[Window]

\* No client gets more than its bucket and one refill within a window, however
\* it comes and whatever it writes into the header, and however the buckets
\* are dropped; and it is refused only when it got a whole quota within the
\* window itself: nobody spends the tokens of another client.
RateIsBounded ==
    MaxRequests > 0 =>
        /\ \A c \in Client : Recent(c) * Window <= MaxRequests * (2 * Window - 1)
        /\ ~answer.allowed => Recent(answer.client) >= MaxRequests
=============================================================================
