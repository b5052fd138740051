------------------------------ MODULE EgressGuard ------------------------------
(***************************************************************************)
(* The egress policy: where a node's request or connection may go.  A name  *)
(* can resolve to something else at every look-up; a service can redirect a *)
(* request anywhere; drivers of databases and MQTT connect by themselves.   *)
(* An address stands for its canonical form, a name for its normal one.     *)
(***************************************************************************)
EXTENDS Naturals, FiniteSets

CONSTANTS Destination, BlockedRanges,   \* the addresses in the blocked ranges
          HostName,
          MaxRedirects, MaxResponseBytes

ASSUME EgressAssumption ==
    /\ BlockedRanges \subseteq Destination /\ Destination \cap HostName = {}
    /\ MaxRedirects \in Nat /\ MaxResponseBytes \in Nat

VARIABLES policy,       \* read from the environment once
          trip,         \* one message's way to a host
          reached       \* every connection made: the host asked for, the address
egressVars == <<policy, trip, reached>>

Nowhere == "none"

\* Permissive ignores the list of exceptions.
Policies ==
    [mode : {"strict"}, allowNets : SUBSET BlockedRanges, allowHosts : SUBSET HostName]
    \cup {[mode |-> "permissive", allowNets |-> {}, allowHosts |-> {}]}

EgressTypeOK ==
    /\ policy \in Policies
    /\ trip.via \in {"http", "database", "mqtt"} /\ trip.tls \in BOOLEAN
    /\ trip.at \in {"start", "look-up", "vet", "drive", "connect", "read", "done"}
    /\ trip.host \in Destination \cup HostName /\ trip.found \subseteq Destination
    /\ trip.redirects \in 0..MaxRedirects /\ trip.body \in 0..MaxResponseBytes
    /\ reached \subseteq (Destination \cup HostName) \X Destination

EgressInit ==
    /\ policy \in Policies /\ reached = {}
    /\ \E via \in {"http", "database", "mqtt"}, tls \in BOOLEAN, host \in Destination \cup HostName :
        trip = [via |-> via, tls |-> tls, at |-> "start", host |-> host, found |-> {},
                redirects |-> 0, body |-> 0]

----------------------------------------------------------------------------
HostAllowed(host) == policy.mode = "permissive" \/ host \in policy.allowHosts
CheckIp(ip) == policy.mode = "permissive" \/ ip \in policy.allowNets \/ ip \notin BlockedRanges

\* A name is checked when it is resolved.
CheckUrl(host) == host \in Destination => CheckIp(host)

\* Faulty: one address that passes lets all of a name's addresses pass.
FilterByAny(host, addrs) ==
    IF HostAllowed(host) \/ \E a \in addrs : CheckIp(a) THEN addrs ELSE {}

FilterResolved(host, addrs) == IF HostAllowed(host) THEN addrs ELSE {a \in addrs : CheckIp(a)}

Goes(change) == trip' = change /\ UNCHANGED policy
Refused == [trip EXCEPT !.at = "done", !.found = {}]

\* EgressClient::request; database and mqtt resolve the host first.  A Unix
\* socket, which only a permissive policy allows, reaches no address.
SetOut ==
    /\ trip.at = "start"
    /\ Goes(IF trip.via # "http" THEN [trip EXCEPT !.at = "vet"]
            ELSE IF CheckUrl(trip.host) THEN [trip EXCEPT !.at = "look-up"] ELSE Refused)
    /\ UNCHANGED reached

\* The client connects to an address in the URL; PolicyResolver serves names.
LookUp ==
    /\ trip.at = "look-up"
    /\ \E addrs \in SUBSET Destination :
        LET found == IF trip.host \in Destination THEN {trip.host} ELSE FilterResolved(trip.host, addrs)
        IN  Goes(IF found = {} THEN Refused ELSE [trip EXCEPT !.at = "connect", !.found = found])
    /\ UNCHANGED reached

\* EgressPolicy::resolve, then pinned_host and broker_host: the first address,
\* or the name itself if TLS verifies it.
Vet ==
    /\ trip.at = "vet"
    /\ \E addrs \in SUBSET Destination :
        LET found == IF trip.host \in Destination THEN {trip.host} \cap {a \in Destination : CheckIp(a)}
                     ELSE FilterResolved(trip.host, addrs)
            keeps == trip.tls \/ trip.host \in Destination
        IN  \/ found = {} /\ Goes(Refused)
            \/ \E first \in found :
                Goes([trip EXCEPT !.at = "drive",
                                  !.found = IF keeps /\ trip.host \in HostName THEN {} ELSE {first}])
    /\ UNCHANGED reached

\* The driver resolves a name that it was left with, without the policy.
Drive ==
    /\ trip.at = "drive"
    /\ \E addrs \in SUBSET Destination :
        Goes([trip EXCEPT !.at = "connect", !.found = IF @ = {} THEN addrs ELSE @])
    /\ UNCHANGED reached

ConnectTo ==
    /\ trip.at = "connect"
    /\ \/ \E a \in trip.found :
            /\ reached' = reached \cup {<<trip.host, a>>}
            /\ Goes([trip EXCEPT !.at = IF trip.via = "http" THEN "read" ELSE "done", !.found = {}])
       \/ Goes(Refused) /\ UNCHANGED reached

\* The answer is a redirect: its address is checked as the first one was.
Redirected ==
    /\ trip.at = "read" /\ trip.body = 0
    /\ \E host \in Destination \cup HostName :
        Goes(IF trip.redirects = MaxRedirects \/ ~CheckUrl(host) THEN Refused
             ELSE [trip EXCEPT !.at = "look-up", !.host = host, !.redirects = @ + 1])
    /\ UNCHANGED reached

\* read_bytes: a declared length above the limit ends it, and so does the
\* chunk that crosses the limit, declared or not.
ReadBytes ==
    /\ trip.at = "read"
    /\ \E chunk \in 1..MaxResponseBytes + 1 :
        Goes(IF trip.body + chunk > MaxResponseBytes THEN [Refused EXCEPT !.body = 0]
             ELSE [trip EXCEPT !.body = @ + chunk])
    /\ UNCHANGED reached

BodyEnds ==
    /\ trip.at = "read" /\ Goes([trip EXCEPT !.at = "done"]) /\ UNCHANGED reached

EgressNext ==
    SetOut \/ LookUp \/ Vet \/ Drive \/ ConnectTo \/ Redirected \/ ReadBytes \/ BodyEnds

----------------------------------------------------------------------------
\* Under a strict policy no connection reaches a blocked address that is not
\* an exception, whatever the names resolve to from one look-up to the next
\* and wherever a service redirects to.  Except: the operator allowed the host
\* by name; or TLS proves the name, and the driver resolved it by itself.
ReachesOnlyAllowed ==
    policy.mode = "strict" =>
        \A c \in reached :
            \/ c[2] \notin BlockedRanges \/ c[2] \in policy.allowNets
            \/ c[1] \in policy.allowHosts
            \/ trip.via # "http" /\ trip.tls /\ c[1] \in HostName
=============================================================================
