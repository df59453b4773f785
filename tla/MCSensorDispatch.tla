-------------------------- MODULE MCSensorDispatch --------------------------
(* Two requests for the same targets: j1 lives for two ticks, j2 for as long as it takes. *)
(* The targets of a job go through the gates over the inputs of ScopeChecks.               *)
EXTENDS SensorDispatch, ScopeChecks

CONSTANT j1

MCKeyOf == [j \in Jobs |-> 1]
MCTTL == [j \in Jobs |-> IF j = j1 THEN 2 ELSE MaxAge]

\* scope.go of sensorjobs: "The cloud is authoritative"; of the sensor: it "independently re-validates
\* every target". Whatever job a sensor has in hand, what the cloud's gate kept of it, what the sensor's
\* own gate keeps and what the report's gate lets in are the addresses that the scope means.
HandedIsInScope == (\E s \in Sensors : sensors[s] # Idle) => ScopesAreExact

\* scope.go of sensorjobs: "bare IPs treated as /32 or /128", as it says of the other three as well. A
\* scope of one bare address lets in that address and no other, however it is spelled.
BareIsOwn ==
    (\E s \in Sensors : sensors[s] # Idle) =>
        \A l, h \in IPs("v4") \cup IPs("v6") : InScope(NewScope(<<l>>), h) <=> Means(h) = Means(l)
===========================================================================
