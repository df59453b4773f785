--------------------------- MODULE MCEnrollment ---------------------------
(* The token t1 is for one host, every other for a deployment of two. *)
EXTENDS Enrollment, CallerChecks

CONSTANTS t1, a1

MCMaxUses == [t \in Tokens |-> IF t = t1 THEN 1 ELSE 2]

\* A byte that is not ASCII, and two agents: one is called by it, and the others by its digits.
MCHex == [c \in Coded |-> <<"E", "9">>]
AgentID(a) == IF a = a1 THEN <<"xE9">> ELSE <<"E", "9">>

\* authz.go, in the ingest and in the control plane: whoever holds a certificate is known on every route
\* by what the certificate says, whichever way the proxy writes its subject, except that a byte that it
\* writes with its digits is read as these.
HoldersAreKnown == (\E a \in Agents : held[a] # {}) => CallersAreExact

\* enroll.go:386-387, of validateAgentID: "preventing ambiguous Distinguished-Name rendering downstream".
\* Two agents that hold certificates for valid names are two callers of the routes for endpoints.
HoldersAreToldApart ==
    \A a, b \in Agents :
        LET Caller(h) == AuthorizeEndpoint(RFC2253(Subject(AgentID(h), <<"y">>, PolicyAgentEndpoint)), Known)
            IsHolder(h) == held[h] # {} /\ ValidAgentID(AgentID(h), Controls(Coded, Hex))
        IN  a # b /\ IsHolder(a) /\ IsHolder(b) => Caller(a).cn # Caller(b).cn

===========================================================================
