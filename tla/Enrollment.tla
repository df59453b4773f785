---------------------------- MODULE Enrollment ----------------------------
(***************************************************************************)
(* How an agent gets, renews and loses its identity: the token manager     *)
(* over its Bolt store (control-plane/tokens), the enrollment service      *)
(* (control-plane/enroll), the CA's revocation list (control-plane/ca),    *)
(* the admin API's DELETE (control-plane/api), and the copy of the list    *)
(* that the ingest fetches (ingest/scanlaunch/crl.go).                     *)
(*                                                                         *)
(* A call of the manager is one action (Manager.mu, one Bolt transaction), *)
(* and so is a revocation with its save (CA.mu).  A call of the service is *)
(* several: what Enroll and Renew check first may have changed when they   *)
(* commit, and a DELETE revokes certificate after certificate.  A request  *)
(* with a bad CSR, name or secret is refused before any of them.           *)
(***************************************************************************)
EXTENDS Integers, FiniteSets

CONSTANTS
    Tokens, Agents,
    Certs,          \* bound: the certificates that are ever signed, by their serials
    MaxUses,        \* the cap each token is minted with; 1 for single_host
    NoToken,
    StoreFaults,    \* whether a Bolt transaction may fail
    CRLFaults       \* whether saveCRLLocked may fail

ASSUME EnrollAssumption ==
    /\ MaxUses \in [Tokens -> Nat \ {0}]
    /\ NoToken \notin Tokens
    /\ StoreFaults \in BOOLEAN /\ CRLFaults \in BOOLEAN

VARIABLES
    tokens,     \* the records in Bolt
    agents,     \* which token enrolled an agent, in Bolt
    held,       \* the certificates each agent was sent and received
    enrolling,  \* Enroll calls that have signed, by agent and token
    renewing,   \* agents with a Renew call past the revocation gate
    deleting,   \* DELETE calls: the token, and the certificates still to be put on the list
    crl,        \* CA.revoked
    crlFile,    \* and its file
    copy,       \* the ingest's copy of the list
    answered    \* observed: tokens whose DELETE was answered

serviceVars == <<enrolling, renewing, deleting>>
enrollVars == <<tokens, agents, held, serviceVars, crl, crlFile, copy, answered>>

RecordType == [minted : BOOLEAN, uses : Nat, used : Nat, expired : BOOLEAN, revoked : BOOLEAN,
               trail : SUBSET Certs]    \* the serials of Record.Enrollments

NoRecord == [minted |-> FALSE, uses |-> 0, used |-> 0, expired |-> FALSE, revoked |-> FALSE,
             trail |-> {}]

\* Manager.check
Usable(rec) == rec.minted /\ ~rec.revoked /\ ~rec.expired /\ rec.used < rec.uses

Traced == UNION {tokens[t].trail : t \in Tokens}

---------------------------------------------------------------------------
(* Tokens *)

Mint(t) ==
    /\ ~tokens[t].minted
    /\ tokens' = [tokens EXCEPT ![t] = [NoRecord EXCEPT !.minted = TRUE, !.uses = MaxUses[t]]]
    /\ UNCHANGED <<agents, held, serviceVars, crl, crlFile, copy, answered>>

TokenExpires(t) ==
    /\ tokens[t].minted /\ ~tokens[t].expired
    /\ tokens' = [tokens EXCEPT ![t].expired = TRUE]
    /\ UNCHANGED <<agents, held, serviceVars, crl, crlFile, copy, answered>>

---------------------------------------------------------------------------
(* Enroll *)

\* The answer with the certificate may not arrive.
Sends(a, c) == held' \in {held, [held EXCEPT ![a] = @ \cup {c}]}

\* Validate and sign. Many calls may have done so before one of them consumes.
Sign(a, t) ==
    /\ Usable(tokens[t])
    /\ enrolling' = enrolling \cup {<<a, t>>}
    /\ UNCHANGED <<tokens, agents, held, renewing, deleting, crl, crlFile, copy, answered>>

Consumed(t, c) == [tokens EXCEPT ![t].used = @ + 1, ![t].trail = @ \cup {c}]

\* Mutant: the agent's name is looked up before the lock is taken.
ConsumeTakesName(a, t, c) ==
    /\ <<a, t>> \in enrolling /\ c \notin Traced
    /\ Usable(tokens[t])
    /\ tokens' = Consumed(t, c)
    /\ agents' = [agents EXCEPT ![a] = t]
    /\ Sends(a, c)
    /\ enrolling' = enrolling \ {<<a, t>>}
    /\ UNCHANGED <<renewing, deleting, crl, crlFile, copy, answered>>

\* Consume: the record and the agent's name are two Bolt transactions.
Consume(a, t, c) ==
    /\ <<a, t>> \in enrolling /\ c \notin Traced
    /\ Usable(tokens[t]) /\ agents[a] = NoToken
    /\ tokens' = Consumed(t, c)
    /\ agents' = [agents EXCEPT ![a] = t]
    /\ Sends(a, c)
    /\ enrolling' = enrolling \ {<<a, t>>}
    /\ UNCHANGED <<renewing, deleting, crl, crlFile, copy, answered>>

\* The second transaction fails: the use is spent, and no certificate is sent.
ConsumeBreaks(a, t, c) ==
    /\ StoreFaults
    /\ <<a, t>> \in enrolling /\ c \notin Traced
    /\ Usable(tokens[t]) /\ agents[a] = NoToken
    /\ tokens' = Consumed(t, c)
    /\ enrolling' = enrolling \ {<<a, t>>}
    /\ UNCHANGED <<agents, held, renewing, deleting, crl, crlFile, copy, answered>>

ConsumeRefused(a, t) ==
    /\ <<a, t>> \in enrolling
    /\ StoreFaults \/ ~Usable(tokens[t]) \/ agents[a] # NoToken
    /\ enrolling' = enrolling \ {<<a, t>>}
    /\ UNCHANGED <<tokens, agents, held, renewing, deleting, crl, crlFile, copy, answered>>

---------------------------------------------------------------------------
(* Renew *)

\* The revocation gate, and a new certificate signed.
RenewGate(a) ==
    /\ held[a] \ crl # {}
    /\ renewing' = renewing \cup {a}
    /\ UNCHANGED <<tokens, agents, held, enrolling, deleting, crl, crlFile, copy, answered>>

\* Mutant: the defense in depth is left to the gate.
AppendableToRevoked(a) == agents[a] # NoToken

Appendable(a) == agents[a] # NoToken /\ ~tokens[agents[a]].revoked

\* Mutant: the certificate is sent though its serial could not be recorded.
AppendAnyway(a, c) ==
    /\ a \in renewing /\ c \notin Traced
    /\ Appendable(a)
    /\ tokens' \in {[tokens EXCEPT ![agents[a]].trail = @ \cup {c}]} \cup (IF StoreFaults THEN {tokens} ELSE {})
    /\ Sends(a, c)
    /\ renewing' = renewing \ {a}
    /\ UNCHANGED <<agents, enrolling, deleting, crl, crlFile, copy, answered>>

AppendEnrollment(a, c) ==
    /\ a \in renewing /\ c \notin Traced
    /\ Appendable(a)
    /\ tokens' = [tokens EXCEPT ![agents[a]].trail = @ \cup {c}]
    /\ Sends(a, c)
    /\ renewing' = renewing \ {a}
    /\ UNCHANGED <<agents, enrolling, deleting, crl, crlFile, copy, answered>>

RenewRefused(a) ==
    /\ a \in renewing
    /\ StoreFaults \/ ~Appendable(a)
    /\ renewing' = renewing \ {a}
    /\ UNCHANGED <<tokens, agents, held, enrolling, deleting, crl, crlFile, copy, answered>>

---------------------------------------------------------------------------
(* DELETE /api/v1/tokens/{id} *)

\* A second DELETE is refused with "already revoked".
RevokeRecord(t) ==
    /\ tokens[t].minted /\ ~tokens[t].revoked
    /\ tokens' = [tokens EXCEPT ![t].revoked = TRUE]
    /\ deleting' = deleting \cup {<<t, tokens[t].trail>>}
    /\ UNCHANGED <<agents, held, enrolling, renewing, crl, crlFile, copy, answered>>

\* One turn of the loop over the trail that RevokeRecord returned. An entry is in memory before it is
\* saved, and an error of the save is ignored.
RevokeCertSerial(t, rest, c) ==
    /\ <<t, rest>> \in deleting /\ c \in rest
    /\ deleting' = (deleting \ {<<t, rest>>}) \cup {<<t, rest \ {c}>>}
    /\ crl' = crl \cup {c}
    /\ crlFile' \in {crl'} \cup (IF CRLFaults THEN {crlFile} ELSE {})
    /\ UNCHANGED <<tokens, agents, held, enrolling, renewing, copy, answered>>

RevokeAnswers(t) ==
    /\ <<t, {}>> \in deleting
    /\ deleting' = deleting \ {<<t, {}>>}
    /\ answered' = answered \cup {t}
    /\ UNCHANGED <<tokens, agents, held, enrolling, renewing, crl, crlFile, copy>>

---------------------------------------------------------------------------
(* The ingest's copy of the list, and process stops *)

NoCopy == [loaded |-> FALSE, revoked |-> {}]

\* Mutant: the list is fetched until it is there.
RefreshOnce ==
    /\ ~copy.loaded
    /\ copy' = [loaded |-> TRUE, revoked |-> crl]
    /\ UNCHANGED <<tokens, agents, held, serviceVars, crl, crlFile, answered>>

Refresh ==
    /\ copy' = [loaded |-> TRUE, revoked |-> crl]
    /\ UNCHANGED <<tokens, agents, held, serviceVars, crl, crlFile, answered>>

\* CRL.Check, with RequireCRL
Accepts(c) == copy.loaded /\ c \notin copy.revoked

IngestRestarts ==
    /\ copy' = NoCopy
    /\ UNCHANGED <<tokens, agents, held, serviceVars, crl, crlFile, answered>>

ControlPlaneRestarts ==
    /\ enrolling' = {} /\ renewing' = {} /\ deleting' = {}
    /\ crl' = crlFile
    /\ UNCHANGED <<tokens, agents, held, crlFile, copy, answered>>

EnrollInit ==
    /\ tokens = [t \in Tokens |-> NoRecord] /\ agents = [a \in Agents |-> NoToken]
    /\ held = [a \in Agents |-> {}]
    /\ enrolling = {} /\ renewing = {} /\ deleting = {}
    /\ crl = {} /\ crlFile = {} /\ copy = NoCopy
    /\ answered = {}

Enroll(a, t) ==
    \/ Sign(a, t) \/ ConsumeRefused(a, t)
    \/ \E c \in Certs : Consume(a, t, c) \/ ConsumeBreaks(a, t, c)

Renew(a) == RenewGate(a) \/ RenewRefused(a) \/ \E c \in Certs : AppendEnrollment(a, c)

Revoke(t) ==
    \/ RevokeRecord(t) \/ RevokeAnswers(t)
    \/ \E rest \in SUBSET Certs, c \in Certs : RevokeCertSerial(t, rest, c)

Handles ==
    \/ \E t \in Tokens : Mint(t) \/ TokenExpires(t) \/ Revoke(t)
    \/ \E a \in Agents, t \in Tokens : Enroll(a, t)
    \/ \E a \in Agents : Renew(a)
    \/ Refresh

EnrollNext == Handles \/ IngestRestarts \/ ControlPlaneRestarts

EnrollSpec == EnrollInit /\ [][EnrollNext]_enrollVars

\* The ingest's ticker fetches the list every five minutes, and the processes stay up at last.
\* Nothing is assumed of agents or administrators.
FairEnrollSpec ==
    /\ EnrollSpec
    /\ <>[][Handles]_enrollVars
    /\ WF_enrollVars(Refresh)

---------------------------------------------------------------------------
(* Properties *)

EnrollTypeOK ==
    /\ tokens \in [Tokens -> RecordType] /\ agents \in [Agents -> Tokens \cup {NoToken}]
    /\ held \in [Agents -> SUBSET Certs]
    /\ enrolling \subseteq Agents \X Tokens /\ renewing \subseteq Agents
    /\ deleting \subseteq Tokens \X SUBSET Certs /\ answered \subseteq Tokens
    /\ crl \subseteq Certs /\ crlFile \subseteq Certs
    /\ copy \in [loaded : BOOLEAN, revoked : SUBSET Certs]

\* Record.MaxUses, under any number of calls that all passed Validate: a token admits no more agents
\* than it counts, and counts no more than it may.
UsesWithinCap ==
    \A t \in Tokens :
        /\ Cardinality({a \in Agents : agents[a] = t}) <= tokens[t].used
        /\ tokens[t].used <= tokens[t].uses

\* AppendEnrollment: whatever certificate an agent ever holds is in the audit trail of the token that
\* enrolled it, so that a revocation finds it.
EveryCertIsTraced ==
    \A a \in Agents :
        held[a] # {} => agents[a] # NoToken /\ held[a] \subseteq tokens[agents[a]].trail

EnrollInv == EnrollTypeOK /\ UsesWithinCap /\ EveryCertIsTraced

\* The kill switch of ADR-0007: a token whose DELETE was answered has all of its certificates on the
\* list, the ones renewed while it ran and those issued since included, and after any restart.
KillSwitch == \A t \in answered : tokens[t].trail \subseteq crl

\* "first enrollment wins": an agent's name never passes to another token, by whatever race.
FirstEnrollmentWins ==
    [][\A a \in Agents : agents[a] # NoToken => agents'[a] = agents[a]]_enrollVars

\* A DELETE that was answered reaches the ingest.
KilledEverywhere ==
    \A t \in Tokens, c \in Certs :
        (t \in answered /\ c \in tokens[t].trail) ~> [](c \in crl /\ ~Accepts(c))

\* api.go: revokeToken "revokes a token by ID and invalidates all mTLS certificates that were issued
\* under it". The code does not keep this one: a stop in the middle of it is never made good.
RevokedIsKilled ==
    \A t \in Tokens :
        tokens[t].revoked =>
            (\E rest \in SUBSET Certs : <<t, rest>> \in deleting) \/ tokens[t].trail \subseteq crl

===========================================================================
