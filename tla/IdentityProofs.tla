--------------------------- MODULE IdentityProofs ---------------------------
(***************************************************************************)
(* Identities: what Enrollment keeps for any tokens, agents, certificates  *)
(* and caps, how whoever holds a certificate is known, and what            *)
(* SensorIdentity keeps for any pairs and feed keys, and that it           *)
(* implements SensorProcess, on which FeedSync is built.                   *)
(***************************************************************************)
EXTENDS MCEnrollment, SensorIdentity, DecisionProofs

---------------------------------------------------------------------------
(* Enrollment.  The inductive invariant adds to EnrollInv what a DELETE in *)
(* progress owes: its token is revoked, so that the trail it walks over    *)
(* does not grow any more, and whatever it has not yet to list is on the   *)
(* list.                                                                   *)

\* Manager.Consume: the agents that a token enrolled are finite in number.
Enrolled(t) == {a \in Agents : agents[a] = t}

Counted ==
    \A t \in Tokens :
        /\ IsFiniteSet(Enrolled(t)) /\ Cardinality(Enrolled(t)) <= tokens[t].used
        /\ tokens[t].used <= tokens[t].uses

\* revokeToken, while CA.saveCRLLocked does not fail.
Owed ==
    /\ crl = crlFile
    /\ \A d \in deleting : tokens[d[1]].revoked /\ tokens[d[1]].trail \subseteq crl \cup d[2]
    /\ \A t \in answered : tokens[t].revoked /\ tokens[t].trail \subseteq crl

\* Manager.Mint writes a record where there was none.
Unwritten == \A t \in Tokens : ~tokens[t].minted => tokens[t] = NoRecord

EnrollIInv == EnrollTypeOK /\ Unwritten /\ Counted /\ EveryCertIsTraced /\ (~CRLFaults => Owed)

\* The stores and the list are empty.
LEMMA EnrollInitHolds == EnrollInit => EnrollIInv
<1> SUFFICES ASSUME EnrollInit PROVE EnrollIInv
  OBVIOUS
<1> USE DEF EnrollInit
<1>1. EnrollTypeOK
  BY DEF EnrollTypeOK, RecordType, NoRecord, NoCopy
<1>2. Counted
  <2> SUFFICES ASSUME NEW t \in Tokens
               PROVE  /\ IsFiniteSet(Enrolled(t)) /\ Cardinality(Enrolled(t)) <= tokens[t].used
                      /\ tokens[t].used <= tokens[t].uses
    BY DEF Counted
  <2>1. Enrolled(t) = {}
    BY EnrollAssumption DEF Enrolled
  <2> QED
    BY <2>1, FS_EmptySet DEF NoRecord
<1>3. EveryCertIsTraced
  BY DEF EveryCertIsTraced
<1>4. Owed
  BY DEF Owed
<1>5. Unwritten
  BY DEF Unwritten
<1> QED
  BY <1>1, <1>2, <1>3, <1>4, <1>5 DEF EnrollIInv

\* A step that enrolls nobody.
LEMMA CountsStay ==
    ASSUME Counted, agents' = agents,
           \A t \in Tokens : tokens'[t].used = tokens[t].used /\ tokens'[t].uses = tokens[t].uses
    PROVE  Counted'
  BY DEF Counted, Enrolled

\* One more agent, and one more use.
LEMMA CountsGrow ==
    ASSUME EnrollIInv, NEW a \in Agents, NEW t \in Tokens,
           Usable(tokens[t]), agents[a] = NoToken,
           agents' = [agents EXCEPT ![a] = t],
           \A u \in Tokens : /\ tokens'[u].used = IF u = t THEN tokens[u].used + 1 ELSE tokens[u].used
                             /\ tokens'[u].uses = tokens[u].uses
    PROVE  Counted'
<1> SUFFICES ASSUME NEW u \in Tokens
             PROVE  /\ IsFiniteSet(Enrolled(u)') /\ Cardinality(Enrolled(u)') <= tokens'[u].used
                    /\ tokens'[u].used <= tokens'[u].uses
  BY DEF Counted
<1>1. /\ tokens[u].used \in Nat /\ tokens[u].uses \in Nat
      /\ IsFiniteSet(Enrolled(u)) /\ Cardinality(Enrolled(u)) <= tokens[u].used
      /\ tokens[u].used <= tokens[u].uses
  BY DEF EnrollIInv, Counted, EnrollTypeOK, RecordType
<1>2. agents \in [Agents -> Tokens \cup {NoToken}] /\ NoToken \notin Tokens
  BY EnrollAssumption DEF EnrollIInv, EnrollTypeOK
<1>3. CASE u = t
  <2>1. Enrolled(u)' = Enrolled(u) \cup {a} /\ a \notin Enrolled(u)
    BY <1>2, <1>3 DEF Enrolled
  <2>2. IsFiniteSet(Enrolled(u)') /\ Cardinality(Enrolled(u)') = Cardinality(Enrolled(u)) + 1
    BY <1>1, <2>1, FS_AddElement
  <2>3. Cardinality(Enrolled(u)) \in Nat
    BY <1>1, FS_CardinalityType
  <2>4. tokens[u].used < tokens[u].uses
    BY <1>3 DEF Usable
  <2> QED
    BY <1>1, <1>3, <2>2, <2>3, <2>4
<1>4. CASE u # t
  <2>1. Enrolled(u)' = Enrolled(u)
    BY <1>2, <1>4 DEF Enrolled
  <2> QED
    BY <1>1, <1>4, <2>1
<1> QED
  BY <1>3, <1>4

\* The manager's own steps.
LEMMA TokensKeep ==
    ASSUME EnrollIInv, NEW t \in Tokens, Mint(t) \/ TokenExpires(t)
    PROVE  EnrollIInv'
<1>1. /\ tokens[t] \in RecordType /\ MaxUses[t] \in Nat
      /\ UNCHANGED <<agents, held, enrolling, renewing, deleting, crl, crlFile, copy, answered>>
      /\ tokens \in [Tokens -> RecordType]
  BY EnrollAssumption DEF EnrollIInv, EnrollTypeOK, Mint, TokenExpires, serviceVars
<1>2. CASE Mint(t)
  <2>1. /\ tokens[t] = NoRecord
        /\ tokens' = [tokens EXCEPT ![t] = [NoRecord EXCEPT !.minted = TRUE, !.uses = MaxUses[t]]]
    BY <1>2 DEF Mint, EnrollIInv, Unwritten
  <2>2. EnrollTypeOK'
    BY <1>1, <2>1 DEF EnrollIInv, EnrollTypeOK, RecordType, NoRecord
  <2>3. Counted'
    <3> SUFFICES ASSUME NEW u \in Tokens
                 PROVE  /\ IsFiniteSet(Enrolled(u)') /\ Cardinality(Enrolled(u)') <= tokens'[u].used
                        /\ tokens'[u].used <= tokens'[u].uses
      BY DEF Counted
    <3>1. Enrolled(u)' = Enrolled(u)
      BY <1>1 DEF Enrolled
    <3> QED
      BY <1>1, <2>1, <3>1 DEF EnrollIInv, Counted, NoRecord
  <2>4. EveryCertIsTraced'
    BY <1>1, <2>1 DEF EnrollIInv, EveryCertIsTraced, NoRecord, EnrollTypeOK
  <2>5. ASSUME Owed PROVE Owed'
    BY <1>1, <2>1, <2>5 DEF Owed, NoRecord, EnrollIInv, EnrollTypeOK
  <2>6. Unwritten'
    BY <1>1, <2>1 DEF EnrollIInv, Unwritten, NoRecord
  <2> QED
    BY <2>2, <2>3, <2>4, <2>5, <2>6 DEF EnrollIInv
<1>3. CASE TokenExpires(t)
  <2>1. tokens[t].minted /\ tokens' = [tokens EXCEPT ![t].expired = TRUE]
    BY <1>3 DEF TokenExpires
  <2>2. EnrollTypeOK'
    BY <1>1, <2>1 DEF EnrollIInv, EnrollTypeOK, RecordType
  <2>3. Counted'
    BY <1>1, <2>1, CountsStay DEF EnrollIInv
  <2>4. EveryCertIsTraced'
    BY <1>1, <2>1 DEF EnrollIInv, EveryCertIsTraced, EnrollTypeOK
  <2>5. ASSUME Owed PROVE Owed'
    BY <1>1, <2>1, <2>5 DEF Owed, EnrollIInv, EnrollTypeOK
  <2>6. Unwritten'
    BY <1>1, <2>1 DEF EnrollIInv, Unwritten, RecordType
  <2> QED
    BY <2>2, <2>3, <2>4, <2>5, <2>6 DEF EnrollIInv
<1> QED
  BY <1>2, <1>3

\* Steps that only begin or drop a request, fetch the list or stop the ingest.
LEMMA QuietKeeps ==
    ASSUME EnrollIInv,
           \/ \E a \in Agents, t \in Tokens : Sign(a, t) \/ ConsumeRefused(a, t)
           \/ \E a \in Agents : RenewGate(a) \/ RenewRefused(a)
           \/ Refresh \/ IngestRestarts \/ UNCHANGED enrollVars
    PROVE  EnrollIInv'
<1> DEFINE Kept == /\ UNCHANGED <<tokens, agents, held, deleting, crl, crlFile, answered>>
                   /\ enrolling' \subseteq Agents \X Tokens /\ renewing' \subseteq Agents
                   /\ copy' \in [loaded : BOOLEAN, revoked : SUBSET Certs]
<1> USE DEF EnrollIInv, EnrollTypeOK
<1>1. Kept
  <2>1. ASSUME NEW a \in Agents, NEW t \in Tokens, Sign(a, t) \/ ConsumeRefused(a, t) PROVE Kept
    <3>1. CASE Sign(a, t)
      BY <3>1 DEF Sign
    <3>2. CASE ConsumeRefused(a, t)
      BY <3>2 DEF ConsumeRefused
    <3> QED
      BY <2>1, <3>1, <3>2
  <2>2. ASSUME NEW a \in Agents, RenewGate(a) \/ RenewRefused(a) PROVE Kept
    BY <2>2 DEF RenewGate, RenewRefused
  <2>3. CASE Refresh \/ IngestRestarts
    <3>1. \E b \in BOOLEAN, l \in SUBSET Certs : copy' = [loaded |-> b, revoked |-> l]
      BY <2>3 DEF Refresh, IngestRestarts, NoCopy
    <3> QED
      BY <2>3, <3>1 DEF Refresh, IngestRestarts, serviceVars
  <2>4. CASE UNCHANGED enrollVars
    BY <2>4 DEF enrollVars, serviceVars
  <2> QED
    BY <2>1, <2>2, <2>3, <2>4
<1> QED
  BY <1>1, CountsStay DEF EnrollIInv, EnrollTypeOK, EveryCertIsTraced, Owed, Unwritten

\* A record with another trail.
LEMMA Retraced ==
    ASSUME NEW r \in RecordType, NEW s \in SUBSET Certs
    PROVE  [r EXCEPT !.trail = s] \in RecordType
  BY DEF RecordType

\* A record with one more use and one more certificate.
LEMMA Recorded ==
    ASSUME NEW r \in RecordType, NEW c \in Certs
    PROVE  [r EXCEPT !.used = @ + 1, !.trail = @ \cup {c}] \in RecordType
<1> DEFINE q == [r EXCEPT !.used = @ + 1]
<1>1. q \in RecordType /\ r.trail \cup {c} \in SUBSET Certs
  BY DEF RecordType
<1> HIDE DEF q
<1>2. [q EXCEPT !.trail = r.trail \cup {c}] \in RecordType
  BY <1>1, Retraced
<1> QED
  BY <1>2, Zenon DEF q

\* Manager.Consume: the agent had no token, and so no certificate yet.
LEMMA ConsumeKeeps ==
    ASSUME EnrollIInv, NEW a \in Agents, NEW t \in Tokens, NEW c \in Certs,
           Consume(a, t, c) \/ ConsumeBreaks(a, t, c)
    PROVE  EnrollIInv'
<1>1. /\ Usable(tokens[t]) /\ agents[a] = NoToken
      /\ tokens' = [tokens EXCEPT ![t].used = @ + 1, ![t].trail = @ \cup {c}]
      /\ enrolling' \subseteq enrolling
      /\ UNCHANGED <<renewing, deleting, crl, crlFile, copy, answered>>
      /\ \/ /\ agents' = [agents EXCEPT ![a] = t]
            /\ held' \in {held, [held EXCEPT ![a] = @ \cup {c}]}
         \/ UNCHANGED <<agents, held>>
  BY DEF Consume, ConsumeBreaks, Consumed, Sends
<1>2. /\ tokens \in [Tokens -> RecordType] /\ agents \in [Agents -> Tokens \cup {NoToken}]
      /\ held \in [Agents -> SUBSET Certs] /\ tokens[t] \in RecordType
  BY DEF EnrollIInv, EnrollTypeOK
<1>3. tokens'[t] = [tokens[t] EXCEPT !.used = @ + 1, !.trail = @ \cup {c}]
      /\ \A u \in Tokens : u # t => tokens'[u] = tokens[u]
  BY <1>1, <1>2
<1>4. tokens' \in [Tokens -> RecordType]
  <2>1. tokens'[t] \in RecordType
    BY <1>2, <1>3, Recorded, Zenon
  <2> QED
    BY <1>1, <1>2, <1>3, <2>1
<1>5. /\ agents' \in [Agents -> Tokens \cup {NoToken}] /\ held' \in [Agents -> SUBSET Certs]
  BY <1>1, <1>2
<1>6. EnrollTypeOK'
  BY <1>1, <1>4, <1>5 DEF EnrollIInv, EnrollTypeOK
<1>7. \A u \in Tokens : /\ tokens'[u].used = IF u = t THEN tokens[u].used + 1 ELSE tokens[u].used
                        /\ tokens'[u].uses = tokens[u].uses
  BY <1>2, <1>3 DEF RecordType
<1>8. Counted'
  <2>1. CASE agents' = [agents EXCEPT ![a] = t]
    BY <1>1, <1>7, <2>1, CountsGrow
  <2>2. CASE agents' = agents
    <3> SUFFICES ASSUME NEW u \in Tokens
                 PROVE  /\ IsFiniteSet(Enrolled(u)') /\ Cardinality(Enrolled(u)') <= tokens'[u].used
                        /\ tokens'[u].used <= tokens'[u].uses
      BY DEF Counted
    <3>1. Enrolled(u)' = Enrolled(u)
      BY <2>2 DEF Enrolled
    <3>2. /\ IsFiniteSet(Enrolled(u)) /\ Cardinality(Enrolled(u)) <= tokens[u].used
          /\ tokens[u].used <= tokens[u].uses /\ tokens[u].used \in Nat /\ tokens[u].uses \in Nat
      BY <1>2 DEF EnrollIInv, Counted, RecordType
    <3>3. Cardinality(Enrolled(u)) \in Nat
      BY <3>2, FS_CardinalityType
    <3>4. u = t => tokens[u].used < tokens[u].uses
      BY <1>1 DEF Usable
    <3> QED
      BY <1>7, <3>1, <3>2, <3>3, <3>4
  <2> QED
    BY <1>1, <2>1, <2>2
<1>9. EveryCertIsTraced'
  <2>1. held[a] = {}
    BY <1>1 DEF EnrollIInv, EveryCertIsTraced
  <2>2. \A u \in Tokens : tokens[u].trail \subseteq tokens'[u].trail
    BY <1>2, <1>3 DEF RecordType
  <2>3. c \in tokens'[t].trail
    BY <1>2, <1>3 DEF RecordType
  <2> QED
    BY <1>1, <1>2, <2>1, <2>2, <2>3, EnrollAssumption DEF EnrollIInv, EveryCertIsTraced
<1>10. ASSUME Owed PROVE Owed'
  <2>1. ~tokens[t].revoked /\ tokens'[t].revoked = tokens[t].revoked
    BY <1>1, <1>2, <1>3 DEF Usable, RecordType
  <2>2. \A d \in deleting : d[1] \in Tokens /\ d[1] # t
    BY <1>10, <2>1 DEF Owed, EnrollIInv, EnrollTypeOK
  <2>3. \A u \in answered : u \in Tokens /\ u # t
    BY <1>10, <2>1 DEF Owed, EnrollIInv, EnrollTypeOK
  <2> QED
    BY <1>1, <1>3, <1>10, <2>2, <2>3 DEF Owed
<1>11. Unwritten'
  BY <1>1, <1>2, <1>3 DEF EnrollIInv, Unwritten, Usable, RecordType
<1> QED
  BY <1>6, <1>8, <1>9, <1>10, <1>11 DEF EnrollIInv

\* Manager.AppendEnrollment: the token is not revoked, so no DELETE walks over its trail.
LEMMA AppendKeeps ==
    ASSUME EnrollIInv, NEW a \in Agents, NEW c \in Certs, AppendEnrollment(a, c)
    PROVE  EnrollIInv'
<1> DEFINE t == agents[a]
<1>1. /\ tokens \in [Tokens -> RecordType] /\ agents \in [Agents -> Tokens \cup {NoToken}]
      /\ held \in [Agents -> SUBSET Certs]
  BY DEF EnrollIInv, EnrollTypeOK
<1>2. t \in Tokens /\ tokens[t] \in RecordType /\ ~tokens[t].revoked
  BY <1>1 DEF AppendEnrollment, Appendable
<1>3. /\ tokens' = [tokens EXCEPT ![t].trail = @ \cup {c}] /\ renewing' \subseteq renewing
      /\ held' \in {held, [held EXCEPT ![a] = @ \cup {c}]}
      /\ UNCHANGED <<agents, enrolling, deleting, crl, crlFile, copy, answered>>
  BY DEF AppendEnrollment, Sends
<1> HIDE DEF t
<1>4. tokens'[t] = [tokens[t] EXCEPT !.trail = @ \cup {c}] /\ \A u \in Tokens : u # t => tokens'[u] = tokens[u]
  BY <1>1, <1>2, <1>3
<1>5. EnrollTypeOK'
  <2>1. tokens[t].trail \cup {c} \in SUBSET Certs
    BY <1>2 DEF RecordType
  <2>2. tokens'[t] \in RecordType
    BY <1>2, <1>4, <2>1, Retraced
  <2>3. tokens' \in [Tokens -> RecordType]
    BY <1>1, <1>2, <1>3, <1>4, <2>2
  <2>4. held' \in [Agents -> SUBSET Certs]
    BY <1>1, <1>3
  <2> QED
    BY <1>3, <2>3, <2>4 DEF EnrollIInv, EnrollTypeOK
<1>6. \A u \in Tokens : /\ tokens'[u].used = tokens[u].used /\ tokens'[u].uses = tokens[u].uses
                        /\ tokens'[u].revoked = tokens[u].revoked /\ tokens'[u].minted = tokens[u].minted
  BY <1>1, <1>2, <1>4 DEF RecordType
<1>7. Counted'
  BY <1>3, <1>6, CountsStay DEF EnrollIInv
<1>8. EveryCertIsTraced'
  <2>1. \A u \in Tokens : tokens[u].trail \subseteq tokens'[u].trail
    BY <1>1, <1>2, <1>4 DEF RecordType
  <2>2. c \in tokens'[t].trail
    BY <1>2, <1>4 DEF RecordType
  <2> QED
    BY <1>1, <1>2, <1>3, <2>1, <2>2, EnrollAssumption DEF EnrollIInv, EveryCertIsTraced, t
<1>9. ASSUME Owed PROVE Owed'
  <2>1. \A d \in deleting : d[1] \in Tokens /\ d[1] # t
    BY <1>2, <1>9 DEF Owed, EnrollIInv, EnrollTypeOK
  <2>2. \A u \in answered : u \in Tokens /\ u # t
    BY <1>2, <1>9 DEF Owed, EnrollIInv, EnrollTypeOK
  <2> QED
    BY <1>3, <1>4, <1>9, <2>1, <2>2 DEF Owed
<1>10. Unwritten'
  <2>1. tokens[t].minted
    <3> SUFFICES ASSUME ~tokens[t].minted PROVE FALSE
      OBVIOUS
    <3>1. tokens[t].used = 0
      BY <1>2 DEF EnrollIInv, Unwritten, NoRecord
    <3>2. IsFiniteSet(Enrolled(t)) /\ Cardinality(Enrolled(t)) <= 0
      BY <1>2, <3>1 DEF EnrollIInv, Counted
    <3>3. Enrolled(t) = {}
      BY <3>2, FS_EmptySet, FS_CardinalityType
    <3> QED
      BY <3>3 DEF Enrolled, t
  <2> QED
    BY <1>2, <1>4, <1>6, <2>1 DEF EnrollIInv, Unwritten
<1> QED
  BY <1>5, <1>7, <1>8, <1>9, <1>10 DEF EnrollIInv

\* revokeToken: from the revocation of the record on, its trail stays as it was returned.
LEMMA RevokeKeeps ==
    ASSUME EnrollIInv, NEW t \in Tokens, Revoke(t)
    PROVE  EnrollIInv'
<1>1. /\ tokens \in [Tokens -> RecordType] /\ tokens[t] \in RecordType
      /\ deleting \subseteq Tokens \X SUBSET Certs
      /\ UNCHANGED <<agents, held, enrolling, renewing, copy>>
  <2>1. tokens \in [Tokens -> RecordType] /\ deleting \subseteq Tokens \X SUBSET Certs
    BY DEF EnrollIInv, EnrollTypeOK
  <2> QED
    BY <2>1 DEF Revoke, RevokeRecord, RevokeAnswers, RevokeCertSerial
<1>2. CASE RevokeRecord(t)
  <2>1. /\ tokens[t].minted /\ tokens' = [tokens EXCEPT ![t].revoked = TRUE]
        /\ deleting' = deleting \cup {<<t, tokens[t].trail>>}
        /\ UNCHANGED <<crl, crlFile, answered>>
    BY <1>2 DEF RevokeRecord
  <2>2. tokens'[t] = [tokens[t] EXCEPT !.revoked = TRUE] /\ \A u \in Tokens : u # t => tokens'[u] = tokens[u]
    BY <1>1, <2>1
  <2>3. \A u \in Tokens : /\ tokens'[u].used = tokens[u].used /\ tokens'[u].uses = tokens[u].uses
                          /\ tokens'[u].trail = tokens[u].trail /\ tokens'[u].minted = tokens[u].minted
                          /\ tokens[u].revoked => tokens'[u].revoked
    BY <1>1, <2>2 DEF RecordType
  <2>4. EnrollTypeOK'
    <3>1. tokens'[t] \in RecordType /\ tokens[t].trail \in SUBSET Certs
      BY <1>1, <2>2 DEF RecordType
    <3>2. tokens' \in [Tokens -> RecordType]
      BY <1>1, <2>1, <2>2, <3>1
    <3>3. deleting' \subseteq Tokens \X SUBSET Certs
      BY <1>1, <2>1, <3>1
    <3> QED
      BY <1>1, <2>1, <3>2, <3>3 DEF EnrollIInv, EnrollTypeOK
  <2>5. Counted'
    BY <1>1, <2>3, CountsStay DEF EnrollIInv
  <2>6. EveryCertIsTraced'
    BY <1>1, <2>3, EnrollAssumption DEF EnrollIInv, EveryCertIsTraced, EnrollTypeOK
  <2>7. ASSUME Owed PROVE Owed'
    <3>1. tokens'[t].revoked
      BY <1>1, <2>2 DEF RecordType
    <3>2. \A d \in deleting : d[1] \in Tokens
      BY <1>1
    <3>3. answered \subseteq Tokens
      BY DEF EnrollIInv, EnrollTypeOK
    <3> QED
      BY <2>1, <2>3, <2>7, <3>1, <3>2, <3>3 DEF Owed
  <2>8. Unwritten'
    BY <2>1, <2>2, <2>3 DEF EnrollIInv, Unwritten
  <2> QED
    BY <2>4, <2>5, <2>6, <2>7, <2>8 DEF EnrollIInv
<1>3. CASE \E rest \in SUBSET Certs, c \in Certs : RevokeCertSerial(t, rest, c)
  <2>1. PICK rest \in SUBSET Certs, c \in Certs : RevokeCertSerial(t, rest, c)
    BY <1>3
  <2>2. /\ <<t, rest>> \in deleting /\ crl' = crl \cup {c}
        /\ deleting' = (deleting \ {<<t, rest>>}) \cup {<<t, rest \ {c}>>}
        /\ UNCHANGED <<tokens, answered>>
    BY <2>1 DEF RevokeCertSerial
  <2>3. crlFile' = crl' \/ (CRLFaults /\ crlFile' = crlFile)
    BY <2>1 DEF RevokeCertSerial
  <2>4. EnrollTypeOK'
    BY <1>1, <2>2, <2>3 DEF EnrollIInv, EnrollTypeOK
  <2>5. Counted' /\ EveryCertIsTraced' /\ Unwritten'
    BY <1>1, <2>2, CountsStay DEF EnrollIInv, EveryCertIsTraced, Unwritten
  <2>6. ASSUME ~CRLFaults PROVE Owed'
    <3>1. Owed /\ crlFile' = crl'
      BY <2>3, <2>6 DEF EnrollIInv
    <3>2. \A d \in deleting : tokens[d[1]].revoked /\ tokens[d[1]].trail \subseteq crl' \cup d[2]
      BY <2>2, <3>1 DEF Owed
    <3>3. tokens[t].revoked /\ tokens[t].trail \subseteq crl' \cup (rest \ {c})
      BY <2>2, <3>1 DEF Owed
    <3> QED
      BY <2>2, <3>1, <3>2, <3>3 DEF Owed
  <2> QED
    BY <2>4, <2>5, <2>6 DEF EnrollIInv
<1>4. CASE RevokeAnswers(t)
  <2>1. /\ <<t, {}>> \in deleting /\ deleting' \subseteq deleting
        /\ answered' = answered \cup {t} /\ UNCHANGED <<tokens, crl, crlFile>>
    BY <1>4 DEF RevokeAnswers
  <2>2. EnrollTypeOK'
    BY <1>1, <2>1 DEF EnrollIInv, EnrollTypeOK
  <2>3. Counted' /\ EveryCertIsTraced' /\ Unwritten'
    BY <1>1, <2>1, CountsStay DEF EnrollIInv, EveryCertIsTraced, Unwritten
  <2>4. ASSUME Owed PROVE Owed'
    BY <2>1, <2>4 DEF Owed
  <2> QED
    BY <2>2, <2>3, <2>4 DEF EnrollIInv
<1> QED
  BY <1>2, <1>3, <1>4 DEF Revoke

\* What a stop loses is not owed: the list is read back from its file, and no DELETE is in progress.
LEMMA RestartKeeps ==
    ASSUME EnrollIInv, ControlPlaneRestarts
    PROVE  EnrollIInv'
<1>1. /\ UNCHANGED <<tokens, agents, held, crlFile, copy, answered>>
      /\ enrolling' = {} /\ renewing' = {} /\ deleting' = {} /\ crl' = crlFile
  BY DEF ControlPlaneRestarts
<1> QED
  BY <1>1, CountsStay DEF EnrollIInv, EnrollTypeOK, EveryCertIsTraced, Owed, Unwritten

\* Every step of the specification.
LEMMA EnrollStepHolds == EnrollIInv /\ [EnrollNext]_enrollVars => EnrollIInv'
<1> SUFFICES ASSUME EnrollIInv, [EnrollNext]_enrollVars PROVE EnrollIInv'
  OBVIOUS
<1>1. CASE \E t \in Tokens : Mint(t) \/ TokenExpires(t) \/ Revoke(t)
  BY <1>1, TokensKeep, RevokeKeeps
<1>2. CASE \E a \in Agents, t \in Tokens : Enroll(a, t)
  BY <1>2, QuietKeeps, ConsumeKeeps DEF Enroll
<1>3. CASE \E a \in Agents : Renew(a)
  BY <1>3, QuietKeeps, AppendKeeps DEF Renew
<1>4. CASE Refresh \/ IngestRestarts \/ UNCHANGED enrollVars
  BY <1>4, QuietKeeps
<1>5. CASE ControlPlaneRestarts
  BY <1>5, RestartKeeps
<1> QED
  BY <1>1, <1>2, <1>3, <1>4, <1>5 DEF EnrollNext, Handles

\* Manager.Consume and AppendEnrollment, for any tokens, caps and agents and with any of the faults:
\* no token admits more agents than its cap, and every certificate held is in a trail.
THEOREM EnrollmentHolds == EnrollSpec => []EnrollInv
<1>1. EnrollIInv => EnrollInv
  BY DEF EnrollIInv, EnrollInv, UsesWithinCap, Counted, Enrolled
<1> QED
  BY <1>1, EnrollInitHolds, EnrollStepHolds, PTL DEF EnrollSpec

\* revokeToken, while no save of the list fails: what an answered DELETE promised of the list holds
\* for ever, through renewals, stops and whatever else is in progress.
THEOREM KillSwitchHolds == ~CRLFaults => (EnrollSpec => []KillSwitch)
<1> SUFFICES ASSUME ~CRLFaults PROVE EnrollSpec => []KillSwitch
  OBVIOUS
<1>1. EnrollIInv => KillSwitch
  BY DEF EnrollIInv, Owed, KillSwitch
<1> QED
  BY <1>1, EnrollInitHolds, EnrollStepHolds, PTL DEF EnrollSpec

\* "first enrollment wins": no step of the specification passes a name to another token.
THEOREM FirstIsKept == EnrollSpec => FirstEnrollmentWins
<1>1. EnrollIInv /\ [EnrollNext]_enrollVars =>
          [\A a \in Agents : agents[a] # NoToken => agents'[a] = agents[a]]_enrollVars
  <2> SUFFICES ASSUME EnrollIInv, EnrollNext, NEW a \in Agents, agents[a] # NoToken PROVE agents'[a] = agents[a]
    OBVIOUS
  <2>1. agents \in [Agents -> Tokens \cup {NoToken}]
    BY DEF EnrollIInv, EnrollTypeOK
  <2>2. \/ UNCHANGED agents
        \/ \E b \in Agents, t \in Tokens : agents[b] = NoToken /\ agents' = [agents EXCEPT ![b] = t]
    BY DEF EnrollNext, Handles, Enroll, Renew, Revoke, Mint, TokenExpires, Sign, ConsumeRefused, Consume,
           ConsumeBreaks, RenewGate, RenewRefused, AppendEnrollment, RevokeRecord, RevokeAnswers,
           RevokeCertSerial, Refresh, IngestRestarts, ControlPlaneRestarts
  <2> QED
    BY <2>1, <2>2
<1> QED
  BY <1>1, EnrollInitHolds, EnrollStepHolds, PTL DEF EnrollSpec, FirstEnrollmentWins

---------------------------------------------------------------------------
(* Whoever holds a certificate *)

\* The subjects that the runs enumerate are such subjects.
Letters == {"x", "y", "CN", "OU", "O", "scanner-sensor", "agent-endpoint", "agent"} \cup Specials \cup Digits
Names == Plain \cup Odd \cup Units

LEMMA NamesAre ==
    \A v \in Names : v \in Seq(Letters) /\ Trimmed(v) /\ v # <<>>
<1>1. "x" \in Letters /\ "y" \in Letters /\ "agent" \in Letters
  BY DEF Letters
<1>2. "scanner-sensor" \in Letters /\ "agent-endpoint" \in Letters /\ Specials \cup {"x"} \subseteq Letters
  BY DEF Letters
<1>3. "," \in Letters /\ "OU" \in Letters /\ "=" \in Letters
  BY DEF Letters, Specials, Marked, Quoted
<1>4. Blank \notin Letters
  <2>1. Blank \notin Coded /\ Blank \notin Quoted \cup {"/", "#", "="}
    BY CodedAssumption DEF Blank, Quoted
  <2>2. Blank \notin Digits
    BY DigitsAre
  <2>3. Blank \notin {"x", "y", "CN", "OU", "O", "scanner-sensor", "agent-endpoint", "agent"}
    BY DEF Blank
  <2> QED  BY <2>1, <2>2, <2>3 DEF Letters, Specials, Marked
<1>5. \A v \in Seq(Letters) : Trimmed(v)
  <2> TAKE v \in Seq(Letters)
  <2>1. v # <<>> => v[1] \in Letters /\ v[Len(v)] \in Letters
    OBVIOUS
  <2> QED  BY <1>4, <2>1 DEF Trimmed
<1> SUFFICES ASSUME NEW v \in Names PROVE v \in Seq(Letters) /\ v # <<>>
  BY <1>5
<1>6. \A z \in Letters : <<z>> \in Seq(Letters) /\ <<z>> # <<>>
  OBVIOUS
<1>7. \A z, w \in Letters : <<z, w>> \in Seq(Letters) /\ <<z, w>> # <<>>
  OBVIOUS
<1>8. CASE v \in Plain
  BY <1>1, <1>6, <1>8 DEF Plain
<1>9. CASE v \in Units
  BY <1>1, <1>2, <1>6, <1>9 DEF Units, PolicyScannerSensor, PolicyAgentEndpoint
<1>10. CASE v \in Odd
  <2> DEFINE Ones == {<<z>> : z \in Specials}
             Twos == {<<z, w>> : z, w \in Specials \cup {"x"}}
             Pretended == <<"x", ",", "OU", "=", "scanner-sensor">>
  <2>1. \A u \in Ones : u \in Seq(Letters) /\ u # <<>>
    BY <1>2, <1>6
  <2>2. \A u \in Twos : u \in Seq(Letters) /\ u # <<>>
    <3> TAKE u \in Twos
    <3>1. PICK z \in Specials \cup {"x"}, w \in Specials \cup {"x"} : u = <<z, w>>
      OBVIOUS
    <3>2. z \in Letters /\ w \in Letters
      BY <1>2
    <3> QED  BY <1>7, <3>1, <3>2
  <2>3. Pretended \in Seq(Letters) /\ Pretended # <<>>
    <3> DEFINE a == "x"
               b == ","
               c == "OU"
               d == "="
               e == "scanner-sensor"
    <3>1. a \in Letters /\ b \in Letters /\ c \in Letters /\ d \in Letters /\ e \in Letters
      BY <1>1, <1>2, <1>3
    <3> HIDE DEF a, b, c, d, e
    <3>2. <<a, b, c, d, e>> \in Seq(Letters) /\ <<a, b, c, d, e>> # <<>>
      BY <3>1
    <3> QED  BY <3>2 DEF a, b, c, d, e
  <2>4. Odd = Ones \cup Twos \cup {Pretended}
    BY DEF Odd
  <2> HIDE DEF Ones, Twos, Pretended
  <2>5. v \in Ones \/ v \in Twos \/ v = Pretended
    BY <1>10, <2>4
  <2> QED  BY <2>1, <2>2, <2>3, <2>5
<1> QED  BY <1>8, <1>9, <1>10 DEF Names

LEMMA SubjectsAre ==
    \A subject \in Subjects : IsCertificate(subject, Letters)
<1>1. "CN" \in Letters /\ "OU" \in Letters /\ "O" \in Letters
  BY DEF Letters
<1>2. "CN" \notin Specials \cup {" "} /\ "OU" \notin Specials \cup {" "} /\ "O" \notin Specials \cup {" "}
  BY CodedAssumption DEF Specials, Marked, Quoted
<1>3. ASSUME NEW cn \in Names, NEW o \in Names, NEW ou \in Names
      PROVE  IsCertificate(Subject(cn, o, ou), Letters)
  <2> DEFINE s == Subject(cn, o, ou)
  <2>1. cn \in Seq(Letters) /\ o \in Seq(Letters) /\ ou \in Seq(Letters)
    BY NamesAre
  <2>2. Trimmed(cn) /\ Trimmed(o) /\ Trimmed(ou) /\ cn # <<>> /\ o # <<>>
    BY NamesAre
  <2>3. s = << <<"CN", cn>>, <<"OU", ou>>, <<"O", o>> >>
    BY DEF Subject
  <2> HIDE DEF s
  <2>4. s \in Seq(Letters \X Seq(Letters)) /\ Len(s) = 3
    BY <1>1, <2>1, <2>3
  <2>5. s[1][1] = "CN" /\ s[1][2] = cn /\ s[2][1] = "OU" /\ s[2][2] = ou /\ s[3][1] = "O" /\ s[3][2] = o
    BY <2>3
  <2>6. \A k \in 1..Len(s) : k = 1 \/ k = 2 \/ k = 3
    BY <2>4
  <2>7. \A k \in 1..Len(s) : s[k][1] \notin Specials \cup {" "} /\ Trimmed(s[k][2])
    BY <1>2, <2>2, <2>5, <2>6
  <2>8. s # <<>> /\ Len(s) > 2
    <3>1. Len(<<>>) = 0 /\ 0 # 3
      OBVIOUS
    <3>2. s # <<>>
      BY <2>4, <3>1, Zenon
    <3>3. Len(s) > 2
      <4> DEFINE n == Len(s)
      <4>1. n = 3
        BY <2>4
      <4> HIDE DEF n
      <4> QED  BY <4>1 DEF n
    <3> QED  BY <3>2, <3>3
  <2> QED  BY <2>2, <2>4, <2>5, <2>7, <2>8 DEF IsCertificate, IsSubject, s
<1>4. ASSUME NEW s, IsCertificate(s, Letters), NEW v \in Names
      PROVE  IsCertificate(Append(s, <<"OU", v>>), Letters)
  <2> DEFINE A == Letters \X Seq(Letters)
             p == <<"OU", v>>
             t == Append(s, p)
  <2>1. s \in Seq(A) /\ Len(s) > 2 /\ \A k \in 1..Len(s) : s[k][1] \notin Specials \cup {" "} /\ Trimmed(s[k][2])
    BY <1>4 DEF IsCertificate, IsSubject
  <2>2. s[1][1] = "CN" /\ s[2][1] = "OU" /\ s[3][1] = "O" /\ s[1][2] # <<>> /\ s[3][2] # <<>>
    BY <1>4 DEF IsCertificate
  <2>3. p \in A /\ p[1] \notin Specials \cup {" "} /\ Trimmed(p[2])
    BY <1>1, <1>2, NamesAre
  <2> HIDE DEF A, p
  <2>4. t \in Seq(A) /\ Len(t) = Len(s) + 1 /\ Len(s) \in Nat /\ t[Len(s) + 1] = p
        /\ \A k \in 1..Len(s) : t[k] = s[k]
    <3>1. s \in Seq(A) /\ p \in A
      BY <2>1, <2>3
    <3>2. t \in Seq(A) /\ Len(t) = Len(s) + 1 /\ t[Len(s) + 1] = p /\ \A k \in 1..Len(s) : t[k] = s[k]
      BY <3>1, AppendProperties
    <3> QED  BY <3>1, <3>2
  <2> HIDE DEF t
  <2>5. \A k \in 1..Len(t) : k \in 1..Len(s) \/ k = Len(s) + 1
    BY <2>4
  <2>6. \A k \in 1..Len(t) : t[k][1] \notin Specials \cup {" "} /\ Trimmed(t[k][2])
    BY <2>1, <2>3, <2>4, <2>5
  <2>7. 1 \in 1..Len(s) /\ 2 \in 1..Len(s) /\ 3 \in 1..Len(s) /\ Len(t) > 2
    <3> DEFINE n == Len(s)
               m == Len(t)
    <3>1. n \in Nat /\ n > 2 /\ m = n + 1
      BY <2>1, <2>4
    <3> HIDE DEF n, m
    <3>2. 1 \in 1..n /\ 2 \in 1..n /\ 3 \in 1..n /\ m > 2
      BY <3>1
    <3> QED  BY <3>2 DEF n, m
  <2>8. t[1] = s[1] /\ t[2] = s[2] /\ t[3] = s[3] /\ t # <<>>
    BY <2>4, <2>7
  <2> QED  BY <2>2, <2>4, <2>6, <2>7, <2>8 DEF IsCertificate, IsSubject, A, p, t
<1>5. <<"x">> \in Names /\ <<"y">> \in Names
  BY DEF Names, Plain
<1>6. TAKE subject \in Subjects
<1>7. CASE subject \in {Subject(cn, o, ou) : cn \in Plain \cup Odd, o \in Plain, ou \in Units}
  BY <1>3, <1>7 DEF Names
<1>8. CASE subject \in {Subject(<<"x">>, o, ou) : o \in Odd, ou \in Units}
  BY <1>3, <1>5, <1>8 DEF Names
<1>9. CASE subject \in {Subject(<<"x">>, <<"y">>, ou) : ou \in Odd}
  BY <1>3, <1>5, <1>9 DEF Names
<1>10. CASE subject \in {Append(Subject(<<"x">>, <<"y">>, ou), <<"OU", v>>) : ou \in Units, v \in Odd \cup Units}
  <2>1. PICK ou \in Units, v \in Odd \cup Units : subject = Append(Subject(<<"x">>, <<"y">>, ou), <<"OU", v>>)
    BY <1>10
  <2>2. ou \in Names /\ v \in Names
    BY DEF Names
  <2>3. IsCertificate(Subject(<<"x">>, <<"y">>, ou), Letters)
    BY <1>3, <1>5, <2>2
  <2> QED  BY <1>4, <2>1, <2>2, <2>3
<1> QED  BY <1>7, <1>8, <1>9, <1>10 DEF Subjects

\* So whoever holds a certificate is known on every route by what the certificate says, the digits of a
\* coded byte standing for the byte: of every subject that the runs enumerate, CallersAreRead says it.
THEOREM CallersAreKnown == EnrollSpec => []HoldersAreKnown
<1>1. Specials \cup Digits \subseteq Letters
  BY DEF Letters
<1>2. CallersAreExact
  <2> SUFFICES ASSUME NEW subject \in Subjects PROVE CallerIsExact(subject, Known, <<"y">>, <<"agent">>)
    BY DEF CallersAreExact
  <2>1. IsCertificate(subject, Letters)
    BY SubjectsAre
  <2> QED  BY <1>1, <2>1, CallersAreRead
<1>3. HoldersAreKnown
  BY <1>2 DEF HoldersAreKnown
<1> QED  BY <1>3, PTL

---------------------------------------------------------------------------
(* SensorIdentity.  The inductive invariant adds to IdentityInv what one   *)
(* step must know of the steps before: an answer is in hand while its      *)
(* parts are written, only a running process has a key, and a certificate  *)
(* that is due has not been skipped.                                       *)

AnswerInHand == at \in Enrolling \cup Renewing => hand \in [pair : Pairs, feed : FeedKeys]

OnlyRunningHasKey == at \notin Running => pinned = None

DueIsNotSkipped == age > 0 => check # "skipped"

IdentityIInv == IdentityInv /\ AnswerInHand /\ OnlyRunningHasKey /\ DueIsNotSkipped

\* Nothing is on disk, and the process is down.
LEMMA IdentityInitHolds == IdentityInit => IdentityIInv
  BY DEF IdentityInit, IdentityIInv, IdentityInv, IdentityTypeOK, RenewalInTime, AnswerInHand, OnlyRunningHasKey,
         DueIsNotSkipped, Enrolling, Renewing, Running

\* startFeedSync pins a key that verifies something, or none.
LEMMA PinIsTyped ==
    ASSUME NEW pub, NEW authority
    PROVE  Pin(pub, authority) \in FeedKeys \cup {CAKey, None}
  BY DEF Pin

\* main's first enrollment, and the start of its services.
LEMMA MainKeeps ==
    ASSUME IdentityIInv,
           \/ Boots \/ EnrollAsks \/ EnrollIsLost
           \/ EnrollWritesCrt \/ EnrollWritesKey \/ EnrollWritesCA \/ EnrollWritesPubs \/ EnrollBreaks
    PROVE  IdentityIInv'
<1> USE DEF IdentityIInv, IdentityInv, IdentityTypeOK, RenewalInTime, AnswerInHand, OnlyRunningHasKey,
            DueIsNotSkipped, Enrolling, Renewing, Running, files
<1>1. CASE Boots
  BY <1>1, PinIsTyped DEF Boots, Starts
<1>2. CASE EnrollAsks
  BY <1>2 DEF EnrollAsks, Answer
<1>3. CASE EnrollIsLost
  BY <1>3 DEF EnrollIsLost
<1>4. CASE EnrollWritesCrt
  BY <1>4 DEF EnrollWritesCrt
<1>5. CASE EnrollWritesKey
  BY <1>5 DEF EnrollWritesKey
<1>6. CASE EnrollWritesCA
  BY <1>6 DEF EnrollWritesCA
<1>7. CASE EnrollWritesPubs
  BY <1>7, PinIsTyped DEF EnrollWritesPubs, Starts
<1>8. CASE EnrollBreaks
  BY <1>8 DEF EnrollBreaks, Stops
<1> QED
  BY <1>1, <1>2, <1>3, <1>4, <1>5, <1>6, <1>7, <1>8

\* checkRenew and renewWith.
LEMMA RenewKeeps ==
    ASSUME IdentityIInv,
           \/ RenewSkips \/ RenewAsks \/ RenewFails
           \/ RenewWritesKey \/ RenewWritesCrt \/ RenewWritesPubs \/ RenewBreaks
    PROVE  IdentityIInv'
<1> USE DEF IdentityIInv, IdentityInv, IdentityTypeOK, RenewalInTime, AnswerInHand, OnlyRunningHasKey,
            DueIsNotSkipped, Enrolling, Renewing, Running, files
<1>1. CASE RenewSkips
  BY <1>1 DEF RenewSkips, DueSoon
<1>2. CASE RenewAsks
  BY <1>2 DEF RenewAsks, Answer
<1>3. CASE RenewFails
  BY <1>3 DEF RenewFails
<1>4. CASE RenewWritesKey
  BY <1>4 DEF RenewWritesKey
<1>5. CASE RenewWritesCrt
  BY <1>5 DEF RenewWritesCrt
<1>6. CASE RenewWritesPubs
  BY <1>6 DEF RenewWritesPubs
<1>7. CASE RenewBreaks
  BY <1>7 DEF RenewBreaks
<1> QED
  BY <1>1, <1>2, <1>3, <1>4, <1>5, <1>6, <1>7

\* Time, stops and the cloud.
LEMMA OthersKeep ==
    ASSUME IdentityIInv, CertAges \/ SensorStops \/ KeyRotates
    PROVE  IdentityIInv'
<1> USE DEF IdentityIInv, IdentityInv, IdentityTypeOK, RenewalInTime, AnswerInHand, OnlyRunningHasKey,
            DueIsNotSkipped, Enrolling, Renewing, Running, files
<1>1. CASE CertAges
  BY <1>1 DEF CertAges
<1>2. CASE SensorStops
  BY <1>2 DEF SensorStops, Stops
<1>3. CASE KeyRotates
  BY <1>3 DEF KeyRotates
<1> QED
  BY <1>1, <1>2, <1>3

\* Every step keeps the invariant.
LEMMA IdentityStepHolds == IdentityIInv /\ [IdentityNext]_identityVars => IdentityIInv'
<1> SUFFICES ASSUME IdentityIInv, [IdentityNext]_identityVars PROVE IdentityIInv'
  OBVIOUS
<1>1. CASE UNCHANGED identityVars
  BY <1>1 DEF identityVars, files, IdentityIInv, IdentityInv, IdentityTypeOK, RenewalInTime, AnswerInHand,
              OnlyRunningHasKey, DueIsNotSkipped
<1> QED
  BY <1>1, MainKeeps, RenewKeeps, OthersKeep DEF IdentityNext, SensorSteps, IdentityFaults

\* The types of a sensor's files and process, and DueSoon's promise: no order of checks, restarts and
\* rotations lets a certificate expire that a renewal has not failed for.
THEOREM IdentityHolds == IdentitySpec => []IdentityInv
<1>1. IdentityIInv => IdentityInv
  BY DEF IdentityIInv
<1> QED
  BY <1>1, IdentityInitHolds, IdentityStepHolds, PTL DEF IdentitySpec

\* startFeedSync's key is read from the file when the process starts, and from the CA's certificate
\* only when there is no good file.
LEMMA PinIsPinnable ==
    ASSUME NEW pub, NEW authority
    PROVE  Pin(pub, authority) \in Process!Pinnable(pub)
  BY DEF Pin, Process!Pinnable

\* A step of SensorIdentity is a step of SensorProcess, or none.
LEMMA StepImplements ==
    ASSUME IdentityIInv, [IdentityNext]_identityVars
    PROVE  [Process!ProcessNext]_(Process!processVars)
<1> USE DEF Process!processVars, Process!ProcessNext, Enrolling, Renewing, Running, files
<1>1. CASE Boots
  <2>1. Process!ProcessStarts
    BY <1>1, PinIsPinnable DEF Boots, Starts, Process!ProcessStarts
  <2> QED
    BY <2>1
<1>2. CASE EnrollWritesPubs
  <2>1. hand.feed \in FeedKeys
    BY <1>2 DEF EnrollWritesPubs, IdentityIInv, AnswerInHand
  <2>2. Process!ProcessStarts
    BY <1>2, <2>1, PinIsPinnable DEF EnrollWritesPubs, Starts, Process!ProcessStarts
  <2> QED
    BY <2>2
<1>3. CASE RenewWritesPubs
  <2>1. hand.feed \in FeedKeys
    BY <1>3 DEF RenewWritesPubs, IdentityIInv, AnswerInHand
  <2>2. Process!KeyArrives \/ UNCHANGED Process!processVars
    BY <1>3, <2>1 DEF RenewWritesPubs, Process!KeyArrives
  <2> QED
    BY <2>2
<1>4. CASE SensorStops \/ EnrollBreaks
  <2>1. Process!ProcessStops \/ UNCHANGED Process!processVars
    BY <1>4 DEF SensorStops, EnrollBreaks, Stops, Process!ProcessStops, IdentityIInv, OnlyRunningHasKey,
                IdentityInv, IdentityTypeOK
  <2> QED
    BY <2>1
<1>5. CASE KeyRotates
  <2>1. Process!KeyRotates
    BY <1>5 DEF KeyRotates, Process!KeyRotates
  <2> QED
    BY <2>1
<1>6. CASE EnrollAsks \/ EnrollIsLost \/ EnrollWritesCrt \/ EnrollWritesKey \/ EnrollWritesCA
  BY <1>6 DEF EnrollAsks, EnrollIsLost, EnrollWritesCrt, EnrollWritesKey, EnrollWritesCA
<1>7. CASE RenewSkips \/ RenewAsks \/ RenewFails \/ RenewWritesKey \/ RenewWritesCrt \/ RenewBreaks
  BY <1>7 DEF RenewSkips, RenewAsks, RenewFails, RenewWritesKey, RenewWritesCrt, RenewBreaks
<1>8. CASE CertAges \/ UNCHANGED identityVars
  BY <1>8 DEF CertAges, identityVars
<1> QED
  BY <1>1, <1>2, <1>3, <1>4, <1>5, <1>6, <1>7, <1>8 DEF IdentityNext, SensorSteps, IdentityFaults

\* main.go keeps to what FeedSync relies on: nothing that is enrolled, renewed, stopped or left torn
\* changes the key of a process, but its start.
THEOREM ImplementsProcess == IdentitySpec => IsSensorProcess
<1>1. IdentityInit => Process!ProcessInit
  BY DEF IdentityInit, Process!ProcessInit, Running, Renewing
<1> QED
  BY <1>1, IdentityInitHolds, IdentityStepHolds, StepImplements, PTL
     DEF IdentitySpec, IsSensorProcess, Process!ProcessSpec
=============================================================================
