------------------------ MODULE RemediationConsent ------------------------
(***************************************************************************)
(* What ADR-0010 promises of remediation as a whole, without queue, file,  *)
(* network or journal: a host is changed only by a job an operator         *)
(* consented to, for that host, begun inside the window that was consented *)
(* to, and a fix is attested only if the host was changed.                 *)
(***************************************************************************)
EXTENDS Integers

CONSTANTS Jobs, Agents

VARIABLES
    consent,   \* the orders operators gave: records with a job, an agent and a window
    now,       \* the hosts' time
    working,   \* the host and job pairs being carried out
    changed,   \* the host and job pairs that were carried out
    attested   \* the jobs currently recorded as confirmed

consentVars == <<consent, now, working, changed, attested>>

InWindow(window, t) ==
    /\ window.opens # 0 => t >= window.opens
    /\ window.closes # 0 => t <= window.closes

ConsentInit ==
    consent = {} /\ working = {} /\ changed = {} /\ attested = {}

\* A job is consented to once, on one set of terms.
Consent ==
    /\ \E order \in consent' :
          /\ consent' = consent \cup {order}
          /\ \A other \in consent : other.job # order.job
    /\ UNCHANGED <<now, working, changed, attested>>

Begin(host, j) ==
    /\ \E order \in consent :
          order.job = j /\ order.agent = host /\ InWindow(order.window, now)
    /\ working' = working \cup {<<host, j>>}
    /\ UNCHANGED <<consent, now, changed, attested>>

End(host, j) ==
    /\ <<host, j>> \in working
    /\ working' = working \ {<<host, j>>}
    /\ changed' \in {changed, changed \cup {<<host, j>>}}
    /\ UNCHANGED <<consent, now, attested>>

Attest ==
    /\ \A j \in attested' : \E host \in Agents : <<host, j>> \in changed
    /\ UNCHANGED <<consent, now, working, changed>>

TimePasses == now' = now + 1 /\ UNCHANGED <<consent, working, changed, attested>>

ConsentNext ==
    \/ Consent
    \/ \E host \in Agents, j \in Jobs : Begin(host, j) \/ End(host, j)
    \/ Attest
    \/ TimePasses

ConsentSpec == ConsentInit /\ [][ConsentNext]_consentVars

===========================================================================
