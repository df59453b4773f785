---------------------------- MODULE CallerNames ----------------------------
(***************************************************************************)
(* Who calls: the proxy verifies a client's certificate and forwards its   *)
(* subject as a text, which every service reads back.  The readers of      *)
(* ingest/scanlaunch, ingest/sensorreport, control-plane/sensorjobs and    *)
(* control-plane/remediation are copies of one another; control-plane/     *)
(* enroll (for renewals) and control-plane/commands have simpler ones.     *)
(*                                                                         *)
(* A text is a sequence of characters, in which a word without special     *)
(* characters counts as one.  Attribute types are in capitals.             *)
(***************************************************************************)
EXTENDS Positions, SequencesExt

---------------------------------------------------------------------------
(* scanlaunch/authz.go and its copies *)

TrimSpace(s) ==
    LET kept == {i \in DOMAIN s : s[i] # " "}
    IN  IF kept = {} THEN <<>> ELSE SubSeq(s, Min(kept), Max(kept))

\* The backslashes that stand for the character after them.
Escaping(s) ==
    LET escapes[i \in 0..Len(s)] == i \in 1..(Len(s) - 1) /\ s[i] = "\\" /\ ~escapes[i - 1]
    IN  {i \in DOMAIN s : escapes[i]}

Parts(s, cuts) ==
    LET ends == Ordered(cuts \cup {0, Len(s) + 1})
    IN  [k \in 1..(Len(ends) - 1) |-> SubSeq(s, ends[k] + 1, ends[k + 1] - 1)]

\* A separator behind an escaping backslash is a part's.
Cut(s, sep, escaping) == Parts(s, {i \in DOMAIN s : s[i] = sep /\ i - 1 \notin escaping})

SplitUnescaped(s, sep) == Cut(s, sep, Escaping(s))

\* Mutant: the backslashes stay in the value.
StillEscaped(s) == s

UnescapeDN(s) == Picked(s, DOMAIN s \ Escaping(s))

\* strings.Split
Split(s, sep) == Cut(s, sep, {})

\* The slash form has no comma.
IsOneLine(text) == text # <<>> /\ Head(text) = "/" /\ "," \notin Range(text)
Body(text) == IF IsOneLine(text) THEN Tail(text) ELSE text
Separator(text) == IF IsOneLine(text) THEN "/" ELSE ","

\* What has no type in front of an equals sign is skipped.
Fields(pairs) ==
    LET Equals(p) == {i \in DOMAIN p : p[i] = "="}
        trimmed == [k \in DOMAIN pairs |-> TrimSpace(pairs[k])]
        typed == Picked(trimmed, {k \in DOMAIN pairs : Equals(trimmed[k]) # {} /\ Min(Equals(trimmed[k])) > 1})
    IN  [k \in DOMAIN typed |->
            LET at == Min(Equals(typed[k]))
            IN  [type |-> TrimSpace(SubSeq(typed[k], 1, at - 1)),
                 value |-> TrimSpace(SubSeq(typed[k], at + 1, Len(typed[k])))]]

ParseDN(dn) ==
    LET text == TrimSpace(dn)
        fields == Fields(SplitUnescaped(Body(text), Separator(text)))
    IN  [k \in DOMAIN fields |-> [fields[k] EXCEPT !.value = UnescapeDN(@)]]

FirstOf(fields, key) ==
    LET at == {i \in DOMAIN fields : fields[i].type = <<key>>}
    IN  IF at = {} THEN <<>> ELSE fields[Min(at)].value

HasValue(fields, key, want) == \E i \in DOMAIN fields : fields[i].type = <<key>> /\ fields[i].value = want

Refused == [ok |-> FALSE]
Identity(fields) ==
    [ok |-> TRUE, cn |-> FirstOf(fields, "CN"), o |-> FirstOf(fields, "O"), ou |-> FirstOf(fields, "OU")]

---------------------------------------------------------------------------
(* The routes, for a certificate that the proxy has verified *)

\* scanlaunch: the one organization and unit that may launch scans.
AuthorizeRequester(dn, allowedO, allowedOU) ==
    LET f == ParseDN(dn)
    IN  IF HasValue(f, "O", allowedO) /\ HasValue(f, "OU", allowedOU) THEN Identity(f) ELSE Refused

PolicyScannerSensor == <<"scanner-sensor">>
PolicyAgentEndpoint == <<"agent-endpoint">>

\* sensorreport: a sensor of any tenant.
AuthorizeReporter(dn) ==
    LET f == ParseDN(dn)
    IN  IF HasValue(f, "OU", PolicyScannerSensor) /\ FirstOf(f, "O") # <<>> THEN Identity(f) ELSE Refused

\* sensorjobs: a sensor of a tenant that is known.
AuthorizeSensor(dn, known) ==
    LET f == ParseDN(dn)
    IN  IF HasValue(f, "OU", PolicyScannerSensor) /\ FirstOf(f, "O") \in known \ {<<>>} THEN Identity(f) ELSE Refused

\* remediation: an endpoint of a tenant that is known.
AuthorizeEndpoint(dn, known) ==
    LET f == ParseDN(dn)
    IN  IF /\ HasValue(f, "OU", PolicyAgentEndpoint)
           /\ FirstOf(f, "O") \in known \ {<<>>} /\ FirstOf(f, "CN") # <<>>
        THEN Identity(f) ELSE Refused

\* enroll: the names that a certificate is signed for.
Controls(coded, hex) == {c \in coded : hex[c][1] \in {"0", "1"} \/ hex[c] = <<"7", "F">>}
ValidAgentID(id, controls) ==
    id # <<>> /\ Range(id) \cap ({",", "=", "+", "\"", "\\", ";", "<", ">"} \cup controls) = {}

\* enroll: the name that a renewal is bound to; no escapes here.
RenewCaller(dn) ==
    LET text == TrimSpace(dn)
        f == Fields(Split(Body(text), Separator(text)))
    IN  IF FirstOf(f, "CN") = <<>> \/ FirstOf(f, "O") = <<>> THEN Refused ELSE Identity(f)

\* commands: the first part that begins with CN=, between commas, or else between slashes.
TrimmedParts(s, sep) ==
    LET parts == Split(s, sep) IN [k \in DOMAIN parts |-> TrimSpace(parts[k])]

FirstCN(parts) ==
    LET named == {k \in DOMAIN parts : Len(parts[k]) > 1 /\ parts[k][1] = "CN" /\ parts[k][2] = "="}
        first == parts[Min(named)]
    IN  IF named = {} THEN <<>> ELSE TrimSpace(SubSeq(first, 3, Len(first)))

AgentCN(dn) == FirstCN(TrimmedParts(dn, ",") \o TrimmedParts(dn, "/"))
============================================================================
