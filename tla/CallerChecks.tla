---------------------------- MODULE CallerChecks ----------------------------
(***************************************************************************)
(* What a caller should be taken for: the subject of its certificate, as   *)
(* the proxy writes it in either of its two forms.                         *)
(***************************************************************************)
EXTENDS CallerNames

CONSTANTS Coded, \* control and non-ASCII bytes
          Hex    \* the digits that each is written with

Digits == {"0", "1", "2", "3", "4", "5", "6", "7", "8", "9", "A", "B", "C", "D", "E", "F"}

ASSUME CodedAssumption ==
    /\ Hex \in [Coded -> Digits \X Digits]
    /\ Coded \cap {" ", "CN", "OU", "O", "scanner-sensor", "agent-endpoint"} = {}

\* RFC 2253: what a backslash stands in front of, wherever it is in a value.
Quoted == {",", "+", "\"", "\\", "<", ">", ";"}
Marked == Quoted \cup {"/", "#"} \cup Coded
Specials == Marked \cup {"="}

\* Words, and values of up to two characters of any kind, with one that looks like an attribute.
Plain == {<<"x">>, <<"y">>}
Odd ==
    {<<z>> : z \in Specials} \cup {<<z, w>> : z, w \in Specials \cup {"x"}}
    \cup {<<"x", ",", "OU", "=", "scanner-sensor">>}
Units == {PolicyScannerSensor, PolicyAgentEndpoint, <<"agent">>}

\* Subjects: a name, an organization and one or two units, of which one value may be odd.
Subject(cn, o, ou) == << <<"CN", cn>>, <<"OU", ou>>, <<"O", o>> >>
Subjects ==
    {Subject(cn, o, ou) : cn \in Plain \cup Odd, o \in Plain, ou \in Units}
    \cup {Subject(<<"x">>, o, ou) : o \in Odd, ou \in Units}
    \cup {Subject(<<"x">>, <<"y">>, ou) : ou \in Odd}
    \cup {Append(Subject(<<"x">>, <<"y">>, ou), <<"OU", v>>) : ou \in Units, v \in Odd \cup Units}

\* A number sign or a blank has one only where a reader could miss it.
Quotes(value, k) ==
    \/ value[k] \in Quoted
    \/ k = 1 /\ value[k] \in {"#", " "}
    \/ k = Len(value) /\ value[k] = " "

\* The signs a value is written with, each behind a backslash or not: a coded byte is two.
Signs(value) ==
    FlattenSeq([k \in DOMAIN value |->
        IF value[k] \in Coded THEN << <<"\\", Hex[value[k]][1]>>, <<Hex[value[k]][2]>> >>
        ELSE IF Quotes(value, k) THEN << <<"\\", value[k]>> >>
        ELSE << <<value[k]>> >>])

Escaped(value) == FlattenSeq(Signs(value))

\* What is left without the backslashes: unescapeDN does not turn the digits of a byte back into it.
Bare(value) == [j \in DOMAIN Signs(value) |-> Last(Signs(value)[j])]

RFC2253(subject) ==
    Tail(FlattenSeq([k \in DOMAIN subject |-> <<",", subject[k][1], "=">> \o Escaped(subject[k][2])]))

\* The older form has no escapes, and is only read back without special characters.
Oneline(subject) == FlattenSeq([k \in DOMAIN subject |-> <<"/", subject[k][1], "=">> \o subject[k][2]])
IsPlain(subject) == \A k \in DOMAIN subject : Range(subject[k][2]) \cap Marked = {}

Texts(subject) == {RFC2253(subject)} \cup (IF IsPlain(subject) THEN {Oneline(subject)} ELSE {})

Attributes(subject, type) == {subject[k][2] : k \in {i \in DOMAIN subject : subject[i][1] = type}}

Means(subject) == [ok |-> TRUE, cn |-> subject[1][2], o |-> subject[3][2], ou |-> subject[2][2]]

Expected(subject, allowed) == IF allowed THEN Means(subject) ELSE Refused

\* A subject as its values are read: itself, if it has no coded byte.
Read(subject) == [k \in DOMAIN subject |-> <<subject[k][1], Bare(subject[k][2])>>]
IsLegible(subject) == \A k \in DOMAIN subject : Range(subject[k][2]) \cap Coded = {}

Known == {<<"y">>, <<"x", ",", "OU", "=", "scanner-sensor">>}

\* Every route takes a caller for what its certificate says, except that the digits of a coded byte are
\* read for the byte, and lets in exactly the callers it is for: no value of an attribute is read as another
\* attribute, and none with a coded byte as the name of a policy. The two simpler readers agree with the
\* others on every name without special characters.
CallerIsExact(subject, known, allowedO, allowedOU) ==
    /\ IsLegible(subject) => Read(subject) = subject
    /\ \A dn \in Texts(subject) :
        LET read == Read(subject)
            units == Attributes(subject, "OU")
            tenant == read[3][2]
            sensor == PolicyScannerSensor \in units
            endpoint == PolicyAgentEndpoint \in units
            requester == allowedO \in Attributes(read, "O") /\ allowedOU \in Attributes(read, "OU")
        IN  /\ AuthorizeReporter(dn) = Expected(read, sensor)
            /\ AuthorizeSensor(dn, known) = Expected(read, sensor /\ tenant \in known)
            /\ AuthorizeEndpoint(dn, known) = Expected(read, endpoint /\ tenant \in known)
            /\ AuthorizeRequester(dn, allowedO, allowedOU) = Expected(read, requester)
            /\ IsPlain(subject) => RenewCaller(dn) = Means(subject) /\ AgentCN(dn) = subject[1][2]

CallersAreExact == \A subject \in Subjects : CallerIsExact(subject, Known, <<"y">>, <<"agent">>)
============================================================================
