---------------------------- MODULE ScopeChecks ----------------------------
(***************************************************************************)
(* What the four gates should say, told by numbers: an address is a number *)
(* below 2^Width, a block an interval, and what is spelled as v4 in v6 is  *)
(* the number of v4 at the same place of that block.                       *)
(***************************************************************************)
EXTENDS Scopes

Family == {"v4", "v6"}
IPs(f) == {[form |-> "ip", fam |-> f, num |-> k, ones |-> Width[f]] : k \in 0..(2^Width[f] - 1)}
CIDRs(f) == {[form |-> "cidr", fam |-> f, num |-> k, ones |-> o] : k \in 0..(2^Width[f] - 1), o \in 0..Width[f]}
Hostname == [form |-> "other"]
Literals == UNION {IPs(f) \cup CIDRs(f) : f \in Family}
Targets == Literals \cup {Hostname}

\* A number and its mask as an interval; a bare address is one number.
Interval(l) == LET size == 2^(Width[l.fam] - l.ones) IN ((l.num \div size) * size)..((l.num \div size) * size + size - 1)

Mapped(l) == l.fam = "v6" /\ l.ones >= V4InV6.ones /\ l.num \in Interval(V4InV6)

Means(l) ==
    IF Mapped(l) THEN [l EXCEPT !.fam = "v4", !.num = l.num % 2^Width["v4"], !.ones = l.ones - V4InV6.ones]
    ELSE l

\* What a token of a scope lets in: its own numbers. The exception is a bare address that is spelled as
\* v4 in v6, for which the block of v6 is let in that its first Width["v4"] bits name.
Grants(l) ==
    IF l.form = "ip" /\ Mapped(l) THEN [l EXCEPT !.form = "cidr", !.ones = Width["v4"]] ELSE Means(l)

NumbersOf(literals, f) == {l.num : l \in {k \in literals : k.fam = f}}
Reached(ranges, f) == UNION {Interval(r) : r \in {q \in ranges : q.fam = f}}

\* Numbers that no scan may reach: as single addresses, and within a block.
NoTarget(f) == Reached(Ranges.unspecified \cup Ranges.loopback \cup Ranges.linkLocal \cup Ranges.multicast, f)
NoSweep(f) == NoTarget(f) \cup Reached(Ranges.thisNetwork, f)

\* Numbers that only the scanner's own gate denies: of v6 also those that hold a number of v4.
NoLaunch(f) ==
    NoTarget(f) \cup Reached(Ranges.thisNetwork \cup Ranges.reserved, f)
    \cup NumbersOf(Ranges.metadata, f) \cup NumbersOf(Siblings, f)
    \cup (IF f = "v6" THEN 0..(2^Width["v4"] - 1) ELSE {})

Tenant(spec) == [enabled |-> TRUE, gmpUser |-> TRUE, secret |-> TRUE, scope |-> spec]

Within(t, g) == t.fam = g.fam /\ Interval(t) \subseteq Interval(g)

\* A spec with a token that is no literal means nothing. A block lies in one of its own spelling only.
Inside(spec, t) ==
    /\ t # Hostname /\ \A k \in DOMAIN spec : spec[k] # Hostname
    /\ \E k \in DOMAIN spec : Within(Means(t), Grants(spec[k])) /\ (t.form = "cidr" => t.fam = spec[k].fam)

\* A job is dispatched with exactly the targets that lie within one block of the tenant's scope, and
\* with none for a tenant that is disabled.
GateIsExact(spec, targets) ==
    \A t \in targets :
        /\ Gate(Tenant(spec), <<t>>) = IF Inside(spec, t) THEN <<t>> ELSE <<>>
        /\ Gate([Tenant(spec) EXCEPT !.enabled = FALSE], <<t>>) = <<>>

\* A sensor with the same scope launches what was dispatched to it, but for what reaches an address
\* that is never scanned, or is one of its own: a single address of 0/8 is refused inside of a block only.
Launched(spec, deny, t) ==
    /\ Inside(spec, t)
    /\ LET m == Means(t)
       IN  \/ /\ t.form = "ip" /\ m.num \notin NoTarget(m.fam)
              /\ \A i \in DOMAIN deny : deny[i].form = "ip" =>
                     <<Means(deny[i]).fam, Means(deny[i]).num>> # <<m.fam, m.num>>
           \/ t.form = "cidr" /\ Interval(m) \cap NoSweep(m.fam) = {}

SensorIsExact(spec, deny, targets) ==
    \A t \in targets :
        Filter(spec, deny, Gate(Tenant(spec), <<t>>)) = IF Launched(spec, deny, t) THEN <<Canonical(t)>> ELSE <<>>

\* What is launched for a target has exactly the target's numbers, however they were spelled.
SweepsTheSame(targets) ==
    \A t \in targets \ {Hostname} : \A f \in Family : \A h \in IPs(f) :
        NetContains(Canonical(t), ParseIP(h)) <=> Within(Means(h), Means(t))

\* Every host of a target that was launched is imported when it is reported, and no host outside.
NothingIsLost(spec, deny, targets) ==
    LET told == Imported(Tenant(spec), targets)
    IN  /\ told = {h \in targets : h.form = "ip" /\ Inside(spec, h)}
        /\ \A t \in targets : CheckHost(spec, deny, t) =>
               {h \in targets : h.form = "ip" /\ Within(Means(h), Means(t))} \subseteq told

\* The scanner's own gate, which takes single addresses only.
AllowlistIsExact(spec, targets) ==
    \A t \in targets :
        Allows(spec, t) <=> t.form = "ip" /\ Inside(spec, t) /\ Means(t).num \notin NoLaunch(Means(t).fam)

ScopeIsExact(spec, deny, targets) ==
    /\ GateIsExact(spec, targets) /\ SensorIsExact(spec, deny, targets)
    /\ NothingIsLost(spec, deny, targets) /\ AllowlistIsExact(spec, targets)

---------------------------------------------------------------------------
(* The inputs: literals of both families, in specs of up to two tokens *)

SmallWidth == [v4 |-> 3, v6 |-> 7]

\* 0/8, of which one address is unspecified, 127/8, 169.254/16, 224/4 and 240/4 take one or two
\* addresses each of the eight; of v6 ::, ::1, fe80::/10, ff00::/8, the compatible ones and those in
\* which v4 is spelled.
CIDR(f, num, ones) == [form |-> "cidr", fam |-> f, num |-> num, ones |-> ones]
Single(f, num) == [form |-> "ip", fam |-> f, num |-> num, ones |-> SmallWidth[f]]

SmallV4InV6 == CIDR("v6", 8, 4)

SmallRanges ==
    [unspecified |-> {CIDR("v4", 0, 3), CIDR("v6", 0, 7)}, thisNetwork |-> {CIDR("v4", 0, 2)},
     loopback |-> {CIDR("v4", 3, 3), CIDR("v6", 1, 7)}, linkLocal |-> {CIDR("v4", 5, 3), CIDR("v6", 96, 3)},
     multicast |-> {CIDR("v4", 6, 3), CIDR("v6", 112, 3)}, reserved |-> {CIDR("v4", 7, 3)},
     metadata |-> {Single("v4", 5), Single("v6", 88)}]

SmallSiblings == {Single("v4", 4)}

\* All of v4 and of its spelling in v6, and of the rest of v6 an address of each kind.
Numbers == [v4 |-> 0..7, v6 |-> (8..15) \cup {0, 1, 5, 16, 88, 96, 115}]
Spelled(f) == {l \in IPs(f) \cup CIDRs(f) : l.num \in Numbers[f]}

\* The literals that a spec is made of: every block by its first address, bare addresses of v6, and what
\* is no literal.
Words(f) ==
    {l \in Spelled(f) : l.form = "cidr" /\ l.num % 2^(Width[f] - l.ones) = 0}
    \cup {l \in Spelled(f) : l.form = "ip" /\ (f = "v4" => l.num = 2)} \cup {Hostname}
Specs ==
    {<<>>} \cup {<<l>> : l \in Words("v4") \cup Words("v6")}
    \cup {<<l, m>> : l, m \in Words("v4")}
    \cup {<<l, m>> : l \in {t \in Words("v4") : t # Hostname /\ t.ones = 1}, m \in Words("v6")}

\* Two addresses of a sensor, one spelled as v4 in v6, among what is no address.
Denies == {<<l, Hostname, m>> : l \in {k \in IPs("v4") : k.num = 2}, m \in {k \in IPs("v6") : k.num = 9}}

Chosen == Spelled("v4") \cup Spelled("v6") \cup {Hostname}
ScopesAreExact == SweepsTheSame(Chosen) /\ \A spec \in Specs, deny \in Denies : ScopeIsExact(spec, deny, Chosen)
============================================================================
