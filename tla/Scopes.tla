------------------------------- MODULE Scopes -------------------------------
(***************************************************************************)
(* Which addresses may be scanned and reported: the tenant's scope at the  *)
(* cloud's dispatch (control-plane/tenants, sensorjobs/scope.go), the      *)
(* scope that is baked into a sensor (sensor/internal/scope), the scope    *)
(* that a report is held against (ingest/sensorreport), and the allowlist  *)
(* of the scanner's own launches (ingest/scanlaunch/allowlist.go).         *)
(*                                                                         *)
(* A literal is an address, a block with its mask, or neither, spelled in  *)
(* one of two families.  Parsing gives a block: a family and the bits of   *)
(* its prefix; an address is a block with all its bits.  What is spelled   *)
(* as v4 in v6 (::ffff:a.b.c.d) is taken for v4, its mask excepted.        *)
(***************************************************************************)
EXTENDS Positions, SequencesExt

CONSTANTS
    Width,          \* the bits of an address of each family
    V4InV6,         \* ::ffff:0:0/96, the block of v6 in which v4 is spelled, as a literal
    Ranges,         \* the special blocks, by the names that the code has for them, as literals
    Siblings        \* selfAndSiblingIPs

SpecialRanges ==
    Ranges.unspecified \cup Ranges.thisNetwork \cup Ranges.loopback \cup Ranges.linkLocal
    \cup Ranges.multicast \cup Ranges.reserved \cup Ranges.metadata

---------------------------------------------------------------------------
(* net.ParseIP, net.ParseCIDR and IPNet.Contains *)

BitsOf(literal) == [i \in 1..Width[literal.fam] |-> (literal.num \div 2^(Width[literal.fam] - i)) % 2]

v4InV6Prefix == SubSeq(BitsOf(V4InV6), 1, V4InV6.ones)

To4(fam, bits) ==
    IF fam = "v6" /\ IsPrefix(v4InV6Prefix, bits)
    THEN [fam |-> "v4", bits |-> SubSeq(bits, V4InV6.ones + 1, Len(bits))]
    ELSE [fam |-> fam, bits |-> bits]

ParseIP(literal) == To4(literal.fam, BitsOf(literal))

\* The bits behind the mask are dropped.
ParseCIDR(literal) == To4(literal.fam, SubSeq(BitsOf(literal), 1, literal.ones))

NetContains(net, ip) == net.fam = ip.fam /\ IsPrefix(net.bits, ip.bits)

NetworkAddress(net) ==
    [net EXCEPT !.bits = [i \in 1..Width[net.fam] |-> IF i \in DOMAIN net.bits THEN net.bits[i] ELSE 0]]

Covers(net, target) == Len(net.bits) <= Len(target.bits) /\ NetContains(net, NetworkAddress(target))

\* No special range is spelled as v4 in v6; a mask of v4 is shorter than the prefix of that spelling.
ASSUME ScopeAssumption ==
    /\ Width \in [{"v4", "v6"} -> Nat \ {0}] /\ Width["v4"] + Width["v4"] < Width["v6"]
    /\ \A l \in SpecialRanges \cup Siblings \cup {V4InV6} :
          /\ l \in [form : {"ip", "cidr"}, fam : DOMAIN Width, num : Nat, ones : Nat]
          /\ l.num < 2^Width[l.fam] /\ l.ones <= Width[l.fam]
    /\ V4InV6.fam = "v6" /\ V4InV6.ones = Width["v6"] - Width["v4"]
    /\ \A l \in SpecialRanges \cup Siblings : ~(l.fam = "v6" /\ IsPrefix(v4InV6Prefix, BitsOf(l)))

---------------------------------------------------------------------------
(* The tenant's scope at the cloud *)

\* A bare address gets the mask of its family. One that is spelled as v4 in v6 gets that of v4, "/32",
\* which is then read as one of v6: the block of its first bits.
Masked(literal) ==
    IF literal.form = "ip" THEN [literal EXCEPT !.form = "cidr", !.ones = Width[ParseIP(literal).fam]]
    ELSE literal

\* A block and the family whose mask it has (Mask.Size). Every caller takes a spec that does not parse
\* for deny-all: the dispatch ignores the error and the nil scope, the report's resolver refuses, a
\* sensor ends.
NewScope(spec) ==
    IF \E i \in DOMAIN spec : spec[i].form = "other" THEN {}
    ELSE {[net |-> ParseCIDR(Masked(spec[i])), mask |-> spec[i].fam] : i \in DOMAIN spec}

\* Registry.ScopeSpec: deny-all for a tenant that is disabled.
ScopeSpec(tenant) == IF tenant.enabled THEN tenant.scope ELSE <<>>

\* Scope.Contains
InScope(scope, target) ==
    \/ target.form = "ip" /\ \E n \in scope : NetContains(n.net, ParseIP(target))
    \/ target.form = "cidr" /\ \E n \in scope : n.mask = target.fam /\ Covers(n.net, ParseCIDR(target))

\* What Registry.Enqueue keeps of a request.
Gate(tenant, targets) ==
    Picked(targets, {i \in DOMAIN targets : InScope(NewScope(ScopeSpec(tenant)), targets[i])})

---------------------------------------------------------------------------
(* The sensor's own scope *)

NetsOf(ranges) == {ParseCIDR(r) : r \in ranges}

Degenerate(ip) ==
    \E n \in NetsOf(Ranges.unspecified \cup Ranges.loopback \cup Ranges.linkLocal \cup Ranges.multicast) :
        NetContains(n, ip)

DegenerateNets ==
    NetsOf(Ranges.loopback \cup Ranges.linkLocal \cup Ranges.multicast \cup Ranges.thisNetwork \cup Ranges.unspecified)

\* Mutant: only a target inside of a degenerate range overlaps it.
DegenerateInside(target) == \E d \in DegenerateNets : NetContains(d, NetworkAddress(target))

\* Of two blocks that overlap one has the other's first address.
DegenerateOverlap(target) ==
    \E d \in DegenerateNets : NetContains(d, NetworkAddress(target)) \/ NetContains(target, NetworkAddress(d))

\* The addresses of SCAN_SELF_DENY_IPS: a token that is no address is skipped.
DenyIPs(spec) == {ParseIP(spec[i]) : i \in {j \in DOMAIN spec : spec[j].form = "ip"}}

\* Only a single address is held against the self-deny list.
CheckHost(allow, deny, target) ==
    \/ /\ target.form = "ip"
       /\ ~Degenerate(ParseIP(target)) /\ ParseIP(target) \notin DenyIPs(deny)
       /\ InScope(NewScope(allow), target)
    \/ /\ target.form = "cidr"
       /\ ~DegenerateOverlap(ParseCIDR(target))
       /\ InScope(NewScope(allow), target)

\* IP.String, IPNet.String
Canonical(target) == IF target.form = "ip" THEN ParseIP(target) ELSE ParseCIDR(target)

\* What Runner.Run launches of a job, in its canonical form, and drops the rest.
Filter(allow, deny, targets) ==
    LET kept == Picked(targets, {i \in DOMAIN targets : CheckHost(allow, deny, targets[i])})
    IN  [i \in DOMAIN kept |-> Canonical(kept[i])]

---------------------------------------------------------------------------
(* The report's scope *)

\* FileResolver.Resolve: no configuration without a scope, a user and its password.
Resolves(tenant) == tenant.enabled /\ tenant.gmpUser /\ tenant.secret /\ NewScope(tenant.scope) # {}

ContainsIP(scope, host) == host.form = "ip" /\ \E n \in scope : NetContains(n.net, ParseIP(host))

\* What is imported of a report; nothing is when the tenant does not resolve.
Imported(tenant, hosts) ==
    IF Resolves(tenant) THEN {h \in hosts : ContainsIP(NewScope(tenant.scope), h)} ELSE {}

---------------------------------------------------------------------------
(* The scanner's allowlist *)

IsMetadata(ip) == ip \in {ParseIP(l) : l \in Ranges.metadata}

\* The zeros in front of the last four bytes, in the v6 form.
IsIPv4CompatibleV6(ip) == ip.fam = "v6" /\ \A i \in 1..(Width["v6"] - Width["v4"]) : ip.bits[i] = 0

ReservedV4Nets == NetsOf(Ranges.thisNetwork \cup Ranges.reserved)

DenyReason(ip) ==
    \/ Degenerate(ip)
    \/ IsMetadata(ip)
    \/ IsIPv4CompatibleV6(ip)
    \/ \E r \in ReservedV4Nets : NetContains(r, ip)

\* Allowlist.CheckHost
Allows(spec, host) ==
    /\ host.form = "ip"
    /\ ~DenyReason(ParseIP(host))
    /\ ParseIP(host) \notin {ParseIP(s) : s \in Siblings}
    /\ \E n \in NewScope(spec) : NetContains(n.net, ParseIP(host))
============================================================================
