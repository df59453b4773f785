------------------------- MODULE CorrelationChecks -------------------------
(***************************************************************************)
(* What the correlation engine should answer, said of advisories as their  *)
(* authors mean them, over bounded inputs: feeds of up to two advisories   *)
(* in either order, hosts with up to two packages, and CSAF documents with *)
(* up to two products and two vulnerabilities.                             *)
(***************************************************************************)
EXTENDS Correlation

V(upstream, revision) == << <<upstream>>, <<revision>> >>
InOrder == << V("rc", "1"), V("1", "1"), V("1", "2"), V("2", "1") >>

Bash == << <<"bash">> >>
Gcc12 == << <<"gcc">>, <<"12">> >>

Debian(release) == [name |-> "debian", fields |-> << <<>>, <<release>> >>]
RedHat9 == [name |-> "red hat enterprise linux", fields |-> << <<>>, <<>>, <<>>, <<>>, <<9>> >>]
SuseManager == [name |-> "suse manager", fields |-> << <<>>, <<>>, <<4, 3>> >>]

Kali2026 == <<2026, 1>>

OS(distro, release) == [family |-> "linux", distro |-> distro, release |-> release, patch |-> <<>>]
Hosts ==
    {OS("debian", <<12>>), OS("debian", <<13>>), OS("kali", Kali2026), OS("rhel", <<9, 4>>), OS("rhel", <<>>),
     OS("suse manager", <<4, 3>>), OS("nixos", <<12>>)}

\* Which product is meant for which host.
MeantFor ==
    {<<Debian(12), OS("debian", <<12>>)>>, <<Debian(13), OS("debian", <<13>>)>>,
     <<Debian(13), OS("kali", Kali2026)>>, <<RedHat9, OS("rhel", <<9, 4>>)>>}

TypeOf(product) == IF product.name = "debian" THEN "deb" ELSE "rpm"

\* What an advisory's author means: below this version of this package, on this product.
Advisories ==
    {a \in [oid : {"o1", "o2"}, product : {Debian(12), Debian(13), RedHat9, SuseManager}, name : {Bash, Gcc12},
            fixed : {V("1", "2"), V("2", "1")}, form : {"full", "pair"}] :
        a.form = "pair" => TypeOf(a.product) = "deb"}

\* How it is written down; the full name of an rpm ends in its architecture.
Written(a) ==
    LET full == IF TypeOf(a.product) = "deb" THEN a.name \o a.fixed
                ELSE a.name \o <<a.fixed[1], a.fixed[2] \o <<"x86_64">> >>
    IN  [type |-> TypeOf(a.product), product |-> a.product,
         advisories |->
            << [oid |-> a.oid,
                fixed |-> << [specifier |-> ">=", full |-> IF a.form = "full" THEN full ELSE <<>>,
                              name |-> IF a.form = "pair" THEN a.name ELSE <<>>,
                              version |-> IF a.form = "pair" THEN a.fixed ELSE <<>>] >>] >>]

Feeds ==
    {<<a>> : a \in Advisories}
    \cup {<<a, b>> : a, b \in {c \in Advisories : c.name = Bash /\ c.form = "full"}}

Index(feed) == NewNotusCorrelator([i \in DOMAIN feed |-> Written(feed[i])])

Pkg(name, version, source, arch) == [name |-> name, version |-> version, source |-> source, arch |-> arch]
Packages ==
    {Pkg(Bash, V("1", "1"), source, arch) : source \in {"dpkg", "rpm"}, arch \in {"x86_64", "i686"}}
    \cup {Pkg(Bash, V("2", "1"), "dpkg", "x86_64"), Pkg(Gcc12, V("1", "2"), "dpkg", "x86_64"),
          Pkg(Gcc12, V("1", "1"), "rpm", "x86_64"), Pkg(Bash, V("rc", "1"), "dpkg", "x86_64")}

Installed == {<<p>> : p \in Packages} \cup {<<p, q>> : p, q \in {r \in Packages : r.version = V("1", "1")}}

Concerns(a, p, os) ==
    /\ <<a.product, os>> \in MeantFor
    /\ p.name = a.name /\ <<p.source, TypeOf(a.product)>> \in {<<"dpkg", "deb">>, <<"rpm", "rpm">>}
    /\ p.version # V("rc", "1")
    /\ <<p.version, a.fixed>> \in {<<V("1", "1"), V("1", "2")>>, <<V("1", "1"), V("2", "1")>>, <<V("1", "2"), V("2", "1")>>}

\* Every host is told exactly the advisories that are meant for it and concern a package that it has,
\* once for each package, in whatever form and order the feed holds them: nothing of another release or
\* family, nothing of a product that nobody knows, both packages of a name that differ in architecture.
NotusIsExact ==
    \A feed \in Feeds, os \in Hosts :
        LET index == Index(feed)
        IN  \A packages \in Installed :
                LET report == Dispatch(index, <<>>, [os |-> os, packages |-> packages]).notus
                    Key(f) == <<f.oid, f.observed>>
                    Told(j) == {i \in DOMAIN feed : Concerns(feed[i], packages[j], os)}
                    expected == UNION {{<<feed[i].oid, Observed(packages[j])>> : i \in Told(j)} : j \in DOMAIN packages}
                IN  /\ {Key(report[i]) : i \in DOMAIN report} = expected
                    /\ Len(report) = Cardinality(expected)

---------------------------------------------------------------------------
(* Windows: products of CSAF documents, by their range, their fix and what else a document may hold *)

Range10(id, build, ubr) == [category |-> "product_version_range", id |-> id, version |-> <<10, 0, build, ubr>>]
Fix10(id, build, ubr) == [category |-> "product_version", id |-> id, version |-> <<10, 0, build, ubr>>]
Product(children) == [category |-> "product_name", branches |-> children]
Group(branches) == [category |-> "product_family", branches |-> branches]

\* A product is affected below below on build, or holds no range that can be read.
Products ==
    {[node |-> Product(<<Range10("r1", 5, 2), Fix10("f1", 5, 2)>>), id |-> "r1", build |-> 5, below |-> 2],
     [node |-> Product(<<Fix10("f2", 5, 1), Range10("r2", 5, 1)>>), id |-> "r2", build |-> 5, below |-> 1],
     [node |-> Product(<<Range10("r3", 6, 3)>>), id |-> "r3", build |-> 6, below |-> 3],
     [node |-> Product(<<Fix10("r4", 5, 3)>>), id |-> "r4", build |-> 5, below |-> 0],
     [node |-> Product(<<[Range10("r5", 5, 3) EXCEPT !.version = <<>>], Fix10("f5", 5, 3)>>),
      id |-> "r5", build |-> 5, below |-> 0]}

Vuln(cve, affected) ==
    [cve |-> cve, affected |-> affected, scores |-> {5, 7},
     fixes |-> << [products |-> {"f1"}, kb |-> "KB1"], [products |-> {"f2"}, kb |-> "KB2"] >>]

Document(p, q, first, second) ==
    [parses |-> TRUE, id |-> "cve1", tree |-> <<Group(<<Group(<<p.node>>), q.node>>)>>,
     vulns |-> <<Vuln("", first), Vuln("cve2", second)>>]
Broken == [parses |-> FALSE]

Windows(build, ubr) ==
    [os |-> [family |-> "windows", distro |-> "", release |-> <<>>, patch |-> <<build, ubr>>],
     packages |-> <<>>, cisState |-> <<>>]

\* A CVE is reported of a Windows host exactly when a product that it affects has a range for the host's
\* own build that ends above the host's revision, whatever order the ranges are walked in, at whatever
\* depth they are, and though another document does not parse; it is reported once, and what the report
\* calls fixed is above what the host has, with the KB of that fix.
MSRCIsExact ==
    \A p, q \in Products : \A first, second \in SUBSET {p.id, q.id} :
        \A index \in NewMSRCCorrelator(<<Broken, Document(p, q, first, second)>>) :
            \A build \in {5, 6}, ubr \in 0..3 :
                LET report == Dispatch(<<>>, index, Windows(build, ubr)).msrc
                    Open(affected) ==
                        {r \in {p, q} : r.id \in affected /\ r.build = build /\ ubr < r.below}
                    expected == (IF Open(first) # {} THEN {"cve1"} ELSE {}) \cup (IF Open(second) # {} THEN {"cve2"} ELSE {})
                IN  /\ {report[i].oid : i \in DOMAIN report} = expected
                    /\ Len(report) = Cardinality(expected)
                    /\ \A i \in DOMAIN report :
                        \E r \in Open(IF report[i].oid = "cve1" THEN first ELSE second) :
                            /\ report[i].fixed = <<10, 0, build, r.below>>
                            /\ report[i].kb = (IF r.id = "r2" THEN "KB2" ELSE "KB1")

Reading(key, number, words) == [key |-> key, value |-> [number |-> number, words |-> words]]
Bad ==
    {Reading("PasswordHistorySize", 23, {}), Reading("LockoutBadCount", 0, {}), Reading("LockoutBadCount", 6, {}),
     Reading("LockoutBadCount", 0, {"never"}), Reading("Logon", 0, {"success"}), Reading("Logon", 0, {})}
Good ==
    {Reading("PasswordHistorySize", 24, {}), Reading("LockoutBadCount", 5, {}),
     Reading("Logon", 0, {"success", "failure"}), Reading("Spooler", 4, {})}

\* A setting is reported exactly when its last reading breaks the rule, and never when it was not read.
HardeningIsExact ==
    \A n \in 0..3 : \A readings \in [1..n -> Bad \cup Good] :
        LET report == Dispatch(<<>>, <<>>, [Windows(5, 1) EXCEPT !.cisState = readings]).hardening
        IN  /\ Len(report) = Cardinality(Range(report))
            /\ Range(report) =
                {readings[i].key : i \in {j \in 1..n : readings[j] \in Bad
                                            /\ \A k \in 1..n : readings[k].key = readings[j].key => k <= j}}

\* The engine's answers are exact for Windows hosts, and it has none for a family without correlator.
WindowsIsExact ==
    /\ MSRCIsExact
    /\ HardeningIsExact
    /\ Dispatch(<<>>, <<>>, [Windows(5, 1) EXCEPT !.os.family = "darwin"]) = NoReport
===========================================================================
