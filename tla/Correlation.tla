---------------------------- MODULE Correlation ----------------------------
(***************************************************************************)
(* The correlation engine (src/correlation): what an inventory and the     *)
(* advisories say of a host.  It keeps no state between two inventories,   *)
(* so it is a set of functions: the scope of an advisory, the Notus index  *)
(* and its matches for packages, the MSRC documents and their matches for  *)
(* a Windows build, and the hardening rules.                               *)
(*                                                                         *)
(* A text is abstracted to what the code looks at.  A dotted number is the *)
(* sequence of its components.  A full package name is the sequence of the *)
(* segments between its hyphens, a segment the sequence of its dot parts.  *)
(* The order of two package versions is that of the libraries go-deb-      *)
(* version and go-rpm-version, which is external: Ascending.               *)
(***************************************************************************)
EXTENDS Positions, SequencesExt

CONSTANTS
    Ascending       \* the versions that the inputs use, oldest first; the first is no valid deb version

---------------------------------------------------------------------------
(* scope.go: which advisory is evaluated against which host *)

\* canonicalDistro: the os-release ids and the beginnings of product names of each family.
Distros ==
    { <<"debian", {"debian", "kali"}>>, <<"ubuntu", {"ubuntu"}>>,
      <<"opensuse-leap", {"opensuse-leap", "opensuse leap"}>>,
      <<"opensuse-tumbleweed", {"opensuse-tumbleweed", "opensuse tumbleweed"}>>,
      <<"sles", {"sles", "sled", "sles_sap", "sle-micro", "sle_hpc", "suse linux enterprise"}>>,
      <<"rhel", {"rhel", "red hat", "red hat enterprise linux"}>>,
      <<"alma", {"almalinux", "alma linux"}>>, <<"oracle", {"ol", "oracle linux"}>>,
      <<"amazon", {"amzn", "amazon linux"}>> }
    \cup { <<d, {d}>> : d \in {"centos", "fedora", "rocky", "mageia", "euleros", "openeuler", "slackware"} }

CanonicalDistro(name) ==
    LET families == {d \in Distros : name \in d[2]}
    IN  IF families = {} THEN "" ELSE (CHOOSE d \in families : TRUE)[1]

\* The fields of a product name: <<>> for a word, else the digits and dots that the field begins with.
ExtractProductRelease(fields) ==
    LET numbers == {i \in DOMAIN fields : fields[i] # <<>>}
    IN  IF numbers = {} THEN <<>> ELSE fields[Min(numbers)]

AdvisoryScope(product) ==
    [distro |-> CanonicalDistro(product.name), release |-> ExtractProductRelease(product.fields)]

KaliDebianRelease == <<13>>

HostScope(os) ==
    [distro |-> CanonicalDistro(os.distro),
     release |-> IF os.distro = "kali" THEN KaliDebianRelease ELSE os.release]

ReleaseComponentsPrefix(adv, release) == adv # <<>> /\ release # <<>> /\ IsPrefix(adv, release)

AppliesTo(scope, target) ==
    /\ scope.distro # "" /\ scope.distro = target.distro
    /\ ReleaseComponentsPrefix(scope.release, target.release)

---------------------------------------------------------------------------
(* version.go *)

Rank(version) == CHOOSE i \in DOMAIN Ascending : Ascending[i] = version

DebLessThan(a, b) == Rank(a) > 1 /\ Rank(b) > 1 /\ Rank(a) < Rank(b)
RpmLessThan(a, b) == Rank(a) < Rank(b)

\* An error of the comparison, like a specifier other than ">=", is no match.
IsVulnerable(type, installed, fixed, specifier) ==
    /\ specifier = ">="
    /\ \/ type = "deb" /\ DebLessThan(installed, fixed)
       \/ type = "rpm" /\ RpmLessThan(installed, fixed)

---------------------------------------------------------------------------
(* notus.go: full names *)

NoName == [name |-> <<>>, version |-> <<>>]

\* Some of the words, by what the two regular expressions and knownArches make of them.
Numerals == {"1", "2", "12", "1~rc1"}
TildeWords == {"1~rc1"}
KnownArches == {"x86_64", "noarch"}

SplitAt(full, k) == [name |-> SubSeq(full, 1, k), version |-> SubSeq(full, k + 1, Len(full))]

SplitRPMFullName(full) ==
    LET last == full[Len(full)]
        hasArch == Len(last) > 1 /\ last[Len(last)] \in KnownArches
        bare == IF hasArch THEN [full EXCEPT ![Len(full)] = Front(last)] ELSE full
    IN  IF Len(bare) < 3 THEN NoName ELSE SplitAt(bare, Len(bare) - 2)

\* debFullNameRe, then debFullNameNoRevRe: the longest name that leaves a version, which begins with a digit.
SplitDebFullName(full) ==
    LET splits ==
            {k \in 1..(Len(full) - 1) :
                /\ Head(full[k + 1]) \in Numerals
                /\ \A i \in 1..k : Range(full[i]) \cap TildeWords = {}}
        revised == splits \ {Len(full) - 1}
    IN  IF revised # {} THEN SplitAt(full, Max(revised))
        ELSE IF splits # {} THEN SplitAt(full, Len(full) - 1) ELSE NoName

\* extractFixedPkg: a deb entry is read from its full name first, and from name and version else.
ExtractFixedPkg(type, fixed) ==
    LET full == IF fixed.full = <<>> THEN NoName
                ELSE IF type = "deb" THEN SplitDebFullName(fixed.full) ELSE SplitRPMFullName(fixed.full)
    IN  IF full # NoName THEN full
        ELSE IF type = "deb" /\ fixed.name # <<>> /\ fixed.version # <<>>
        THEN [name |-> fixed.name, version |-> fixed.version]
        ELSE NoName

---------------------------------------------------------------------------
(* notus.go: the index and its matches *)

Entry(file, adv, fixed) ==
    LET pkg == ExtractFixedPkg(file.type, fixed)
    IN  [oid |-> adv.oid, name |-> pkg.name, fixed |-> pkg.version, specifier |-> fixed.specifier,
         type |-> file.type, scope |-> AdvisoryScope(file.product)]

\* A file that does not parse stops NewNotusCorrelator, and NewPipelineSink with it: files here do parse.
\* An entry without a name is left out.
IndexFile(file) ==
    LET OfAdvisory(adv) == [i \in DOMAIN adv.fixed |-> Entry(file, adv, adv.fixed[i])]
        entries == FlattenSeq([i \in DOMAIN file.advisories |-> OfAdvisory(file.advisories[i])])
    IN  Picked(entries, {i \in DOMAIN entries : entries[i].name # <<>> /\ entries[i].fixed # <<>>})

NewNotusCorrelator(files) == FlattenSeq([i \in DOMAIN files |-> IndexFile(files[i])])

UnclassifiedProducts(files) ==
    {files[i].product : i \in {j \in DOMAIN files : AdvisoryScope(files[j].product).distro = ""}}

SourcePkgTypeMatch(source, type) == <<source, type>> \in {<<"dpkg", "deb">>, <<"rpm", "rpm">>}

Observed(pkg) == <<pkg.name, pkg.version, pkg.arch>>

Matches(m, pkg, target) ==
    /\ m.name = pkg.name
    /\ SourcePkgTypeMatch(pkg.source, m.type)
    /\ AppliesTo(m.scope, target)
    /\ IsVulnerable(m.type, pkg.version, m.fixed, m.specifier)

\* Mutant: the duplicates of an advisory are told by its OID alone.
SameOid(f, g) == f.oid = g.oid

SameFinding(f, g) == f.oid = g.oid /\ f.observed = g.observed

\* The map seen: of the findings that are the same, the first is reported.
Unrepeated(findings) ==
    Picked(findings, {i \in DOMAIN findings : \A j \in 1..(i - 1) : ~SameFinding(findings[j], findings[i])})

NotusCorrelate(index, inv) ==
    LET target == HostScope(inv.os)
        OfPackage(pkg) ==
            LET found == Picked(index, {i \in DOMAIN index : Matches(index[i], pkg, target)})
            IN  [i \in DOMAIN found |-> [oid |-> found[i].oid, observed |-> Observed(pkg), fixed |-> found[i].fixed]]
    IN  Unrepeated(FlattenSeq([i \in DOMAIN inv.packages |-> OfPackage(inv.packages[i])]))

---------------------------------------------------------------------------
(* msrc_csaf.go: the entries of a document *)

VersionLess(a, b) ==
    LET Component(v, i) == IF i \in DOMAIN v THEN v[i] ELSE 0
        differ == {i \in 1..Max({Len(a), Len(b)}) : Component(a, i) # Component(b, i)}
    IN  a # <<>> /\ b # <<>> /\ differ # {} /\ Component(a, Min(differ)) < Component(b, Min(differ))

\* A name that parseVersion does not take is <<>>, and a version without a build has build 0.
BuildComponent(version) == IF Len(version) < 3 THEN 0 ELSE version[3]

\* The last range and the last fix count, among the children that have a product; the build is that of
\* the range, or of a later fix when the range has none.
PairFromProductName(branch) ==
    LET children == branch.branches
        OfKind(kind) == {i \in DOMAIN children : children[i].category = kind /\ children[i].id # ""}
        ranges == OfKind("product_version_range")
        fixes == OfKind("product_version")
        at == Max({0} \cup ranges)
        built == {i \in ranges \cup fixes : i >= at /\ BuildComponent(children[i].version) # 0}
    IN  [rangeID |-> IF ranges = {} THEN "" ELSE children[at].id,
         threshold |-> IF ranges = {} THEN <<>> ELSE children[at].version,
         fixedID |-> IF fixes = {} THEN "" ELSE children[Max(fixes)].id,
         build |-> IF built = {} THEN 0 ELSE BuildComponent(children[Min(built)].version)]

\* The walk goes down every branch but a product_name. The code's goes down to any depth; the model's bound is
\* three levels, one more than the vendor and the family that MSRC's documents have above a product.
CollectProductPairs(tree) ==
    LET Children(b) == IF b.category = "product_name" THEN <<b>> ELSE b.branches
        Down(branches) == FlattenSeq([i \in DOMAIN branches |-> Children(branches[i])])
        products == Down(Down(Down(tree)))
    IN  [i \in DOMAIN products |-> PairFromProductName(products[i])]

\* kbForProduct: the first fix that covers the product, or any fix when the product names none.
KbForProduct(vuln, fixedID) ==
    LET fixes == {i \in DOMAIN vuln.fixes :
                    (fixedID = "" \/ fixedID \in vuln.fixes[i].products) /\ vuln.fixes[i].kb # ""}
    IN  IF fixes = {} THEN "" ELSE vuln.fixes[Min(fixes)].kb

MaxCVSS(vuln) == Max(vuln.scores \cup {0})

\* One sequence of each of the sets, in the order of the sets.
Concatenations(sets) ==
    {FlattenSeq(choice) : choice \in
        {c \in [DOMAIN sets -> UNION Range(sets)] : \A i \in DOMAIN sets : c[i] \in sets[i]}}

\* The later of two pairs with one rangeID stays.  The map of pairs is walked in any order.
WindowsEntries(doc) ==
    LET pairs == CollectProductPairs(doc.tree)
        last == {i \in DOMAIN pairs :
                    pairs[i].rangeID # "" /\ \A j \in DOMAIN pairs : pairs[j].rangeID = pairs[i].rangeID => j <= i}
        Entries(v) ==
            {[build |-> pairs[i].build, threshold |-> pairs[i].threshold,
              cve |-> IF v.cve = "" THEN doc.id ELSE v.cve, kb |-> KbForProduct(v, pairs[i].fixedID),
              severity |-> MaxCVSS(v)] :
             i \in {j \in last : pairs[j].rangeID \in v.affected /\ pairs[j].build # 0 /\ pairs[j].threshold # <<>>}}
    IN  Concatenations([i \in DOMAIN doc.vulns |-> SetToSeqs(Entries(doc.vulns[i]))])

\* Every index that the documents may give; a document that does not parse is left out.
NewMSRCCorrelator(docs) ==
    LET parsed == Picked(docs, {i \in DOMAIN docs : docs[i].parses})
    IN  Concatenations([i \in DOMAIN parsed |-> WindowsEntries(parsed[i])])

---------------------------------------------------------------------------
(* msrc.go and hardening.go: the findings of a Windows host *)

\* patch is the build and its revision, or <<>> when one of them was not collected: no assessment then.
HostVersion(os) == <<10, 0>> \o os.patch

MSRCCorrelate(index, inv) ==
    LET running == HostVersion(inv.os)
        open == Picked(index, {i \in DOMAIN index :
                    index[i].build = running[3] /\ VersionLess(running, index[i].threshold)})
    IN  IF inv.os.patch = <<>> THEN <<>>
        ELSE Unrepeated([i \in DOMAIN open |->
                [oid |-> open[i].cve, observed |-> running, severity |-> open[i].severity,
                 fixed |-> open[i].threshold, kb |-> open[i].kb]])

\* A reading is a number or a list of words; compliance is a range of numbers or some words.
Unlimited == 1000000
AtLeast(n) == [low |-> n, high |-> Unlimited, words |-> {}]
Between(l, h) == [low |-> l, high |-> h, words |-> {}]
Equals(n) == Between(n, n)
HasLabel(label) == [low |-> 0, high |-> 0, words |-> {label}]
AuditSuccessAndFailure == [low |-> 0, high |-> 0, words |-> {"success", "failure"}]

Compliant(check, value) ==
    IF check.words # {} THEN check.words \subseteq value.words
    ELSE value.words = {} /\ value.number \in check.low..check.high

CisL1Rules ==
    << <<"PasswordHistorySize", AtLeast(24)>>, <<"MaximumPasswordAge", Between(1, 365)>>,
       <<"MinimumPasswordAge", AtLeast(1)>>, <<"MinimumPasswordLength", AtLeast(14)>>,
       <<"PasswordComplexity", Equals(1)>>, <<"ClearTextPassword", Equals(0)>>,
       <<"LockoutBadCount", Between(1, 5)>>, <<"SeDenyNetworkLogonRight", HasLabel("Guests")>>,
       <<"UAC.EnableLUA", Equals(1)>>, <<"Lsa.NoLMHash", Equals(1)>>, <<"Lsa.LimitBlankPasswordUse", Equals(1)>>,
       <<"SMB.Server.RequireSecuritySignature", Equals(1)>>, <<"RemoteRegistry", Equals(4)>>,
       <<"Credential Validation", AuditSuccessAndFailure>>, <<"Logon", AuditSuccessAndFailure>> >>

\* The last reading of a setting counts, and a setting that was not read is not judged.
HardeningCorrelate(inv) ==
    LET Measured(key) == {i \in DOMAIN inv.cisState : inv.cisState[i].key = key}
        Fails(rule) == Measured(rule[1]) # {} /\ ~Compliant(rule[2], inv.cisState[Max(Measured(rule[1]))].value)
        failed == Picked(CisL1Rules, {i \in DOMAIN CisL1Rules : Fails(CisL1Rules[i])})
    IN  [i \in DOMAIN failed |-> failed[i][1]]

---------------------------------------------------------------------------
(* dispatch.go and multi.go *)

\* MSRC and hardening in this order; neither returns an error.
MultiCorrelate(index, inv) == [msrc |-> MSRCCorrelate(index, inv), hardening |-> HardeningCorrelate(inv)]

NoReport == [notus |-> <<>>, msrc |-> <<>>, hardening |-> <<>>]

Dispatch(notus, msrc, inv) ==
    IF inv.os.family = "linux" THEN [NoReport EXCEPT !.notus = NotusCorrelate(notus, inv)]
    ELSE IF inv.os.family = "windows"
    THEN LET windows == MultiCorrelate(msrc, inv)
         IN  [NoReport EXCEPT !.msrc = windows.msrc, !.hardening = windows.hardening]
    ELSE NoReport
===========================================================================
