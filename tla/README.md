# Verification of suricatoos-infra

This directory is the formal model of suricatoos-infra: TLA+ modules of the parts whose correctness
depends on the order of steps, on failed writes, on lost messages and on restarts, the TLC
configurations that check them on small instances, and proofs that TLAPS checks for every value of the
constants. Every definition is translated from the source; `PROJECT.json` maps each one to its lines.

    tlc -workers 2 -config RemediationQueue.cfg MCRemediationQueue.tla    # one run
    tlapm RemediationProofs.tla                                           # the proofs of one part

Contents: [inventory](#1-the-system) · [plan](#2-plan) · [modules and code](#3-modules-and-code) ·
[runs](#4-runs) · [fairness](#5-fairness) · [proofs](#6-proofs) · [disagreements](#7-where-the-code-and-its-words-disagree) ·
[not modelled](#8-not-modelled)

## 1. The system

suricatoos-infra runs vulnerability scans around an OpenVAS installation (gvmd). Endpoint *agents* report
inventories; internal *sensors* scan networks the cloud cannot reach; the *control plane* enrolls both,
hands out work and signs what they may trust; the *ingest* receives what they find, launches scans for
reNgine and imports into gvmd through the Python *gmp-bridge*.

| component | state it keeps | operations | interacts with |
|---|---|---|---|
| control-plane/remediation | jobs in memory and in a JSON file | Enqueue, Approve, Reject, Poll, Ack, Report, MarkVerified, Reap, reload | agent/remediate over mTLS HTTP; operators |
| agent/remediate | journal file, the host itself | RunOnce: poll, verify, apply, ack, report | the queue above |
| ingest/scanlaunch | scan registry and file, cached findings, a copy of the CRL | POST/GET/DELETE handlers, one reconciler goroutine | reNgine, gmp-bridge/scan_bridge, gvmd, the control plane's CRL |
| control-plane/tokens, enroll, ca, api | Bolt buckets of tokens and agents, the revocation list and its file | Mint, Consume, AppendEnrollment, Enroll, Renew, DELETE token, IssueCRL | agents, sensors, administrators, the ingest |
| control-plane/sensorjobs | scan jobs in memory and in a file | Enqueue, Poll, Ack, reload | sensor/supervisor |
| sensor/supervisor, scanrun, cloud | none that outlives the process | poll, scan, push the report, ack | sensorjobs, ingest/sensorreport, its own gvmd |
| ingest/sensorreport | none | import a report | gmp-bridge/bridge |
| agent/update, agent/agentd | the binary, its backup, a stage marker, a policy file | BeginBoot, Apply, CommitIfHealthy, rollback | control-plane/update, the service manager |
| agent/transport, agentd's tick | a directory of queued inventories | Enqueue, evict, Flush | ingest/server |
| ingest/server, pipeline_sink | lastSeen and its file, last cycle per agent | inventory handler, beginCycle, endCycle | correlation, gmp-bridge/bridge |
| control-plane/commands, agent/command | one pending command per agent, in memory | Enqueue, Pending, Ack; commandLoop | agents |
| sensor/renew, sensor/enroll, agent/enroll | certificate, key and CA files | first enrollment, renewal | control-plane/enroll |
| sensor/feedsync, control-plane/feed | the mirror, a cached manifest; the feed directory and its version file | manifest, blobs; Sync | each other |
| scopes: control-plane/tenants and sensorjobs/scope, sensor/scope, ingest/sensorreport, scanlaunch/allowlist | none (tenants: a small file) | which addresses a job may name, a sensor may scan, a report may speak of | the dispatch and its reports |
| callers: the subject readers of every mTLS service | none | Parse of a certificate's subject | the proxy that verifies it |
| correlation | none: a function of inventory and advisories | Correlate | ingest/pipeline_sink |
| control-plane/signkeys, planner, aiproviders, provision, enrollcmd, update; agent/inventory | key files, a month's spending, or none | see `PROJECT.json` | administrators |

What is hard in it, and what would make each part correct:

* **Remediation.** Each method changes memory, then rewrites the file, and answers a failed rewrite in its
  own way; the agent can stop between changing the host and saying so; both clocks differ; messages get
  lost. Correct means: nothing runs without an operator's signature over exactly these terms, a job is
  carried out at most once, results are true, no restart revives what has ended, and every job ends.
* **Scan launching.** Handlers and the reconciler share the registry; a tick works for minutes from a
  snapshot; gvmd and its administrator act on their own. Correct means: the cap on running scans, no update
  from stale data, no lost stop, no COMPLETED scan without its findings, and every scan ends.
* **Identity.** Enroll validates a token, signs, and only then consumes it; Renew checks the revocation,
  signs and only then appends; DELETE walks over a list that may grow. Correct means: uses within the cap,
  every certificate traced to its token, a deleted token's certificates all revoked and refused for ever.
* **Sensor dispatch.** At-least-once delivery over a lossy network, with ignored save errors, cooldowns
  and expiry. Correct means: an acked job has been reported, an answered job is not lost, no work after
  expiry, no twins, and every job ends.
* **Self-update.** The process may stop between any two writes of a swap, a commit or a rollback. Correct
  means: the last good version is there while an unproven one may still fail, a bad release is left
  behind within a bounded number of boots, and never comes back. Not all of that holds: section 7.
* **Inventories.** A queue that evicts, a client that gives up while the ingest still imports, a deduplication
  in memory that answers 202 before it knows, and a command channel beside it. Correct means: one import per
  cycle, nothing skipped that was not imported, the deduplication follows the host, and a command is answered.
* **Files written one by one.** Key, certificate, CA and feed key of a sensor; blobs and version of its feed.
  Correct means: no certificate expires that could have been renewed, a file changes only into what the
  pinned key signed, the version comes last, and a sensor that stays up gets the whole feed.
* **Functions that decide.** Scopes, callers' names and correlation are pure, and each exists in several copies
  that must agree with one another and with what is meant. Correct means: equal to an independent definition.

`PROJECT.json` lists the single hazards with their lines.

## 2. Plan

Order of work; the most important behaviour first.

| step | modules | state |
|---|---|---|
| 1 | RemediationQueue, RemediationAgent, RemediationConsent (abstract), RemediationSystem (composition) | checked; safety and the refinement proved |
| 2 | ScanLaunch | checked; safety proved |
| 3 | Enrollment, CallerNames | checked; safety and the readings of callers proved |
| 4 | SensorDispatch, Scopes | checked; safety and the gates proved |
| 5 | AgentUpdate | checked; safety proved |
| 6 | InventoryPipeline with the command channel, Correlation | checked; safety and the correlation proved |
| 7 | SensorProcess (abstract), SensorIdentity, FeedSync | checked; safety and the refinement proved |

Every safety property that a passing run checks is a theorem now; what is only checked, and why, is at the end of
section 6. Left to model: the list of agents that were seen (`lastSeen`), the records of tenants, and the
first enrollment of an agent, which writes its files in the order opposite to a sensor's. The planner's spending
was looked at and left: it is one counter, charged after the call it bounds, of an assistant that decides nothing.

## 3. Modules and code

Conventions. A method under a mutex is one action; a sequence of calls with a gap in which others may run is
one action per call. A variable named after a Go field is that field. `file`, `disk`, `crlFile` hold what was
last saved: a save that goes through a temporary file and a rename, or is a single transaction, happens or
does not. Three kinds of files are not saved like that, and are modelled as they are: the files of a first
enrollment (os.WriteFile) and the copies of a self-update (copyFile), which may leave a file `Torn`, and the
revocation list's file, of which a write is taken to happen or to fail whole (`CRLFaults`). Variables marked
*observed* exist for the properties only and are read by no guard. Operators whose comment starts with *Mutant* are plausible bugs that no specification uses;
each shows that a property notices them.

**RemediationQueue** (control-plane/remediation). `mem` is Registry.jobs, `disk` its file. Every method is an
action with two outcomes, the save that works and the one that fails, since each method handles the failure
differently: Enqueue, Approve and Poll put the job back, Reject does not, the others only log. `Canonical` is
the record of what a signature binds; the signature *is* that record, so that equality is verification.
`Restart` is a reload, with the reload's dropping of unsigned jobs.

**RemediationAgent** (agent/remediate). `runner[a]` is where RunOnce stands; `journal` and `journalFile` its
journal; `effects` counts what the handler did to the host. `Stop` is a process stop anywhere. The handlers'
package and configuration engines are interfaces without an implementation in the repository: a handler
applies its job or fails.

**RemediationSystem** composes one queue and its agents. A request is an action of both sides; its answer may be
lost after the queue has acted. **RemediationConsent** is the abstract specification: an order is given, a host
works on it within its window, a fix is attested. RemediationSystem implements it under the mapping of `Promise`.

**ScanLaunch** (ingest/scanlaunch, gmp-bridge/scan_bridge.py). `jobs`, `file` and `findings` are the registry, its
file and the findings files; `phase`, `snap`, `done`, `slots` and `call` the locals of one reconciler tick; `task`
what gvmd has. A bridge call and the update after it are two steps. `Restart` forgets the locals.

**Enrollment** (control-plane/tokens, enroll, ca, api; ingest/scanlaunch/crl.go). `tokens` and `agents` are the
Bolt buckets; `enrolling`, `renewing` and `deleting` the requests that have passed their checks and not yet
acted; `crl`, `crlFile` and `copy` the list in memory, in its file and at the ingest. Signatures and names only
refuse, so they are left out.

**SensorDispatch** (control-plane/sensorjobs, sensor/supervisor, ingest/sensorreport). `jobs` and `file` are the
queue; `sensors[s]` is where a sensor's loop stands. Time is an age per job that saturates at the last value
a comparison tells apart, so that time never ends.

**AgentUpdate** (agent/update and the goroutines of agentd that call it). `binary`, `backup`, `stage`, `floor` and
`quarantine` are the files, `running` the process, `boot`, `updater` and `committer` where New, updateLoop and
commitAfterStable stand. Each write is a step, a copy is two, and `Stops` may come between any two. A release may
be offered at any time while updateLoop waits: the loop's first minute is shorter than the commit window, so that
both goroutines mix. `Refused` says whether the system refuses to write to the file of a running program (Linux
and Windows do, macOS does not; `{TRUE, FALSE}` allows either at every rollback), `WriteFaults` whether a write
may fail. Of what is observed, `hasty` says that the last update began before the one in front of it was settled,
`unfinished` holds the versions of which a count was not written or a rollback was refused, and `failed` those of
which the rollback is on record. What the code promises without such exceptions are four properties of their own,
which it does not keep.

**InventoryPipeline** (agent/agentd's tick, agent/transport, ingest/server.go and pipeline_sink.go,
control-plane/commands, agent/command). `host` is what is installed; `queue` the files of an agent's queue; `tick`
who holds tickMu; `handlers` the requests at the ingest, of which one may outlive the minute its client waits;
`lastCycle` and `inflight` the deduplication; `pending` the command channel. An import and the deferred endCycle
are one step, since nothing reads in between what either of them writes.

**Correlation** (src/correlation). The engine as functions: scopes of advisories, the Notus index and its
matches, the MSRC documents and theirs, the hardening rules. **CorrelationChecks** says of advisories what their
authors mean and compares, over feeds of up to two advisories in either order and hosts with up to two packages.
The order of two package versions is that of two libraries and is external. The code walks a CSAF document's product
tree to any depth; the model's bound is three levels, one more than a vendor and a family above a product.

**Scopes** (control-plane/tenants and sensorjobs, sensor/scope, ingest/sensorreport, ingest/scanlaunch/allowlist).
The four gates over addresses and blocks of both families and over v4 spelled in v6 (::ffff:a.b.c.d, `To4`); the
width of an address, the block of that spelling, the special ranges and the scanner's own addresses are constants.
**ScopeChecks** tells the same by numbers and intervals, for any scope. One literal does not grant what it says, and
the reference says so (`Grants`): a bare ::ffff:a.b.c.d of a scope gets the mask /32 and is read as ::/32. A block
is inside of a block of its own spelling only, because `Contains` compares the widths of their masks.
**CallerNames** (the subject readers of six packages), **CallerChecks**: a subject is written in either form of the
proxy and read by every route. In RFC 2253 the proxy puts a backslash before special characters and writes control
and non-ASCII bytes (`Coded`) as a backslash and two digits (`Hex`); the readers drop the backslash only. So a
subject without such bytes is read back as what it is, and one with them as `Read` says, with the digits in the
byte's place. Each check states its reference for every input, and names the small set of
inputs that its run takes. **Positions** is what an appending loop makes of a sequence, the elements at some of its
positions: Scopes, CallerNames and Correlation say their loops with it and with the library's `FlattenSeq` instead of
recursion, so that they can be reasoned about.

**SensorIdentity** (sensor/cmd, sensor/enroll, sensor/renew). `crt`, `key`, `ca` and `feedPub` are the files, `at`
the write that comes next, with a stop, an error or a lost answer anywhere. **SensorProcess** is the abstract
specification of what the services see of it (whether the process is up, and the key it pinned at its start);
SensorIdentity implements it under `up <- at \in Running`. **FeedSync** (sensor/feedsync, control-plane/feed)
extends SensorProcess: a sync goes request by request against a mirror that changes file by file, a manifest that
is cached, and a process that starts and stops. `ClientHasCert` says whether the sync's client presents the sensor's
certificate, which the routes demand (`MaySync`); the client that main.go builds does not.

The MC modules define the constants of a run. Three of them also hold a comparison of functions with their
reference definitions, hooked to the states in which the code asks them: `ImportsAreExact` (Correlation, while a
handler imports), `HandedIsInScope` (Scopes, while a sensor has a job in hand), `HoldersAreKnown` (CallerNames, once
somebody holds a certificate); so are `BareIsOwn` and `HoldersAreToldApart`, which fail. These formulas do not read the state beyond that: TLC evaluates the functions over
all of the inputs.

## 4. Runs

| run | checks | bounds |
|---|---|---|
| remediation_queue | the gate, the file against memory, order of states, over every mixture of failed saves and restarts | 2 jobs, 2 agents, with and without a window, 4 ticks |
| remediation_system | true results, at most one effect, every job ends, and the refinement of RemediationConsent | 1 job, 1 agent, 2 stops, 5 ticks, an agent clock one tick behind |
| scan_faults | what stops, retries, an administrator, failing saves and failing bridge calls do to one scan | 1 scan, 3 ticks |
| scan_queue | the cap, the snapshot and starvation between scans | 2 scans of one target, 1 slot, 2 ticks, no failing saves |
| enrollment | races of enrollments, renewals and a revocation, down to the ingest's copy; every reading of a subject | 2 agents, 2 tokens (of one use and of two), 2 certificates; subjects with one odd value of up to two characters |
| revoke_crash | violation, see section 7 | 1 agent, 1 token |
| sensor_dispatch | delivery, expiry, cooldown and redelivery; the four gates | 2 sensors, 2 equal requests, one that expires after 2 ticks and one that does not |
| agent_update | swaps, commits and rollbacks in every order, stops between any two writes and in a copy, failing writes | 4 versions, of which one crash-loops |
| inventory_pipeline | the deduplication against clients that give up, restarts of all three processes, the command channel; the correlation engine | 1 agent, 2 contents, 2 requests at a time, a queue of 1 |
| sensor_identity | the files of an enrollment and of every renewal, and the refinement of SensorProcess | 2 pairs, 2 feed keys |
| renew_torn | violation, see section 7 | the same |
| feed_sync | a sync against a changing mirror, cache and key | 2 paths, 2 contents or none, 2 versions, 2 keys, a client with a certificate |

Why these are enough. A job of either queue interacts with others only through the order of delivery, the
cooldown and the cap, which two jobs and one slot exhibit; agents and sensors interact only through the queue,
which two exhibit. Clocks run just far enough for every deadline to pass after every action it may race with:
lifetimes of one or two ticks, a window in the middle, and a tick more. Ages in SensorDispatch have no end, so
that its liveness property has no excuse. Two stops per agent are one more than the longest argument about a
stop uses. Four versions are an installed one, a good one, a bad one and its fix; the attempts run up to the
code's own bound of three. An address of v4 has three bits and one of v6 seven, of which four are the prefix that
v4 is spelled with: room for each special range and for masks on either side of that prefix; one coded byte and its
two digits beside each other and beside every special character show each way to read one. Agents share nothing at the ingest but the maps that are keyed by agent, so that one
with two requests has every race of the deduplication; a queue of one item evicts at every second cycle. (A
queue of two was checked by hand: no error in 1 329 778 states, too many for a run that is repeated often.) A
sensor has one pair in its files and one on its way. Two paths are a sync that is half done; two versions and
two keys a sync that began before a rotation.

What the bounds exclude. ScanLaunch's clock ends, so EveryScanEnds is about scans whose deadline lies within
it (`InTime`), and its two-scan run has no failing saves. `Unwanted` and `Administered` name the scans that a
client may delete and an administrator may touch. Enrollment's revocation list is saved without failures
(`CRLFaults` is FALSE): with failures a restart does break KillSwitch, as section 7 says of the same lines.
agent_update does not check for deadlock
(CHECK_DEADLOCK FALSE): when a stop leaves half a binary, or none, nothing starts any more, in the model as on the
host. feed_sync checks the safety of a sync for a client that presents the sensor's certificate, and claims nothing
about the feed's arrival: with the client that the code gives it no sync begins (section 7).

## 5. Fairness

"Faults are over at last" is written in positive form: `<>[][A]_vars`, where `A` is the disjunction of the steps that
go on. It is assumed of whole behaviours and refuses none before that point.

* **RemediationSystem** (`FairSystemSpec`): time passes and an agent's loop goes on, because `Loop` is a goroutine
  with a ticker. Nothing is assumed of the network, of the disk or of operators: a job still ends, by expiry.
* **ScanLaunch** (`FairScanSpec`): the reconciler's ticker goes on, the clock ticks, gvmd's tasks end, and restarts
  stop at last. A status or a fetch that is retried at every tick does not fail every time (strong fairness):
  pollOne gives up on neither, so without this a scan of a gvmd that never answers stays open by design.
* **Enrollment** (`FairEnrollSpec`): the ingest refetches the list on its ticker; processes stay up at last.
  Nothing is assumed of agents or administrators.
* **SensorDispatch** (`FairDispatchSpec`): time and the sensors' loops go on, and faults are over at last, which is
  what at-least-once delivery needs.
* **AgentUpdate** (`FairUpdateSpec`): the service manager starts the agent again (Restart=always in the unit the
  agent installs), its goroutines go on while it runs, and a bad release does stop, which makes it bad. Nothing is
  assumed of when releases come, of writes, or of other stops. EveryUpdateSettles says that a staged version that
  runs is proven or left behind at last, but for one whose count was not written or whose rollback was refused
  (`unfinished`), and one that a hasty update has made its own backup; BootsAreBounded leaves these exceptions out.
* **InventoryPipeline** (`FairPipelineSpec`): the agents' two loops and the ingest's handlers go on, and faults,
  changes of the host and fresh commands are over at last. A loop that waits for tickMu gets it in the end
  although the other one takes it again and again (strong fairness: Go's mutex hands itself to a starved waiter).
* **FeedSync** (`FairNodeSpec`): the sync's ticker goes on, the manifest's cache expires, and the mirror, the keys and
  the processes rest at last. FeedConverges fails with the code's client in spite of all that.

## 6. Proofs

Eight modules, for every value of the constants. Each has an inductive invariant, `IInv` unless another name is
given below, that TLC checked before it was proved, a lemma per kind of step, and theorems that follow with PTL.
`PROJECT.json` lists the theorems.

| module | theorems | assumptions beside those on the constants' types |
|---|---|---|
| RemediationProofs | QueueTypeOK, ApprovalGate, DiskBehindMemory and DiskKeepsTerms, HandedIsDurable, ClosedNeverDelivered, ForwardOnly; SystemInv, AtMostOnce; the refinement KeepsPromise | none |
| ScanLaunchProofs | ReadIsCurrent, RunningWithinCap, StopIsNotForgotten, ScanInv | none |
| DecisionProofs | CallersAreRead | none |
| IdentityProofs | EnrollInv, FirstEnrollmentWins; KillSwitch; HoldersAreKnown; IdentityInv and the refinement IsSensorProcess | KillSwitch: `~CRLFaults` |
| SensorDispatchProofs | DispatchInv, AckedIsReported, NoWorkAfterExpiry; GatesAreExact, HandedIsInScope; CoversIsExact, OverlapIsExact, ScansStayInScope, DispatchedIsImported | none |
| AgentUpdateProofs | UpdateInv, NoChurn | none |
| InventoryPipelineProofs | PipelineInv, OneImportPerCycle, AckedScanWasTried, AnsweredIsRemoved; VersionsAreOrdered, NotusAnswers, HardeningAnswers, MSRCAnswers; FeedIsRead, ImportsAreExact | FeedIsRead and ImportsAreExact: `Ascending = InOrder`, the run's order of versions |
| FeedSyncProofs | NodeTypeOK, BroughtIsSigned, VersionAfterContent | none |

What is assumed of the constants: `None` and `NoToken`, which stand for a nil or an empty field, are no status, no
token and no name of a loop or phase; the handlers of the ingest are finitely many at a time; addresses have some
positive width, those of v6 more than twice as wide as those of v4, v4 is spelled in v6 behind a prefix of the
difference, and the special ranges and the scanner's own addresses are literals of such addresses, none of them
spelled like that (`ScopeAssumption`); a coded byte is written with two digits and is none of the words that
the readers look for (`CodedAssumption`). Numbers of jobs, agents, scans, tokens, sensors,
versions and keys, caps, times and windows are arbitrary.

**RemediationQueue.** `QueueIInv` is the conjunction of the run's invariants, strengthened twice. `DrawnFirst`
says that an id that was never drawn names nothing in memory or file: without it Enqueue could meet a trace of an
older job. `Owned` says that every job has an agent: without it Approve could sign something that is no order.
Most steps are *quiet* (they leave every job's terms alone and move each job forward or not at all), and a quiet
step preserves it whether or not its save works (`QuietSafe`). Enqueue, Approve and Poll's delivery are not quiet,
but save all they did or take it back. A restart reads a file of which it already says all that is needed
(`NothingIsDropped`, `RestartSafe`).

**RemediationSystem.** `SystemIInv` adds to `QueueIInv` what joins the two sides. On the host: what the Runner has
in hand is an order that the control plane approved (`FetchedIsApproved`), the status it will report is the one
that Apply answered (`RunnerHolds`), a journal entry stands for a change (`JournalIsTrue`), and every change is in
the journal, about to be, or forgotten by a stop (`Remembered`), which is what AtMostOnce needs. At the control
plane: a job with a result is past delivery (`QueueResults`), and what was approved has left the gate in the file
too (`ApprovedOnce`), so that a restart cannot bring it up for approval again. The queue's handlers are seen by
the agents as one of two steps: a plain one, after which every job is where it was, has moved forward, is new or
is reaped (`PlainStep`), or a report's (`AnswerStep`). The refinement maps `working`, `changed` and `attested` of
RemediationConsent to the runners that apply, the hosts' effects and the jobs VERIFIED in memory; it is proved
step by step, with the invariant of both states.

**ScanLaunch.** `Capped` bounds memory and file, since a restart makes the file the memory, and says that the slots
that a tick has left are never more than what the running jobs leave. `CallFits` says that the reconciler is in
the middle of one scan at most, of the right list and not handled yet: without it an answer could be applied to
a job that the tick has passed. The snapshot stays true because no handler changes the state of a job that is
alive (`OutsideKeeps`), and a tick acts on each job once (`StepKeeps`). CompletedHasFindings has an invariant of
its own, `FindingsIInv`, beside IInv: a job that the file has as completed is the same completion in memory, or due
for removal (`FileFollows`), and the reconciler's answer about the scan in hand is true of gvmd and of the findings
(`CallIsTrue`). It holds through a restart because the file cannot be a completion ahead of memory.

**Enrollment.** `Counted` ties the uses of a token to the finite set of agents it enrolled. `Owed` is what a DELETE
in progress owes: its token is revoked, so that the trail it walks over no longer grows, and what is not yet on
the list is still to be walked over. It holds only while the list can be saved, which is the assumption of
KillSwitchHolds; the other theorems hold with failing saves too.

**SensorDispatch.** `Apart` says OneTwin of memory and file at once, because a restart brings back whatever the file
has; `Known` says that Enqueue saved what it added, though later saves may fail; `ReportedFirst` that a sensor about
to ack has reported.

**Induction.** The library's induction theorems take an operator as a parameter, which the provers cannot
instantiate. DecisionProofs goes around that: a finite set of numbers has a least one, because strict inclusion is
well-founded on finite sets (`LeastNumber`), so a set of numbers that has zero and every successor has all
(`SetInduction`), and what is to be proved is given as the set of the numbers that it holds of. No module uses a
RECURSIVE operator; what loops compute is said by positions, functions and the library's operators, and unfolded
one step at a time by such inductions.

**Callers.** A reader cuts a text at its separators and drops its escapes, so what it gives is the text between some
of its positions. These are a finite set in their order (`Ordered`), and a text is grown by one piece at a time.
An escape is settled from left to right, by what stands before it; from that a subject's written form is cut exactly
where its attributes end, and each reader gives back what was written, a coded byte as its two digits (`Read`).
CallersAreRead is about every certificate, of any values over any characters with any units, in either form of the
text, and about every route: without coded bytes a caller is taken for what its subject says (`IsLegible`), and with
them for what `Read` says, while the policies are granted by the subject itself. Values do not begin or end with a
blank: a reader trims a part before it drops its escapes, so that an escaped blank at the end is read as a
backslash. The subjects of the run are such certificates, hence HoldersAreKnown.

**Scopes.** The code compares prefixes of bits; what is meant is addresses, or numbers. The proof goes from numbers
and their bits (a power of two is the number of subsets of a set, of which the library has the cardinality) over
blocks of bits, which are intervals, and what a literal names, in each of its spellings, to the gates. GatesAreExact says of every scope and
every self-deny list, for addresses of any width and whatever the special ranges are, that the cloud dispatches, the
sensor scans, the report is let in and the scanner launches exactly what ScopeChecks says by numbers, including
what it says of a bare address that is spelled as v4 in v6 (`Grants`), and that what a sensor launches, in its
canonical form, sweeps the numbers of the target; the scopes of the run are such scopes, hence HandedIsInScope. CoversIsExact, OverlapIsExact, ScansStayInScope and
DispatchedIsImported say the same of single addresses, without numbers.

**AgentUpdate.** The invariant has a part that holds always and one that holds while the last update was not hasty.
Always: no goroutine runs before New has returned, a committer at work has a stage (`StepsFit`), a target is a
release newer than what runs, not below the floor and not failed (`TargetFits`), and a version on record as failed is in
quarantine or below the floor (`FailedIsOut`), from which NoChurn follows. Unless hasty, `FilesFit`: what the files
are at each step of a boot, an update and a commit, so that a stop between any two, or inside a copy, is covered by
the step it stops at. No constant is assumed away; without `~hasty` BackupIsGood is refuted (section 7).

**InventoryPipeline.** Three arguments over different parts of the state. What a tick waits for is still the head
of its queue, and in the hands of the handler it waits for, though Put evicts others (`WaitsForHead`): without it
an answer could remove an inventory that was never sent. The marks in `inflight` are those of the handlers that
import, one each, and none is of the cycle last recorded (`OneMarkEach`): so a cycle has one importer, and what is
skipped was imported. A command about to be acked was ticked for after it was given (`AckIsEarned`). A step is one
of the agents' side or of the ingest's, and disturbs only that side's parts (`AgentSide`, `IngestSide`).

**Correlation.** It has no state; the proofs are about its answers. VersionsAreOrdered says of versionLess, which
MSRC's fixes are compared with, that it is a strict order, and total up to zeros at the end: two versions differ at
a first place. An index is laid out from its files, and a report holds the findings picked from it in their order,
each once; so membership and length settle what it is. NotusAnswers, HardeningAnswers and MSRCAnswers say that for
every feed, host, reading and document (with products up to three levels down): the host is told exactly what
concerns it, in terms of the entries, rules and pairs as they are written. What the authors of advisories mean by them
is CorrelationChecks' reference: FeedIsRead carries NotusAnswers over to it, for feeds of any length and hosts with any
packages from its sets of advisories, hosts and packages, by splitting the written names back into name, version and
architecture. For MSRC and hardening the reference is evaluated over the check's inputs, form by form. Together that
is ImportsAreExact, with the order of versions that the run gives.

**SensorIdentity and FeedSync.** The former is the second part of IdentityProofs. An answer is in hand while its
parts are written, only a process that runs has a key, and a due certificate has not been skipped; with that every
step of SensorIdentity is a step of SensorProcess or a stutter. FeedSync's `FeedInv` adds that a manifest in hand
belongs to a process that is up and is signed by the key this process pinned (`InHandIsPinned`).

Only model-checked, and for good: liveness under fairness (NoJobStaysOpen, EveryScanEnds, KilledEverywhere,
EveryJobEnds, EveryUpdateSettles, CycleConverges, ScanIsAnswered), since TLAPS does not prove what needs ENABLED. The
runs that expect a violation are refutations, and there is nothing to prove of them.

## 7. Where the code and its words disagree

Two are runs that expect a violation; `PROJECT.json` "findings" has the lines.

* revoke_crash: a stop, or a failed save, in the middle of a DELETE leaves certificates off the list for good.
* renew_torn: a renewal that stops between the new key and the new certificate leaves a pair that does not match,
  where the comment promises that the old certificate stays usable.

Stated in the modules and not a run of `PROJECT.json`. Each is refuted by TLC with the configuration or the
constants given; the module's text says which words of the code it takes up. The configurations leave out other
faults, so that the failure is the code's own.

| property | specification and constants | what happens |
|---|---|---|
| RejectIsFinal (RemediationQueue) | `QueueSpec`; 1 job, 1 agent, Lifetimes {1}, Windows <- MCWindows, Redeliver 0, Retention 1, MaxClock 4, DiskFaults TRUE | a rejection whose save failed is confirmed on the second try and undone by a restart |
| FailedReportIsRetried (RemediationSystem) | `SystemSpec`; 1 job, Lifetimes {1, 2}, Windows <- MCNoWindow, Retention 2, MaxClock 5, Skew 1, Drift 0, MaxStops 0, no faults | a report lost after its ack got through is never retried |
| RetryIsFresh (ScanLaunch) | `ScanSpec`; 1 scan, Retention 0, MaxClock 3, Unwanted {s1}, BridgeFaults TRUE, DiskFaults FALSE | a scan reopened after a stop is stopped again by the old request |
| ReportConverges (InventoryPipeline) | `FairPipelineSpec`; InventoryPipeline.cfg | an import that its client gave up on ends after that of a newer inventory; and a forced import leaves `lastCycle` behind, so that the way back to the older content is skipped as processed |
| BootsAreBounded (AgentUpdate) | UpdateRefused.cfg | a rollback writes the backup over the file of the program that runs (apply.go:300): Linux (ETXTBSY) and Windows refuse that, New ignores the error (agentd.go:123), and a release that crash-loops is started for ever, where apply.go:20-22 promises "the crash-loop safety net" |
| BackupIsGood (AgentUpdate) | UpdateOverlap.cfg | the update loop waits one minute (agentd.go:347) and the commit two (agentd.go:36), so that the next release may back up a binary that nobody has proven over the one that is, where a rollback should run "the previous known-good version" (apply.go:252) |
| BinaryIsWhole (AgentUpdate) | UpdateTorn.cfg | where the rollback is not refused (the macOS builds), a stop inside its copy leaves half a binary, which copyFile's comment excludes (apply.go:292-293), and nothing starts that could repair it |
| UnprovenIsStaged (AgentUpdate) | UpdateUnarmed.cfg | a stop between the swap and its marker (apply.go:150-154) leaves a new binary running that no boot counts or rolls back, where agentd.go:33-35 says that a crash "leaves the stage marker" |
| BareIsOwn (MCSensorDispatch) | BareScope.cfg | a bare ::ffff:a.b.c.d in a scope gets the mask /32 (sensorjobs/scope.go:32 and its three copies) and is read as ::/32: the address is not let in, and others are, where scope.go:20-21 has bare addresses "treated as /32 or /128" |
| HoldersAreToldApart (MCEnrollment) | CodedNames.cfg | a name of a non-ASCII byte passes validateAgentID, which is there for "preventing ambiguous Distinguished-Name rendering downstream" (enroll.go:386-387), and is read by the routes as the name made of the byte's two digits (remediation/authz.go:99 and its copies) |
| FeedConverges (FeedSync) | FeedUncertified.cfg | no sync ever begins: startFeedSync, which "keeps the local feed in sync" (main.go:113), gives the feed a client without the sensor's certificate (main.go:143), which the proxy demands (compose/nginx/default.conf:472-473) |

Seen while modelling, and read in the code rather than checked:

* An agent's name is never freed, so that neither a lost answer nor a revocation lets it enroll again
  (tokens.go:226, against the comment at tokens.go:220).
* A scan_now is acked though its import failed: Put answers 202 before the operator's scan is anywhere
  (agentd.go:332). AckedScanWasTried says what does hold, that it was tried.
* Two handlers of the ingest snapshot `lastSeen` under one mutex and write it under another (server.go:260), so
  that the older snapshot may be the one that stays on disk.
* A sensor that runs keeps the feed key of its start, whatever a renewal wrote (renew.go:136-138); files that
  the cloud removed from its feed stay at the sensor.
* "15 SP5" of SUSE is read as release 15. A malformed .notus file stops NewPipelineSink, a malformed CSAF document
  is skipped.
* The allowlist's deny of the scanner itself and of 0.0.0.0/8 treats a single address and a block that holds it
  differently, and a token of the self-deny list that is no address is skipped.
* The subject readers of enroll and commands know no escapes, unlike the other four: a name that the proxy escapes
  and validateAgentID allows (a number sign in front, a non-ASCII byte) cannot be renewed (enroll.go:243).
* A reader trims a part of a subject before it drops the escapes, so that a value with an escaped blank at its end
  is read with a backslash there.
* A policy that could not be written is ignored (state.go:30): a version whose quarantine was lost is let in again.
* The feed is signed with a key of its own, where control-plane/cmd/control-plane/main.go:340-341 still names the
  CA's.

## 8. Not modelled

* Requests that authentication, a scope or a revocation refuses: they change nothing and are no step. Whom a
  request is taken for and what a scope lets through are functions (CallerNames, Scopes).
* The content of jobs, reports and manifests; signatures are equal to what they sign.
* The effects of a power cut below the file system (files that were renamed and not synced).
* Registry files that somebody else corrupted: every component refuses to start, and stays down.
* The memory-only modes (an empty path), which tests use.
* gvmd, gmp-bridge's import and the handlers' engines beyond what the callers see of them.
* The order of package versions, which is that of two libraries, and the texts of a finding.
* `lastSeen`, which is shown and decides nothing, and the records of tenants, which are written by hand.
* agent/enroll: one request and three files written once, like the first enrollment of a sensor.
* control-plane/planner, aiproviders, signkeys, provision, enrollcmd and update: a counter of an assistant,
  configuration, key files written once, text around a minted token, and an answer computed from a directory.
* The commands that wire the parts and serve HTTP, and the scripts, templates and deployment files around them.
