----------------------------- MODULE FeedSync -----------------------------
(***************************************************************************)
(* The vulnerability feed on its way from the cloud's mirror to a sensor:  *)
(* the signed manifest and the blobs that control-plane/feed serves, and   *)
(* the loop of sensor/internal/feedsync, in a process that pinned its key  *)
(* when it started (SensorProcess).                                        *)
(*                                                                         *)
(* The mirror is a directory that another program rewrites file by file.   *)
(* A hash names its content, so a content stands for its hash.             *)
(***************************************************************************)
EXTENDS SensorProcess

CONSTANTS
    LastPath,       \* bound: the feed's paths are 1..LastPath, in the order of a manifest
    Contents,       \* what a file of the mirror may hold, with None among them if one may be removed
    Versions,       \* what SENSOR_FEED_VERSION may say
    ClientHasCert   \* whether feedsync.Config has a client that presents the sensor's certificate, as main.go
                    \* does not: with one, the model has every step that the two programs could take

ASSUME FeedAssumption ==
    /\ LastPath \in Nat \ {0} /\ ClientHasCert \in BOOLEAN
    /\ None \notin Versions

VARIABLES
    mirror,         \* the files under SENSOR_FEED_ROOT
    label,          \* SENSOR_FEED_VERSION of the control plane's process
    cached,         \* Service.cached
    local,          \* the files under SENSOR_FEED_DIR
    versionFile,    \* version.json
    manifest        \* the manifest that a Sync has in hand

cloudVars == <<mirror, label, cached>>
localVars == <<local, versionFile, manifest>>
feedVars == <<cloudVars, localVars>>
nodeVars == <<processVars, feedVars>>

Paths == 1..LastPath
Trees == [Paths -> Contents]

---------------------------------------------------------------------------
(* The cloud *)

BuildManifest == [files |-> mirror, version |-> label, key |-> cloudKey]

\* Service.manifest: the cached one, or a new one when there is none any more.
Current == IF cached = None THEN BuildManifest ELSE cached

Serves == cached' = Current

CacheExpires ==
    /\ cached # None
    /\ cached' = None
    /\ UNCHANGED <<processVars, mirror, label, localVars>>

MirrorChanges ==
    /\ \E p \in Paths, c \in Contents :
        /\ c # mirror[p]
        /\ mirror' = [mirror EXCEPT ![p] = c]
    /\ UNCHANGED <<processVars, label, cached, localVars>>

\* The environment and the keys are read when the process starts.
CloudRestarts ==
    /\ label' \in Versions
    /\ KeyRotates \/ UNCHANGED processVars
    /\ cached' = None
    /\ UNCHANGED <<mirror, localVars>>

---------------------------------------------------------------------------
(* The sensor's loop *)

\* Both routes demand the forwarded certificate of a sensor, and the proxy a verified one.
MaySync == up /\ pinned # None /\ ClientHasCert

\* Mutant: a manifest of any key is taken.
VerifiesAny(m) == TRUE

\* The signature is checked against the pinned key.
Verifies(m) == m.key = pinned

SyncBegins ==
    /\ MaySync /\ manifest = None
    /\ Serves
    /\ manifest' = IF Verifies(Current) THEN Current ELSE None
    /\ UNCHANGED <<processVars, mirror, label, local, versionFile>>

\* hashMatches finds these in place.
Missing == {p \in Paths : manifest.files[p] # None /\ local[p] # manifest.files[p]}

FirstMissing == CHOOSE p \in Missing : \A q \in Missing : p <= q

\* handleBlob: the first path that the current manifest gives the hash, if it has one. What is read
\* from there is what the mirror has now.
Blob(c) ==
    LET Named == {p \in Paths : Current.files[p] = c} IN
    IF Named = {} THEN None ELSE mirror[CHOOSE p \in Named : \A q \in Named : p <= q]

\* Mutant: the blob's hash is not computed.
AcceptsAnything(got, wanted) == got # None

\* downloadBlob hashes what it gets, and renames it into place if it is what the manifest says.
Accepts(got, wanted) == got = wanted

SyncBlob ==
    /\ MaySync /\ manifest # None /\ Missing # {}
    /\ Serves
    /\ LET wanted == manifest.files[FirstMissing]
           got == Blob(wanted)
       IN  IF Accepts(got, wanted)
           THEN local' = [local EXCEPT ![FirstMissing] = got] /\ UNCHANGED manifest
           ELSE manifest' = None /\ UNCHANGED local
    /\ UNCHANGED <<processVars, mirror, label, versionFile>>

\* Mutant: the version is written as soon as the manifest is verified.
MayFinish == TRUE

\* The loop over the manifest's files is through.
Finished == Missing = {}

\* writeVersion. Files that the manifest no longer lists are left where they are.
SyncEnds ==
    /\ manifest # None /\ Finished
    /\ versionFile' = manifest.version
    /\ manifest' = None
    /\ UNCHANGED <<processVars, cloudVars, local>>

\* A request or a write fails: the sync is given up, and what is in place stays.
SyncBreaks ==
    /\ manifest # None
    /\ manifest' = None
    /\ UNCHANGED <<processVars, cloudVars, local, versionFile>>

\* The process takes its sync along when it stops.
Process ==
    /\ ProcessStarts \/ ProcessStops \/ KeyArrives
    /\ manifest' = IF up' THEN manifest ELSE None
    /\ UNCHANGED <<cloudVars, local, versionFile>>

NodeInit ==
    /\ ProcessInit
    /\ mirror \in Trees /\ label \in Versions /\ cached = None
    /\ local = [p \in Paths |-> None] /\ versionFile = None /\ manifest = None

SyncSteps == SyncBegins \/ SyncBlob \/ SyncEnds

NodeProgress == SyncSteps \/ CacheExpires

NodeNext ==
    \/ NodeProgress
    \/ SyncBreaks \/ MirrorChanges \/ CloudRestarts
    \/ Process

NodeSpec == NodeInit /\ [][NodeNext]_nodeVars

\* The sync's ticker goes on and a cached manifest has its time; in the end the mirror is quiet, and
\* neither process is restarted.
FairNodeSpec ==
    /\ NodeSpec
    /\ <>[][NodeProgress]_nodeVars
    /\ WF_nodeVars(SyncSteps) /\ WF_nodeVars(CacheExpires)

---------------------------------------------------------------------------
(* Properties *)

NodeTypeOK ==
    /\ ProcessTypeOK
    /\ mirror \in Trees /\ local \in [Paths -> Contents \cup {None}]
    /\ label \in Versions /\ versionFile \in Versions \cup {None}
    /\ {cached, manifest} \subseteq {None} \cup [files : Trees, version : Versions, key : FeedKeys]

\* feedsync.go: "a partial sync never corrupts the live feed". Whatever becomes of the mirror, the
\* manifest's cache and the keys while a sync goes on, a file only changes into what a manifest signed
\* by the key that its process has pinned says of its path.
BroughtIsSigned ==
    [][\A p \in Paths : local'[p] # local[p] =>
        manifest.key = pinned /\ local'[p] = manifest.files[p]]_nodeVars

\* version.json comes last: it names a version only when every file of a manifest of that version is in
\* place, though the syncs before may have stopped anywhere.
VersionAfterContent ==
    [][versionFile' # versionFile => \A p \in Paths : manifest.files[p] \in {None, local[p]}]_nodeVars

\* main.go: "keep the LOCAL GVM feed current from the cloud mirror". A sensor that stays up with the
\* cloud's key ends up with every file that the mirror has.
FeedConverges == <>[](up /\ pinned = cloudKey) => <>[](\A p \in Paths : mirror[p] \in {None, local[p]})

===========================================================================
