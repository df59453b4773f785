--------------------------- MODULE FeedSyncProofs ---------------------------
(***************************************************************************)
(* What FeedSync keeps for any number of paths, contents, versions and     *)
(* keys.  The inductive invariant adds to the types that a manifest in     *)
(* hand belongs to a process that is up, and is signed by the key that     *)
(* this process pinned: a key changes only while no sync is under way.     *)
(***************************************************************************)
EXTENDS FeedSync, TLAPS

ManifestType == [files : Trees, version : Versions, key : FeedKeys]

InHandIsPinned == manifest # None => up /\ manifest.key = pinned

FeedInv == NodeTypeOK /\ InHandIsPinned

\* What a request does to the cache: handleManifest and handleBlob serve a manifest of the cloud's own
\* making.
LEMMA CurrentIsManifest ==
    ASSUME NodeTypeOK
    PROVE  Current \in ManifestType
  BY DEF NodeTypeOK, ProcessTypeOK, Current, BuildManifest, ManifestType

\* A process has not pinned anything when it starts, and has no sync under way.
LEMMA InitHolds == NodeInit => FeedInv
<1> SUFFICES ASSUME NodeInit PROVE FeedInv
  OBVIOUS
<1>1. ProcessTypeOK
  BY DEF NodeInit, ProcessInit, ProcessTypeOK
<1>2. InHandIsPinned
  BY DEF NodeInit, InHandIsPinned
<1> QED
  BY <1>1, <1>2 DEF NodeInit, FeedInv, NodeTypeOK

\* Every step of the process, the loop and the cloud keeps the invariant.
LEMMA StepHolds ==
    ASSUME FeedInv, [NodeNext]_nodeVars
    PROVE  FeedInv'
<1> USE DEF FeedInv
<1>1. CASE SyncBegins
  <2>1. Current \in ManifestType
    BY CurrentIsManifest
  <2>2. NodeTypeOK'
    BY <1>1, <2>1 DEF SyncBegins, Serves, processVars, NodeTypeOK, ProcessTypeOK, ManifestType
  <2>3. InHandIsPinned'
    BY <1>1 DEF SyncBegins, MaySync, Verifies, processVars, InHandIsPinned
  <2> QED
    BY <2>2, <2>3
<1>2. CASE SyncBlob
  <2> DEFINE wanted == manifest.files[FirstMissing]
             got == Blob(wanted)
  <2>1. Current \in ManifestType
    BY CurrentIsManifest
  <2>2. /\ cached' = Current
        /\ \/ got = wanted /\ local' = [local EXCEPT ![FirstMissing] = got] /\ manifest' = manifest
           \/ manifest' = None /\ local' = local
        /\ UNCHANGED <<processVars, mirror, label, versionFile>>
    BY <1>2 DEF SyncBlob, Serves, Accepts
  <2>3. manifest \in ManifestType
    BY <1>2 DEF SyncBlob, NodeTypeOK, ManifestType
  <2>4. FirstMissing \in Paths => wanted \in Contents
    BY <2>3 DEF ManifestType, Trees
  <2>5. local' \in [Paths -> Contents \cup {None}]
    BY <2>2, <2>4 DEF NodeTypeOK
  <2>6. ProcessTypeOK'
    BY <2>2 DEF processVars, NodeTypeOK, ProcessTypeOK
  <2>7. NodeTypeOK'
    BY <2>1, <2>2, <2>5, <2>6 DEF NodeTypeOK, ManifestType
  <2>8. InHandIsPinned'
    BY <2>2 DEF processVars, InHandIsPinned
  <2> QED
    BY <2>7, <2>8
<1>3. CASE SyncEnds
  <2>1. manifest \in ManifestType
    BY <1>3 DEF SyncEnds, NodeTypeOK, ManifestType
  <2>2. NodeTypeOK'
    BY <1>3, <2>1 DEF SyncEnds, cloudVars, processVars, NodeTypeOK, ProcessTypeOK, ManifestType
  <2>3. InHandIsPinned'
    BY <1>3 DEF SyncEnds, InHandIsPinned
  <2> QED
    BY <2>2, <2>3
<1>4. CASE SyncBreaks
  BY <1>4 DEF SyncBreaks, cloudVars, processVars, NodeTypeOK, ProcessTypeOK, InHandIsPinned
<1>5. CASE CacheExpires
  BY <1>5 DEF CacheExpires, localVars, processVars, NodeTypeOK, ProcessTypeOK, InHandIsPinned
<1>6. CASE MirrorChanges
  <2>1. mirror' \in Trees
    BY <1>6 DEF MirrorChanges, NodeTypeOK, Trees
  <2> QED
    BY <1>6, <2>1 DEF MirrorChanges, localVars, processVars, NodeTypeOK, ProcessTypeOK, InHandIsPinned
<1>7. CASE CloudRestarts
  <2>1. ProcessTypeOK' /\ UNCHANGED <<up, pinned>>
    BY <1>7 DEF CloudRestarts, KeyRotates, processVars, NodeTypeOK, ProcessTypeOK
  <2> QED
    BY <1>7, <2>1 DEF CloudRestarts, localVars, NodeTypeOK, InHandIsPinned
<1>8. CASE Process
  <2>1. ProcessTypeOK'
    BY <1>8 DEF Process, ProcessStarts, ProcessStops, KeyArrives, Pinnable, NodeTypeOK, ProcessTypeOK
  <2>2. NodeTypeOK'
    BY <1>8, <2>1 DEF Process, cloudVars, NodeTypeOK
  <2>3. InHandIsPinned'
    BY <1>8 DEF Process, ProcessStarts, ProcessStops, KeyArrives, InHandIsPinned
  <2> QED
    BY <2>2, <2>3
<1>9. CASE UNCHANGED nodeVars
  BY <1>9 DEF nodeVars, feedVars, cloudVars, localVars, processVars, NodeTypeOK, ProcessTypeOK,
              InHandIsPinned
<1> QED
  BY <1>1, <1>2, <1>3, <1>4, <1>5, <1>6, <1>7, <1>8, <1>9 DEF NodeNext, NodeProgress, SyncSteps

\* The types of the mirror, its cache, the sensor's files and its process, for any feed.
THEOREM NodeTypesHold == NodeSpec => []NodeTypeOK
<1>1. FeedInv => NodeTypeOK
  BY DEF FeedInv
<1> QED
  BY <1>1, InitHolds, StepHolds, PTL DEF NodeSpec

\* A sync goes on under the key that its process pinned, through rotations and restarts.
THEOREM SyncKeepsItsKey == NodeSpec => []InHandIsPinned
<1>1. FeedInv => InHandIsPinned
  BY DEF FeedInv
<1> QED
  BY <1>1, InitHolds, StepHolds, PTL DEF NodeSpec

\* feedsync.go, "a partial sync never corrupts the live feed": only downloadBlob changes a file, and
\* into nothing that the pinned key has not signed for its path.
LEMMA OneStepIsSigned ==
    ASSUME FeedInv, [NodeNext]_nodeVars, NEW p \in Paths, local'[p] # local[p]
    PROVE  manifest.key = pinned /\ local'[p] = manifest.files[p]
<1>1. CASE SyncBlob
  <2>1. manifest.key = pinned
    BY <1>1 DEF SyncBlob, FeedInv, InHandIsPinned
  <2>2. PICK got : got = manifest.files[FirstMissing] /\ local' = [local EXCEPT ![FirstMissing] = got]
    BY <1>1 DEF SyncBlob, Accepts
  <2>3. p \in DOMAIN local
    BY DEF FeedInv, NodeTypeOK
  <2> QED
    BY <2>1, <2>2, <2>3
<1>2. CASE ~SyncBlob
  <2>1. local' = local
    BY <1>2 DEF NodeNext, NodeProgress, SyncSteps, SyncBegins, SyncEnds, SyncBreaks, CacheExpires,
                MirrorChanges, CloudRestarts, Process, localVars, nodeVars, feedVars
  <2> QED
    BY <2>1
<1> QED
  BY <1>1, <1>2

\* The same of every step of every behaviour.
THEOREM OnlySignedFiles == NodeSpec => BroughtIsSigned
<1>1. FeedInv /\ [NodeNext]_nodeVars
        => [\A p \in Paths : local'[p] # local[p] =>
               manifest.key = pinned /\ local'[p] = manifest.files[p]]_nodeVars
  BY OneStepIsSigned
<1> QED
  BY <1>1, InitHolds, StepHolds, PTL DEF NodeSpec, BroughtIsSigned

\* writeVersion comes last: no other step touches version.json, and this one finds no file missing.
THEOREM VersionComesLast == NodeSpec => VersionAfterContent
<1>1. [NodeNext]_nodeVars
        => [versionFile' # versionFile => \A p \in Paths : manifest.files[p] \in {None, local[p]}]_nodeVars
  <2>1. CASE SyncEnds
    BY <2>1 DEF SyncEnds, Finished, Missing
  <2>2. ASSUME ~SyncEnds, [NodeNext]_nodeVars PROVE versionFile' = versionFile
    BY <2>2 DEF NodeNext, NodeProgress, SyncSteps, SyncBegins, SyncBlob, SyncBreaks, CacheExpires,
                MirrorChanges, CloudRestarts, Process, localVars, nodeVars, feedVars
  <2> QED
    BY <2>1, <2>2
<1> QED
  BY <1>1, PTL DEF NodeSpec, VersionAfterContent
=============================================================================
