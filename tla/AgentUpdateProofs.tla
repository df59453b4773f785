------------------------- MODULE AgentUpdateProofs -------------------------
(***************************************************************************)
(* What the agent's self-update keeps for any releases, good and bad ones, *)
(* with stops between and within its writes, failing writes, and updates   *)
(* that overlap the commit of the one before.  One part of the inductive   *)
(* invariant holds always; the other says what the files are at every step *)
(* of a boot, an update and a commit, while the last update waited until   *)
(* the one before it was settled.                                          *)
(***************************************************************************)
EXTENDS AgentUpdate, TLAPS

Staged == stage # NoStage

\* New: no goroutine runs before it has returned, clearStage has a stage to clear, and the
\* policy allows what is staged.
StepsFit ==
    /\ boot = "down" <=> running = None
    /\ boot \notin {"down", "up"} => Staged
    /\ boot # "up" => updater = Idle /\ committer = "waiting"
    /\ committer \in {"recorded", "unbacked"} => Staged
    /\ Staged => stage.target >= floor

\* Check and Allowed: what is under way is newer than what runs, and the policy allows it still.
TargetFits ==
    updater.at \in UpdaterSteps =>
        updater.target > running /\ updater.target >= floor /\ updater.target \notin failed

\* recordFailed and recordCommitted: Allowed refuses what failed.
FailedIsOut == \A v \in failed : v \in quarantine \/ v < floor

\* BeginBoot: with a stage, the binary is what it stages or what it replaced, and the backup is the
\* latter until the former is proven.
StageFits ==
    Staged =>
        /\ stage.prev # stage.target /\ stage.prev \in proven
        /\ binary \in {stage.prev, stage.target, Torn}
        /\ binary = stage.target => backup = stage.prev \/ (backup = None /\ binary \in proven)

\* New: what each step of a boot has found.
BootFits ==
    /\ binary = None => ~Staged
    /\ boot = "up" /\ Staged => binary \in {stage.target, Torn}
    /\ boot = "restoring" => binary = Torn /\ backup = stage.prev
    /\ boot \in {"restored", "quarantined", "unbacked", "superseded", "disarmed"} => binary = stage.prev

\* Apply: the version that runs is the backup of the one that replaces it.
UpdateFits ==
    updater.at \in UpdaterSteps =>
        /\ running \in proven
        /\ updater.at # "staged" => ~Staged
        /\ updater.at \in {"downloaded", "copying", "backedUp"} => binary = running
        /\ updater.at = "staged" => binary = updater.target
        /\ updater.at \in {"backedUp", "aside", "swapped"} => backup = running
        /\ updater.at = "swapped" => binary = updater.target

\* CommitIfHealthy: what it clears is the stage of what it recorded.
CommitFits == committer \in {"recorded", "unbacked"} => stage.target \in proven

FilesFit == StageFits /\ BootFits /\ UpdateFits /\ CommitFits

IInv == UpdateTypeOK /\ StepsFit /\ TargetFits /\ FailedIsOut /\ (~hasty => FilesFit)

\* There is a version that is installed first.
LEMMA InstalledIsFirst == Installed \in Versions
  BY InstalledAssumption DEF Installed

\* A fresh installation.
LEMMA InitHolds == UpdateInit => IInv
<1> SUFFICES ASSUME UpdateInit PROVE IInv
  OBVIOUS
<1> USE UpdateAssumption DEF UpdateInit
<1>1. UpdateTypeOK
  BY InstalledIsFirst DEF UpdateTypeOK, BootSteps
<1>2. ~Staged /\ updater.at \notin UpdaterSteps
  BY DEF Staged, Idle, UpdaterSteps
<1>3. StepsFit /\ TargetFits /\ FailedIsOut
  BY <1>2 DEF StepsFit, TargetFits, FailedIsOut
<1>4. FilesFit
  BY <1>2 DEF FilesFit, StageFits, BootFits, UpdateFits, CommitFits
<1> QED
  BY <1>1, <1>3, <1>4 DEF IInv

\* What an update that is under way says of its process and its target.
LEMMA UnderWay ==
    ASSUME IInv, updater.at \in UpdaterSteps
    PROVE  /\ boot = "up" /\ running \in Versions
           /\ updater \in [at : UpdaterSteps, target : Versions] /\ updater.target \in Versions
           /\ updater.target > running /\ updater.target >= floor /\ updater.target \notin failed
           /\ running \in Nat /\ floor \in Nat /\ updater.target \in Nat
<1>1. updater \in [at : UpdaterSteps, target : Versions] /\ updater # Idle
  BY DEF IInv, UpdateTypeOK, Idle, UpdaterSteps
<1>2. boot = "up" /\ running \in Versions
  BY <1>1 DEF IInv, StepsFit, UpdateTypeOK
<1>3. updater.at \in UpdaterSteps /\ updater.target \in Versions
  BY <1>1
<1>4. running \in Nat /\ floor \in Nat /\ updater.target \in Nat
  BY <1>2, <1>3, UpdateAssumption DEF IInv, UpdateTypeOK
<1> QED
  BY <1>1, <1>2, <1>3, <1>4 DEF IInv, TargetFits

\* What a stage says of its versions.
LEMMA StageIsTyped ==
    ASSUME IInv, Staged
    PROVE  /\ stage \in StageType /\ stage.prev \in Versions /\ stage.target \in Versions
           /\ stage.target \in Nat /\ floor \in Nat /\ stage.target >= floor
           /\ stage.attempts \in 0..MaxBootAttempts
  BY UpdateAssumption DEF IInv, UpdateTypeOK, StepsFit, Staged, StageType

\* The process is gone, and its files are as they were.
LEMMA DownKeeps ==
    ASSUME IInv, Down, UNCHANGED <<disk, observed>>
    PROVE  IInv'
  BY UpdateAssumption DEF Down, disk, observed, IInv, UpdateTypeOK, StepsFit, TargetFits, FailedIsOut, FilesFit,
     StageFits, BootFits, UpdateFits, CommitFits, Staged, Idle, BootSteps, UpdaterSteps

\* BeginBoot: a staged version that runs is counted, or rolled back; any other one ends its stage.
LEMMA BootsKeeps ==
    ASSUME IInv, Boots
    PROVE  IInv'
<1>1. /\ running = None /\ boot = "down" /\ binary \in Versions /\ running' = binary
      /\ updater = Idle /\ committer = "waiting"
      /\ UNCHANGED <<backup, floor, quarantine, updater, committer, proven, failed, hasty>>
  BY DEF Boots, IInv, StepsFit
<1>2. stage = NoStage => ~Counts
  BY DEF Counts
<1>3. Staged /\ ~hasty => (Counts <=> binary = stage.target) /\ (~Counts => binary = stage.prev)
  BY <1>1, UpdateAssumption DEF IInv, FilesFit, StageFits, Counts, Staged
<1>4. updater.at \notin UpdaterSteps /\ binary # None /\ binary # Torn
  BY <1>1, UpdateAssumption DEF Idle, UpdaterSteps
<1>5. CASE Counts /\ ~Exhausted /\ stage' = [stage EXCEPT !.attempts = @ + 1] /\ boot' = "up"
           /\ UNCHANGED <<binary, unfinished>>
  <2>1. Staged /\ stage \in StageType
    BY <1>2, <1>5, StageIsTyped DEF Staged
  <2>2. stage' \in StageType /\ stage'.prev = stage.prev /\ stage'.target = stage.target
    BY <1>5, <2>1 DEF StageType, Exhausted, MaxBootAttempts
  <2>3. Staged'
    BY <2>2, UpdateAssumption DEF Staged, NoStage, StageType
  <2>4. UpdateTypeOK'
    BY <1>1, <1>5, <2>2 DEF IInv, UpdateTypeOK, BootSteps
  <2>5. StepsFit' /\ TargetFits' /\ FailedIsOut'
    BY <1>1, <1>4, <1>5, <2>1, <2>2, <2>3, UpdateAssumption DEF IInv, StepsFit, TargetFits, FailedIsOut
  <2>6. ~hasty' => FilesFit'
    BY <1>1, <1>3, <1>4, <1>5, <2>1, <2>2, <2>3 DEF IInv, FilesFit, StageFits, BootFits, UpdateFits, CommitFits
  <2> QED
    BY <2>4, <2>5, <2>6 DEF IInv
<1>6. CASE /\ Counts /\ binary' = Torn /\ backup # None /\ boot' = "restoring" /\ UNCHANGED <<stage, unfinished>>
  <2>1. Staged
    BY <1>2, <1>6 DEF Staged
  <2>2. UpdateTypeOK'
    BY <1>1, <1>6 DEF IInv, UpdateTypeOK, BootSteps
  <2>3. StepsFit' /\ TargetFits' /\ FailedIsOut'
    BY <1>1, <1>4, <1>6, <2>1, UpdateAssumption DEF IInv, StepsFit, TargetFits, FailedIsOut, Staged
  <2>4. ~hasty' => FilesFit'
    BY <1>1, <1>3, <1>4, <1>6, <2>1, StageIsTyped, UpdateAssumption
    DEF IInv, FilesFit, StageFits, BootFits, UpdateFits, CommitFits, Staged
  <2> QED
    BY <2>2, <2>3, <2>4 DEF IInv
<1>7. CASE /\ boot' \in {"up", "superseded"} /\ UNCHANGED <<binary, stage>>
           /\ unfinished' = unfinished \/ (Staged /\ unfinished' = unfinished \cup {stage.target})
           /\ boot' = "up" => Counts \/ stage = NoStage
           /\ boot' = "superseded" => Staged /\ ~Counts
  <2>1. UpdateTypeOK'
    BY <1>1, <1>7, StageIsTyped DEF IInv, UpdateTypeOK, BootSteps
  <2>2. StepsFit' /\ TargetFits' /\ FailedIsOut'
    BY <1>1, <1>4, <1>7, UpdateAssumption DEF IInv, StepsFit, TargetFits, FailedIsOut, Staged
  <2>3. ~hasty' => FilesFit'
    BY <1>1, <1>3, <1>4, <1>7 DEF IInv, FilesFit, StageFits, BootFits, UpdateFits, CommitFits, Staged
  <2> QED
    BY <2>1, <2>2, <2>3 DEF IInv
<1> QED
  BY <1>2, <1>5, <1>6, <1>7 DEF Boots, Staged, CanRestore

\* rollback, and the end of a stage.
LEMMA RollbackKeeps ==
    ASSUME IInv, Rollback
    PROVE  IInv'
<1> USE UpdateAssumption
<1>1. /\ boot \notin {"down", "up"} /\ Staged /\ updater = Idle /\ committer = "waiting" /\ running # None
      /\ updater.at \notin UpdaterSteps
  BY DEF Rollback, Restores, RecordFailed, BootRemovesBackup, RollbackEnds, SupersededEnds, IInv, StepsFit, Idle,
     UpdaterSteps
<1>2. stage.prev \in Versions /\ stage.target \in Versions
  BY <1>1, StageIsTyped
<1>3. CASE Restores
  <2>1. backup \in Versions \cup {Torn, None} /\ binary' \in Versions \cup {Torn, None}
    BY <1>3 DEF Restores, IInv, UpdateTypeOK
  <2>2. UpdateTypeOK'
    BY <1>3, <2>1 DEF Restores, observed, IInv, UpdateTypeOK, BootSteps
  <2>3. StepsFit' /\ TargetFits' /\ FailedIsOut'
    BY <1>1, <1>3 DEF Restores, observed, IInv, StepsFit, TargetFits, FailedIsOut, Staged
  <2>4. ~hasty' => FilesFit'
    BY <1>1, <1>2, <1>3 DEF Restores, observed, IInv, FilesFit, StageFits, BootFits, UpdateFits, CommitFits, Staged
  <2> QED
    BY <2>2, <2>3, <2>4 DEF IInv
<1>4. CASE RecordFailed
  <2>1. UpdateTypeOK'
    BY <1>2, <1>4 DEF RecordFailed, IInv, UpdateTypeOK, BootSteps
  <2>2. StepsFit' /\ TargetFits' /\ FailedIsOut'
    BY <1>1, <1>4 DEF RecordFailed, IInv, StepsFit, TargetFits, FailedIsOut, Staged
  <2>3. ~hasty' => FilesFit'
    BY <1>1, <1>4 DEF RecordFailed, IInv, FilesFit, StageFits, BootFits, UpdateFits, CommitFits, Staged
  <2> QED
    BY <2>1, <2>2, <2>3 DEF IInv
<1>5. CASE BootRemovesBackup
  <2>1. UpdateTypeOK'
    BY <1>5 DEF BootRemovesBackup, observed, IInv, UpdateTypeOK, BootSteps
  <2>2. StepsFit' /\ TargetFits' /\ FailedIsOut'
    BY <1>1, <1>5 DEF BootRemovesBackup, observed, IInv, StepsFit, TargetFits, FailedIsOut, Staged
  <2>3. ~hasty' => FilesFit'
    BY <1>1, <1>5 DEF BootRemovesBackup, observed, IInv, FilesFit, StageFits, BootFits, UpdateFits, CommitFits, Staged
  <2> QED
    BY <2>1, <2>2, <2>3 DEF IInv
<1>6. CASE RollbackEnds \/ SupersededEnds
  <2>1. /\ stage' = NoStage /\ updater' = Idle /\ committer' = "waiting" /\ ~Staged'
        /\ UNCHANGED <<binary, backup, floor, quarantine, observed>>
        /\ \/ boot' = "down" /\ running' = None
           \/ boot' = "up" /\ running' = running
    BY <1>1, <1>6 DEF RollbackEnds, SupersededEnds, Down, Staged
  <2>2. UpdateTypeOK'
    BY <2>1 DEF observed, IInv, UpdateTypeOK, BootSteps
  <2>3. StepsFit' /\ TargetFits' /\ FailedIsOut'
    BY <1>1, <2>1 DEF observed, IInv, StepsFit, TargetFits, FailedIsOut
  <2>4. FilesFit'
    BY <1>1, <2>1 DEF FilesFit, StageFits, BootFits, UpdateFits, CommitFits
  <2> QED
    BY <2>2, <2>3, <2>4 DEF IInv
<1> QED
  BY <1>3, <1>4, <1>5, <1>6 DEF Rollback

\* Check, Allowed and Download: what failed is quarantined, or below the floor.
LEMMA DownloadKeeps ==
    ASSUME IInv, NEW v \in Versions, Downloads(v)
    PROVE  IInv'
<1>1. /\ boot = "up" /\ running \in Versions
      /\ updater' = [at |-> "downloaded", target |-> v] /\ hasty' = ~Settled
      /\ v > running /\ v >= floor /\ v \notin quarantine
      /\ UNCHANGED <<binary, backup, stage, floor, quarantine, running, boot, committer, proven, failed, unfinished>>
  BY DEF Downloads, Allowed, disk, IInv, StepsFit, UpdateTypeOK
<1>2. running \in Nat /\ v \in Nat /\ floor \in Nat
  BY <1>1, UpdateAssumption DEF IInv, UpdateTypeOK
<1>3. v \notin failed
  BY <1>1, <1>2 DEF IInv, FailedIsOut
<1>4. UpdateTypeOK'
  BY <1>1 DEF IInv, UpdateTypeOK, UpdaterSteps, Settled
<1>5. StepsFit' /\ TargetFits' /\ FailedIsOut'
  BY <1>1, <1>2, <1>3 DEF IInv, StepsFit, TargetFits, FailedIsOut, Staged
<1>6. ASSUME Settled PROVE FilesFit'
  BY <1>1, <1>6, UpdateAssumption DEF Settled, IInv, StepsFit, FilesFit, StageFits, BootFits, UpdateFits, CommitFits, Staged
<1> QED
  BY <1>1, <1>4, <1>5, <1>6 DEF IInv

\* A step of Apply that changes files and leaves boot and commit alone keeps what concerns these.
LEMMA ApplyStays ==
    ASSUME IInv, updater.at \in UpdaterSteps, NEW step \in UpdaterSteps, updater' = [updater EXCEPT !.at = step],
           UNCHANGED <<floor, quarantine, running, boot, committer, observed>>,
           binary' \in Versions \cup {Torn, None}, backup' \in Versions \cup {Torn, None}, stage' = stage
    PROVE  /\ updater'.at = step /\ updater'.target = updater.target
           /\ UpdateTypeOK' /\ StepsFit' /\ TargetFits' /\ FailedIsOut'
<1>1. boot = "up" /\ updater' \in [at : UpdaterSteps, target : Versions]
  BY UnderWay
<1>2. updater'.at = step /\ updater'.target = updater.target
  BY UnderWay
<1>3. UpdateTypeOK'
  BY <1>1 DEF observed, IInv, UpdateTypeOK
<1>4. StepsFit' /\ FailedIsOut'
  BY <1>1 DEF observed, IInv, StepsFit, FailedIsOut, Staged
<1>5. TargetFits'
  BY <1>2 DEF observed, IInv, TargetFits
<1> QED
  BY <1>2, <1>3, <1>4, <1>5

\* Apply begins on a settled agent and is the only one to write, up to the marker; or it is hasty, and
\* keeps only that its target is allowed.
LEMMA ApplyKeeps ==
    ASSUME IInv, Apply
    PROVE  IInv'
<1> USE UpdateAssumption
<1>1. updater.at \in UpdaterSteps
  BY DEF Apply, BacksUp, BackedUp, MovesAside, Swaps, WritesStage, Restarts, ApplyFails, UpdaterSteps
<1>2. /\ boot = "up" /\ running \in Versions /\ updater.target \in Versions /\ updater.target > running
      /\ running \in Nat /\ updater.target \in Nat /\ running # updater.target
      /\ binary \in Versions \cup {Torn, None} /\ backup \in Versions \cup {Torn, None}
  BY <1>1, UnderWay DEF IInv, UpdateTypeOK
<1>3. CASE BacksUp
  <2>1. updater.at = "downloaded" /\ "copying" \in UpdaterSteps /\ backup' = Torn
        /\ UNCHANGED <<binary, stage, floor, quarantine, running, boot, committer, observed>>
    BY <1>3 DEF BacksUp, UpdaterSteps
  <2>2. updater'.at = "copying" /\ UpdateTypeOK' /\ StepsFit' /\ TargetFits' /\ FailedIsOut'
    BY <1>1, <1>2, <1>3, <2>1, ApplyStays DEF BacksUp
  <2>3. ~hasty' => FilesFit'
    BY <1>1, <1>2, <2>1, <2>2 DEF observed, IInv, FilesFit, StageFits, BootFits, UpdateFits, CommitFits, Staged
  <2> QED
    BY <2>2, <2>3 DEF IInv
<1>4. CASE BackedUp
  <2>1. updater.at = "copying" /\ "backedUp" \in UpdaterSteps /\ backup' = binary
        /\ UNCHANGED <<binary, stage, floor, quarantine, running, boot, committer, observed>>
    BY <1>4 DEF BackedUp, UpdaterSteps
  <2>2. updater'.at = "backedUp" /\ UpdateTypeOK' /\ StepsFit' /\ TargetFits' /\ FailedIsOut'
    BY <1>1, <1>2, <1>4, <2>1, ApplyStays DEF BackedUp
  <2>3. ~hasty' => FilesFit'
    BY <1>1, <1>2, <2>1, <2>2 DEF observed, IInv, FilesFit, StageFits, BootFits, UpdateFits, CommitFits, Staged
  <2> QED
    BY <2>2, <2>3 DEF IInv
<1>5. CASE MovesAside
  <2>1. updater.at = "backedUp" /\ "aside" \in UpdaterSteps /\ binary' = None
        /\ UNCHANGED <<backup, stage, floor, quarantine, running, boot, committer, observed>>
    BY <1>5 DEF MovesAside, UpdaterSteps
  <2>2. updater'.at = "aside" /\ UpdateTypeOK' /\ StepsFit' /\ TargetFits' /\ FailedIsOut'
    BY <1>1, <1>2, <1>5, <2>1, ApplyStays DEF MovesAside
  <2>3. ~hasty' => FilesFit'
    BY <1>1, <1>2, <2>1, <2>2 DEF observed, IInv, FilesFit, StageFits, BootFits, UpdateFits, CommitFits, Staged
  <2> QED
    BY <2>2, <2>3 DEF IInv
<1>6. CASE Swaps
  <2>1. updater.at \in {"backedUp", "aside"} /\ "swapped" \in UpdaterSteps /\ binary' = updater.target
        /\ UNCHANGED <<backup, stage, floor, quarantine, running, boot, committer, observed>>
    BY <1>6 DEF Swaps, UpdaterSteps
  <2>2. updater'.at = "swapped" /\ updater'.target = updater.target
        /\ UpdateTypeOK' /\ StepsFit' /\ TargetFits' /\ FailedIsOut'
    BY <1>1, <1>2, <1>6, <2>1, ApplyStays DEF Swaps
  <2>3. ~hasty' => FilesFit'
    BY <1>1, <1>2, <2>1, <2>2 DEF observed, IInv, FilesFit, StageFits, BootFits, UpdateFits, CommitFits, Staged
  <2> QED
    BY <2>2, <2>3 DEF IInv
<1>7. CASE WritesStage
  <2>1. /\ updater.at = "swapped" /\ updater' = [updater EXCEPT !.at = "staged"]
        /\ stage' = [prev |-> running, target |-> updater.target, attempts |-> 0]
        /\ UNCHANGED <<binary, backup, floor, quarantine, running, boot, committer, observed>>
    BY <1>7 DEF WritesStage
  <2>2. updater'.at = "staged" /\ updater'.target = updater.target /\ updater' \in [at : UpdaterSteps, target : Versions]
    BY <1>1, <2>1, UnderWay DEF UpdaterSteps
  <2>3. stage' \in StageType /\ stage' # NoStage /\ Staged' /\ stage'.prev = running /\ stage'.target = updater.target
    BY <1>2, <2>1 DEF StageType, NoStage, MaxBootAttempts, Staged
  <2>4. UpdateTypeOK'
    BY <2>1, <2>2, <2>3 DEF observed, IInv, UpdateTypeOK
  <2>5. StepsFit' /\ TargetFits' /\ FailedIsOut'
    BY <1>1, <1>2, <2>1, <2>2, <2>3 DEF observed, IInv, StepsFit, TargetFits, FailedIsOut
  <2>6. ~hasty' => FilesFit'
    BY <1>1, <1>2, <2>1, <2>2, <2>3
    DEF observed, IInv, StepsFit, FilesFit, StageFits, BootFits, UpdateFits, CommitFits, Staged, UpdaterSteps
  <2> QED
    BY <2>4, <2>5, <2>6 DEF IInv
<1>8. CASE Restarts
  BY <1>8, DownKeeps DEF Restarts
<1>9. CASE ApplyFails
  <2>1. /\ updater' = [Idle EXCEPT !.at = "over"]
        /\ binary' = binary \/ (updater.at = "aside" /\ binary' = running)
        /\ UNCHANGED <<backup, stage, floor, quarantine, running, boot, committer, observed>>
    BY <1>9 DEF ApplyFails
  <2>2. updater'.at \notin UpdaterSteps
    BY <2>1 DEF Idle, UpdaterSteps
  <2>3. UpdateTypeOK'
    BY <1>2, <2>1 DEF observed, IInv, UpdateTypeOK
  <2>4. StepsFit' /\ TargetFits' /\ FailedIsOut'
    BY <1>2, <2>1, <2>2 DEF observed, IInv, StepsFit, TargetFits, FailedIsOut, Staged
  <2>5. ~hasty' => FilesFit'
    BY <1>1, <1>2, <2>1, <2>2 DEF observed, IInv, FilesFit, StageFits, BootFits, UpdateFits, CommitFits, Staged
  <2> QED
    BY <2>3, <2>4, <2>5 DEF IInv
<1> QED
  BY <1>3, <1>4, <1>5, <1>6, <1>7, <1>8, <1>9 DEF Apply

\* CommitIfHealthy: what it records is what is staged, which the policy allowed.
LEMMA CommitKeeps ==
    ASSUME IInv, Commit
    PROVE  IInv'
<1> USE UpdateAssumption
<1>1. CASE RecordCommitted
  <2>1. /\ boot = "up" /\ committer = "waiting" /\ running = stage.target
        /\ committer' = "recorded" /\ proven' = proven \cup {running} /\ failed' = failed \ {running}
        /\ UNCHANGED <<binary, backup, stage, running, boot, updater, hasty, unfinished>>
    BY <1>1 DEF RecordCommitted
  <2>2. \/ /\ floor' = IF running > floor THEN running ELSE floor
           /\ quarantine' = {q \in quarantine \ {running} : q > floor'}
        \/ UNCHANGED <<floor, quarantine>>
    BY <1>1 DEF RecordCommitted, StaysQuarantined
  <2>3. Staged /\ running \in Versions
    BY <2>1 DEF IInv, UpdateTypeOK, StepsFit, Staged, NoStage
  <2>4. /\ running \in Nat /\ floor \in Nat /\ failed \subseteq Nat /\ running >= floor
        /\ floor' = floor \/ floor' = running
    BY <2>1, <2>2, <2>3, StageIsTyped DEF IInv, UpdateTypeOK
  <2>5. \A v \in failed' : v \in quarantine' \/ v < floor'
    <3>1. CASE UNCHANGED <<floor, quarantine>>
      BY <2>1, <3>1 DEF IInv, FailedIsOut
    <3>2. CASE floor' = running /\ quarantine' = {q \in quarantine \ {running} : q > running}
      <4> SUFFICES ASSUME NEW v \in failed, v # running, ~(v < running) PROVE v \in quarantine'
        BY <2>1, <3>2
      <4>1. v \in Nat /\ v > running /\ ~(v < floor)
        BY <2>4
      <4> QED
        BY <3>2, <4>1 DEF IInv, FailedIsOut
    <3> QED
      BY <2>2, <2>4, <3>1, <3>2
  <2>6. UpdateTypeOK'
    BY <2>1, <2>2, <2>3, <2>4 DEF IInv, UpdateTypeOK
  <2>7. StepsFit' /\ FailedIsOut'
    BY <2>1, <2>3, <2>4, <2>5 DEF IInv, StepsFit, FailedIsOut, Staged
  <2>8. TargetFits'
    <3> SUFFICES ASSUME updater.at \in UpdaterSteps
                 PROVE  updater.target > running /\ updater.target >= floor' /\ updater.target \notin failed
      BY <2>1 DEF TargetFits
    <3> QED
      BY <2>4, UnderWay
  <2>9. ~hasty' => FilesFit'
    <3> SUFFICES ASSUME ~hasty PROVE FilesFit'
      BY <2>1
    <3>1. StageFits' /\ BootFits' /\ CommitFits'
      BY <2>1, <2>3 DEF IInv, FilesFit, StageFits, BootFits, CommitFits, Staged
    <3>2. updater.at \notin UpdaterSteps
      BY <2>1, <2>3, UnderWay DEF IInv, FilesFit, UpdateFits, BootFits, UpdaterSteps
    <3> QED
      BY <2>1, <3>1, <3>2 DEF FilesFit, UpdateFits
  <2> QED
    BY <2>6, <2>7, <2>8, <2>9 DEF IInv
<1>2. CASE CommitRemovesBackup
  <2>1. /\ committer = "recorded" /\ committer' = "unbacked" /\ backup' = None
        /\ UNCHANGED <<binary, stage, floor, quarantine, running, boot, updater, observed>>
    BY <1>2 DEF CommitRemovesBackup
  <2>2. UpdateTypeOK' /\ StepsFit' /\ TargetFits' /\ FailedIsOut'
    BY <2>1 DEF observed, IInv, UpdateTypeOK, StepsFit, TargetFits, FailedIsOut, Staged
  <2>3. ~hasty' => FilesFit'
    <3> SUFFICES ASSUME ~hasty PROVE FilesFit'
      BY <2>1 DEF observed
    <3>1. Staged /\ boot = "up" /\ stage.target \in proven
      BY <2>1 DEF IInv, StepsFit, FilesFit, CommitFits
    <3>2. updater.at \in UpdaterSteps => updater.at = "staged"
      BY <3>1 DEF IInv, FilesFit, UpdateFits
    <3>3. StageFits' /\ BootFits' /\ CommitFits'
      BY <2>1, <3>1 DEF observed, IInv, FilesFit, StageFits, BootFits, CommitFits, Staged
    <3> QED
      BY <2>1, <3>2, <3>3 DEF observed, IInv, FilesFit, UpdateFits, Staged
  <2> QED
    BY <2>2, <2>3 DEF IInv
<1>3. CASE CommitEnds
  <2>1. /\ committer = "unbacked" /\ committer' = "over" /\ stage' = NoStage /\ ~Staged' /\ Staged /\ boot = "up"
        /\ UNCHANGED <<binary, backup, floor, quarantine, running, boot, updater, observed>>
    BY <1>3 DEF CommitEnds, Staged, IInv, StepsFit
  <2>2. UpdateTypeOK' /\ StepsFit' /\ TargetFits' /\ FailedIsOut'
    BY <2>1 DEF observed, IInv, UpdateTypeOK, StepsFit, TargetFits, FailedIsOut
  <2>3. ~hasty' => FilesFit'
    BY <2>1 DEF observed, IInv, FilesFit, StageFits, BootFits, UpdateFits, CommitFits
  <2> QED
    BY <2>2, <2>3 DEF IInv
<1>4. CASE NothingToCommit
  <2>1. /\ committer' = "over" /\ UNCHANGED <<binary, backup, stage, floor, quarantine, running, boot, updater, observed>>
        /\ boot = "up"
    BY <1>4 DEF NothingToCommit, disk
  <2>2. UpdateTypeOK' /\ StepsFit' /\ TargetFits' /\ FailedIsOut'
    BY <2>1 DEF observed, IInv, UpdateTypeOK, StepsFit, TargetFits, FailedIsOut, Staged
  <2>3. ~hasty' => FilesFit'
    BY <2>1 DEF observed, IInv, FilesFit, StageFits, BootFits, UpdateFits, CommitFits, Staged
  <2> QED
    BY <2>2, <2>3 DEF IInv
<1> QED
  BY <1>1, <1>2, <1>3, <1>4 DEF Commit

\* Every step of the specification.
LEMMA StepHolds == IInv /\ [UpdateNext]_updateVars => IInv'
<1> SUFFICES ASSUME IInv, [UpdateNext]_updateVars PROVE IInv'
  OBVIOUS
<1>1. CASE Stops
  BY <1>1, DownKeeps DEF Stops
<1>2. CASE UNCHANGED updateVars
  BY <1>2 DEF updateVars, disk, threads, observed, IInv, UpdateTypeOK, StepsFit, TargetFits, FailedIsOut, FilesFit,
     StageFits, BootFits, UpdateFits, CommitFits, Staged
<1> QED
  BY <1>1, <1>2, BootsKeeps, RollbackKeeps, ApplyKeeps, CommitKeeps, DownloadKeeps DEF UpdateNext

\* rollback, for any releases: while an unproven version is staged, the version before it is in the
\* backup, whole and proven, wherever the agent stopped, unless its update was hasty.
THEOREM BackupIsReady == UpdateSpec => []UpdateInv
<1>1. IInv => UpdateInv
  <2> SUFFICES ASSUME IInv, ~hasty, stage # NoStage, binary = stage.target, binary \notin proven
               PROVE  backup = stage.prev /\ backup \in proven
    BY DEF IInv, UpdateInv, RollbackReady, BackupIsGood
  <2> QED
    BY DEF IInv, FilesFit, StageFits, Staged
<1> QED
  BY <1>1, InitHolds, StepHolds, PTL DEF UpdateSpec

\* state.go: "update->crash->rollback->update churn can't happen": what is on record as rolled back is not
\* swapped in, whatever is offered and however updates and commits overlap.
THEOREM NothingChurns == UpdateSpec => NoChurn
<1>1. IInv /\ [UpdateNext]_updateVars => [Swaps => updater.target \notin failed]_updateVars
  <2> SUFFICES ASSUME IInv, Swaps PROVE updater.target \notin failed
    OBVIOUS
  <2> QED
    BY UnderWay DEF Swaps, UpdaterSteps
<1> QED
  BY <1>1, InitHolds, StepHolds, PTL DEF UpdateSpec, NoChurn

============================================================================
