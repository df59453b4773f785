---------------------------- MODULE AgentUpdate ----------------------------
(***************************************************************************)
(* The endpoint agent's self-update (agent/internal/update): a verified    *)
(* release is swapped in behind a backup and a stage marker, proves itself *)
(* for two minutes and is committed, or crash-loops and is rolled back by  *)
(* the fourth boot.  The update loop and the commit timer are goroutines   *)
(* of agentd over the same files, the former from the first minute on and  *)
(* the latter after the second, so that their steps mix in every order.    *)
(* Every write to the disk is a step of its own, a copy is two, and the    *)
(* process may stop between any two.  The service manager starts it again. *)
(*                                                                         *)
(* Versions are numbers in the order of isNewer.  That a manifest is       *)
(* signed, fresh and for this platform, and that a binary has its digest   *)
(* and passes the smoke test, is left out: what fails there is not swapped *)
(* in and changes nothing.                                                 *)
(***************************************************************************)
EXTENDS Integers, FiniteSets

CONSTANTS
    Versions,   \* bound: the releases, the installed one first
    Bad,        \* releases that stop before the commit window is over, whenever they run
    None, Torn, \* no file; half a file
    Refused,    \* whether the system refuses to write to a running program: Linux and Windows do
    WriteFaults \* whether a write to the disk may fail

MaxBootAttempts == 3

Installed == CHOOSE v \in Versions : \A w \in Versions : v <= w

ASSUME InstalledAssumption == \E v \in Versions : \A w \in Versions : v <= w

ASSUME UpdateAssumption ==
    /\ Versions \subseteq Nat \ {0}
    /\ Bad \subseteq Versions \ {Installed}
    /\ None \notin Versions /\ Torn \notin Versions
    /\ Torn # None
    /\ Refused \subseteq BOOLEAN /\ WriteFaults \in BOOLEAN

VARIABLES
    binary,     \* the file that the service manager starts
    backup,     \* its .bak
    stage,      \* update.stage.json
    floor, quarantine,  \* update.policy.json
    running,    \* the version that runs
    boot,       \* where New stands
    updater,    \* where updateLoop stands, and with which target
    committer,  \* where commitAfterStable stands
    proven,     \* observed: versions that were installed by hand or committed
    failed,     \* observed: versions whose rollback is on record, and no commit since
    hasty,      \* observed: whether the last update began before the one in front of it was settled
    unfinished  \* observed: versions of which a count was not written, or the rollback refused

disk == <<binary, backup, stage, floor, quarantine>>
threads == <<boot, updater, committer>>
observed == <<proven, failed, hasty, unfinished>>
updateVars == <<disk, running, threads, observed>>

StageType == [prev : Versions, target : Versions, attempts : 0..MaxBootAttempts]
NoStage == [prev |-> None, target |-> None, attempts |-> 0]

BootSteps == {"down", "restoring", "restored", "quarantined", "unbacked", "superseded", "disarmed", "up"}
Idle == [at |-> "idle", target |-> None]
UpdaterSteps == {"downloaded", "copying", "backedUp", "aside", "swapped", "staged"}

\* Mutant: the comparison is the wrong way round.
Pruned(q, f) == q <= f

\* recordCommitted: what stays in quarantine beside a new floor.
StaysQuarantined(q, f) == q > f

---------------------------------------------------------------------------
(* Starting and stopping *)

\* The process is gone: no goroutine is anywhere.
Down ==
    /\ running' = None
    /\ boot' = "down" /\ updater' = Idle /\ committer' = "waiting"

\* A crash, a kill or a power cut.
Stops ==
    /\ running # None
    /\ Down
    /\ UNCHANGED <<disk, observed>>

\* rollback opens its files: without a backup, or when the system refuses to write to the running
\* program, it returns an error that New ignores.
CanRestore(refused) == backup # None /\ ~refused

Counts == stage # NoStage /\ (running' = stage.target \/ running' # stage.prev)
Exhausted == stage.attempts >= MaxBootAttempts

\* Mutant: the attempt is counted, and not written back.
BootsForgetful ==
    /\ running = None /\ binary \in Versions
    /\ running' = binary
    /\ boot' = IF stage # NoStage /\ ~Counts THEN "superseded" ELSE "up"
    /\ UNCHANGED <<disk, updater, committer, observed>>

\* BeginBoot, called by New, which ignores its errors.
Boots ==
    /\ running = None /\ binary \in Versions
    /\ running' = binary
    /\ \/ /\ Counts /\ ~Exhausted
          /\ stage' = [stage EXCEPT !.attempts = @ + 1]
          /\ boot' = "up"
          /\ UNCHANGED <<binary, unfinished>>
       \/ /\ Counts /\ ~Exhausted /\ WriteFaults
          /\ boot' = "up"
          /\ unfinished' = unfinished \cup {stage.target}
          /\ UNCHANGED <<binary, stage>>
       \/ \E refused \in Refused :
          /\ Counts /\ Exhausted /\ CanRestore(refused)
          /\ binary' = Torn
          /\ boot' = "restoring"
          /\ UNCHANGED <<stage, unfinished>>
       \/ \E refused \in Refused :
          /\ Counts /\ Exhausted /\ ~CanRestore(refused)
          /\ boot' = "up"
          /\ unfinished' = unfinished \cup {stage.target}
          /\ UNCHANGED <<binary, stage>>
       \/ /\ stage # NoStage /\ ~Counts
          /\ boot' = "superseded"
          /\ UNCHANGED <<binary, stage, unfinished>>
       \/ /\ stage = NoStage
          /\ boot' = "up"
          /\ UNCHANGED <<binary, stage, unfinished>>
    /\ UNCHANGED <<backup, floor, quarantine, updater, committer, proven, failed, hasty>>

---------------------------------------------------------------------------
(* rollback, and clearStage for a stage that is over *)

Restores ==
    /\ boot = "restoring"
    /\ \/ binary' = backup /\ boot' = "restored"
       \/ WriteFaults /\ boot' = "up" /\ UNCHANGED binary
    /\ UNCHANGED <<backup, stage, floor, quarantine, running, updater, committer, observed>>

\* writePolicy has no result, so that a version whose quarantine is lost is forgotten.
RecordFailed ==
    /\ boot = "restored"
    /\ \/ /\ quarantine' = quarantine \cup {stage.target}
          /\ failed' = failed \cup {stage.target}
       \/ WriteFaults /\ UNCHANGED <<quarantine, failed>>
    /\ boot' = "quarantined"
    /\ UNCHANGED <<binary, backup, stage, floor, running, updater, committer, proven, hasty, unfinished>>

BootRemovesBackup ==
    /\ boot \in {"quarantined", "superseded"}
    /\ backup' = None
    /\ boot' = IF boot = "quarantined" THEN "unbacked" ELSE "disarmed"
    /\ UNCHANGED <<binary, stage, floor, quarantine, running, updater, committer, observed>>

\* rollback asks for a restart, and New returns. When the restart is refused, New goes on.
RollbackEnds ==
    /\ boot = "unbacked"
    /\ stage' = NoStage
    /\ \/ Down
       \/ boot' = "up" /\ UNCHANGED <<running, updater, committer>>
    /\ UNCHANGED <<binary, backup, floor, quarantine, observed>>

SupersededEnds ==
    /\ boot = "disarmed"
    /\ stage' = NoStage
    /\ boot' = "up"
    /\ UNCHANGED <<binary, backup, floor, quarantine, running, updater, committer, observed>>

---------------------------------------------------------------------------
(* updateLoop *)

Allowed(v) == v >= floor /\ v \notin quarantine

\* Nothing is staged, and what runs is installed and proven.
Settled == stage = NoStage /\ binary = running /\ binary \in proven

\* Check, Allowed and Download. Any signed manifest of the last two days may be what is offered, and
\* from the first minute of a boot on: what runs may still wait for its commit, or be about to fail.
Downloads(v) ==
    /\ boot = "up" /\ updater.at = "idle"
    /\ v > running /\ Allowed(v)
    /\ updater' = [at |-> "downloaded", target |-> v]
    /\ hasty' = ~Settled
    /\ UNCHANGED <<disk, running, boot, committer, proven, failed, unfinished>>

\* Apply: "re-applying must NOT overwrite the good backup".
StagedAlready == stage.target = updater.target /\ backup # None

BacksUp ==
    /\ updater.at = "downloaded" /\ ~StagedAlready
    /\ backup' = Torn
    /\ updater' = [updater EXCEPT !.at = "copying"]
    /\ UNCHANGED <<binary, stage, floor, quarantine, running, boot, committer, observed>>

\* Mutant: the new binary is backed up in place of the old one.
BackedUpLate ==
    /\ updater.at = "copying"
    /\ backup' = updater.target
    /\ updater' = [updater EXCEPT !.at = "backedUp"]
    /\ UNCHANGED <<binary, stage, floor, quarantine, running, boot, committer, observed>>

BackedUp ==
    /\ updater.at = "copying"
    /\ backup' = binary
    /\ updater' = [updater EXCEPT !.at = "backedUp"]
    /\ UNCHANGED <<binary, stage, floor, quarantine, running, boot, committer, observed>>

\* Windows does not rename over a running program, and the program is moved aside first. (There its
\* file cannot be written, so that it is the program that runs.)
MovesAside ==
    /\ updater.at = "backedUp" /\ binary = running
    /\ binary' = None
    /\ updater' = [updater EXCEPT !.at = "aside"]
    /\ UNCHANGED <<backup, stage, floor, quarantine, running, boot, committer, observed>>

Swaps ==
    /\ updater.at \in {"backedUp", "aside"}
    /\ binary' = updater.target
    /\ updater' = [updater EXCEPT !.at = "swapped"]
    /\ UNCHANGED <<backup, stage, floor, quarantine, running, boot, committer, observed>>

WritesStage ==
    /\ updater.at = "swapped"
    /\ stage' = [prev |-> running, target |-> updater.target, attempts |-> 0]
    /\ updater' = [updater EXCEPT !.at = "staged"]
    /\ UNCHANGED <<binary, backup, floor, quarantine, running, boot, committer, observed>>

Restarts ==
    /\ \/ updater.at = "staged"
       \/ updater.at = "downloaded" /\ StagedAlready
    /\ Down
    /\ UNCHANGED <<disk, observed>>

\* The smoke test, a copy, the swap, the marker or the restart fails: what was done stays, but for the
\* program that was moved aside, and the loop ends with the first Apply.
ApplyFails ==
    /\ updater.at \in UpdaterSteps
    /\ updater' = [Idle EXCEPT !.at = "over"]
    /\ \/ updater.at = "aside" /\ binary' = running
       \/ (updater.at = "aside" => WriteFaults) /\ UNCHANGED binary
    /\ UNCHANGED <<backup, stage, floor, quarantine, running, boot, committer, observed>>

---------------------------------------------------------------------------
(* commitAfterStable *)

\* CommitIfHealthy reads the stage and writes the policy, and does not learn whether it was written.
\* "a successful boot supersedes any prior failure of that version".
RecordCommitted ==
    /\ boot = "up" /\ committer = "waiting"
    /\ running \notin Bad /\ running = stage.target
    /\ \/ /\ floor' = IF running > floor THEN running ELSE floor
          /\ quarantine' = {q \in quarantine \ {running} : StaysQuarantined(q, floor')}
       \/ WriteFaults /\ UNCHANGED <<floor, quarantine>>
    /\ committer' = "recorded"
    /\ proven' = proven \cup {running}
    /\ failed' = failed \ {running}
    /\ UNCHANGED <<binary, backup, stage, running, boot, updater, hasty, unfinished>>

CommitRemovesBackup ==
    /\ committer = "recorded"
    /\ backup' = None
    /\ committer' = "unbacked"
    /\ UNCHANGED <<binary, stage, floor, quarantine, running, boot, updater, observed>>

CommitEnds ==
    /\ committer = "unbacked"
    /\ stage' = NoStage
    /\ committer' = "over"
    /\ UNCHANGED <<binary, backup, floor, quarantine, running, boot, updater, observed>>

\* Nothing is staged, or another version is.
NothingToCommit ==
    /\ boot = "up" /\ committer = "waiting"
    /\ running \notin Bad /\ running # stage.target
    /\ committer' = "over"
    /\ UNCHANGED <<disk, running, boot, updater, observed>>

---------------------------------------------------------------------------
Rollback == Restores \/ RecordFailed \/ BootRemovesBackup \/ RollbackEnds \/ SupersededEnds

Apply == BacksUp \/ BackedUp \/ MovesAside \/ Swaps \/ WritesStage \/ Restarts \/ ApplyFails

Commit == RecordCommitted \/ CommitRemovesBackup \/ CommitEnds \/ NothingToCommit

UpdateInit ==
    /\ binary = Installed /\ backup = None /\ stage = NoStage
    /\ floor = 0 /\ quarantine = {}
    /\ running = None
    /\ boot = "down" /\ updater = Idle /\ committer = "waiting"
    /\ proven = {Installed} /\ failed = {} /\ hasty = FALSE /\ unfinished = {}

UpdateNext ==
    \/ Boots \/ Stops \/ Rollback \/ Apply \/ Commit
    \/ \E v \in Versions : Downloads(v)

UpdateSpec == UpdateInit /\ [][UpdateNext]_updateVars

\* The service manager starts the agent again, its goroutines and its two-minute timer go on while it
\* runs, and a bad release does stop. Nothing is assumed of when another one stops.
FairUpdateSpec ==
    /\ UpdateSpec
    /\ WF_updateVars(Boots) /\ WF_updateVars(Rollback) /\ WF_updateVars(Apply) /\ WF_updateVars(Commit)
    /\ WF_updateVars(Stops /\ running \in Bad)

---------------------------------------------------------------------------
(* Properties *)

UpdateTypeOK ==
    /\ binary \in Versions \cup {Torn, None} /\ backup \in Versions \cup {Torn, None}
    /\ stage \in StageType \cup {NoStage}
    /\ floor \in Versions \cup {0} /\ quarantine \subseteq Versions
    /\ running \in Versions \cup {None}
    /\ boot \in BootSteps
    /\ updater \in {Idle, [Idle EXCEPT !.at = "over"]} \cup [at : UpdaterSteps, target : Versions]
    /\ committer \in {"waiting", "recorded", "unbacked", "over"}
    /\ proven \subseteq Versions /\ failed \subseteq Versions
    /\ hasty \in BOOLEAN /\ unfinished \subseteq Versions

BackupIsGood ==
    stage # NoStage /\ binary = stage.target /\ binary \notin proven => backup = stage.prev /\ backup \in proven

\* rollback: "the previous known-good version runs". While an unproven version is behind its stage, the
\* backup is there, whole, the version the stage names, and proven, wherever the agent stopped: unless
\* its update began before the one in front of it was settled.
RollbackReady == ~hasty => BackupIsGood

UpdateInv == UpdateTypeOK /\ RollbackReady

\* state.go: "update->crash->rollback->update churn can't happen". A version whose rollback is on record
\* is not swapped in again before it was committed, whatever is offered, in whatever order updates and
\* commits overlap, and whatever recordCommitted prunes.
NoChurn == [][Swaps => updater.target \notin failed]_updateVars

\* apply.go: maxBootAttempts "bounds how many times a freshly-swapped binary may start without
\* committing before we auto-roll back". A staged version that runs is proven, or is no longer what
\* starts: unless the write of a count failed, the rollback was refused, or a later update that did not
\* wait for the commit has put the version in the place of its own backup.
EveryUpdateSettles ==
    \A v \in Versions :
        (boot = "up" /\ running = v /\ stage.target = v)
            ~> (binary # v \/ v \in proven \cup unfinished \/ backup = v)

---------------------------------------------------------------------------
(* What the code's words promise beyond that, and the code does not keep *)

\* apply.go: "bounds how many times a freshly-swapped binary may start without committing before we
\* auto-roll back to the backed-up previous binary".
BootsAreBounded ==
    \A v \in Versions : (boot = "up" /\ running = v /\ stage.target = v) ~> (binary # v \/ v \in proven)

\* apply.go: copyFile syncs "to disk so a crash mid update can't leave a truncated backup/binary".
BinaryIsWhole == running = None => binary # Torn

\* agentd.go: a crash within the commit window of "the swapped binary" "leaves the stage marker so
\* BeginBoot's counter trips rollback". What runs and is not proven is staged.
UnprovenIsStaged == running # None /\ running \notin proven => stage # NoStage

===========================================================================
