-------------------------- MODULE SensorProcess ---------------------------
(***************************************************************************)
(* What the services of a sensor's process see of its identity: whether    *)
(* the process is up, and the key that it verifies feeds with, which is    *)
(* read once, at its start (sensor/cmd/sensor-agent, startFeedSync).       *)
(* SensorIdentity implements this; FeedSync relies on it.                  *)
(***************************************************************************)
EXTENDS Naturals, FiniteSets

CONSTANTS
    FeedKeys,       \* the keys that the cloud signs its feed with, one at a time
    CAKey,          \* the key of the enrollment CA
    None, Torn      \* no file, and a file that a write left incomplete

ASSUME ProcessAssumption ==
    /\ FeedKeys # {} /\ CAKey \notin FeedKeys
    /\ {None, Torn} \cap (FeedKeys \cup {CAKey}) = {} /\ None # Torn

VARIABLES
    up,             \* main has come to its services
    feedPub,        \* feed-verify.pub
    pinned,         \* the key of feedsync.Config, or None when the feed is not synchronised
    cloudKey        \* the key that the cloud signs its feed with

processVars == <<up, feedPub, pinned, cloudKey>>

\* The verification key comes from the file, or failing that from the CA's certificate, if there is one.
Pinnable(pub) == IF pub \in FeedKeys THEN {pub} ELSE {CAKey, None}

\* A first enrollment's keys are written just before.
ProcessStarts ==
    /\ ~up /\ up' = TRUE
    /\ feedPub' \in {feedPub, Torn} \cup FeedKeys
    /\ pinned' \in Pinnable(feedPub')
    /\ UNCHANGED cloudKey

ProcessStops ==
    /\ up /\ up' = FALSE
    /\ pinned' = None
    /\ UNCHANGED <<feedPub, cloudKey>>

\* A renewal's answer; the services go on with what they have.
KeyArrives ==
    /\ up /\ feedPub' \in FeedKeys
    /\ UNCHANGED <<up, pinned, cloudKey>>

\* A new FEED_SIGN_KEY_FILE, which takes a restart of the control plane.
KeyRotates ==
    /\ \E k \in FeedKeys \ {cloudKey} : cloudKey' = k
    /\ UNCHANGED <<up, feedPub, pinned>>

ProcessInit ==
    /\ up = FALSE /\ feedPub = None /\ pinned = None
    /\ cloudKey \in FeedKeys

ProcessNext == ProcessStarts \/ ProcessStops \/ KeyArrives \/ KeyRotates

ProcessSpec == ProcessInit /\ [][ProcessNext]_processVars

ProcessTypeOK ==
    /\ up \in BOOLEAN
    /\ feedPub \in FeedKeys \cup {None, Torn}
    /\ pinned \in FeedKeys \cup {CAKey, None} /\ (pinned # None => up)
    /\ cloudKey \in FeedKeys

===========================================================================
