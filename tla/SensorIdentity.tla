-------------------------- MODULE SensorIdentity --------------------------
(***************************************************************************)
(* What a sensor knows itself by: the files that its first enrollment and  *)
(* each renewal write one by one (sensor/cmd/sensor-agent, internal/enroll *)
(* and internal/renew), and what its processes make of them when they      *)
(* start.  The process may stop at any point, and a write may fail.        *)
(*                                                                         *)
(* A pair stands for a key and for the certificate issued for it.  What    *)
(* the control plane does to issue one is in Enrollment.                   *)
(***************************************************************************)
EXTENDS Naturals, FiniteSets

CONSTANTS
    Pairs,          \* pairs of a key and its certificate, used again when no file has them any more
    FeedKeys,       \* the keys that the cloud signs its feed with, one at a time
    CAKey,          \* the key of the enrollment CA, of which no feed key is derived
    None, Torn      \* no file, and a file that a write left incomplete

ASSUME IdentityAssumption ==
    /\ Cardinality(Pairs) > 1
    /\ FeedKeys # {} /\ CAKey \notin FeedKeys
    /\ {None, Torn} \cap (Pairs \cup FeedKeys \cup {CAKey}) = {} /\ None # Torn

VARIABLES
    token,          \* the bootstrap token at the control plane: "fresh" or "spent"
    crt, key, ca,   \* sensor.crt, sensor.key and ca.crt
    feedPub,        \* feed-verify.pub
    at,             \* the step of main or of a renewal that comes next
    hand,           \* the answer whose parts are being written
    age,            \* the certificate on disk is fresh (0), due for renewal (1) or expired (2)
    check,          \* the renewer's check since the certificate came to its age
    pinned,         \* the key that startFeedSync read when this process started
    cloudKey        \* the key that the cloud signs its feed with

files == <<crt, key, ca, feedPub>>
identityVars == <<token, files, at, hand, age, check, pinned, cloudKey>>

Enrolling == {"crt", "key", "ca", "pub"}
Renewing == {"renewKey", "renewCrt", "renewPub"}
Running == {"up"} \cup Renewing

Answer(p) == [pair |-> p, feed |-> cloudKey]

---------------------------------------------------------------------------
(* main: a first enrollment, then the services *)

\* Mutant: the CA's certificate is preferred to the file.
PinAuthority(pub, authority) == IF authority = CAKey THEN CAKey ELSE IF pub \in FeedKeys THEN pub ELSE None

\* The verification keys come from the file, or failing that from the CA's certificate; without
\* either the feed is not synchronised as long as this process runs.
Pin(pub, authority) == IF pub \in FeedKeys THEN pub ELSE IF authority = CAKey THEN CAKey ELSE None

Starts(pub, authority) ==
    /\ at' = "up" /\ hand' = None
    /\ pinned' = Pin(pub, authority)

Stops ==
    /\ at' = "down" /\ hand' = None
    /\ pinned' = None

\* sensor.crt is there: cloud.New loads the pair, or main ends.
Boots ==
    /\ at = "down"
    /\ crt \in Pairs /\ crt = key
    /\ Starts(feedPub, ca)
    /\ UNCHANGED <<token, files, age, check, cloudKey>>

\* doEnroll. The token is spent when the control plane answers.
EnrollAsks ==
    /\ at = "down" /\ crt = None /\ token = "fresh"
    /\ token' = "spent"
    /\ \E p \in Pairs : hand' = Answer(p)
    /\ at' = "crt"
    /\ UNCHANGED <<files, age, check, pinned, cloudKey>>

EnrollIsLost ==
    /\ at = "down" /\ crt = None /\ token = "fresh"
    /\ token' = "spent"
    /\ UNCHANGED <<files, at, hand, age, check, pinned, cloudKey>>

EnrollWritesCrt ==
    /\ at = "crt" /\ at' = "key"
    /\ crt' = hand.pair /\ age' = 0 /\ check' = "pending"
    /\ UNCHANGED <<token, key, ca, feedPub, hand, pinned, cloudKey>>

EnrollWritesKey ==
    /\ at = "key" /\ at' = "ca"
    /\ key' = hand.pair
    /\ UNCHANGED <<token, crt, ca, feedPub, hand, age, check, pinned, cloudKey>>

EnrollWritesCA ==
    /\ at = "ca" /\ at' = "pub"
    /\ ca' = CAKey
    /\ UNCHANGED <<token, crt, key, feedPub, hand, age, check, pinned, cloudKey>>

\* The errors of these writes are ignored, and so is a part of a file.
EnrollWritesPubs ==
    /\ at = "pub"
    /\ feedPub' \in {hand.feed, feedPub, Torn}
    /\ Starts(feedPub', ca)
    /\ UNCHANGED <<token, crt, key, ca, age, check, cloudKey>>

\* os.WriteFile truncates the file and writes it: a stop or an error between the two ends main.
EnrollBreaks ==
    /\ at \in {"crt", "key", "ca"}
    /\ crt' = IF at = "crt" THEN Torn ELSE crt
    /\ key' = IF at = "key" THEN Torn ELSE key
    /\ ca' = IF at = "ca" THEN Torn ELSE ca
    /\ Stops
    /\ UNCHANGED <<token, feedPub, age, check, cloudKey>>

---------------------------------------------------------------------------
(* checkRenew, every twelve hours *)

\* Mutant: the certificate is due when it has expired.
DueLate == age = 2

\* DueSoon, seven days before the certificate expires.
DueSoon == age > 0

\* A certificate that has expired, or whose key is another one, opens no connection.
Connects == crt = key /\ age < 2

RenewSkips ==
    /\ at = "up" /\ check = "pending"
    /\ ~DueSoon
    /\ check' = "skipped"
    /\ UNCHANGED <<token, files, at, hand, age, pinned, cloudKey>>

RenewAsks ==
    /\ at = "up" /\ DueSoon /\ Connects
    /\ \E p \in Pairs \ {crt} : hand' = Answer(p)
    /\ at' = "renewKey"
    /\ UNCHANGED <<token, files, age, check, pinned, cloudKey>>

\* The pair does not load, the request fails or is refused, or its answer is lost.
RenewFails ==
    /\ at = "up" /\ DueSoon
    /\ check' = "failed"
    /\ UNCHANGED <<token, files, at, hand, age, pinned, cloudKey>>

\* Each file is replaced as a whole, the key before the certificate.
RenewWritesKey ==
    /\ at = "renewKey" /\ at' = "renewCrt"
    /\ key' = hand.pair
    /\ UNCHANGED <<token, crt, ca, feedPub, hand, age, check, pinned, cloudKey>>

RenewWritesCrt ==
    /\ at = "renewCrt" /\ at' = "renewPub"
    /\ crt' = hand.pair /\ age' = 0 /\ check' = "pending"
    /\ UNCHANGED <<token, key, ca, feedPub, hand, pinned, cloudKey>>

RenewBreaks ==
    /\ at \in {"renewKey", "renewCrt"}
    /\ at' = "up" /\ hand' = None
    /\ check' = "failed"
    /\ UNCHANGED <<token, files, age, pinned, cloudKey>>

\* Errors are ignored. Nothing tells the syncer, which goes on with the key it has pinned.
RenewWritesPubs ==
    /\ at = "renewPub"
    /\ ca' \in {ca, CAKey} /\ feedPub' \in {feedPub, hand.feed}
    /\ at' = "up" /\ hand' = None
    /\ UNCHANGED <<token, crt, key, age, check, pinned, cloudKey>>

---------------------------------------------------------------------------
(* Time, stops, and the cloud's choice of a key *)

\* A fortnight of checks fits between due and expired: a process that is up makes one.
CertAges ==
    /\ crt \in Pairs /\ age < 2 /\ at \in {"up", "down"}
    /\ at = "up" /\ age = 1 => check # "pending"
    /\ age' = age + 1
    /\ check' = IF age = 0 THEN "pending" ELSE IF at = "down" THEN "failed" ELSE check
    /\ UNCHANGED <<token, files, at, hand, pinned, cloudKey>>

SensorStops ==
    /\ at # "down"
    /\ Stops
    /\ UNCHANGED <<token, files, age, check, cloudKey>>

\* A new FEED_SIGN_KEY_FILE, which takes a restart of the control plane.
KeyRotates ==
    /\ \E k \in FeedKeys \ {cloudKey} : cloudKey' = k
    /\ UNCHANGED <<token, files, at, hand, age, check, pinned>>

IdentityInit ==
    /\ token = "fresh"
    /\ crt = None /\ key = None /\ ca = None /\ feedPub = None
    /\ at = "down" /\ hand = None
    /\ age = 0 /\ check = "pending"
    /\ pinned = None
    /\ cloudKey \in FeedKeys

\* The process's own steps.
SensorSteps ==
    \/ Boots
    \/ EnrollAsks \/ EnrollWritesCrt \/ EnrollWritesKey \/ EnrollWritesCA \/ EnrollWritesPubs
    \/ RenewSkips \/ RenewAsks \/ RenewWritesKey \/ RenewWritesCrt \/ RenewWritesPubs

IdentityFaults == EnrollIsLost \/ EnrollBreaks \/ RenewFails \/ RenewBreaks \/ SensorStops \/ KeyRotates

IdentityNext == SensorSteps \/ CertAges \/ IdentityFaults

IdentitySpec == IdentityInit /\ [][IdentityNext]_identityVars

---------------------------------------------------------------------------
(* Properties *)

IdentityTypeOK ==
    /\ token \in {"fresh", "spent"}
    /\ crt \in Pairs \cup {None, Torn} /\ key \in Pairs \cup {None, Torn}
    /\ ca \in {CAKey, None, Torn} /\ feedPub \in FeedKeys \cup {None, Torn}
    /\ at \in {"down"} \cup Enrolling \cup Running
    /\ hand \in {None} \cup [pair : Pairs, feed : FeedKeys]
    /\ age \in 0..2 /\ check \in {"pending", "skipped", "failed"}
    /\ pinned \in FeedKeys \cup {CAKey, None} /\ cloudKey \in FeedKeys

\* RenewIfDue "rotates the cert when it is close to expiry". A certificate only expires after a renewal
\* of it has failed or while the process is down: no order of checks, restarts and rotations lets one
\* expire that could have been renewed.
RenewalInTime == age = 2 => check = "failed"

IdentityInv == IdentityTypeOK /\ RenewalInTime

\* The services rely on no more than SensorProcess says, whatever an enrollment, a renewal or a stop
\* leaves in the files: their key is the one of the file at the start, and stays until the next start.
Process == INSTANCE SensorProcess WITH up <- at \in Running

IsSensorProcess == Process!ProcessSpec

\* renew.go: "a torn write leaves the OLD cert usable until both succeed". Whatever stops or fails, a
\* sensor that is enrolled and is not writing has a certificate that is its key's. The code does not keep this one.
OldPairStaysUsable == at \in {"up", "down"} /\ crt \in Pairs /\ key \in Pairs => crt = key

===========================================================================
