------------------------------ MODULE Recovery ------------------------------
(***************************************************************************)
(* How a lab host comes back from whatever a candidate did to it           *)
(* (tools/mmd-lab/src/{ubuntu,windows,macos}_recovery.rs): the external    *)
(* controller reports what it did and saw, one event at a time, and the    *)
(* protocol moves on, refuses the event, or quarantines the host.          *)
(*                                                                         *)
(* The three protocols are one but for how the disk is rewritten.  A       *)
(* Windows apply that fails and a digest that does not match are the same  *)
(* here.  An event in a phase that has no use for it is an error without   *)
(* effect and no step.  Left out: the reasons and the trail.               *)
(***************************************************************************)
CONSTANTS
  Identities,   \* the identities a host may come up with
  None          \* no identity, no network, nothing

ASSUME IdentitiesAssumption == None \notin Identities

Kinds == {"ubuntu", "windows", "macos"}
Networks == {"recovery", "provisioning", "candidate"}
Moving == {"to provisioning", "to candidate"}

VARIABLES
  kind,       \* the host's protocol
  phase,
  image,      \* verified_readback_digest is there; macOS: reset_completed
  enrolled,   \* macOS: mdm_reenrolled
  identity, retired, network,
  used,       \* something of a candidate's may be on the disk
  passed      \* the checks the host has passed since the restore began

markers == <<image, enrolled>>
names == <<identity, retired>>
host == <<kind, phase, markers, names, network, used, passed>>

PhasesOf(k) ==
  {"idle", "boot", "writing", "rotating", "attesting", "canary", "ready", "quarantined"}
    \cup Moving \cup (IF k = "macos" THEN {"enrolling", "dfu"} ELSE {})

\* A quarantined host has lost its markers: none is left to be found ready by.
TypeOKHost ==
  /\ kind \in Kinds /\ phase \in PhasesOf(kind)
  /\ image \in BOOLEAN /\ enrolled \in BOOLEAN /\ (enrolled => image /\ kind = "macos")
  /\ identity \in Identities \cup {None} /\ retired \in Identities \cup {None}
  /\ network \in Networks \cup {None}
  /\ used \in BOOLEAN /\ passed \subseteq {"attestation", "canary"}
  /\ phase \in {"idle", "boot", "dfu", "quarantined"} => ~image

InitHost ==
  /\ kind \in Kinds /\ phase = "idle"
  /\ image = FALSE /\ enrolled = FALSE
  /\ identity = None /\ retired = None /\ network = None
  /\ used = TRUE /\ passed = {}
-----------------------------------------------------------------------------
\* Mutant of Quarantine: the markers stay.
QuarantineOnly == phase' = "quarantined" /\ UNCHANGED markers

\* The names and the network stay for whoever looks at the host.
Quarantine == phase' = "quarantined" /\ image' = FALSE /\ enrolled' = FALSE

\* clear_session_markers, and the protocol from its start.
Restart(p) ==
  /\ phase' = p
  /\ image' = FALSE /\ enrolled' = FALSE
  /\ identity' = None /\ retired' = None /\ network' = None
  /\ passed' = {} /\ UNCHANGED kind

Disregarded == UNCHANGED <<kind, names, network, passed>>

\* Out of quarantine leads a restore of the external controller, or of the
\* operator, and nothing else; elsewhere a request from within is what
\* quarantines.
Request(external, from, p) ==
  /\ \/ external /\ phase \in from \cup {"quarantined"} /\ Restart(p)
     \/ ~external /\ phase # "quarantined" /\ Quarantine /\ Disregarded
  /\ UNCHANGED used

StartExternalRestore(external) == Request(external, {"idle", "ready", "boot"}, "boot")

StartDfuFallback(external) ==
  /\ kind = "macos"
  /\ Request(external, {"idle", "ready", "boot", "writing", "dfu"}, "dfu")

\* RecoveryBootConfirmed, and the preflight of macOS, which may fail.
BootConfirmed(ok) ==
  /\ phase = "boot" /\ (ok \/ kind = "macos")
  /\ network' = "recovery"
  /\ IF ok THEN phase' = "writing" /\ UNCHANGED markers ELSE Quarantine
  /\ UNCHANGED <<kind, names, used, passed>>

\* Mutant of Written: the digest is not compared, and the disk is what it was.
WrittenUnchecked(ok) ==
  /\ phase = "writing"
  /\ image' = TRUE /\ used' = (used /\ ~ok)
  /\ phase' = IF kind = "macos" THEN "enrolling" ELSE "rotating"
  /\ UNCHANGED <<kind, enrolled, names, network, passed>>

\* ImageWriteFinished, FfuApplyFinished and EacsWipeFinished: the disk is the
\* frozen image, or one does not know what it is.
Written(ok) ==
  /\ phase = "writing"
  /\ IF ok
     THEN /\ image' = TRUE /\ used' = FALSE
          /\ phase' = IF kind = "macos" THEN "enrolling" ELSE "rotating"
          /\ UNCHANGED enrolled
     ELSE Quarantine /\ UNCHANGED used
  /\ UNCHANGED <<kind, names, network, passed>>

DfuRestoreFinished(ok) ==
  /\ phase = "dfu"
  /\ IF ok
     THEN /\ image' = TRUE /\ used' = FALSE /\ network' = "recovery"
          /\ phase' = "enrolling" /\ UNCHANGED enrolled
     ELSE Quarantine /\ UNCHANGED <<used, network>>
  /\ UNCHANGED <<kind, names, passed>>

MdmReenrollFinished(ok) ==
  /\ phase = "enrolling"
  /\ IF ok /\ image
     THEN phase' = "rotating" /\ enrolled' = TRUE /\ UNCHANGED image
     ELSE Quarantine
  /\ Disregarded /\ UNCHANGED used

\* The controller may or may not know the identity the host had before.  The
\* second of the code's comparisons, with `retired', never differs from the
\* first: a restart has cleared it.
HostIdentityRotated(new, prior) ==
  /\ phase = "rotating"
  /\ IF new \in {None, prior}
     THEN Quarantine /\ UNCHANGED names
     ELSE /\ phase' = "to provisioning" /\ identity' = new
          /\ retired' = IF prior = None THEN retired ELSE prior
          /\ UNCHANGED markers
  /\ UNCHANGED <<kind, network, used, passed>>

Destination == IF phase = "to provisioning" THEN "provisioning" ELSE "candidate"

NetworkMoved(n) ==
  /\ phase \in Moving
  /\ IF n = Destination
     THEN /\ network' = n /\ UNCHANGED markers
          /\ phase' = IF n = "provisioning" THEN "to candidate" ELSE "attesting"
     ELSE Quarantine /\ UNCHANGED network
  /\ UNCHANGED <<kind, names, used, passed>>

AttestationFinished(ok) ==
  /\ phase = "attesting"
  /\ IF ok
     THEN phase' = "canary" /\ passed' = passed \cup {"attestation"} /\ UNCHANGED markers
     ELSE Quarantine /\ UNCHANGED passed
  /\ UNCHANGED <<kind, names, network, used>>

Restored == image /\ identity # None /\ (kind = "macos" => enrolled)

EgressCanaryFinished(denied) ==
  /\ phase = "canary"
  /\ IF denied /\ network = "candidate" /\ Restored
     THEN phase' = "ready" /\ passed' = passed \cup {"canary"} /\ UNCHANGED markers
     ELSE Quarantine /\ UNCHANGED passed
  /\ UNCHANGED <<kind, names, network, used>>

ForceQuarantine == Quarantine /\ Disregarded /\ UNCHANGED used

Recover ==
  \/ \E b \in BOOLEAN :
       \/ StartExternalRestore(b) \/ StartDfuFallback(b)
       \/ BootConfirmed(b) \/ Written(b) \/ DfuRestoreFinished(b) \/ MdmReenrollFinished(b)
       \/ AttestationFinished(b) \/ EgressCanaryFinished(b)
  \/ \E new, prior \in Identities \cup {None} : HostIdentityRotated(new, prior)
  \/ \E n \in Networks : NetworkMoved(n)
  \/ ForceQuarantine
=============================================================================
