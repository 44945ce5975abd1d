------------------------------ MODULE Admission ------------------------------
(***************************************************************************)
(* The admission controller of the SeaWork service                         *)
(* (crates/lsb-seawork-service/src/admission.rs): one mutex-protected pair *)
(* of a state and an active-use count, and the leases handed to the owners *)
(* of running work.  Every method is one critical section, so every action *)
(* below is atomic.  SessionManager and Maintenance extend this module and *)
(* call its actions from theirs.                                           *)
(***************************************************************************)
EXTENDS Naturals, FiniteSets

CONSTANTS
    Handles,        \* resource handles; a lease is named by the handle holding it
    MaxActiveUse    \* u32::MAX, the largest count checked_add accepts

ASSUME HandlesFinite == IsFiniteSet(Handles)
ASSUME MaxActiveUseNat == MaxActiveUse \in Nat

VARIABLES
    admission_state,    \* Inner.state
    active_use_count,   \* Inner.active_use_count
    leases              \* handles whose ActiveUseLease is not released yet

admissionVars == <<admission_state, active_use_count, leases>>

AdmissionState == {"Open", "UpdateWaitingForIdle", "UpdateSealed",
                   "ActivationPending", "Uninstalling", "Quarantined"}

AdmissionTypeOK ==
    /\ admission_state \in AdmissionState
    /\ active_use_count \in Nat
    /\ leases \subseteq Handles

-----------------------------------------------------------------------------

AdmissionNew(initially_open) ==
    /\ admission_state = IF initially_open THEN "Open" ELSE "Quarantined"
    /\ active_use_count = 0
    /\ leases = {}

AcceptsWork == admission_state \in {"Open", "UpdateWaitingForIdle"}

\* Bug: a sealed service still takes work.
ReserveWhileSealed == admission_state # "Quarantined" /\ active_use_count + 1 <= MaxActiveUse

CanReserveActiveUse == AcceptsWork /\ active_use_count + 1 <= MaxActiveUse

ReserveActiveUse(h) ==
    /\ CanReserveActiveUse
    /\ h \notin leases
    /\ active_use_count' = active_use_count + 1
    /\ leases' = leases \cup {h}
    /\ UNCHANGED admission_state

\* Bug: the last release forgets to seal a waiting update.
ReleaseForgetsSeal(h) ==
    /\ leases' = leases \ {h}
    /\ active_use_count' = IF active_use_count > 0 THEN active_use_count - 1 ELSE 0
    /\ UNCHANGED admission_state

\* Bug: release and Drop both count, without saturation.
ReleaseTwice(h) ==
    /\ leases' = leases \ {h}
    /\ active_use_count' = active_use_count - 2
    /\ UNCHANGED admission_state

\* ActiveUseLease::release, run by Drop; only the first release counts.
ReleaseActiveUse(h) ==
    IF h \in leases
    THEN /\ leases' = leases \ {h}
         /\ active_use_count' =
                IF active_use_count > 0 THEN active_use_count - 1 ELSE 0
         /\ admission_state' =
                IF active_use_count' = 0 /\ admission_state = "UpdateWaitingForIdle"
                THEN "UpdateSealed" ELSE admission_state
    ELSE UNCHANGED admissionVars

\* Bug: sealing does not look at the count.
BeginUpdateWaitingSealsAtOnce ==
    /\ admission_state \in {"Open", "UpdateWaitingForIdle", "UpdateSealed"}
    /\ admission_state' = "UpdateSealed"
    /\ UNCHANGED <<active_use_count, leases>>

BeginUpdateWaiting ==
    /\ admission_state \in {"Open", "UpdateWaitingForIdle", "UpdateSealed"}
    /\ admission_state' = IF admission_state = "UpdateSealed" THEN "UpdateSealed"
                          ELSE IF active_use_count = 0 THEN "UpdateSealed"
                          ELSE "UpdateWaitingForIdle"
    /\ UNCHANGED <<active_use_count, leases>>

\* The branch of try_seal_if_idle that answers Ok(true); the others change nothing.
TrySealIfIdle ==
    /\ admission_state \in {"Open", "UpdateSealed"}
    /\ active_use_count = 0
    /\ admission_state' = "UpdateSealed"
    /\ UNCHANGED <<active_use_count, leases>>

MarkActivationPending ==
    /\ admission_state = "UpdateSealed"
    /\ active_use_count = 0
    /\ admission_state' = "ActivationPending"
    /\ UNCHANGED <<active_use_count, leases>>

Reopen(allowed) ==
    /\ admission_state' = IF allowed THEN "Open" ELSE "Quarantined"
    /\ UNCHANGED <<active_use_count, leases>>

BeginUninstall ==
    /\ admission_state \in {"Open", "Uninstalling"}
    /\ admission_state' = "Uninstalling"
    /\ UNCHANGED <<active_use_count, leases>>

RestoreUninstalling ==
    /\ active_use_count = 0
    /\ admission_state' = "Uninstalling"
    /\ UNCHANGED <<active_use_count, leases>>

Quarantine ==
    /\ admission_state' = "Quarantined"
    /\ UNCHANGED <<active_use_count, leases>>

-----------------------------------------------------------------------------

(* The count the seal is decided on is the number of live leases: no       *)
(* double release, no lease lost by an early return.                       *)
CountIsLeases == active_use_count = Cardinality(leases)

(* A sealed or activating service has no live lease, and an update that    *)
(* waits for idle is waiting for somebody: the last release of a lease     *)
(* (admission.rs release) never leaves the service waiting for nothing.    *)
SealedIsIdle ==
    /\ admission_state \in {"UpdateSealed", "ActivationPending"} => leases = {}
    /\ admission_state = "UpdateWaitingForIdle" => leases # {}

=============================================================================
