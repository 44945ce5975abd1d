---------------------------- MODULE AdmissionProofs ----------------------------
(***************************************************************************)
(* What every critical section of the admission controller preserves, for  *)
(* any number of handles and any limit of the count.  The lemmas are cited *)
(* by the proofs of the modules that call these actions.                   *)
(***************************************************************************)
EXTENDS Admission, FiniteSetTheorems, TLAPS

\* The count is exact, and sealed means idle.
AdmissionInv == AdmissionTypeOK /\ CountIsLeases /\ SealedIsIdle

\* Leases are finitely many, so their number is a natural number that is 0
\* only when there is none.
LEMMA LeasesFinite ==
  ASSUME AdmissionInv
  PROVE  /\ IsFiniteSet(leases)
         /\ active_use_count = 0 <=> leases = {}
  BY HandlesFinite, FS_Subset, FS_EmptySet DEF AdmissionInv, AdmissionTypeOK, CountIsLeases

\* AdmissionController::new.
LEMMA AdmissionNewInv ==
  ASSUME NEW b \in BOOLEAN, AdmissionNew(b)
  PROVE  AdmissionInv
  BY FS_EmptySet
     DEF AdmissionNew, AdmissionInv, AdmissionTypeOK, AdmissionState, CountIsLeases,
         SealedIsIdle

\* reserve_active_use hands out one more lease and counts it.
LEMMA ReserveInv ==
  ASSUME AdmissionInv, NEW h \in Handles, ReserveActiveUse(h)
  PROVE  AdmissionInv' /\ leases' = leases \cup {h}
<1>1. Cardinality(leases \cup {h}) = Cardinality(leases) + 1
  BY LeasesFinite, FS_AddElement DEF ReserveActiveUse
<1>2. AdmissionTypeOK'
  BY DEF AdmissionInv, AdmissionTypeOK, ReserveActiveUse
<1> QED
  BY <1>1, <1>2
     DEF AdmissionInv, CountIsLeases, SealedIsIdle, ReserveActiveUse, CanReserveActiveUse,
         AcceptsWork

\* Dropping a lease gives back exactly that lease, once, and seals a waiting
\* update when it was the last one.
LEMMA ReleaseInv ==
  ASSUME AdmissionInv, NEW h, ReleaseActiveUse(h)
  PROVE  AdmissionInv' /\ leases' = leases \ {h}
<1>1. CASE h \notin leases
  BY <1>1
     DEF AdmissionInv, AdmissionTypeOK, CountIsLeases, SealedIsIdle, ReleaseActiveUse,
         admissionVars
<1>2. CASE h \in leases
  <2>1. /\ Cardinality(leases \ {h}) = Cardinality(leases) - 1
        /\ IsFiniteSet(leases \ {h})
    BY <1>2, LeasesFinite, FS_RemoveElement
  <2>2. /\ active_use_count \in Nat
        /\ active_use_count = Cardinality(leases)
        /\ active_use_count # 0
    BY <1>2, LeasesFinite DEF AdmissionInv, AdmissionTypeOK, CountIsLeases
  <2>a. active_use_count' = active_use_count - 1
    BY <1>2, <2>2 DEF ReleaseActiveUse
  <2>b. leases' = leases \ {h}
    BY <1>2 DEF ReleaseActiveUse
  <2>3. /\ active_use_count' = active_use_count - 1
        /\ active_use_count' = Cardinality(leases')
        /\ leases' = leases \ {h}
    BY <2>1, <2>2, <2>a, <2>b
  <2>4. active_use_count' = 0 <=> leases' = {}
    BY <2>1, <2>3, FS_EmptySet
  <2>5. AdmissionTypeOK'
    BY <1>2, <2>2, <2>3
       DEF AdmissionInv, AdmissionTypeOK, AdmissionState, ReleaseActiveUse
  <2>6. SealedIsIdle'
    BY <1>2, <2>3, <2>4 DEF AdmissionInv, SealedIsIdle, ReleaseActiveUse
  <2> QED
    BY <2>3, <2>5, <2>6 DEF AdmissionInv, CountIsLeases
<1> QED
  BY <1>1, <1>2

\* The methods that only move the state keep the count exact and never seal a
\* service that has a lease.
LEMMA StateChangeInv ==
  ASSUME AdmissionInv,
         \/ BeginUpdateWaiting \/ TrySealIfIdle \/ MarkActivationPending
         \/ BeginUninstall \/ Quarantine \/ \E b \in BOOLEAN : Reopen(b)
  PROVE  AdmissionInv' /\ leases' = leases
  BY LeasesFinite
     DEF AdmissionInv, AdmissionTypeOK, AdmissionState, CountIsLeases, SealedIsIdle,
         BeginUpdateWaiting, TrySealIfIdle, MarkActivationPending, BeginUninstall,
         Quarantine, Reopen

\* A critical section that does not touch the controller.
LEMMA AdmissionStutter ==
  ASSUME AdmissionInv, UNCHANGED admissionVars
  PROVE  AdmissionInv' /\ leases' = leases
  BY DEF AdmissionInv, AdmissionTypeOK, CountIsLeases, SealedIsIdle, admissionVars

=============================================================================
