-------------------------- MODULE SessionManagerProofs --------------------------
(***************************************************************************)
(* The ownership invariants of the session manager, for any number of      *)
(* connections, sandboxes, dependents and users and for any quota limits.  *)
(***************************************************************************)
EXTENDS SessionManager, AdmissionProofs

\* Starts between their reservation and their installation or cancellation.
Reserved == {"prepare", "cancel", "check", "boot", "install_ok", "install_err",
             "panic_abandon", "panic_cancel"}

\* Where the slot of such a start is: in the table of its open connection, in
\* the Session value a close is working on, or already gone with it.
ReservedSlot ==
    \A h \in Sandboxes :
        /\ start[h] # "idle" => of[h] \in Sessions
        /\ start[h] \in Reserved =>
              /\ session[of[h]] \in {"open", "closing", "closed"}
              /\ session[of[h]] = "open" => slot[h] = "preparing"
              /\ session[of[h]] = "closing" => slot[h] = "husk"
        /\ slot[h] # "none" => of[h] \in Sessions /\ start[h] # "idle"

\* A boot that failed leaves no VM.
FailedBoot == \A h \in Sandboxes : start[h] = "install_err" => vm[h] = "ended"

IInv ==
    /\ TypeOK
    /\ AdmissionInv
    /\ LeaseGoesWithSlot
    /\ ChargedIsHeld
    /\ ReservedSlot
    /\ FailedBoot
    /\ NoOrphanVm

USE DEF SessionPc, SlotState, VmState, StartPc, DepState, TaskPc, DrainRecord

\* An absent replay record is a record.
LEMMA AbsentType == Absent \in ReplayRecord
  BY SandboxesExist DEF Absent, ReplayRecord

\* The service starts with no session, slot or lease.
LEMMA InitIInv == Init => IInv
<1> SUFFICES ASSUME Init PROVE IInv
  OBVIOUS
<1> USE DEF Init
<1>1. AdmissionInv
  BY AdmissionNewInv
<1>2. TypeOK
  BY <1>1, AbsentType, SandboxesExist
     DEF TypeOK, AdmissionInv, QuotaBookNew
<1>3. LeaseGoesWithSlot /\ ChargedIsHeld
  BY DEF LeaseGoesWithSlot, ChargedIsHeld, AdmissionNew, QuotaBookNew
<1>4. ReservedSlot /\ FailedBoot /\ NoOrphanVm
  BY DEF ReservedSlot, Reserved, FailedBoot, NoOrphanVm
<1> QED
  BY <1>1, <1>2, <1>3, <1>4 DEF IInv

-----------------------------------------------------------------------------
(* One lemma per action                                                    *)

\* A step that leaves slots, VMs, starts and leases alone has only its types
\* to answer for.
LEMMA QuietStep ==
  ASSUME IInv, TypeOK',
         UNCHANGED <<admissionVars, sandbox_resources, session, slot, vm, start, of>>
  PROVE  IInv'
<1>1. AdmissionInv'
  BY AdmissionStutter DEF IInv
<1>2. LeaseGoesWithSlot' /\ ChargedIsHeld'
  BY DEF IInv, LeaseGoesWithSlot, ChargedIsHeld, admissionVars
<1>3. ReservedSlot' /\ FailedBoot' /\ NoOrphanVm'
  BY DEF IInv, ReservedSlot, FailedBoot, NoOrphanVm
<1> QED
  BY <1>1, <1>2, <1>3 DEF IInv

\* CallDependent preserves the invariant.
LEMMA CallDependentStep ==
  ASSUME IInv, NEW d \in Dependents, CallDependent(d)
  PROVE  IInv'
<1>1. TypeOK'
  BY DEF IInv, TypeOK, AdmissionTypeOK, admissionVars, CallDependent, startVars, quotaVars
<1>2. UNCHANGED <<admissionVars, sandbox_resources, session, slot, vm, start, of>>
  BY DEF CallDependent, startVars, quotaVars
<1> QED
  BY <1>1, <1>2, QuietStep

\* InstallDependent preserves the invariant.
LEMMA InstallDependentStep ==
  ASSUME IInv, NEW d \in Dependents, InstallDependent(d)
  PROVE  IInv'
<1>1. TypeOK'
  BY DEF IInv, TypeOK, AdmissionTypeOK, admissionVars, InstallDependent, startVars, sandboxQuota
<1>2. UNCHANGED <<admissionVars, sandbox_resources, session, slot, vm, start, of>>
  BY DEF InstallDependent, startVars, sandboxQuota
<1> QED
  BY <1>1, <1>2, QuietStep

\* ProcessEnds preserves the invariant.
LEMMA ProcessEndsStep ==
  ASSUME IInv, NEW d \in Dependents, ProcessEnds(d)
  PROVE  IInv'
<1>1. TypeOK'
  BY DEF IInv, TypeOK, AdmissionTypeOK, admissionVars, ProcessEnds, startVars, quotaVars
<1>2. UNCHANGED <<admissionVars, sandbox_resources, session, slot, vm, start, of>>
  BY DEF ProcessEnds, startVars, quotaVars
<1> QED
  BY <1>1, <1>2, QuietStep

\* RetireDependent preserves the invariant.
LEMMA RetireDependentStep ==
  ASSUME IInv, NEW d \in Dependents, RetireDependent(d)
  PROVE  IInv'
<1>1. TypeOK'
  BY DEF IInv, TypeOK, AdmissionTypeOK, admissionVars, RetireDependent, startVars, sandboxQuota
<1>2. UNCHANGED <<admissionVars, sandbox_resources, session, slot, vm, start, of>>
  BY DEF RetireDependent, startVars, sandboxQuota
<1> QED
  BY <1>1, <1>2, QuietStep

\* BeginDependent preserves the invariant.
LEMMA BeginDependentStep ==
  ASSUME IInv, NEW d \in Dependents, NEW h \in Sandboxes, BeginDependent(d, h)
  PROVE  IInv'
<1>1. TypeOK'
  BY DEF IInv, TypeOK, AdmissionTypeOK, admissionVars, BeginDependent, startVars, sandboxQuota
<1>2. UNCHANGED <<admissionVars, sandbox_resources, session, slot, vm, start, of>>
  BY DEF BeginDependent, startVars, sandboxQuota
<1> QED
  BY <1>1, <1>2, QuietStep

\* DrainDone preserves the invariant.
LEMMA DrainDoneStep ==
  ASSUME IInv, DrainDone
  PROVE  IInv'
<1>1. TypeOK'
  BY DEF IInv, TypeOK, AdmissionTypeOK, admissionVars, DrainDone, startVars, depVars, quotaVars
<1>2. UNCHANGED <<admissionVars, sandbox_resources, session, slot, vm, start, of>>
  BY DEF DrainDone, startVars, depVars, quotaVars
<1> QED
  BY <1>1, <1>2, QuietStep

\* OpenSession preserves the invariant.
LEMMA OpenSessionStep ==
  ASSUME IInv, NEW s \in Sessions, OpenSession(s)
  PROVE  IInv'
<1>1. AdmissionInv' /\ leases' = leases
  BY AdmissionStutter DEF IInv, OpenSession
<1>2. TypeOK'
  BY <1>1 DEF IInv, AdmissionInv, TypeOK, OpenSession, startVars, depVars, sandboxQuota
<1>3. LeaseGoesWithSlot' /\ ChargedIsHeld'
  BY <1>1 DEF IInv, TypeOK, LeaseGoesWithSlot, ChargedIsHeld, OpenSession, startVars, depVars, sandboxQuota
<1>4. ReservedSlot' /\ FailedBoot'
  BY DEF IInv, TypeOK, ReservedSlot, Reserved, FailedBoot, OpenSession, startVars, depVars, sandboxQuota
<1>5. NoOrphanVm'
  BY DEF IInv, TypeOK, ReservedSlot, Reserved, FailedBoot, NoOrphanVm, OpenSession, startVars, depVars, sandboxQuota
<1> QED
  BY <1>1, <1>2, <1>3, <1>4, <1>5 DEF IInv

\* OpenWithoutHandle preserves the invariant.
LEMMA OpenWithoutHandleStep ==
  ASSUME IInv, NEW s \in Sessions, OpenWithoutHandle(s)
  PROVE  IInv'
<1>1. AdmissionInv' /\ leases' = leases
  BY AdmissionStutter DEF IInv, OpenWithoutHandle
<1>2. TypeOK'
  BY <1>1 DEF IInv, AdmissionInv, TypeOK, OpenWithoutHandle, startVars, depVars, sandboxQuota
<1>3. LeaseGoesWithSlot' /\ ChargedIsHeld'
  BY <1>1 DEF IInv, TypeOK, LeaseGoesWithSlot, ChargedIsHeld, OpenWithoutHandle, startVars, depVars, sandboxQuota
<1>4. ReservedSlot' /\ FailedBoot'
  BY DEF IInv, TypeOK, ReservedSlot, Reserved, FailedBoot, OpenWithoutHandle, startVars, depVars, sandboxQuota
<1>5. NoOrphanVm'
  BY DEF IInv, TypeOK, ReservedSlot, Reserved, FailedBoot, NoOrphanVm, OpenWithoutHandle, startVars, depVars, sandboxQuota
<1> QED
  BY <1>1, <1>2, <1>3, <1>4, <1>5 DEF IInv

\* CancelSession preserves the invariant.
LEMMA CancelSessionStep ==
  ASSUME IInv, NEW s \in Sessions, CancelSession(s)
  PROVE  IInv'
<1>1. AdmissionInv' /\ leases' = leases
  BY AdmissionStutter DEF IInv, CancelSession
<1>2. TypeOK'
  BY <1>1 DEF IInv, AdmissionInv, TypeOK, CancelSession, quotaVars, startVars, depVars, sandboxQuota
<1>3. LeaseGoesWithSlot' /\ ChargedIsHeld'
  BY <1>1 DEF IInv, TypeOK, LeaseGoesWithSlot, ChargedIsHeld, CancelSession, quotaVars, startVars, depVars, sandboxQuota
<1>4. ReservedSlot' /\ FailedBoot'
  BY DEF IInv, TypeOK, ReservedSlot, Reserved, FailedBoot, CancelSession, quotaVars, startVars, depVars, sandboxQuota
<1>5. NoOrphanVm'
  BY DEF IInv, TypeOK, ReservedSlot, Reserved, FailedBoot, NoOrphanVm, CancelSession, quotaVars, startVars, depVars, sandboxQuota
<1> QED
  BY <1>1, <1>2, <1>3, <1>4, <1>5 DEF IInv

\* StopDetached preserves the invariant.
LEMMA StopDetachedStep ==
  ASSUME IInv, NEW h \in Sandboxes, StopDetached(h)
  PROVE  IInv'
<1>1. AdmissionInv' /\ leases' = leases
  BY AdmissionStutter DEF IInv, StopDetached
<1>2. TypeOK'
  BY <1>1 DEF IInv, AdmissionInv, TypeOK, StopDetached, quotaVars, startVars, depVars, sandboxQuota
<1>3. LeaseGoesWithSlot' /\ ChargedIsHeld'
  BY <1>1 DEF IInv, TypeOK, LeaseGoesWithSlot, ChargedIsHeld, StopDetached, quotaVars, startVars, depVars, sandboxQuota
<1>4. ReservedSlot' /\ FailedBoot'
  BY DEF IInv, TypeOK, ReservedSlot, Reserved, FailedBoot, StopDetached, quotaVars, startVars, depVars, sandboxQuota
<1>5. NoOrphanVm'
  BY DEF IInv, TypeOK, ReservedSlot, Reserved, FailedBoot, NoOrphanVm, StopDetached, quotaVars, startVars, depVars, sandboxQuota
<1> QED
  BY <1>1, <1>2, <1>3, <1>4, <1>5 DEF IInv

\* DropHusk preserves the invariant.
LEMMA DropHuskStep ==
  ASSUME IInv, NEW h \in Sandboxes, DropHusk(h)
  PROVE  IInv'
<1>1. AdmissionInv' /\ leases' = leases \ {h}
  BY ReleaseInv DEF IInv, DropHusk
<1>2. TypeOK'
  BY <1>1 DEF IInv, AdmissionInv, TypeOK, DropHusk, quotaVars, startVars, depVars, sandboxQuota
<1>3. LeaseGoesWithSlot' /\ ChargedIsHeld'
  BY <1>1 DEF IInv, TypeOK, LeaseGoesWithSlot, ChargedIsHeld, DropHusk, quotaVars, startVars, depVars, sandboxQuota
<1>4. ReservedSlot' /\ FailedBoot'
  BY DEF IInv, TypeOK, ReservedSlot, Reserved, FailedBoot, DropHusk, quotaVars, startVars, depVars, sandboxQuota
<1>5. NoOrphanVm'
  BY DEF IInv, TypeOK, ReservedSlot, Reserved, FailedBoot, NoOrphanVm, DropHusk, quotaVars, startVars, depVars, sandboxQuota
<1> QED
  BY <1>1, <1>2, <1>3, <1>4, <1>5 DEF IInv

\* BeginStart preserves the invariant.
LEMMA BeginStartStep ==
  ASSUME IInv, NEW s \in Sessions, NEW h \in Sandboxes, BeginStart(s, h)
  PROVE  IInv'
<1>1. AdmissionInv' /\ leases' = leases
  BY AdmissionStutter DEF IInv, BeginStart
<1>2. TypeOK'
  BY <1>1 DEF IInv, AdmissionInv, TypeOK, BeginStart, Go, quotaVars, startVars, depVars, sandboxQuota
<1>3. LeaseGoesWithSlot' /\ ChargedIsHeld'
  BY <1>1 DEF IInv, TypeOK, LeaseGoesWithSlot, ChargedIsHeld, BeginStart, Go, quotaVars, startVars, depVars, sandboxQuota
<1>4. ReservedSlot' /\ FailedBoot'
  BY DEF IInv, TypeOK, ReservedSlot, Reserved, FailedBoot, BeginStart, Go, quotaVars, startVars, depVars, sandboxQuota
<1>5. NoOrphanVm'
  BY DEF IInv, TypeOK, ReservedSlot, Reserved, FailedBoot, NoOrphanVm, BeginStart, Go, quotaVars, startVars, depVars, sandboxQuota
<1> QED
  BY <1>1, <1>2, <1>3, <1>4, <1>5 DEF IInv

\* PrepareInstance preserves the invariant.
LEMMA PrepareInstanceStep ==
  ASSUME IInv, NEW h \in Sandboxes, PrepareInstance(h)
  PROVE  IInv'
<1>1. AdmissionInv' /\ leases' = leases
  BY AdmissionStutter DEF IInv, PrepareInstance
<1>2. TypeOK'
  BY <1>1 DEF IInv, AdmissionInv, TypeOK, PrepareInstance, Go, quotaVars, startVars, depVars, sandboxQuota
<1>3. LeaseGoesWithSlot' /\ ChargedIsHeld'
  BY <1>1 DEF IInv, TypeOK, LeaseGoesWithSlot, ChargedIsHeld, PrepareInstance, Go, quotaVars, startVars, depVars, sandboxQuota
<1>4. ReservedSlot' /\ FailedBoot'
  BY DEF IInv, TypeOK, ReservedSlot, Reserved, FailedBoot, PrepareInstance, Go, quotaVars, startVars, depVars, sandboxQuota
<1>5. NoOrphanVm'
  BY DEF IInv, TypeOK, ReservedSlot, Reserved, FailedBoot, NoOrphanVm, PrepareInstance, Go, quotaVars, startVars, depVars, sandboxQuota
<1> QED
  BY <1>1, <1>2, <1>3, <1>4, <1>5 DEF IInv

\* StartReserved preserves the invariant.
LEMMA StartReservedStep ==
  ASSUME IInv, NEW h \in Sandboxes, StartReserved(h)
  PROVE  IInv'
<1>1. AdmissionInv' /\ leases' = leases
  BY AdmissionStutter DEF IInv, StartReserved
<1>2. TypeOK'
  BY <1>1 DEF IInv, AdmissionInv, TypeOK, StartReserved, Go, Fail, quotaVars, startVars, depVars, sandboxQuota
<1>3. LeaseGoesWithSlot' /\ ChargedIsHeld'
  BY <1>1 DEF IInv, TypeOK, LeaseGoesWithSlot, ChargedIsHeld, StartReserved, Go, Fail, quotaVars, startVars, depVars, sandboxQuota
<1>4. ReservedSlot' /\ FailedBoot'
  BY DEF IInv, TypeOK, ReservedSlot, Reserved, FailedBoot, StartReserved, Go, Fail, quotaVars, startVars, depVars, sandboxQuota
<1>5. NoOrphanVm'
  BY DEF IInv, TypeOK, ReservedSlot, Reserved, FailedBoot, NoOrphanVm, StartReserved, Go, Fail, quotaVars, startVars, depVars, sandboxQuota
<1> QED
  BY <1>1, <1>2, <1>3, <1>4, <1>5 DEF IInv

\* BootEnds preserves the invariant.
LEMMA BootEndsStep ==
  ASSUME IInv, NEW h \in Sandboxes, BootEnds(h)
  PROVE  IInv'
<1>1. AdmissionInv' /\ leases' = leases
  BY AdmissionStutter DEF IInv, BootEnds
<1>2. TypeOK'
  BY <1>1 DEF IInv, AdmissionInv, TypeOK, BootEnds, Go, quotaVars, startVars, depVars, sandboxQuota
<1>3. LeaseGoesWithSlot' /\ ChargedIsHeld'
  BY <1>1 DEF IInv, TypeOK, LeaseGoesWithSlot, ChargedIsHeld, BootEnds, Go, quotaVars, startVars, depVars, sandboxQuota
<1>4. ReservedSlot' /\ FailedBoot'
  BY DEF IInv, TypeOK, ReservedSlot, Reserved, FailedBoot, BootEnds, Go, quotaVars, startVars, depVars, sandboxQuota
<1>5. NoOrphanVm'
  BY DEF IInv, TypeOK, ReservedSlot, Reserved, FailedBoot, NoOrphanVm, BootEnds, Go, quotaVars, startVars, depVars, sandboxQuota
<1> QED
  BY <1>1, <1>2, <1>3, <1>4, <1>5 DEF IInv

\* UndoFindsNothing preserves the invariant.
LEMMA UndoFindsNothingStep ==
  ASSUME IInv, NEW h \in Sandboxes, UndoFindsNothing(h)
  PROVE  IInv'
<1>1. AdmissionInv' /\ leases' = leases
  BY AdmissionStutter DEF IInv, UndoFindsNothing
<1>2. TypeOK'
  BY <1>1 DEF IInv, AdmissionInv, TypeOK, UndoFindsNothing, Go, quotaVars, startVars, depVars, sandboxQuota
<1>3. LeaseGoesWithSlot' /\ ChargedIsHeld'
  BY <1>1 DEF IInv, TypeOK, LeaseGoesWithSlot, ChargedIsHeld, UndoFindsNothing, Go, quotaVars, startVars, depVars, sandboxQuota
<1>4. ReservedSlot' /\ FailedBoot'
  BY DEF IInv, TypeOK, ReservedSlot, Reserved, FailedBoot, UndoFindsNothing, Go, quotaVars, startVars, depVars, sandboxQuota
<1>5. NoOrphanVm'
  BY DEF IInv, TypeOK, ReservedSlot, Reserved, FailedBoot, NoOrphanVm, UndoFindsNothing, Go, quotaVars, startVars, depVars, sandboxQuota
<1> QED
  BY <1>1, <1>2, <1>3, <1>4, <1>5 DEF IInv

\* StopManagedVm preserves the invariant.
LEMMA StopManagedVmStep ==
  ASSUME IInv, NEW h \in Sandboxes, StopManagedVm(h)
  PROVE  IInv'
<1>1. AdmissionInv' /\ leases' = leases
  BY AdmissionStutter DEF IInv, StopManagedVm
<1>2. TypeOK'
  BY <1>1 DEF IInv, AdmissionInv, TypeOK, StopManagedVm, Go, startVars, depVars, sandboxQuota
<1>3. LeaseGoesWithSlot' /\ ChargedIsHeld'
  BY <1>1 DEF IInv, TypeOK, LeaseGoesWithSlot, ChargedIsHeld, StopManagedVm, Go, startVars, depVars, sandboxQuota
<1>4. ReservedSlot' /\ FailedBoot'
  BY DEF IInv, TypeOK, ReservedSlot, Reserved, FailedBoot, StopManagedVm, Go, startVars, depVars, sandboxQuota
<1>5. NoOrphanVm'
  BY DEF IInv, TypeOK, ReservedSlot, Reserved, FailedBoot, NoOrphanVm, StopManagedVm, Go, startVars, depVars, sandboxQuota
<1> QED
  BY <1>1, <1>2, <1>3, <1>4, <1>5 DEF IInv

\* StopVm preserves the invariant.
LEMMA StopVmStep ==
  ASSUME IInv, NEW h \in Sandboxes, StopVm(h)
  PROVE  IInv'
<1>1. AdmissionInv' /\ leases' = leases
  BY AdmissionStutter DEF IInv, StopVm
<1>2. TypeOK'
  BY <1>1 DEF IInv, AdmissionInv, TypeOK, StopVm, quotaVars, startVars, depVars, sandboxQuota
<1>3. LeaseGoesWithSlot' /\ ChargedIsHeld'
  BY <1>1 DEF IInv, TypeOK, LeaseGoesWithSlot, ChargedIsHeld, StopVm, quotaVars, startVars, depVars, sandboxQuota
<1>4. ReservedSlot' /\ FailedBoot'
  BY DEF IInv, TypeOK, ReservedSlot, Reserved, FailedBoot, StopVm, quotaVars, startVars, depVars, sandboxQuota
<1>5. NoOrphanVm'
  BY DEF IInv, TypeOK, ReservedSlot, Reserved, FailedBoot, NoOrphanVm, StopVm, quotaVars, startVars, depVars, sandboxQuota
<1> QED
  BY <1>1, <1>2, <1>3, <1>4, <1>5 DEF IInv

\* DropStopped preserves the invariant.
LEMMA DropStoppedStep ==
  ASSUME IInv, NEW h \in Sandboxes, DropStopped(h)
  PROVE  IInv'
<1>1. AdmissionInv' /\ leases' = leases \ {h}
  BY ReleaseInv DEF IInv, DropStopped
<1>2. TypeOK'
  BY <1>1 DEF IInv, AdmissionInv, TypeOK, DropStopped, quotaVars, startVars, depVars, sandboxQuota
<1>3. LeaseGoesWithSlot' /\ ChargedIsHeld'
  BY <1>1 DEF IInv, TypeOK, LeaseGoesWithSlot, ChargedIsHeld, DropStopped, quotaVars, startVars, depVars, sandboxQuota
<1>4. ReservedSlot' /\ FailedBoot'
  BY DEF IInv, TypeOK, ReservedSlot, Reserved, FailedBoot, DropStopped, quotaVars, startVars, depVars, sandboxQuota
<1>5. NoOrphanVm'
  BY DEF IInv, TypeOK, ReservedSlot, Reserved, FailedBoot, NoOrphanVm, DropStopped, quotaVars, startVars, depVars, sandboxQuota
<1> QED
  BY <1>1, <1>2, <1>3, <1>4, <1>5 DEF IInv

\* VmExits preserves the invariant.
LEMMA VmExitsStep ==
  ASSUME IInv, NEW h \in Sandboxes, VmExits(h)
  PROVE  IInv'
<1>1. AdmissionInv' /\ leases' = leases
  BY AdmissionStutter DEF IInv, VmExits
<1>2. TypeOK'
  BY <1>1 DEF IInv, AdmissionInv, TypeOK, VmExits, quotaVars, startVars, depVars, sandboxQuota
<1>3. LeaseGoesWithSlot' /\ ChargedIsHeld'
  BY <1>1 DEF IInv, TypeOK, LeaseGoesWithSlot, ChargedIsHeld, VmExits, quotaVars, startVars, depVars, sandboxQuota
<1>4. ReservedSlot' /\ FailedBoot'
  BY DEF IInv, TypeOK, ReservedSlot, Reserved, FailedBoot, VmExits, quotaVars, startVars, depVars, sandboxQuota
<1>5. NoOrphanVm'
  BY DEF IInv, TypeOK, ReservedSlot, Reserved, FailedBoot, NoOrphanVm, VmExits, quotaVars, startVars, depVars, sandboxQuota
<1> QED
  BY <1>1, <1>2, <1>3, <1>4, <1>5 DEF IInv

\* BeginShutdown preserves the invariant.
LEMMA BeginShutdownStep ==
  ASSUME IInv, BeginShutdown
  PROVE  IInv'
<1>1. AdmissionInv' /\ leases' = leases
  BY StateChangeInv DEF IInv, BeginShutdown
<1>2. TypeOK'
  BY <1>1 DEF IInv, AdmissionInv, TypeOK, BeginShutdown, StartDrain, OpenSessions, quotaVars, startVars, depVars, sandboxQuota
<1>3. LeaseGoesWithSlot' /\ ChargedIsHeld'
  BY <1>1 DEF IInv, TypeOK, LeaseGoesWithSlot, ChargedIsHeld, BeginShutdown, StartDrain, OpenSessions, quotaVars, startVars, depVars, sandboxQuota
<1>4. ReservedSlot' /\ FailedBoot'
  BY DEF IInv, TypeOK, ReservedSlot, Reserved, FailedBoot, BeginShutdown, StartDrain, OpenSessions, quotaVars, startVars, depVars, sandboxQuota
<1>5. NoOrphanVm'
  BY DEF IInv, TypeOK, ReservedSlot, Reserved, FailedBoot, NoOrphanVm, BeginShutdown, StartDrain, OpenSessions, quotaVars, startVars, depVars, sandboxQuota
<1> QED
  BY <1>1, <1>2, <1>3, <1>4, <1>5 DEF IInv

\* PrepareUninstall preserves the invariant.
LEMMA PrepareUninstallStep ==
  ASSUME IInv, PrepareUninstall
  PROVE  IInv'
<1>1. AdmissionInv' /\ leases' = leases
  BY StateChangeInv DEF IInv, PrepareUninstall
<1>2. TypeOK'
  BY <1>1 DEF IInv, AdmissionInv, TypeOK, PrepareUninstall, StartDrain, OpenSessions, quotaVars, startVars, depVars, sandboxQuota
<1>3. LeaseGoesWithSlot' /\ ChargedIsHeld'
  BY <1>1 DEF IInv, TypeOK, LeaseGoesWithSlot, ChargedIsHeld, PrepareUninstall, StartDrain, OpenSessions, quotaVars, startVars, depVars, sandboxQuota
<1>4. ReservedSlot' /\ FailedBoot'
  BY DEF IInv, TypeOK, ReservedSlot, Reserved, FailedBoot, PrepareUninstall, StartDrain, OpenSessions, quotaVars, startVars, depVars, sandboxQuota
<1>5. NoOrphanVm'
  BY DEF IInv, TypeOK, ReservedSlot, Reserved, FailedBoot, NoOrphanVm, PrepareUninstall, StartDrain, OpenSessions, quotaVars, startVars, depVars, sandboxQuota
<1> QED
  BY <1>1, <1>2, <1>3, <1>4, <1>5 DEF IInv

\* AdmissionChanges preserves the invariant.
LEMMA AdmissionChangesStep ==
  ASSUME IInv, AdmissionChanges
  PROVE  IInv'
<1>1. AdmissionInv' /\ leases' = leases
  BY StateChangeInv DEF IInv, AdmissionChanges
<1>2. TypeOK'
  BY <1>1 DEF IInv, AdmissionInv, TypeOK, AdmissionChanges, quotaVars, startVars, depVars, sandboxQuota
<1>3. LeaseGoesWithSlot' /\ ChargedIsHeld'
  BY <1>1 DEF IInv, TypeOK, LeaseGoesWithSlot, ChargedIsHeld, AdmissionChanges, quotaVars, startVars, depVars, sandboxQuota
<1>4. ReservedSlot' /\ FailedBoot'
  BY DEF IInv, TypeOK, ReservedSlot, Reserved, FailedBoot, AdmissionChanges, quotaVars, startVars, depVars, sandboxQuota
<1>5. NoOrphanVm'
  BY DEF IInv, TypeOK, ReservedSlot, Reserved, FailedBoot, NoOrphanVm, AdmissionChanges, quotaVars, startVars, depVars, sandboxQuota
<1> QED
  BY <1>1, <1>2, <1>3, <1>4, <1>5 DEF IInv

\* The records close and stop turn into tombstones stay records.
LEMMA RetiredType ==
  ASSUME NEW r \in ReplayRecord
  PROVE  [r EXCEPT !.state = "Retired"] \in ReplayRecord
  BY DEF ReplayRecord

\* FinishStop preserves the invariant.
LEMMA FinishStopStep ==
  ASSUME IInv, NEW h \in Sandboxes, FinishStop(h)
  PROVE  IInv'
<1>1. AdmissionInv' /\ leases' = leases
  BY AdmissionStutter DEF IInv, FinishStop
<1>r. replay' \in [ReplayKeys -> ReplayRecord]
  BY RetiredType DEF IInv, TypeOK, FinishStop
<1>2. TypeOK'
  BY <1>1, <1>r DEF IInv, AdmissionInv, TypeOK, FinishStop, ReleaseSandboxes, startVars, depVars, sandboxQuota
<1>3. LeaseGoesWithSlot' /\ ChargedIsHeld'
  BY <1>1 DEF IInv, TypeOK, LeaseGoesWithSlot, ChargedIsHeld, FinishStop, ReleaseSandboxes, startVars, depVars, sandboxQuota
<1>4. ReservedSlot' /\ FailedBoot'
  BY DEF IInv, TypeOK, ReservedSlot, Reserved, FailedBoot, FinishStop, ReleaseSandboxes, startVars, depVars, sandboxQuota
<1>5. NoOrphanVm'
  BY DEF IInv, TypeOK, ReservedSlot, Reserved, FailedBoot, NoOrphanVm, FinishStop, ReleaseSandboxes, startVars, depVars, sandboxQuota
<1> QED
  BY <1>1, <1>2, <1>3, <1>4, <1>5 DEF IInv

\* CompleteStartReplay preserves the invariant.
LEMMA CompleteStartReplayStep ==
  ASSUME IInv, NEW h \in Sandboxes, CompleteStartReplay(h)
  PROVE  IInv'
<1>1. AdmissionInv' /\ leases' = leases
  BY AdmissionStutter DEF IInv, CompleteStartReplay
<1>r. replay' \in [ReplayKeys -> ReplayRecord]
  <2>1. [state |-> "Running", session |-> of[h], sandbox |-> h] \in ReplayRecord
    BY DEF IInv, TypeOK, ReplayRecord
  <2> QED
    BY <2>1 DEF IInv, TypeOK, CompleteStartReplay
<1>2. TypeOK'
  BY <1>1, <1>r DEF IInv, AdmissionInv, TypeOK, CompleteStartReplay, Go, quotaVars, startVars, depVars, sandboxQuota
<1>3. LeaseGoesWithSlot' /\ ChargedIsHeld'
  BY <1>1 DEF IInv, TypeOK, LeaseGoesWithSlot, ChargedIsHeld, CompleteStartReplay, Go, quotaVars, startVars, depVars, sandboxQuota
<1>4. ReservedSlot' /\ FailedBoot'
  BY DEF IInv, TypeOK, ReservedSlot, Reserved, FailedBoot, CompleteStartReplay, Go, quotaVars, startVars, depVars, sandboxQuota
<1>5. NoOrphanVm'
  BY DEF IInv, TypeOK, ReservedSlot, Reserved, FailedBoot, NoOrphanVm, CompleteStartReplay, Go, quotaVars, startVars, depVars, sandboxQuota
<1> QED
  BY <1>1, <1>2, <1>3, <1>4, <1>5 DEF IInv

\* AbandonStartReplay preserves the invariant.
LEMMA AbandonStartReplayStep ==
  ASSUME IInv, NEW h \in Sandboxes, AbandonStartReplay(h)
  PROVE  IInv'
<1>1. AdmissionInv' /\ leases' = leases
  BY AdmissionStutter DEF IInv, AbandonStartReplay
<1>r. replay' \in [ReplayKeys -> ReplayRecord]
  BY AbsentType DEF IInv, TypeOK, AbandonStartReplay
<1>2. TypeOK'
  BY <1>1, <1>r DEF IInv, AdmissionInv, TypeOK, AbandonStartReplay, Go, quotaVars, startVars, depVars, sandboxQuota
<1>3. LeaseGoesWithSlot' /\ ChargedIsHeld'
  BY <1>1 DEF IInv, TypeOK, LeaseGoesWithSlot, ChargedIsHeld, AbandonStartReplay, Go, quotaVars, startVars, depVars, sandboxQuota
<1>4. ReservedSlot' /\ FailedBoot'
  BY DEF IInv, TypeOK, ReservedSlot, Reserved, FailedBoot, AbandonStartReplay, Go, quotaVars, startVars, depVars, sandboxQuota
<1>5. NoOrphanVm'
  BY DEF IInv, TypeOK, ReservedSlot, Reserved, FailedBoot, NoOrphanVm, AbandonStartReplay, Go, quotaVars, startVars, depVars, sandboxQuota
<1> QED
  BY <1>1, <1>2, <1>3, <1>4, <1>5 DEF IInv

\* The locked part of close, called by a connection and by drain_all.
LEMMA DetachSessionStep ==
  ASSUME IInv, NEW s \in Sessions, DetachSession(s), drain' \in DrainRecord
  PROVE  IInv'
<1>1. AdmissionInv' /\ leases' = leases
  BY AdmissionStutter DEF IInv, DetachSession
<1>r. replay' \in [ReplayKeys -> ReplayRecord]
  BY RetiredType DEF IInv, TypeOK, DetachSession
<1>2. TypeOK'
  BY <1>1, <1>r
     DEF IInv, AdmissionInv, TypeOK, DetachSession, Owns, ReleaseSandboxes, startVars
<1>3. LeaseGoesWithSlot' /\ ChargedIsHeld'
  BY <1>1
     DEF IInv, TypeOK, LeaseGoesWithSlot, ChargedIsHeld, DetachSession, Owns,
         ReleaseSandboxes
<1>4. ReservedSlot' /\ FailedBoot'
  BY DEF IInv, TypeOK, ReservedSlot, Reserved, FailedBoot, DetachSession, Owns, startVars
<1>5. NoOrphanVm'
  BY DEF IInv, TypeOK, NoOrphanVm, DetachSession, Owns, startVars
<1> QED
  BY <1>1, <1>2, <1>3, <1>4, <1>5 DEF IInv

\* DrainNext preserves the invariant.
LEMMA DrainNextStep ==
  ASSUME IInv, NEW s \in Sessions, DrainNext(s)
  PROVE  IInv'
<1>1. drain' \in DrainRecord
  <2>1. drain \in DrainRecord /\ drain.todo \ {s} \in SUBSET Sessions
    BY DEF IInv, TypeOK
  <2>2. ASSUME NEW T \in SUBSET Sessions, NEW c \in Sessions \cup {NoSession}
        PROVE  [drain EXCEPT !.todo = T, !.current = c] \in DrainRecord
    BY <2>1
  <2>3. /\ [drain EXCEPT !.todo = drain.todo \ {s}, !.current = s] \in DrainRecord
        /\ [drain EXCEPT !.todo = drain.todo \ {s}, !.current = NoSession] \in DrainRecord
    BY <2>1, <2>2
  <2>4. \/ drain' = [drain EXCEPT !.todo = drain.todo \ {s}, !.current = s]
        \/ drain' = [drain EXCEPT !.todo = drain.todo \ {s}, !.current = NoSession]
    BY DEF DrainNext
  <2> QED
    BY <2>3, <2>4
<1>2. CASE session[s] = "open"
  BY <1>1, <1>2, DetachSessionStep DEF DrainNext
<1>3. CASE session[s] # "open"
  <2>1. UNCHANGED <<admissionVars, quotaVars, session, slot, vm, startVars, replay, depVars>>
    BY <1>3 DEF DrainNext
  <2>2. TypeOK'
    BY <1>1, <2>1
       DEF IInv, TypeOK, AdmissionTypeOK, admissionVars, quotaVars, startVars, depVars
  <2> QED
    BY <2>1, <2>2, QuietStep DEF quotaVars, startVars
<1> QED
  BY <1>2, <1>3

\* BeginStartReplay preserves the invariant.
LEMMA BeginStartReplayStep ==
  ASSUME IInv, NEW s \in Sessions, NEW h \in Sandboxes, NEW k \in Keys,
         BeginStartReplay(s, h, k)
  PROVE  IInv'
<1>1. AdmissionInv' /\ leases' = leases
  BY AdmissionStutter DEF IInv, BeginStartReplay
<1>2. /\ replay' \in [ReplayKeys -> ReplayRecord]
      /\ \E pc \in {"refused", "replayed", "reserve"} : start' = [start EXCEPT ![h] = pc]
  <2>1. CASE session[s] # "open"
    BY <2>1 DEF IInv, TypeOK, BeginStartReplay, Go
  <2>2. CASE session[s] = "open"
    <3>1. PICK expired \in SUBSET Tombstones :
            LET i == <<IdentityOf[s], k>>
                records == Prune(replay, expired)
                known == {j \in ReplayKeys : records[j].state # "Absent"}
            IN IF i \in known
               THEN /\ replay' = records
                    /\ Go(h, IF records[i].state = "Running" /\ records[i].session = s
                             THEN "replayed" ELSE "refused")
               ELSE IF Cardinality(known) >= MaxStartReplayRecords
               THEN replay' = records /\ Go(h, "refused")
               ELSE /\ replay' = [records EXCEPT ![i] =
                          [state |-> "Preparing", session |-> s, sandbox |-> h]]
                    /\ Go(h, "reserve")
      BY <2>2 DEF BeginStartReplay
    <3>2. Prune(replay, expired) \in [ReplayKeys -> ReplayRecord]
      BY AbsentType DEF IInv, TypeOK, Prune
    <3>3. [state |-> "Preparing", session |-> s, sandbox |-> h] \in ReplayRecord
      BY DEF ReplayRecord
    <3> QED
      BY <3>1, <3>2, <3>3 DEF Go
  <2> QED
    BY <2>1, <2>2
<1>3. /\ start[h] = "idle"
      /\ session[s] \in {"open", "closing", "closed"}
      /\ of' = [of EXCEPT ![h] = s]
      /\ key' = [key EXCEPT ![h] = k]
      /\ UNCHANGED <<quotaVars, session, slot, vm, depVars, drain>>
  BY DEF BeginStartReplay
<1>4. TypeOK'
  BY <1>1, <1>2, <1>3 DEF IInv, AdmissionInv, TypeOK, quotaVars, depVars
<1>5. LeaseGoesWithSlot' /\ ChargedIsHeld'
  BY <1>1, <1>3 DEF IInv, LeaseGoesWithSlot, ChargedIsHeld, quotaVars
<1>6. ReservedSlot' /\ FailedBoot' /\ NoOrphanVm'
  BY <1>2, <1>3 DEF IInv, TypeOK, ReservedSlot, Reserved, FailedBoot, NoOrphanVm
<1> QED
  BY <1>1, <1>4, <1>5, <1>6 DEF IInv

\* The removal of a slot without a VM, by a cancelled or a failed start.
LEMMA RemovePreparingFacts ==
  ASSUME IInv, NEW h \in Sandboxes, RemovePreparing(h)
  PROVE  /\ AdmissionInv'
         /\ leases' = leases \ {h}
         /\ sandbox_resources' = sandbox_resources \ {h}
         /\ slot' = [slot EXCEPT ![h] = "none"]
<1>1. AdmissionInv' /\ leases' = leases \ {h}
  BY ReleaseInv DEF IInv, RemovePreparing
<1> QED
  BY <1>1 DEF RemovePreparing, ReleaseSandboxes

\* Once a start is past its reservation steps, nothing that the invariant says
\* of reserved starts applies to it.
LEMMA RemovedStep ==
  ASSUME IInv, NEW h \in Sandboxes, RemovePreparing(h), start[h] \in Reserved,
         NEW pc \in {"failed", "abandon"}, start' = [start EXCEPT ![h] = pc],
         vm[h] \notin {"booting", "up"},
         UNCHANGED <<session, vm, of, key, replay, depVars, drain>>
  PROVE  IInv'
<1>1. TypeOK'
  BY RemovePreparingFacts DEF IInv, AdmissionInv, TypeOK, depVars
<1>2. LeaseGoesWithSlot' /\ ChargedIsHeld'
  BY RemovePreparingFacts DEF IInv, TypeOK, LeaseGoesWithSlot, ChargedIsHeld
<1>3. ReservedSlot' /\ FailedBoot' /\ NoOrphanVm'
  BY RemovePreparingFacts
     DEF IInv, TypeOK, ReservedSlot, Reserved, FailedBoot, NoOrphanVm
<1> QED
  BY <1>1, <1>2, <1>3, RemovePreparingFacts DEF IInv

\* CancelManagedVmReservation preserves the invariant.
LEMMA CancelManagedVmReservationStep ==
  ASSUME IInv, NEW h \in Sandboxes, CancelManagedVmReservation(h)
  PROVE  IInv'
<1>1. PICK pc \in {"failed", "abandon"} : start' = [start EXCEPT ![h] = pc]
  BY DEF CancelManagedVmReservation, Fail, Go
<1>2. /\ start[h] \in {"cancel", "panic_cancel"}
      /\ UNCHANGED <<session, vm, of, key, replay, depVars, drain>>
  BY DEF CancelManagedVmReservation
<1>3. CASE session[of[h]] = "open" /\ slot[h] = "preparing"
  <2>1. RemovePreparing(h)
    BY <1>3 DEF CancelManagedVmReservation
  <2>2. vm[h] \notin {"booting", "up"}
    BY <1>2, <1>3 DEF IInv, NoOrphanVm
  <2> QED
    BY <1>1, <1>2, <2>1, <2>2, RemovedStep DEF Reserved
<1>4. CASE ~(session[of[h]] = "open" /\ slot[h] = "preparing")
  <2>1. UNCHANGED <<admissionVars, sandboxQuota, slot>>
    BY <1>4 DEF CancelManagedVmReservation
  <2>2. AdmissionInv' /\ leases' = leases
    BY <2>1, AdmissionStutter DEF IInv
  <2>3. TypeOK'
    BY <1>1, <1>2, <2>1, <2>2 DEF IInv, AdmissionInv, TypeOK, sandboxQuota, depVars
  <2>4. LeaseGoesWithSlot' /\ ChargedIsHeld'
    BY <2>1, <2>2 DEF IInv, LeaseGoesWithSlot, ChargedIsHeld, sandboxQuota
  <2>5. ReservedSlot' /\ FailedBoot' /\ NoOrphanVm'
    BY <1>1, <1>2, <2>1 DEF IInv, TypeOK, ReservedSlot, Reserved, FailedBoot, NoOrphanVm
  <2> QED
    BY <2>2, <2>3, <2>4, <2>5 DEF IInv
<1> QED
  BY <1>3, <1>4

\* InstallVm preserves the invariant.
LEMMA InstallVmStep ==
  ASSUME IInv, NEW h \in Sandboxes, InstallVm(h)
  PROVE  IInv'
<1>1. /\ start[h] \in {"install_ok", "install_err"}
      /\ UNCHANGED <<session, of, key, replay, depVars, drain>>
  BY DEF InstallVm
<1>2. CASE session[of[h]] # "open" \/ slot[h] # "preparing"
  <2>1. PICK pc \in {"failed", "abandon"} : start' = [start EXCEPT ![h] = pc]
    BY <1>2 DEF InstallVm, Fail, Go
  <2>2. /\ vm' = [vm EXCEPT ![h] = "ended"]
        /\ UNCHANGED <<admissionVars, sandboxQuota, slot>>
    BY <1>2 DEF InstallVm, StopUnwantedVm
  <2>3. AdmissionInv' /\ leases' = leases
    BY <2>2, AdmissionStutter DEF IInv
  <2>4. TypeOK'
    BY <1>1, <2>1, <2>2, <2>3 DEF IInv, AdmissionInv, TypeOK, sandboxQuota, depVars
  <2>5. LeaseGoesWithSlot' /\ ChargedIsHeld'
    BY <2>2, <2>3 DEF IInv, LeaseGoesWithSlot, ChargedIsHeld, sandboxQuota
  <2>6. ReservedSlot' /\ FailedBoot' /\ NoOrphanVm'
    BY <1>1, <2>1, <2>2 DEF IInv, TypeOK, ReservedSlot, Reserved, FailedBoot, NoOrphanVm
  <2> QED
    BY <2>3, <2>4, <2>5, <2>6 DEF IInv
<1>3. CASE /\ session[of[h]] = "open" /\ slot[h] = "preparing"
           /\ start[h] = "install_ok"
  <2>1. PICK pc \in {"started", "complete"} : start' = [start EXCEPT ![h] = pc]
    BY <1>3 DEF InstallVm, Go
  <2>2. /\ slot' = [slot EXCEPT ![h] = "running"]
        /\ UNCHANGED <<admissionVars, sandboxQuota, vm>>
    BY <1>3 DEF InstallVm
  <2>3. AdmissionInv' /\ leases' = leases
    BY <2>2, AdmissionStutter DEF IInv
  <2>4. TypeOK'
    BY <1>1, <2>1, <2>2, <2>3 DEF IInv, AdmissionInv, TypeOK, sandboxQuota, depVars
  <2>5. LeaseGoesWithSlot' /\ ChargedIsHeld'
    BY <1>3, <2>2, <2>3 DEF IInv, TypeOK, LeaseGoesWithSlot, ChargedIsHeld, sandboxQuota
  <2>6. ReservedSlot' /\ FailedBoot' /\ NoOrphanVm'
    BY <1>1, <2>1, <2>2 DEF IInv, TypeOK, ReservedSlot, Reserved, FailedBoot, NoOrphanVm
  <2> QED
    BY <2>3, <2>4, <2>5, <2>6 DEF IInv
<1>4. CASE /\ session[of[h]] = "open" /\ slot[h] = "preparing"
           /\ start[h] = "install_err"
  <2>1. PICK pc \in {"failed", "abandon"} : start' = [start EXCEPT ![h] = pc]
    BY <1>4 DEF InstallVm, Fail, Go
  <2>2. RemovePreparing(h) /\ UNCHANGED vm
    BY <1>4 DEF InstallVm
  <2>3. vm[h] \notin {"booting", "up"}
    BY <1>4 DEF IInv, FailedBoot
  <2> QED
    BY <1>1, <1>4, <2>1, <2>2, <2>3, RemovedStep DEF Reserved
<1> QED
  BY <1>1, <1>2, <1>3, <1>4

\* ReserveManagedVm preserves the invariant.
LEMMA ReserveManagedVmStep ==
  ASSUME IInv, NEW h \in Sandboxes, ReserveManagedVm(h)
  PROVE  IInv'
<1>1. /\ start[h] = "reserve"
      /\ UNCHANGED <<session, vm, of, key, replay, depVars, drain>>
  BY DEF ReserveManagedVm
<1>2. CASE /\ session[of[h]] = "open"
           /\ CanReserveActiveUse
           /\ CanReserveSandbox(of[h], h)
  <2>1. /\ ReserveActiveUse(h)
        /\ sandbox_resources' = sandbox_resources \cup {h}
        /\ slot' = [slot EXCEPT ![h] = "preparing"]
        /\ start' = [start EXCEPT ![h] = "prepare"]
    BY <1>2 DEF ReserveManagedVm, ReserveSandbox, Go
  <2>2. AdmissionInv' /\ leases' = leases \cup {h}
    BY <2>1, ReserveInv, SandboxesAreHandles DEF IInv
  <2>3. TypeOK'
    BY <1>1, <2>1, <2>2 DEF IInv, AdmissionInv, TypeOK, depVars
  <2>4. LeaseGoesWithSlot' /\ ChargedIsHeld'
    BY <2>1, <2>2 DEF IInv, TypeOK, LeaseGoesWithSlot, ChargedIsHeld
  <2>5. slot[h] = "none"
    BY <2>1 DEF IInv, LeaseGoesWithSlot, ReserveActiveUse
  <2>6. ReservedSlot' /\ FailedBoot' /\ NoOrphanVm'
    BY <1>1, <1>2, <2>1, <2>5
       DEF IInv, TypeOK, ReservedSlot, Reserved, FailedBoot, NoOrphanVm
  <2> QED
    BY <2>2, <2>3, <2>4, <2>6 DEF IInv
<1>3. CASE ~(/\ session[of[h]] = "open"
             /\ CanReserveActiveUse
             /\ CanReserveSandbox(of[h], h))
  <2>1. PICK pc \in {"failed", "abandon"} : start' = [start EXCEPT ![h] = pc]
    BY <1>3 DEF ReserveManagedVm, Fail, Go
  <2>2. UNCHANGED <<admissionVars, sandboxQuota, slot>>
    BY <1>3 DEF ReserveManagedVm
  <2>3. AdmissionInv' /\ leases' = leases
    BY <2>2, AdmissionStutter DEF IInv
  <2>4. TypeOK'
    BY <1>1, <2>1, <2>2, <2>3 DEF IInv, AdmissionInv, TypeOK, sandboxQuota, depVars
  <2>5. LeaseGoesWithSlot' /\ ChargedIsHeld'
    BY <2>2, <2>3 DEF IInv, LeaseGoesWithSlot, ChargedIsHeld, sandboxQuota
  <2>6. ReservedSlot' /\ FailedBoot' /\ NoOrphanVm'
    BY <1>1, <2>1, <2>2 DEF IInv, TypeOK, ReservedSlot, Reserved, FailedBoot, NoOrphanVm
  <2> QED
    BY <2>3, <2>4, <2>5, <2>6 DEF IInv
<1> QED
  BY <1>2, <1>3

-----------------------------------------------------------------------------

\* The invariant is inductive: each action by its lemma.
LEMMA NextIInv == IInv /\ [Next]_vars => IInv'
<1> SUFFICES ASSUME IInv, [Next]_vars PROVE IInv'
  OBVIOUS
<1>1. CASE UNCHANGED vars
  <2>1. TypeOK'
    BY <1>1
       DEF IInv, TypeOK, AdmissionTypeOK, vars, admissionVars, quotaVars, startVars, depVars
  <2> QED
    BY <1>1, <2>1, QuietStep DEF vars, quotaVars, startVars
<1>2. ASSUME NEW s \in Sessions,
             \/ OpenSession(s) \/ OpenWithoutHandle(s) \/ CloseSession(s)
             \/ CancelSession(s) \/ DrainNext(s)
      PROVE  IInv'
  <2>1. CASE CloseSession(s)
    <3>1. drain' \in DrainRecord
      BY <2>1 DEF CloseSession, IInv, TypeOK
    <3> QED
      BY <2>1, <3>1, DetachSessionStep DEF CloseSession
  <2> QED
    BY <1>2, <2>1, OpenSessionStep, OpenWithoutHandleStep, CancelSessionStep, DrainNextStep
<1>3. ASSUME NEW h \in Sandboxes, StartStep(h)
      PROVE  IInv'
  BY <1>3, ReserveManagedVmStep, PrepareInstanceStep, CancelManagedVmReservationStep,
     StartReservedStep, BootEndsStep, InstallVmStep, CompleteStartReplayStep,
     AbandonStartReplayStep, UndoFindsNothingStep DEF StartStep
<1>4. ASSUME NEW h \in Sandboxes,
             StopStep(h) \/ CloseStep(h) \/ StopManagedVm(h) \/ VmExits(h)
      PROVE  IInv'
  BY <1>4, StopVmStep, FinishStopStep, DropStoppedStep, StopDetachedStep, DropHuskStep,
     StopManagedVmStep, VmExitsStep DEF StopStep, CloseStep
<1>5. ASSUME NEW h \in Sandboxes, NEW s \in Sessions, BeginStart(s, h)
      PROVE  IInv'
  BY <1>5, BeginStartStep
<1>6. ASSUME NEW h \in Sandboxes, NEW s \in Sessions, NEW k \in Keys,
             BeginStartReplay(s, h, k)
      PROVE  IInv'
  BY <1>6, BeginStartReplayStep
<1>7. ASSUME NEW d \in Dependents,
             \/ CallDependent(d) \/ InstallDependent(d) \/ ProcessEnds(d)
             \/ RetireDependent(d) \/ \E h \in Sandboxes : BeginDependent(d, h)
      PROVE  IInv'
  BY <1>7, CallDependentStep, InstallDependentStep, ProcessEndsStep, RetireDependentStep,
     BeginDependentStep
<1>8. CASE BeginShutdown \/ PrepareUninstall \/ DrainDone \/ AdmissionChanges
  BY <1>8, BeginShutdownStep, PrepareUninstallStep, DrainDoneStep, AdmissionChangesStep
<1> QED
  BY <1>1, <1>2, <1>3, <1>4, <1>5, <1>6, <1>7, <1>8 DEF Next

(* The strengthened invariant holds in every state of every instance.      *)
THEOREM Ownership == Spec => []IInv
  BY InitIInv, NextIInv, PTL DEF Spec

(* Variables keep their types.                                             *)
THEOREM TypeCorrect == Spec => []TypeOK
  BY Ownership, PTL DEF IInv

(* Every lease belongs to one slot and every slot holds one lease, on all  *)
(* paths of close, stop, cancel and failed install.                        *)
THEOREM LeasesFollowSlots == Spec => []LeaseGoesWithSlot
  BY Ownership, PTL DEF IInv

(* The count that decides the seal is the number of leases.                *)
THEOREM CountExact == Spec => []CountIsLeases
<1>1. IInv => CountIsLeases
  BY DEF IInv, AdmissionInv
<1> QED
  BY <1>1, Ownership, PTL

(* Sealed and activating mean idle, waiting means that somebody is active. *)
THEOREM SealIsSound == Spec => []SealedIsIdle
<1>1. IInv => SealedIsIdle
  BY DEF IInv, AdmissionInv
<1> QED
  BY <1>1, Ownership, PTL

(* The quota book charges exactly the sandboxes in a session table or on   *)
(* their way through stop_managed_vm.                                      *)
THEOREM ChargesFollowSlots == Spec => []ChargedIsHeld
  BY Ownership, PTL DEF IInv

(* Every VM that boots or runs has somebody who will stop it.              *)
THEOREM NoVmIsOrphaned == Spec => []NoOrphanVm
  BY Ownership, PTL DEF IInv

(* What may still run in a sealed service is a boot whose connection has   *)
(* closed, and nothing else.                                               *)
THEOREM SealedRunsOnlyAbandonedBoots == Spec => []SealedHasOnlyAbandonedBoots
<1>1. IInv => SealedHasOnlyAbandonedBoots
  <2> SUFFICES ASSUME IInv,
                      admission_state \in {"UpdateSealed", "ActivationPending"},
                      NEW h \in Sandboxes, vm[h] \in {"booting", "up"}
               PROVE  start[h] \in {"boot", "install_ok"} /\ session[of[h]] = "closed"
    BY DEF SealedHasOnlyAbandonedBoots
  <2>1. slot[h] = "none"
    BY DEF IInv, AdmissionInv, SealedIsIdle, LeaseGoesWithSlot
  <2>2. start[h] \in {"boot", "install_ok"}
    BY <2>1 DEF IInv, NoOrphanVm
  <2> QED
    BY <2>1, <2>2 DEF IInv, ReservedSlot, Reserved
<1> QED
  BY <1>1, Ownership, PTL

=============================================================================
