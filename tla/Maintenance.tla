----------------------------- MODULE Maintenance -----------------------------
(***************************************************************************)
(* Updates and removal of the SeaWork service, seen from the service:      *)
(* MaintenanceManager (maintenance.rs) with its two durable records, the   *)
(* update coordinator (update/mod.rs) that seals an idle service and hands *)
(* it over to the helper, the start and the stop of the service process    *)
(* (scm.rs).  All of them move one admission controller (Admission).       *)
(*                                                                         *)
(* The maintenance lock is held for a whole method, so a method is one     *)
(* step unless somebody who does not take the lock (a session, the         *)
(* coordinator's seal, a quarantine, the shutdown) can move admission      *)
(* between two of its effects: then `request' names the rest.  Steps on    *)
(* durable files are separate wherever a crash between them is visible.    *)
(* The helper is modelled in UpdateTransaction, which extends this module. *)
(***************************************************************************)
EXTENDS Admission, Integers

CONSTANTS
    MaxVersion,     \* released versions are 1..MaxVersion, 1 is installed
    MaxUpdates,     \* bound on the random update identifiers that are drawn
    FaultKinds,     \* what may go wrong: see Fault
    MaxFaults,      \* bound on how often it does
    StartsOpen,     \* results of reconciliation and engine check at a start
    AdminOps        \* maintenance requests an administrator sends

ASSUME VersionsExist == MaxVersion \in Nat \ {0} /\ MaxUpdates \in Nat /\ MaxFaults \in Nat
ASSUME StartsOpenBoolean == StartsOpen \subseteq BOOLEAN /\ StartsOpen # {}

VARIABLES
    pending_file,       \* pending-update.json
    uninstall_file,     \* pending-uninstall.json exists
    journal,            \* transactions/current.json
    preinstall,         \* the preinstall request and its receipt
    committed,          \* committed.json: current version
    image,              \* ImagePath of the main service
    event_path,         \* EventMessageFile of the main service
    failed_target,      \* failed-target.json: the version of the last failed target
    service,            \* the process: stopped, running, stopping or draining
    running,            \* the version of the process
    initial_admissions, \* MaintenanceManager.initial_admissions
    maintenance,        \* MaintenanceManager.state
    request,            \* what the holder of the maintenance lock still has to do
    recovering,         \* quarantine_recovery is before its lock
    coordinator,        \* the coordinator thread
    helper,             \* the update helper (UpdateTransaction)
    next_id,            \* the next update identifier
    faults              \* faults so far

files      == <<pending_file, uninstall_file>>
update     == <<journal, preinstall>>
product    == <<committed, image, event_path, failed_target>>
process    == <<service, running, initial_admissions>>
manager    == <<maintenance, request, recovering>>
serviceVars == <<admissionVars, files, update, product, process, manager,
                 coordinator, helper, next_id, faults>>

Versions == 1..MaxVersion
Update   == [id : 0..MaxUpdates, target : 0..MaxVersion]
NoUpdate == [id |-> 0, target |-> 0]

TransactionPhase ==
    {"Prepared", "HelperStarted", "FinalPathVerified", "OldServiceStopRequested",
     "OldServiceStopped", "ImagePathChanged", "TargetStartRequested",
     "TargetHealthPending", "TargetCommitted", "RollbackRequested",
     "TargetStopped", "OldPathRestored", "OldServiceRestarted",
     "RollbackComplete", "Quarantined"}

IsTerminal(phase) == phase \in {"TargetCommitted", "RollbackComplete", "Quarantined"}

\* timeline counts the entries, active says that the last one is not complete.
Journal == [phase : TransactionPhase \cup {"None"}, id : 0..MaxUpdates,
            old : 0..MaxVersion, target : 0..MaxVersion,
            timeline : Nat, active : BOOLEAN, finalized : BOOLEAN]
NoJournal == [phase |-> "None", id |-> 0, old |-> 0, target |-> 0,
              timeline |-> 0, active |-> FALSE, finalized |-> FALSE]

Preinstall == [old : 0..MaxVersion, target : 0..MaxVersion, receipt : BOOLEAN]
NoPreinstall == [old |-> 0, target |-> 0, receipt |-> FALSE]

MaintenanceState == [state : {"Active", "Pending", "Recovered", "Uninstalling", "Quarantined"},
                     update : Update]
Active         == [state |-> "Active", update |-> NoUpdate]
Pending(u)     == [state |-> "Pending", update |-> u]
Recovered(u)   == [state |-> "Recovered", update |-> u]
Uninstalling   == [state |-> "Uninstalling", update |-> NoUpdate]
Quarantined    == [state |-> "Quarantined", update |-> NoUpdate]
HasPending     == maintenance.state \in {"Pending", "Recovered"}

Up      == service # "stopped"

\* A crash of the service or of the helper, an operator who stops the service, a
\* start of either that nobody involved asked for, a system call that fails in the coordinator or in an action of the helper,
\* a journal write that fails, a clean-up that fails, a protected identity that
\* contradicts the transaction.
Fault(kind) ==
    /\ kind \in FaultKinds
    /\ faults < MaxFaults
    /\ faults' = faults + 1
NoFault == UNCHANGED faults

-----------------------------------------------------------------------------
\* Start of the process (scm.rs): everything before the pipe is bound.

\* MaintenanceManager::load, with the admission state it leaves.
Load(open) ==
    CASE pending_file = NoUpdate /\ uninstall_file ->
            [state |-> Uninstalling, admission |-> "Uninstalling"]
      [] pending_file # NoUpdate /\ ~uninstall_file ->
            [state |-> Pending(pending_file),
             admission |-> IF open THEN "UpdateSealed" ELSE "Quarantined"]
      [] pending_file = NoUpdate /\ ~uninstall_file /\ open ->
            [state |-> Active, admission |-> "Open"]
      [] OTHER -> [state |-> Quarantined, admission |-> "Quarantined"]

\* inspect_startup: whose journal it is, for a process of version v.
InspectStartup(v) ==
    CASE journal = NoJournal -> "None"
      [] journal.phase = "TargetCommitted" /\ v = journal.target /\ committed = v -> "None"
      [] journal.phase = "RollbackComplete" /\ v = journal.old /\ committed = v -> "None"
      [] ~IsTerminal(journal.phase) /\ v = journal.target -> "TargetService"
      [] ~IsTerminal(journal.phase) /\ v = journal.old -> "OldService"
      [] OTHER -> "Quarantined"

JournalUpdate == [id |-> journal.id, target |-> journal.target]

\* restore_journal_pending and the admission step after it; quarantine_recovery
\* when one of them is refused.
Restore(loaded, admission) ==
    IF loaded.admission \in {"Open", "UpdateSealed"}
       /\ \/ loaded.state = Active
          \/ loaded.state = Pending(JournalUpdate)
    THEN [state |-> IF loaded.state = Active THEN Recovered(JournalUpdate) ELSE loaded.state,
          admission |-> admission]
    ELSE [state |-> Quarantined, admission |-> "Quarantined"]

\* Bug: the old version comes back open.
RestoreReopensOld(loaded, v) ==
    CASE InspectStartup(v) = "None" -> loaded
      [] InspectStartup(v) = "OldService" -> Restore(loaded, "Open")
      [] InspectStartup(v) = "TargetService" -> Restore(loaded, "ActivationPending")
      [] OTHER -> [state |-> Quarantined, admission |-> "Quarantined"]

RestoreStartup(loaded, v) ==
    CASE InspectStartup(v) = "None" -> loaded
      [] InspectStartup(v) = "OldService" -> Restore(loaded, "UpdateSealed")
      [] InspectStartup(v) = "TargetService" -> Restore(loaded, "ActivationPending")
      [] OTHER -> [state |-> Quarantined, admission |-> "Quarantined"]

\* start_helper: nothing when the helper is not stopped.
StartHelper ==
    helper' = IF helper.pc = "stopped" THEN [helper EXCEPT !.pc = "starting"] ELSE helper

\* The process starts with the version ImagePath names.
StartProcess(open) ==
    LET restored == RestoreStartup(Load(open), image)
    IN  /\ service = "stopped"
        /\ service' = "running"
        /\ running' = image
        /\ initial_admissions' = open
        /\ maintenance' = restored.state
        /\ admission_state' = restored.admission
        /\ active_use_count' = 0
        /\ leases' = {}
        /\ request' = "none"
        /\ recovering' = FALSE
        /\ coordinator' = [pc |-> IF InspectStartup(image) = "Quarantined" THEN "off"
                                  ELSE "polling", id |-> 0]

\* Started by the service control manager at boot, after a crash or for an
\* operator; a start while the helper is at work competes with it and is counted
\* as a fault.  A helper start that fails is a helper that crashes at once.
StartService(open) ==
    /\ StartProcess(open)
    /\ \/ helper.pc = "stopped" /\ NoFault
       \/ helper.pc # "stopped" /\ Fault("service_start")
    /\ IF InspectStartup(image) \in {"OldService", "TargetService"} THEN StartHelper
                                                                   ELSE UNCHANGED helper
    /\ UNCHANGED <<files, update, product, next_id>>

\* The memory of a process that is gone.
Forget ==
    /\ service' = "stopped"
    /\ admission_state' = "Quarantined"
    /\ active_use_count' = 0
    /\ leases' = {}
    /\ initial_admissions' = FALSE
    /\ maintenance' = Quarantined
    /\ request' = "none"
    /\ recovering' = FALSE
    /\ coordinator' = [pc |-> "off", id |-> 0]
    /\ UNCHANGED running

ServiceCrash ==
    /\ Up
    /\ Fault("service_crash")
    /\ Forget
    /\ UNCHANGED <<files, update, product, helper, next_id>>

-----------------------------------------------------------------------------
\* Stop of the process: the coordinator is told to stop and waited for at most
\* five seconds, then begin_shutdown quarantines admission and drains, and the
\* pipe serves requests until the process ends.

\* A stop control: from the operator, bounded like a fault, or from the helper.
StopControl ==
    /\ service = "running"
    /\ service' = "stopping"
    /\ UNCHANGED <<running, initial_admissions>>

OperatorStop ==
    /\ StopControl
    /\ Fault("operator_stop")
    /\ UNCHANGED <<admissionVars, files, update, product, manager, coordinator, helper, next_id>>

BeginShutdown ==
    /\ service = "stopping"
    /\ service' = "draining"
    /\ Quarantine
    /\ UNCHANGED <<files, update, product, running, initial_admissions, manager,
                   coordinator, helper, next_id, faults>>

ServiceExit ==
    /\ service = "draining"
    /\ Forget
    /\ UNCHANGED <<files, update, product, helper, next_id, faults>>

-----------------------------------------------------------------------------
\* Sessions: work takes and returns leases whatever maintenance does.

outsideAdmission == <<files, update, product, process, manager, coordinator,
                      helper, next_id, faults>>

StartWork(h) == Up /\ ReserveActiveUse(h) /\ UNCHANGED outsideAdmission

EndWork(h) == h \in leases /\ ReleaseActiveUse(h) /\ UNCHANGED outsideAdmission

-----------------------------------------------------------------------------
\* Requests of an administrator or of the helper.

Locked == request # "none"

\* prepare_update up to its write.  With an update pending it only answers with
\* the identifier or an error, and a failed write leaves everything as it was.
PrepareUpdate(target) ==
    /\ "prepare_update" \in AdminOps
    /\ Up
    /\ ~Locked
    /\ maintenance = Active
    /\ next_id <= MaxUpdates
    /\ pending_file' = [id |-> next_id, target |-> target]
    /\ request' = "begin_wait"
    /\ next_id' = next_id + 1
    /\ UNCHANGED <<admissionVars, uninstall_file, maintenance, recovering, update,
                   product, process, coordinator, helper, faults>>

\* ... and after it; begin_update_waiting may find admission quarantined.
PrepareUpdateWaits ==
    /\ request = "begin_wait"
    /\ request' = "none"
    /\ \/ /\ BeginUpdateWaiting
          /\ maintenance' = Pending(pending_file)
       \/ /\ admission_state \notin {"Open", "UpdateWaitingForIdle", "UpdateSealed"}
          /\ Quarantine
          /\ maintenance' = Quarantined
    /\ UNCHANGED <<files, recovering, update, product, process, coordinator,
                   helper, next_id, faults>>

\* Bug: a commit forgets the durable record.
ClearPendingKeepsFile ==
    /\ HasPending
    /\ maintenance' = IF initial_admissions THEN Active ELSE Quarantined
    /\ Reopen(initial_admissions)
    /\ UNCHANGED pending_file

\* clear_pending; a record that cannot be removed is an error without effect.
ClearPending ==
    /\ HasPending
    /\ IF maintenance.state = "Pending"
       THEN pending_file # NoUpdate /\ pending_file' = NoUpdate
       ELSE UNCHANGED pending_file
    /\ maintenance' = IF initial_admissions THEN Active ELSE Quarantined
    /\ Reopen(initial_admissions)

CommitUpdate(id) ==
    /\ Up /\ ~Locked
    /\ HasPending /\ maintenance.update.id = id
    /\ maintenance.update.target = running
    /\ ClearPending

AbortUpdate(id) ==
    /\ Up /\ ~Locked
    /\ HasPending /\ maintenance.update.id = id
    /\ ClearPending

afterClear == <<uninstall_file, request, recovering, update, product, process,
                coordinator, helper, next_id, faults>>

\* An administrator learns the identifier from prepare_update, which answers
\* with it whoever prepared the target.
AdminCommit ==
    /\ "commit_update" \in AdminOps
    /\ CommitUpdate(maintenance.update.id)
    /\ UNCHANGED afterClear

AdminAbort ==
    /\ "abort_update" \in AdminOps
    /\ AbortUpdate(maintenance.update.id)
    /\ UNCHANGED afterClear

\* prepare_uninstall: the record is written first and stays when begin_uninstall
\* refuses.  Draining is the sessions' affair.
PrepareUninstall ==
    /\ "prepare_uninstall" \in AdminOps
    /\ Up /\ ~Locked
    /\ maintenance \in {Active, Uninstalling}
    /\ uninstall_file' = TRUE
    /\ \/ /\ BeginUninstall
          /\ maintenance' = Uninstalling
       \/ /\ admission_state \notin {"Open", "Uninstalling"}
          /\ UNCHANGED <<admissionVars, maintenance>>
    /\ UNCHANGED <<pending_file, request, recovering, update, product, process,
                   coordinator, helper, next_id, faults>>

\* quarantine_recovery, called with every health and status request: admission
\* first, without the lock, ...
QuarantineRecovery ==
    /\ Up
    /\ journal.phase = "Quarantined"
    /\ \/ admission_state # "Quarantined"
       \/ maintenance # Quarantined
    /\ Quarantine
    /\ recovering' = TRUE
    /\ UNCHANGED <<files, update, product, process, maintenance, request,
                   coordinator, helper, next_id, faults>>

\* ... then the state, with it.
QuarantineRecoveryState ==
    /\ recovering /\ ~Locked
    /\ recovering' = FALSE
    /\ maintenance' = Quarantined
    /\ UNCHANGED <<admissionVars, files, update, product, process, request,
                   coordinator, helper, next_id, faults>>

-----------------------------------------------------------------------------
\* The coordinator thread.  Its stop flag is up from StopControl on.

At(pc)      == Up /\ coordinator.pc = pc
Stopping    == service # "running"
Goto(pc)    == coordinator' = [coordinator EXCEPT !.pc = pc]

outsideCoordinator == <<admissionVars, files, product, process, manager, next_id>>

\* Bug: a finished journal is nobody's business.
RecoversUnfinished ==
    /\ At("polling") /\ ~Stopping
    /\ journal # NoJournal /\ ~IsTerminal(journal.phase)
    /\ helper.pc = "stopped"
    /\ StartHelper
    /\ UNCHANGED <<outsideCoordinator, coordinator, update, faults>>

\* transaction_journal_blocks_updates: any journal, finished or not, is the
\* helper's business.
CoordinatorRecovers ==
    /\ At("polling") /\ ~Stopping
    /\ journal # NoJournal
    /\ helper.pc = "stopped"
    /\ StartHelper
    /\ UNCHANGED <<outsideCoordinator, coordinator, update, faults>>

\* Bug: a failed target is not suppressed.
CheckForgetsFailure(v) ==
    /\ At("polling") /\ ~Stopping
    /\ journal = NoJournal
    /\ preinstall = NoPreinstall
    /\ v > committed
    /\ preinstall' = [old |-> committed, target |-> v, receipt |-> FALSE]
    /\ StartHelper
    /\ Goto("preinstalling")
    /\ UNCHANGED <<outsideCoordinator, journal, faults>>

\* check_once for a release newer than the committed one and not suppressed:
\* downloaded, verified and staged, it becomes a preinstall request.
CoordinatorCheck(v) ==
    /\ At("polling") /\ ~Stopping
    /\ journal = NoJournal
    /\ preinstall = NoPreinstall
    /\ v > committed
    /\ v # failed_target
    /\ preinstall' = [old |-> committed, target |-> v, receipt |-> FALSE]
    /\ StartHelper
    /\ Goto("preinstalling")
    /\ UNCHANGED <<outsideCoordinator, journal, faults>>

\* resume_preinstall_if_present: a request a former process left behind.
CoordinatorResume ==
    /\ At("polling") /\ ~Stopping
    /\ journal = NoJournal
    /\ preinstall # NoPreinstall
    /\ IF preinstall.receipt THEN UNCHANGED helper ELSE StartHelper
    /\ Goto("preinstalling")
    /\ UNCHANGED <<outsideCoordinator, update, faults>>

\* wait_for_preinstall_receipt, and the timeout or early stop of the helper.
CoordinatorReceipt ==
    /\ At("preinstalling")
    /\ \/ preinstall.receipt /\ ~Stopping /\ Goto("activating") /\ NoFault
       \/ Stopping /\ Goto("cleanup") /\ NoFault
       \/ ~preinstall.receipt /\ Fault("coordinator") /\ Goto("cleanup")
    /\ UNCHANGED <<outsideCoordinator, update, helper>>

\* activate_preinstalled up to the seal: the request must still start from the
\* committed version and the helper must have stopped.
CoordinatorSeal ==
    /\ At("activating")
    /\ committed = preinstall.old
    /\ helper.pc = "stopped"
    /\ TrySealIfIdle
    /\ coordinator' = [pc |-> "sealed", id |-> 0]
    /\ UNCHANGED <<files, update, product, process, manager, helper, next_id, faults>>

CoordinatorGivesUp ==
    /\ At("activating")
    /\ \/ committed # preinstall.old
       \/ Stopping
       \/ helper.pc = "stopped" /\ admission_state \notin {"Open", "UpdateSealed"}
    /\ Goto("cleanup")
    /\ UNCHANGED <<outsideCoordinator, update, helper, faults>>

\* Bug: the update is prepared in memory only.
PreparesInMemory ==
    /\ At("sealed") /\ ~Stopping
    /\ ~Locked
    /\ maintenance = Active
    /\ admission_state = "UpdateSealed" /\ active_use_count = 0
    /\ next_id <= MaxUpdates
    /\ maintenance' = Pending([id |-> next_id, target |-> preinstall.target])
    /\ coordinator' = [pc |-> "prepared", id |-> next_id]
    /\ next_id' = next_id + 1
    /\ UNCHANGED <<admissionVars, files, request, recovering, update, product,
                   process, helper, faults>>

\* The hand-over: prepare_preinstalled_update under the maintenance lock, ...
CoordinatorPrepares ==
    /\ At("sealed") /\ ~Stopping
    /\ ~Locked
    /\ maintenance = Active
    /\ admission_state = "UpdateSealed" /\ active_use_count = 0
    /\ next_id <= MaxUpdates
    /\ pending_file' = [id |-> next_id, target |-> preinstall.target]
    /\ maintenance' = Pending(pending_file')
    /\ coordinator' = [pc |-> "prepared", id |-> next_id]
    /\ next_id' = next_id + 1
    /\ UNCHANGED <<admissionVars, uninstall_file, request, recovering, update, product,
                   process, helper, faults>>

\* ... refused, not reached, ...
CoordinatorRefused ==
    /\ At("sealed")
    /\ \/ Stopping /\ NoFault
       \/ ~Locked /\ maintenance # Active /\ NoFault
       \/ ~Locked /\ admission_state # "UpdateSealed" /\ NoFault
       \/ Fault("coordinator")
    /\ Goto("undo")
    /\ UNCHANGED <<outsideCoordinator, update, helper>>

\* ... or unable to write: the seal is taken back before the lock is released.
CoordinatorCannotWrite ==
    /\ At("sealed") /\ ~Stopping
    /\ ~Locked
    /\ maintenance = Active
    /\ admission_state = "UpdateSealed" /\ active_use_count = 0
    /\ Fault("coordinator")
    /\ request' = "reopen"
    /\ Goto("undo")
    /\ UNCHANGED <<admissionVars, files, maintenance, recovering, update, product,
                   process, helper, next_id>>

CoordinatorReopens ==
    /\ request = "reopen"
    /\ request' = "none"
    /\ Reopen(initial_admissions)
    /\ UNCHANGED <<files, maintenance, recovering, update, product, process,
                   coordinator, helper, next_id, faults>>

\* create_json of the journal.
CoordinatorJournals ==
    /\ At("prepared")
    /\ journal = NoJournal
    /\ journal' = [NoJournal EXCEPT !.phase = "FinalPathVerified", !.id = coordinator.id,
                                    !.old = running, !.target = preinstall.target]
    /\ Goto("journaled")
    /\ UNCHANGED <<outsideCoordinator, preinstall, helper, faults>>

CoordinatorCannotJournal ==
    /\ At("prepared")
    /\ Fault("coordinator")
    /\ Goto("undo")
    /\ UNCHANGED <<outsideCoordinator, update, helper>>

CoordinatorStartsHelper ==
    /\ At("journaled") /\ ~Stopping
    /\ StartHelper
    /\ coordinator' = [pc |-> "polling", id |-> 0]
    /\ UNCHANGED <<outsideCoordinator, update, faults>>

\* The helper cannot be started or the service is stopping: the journal goes.
CoordinatorWithdraws ==
    /\ At("journaled")
    /\ \/ Stopping /\ NoFault
       \/ Fault("coordinator")
    /\ journal' = NoJournal
    /\ Goto("undo")
    /\ UNCHANGED <<outsideCoordinator, preinstall, helper>>

\* Bug: the seal is cancelled whoever owns it now.
UndoAnySeal ==
    /\ At("undo")
    /\ ~Locked
    /\ Reopen(initial_admissions)
    /\ Goto("cleanup")
    /\ UNCHANGED <<files, maintenance, request, recovering, update, product, process, helper, next_id, faults>>

\* Bug: a failed hand-over leaves the seal.
UndoNothing ==
    /\ At("undo")
    /\ ~Locked
    /\ Goto("cleanup")
    /\ UNCHANGED <<outsideCoordinator, update, helper, faults>>

\* abort_automatic_update of the update it prepared, cancel_preinstalled_seal
\* otherwise; an error of either is ignored.
CoordinatorUndoes ==
    /\ At("undo")
    /\ ~Locked
    /\ IF coordinator.id # 0
       THEN \/ AbortUpdate(coordinator.id)
            \/ /\ ~(HasPending /\ maintenance.update.id = coordinator.id)
               /\ UNCHANGED <<admissionVars, pending_file, maintenance>>
       ELSE \/ /\ maintenance = Active
               /\ Reopen(initial_admissions)
               /\ UNCHANGED <<pending_file, maintenance>>
            \/ /\ maintenance # Active
               /\ UNCHANGED <<admissionVars, pending_file, maintenance>>
    /\ Goto("cleanup")
    /\ UNCHANGED <<uninstall_file, request, recovering, update, product, process,
                   helper, next_id, faults>>

\* cleanup_abandoned_preinstall; what it cannot remove it leaves.
CoordinatorCleansUp ==
    /\ At("cleanup")
    /\ \/ preinstall' = NoPreinstall /\ NoFault
       \/ UNCHANGED preinstall /\ Fault("cleanup")
    /\ coordinator' = [pc |-> "polling", id |-> 0]
    /\ UNCHANGED <<outsideCoordinator, journal, helper>>

-----------------------------------------------------------------------------

ServiceInit ==
    /\ pending_file = NoUpdate
    /\ uninstall_file = FALSE
    /\ journal = NoJournal
    /\ preinstall = NoPreinstall
    /\ committed = 1
    /\ image = 1
    /\ event_path = 1
    /\ failed_target = 0
    /\ service = "stopped"
    /\ running = 1
    /\ initial_admissions = FALSE
    /\ AdmissionNew(FALSE)
    /\ maintenance = Quarantined
    /\ request = "none"
    /\ recovering = FALSE
    /\ coordinator = [pc |-> "off", id |-> 0]
    /\ next_id = 1
    /\ faults = 0

Sessions == \E h \in Handles : StartWork(h) \/ EndWork(h)

Requests ==
    \/ \E v \in Versions : PrepareUpdate(v)
    \/ PrepareUpdateWaits
    \/ AdminCommit
    \/ AdminAbort
    \/ PrepareUninstall
    \/ QuarantineRecovery
    \/ QuarantineRecoveryState

Coordinator ==
    \/ CoordinatorRecovers
    \/ \E v \in Versions : CoordinatorCheck(v)
    \/ CoordinatorResume
    \/ CoordinatorReceipt
    \/ CoordinatorSeal
    \/ CoordinatorGivesUp
    \/ CoordinatorPrepares
    \/ CoordinatorRefused
    \/ CoordinatorCannotWrite
    \/ CoordinatorReopens
    \/ CoordinatorJournals
    \/ CoordinatorCannotJournal
    \/ CoordinatorStartsHelper
    \/ CoordinatorWithdraws
    \/ CoordinatorUndoes
    \/ CoordinatorCleansUp

Lifecycle ==
    \/ \E open \in StartsOpen : StartService(open)
    \/ ServiceCrash
    \/ OperatorStop
    \/ BeginShutdown
    \/ ServiceExit

ServiceNext == Sessions \/ Requests \/ Coordinator \/ Lifecycle

=============================================================================
