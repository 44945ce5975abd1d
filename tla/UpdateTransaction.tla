-------------------------- MODULE UpdateTransaction --------------------------
(***************************************************************************)
(* The update helper (lsb-seawork-updater) and the journal it drives       *)
(* (lsb-seawork-update/journal.rs), composed with the service it stops,    *)
(* switches, starts and asks to commit or abort (Maintenance).             *)
(*                                                                         *)
(* recover_transaction loops over the phase of the journal.  An action of  *)
(* a phase is: persist the intent, act, persist the completion, persist    *)
(* the next phase.  The helper may crash between any two effects and       *)
(* starts again from the journal.  `helper.tx' is the copy in memory.      *)
(***************************************************************************)
EXTENDS Maintenance

CONSTANT MaxTimeline    \* MAX_TIMELINE_ENTRIES

ASSUME MaxTimelineNat == MaxTimeline \in Nat

vars == serviceVars

HelperPc == {"stopped", "starting", "loop", "acting", "stop_wait", "change_event",
             "observed", "confirmed", "recovered", "asked", "finalize", "abort", "health",
             "ok", "failed", "quarantine", "cleanup", "archive"}

Idle == [pc |-> "stopped", tx |-> NoJournal]

tx    == helper.tx
In(pc, phase) == helper.pc = pc /\ tx.phase = phase
Step(pc) == helper' = [helper EXCEPT !.pc = pc]

\* DiskStore::persist of a new copy.
Persist(pc, new) == /\ helper' = [pc |-> pc, tx |-> new]
                    /\ journal' = new
                    /\ UNCHANGED preinstall

outsideService == <<files, product, next_id>>
serviceSide == <<admissionVars, process, manager, coordinator>>

-----------------------------------------------------------------------------
\* can_transition_to along the way of recover_transaction.

Next_(phase) ==
    CASE phase = "FinalPathVerified"       -> "OldServiceStopRequested"
      [] phase = "OldServiceStopRequested" -> "OldServiceStopped"
      [] phase = "OldServiceStopped"       -> "ImagePathChanged"
      [] phase = "ImagePathChanged"        -> "TargetStartRequested"
      [] phase = "TargetStartRequested"    -> "TargetHealthPending"
      [] phase = "TargetHealthPending"     -> "TargetCommitted"
      [] phase = "RollbackRequested"       -> "TargetStopped"
      [] phase = "TargetStopped"           -> "OldPathRestored"
      [] phase = "OldPathRestored"         -> "OldServiceRestarted"
      [] phase = "OldServiceRestarted"     -> "RollbackComplete"

IsRollback(phase) == phase \in {"RollbackRequested", "TargetStopped",
                                "OldPathRestored", "OldServiceRestarted"}

\* Phases without an action of their own.
IsPassing(phase) == phase \in {"FinalPathVerified", "TargetStartRequested",
                               "OldServiceRestarted"}

HasAction == /\ ~IsPassing(tx.phase)
             /\ tx.phase \notin {"RollbackComplete", "Quarantined"}
             /\ ~(tx.phase = "TargetCommitted" /\ tx.finalized)

-----------------------------------------------------------------------------
\* Start and end of the helper process.

\* At boot before the service; by a failure action while the service runs.
HelperScmStart ==
    /\ helper.pc = "stopped"
    /\ journal # NoJournal
    /\ \/ service = "stopped" /\ NoFault
       \/ Up /\ Fault("helper_start")
    /\ Step("starting")
    /\ UNCHANGED <<serviceSide, outsideService, update>>

\* run_recovery with a journal.
HelperLoads ==
    /\ helper.pc = "starting"
    /\ journal # NoJournal
    /\ helper' = [pc |-> "loop", tx |-> journal]
    /\ UNCHANGED <<serviceSide, outsideService, update, faults>>

\* run_recovery without one: run_preinstall.
HelperPreinstalls ==
    /\ helper.pc = "starting"
    /\ journal = NoJournal
    /\ helper' = Idle
    /\ preinstall' = [preinstall EXCEPT !.receipt = @ \/ (preinstall # NoPreinstall
                                                          /\ committed = preinstall.old)]
    /\ UNCHANGED <<serviceSide, outsideService, journal, faults>>

HelperCrash ==
    /\ helper.pc # "stopped"
    /\ Fault("helper_crash")
    /\ helper' = Idle
    /\ UNCHANGED <<serviceSide, outsideService, update>>

-----------------------------------------------------------------------------
\* The loop.

HelperPasses ==
    /\ helper.pc = "loop"
    /\ IsPassing(tx.phase)
    /\ Persist("loop", [tx EXCEPT !.phase = Next_(@)])
    /\ UNCHANGED <<serviceSide, outsideService, faults>>

\* run_action up to the action: an interrupted entry is completed, a new one
\* begun and persisted.
HelperIntends ==
    /\ helper.pc = "loop"
    /\ HasAction
    /\ tx.timeline < MaxTimeline
    /\ Persist("acting", [tx EXCEPT !.timeline = @ + 1, !.active = TRUE])
    /\ UNCHANGED <<serviceSide, outsideService, faults>>

\* begin_transition refuses when the timeline is full.
HelperTimelineFull ==
    /\ helper.pc = "loop"
    /\ HasAction
    /\ tx.timeline >= MaxTimeline
    /\ helper' = [pc |-> "failed", tx |-> [tx EXCEPT !.active = FALSE]]
    /\ UNCHANGED <<serviceSide, outsideService, update, faults>>

\* Completion of the entry and the transition after it.
HelperSucceeds ==
    /\ helper.pc = "ok"
    /\ IF tx.phase = "TargetCommitted"
       THEN Persist("loop", [tx EXCEPT !.active = FALSE, !.finalized = TRUE])
       ELSE Persist("loop", [tx EXCEPT !.active = FALSE, !.phase = Next_(@)])
    /\ UNCHANGED <<serviceSide, outsideService, faults>>

\* The completion of an action that succeeded cannot be persisted: its error is
\* the result of the action.
HelperCannotComplete ==
    /\ helper.pc = "ok"
    /\ Fault("journal")
    /\ Step("failed")
    /\ UNCHANGED <<serviceSide, outsideService, update>>

\* The transition after it cannot: the copy in memory has advanced, and is what
\* record_failure persists.
HelperCannotAdvance ==
    /\ helper.pc = "ok"
    /\ tx.phase # "TargetCommitted"
    /\ Fault("journal")
    /\ LET advanced == [tx EXCEPT !.active = FALSE, !.phase = Next_(@)]
       IN  IF IsRollback(tx.phase) \/ IsTerminal(advanced.phase)
           THEN /\ journal' = advanced
                /\ helper' = Idle
                /\ UNCHANGED preinstall
           ELSE Persist("loop", [advanced EXCEPT !.phase = "RollbackRequested"])
    /\ UNCHANGED <<serviceSide, outsideService>>

\* record_failure, then roll back, or stop and leave the journal for a retry.
HelperFails ==
    /\ helper.pc = "failed"
    /\ LET recorded == [tx EXCEPT !.active = FALSE]
       IN  IF tx.phase = "TargetCommitted" \/ IsRollback(tx.phase)
           THEN /\ journal' = recorded
                /\ helper' = Idle
                /\ UNCHANGED preinstall
           ELSE Persist("loop", [recorded EXCEPT !.phase = "RollbackRequested"])
    /\ UNCHANGED <<serviceSide, outsideService, faults>>

HelperQuarantines ==
    /\ helper.pc = "quarantine"
    /\ journal' = [tx EXCEPT !.active = FALSE, !.phase = "Quarantined"]
    /\ helper' = Idle
    /\ UNCHANGED <<serviceSide, outsideService, preinstall, faults>>

\* A system call or a connection of the action fails.
HelperActionFails ==
    /\ helper.pc \in {"acting", "stop_wait", "change_event", "observed", "confirmed",
                      "recovered", "asked", "finalize", "abort", "health"}
    /\ Fault("action")
    /\ Step("failed")
    /\ UNCHANGED <<serviceSide, outsideService, update>>

\* An unrelated ImagePath, or an old package that no longer verifies.
HelperFindsContradiction ==
    /\ helper.pc = "acting"
    /\ tx.phase \in {"RollbackRequested", "TargetStopped", "OldPathRestored"}
    /\ Fault("contradiction")
    /\ Step("quarantine")
    /\ UNCHANGED <<serviceSide, outsideService, update>>

-----------------------------------------------------------------------------
\* Stopping the service: stop_old_service, and stop_target unless the old image
\* is already configured.  Where require_main_command would refuse an image that
\* no state configures, the action has no step: a helper stuck there would
\* violate TransactionEnds.

\* stop_service_and_confirm_process_exit: a service that is stopping already
\* does not accept the control.
HelperStops ==
    /\ helper.pc = "acting"
    /\ \/ tx.phase = "OldServiceStopRequested" /\ image = tx.old
       \/ tx.phase = "RollbackRequested" /\ image = tx.target
    /\ \/ /\ StopControl
          /\ Step("stop_wait")
       \/ /\ service = "stopped"
          /\ Step("ok")
          /\ UNCHANGED process
       \/ /\ service \in {"stopping", "draining"}
          /\ Step("failed")
          /\ UNCHANGED process
    /\ UNCHANGED <<admissionVars, manager, coordinator, outsideService, update, faults>>

HelperSeesStopped ==
    /\ helper.pc = "stop_wait"
    /\ service = "stopped"
    /\ Step("ok")
    /\ UNCHANGED <<serviceSide, outsideService, update, faults>>

\* Somebody started it again between two looks: the wait runs into its timeout.
HelperMissesStop ==
    /\ helper.pc = "stop_wait"
    /\ service = "running"
    /\ Step("failed")
    /\ UNCHANGED <<serviceSide, outsideService, update, faults>>

\* stop_target with the old image configured.
HelperStopsNothing ==
    /\ In("acting", "RollbackRequested")
    /\ image = tx.old
    /\ Step("ok")
    /\ UNCHANGED <<serviceSide, outsideService, update, faults>>

-----------------------------------------------------------------------------
\* change_main_configuration: ImagePath, then the event message path.

Configured == IF tx.phase = "OldServiceStopped" THEN tx.target ELSE tx.old

\* Bug: the event path is not switched with the image.
ChangesImageOnly ==
    /\ helper.pc = "acting"
    /\ tx.phase \in {"OldServiceStopped", "TargetStopped"}
    /\ image' = Configured
    /\ Step("ok")
    /\ UNCHANGED <<serviceSide, files, committed, event_path, failed_target, next_id,
                   update, faults>>

HelperChangesImage ==
    /\ helper.pc = "acting"
    /\ tx.phase \in {"OldServiceStopped", "TargetStopped"}
    /\ image' = Configured
    /\ Step("change_event")
    /\ UNCHANGED <<serviceSide, files, committed, event_path, failed_target, next_id,
                   update, faults>>

HelperChangesEventPath ==
    /\ helper.pc = "change_event"
    /\ event_path' = Configured
    /\ Step("ok")
    /\ UNCHANGED <<serviceSide, files, committed, image, failed_target, next_id,
                   update, faults>>

-----------------------------------------------------------------------------
\* start_target, and the start of start_and_abort_old.

HelperStarts(open) ==
    /\ helper.pc = "acting"
    /\ \/ tx.phase = "ImagePathChanged" /\ image = tx.target /\ Step("ok")
       \/ tx.phase = "OldPathRestored" /\ image = tx.old /\ Step("abort")
    /\ IF service = "stopped" THEN StartProcess(open)
       ELSE service = "running" /\ UNCHANGED serviceSide
    /\ UNCHANGED <<outsideService, update, faults>>

\* A service that is stopping does not become running.
HelperCannotStart ==
    /\ helper.pc = "acting"
    /\ service \in {"stopping", "draining"}
    /\ \/ tx.phase = "ImagePathChanged" /\ failed_target' = tx.target
       \/ tx.phase = "OldPathRestored" /\ UNCHANGED failed_target
    /\ Step("failed")
    /\ UNCHANGED <<serviceSide, files, committed, image, event_path, next_id, update, faults>>

\* The start itself fails: that is held against the target.
HelperStartFails ==
    /\ In("acting", "ImagePathChanged") /\ image = tx.target
    /\ Fault("action")
    /\ failed_target' = tx.target
    /\ Step("failed")
    /\ UNCHANGED <<serviceSide, files, committed, image, event_path, next_id, update>>

-----------------------------------------------------------------------------
\* health_and_commit_target: two observations of the target, the commit request,
\* a third observation, and the committed record.

RunsTarget == Up /\ running = tx.target

ObservesReady == RunsTarget /\ AcceptsWork /\ maintenance = Active

ObservesPending ==
    /\ RunsTarget
    /\ HasPending
    /\ admission_state = "ActivationPending"
    /\ maintenance.update.target = tx.target

HelperObserves ==
    /\ In("acting", "TargetHealthPending") /\ ~Locked
    /\ image = tx.target
    /\ \/ ObservesReady /\ Step("recovered")
       \/ ObservesPending /\ Step("observed")
    /\ UNCHANGED <<serviceSide, outsideService, update, faults>>

\* Bug: two healthy observations are enough, the service is not asked to commit.
ConfirmsWithoutCommit ==
    /\ ~Locked
    /\ \/ helper.pc = "recovered" /\ ObservesReady
       \/ helper.pc = "observed" /\ (ObservesReady \/ ObservesPending)
    /\ Step("finalize")
    /\ UNCHANGED <<serviceSide, outsideService, update, faults>>

HelperConfirms ==
    /\ ~Locked
    /\ \/ helper.pc = "recovered" /\ ObservesReady /\ Step("finalize")
       \/ helper.pc = "observed" /\ ObservesReady /\ Step("finalize")
       \/ helper.pc = "observed" /\ ObservesPending /\ Step("confirmed")
    /\ UNCHANGED <<serviceSide, outsideService, update, faults>>

HelperCommits ==
    /\ helper.pc = "confirmed"
    /\ CommitUpdate(tx.id)
    /\ Step("asked")
    /\ UNCHANGED <<uninstall_file, request, recovering, process, coordinator, product,
                   next_id, update, faults>>

HelperSeesReady ==
    /\ helper.pc = "asked" /\ ~Locked
    /\ ObservesReady
    /\ Step("finalize")
    /\ UNCHANGED <<serviceSide, outsideService, update, faults>>

\* A failed assertion about a service that answers is remembered against the
\* target; a service that is down is a failed connection.
HelperSeesUnhealthy ==
    /\ ~Locked
    /\ \/ In("acting", "TargetHealthPending") /\ ~ObservesReady /\ ~ObservesPending
       \/ helper.pc = "observed" /\ ~ObservesReady /\ ~ObservesPending
       \/ helper.pc = "asked" /\ ~ObservesReady
    /\ image = tx.target
    /\ Step("failed")
    /\ failed_target' = IF Up THEN tx.target ELSE failed_target
    /\ UNCHANGED <<serviceSide, files, committed, image, event_path, next_id, update, faults>>

\* Errors that are not assertions: an observation that contradicts the one
\* before, a refused commit.
HelperHealthError ==
    /\ ~Locked
    /\ \/ helper.pc = "recovered" /\ ~ObservesReady
       \/ helper.pc = "confirmed" /\ ~(RunsTarget /\ HasPending /\ maintenance.update.id = tx.id)
    /\ Step("failed")
    /\ UNCHANGED <<serviceSide, outsideService, update, faults>>

\* finalize_commit, also the action of TargetCommitted.
HelperFinalizes ==
    /\ helper.pc = "finalize" \/ In("acting", "TargetCommitted")
    /\ committed \in {tx.old, tx.target}
    /\ committed' = tx.target
    /\ Step("ok")
    /\ UNCHANGED <<serviceSide, files, image, event_path, failed_target, next_id, update, faults>>

-----------------------------------------------------------------------------
\* start_and_abort_old after the start.

\* Bug: the restored service is not asked to abort.
AbortsNothing ==
    /\ helper.pc = "abort" /\ ~Locked
    /\ Up
    /\ running = tx.old
    /\ Step("health")
    /\ UNCHANGED <<serviceSide, outsideService, update, faults>>

HelperAborts ==
    /\ helper.pc = "abort" /\ ~Locked
    /\ Up
    /\ running = tx.old
    /\ \/ /\ HasPending /\ maintenance.update.target = tx.target
          /\ AbortUpdate(tx.id)
          /\ Step("health")
       \/ /\ ~(HasPending /\ maintenance.update.target = tx.target)
          /\ Step("health")
          /\ UNCHANGED <<admissionVars, maintenance, pending_file>>
       \/ /\ HasPending /\ maintenance.update.target = tx.target
          /\ maintenance.update.id # tx.id
          /\ Step("failed")
          /\ UNCHANGED <<admissionVars, maintenance, pending_file>>
    /\ UNCHANGED <<uninstall_file, request, recovering, process, coordinator, product,
                   next_id, update, faults>>

\* Another version answers: contradictory.  Nobody answers: retry.
HelperCannotAbort ==
    /\ helper.pc = "abort"
    /\ \/ Up /\ running # tx.old /\ Step("quarantine")
       \/ ~Up /\ Step("failed")
    /\ UNCHANGED <<serviceSide, outsideService, update, faults>>

HelperChecksOld ==
    /\ helper.pc = "health"
    /\ Step(IF Up /\ AcceptsWork THEN "ok" ELSE "failed")
    /\ UNCHANGED <<serviceSide, outsideService, update, faults>>

-----------------------------------------------------------------------------
\* The end: cleanup_terminal_preinstall, then the journal goes to the history.

HelperEnds ==
    /\ helper.pc = "loop"
    /\ IF tx.phase = "Quarantined" THEN helper' = Idle
       ELSE /\ IsTerminal(tx.phase)
            /\ ~HasAction
            /\ Step("cleanup")
    /\ UNCHANGED <<serviceSide, outsideService, update, faults>>

HelperCleansUp ==
    /\ helper.pc = "cleanup"
    /\ Step("archive")
    /\ \/ preinstall' = NoPreinstall /\ NoFault
       \/ preinstall' \in {preinstall, [preinstall EXCEPT !.receipt = FALSE]} /\ Fault("cleanup")
    /\ UNCHANGED <<serviceSide, outsideService, journal>>

HelperArchives ==
    /\ helper.pc = "archive"
    /\ helper' = Idle
    /\ journal' = NoJournal
    /\ UNCHANGED <<serviceSide, outsideService, preinstall, faults>>

-----------------------------------------------------------------------------

HelperAct ==
    \/ HelperLoads \/ HelperPreinstalls
    \/ HelperPasses \/ HelperIntends \/ HelperTimelineFull
    \/ HelperSucceeds \/ HelperFails \/ HelperQuarantines
    \/ HelperStops \/ HelperSeesStopped \/ HelperMissesStop \/ HelperStopsNothing
    \/ HelperChangesImage \/ HelperChangesEventPath
    \/ \E open \in StartsOpen : HelperStarts(open)
    \/ HelperCannotStart
    \/ HelperObserves \/ HelperConfirms \/ HelperCommits \/ HelperSeesReady
    \/ HelperSeesUnhealthy \/ HelperHealthError \/ HelperFinalizes
    \/ HelperAborts \/ HelperCannotAbort \/ HelperChecksOld
    \/ HelperEnds \/ HelperCleansUp \/ HelperArchives

HelperFaults ==
    \/ HelperCrash
    \/ HelperActionFails \/ HelperStartFails
    \/ HelperFindsContradiction
    \/ HelperCannotComplete \/ HelperCannotAdvance

Init == ServiceInit /\ helper = Idle

Next == ServiceNext \/ HelperScmStart \/ HelperAct \/ HelperFaults

TypeOK ==
    /\ AdmissionTypeOK
    /\ pending_file \in Update /\ uninstall_file \in BOOLEAN
    /\ journal \in Journal /\ preinstall \in Preinstall
    /\ committed \in Versions /\ image \in Versions /\ event_path \in Versions
    /\ failed_target \in 0..MaxVersion
    /\ service \in {"stopped", "running", "stopping", "draining"}
    /\ running \in Versions /\ initial_admissions \in BOOLEAN
    /\ maintenance \in MaintenanceState
    /\ request \in {"none", "begin_wait", "reopen"} /\ recovering \in BOOLEAN
    /\ coordinator \in [pc : {"off", "polling", "preinstalling", "activating", "sealed",
                              "prepared", "journaled", "undo", "cleanup"},
                        id : 0..MaxUpdates]
    /\ helper \in [pc : HelperPc, tx : Journal]
    /\ next_id \in 1..(MaxUpdates + 1) /\ faults \in 0..MaxFaults

-----------------------------------------------------------------------------
\* Fairness: threads and processes that can step do; a stopped service is
\* started again (automatic start, failure actions, an operator), and the
\* coordinator's poll finds a journal.  Sessions, requests of administrators,
\* starts of the helper by the control manager and faults are never promised.

Fairness ==
    /\ WF_vars(HelperAct)
    /\ WF_vars(Coordinator)
    /\ WF_vars(\E open \in StartsOpen : StartService(open))
    /\ WF_vars(BeginShutdown \/ ServiceExit)
    /\ WF_vars(PrepareUpdateWaits)

Spec == Init /\ [][Next]_vars

FairSpec == Spec /\ Fairness

-----------------------------------------------------------------------------

(* What maintenance promises in memory is what the next process will find: *)
(* a pending update is the durable record, and an active service has none  *)
(* (prepare_update writes before it changes the state, clear_pending       *)
(* removes before), except inside a request that holds the lock.           *)
PendingIsDurable ==
    Up /\ ~Locked =>
        /\ maintenance.state = "Pending" => pending_file = maintenance.update
        /\ maintenance.state = "Active" => pending_file = NoUpdate
        /\ maintenance.state = "Uninstalling" => uninstall_file

(* Nobody opens a service that an update or an uninstall has closed: open  *)
(* admission means that maintenance is not pending, however seal, cancel,  *)
(* abort, commit and quarantine interleave.                                *)
OpenMeansNoUpdate ==
    admission_state = "Open" => maintenance.state \notin {"Pending", "Recovered", "Uninstalling"}

(* No seal is orphaned: while the service waits, is sealed or activates,   *)
(* there is an update to commit or abort, or a coordinator or a request    *)
(* that still has to undo the seal (activate_preinstalled's error path).   *)
(* A quarantined journal is the exception: the next health request closes  *)
(* the service again.                                                      *)
SealHasAnOwner ==
    admission_state \in {"UpdateWaitingForIdle", "UpdateSealed", "ActivationPending"} =>
        \/ HasPending
        \/ coordinator.pc \in {"sealed", "undo"}
        \/ Locked
        \/ journal.phase = "Quarantined"

(* The configured image and event path are those of the transaction or of  *)
(* the version settled on, and no transaction begins from another image:   *)
(* stop_target and restore_old_configuration never meet an unrelated path. *)
ConfigurationBelongs ==
    /\ journal # NoJournal => {image, event_path} \subseteq {journal.old, journal.target}
    /\ journal = NoJournal => image = event_path

(* A boot with a transaction that is not over resumes it before work is    *)
(* admitted: with such a journal only a target whose health was confirmed, *)
(* or an old service whose update was aborted, accepts work                *)
(* (inspect_startup, restore_update_sealed, restore_activation_pending).   *)
RecoveryBeforeWork ==
    journal # NoJournal /\ ~IsTerminal(journal.phase) /\ AcceptsWork =>
        \/ running = journal.target /\ journal.phase = "TargetHealthPending"
        \/ running = journal.old /\ journal.phase \in {"OldPathRestored", "OldServiceRestarted"}

(* When nothing is in progress, the committed record names the version     *)
(* that is configured: no crash of service or helper splits                *)
(* finalize_commit or the rollback from the switch of the image.           *)
SettledConfiguration ==
    journal = NoJournal => committed = image /\ image = event_path

(* The committed record moves only to the configured version, and only     *)
(* after the service itself has committed and dropped its pending record   *)
(* (health_and_commit_target before finalize_commit).                      *)
CommitIsLast ==
    [][committed' # committed =>
         /\ committed' = image /\ image = event_path
         /\ pending_file.id # tx.id]_vars

(* The helper never stops a service with running work or with open         *)
(* admission: stop_old_service follows the seal, stop_target a target that *)
(* never left health-only.                                                 *)
StopsOnlyHealthOnly ==
    [][helper.pc = "acting" /\ service = "running" /\ service' = "stopping"
       /\ helper'.pc = "stop_wait" => leases = {} /\ ~AcceptsWork]_vars

(* A target recorded as failed is not activated again                      *)
(* (failed_target_suppression).                                            *)
FailedTargetNotRetried ==
    [][journal = NoJournal /\ journal' # NoJournal => journal'.target # failed_target]_vars

(* Every transaction ends, archived or in quarantine, however often the    *)
(* helper and the service crash on the way.                                *)
TransactionEnds ==
    journal # NoJournal ~> journal = NoJournal \/ journal.phase = "Quarantined"

(* Whatever becomes of an update, the product accepts work again.          *)
ServiceComesBack == []<>AcceptsWork

(* An update that was aborted before the image changed does not change it. *)
AbortStopsTheUpdate ==
    [][image' # image /\ image' = tx.target => pending_file.id = tx.id]_vars

(* Recovery resumes at every journalled boundary: without an identity that *)
(* an outsider changed, no interleaving of restarts makes the helper       *)
(* contradict itself and quarantine the transaction.                       *)
RecoveryResumes == journal.phase # "Quarantined"

=============================================================================
