---------------------------- MODULE SessionManager ----------------------------
(***************************************************************************)
(* Ownership of sandboxes, guest processes and watches by client           *)
(* connections (crates/lsb-seawork-service/src/session/manager.rs), with   *)
(* the start request that drives it (src/rpc/sandbox.rs) and the two       *)
(* callers of drain_all (pipe.rs begin_shutdown, maintenance.rs            *)
(* prepare_uninstall).  State.lock() is one mutex: every action below is   *)
(* one critical section of it, or one call the code makes outside of it.   *)
(* A connection does not wait for its requests, so a close interleaves     *)
(* with every step of a start, a stop or a spawn.                          *)
(*                                                                         *)
(* A start request is named by the sandbox handle it is going to allocate. *)
(***************************************************************************)
EXTENDS Admission, QuotaBook

CONSTANTS
    Identities,     \* ClientIdentityKey values
    IdentityOf,     \* [Sessions -> Identities]
    Keys,           \* client_instance_id values
    NoKey,          \* a start without a client_instance_id
    NoSession,
    MaxStartReplayRecords   \* MAX_START_REPLAY_RECORDS

ASSUME SandboxesAreHandles == Sandboxes \subseteq Handles
ASSUME SandboxesExist == Sandboxes # {}
ASSUME NoKeyIsNotAKey == NoKey \notin Keys
ASSUME NoSessionIsNotASession == NoSession \notin Sessions
ASSUME IdentityOfType == IdentityOf \in [Sessions -> Identities]

VARIABLES
    session,    \* [Sessions -> SessionPc]
    slot,       \* [Sandboxes -> SlotState]: SandboxSlot and who holds it
    vm,         \* [Sandboxes -> VmState]: the ManagedVm thread
    start,      \* [Sandboxes -> StartPc]: progress of rpc::sandbox::start_inner
    of,         \* [Sandboxes -> Sessions]: the connection of a start, once begun
    key,        \* [Sandboxes -> Keys or NoKey]
    replay,     \* State.start_replays, by identity and key
    dep,        \* [Dependents -> DepState]: ProcessSlot and WatchSlot entries
    task,       \* [Dependents -> TaskPc]: progress of a spawn or watch request
    live,       \* guest processes and watches that run in a guest
    sandbox_of, \* [Dependents -> Sandboxes]
    drain       \* progress of drain_all and of its caller

startVars == <<start, of, key>>
depVars == <<dep, task, live, sandbox_of>>
sandboxQuota == <<sandboxes, usage, sandbox_resources>>
vars == <<admissionVars, quotaVars, session, slot, vm, startVars, replay, depVars, drain>>

\* leaked: open reserved the connection and then found no handle.
SessionPc == {"new", "leaked", "open", "closing", "closed"}
\* preparing, running: in Session.sandboxes, without and with a VM;
\* stopping, stopped, dropping: taken by stop_managed_vm;
\* detached, husk: in a closed Session, with and without a VM.
SlotState == {"none", "preparing", "running", "stopping", "stopped", "dropping",
              "detached", "husk"}
VmState == {"none", "booting", "up", "ended"}
StartPc == {"idle", "reserve", "prepare", "cancel", "check", "boot", "install_ok",
            "install_err", "complete", "undo", "abandon", "panic_abandon",
            "panic_cancel", "started", "replayed", "refused", "failed"}
DepState == {"none", "preparing", "running", "retired"}
TaskPc == {"idle", "calling", "ok", "err", "done"}

ReplayKeys == Identities \X Keys
ReplayRecord == [state : {"Absent", "Preparing", "Running", "Retired"},
                 session : Sessions \cup {NoSession},
                 sandbox : Sandboxes]

DrainRecord == [pc : {"idle", "draining", "done"}, todo : SUBSET Sessions,
                current : Sessions \cup {NoSession},
                mode : {"shutdown", "uninstall"}, clean : BOOLEAN]

TypeOK ==
    /\ AdmissionTypeOK
    /\ sandbox_resources \subseteq Sandboxes
    /\ session \in [Sessions -> SessionPc]
    /\ slot \in [Sandboxes -> SlotState]
    /\ vm \in [Sandboxes -> VmState]
    /\ start \in [Sandboxes -> StartPc]
    /\ of \in [Sandboxes -> Sessions \cup {NoSession}]
    /\ key \in [Sandboxes -> Keys \cup {NoKey}]
    /\ replay \in [ReplayKeys -> ReplayRecord]
    /\ dep \in [Dependents -> DepState]
    /\ task \in [Dependents -> TaskPc]
    /\ live \subseteq Dependents
    /\ sandbox_of \in [Dependents -> Sandboxes]
    /\ drain \in DrainRecord

Absent == [state |-> "Absent", session |-> NoSession,
           sandbox |-> CHOOSE h \in Sandboxes : TRUE]

Init ==
    /\ AdmissionNew(TRUE)
    /\ QuotaBookNew
    /\ session = [s \in Sessions |-> "new"]
    /\ slot = [h \in Sandboxes |-> "none"]
    /\ vm = [h \in Sandboxes |-> "none"]
    /\ start = [h \in Sandboxes |-> "idle"]
    /\ of = [h \in Sandboxes |-> NoSession]
    /\ key = [h \in Sandboxes |-> NoKey]
    /\ replay = [i \in ReplayKeys |-> Absent]
    /\ dep = [d \in Dependents |-> "none"]
    /\ task = [d \in Dependents |-> "idle"]
    /\ live = {}
    /\ sandbox_of = [d \in Dependents |-> CHOOSE h \in Sandboxes : TRUE]
    /\ drain = [pc |-> "idle", todo |-> {}, current |-> NoSession,
                mode |-> "shutdown", clean |-> FALSE]

-----------------------------------------------------------------------------
(* Connections                                                             *)

Owns(s, h) == of[h] = s /\ slot[h] \in {"preparing", "running"}
Entries(h) == {d \in Dependents : sandbox_of[d] = h /\ dep[d] \in {"preparing", "running"}}
ReplayKey(h) == <<IdentityOf[of[h]], key[h]>>

\* SessionManager::open, called for every authenticated client.
OpenSession(s) ==
    /\ session[s] = "new"
    /\ ReserveConnection(s)
    /\ session' = [session EXCEPT ![s] = "open"]
    /\ UNCHANGED <<admissionVars, sandboxQuota, dependents_held, slot, vm, startVars,
                   replay, depVars, drain>>

\* unique_handle fails after reserve_connection: the reservation stays.
OpenWithoutHandle(s) ==
    /\ session[s] = "new"
    /\ ReserveConnection(s)
    /\ session' = [session EXCEPT ![s] = "leaked"]
    /\ UNCHANGED <<admissionVars, sandboxQuota, dependents_held, slot, vm, startVars,
                   replay, depVars, drain>>

\* The locked part of close: the session leaves the table with all it owns,
\* its replay records become tombstones and its quotas are released.
DetachSession(s) ==
    LET owned == {h \in Sandboxes : Owns(s, h)}
        entries == UNION {Entries(h) : h \in owned}
    IN
    /\ session[s] = "open"
    /\ session' = [session EXCEPT ![s] = "closing"]
    /\ replay' = [i \in ReplayKeys |->
                    IF replay[i].session = s /\ replay[i].state # "Absent"
                    THEN [replay[i] EXCEPT !.state = "Retired"] ELSE replay[i]]
    /\ slot' = [h \in Sandboxes |-> IF h \notin owned THEN slot[h]
                                    ELSE IF slot[h] = "running" THEN "detached" ELSE "husk"]
    /\ dep' = [d \in Dependents |-> IF d \in entries THEN "none" ELSE dep[d]]
    /\ ReleaseSandboxes(s, owned)
    /\ ReleaseDependents(s, entries, sandbox_of)
    /\ ReleaseConnection(s)
    /\ UNCHANGED <<admissionVars, vm, startVars, task, live, sandbox_of>>

\* A connection ends: CloseSession, process exit, transport error.
CloseSession(s) == DetachSession(s) /\ UNCHANGED drain

\* close, outside the lock: the installed processes and watches are killed,
\* then the next VM of the detached session is stopped.
StopDetached(h) ==
    /\ slot[h] = "detached"
    /\ vm' = [vm EXCEPT ![h] = "ended"]
    /\ slot' = [slot EXCEPT ![h] = "husk"]
    /\ live' = {d \in live : sandbox_of[d] # h}
    /\ UNCHANGED <<admissionVars, quotaVars, session, startVars, replay, dep, task,
                   sandbox_of, drain>>

\* close: every VM has been stopped, the session token is cancelled.
CancelSession(s) ==
    /\ session[s] = "closing"
    /\ \A h \in Sandboxes : of[h] = s => slot[h] # "detached"
    /\ session' = [session EXCEPT ![s] = "closed"]
    /\ UNCHANGED <<admissionVars, quotaVars, slot, vm, startVars, replay, depVars, drain>>

\* Bug: only the slots whose VM was stopped are dropped.
DropHuskWithVm(h) ==
    /\ slot[h] = "husk" /\ vm[h] = "ended"
    /\ session[of[h]] = "closed"
    /\ slot' = [slot EXCEPT ![h] = "none"]
    /\ ReleaseActiveUse(h)
    /\ UNCHANGED <<quotaVars, session, vm, startVars, replay, depVars, drain>>

\* The Session value is dropped, and with each slot its lease.
DropHusk(h) ==
    /\ slot[h] = "husk"
    /\ session[of[h]] = "closed"
    /\ slot' = [slot EXCEPT ![h] = "none"]
    /\ ReleaseActiveUse(h)
    /\ UNCHANGED <<quotaVars, session, vm, startVars, replay, depVars, drain>>

-----------------------------------------------------------------------------
(* The start request (rpc/sandbox.rs start_inner)                          *)

Go(h, pc) == start' = [start EXCEPT ![h] = pc]
\* What follows an error: abandon_start_replay, if there is a replay key.
Fail(h) == Go(h, IF key[h] = NoKey THEN "failed" ELSE "abandon")

\* A start without client_instance_id: nothing to replay.
BeginStart(s, h) ==
    /\ start[h] = "idle"
    /\ session[s] \in {"open", "closing", "closed"}
    /\ of' = [of EXCEPT ![h] = s]
    /\ Go(h, "reserve")
    /\ UNCHANGED <<admissionVars, quotaVars, session, slot, vm, key, replay, depVars, drain>>

\* Bug: the age of a record is looked at, its state is not.
AnyRecord == {i \in ReplayKeys : replay[i].state # "Absent"}
Tombstones == {i \in ReplayKeys : replay[i].state = "Retired"}
Prune(records, expired) == [i \in ReplayKeys |-> IF i \in expired THEN Absent ELSE records[i]]

\* begin_start_replay; `expired` are the tombstones older than START_REPLAY_TTL.
BeginStartReplay(s, h, k) ==
    /\ start[h] = "idle"
    /\ session[s] \in {"open", "closing", "closed"}
    /\ of' = [of EXCEPT ![h] = s]
    /\ key' = [key EXCEPT ![h] = k]
    /\ IF session[s] # "open"
       THEN Go(h, "refused") /\ UNCHANGED replay
       ELSE \E expired \in SUBSET Tombstones :
              LET i == <<IdentityOf[s], k>>
                  records == Prune(replay, expired)
                  known == {j \in ReplayKeys : records[j].state # "Absent"}
              IN IF i \in known
                 THEN /\ replay' = records
                      /\ Go(h, IF records[i].state = "Running" /\ records[i].session = s
                               THEN "replayed" ELSE "refused")
                 ELSE IF Cardinality(known) >= MaxStartReplayRecords
                 THEN replay' = records /\ Go(h, "refused")
                 ELSE /\ replay' = [records EXCEPT ![i] =
                            [state |-> "Preparing", session |-> s, sandbox |-> h]]
                      /\ Go(h, "reserve")
    /\ UNCHANGED <<admissionVars, quotaVars, session, slot, vm, depVars, drain>>

\* reserve_managed_vm: session, admission, quota, in this order, then the slot.
ReserveManagedVm(h) ==
    /\ start[h] = "reserve"
    /\ IF /\ session[of[h]] = "open"
          /\ CanReserveActiveUse
          /\ CanReserveSandbox(of[h], h)
       THEN /\ ReserveActiveUse(h)
            /\ ReserveSandbox(of[h], h)
            /\ slot' = [slot EXCEPT ![h] = "preparing"]
            /\ Go(h, "prepare")
       ELSE Fail(h) /\ UNCHANGED <<admissionVars, sandboxQuota, slot>>
    /\ UNCHANGED <<connections, dependents_held, session, vm, of, key, replay, depVars, drain>>

\* ResourceTransaction::reserve and prepare_instance, or the worker panics.
PrepareInstance(h) ==
    /\ start[h] = "prepare"
    /\ \E pc \in {"check", "cancel",
                  IF key[h] = NoKey THEN "panic_cancel" ELSE "panic_abandon"} : Go(h, pc)
    /\ UNCHANGED <<admissionVars, quotaVars, session, slot, vm, of, key, replay, depVars, drain>>

\* Bug: the lease stays with nobody.
RemovePreparingKeepsLease(h) ==
    /\ slot' = [slot EXCEPT ![h] = "none"]
    /\ UNCHANGED admissionVars
    /\ ReleaseSandboxes(of[h], {h})

\* Bug: release_sandbox is forgotten.
RemovePreparingKeepsCharge(h) ==
    /\ slot' = [slot EXCEPT ![h] = "none"]
    /\ ReleaseActiveUse(h)
    /\ UNCHANGED sandboxQuota

\* The slot without a VM is removed, its lease dropped and its quota released.
RemovePreparing(h) ==
    /\ slot' = [slot EXCEPT ![h] = "none"]
    /\ ReleaseActiveUse(h)
    /\ ReleaseSandboxes(of[h], {h})

\* cancel_managed_vm_reservation, after an error and after a panic.
CancelManagedVmReservation(h) ==
    /\ start[h] \in {"cancel", "panic_cancel"}
    /\ IF session[of[h]] = "open" /\ slot[h] = "preparing"
       THEN RemovePreparing(h)
       ELSE UNCHANGED <<admissionVars, sandboxQuota, slot>>
    /\ IF start[h] = "cancel" THEN Fail(h) ELSE Go(h, "failed")
    /\ UNCHANGED <<connections, dependents_held, session, vm, of, key, replay, depVars, drain>>

\* start_reserved_managed_vm, first critical section, then ManagedVm::start.
StartReserved(h) ==
    /\ start[h] = "check"
    /\ IF session[of[h]] = "open" /\ slot[h] = "preparing"
       THEN Go(h, "boot") /\ vm' = [vm EXCEPT ![h] = "booting"]
       ELSE Fail(h) /\ UNCHANGED vm
    /\ UNCHANGED <<admissionVars, quotaVars, session, slot, of, key, replay, depVars, drain>>

BootEnds(h) ==
    /\ start[h] = "boot"
    /\ \/ Go(h, "install_ok") /\ vm' = [vm EXCEPT ![h] = "up"]
       \/ Go(h, "install_err") /\ vm' = [vm EXCEPT ![h] = "ended"]
    /\ UNCHANGED <<admissionVars, quotaVars, session, slot, of, key, replay, depVars, drain>>

\* Bug: the VM of a closed session is dropped without being stopped.
KeepUnwantedVm(h) == UNCHANGED vm
StopUnwantedVm(h) == vm' = [vm EXCEPT ![h] = "ended"]

\* start_reserved_managed_vm, second critical section.  The VM of a session
\* that went away is stopped there, while the lock is held.
InstallVm(h) ==
    /\ start[h] \in {"install_ok", "install_err"}
    /\ IF session[of[h]] # "open" \/ slot[h] # "preparing"
       THEN /\ StopUnwantedVm(h)
            /\ Fail(h)
            /\ UNCHANGED <<admissionVars, sandboxQuota, slot>>
       ELSE IF start[h] = "install_ok"
       THEN /\ slot' = [slot EXCEPT ![h] = "running"]
            /\ Go(h, IF key[h] = NoKey THEN "started" ELSE "complete")
            /\ UNCHANGED <<admissionVars, sandboxQuota, vm>>
       ELSE RemovePreparing(h) /\ Fail(h) /\ UNCHANGED vm
    /\ UNCHANGED <<connections, dependents_held, session, of, key, replay, depVars, drain>>

\* Bug: a record of the same key is taken for the own one.
OwnsRecordOfAnySession(h) == replay[ReplayKey(h)].state = "Preparing"

\* The record still belongs to this start: same connection, still Preparing.
OwnsRecord(h) == /\ replay[ReplayKey(h)].state = "Preparing"
                 /\ replay[ReplayKey(h)].session = of[h]

CompleteStartReplay(h) ==
    /\ start[h] = "complete"
    /\ IF OwnsRecord(h)
       THEN /\ replay' = [replay EXCEPT ![ReplayKey(h)] =
                            [state |-> "Running", session |-> of[h], sandbox |-> h]]
            /\ Go(h, "started")
       ELSE Go(h, "undo") /\ UNCHANGED replay
    /\ UNCHANGED <<admissionVars, quotaVars, session, slot, vm, of, key, depVars, drain>>

AbandonStartReplay(h) ==
    /\ start[h] \in {"abandon", "panic_abandon"}
    /\ replay' = IF OwnsRecord(h) THEN [replay EXCEPT ![ReplayKey(h)] = Absent] ELSE replay
    /\ Go(h, IF start[h] = "abandon" THEN "failed" ELSE "panic_cancel")
    /\ UNCHANGED <<admissionVars, quotaVars, session, slot, vm, of, key, depVars, drain>>

\* QEMU dies, or the VM thread sees a cancelled token: the thread cleans up.
VmExits(h) ==
    /\ vm[h] = "up"
    /\ vm' = [vm EXCEPT ![h] = "ended"]
    /\ live' = {d \in live : sandbox_of[d] # h}
    /\ UNCHANGED <<admissionVars, quotaVars, session, slot, startVars, replay, dep, task,
                   sandbox_of, drain>>

-----------------------------------------------------------------------------
(* stop_managed_vm, called by the client and by a start it must undo       *)

StopManagedVm(h) ==
    /\ start[h] \in {"started", "undo"}
    /\ session[of[h]] = "open"
    /\ slot[h] = "running"
    /\ slot' = [slot EXCEPT ![h] = "stopping"]
    /\ dep' = [d \in Dependents |-> IF d \in Entries(h) THEN "none" ELSE dep[d]]
    /\ ReleaseDependents(of[h], Entries(h), sandbox_of)
    /\ Go(h, IF start[h] = "undo" THEN "failed" ELSE start[h])
    /\ UNCHANGED <<admissionVars, connections, sandboxQuota, session, vm, of, key, replay,
                   task, live, sandbox_of, drain>>

\* The start to undo has lost its session: stop_managed_vm finds nothing.
UndoFindsNothing(h) ==
    /\ start[h] = "undo"
    /\ session[of[h]] # "open"
    /\ Go(h, "failed")
    /\ UNCHANGED <<admissionVars, quotaVars, session, slot, vm, of, key, replay, depVars, drain>>

\* Outside the lock: dependents are killed, then the VM is stopped.
StopVm(h) ==
    /\ slot[h] = "stopping"
    /\ slot' = [slot EXCEPT ![h] = "stopped"]
    /\ vm' = [vm EXCEPT ![h] = "ended"]
    /\ live' = {d \in live : sandbox_of[d] # h}
    /\ UNCHANGED <<admissionVars, quotaVars, session, startVars, replay, dep, task,
                   sandbox_of, drain>>

\* The second critical section: release_sandbox and retire_start_replay.
FinishStop(h) ==
    /\ slot[h] = "stopped"
    /\ slot' = [slot EXCEPT ![h] = "dropping"]
    /\ ReleaseSandboxes(of[h], {h})
    /\ replay' = [i \in ReplayKeys |->
                    IF /\ i[1] = IdentityOf[of[h]]
                       /\ replay[i].session = of[h]
                       /\ replay[i].state = "Running"
                       /\ replay[i].sandbox = h
                    THEN [replay[i] EXCEPT !.state = "Retired"] ELSE replay[i]]
    /\ UNCHANGED <<admissionVars, connections, dependents_held, session, vm, startVars,
                   depVars, drain>>

\* The slot goes out of scope after the lock is released.
DropStopped(h) ==
    /\ slot[h] = "dropping"
    /\ slot' = [slot EXCEPT ![h] = "none"]
    /\ ReleaseActiveUse(h)
    /\ UNCHANGED <<quotaVars, session, vm, startVars, replay, depVars, drain>>

-----------------------------------------------------------------------------
(* Guest processes and watches                                             *)

\* spawn_managed_process and start_managed_watch, first critical section.
BeginDependent(d, h) ==
    /\ task[d] = "idle"
    /\ start[h] = "started"
    /\ session[of[h]] = "open"
    /\ slot[h] = "running"
    /\ ReserveDependent(of[h], h, KindOf[d])
    /\ dep' = [dep EXCEPT ![d] = "preparing"]
    /\ task' = [task EXCEPT ![d] = "calling"]
    /\ sandbox_of' = [sandbox_of EXCEPT ![d] = h]
    /\ UNCHANGED <<admissionVars, connections, sandboxQuota, session, slot, vm, startVars,
                   replay, live, drain>>

\* The call into the VM thread; a VM that is gone answers with an error.
CallDependent(d) ==
    /\ task[d] = "calling"
    /\ \/ /\ vm[sandbox_of[d]] = "up"
          /\ task' = [task EXCEPT ![d] = "ok"]
          /\ live' = live \cup {d}
       \/ task' = [task EXCEPT ![d] = "err"] /\ UNCHANGED live
    /\ UNCHANGED <<admissionVars, quotaVars, session, slot, vm, startVars, replay, dep,
                   sandbox_of, drain>>

\* Bug: only the session is looked up again after the call.
SessionStillOpen(d) == session[of[sandbox_of[d]]] = "open"

StillValid(d) == /\ session[of[sandbox_of[d]]] = "open"
                 /\ dep[d] = "preparing"
                 /\ slot[sandbox_of[d]] = "running"

\* The second critical section: install the entry, take it back, or kill what
\* was started for a sandbox or session that went away.
InstallDependent(d) ==
    /\ task[d] \in {"ok", "err"}
    /\ task' = [task EXCEPT ![d] = "done"]
    /\ IF ~StillValid(d)
       THEN live' = live \ {d} /\ UNCHANGED <<dep, dependents_held>>
       ELSE IF task[d] = "ok"
       THEN dep' = [dep EXCEPT ![d] = "running"] /\ UNCHANGED <<live, dependents_held>>
       ELSE /\ dep' = [dep EXCEPT ![d] = "none"]
            /\ ReleaseDependents(of[sandbox_of[d]], {d}, sandbox_of)
            /\ UNCHANGED live
    /\ UNCHANGED <<admissionVars, connections, sandboxQuota, session, slot, vm, startVars,
                   replay, sandbox_of, drain>>

\* kill_managed_process, or the process ends by itself: the entry stays.
ProcessEnds(d) ==
    /\ d \in live
    /\ KindOf[d] = "process"
    /\ live' = live \ {d}
    /\ UNCHANGED <<admissionVars, quotaVars, session, slot, vm, startVars, replay, dep, task,
                   sandbox_of, drain>>

\* retire_managed_process by the output pump; stop_managed_watch by the client
\* or the event pump.  Dropping the entry kills what it stands for.
RetireDependent(d) ==
    /\ dep[d] = "running"
    /\ session[of[sandbox_of[d]]] = "open"
    /\ dep' = [dep EXCEPT ![d] = "retired"]
    /\ live' = live \ {d}
    /\ ReleaseDependents(of[sandbox_of[d]], {d}, sandbox_of)
    /\ UNCHANGED <<admissionVars, connections, sandboxQuota, session, slot, vm, startVars,
                   replay, task, sandbox_of, drain>>

-----------------------------------------------------------------------------
(* drain_all and its callers                                               *)

OpenSessions == {s \in Sessions : session[s] = "open"}

StartDrain(mode) ==
    drain' = [pc |-> "draining", todo |-> OpenSessions, current |-> NoSession,
              mode |-> mode, clean |-> FALSE]

\* HealthContext::begin_shutdown.
BeginShutdown ==
    /\ drain.pc = "idle"
    /\ Quarantine
    /\ StartDrain("shutdown")
    /\ UNCHANGED <<quotaVars, session, slot, vm, startVars, replay, depVars>>

\* MaintenanceManager::prepare_uninstall.
PrepareUninstall ==
    /\ drain.pc = "idle"
    /\ BeginUninstall
    /\ StartDrain("uninstall")
    /\ UNCHANGED <<quotaVars, session, slot, vm, startVars, replay, depVars>>

\* The session the drain is closing has been dropped with all it owned.
CloseReturned ==
    drain.current # NoSession =>
        /\ session[drain.current] = "closed"
        /\ \A h \in Sandboxes : of[h] = drain.current => slot[h] # "husk"

\* A session another thread closes is not waited for: close answers false.
DrainNext(s) ==
    /\ drain.pc = "draining"
    /\ CloseReturned
    /\ s \in drain.todo
    /\ IF session[s] = "open"
       THEN /\ DetachSession(s)
            /\ drain' = [drain EXCEPT !.todo = @ \ {s}, !.current = s]
       ELSE /\ drain' = [drain EXCEPT !.todo = @ \ {s}, !.current = NoSession]
            /\ UNCHANGED <<admissionVars, quotaVars, session, slot, vm, startVars, replay,
                           depVars>>

\* Bug: the drain waits for sessions that open behind it.
DrainWaitsForEmpty ==
    /\ drain.pc = "draining"
    /\ CloseReturned
    /\ drain.todo = {} /\ OpenSessions = {}
    /\ drain' = [drain EXCEPT !.pc = "done", !.clean = (OpenSessions = {})]
    /\ UNCHANGED <<admissionVars, quotaVars, session, slot, vm, startVars, replay, depVars>>

\* drain_all returns; prepare_uninstall answers with sessions.is_empty().
DrainDone ==
    /\ drain.pc = "draining"
    /\ CloseReturned
    /\ drain.todo = {}
    /\ drain' = [drain EXCEPT !.pc = "done", !.clean = (OpenSessions = {})]
    /\ UNCHANGED <<admissionVars, quotaVars, session, slot, vm, startVars, replay, depVars>>

-----------------------------------------------------------------------------

\* Maintenance requests and the update coordinator change the admission state
\* at any time; Maintenance says when each of them does.
AdmissionChanges ==
    /\ \/ BeginUpdateWaiting
       \/ TrySealIfIdle
       \/ MarkActivationPending
       \/ Reopen(TRUE)
       \/ Quarantine
    /\ UNCHANGED <<quotaVars, session, slot, vm, startVars, replay, depVars, drain>>

StartStep(h) ==
    \/ ReserveManagedVm(h) \/ PrepareInstance(h) \/ CancelManagedVmReservation(h)
    \/ StartReserved(h) \/ BootEnds(h) \/ InstallVm(h) \/ CompleteStartReplay(h)
    \/ AbandonStartReplay(h) \/ UndoFindsNothing(h)
StopStep(h) == StopVm(h) \/ FinishStop(h) \/ DropStopped(h)
CloseStep(h) == StopDetached(h) \/ DropHusk(h)

Next ==
    \/ \E s \in Sessions : OpenSession(s) \/ OpenWithoutHandle(s) \/ CloseSession(s)
                           \/ CancelSession(s) \/ DrainNext(s)
    \/ \E h \in Sandboxes : \/ StartStep(h) \/ StopStep(h) \/ CloseStep(h)
                            \/ StopManagedVm(h) \/ VmExits(h)
    \/ \E h \in Sandboxes, s \in Sessions : BeginStart(s, h)
    \/ \E h \in Sandboxes, s \in Sessions, k \in Keys : BeginStartReplay(s, h, k)
    \/ \E d \in Dependents : \/ CallDependent(d) \/ InstallDependent(d)
                             \/ ProcessEnds(d) \/ RetireDependent(d)
    \/ \E d \in Dependents, h \in Sandboxes : BeginDependent(d, h)
    \/ BeginShutdown \/ PrepareUninstall \/ DrainDone
    \/ AdmissionChanges

Spec == Init /\ [][Next]_vars

\* Every started step of a request, a close or a drain is taken by a thread of
\* its own; VM starts, stops and guest calls are bounded by deadlines.
Fairness ==
    /\ \A h \in Sandboxes : WF_vars(StartStep(h)) /\ WF_vars(StopStep(h)) /\ WF_vars(CloseStep(h))
    /\ \A s \in Sessions : WF_vars(CancelSession(s))
    /\ \A d \in Dependents : WF_vars(CallDependent(d)) /\ WF_vars(InstallDependent(d))
    /\ WF_vars((\E s \in Sessions : DrainNext(s)) \/ DrainDone)

FairSpec == Spec /\ Fairness

-----------------------------------------------------------------------------

(* Every slot holds one lease and nothing else does: whichever of the      *)
(* close, stop, cancel and failed-install paths removes a slot, and        *)
(* wherever it is held meanwhile, the lease goes with it, once.            *)
LeaseGoesWithSlot == leases = {h \in Sandboxes : slot[h] # "none"}

(* A sandbox is charged exactly while it is in a session table or on the   *)
(* stack of stop_managed_vm, whatever close, stop and a failed start       *)
(* release in whatever order.                                              *)
ChargedIsHeld ==
    sandbox_resources =
        {h \in Sandboxes : slot[h] \in {"preparing", "running", "stopping", "stopped"}}

ChargedTo(x) == {h \in sandbox_resources : x \in SandboxScopes(of[h])}

(* Every counter of the quota book is what the live state adds up to: no   *)
(* interleaving loses or repeats a release, and no user is charged for     *)
(* another.                                                                *)
QuotaIsExact ==
    /\ \A x \in DOMAIN connections :
          connections[x] = Cardinality({s \in Sessions : /\ session[s] \in {"open", "leaked"}
                                                         /\ x \in ConnectionScopes(s)})
    /\ \A x \in DOMAIN sandboxes : sandboxes[x] = Cardinality(ChargedTo(x))
    /\ \A r \in Dims : \A x \in UserScopes :
          usage[r][x] = MapThenSumSet(LAMBDA h : Accounted(h, r, x), ChargedTo(x))
    /\ \A n \in Kinds : \A x \in DOMAIN dependents_held[n] :
          dependents_held[n][x] =
             Cardinality({d \in Dependents :
                /\ KindOf[d] = n /\ dep[d] \in {"preparing", "running"}
                /\ x \in DependentScopes(of[sandbox_of[d]], sandbox_of[d])})

(* A VM that boots or runs has somebody who will stop it: the start that   *)
(* boots it, a slot of a session, a stop, or the close of its session.     *)
NoOrphanVm ==
    \A h \in Sandboxes : vm[h] \in {"booting", "up"} =>
        \/ start[h] \in {"boot", "install_ok"}
        \/ slot[h] \in {"running", "stopping", "detached"}

(* Processes and watches do not outlive their sandbox: an entry has a      *)
(* running slot in an open session, and what still runs in a guest without *)
(* an entry is about to be killed by its own request, by a stop or by a    *)
(* close.                                                                  *)
ChildrenHaveParents ==
    \A d \in Dependents :
        /\ dep[d] \in {"preparing", "running"} =>
              slot[sandbox_of[d]] = "running" /\ session[of[sandbox_of[d]]] = "open"
        /\ d \in live /\ dep[d] # "running" =>
              task[d] = "ok" \/ slot[sandbox_of[d]] \in {"stopping", "detached"}

(* A replayed start answers with a sandbox of the asking connection that   *)
(* is still there or on its way out by a stop of the same client; a        *)
(* Preparing record has exactly one start working on it.                   *)
ReplayRecordsAreBacked ==
    \A i \in ReplayKeys :
        /\ replay[i].state = "Running" =>
              /\ session[replay[i].session] = "open"
              /\ of[replay[i].sandbox] = replay[i].session
              /\ slot[replay[i].sandbox] \in {"running", "stopping", "stopped"}
        /\ replay[i].state = "Preparing" =>
              /\ session[replay[i].session] = "open"
              /\ \E h \in Sandboxes : of[h] = replay[i].session /\ ReplayKey(h) = i
                    /\ start[h] \in {"reserve", "prepare", "cancel", "check", "boot",
                          "install_ok", "install_err", "complete", "abandon", "panic_abandon"}

(* A retried start never leaves its client with two sandboxes: at any time *)
(* at most one sandbox of a replay key is in a session table with a VM.    *)
OneSandboxPerReplayKey ==
    \A g, h \in Sandboxes :
        /\ g # h
        /\ slot[g] = "running" /\ slot[h] = "running"
        /\ key[g] # NoKey
        => ReplayKey(g) # ReplayKey(h)

(* A sealed or activating service has no sandbox in any table or being     *)
(* stopped; all that may still run is a boot whose connection is gone.     *)
SealedHasOnlyAbandonedBoots ==
    admission_state \in {"UpdateSealed", "ActivationPending"} =>
        \A h \in Sandboxes : vm[h] \in {"booting", "up"} =>
            /\ start[h] \in {"boot", "install_ok"}
            /\ session[of[h]] = "closed"

(* Once a connection begins to close, nothing of it stays: its slots are   *)
(* gone with their leases, its VMs are down and its requests have ended,   *)
(* even the ones that began after the close.                               *)
ClosedSessionLetsGo ==
    \A h \in Sandboxes :
        of[h] # NoSession /\ session[of[h]] \in {"closing", "closed"}
            ~> /\ slot[h] = "none"
               /\ vm[h] \notin {"booting", "up"}
               /\ start[h] \in {"started", "replayed", "refused", "failed"}

(* drain_all ends, whatever connections open behind it.                    *)
DrainFinishes == drain.pc = "draining" ~> drain.pc = "done"

=============================================================================
