------------------------------- MODULE Ledger -------------------------------
(***************************************************************************)
(* The protected resource ledger of the Windows service: the write-ahead   *)
(* document each sandbox keeps (resource/transaction.rs, ledger/atomic.rs),*)
(* the boot and the teardown that drive it (rpc/sandbox.rs, resource/vm.rs,*)
(* windows/job.rs, qemu/process.rs) and the recovery that every start of   *)
(* the service runs over what an earlier process left behind               *)
(* (ledger/reconcile.rs, recovery.rs, windows_cleaner.rs).                 *)
(*                                                                         *)
(* A document holds at most two records, in this order: the staging root   *)
(* of the instance and its QEMU process.  A record is "no" (not there),    *)
(* "intent" or "committed".  Every write is two steps, so that the process *)
(* can die between creating the temporary and replacing the document.      *)
(***************************************************************************)
EXTENDS Naturals, FiniteSets

CONSTANTS NoDoc,         \* nobody holds the lock
          Docs,          \* sandbox ids, each the name of one ledger document
          MaxDocuments,  \* MAX_LEDGER_DOCUMENTS
          MaxFaults      \* bound on crashes, I/O errors and outside changes

ASSUME LedgerAssumption == NoDoc \notin Docs /\ MaxDocuments \in Nat /\ MaxFaults \in Nat

VARIABLES
    file,    \* the document on disk, "absent", or "torn" (created, not written)
    temps,   \* documents with a temporary sibling in the ledger directory
    mem,     \* the document held by the transaction, or by the recovery
    pc,      \* where the boot, the teardown or the recovery of a sandbox is
    writer,  \* who holds WRITE_LOCK
    dir,     \* the instance directory: absent, ours, or another object
    proc,    \* the process behind the recorded PID
    svc,     \* the service: down, scanning, rescanning, recovering, open, closed
    engine,  \* the adjacent bundle verified at this start
    todo,    \* directory entries the current pass has not visited
    bad,     \* summary: some entry was quarantined or is unproven
    kept,    \* summary: some valid document could not be recovered
    faults

vars == <<file, temps, mem, pc, writer, dir, proc, svc, engine, todo, bad, kept, faults>>
disk == <<file, temps>>
startup == <<svc, engine, todo, bad, kept>>

States == {"reserved", "preparing", "running", "cleaning", "quarantined"}
Proof == {"no", "intent", "committed"}
Document == [state : States \cup {"absent", "torn"}, staging : Proof, qemu : Proof]
Absent == [state |-> "absent", staging |-> "no", qemu |-> "no"]
Torn == [state |-> "torn", staging |-> "no", qemu |-> "no"]
Reserved == [state |-> "reserved", staging |-> "no", qemu |-> "no"]
With(state, staging, qemu) == [state |-> state, staging |-> staging, qemu |-> qemu]

\* What follows a write that reached the disk, and one that did not.
WriteSteps == {"w_intent", "w_staged", "w_preparing", "w_qemu", "w_committed",
               "w_running", "w_cleaning", "w_cleared",
               "w_r_cleaning", "w_r_pop", "w_r_quarantined"}
RecoverySteps == {"w_r_cleaning", "w_r_pop", "w_r_quarantined", "r_loop", "r_pop", "r_kept"}
BootWrites == {"w_qemu", "w_committed", "w_running"}
OwnerSteps == {"creating", "reserved", "intended", "made", "staged", "preparing",
               "qemu_intended", "spawned", "assigned", "committed", "booted", "running",
               "failed", "rolling_back", "stopped", "emptied", "cleaning", "cleared", "abandoned"}
Steps == {"none"} \cup WriteSteps \cup RecoverySteps \cup OwnerSteps
AfterWrite(step) ==
    CASE step = "w_intent"        -> "intended"
      [] step = "w_staged"        -> "staged"
      [] step = "w_preparing"     -> "preparing"
      [] step = "w_qemu"          -> "qemu_intended"
      [] step = "w_committed"     -> "committed"
      [] step = "w_running"       -> "running"
      [] step = "w_cleaning"      -> "cleaning"
      [] step = "w_cleared"       -> "cleared"
      [] step = "w_r_quarantined" -> "r_kept"
      [] OTHER                    -> "r_loop"

Fault == faults < MaxFaults /\ faults' = faults + 1

-----------------------------------------------------------------------------
(* atomic::write                                                           *)

\* Serialize, take WRITE_LOCK and create the random temporary.
Persist(d, from, document, step) ==
    /\ pc[d] = from
    /\ writer = NoDoc
    /\ writer' = d
    /\ temps' = temps \cup {d}
    /\ mem' = [mem EXCEPT ![d] = document]
    /\ pc' = [pc EXCEPT ![d] = step]
    /\ UNCHANGED <<file, dir, proc>>

\* The temporary is flushed and replaces the document.
Replace(d) ==
    /\ writer = d
    /\ pc[d] \in WriteSteps
    /\ file' = [file EXCEPT ![d] = mem[d]]
    /\ temps' = temps \ {d}
    /\ writer' = NoDoc
    /\ pc' = [pc EXCEPT ![d] = AfterWrite(pc[d])]
    /\ UNCHANGED <<mem, dir, proc, faults>> /\ UNCHANGED startup

\* A failed write removes its own temporary; what the error does to the
\* caller: the boot rolls back, any other transaction is dropped as it is.
WriteFails(d) ==
    /\ Fault
    /\ writer = d
    /\ pc[d] \in WriteSteps \ RecoverySteps
    /\ temps' = temps \ {d}
    /\ writer' = NoDoc
    /\ pc' = [pc EXCEPT ![d] = IF pc[d] \in BootWrites THEN "failed" ELSE "abandoned"]
    /\ UNCHANGED <<file, mem, dir, proc>> /\ UNCHANGED startup

-----------------------------------------------------------------------------
(* The boot of a sandbox.  Its id is random, so nothing carries it yet.    *)

Move(d, from, to) == pc[d] = from /\ pc' = [pc EXCEPT ![d] = to]

\* ResourceTransaction::reserve creates the document in place: until the
\* bytes are flushed the final name holds a torn file.
Reserve(d) ==
    /\ svc = "open"
    /\ Move(d, "none", "creating")
    /\ file[d] = Absent /\ d \notin temps /\ dir[d] = "absent" /\ proc[d] = "none"
    /\ writer = NoDoc
    /\ writer' = d
    /\ file' = [file EXCEPT ![d] = Torn]
    /\ UNCHANGED <<temps, mem, dir, proc, faults>> /\ UNCHANGED startup

FinishReserveKeepsLock(d) ==
    /\ Move(d, "creating", "reserved")
    /\ file' = [file EXCEPT ![d] = Reserved]
    /\ mem' = [mem EXCEPT ![d] = Reserved]
    /\ UNCHANGED <<temps, writer, dir, proc, faults>> /\ UNCHANGED startup

FinishReserve(d) ==
    /\ writer' = NoDoc
    /\ \/ /\ Move(d, "creating", "reserved")
          /\ file' = [file EXCEPT ![d] = Reserved]
          /\ mem' = [mem EXCEPT ![d] = Reserved]
          /\ UNCHANGED faults
       \/ /\ Fault
          /\ Move(d, "creating", "none")
          /\ file' = [file EXCEPT ![d] = Absent]
          /\ UNCHANGED mem
    /\ UNCHANGED <<temps, dir, proc>> /\ UNCHANGED startup

IntentStagingInMemory(d) ==
    /\ Move(d, "reserved", "intended")
    /\ mem' = [mem EXCEPT ![d] = With(mem[d].state, "intent", "no")]
    /\ UNCHANGED <<writer, dir, proc, faults>> /\ UNCHANGED disk /\ UNCHANGED startup

\* prepare_instance: intent, create_dir, commit with the identity of the
\* directory.  An error before the commit leaves everything for the next start.
IntentStaging(d) ==
    /\ Persist(d, "reserved", With(mem[d].state, "intent", "no"), "w_intent")
    /\ UNCHANGED faults /\ UNCHANGED startup

CreateDir(d) ==
    /\ dir[d] = "absent"
    /\ \/ Move(d, "intended", "made") /\ dir' = [dir EXCEPT ![d] = "ours"] /\ UNCHANGED faults
       \/ Fault /\ Move(d, "intended", "abandoned") /\ UNCHANGED dir
    /\ UNCHANGED <<mem, writer, proc>> /\ UNCHANGED disk /\ UNCHANGED startup

CommitStaging(d) ==
    /\ Persist(d, "made", With(mem[d].state, "committed", "no"), "w_staged")
    /\ UNCHANGED faults /\ UNCHANGED startup

\* Copying or sizing the rootfs fails or is cancelled: the identity is
\* checked, the directory removed and the transaction finished.
PrepareFails(d) ==
    /\ mem[d].staging = "committed"
    /\ \/ /\ Move(d, "staged", "emptied")
          /\ dir' = [dir EXCEPT ![d] = "absent"]
          /\ UNCHANGED faults
       \/ Fault /\ Move(d, "staged", "abandoned") /\ UNCHANGED dir
    /\ UNCHANGED <<mem, writer, proc>> /\ UNCHANGED disk /\ UNCHANGED startup

\* ManagedVm::start moves the document to Preparing.
StartVm(d) ==
    /\ Persist(d, "staged", With("preparing", mem[d].staging, "no"), "w_preparing")
    /\ UNCHANGED faults /\ UNCHANGED startup

\* QemuProcess::start persists the intent, creates the child suspended,
\* assigns it to the kill-on-close Job, commits its identity, and only then
\* resumes it.
PrepareJournal(d) ==
    /\ Persist(d, "preparing", With(mem[d].state, mem[d].staging, "intent"), "w_qemu")
    /\ UNCHANGED faults /\ UNCHANGED startup

SetProc(d, from, to, process) ==
    /\ Move(d, from, to)
    /\ proc' = [proc EXCEPT ![d] = process]
    /\ UNCHANGED <<mem, writer, dir, faults>> /\ UNCHANGED disk /\ UNCHANGED startup

SpawnSuspended(d) == SetProc(d, "qemu_intended", "spawned", "spawned")
AssignProcess(d)  == SetProc(d, "spawned", "assigned", "suspended")
ResumeThread(d)   == SetProc(d, "committed", "booted", "running")

CommitJournal(d) ==
    /\ Persist(d, "assigned", With(mem[d].state, mem[d].staging, "committed"), "w_committed")
    /\ UNCHANGED faults /\ UNCHANGED startup

SetRunning(d) ==
    /\ Persist(d, "booted", With("running", mem[d].staging, mem[d].qemu), "w_running")
    /\ UNCHANGED faults /\ UNCHANGED startup

\* The boot is cancelled, a step of it fails, or a running QEMU exits: the
\* sandbox is stopped and, whatever the stop answers, the instance directory
\* removed; the document stays for the next start.
BootFails(d) ==
    /\ Fault
    /\ pc[d] \in {"preparing", "qemu_intended", "spawned", "assigned", "committed",
                  "booted", "running"}
    /\ pc' = [pc EXCEPT ![d] = "failed"]
    /\ UNCHANGED <<mem, writer, dir, proc>> /\ UNCHANGED disk /\ UNCHANGED startup

StopFailedBoot(d) ==
    \/ SetProc(d, "failed", "rolling_back", "none")
    \/ /\ Fault
       /\ Move(d, "failed", "rolling_back")
       /\ UNCHANGED <<mem, writer, dir, proc>> /\ UNCHANGED disk /\ UNCHANGED startup

CleanupFailedBoot(d) ==
    /\ Move(d, "rolling_back", "abandoned")
    /\ \/ dir' = [dir EXCEPT ![d] = "absent"] /\ UNCHANGED faults
       \/ Fault /\ UNCHANGED dir
    /\ UNCHANGED <<mem, writer, proc>> /\ UNCHANGED disk /\ UNCHANGED startup

\* The Job of a sandbox whose handles are gone kills what was assigned to it.
JobKill(d) ==
    /\ proc[d] \in {"suspended", "running"}
    /\ pc[d] \in {"none", "abandoned"} \cup RecoverySteps
    /\ proc' = [proc EXCEPT ![d] = "none"]
    /\ UNCHANGED <<mem, pc, writer, dir, faults>> /\ UNCHANGED disk /\ UNCHANGED startup

-----------------------------------------------------------------------------
(* The teardown of a running sandbox: stop_and_cleanup, then finish().     *)

StopVm(d) ==
    \/ SetProc(d, "running", "stopped", "none")
    \/ /\ Fault                                       \* the stop fails
       /\ Move(d, "running", "abandoned")
       /\ UNCHANGED <<mem, writer, dir, proc>> /\ UNCHANGED disk /\ UNCHANGED startup

RemoveInstance(d) ==
    /\ mem[d].staging = "committed"
    /\ \/ /\ Move(d, "stopped", "emptied")
          /\ dir' = [dir EXCEPT ![d] = "absent"]
          /\ UNCHANGED faults
       \/ Fault /\ Move(d, "stopped", "abandoned") /\ UNCHANGED dir
    /\ UNCHANGED <<mem, writer, proc>> /\ UNCHANGED disk /\ UNCHANGED startup

FinishCleaning(d) ==
    /\ Persist(d, "emptied", With("cleaning", mem[d].staging, mem[d].qemu), "w_cleaning")
    /\ UNCHANGED faults /\ UNCHANGED startup

FinishClear(d) ==
    /\ Persist(d, "cleaning", With("cleaning", "no", "no"), "w_cleared")
    /\ UNCHANGED faults /\ UNCHANGED startup

FinishRemove(d) ==
    /\ writer = NoDoc
    /\ \/ /\ Move(d, "cleared", "none")
          /\ file' = [file EXCEPT ![d] = Absent]
          /\ UNCHANGED faults
       \/ Fault /\ Move(d, "cleared", "abandoned") /\ UNCHANGED file
    /\ UNCHANGED <<temps, mem, writer, dir, proc>> /\ UNCHANGED startup

-----------------------------------------------------------------------------
(* The process dies, or is stopped once its sessions are drained.          *)

Down ==
    /\ svc' = "down"
    /\ pc' = [d \in Docs |-> "none"]
    /\ mem' = [d \in Docs |-> Absent]
    /\ writer' = NoDoc
    /\ todo' = {}
    /\ UNCHANGED <<file, temps, dir, proc, engine, bad, kept>>

Crash == Fault /\ svc # "down" /\ Down

StopService ==
    /\ svc \in {"open", "closed"}
    /\ \A d \in Docs : pc[d] \in {"none", "abandoned"}
    /\ Down /\ UNCHANGED faults

\* A write of the recovery that fails is an error of the start itself.
StartFails(d) ==
    /\ Fault
    /\ writer = d /\ pc[d] \in RecoverySteps
    /\ svc' = "down"
    /\ temps' = temps \ {d}
    /\ pc' = [x \in Docs |-> "none"]
    /\ mem' = [x \in Docs |-> Absent]
    /\ writer' = NoDoc
    /\ todo' = {}
    /\ UNCHANGED <<file, dir, proc, engine, bad, kept>>

-----------------------------------------------------------------------------
(* The start of the service: reconcile_and_recover.                        *)

IsDocument(d) == file[d].state \in States
Entries == ({"doc"} \X {d \in Docs : file[d] # Absent}) \cup ({"temp"} \X temps)
BadEntry(e) == e[1] = "temp" \/ file[e[2]] = Torn

\* More than MAX_LEDGER_DOCUMENTS entries: nothing is read, admissions stay
\* closed.  Without a verified bundle there is no cleaner (engine FALSE).
StartService ==
    /\ svc = "down"
    /\ engine' \in BOOLEAN
    /\ kept' = FALSE
    /\ \/ /\ Cardinality(Entries) > MaxDocuments
          /\ bad' = TRUE /\ svc' = "closed" /\ todo' = {}
       \/ /\ ~(Cardinality(Entries) > MaxDocuments)
          /\ bad' = FALSE /\ svc' = "scanning" /\ todo' = Entries
    /\ UNCHANGED <<mem, pc, writer, dir, proc, faults>> /\ UNCHANGED disk

\* One entry: a valid document is counted, anything else is renamed into the
\* quarantine directory, or is unproven when it cannot be moved.
ScanEntry(e) ==
    /\ svc \in {"scanning", "rescanning"}
    /\ e \in todo
    /\ todo' = todo \ {e}
    /\ \/ /\ ~BadEntry(e)
          /\ UNCHANGED <<bad, faults>> /\ UNCHANGED disk
       \/ /\ BadEntry(e)
          /\ bad' = TRUE
          /\ temps' = IF e[1] = "temp" THEN temps \ {e[2]} ELSE temps
          /\ file' = IF e[1] = "temp" THEN file ELSE [file EXCEPT ![e[2]] = Absent]
          /\ UNCHANGED faults
       \/ /\ BadEntry(e)
          /\ Fault
          /\ bad' = TRUE
          /\ UNCHANGED disk
    /\ UNCHANGED <<mem, pc, writer, dir, proc, svc, engine, kept>>

Documents == {d \in Docs : IsDocument(d)}

\* reconcile() returns; with valid documents and a cleaner the directory is
\* read a second time, and recovery runs only if no entry was bad.
FinishScan ==
    /\ todo = {}
    /\ \/ /\ svc = "scanning" /\ (Documents = {} \/ ~engine)
          /\ svc' = IF Documents = {} /\ ~bad /\ engine THEN "open" ELSE "closed"
          /\ todo' = {}
       \/ /\ svc = "scanning" /\ Documents # {} /\ engine
          /\ svc' = "rescanning"
          /\ todo' = Entries
       \/ /\ svc = "rescanning"
          /\ svc' = IF bad THEN "closed" ELSE "recovering"
          /\ todo' = IF bad THEN {} ELSE Entries
    /\ UNCHANGED <<mem, pc, writer, dir, proc, engine, bad, kept, faults>>
    /\ UNCHANGED disk

RecoverDocumentAgain(e) ==
    LET d == e[2] IN
    /\ svc = "recovering"
    /\ e \in todo
    /\ \A x \in Docs : pc[x] = "none"
    /\ todo' = todo \ {e}
    /\ Persist(d, "none", With("cleaning", file[d].staging, file[d].qemu), "w_r_cleaning")
    /\ UNCHANGED <<svc, engine, bad, kept, faults>>

\* recover_document: a quarantined document is kept as it is, any other
\* durably enters Cleaning before the first query.
RecoverDocument(e) ==
    LET d == e[2] IN
    /\ svc = "recovering"
    /\ e \in todo
    /\ \A x \in Docs : pc[x] = "none"
    /\ todo' = todo \ {e}
    /\ IF file[d].state = "quarantined"
       THEN kept' = TRUE /\ UNCHANGED <<mem, pc, writer, dir, proc>> /\ UNCHANGED disk
       ELSE /\ Persist(d, "none", With("cleaning", file[d].staging, file[d].qemu), "w_r_cleaning")
            /\ UNCHANGED kept
    /\ UNCHANGED <<svc, engine, bad, faults>>

RemoveQemuByPid(d) ==
    /\ mem[d].qemu # "no"
    /\ Move(d, "r_loop", "r_pop")
    /\ proc' = [proc EXCEPT ![d] = IF mem[d].qemu = "committed" THEN "none" ELSE proc[d]]
    /\ UNCHANGED <<mem, writer, faults, dir>> /\ UNCHANGED disk /\ UNCHANGED startup

\* remove_qemu: an intent selects no process; a committed one is terminated
\* only if its creation time and image are those recorded.
RemoveQemu(d) ==
    /\ mem[d].qemu # "no"
    /\ \/ /\ mem[d].qemu = "intent" \/ proc[d] = "none"
          /\ Move(d, "r_loop", "r_pop")
          /\ UNCHANGED <<proc, mem, writer, faults>> /\ UNCHANGED disk
       \/ /\ mem[d].qemu = "committed" /\ proc[d] \in {"suspended", "running"}
          /\ Move(d, "r_loop", "r_pop")
          /\ proc' = [proc EXCEPT ![d] = "none"]
          /\ UNCHANGED <<mem, writer, faults>> /\ UNCHANGED disk
       \/ /\ mem[d].qemu = "committed" /\ proc[d] = "stranger"
          /\ Persist(d, "r_loop", With("quarantined", mem[d].staging, mem[d].qemu), "w_r_quarantined")
          /\ UNCHANGED faults
       \/ /\ mem[d].qemu = "committed"
          /\ Fault
          /\ Move(d, "r_loop", "r_kept")
          /\ UNCHANGED <<proc, mem, writer>> /\ UNCHANGED disk
    /\ UNCHANGED dir /\ UNCHANGED startup

RemoveStagingRootFirst(d) ==
    /\ mem[d].staging # "no"
    /\ \/ /\ dir[d] = "ours" /\ mem[d].staging = "committed"
          /\ Move(d, "r_loop", "r_pop")
          /\ dir' = [dir EXCEPT ![d] = "absent"]
       \/ /\ dir[d] = "absent"
          /\ Move(d, "r_loop", "r_pop")
          /\ UNCHANGED dir
       \/ /\ dir[d] # "absent" /\ ~(dir[d] = "ours" /\ mem[d].staging = "committed")
          /\ Move(d, "r_loop", "r_kept")
          /\ UNCHANGED dir
    /\ UNCHANGED <<proc, mem, writer, faults>> /\ UNCHANGED disk /\ UNCHANGED startup

\* remove_staging_root: a directory without a committed identity is never
\* touched; one with another identity quarantines the document.
RemoveStagingRoot(d) ==
    /\ mem[d].qemu = "no" /\ mem[d].staging # "no"
    /\ \/ /\ dir[d] = "absent"
          /\ Move(d, "r_loop", "r_pop")
          /\ UNCHANGED <<dir, proc, mem, writer, faults>> /\ UNCHANGED disk
       \/ /\ dir[d] # "absent" /\ mem[d].staging = "intent"
          /\ Move(d, "r_loop", "r_kept")
          /\ UNCHANGED <<dir, proc, mem, writer, faults>> /\ UNCHANGED disk
       \/ /\ dir[d] = "ours" /\ mem[d].staging = "committed"
          /\ Move(d, "r_loop", "r_pop")
          /\ dir' = [dir EXCEPT ![d] = "absent"]
          /\ UNCHANGED <<proc, mem, writer, faults>> /\ UNCHANGED disk
       \/ /\ dir[d] = "other" /\ mem[d].staging = "committed"
          /\ Persist(d, "r_loop", With("quarantined", mem[d].staging, "no"), "w_r_quarantined")
          /\ UNCHANGED faults
       \/ /\ Fault
          /\ Move(d, "r_loop", "r_kept")
          /\ UNCHANGED <<dir, proc, mem, writer>> /\ UNCHANGED disk
    /\ UNCHANGED startup

PopRecordNowhere(d) ==
    /\ Persist(d, "r_pop", mem[d], "w_r_pop")
    /\ UNCHANGED faults /\ UNCHANGED startup

\* The last record is popped and the document persisted before the next query.
PopRecord(d) ==
    /\ Persist(d, "r_pop",
               IF mem[d].qemu # "no" THEN With(mem[d].state, mem[d].staging, "no")
                                     ELSE With(mem[d].state, "no", "no"),
               "w_r_pop")
    /\ UNCHANGED faults /\ UNCHANGED startup

RemoveLedger(d) ==
    /\ Move(d, "r_loop", "none")
    /\ mem[d].qemu = "no" /\ mem[d].staging = "no"
    /\ writer = NoDoc
    /\ file' = [file EXCEPT ![d] = Absent]
    /\ UNCHANGED <<temps, mem, writer, dir, proc, faults>> /\ UNCHANGED startup

RecoveryKept(d) ==
    /\ Move(d, "r_kept", "none")
    /\ kept' = TRUE
    /\ UNCHANGED <<mem, writer, dir, proc, svc, engine, todo, bad, faults>> /\ UNCHANGED disk

FinishRecoveryOpens ==
    /\ svc = "recovering" /\ todo = {}
    /\ \A d \in Docs : pc[d] = "none"
    /\ svc' = "open"
    /\ UNCHANGED <<mem, pc, writer, dir, proc, engine, todo, bad, kept, faults>>
    /\ UNCHANGED disk

FinishRecovery ==
    /\ svc = "recovering" /\ todo = {}
    /\ \A d \in Docs : pc[d] = "none"
    /\ svc' = IF kept THEN "closed" ELSE "open"
    /\ UNCHANGED <<mem, pc, writer, dir, proc, engine, todo, bad, kept, faults>>
    /\ UNCHANGED disk

-----------------------------------------------------------------------------
(* The host: a PID is given to another process, a volume is restored.      *)

PidReused(d) ==
    /\ Fault
    /\ proc[d] = "none" /\ file[d].qemu = "committed"
    /\ pc[d] \in {"none", "abandoned"} \cup RecoverySteps  \* no handle keeps the PID
    /\ proc' = [proc EXCEPT ![d] = "stranger"]
    /\ UNCHANGED <<mem, pc, writer, dir>> /\ UNCHANGED disk /\ UNCHANGED startup

DirReplaced(d) ==
    /\ Fault
    /\ svc = "down" /\ dir[d] = "ours"
    /\ dir' = [dir EXCEPT ![d] = "other"]
    /\ UNCHANGED <<mem, pc, writer, proc>> /\ UNCHANGED disk /\ UNCHANGED startup

-----------------------------------------------------------------------------
Init ==
    /\ file = [d \in Docs |-> Absent]
    /\ temps = {}
    /\ mem = [d \in Docs |-> Absent]
    /\ pc = [d \in Docs |-> "none"]
    /\ writer = NoDoc
    /\ dir = [d \in Docs |-> "absent"]
    /\ proc = [d \in Docs |-> "none"]
    /\ svc = "down"
    /\ engine = FALSE /\ todo = {} /\ bad = FALSE /\ kept = FALSE
    /\ faults = 0

Boot(d) ==
    \/ Reserve(d) \/ FinishReserve(d) \/ IntentStaging(d) \/ CreateDir(d)
    \/ CommitStaging(d) \/ PrepareFails(d) \/ StartVm(d) \/ PrepareJournal(d)
    \/ SpawnSuspended(d) \/ AssignProcess(d) \/ CommitJournal(d) \/ ResumeThread(d)
    \/ SetRunning(d) \/ BootFails(d) \/ StopFailedBoot(d) \/ CleanupFailedBoot(d)
    \/ JobKill(d)

Teardown(d) ==
    \/ StopVm(d) \/ RemoveInstance(d) \/ FinishCleaning(d) \/ FinishClear(d)
    \/ FinishRemove(d)

Recover(d) ==
    \/ RemoveQemu(d) \/ RemoveStagingRoot(d) \/ PopRecord(d) \/ RemoveLedger(d)
    \/ RecoveryKept(d)

Host(d) == PidReused(d) \/ DirReplaced(d)

Next ==
    \/ \E d \in Docs : Boot(d) \/ Teardown(d) \/ Recover(d) \/ Replace(d) \/ WriteFails(d)
                       \/ StartFails(d) \/ Host(d)
    \/ \E e \in todo : ScanEntry(e) \/ RecoverDocument(e)
    \/ StartService \/ FinishScan \/ FinishRecovery \/ Crash \/ StopService

Spec == Init /\ [][Next]_vars

\* The start runs on one thread that never waits for another.
Starting ==
    \/ \E e \in todo : ScanEntry(e) \/ RecoverDocument(e)
    \/ FinishScan \/ FinishRecovery
    \/ \E d \in Docs : pc[d] \in RecoverySteps /\ (Recover(d) \/ Replace(d))
FairSpec == Spec /\ WF_vars(Starting)

-----------------------------------------------------------------------------
(* Properties                                                              *)

\* Type invariant; WRITE_LOCK is held exactly while a document is written.
TypeOK ==
    /\ file \in [Docs -> Document]
    /\ temps \subseteq Docs
    /\ mem \in [Docs -> Document]
    /\ pc \in [Docs -> Steps]
    /\ writer \in Docs \cup {NoDoc}
    /\ \A d \in Docs : writer = d <=> pc[d] \in WriteSteps \cup {"creating"}
    /\ dir \in [Docs -> {"absent", "ours", "other"}]
    /\ proc \in [Docs -> {"none", "spawned", "suspended", "running", "stranger"}]
    /\ svc \in {"down", "scanning", "rescanning", "recovering", "open", "closed"}
    /\ engine \in BOOLEAN /\ bad \in BOOLEAN /\ kept \in BOOLEAN
    /\ todo \subseteq {"doc", "temp"} \X Docs
    /\ faults \in 0..MaxFaults

\* Write-ahead: whatever step the process dies at, an instance directory has
\* a staging record in the document on disk, and a QEMU that was allowed to
\* run has its committed identity there (intent / replace_and_commit come
\* before create_dir and ResumeThread, pop and clear after the removal).
ResourcesAreLedgered ==
    \A d \in Docs :
        /\ dir[d] # "absent" => file[d].staging # "no"
        /\ proc[d] = "running" => file[d].qemu = "committed"

\* Fail closed: while the service admits work, nothing of an earlier process
\* is left: no document, no instance directory, no running QEMU, only what the
\* sandboxes of this process own (reconcile_and_recover opens admissions only
\* once every count of its summary is zero).
FailClosed ==
    svc = "open" => \A d \in Docs :
        pc[d] = "none" => file[d] = Absent /\ dir[d] = "absent" /\ proc[d] # "running"

\* The recovery never terminates a process or deletes a directory whose
\* identity is not the recorded one (remove_qemu, remove_staging_root), and a
\* document it has quarantined keeps its evidence (recover_with_store).
NothingUnprovenIsRemoved ==
    [][\A d \in Docs : /\ proc[d] = "stranger" => proc'[d] = "stranger"
                       /\ dir[d] = "other" => dir'[d] = "other"]_vars

\* Quarantine is final: no later start retries the document or forgets it.
QuarantineIsSticky ==
    [][\A d \in Docs : file[d].state = "quarantined" => file'[d] = file[d]]_vars

\* Reverse dependency order: no step of a teardown or of the recovery deletes
\* the instance directory, with the root disk in it, under a QEMU that still
\* runs.  (The rollback of a failed boot, run() in resource/vm.rs, calls
\* cleanup_instance whatever sandbox.stop() answered: it is left out.)
NoDiskRemovedUnderVm ==
    [][\A d \in Docs :
          dir[d] = "ours" /\ dir'[d] = "absent" /\ pc[d] # "rolling_back"
          => proc[d] # "running"]_vars

\* Every start comes to an end: the service reports open or closed admissions,
\* or dies trying (the loop of recover_with_store pops a record each time).
StartupFinishes ==
    svc \in {"scanning", "rescanning", "recovering"} ~> svc \in {"open", "closed", "down"}

\* windows_cleaner.rs:58 takes for granted that a child whose identity was not
\* committed cannot outlive the service, so an intent is resolved unseen.
NoChildOutlivesTheService ==
    svc = "open" => \A d \in Docs : pc[d] = "none" => proc[d] \notin {"spawned", "running"}
=============================================================================
