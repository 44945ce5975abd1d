---------------------------- MODULE LedgerProofs ----------------------------
(***************************************************************************)
(* Ledger: the write-ahead invariant and fail-closed admissions, for any   *)
(* number of sandboxes, documents and faults.                              *)
(*                                                                         *)
(* ResourcesAreLedgered speaks only of the disk, so it is not inductive: a *)
(* write in flight will replace the document by the one in memory.  The    *)
(* strengthening says, for every step of the boot, the teardown and the    *)
(* recovery, what the document in memory and the resources look like.      *)
(***************************************************************************)
EXTENDS Ledger, TLAPS

Bare(d) == dir[d] = "absent" /\ proc[d] # "running"
Backed(d, document) ==
    /\ dir[d] # "absent" => document.staging # "no"
    /\ proc[d] = "running" => document.qemu = "committed"

BareSteps == {"creating", "reserved", "w_intent", "intended",
              "emptied", "w_cleaning", "cleaning", "w_cleared", "cleared"}
PausedSteps == {"made", "w_staged", "staged", "w_preparing", "preparing", "w_qemu",
                "qemu_intended", "spawned", "assigned", "w_committed", "committed", "stopped"}
StagedSteps == {"w_staged", "staged", "w_preparing", "preparing", "w_qemu", "qemu_intended",
                "spawned", "assigned", "w_committed", "committed", "booted", "w_running"}
QemuSteps == {"w_committed", "committed", "booted", "w_running"}
BackedSteps == {"w_r_cleaning", "r_loop", "r_pop", "w_r_pop", "w_r_quarantined"}

\* What a step of the sandbox d implies.
StepInv(d) ==
    /\ pc[d] \in BareSteps => Bare(d)
    /\ pc[d] \in PausedSteps => proc[d] # "running"
    /\ pc[d] = "w_intent" => mem[d].staging # "no"
    /\ pc[d] = "intended" => file[d].staging # "no"
    /\ pc[d] \in StagedSteps => mem[d].staging = "committed"
    /\ pc[d] \in QemuSteps => mem[d].qemu = "committed"
    /\ pc[d] = "committed" => file[d].qemu = "committed"
    /\ pc[d] \in BackedSteps => Backed(d, mem[d])
    /\ pc[d] = "r_pop" => proc[d] # "running" /\ (mem[d].qemu = "no" => dir[d] = "absent")
    /\ pc[d] \notin {"none", "creating", "abandoned"} => mem[d].state \in States

\* Strangers, foreign directories and quarantined documents are met only by
\* a recovery, and only a recovery that found a mismatch writes quarantine.
AloofInv(d) ==
    /\ proc[d] = "stranger" => pc[d] \in {"none", "abandoned"} \cup RecoverySteps
    /\ dir[d] = "other" => pc[d] \in {"none"} \cup RecoverySteps
    /\ file[d].state = "quarantined" => pc[d] \in {"none", "r_kept"}
    /\ pc[d] \notin {"none", "creating", "abandoned", "r_kept", "w_r_quarantined"}
        => mem[d].state # "quarantined"

\* Where the service is when the sandbox d is at its step.
PhaseInv(d) ==
    /\ pc[d] \in RecoverySteps => svc = "recovering"
    /\ pc[d] \notin RecoverySteps \cup {"none"} => svc = "open"

\* What the start has still to visit.
ScanInv(d) ==
    /\ svc \in {"scanning", "rescanning"} /\ ~bad /\ file[d] = Torn => <<"doc", d>> \in todo
    /\ svc = "recovering" => \/ file[d] = Absent
                             \/ <<"doc", d>> \in todo
                             \/ pc[d] \in RecoverySteps
                             \/ kept
    /\ svc = "open" /\ pc[d] = "none" => file[d] = Absent

Shapes(d) == file[d].state \in States \/ file[d] \in {Absent, Torn}

IInv ==
    /\ TypeOK
    /\ \A d \in Docs : /\ Backed(d, file[d]) /\ Shapes(d) /\ StepInv(d)
                       /\ PhaseInv(d) /\ ScanInv(d)

\* What a step may do to what the recovery must not touch.
Spares(d) ==
    /\ proc[d] = "stranger" => proc'[d] = "stranger"
    /\ dir[d] = "other" => dir'[d] = "other"
    /\ file[d].state = "quarantined" => file'[d] = file[d]
    /\ dir[d] = "ours" /\ dir'[d] = "absent" /\ pc[d] # "rolling_back"
        => proc[d] # "running"
-----------------------------------------------------------------------------
(* Each action preserves the invariant and spares what it must.            *)

USE LedgerAssumption
    DEF WriteSteps, RecoverySteps, BootWrites, OwnerSteps, Steps, Document, Proof, States,
        Absent, Torn, Reserved, With, disk, startup, Fault

\* The torn file has no record, and nothing carries the id.
LEMMA ReserveInv ==
    ASSUME IInv, NEW d \in Docs, Reserve(d)
    PROVE  IInv'
<1>0. TypeOK
    BY DEF IInv
<1>1. TypeOK'
    BY <1>0 DEF Reserve, Move, TypeOK
<1> USE DEF IInv, TypeOK, Backed, Bare, Shapes, StepInv, PhaseInv, ScanInv,
            BareSteps, PausedSteps, StagedSteps, QemuSteps, BackedSteps
<1>2. ASSUME NEW x \in Docs
      PROVE  (Backed(x, file[x]) /\ Shapes(x) /\ StepInv(x) /\ PhaseInv(x) /\ ScanInv(x))'
    BY DEF Reserve, Move
<1> QED
    BY <1>1, <1>2

\* Nothing was created under the id yet.
LEMMA FinishReserveInv ==
    ASSUME IInv, NEW d \in Docs, FinishReserve(d)
    PROVE  IInv'
<1>0. TypeOK
    BY DEF IInv
<1>1. TypeOK'
  <2>1. (file \in [Docs -> Document])'
    BY <1>0 DEF FinishReserve, Move, TypeOK
  <2>2. (mem \in [Docs -> Document])'
    BY <1>0 DEF FinishReserve, Move, TypeOK
  <2>3. (pc \in [Docs -> Steps])'
    BY <1>0 DEF FinishReserve, Move, TypeOK
  <2>4. (\A y \in Docs : writer = y <=> pc[y] \in WriteSteps \cup {"creating"})'
    BY <1>0 DEF FinishReserve, Move, TypeOK
  <2>5. (/\ temps \subseteq Docs
         /\ writer \in Docs \cup {NoDoc}
         /\ dir \in [Docs -> {"absent", "ours", "other"}])'
    BY <1>0 DEF FinishReserve, Move, TypeOK
  <2>9. (proc \in [Docs -> {"none", "spawned", "suspended", "running", "stranger"}])'
    BY <1>0 DEF FinishReserve, Move, TypeOK
  <2>6. (/\ svc \in {"down", "scanning", "rescanning", "recovering", "open", "closed"}
         /\ todo \subseteq {"doc", "temp"} \X Docs)'
    BY <1>0 DEF FinishReserve, Move, TypeOK
  <2>8. (engine \in BOOLEAN /\ bad \in BOOLEAN /\ kept \in BOOLEAN)'
    BY <1>0 DEF FinishReserve, Move, TypeOK
  <2>7. (faults \in 0..MaxFaults)'
    BY <1>0 DEF FinishReserve, Move, TypeOK
  <2> QED
    BY <2>1, <2>2, <2>3, <2>4, <2>5, <2>6, <2>7, <2>8, <2>9 DEF TypeOK
<1> USE DEF IInv, TypeOK, Backed, Bare, Shapes, StepInv, PhaseInv, ScanInv,
            BareSteps, PausedSteps, StagedSteps, QemuSteps, BackedSteps
<1>2. ASSUME NEW x \in Docs
      PROVE  (Backed(x, file[x]) /\ Shapes(x) /\ StepInv(x) /\ PhaseInv(x) /\ ScanInv(x))'
    BY DEF FinishReserve, Move
<1> QED
    BY <1>1, <1>2

\* The directory does not exist yet.
LEMMA IntentStagingInv ==
    ASSUME IInv, NEW d \in Docs, IntentStaging(d)
    PROVE  IInv'
<1>0. TypeOK
    BY DEF IInv
<1>1. TypeOK'
    BY <1>0 DEF IntentStaging, Persist, TypeOK
<1> USE DEF IInv, TypeOK, Backed, Bare, Shapes, StepInv, PhaseInv, ScanInv,
            BareSteps, PausedSteps, StagedSteps, QemuSteps, BackedSteps
<1>2. ASSUME NEW x \in Docs
      PROVE  (Backed(x, file[x]) /\ Shapes(x) /\ StepInv(x) /\ PhaseInv(x) /\ ScanInv(x))'
    BY DEF IntentStaging, Persist
<1> QED
    BY <1>1, <1>2

\* The intent is on disk.
LEMMA CreateDirInv ==
    ASSUME IInv, NEW d \in Docs, CreateDir(d)
    PROVE  IInv'
<1>0. TypeOK
    BY DEF IInv
<1>1. TypeOK'
  <2>1. (file \in [Docs -> Document])'
    BY <1>0 DEF CreateDir, Move, TypeOK
  <2>2. (mem \in [Docs -> Document])'
    BY <1>0 DEF CreateDir, Move, TypeOK
  <2>3. (pc \in [Docs -> Steps])'
    BY <1>0 DEF CreateDir, Move, TypeOK
  <2>4. (\A y \in Docs : writer = y <=> pc[y] \in WriteSteps \cup {"creating"})'
    BY <1>0 DEF CreateDir, Move, TypeOK
  <2>5. (/\ temps \subseteq Docs
         /\ writer \in Docs \cup {NoDoc}
         /\ dir \in [Docs -> {"absent", "ours", "other"}])'
    BY <1>0 DEF CreateDir, Move, TypeOK
  <2>9. (proc \in [Docs -> {"none", "spawned", "suspended", "running", "stranger"}])'
    BY <1>0 DEF CreateDir, Move, TypeOK
  <2>6. (/\ svc \in {"down", "scanning", "rescanning", "recovering", "open", "closed"}
         /\ todo \subseteq {"doc", "temp"} \X Docs)'
    BY <1>0 DEF CreateDir, Move, TypeOK
  <2>8. (engine \in BOOLEAN /\ bad \in BOOLEAN /\ kept \in BOOLEAN)'
    BY <1>0 DEF CreateDir, Move, TypeOK
  <2>7. (faults \in 0..MaxFaults)'
    BY <1>0 DEF CreateDir, Move, TypeOK
  <2> QED
    BY <2>1, <2>2, <2>3, <2>4, <2>5, <2>6, <2>7, <2>8, <2>9 DEF TypeOK
<1> USE DEF IInv, TypeOK, Backed, Bare, Shapes, StepInv, PhaseInv, ScanInv,
            BareSteps, PausedSteps, StagedSteps, QemuSteps, BackedSteps
<1>2. ASSUME NEW x \in Docs
      PROVE  (Backed(x, file[x]) /\ Shapes(x) /\ StepInv(x) /\ PhaseInv(x) /\ ScanInv(x))'
    BY DEF CreateDir, Move
<1> QED
    BY <1>1, <1>2

\* No process yet.
LEMMA CommitStagingInv ==
    ASSUME IInv, NEW d \in Docs, CommitStaging(d)
    PROVE  IInv'
<1>0. TypeOK
    BY DEF IInv
<1>1. TypeOK'
    BY <1>0 DEF CommitStaging, Persist, TypeOK
<1> USE DEF IInv, TypeOK, Backed, Bare, Shapes, StepInv, PhaseInv, ScanInv,
            BareSteps, PausedSteps, StagedSteps, QemuSteps, BackedSteps
<1>2. ASSUME NEW x \in Docs
      PROVE  (Backed(x, file[x]) /\ Shapes(x) /\ StepInv(x) /\ PhaseInv(x) /\ ScanInv(x))'
    BY DEF CommitStaging, Persist
<1> QED
    BY <1>1, <1>2

\* The directory is removed before the document is cleared.
LEMMA PrepareFailsInv ==
    ASSUME IInv, NEW d \in Docs, PrepareFails(d)
    PROVE  IInv'
<1>0. TypeOK
    BY DEF IInv
<1>1. TypeOK'
  <2>1. (file \in [Docs -> Document])'
    BY <1>0 DEF PrepareFails, Move, TypeOK
  <2>2. (mem \in [Docs -> Document])'
    BY <1>0 DEF PrepareFails, Move, TypeOK
  <2>3. (pc \in [Docs -> Steps])'
    BY <1>0 DEF PrepareFails, Move, TypeOK
  <2>4. (\A y \in Docs : writer = y <=> pc[y] \in WriteSteps \cup {"creating"})'
    BY <1>0 DEF PrepareFails, Move, TypeOK
  <2>5. (/\ temps \subseteq Docs
         /\ writer \in Docs \cup {NoDoc}
         /\ dir \in [Docs -> {"absent", "ours", "other"}])'
    BY <1>0 DEF PrepareFails, Move, TypeOK
  <2>9. (proc \in [Docs -> {"none", "spawned", "suspended", "running", "stranger"}])'
    BY <1>0 DEF PrepareFails, Move, TypeOK
  <2>6. (/\ svc \in {"down", "scanning", "rescanning", "recovering", "open", "closed"}
         /\ todo \subseteq {"doc", "temp"} \X Docs)'
    BY <1>0 DEF PrepareFails, Move, TypeOK
  <2>8. (engine \in BOOLEAN /\ bad \in BOOLEAN /\ kept \in BOOLEAN)'
    BY <1>0 DEF PrepareFails, Move, TypeOK
  <2>7. (faults \in 0..MaxFaults)'
    BY <1>0 DEF PrepareFails, Move, TypeOK
  <2> QED
    BY <2>1, <2>2, <2>3, <2>4, <2>5, <2>6, <2>7, <2>8, <2>9 DEF TypeOK
<1> USE DEF IInv, TypeOK, Backed, Bare, Shapes, StepInv, PhaseInv, ScanInv,
            BareSteps, PausedSteps, StagedSteps, QemuSteps, BackedSteps
<1>2. ASSUME NEW x \in Docs
      PROVE  (Backed(x, file[x]) /\ Shapes(x) /\ StepInv(x) /\ PhaseInv(x) /\ ScanInv(x))'
    BY DEF PrepareFails, Move
<1> QED
    BY <1>1, <1>2

\* The staging record is carried over.
LEMMA StartVmInv ==
    ASSUME IInv, NEW d \in Docs, StartVm(d)
    PROVE  IInv'
<1>0. TypeOK
    BY DEF IInv
<1>1. TypeOK'
    BY <1>0 DEF StartVm, Persist, TypeOK
<1> USE DEF IInv, TypeOK, Backed, Bare, Shapes, StepInv, PhaseInv, ScanInv,
            BareSteps, PausedSteps, StagedSteps, QemuSteps, BackedSteps
<1>2. ASSUME NEW x \in Docs
      PROVE  (Backed(x, file[x]) /\ Shapes(x) /\ StepInv(x) /\ PhaseInv(x) /\ ScanInv(x))'
    BY DEF StartVm, Persist
<1> QED
    BY <1>1, <1>2

\* The staging record is carried over.
LEMMA PrepareJournalInv ==
    ASSUME IInv, NEW d \in Docs, PrepareJournal(d)
    PROVE  IInv'
<1>0. TypeOK
    BY DEF IInv
<1>1. TypeOK'
    BY <1>0 DEF PrepareJournal, Persist, TypeOK
<1> USE DEF IInv, TypeOK, Backed, Bare, Shapes, StepInv, PhaseInv, ScanInv,
            BareSteps, PausedSteps, StagedSteps, QemuSteps, BackedSteps
<1>2. ASSUME NEW x \in Docs
      PROVE  (Backed(x, file[x]) /\ Shapes(x) /\ StepInv(x) /\ PhaseInv(x) /\ ScanInv(x))'
    BY DEF PrepareJournal, Persist
<1> QED
    BY <1>1, <1>2

\* A suspended child does not run.
LEMMA SpawnSuspendedInv ==
    ASSUME IInv, NEW d \in Docs, SpawnSuspended(d)
    PROVE  IInv'
<1>0. TypeOK
    BY DEF IInv
<1>1. TypeOK'
    BY <1>0 DEF SpawnSuspended, SetProc, Move, TypeOK
<1> USE DEF IInv, TypeOK, Backed, Bare, Shapes, StepInv, PhaseInv, ScanInv,
            BareSteps, PausedSteps, StagedSteps, QemuSteps, BackedSteps
<1>2. ASSUME NEW x \in Docs
      PROVE  (Backed(x, file[x]) /\ Shapes(x) /\ StepInv(x) /\ PhaseInv(x) /\ ScanInv(x))'
    BY DEF SpawnSuspended, SetProc, Move
<1> QED
    BY <1>1, <1>2

\* A suspended child does not run.
LEMMA AssignProcessInv ==
    ASSUME IInv, NEW d \in Docs, AssignProcess(d)
    PROVE  IInv'
<1>0. TypeOK
    BY DEF IInv
<1>1. TypeOK'
    BY <1>0 DEF AssignProcess, SetProc, Move, TypeOK
<1> USE DEF IInv, TypeOK, Backed, Bare, Shapes, StepInv, PhaseInv, ScanInv,
            BareSteps, PausedSteps, StagedSteps, QemuSteps, BackedSteps
<1>2. ASSUME NEW x \in Docs
      PROVE  (Backed(x, file[x]) /\ Shapes(x) /\ StepInv(x) /\ PhaseInv(x) /\ ScanInv(x))'
    BY DEF AssignProcess, SetProc, Move
<1> QED
    BY <1>1, <1>2

\* The child is still suspended.
LEMMA CommitJournalInv ==
    ASSUME IInv, NEW d \in Docs, CommitJournal(d)
    PROVE  IInv'
<1>0. TypeOK
    BY DEF IInv
<1>1. TypeOK'
    BY <1>0 DEF CommitJournal, Persist, TypeOK
<1> USE DEF IInv, TypeOK, Backed, Bare, Shapes, StepInv, PhaseInv, ScanInv,
            BareSteps, PausedSteps, StagedSteps, QemuSteps, BackedSteps
<1>2. ASSUME NEW x \in Docs
      PROVE  (Backed(x, file[x]) /\ Shapes(x) /\ StepInv(x) /\ PhaseInv(x) /\ ScanInv(x))'
    BY DEF CommitJournal, Persist
<1> QED
    BY <1>1, <1>2

\* The committed identity is on disk.
LEMMA ResumeThreadInv ==
    ASSUME IInv, NEW d \in Docs, ResumeThread(d)
    PROVE  IInv'
<1>0. TypeOK
    BY DEF IInv
<1>1. TypeOK'
    BY <1>0 DEF ResumeThread, SetProc, Move, TypeOK
<1> USE DEF IInv, TypeOK, Backed, Bare, Shapes, StepInv, PhaseInv, ScanInv,
            BareSteps, PausedSteps, StagedSteps, QemuSteps, BackedSteps
<1>2. ASSUME NEW x \in Docs
      PROVE  (Backed(x, file[x]) /\ Shapes(x) /\ StepInv(x) /\ PhaseInv(x) /\ ScanInv(x))'
    BY DEF ResumeThread, SetProc, Move
<1> QED
    BY <1>1, <1>2

\* Both records are carried over.
LEMMA SetRunningInv ==
    ASSUME IInv, NEW d \in Docs, SetRunning(d)
    PROVE  IInv'
<1>0. TypeOK
    BY DEF IInv
<1>1. TypeOK'
    BY <1>0 DEF SetRunning, Persist, TypeOK
<1> USE DEF IInv, TypeOK, Backed, Bare, Shapes, StepInv, PhaseInv, ScanInv,
            BareSteps, PausedSteps, StagedSteps, QemuSteps, BackedSteps
<1>2. ASSUME NEW x \in Docs
      PROVE  (Backed(x, file[x]) /\ Shapes(x) /\ StepInv(x) /\ PhaseInv(x) /\ ScanInv(x))'
    BY DEF SetRunning, Persist
<1> QED
    BY <1>1, <1>2

\* The document on disk still backs what is there.
LEMMA BootFailsInv ==
    ASSUME IInv, NEW d \in Docs, BootFails(d)
    PROVE  IInv'
<1>0. TypeOK
    BY DEF IInv
<1>1. TypeOK'
    BY <1>0 DEF BootFails, TypeOK
<1> USE DEF IInv, TypeOK, Backed, Bare, Shapes, StepInv, PhaseInv, ScanInv,
            BareSteps, PausedSteps, StagedSteps, QemuSteps, BackedSteps
<1>2. ASSUME NEW x \in Docs
      PROVE  (Backed(x, file[x]) /\ Shapes(x) /\ StepInv(x) /\ PhaseInv(x) /\ ScanInv(x))'
    BY DEF BootFails
<1> QED
    BY <1>1, <1>2

\* The document on disk still backs what is there.
LEMMA StopFailedBootInv ==
    ASSUME IInv, NEW d \in Docs, StopFailedBoot(d)
    PROVE  IInv'
<1>0. TypeOK
    BY DEF IInv
<1>1. TypeOK'
  <2>1. (file \in [Docs -> Document])'
    BY <1>0 DEF StopFailedBoot, SetProc, Move, TypeOK
  <2>2. (mem \in [Docs -> Document])'
    BY <1>0 DEF StopFailedBoot, SetProc, Move, TypeOK
  <2>3. (pc \in [Docs -> Steps])'
    BY <1>0 DEF StopFailedBoot, SetProc, Move, TypeOK
  <2>4. (\A y \in Docs : writer = y <=> pc[y] \in WriteSteps \cup {"creating"})'
    <3>1. /\ writer' = writer /\ pc' = [pc EXCEPT ![d] = "rolling_back"]
          /\ pc[d] = "failed"
      BY DEF StopFailedBoot, SetProc, Move
    <3> QED
      BY <1>0, <3>1 DEF TypeOK
  <2>5. (/\ temps \subseteq Docs
         /\ writer \in Docs \cup {NoDoc}
         /\ dir \in [Docs -> {"absent", "ours", "other"}])'
    BY <1>0 DEF StopFailedBoot, SetProc, Move, TypeOK
  <2>9. (proc \in [Docs -> {"none", "spawned", "suspended", "running", "stranger"}])'
    BY <1>0 DEF StopFailedBoot, SetProc, Move, TypeOK
  <2>6. (/\ svc \in {"down", "scanning", "rescanning", "recovering", "open", "closed"}
         /\ todo \subseteq {"doc", "temp"} \X Docs)'
    BY <1>0 DEF StopFailedBoot, SetProc, Move, TypeOK
  <2>8. (engine \in BOOLEAN /\ bad \in BOOLEAN /\ kept \in BOOLEAN)'
    BY <1>0 DEF StopFailedBoot, SetProc, Move, TypeOK
  <2>7. (faults \in 0..MaxFaults)'
    BY <1>0 DEF StopFailedBoot, SetProc, Move, TypeOK
  <2> QED
    BY <2>1, <2>2, <2>3, <2>4, <2>5, <2>6, <2>7, <2>8, <2>9 DEF TypeOK
<1> USE DEF IInv, TypeOK, Backed, Bare, Shapes, StepInv, PhaseInv, ScanInv,
            BareSteps, PausedSteps, StagedSteps, QemuSteps, BackedSteps
<1>2. ASSUME NEW x \in Docs
      PROVE  (Backed(x, file[x]) /\ Shapes(x) /\ StepInv(x) /\ PhaseInv(x) /\ ScanInv(x))'
  <2>1. CASE x # d
    BY <2>1 DEF StopFailedBoot, SetProc, Move
  <2>2. CASE x = d
    BY <2>2 DEF StopFailedBoot, SetProc, Move
  <2> QED
    BY <2>1, <2>2
<1> QED
    BY <1>1, <1>2

\* The document on disk still backs what is there.
LEMMA CleanupFailedBootInv ==
    ASSUME IInv, NEW d \in Docs, CleanupFailedBoot(d)
    PROVE  IInv'
<1>0. TypeOK
    BY DEF IInv
<1>1. TypeOK'
    BY <1>0 DEF CleanupFailedBoot, Move, TypeOK
<1> USE DEF IInv, TypeOK, Backed, Bare, Shapes, StepInv, PhaseInv, ScanInv,
            BareSteps, PausedSteps, StagedSteps, QemuSteps, BackedSteps
<1>2. ASSUME NEW x \in Docs
      PROVE  (Backed(x, file[x]) /\ Shapes(x) /\ StepInv(x) /\ PhaseInv(x) /\ ScanInv(x))'
    BY DEF CleanupFailedBoot, Move
<1> QED
    BY <1>1, <1>2

\* Killing a process only weakens what must be recorded.
LEMMA JobKillInv ==
    ASSUME IInv, NEW d \in Docs, JobKill(d)
    PROVE  IInv'
<1>0. TypeOK
    BY DEF IInv
<1>1. TypeOK'
    BY <1>0 DEF JobKill, TypeOK
<1> USE DEF IInv, TypeOK, Backed, Bare, Shapes, StepInv, PhaseInv, ScanInv,
            BareSteps, PausedSteps, StagedSteps, QemuSteps, BackedSteps
<1>2. ASSUME NEW x \in Docs
      PROVE  (Backed(x, file[x]) /\ Shapes(x) /\ StepInv(x) /\ PhaseInv(x) /\ ScanInv(x))'
    BY DEF JobKill
<1> QED
    BY <1>1, <1>2

\* The process is gone, or the document stays.
LEMMA StopVmInv ==
    ASSUME IInv, NEW d \in Docs, StopVm(d)
    PROVE  IInv'
<1>0. TypeOK
    BY DEF IInv
<1>1. TypeOK'
  <2>1. (file \in [Docs -> Document])'
    BY <1>0 DEF StopVm, SetProc, Move, TypeOK
  <2>2. (mem \in [Docs -> Document])'
    BY <1>0 DEF StopVm, SetProc, Move, TypeOK
  <2>3. (pc \in [Docs -> Steps])'
    BY <1>0 DEF StopVm, SetProc, Move, TypeOK
  <2>4. (\A y \in Docs : writer = y <=> pc[y] \in WriteSteps \cup {"creating"})'
    BY <1>0 DEF StopVm, SetProc, Move, TypeOK
  <2>5. (/\ temps \subseteq Docs
         /\ writer \in Docs \cup {NoDoc}
         /\ dir \in [Docs -> {"absent", "ours", "other"}])'
    BY <1>0 DEF StopVm, SetProc, Move, TypeOK
  <2>9. (proc \in [Docs -> {"none", "spawned", "suspended", "running", "stranger"}])'
    BY <1>0 DEF StopVm, SetProc, Move, TypeOK
  <2>6. (/\ svc \in {"down", "scanning", "rescanning", "recovering", "open", "closed"}
         /\ todo \subseteq {"doc", "temp"} \X Docs)'
    BY <1>0 DEF StopVm, SetProc, Move, TypeOK
  <2>8. (engine \in BOOLEAN /\ bad \in BOOLEAN /\ kept \in BOOLEAN)'
    BY <1>0 DEF StopVm, SetProc, Move, TypeOK
  <2>7. (faults \in 0..MaxFaults)'
    BY <1>0 DEF StopVm, SetProc, Move, TypeOK
  <2> QED
    BY <2>1, <2>2, <2>3, <2>4, <2>5, <2>6, <2>7, <2>8, <2>9 DEF TypeOK
<1> USE DEF IInv, TypeOK, Backed, Bare, Shapes, StepInv, PhaseInv, ScanInv,
            BareSteps, PausedSteps, StagedSteps, QemuSteps, BackedSteps
<1>2. ASSUME NEW x \in Docs
      PROVE  (Backed(x, file[x]) /\ Shapes(x) /\ StepInv(x) /\ PhaseInv(x) /\ ScanInv(x))'
    BY DEF StopVm, SetProc, Move
<1> QED
    BY <1>1, <1>2

\* The process is gone already.
LEMMA RemoveInstanceInv ==
    ASSUME IInv, NEW d \in Docs, RemoveInstance(d)
    PROVE  IInv'
<1>0. TypeOK
    BY DEF IInv
<1>1. TypeOK'
  <2>1. (file \in [Docs -> Document])'
    BY <1>0 DEF RemoveInstance, Move, TypeOK
  <2>2. (mem \in [Docs -> Document])'
    BY <1>0 DEF RemoveInstance, Move, TypeOK
  <2>3. (pc \in [Docs -> Steps])'
    BY <1>0 DEF RemoveInstance, Move, TypeOK
  <2>4. (\A y \in Docs : writer = y <=> pc[y] \in WriteSteps \cup {"creating"})'
    BY <1>0 DEF RemoveInstance, Move, TypeOK
  <2>5. (/\ temps \subseteq Docs
         /\ writer \in Docs \cup {NoDoc}
         /\ dir \in [Docs -> {"absent", "ours", "other"}])'
    BY <1>0 DEF RemoveInstance, Move, TypeOK
  <2>9. (proc \in [Docs -> {"none", "spawned", "suspended", "running", "stranger"}])'
    BY <1>0 DEF RemoveInstance, Move, TypeOK
  <2>6. (/\ svc \in {"down", "scanning", "rescanning", "recovering", "open", "closed"}
         /\ todo \subseteq {"doc", "temp"} \X Docs)'
    BY <1>0 DEF RemoveInstance, Move, TypeOK
  <2>8. (engine \in BOOLEAN /\ bad \in BOOLEAN /\ kept \in BOOLEAN)'
    BY <1>0 DEF RemoveInstance, Move, TypeOK
  <2>7. (faults \in 0..MaxFaults)'
    BY <1>0 DEF RemoveInstance, Move, TypeOK
  <2> QED
    BY <2>1, <2>2, <2>3, <2>4, <2>5, <2>6, <2>7, <2>8, <2>9 DEF TypeOK
<1> USE DEF IInv, TypeOK, Backed, Bare, Shapes, StepInv, PhaseInv, ScanInv,
            BareSteps, PausedSteps, StagedSteps, QemuSteps, BackedSteps
<1>2. ASSUME NEW x \in Docs
      PROVE  (Backed(x, file[x]) /\ Shapes(x) /\ StepInv(x) /\ PhaseInv(x) /\ ScanInv(x))'
    BY DEF RemoveInstance, Move
<1> QED
    BY <1>1, <1>2

\* Nothing is left to record.
LEMMA FinishCleaningInv ==
    ASSUME IInv, NEW d \in Docs, FinishCleaning(d)
    PROVE  IInv'
<1>0. TypeOK
    BY DEF IInv
<1>1. TypeOK'
    BY <1>0 DEF FinishCleaning, Persist, TypeOK
<1> USE DEF IInv, TypeOK, Backed, Bare, Shapes, StepInv, PhaseInv, ScanInv,
            BareSteps, PausedSteps, StagedSteps, QemuSteps, BackedSteps
<1>2. ASSUME NEW x \in Docs
      PROVE  (Backed(x, file[x]) /\ Shapes(x) /\ StepInv(x) /\ PhaseInv(x) /\ ScanInv(x))'
    BY DEF FinishCleaning, Persist
<1> QED
    BY <1>1, <1>2

\* Nothing is left to record.
LEMMA FinishClearInv ==
    ASSUME IInv, NEW d \in Docs, FinishClear(d)
    PROVE  IInv'
<1>0. TypeOK
    BY DEF IInv
<1>1. TypeOK'
    BY <1>0 DEF FinishClear, Persist, TypeOK
<1> USE DEF IInv, TypeOK, Backed, Bare, Shapes, StepInv, PhaseInv, ScanInv,
            BareSteps, PausedSteps, StagedSteps, QemuSteps, BackedSteps
<1>2. ASSUME NEW x \in Docs
      PROVE  (Backed(x, file[x]) /\ Shapes(x) /\ StepInv(x) /\ PhaseInv(x) /\ ScanInv(x))'
    BY DEF FinishClear, Persist
<1> QED
    BY <1>1, <1>2

\* Nothing is left to record.
LEMMA FinishRemoveInv ==
    ASSUME IInv, NEW d \in Docs, FinishRemove(d)
    PROVE  IInv'
<1>0. TypeOK
    BY DEF IInv
<1>1. TypeOK'
  <2>1. (file \in [Docs -> Document])'
    BY <1>0 DEF FinishRemove, Move, TypeOK
  <2>2. (mem \in [Docs -> Document])'
    BY <1>0 DEF FinishRemove, Move, TypeOK
  <2>3. (pc \in [Docs -> Steps])'
    BY <1>0 DEF FinishRemove, Move, TypeOK
  <2>4. (\A y \in Docs : writer = y <=> pc[y] \in WriteSteps \cup {"creating"})'
    BY <1>0 DEF FinishRemove, Move, TypeOK
  <2>5. (/\ temps \subseteq Docs
         /\ writer \in Docs \cup {NoDoc}
         /\ dir \in [Docs -> {"absent", "ours", "other"}])'
    BY <1>0 DEF FinishRemove, Move, TypeOK
  <2>9. (proc \in [Docs -> {"none", "spawned", "suspended", "running", "stranger"}])'
    BY <1>0 DEF FinishRemove, Move, TypeOK
  <2>6. (/\ svc \in {"down", "scanning", "rescanning", "recovering", "open", "closed"}
         /\ todo \subseteq {"doc", "temp"} \X Docs)'
    BY <1>0 DEF FinishRemove, Move, TypeOK
  <2>8. (engine \in BOOLEAN /\ bad \in BOOLEAN /\ kept \in BOOLEAN)'
    BY <1>0 DEF FinishRemove, Move, TypeOK
  <2>7. (faults \in 0..MaxFaults)'
    BY <1>0 DEF FinishRemove, Move, TypeOK
  <2> QED
    BY <2>1, <2>2, <2>3, <2>4, <2>5, <2>6, <2>7, <2>8, <2>9 DEF TypeOK
<1> USE DEF IInv, TypeOK, Backed, Bare, Shapes, StepInv, PhaseInv, ScanInv,
            BareSteps, PausedSteps, StagedSteps, QemuSteps, BackedSteps
<1>2. ASSUME NEW x \in Docs
      PROVE  (Backed(x, file[x]) /\ Shapes(x) /\ StepInv(x) /\ PhaseInv(x) /\ ScanInv(x))'
    BY DEF FinishRemove, Move
<1> QED
    BY <1>1, <1>2

\* What is in memory backs the resources.
LEMMA ReplaceInv ==
    ASSUME IInv, NEW d \in Docs, Replace(d)
    PROVE  IInv'
<1>0. TypeOK
    BY DEF IInv
<1>1. TypeOK'
    BY <1>0 DEF Replace, AfterWrite, TypeOK
<1> USE DEF IInv, TypeOK, Backed, Bare, Shapes, StepInv, PhaseInv, ScanInv,
            BareSteps, PausedSteps, StagedSteps, QemuSteps, BackedSteps
<1>2. ASSUME NEW x \in Docs
      PROVE  (Backed(x, file[x]) /\ Shapes(x) /\ StepInv(x) /\ PhaseInv(x) /\ ScanInv(x))'
    BY DEF Replace, AfterWrite
<1> QED
    BY <1>1, <1>2

\* The document on disk is the old one.
LEMMA WriteFailsInv ==
    ASSUME IInv, NEW d \in Docs, WriteFails(d)
    PROVE  IInv'
<1>0. TypeOK
    BY DEF IInv
<1>1. TypeOK'
    BY <1>0 DEF WriteFails, TypeOK
<1> USE DEF IInv, TypeOK, Backed, Bare, Shapes, StepInv, PhaseInv, ScanInv,
            BareSteps, PausedSteps, StagedSteps, QemuSteps, BackedSteps
<1>2. ASSUME NEW x \in Docs
      PROVE  (Backed(x, file[x]) /\ Shapes(x) /\ StepInv(x) /\ PhaseInv(x) /\ ScanInv(x))'
    BY DEF WriteFails
<1> QED
    BY <1>1, <1>2

\* The document on disk is the old one.
LEMMA StartFailsInv ==
    ASSUME IInv, NEW d \in Docs, StartFails(d)
    PROVE  IInv'
<1>0. TypeOK
    BY DEF IInv
<1>1. TypeOK'
    BY <1>0 DEF StartFails, TypeOK
<1> USE DEF IInv, TypeOK, Backed, Bare, Shapes, StepInv, PhaseInv, ScanInv,
            BareSteps, PausedSteps, StagedSteps, QemuSteps, BackedSteps
<1>2. ASSUME NEW x \in Docs
      PROVE  (Backed(x, file[x]) /\ Shapes(x) /\ StepInv(x) /\ PhaseInv(x) /\ ScanInv(x))'
    BY DEF StartFails
<1> QED
    BY <1>1, <1>2

\* A running QEMU is committed, hence terminated first.
LEMMA RemoveQemuInv ==
    ASSUME IInv, NEW d \in Docs, RemoveQemu(d)
    PROVE  IInv'
<1>0. TypeOK
    BY DEF IInv
<1>1. TypeOK'
  <2>1. (file \in [Docs -> Document])'
    BY <1>0 DEF RemoveQemu, Persist, Move, TypeOK
  <2>2. (mem \in [Docs -> Document])'
    BY <1>0 DEF RemoveQemu, Persist, Move, TypeOK
  <2>3. (pc \in [Docs -> Steps])'
    BY <1>0 DEF RemoveQemu, Persist, Move, TypeOK
  <2>4. (\A y \in Docs : writer = y <=> pc[y] \in WriteSteps \cup {"creating"})'
    BY <1>0 DEF RemoveQemu, Persist, Move, TypeOK
  <2>5. (/\ temps \subseteq Docs
         /\ writer \in Docs \cup {NoDoc}
         /\ dir \in [Docs -> {"absent", "ours", "other"}])'
    BY <1>0 DEF RemoveQemu, Persist, Move, TypeOK
  <2>9. (proc \in [Docs -> {"none", "spawned", "suspended", "running", "stranger"}])'
    BY <1>0 DEF RemoveQemu, Persist, Move, TypeOK
  <2>6. (/\ svc \in {"down", "scanning", "rescanning", "recovering", "open", "closed"}
         /\ todo \subseteq {"doc", "temp"} \X Docs)'
    BY <1>0 DEF RemoveQemu, Persist, Move, TypeOK
  <2>8. (engine \in BOOLEAN /\ bad \in BOOLEAN /\ kept \in BOOLEAN)'
    BY <1>0 DEF RemoveQemu, Persist, Move, TypeOK
  <2>7. (faults \in 0..MaxFaults)'
    BY <1>0 DEF RemoveQemu, Persist, Move, TypeOK
  <2> QED
    BY <2>1, <2>2, <2>3, <2>4, <2>5, <2>6, <2>7, <2>8, <2>9 DEF TypeOK
<1>2. ASSUME NEW x \in Docs
      PROVE  (Backed(x, file[x]) /\ Shapes(x) /\ StepInv(x) /\ PhaseInv(x) /\ ScanInv(x))'
  <2>1. (Backed(x, file[x]) /\ Shapes(x) /\ PhaseInv(x) /\ ScanInv(x))'
    BY DEF RemoveQemu, Persist, Move, IInv, TypeOK, Backed, Bare, Shapes, StepInv, PhaseInv, ScanInv,
       BackedSteps
  <2>2. StepInv(x)'
    <3>1. /\ file' = file /\ dir' = dir /\ pc[d] = "r_loop"
          /\ x # d => pc'[x] = pc[x] /\ mem'[x] = mem[x] /\ proc'[x] = proc[x]
      BY <1>0 DEF RemoveQemu, Persist, Move, TypeOK
    <3>2. CASE x # d
      BY <3>1, <3>2 DEF IInv, StepInv, Bare, Backed
    <3>3. CASE x = d /\ pc'[d] = "r_pop"
      <4>1. mem' = mem /\ mem[d].qemu # "no" /\ proc'[d] # "running"
        BY <3>1, <3>3 DEF RemoveQemu, Persist, Move, IInv, TypeOK,
           StepInv, BackedSteps, Backed
      <4> QED
        BY <4>1, <3>1, <3>3 DEF IInv, TypeOK, Backed, Bare, StepInv, BareSteps, PausedSteps,
           StagedSteps, QemuSteps, BackedSteps
    <3>4. CASE x = d /\ pc'[d] = "r_kept"
      <4>1. mem' = mem
        BY <3>1, <3>4, <1>0 DEF RemoveQemu, Persist, Move, TypeOK
      <4> QED
        BY <4>1, <3>1, <3>4 DEF IInv, TypeOK, Backed, Bare, StepInv, BareSteps, PausedSteps,
           StagedSteps, QemuSteps, BackedSteps
    <3>5. CASE x = d /\ pc'[d] = "w_r_quarantined"
      <4>1. /\ mem'[d] = With("quarantined", mem[d].staging, mem[d].qemu)
            /\ proc' = proc
        BY <3>1, <3>5, <1>0 DEF RemoveQemu, Persist, Move, TypeOK
      <4> QED
        BY <4>1, <3>1, <3>5 DEF IInv, TypeOK, Backed, Bare, StepInv, BareSteps, PausedSteps,
           StagedSteps, QemuSteps, BackedSteps
    <3>6. pc'[d] \in {"r_pop", "r_kept", "w_r_quarantined"}
      BY <1>0 DEF RemoveQemu, Persist, Move, TypeOK
    <3> QED
      BY <3>2, <3>3, <3>4, <3>5, <3>6
  <2> QED
    BY <2>1, <2>2
<1> QED
    BY <1>1, <1>2 DEF IInv

\* The record is popped after the directory is gone.
LEMMA RemoveStagingRootInv ==
    ASSUME IInv, NEW d \in Docs, RemoveStagingRoot(d)
    PROVE  IInv'
<1>0. TypeOK
    BY DEF IInv
<1>1. TypeOK'
  <2>1. (file \in [Docs -> Document])'
    BY <1>0 DEF RemoveStagingRoot, Persist, Move, TypeOK
  <2>2. (mem \in [Docs -> Document])'
    BY <1>0 DEF RemoveStagingRoot, Persist, Move, TypeOK
  <2>3. (pc \in [Docs -> Steps])'
    <3>1. \E step \in {"r_pop", "r_kept", "w_r_quarantined"} : pc' = [pc EXCEPT ![d] = step]
      BY DEF RemoveStagingRoot, Persist, Move
    <3> QED
      BY <3>1, <1>0 DEF TypeOK
  <2>4. (\A y \in Docs : writer = y <=> pc[y] \in WriteSteps \cup {"creating"})'
    BY <1>0 DEF RemoveStagingRoot, Persist, Move, TypeOK
  <2>5. (/\ temps \subseteq Docs
         /\ writer \in Docs \cup {NoDoc}
         /\ dir \in [Docs -> {"absent", "ours", "other"}])'
    BY <1>0 DEF RemoveStagingRoot, Persist, Move, TypeOK
  <2>9. (proc \in [Docs -> {"none", "spawned", "suspended", "running", "stranger"}])'
    BY <1>0 DEF RemoveStagingRoot, Persist, Move, TypeOK
  <2>6. (/\ svc \in {"down", "scanning", "rescanning", "recovering", "open", "closed"}
         /\ todo \subseteq {"doc", "temp"} \X Docs)'
    BY <1>0 DEF RemoveStagingRoot, Persist, Move, TypeOK
  <2>8. (engine \in BOOLEAN /\ bad \in BOOLEAN /\ kept \in BOOLEAN)'
    BY <1>0 DEF RemoveStagingRoot, Persist, Move, TypeOK
  <2>7. (faults \in 0..MaxFaults)'
    BY <1>0 DEF RemoveStagingRoot, Persist, Move, TypeOK
  <2> QED
    BY <2>1, <2>2, <2>3, <2>4, <2>5, <2>6, <2>7, <2>8, <2>9 DEF TypeOK
<1> USE DEF IInv, TypeOK, Backed, Bare, Shapes, StepInv, PhaseInv, ScanInv,
            BareSteps, PausedSteps, StagedSteps, QemuSteps, BackedSteps
<1>2. ASSUME NEW x \in Docs
      PROVE  (Backed(x, file[x]) /\ Shapes(x) /\ StepInv(x) /\ PhaseInv(x) /\ ScanInv(x))'
    BY DEF RemoveStagingRoot, Persist, Move
<1> QED
    BY <1>1, <1>2

\* The popped record stands for nothing any more.
LEMMA PopRecordInv ==
    ASSUME IInv, NEW d \in Docs, PopRecord(d)
    PROVE  IInv'
<1>0. TypeOK
    BY DEF IInv
<1>1. TypeOK'
    BY <1>0 DEF PopRecord, Persist, TypeOK
<1> USE DEF IInv, TypeOK, Backed, Bare, Shapes, StepInv, PhaseInv, ScanInv,
            BareSteps, PausedSteps, StagedSteps, QemuSteps, BackedSteps
<1>2. ASSUME NEW x \in Docs
      PROVE  (Backed(x, file[x]) /\ Shapes(x) /\ StepInv(x) /\ PhaseInv(x) /\ ScanInv(x))'
    BY DEF PopRecord, Persist
<1> QED
    BY <1>1, <1>2

\* No record is left, hence no resource.
LEMMA RemoveLedgerInv ==
    ASSUME IInv, NEW d \in Docs, RemoveLedger(d)
    PROVE  IInv'
<1>0. TypeOK
    BY DEF IInv
<1>1. TypeOK'
    BY <1>0 DEF RemoveLedger, Move, TypeOK
<1> USE DEF IInv, TypeOK, Backed, Bare, Shapes, StepInv, PhaseInv, ScanInv,
            BareSteps, PausedSteps, StagedSteps, QemuSteps, BackedSteps
<1>2. ASSUME NEW x \in Docs
      PROVE  (Backed(x, file[x]) /\ Shapes(x) /\ StepInv(x) /\ PhaseInv(x) /\ ScanInv(x))'
    BY DEF RemoveLedger, Move
<1> QED
    BY <1>1, <1>2

\* The summary counts the document.
LEMMA RecoveryKeptInv ==
    ASSUME IInv, NEW d \in Docs, RecoveryKept(d)
    PROVE  IInv'
<1>0. TypeOK
    BY DEF IInv
<1>1. TypeOK'
    BY <1>0 DEF RecoveryKept, Move, TypeOK
<1> USE DEF IInv, TypeOK, Backed, Bare, Shapes, StepInv, PhaseInv, ScanInv,
            BareSteps, PausedSteps, StagedSteps, QemuSteps, BackedSteps
<1>2. ASSUME NEW x \in Docs
      PROVE  (Backed(x, file[x]) /\ Shapes(x) /\ StepInv(x) /\ PhaseInv(x) /\ ScanInv(x))'
    BY DEF RecoveryKept, Move
<1> QED
    BY <1>1, <1>2

\* A stranger needs no record.
LEMMA PidReusedInv ==
    ASSUME IInv, NEW d \in Docs, PidReused(d)
    PROVE  IInv'
<1>0. TypeOK
    BY DEF IInv
<1>1. TypeOK'
    BY <1>0 DEF PidReused, TypeOK
<1> USE DEF IInv, TypeOK, Backed, Bare, Shapes, StepInv, PhaseInv, ScanInv,
            BareSteps, PausedSteps, StagedSteps, QemuSteps, BackedSteps
<1>2. ASSUME NEW x \in Docs
      PROVE  (Backed(x, file[x]) /\ Shapes(x) /\ StepInv(x) /\ PhaseInv(x) /\ ScanInv(x))'
    BY DEF PidReused
<1> QED
    BY <1>1, <1>2

\* The record of the directory is still there.
LEMMA DirReplacedInv ==
    ASSUME IInv, NEW d \in Docs, DirReplaced(d)
    PROVE  IInv'
<1>0. TypeOK
    BY DEF IInv
<1>1. TypeOK'
    BY <1>0 DEF DirReplaced, TypeOK
<1> USE DEF IInv, TypeOK, Backed, Bare, Shapes, StepInv, PhaseInv, ScanInv,
            BareSteps, PausedSteps, StagedSteps, QemuSteps, BackedSteps
<1>2. ASSUME NEW x \in Docs
      PROVE  (Backed(x, file[x]) /\ Shapes(x) /\ StepInv(x) /\ PhaseInv(x) /\ ScanInv(x))'
    BY DEF DirReplaced
<1> QED
    BY <1>1, <1>2

\* Every torn file met makes the summary bad.
LEMMA ScanEntryInv ==
    ASSUME IInv, NEW e \in todo, ScanEntry(e)
    PROVE  IInv'
<1>0. TypeOK
    BY DEF IInv
<1>1. TypeOK'
  <2>1. (file \in [Docs -> Document])'
    BY <1>0 DEF ScanEntry, BadEntry, TypeOK
  <2>2. (mem \in [Docs -> Document])'
    BY <1>0 DEF ScanEntry, BadEntry, TypeOK
  <2>3. (pc \in [Docs -> Steps])'
    BY <1>0 DEF ScanEntry, BadEntry, TypeOK
  <2>4. (\A y \in Docs : writer = y <=> pc[y] \in WriteSteps \cup {"creating"})'
    BY <1>0 DEF ScanEntry, BadEntry, TypeOK
  <2>5. (/\ temps \subseteq Docs
         /\ writer \in Docs \cup {NoDoc}
         /\ dir \in [Docs -> {"absent", "ours", "other"}])'
    BY <1>0 DEF ScanEntry, BadEntry, TypeOK
  <2>9. (proc \in [Docs -> {"none", "spawned", "suspended", "running", "stranger"}])'
    BY <1>0 DEF ScanEntry, BadEntry, TypeOK
  <2>6. (/\ svc \in {"down", "scanning", "rescanning", "recovering", "open", "closed"}
         /\ todo \subseteq {"doc", "temp"} \X Docs)'
    BY <1>0 DEF ScanEntry, BadEntry, TypeOK
  <2>8. (engine \in BOOLEAN /\ bad \in BOOLEAN /\ kept \in BOOLEAN)'
    BY <1>0 DEF ScanEntry, BadEntry, TypeOK
  <2>7. (faults \in 0..MaxFaults)'
    BY <1>0 DEF ScanEntry, BadEntry, TypeOK
  <2> QED
    BY <2>1, <2>2, <2>3, <2>4, <2>5, <2>6, <2>7, <2>8, <2>9 DEF TypeOK
<1> USE DEF IInv, TypeOK, Backed, Bare, Shapes, StepInv, PhaseInv, ScanInv,
            BareSteps, PausedSteps, StagedSteps, QemuSteps, BackedSteps
<1>2. ASSUME NEW x \in Docs
      PROVE  (Backed(x, file[x]) /\ Shapes(x) /\ StepInv(x) /\ PhaseInv(x) /\ ScanInv(x))'
  <2>1. (Backed(x, file[x]) /\ Shapes(x))'
    <3> HIDE DEF StepInv, PhaseInv, ScanInv, TypeOK, Steps, WriteSteps, RecoverySteps
    <3>1. file'[x] = file[x] \/ (file[x] = Torn /\ file'[x] = Absent)
      BY <1>0 DEF ScanEntry, BadEntry, TypeOK
    <3>2. dir' = dir /\ proc' = proc
      BY DEF ScanEntry
    <3> QED
      BY <3>1, <3>2
  <2>2. StepInv(x)'
    BY DEF ScanEntry, BadEntry
  <2>3. (PhaseInv(x) /\ ScanInv(x))'
    BY DEF ScanEntry, BadEntry
  <2> QED
    BY <2>1, <2>2, <2>3
<1> QED
    BY <1>1, <1>2

\* The document leaves the list only kept or under recovery.
LEMMA RecoverDocumentInv ==
    ASSUME IInv, NEW e \in todo, RecoverDocument(e)
    PROVE  IInv'
<1>0. TypeOK
    BY DEF IInv
<1>1. TypeOK'
  <2>1. (file \in [Docs -> Document])'
    BY <1>0 DEF RecoverDocument, Persist, TypeOK
  <2>2. (mem \in [Docs -> Document])'
    BY <1>0 DEF RecoverDocument, Persist, TypeOK
  <2>3. (pc \in [Docs -> Steps])'
    BY <1>0 DEF RecoverDocument, Persist, TypeOK
  <2>4. (\A y \in Docs : writer = y <=> pc[y] \in WriteSteps \cup {"creating"})'
    BY <1>0 DEF RecoverDocument, Persist, TypeOK
  <2>5. (/\ temps \subseteq Docs
         /\ writer \in Docs \cup {NoDoc}
         /\ dir \in [Docs -> {"absent", "ours", "other"}])'
    BY <1>0 DEF RecoverDocument, Persist, TypeOK
  <2>9. (proc \in [Docs -> {"none", "spawned", "suspended", "running", "stranger"}])'
    BY <1>0 DEF RecoverDocument, Persist, TypeOK
  <2>6. (/\ svc \in {"down", "scanning", "rescanning", "recovering", "open", "closed"}
         /\ todo \subseteq {"doc", "temp"} \X Docs)'
    BY <1>0 DEF RecoverDocument, Persist, TypeOK
  <2>8. (engine \in BOOLEAN /\ bad \in BOOLEAN /\ kept \in BOOLEAN)'
    BY <1>0 DEF RecoverDocument, Persist, TypeOK
  <2>7. (faults \in 0..MaxFaults)'
    BY <1>0 DEF RecoverDocument, Persist, TypeOK
  <2> QED
    BY <2>1, <2>2, <2>3, <2>4, <2>5, <2>6, <2>7, <2>8, <2>9 DEF TypeOK
<1> USE DEF IInv, TypeOK, Backed, Bare, Shapes, StepInv, PhaseInv, ScanInv,
            BareSteps, PausedSteps, StagedSteps, QemuSteps, BackedSteps
<1>2. ASSUME NEW x \in Docs
      PROVE  (Backed(x, file[x]) /\ Shapes(x) /\ StepInv(x) /\ PhaseInv(x) /\ ScanInv(x))'
    BY DEF RecoverDocument, Persist
<1> QED
    BY <1>1, <1>2

\* Every entry is on the list.
LEMMA StartServiceInv ==
    ASSUME IInv, StartService
    PROVE  IInv'
<1>0. TypeOK
    BY DEF IInv
<1>1. TypeOK'
  <2>1. (file \in [Docs -> Document])'
    BY <1>0 DEF StartService, Entries, TypeOK
  <2>2. (mem \in [Docs -> Document])'
    BY <1>0 DEF StartService, Entries, TypeOK
  <2>3. (pc \in [Docs -> Steps])'
    BY <1>0 DEF StartService, Entries, TypeOK
  <2>4. (\A y \in Docs : writer = y <=> pc[y] \in WriteSteps \cup {"creating"})'
    BY <1>0 DEF StartService, Entries, TypeOK
  <2>5. (/\ temps \subseteq Docs
         /\ writer \in Docs \cup {NoDoc}
         /\ dir \in [Docs -> {"absent", "ours", "other"}])'
    BY <1>0 DEF StartService, Entries, TypeOK
  <2>9. (proc \in [Docs -> {"none", "spawned", "suspended", "running", "stranger"}])'
    BY <1>0 DEF StartService, Entries, TypeOK
  <2>6. (/\ svc \in {"down", "scanning", "rescanning", "recovering", "open", "closed"}
         /\ todo \subseteq {"doc", "temp"} \X Docs)'
    BY <1>0 DEF StartService, Entries, TypeOK
  <2>8. (engine \in BOOLEAN /\ bad \in BOOLEAN /\ kept \in BOOLEAN)'
    BY Zenon DEF StartService
  <2>7. (faults \in 0..MaxFaults)'
    BY <1>0 DEF StartService, Entries, TypeOK
  <2> QED
    BY <2>1, <2>2, <2>3, <2>4, <2>5, <2>6, <2>7, <2>8, <2>9 DEF TypeOK
<1> USE DEF IInv, TypeOK, Backed, Bare, Shapes, StepInv, PhaseInv, ScanInv,
            BareSteps, PausedSteps, StagedSteps, QemuSteps, BackedSteps
<1>2. ASSUME NEW x \in Docs
      PROVE  (Backed(x, file[x]) /\ Shapes(x) /\ StepInv(x) /\ PhaseInv(x) /\ ScanInv(x))'
    BY DEF StartService, Entries
<1> QED
    BY <1>1, <1>2

\* Admissions open only on an empty directory.
LEMMA FinishScanInv ==
    ASSUME IInv, FinishScan
    PROVE  IInv'
<1>0. TypeOK
    BY DEF IInv
<1>1. TypeOK'
    BY <1>0 DEF FinishScan, Entries, Documents, IsDocument, TypeOK
<1> USE DEF IInv, TypeOK, Backed, Bare, Shapes, StepInv, PhaseInv, ScanInv,
            BareSteps, PausedSteps, StagedSteps, QemuSteps, BackedSteps
<1>2. ASSUME NEW x \in Docs
      PROVE  (Backed(x, file[x]) /\ Shapes(x) /\ StepInv(x) /\ PhaseInv(x) /\ ScanInv(x))'
    BY DEF FinishScan, Entries, Documents, IsDocument
<1> QED
    BY <1>1, <1>2

\* Admissions open only on an empty directory.
LEMMA FinishRecoveryInv ==
    ASSUME IInv, FinishRecovery
    PROVE  IInv'
<1>0. TypeOK
    BY DEF IInv
<1>1. TypeOK'
    BY <1>0 DEF FinishRecovery, TypeOK
<1> USE DEF IInv, TypeOK, Backed, Bare, Shapes, StepInv, PhaseInv, ScanInv,
            BareSteps, PausedSteps, StagedSteps, QemuSteps, BackedSteps
<1>2. ASSUME NEW x \in Docs
      PROVE  (Backed(x, file[x]) /\ Shapes(x) /\ StepInv(x) /\ PhaseInv(x) /\ ScanInv(x))'
    BY DEF FinishRecovery
<1> QED
    BY <1>1, <1>2

\* Only the disk survives.
LEMMA CrashInv ==
    ASSUME IInv, Crash
    PROVE  IInv'
<1>0. TypeOK
    BY DEF IInv
<1>1. TypeOK'
    BY <1>0 DEF Crash, Down, TypeOK
<1> USE DEF IInv, TypeOK, Backed, Bare, Shapes, StepInv, PhaseInv, ScanInv,
            BareSteps, PausedSteps, StagedSteps, QemuSteps, BackedSteps
<1>2. ASSUME NEW x \in Docs
      PROVE  (Backed(x, file[x]) /\ Shapes(x) /\ StepInv(x) /\ PhaseInv(x) /\ ScanInv(x))'
    BY DEF Crash, Down
<1> QED
    BY <1>1, <1>2

\* Only the disk survives.
LEMMA StopServiceInv ==
    ASSUME IInv, StopService
    PROVE  IInv'
<1>0. TypeOK
    BY DEF IInv
<1>1. TypeOK'
    BY <1>0 DEF StopService, Down, TypeOK
<1> USE DEF IInv, TypeOK, Backed, Bare, Shapes, StepInv, PhaseInv, ScanInv,
            BareSteps, PausedSteps, StagedSteps, QemuSteps, BackedSteps
<1>2. ASSUME NEW x \in Docs
      PROVE  (Backed(x, file[x]) /\ Shapes(x) /\ StepInv(x) /\ PhaseInv(x) /\ ScanInv(x))'
    BY DEF StopService, Down
<1> QED
    BY <1>1, <1>2

-----------------------------------------------------------------------------
\* The initial state satisfies the invariant.
LEMMA InitInv == Init => IInv
<1> SUFFICES ASSUME Init PROVE IInv
    OBVIOUS
<1>1. TypeOK
  <2>1. file \in [Docs -> Document] /\ mem \in [Docs -> Document]
    BY DEF Init
  <2>2. engine \in BOOLEAN /\ bad \in BOOLEAN /\ kept \in BOOLEAN
    BY DEF Init
  <2> QED
    BY <2>1, <2>2 DEF Init, TypeOK
<1>2. ASSUME NEW x \in Docs
      PROVE  /\ Backed(x, file[x]) /\ Shapes(x) /\ StepInv(x)
             /\ PhaseInv(x) /\ ScanInv(x)
    BY DEF Init, Backed, Shapes, StepInv, PhaseInv, ScanInv, Bare, BareSteps, PausedSteps, StagedSteps, QemuSteps, BackedSteps
<1> QED
    BY <1>1, <1>2 DEF IInv

HIDE DEF WriteSteps, RecoverySteps, BootWrites, OwnerSteps, Steps, Document, Proof, States,
         Absent, Torn, Reserved, With, disk, startup, Fault

\* Every action and stuttering keep the invariant.
LEMMA NextInv == IInv /\ [Next]_vars => IInv'
<1> SUFFICES ASSUME IInv, [Next]_vars PROVE IInv'
    OBVIOUS
<1>1. CASE \E d \in Docs : Boot(d)
    BY <1>1,
       ReserveInv, FinishReserveInv, IntentStagingInv, CreateDirInv,
       CommitStagingInv, PrepareFailsInv, StartVmInv, PrepareJournalInv,
       SpawnSuspendedInv, AssignProcessInv, CommitJournalInv, ResumeThreadInv,
       SetRunningInv, BootFailsInv, StopFailedBootInv, CleanupFailedBootInv,
       JobKillInv
       DEF Boot
<1>2. CASE \E d \in Docs : Teardown(d)
    BY <1>2, StopVmInv, RemoveInstanceInv, FinishCleaningInv,
       FinishClearInv, FinishRemoveInv DEF Teardown
<1>3. CASE \E d \in Docs : Recover(d)
    BY <1>3, RemoveQemuInv, RemoveStagingRootInv, PopRecordInv,
       RemoveLedgerInv, RecoveryKeptInv DEF Recover
<1>4. CASE \E d \in Docs : Replace(d) \/ WriteFails(d) \/ StartFails(d) \/ Host(d)
    BY <1>4, ReplaceInv, WriteFailsInv, StartFailsInv, PidReusedInv, DirReplacedInv DEF Host
<1>5. CASE \E e \in todo : ScanEntry(e) \/ RecoverDocument(e)
    BY <1>5, ScanEntryInv, RecoverDocumentInv
<1>6. CASE StartService \/ FinishScan \/ FinishRecovery \/ Crash \/ StopService
    BY <1>6, StartServiceInv, FinishScanInv, FinishRecoveryInv, CrashInv, StopServiceInv
<1>7. CASE UNCHANGED vars
    BY <1>7 DEF vars, IInv, TypeOK, Backed, Shapes, StepInv, PhaseInv, ScanInv, Bare
<1> QED
    BY <1>1, <1>2, <1>3, <1>4, <1>5, <1>6, <1>7 DEF Next

\* The invariant holds throughout.
LEMMA LedgerInductive == Spec => []IInv
BY InitInv, NextInv, PTL DEF Spec

\* Type correctness, and WRITE_LOCK is held exactly while a document is
\* written (atomic.rs).
THEOREM LedgerTypeCorrect == Spec => []TypeOK
<1>1. IInv => TypeOK
    BY DEF IInv
<1> QED
    BY <1>1, LedgerInductive, PTL

\* Write-ahead, whatever step the service dies at: every instance directory
\* and every QEMU that was resumed is recorded in the document on disk.
THEOREM WriteAhead == Spec => []ResourcesAreLedgered
<1>1. IInv => ResourcesAreLedgered
    BY DEF IInv, Backed, ResourcesAreLedgered
<1> QED
    BY <1>1, LedgerInductive, PTL

\* While admissions are open nothing of an earlier process is left: the
\* directory holds no document of it, so by write-ahead no resource either.
THEOREM AdmissionsFailClosed == Spec => []FailClosed
<1>1. ASSUME IInv, svc = "open", NEW d \in Docs, pc[d] = "none"
      PROVE  file[d] = Absent /\ dir[d] = "absent" /\ proc[d] # "running"
  <2>1. Backed(d, file[d]) /\ ScanInv(d)
    BY <1>1 DEF IInv
  <2>2. file[d] = Absent
    BY <1>1, <2>1 DEF ScanInv
  <2>3. file[d].staging = "no" /\ file[d].qemu = "no"
    BY <2>2 DEF Absent
  <2> QED
    BY <2>1, <2>2, <2>3 DEF Backed
<1>2. IInv => FailClosed
    BY <1>1 DEF FailClosed
<1> QED
    BY <1>2, LedgerInductive, PTL

-----------------------------------------------------------------------------
(* The action properties, from AloofInv on top of the invariant.           *)

Aloof == TypeOK /\ \A d \in Docs : AloofInv(d)

\* What Reserve leaves alone.
LEMMA ReserveSpares ==
    ASSUME IInv, Aloof, TypeOK', NEW d \in Docs, Reserve(d)
    PROVE  \A x \in Docs : AloofInv(x)' /\ Spares(x)
<1> SUFFICES ASSUME NEW x \in Docs PROVE AloofInv(x)' /\ Spares(x)
    OBVIOUS
<1> USE DEF Aloof
<1>1. AloofInv(x)'
    BY LedgerAssumption DEF Reserve, Move, TypeOK, AloofInv, Spares, disk, RecoverySteps, WriteSteps, Document, With, Absent, Torn, Reserved
<1>2. Spares(x)
    BY LedgerAssumption DEF Reserve, Move, TypeOK, AloofInv, Spares, disk, RecoverySteps, WriteSteps, Document, With, Absent, Torn, Reserved
<1> QED
    BY <1>1, <1>2

\* What FinishReserve leaves alone.
LEMMA FinishReserveSpares ==
    ASSUME IInv, Aloof, TypeOK', NEW d \in Docs, FinishReserve(d)
    PROVE  \A x \in Docs : AloofInv(x)' /\ Spares(x)
<1> SUFFICES ASSUME NEW x \in Docs PROVE AloofInv(x)' /\ Spares(x)
    OBVIOUS
<1> USE DEF Aloof
<1>1. AloofInv(x)'
  <2>1. CASE x # d
    BY <2>1, LedgerAssumption DEF FinishReserve, Move, TypeOK, AloofInv, Spares, disk, RecoverySteps, WriteSteps, Document, With, Absent, Torn, Reserved
  <2>2. CASE x = d /\ pc'[d] = "reserved"
    <3>1. /\ file'[d] = Reserved /\ mem'[d] = Reserved /\ pc[d] = "creating"
          /\ proc' = proc /\ dir' = dir
      BY <2>2 DEF FinishReserve, Move, TypeOK
    <3> QED
      BY <2>2, <3>1 DEF AloofInv, Reserved, RecoverySteps
  <2>3. CASE x = d /\ pc'[d] = "none"
    BY <2>3, LedgerAssumption DEF FinishReserve, Move, TypeOK, AloofInv, Spares, disk, RecoverySteps, WriteSteps, Document, With, Absent, Torn, Reserved
  <2> QED
    BY <2>1, <2>2, <2>3 DEF FinishReserve, Move, TypeOK
<1>2. Spares(x)
    BY LedgerAssumption DEF FinishReserve, Move, TypeOK, AloofInv, Spares, disk, RecoverySteps, WriteSteps, Document, With, Absent, Torn, Reserved
<1> QED
    BY <1>1, <1>2

\* What IntentStaging leaves alone.
LEMMA IntentStagingSpares ==
    ASSUME IInv, Aloof, TypeOK', NEW d \in Docs, IntentStaging(d)
    PROVE  \A x \in Docs : AloofInv(x)' /\ Spares(x)
<1> SUFFICES ASSUME NEW x \in Docs PROVE AloofInv(x)' /\ Spares(x)
    OBVIOUS
<1> USE DEF Aloof
<1>1. AloofInv(x)'
    BY LedgerAssumption DEF IntentStaging, Persist, TypeOK, AloofInv, Spares, disk, RecoverySteps, WriteSteps, Document, With, Absent, Torn, Reserved
<1>2. Spares(x)
    BY LedgerAssumption DEF IntentStaging, Persist, TypeOK, AloofInv, Spares, disk, RecoverySteps, WriteSteps, Document, With, Absent, Torn, Reserved
<1> QED
    BY <1>1, <1>2

\* What CreateDir leaves alone.
LEMMA CreateDirSpares ==
    ASSUME IInv, Aloof, TypeOK', NEW d \in Docs, CreateDir(d)
    PROVE  \A x \in Docs : AloofInv(x)' /\ Spares(x)
<1> SUFFICES ASSUME NEW x \in Docs PROVE AloofInv(x)' /\ Spares(x)
    OBVIOUS
<1> USE DEF Aloof
<1>1. AloofInv(x)'
    BY LedgerAssumption DEF CreateDir, Move, TypeOK, AloofInv, Spares, disk, RecoverySteps, WriteSteps, Document
<1>2. Spares(x)
    BY LedgerAssumption DEF CreateDir, Move, TypeOK, AloofInv, Spares, disk, RecoverySteps, WriteSteps, Document
<1> QED
    BY <1>1, <1>2

\* What CommitStaging leaves alone.
LEMMA CommitStagingSpares ==
    ASSUME IInv, Aloof, TypeOK', NEW d \in Docs, CommitStaging(d)
    PROVE  \A x \in Docs : AloofInv(x)' /\ Spares(x)
<1> SUFFICES ASSUME NEW x \in Docs PROVE AloofInv(x)' /\ Spares(x)
    OBVIOUS
<1> USE DEF Aloof
<1>1. AloofInv(x)'
    BY LedgerAssumption DEF CommitStaging, Persist, TypeOK, AloofInv, Spares, disk, RecoverySteps, WriteSteps, Document, With, Absent, Torn, Reserved
<1>2. Spares(x)
    BY LedgerAssumption DEF CommitStaging, Persist, TypeOK, AloofInv, Spares, disk, RecoverySteps, WriteSteps, Document, With, Absent, Torn, Reserved
<1> QED
    BY <1>1, <1>2

\* What PrepareFails leaves alone.
LEMMA PrepareFailsSpares ==
    ASSUME IInv, Aloof, TypeOK', NEW d \in Docs, PrepareFails(d)
    PROVE  \A x \in Docs : AloofInv(x)' /\ Spares(x)
<1> SUFFICES ASSUME NEW x \in Docs PROVE AloofInv(x)' /\ Spares(x)
    OBVIOUS
<1> USE DEF Aloof
<1>1. AloofInv(x)'
    BY LedgerAssumption DEF PrepareFails, Move, TypeOK, AloofInv, Spares, disk, RecoverySteps, WriteSteps, Document
<1>2. Spares(x)
  <2>1. CASE x # d
    BY <2>1 DEF PrepareFails, Move, TypeOK, Spares, disk, RecoverySteps, WriteSteps, Document
  <2>2. CASE x = d
    BY <2>2, LedgerAssumption DEF PrepareFails, Move, TypeOK, AloofInv, Spares, disk, RecoverySteps, WriteSteps, Document, IInv, StepInv, PausedSteps, BackedSteps, Backed
  <2> QED
    BY <2>1, <2>2
<1> QED
    BY <1>1, <1>2

\* What StartVm leaves alone.
LEMMA StartVmSpares ==
    ASSUME IInv, Aloof, TypeOK', NEW d \in Docs, StartVm(d)
    PROVE  \A x \in Docs : AloofInv(x)' /\ Spares(x)
<1> SUFFICES ASSUME NEW x \in Docs PROVE AloofInv(x)' /\ Spares(x)
    OBVIOUS
<1> USE DEF Aloof
<1>1. AloofInv(x)'
    BY LedgerAssumption DEF StartVm, Persist, TypeOK, AloofInv, Spares, disk, RecoverySteps, WriteSteps, Document, With, Absent, Torn, Reserved
<1>2. Spares(x)
    BY LedgerAssumption DEF StartVm, Persist, TypeOK, AloofInv, Spares, disk, RecoverySteps, WriteSteps, Document, With, Absent, Torn, Reserved
<1> QED
    BY <1>1, <1>2

\* What PrepareJournal leaves alone.
LEMMA PrepareJournalSpares ==
    ASSUME IInv, Aloof, TypeOK', NEW d \in Docs, PrepareJournal(d)
    PROVE  \A x \in Docs : AloofInv(x)' /\ Spares(x)
<1> SUFFICES ASSUME NEW x \in Docs PROVE AloofInv(x)' /\ Spares(x)
    OBVIOUS
<1> USE DEF Aloof
<1>1. AloofInv(x)'
    BY LedgerAssumption DEF PrepareJournal, Persist, TypeOK, AloofInv, Spares, disk, RecoverySteps, WriteSteps, Document, With, Absent, Torn, Reserved
<1>2. Spares(x)
    BY LedgerAssumption DEF PrepareJournal, Persist, TypeOK, AloofInv, Spares, disk, RecoverySteps, WriteSteps, Document, With, Absent, Torn, Reserved
<1> QED
    BY <1>1, <1>2

\* What SpawnSuspended leaves alone.
LEMMA SpawnSuspendedSpares ==
    ASSUME IInv, Aloof, TypeOK', NEW d \in Docs, SpawnSuspended(d)
    PROVE  \A x \in Docs : AloofInv(x)' /\ Spares(x)
<1> SUFFICES ASSUME NEW x \in Docs PROVE AloofInv(x)' /\ Spares(x)
    OBVIOUS
<1> USE DEF Aloof
<1>1. AloofInv(x)'
    BY LedgerAssumption DEF SpawnSuspended, SetProc, Move, TypeOK, AloofInv, Spares, disk, RecoverySteps, WriteSteps, Document
<1>2. Spares(x)
    BY LedgerAssumption DEF SpawnSuspended, SetProc, Move, TypeOK, AloofInv, Spares, disk, RecoverySteps, WriteSteps, Document
<1> QED
    BY <1>1, <1>2

\* What AssignProcess leaves alone.
LEMMA AssignProcessSpares ==
    ASSUME IInv, Aloof, TypeOK', NEW d \in Docs, AssignProcess(d)
    PROVE  \A x \in Docs : AloofInv(x)' /\ Spares(x)
<1> SUFFICES ASSUME NEW x \in Docs PROVE AloofInv(x)' /\ Spares(x)
    OBVIOUS
<1> USE DEF Aloof
<1>1. AloofInv(x)'
    BY LedgerAssumption DEF AssignProcess, SetProc, Move, TypeOK, AloofInv, Spares, disk, RecoverySteps, WriteSteps, Document
<1>2. Spares(x)
    BY LedgerAssumption DEF AssignProcess, SetProc, Move, TypeOK, AloofInv, Spares, disk, RecoverySteps, WriteSteps, Document
<1> QED
    BY <1>1, <1>2

\* What CommitJournal leaves alone.
LEMMA CommitJournalSpares ==
    ASSUME IInv, Aloof, TypeOK', NEW d \in Docs, CommitJournal(d)
    PROVE  \A x \in Docs : AloofInv(x)' /\ Spares(x)
<1> SUFFICES ASSUME NEW x \in Docs PROVE AloofInv(x)' /\ Spares(x)
    OBVIOUS
<1> USE DEF Aloof
<1>1. AloofInv(x)'
    BY LedgerAssumption DEF CommitJournal, Persist, TypeOK, AloofInv, Spares, disk, RecoverySteps, WriteSteps, Document, With, Absent, Torn, Reserved
<1>2. Spares(x)
    BY LedgerAssumption DEF CommitJournal, Persist, TypeOK, AloofInv, Spares, disk, RecoverySteps, WriteSteps, Document, With, Absent, Torn, Reserved
<1> QED
    BY <1>1, <1>2

\* What ResumeThread leaves alone.
LEMMA ResumeThreadSpares ==
    ASSUME IInv, Aloof, TypeOK', NEW d \in Docs, ResumeThread(d)
    PROVE  \A x \in Docs : AloofInv(x)' /\ Spares(x)
<1> SUFFICES ASSUME NEW x \in Docs PROVE AloofInv(x)' /\ Spares(x)
    OBVIOUS
<1> USE DEF Aloof
<1>1. AloofInv(x)'
    BY LedgerAssumption DEF ResumeThread, SetProc, Move, TypeOK, AloofInv, Spares, disk, RecoverySteps, WriteSteps, Document
<1>2. Spares(x)
    BY LedgerAssumption DEF ResumeThread, SetProc, Move, TypeOK, AloofInv, Spares, disk, RecoverySteps, WriteSteps, Document
<1> QED
    BY <1>1, <1>2

\* What SetRunning leaves alone.
LEMMA SetRunningSpares ==
    ASSUME IInv, Aloof, TypeOK', NEW d \in Docs, SetRunning(d)
    PROVE  \A x \in Docs : AloofInv(x)' /\ Spares(x)
<1> SUFFICES ASSUME NEW x \in Docs PROVE AloofInv(x)' /\ Spares(x)
    OBVIOUS
<1> USE DEF Aloof
<1>1. AloofInv(x)'
    BY LedgerAssumption DEF SetRunning, Persist, TypeOK, AloofInv, Spares, disk, RecoverySteps, WriteSteps, Document, With, Absent, Torn, Reserved
<1>2. Spares(x)
    BY LedgerAssumption DEF SetRunning, Persist, TypeOK, AloofInv, Spares, disk, RecoverySteps, WriteSteps, Document, With, Absent, Torn, Reserved
<1> QED
    BY <1>1, <1>2

\* What BootFails leaves alone.
LEMMA BootFailsSpares ==
    ASSUME IInv, Aloof, TypeOK', NEW d \in Docs, BootFails(d)
    PROVE  \A x \in Docs : AloofInv(x)' /\ Spares(x)
<1> SUFFICES ASSUME NEW x \in Docs PROVE AloofInv(x)' /\ Spares(x)
    OBVIOUS
<1> USE DEF Aloof
<1>1. AloofInv(x)'
    BY LedgerAssumption DEF BootFails, TypeOK, AloofInv, Spares, disk, RecoverySteps, WriteSteps, Document
<1>2. Spares(x)
    BY LedgerAssumption DEF BootFails, TypeOK, AloofInv, Spares, disk, RecoverySteps, WriteSteps, Document
<1> QED
    BY <1>1, <1>2

\* What StopFailedBoot leaves alone.
LEMMA StopFailedBootSpares ==
    ASSUME IInv, Aloof, TypeOK', NEW d \in Docs, StopFailedBoot(d)
    PROVE  \A x \in Docs : AloofInv(x)' /\ Spares(x)
<1> SUFFICES ASSUME NEW x \in Docs PROVE AloofInv(x)' /\ Spares(x)
    OBVIOUS
<1> USE DEF Aloof
<1>1. AloofInv(x)'
    BY LedgerAssumption DEF StopFailedBoot, SetProc, Move, TypeOK, AloofInv, Spares, disk, RecoverySteps, WriteSteps, Document
<1>2. Spares(x)
  <2>1. CASE x # d
    BY <2>1 DEF StopFailedBoot, SetProc, Move, TypeOK, Spares, disk, RecoverySteps, WriteSteps, Document
  <2>2. CASE x = d
    BY <2>2, LedgerAssumption DEF StopFailedBoot, SetProc, Move, TypeOK, AloofInv, Spares, disk, RecoverySteps, WriteSteps, Document
  <2> QED
    BY <2>1, <2>2
<1> QED
    BY <1>1, <1>2

\* What CleanupFailedBoot leaves alone.
LEMMA CleanupFailedBootSpares ==
    ASSUME IInv, Aloof, TypeOK', NEW d \in Docs, CleanupFailedBoot(d)
    PROVE  \A x \in Docs : AloofInv(x)' /\ Spares(x)
<1> SUFFICES ASSUME NEW x \in Docs PROVE AloofInv(x)' /\ Spares(x)
    OBVIOUS
<1> USE DEF Aloof
<1>1. AloofInv(x)'
    BY LedgerAssumption DEF CleanupFailedBoot, Move, TypeOK, AloofInv, Spares, disk, RecoverySteps, WriteSteps, Document
<1>2. Spares(x)
  <2>1. CASE x # d
    BY <2>1 DEF CleanupFailedBoot, Move, TypeOK, Spares, disk, RecoverySteps, WriteSteps, Document
  <2>2. CASE x = d
    BY <2>2, LedgerAssumption DEF CleanupFailedBoot, Move, TypeOK, AloofInv, Spares, disk, RecoverySteps, WriteSteps, Document
  <2> QED
    BY <2>1, <2>2
<1> QED
    BY <1>1, <1>2

\* What JobKill leaves alone.
LEMMA JobKillSpares ==
    ASSUME IInv, Aloof, TypeOK', NEW d \in Docs, JobKill(d)
    PROVE  \A x \in Docs : AloofInv(x)' /\ Spares(x)
<1> SUFFICES ASSUME NEW x \in Docs PROVE AloofInv(x)' /\ Spares(x)
    OBVIOUS
<1> USE DEF Aloof
<1>1. AloofInv(x)'
    BY LedgerAssumption DEF JobKill, TypeOK, AloofInv, Spares, disk, RecoverySteps, WriteSteps, Document
<1>2. Spares(x)
    BY LedgerAssumption DEF JobKill, TypeOK, AloofInv, Spares, disk, RecoverySteps, WriteSteps, Document
<1> QED
    BY <1>1, <1>2

\* What StopVm leaves alone.
LEMMA StopVmSpares ==
    ASSUME IInv, Aloof, TypeOK', NEW d \in Docs, StopVm(d)
    PROVE  \A x \in Docs : AloofInv(x)' /\ Spares(x)
<1> SUFFICES ASSUME NEW x \in Docs PROVE AloofInv(x)' /\ Spares(x)
    OBVIOUS
<1> USE DEF Aloof
<1>1. AloofInv(x)'
    BY LedgerAssumption DEF StopVm, SetProc, Move, TypeOK, AloofInv, Spares, disk, RecoverySteps, WriteSteps, Document
<1>2. Spares(x)
  <2>1. CASE x # d
    BY <2>1 DEF StopVm, SetProc, Move, TypeOK, Spares, disk, RecoverySteps, WriteSteps, Document
  <2>2. CASE x = d
    BY <2>2, LedgerAssumption DEF StopVm, SetProc, Move, TypeOK, AloofInv, Spares, disk, RecoverySteps, WriteSteps, Document
  <2> QED
    BY <2>1, <2>2
<1> QED
    BY <1>1, <1>2

\* What RemoveInstance leaves alone.
LEMMA RemoveInstanceSpares ==
    ASSUME IInv, Aloof, TypeOK', NEW d \in Docs, RemoveInstance(d)
    PROVE  \A x \in Docs : AloofInv(x)' /\ Spares(x)
<1> SUFFICES ASSUME NEW x \in Docs PROVE AloofInv(x)' /\ Spares(x)
    OBVIOUS
<1> USE DEF Aloof
<1>1. AloofInv(x)'
    BY LedgerAssumption DEF RemoveInstance, Move, TypeOK, AloofInv, Spares, disk, RecoverySteps, WriteSteps, Document
<1>2. Spares(x)
  <2>1. CASE x # d
    BY <2>1 DEF RemoveInstance, Move, TypeOK, Spares, disk, RecoverySteps, WriteSteps, Document
  <2>2. CASE x = d
    BY <2>2, LedgerAssumption DEF RemoveInstance, Move, TypeOK, AloofInv, Spares, disk, RecoverySteps, WriteSteps, Document, IInv, StepInv, PausedSteps, BackedSteps, Backed
  <2> QED
    BY <2>1, <2>2
<1> QED
    BY <1>1, <1>2

\* What FinishCleaning leaves alone.
LEMMA FinishCleaningSpares ==
    ASSUME IInv, Aloof, TypeOK', NEW d \in Docs, FinishCleaning(d)
    PROVE  \A x \in Docs : AloofInv(x)' /\ Spares(x)
<1> SUFFICES ASSUME NEW x \in Docs PROVE AloofInv(x)' /\ Spares(x)
    OBVIOUS
<1> USE DEF Aloof
<1>1. AloofInv(x)'
    BY LedgerAssumption DEF FinishCleaning, Persist, TypeOK, AloofInv, Spares, disk, RecoverySteps, WriteSteps, Document, With, Absent, Torn, Reserved
<1>2. Spares(x)
    BY LedgerAssumption DEF FinishCleaning, Persist, TypeOK, AloofInv, Spares, disk, RecoverySteps, WriteSteps, Document, With, Absent, Torn, Reserved
<1> QED
    BY <1>1, <1>2

\* What FinishClear leaves alone.
LEMMA FinishClearSpares ==
    ASSUME IInv, Aloof, TypeOK', NEW d \in Docs, FinishClear(d)
    PROVE  \A x \in Docs : AloofInv(x)' /\ Spares(x)
<1> SUFFICES ASSUME NEW x \in Docs PROVE AloofInv(x)' /\ Spares(x)
    OBVIOUS
<1> USE DEF Aloof
<1>1. AloofInv(x)'
    BY LedgerAssumption DEF FinishClear, Persist, TypeOK, AloofInv, Spares, disk, RecoverySteps, WriteSteps, Document, With, Absent, Torn, Reserved
<1>2. Spares(x)
    BY LedgerAssumption DEF FinishClear, Persist, TypeOK, AloofInv, Spares, disk, RecoverySteps, WriteSteps, Document, With, Absent, Torn, Reserved
<1> QED
    BY <1>1, <1>2

\* What FinishRemove leaves alone.
LEMMA FinishRemoveSpares ==
    ASSUME IInv, Aloof, TypeOK', NEW d \in Docs, FinishRemove(d)
    PROVE  \A x \in Docs : AloofInv(x)' /\ Spares(x)
<1> SUFFICES ASSUME NEW x \in Docs PROVE AloofInv(x)' /\ Spares(x)
    OBVIOUS
<1> USE DEF Aloof
<1>1. AloofInv(x)'
    BY LedgerAssumption DEF FinishRemove, Move, TypeOK, AloofInv, Spares, disk, RecoverySteps, WriteSteps, Document, With, Absent, Torn, Reserved
<1>2. Spares(x)
    BY LedgerAssumption DEF FinishRemove, Move, TypeOK, AloofInv, Spares, disk, RecoverySteps, WriteSteps, Document, With, Absent, Torn, Reserved
<1> QED
    BY <1>1, <1>2

\* What Replace leaves alone.
LEMMA ReplaceSpares ==
    ASSUME IInv, Aloof, TypeOK', NEW d \in Docs, Replace(d)
    PROVE  \A x \in Docs : AloofInv(x)' /\ Spares(x)
<1> SUFFICES ASSUME NEW x \in Docs PROVE AloofInv(x)' /\ Spares(x)
    OBVIOUS
<1> USE DEF Aloof
<1>1. AloofInv(x)'
    BY LedgerAssumption DEF Replace, AfterWrite, TypeOK, AloofInv, Spares, disk, RecoverySteps, WriteSteps, Document
<1>2. Spares(x)
    BY LedgerAssumption DEF Replace, AfterWrite, TypeOK, AloofInv, Spares, disk, RecoverySteps, WriteSteps, Document
<1> QED
    BY <1>1, <1>2

\* What WriteFails leaves alone.
LEMMA WriteFailsSpares ==
    ASSUME IInv, Aloof, TypeOK', NEW d \in Docs, WriteFails(d)
    PROVE  \A x \in Docs : AloofInv(x)' /\ Spares(x)
<1> SUFFICES ASSUME NEW x \in Docs PROVE AloofInv(x)' /\ Spares(x)
    OBVIOUS
<1> USE DEF Aloof
<1>1. AloofInv(x)'
    BY LedgerAssumption DEF WriteFails, TypeOK, AloofInv, Spares, disk, RecoverySteps, WriteSteps, Document
<1>2. Spares(x)
    BY LedgerAssumption DEF WriteFails, TypeOK, AloofInv, Spares, disk, RecoverySteps, WriteSteps, Document
<1> QED
    BY <1>1, <1>2

\* What StartFails leaves alone.
LEMMA StartFailsSpares ==
    ASSUME IInv, Aloof, TypeOK', NEW d \in Docs, StartFails(d)
    PROVE  \A x \in Docs : AloofInv(x)' /\ Spares(x)
<1> SUFFICES ASSUME NEW x \in Docs PROVE AloofInv(x)' /\ Spares(x)
    OBVIOUS
<1> USE DEF Aloof
<1>1. AloofInv(x)'
    BY LedgerAssumption DEF StartFails, TypeOK, AloofInv, Spares, disk, RecoverySteps, WriteSteps, Document, With, Absent, Torn, Reserved
<1>2. Spares(x)
    BY LedgerAssumption DEF StartFails, TypeOK, AloofInv, Spares, disk, RecoverySteps, WriteSteps, Document, With, Absent, Torn, Reserved
<1> QED
    BY <1>1, <1>2

\* What RemoveQemu leaves alone.
LEMMA RemoveQemuSpares ==
    ASSUME IInv, Aloof, TypeOK', NEW d \in Docs, RemoveQemu(d)
    PROVE  \A x \in Docs : AloofInv(x)' /\ Spares(x)
<1> SUFFICES ASSUME NEW x \in Docs PROVE AloofInv(x)' /\ Spares(x)
    OBVIOUS
<1> USE DEF Aloof
<1>1. AloofInv(x)'
    BY LedgerAssumption DEF RemoveQemu, Persist, Move, TypeOK, AloofInv, Spares, disk, RecoverySteps, WriteSteps, Document, With, Absent, Torn, Reserved
<1>2. Spares(x)
  <2>1. CASE x # d
    BY <2>1 DEF RemoveQemu, Persist, Move, TypeOK, Spares, disk, RecoverySteps, WriteSteps, Document, With, Absent, Torn, Reserved
  <2>2. CASE x = d
    BY <2>2, LedgerAssumption DEF RemoveQemu, Persist, Move, TypeOK, AloofInv, Spares, disk, RecoverySteps, WriteSteps, Document, With, Absent, Torn, Reserved
  <2> QED
    BY <2>1, <2>2
<1> QED
    BY <1>1, <1>2

\* What RemoveStagingRoot leaves alone.
LEMMA RemoveStagingRootSpares ==
    ASSUME IInv, Aloof, TypeOK', NEW d \in Docs, RemoveStagingRoot(d)
    PROVE  \A x \in Docs : AloofInv(x)' /\ Spares(x)
<1> SUFFICES ASSUME NEW x \in Docs PROVE AloofInv(x)' /\ Spares(x)
    OBVIOUS
<1> USE DEF Aloof
<1>1. AloofInv(x)'
    BY LedgerAssumption DEF RemoveStagingRoot, Persist, Move, TypeOK, AloofInv, Spares, disk, RecoverySteps, WriteSteps, Document, With, Absent, Torn, Reserved
<1>2. Spares(x)
  <2>1. CASE x # d
    BY <2>1 DEF RemoveStagingRoot, Persist, Move, TypeOK, Spares, disk, RecoverySteps, WriteSteps, Document, With, Absent, Torn, Reserved
  <2>2. CASE x = d
    BY <2>2, LedgerAssumption DEF RemoveStagingRoot, Persist, Move, TypeOK, AloofInv, Spares, disk, RecoverySteps, WriteSteps, Document, With, Absent, Torn, Reserved, IInv, StepInv, PausedSteps, BackedSteps, Backed
  <2> QED
    BY <2>1, <2>2
<1> QED
    BY <1>1, <1>2

\* What PopRecord leaves alone.
LEMMA PopRecordSpares ==
    ASSUME IInv, Aloof, TypeOK', NEW d \in Docs, PopRecord(d)
    PROVE  \A x \in Docs : AloofInv(x)' /\ Spares(x)
<1> SUFFICES ASSUME NEW x \in Docs PROVE AloofInv(x)' /\ Spares(x)
    OBVIOUS
<1> USE DEF Aloof
<1>1. AloofInv(x)'
    BY LedgerAssumption DEF PopRecord, Persist, TypeOK, AloofInv, Spares, disk, RecoverySteps, WriteSteps, Document, With, Absent, Torn, Reserved
<1>2. Spares(x)
    BY LedgerAssumption DEF PopRecord, Persist, TypeOK, AloofInv, Spares, disk, RecoverySteps, WriteSteps, Document, With, Absent, Torn, Reserved
<1> QED
    BY <1>1, <1>2

\* What RemoveLedger leaves alone.
LEMMA RemoveLedgerSpares ==
    ASSUME IInv, Aloof, TypeOK', NEW d \in Docs, RemoveLedger(d)
    PROVE  \A x \in Docs : AloofInv(x)' /\ Spares(x)
<1> SUFFICES ASSUME NEW x \in Docs PROVE AloofInv(x)' /\ Spares(x)
    OBVIOUS
<1> USE DEF Aloof
<1>1. AloofInv(x)'
    BY LedgerAssumption DEF RemoveLedger, Move, TypeOK, AloofInv, Spares, disk, RecoverySteps, WriteSteps, Document, With, Absent, Torn, Reserved
<1>2. Spares(x)
    BY LedgerAssumption DEF RemoveLedger, Move, TypeOK, AloofInv, Spares, disk, RecoverySteps, WriteSteps, Document, With, Absent, Torn, Reserved
<1> QED
    BY <1>1, <1>2

\* What RecoveryKept leaves alone.
LEMMA RecoveryKeptSpares ==
    ASSUME IInv, Aloof, TypeOK', NEW d \in Docs, RecoveryKept(d)
    PROVE  \A x \in Docs : AloofInv(x)' /\ Spares(x)
<1> SUFFICES ASSUME NEW x \in Docs PROVE AloofInv(x)' /\ Spares(x)
    OBVIOUS
<1> USE DEF Aloof
<1>1. AloofInv(x)'
    BY LedgerAssumption DEF RecoveryKept, Move, TypeOK, AloofInv, Spares, disk, RecoverySteps, WriteSteps, Document
<1>2. Spares(x)
    BY LedgerAssumption DEF RecoveryKept, Move, TypeOK, AloofInv, Spares, disk, RecoverySteps, WriteSteps, Document
<1> QED
    BY <1>1, <1>2

\* What PidReused leaves alone.
LEMMA PidReusedSpares ==
    ASSUME IInv, Aloof, TypeOK', NEW d \in Docs, PidReused(d)
    PROVE  \A x \in Docs : AloofInv(x)' /\ Spares(x)
<1> SUFFICES ASSUME NEW x \in Docs PROVE AloofInv(x)' /\ Spares(x)
    OBVIOUS
<1> USE DEF Aloof
<1>1. AloofInv(x)'
    BY LedgerAssumption DEF PidReused, TypeOK, AloofInv, Spares, disk, RecoverySteps, WriteSteps, Document
<1>2. Spares(x)
    BY LedgerAssumption DEF PidReused, TypeOK, AloofInv, Spares, disk, RecoverySteps, WriteSteps, Document
<1> QED
    BY <1>1, <1>2

\* What DirReplaced leaves alone.
LEMMA DirReplacedSpares ==
    ASSUME IInv, Aloof, TypeOK', NEW d \in Docs, DirReplaced(d)
    PROVE  \A x \in Docs : AloofInv(x)' /\ Spares(x)
<1> SUFFICES ASSUME NEW x \in Docs PROVE AloofInv(x)' /\ Spares(x)
    OBVIOUS
<1> USE DEF Aloof
<1>1. AloofInv(x)'
    BY LedgerAssumption DEF DirReplaced, TypeOK, AloofInv, Spares, disk, RecoverySteps, WriteSteps, Document, IInv, PhaseInv
<1>2. Spares(x)
    BY LedgerAssumption DEF DirReplaced, TypeOK, AloofInv, Spares, disk, RecoverySteps, WriteSteps, Document
<1> QED
    BY <1>1, <1>2

\* What ScanEntry leaves alone.
LEMMA ScanEntrySpares ==
    ASSUME IInv, Aloof, TypeOK', NEW e \in todo, ScanEntry(e)
    PROVE  \A x \in Docs : AloofInv(x)' /\ Spares(x)
<1> SUFFICES ASSUME NEW x \in Docs PROVE AloofInv(x)' /\ Spares(x)
    OBVIOUS
<1> USE DEF Aloof
<1>1. AloofInv(x)'
    BY LedgerAssumption DEF ScanEntry, BadEntry, TypeOK, AloofInv, Spares, disk, RecoverySteps, WriteSteps, Document, With, Absent, Torn, Reserved
<1>2. Spares(x)
    BY LedgerAssumption DEF ScanEntry, BadEntry, TypeOK, AloofInv, Spares, disk, RecoverySteps, WriteSteps, Document, With, Absent, Torn, Reserved
<1> QED
    BY <1>1, <1>2

\* What RecoverDocument leaves alone.
LEMMA RecoverDocumentSpares ==
    ASSUME IInv, Aloof, TypeOK', NEW e \in todo, RecoverDocument(e)
    PROVE  \A x \in Docs : AloofInv(x)' /\ Spares(x)
<1> SUFFICES ASSUME NEW x \in Docs PROVE AloofInv(x)' /\ Spares(x)
    OBVIOUS
<1> USE DEF Aloof
<1>1. AloofInv(x)'
    BY LedgerAssumption DEF RecoverDocument, Persist, TypeOK, AloofInv, Spares, disk, RecoverySteps, WriteSteps, Document, With, Absent, Torn, Reserved
<1>2. Spares(x)
    BY LedgerAssumption DEF RecoverDocument, Persist, TypeOK, AloofInv, Spares, disk, RecoverySteps, WriteSteps, Document, With, Absent, Torn, Reserved
<1> QED
    BY <1>1, <1>2

\* What StartService leaves alone.
LEMMA StartServiceSpares ==
    ASSUME IInv, Aloof, TypeOK', StartService
    PROVE  \A x \in Docs : AloofInv(x)' /\ Spares(x)
<1> SUFFICES ASSUME NEW x \in Docs PROVE AloofInv(x)' /\ Spares(x)
    OBVIOUS
<1> USE DEF Aloof
<1>1. AloofInv(x)'
    BY LedgerAssumption DEF StartService, TypeOK, AloofInv, Spares, disk, RecoverySteps, WriteSteps, Document, With, Absent, Torn, Reserved
<1>2. Spares(x)
    BY LedgerAssumption DEF StartService, TypeOK, AloofInv, Spares, disk, RecoverySteps, WriteSteps, Document, With, Absent, Torn, Reserved
<1> QED
    BY <1>1, <1>2

\* What FinishScan leaves alone.
LEMMA FinishScanSpares ==
    ASSUME IInv, Aloof, TypeOK', FinishScan
    PROVE  \A x \in Docs : AloofInv(x)' /\ Spares(x)
<1> SUFFICES ASSUME NEW x \in Docs PROVE AloofInv(x)' /\ Spares(x)
    OBVIOUS
<1> USE DEF Aloof
<1>1. AloofInv(x)'
    BY LedgerAssumption DEF FinishScan, TypeOK, AloofInv, Spares, disk, RecoverySteps, WriteSteps, Document, With, Absent, Torn, Reserved
<1>2. Spares(x)
    BY LedgerAssumption DEF FinishScan, TypeOK, AloofInv, Spares, disk, RecoverySteps, WriteSteps, Document, With, Absent, Torn, Reserved
<1> QED
    BY <1>1, <1>2

\* What FinishRecovery leaves alone.
LEMMA FinishRecoverySpares ==
    ASSUME IInv, Aloof, TypeOK', FinishRecovery
    PROVE  \A x \in Docs : AloofInv(x)' /\ Spares(x)
<1> SUFFICES ASSUME NEW x \in Docs PROVE AloofInv(x)' /\ Spares(x)
    OBVIOUS
<1> USE DEF Aloof
<1>1. AloofInv(x)'
    BY LedgerAssumption DEF FinishRecovery, TypeOK, AloofInv, Spares, disk, RecoverySteps, WriteSteps, Document
<1>2. Spares(x)
    BY LedgerAssumption DEF FinishRecovery, TypeOK, AloofInv, Spares, disk, RecoverySteps, WriteSteps, Document
<1> QED
    BY <1>1, <1>2

\* What Crash leaves alone.
LEMMA CrashSpares ==
    ASSUME IInv, Aloof, TypeOK', Crash
    PROVE  \A x \in Docs : AloofInv(x)' /\ Spares(x)
<1> SUFFICES ASSUME NEW x \in Docs PROVE AloofInv(x)' /\ Spares(x)
    OBVIOUS
<1> USE DEF Aloof
<1>1. AloofInv(x)'
    BY LedgerAssumption DEF Crash, Down, TypeOK, AloofInv, Spares, disk, RecoverySteps, WriteSteps, Document, With, Absent, Torn, Reserved
<1>2. Spares(x)
    BY LedgerAssumption DEF Crash, Down, TypeOK, AloofInv, Spares, disk, RecoverySteps, WriteSteps, Document, With, Absent, Torn, Reserved
<1> QED
    BY <1>1, <1>2

\* What StopService leaves alone.
LEMMA StopServiceSpares ==
    ASSUME IInv, Aloof, TypeOK', StopService
    PROVE  \A x \in Docs : AloofInv(x)' /\ Spares(x)
<1> SUFFICES ASSUME NEW x \in Docs PROVE AloofInv(x)' /\ Spares(x)
    OBVIOUS
<1> USE DEF Aloof
<1>1. AloofInv(x)'
    BY LedgerAssumption DEF StopService, Down, TypeOK, AloofInv, Spares, disk, RecoverySteps, WriteSteps, Document, With, Absent, Torn, Reserved
<1>2. Spares(x)
    BY LedgerAssumption DEF StopService, Down, TypeOK, AloofInv, Spares, disk, RecoverySteps, WriteSteps, Document, With, Absent, Torn, Reserved
<1> QED
    BY <1>1, <1>2

-----------------------------------------------------------------------------
\* Every step spares what it must.
LEMMA NextSpares ==
    ASSUME IInv, IInv', Aloof, [Next]_vars
    PROVE  \A x \in Docs : AloofInv(x)' /\ Spares(x)
<1>0. TypeOK'
    BY DEF IInv
<1>1. CASE \E d \in Docs : Boot(d)
    BY <1>0, <1>1,
       ReserveSpares, FinishReserveSpares, IntentStagingSpares,
       CreateDirSpares, CommitStagingSpares, PrepareFailsSpares, StartVmSpares,
       PrepareJournalSpares, SpawnSuspendedSpares, AssignProcessSpares,
       CommitJournalSpares, ResumeThreadSpares, SetRunningSpares,
       BootFailsSpares, StopFailedBootSpares, CleanupFailedBootSpares,
       JobKillSpares
       DEF Boot
<1>2. CASE \E d \in Docs : Teardown(d)
    BY <1>0, <1>2,
       StopVmSpares, RemoveInstanceSpares, FinishCleaningSpares,
       FinishClearSpares, FinishRemoveSpares DEF Teardown
<1>3. CASE \E d \in Docs : Recover(d)
    BY <1>0, <1>3,
       RemoveQemuSpares, RemoveStagingRootSpares, PopRecordSpares,
       RemoveLedgerSpares, RecoveryKeptSpares DEF Recover
<1>4. CASE \E d \in Docs : Replace(d) \/ WriteFails(d) \/ StartFails(d) \/ Host(d)
    BY <1>0, <1>4,
       ReplaceSpares, WriteFailsSpares, StartFailsSpares, PidReusedSpares,
       DirReplacedSpares DEF Host
<1>5. CASE \E e \in todo : ScanEntry(e) \/ RecoverDocument(e)
    BY <1>0, <1>5, ScanEntrySpares, RecoverDocumentSpares
<1>6. CASE StartService \/ FinishScan \/ FinishRecovery \/ Crash \/ StopService
    BY <1>0, <1>6,
       StartServiceSpares, FinishScanSpares, FinishRecoverySpares, CrashSpares,
       StopServiceSpares
<1>7. CASE UNCHANGED vars
    BY <1>7 DEF vars, Aloof, AloofInv, Spares
<1> QED
    BY <1>1, <1>2, <1>3, <1>4, <1>5, <1>6, <1>7 DEF Next

\* AloofInv holds throughout.
LEMMA AloofInductive == Spec => []Aloof
<1>1. Init => Aloof
    BY InitInv DEF Init, IInv, Aloof, AloofInv, Absent, RecoverySteps
<1>2. IInv /\ IInv' /\ Aloof /\ [Next]_vars => Aloof'
    BY NextSpares DEF IInv, Aloof
<1> QED
    BY <1>1, <1>2, LedgerInductive, PTL DEF Spec

\* The recovery terminates no process and deletes no directory whose identity
\* is not the recorded one (remove_qemu, remove_staging_root).
THEOREM UnprovenIsSpared == Spec => NothingUnprovenIsRemoved
<1>1. IInv /\ IInv' /\ Aloof /\ [Next]_vars
      => [\A d \in Docs : /\ proc[d] = "stranger" => proc'[d] = "stranger"
                          /\ dir[d] = "other" => dir'[d] = "other"]_vars
    BY NextSpares DEF Spares
<1> QED
    BY <1>1, LedgerInductive, AloofInductive, PTL DEF Spec, NothingUnprovenIsRemoved

\* Quarantine is final: no step rewrites or removes a quarantined document.
THEOREM QuarantineIsKept == Spec => QuarantineIsSticky
<1>1. IInv /\ IInv' /\ Aloof /\ [Next]_vars
      => [\A d \in Docs : file[d].state = "quarantined" => file'[d] = file[d]]_vars
    BY NextSpares DEF Spares
<1> QED
    BY <1>1, LedgerInductive, AloofInductive, PTL DEF Spec, QuarantineIsSticky

\* No teardown and no recovery deletes the disk of a QEMU that still runs.
THEOREM DiskOutlivesVm == Spec => NoDiskRemovedUnderVm
<1>1. IInv /\ IInv' /\ Aloof /\ [Next]_vars
      => [\A d \in Docs :
             dir[d] = "ours" /\ dir'[d] = "absent" /\ pc[d] # "rolling_back"
             => proc[d] # "running"]_vars
    BY NextSpares DEF Spares
<1> QED
    BY <1>1, LedgerInductive, AloofInductive, PTL DEF Spec, NoDiskRemovedUnderVm
=============
