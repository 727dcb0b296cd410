----------------------------- MODULE MCLiveness -----------------------------
(***************************************************************************)
(* What must happen at last: StoragePipeline, Supervisor and               *)
(* ArtifactLifecycle under the fairness that each of them states.  A       *)
(* behaviour is one part's and the others stay as they begin, so that a    *)
(* process of one part and a process of another may share a condition of   *)
(* weak fairness: in any behaviour it speaks of one of them.               *)
(***************************************************************************)
EXTENDS StoragePipeline

VARIABLES
  part,
  main, child, lock, names, made, robbed, devices, gpio, budget,   \* Supervisor
  \* ArtifactLifecycle; onDisk is its file
  row, upload, look, quota, onDisk, tmp, remote, inode, held, pc, at, fd, rows, verified, old,
  expired, crashes, edits

program == <<main, child, lock, names, made, robbed, devices, gpio, budget>>
artifact == <<row, upload, look, quota, onDisk, tmp, remote, inode, held, pc, at, fd, rows, verified,
              old, expired, crashes, edits>>
all == <<part, vars, program, artifact>>

P == INSTANCE Supervisor WITH
  Instances <- {1}, Budgets <- {[signals |-> 1, faults |-> 1, kills |-> 0, gpio |-> 0]}

A == INSTANCE ArtifactLifecycle WITH
  file <- onDisk, KeepUnverified <- FALSE, SyncEnabled <- FALSE, QuicklookEnabled <- TRUE,
  TombstoneMax <- 1, MaxAttempts <- 1, MaxCrashes <- 1, MaxEdits <- 0

ASSUME P!BoundsOfSupervisor /\ A!LifecycleAssumption

LivenessInit ==
  /\ part \in {"storage", "program", "artifact"}
  /\ Init /\ P!Init /\ A!Init

\* A step of one part, which the others sit out.
OfStorage(step) == part = "storage" /\ step /\ UNCHANGED <<part, program, artifact>>
OfProgram(step) == part = "program" /\ step /\ UNCHANGED <<part, vars, artifact>>
OfArtifact(step) == part = "artifact" /\ step /\ UNCHANGED <<part, vars, program>>

LivenessNext == OfStorage(Next) \/ OfProgram(P!Next) \/ OfArtifact(A!Next)

\* The processes of the parts.
Process1 == OfStorage(Worker) \/ OfProgram(P!MainStep(1)) \/ OfArtifact(A!WriterNext)
Process2 == OfProgram(P!Handle(1)) \/ OfArtifact(A!GeneratorNext)
Process3 == OfArtifact(A!CleanupNext \/ A!RecoverSteps("cleanup"))
Process4 == OfArtifact(A!SyncNext \/ A!RecoverSteps("sync"))

LivenessSpec ==
  /\ LivenessInit /\ [][LivenessNext]_all
  /\ WF_all(Process1) /\ WF_all(Process2) /\ WF_all(Process3) /\ WF_all(Process4)

-----------------------------------------------------------------------------
\* stop() returns whatever fails on the way, and a pause ends when its reason
\* does (storage/pipeline.cpp stop() and worker()).
WorkerGoesOn == StopReturns /\ PausesEnd

\* Whatever its receivers do, hang or lose their signals, an instance that is
\* interrupted or has lost one ends (main.cpp terminate_and_reap_all()).
EndsAtLast == P!EndsAtLast

\* A deletion that was begun, and a writing that lost its writer, are finished
\* by a later pass, whoever was killed, and what expires goes
\* (storage_maintenance.py recover() and cleanup()).
PendingEnds == A!PendingEnds /\ A!ExpiredIsDeleted
=============================================================================
