------------------------- MODULE MCArtifactLifecycle -------------------------
(***************************************************************************)
(* Two configurations of ArtifactLifecycle, on the same variables.  One    *)
(* keeps what is not uploaded, and a worker may be killed and the file     *)
(* edited; the other uploads nothing, tries an image twice, and two        *)
(* workers may be killed.                                                  *)
(***************************************************************************)
EXTENDS ArtifactLifecycle

VARIABLE part

Local == INSTANCE ArtifactLifecycle WITH
  KeepUnverified <- FALSE, SyncEnabled <- FALSE, MaxAttempts <- 2, MaxCrashes <- 2, MaxEdits <- 0

ASSUME LifecycleAssumption /\ Local!LifecycleAssumption

LifecycleInit == part \in {"uploads", "local"} /\ Init

LifecycleNext ==
  \/ part = "uploads" /\ Next /\ UNCHANGED part
  \/ part = "local" /\ Local!Next /\ UNCHANGED part

LifecycleSpec == LifecycleInit /\ [][LifecycleNext]_<<part, vars>>

\* With deletion of unuploaded files off, no file that is READY is given up
\* unless what its row says was verified at the destination
\* (storage_maintenance.py cleanup() and due()).
KeptIfRequired == [][part = "uploads" => KeptUntilUploaded]_<<part, vars>>
=============================================================================
